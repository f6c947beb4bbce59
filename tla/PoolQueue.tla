------------------------------ MODULE PoolQueue ----------------------------
(***************************************************************************)
(* What ctx::pool promises the code that submits closures to it, without   *)
(* the contexts, the dock or the available count: closures wait in one    *)
(* queue in the order they were submitted; a worker that runs no closure   *)
(* takes the oldest one; a worker runs one closure at a time, and every    *)
(* closure it takes is finished (it returns, or the worker is interrupted  *)
(* out of it).                                                             *)
(***************************************************************************)
EXTENDS Naturals, Sequences

CONSTANTS
    Workers,  \* the pool's worker contexts
    Jobs      \* the closures that may be submitted (never NoJob)

NoJob == 0

VARIABLES
    pending,  \* the submitted closures not yet taken, oldest first
    running   \* the closure each worker runs, NoJob for none

pqvars == <<pending, running>>

Init == pending = <<>> /\ running = [w \in Workers |-> NoJob]

Enqueue(j) ==
    /\ pending' = Append(pending, j)
    /\ UNCHANGED running

Start(w) ==
    /\ running[w] = NoJob
    /\ pending # <<>>
    /\ running' = [running EXCEPT ![w] = Head(pending)]
    /\ pending' = Tail(pending)

Finish(w) ==
    /\ running[w] # NoJob
    /\ running' = [running EXCEPT ![w] = NoJob]
    /\ UNCHANGED pending

Next ==
    \/ \E j \in Jobs : Enqueue(j)
    \/ \E w \in Workers : Start(w) \/ Finish(w)

Spec == Init /\ [][Next]_pqvars /\ \A w \in Workers : WF_pqvars(Finish(w))
=============================================================================
