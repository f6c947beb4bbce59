------------------------------- MODULE Pool --------------------------------
(***************************************************************************)
(* ircd::ctx::pool (src/unnamed/part_003:557-659) composed with the ctx    *)
(* scheduler.  The pool's worker contexts (Workers, spawned with POST by   *)
(* pool::add) run pool::main: ++available, then next() forever: wait on    *)
(* the dock until the closure queue is not empty, --available, pop the     *)
(* front closure and run it, ++available on the way out.  Submitters call  *)
(* pool::operator()(closure): push_back and dock.notify_one().  ~pool      *)
(* and pool::join delete the contexts from the back (~context:             *)
(* interrupt, join, delete), written in the owner's program.               *)
(*                                                                         *)
(* ctx::dock is declared in dock.h, which is not in the sources; it is     *)
(* modelled from the spec (4.1: a condition variable over task notes):     *)
(* wait(pred) returns at once if pred holds, else queues the context and   *)
(* loops `ctx::wait() until pred()', dequeuing itself on the way out;      *)
(* notify_one() notes the context at the front of its queue.               *)
(*                                                                         *)
(* A closure is abstracted to one suspension with a deadline               *)
(* (this_ctx::wait_for): enough for other contexts to run inside it.       *)
(***************************************************************************)
EXTENDS Ctx

CONSTANTS
    Workers   \* the contexts of the pool (pool::ctxs)

ASSUME Workers \subseteq Ctx

VARIABLES
    queue,      \* pool::queue: the submitted closures (job numbers)
    available,  \* pool::available
    dockq,      \* the dock's queue of waiting contexts
    ppc,        \* where each worker is in pool::main / next()
    job         \* the closure a worker is running (0: none)

poolvars == <<queue, available, dockq, ppc, job>>
poolall == <<vars, poolvars>>

\* ppc: "main" before ++available; "next" at the dock.wait call; "docked"
\* inside the dock's wait loop; "func" about to run the closure; "ret" the
\* closure returned; "exit" pool::main has returned.
PoolTypeOK ==
    /\ TypeOK
    /\ queue \in Seq(Nat)
    /\ available \in Int
    /\ dockq \in Seq(Workers)
    /\ ppc \in [Workers -> {"main", "next", "docked", "func", "ret", "exit"}]
    /\ job \in [Workers -> Nat]

\* The closures the programs submit.
Submitted ==
    UNION {{Prog[c][i].job : i \in {k \in DOMAIN Prog[c] :
                                        Prog[c][k].op = "submit"}} : c \in Ctx}

\* The worker w is on the CPU inside pool::main at point p.
InMain(w, p) == Calling(w, "poolmain") /\ ppc[w] = p

CtxFixed == <<cstate, pc, notes, interrupted, alarm, adjoindre, stack, iosq,
              yframe, ydone, ownership>>

-----------------------------------------------------------------------------
(* The worker contexts.                                                    *)

\* pool::main(): ++available; const unwind avail{--available};
MainEnter(w) ==
    /\ InMain(w, "main")
    /\ available' = available + 1
    /\ ppc' = [ppc EXCEPT ![w] = "next"]
    /\ UNCHANGED <<CtxFixed, queue, dockq, job>>

\* Mutant: next() takes the newest closure (queue.back(); pop_back).
TakeBack(w) ==
    /\ \/ InMain(w, "next")
       \/ InMain(w, "docked")
    /\ queue # <<>>
    /\ available' = available - 1
    /\ job' = [job EXCEPT ![w] = queue[Len(queue)]]
    /\ queue' = SubSeq(queue, 1, Len(queue) - 1)
    /\ dockq' = Remove(dockq, w)
    /\ ppc' = [ppc EXCEPT ![w] = "func"]
    /\ UNCHANGED CtxFixed

\* pool::next(): dock.wait([]{ return !queue.empty(); }); then
\* --available (restored by an unwind); func = queue.front(); pop_front.
\* The dock dequeues w as its wait returns.
Take(w) ==
    /\ \/ InMain(w, "next")
       \/ InMain(w, "docked")
    /\ queue # <<>>
    /\ available' = available - 1
    /\ job' = [job EXCEPT ![w] = Head(queue)]
    /\ queue' = Tail(queue)
    /\ dockq' = Remove(dockq, w)
    /\ ppc' = [ppc EXCEPT ![w] = "func"]
    /\ UNCHANGED CtxFixed

\* The dock's wait with an empty queue: enqueue (first time) and
\* ctx::wait(); after a wake the predicate is tested again.
DockWait(w) ==
    /\ \/ InMain(w, "next")
       \/ InMain(w, "docked")
    /\ queue = <<>>
    /\ dockq' = IF ppc[w] = "next" THEN Append(dockq, w) ELSE dockq
    /\ ppc' = [ppc EXCEPT ![w] = "docked"]
    /\ WaitCall(w, "inf", TRUE)
    /\ UNCHANGED <<adjoindre, yframe, ydone, ownership, queue, available, job>>

\* func(): the closure, suspended once with a deadline.
RunFunc(w) ==
    /\ InMain(w, "func")
    /\ ppc' = [ppc EXCEPT ![w] = "ret"]
    /\ WaitCall(w, "timed", TRUE)
    /\ UNCHANGED <<adjoindre, yframe, ydone, ownership, queue, available, dockq,
                   job>>

\* Mutant: next() forgets the unwind that restores available.
FuncReturnNoRestore(w) ==
    /\ InMain(w, "ret")
    /\ job' = [job EXCEPT ![w] = 0]
    /\ ppc' = [ppc EXCEPT ![w] = "next"]
    /\ UNCHANGED <<CtxFixed, queue, available, dockq>>

\* The closure returned: next()'s unwind ++available; main loops.
FuncReturn(w) ==
    /\ InMain(w, "ret")
    /\ available' = available + 1
    /\ job' = [job EXCEPT ![w] = 0]
    /\ ppc' = [ppc EXCEPT ![w] = "next"]
    /\ UNCHANGED <<CtxFixed, queue, dockq>>

\* The interrupted resume of a worker (Ctx's RunResume throws at the
\* interruption point): from the dock, its unwind dequeues the worker and
\* main's unwind --available; from inside the closure, next()'s unwind
\* ++available first, so the count is unchanged.  main catches
\* `interrupted' and returns.
WorkerUnwinding ==
    /\ stack = <<>>
    /\ iosq # <<>>
    /\ Head(iosq).h = "resume"
    /\ Head(iosq).c \in Workers
    /\ interrupted[Head(iosq).c]

WorkerUnwind ==
    LET w == Head(iosq).c
    IN  /\ WorkerUnwinding
        /\ RunResume
        /\ available' = IF ppc[w] = "docked" THEN available - 1 ELSE available
        /\ dockq' = Remove(dockq, w)
        /\ ppc' = [ppc EXCEPT ![w] = "exit"]
        /\ job' = [job EXCEPT ![w] = 0]
        /\ UNCHANGED queue

-----------------------------------------------------------------------------
(* Submitters.                                                             *)

\* dock::notify_one(): note the context at the front of the dock's queue.
DockNotifyOne(s) ==
    IF dockq = <<>> THEN s ELSE note(s, Head(dockq))

\* Mutant: operator() pushes the closure without notifying the dock.
SubmitNoNotify(c) ==
    /\ Calling(c, "submit")
    /\ queue' = Append(queue, Instr0(c).job)
    /\ pc' = [pc EXCEPT ![c] = @ + 1]
    /\ UNCHANGED <<cstate, notes, alarm, iosq, interrupted, adjoindre, stack,
                   yframe, ydone, ownership, available, dockq, ppc, job>>

\* pool::operator()(closure): queue.push_back(closure); dock.notify_one();
Submit(c) ==
    /\ Calling(c, "submit")
    /\ queue' = Append(queue, Instr0(c).job)
    /\ SetSched(DockNotifyOne(Sched))
    /\ pc' = [pc EXCEPT ![c] = @ + 1]
    /\ UNCHANGED <<cstate, interrupted, adjoindre, stack, yframe, ydone, ownership,
                   available, dockq, ppc, job>>

-----------------------------------------------------------------------------

PoolInit ==
    /\ Init
    /\ queue = <<>>
    /\ available = 0
    /\ dockq = <<>>
    /\ ppc = [w \in Workers |-> "main"]
    /\ job = [w \in Workers |-> 0]

PoolStep(w) ==
    MainEnter(w) \/ Take(w) \/ DockWait(w) \/ RunFunc(w) \/ FuncReturn(w)

PoolNext ==
    \/ /\ Next
       /\ UNCHANGED poolvars
       /\ ~(WorkerUnwinding /\ RunResume)
    \/ WorkerUnwind
    \/ \E w \in Workers : MainEnter(w) \/ Take(w) \/ DockWait(w)
    \/ \E w \in Workers : RunFunc(w) \/ FuncReturn(w)
    \/ \E c \in Ctx : Submit(c)

PoolFairness ==
    /\ \A c \in Ctx : /\ WF_poolall(Step(c) /\ UNCHANGED poolvars)
                      /\ WF_poolall(TimerFire(c) /\ UNCHANGED poolvars)
                      /\ WF_poolall(Submit(c))
    /\ \A w \in Workers : WF_poolall(PoolStep(w))
    /\ WF_poolall(\/ /\ RunSpawn \/ RunResume \/ RunRestore
                     /\ UNCHANGED poolvars
                     /\ ~(WorkerUnwinding /\ RunResume)
                  \/ WorkerUnwind)

PoolSpec == PoolInit /\ [][PoolNext]_poolall /\ PoolFairness
-----------------------------------------------------------------------------
(* Properties                                                              *)

\* pool::available counts the workers that are idle in next(): started,
\* past ++available and not running a closure, along every path through
\* main, next and their unwinds (interrupted at the dock or inside a
\* closure, precociously interrupted before main ran).
AvailableIdle ==
    available = Cardinality({w \in Workers : ppc[w] \in {"next", "docked"}})

\* dock.notify_one() in operator() reaches a worker that will take the
\* closure: while closures are queued, not every worker of the pool is
\* asleep on the dock with no note pending, unless the pool is being torn
\* down (a worker interrupted or deleted).
Asleep(w) == ppc[w] = "docked" /\ cstate[w] = "waiting" /\ notes[w] = 0

WorkNotStranded ==
    (queue # <<>> /\ \A w \in Workers : ~interrupted[w] /\ ownership[w] # "deleted")
        => \E w \in Workers : ~Asleep(w)
=============================================================================
