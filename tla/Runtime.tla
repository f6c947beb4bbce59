------------------------------ MODULE Runtime ------------------------------
(***************************************************************************)
(* The ctx runtime with both of its worker facilities at once: a ctx::pool *)
(* of worker contexts (Pool) and the ole offload thread (Ole), over the    *)
(* one scheduler (Ctx).  They share the io_service queue, `current' and    *)
(* the contexts' notes and alarms; a pool step leaves the offload state    *)
(* alone and an offload step the pool's.                                   *)
(***************************************************************************)
EXTENDS Pool, Ole

rtvars == <<vars, poolvars, olevars>>

RuntimeTypeOK == PoolTypeOK /\ OleTypeOK

RuntimeInit == PoolInit /\ OleInit

RuntimeNext ==
    \/ PoolNext /\ UNCHANGED olevars
    \/ \E c \in Ctx : OleIo(c) /\ UNCHANGED poolvars
    \/ OleWorker /\ UNCHANGED poolvars

\* The fairness of Pool and of Ole: every context's calls, the timers, the
\* io_service loop (with a pool worker's interrupted resume as its
\* unwind), the pool's submitters and workers, and the worker OS thread.
RuntimeFairness ==
    /\ \A c \in Ctx :
        /\ WF_rtvars(Step(c) /\ UNCHANGED <<poolvars, olevars>>)
        /\ WF_rtvars(TimerFire(c) /\ UNCHANGED <<poolvars, olevars>>)
        /\ WF_rtvars(Submit(c) /\ UNCHANGED olevars)
        /\ WF_rtvars(OleIo(c) /\ UNCHANGED poolvars)
    /\ \A w \in Workers : WF_rtvars(PoolStep(w) /\ UNCHANGED olevars)
    /\ WF_rtvars(\/ /\ RunSpawn \/ RunResume \/ RunRestore
                    /\ UNCHANGED <<poolvars, olevars>>
                    /\ ~(WorkerUnwinding /\ RunResume)
                 \/ WorkerUnwind /\ UNCHANGED olevars)
    /\ WF_rtvars(OleWorker /\ UNCHANGED poolvars)

RuntimeSpec == RuntimeInit /\ [][RuntimeNext]_rtvars /\ RuntimeFairness

-----------------------------------------------------------------------------
(* Refinement                                                              *)

\* The pool's queue is PoolQueue's pending closures and each worker's
\* `func' its running one; the contexts, the dock and the offload thread
\* are hidden.
PQ == INSTANCE PoolQueue WITH Workers <- Workers, Jobs <- Submitted,
                              pending <- queue, running <- job

\* The pool implements PoolQueue: operator() appends, next() hands the
\* oldest closure to a worker that runs none, and every closure a worker
\* takes ends, by returning or by next()'s unwind when the worker is
\* interrupted out of it, whatever the scheduler and the offload thread
\* interleave.
PoolQueueRefined == PQ!Spec
=============================================================================
