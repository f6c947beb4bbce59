-------------------------------- MODULE Ole --------------------------------
(***************************************************************************)
(* ircd::ctx::ole (src/unnamed/part_003:795-911) composed with the ctx     *)
(* scheduler.  A context calling ole::offload(func) pushes a closure onto  *)
(* a queue under a std::mutex and loops in wait() until `done'.  A worker  *)
(* OS thread, running in parallel with the io_service thread, pops each    *)
(* closure, runs func and posts `kick' (done = true; notify(context)) to   *)
(* the context's strand with signal().  Both closures hold references into *)
(* the offload frame: func, eptr, context and kick.                        *)
(*                                                                         *)
(* The offload frame is Ctx's yframe/ydone pair (the same `do wait();      *)
(* while(!done)' as this_ctx::yield), and kick is the "restore" handler.   *)
(* ole::init::~init is the call "olefini" of the context that owns the     *)
(* init object; thread->join() holds the io_service thread meanwhile.      *)
(***************************************************************************)
EXTENDS Ctx

VARIABLES
    oleq,          \* ole::queue: the offloading context of each closure
    wjob,          \* the closure the worker thread is running, or NoCtx
    interruption,  \* ole::interruption
    wstate         \* the worker thread: "run" or "exited"

olevars == <<oleq, wjob, interruption, wstate>>
oleall == <<vars, olevars>>

OleTypeOK ==
    /\ TypeOK
    /\ oleq \in Seq(Ctx)
    /\ wjob \in Ctx \cup {NoCtx}
    /\ interruption \in BOOLEAN
    /\ wstate \in {"run", "exited"}

-----------------------------------------------------------------------------
(* The io_service side.                                                    *)

\* ole::offload(): push(closure) (queue.emplace_back under the mutex,
\* cond.notify_one); then do { wait(); } while(!done);
OffloadEnter(c) ==
    /\ Calling(c, "offload")
    /\ ~yframe[c]
    /\ yframe' = [yframe EXCEPT ![c] = TRUE]
    /\ ydone' = [ydone EXCEPT ![c] = FALSE]
    /\ oleq' = Append(oleq, c)
    /\ WaitCall(c, "inf", TRUE)
    /\ UNCHANGED <<adjoindre, ownership, wjob, interruption, wstate>>

\* Mutant: offload stops looping at the first wake, whatever `done' is.
OffloadLoopNoDone(c) ==
    /\ Calling(c, "offload")
    /\ yframe[c]
    /\ pc' = [pc EXCEPT ![c] = @ + 1]
    /\ yframe' = [yframe EXCEPT ![c] = FALSE]
    /\ UNCHANGED <<cstate, notes, alarm, stack, iosq, interrupted, ydone,
                   adjoindre, ownership>>
    /\ UNCHANGED olevars

\* A further turn of offload's loop.
OffloadLoop(c) ==
    /\ Calling(c, "offload")
    /\ DoneLoop(c)
    /\ UNCHANGED olevars

\* ole::init::~init(): mutex.lock(); interruption = true;
\* cond.notify_one(); mutex.unlock(); ...
OleFini(c) ==
    /\ Calling(c, "olefini")
    /\ ~interruption
    /\ interruption' = TRUE
    /\ UNCHANGED <<vars, oleq, wjob, wstate>>

\* ... thread->join(): returns once the worker thread has exited.
OleJoin(c) ==
    /\ Calling(c, "olefini")
    /\ interruption
    /\ wstate = "exited"
    /\ pc' = [pc EXCEPT ![c] = @ + 1]
    /\ UNCHANGED <<cstate, notes, interrupted, alarm, adjoindre, stack, iosq,
                   yframe, ydone, ownership>>
    /\ UNCHANGED olevars

-----------------------------------------------------------------------------
(* The worker thread: worker() { while(1) { func = pop(); func(); } }      *)

\* ole::pop(): cond.wait until the queue is not empty; take the front.
WorkerPop ==
    /\ wstate = "run"
    /\ wjob = NoCtx
    /\ oleq # <<>>
    /\ wjob' = Head(oleq)
    /\ oleq' = Tail(oleq)
    /\ UNCHANGED <<vars, interruption, wstate>>

\* The closure: func() (exceptions into eptr), then signal(*context, kick),
\* a strand.post of kick onto the io_service.
WorkerKick ==
    /\ wjob # NoCtx
    /\ iosq' = Append(iosq, [h |-> "restore", c |-> wjob])
    /\ wjob' = NoCtx
    /\ UNCHANGED <<cstate, pc, notes, interrupted, alarm, adjoindre, stack,
                   yframe, ydone, ownership, oleq, interruption, wstate>>

\* Mutant: pop()'s predicate forgets the interruption test.
WorkerExitNever == FALSE

\* Mutant: pop() throws on interruption even with closures queued.
WorkerExitEarly ==
    /\ wstate = "run"
    /\ wjob = NoCtx
    /\ interruption
    /\ wstate' = "exited"
    /\ UNCHANGED <<vars, oleq, wjob, interruption>>

\* pop()'s predicate throws interrupted when the queue is empty and
\* interruption is set; worker() catches it and returns.
WorkerExit ==
    /\ wstate = "run"
    /\ wjob = NoCtx
    /\ oleq = <<>>
    /\ interruption
    /\ wstate' = "exited"
    /\ UNCHANGED <<vars, oleq, wjob, interruption>>

-----------------------------------------------------------------------------

\* ole::init::init(): interruption = false; thread = new std::thread(worker)
OleInit ==
    /\ Init
    /\ oleq = <<>>
    /\ wjob = NoCtx
    /\ interruption = FALSE
    /\ wstate = "run"

OleIo(c) == OffloadEnter(c) \/ OffloadLoop(c) \/ OleFini(c) \/ OleJoin(c)

OleWorker == WorkerPop \/ WorkerKick \/ WorkerExit

OleNext ==
    \/ Next /\ UNCHANGED olevars
    \/ \E c \in Ctx : OffloadEnter(c) \/ OffloadLoop(c)
    \/ \E c \in Ctx : OleFini(c) \/ OleJoin(c)
    \/ WorkerPop \/ WorkerKick \/ WorkerExit

\* Ctx's fairness, the offload calls as further calls of a context, and
\* the worker OS thread is scheduled by the kernel.
OleFairness ==
    /\ \A c \in Ctx : /\ WF_oleall(Step(c) /\ UNCHANGED olevars)
                      /\ WF_oleall(TimerFire(c) /\ UNCHANGED olevars)
                      /\ WF_oleall(OleIo(c))
    /\ WF_oleall((RunSpawn \/ RunResume \/ RunRestore) /\ UNCHANGED olevars)
    /\ WF_oleall(OleWorker)

OleSpec == OleInit /\ [][OleNext]_oleall /\ OleFairness

-----------------------------------------------------------------------------
(* Properties                                                              *)

\* The offloaded closure never outlives the offload frame it refers to:
\* while it is queued or running on the worker thread, the offloading
\* context is still inside ole::offload (kick's own handler is covered by
\* YieldNoDangle).
OffloadNoDangle ==
    \A c \in Ctx :
        (c \in ToSet(oleq) \/ wjob = c) => yframe[c]

\* ~init's thread->join() returns: once interruption is set, the worker
\* drains the queue and exits.
WorkerDrains ==
    interruption ~> wstate = "exited"

\* Every context's function returns and both the io_service queue and the
\* offload queue run dry (no offloading context is left waiting for a
\* kick that never comes).
OleAllFinish ==
    <>[](/\ \A c \in Ctx : cstate[c] \in {"idle", "finished"}
         /\ iosq = <<>> /\ oleq = <<>> /\ wjob = NoCtx)
=============================================================================
