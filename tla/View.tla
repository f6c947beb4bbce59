------------------------------- MODULE View --------------------------------
(***************************************************************************)
(* ircd::ctx::view<T> (src/include/ircd/ctx/view.h) composed with the ctx  *)
(* scheduler.  A producer shares an object on its stack: notify(t) sets    *)
(* the view's pointer, wakes the consumers and waits on the view's dock    *)
(* until `waiting' is 0, then takes the view's mutex, clears the pointer   *)
(* and wakes the dock again.  A consumer holds a unique_lock on the view   *)
(* (the view is a ctx::mutex) and calls wait(lock): a first loop sleeps    *)
(* while a previous object is still shown, then ++waiting and a second     *)
(* loop sleeps until the pointer is set; the unwind of wait() (on return   *)
(* or on a throw) does --waiting and wakes the dock.  The consumer uses    *)
(* the object while it still holds the lock.                               *)
(*                                                                         *)
(* ctx::mutex and ctx::dock are declared in headers that are not in the    *)
(* sources; they are modelled from the spec (a mutex and a condition       *)
(* variable over task notes): lock() waits on the mutex's own queue while  *)
(* it is held; unlock() releases it and notes the first waiter; dock      *)
(* wait() queues the context, ctx::wait()s and dequeues it on the way out; *)
(* wait(pred) returns at once if pred holds, else loops; notify_all()      *)
(* notes every queued context.                                             *)
(*                                                                         *)
(* Programs: `vwait' is a consumer's unique_lock and wait(lock), which     *)
(* returns holding the lock, and `vwaitu' the same with wait_until(lock,   *)
(* tp); the calls after it use the object (and may                         *)
(* suspend); `vunlock' is the unique_lock going out of scope.  `vnotify'  *)
(* (job k) is one notify() of the producer's k-th object (0 is nullptr).  *)
(***************************************************************************)
EXTENDS Ctx

VARIABLES
    t,        \* view::t: the object shown (0 = nullptr)
    waiting,  \* view::waiting
    vdock,    \* view::q: the dock's queue
    mowner,   \* the context holding the view's mutex (NoCtx: unlocked)
    mq,       \* the mutex's queue of contexts waiting to lock
    vpc,      \* where each context is inside the view's code
    seen      \* the last object each consumer returned from wait() with

viewvars == <<t, waiting, vdock, mowner, mq, vpc, seen>>
allvars == <<vars, viewvars>>

\* vpc: idle; l0 l1 l2 pl (locking the mutex: unique_lock, the relocks of
\* the two loops, notify's lock_guard); loop1 loop2 (testing ready());
\* q1 q2 (unlocked, calling q.wait()); w1 w2 (inside q.wait()); view (the
\* caller uses *t under the lock); pwait (notify's q.wait(!waiting));
\* pclear (notify holds the lock guard).
Phases == {"idle", "l0", "l1", "l2", "pl", "loop1", "loop2", "q1", "q2",
           "w1", "w2", "view", "pwait", "pclear"}

ViewTypeOK ==
    /\ TypeOK
    /\ t \in Nat
    /\ waiting \in Nat
    /\ vdock \in Seq(Ctx)
    /\ mowner \in Ctx \cup {NoCtx}
    /\ mq \in Seq(Ctx)
    /\ vpc \in [Ctx -> Phases]
    /\ seen \in [Ctx -> Nat]

CtxFixed == <<cstate, pc, notes, interrupted, alarm, adjoindre, stack, iosq,
              yframe, ydone, ownership>>

\* c is on the CPU inside a use of the view.
InView(c) ==
    /\ Cur = c
    /\ pc[c] <= Len(Prog[c])
    /\ Instr0(c).op \in {"vwait", "vwaitu", "vnotify"}

\* The point c is at; a consumer call starts by locking the mutex.
Phase(c) ==
    IF vpc[c] = "idle" /\ Instr0(c).op \in {"vwait", "vwaitu"} THEN "l0"
    ELSE vpc[c]

\* Where each mutex lock continues once it holds the mutex.
AfterLock == [l0 |-> "loop1", l1 |-> "loop1", l2 |-> "loop2", pl |-> "pclear"]

\* mutex::unlock(): release, then notify_one() on the mutex's queue.
MutexRelease(s) == IF mq = <<>> THEN s ELSE note(s, Head(mq))

\* dock::notify_all(): note every queued context, in queue order.
NotifyAll(s, q) == FoldLeft(note, s, q)

SetPhase(c, p) == vpc' = [vpc EXCEPT ![c] = p]

-----------------------------------------------------------------------------
(* The mutex.                                                              *)

\* mutex::lock(): take it if free, else queue on the mutex and ctx::wait().
MutexLock(c) ==
    /\ InView(c)
    /\ Phase(c) \in DOMAIN AfterLock
    /\ IF mowner = NoCtx
       THEN /\ mowner' = c
            /\ mq' = Remove(mq, c)
            /\ SetPhase(c, AfterLock[Phase(c)])
            /\ UNCHANGED CtxFixed
       ELSE /\ mq' = IF c \in ToSet(mq) THEN mq ELSE Append(mq, c)
            /\ SetPhase(c, Phase(c))
            /\ WaitCall(c, "inf", TRUE)
            /\ UNCHANGED <<mowner, adjoindre, yframe, ydone, ownership>>
    /\ UNCHANGED <<t, waiting, vdock, seen>>

-----------------------------------------------------------------------------
(* view<T>::wait(lock), the consumer.                                      *)

\* view::ready(): t != nullptr.
ready == t # 0

\* Mutant: wait() without its first loop: ++waiting at once.
Loop1NoReady(c) ==
    /\ InView(c)
    /\ vpc[c] = "loop1"
    /\ waiting' = waiting + 1
    /\ SetPhase(c, "loop2")
    /\ UNCHANGED <<cstate, pc, notes, interrupted, alarm, adjoindre, stack,
                   iosq, yframe, ydone, ownership, t, vdock, mowner, mq, seen>>

\* for(; ready(); lock.lock()) { lock.unlock(); q.wait(); }
\* then `const unwind ul{...}; ++waiting' enters the second loop.
Loop1(c) ==
    /\ InView(c)
    /\ vpc[c] = "loop1"
    /\ IF ready
       THEN /\ mowner' = NoCtx
            /\ SetSched(MutexRelease(Sched))
            /\ SetPhase(c, "q1")
            /\ UNCHANGED waiting
       ELSE /\ waiting' = waiting + 1
            /\ SetPhase(c, "loop2")
            /\ UNCHANGED <<mowner, notes, alarm, iosq>>
    /\ UNCHANGED <<cstate, pc, interrupted, adjoindre, stack, yframe, ydone,
                   ownership, t, vdock, mq, seen>>

\* for(++waiting; !ready(); lock.lock()) { lock.unlock(); q.wait(); }
\* then return *t: the unwind ul does --waiting; q.notify_all(); and the
\* caller holds the lock and a reference to *t (the call is complete).
Loop2(c) ==
    /\ InView(c)
    /\ vpc[c] = "loop2"
    /\ IF ~ready
       THEN /\ mowner' = NoCtx
            /\ SetSched(MutexRelease(Sched))
            /\ SetPhase(c, "q2")
            /\ UNCHANGED <<waiting, seen, pc>>
       ELSE /\ waiting' = waiting - 1
            /\ SetSched(NotifyAll(Sched, vdock))
            /\ SetPhase(c, "view")
            /\ seen' = [seen EXCEPT ![c] = t]
            /\ pc' = [pc EXCEPT ![c] = @ + 1]
            /\ UNCHANGED mowner
    /\ UNCHANGED <<cstate, interrupted, adjoindre, stack, yframe, ydone,
                   ownership, t, vdock, mq>>

\* The alarm of the dock wait in each loop of the consumer's call: wait's
\* q.wait() has none; wait_until's q.wait_until(tp) waits on an alarm
\* set to tp, which may expire at any turn and stays expired after it.
DockWaitKind(c) == IF Instr0(c).op = "vwaitu" THEN "timed" ELSE "inf"

\* dock::wait(): queue c on the view's dock and ctx::wait().
DockWait(c) ==
    /\ InView(c)
    /\ vpc[c] \in {"q1", "q2"}
    /\ vdock' = Append(vdock, c)
    /\ SetPhase(c, IF vpc[c] = "q1" THEN "w1" ELSE "w2")
    /\ WaitCall(c, DockWaitKind(c), TRUE)
    /\ UNCHANGED <<adjoindre, yframe, ydone, ownership, t, waiting, mowner, mq,
                   seen>>

\* ctx::wait() returned: the dock dequeues c; the loop relocks.  In
\* wait_until the result of q.wait_until(tp) is ignored: a timeout loops
\* like a notification.
DockReturn(c) ==
    /\ InView(c)
    /\ vpc[c] \in {"w1", "w2"}
    /\ vdock' = Remove(vdock, c)
    /\ SetPhase(c, IF vpc[c] = "w1" THEN "l1" ELSE "l2")
    /\ UNCHANGED <<CtxFixed, t, waiting, mowner, mq, seen>>

\* The caller is done with *t and its unique_lock unlocks the view.
ViewDone(c) ==
    /\ Calling(c, "vunlock")
    /\ vpc[c] = "view"
    /\ mowner' = NoCtx
    /\ SetSched(MutexRelease(Sched))
    /\ SetPhase(c, "idle")
    /\ pc' = [pc EXCEPT ![c] = @ + 1]
    /\ UNCHANGED <<cstate, interrupted, adjoindre, stack, yframe, ydone, ownership,
                   t, waiting, vdock, mq, seen>>

-----------------------------------------------------------------------------
(* view<T>::notify(t), the producer.                                       *)

\* if(!waiting) return; this->t = &t; q.notify_all();
Notify0(c) ==
    /\ InView(c)
    /\ Instr0(c).op = "vnotify"
    /\ vpc[c] = "idle"
    /\ IF waiting = 0
       THEN /\ pc' = [pc EXCEPT ![c] = @ + 1]
            /\ UNCHANGED <<t, notes, alarm, iosq, vpc>>
       ELSE /\ t' = Instr0(c).job
            /\ SetSched(NotifyAll(Sched, vdock))
            /\ SetPhase(c, "pwait")
            /\ UNCHANGED pc
    /\ UNCHANGED <<cstate, interrupted, adjoindre, stack, yframe, ydone, ownership,
                   waiting, vdock, mowner, mq, seen>>

\* Mutant: notify() clears t as soon as waiting is 0, without taking the
\* lock guard.
NotifyWaitNoLock(c) ==
    /\ InView(c)
    /\ vpc[c] = "pwait"
    /\ IF waiting = 0
       THEN /\ vdock' = Remove(vdock, c)
            /\ SetPhase(c, "pclear")
            /\ UNCHANGED CtxFixed
       ELSE /\ vdock' = IF c \in ToSet(vdock) THEN vdock ELSE Append(vdock, c)
            /\ UNCHANGED vpc
            /\ WaitCall(c, "inf", TRUE)
            /\ UNCHANGED <<adjoindre, yframe, ydone, ownership>>
    /\ UNCHANGED <<t, waiting, mowner, mq, seen>>

\* q.wait([this]{ return !waiting; }): test, else queue and ctx::wait();
\* then the lock_guard locks the view.
NotifyWait(c) ==
    /\ InView(c)
    /\ vpc[c] = "pwait"
    /\ IF waiting = 0
       THEN /\ vdock' = Remove(vdock, c)
            /\ SetPhase(c, "pl")
            /\ UNCHANGED CtxFixed
       ELSE /\ vdock' = IF c \in ToSet(vdock) THEN vdock ELSE Append(vdock, c)
            /\ UNCHANGED vpc
            /\ WaitCall(c, "inf", TRUE)
            /\ UNCHANGED <<adjoindre, yframe, ydone, ownership>>
    /\ UNCHANGED <<t, waiting, mowner, mq, seen>>

\* this->t = nullptr; q.notify_all(); then the lock guard unlocks.
NotifyClear(c) ==
    /\ InView(c)
    /\ vpc[c] = "pclear"
    /\ t' = 0
    /\ mowner' = IF mowner = c THEN NoCtx ELSE mowner
    /\ SetSched(IF mowner = c THEN MutexRelease(NotifyAll(Sched, vdock))
                ELSE NotifyAll(Sched, vdock))
    /\ SetPhase(c, "idle")
    /\ pc' = [pc EXCEPT ![c] = @ + 1]
    /\ UNCHANGED <<cstate, interrupted, adjoindre, stack, yframe, ydone, ownership,
                   waiting, vdock, mq, seen>>

-----------------------------------------------------------------------------
(* An interrupted context resumed inside the view's code: Ctx's RunResume  *)
(* throws at the interruption point; on the way out the dock and the       *)
(* mutex dequeue it, and past ++waiting wait()'s unwind does --waiting and *)
(* notify_all(); a caller interrupted while it uses *t releases the lock   *)
(* in its unique_lock's destructor.  notify() has no unwind: t keeps       *)
(* pointing at the producer's object.                                      *)
ViewUnwinding ==
    /\ stack = <<>>
    /\ iosq # <<>>
    /\ Head(iosq).h = "resume"
    /\ interrupted[Head(iosq).c]
    /\ vpc[Head(iosq).c] # "idle"

\* Mutant: wait()'s unwind does not run when q.wait() throws.
UncountNever(c) == FALSE

\* Mutant: the unwind is left out for a consumer interrupted while it
\* relocks the view in the second loop.
UncountWait(c) == vpc[c] = "w2"

\* The consumer is past ++waiting (the unwind ul is constructed).
Uncount(c) == vpc[c] \in {"w2", "l2"}

ViewUnwind ==
    LET c  == Head(iosq).c
        dq == Remove(vdock, c)
        s0 == [Sched EXCEPT !.iosq = Tail(iosq), !.notes = continuation(@, c)]
        s1 == IF Uncount(c) THEN NotifyAll(s0, dq) ELSE s0
        s2 == IF vpc[c] = "view" THEN MutexRelease(s1) ELSE s1
    IN  /\ ViewUnwinding
        /\ interrupted' = [interrupted EXCEPT ![c] = FALSE]
        /\ SetSched(Exited(s2, c))
        /\ cstate' = [cstate EXCEPT ![c] = "finished"]
        /\ yframe' = [yframe EXCEPT ![c] = FALSE]
        /\ vdock' = dq
        /\ mq' = Remove(mq, c)
        /\ waiting' = IF Uncount(c) THEN waiting - 1 ELSE waiting
        /\ SetPhase(c, "idle")
        /\ mowner' = IF vpc[c] = "view" THEN NoCtx ELSE mowner
        /\ SelfDelete(c)
        /\ UNCHANGED <<stack, pc, adjoindre, ydone, t, seen>>

-----------------------------------------------------------------------------

ViewInit ==
    /\ Init
    /\ t = 0
    /\ waiting = 0
    /\ vdock = <<>>
    /\ mowner = NoCtx
    /\ mq = <<>>
    /\ vpc = [c \in Ctx |-> "idle"]
    /\ seen = [c \in Ctx |-> 0]

ViewStep(c) ==
    \/ MutexLock(c) \/ Loop1(c) \/ Loop2(c) \/ DockWait(c) \/ DockReturn(c)
    \/ ViewDone(c) \/ Notify0(c) \/ NotifyWait(c) \/ NotifyClear(c)

ViewNext ==
    \/ /\ Next
       /\ UNCHANGED viewvars
       /\ ~(ViewUnwinding /\ RunResume)
    \/ ViewUnwind
    \/ \E c \in Ctx : MutexLock(c) \/ Loop1(c) \/ Loop2(c)
    \/ \E c \in Ctx : DockWait(c) \/ DockReturn(c) \/ ViewDone(c)
    \/ \E c \in Ctx : Notify0(c) \/ NotifyWait(c) \/ NotifyClear(c)

\* As in Ctx: the io_service thread runs its handlers, a context on the
\* CPU makes its next call, a deadline passes.  A timer is strongly fair:
\* a consumer in wait_until that loops on its expired alarm keeps a
\* context on the CPU between its turns, and the io_service still
\* completes every expired timer each time it runs its reactor.
ViewFairness ==
    /\ \A c \in Ctx : /\ WF_allvars(Step(c) /\ UNCHANGED viewvars)
                      /\ SF_allvars(TimerFire(c) /\ UNCHANGED viewvars)
                      /\ WF_allvars(ViewStep(c))
    /\ WF_allvars(\/ /\ RunSpawn \/ RunResume \/ RunRestore
                     /\ UNCHANGED viewvars
                     /\ ~(ViewUnwinding /\ RunResume)
                  \/ ViewUnwind)

ViewSpec == ViewInit /\ [][ViewNext]_allvars /\ ViewFairness

-----------------------------------------------------------------------------
(* Properties                                                              *)

\* The producer is inside notify() for object k (its frame holds it).
Showing(k) ==
    \E p \in Ctx : /\ vpc[p] \in {"pwait", "pl", "pclear"}
                   /\ Instr0(p).job = k

\* A consumer uses the object that wait() returned only while the producer
\* is still inside notify() for it, and the view still shows it: notify()
\* must not clear t or return (and let its caller destroy the object)
\* while a consumer that returned from wait() holds the lock.
ViewerSeesLive ==
    \A c \in Ctx : vpc[c] = "view" => /\ seen[c] = t
                                      /\ Showing(t)

\* view::t never dangles: whenever it is set, the producer that set it is
\* still inside notify().
NoDanglingView == t # 0 => Showing(t)

\* view::waiting counts the consumers between wait()'s ++waiting and its
\* unwind, along every path: returning with the object, or interrupted
\* in the second loop's dock wait or in its relock of the view.  The
\* producer's q.wait(!waiting) and ~view's assert(!waiting) rely on it.
WaitingCounted ==
    waiting = Cardinality({c \in Ctx : vpc[c] \in {"loop2", "q2", "w2", "l2"}})

\* A consumer never gets the same object twice: each return from wait()
\* is with an object newer than its previous one (the first loop of
\* wait() sleeps while the object it may have seen is still shown).
NoDoubleView ==
    [][\A c \in Ctx : (vpc'[c] = "view" /\ vpc[c] # "view")
                          => seen'[c] > seen[c]]_allvars

=============================================================================
