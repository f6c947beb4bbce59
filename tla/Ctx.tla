-------------------------------- MODULE Ctx --------------------------------
(***************************************************************************)
(* The ircd::ctx cooperative scheduler (src/unnamed/part_003, ctx.cc and   *)
(* this_ctx.h in src/modules/s_conf.cc).  One OS thread runs the asio      *)
(* io_service: it takes handlers from a FIFO queue (iosq) and runs them.   *)
(* A handler either starts a context (spawn) or resumes a context that is  *)
(* suspended on its alarm timer (resume), or is a closure posted with      *)
(* ios->post (restore of this_ctx::yield).  A context runs until it        *)
(* suspends or finishes; a context spawned without POST runs inline on top *)
(* of its parent, which continues when the child suspends or finishes.     *)
(*                                                                         *)
(* Each context runs a program Prog[c], a finite sequence of calls of the  *)
(* ctx interface; the model interprets those calls the way the code does.  *)
(***************************************************************************)
EXTENDS Integers, Sequences, SequencesExt, FiniteSets

CONSTANTS
    Ctx,     \* the contexts (model values)
    NoCtx,   \* sentinel: no context (adjoindre == nullptr)
    Boot,    \* contexts posted (in this order) from the main stack
    Prog     \* Prog[c]: the calls made by the function of context c

\* The calls a program may make.  to is the target context of the call.
Instr ==
         [op : {"wait", "wait_for", "sleep", "yield", "ipoint", "offload",
                "olefini", "poolmain", "vwait", "vwaitu", "vunlock"}]
    \cup [op : {"submit", "vnotify"}, job : Nat]
    \cup [op : {"notify", "interrupt", "join", "free", "detach"}, to : Ctx]
    \cup [op : {"spawn"}, to : Ctx,
          mode : {"POST", "INLINE", "POST|DETACH", "INLINE|DETACH"}]

ASSUME /\ NoCtx \notin Ctx
       /\ Boot \in Seq(Ctx)
       /\ Prog \in [Ctx -> Seq(Instr)]

\* Handlers queued on the io_service.  ec is the alarm's completion code.
Handler == [h : {"spawn", "restore"}, c : Ctx]
      \cup [h : {"resume"}, c : Ctx, ec : {"canceled", "success"}]

VARIABLES
    cstate,      \* idle | posted | running | inline | waiting | finished
    pc,          \* next call of Prog[c]
    notes,       \* ctx::notes
    interrupted, \* flags & context::INTERRUPTED
    alarm,       \* pending async_wait on ctx::alarm: none | inf | timed
    adjoindre,   \* ctx::adjoindre: the context join()ing this one
    stack,       \* the contexts running inline, innermost last
    iosq,        \* the io_service handler queue
    yframe,      \* c is inside this_ctx::yield (its `done` is alive)
    ydone,       \* the `done` local of that yield frame
    ownership    \* who deletes the ctx: owned (its context's unique_ptr),
                 \* detached (itself, at exit), deleted

vars == <<cstate, pc, notes, interrupted, alarm, adjoindre, stack, iosq,
          yframe, ydone, ownership>>

TypeOK ==
    /\ cstate \in [Ctx -> {"idle", "posted", "running", "inline",
                           "waiting", "finished"}]
    /\ \A c \in Ctx : pc[c] \in 1 .. Len(Prog[c]) + 1
    /\ notes \in [Ctx -> Nat]
    /\ interrupted \in [Ctx -> BOOLEAN]
    /\ alarm \in [Ctx -> {"none", "inf", "timed"}]
    /\ adjoindre \in [Ctx -> Ctx \cup {NoCtx}]
    /\ stack \in Seq(Ctx)
    /\ iosq \in Seq(Handler)
    /\ yframe \in [Ctx -> BOOLEAN]
    /\ ydone \in [Ctx -> BOOLEAN]
    /\ ownership \in [Ctx -> {"owned", "detached", "deleted"}]

-----------------------------------------------------------------------------
(* The notes / alarm / queue triple that note(), wake() and interrupt()    *)
(* update, as a record so that several of them compose in one step.        *)

Sched == [notes |-> notes, alarm |-> alarm, iosq |-> iosq]

SetSched(s) == /\ notes' = s.notes
               /\ alarm' = s.alarm
               /\ iosq' = s.iosq

\* Mutant: wake() queues a resume even with no async_wait pending.
wakeAlways(s, t) ==
    [s EXCEPT !.alarm[t] = "none",
              !.iosq = Append(@, [h |-> "resume", c |-> t, ec |-> "canceled"])]

\* Mutant: wake() cancels only an alarm with a deadline.
wakeTimedOnly(s, t) ==
    IF s.alarm[t] # "timed" THEN s
    ELSE [s EXCEPT !.alarm[t] = "none",
                   !.iosq = Append(@, [h |-> "resume", c |-> t,
                                       ec |-> "canceled"])]

\* ctx::wake(): alarm.cancel() completes a pending async_wait with
\* operation_canceled, which queues the resume; with none pending it is
\* a no-op.
wake(s, t) ==
    IF s.alarm[t] = "none" THEN s
    ELSE [s EXCEPT !.alarm[t] = "none",
                   !.iosq = Append(@, [h |-> "resume", c |-> t,
                                       ec |-> "canceled"])]

\* Mutant: note() tests notes++ >= 0 and so never wakes.
noteGeq(s, t) ==
    IF s.notes[t] >= 0 THEN [s EXCEPT !.notes[t] = @ + 1]
    ELSE wake([s EXCEPT !.notes[t] = @ + 1], t)

\* ctx::note(): if(notes++ > 0) return false; wake();
note(s, t) ==
    IF s.notes[t] > 0 THEN [s EXCEPT !.notes[t] = @ + 1]
    ELSE wake([s EXCEPT !.notes[t] = @ + 1], t)

\* Mutant: joined() taken as "not running now".
finishedNotRunning(t) == cstate[t] # "running"

\* ctx::finished(): yc == nullptr.  yc is set only inside ctx::operator(),
\* so a context whose spawn is still posted is "finished" as well.
finished(t) == cstate[t] \notin {"running", "inline", "waiting"}

\* Mutant: ~continuation() leaves notes as it found them.
continuationKeep(n, c) == n

\* ~continuation(): the resumed context sets its own notes to 1.
continuation(n, c) == [n EXCEPT ![c] = 1]

\* The context on top of the inline stack, the one now running.
Cur == IF stack = <<>> THEN NoCtx ELSE Last(stack)

\* cstate after the running context c leaves the CPU in state st: the
\* context under it on the inline stack (if any) continues.
Leave(c, st) ==
    LET cs == [cstate EXCEPT ![c] = st]
    IN  IF Len(stack) > 1 THEN [cs EXCEPT ![stack[Len(stack) - 1]] = "running"]
        ELSE cs

Instr0(c) == Prog[c][pc[c]]

\* c is on the CPU and its next call is op.
Calling(c, op) == Cur = c /\ pc[c] <= Len(Prog[c]) /\ Instr0(c).op = op

-----------------------------------------------------------------------------
(* ctx::wait(): if(--notes > 0) return false; else suspend on the alarm.   *)
(* kind is the deadline the caller set on the alarm before calling it.     *)
(* Without suspending, no interruption point is reached.  again: the       *)
(* caller loops (yield's `while(!done)`, sleep_until's loop) and the call  *)
(* is not complete.                                                        *)
WaitCall(c, kind, again) ==
    /\ notes' = [notes EXCEPT ![c] = @ - 1]
    /\ IF notes[c] - 1 > 0
       THEN /\ pc' = IF again THEN pc ELSE [pc EXCEPT ![c] = @ + 1]
            /\ UNCHANGED <<cstate, alarm, stack>>
       ELSE /\ alarm' = [alarm EXCEPT ![c] = kind]
            /\ cstate' = Leave(c, "waiting")
            /\ stack' = Front(stack)
            /\ UNCHANGED pc
    /\ UNCHANGED <<iosq, interrupted>>

\* this_ctx::wait(): alarm.expires_at(max); wait();
Wait(c) ==
    /\ Calling(c, "wait")
    /\ WaitCall(c, "inf", FALSE)
    /\ UNCHANGED <<adjoindre, yframe, ydone, ownership>>

\* this_ctx::wait(duration) / wait_until(tp): the alarm may expire.
WaitFor(c) ==
    /\ Calling(c, "wait_for")
    /\ WaitCall(c, "timed", FALSE)
    /\ UNCHANGED <<adjoindre, yframe, ydone, ownership>>

\* this_ctx::sleep_until(): while(!wait_until(tp)); a note re-arms the
\* alarm and waits again; only the expiry ends the call.
Sleep(c) ==
    /\ Calling(c, "sleep")
    /\ WaitCall(c, "timed", TRUE)
    /\ UNCHANGED <<adjoindre, yframe, ydone, ownership>>

\* this_ctx::yield(): ios->post(restore); do wait(); while(!done);
YieldEnter(c) ==
    /\ Calling(c, "yield")
    /\ ~yframe[c]
    /\ yframe' = [yframe EXCEPT ![c] = TRUE]
    /\ ydone' = [ydone EXCEPT ![c] = FALSE]
    /\ notes' = [notes EXCEPT ![c] = @ - 1]
    /\ iosq' = Append(iosq, [h |-> "restore", c |-> c])
    /\ IF notes[c] - 1 > 0
       THEN UNCHANGED <<cstate, alarm, stack>>
       ELSE /\ alarm' = [alarm EXCEPT ![c] = "inf"]
            /\ cstate' = Leave(c, "waiting")
            /\ stack' = Front(stack)
    /\ UNCHANGED <<pc, interrupted, adjoindre, ownership>>

\* Mutant: yield returns after the first wake, whatever `done' is.
YieldLoopNoDone(c) ==
    /\ Calling(c, "yield")
    /\ yframe[c]
    /\ pc' = [pc EXCEPT ![c] = @ + 1]
    /\ yframe' = [yframe EXCEPT ![c] = FALSE]
    /\ UNCHANGED <<cstate, notes, alarm, stack, iosq, interrupted, ydone,
                   adjoindre, ownership>>

\* A further turn of `do wait(); while(!done);' (yield, ole::offload);
\* done cannot change while c runs.
DoneLoop(c) ==
    /\ yframe[c]
    /\ IF ydone[c]
       THEN /\ pc' = [pc EXCEPT ![c] = @ + 1]
            /\ yframe' = [yframe EXCEPT ![c] = FALSE]
            /\ UNCHANGED <<cstate, notes, alarm, stack, iosq, interrupted,
                           ydone, ownership>>
       ELSE /\ WaitCall(c, "inf", TRUE)
            /\ UNCHANGED yframe
    /\ UNCHANGED <<adjoindre, ydone, ownership>>

YieldLoop(c) ==
    /\ Calling(c, "yield")
    /\ DoneLoop(c)

\* ctx::notify(ctx) == ctx.note()
Notify(c) ==
    /\ Calling(c, "notify")
    /\ SetSched(note(Sched, Instr0(c).to))
    /\ pc' = [pc EXCEPT ![c] = @ + 1]
    /\ UNCHANGED <<cstate, interrupted, adjoindre, stack, yframe, ydone, ownership>>

\* ctx::interrupt(): flags |= INTERRUPTED; wake();
Interrupt(c) ==
    LET t == Instr0(c).to
    IN  /\ Calling(c, "interrupt")
        /\ interrupted' = [interrupted EXCEPT ![t] = TRUE]
        /\ SetSched(wake(Sched, t))
        /\ pc' = [pc EXCEPT ![c] = @ + 1]
        /\ UNCHANGED <<cstate, adjoindre, stack, yframe, ydone, ownership>>

\* this_ctx::interruption_point(): throws interrupted (and clears the
\* flag) if set; the function ends (Exit).
IPoint(c) ==
    /\ Calling(c, "ipoint")
    /\ ~interrupted[c]
    /\ pc' = [pc EXCEPT ![c] = @ + 1]
    /\ UNCHANGED <<cstate, notes, interrupted, alarm, adjoindre, stack,
                   iosq, yframe, ydone, ownership>>

\* context::join(): if(joined()) return; c->adjoindre = &cur(); wait();
\* joined() (context.h, not in the sources) is read as finished(*c).
Join(c) ==
    LET t == Instr0(c).to
    IN  /\ Calling(c, "join")
        /\ IF finished(t)
           THEN /\ pc' = [pc EXCEPT ![c] = @ + 1]
                /\ UNCHANGED <<cstate, notes, alarm, stack, adjoindre>>
           ELSE /\ adjoindre' = [adjoindre EXCEPT ![t] = c]
                /\ WaitCall(c, "inf", FALSE)
        /\ UNCHANGED <<iosq, interrupted, yframe, ydone, ownership>>

\* context::context(): constructs the ctx (notes = 1, its flags) and either
\* posts the spawn to ios (POST) or spawns it now; boost::asio::spawn on
\* the new strand dispatches the coroutine at once, on top of the caller.
\* With DETACH the handle releases the ctx once the spawn call returns;
\* the flag is set from construction, so the atexit unwind of a child that
\* ends inline already sees it.
Spawn(c) ==
    LET t == Instr0(c).to
    IN  /\ Calling(c, "spawn")
        /\ cstate[t] = "idle"
        /\ pc' = [pc EXCEPT ![c] = @ + 1]
        /\ notes' = [notes EXCEPT ![t] = 1]
        /\ ownership' = [ownership EXCEPT ![t] =
                           IF Instr0(c).mode \in {"POST|DETACH", "INLINE|DETACH"}
                           THEN "detached" ELSE "owned"]
        /\ IF Instr0(c).mode \in {"POST", "POST|DETACH"}
           THEN /\ cstate' = [cstate EXCEPT ![t] = "posted"]
                /\ iosq' = Append(iosq, [h |-> "spawn", c |-> t])
                /\ UNCHANGED stack
           ELSE /\ cstate' = [cstate EXCEPT ![c] = "inline", ![t] = "running"]
                /\ stack' = Append(stack, t)
                /\ UNCHANGED iosq
        /\ UNCHANGED <<interrupted, alarm, adjoindre, yframe, ydone>>

\* The end of context::~context(): after `interrupt(); join();' (or at
\* once when !current) the unique_ptr member c deletes the ctx; a handle
\* that released its ctx (detach) has c == nullptr and returns at once.
Free(c) ==
    LET t == Instr0(c).to
    IN  /\ Calling(c, "free")
        /\ ownership' = [ownership EXCEPT ![t] =
                           IF @ = "owned" THEN "deleted" ELSE @]
        /\ pc' = [pc EXCEPT ![c] = @ + 1]
        /\ UNCHANGED <<cstate, notes, interrupted, alarm, adjoindre, stack,
                       iosq, yframe, ydone>>

\* context::detach(): c->flags |= DETACH; return c.release();
Detach(c) ==
    LET t == Instr0(c).to
    IN  /\ Calling(c, "detach")
        /\ ownership' = [ownership EXCEPT ![t] = "detached"]
        /\ pc' = [pc EXCEPT ![c] = @ + 1]
        /\ UNCHANGED <<cstate, notes, interrupted, alarm, adjoindre, stack,
                       iosq, yframe, ydone>>

-----------------------------------------------------------------------------
(* Leaving ctx::operator(): the unwind atexit notifies adjoindre, clears   *)
(* yc (finished) and returns to whoever ran the context.                   *)
\* Mutant: the atexit unwind does not notify adjoindre.
ExitedSilent(s, c) == s

Exited(s, c) ==
    IF adjoindre[c] = NoCtx THEN s ELSE note(s, adjoindre[c])

\* Mutant: the atexit unwind never deletes a DETACHed ctx.
SelfDeleteNever(c) == UNCHANGED ownership

\* The end of the atexit unwind: if(flags & DETACH) delete this;
SelfDelete(c) ==
    ownership' = [ownership EXCEPT ![c] = IF @ = "detached" THEN "deleted" ELSE @]

\* The function returns normally after its last call.
Finish(c) ==
    /\ Cur = c
    /\ pc[c] = Len(Prog[c]) + 1
    /\ SetSched(Exited(Sched, c))
    /\ cstate' = Leave(c, "finished")
    /\ stack' = Front(stack)
    /\ SelfDelete(c)
    /\ UNCHANGED <<pc, interrupted, adjoindre, yframe, ydone>>

\* interruption_point() finds the flag: clears it and throws `interrupted',
\* which ends the function.
IPointThrow(c) ==
    /\ Calling(c, "ipoint")
    /\ interrupted[c]
    /\ interrupted' = [interrupted EXCEPT ![c] = FALSE]
    /\ SetSched(Exited(Sched, c))
    /\ cstate' = Leave(c, "finished")
    /\ stack' = Front(stack)
    /\ SelfDelete(c)
    /\ UNCHANGED <<pc, adjoindre, yframe, ydone>>

\* One call of the running context.
Step(c) ==
    \/ Wait(c) \/ WaitFor(c) \/ Sleep(c) \/ YieldEnter(c) \/ YieldLoop(c)
    \/ Notify(c) \/ Interrupt(c) \/ Join(c) \/ Spawn(c) \/ Free(c)
    \/ Detach(c) \/ IPoint(c) \/ IPointThrow(c) \/ Finish(c)

-----------------------------------------------------------------------------
(* The io_service loop: with no context on the CPU, run the head handler.  *)

\* ctx::operator(): notes = 1; a precocious interrupt returns at once
\* (without clearing the flag) through the atexit unwind.
RunSpawn ==
    LET c == Head(iosq).c
        s == [Sched EXCEPT !.iosq = Tail(iosq), !.notes[c] = 1]
    IN  /\ stack = <<>>
        /\ iosq # <<>>
        /\ Head(iosq).h = "spawn"
        /\ IF interrupted[c]
           THEN /\ SetSched(Exited(s, c))
                /\ cstate' = [cstate EXCEPT ![c] = "finished"]
                /\ SelfDelete(c)
                /\ UNCHANGED stack
           ELSE /\ SetSched(s)
                /\ cstate' = [cstate EXCEPT ![c] = "running"]
                /\ stack' = <<c>>
                /\ UNCHANGED ownership
        /\ UNCHANGED <<pc, interrupted, adjoindre, yframe, ydone>>

\* Whether the call c is suspended in is complete once ctx::wait()
\* returns: yield loops until done (YieldLoop tests it), sleep_until
\* until the alarm expired (ec == success); ole::offload loops like yield;
\* pool::main's and view's loops are interpreted by Pool and View.
Completes(c, ec) ==
    CASE Instr0(c).op \in {"yield", "offload", "poolmain", "vwait",
                           "vwaitu", "vnotify"}              -> FALSE
      [] Instr0(c).op = "sleep"                              -> ec = "success"
      [] OTHER                                               -> TRUE

\* The alarm's completion resumes c inside ctx::wait(): ~continuation sets
\* notes = 1, then interruption_point() runs; if it throws, the function
\* ends, unwinding any yield frame.
RunResume ==
    LET c  == Head(iosq).c
        ec == Head(iosq).ec
        s  == [Sched EXCEPT !.iosq = Tail(iosq),
                            !.notes = continuation(@, c)]
    IN  /\ stack = <<>>
        /\ iosq # <<>>
        /\ Head(iosq).h = "resume"
        /\ IF interrupted[c]
           THEN /\ interrupted' = [interrupted EXCEPT ![c] = FALSE]
                /\ SetSched(Exited(s, c))
                /\ cstate' = [cstate EXCEPT ![c] = "finished"]
                /\ yframe' = [yframe EXCEPT ![c] = FALSE]
                /\ SelfDelete(c)
                /\ UNCHANGED <<stack, pc>>
           ELSE /\ SetSched(s)
                /\ cstate' = [cstate EXCEPT ![c] = "running"]
                /\ stack' = <<c>>
                /\ pc' = IF Completes(c, ec)
                         THEN [pc EXCEPT ![c] = @ + 1] ELSE pc
                /\ UNCHANGED <<interrupted, yframe, ownership>>
        /\ UNCHANGED <<adjoindre, ydone>>

\* yield's restore closure: done = true; notify(me);
RunRestore ==
    LET c == Head(iosq).c
    IN  /\ stack = <<>>
        /\ iosq # <<>>
        /\ Head(iosq).h = "restore"
        /\ ydone' = [ydone EXCEPT ![c] = TRUE]
        /\ SetSched(note([Sched EXCEPT !.iosq = Tail(iosq)], c))
        /\ UNCHANGED <<cstate, pc, interrupted, adjoindre, stack, yframe, ownership>>

\* A timed alarm expires: its async_wait completes with success.  The
\* reactor queues completions between handlers.
TimerFire(c) ==
    /\ stack = <<>>
    /\ alarm[c] = "timed"
    /\ alarm' = [alarm EXCEPT ![c] = "none"]
    /\ iosq' = Append(iosq, [h |-> "resume", c |-> c, ec |-> "success"])
    /\ UNCHANGED <<cstate, pc, notes, interrupted, adjoindre, stack,
                   yframe, ydone, ownership>>

Init ==
    /\ cstate = [c \in Ctx |-> IF c \in ToSet(Boot) THEN "posted" ELSE "idle"]
    /\ pc = [c \in Ctx |-> 1]
    /\ notes = [c \in Ctx |-> 1]
    /\ interrupted = [c \in Ctx |-> FALSE]
    /\ alarm = [c \in Ctx |-> "none"]
    /\ adjoindre = [c \in Ctx |-> NoCtx]
    /\ stack = <<>>
    /\ iosq = [i \in DOMAIN Boot |-> [h |-> "spawn", c |-> Boot[i]]]
    /\ yframe = [c \in Ctx |-> FALSE]
    /\ ydone = [c \in Ctx |-> FALSE]
    /\ ownership = [c \in Ctx |-> "owned"]

Next ==
    \/ \E c \in Ctx : Wait(c) \/ WaitFor(c) \/ Sleep(c)
    \/ \E c \in Ctx : YieldEnter(c) \/ YieldLoop(c)
    \/ \E c \in Ctx : Notify(c) \/ Interrupt(c) \/ Join(c) \/ Spawn(c)
    \/ \E c \in Ctx : Free(c) \/ Detach(c)
    \/ \E c \in Ctx : IPoint(c) \/ IPointThrow(c) \/ Finish(c)
    \/ RunSpawn \/ RunResume \/ RunRestore
    \/ \E c \in Ctx : TimerFire(c)

\* The io_service thread never stops while it has work or a context on
\* the CPU, and a timed alarm eventually expires.
Fairness ==
    /\ \A c \in Ctx : WF_vars(Step(c)) /\ WF_vars(TimerFire(c))
    /\ WF_vars(RunSpawn \/ RunResume \/ RunRestore)

Spec == Init /\ [][Next]_vars /\ Fairness

-----------------------------------------------------------------------------
(* Properties                                                              *)

Resumes(c) == {i \in DOMAIN iosq : iosq[i].c = c /\ iosq[i].h # "restore"}

\* A context is never resumed twice for one suspension (the coroutine
\* would be re-entered while running): at most one spawn or resume
\* handler of c is queued, and a queued resume belongs to a context that
\* is suspended and no longer has a pending async_wait.  It rests on
\* wake() being a no-op unless an async_wait is pending, and on note()
\* calling wake() only on the 0 -> 1 transition of notes.
SingleResume ==
    \A c \in Ctx :
        /\ Cardinality(Resumes(c)) <= 1
        /\ \A i \in Resumes(c) :
              iosq[i].h = "resume" => cstate[c] = "waiting" /\ alarm[c] = "none"

\* No lost wakeup: a context suspended in ctx::wait() whose notes were
\* raised above zero by note() has its resume queued.
NoLostWakeup ==
    \A c \in Ctx :
        cstate[c] = "waiting" /\ notes[c] > 0 => Resumes(c) # {}

\* The restore closure that this_ctx::yield() posts never runs after the
\* yield frame (its `done` and `me`) has been unwound.
YieldNoDangle ==
    \A i \in DOMAIN iosq :
        iosq[i].h = "restore" => yframe[iosq[i].c]

\* The spec (section 5): a context observes an interrupt at its next wait.
\* So a context never sleeps on its alarm with the interrupt flag set.
NoLostInterrupt ==
    \A c \in Ctx : alarm[c] # "none" => ~interrupted[c]

\* context::join() returns only once the joined context has finished (its
\* ctx is deleted by ~context right after).
JoinWaitsForFinish ==
    [][\A c \in Ctx :
          (/\ pc[c] <= Len(Prog[c])
           /\ Calling(c, "join")
           /\ pc'[c] = pc[c] + 1)
          => cstate'[Instr0(c).to] = "finished"]_vars

\* No use after free: once ~context has deleted a ctx, the ctx is not on
\* the CPU or suspended, and no spawn or resume handler of it is queued
\* (ctx::operator() and the alarm completion would run on deleted memory).
NoUseAfterFree ==
    \A c \in Ctx :
        ownership[c] = "deleted" => /\ cstate[c] = "finished"
                    /\ Resumes(c) = {}

\* A DETACHed ctx is deleted by its own atexit unwind, since no handle
\* holds it any more: a detached ctx never stays finished and undeleted,
\* whichever way its function ended (return, interruption point,
\* interrupted inside a wait, precocious interrupt) and whether DETACH
\* came with the constructor or from detach().
DetachedReclaimed ==
    \A c \in Ctx : ownership[c] = "detached" => cstate[c] # "finished"

\* A note to a suspended context eventually gets it off its alarm.
WakeupDelivered ==
    \A c \in Ctx :
        (cstate[c] = "waiting" /\ notes[c] > 0)
            ~> cstate[c] \in {"running", "finished"}

\* Every context's function eventually returns and ios runs dry.
AllFinish ==
    <>[](\A c \in Ctx : cstate[c] \in {"idle", "finished"} /\ iosq = <<>>)

=============================================================================
