------------------------------ MODULE ThisCtx ------------------------------
(***************************************************************************)
(* The timed waits of this_ctx (the templates at the end of s_conf.cc and  *)
(* their nothrow cores in src/unnamed/part_003) against a clock: one       *)
(* context makes one call of wait(d), wait_until(tp) or sleep(d), another  *)
(* context may note it, the alarm may expire, and the io_service runs the  *)
(* resume handler some ticks after it was queued.  Time is counted in      *)
(* microsecond ticks; the call's duration type is a unit of u ticks        *)
(* (microseconds: 1, a coarser unit: more).  A wait returns without        *)
(* suspending when it finds an extra note.  The interrupt path is the one  *)
(* Ctx models and is left out here.                                        *)
(***************************************************************************)
EXTENDS Integers

CONSTANTS
    Unit,      \* ticks per unit of the duration type
    MaxD,      \* largest duration, in units
    MaxNotes,  \* notes the other context sends
    MaxNow     \* the clock's bound

Ops == {"wait", "wait_until", "sleep"}

VARIABLES
    now,      \* steady_clock::now(), in ticks
    op,       \* the call made
    u,        \* ticks per unit of its duration type
    d,        \* its duration, in units
    tp,       \* the alarm's expiry time point
    pc,       \* call | wait | susp | ret | done
    notes,    \* ctx::notes
    armed,    \* an async_wait is pending on the alarm
    queued,   \* the resume handler is queued on the io_service
    sent,     \* notes sent by the other context
    noted,    \* a note woke the suspended call before its time point
    result,   \* what the nothrow wait(d) returned
    timedout  \* the nothrow wait_until returned true; the throw
              \* overload of either throws E (timeout)

vars == <<now, op, u, d, tp, pc, notes, armed, queued, sent, noted, result,
          timedout>>

\* duration_cast truncates toward zero.
DurationCast(x, k) == IF x >= 0 THEN x \div k ELSE -((-x) \div k)

TypeOK ==
    /\ now \in 0 .. MaxNow
    /\ op \in Ops /\ u \in Unit /\ d \in 0 .. MaxD
    /\ tp \in Nat
    /\ pc \in {"call", "wait", "susp", "ret", "done"}
    /\ notes \in 0 .. MaxNotes + 1
    /\ armed \in BOOLEAN /\ queued \in BOOLEAN
    /\ sent \in 0 .. MaxNotes
    /\ noted \in BOOLEAN
    /\ result \in Int
    /\ timedout \in BOOLEAN

\* A running context holds one note.
Init ==
    /\ now = 0
    /\ op \in Ops /\ u \in Unit /\ d \in 0 .. MaxD
    /\ tp = 0
    /\ pc = "call"
    /\ notes = 1
    /\ armed = FALSE /\ queued = FALSE
    /\ sent = 0 /\ noted = FALSE
    /\ result = 0 /\ timedout = FALSE

\* wait(d): alarm.expires_from_now(duration_cast<microseconds>(d));
\* sleep(d): sleep_until(now() + d) then alarm.expires_at(tp);
\* wait_until(tp): alarm.expires_at(tp), with tp d units ahead.
Call ==
    /\ pc = "call"
    /\ tp' = now + d * u
    /\ pc' = "wait"
    /\ UNCHANGED <<now, op, u, d, notes, armed, queued, sent, noted, result,
                   timedout>>

\* ctx::wait(): if(--notes > 0) return false; else alarm.async_wait(...).
CtxWait ==
    /\ pc = "wait"
    /\ notes' = notes - 1
    /\ IF notes > 1
       THEN pc' = "ret" /\ UNCHANGED armed
       ELSE pc' = "susp" /\ armed' = TRUE
    /\ UNCHANGED <<now, op, u, d, tp, queued, sent, noted, result, timedout>>

\* The alarm reaches its time point: the async_wait completes (success).
Expire ==
    /\ armed /\ now >= tp
    /\ armed' = FALSE /\ queued' = TRUE
    /\ UNCHANGED <<now, op, u, d, tp, pc, notes, sent, noted, result, timedout>>

\* ctx::note(): if(notes++ > 0) return false; wake(): alarm.cancel().
Note ==
    /\ sent < MaxNotes /\ pc # "done"
    /\ sent' = sent + 1
    /\ notes' = notes + 1
    /\ IF notes = 0 /\ armed
       THEN armed' = FALSE /\ queued' = TRUE /\ noted' = (noted \/ now < tp)
       ELSE UNCHANGED <<armed, queued, noted>>
    /\ UNCHANGED <<now, op, u, d, tp, pc, result, timedout>>

\* The io_service runs the handler: ~continuation sets notes = 1 and the
\* context returns from ctx::wait().
Resume ==
    /\ queued
    /\ queued' = FALSE /\ notes' = 1 /\ pc' = "ret"
    /\ UNCHANGED <<now, op, u, d, tp, armed, sent, noted, result, timedout>>

\* Time passes while the context is suspended.
Tick ==
    /\ pc = "susp" /\ now < MaxNow
    /\ now' = now + 1
    /\ UNCHANGED <<op, u, d, tp, pc, notes, armed, queued, sent, noted, result,
                   timedout>>

\* The caller's code after ctx::wait() returned.
\*  wait: ret = alarm.expires_from_now(); the template returns
\*        duration_cast<duration>(ret) and its throw overload throws
\*        when that is <= duration(0).
\*  wait_until: returns now() >= tp; the throw overload throws if true.
\*  sleep: sleep_until loops while(!wait_until(tp, nothrow)).
Return ==
    /\ pc = "ret"
    /\ \/ /\ op = "wait"
          /\ result' = DurationCast(tp - now, u)
          /\ timedout' = (DurationCast(tp - now, u) <= 0)
          /\ pc' = "done"
       \/ /\ op = "wait_until"
          /\ timedout' = (now >= tp)
          /\ UNCHANGED result
          /\ pc' = "done"
       \/ /\ op = "sleep"
          /\ pc' = IF now >= tp THEN "done" ELSE "wait"
          /\ UNCHANGED <<result, timedout>>
    /\ UNCHANGED <<now, op, u, d, tp, notes, armed, queued, sent, noted>>

Next == Call \/ CtxWait \/ Expire \/ Note \/ Resume \/ Tick \/ Return

Spec == Init /\ [][Next]_vars

-----------------------------------------------------------------------------
(* Properties                                                              *)

\* The comments on the throw overloads of this_ctx::wait(d) and
\* wait_until(tp) promise that a notification lets the context continue
\* normally (wait returning the time remaining) and that timeout is thrown
\* only when there is never a notification: a call woken by a note before
\* its time point is not reported as timed out.
NoteNotTimedOut ==
    (pc = "done" /\ op \in {"wait", "wait_until"} /\ noted) => ~timedout

=============================================================================
