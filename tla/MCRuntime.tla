------------------------------ MODULE MCRuntime -----------------------------
(* The pool of MCPool and the programs of MCOle in one runtime: c1 builds  *)
(* a two-worker pool and submits two closures, then runs the MCOle         *)
(* program (posting c2, c3, running c4 inline, yielding, interrupting,     *)
(* joining, deleting), submitting the third closure between its yields;    *)
(* it then destroys the pool from the back and runs ~init.  The workers    *)
(* run their closures while c2 and c4 wait and offload.                    *)
EXTENDS Runtime

CONSTANTS c1, c2, c3, c4, w1, w2

MCRtCtx == {c1, c2, c3, c4, w1, w2}
MCRtWorkers == {w1, w2}
MCRtBoot == <<c1>>

W(o) == [op |-> o]
T(o, t) == [op |-> o, to |-> t]
S(t, m) == [op |-> "spawn", to |-> t, mode |-> m]
J(n) == [op |-> "submit", job |-> n]

\* c4 notes c1 twice and offloads while running inline on top of c1, so c1
\* enters its first yield with notes 3 and returns from wait twice without
\* suspending; c1 then notes c4 while c4 waits for its closure (the
\* spurious wake that must not end the done loop), and c4's closure may
\* still be queued when c1 runs ~init, which holds the io_service thread
\* until the worker has drained the queue.  c2 waits, passes an
\* interruption point, sleeps, yields and waits, and c1's interrupt
\* reaches it in any of these calls, inside yield with the restore queued
\* included.  The pool's closures are submitted before the workers start
\* (1, 2) and while they are busy or docked (3).
MCRtProg ==
    [c \in MCRtCtx |->
        CASE c = c1 -> <<S(w1, "POST"), S(w2, "POST"), J(1), J(2),
                         S(c2, "POST"), S(c4, "INLINE|DETACH"), T("notify", c4),
                         W("yield"), J(3), T("notify", c2), S(c3, "POST"),
                         T("interrupt", c3), W("yield"), T("join", c3), T("free", c3),
                         T("interrupt", c2), T("detach", c2),
                         T("interrupt", w2), T("join", w2), T("free", w2),
                         T("interrupt", w1), T("join", w1), T("free", w1),
                         W("olefini")>>
          [] c = c2 -> <<W("wait"), W("ipoint"), W("sleep"), W("yield"), W("wait")>>
          [] c = c3 -> <<W("wait")>>
          [] c = c4 -> <<T("notify", c1), T("notify", c1), W("offload"), T("notify", c1),
                         W("wait_for"), T("interrupt", c4), W("ipoint")>>
          [] OTHER  -> <<W("poolmain")>>]
=============================================================================
