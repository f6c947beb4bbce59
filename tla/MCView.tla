------------------------------- MODULE MCView ------------------------------
(* A producer p showing three objects to consumers a and b through one    *)
(* view, the first before any consumer waits; a uses its first object     *)
(* across a wait with a deadline while it holds the lock; x interrupts b,  *)
(* which may then be counted in `waiting'; p's last call interrupts a,     *)
(* whose second wait, a wait_until, may find no notify and loop on its   *)
(* expired deadline until the interrupt.  The deadlines let the timers   *)
(* order the calls of the four contexts in every way.                      *)
EXTENDS View

CONSTANTS a, b, p, x

MCViewCtx == {a, b, p, x}
MCViewBoot == <<p, a, b, x>>

W(o) == [op |-> o]
T(o, c) == [op |-> o, to |-> c]
N(k) == [op |-> "vnotify", job |-> k]

MCViewProg ==
    [c \in MCViewCtx |->
        CASE c = a -> <<W("vwait"), W("wait_for"), W("vunlock"), W("vwaitu"),
                        W("vunlock")>>
          [] c = b -> <<W("vwait"), W("vunlock")>>
          [] c = p -> <<N(1), W("wait_for"), N(2), W("wait_for"), N(3),
                        T("interrupt", a)>>
          [] c = x -> <<W("wait_for"), T("interrupt", b)>>]

\* The producer is interrupted inside notify(): t keeps pointing at its
\* dead frame and a consumer returns with it.
MCViewProgIntr ==
    [c \in MCViewCtx |->
        CASE c = a -> <<W("vwait"), W("vunlock")>>
          [] c = b -> <<>>
          [] c = p -> <<W("wait_for"), N(1)>>
          [] c = x -> <<W("wait_for"), W("wait_for"), T("interrupt", p)>>]
=============================================================================
