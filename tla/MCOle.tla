------------------------------- MODULE MCOle -------------------------------
(* The smallest program that shows the Ole finding; the offload programs  *)
(* that pass are in MCRuntime, which checks Ole with the pool.            *)
EXTENDS Ole

CONSTANTS c1, c2

MCOleCtx == {c1, c2}
MCOleBoot == <<c1>>

W(o) == [op |-> o]
T(o, t) == [op |-> o, to |-> t]
S(t, m) == [op |-> "spawn", to |-> t, mode |-> m]

\* c2 interrupts c1 while c1 waits for its offloaded closure.
MCOleProgIntr ==
    [c \in MCOleCtx |->
        CASE c = c1 -> <<S(c2, "POST"), W("offload")>>
          [] c = c2 -> <<T("interrupt", c1)>>]
=============================================================================
