------------------------------- MODULE MCCtx -------------------------------
(* The smallest programs that show each finding of Ctx; the programs that *)
(* use every call are in MCOle, which checks Ctx with the offload thread. *)
EXTENDS Ctx

CONSTANTS c1, c2, c3, c4

MCCtxSet == {c1, c2, c3, c4}
MCBoot == <<c1>>

W(o) == [op |-> o]
T(o, t) == [op |-> o, to |-> t]
S(t, m) == [op |-> "spawn", to |-> t, mode |-> m]

\* c1 spawns c2 inline; c2 notes its parent (as any callee may note the
\* context that is waiting on it), suspends, and c1 then joins it.
MCProgJoin ==
    [c \in MCCtxSet |->
        CASE c = c1 -> <<S(c2, "INLINE"), T("join", c2)>>
          [] c = c2 -> <<T("notify", c1), W("wait_for")>>
          [] OTHER  -> <<>>]

\* c1 spawns c2 inline; c2 interrupts c1 and suspends; c1 then waits.
MCProgIntr ==
    [c \in MCCtxSet |->
        CASE c = c1 -> <<S(c2, "INLINE"), W("wait")>>
          [] c = c2 -> <<T("interrupt", c1), W("wait_for")>>
          [] OTHER  -> <<>>]

\* modules/s_conf.cc rehash_on_run: a temporary
\* ctx::context{"confhash", ..., on_run, POST} is destroyed at the end of
\* its full-expression: ~context interrupts and joins it, then deletes the
\* ctx.  c1 is the context running the runlevel callback, c2 is confhash.
MCProgConfHash ==
    [c \in MCCtxSet |->
        CASE c = c1 -> <<S(c2, "POST"), T("interrupt", c2), T("join", c2),
                         T("free", c2)>>
          [] OTHER  -> <<>>]
=============================================================================
