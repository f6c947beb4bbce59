----------------------------- MODULE MCConsole -----------------------------
(* MCMInit's module_names with a console: the mod commands, a command    *)
(* name that is a prefix of others, a misspelt subcommand, the time       *)
(* prefix, and a line that names no command.  m_vm may fail to load, so    *)
(* a reload naming it after m_noop loses m_noop, and one naming it first  *)
(* keeps m_noop, which it emplaces before m_vm.  The conf commands run    *)
(* over three items, one of which throws when set to its default.         *)
EXTENDS Console

MCModuleNames == <<"m_noop", "m_listen", "web_hook", "m_vm", "m_listen">>
MCOptional == {"web_hook"}
MCMayFail == {"web_hook", "m_vm"}

MCCmds == {<<"mod">>, <<"mod", "load">>, <<"mod", "unload">>,
           <<"mod", "reload">>, <<"mod", "path">>, <<"help">>, <<"time">>,
           <<"conf">>, <<"conf", "default">>, <<"conf", "rehash">>,
           <<"conf", "reload">>, <<"conf", "set">>}

MCLines == {<<"mod", "unload", "m_vm", "m_noop">>,
            <<"mod", "load", "m_vm">>,
            <<"time", "mod", "load", "m_noop">>,
            <<"mod", "reload", "m_noop", "m_vm">>,
            <<"mod", "reload", "m_vm", "m_noop">>,
            <<"mod", "lod", "m_vm">>,
            <<"help", "mod">>,
            <<"db", "sync">>,
            <<"conf", "default", "ab">>,
            <<"conf", "default", "b">>,
            <<"time", "conf", "default">>,
            <<"conf", "rehash", "ab", "force">>,
            <<"conf", "reload">>,
            <<"conf", "set", "ab">>}

\* Keys "ab" < "abc" < "b" in conf::items; "abc"'s default does not set.
\* conf default ab selects ab and abc (a byte prefix, not a dotted
\* component) and throws at abc; conf default with no prefix throws at
\* abc before it reaches b.
MCItems == {"ab", "abc", "b"}
MCSetFails == {"abc"}
\* Every other token of the lines begins with a byte that no key begins
\* with.
MCChars == [s \in UNION {ToSet(l) : l \in MCLines} \cup MCItems |->
                CASE s = "ab"  -> <<1, 2>>
                  [] s = "abc" -> <<1, 2, 3>>
                  [] s = "b"   -> <<2>>
                  [] OTHER     -> <<9>>]
=============================================================================
