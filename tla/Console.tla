------------------------------ MODULE Console ------------------------------
(***************************************************************************)
(* The terminal console (src/unnamed/part_005) while the matrix is up:     *)
(* find_cmd's search of the cmds set for the longest leading run of the    *)
(* line's tokens, the dispatch of console_command (with the time prefix,   *)
(* which dispatches the rest of the line again), and the mod load, unload *)
(* and reload commands, which act on the mods::imports that MInit's        *)
(* on_load filled and on_unload tears down.  A command body runs without   *)
(* suspending, so it is one step.  A line is its sequence of tokens; a     *)
(* command name is the sequence of the words of its symbol.  The other    *)
(* commands only write to the output and are one step that changes         *)
(* nothing modelled.  The conf commands call into modules/s_conf.cc:       *)
(* conf default resets the conf items whose key starts with a prefix, in  *)
(* the key order of conf::items, and stops at a conf::set that throws;    *)
(* conf rehash and conf reload call functions whose bodies are empty, and *)
(* conf set reads its two parameters and sets nothing.                    *)
(***************************************************************************)
EXTENDS MInit

CONSTANTS
    Cmds,   \* the names in the cmds set, as token sequences
    Lines,  \* the lines typed at the console
    Items,  \* the keys of conf::items
    SetFails, \* the items whose conf::set of their default throws
    Chars   \* Chars[s]: the bytes of the key or prefix s, as numbers

\* cmd::PATH_MAX
PATH_MAX == 8

VARIABLES
    line,   \* the last line dispatched
    found,  \* what find_cmd returned for it
    failed, \* the last command threw (a module failed to load, a conf::set)
    conf    \* conf[k]: the item holds its default value, or another one

cvars == <<line, found, failed, conf>>
vars == <<mvars, cvars>>

NoCmd == <<>>

\* tokens_before(line, ' ', e): the first e tokens (all of them if fewer).
TokensBefore(l, e) == SubSeq(l, 1, IF e < Len(l) THEN e ELSE Len(l))

\* Mutant: the search starts from the shortest leading run.
RECURSIVE FindUp(_, _, _)
FindUp(l, e, top) ==
    IF e > top THEN NoCmd
    ELSE IF TokensBefore(l, e) \in Cmds THEN TokensBefore(l, e)
    ELSE FindUp(l, e + 1, top)

\* for(e = elems + 1; e > 0; --e): the first leading run of e tokens that
\* lower_bound finds with an equal name.
RECURSIVE FindFrom(_, _)
FindFrom(l, e) ==
    IF e = 0 THEN NoCmd
    ELSE IF TokensBefore(l, e) \in Cmds THEN TokensBefore(l, e)
    ELSE FindFrom(l, e - 1)

\* elems = min(token_count(line, ' '), cmd::PATH_MAX)
Elems(l) == IF Len(l) < PATH_MAX THEN Len(l) ELSE PATH_MAX

\* Mutant: find_cmd searches upward and returns the shortest command.
find_cmdShortest(l) == FindUp(l, 1, Elems(l) + 1)

find_cmd(l) == FindFrom(l, Elems(l) + 1)

\* Mutant: the arguments start at the command's last word.
ArgsOff(l, c) == SubSeq(l, Len(c), Len(l))

\* lstrip(split(line, cmd->name).second, ' '), split into its tokens.
Args(l, c) == SubSeq(l, Len(c) + 1, Len(l))

\* Each name in turn: find, and emplace if absent; an emplace that throws
\* ends the command with what was loaded before it.  The results are the
\* pairs of imports and whether the command threw.
RECURSIVE Loads(_, _)
Loads(imp, ns) ==
    IF ns = <<>> THEN {<<imp, FALSE>>}
    ELSE LET n == Head(ns)
         IN  IF n \in ToSet(imp) THEN Loads(imp, Tail(ns))
             ELSE Loads(Append(imp, n), Tail(ns))
                  \cup (IF n \in MayFail THEN {<<imp, TRUE>>} ELSE {})

\* Each name in turn: mods::imports.erase(name).
Unloads(imp, ns) == FoldLeft(LAMBDA s, n : Remove(s, n), imp, ns)

\* Mutant: the second loop of mod reload runs begin() to end().
ReloadOrderFwd(ns) == ns

\* mod reload: the second loop runs names.rbegin() to names.rend().
ReloadOrder(ns) == Reverse(ns)

\* std::map's order of the keys of conf::items: bytewise, a prefix first.
RECURSIVE KeyLess(_, _)
KeyLess(a, b) ==
    \/ a = <<>> /\ b # <<>>
    \/ a # <<>> /\ b # <<>>
       /\ \/ Head(a) < Head(b)
          \/ Head(a) = Head(b) /\ KeyLess(Tail(a), Tail(b))

\* for(const auto &p : conf::items)
ItemOrder == SetToSortSeq(Items, LAMBDA a, b : KeyLess(Chars[a], Chars[b]))

\* startswith(key, prefix); an empty prefix (a null string_view) is false.
Selected(k, prefix) == prefix = <<>> \/ IsPrefix(prefix, Chars[k])

\* Mutant: conf default skips an item that throws and goes on.
RECURSIVE DefaultOnPast(_, _, _)
DefaultOnPast(cf, prefix, ks) ==
    IF ks = <<>> THEN {<<cf, FALSE>>}
    ELSE LET k == Head(ks)
             set == [cf EXCEPT ![k] = "default"]
         IN  IF ~Selected(k, prefix) THEN DefaultOnPast(cf, prefix, Tail(ks))
             ELSE IF k \in SetFails
                  THEN {<<c[1], TRUE>> : c \in DefaultOnPast(cf, prefix, Tail(ks))}
                  ELSE DefaultOnPast(set, prefix, Tail(ks))

\* The rest of default_conf's loop from the keys ks: each selected item is
\* conf::set to its default; a throwing conf::set ends the loop, and the
\* item may or may not hold the new value (the parse or the item's own
\* callback threw).
RECURSIVE DefaultFrom(_, _, _)
DefaultFrom(cf, prefix, ks) ==
    IF ks = <<>> THEN {<<cf, FALSE>>}
    ELSE LET k == Head(ks)
             set == [cf EXCEPT ![k] = "default"]
         IN  IF ~Selected(k, prefix) THEN DefaultFrom(cf, prefix, Tail(ks))
             ELSE IF k \in SetFails THEN {<<cf, TRUE>>, <<set, TRUE>>}
             ELSE DefaultFrom(set, prefix, Tail(ks))

\* default_conf(prefix): the results are the pairs of the conf values and
\* whether it threw.
default_conf(cf, prefix) == DefaultFrom(cf, prefix, ItemOrder)

\* rehash_conf(prefix, existing) and reload_conf(): empty bodies.
rehash_conf(cf, prefix, existing) == cf
reload_conf(cf) == cf

\* param.at("prefix", "*"); "*" is the empty prefix.
ConfPrefix(a) == IF a = <<>> \/ a[1] = "*" THEN <<>> ELSE Chars[a[1]]

\* console_cmd__conf__set: param.at(0) and param.at(1) throw when absent;
\* then it returns true, having set nothing.
conf_set(imp, cf, a) == {<<imp, Len(a) < 2, cf>>}

\* console_cmd__conf__rehash (force if the second parameter is "force"),
\* __default and __reload, each through its mods::import of s_conf.
ConfCommand(imp, cf, c, a) ==
    CASE c = <<"conf", "default">> ->
             {<<imp, r[2], r[1]>> : r \in default_conf(cf, ConfPrefix(a))}
      [] c = <<"conf", "rehash">> ->
             {<<imp, FALSE, rehash_conf(cf, ConfPrefix(a),
                                        Len(a) > 1 /\ a[2] = "force")>>}
      [] c = <<"conf", "reload">> -> {<<imp, FALSE, reload_conf(cf)>>}
      [] c = <<"conf", "set">>    -> conf_set(imp, cf, a)

\* The outcomes of running the command line l on imports imp and conf
\* values cf, as triples of imports, whether it threw, and conf values:
\* mod load, mod unload, mod reload, the conf commands, the time prefix,
\* and everything else (no command found: console_command_derived returns
\* -1; a command that only writes output).
RECURSIVE Run(_, _, _)
Run(imp, cf, l) ==
    LET c == find_cmd(l)
        a == Args(l, c)
        WithConf(rs) == {<<r[1], r[2], cf>> : r \in rs}
    IN  CASE c = <<"mod", "load">>   -> WithConf(Loads(imp, a))
          [] c = <<"mod", "unload">> -> {<<Unloads(imp, a), FALSE, cf>>}
          [] c = <<"mod", "reload">> ->
                 WithConf(Loads(Unloads(imp, a), ReloadOrder(a)))
          [] c \in {<<"conf", "default">>, <<"conf", "rehash">>,
                    <<"conf", "reload">>, <<"conf", "set">>} ->
                 ConfCommand(imp, cf, c, a)
          [] c = <<"time">>          -> Run(imp, cf, a)
          [] OTHER                   -> {<<imp, FALSE, cf>>}

ConsoleTypeOK ==
    /\ MInitTypeOK
    /\ line \in Lines \cup {<<>>}
    /\ found \in Cmds \cup {NoCmd}
    /\ failed \in BOOLEAN
    /\ conf \in [Items -> {"default", "other"}]

\* The items hold what the environment, the !conf room or a conf set by
\* code gave them: any mix of defaults and other values.
ConsoleInit ==
    /\ MInitInit /\ line = <<>> /\ found = NoCmd /\ failed = FALSE
    /\ conf \in [Items -> {"default", "other"}]

\* console_command(out, line, opts) at run level RUN, that is while the
\* matrix is up.
ConsoleCommand(l) ==
    /\ phase = "up"
    /\ \E r \in Run(imports, conf, l) :
           imports' = r[1] /\ failed' = r[2] /\ conf' = r[3]
    /\ line' = l
    /\ found' = find_cmd(l)
    /\ UNCHANGED <<phase, dbs, fetch, mods, i, skipped, autoload, empty>>

ConsoleNext ==
    \/ MInitNext /\ UNCHANGED cvars
    \/ \E l \in Lines : ConsoleCommand(l)

\* The console is driven by its user: no fairness for its commands.
ConsoleSpec ==
    ConsoleInit /\ [][ConsoleNext]_vars
    /\ WF_vars((LoadSteps \/ UnloadSteps) /\ UNCHANGED cvars)

-----------------------------------------------------------------------------
(* Properties                                                              *)

\* The reference: the longest leading run of at most PATH_MAX tokens of
\* the line that names a command.
LongestCmd(l) ==
    LET runs == {SubSeq(l, 1, k) : k \in 1 .. Len(l)} \cap Cmds
        ok   == {r \in runs : Len(r) <= PATH_MAX}
    IN  IF ok = {} THEN NoCmd
        ELSE CHOOSE r \in ok : \A s \in ok : Len(s) <= Len(r)

\* find_cmd's downward loop over tokens_before and cmds.lower_bound picks
\* the longest command that the line begins with, so "mod load x" runs
\* mod load and not mod.
FindLongest == found = LongestCmd(line)

\* The command a line runs once time prefixes are taken off.
RECURSIVE Untimed(_)
Untimed(l) == IF find_cmd(l) = <<"time">> THEN Untimed(Args(l, <<"time">>)) ELSE l

\* conf default p (behind any time prefixes) changes only the items whose
\* key starts with p, all of them when p is "*" or absent; when it returns,
\* each of those holds its default; when one's conf::set throws (default_conf
\* has no try), the console reports the throw and every selected item after
\* the throwing one in conf::items' order keeps the value it had.
DefaultConfStops ==
    [][\A l \in Lines :
         LET m   == Untimed(l)
             p   == ConfPrefix(Args(m, find_cmd(m)))
             sel == {k \in Items : p = <<>> \/ IsPrefix(p, Chars[k])}
         IN  (ConsoleCommand(l) /\ find_cmd(m) = <<"conf", "default">>) =>
               /\ \A k \in Items \ sel : conf'[k] = conf[k]
               /\ ~failed' => \A k \in sel : conf'[k] = "default"
               /\ failed' => \E f \in sel \cap SetFails :
                               \A k \in sel : KeyLess(Chars[f], Chars[k])
                                              => conf'[k] = conf[k]]_vars

\* What a mod reload can lose (behind any time prefixes).  It erases every
\* name it is given and emplaces them again last to first, and an emplace
\* that throws ends the command.  So a module it does not name stays
\* imported, and a named module that ends up unimported lies at or before,
\* on the line, a module that failed to load, and the command reports the
\* throw.  A reload whose second loop ran first to last would lose the
\* names after the failing one instead.
ReloadLossConfined ==
    [][\A l \in Lines :
         LET m == Untimed(l)
             a == Args(m, find_cmd(m))
             Lost(k) == a[k] \notin ToSet(imports')
         IN  (ConsoleCommand(l) /\ find_cmd(m) = <<"mod", "reload">>) =>
               /\ ToSet(imports) \ ToSet(a) \subseteq ToSet(imports')
               /\ \A k \in 1 .. Len(a) :
                    Lost(k) => /\ failed'
                               /\ \E j \in k .. Len(a) : a[j] \in MayFail /\ Lost(j)]_vars

=============================================================================
