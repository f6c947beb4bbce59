------------------------------- MODULE MInit -------------------------------
(***************************************************************************)
(* The start and stop of the matrix module (src/unnamed/part_006):         *)
(* on_load constructs the server keys, the databases (_dbs), the conf, the *)
(* fetch unit (_fetch) and init::modules (_modules), whose constructor     *)
(* imports module_names in order (a failing optional module is skipped; a  *)
(* failing required one throws, and the constructor's exceptional unwind   *)
(* erases module_names in reverse) and bootstraps an empty database; then  *)
(* signs on.  Any step may throw, which ends on_load.  on_unload erases    *)
(* m_listen, signs off, resets _fetch, _modules (erasing module_names in   *)
(* reverse) and _dbs, and closes the network (I/O, left out).              *)
(*                                                                         *)
(* mods::imports is a std::map keyed by name; emplace of a name already    *)
(* present leaves it.  It is kept here as the names in the order they were *)
(* loaded.                                                                 *)
(***************************************************************************)
EXTENDS Integers, Sequences, SequencesExt, FiniteSets

CONSTANTS
    ModuleNames,  \* m::module_names, in order (a name may repeat)
    Optional,     \* m::module_names_optional
    MayFail,      \* the names whose import may throw
    Listen        \* "m_listen", erased first by on_unload

ASSUME /\ ModuleNames \in Seq(STRING)
       /\ Listen \in ToSet(ModuleNames)

VARIABLES
    phase,     \* where on_load / on_unload is
    dbs,       \* _dbs is set
    fetch,     \* _fetch is set
    mods,      \* _modules is set
    imports,   \* mods::imports, in load order
    i,         \* the position in module_names of the running loop
    skipped,   \* optional modules whose import failed
    autoload,  \* ircd::mods::autoload
    empty      \* vm::sequence::retired == 0 (an empty events database)

mvars == <<phase, dbs, fetch, mods, imports, i, skipped, autoload, empty>>

Phases == {"start", "dbs", "conf", "fetch", "modules", "import",
           "unwind", "signon", "up", "signoff", "fini", "dbs_reset", "down",
           "failed"}

MInitTypeOK ==
    /\ phase \in Phases
    /\ {dbs, fetch, mods, autoload, empty} \subseteq BOOLEAN
    /\ imports \in Seq(ToSet(ModuleNames))
    /\ IsInjective(imports)    \* the keys of a std::map
    /\ i \in 0 .. Len(ModuleNames) + 1
    /\ skipped \subseteq Optional

\* One of on_load's steps throws: the catch logs and rethrows.
Fail == phase' = "failed"

Go(p) == phase' = p

MInitInit ==
    /\ phase = "start"
    /\ dbs = FALSE /\ fetch = FALSE /\ mods = FALSE
    /\ imports = <<>>
    /\ i = 0
    /\ skipped = {}
    /\ autoload \in BOOLEAN
    /\ empty \in BOOLEAN

-----------------------------------------------------------------------------
(* on_load                                                                 *)

\* m::self::init::keys()
Keys ==
    /\ phase = "start"
    /\ Go("dbs") \/ Fail
    /\ UNCHANGED <<dbs, fetch, mods, imports, i, skipped, autoload, empty>>

\* _dbs = make_unique<dbs::init>(...)
Dbs ==
    /\ phase = "dbs"
    /\ \/ Go("conf") /\ dbs' = TRUE
       \/ Fail /\ UNCHANGED dbs
    /\ UNCHANGED <<fetch, mods, imports, i, skipped, autoload, empty>>

\* reload_conf(); _fetch = make_unique<fetch::init>();
ConfFetch ==
    /\ phase \in {"conf", "fetch"}
    /\ \/ phase = "conf" /\ Go("fetch") /\ UNCHANGED fetch
       \/ phase = "fetch" /\ Go("modules") /\ fetch' = TRUE
       \/ Fail /\ UNCHANGED fetch
    /\ UNCHANGED <<dbs, mods, imports, i, skipped, autoload, empty>>

\* init::modules(): init_imports(); without autoload it returns at once.
ModulesCtor ==
    /\ phase = "modules"
    /\ IF autoload
       THEN Go("import") /\ i' = 1 /\ UNCHANGED mods
       ELSE Go("signon") /\ mods' = TRUE /\ UNCHANGED i
    /\ UNCHANGED <<dbs, fetch, imports, skipped, autoload, empty>>

\* Mutant: the catch continues for every module, optional or not.
SkipAny(n) == TRUE

\* catch(...): continue if the name is in module_names_optional.
SkipOptional(n) == n \in Optional

\* The exceptional unwind of the constructor: fini_imports() from the end.
Unwind == Go("unwind") /\ i' = Len(ModuleNames)

\* Mutant: emplace inserts whether or not the key is present.
LoadedNever(n) == FALSE

\* std::map::emplace finds the key already present.
Loaded(n) == n \in ToSet(imports)

\* mods::imports.emplace(name, name) for module_names[i].  Of a name
\* already present the map keeps the first import (the node emplace built
\* is dropped; the module's load is reference-counted).
Import ==
    LET n == ModuleNames[i]
    IN  /\ phase = "import"
        /\ i <= Len(ModuleNames)
        /\ \/ /\ Loaded(n)
              /\ i' = i + 1
              /\ UNCHANGED <<phase, imports, skipped>>
           \/ /\ ~Loaded(n)
              /\ imports' = Append(imports, n)
              /\ i' = i + 1
              /\ UNCHANGED <<phase, skipped>>
           \/ /\ ~Loaded(n)
              /\ n \in MayFail
              /\ UNCHANGED imports
              /\ IF SkipOptional(n)
                 THEN i' = i + 1 /\ skipped' = skipped \cup {n}
                                 /\ UNCHANGED phase
                 ELSE Unwind /\ UNCHANGED skipped
        /\ UNCHANGED <<dbs, fetch, mods, autoload, empty>>

\* After the loop: an empty database is bootstrapped (which may throw);
\* then the constructor has completed.
Bootstrap ==
    /\ phase = "import"
    /\ i = Len(ModuleNames) + 1
    /\ \/ Go("signon") /\ mods' = TRUE /\ UNCHANGED i
       \/ empty /\ Unwind /\ UNCHANGED mods
    /\ UNCHANGED <<dbs, fetch, imports, skipped, autoload, empty>>

\* Mutant: the exceptional unwind is missing; the exception leaves at once.
UnwindFiniNone ==
    /\ phase = "unwind"
    /\ Fail
    /\ UNCHANGED <<dbs, fetch, mods, imports, i, skipped, autoload, empty>>

\* fini_imports() under the exceptional unwind: erase module_names[i],
\* from the last; then the exception leaves on_load.
UnwindFini ==
    /\ phase = "unwind"
    /\ IF i >= 1
       THEN imports' = Remove(imports, ModuleNames[i]) /\ i' = i - 1
                                                        /\ UNCHANGED phase
       ELSE Fail /\ UNCHANGED <<imports, i>>
    /\ UNCHANGED <<dbs, fetch, mods, skipped, autoload, empty>>

\* self::signon()
Signon ==
    /\ phase = "signon"
    /\ Go("up") \/ Fail
    /\ UNCHANGED <<dbs, fetch, mods, imports, i, skipped, autoload, empty>>

-----------------------------------------------------------------------------
(* on_unload                                                               *)

\* mods::imports.erase("m_listen"); m::sync::pool.join() (if any).
UnloadListen ==
    /\ phase = "up"
    /\ imports' = Remove(imports, Listen)
    /\ Go("signoff")
    /\ UNCHANGED <<dbs, fetch, mods, i, skipped, autoload, empty>>

\* self::signoff(); _fetch.reset(); then _modules.reset() runs
\* ~modules() -> fini_imports().
Signoff ==
    /\ phase = "signoff"
    /\ fetch' = FALSE
    /\ Go("fini")
    /\ i' = Len(ModuleNames)
    /\ UNCHANGED <<dbs, mods, imports, skipped, autoload, empty>>

\* Mutant: on_unload resets _dbs before _modules.
FiniDbsFirst ==
    /\ phase = "fini"
    /\ dbs' = FALSE
    /\ IF i >= 1
       THEN imports' = Remove(imports, ModuleNames[i]) /\ i' = i - 1
                                                        /\ UNCHANGED <<phase, mods>>
       ELSE Go("dbs_reset") /\ mods' = FALSE /\ UNCHANGED <<imports, i>>
    /\ UNCHANGED <<fetch, skipped, autoload, empty>>

\* fini_imports(): for(it = rbegin; it != rend; ++it) imports.erase(*it);
Fini ==
    /\ phase = "fini"
    /\ IF i >= 1
       THEN imports' = Remove(imports, ModuleNames[i]) /\ i' = i - 1
                                                        /\ UNCHANGED <<phase, mods>>
       ELSE Go("dbs_reset") /\ mods' = FALSE /\ UNCHANGED <<imports, i>>
    /\ UNCHANGED <<dbs, fetch, skipped, autoload, empty>>

\* _dbs.reset(); then the servers and clients are closed.
DbsReset ==
    /\ phase = "dbs_reset"
    /\ dbs' = FALSE
    /\ Go("down")
    /\ UNCHANGED <<fetch, mods, imports, i, skipped, autoload, empty>>

\* The straight-line steps of on_load and of on_unload after its start.
LoadSteps ==
    \/ Keys \/ Dbs \/ ConfFetch \/ ModulesCtor \/ Import \/ Bootstrap
    \/ UnwindFini \/ Signon

UnloadSteps == Signoff \/ Fini \/ DbsReset

MInitNext == LoadSteps \/ UnloadListen \/ UnloadSteps

\* on_load and on_unload run to their end once started; nothing forces
\* the daemon to quit, so UnloadListen, the start of on_unload, is not fair.
MInitSpec ==
    MInitInit /\ [][MInitNext]_mvars /\ WF_mvars(LoadSteps \/ UnloadSteps)

-----------------------------------------------------------------------------
(* Properties                                                              *)

\* Every imported module belongs to a live init::modules: while _modules is
\* not set, imports exist only during its constructor.  A required module
\* failing to load must leave none of the modules imported before it.
ImportsOwned ==
    imports # <<>> => mods \/ phase \in {"import", "unwind"}

\* When on_load completes with autoload, every module of module_names is
\* imported except the optional ones that failed.
UpHasAll ==
    [][phase # "up" /\ phase' = "up" /\ autoload =>
           /\ ToSet(imports') \cup skipped' = ToSet(ModuleNames)
           /\ skipped' \subseteq Optional]_mvars

\* The databases outlive the modules: _dbs is not destroyed while a module
\* init loaded is still imported.
DbsOutliveImports ==
    phase \notin {"start", "dbs"} /\ ~dbs => imports = <<>>

=============================================================================
