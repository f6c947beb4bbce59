------------------------------ MODULE Conforms ------------------------------
(***************************************************************************)
(* ircd::m::event::conforms (src/unnamed/part_002:779-1037): the syntactic *)
(* checks of an event, reported as a 64-bit bitset with one bit per code.  *)
(* The code enum is declared in event.h, which is not in the sources; its  *)
(* order is the order of event_conforms_reflects, which reflect() relies   *)
(* on.                                                                     *)
(*                                                                         *)
(* An event is abstracted to the values its checks tell apart.  An id is   *)
(* a record [n, host]: n > 0 a valid id, n = 0 absent (the empty string), *)
(* n < 0 present but not a valid id.  signatures is the set of hosts with  *)
(* a non-empty signature object.  A membership is "" (empty), "lower" (all *)
(* lower-case) or "mixed".  state_key is TRUE when it is not empty.       *)
(*                                                                         *)
(* The state is one conforms object: constructed from an event (with a     *)
(* skip mask), then changed by operator|= and del().  A ghost set `ref'    *)
(* holds the names the report should contain, from a set-based reference. *)
(***************************************************************************)
EXTENDS Integers, Sequences, SequencesExt, FiniteSets, Bitwise

CONSTANTS
    Events,   \* the events conforms is constructed from
    Skips,    \* the skip masks passed to conforms(e, skip)
    Edits     \* the codes passed to operator|= and del()

VARIABLES
    ev,       \* the event the object was constructed from
    report,   \* conforms::report
    ref       \* the names the report should hold

cvars == <<ev, report, ref>>

event_conforms_reflects ==
    <<"INVALID_OR_MISSING_EVENT_ID", "INVALID_OR_MISSING_ROOM_ID",
      "INVALID_OR_MISSING_SENDER_ID", "MISSING_TYPE", "MISSING_ORIGIN",
      "INVALID_ORIGIN", "INVALID_OR_MISSING_REDACTS_ID", "MISSING_MEMBERSHIP",
      "INVALID_MEMBERSHIP", "MISSING_CONTENT_MEMBERSHIP",
      "INVALID_CONTENT_MEMBERSHIP", "MISSING_PREV_EVENTS", "MISSING_PREV_STATE",
      "DEPTH_NEGATIVE", "DEPTH_ZERO", "MISSING_SIGNATURES",
      "MISSING_ORIGIN_SIGNATURE", "MISMATCH_ORIGIN_SENDER",
      "MISMATCH_ORIGIN_EVENT_ID", "SELF_REDACTS", "SELF_PREV_EVENT",
      "SELF_PREV_STATE", "DUP_PREV_EVENT", "DUP_PREV_STATE">>

\* num_of<code>()
NumCodes == Len(event_conforms_reflects)

Codes == 0 .. NumCodes - 1

\* m::reflect(code): the name, or "??????" out of range.
reflect(k) == IF k \in Codes THEN event_conforms_reflects[k + 1] ELSE "??????"

\* conforms::reflect(name): the position of the name (throws if none).
reflectCode(name) == CHOOSE k \in Codes : event_conforms_reflects[k + 1] = name

-----------------------------------------------------------------------------
(* The bitset.  report never has a bit at or above num_of<code>(), so the  *)
(* 64-bit ~mask is taken on those NumCodes bits.                           *)

Compl(x) == (2^NumCodes - 1) - x

\* Mutant: set() shifts one place too far.
setShift(r, k) == r | 2^(k + 1)

\* conforms::set(code): report |= (1UL << code)
set(r, k) == r | 2^k

\* conforms::del(code): report &= ~(1UL << code)
del(r, k) == r & Compl(2^k)

\* conforms::has(const code &): report & (1UL << code)
has(r, k) == (r & 2^k) # 0

\* conforms::has(const uint &): (report & (1UL << code)) == code
hasUint(r, k) == (r & 2^k) = k

\* conforms::clean()
clean(r) == r = 0

SetIf(r, cond, name) == IF cond THEN set(r, reflectCode(name)) ELSE r

-----------------------------------------------------------------------------
(* The constructor.                                                        *)

IdValid(i) == i.n > 0
Present(i) == i.n # 0

\* all_of<std::islower>: true for the empty string and a lower-case word.
AllLower(m) == m # "mixed"

\* Mutant: the inner loop drops its `i != j' test (an entry matches itself).
RECURSIVE PrevInnerSelf(_, _, _, _, _, _)
PrevInnerSelf(r, ps, pe, dup, i, j) ==
    IF j >= Len(ps) THEN r
    ELSE PrevInnerSelf(SetIf(r, ps[j + 1] = pe, dup), ps, pe, dup, i, j + 1)

\* for(pe_ : prev) if(i != j++) if(pe_.at(0) == pe.at(0)) set(dup);
RECURSIVE PrevInner(_, _, _, _, _, _)
PrevInner(r, ps, pe, dup, i, j) ==
    IF j >= Len(ps) THEN r
    ELSE PrevInner(SetIf(r, i # j /\ ps[j + 1] = pe, dup), ps, pe, dup, i, j + 1)

\* for(pe : prev) { if(unquote(pe.at(0)) == event_id) set(self);
\*                  j = 0; <inner loop>; ++i; }
RECURSIVE PrevOuter(_, _, _, _, _, _)
PrevOuter(r, ps, id, self, dup, i) ==
    IF i >= Len(ps) THEN r
    ELSE LET pe == ps[i + 1]
             r1 == SetIf(r, pe = id, self)
         IN  PrevOuter(PrevInner(r1, ps, pe, dup, i, 0), ps, id, self, dup, i + 1)

\* conforms::conforms(const event &e), in the order of its checks.
conforms(e) ==
    LET NotCreate == e.type # "m.room.create"
        Member == e.type = "m.room.member"
        r1 == SetIf(0, ~IdValid(e.event_id), "INVALID_OR_MISSING_EVENT_ID")
        r2 == SetIf(r1, ~e.room_id, "INVALID_OR_MISSING_ROOM_ID")
        r3 == SetIf(r2, ~IdValid(e.sender), "INVALID_OR_MISSING_SENDER_ID")
        r4 == SetIf(r3, e.type = "", "MISSING_TYPE")
        r5 == SetIf(r4, e.origin = "", "MISSING_ORIGIN")
        r6 == SetIf(r5, e.signatures = {}, "MISSING_SIGNATURES")
        r7 == SetIf(r6, e.origin \notin e.signatures, "MISSING_ORIGIN_SIGNATURE")
        r8 == SetIf(r7, ~has(r7, reflectCode("INVALID_OR_MISSING_SENDER_ID"))
                        /\ e.origin # e.sender.host, "MISMATCH_ORIGIN_SENDER")
        r9 == SetIf(r8, ~has(r8, reflectCode("INVALID_OR_MISSING_EVENT_ID"))
                        /\ e.origin # e.event_id.host, "MISMATCH_ORIGIN_EVENT_ID")
        r10 == SetIf(r9, e.type = "m.room.redaction" /\ ~IdValid(e.redacts),
                     "INVALID_OR_MISSING_REDACTS_ID")
        r11 == SetIf(r10, Present(e.redacts) /\ e.redacts = e.event_id,
                     "SELF_REDACTS")
        r12 == SetIf(r11, Member /\ e.membership = "", "MISSING_MEMBERSHIP")
        r13 == SetIf(r12, Member /\ ~AllLower(e.membership), "INVALID_MEMBERSHIP")
        r14 == SetIf(r13, Member /\ e.cmembership = "",
                     "MISSING_CONTENT_MEMBERSHIP")
        r15 == SetIf(r14, Member /\ ~AllLower(e.cmembership),
                     "INVALID_CONTENT_MEMBERSHIP")
        r16 == SetIf(r15, NotCreate /\ e.prev_events = <<>>, "MISSING_PREV_EVENTS")
        r17 == SetIf(r16, NotCreate /\ e.state_key /\ e.prev_state = <<>>,
                     "MISSING_PREV_STATE")
        r18 == SetIf(r17, e.depth < 0, "DEPTH_NEGATIVE")
        r19 == SetIf(r18, NotCreate /\ e.depth = 0, "DEPTH_ZERO")
        r20 == PrevOuter(r19, e.prev_events, e.event_id, "SELF_PREV_EVENT",
                         "DUP_PREV_EVENT", 0)
    IN  PrevOuter(r20, e.prev_state, e.event_id, "SELF_PREV_STATE",
                  "DUP_PREV_STATE", 0)

\* conforms(e, skip): conforms{e}; report &= ~skip;
conformsSkip(e, skip) == conforms(e) & Compl(skip)

\* Mutant: string() stops one code short.
stringShort(r) ==
    SelectSeq([i \in 1 .. NumCodes - 1 |-> reflect(i - 1)],
              LAMBDA n : has(r, reflectCode(n)))

\* conforms::string(): the names of the codes it has, in code order,
\* separated by spaces (the separators are left out).
RECURSIVE StringFrom(_, _)
StringFrom(r, i) ==
    IF i >= NumCodes THEN <<>>
    ELSE (IF has(r, i) THEN <<reflect(i)>> ELSE <<>>) \o StringFrom(r, i + 1)

string(r) == StringFrom(r, 0)

-----------------------------------------------------------------------------
(* The set-based reference: which names an event violates, read from the  *)
(* spec's list of codes and the checks' conditions, with the loops over    *)
(* prev_events and prev_state as quantifiers.                              *)

Flag(cond, n) == IF cond THEN {n} ELSE {}

Dup(ps) == \E i, j \in DOMAIN ps : i # j /\ ps[i] = ps[j]

Self(ps, id) == \E i \in DOMAIN ps : ps[i] = id

Violated(e) ==
    LET NotCreate == e.type # "m.room.create"
        Member == e.type = "m.room.member"
    IN  Flag(~IdValid(e.event_id), "INVALID_OR_MISSING_EVENT_ID")
        \cup Flag(~e.room_id, "INVALID_OR_MISSING_ROOM_ID")
        \cup Flag(~IdValid(e.sender), "INVALID_OR_MISSING_SENDER_ID")
        \cup Flag(e.type = "", "MISSING_TYPE")
        \cup Flag(e.origin = "", "MISSING_ORIGIN")
        \cup Flag(e.signatures = {}, "MISSING_SIGNATURES")
        \cup Flag(e.origin \notin e.signatures, "MISSING_ORIGIN_SIGNATURE")
        \cup Flag(IdValid(e.sender) /\ e.origin # e.sender.host,
                  "MISMATCH_ORIGIN_SENDER")
        \cup Flag(IdValid(e.event_id) /\ e.origin # e.event_id.host,
                  "MISMATCH_ORIGIN_EVENT_ID")
        \cup Flag(e.type = "m.room.redaction" /\ ~IdValid(e.redacts),
                  "INVALID_OR_MISSING_REDACTS_ID")
        \cup Flag(Present(e.redacts) /\ e.redacts = e.event_id, "SELF_REDACTS")
        \cup Flag(Member /\ e.membership = "", "MISSING_MEMBERSHIP")
        \cup Flag(Member /\ ~AllLower(e.membership), "INVALID_MEMBERSHIP")
        \cup Flag(Member /\ e.cmembership = "", "MISSING_CONTENT_MEMBERSHIP")
        \cup Flag(Member /\ ~AllLower(e.cmembership),
                  "INVALID_CONTENT_MEMBERSHIP")
        \cup Flag(NotCreate /\ e.prev_events = <<>>, "MISSING_PREV_EVENTS")
        \cup Flag(NotCreate /\ e.state_key /\ e.prev_state = <<>>,
                  "MISSING_PREV_STATE")
        \cup Flag(e.depth < 0, "DEPTH_NEGATIVE")
        \cup Flag(NotCreate /\ e.depth = 0, "DEPTH_ZERO")
        \cup Flag(Self(e.prev_events, e.event_id), "SELF_PREV_EVENT")
        \cup Flag(Self(e.prev_state, e.event_id), "SELF_PREV_STATE")
        \cup Flag(Dup(e.prev_events), "DUP_PREV_EVENT")
        \cup Flag(Dup(e.prev_state), "DUP_PREV_STATE")

\* The codes whose bits are set in r.
Bits(r) == {k \in Codes : (r \div 2^k) % 2 = 1}

Names(ks) == {reflect(k) : k \in ks}

-----------------------------------------------------------------------------

\* A conforms object constructed from an event, with one of the skip masks.
ConformsInit ==
    \E e \in Events, skip \in Skips :
        /\ ev = e
        /\ report = conformsSkip(e, skip)
        /\ ref = Violated(e) \ Names(Bits(skip))

\* conforms::operator|=(code): set(code)
OrEq(k) ==
    /\ report' = set(report, k)
    /\ ref' = ref \cup {reflect(k)}
    /\ UNCHANGED ev

\* conforms::del(code)
Del(k) ==
    /\ report' = del(report, k)
    /\ ref' = ref \ {reflect(k)}
    /\ UNCHANGED ev

ConformsNext == \E k \in Edits : OrEq(k) \/ Del(k)

ConformsSpec == ConformsInit /\ [][ConformsNext]_cvars

-----------------------------------------------------------------------------
(* Properties                                                              *)

ConformsTypeOK ==
    /\ DOMAIN ev = {"event_id", "room_id", "sender", "type", "origin",
                    "signatures", "redacts", "membership", "cmembership",
                    "prev_events", "prev_state", "state_key", "depth"}
    /\ report \in Nat /\ report < 2^NumCodes
    /\ ref \subseteq Names(Codes)

\* The report holds exactly the codes the event violates (less the skipped
\* ones, plus or minus the codes set and deleted since): the ctor's chain
\* of checks, including the ones that read earlier bits through has() and
\* the nested loops over prev_events and prev_state, and set/del on the
\* bitset agree with the set-based reference; clean() means none.
ReportExact ==
    /\ Names(Bits(report)) = ref
    /\ \A k \in Codes : has(report, k) <=> reflect(k) \in ref
    /\ clean(report) <=> ref = {}

\* string() names every code the report has, once each, in code order.
StringNames ==
    LET ks == SelectSeq([i \in 1 .. NumCodes |-> i - 1],
                        LAMBDA k : k \in Bits(report))
    IN  string(report) = [i \in DOMAIN ks |-> reflect(ks[i])]

\* conforms::has(const uint &), the overload a caller holding the code as
\* an integer gets, agrees with has(code) on every code.
HasUintAgrees == \A k \in Codes : hasUint(report, k) = has(report, k)

=============================================================================
