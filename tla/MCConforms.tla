----------------------------- MODULE MCConforms ----------------------------
(* Events over two hosts and two event ids.  The checks read disjoint     *)
(* groups of fields except through the event id (MISMATCH_ORIGIN_EVENT_ID, *)
(* SELF_REDACTS, the SELF_PREV codes) and earlier bits (MISMATCH), so one *)
(* family varies the header fields, redacts and the prev lists together,   *)
(* and another the type-dependent fields, each around a passing event.     *)
EXTENDS Conforms

Id(n, h) == [n |-> n, host |-> h]

NoId == Id(0, "")
BadId == Id(-1, "")
E1 == Id(1, "h1")
E2 == Id(2, "h2")
U1 == Id(3, "h1")
U2 == Id(4, "h2")

\* The fields the header checks, SELF_REDACTS and the prev loops read.
Header ==
    [event_id : {E1, BadId}, room_id : BOOLEAN, sender : {U1, U2, NoId},
     origin : {"h1", ""}, signatures : {{}, {"h1"}, {"h2"}},
     redacts : {NoId, E1, BadId},
     prev_events : {<<>>, <<E2>>, <<E2, E1>>, <<E2, E2>>},
     prev_state : {<<>>, <<E1>>, <<E2, E2>>}]

\* The fields the type-dependent checks read.
Body ==
    [type : {"m.room.create", "m.room.member", "m.room.redaction", ""},
     membership : {"", "lower", "mixed"}, cmembership : {"lower", "mixed", ""},
     state_key : BOOLEAN, depth : {-1, 0, 1}]

\* A member event of h1 that passes every check.
BaseHeader ==
    [event_id |-> E1, room_id |-> TRUE, sender |-> U1, origin |-> "h1",
     signatures |-> {"h1"}, redacts |-> NoId, prev_events |-> <<E2>>,
     prev_state |-> <<E2>>]
BaseBody ==
    [type |-> "m.room.member", membership |-> "lower", cmembership |-> "lower",
     state_key |-> TRUE, depth |-> 1]

Merge(h, b) == [f \in DOMAIN h \cup DOMAIN b |->
                    IF f \in DOMAIN h THEN h[f] ELSE b[f]]

MCEvents ==
    {Merge(h, BaseBody) : h \in Header} \cup {Merge(BaseHeader, b) : b \in Body}

MCSkips == {0, 2^13 + 2^23}
MCEdits == {0, 23}
=============================================================================
