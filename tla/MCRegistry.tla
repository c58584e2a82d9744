----------------------------- MODULE MCRegistry -----------------------------
(* Registry on a few texts: two that differ, and one for each way to be refused. *)
EXTENDS Registry

MCPlain    == [str |-> TRUE, blank |-> FALSE, at |-> FALSE, len |-> 1]
MCExact    == [MCPlain EXCEPT !.len = MaxKey]
MCLong     == [MCPlain EXCEPT !.len = MaxKey + 1]
MCReserved == [MCPlain EXCEPT !.at = TRUE]
MCEmpty    == [MCPlain EXCEPT !.blank = TRUE, !.len = 0]
MCBlank    == [MCPlain EXCEPT !.blank = TRUE]
MCNumber   == [MCPlain EXCEPT !.str = FALSE]

MCText == {MCPlain, MCExact, MCLong, MCReserved, MCEmpty, MCBlank, MCNumber}

MCKeys     == {MCExact, MCLong, MCReserved, MCBlank, MCNumber}
MCValues   == {MCPlain, MCEmpty, MCNumber}
MCMessages == {MCPlain, MCBlank, MCNumber}
MCObjectIds == {MCPlain, MCBlank, MCNumber}

\* The empty instance is none.
MCPaths == {<<MCPlain, MCPlain, i>> : i \in {None, MCEmpty, MCNumber}}
           \cup {<<MCBlank, MCPlain, None>>, <<MCPlain, MCNumber, None>>}

\* Two to move between, one of them also the path of a counter, and a bad one.
MCStampPaths == {<<MCPlain, MCExact, None>>, <<MCPlain, MCPlain, None>>, <<MCBlank, MCExact, None>>}
==============================================================================
