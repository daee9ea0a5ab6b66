--------------------------- MODULE ReorderBuffer ---------------------------
(***************************************************************************)
(* roq::io::net::ReorderBuffer, the library's re-order buffer, seen from   *)
(* the binding in src/roq/python/io/net/details.cpp: the options it is     *)
(* created with and the three callbacks it makes (the sequence number of a *)
(* datagram, "parse" for the next datagram in order, "reset" for a gap     *)
(* that will not be filled).                                               *)
(*                                                                         *)
(* A buffer is a record: "next" is the sequence number parsed next (0      *)
(* until the first datagram is seen) and "held" the sequence numbers held  *)
(* back.  The module has no state: whoever owns a buffer applies these     *)
(* operators to its own variable.                                          *)
(***************************************************************************)
EXTENDS Naturals, FiniteSets

CONSTANT Depth  \* Options.depth: datagrams held before a gap is given up

Buffer == [next : Nat, held : SUBSET (Nat \ {0})]

Empty == [next |-> 0, held |-> {}]

(* A datagram enters: the first one seen sets the position in the stream,  *)
(* one already passed (late or duplicate) is dropped, any other is held.   *)
Insert(buffer, n) ==
    IF buffer.next = 0 THEN [next |-> n, held |-> {n}]
    ELSE IF n < buffer.next THEN buffer
    ELSE [buffer EXCEPT !.held = @ \cup {n}]

(* The next datagram is there, and is handed to "parse".                   *)
Ready(buffer) == buffer.next \in buffer.held

Advance(buffer) ==
    [next |-> buffer.next + 1, held |-> buffer.held \ {buffer.next}]

(* Too many datagrams wait for the missing one: it counts as lost.         *)
Overflow(buffer) == ~Ready(buffer) /\ Cardinality(buffer.held) >= Depth

(* n is where the stream is taken up again after "reset".                  *)
IsLowest(buffer, n) == n \in buffer.held /\ \A m \in buffer.held : n <= m

SkipTo(buffer, n) == [buffer EXCEPT !.next = n]
=============================================================================
