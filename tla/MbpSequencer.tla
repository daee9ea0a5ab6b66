---------------------------- MODULE MbpSequencer ----------------------------
(***************************************************************************)
(* roq::market::mbp::Sequencer, the library's sequencer of one order book, *)
(* seen from src/roq/python/market/mbp/details.cpp (the arguments and the  *)
(* callbacks) and from Instrument.apply in samples/sbe_receiver.py (what   *)
(* it is relied upon to do): it collects incremental updates until there   *)
(* is a snapshot, applies those after the snapshot to it, passes the       *)
(* following ones through, and starts over when numbers are lost.          *)
(*                                                                         *)
(* An update is [sn, prev, content]: its number, that of the update before *)
(* it, and what it does to the book.  A book is the set of contents that   *)
(* went into it.  A call has a set of possible outcomes [sequencer,        *)
(* effect], where the effect is the callback made: none, "update",         *)
(* "snapshot" or "reset".                                                  *)
(***************************************************************************)
EXTENDS Naturals, Sequences

Fresh == [ready |-> FALSE, last |-> 0, cache |-> <<>>]

Nothing == [kind |-> "none", book |-> {}]
PublishUpdate(m) == [kind |-> "update", book |-> {m.content}]
PublishSnapshot(book) == [kind |-> "snapshot", book |-> book]
RequestSnapshot == [kind |-> "reset", book |-> {}]

ReadyAt(n) == [ready |-> TRUE, last |-> n, cache |-> <<>>]

(* Updates are collected as a chain; a gap leaves only what follows it.    *)
Collect(cache, m) ==
    IF cache # <<>> /\ cache[Len(cache)].sn = m.prev THEN Append(cache, m) ELSE <<m>>

Collecting(cache) == [ready |-> FALSE, last |-> 0, cache |-> cache]

Outcome(s, effect) == [sequencer |-> s, effect |-> effect]

(* operator()(bids, asks, first, last, previous, ...), with first = last.   *)
(* Whether a snapshot is asked for again while one is awaited depends on   *)
(* the timeout.                                                            *)
OnUpdate(s, m) ==
    IF ~s.ready
    THEN {Outcome(Collecting(Collect(s.cache, m)), e) : e \in {Nothing, RequestSnapshot}}
    ELSE IF m.sn <= s.last THEN {Outcome(s, Nothing)}
    ELSE IF m.prev = s.last THEN {Outcome(ReadyAt(m.sn), PublishUpdate(m))}
    ELSE {Outcome(Collecting(<<m>>), RequestSnapshot)}

(* operator()(bids, asks, sequence, force = true, ...): a snapshot older   *)
(* than the collected updates is of no use, any other is brought forward   *)
(* with them.  Nothing is known of what is done with an old snapshot when  *)
(* the sequencer is ready: it may be dropped or taken.                     *)
OnSnapshot(s, n, book) ==
    LET collected == {s.cache[k] : k \in 1 .. Len(s.cache)}
        numbers == {m.sn : m \in collected} \cup {n}
        newest == CHOOSE x \in numbers : \A y \in numbers : y <= x
    IN  IF s.ready
        THEN {Outcome(ReadyAt(n), PublishSnapshot(book))} \cup
             {Outcome(s, Nothing) : x \in {y \in {n} : y < s.last}}
        ELSE IF s.cache # <<>> /\ n < s.cache[1].prev
        THEN {Outcome(s, e) : e \in {Nothing, RequestSnapshot}}
        ELSE {Outcome(ReadyAt(newest),
                      PublishSnapshot(book \cup {m.content : m \in {x \in collected : x.sn > n}}))}
=============================================================================
