----------------------------- MODULE MarketData -----------------------------
(***************************************************************************)
(* The market data client of samples/sbe_receiver.py put together:         *)
(* Incremental is a Receiver whose decoder's callback feeds the order      *)
(* books, beside the snapshot channel.  The two channels are handled by    *)
(* one event loop: a snapshot never comes in the middle of a dispatch.     *)
(*                                                                         *)
(* Message n is the one whose last fragment is in datagram n.  Messages of *)
(* the snapshot channel are taken as whole: its Receiver is the same code, *)
(* and module MarketByPriceFeed says what a torn snapshot would do.        *)
(***************************************************************************)
EXTENDS Naturals, Sequences, FiniteSets

CONSTANTS
    Depth,        \* depth of the re-order buffer
    Instruments,  \* keys (exchange, symbol) of Shared.instruments
    Publications  \* what a publisher may send: records [stream, script]

VARIABLES
    stream, reorder_buffer, pc, decode_buffer, header, decoded, errors, intact,
    script, snapped, sequencer, book, health

Streams == {p.stream : p \in Publications}
Scripts == {p.script : p \in Publications}

Channel == INSTANCE Receiver WITH CallbackMayRaise <- TRUE

-----------------------------------------------------------------------------
(* What the books see of the channel: the next datagram decides how far it *)
(* has come, the messages that were not handed over whole are lost.        *)
Position == IF reorder_buffer.next = 0 THEN 1 ELSE reorder_buffer.next

Handed ==
    {decoded[k].header : k \in {l \in 1 .. Len(decoded) : Channel!Whole(stream, decoded[l].buffer)}}

LostMessages ==
    {p \in 1 .. Position - 1 : script[p].update_type # "OTHER" /\ p \notin Handed}

Books == INSTANCE MarketByPriceFeed WITH position <- Position, lost <- LostMessages

receiverVars == <<stream, reorder_buffer, pc, decode_buffer, header, decoded, errors, intact>>
vars == <<receiverVars, script, snapped, sequencer, book, health>>

(* A fragment that is not the last of its message is no message.           *)
ASSUME MarketDataAssumption ==
    /\ Depth \in Nat \ {0}
    /\ \A p \in Publications :
          /\ p.stream \in Seq([frag : Nat, max : Nat]) /\ Channel!WellFormed(p.stream)
          /\ p.script \in Seq(Books!Message) /\ Len(p.script) = Len(p.stream)
          /\ \A n \in 1 .. Len(p.stream) :
                p.stream[n].frag # p.stream[n].max => p.script[n] = Books!Other

Init ==
    /\ Channel!Init
    /\ script \in {p.script : p \in {q \in Publications : q.stream = stream}}
    /\ snapped = 0
    /\ sequencer = [i \in Instruments |-> Books!Sequencer!Fresh]
    /\ book = [i \in Instruments |-> {}]
    /\ health = [i \in Instruments |-> "sound"]

-----------------------------------------------------------------------------
Whole(call) == Channel!Whole(stream, call.buffer)

(* Mutants: the header of the datagram before; fragmented messages are put *)
(* together and forgotten.                                                 *)
CallbackStaleHeader(call) ==
    /\ pc' = "dispatch" /\ Whole(call)
    /\ IF header = 0 THEN Books!NoBook ELSE Books!Update(header)

CallbackSkipsFragmented(call) ==
    IF Whole(call)
    THEN /\ pc' = "dispatch"
         /\ IF Len(call.buffer) = 1 THEN Books!Update(call.header) ELSE Books!NoBook
    ELSE Books!NoBook

(* IncrementalMixin._callback, with the header of the datagram that was    *)
(* parsed last.  The decoder may make nothing of what is not one message.  *)
Callback(call) ==
    IF Whole(call)
    THEN pc' = "dispatch" /\ Books!Update(call.header)
    ELSE Books!NoBook

(* Mutant: the two receivers share a decode buffer, so that pieces of one  *)
(* channel get among those of the other.                                   *)
CallbackSharedBuffer(call) ==
    /\ Len(call.buffer) > 1
    /\ \E i \in Instruments : Books!TornUpdate(i, call.header)

(* It raises, whatever the message, which ends datagram_received and       *)
(* leaves decode_buffer as it is; or the decoder takes what is not one     *)
(* message for one, whether it then fails the length or not.               *)
CallbackDisturbed(call) ==
    IF Whole(call)
    THEN pc' = "idle" /\ Books!UpdateRaises(call.header)
    ELSE \E i \in Instruments : Books!TornUpdate(i, call.header)

(* One step of Incremental.datagram_received.                              *)
Received ==
    /\ Channel!Next
    /\ UNCHANGED <<script, snapped>>
    /\ IF decoded' = decoded THEN Books!NoBook
       ELSE \E call \in {decoded'[Len(decoded')]} : Callback(call)

ReceivedDisturbed ==
    /\ Channel!Next
    /\ UNCHANGED <<script, snapped>>
    /\ decoded' # decoded
    /\ \E call \in {decoded'[Len(decoded')]} : CallbackDisturbed(call)

(* Snapshot.datagram_received has a whole message.                         *)
Snapshot(n) ==
    /\ pc = "idle"
    /\ UNCHANGED <<receiverVars, script>>
    /\ n \in snapped .. Len(script)
    /\ snapped' = n

SnapshotReceived ==
    \E i \in Instruments, n \in 0 .. Len(script) :
        Snapshot(n) /\ Books!SnapshotUpdate(i, n, FALSE)

SnapshotDisturbed ==
    \E i \in Instruments, n \in 0 .. Len(script) :
        Snapshot(n) /\ Books!SnapshotRaises(i, n, FALSE)

Next == Received \/ ReceivedDisturbed \/ SnapshotReceived \/ SnapshotDisturbed

Spec == Init /\ [][Next]_vars

-----------------------------------------------------------------------------
(* The whole of receivers, decoder and binding implements the feed of the  *)
(* books: every message of the channel is handed on once, in order and     *)
(* under its own number, or is lost, or its callback raises, or the books  *)
(* take in one torn message in its place.                                  *)
BooksFeed == Books!Init /\ [][Books!Next]_(Books!vars)

(* A ready book that a raise has not disturbed lacks an update of its      *)
(* instrument, lost before or after its snapshot, only until the           *)
(* instrument's next update is handed over: that one is never applied on   *)
(* top of a hole, in whatever order datagrams and snapshots come           *)
(* (previous in sequence_helper).                                          *)
StaleUntilNextUpdate ==
    \A i \in Instruments : (sequencer[i].ready /\ health[i] = "sound") =>
        \A q \in Handed \cap Books!Published(i, Position - 1) :
            Books!Published(i, q) \subseteq book[i]

(* Nothing torn gets near a book, nor among the updates that wait for a    *)
(* snapshot, before the receiver has lost something or a callback or an    *)
(* assertion has raised, nor ever when messages fit in one datagram.       *)
HasGarbage(i) ==
    \/ Books!Torn(i)
    \/ \E k \in 1 .. Len(sequencer[i].cache) : sequencer[i].cache[k].content = Books!Garbage

GarbageNeedsFailureAndFragments ==
    (\E i \in Instruments : HasGarbage(i)) =>
        ~intact /\ \E n \in 1 .. Len(stream) : stream[n].max > 0

(* Until something is lost, however the datagrams arrive and whenever the  *)
(* snapshot came, a book that is there has every update of its instrument  *)
(* from the first message decoded up to the receiver's position.           *)
UpToDateUntilLoss ==
    (intact /\ decoded # <<>>) =>
        \A i \in Instruments : (sequencer[i].ready /\ health[i] = "sound") =>
            \A p \in Books!Published(i, Position - 1) : p >= decoded[1].header => p \in book[i]
=============================================================================
