------------------------------ MODULE Receiver ------------------------------
(***************************************************************************)
(* The datagram receiver of samples/sbe_receiver.py: datagrams arrive in   *)
(* any order, late, twice or never; the re-order buffer puts them in       *)
(* order; "_parse" assembles the fragments of a message in decode_buffer   *)
(* and hands the whole to the SBE decoder, which calls back.               *)
(*                                                                         *)
(* A datagram is its sequence number, a position of the publisher's        *)
(* stream, and so is the payload it carries.  The network needs no state:  *)
(* any datagram may arrive at any time, any number of times.  One call of  *)
(* datagram_received runs to its end before the event loop starts another; *)
(* inside it every call that the re-order buffer makes back is one step.   *)
(***************************************************************************)
EXTENDS Naturals, Sequences, FiniteSets

CONSTANTS
    Depth,             \* depth of the re-order buffer
    Streams,           \* the datagram streams a publisher may send
    CallbackMayRaise   \* whether the decoder's callback may raise

(* Every message is cut in fragments 0 .. max, sent one after the other.   *)
WellFormed(s) ==
    \A i \in 1 .. Len(s) :
        /\ s[i].frag <= s[i].max
        /\ i = 1 => s[i].frag = 0
        /\ i > 1 => IF s[i - 1].frag = s[i - 1].max
                    THEN s[i].frag = 0
                    ELSE s[i].frag = s[i - 1].frag + 1 /\ s[i].max = s[i - 1].max

ASSUME ReceiverAssumption ==
    /\ Depth \in Nat \ {0}
    /\ CallbackMayRaise \in BOOLEAN
    /\ \A s \in Streams : s \in Seq([frag : Nat, max : Nat]) /\ WellFormed(s)

VARIABLES
    stream,         \* what the publisher sends: never changes
    reorder_buffer,
    pc,             \* "idle", or "dispatch" inside datagram_received
    decode_buffer,  \* the payloads collected so far
    header,         \* header of the datagram being parsed, 0 before the first
    decoded,        \* history: every call of the decoder, its buffer and header
    errors,         \* history: the exceptions that left datagram_received
    intact          \* history: no reset and no exception so far

vars == <<stream, reorder_buffer, pc, decode_buffer, header, decoded, errors, intact>>

Reorder == INSTANCE ReorderBuffer

Init ==
    /\ stream \in Streams
    /\ reorder_buffer = Reorder!Empty
    /\ pc = "idle"
    /\ decode_buffer = <<>>
    /\ header = 0
    /\ decoded = <<>>
    /\ errors = {}
    /\ intact = TRUE

-----------------------------------------------------------------------------
(* The fragments in b are exactly those of one message of stream s.        *)
Whole(s, b) ==
    /\ b # <<>>
    /\ s[b[1]].frag = 0
    /\ s[b[Len(b)]].max = Len(b) - 1
    /\ \A j \in 1 .. Len(b) : b[j] = b[1] + j - 1

FromFirstToLast(s, b) ==
    /\ b # <<>>
    /\ s[b[1]].frag = 0
    /\ s[b[Len(b)]].frag = s[b[Len(b)]].max
    /\ \A i, j \in 1 .. Len(b) : i < j => b[i] < b[j]

(* An exception leaves the handler; asyncio logs it and carries on.        *)
Raise(error) ==
    /\ errors' = errors \cup {error}
    /\ intact' = FALSE
    /\ pc' = "idle"

NoRaise == UNCHANGED <<errors, intact, pc>>

(* The decoder is given payloads b.  It consumes a whole message unless    *)
(* the callback raises.  Anything else it may take for a message, reject   *)
(* (Decoder::dispatch swallows that and returns 0) or consume in part: the *)
(* assertion on the length then fails.                                     *)
DecoderDispatch(b, n, onSuccess, onError) ==
    /\ decoded' = Append(decoded, [buffer |-> b, header |-> n])
    /\ \/ onSuccess /\ NoRaise
       \/ CallbackMayRaise /\ onError /\ Raise("callback")
       \/ ~Whole(stream, b) /\ onError /\ Raise("length")

(* A datagram reaches the socket: Receiver.datagram_received.              *)
DatagramReceived ==
    \E n \in 1 .. Len(stream) :
        /\ pc = "idle"
        /\ pc' = "dispatch"
        /\ reorder_buffer' = Reorder!Insert(reorder_buffer, n)
        /\ UNCHANGED <<stream, decode_buffer, header, decoded, errors, intact>>

(* What every call of Receiver._parse begins with.                         *)
Parse(n) ==
    /\ pc = "dispatch" /\ Reorder!Ready(reorder_buffer)
    /\ n = reorder_buffer.next
    /\ reorder_buffer' = Reorder!Advance(reorder_buffer)
    /\ header' = n
    /\ UNCHANGED stream

IsLast(n) == stream[n].frag = stream[n].max
IsFirst(n) == stream[n].frag = 0

(* Mutant: the buffer is not cleared once it has been decoded.             *)
ParseLastFragmentKeepsBuffer(n) ==
    LET assembled == Append(decode_buffer, n)
    IN  /\ Parse(n) /\ IsLast(n) /\ decode_buffer # <<>>
        /\ DecoderDispatch(assembled, n, TRUE, TRUE)
        /\ decode_buffer' = assembled

(* The last of several fragments: decode, and start over if that worked.   *)
ParseLastFragment(n) ==
    LET assembled == Append(decode_buffer, n)
    IN  /\ Parse(n) /\ IsLast(n) /\ decode_buffer # <<>>
        /\ DecoderDispatch(assembled, n, decode_buffer' = <<>>, decode_buffer' = assembled)

(* Mutants: the header is stored only after decoding; the last fragment of *)
(* a message taken for a message; the buffer used and not cleared.         *)
ParseUnfragmentedStaleHeader(n) ==
    /\ Parse(n) /\ IsLast(n) /\ decode_buffer = <<>> /\ IsFirst(n)
    /\ DecoderDispatch(<<n>>, header, TRUE, TRUE)
    /\ UNCHANGED decode_buffer

ParseUnfragmentedAnyFragment(n) ==
    /\ Parse(n) /\ IsLast(n) /\ decode_buffer = <<>>
    /\ DecoderDispatch(<<n>>, n, TRUE, TRUE)
    /\ UNCHANGED decode_buffer

ParseUnfragmentedInBuffer(n) ==
    /\ Parse(n) /\ IsLast(n) /\ decode_buffer = <<>> /\ IsFirst(n)
    /\ DecoderDispatch(<<n>>, n, TRUE, TRUE)
    /\ decode_buffer' = <<n>>

(* A message in one datagram.                                              *)
ParseUnfragmented(n) ==
    /\ Parse(n) /\ IsLast(n) /\ decode_buffer = <<>> /\ IsFirst(n)
    /\ DecoderDispatch(<<n>>, n, TRUE, TRUE)
    /\ UNCHANGED decode_buffer

(* Mutant: the payload of the first fragment is not stored.                *)
ParseFirstFragmentForgets(n) ==
    /\ Parse(n) /\ ~IsLast(n) /\ IsFirst(n)
    /\ IF decode_buffer = <<>> THEN NoRaise ELSE Raise("not empty")
    /\ UNCHANGED <<decode_buffer, decoded>>

ParseFirstFragment(n) ==
    /\ Parse(n) /\ ~IsLast(n) /\ IsFirst(n)
    /\ IF decode_buffer = <<>>
       THEN decode_buffer' = <<n>> /\ NoRaise
       ELSE Raise("not empty") /\ UNCHANGED decode_buffer
    /\ UNCHANGED decoded

ParseMiddleFragment(n) ==
    /\ Parse(n) /\ ~IsLast(n) /\ ~IsFirst(n) /\ decode_buffer # <<>>
    /\ decode_buffer' = Append(decode_buffer, n)
    /\ NoRaise /\ UNCHANGED decoded

(* Joined in the middle of a message: skip what is left of it.             *)
ParseRejoining(n) ==
    /\ Parse(n) /\ ~IsFirst(n) /\ decode_buffer = <<>>
    /\ NoRaise /\ UNCHANGED <<decode_buffer, decoded>>

(* Packet loss: Receiver._reset is called, and does nothing.               *)
Reset ==
    /\ pc = "dispatch" /\ Reorder!Overflow(reorder_buffer)
    /\ \E n \in reorder_buffer.held :
          /\ Reorder!IsLowest(reorder_buffer, n)
          /\ reorder_buffer' = Reorder!SkipTo(reorder_buffer, n)
    /\ intact' = FALSE
    /\ UNCHANGED <<stream, pc, decode_buffer, header, decoded, errors>>

Return ==
    /\ pc = "dispatch"
    /\ ~Reorder!Ready(reorder_buffer) /\ ~Reorder!Overflow(reorder_buffer)
    /\ pc' = "idle"
    /\ UNCHANGED <<stream, reorder_buffer, decode_buffer, header, decoded, errors, intact>>

Next ==
    \/ DatagramReceived
    \/ \E n \in 1 .. Len(stream) :
          \/ ParseLastFragment(n)
          \/ ParseUnfragmented(n)
          \/ ParseFirstFragment(n)
          \/ ParseMiddleFragment(n)
          \/ ParseRejoining(n)
    \/ Reset
    \/ Return

Spec == Init /\ [][Next]_vars

-----------------------------------------------------------------------------
Positions == 1 .. Len(stream)

Call == [buffer : Seq(Positions), header : Positions]

(* Every variable has its type.                                            *)
TypeOK ==
    /\ stream \in Streams
    /\ reorder_buffer \in Reorder!Buffer
    /\ reorder_buffer.held \subseteq Positions
    /\ reorder_buffer.next \in 0 .. Len(stream) + 1
    /\ pc \in {"idle", "dispatch"}
    /\ decode_buffer \in Seq(Positions)
    /\ header \in 0 .. Len(stream)
    /\ decoded \in Seq(Call)
    /\ errors \subseteq {"callback", "length", "not empty"}
    /\ intact \in BOOLEAN

(* However datagrams are reordered, duplicated or still missing, and       *)
(* wherever the receiver joined: as long as no loss has been reported and  *)
(* no handler has failed, every buffer given to the decoder is one whole   *)
(* message, and the header its callbacks read is that of the last fragment *)
(* ("_parse" and the header argument of Shared.update).                    *)
WholeUntilLoss ==
    intact => \A k \in 1 .. Len(decoded) :
                 /\ Whole(stream, decoded[k].buffer)
                 /\ decoded[k].header = decoded[k].buffer[Len(decoded[k].buffer)]

(* Even after losses and exceptions, what the decoder is given begins with *)
(* the first fragment of a message, ends with the last one of a message    *)
(* and keeps the order of the publisher: the receiver never rejoins in     *)
(* the middle of a message.                                                *)
NeverFromTheMiddle ==
    \A k \in 1 .. Len(decoded) : FromFirstToLast(stream, decoded[k].buffer)

(* A publisher that never fragments is decoded message by message whatever *)
(* is lost and whatever the callback raises: the only harm of a loss is    *)
(* the lost message.                                                       *)
UnfragmentedSurvivesLoss ==
    (\A i \in Positions : stream[i].max = 0) =>
        /\ errors \subseteq {"callback"}
        /\ \A k \in 1 .. Len(decoded) :
              Whole(stream, decoded[k].buffer)
              /\ (k > 1 => decoded[k - 1].header < decoded[k].header)

(* samples/sbe_receiver.py:195, an assertion: when the first fragment of a *)
(* message arrives, nothing is left in decode_buffer.                      *)
EmptyAtFirstFragment == "not empty" \notin errors

(* The receiver implements MessageFeed.                                    *)
Feed == INSTANCE MessageFeed
            WITH last <- IF decoded = <<>> THEN 0 ELSE decoded[Len(decoded)].header

FeedSpec == Feed!FeedSpec
=============================================================================
