-------------------------- MODULE MarketDataProofs --------------------------
(***************************************************************************)
(* The receiver and the books of samples/sbe_receiver.py put together: what *)
(* module ReceiverProofs shows of the one and MarketByPriceFeedProofs of   *)
(* the other holds of both at work, since every step of the composition is *)
(* a step of each of them, or leaves it alone.                             *)
(***************************************************************************)
EXTENDS MarketData, TLAPS, SequenceTheorems

ReceiverTheory == INSTANCE ReceiverRefinement WITH CallbackMayRaise <- TRUE

BooksTheory ==
    INSTANCE MarketByPriceFeedProofs WITH position <- Position, lost <- LostMessages

-----------------------------------------------------------------------------
(* The theorems about the receiver and about the books are about the       *)
(* publications of this module, ...                                        *)
LEMMA StreamsAssumed ==
    /\ Depth \in Nat \ {0}
    /\ TRUE \in BOOLEAN
    /\ \A s \in Streams : s \in Seq([frag : Nat, max : Nat]) /\ ReceiverTheory!WellFormed(s)
<1>1. \A s : Channel!WellFormed(s) => ReceiverTheory!WellFormed(s)
  BY DEF Channel!WellFormed, ReceiverTheory!WellFormed
<1>2. Depth \in Nat \ {0}
  BY MarketDataAssumption
<1> QED
  BY <1>1, <1>2, MarketDataAssumption DEF Streams

LEMMA ScriptsAssumed == Scripts \subseteq Seq(BooksTheory!Message)
  BY MarketDataAssumption
  DEF Scripts, BooksTheory!Message, Books!Message, Books!Other, BooksTheory!Other

(* ... and the steps that they speak of are those that it takes: both      *)
(* instances of a module are the same, definition by definition.           *)
LEMMA SameChannelInit == Channel!Init => ReceiverTheory!Init
  BY DEF
      Channel!Init, ReceiverTheory!Init, Channel!Reorder!Empty, ReceiverTheory!Reorder!Empty

LEMMA SameDatagramReceived == Channel!DatagramReceived => ReceiverTheory!DatagramReceived
  BY DEF
      Channel!DatagramReceived, ReceiverTheory!DatagramReceived, Channel!Reorder!Insert,
      ReceiverTheory!Reorder!Insert

LEMMA SameParseFirstFragment ==
    \A n : Channel!ParseFirstFragment(n) => ReceiverTheory!ParseFirstFragment(n)
  BY DEF
      Channel!ParseFirstFragment, ReceiverTheory!ParseFirstFragment, Channel!Parse,
      ReceiverTheory!Parse, Channel!IsFirst, ReceiverTheory!IsFirst, Channel!IsLast,
      ReceiverTheory!IsLast, Channel!Raise, ReceiverTheory!Raise, Channel!NoRaise,
      ReceiverTheory!NoRaise, Channel!Reorder!Ready, ReceiverTheory!Reorder!Ready,
      Channel!Reorder!Advance, ReceiverTheory!Reorder!Advance

LEMMA SameParseMiddleFragment ==
    \A n : Channel!ParseMiddleFragment(n) => ReceiverTheory!ParseMiddleFragment(n)
  BY DEF
      Channel!ParseMiddleFragment, ReceiverTheory!ParseMiddleFragment, Channel!Parse,
      ReceiverTheory!Parse, Channel!IsFirst, ReceiverTheory!IsFirst, Channel!IsLast,
      ReceiverTheory!IsLast, Channel!Raise, ReceiverTheory!Raise, Channel!NoRaise,
      ReceiverTheory!NoRaise, Channel!Reorder!Ready, ReceiverTheory!Reorder!Ready,
      Channel!Reorder!Advance, ReceiverTheory!Reorder!Advance

LEMMA SameParseRejoining == \A n : Channel!ParseRejoining(n) => ReceiverTheory!ParseRejoining(n)
  BY DEF
      Channel!ParseRejoining, ReceiverTheory!ParseRejoining, Channel!Parse,
      ReceiverTheory!Parse, Channel!IsFirst, ReceiverTheory!IsFirst, Channel!IsLast,
      ReceiverTheory!IsLast, Channel!Raise, ReceiverTheory!Raise, Channel!NoRaise,
      ReceiverTheory!NoRaise, Channel!Reorder!Ready, ReceiverTheory!Reorder!Ready,
      Channel!Reorder!Advance, ReceiverTheory!Reorder!Advance

LEMMA SameParseLastFragment ==
    \A n : Channel!ParseLastFragment(n) => ReceiverTheory!ParseLastFragment(n)
  BY DEF
      Channel!ParseLastFragment, ReceiverTheory!ParseLastFragment, Channel!DecoderDispatch,
      ReceiverTheory!DecoderDispatch, Channel!Whole, ReceiverTheory!Whole, Channel!Parse,
      ReceiverTheory!Parse, Channel!IsFirst, ReceiverTheory!IsFirst, Channel!IsLast,
      ReceiverTheory!IsLast, Channel!Raise, ReceiverTheory!Raise, Channel!NoRaise,
      ReceiverTheory!NoRaise, Channel!Reorder!Ready, ReceiverTheory!Reorder!Ready,
      Channel!Reorder!Advance, ReceiverTheory!Reorder!Advance

LEMMA SameParseUnfragmented ==
    \A n : Channel!ParseUnfragmented(n) => ReceiverTheory!ParseUnfragmented(n)
  BY DEF
      Channel!ParseUnfragmented, ReceiverTheory!ParseUnfragmented, Channel!DecoderDispatch,
      ReceiverTheory!DecoderDispatch, Channel!Whole, ReceiverTheory!Whole, Channel!Parse,
      ReceiverTheory!Parse, Channel!IsFirst, ReceiverTheory!IsFirst, Channel!IsLast,
      ReceiverTheory!IsLast, Channel!Raise, ReceiverTheory!Raise, Channel!NoRaise,
      ReceiverTheory!NoRaise, Channel!Reorder!Ready, ReceiverTheory!Reorder!Ready,
      Channel!Reorder!Advance, ReceiverTheory!Reorder!Advance

LEMMA SameReset == Channel!Reset => ReceiverTheory!Reset
  BY DEF
      Channel!Reset, ReceiverTheory!Reset, Channel!Reorder!IsLowest,
      ReceiverTheory!Reorder!IsLowest, Channel!Reorder!SkipTo, ReceiverTheory!Reorder!SkipTo,
      Channel!Reorder!Ready, ReceiverTheory!Reorder!Ready, Channel!Reorder!Overflow,
      ReceiverTheory!Reorder!Overflow, Channel!Reorder!Cardinality,
      ReceiverTheory!Reorder!Cardinality

LEMMA SameReturn == Channel!Return => ReceiverTheory!Return
  BY DEF
      Channel!Return, ReceiverTheory!Return, Channel!Reorder!Ready,
      ReceiverTheory!Reorder!Ready, Channel!Reorder!Overflow, ReceiverTheory!Reorder!Overflow,
      Channel!Reorder!Cardinality, ReceiverTheory!Reorder!Cardinality

LEMMA SameChannelStep ==
    [Channel!Next]_(Channel!vars) => [ReceiverTheory!Next]_(ReceiverTheory!vars)
  BY SameDatagramReceived, SameParseFirstFragment, SameParseMiddleFragment, SameParseRejoining,
     SameParseLastFragment, SameParseUnfragmented, SameReset, SameReturn
  DEF Channel!Next, ReceiverTheory!Next, Channel!vars, ReceiverTheory!vars

LEMMA SameChannelFacts ==
    /\ ReceiverTheory!TypeOK => Channel!TypeOK
    /\ \A s, b : ReceiverTheory!Whole(s, b) <=> Channel!Whole(s, b)
  BY DEF
      Channel!TypeOK, ReceiverTheory!TypeOK, Channel!Call, ReceiverTheory!Call,
      Channel!Positions, ReceiverTheory!Positions, Channel!Reorder!Buffer,
      ReceiverTheory!Reorder!Buffer, Channel!Whole, ReceiverTheory!Whole

LEMMA SameBooksInit == Books!Init => BooksTheory!Init
  BY DEF
      Books!Init, BooksTheory!Init, Books!Sequencer!Fresh, BooksTheory!Sequencer!Fresh

LEMMA SameOperators ==
    /\ Books!Other = BooksTheory!Other /\ Books!Garbage = BooksTheory!Garbage
    /\ \A i, n : Books!LastSequenceNumber(i, n) = BooksTheory!LastSequenceNumber(i, n)
    /\ Books!Ignored = BooksTheory!Ignored
    /\ \A i, n : Books!Chain(i, n) = BooksTheory!Chain(i, n)
    /\ \A i, n : Books!Published(i, n) = BooksTheory!Published(i, n)
    /\ \A b, e : Books!Apply(b, e) = BooksTheory!Apply(b, e)
    /\ \A h, e : Books!Heal(h, e) = BooksTheory!Heal(h, e)
    /\ \A s, m : Books!Sequencer!OnUpdate(s, m) = BooksTheory!Sequencer!OnUpdate(s, m)
    /\ \A s, n, b :
          Books!Sequencer!OnSnapshot(s, n, b) = BooksTheory!Sequencer!OnSnapshot(s, n, b)
<1>1. /\ Books!Other = BooksTheory!Other /\ Books!Garbage = BooksTheory!Garbage
      /\ \A i, n : Books!LastSequenceNumber(i, n) = BooksTheory!LastSequenceNumber(i, n)
      /\ Books!Ignored = BooksTheory!Ignored
      /\ \A i, n : Books!Chain(i, n) = BooksTheory!Chain(i, n)
      /\ \A i, n : Books!Published(i, n) = BooksTheory!Published(i, n)
  BY DEF
      Books!IsOf, BooksTheory!IsOf, Books!Chain, BooksTheory!Chain, Books!LastSequenceNumber,
      BooksTheory!LastSequenceNumber, Books!Published, BooksTheory!Published, Books!Other,
      BooksTheory!Other, Books!Garbage, BooksTheory!Garbage, Books!Ignored,
      BooksTheory!Ignored
<1>2. /\ \A b, e : Books!Apply(b, e) = BooksTheory!Apply(b, e)
      /\ \A h, e : Books!Heal(h, e) = BooksTheory!Heal(h, e)
  BY DEF Books!Apply, BooksTheory!Apply, Books!Heal, BooksTheory!Heal
<1>3. \A s, m : Books!Sequencer!OnUpdate(s, m) = BooksTheory!Sequencer!OnUpdate(s, m)
  BY DEF Books!Sequencer!OnUpdate, BooksTheory!Sequencer!OnUpdate,
      Books!Sequencer!Nothing, BooksTheory!Sequencer!Nothing, Books!Sequencer!PublishUpdate,
      BooksTheory!Sequencer!PublishUpdate, Books!Sequencer!PublishSnapshot,
      BooksTheory!Sequencer!PublishSnapshot, Books!Sequencer!RequestSnapshot,
      BooksTheory!Sequencer!RequestSnapshot, Books!Sequencer!ReadyAt,
      BooksTheory!Sequencer!ReadyAt, Books!Sequencer!Collect, BooksTheory!Sequencer!Collect,
      Books!Sequencer!Collecting, BooksTheory!Sequencer!Collecting, Books!Sequencer!Outcome,
      BooksTheory!Sequencer!Outcome
<1>4. \A s, n, b :
          Books!Sequencer!OnSnapshot(s, n, b) = BooksTheory!Sequencer!OnSnapshot(s, n, b)
  BY DEF Books!Sequencer!OnSnapshot, BooksTheory!Sequencer!OnSnapshot,
      Books!Sequencer!Nothing, BooksTheory!Sequencer!Nothing, Books!Sequencer!PublishUpdate,
      BooksTheory!Sequencer!PublishUpdate, Books!Sequencer!PublishSnapshot,
      BooksTheory!Sequencer!PublishSnapshot, Books!Sequencer!RequestSnapshot,
      BooksTheory!Sequencer!RequestSnapshot, Books!Sequencer!ReadyAt,
      BooksTheory!Sequencer!ReadyAt, Books!Sequencer!Collect, BooksTheory!Sequencer!Collect,
      Books!Sequencer!Collecting, BooksTheory!Sequencer!Collecting, Books!Sequencer!Outcome,
      BooksTheory!Sequencer!Outcome
<1> QED
  BY <1>1, <1>2, <1>3, <1>4

LEMMA SameHandling ==
    /\ \A i, outcomes : Books!Handle(i, outcomes) => BooksTheory!Handle(i, outcomes)
    /\ \A i, outcomes : Books!HandleRaising(i, outcomes) => BooksTheory!HandleRaising(i, outcomes)
    /\ \A i, outcomes : Books!HandleTorn(i, outcomes) => BooksTheory!HandleTorn(i, outcomes)
<1>1. \A i, outcomes : Books!Handle(i, outcomes) => BooksTheory!Handle(i, outcomes)
  BY SameOperators DEF Books!Handle, BooksTheory!Handle
<1>2. \A i, outcomes : Books!HandleRaising(i, outcomes) => BooksTheory!HandleRaising(i, outcomes)
  BY DEF
      Books!HandleRaising, BooksTheory!HandleRaising, Books!Touch, BooksTheory!Touch,
      Books!Apply, BooksTheory!Apply, Books!Heal, BooksTheory!Heal
<1>3. \A i, outcomes : Books!HandleTorn(i, outcomes) => BooksTheory!HandleTorn(i, outcomes)
  BY <1>2, SameOperators
  DEF Books!HandleTorn, BooksTheory!HandleTorn, Books!Touch, BooksTheory!Touch
<1> QED
  BY <1>1, <1>2, <1>3

LEMMA SameReceived ==
    Books!IncrementalReceived => BooksTheory!IncrementalReceived
  BY SameOperators, SameHandling DEF
      Books!IncrementalReceived, BooksTheory!IncrementalReceived, Books!Update,
      BooksTheory!Update, Books!SnapshotUpdate, BooksTheory!SnapshotUpdate,
      Books!UpdateOutcomes, BooksTheory!UpdateOutcomes, Books!SnapshotOutcomes,
      BooksTheory!SnapshotOutcomes, Books!use_snapshot, BooksTheory!use_snapshot, Books!NoBook,
      BooksTheory!NoBook

LEMMA SameRaises ==
    Books!IncrementalRaises => BooksTheory!IncrementalRaises
  BY SameOperators, SameHandling DEF
      Books!IncrementalRaises, BooksTheory!IncrementalRaises, Books!UpdateRaises,
      BooksTheory!UpdateRaises, Books!SnapshotRaises, BooksTheory!SnapshotRaises,
      Books!UpdateOutcomes, BooksTheory!UpdateOutcomes, Books!SnapshotOutcomes,
      BooksTheory!SnapshotOutcomes, Books!use_snapshot, BooksTheory!use_snapshot, Books!NoBook,
      BooksTheory!NoBook

LEMMA SameLost ==
    \A n : Books!IncrementalLost(n) => BooksTheory!IncrementalLost(n)
  BY SameOperators, SameHandling DEF
      Books!IncrementalLost, BooksTheory!IncrementalLost, Books!Lost, BooksTheory!Lost,
      Books!NoBook, BooksTheory!NoBook

LEMMA SameTorn ==
    \A i : Books!IncrementalTorn(i) => BooksTheory!IncrementalTorn(i)
  BY SameOperators, SameHandling DEF
      Books!IncrementalTorn, BooksTheory!IncrementalTorn, Books!TornUpdate,
      BooksTheory!TornUpdate, Books!Previous, BooksTheory!Previous, Books!Lost,
      BooksTheory!Lost

LEMMA SameSnapshot ==
    \A i, n : Books!SnapshotReceived(i, n) => BooksTheory!SnapshotReceived(i, n)
<1>1. \A i, n : Books!SnapshotUpdate(i, n, FALSE) => BooksTheory!SnapshotUpdate(i, n, FALSE)
  BY SameOperators, SameHandling DEF
      Books!SnapshotUpdate, BooksTheory!SnapshotUpdate, Books!SnapshotOutcomes,
      BooksTheory!SnapshotOutcomes, Books!use_snapshot, BooksTheory!use_snapshot, Books!NoBook,
      BooksTheory!NoBook
<1> QED
  BY <1>1 DEF
      Books!SnapshotReceived, BooksTheory!SnapshotReceived, Books!Snapshot,
      BooksTheory!Snapshot

LEMMA SameSnapshotRaises ==
    \A i, n : Books!SnapshotReceivedRaises(i, n) => BooksTheory!SnapshotReceivedRaises(i, n)
<1>1. \A i, n : Books!SnapshotRaises(i, n, FALSE) => BooksTheory!SnapshotRaises(i, n, FALSE)
  BY SameOperators, SameHandling DEF
      Books!SnapshotRaises, BooksTheory!SnapshotRaises, Books!SnapshotOutcomes,
      BooksTheory!SnapshotOutcomes, Books!use_snapshot, BooksTheory!use_snapshot, Books!NoBook,
      BooksTheory!NoBook
<1> QED
  BY <1>1 DEF
      Books!SnapshotReceivedRaises, BooksTheory!SnapshotReceivedRaises, Books!Snapshot,
      BooksTheory!Snapshot

LEMMA SameSnapshotTorn ==
    \A i, n : Books!SnapshotTorn(i, n) => BooksTheory!SnapshotTorn(i, n)
<1>1. \A i, n : Books!TornSnapshot(i, n) => BooksTheory!TornSnapshot(i, n)
  BY SameOperators, SameHandling DEF
      Books!TornSnapshot, BooksTheory!TornSnapshot, Books!use_snapshot,
      BooksTheory!use_snapshot
<1> QED
  BY <1>1 DEF
      Books!SnapshotTorn, BooksTheory!SnapshotTorn, Books!Snapshot, BooksTheory!Snapshot

LEMMA SameBooksStep ==
    [Books!Next]_(Books!vars) => [BooksTheory!Next]_(BooksTheory!vars)
  BY SameReceived, SameRaises, SameLost, SameTorn, SameSnapshot, SameSnapshotRaises,
     SameSnapshotTorn
  DEF Books!Next, BooksTheory!Next, Books!Ordinary, BooksTheory!Ordinary,
      Books!Disturbance, BooksTheory!Disturbance, Books!vars, BooksTheory!vars

-----------------------------------------------------------------------------
(* Before the first datagram there is nothing; afterwards, what has been   *)
(* given to the decoder is behind the receiver's position.                 *)
PositionBeyondDecoded ==
    /\ reorder_buffer.next = 0 => reorder_buffer.held = {} /\ decoded = <<>>
    /\ \A k \in 1 .. Len(decoded) : decoded[k].header < reorder_buffer.next

Published == \E p \in Publications : stream = p.stream /\ script = p.script

Joined ==
    /\ ReceiverTheory!IInv
    /\ Published
    /\ PositionBeyondDecoded

LEMMA ScriptFacts ==
    ASSUME Published
    PROVE  /\ stream \in Seq([frag : Nat, max : Nat]) /\ Len(stream) \in Nat
           /\ script \in Seq(Books!Message) /\ Len(script) = Len(stream)
           /\ script \in Scripts
           /\ \A n \in 1 .. Len(script) :
                 /\ script[n] = Books!Other <=> script[n].update_type = "OTHER"
                 /\ stream[n].frag # stream[n].max => script[n].update_type = "OTHER"
<1>1. PICK p \in Publications : stream = p.stream /\ script = p.script
  BY DEF Published
<1>2. /\ stream \in Seq([frag : Nat, max : Nat])
      /\ script \in Seq(Books!Message) /\ Len(script) = Len(stream)
      /\ script \in Scripts
      /\ \A n \in 1 .. Len(stream) : stream[n].frag # stream[n].max => script[n] = Books!Other
  BY <1>1, MarketDataAssumption DEF Scripts
<1>3. Len(stream) \in Nat
  BY <1>2
<1>4. \A n \in 1 .. Len(script) : script[n] = Books!Other <=> script[n].update_type = "OTHER"
  <2>1. \A m \in Books!Message : m = Books!Other <=> m.update_type = "OTHER"
    <3>1. Books!Other.update_type = "OTHER"
      BY DEF Books!Other
    <3>2. \A m \in Books!Message : m.update_type = "OTHER" => m = Books!Other
      <4> HIDE DEF Books!Other
      <4> QED
        BY DEF Books!Message
    <3> QED
      BY <3>1, <3>2
  <2>2. \A n \in 1 .. Len(script) : script[n] \in Books!Message
    BY <1>2
  <2> QED
    BY <2>1, <2>2
<1> QED
  BY <1>2, <1>3, <1>4

LEMMA JoinedFacts ==
    ASSUME Joined
    PROVE  /\ reorder_buffer.next \in 0 .. Len(stream) + 1
           /\ reorder_buffer.held \subseteq 1 .. Len(stream)
           /\ \A m \in reorder_buffer.held : reorder_buffer.next <= m
           /\ Position \in 1 .. Len(stream) + 1
           /\ decoded \in Seq(Channel!Call)
<1>1. Channel!TypeOK
  BY SameChannelFacts DEF Joined, ReceiverTheory!IInv
<1>2. /\ reorder_buffer.next \in 0 .. Len(stream) + 1
      /\ reorder_buffer.held \subseteq 1 .. Len(stream)
      /\ decoded \in Seq(Channel!Call)
  BY <1>1 DEF Channel!TypeOK, Channel!Positions
<1>3. Position \in 1 .. Len(stream) + 1
  BY <1>2, ScriptFacts DEF Joined, Position
<1> QED
  BY <1>2, <1>3 DEF Joined, ReceiverTheory!IInv, ReceiverTheory!HeldAhead

-----------------------------------------------------------------------------
(* What a step of the receiver is to the books: none of their business, a  *)
(* jump over messages that will not come, or a call of the decoder.        *)
Unnoticed == Position' = Position /\ decoded' = decoded

Jumped == \E m \in Position .. Len(stream) : Position' = m + 1 /\ decoded' = decoded

Parsed(b) ==
    /\ Position <= Len(stream) /\ Position' = Position + 1
    /\ decoded' = Append(decoded, [buffer |-> b, header |-> Position])

LEMMA ParseStep ==
    ASSUME Joined, NEW n \in 1 .. Len(stream), Channel!Parse(n)
    PROVE  /\ stream' = stream
           /\ n = Position /\ Position' = n + 1
           /\ reorder_buffer.next = n /\ reorder_buffer'.next = n + 1
<1>1. /\ n = reorder_buffer.next /\ stream' = stream
      /\ reorder_buffer' = [next |-> reorder_buffer.next + 1,
                            held |-> reorder_buffer.held \ {reorder_buffer.next}]
  BY DEF Channel!Parse, Channel!Reorder!Advance
<1>2. n \in Nat /\ n # 0
  BY ScriptFacts DEF Joined
<1>3. reorder_buffer'.next = n + 1
  BY <1>1
<1> QED
  BY <1>1, <1>2, <1>3 DEF Position

LEMMA ChannelStep ==
    ASSUME Joined, Channel!Next
    PROVE  /\ stream' = stream
           /\ Unnoticed \/ Jumped \/ \E b : Parsed(b)
           /\ reorder_buffer'.next = 0 => reorder_buffer'.held = {} /\ decoded' = <<>>
           /\ decoded' # <<>> => reorder_buffer'.next = Position'
<1>1. CASE Channel!DatagramReceived
  <2>1. PICK n \in 1 .. Len(stream) : reorder_buffer' = Channel!Reorder!Insert(reorder_buffer, n)
    BY <1>1 DEF Channel!DatagramReceived
  <2>2. stream' = stream /\ decoded' = decoded
    BY <1>1 DEF Channel!DatagramReceived
  <2>3. n \in Nat /\ n # 0
    BY ScriptFacts DEF Joined
  <2>4. CASE reorder_buffer.next = 0
    <3>1. reorder_buffer' = [next |-> n, held |-> {n}]
      BY <2>1, <2>4 DEF Channel!Reorder!Insert
    <3>2. Position = 1 /\ Position' = n /\ decoded = <<>>
      BY <2>3, <2>4, <3>1 DEF Position, Joined, PositionBeyondDecoded
    <3>3. n = 1 \/ (n - 1 \in 1 .. Len(stream) /\ n = (n - 1) + 1)
      BY <2>3, ScriptFacts DEF Joined
    <3> QED
      BY <2>2, <2>3, <3>1, <3>2, <3>3 DEF Unnoticed, Jumped
  <2>5. CASE reorder_buffer.next # 0
    <3>1. reorder_buffer'.next = reorder_buffer.next
      <4>1. CASE n < reorder_buffer.next
        BY <2>1, <2>5, <4>1 DEF Channel!Reorder!Insert
      <4>2. CASE ~(n < reorder_buffer.next)
        <5>1. reorder_buffer \in Channel!Reorder!Buffer
          BY SameChannelFacts DEF Joined, ReceiverTheory!IInv, Channel!TypeOK
        <5> QED
          BY <2>1, <2>5, <4>2, <5>1 DEF Channel!Reorder!Insert, Channel!Reorder!Buffer
      <4> QED
        BY <4>1, <4>2
    <3> QED
      BY <2>2, <2>5, <3>1 DEF Unnoticed, Position
  <2> QED
    BY <2>4, <2>5
<1>2. ASSUME NEW n \in 1 .. Len(stream),
             \/ Channel!ParseFirstFragment(n)
             \/ Channel!ParseMiddleFragment(n)
             \/ Channel!ParseRejoining(n)
      PROVE  stream' = stream /\ Jumped /\ reorder_buffer'.next = Position' /\ Position' # 0
  <2>1. Channel!Parse(n) /\ decoded' = decoded
    BY <1>2 DEF Channel!ParseFirstFragment, Channel!ParseMiddleFragment, Channel!ParseRejoining
  <2>2. /\ stream' = stream /\ n = Position /\ Position' = n + 1
        /\ reorder_buffer'.next = n + 1
    BY <2>1, ParseStep
  <2>3. n \in Nat /\ n \in n .. Len(stream)
    BY ScriptFacts DEF Joined
  <2> QED
    BY <2>1, <2>2, <2>3 DEF Jumped
<1>3. ASSUME NEW n \in 1 .. Len(stream),
             Channel!ParseLastFragment(n) \/ Channel!ParseUnfragmented(n)
      PROVE  /\ stream' = stream /\ \E b : Parsed(b)
             /\ reorder_buffer'.next = Position' /\ Position' # 0
  <2>1. PICK b : Channel!Parse(n) /\ decoded' = Append(decoded, [buffer |-> b, header |-> n])
    BY <1>3 DEF Channel!ParseLastFragment, Channel!ParseUnfragmented, Channel!DecoderDispatch
  <2>2. /\ stream' = stream /\ n = Position /\ Position' = n + 1
        /\ reorder_buffer'.next = n + 1
    BY <2>1, ParseStep
  <2>3. n \in Nat /\ n <= Len(stream)
    BY ScriptFacts DEF Joined
  <2>4. Parsed(b)
    BY <2>1, <2>2, <2>3 DEF Parsed
  <2> QED
    BY <2>2, <2>3, <2>4
<1>4. CASE Channel!Reset
  <2>1. PICK n \in reorder_buffer.held : reorder_buffer' = Channel!Reorder!SkipTo(reorder_buffer, n)
    BY <1>4 DEF Channel!Reset
  <2>2. /\ stream' = stream /\ decoded' = decoded
        /\ ~(reorder_buffer.next \in reorder_buffer.held)
    BY <1>4 DEF Channel!Reset, Channel!Reorder!Overflow, Channel!Reorder!Ready
  <2>3. reorder_buffer \in Channel!Reorder!Buffer
    BY SameChannelFacts DEF Joined, ReceiverTheory!IInv, Channel!TypeOK
  <2>4. reorder_buffer'.next = n
    BY <2>1, <2>3 DEF Channel!Reorder!SkipTo, Channel!Reorder!Buffer
  <2>5. /\ reorder_buffer.next # 0 /\ reorder_buffer.next \in Nat
        /\ reorder_buffer.next < n /\ n \in 1 .. Len(stream)
    BY <2>1, <2>2, JoinedFacts, ScriptFacts DEF Joined, PositionBeyondDecoded
  <2>6. Position = reorder_buffer.next /\ Position' = n
    BY <2>4, <2>5 DEF Position
  <2>7. n - 1 \in Position .. Len(stream) /\ n = (n - 1) + 1 /\ n # 0
    BY <2>5, <2>6, ScriptFacts DEF Joined
  <2> QED
    BY <2>2, <2>4, <2>6, <2>7 DEF Jumped
<1>5. CASE Channel!Return
  BY <1>5 DEF Channel!Return, Unnoticed, Position, Joined, PositionBeyondDecoded
<1> QED
  BY <1>1, <1>2, <1>3, <1>4, <1>5 DEF Channel!Next

LEMMA ChannelStutters ==
    ASSUME Joined, UNCHANGED receiverVars
    PROVE  /\ stream' = stream /\ Unnoticed
           /\ reorder_buffer'.next = 0 => reorder_buffer'.held = {} /\ decoded' = <<>>
           /\ decoded' # <<>> => reorder_buffer'.next = Position'
<1>1. stream' = stream /\ decoded' = decoded /\ reorder_buffer' = reorder_buffer
  BY DEF receiverVars
<1>2. reorder_buffer.next = 0 => reorder_buffer.held = {} /\ decoded = <<>>
  BY DEF Joined, PositionBeyondDecoded
<1> QED
  BY <1>1, <1>2 DEF Unnoticed, Position

(* What the decoder has been given stays behind the position.              *)
LEMMA DecodedFacts ==
    ASSUME Joined, NEW k \in 1 .. Len(decoded)
    PROVE  /\ decoded[k] \in [buffer : Seq(1 .. Len(stream)), header : 1 .. Len(stream)]
           /\ decoded[k].header \in Nat /\ decoded[k].header < Position
           /\ Position = reorder_buffer.next
<1>1. decoded[k] \in [buffer : Seq(1 .. Len(stream)), header : 1 .. Len(stream)]
  <2>1. decoded[k] \in Channel!Call
    BY JoinedFacts, ElementOfSeq
  <2> QED
    BY <2>1 DEF Channel!Call, Channel!Positions
<1>2. decoded[k].header \in Nat /\ decoded[k].header < reorder_buffer.next
  BY <1>1, ScriptFacts DEF Joined, PositionBeyondDecoded
<1>3. reorder_buffer.next # 0
  BY <1>2, JoinedFacts, ScriptFacts DEF Joined
<1> QED
  BY <1>1, <1>2, <1>3 DEF Position

LEMMA DecodedAppended ==
    ASSUME Joined, NEW b, Parsed(b)
    PROVE  /\ Len(decoded') = Len(decoded) + 1 /\ Len(decoded) \in Nat
           /\ \A k \in 1 .. Len(decoded) : decoded'[k] = decoded[k]
           /\ decoded'[Len(decoded')] = [buffer |-> b, header |-> Position]
           /\ decoded' # <<>> /\ decoded' # decoded
           /\ Position \in 1 .. Len(stream) /\ Position \in Nat
<1>1. decoded \in Seq(Channel!Call)
  BY JoinedFacts
<1>2. decoded' = Append(decoded, [buffer |-> b, header |-> Position])
  BY DEF Parsed
<1>3. Position \in 1 .. Len(stream) /\ Position \in Nat
  BY JoinedFacts, ScriptFacts DEF Joined, Parsed
<1>4. \A c : /\ Len(Append(decoded, c)) = Len(decoded) + 1 /\ Len(decoded) \in Nat
             /\ \A k \in 1 .. Len(decoded) : Append(decoded, c)[k] = decoded[k]
             /\ Append(decoded, c)[Len(decoded) + 1] = c
  BY <1>1
<1>5. /\ Len(decoded') = Len(decoded) + 1 /\ Len(decoded) \in Nat
      /\ \A k \in 1 .. Len(decoded) : decoded'[k] = decoded[k]
      /\ decoded'[Len(decoded) + 1] = [buffer |-> b, header |-> Position]
  BY <1>2, <1>4, Zenon
<1>6. Len(decoded') # 0 /\ Len(decoded') # Len(decoded)
  BY <1>5
<1>7. decoded' # <<>> /\ decoded' # decoded
  BY <1>6
<1> QED
  BY <1>3, <1>5, <1>7

LEMMA JoinedKeeps ==
    ASSUME Joined, Channel!Next \/ UNCHANGED receiverVars, script' = script
    PROVE  Joined'
<1>1. /\ stream' = stream
      /\ Unnoticed \/ Jumped \/ \E b : Parsed(b)
      /\ reorder_buffer'.next = 0 => reorder_buffer'.held = {} /\ decoded' = <<>>
      /\ decoded' # <<>> => reorder_buffer'.next = Position'
  BY ChannelStep, ChannelStutters
<1>2. ReceiverTheory!IInv'
  <2>1. [Channel!Next]_(Channel!vars)
    BY DEF receiverVars, Channel!vars
  <2>2. [ReceiverTheory!Next]_(ReceiverTheory!vars)
    BY <2>1, SameChannelStep
  <2> QED
    BY <2>2, StreamsAssumed, ReceiverTheory!NextInv DEF Joined
<1>3. Published'
  BY <1>1 DEF Joined, Published
<1>4. \A k \in 1 .. Len(decoded') : decoded'[k].header < reorder_buffer'.next
  <2> SUFFICES ASSUME NEW k \in 1 .. Len(decoded')
               PROVE  decoded'[k].header < reorder_buffer'.next
    OBVIOUS
  <2>1. decoded \in Seq(Channel!Call) /\ Position \in Nat /\ Len(stream) \in Nat
    BY JoinedFacts, ScriptFacts DEF Joined
  <2>2. CASE decoded' = decoded
    <3>1. Position <= Position' /\ Position' \in Nat
      <4>1. ~\E b : Parsed(b)
        BY <2>2, DecodedAppended
      <4>2. CASE Unnoticed
        BY <2>1, <4>2 DEF Unnoticed
      <4>3. CASE Jumped
        BY <2>1, <4>3 DEF Jumped
      <4> QED
        BY <1>1, <4>1, <4>2, <4>3
    <3>2. decoded[k].header < Position /\ decoded[k].header \in Nat
      BY <2>2, DecodedFacts
    <3>3. decoded' # <<>>
      BY <2>1, <2>2
    <3> QED
      BY <1>1, <2>1, <2>2, <3>1, <3>2, <3>3
  <2>3. ASSUME NEW b, Parsed(b) PROVE decoded'[k].header < reorder_buffer'.next
    <3>1. reorder_buffer'.next = Position + 1
      BY <1>1, <2>3, DecodedAppended DEF Parsed
    <3>2. CASE k \in 1 .. Len(decoded)
      <4>1. decoded'[k] = decoded[k] /\ decoded[k].header \in Nat /\ decoded[k].header < Position
        BY <2>3, <3>2, DecodedAppended, DecodedFacts
      <4> QED
        BY <2>1, <3>1, <4>1
    <3>3. CASE k = Len(decoded')
      <4>1. decoded'[k].header = Position
        BY <2>3, <3>3, DecodedAppended DEF Parsed
      <4> QED
        BY <2>1, <3>1, <4>1
    <3>4. k \in 1 .. Len(decoded) \/ k = Len(decoded')
      BY <2>3, DecodedAppended DEF Parsed
    <3> QED
      BY <3>2, <3>3, <3>4
  <2> QED
    BY <1>1, <2>2, <2>3 DEF Unnoticed, Jumped
<1> QED
  BY <1>1, <1>2, <1>3, <1>4 DEF Joined, PositionBeyondDecoded

-----------------------------------------------------------------------------
(* The messages that have been handed over, and those that have not.       *)
LEMMA HandedBehind == ASSUME Joined PROVE Handed \subseteq 1 .. Position - 1
<1> SUFFICES ASSUME NEW p \in Handed PROVE p \in 1 .. Position - 1
  OBVIOUS
<1>1. PICK k \in 1 .. Len(decoded) : p = decoded[k].header
  BY DEF Handed
<1> QED
  BY <1>1, DecodedFacts, JoinedFacts, ScriptFacts DEF Joined

LEMMA HandedStays ==
    ASSUME decoded' = decoded, stream' = stream
    PROVE  Handed' = Handed
  BY DEF Handed, Channel!Whole

LEMMA HandedGrows ==
    ASSUME Joined, NEW b, Parsed(b), stream' = stream
    PROVE  Handed' = Handed \cup IF Channel!Whole(stream, b) THEN {Position} ELSE {}
<1>1. /\ Len(decoded') = Len(decoded) + 1 /\ Len(decoded) \in Nat
      /\ \A k \in 1 .. Len(decoded) : decoded'[k] = decoded[k]
      /\ decoded'[Len(decoded')] = [buffer |-> b, header |-> Position]
  BY DecodedAppended
<1>2. 1 .. Len(decoded') = (1 .. Len(decoded)) \cup {Len(decoded')}
  BY <1>1
<1>3. \A c : Channel!Whole(stream, c)' <=> Channel!Whole(stream, c)
  BY DEF Channel!Whole
<1>4. Handed' = {decoded'[k].header :
                    k \in {l \in 1 .. Len(decoded') : Channel!Whole(stream, decoded'[l].buffer)}}
  BY DEF Handed, Channel!Whole
<1>5. ASSUME NEW p
      PROVE  p \in Handed' <=> p \in Handed \/ (Channel!Whole(stream, b) /\ p = Position)
  <2>1. p \in Handed' <=> \E k \in 1 .. Len(decoded') :
                 Channel!Whole(stream, decoded'[k].buffer) /\ p = decoded'[k].header
    BY <1>4
  <2>2. p \in Handed <=> \E k \in 1 .. Len(decoded) :
                 Channel!Whole(stream, decoded[k].buffer) /\ p = decoded[k].header
    BY DEF Handed
  <2> QED
    BY <1>1, <1>2, <2>1, <2>2
<1> QED
  BY <1>5

LEMMA LostJumped ==
    ASSUME Joined, NEW m \in Position .. Len(stream), Position' = m + 1,
           Handed' = Handed, script' = script
    PROVE  LostMessages' = LostMessages \cup Books!Lost(Position, m)
<1>1. /\ Position \in Nat \ {0} /\ m \in Nat /\ Position <= m /\ m <= Len(script)
      /\ Handed \subseteq 1 .. Position - 1
  BY HandedBehind, JoinedFacts, ScriptFacts DEF Joined
<1>2. \A p \in 1 .. m : script[p] = Books!Other <=> script[p].update_type = "OTHER"
  BY <1>1, ScriptFacts DEF Joined
<1>3. 1 .. (m + 1) - 1 = (1 .. Position - 1) \cup (Position .. m)
  BY <1>1
<1>4. \A p \in Position .. m : p \notin Handed /\ p \in 1 .. m
  BY <1>1
<1>5. LostMessages' = {p \in 1 .. (m + 1) - 1 : script[p].update_type # "OTHER" /\ p \notin Handed}
  BY DEF LostMessages
<1> QED
  BY <1>2, <1>3, <1>4, <1>5 DEF LostMessages, Books!Lost

LEMMA LostParsed ==
    ASSUME Joined, Position <= Len(stream), Position' = Position + 1,
           Handed' = Handed \cup {Position}, script' = script
    PROVE  LostMessages' = LostMessages
<1>1. Position \in Nat \ {0}
  BY JoinedFacts, ScriptFacts DEF Joined
<1>2. 1 .. (Position + 1) - 1 = (1 .. Position - 1) \cup {Position}
  BY <1>1
<1>3. Position \notin 1 .. Position - 1
  BY <1>1
<1>4. LostMessages' = {p \in 1 .. (Position + 1) - 1 :
                           script[p].update_type # "OTHER" /\ p \notin Handed \cup {Position}}
  BY DEF LostMessages
<1> QED
  BY <1>2, <1>3, <1>4 DEF LostMessages

LEMMA LostUnnoticed ==
    ASSUME Position' = Position, Handed' = Handed, script' = script
    PROVE  LostMessages' = LostMessages
  BY DEF LostMessages

-----------------------------------------------------------------------------
(* A call of the decoder that is not handed on, or not whole, is a loss,   *)
(* and one that is handed on is a message received.                        *)
LEMMA ReceivedImplements == ASSUME Joined, Received PROVE [Books!Next]_(Books!vars)
<1>1. /\ stream' = stream /\ script' = script /\ snapped' = snapped
      /\ Unnoticed \/ Jumped \/ \E b : Parsed(b)
  BY ChannelStep DEF Received
<1>2. /\ Position \in Nat /\ Len(stream) \in Nat /\ Len(script) = Len(stream)
      /\ Position \in 1 .. Len(stream) + 1
  BY JoinedFacts, ScriptFacts DEF Joined
<1>3. CASE Unnoticed
  <2>1. Position' = Position /\ Handed' = Handed /\ LostMessages' = LostMessages
    BY <1>1, <1>3, HandedStays, LostUnnoticed DEF Unnoticed
  <2>2. Books!NoBook
    BY <1>3 DEF Received, Unnoticed
  <2> QED
    BY <1>1, <2>1, <2>2 DEF Books!NoBook, Books!vars
<1>4. ASSUME NEW m \in Position .. Len(stream), Position' = m + 1, Handed' = Handed, Books!NoBook
      PROVE  Books!Next
  <2>1. LostMessages' = LostMessages \cup Books!Lost(Position, m)
    BY <1>1, <1>4, LostJumped
  <2>2. m \in 1 .. Len(script)
    BY <1>2
  <2>3. Books!IncrementalLost(m)
    BY <1>1, <1>2, <1>4, <2>1 DEF Books!IncrementalLost
  <2> QED
    BY <2>2, <2>3 DEF Books!Next, Books!Ordinary
<1>5. CASE Jumped
  <2>1. PICK m \in Position .. Len(stream) : Position' = m + 1 /\ decoded' = decoded
    BY <1>5 DEF Jumped
  <2>2. Handed' = Handed /\ Books!NoBook
    BY <1>1, <2>1, HandedStays DEF Received
  <2> QED
    BY <1>4, <2>1, <2>2
<1>6. ASSUME NEW b, Parsed(b) PROVE Books!Next
  <2>1. PICK n : /\ n = Position /\ Position' = n + 1 /\ n <= Len(stream)
                 /\ Callback([buffer |-> b, header |-> n])
    BY <1>6, DecodedAppended DEF Parsed, Received
  <2>2. Handed' = Handed \cup IF Channel!Whole(stream, b) THEN {Position} ELSE {}
    BY <1>1, <1>6, HandedGrows DEF Parsed
  <2>3. CASE Channel!Whole(stream, b)
    <3>1. Books!Update(Position)
      BY <2>1, <2>3 DEF Callback, Whole
    <3>2. LostMessages' = LostMessages
      BY <1>1, <2>1, <2>2, <2>3, LostParsed
    <3>3. Books!IncrementalReceived
      BY <1>1, <1>2, <2>1, <3>1, <3>2 DEF Books!IncrementalReceived
    <3> QED
      BY <3>3 DEF Books!Next, Books!Ordinary
  <2>4. CASE ~Channel!Whole(stream, b)
    <3>1. Books!NoBook
      BY <2>1, <2>4 DEF Callback, Whole
    <3> QED
      BY <1>2, <1>4, <2>1, <2>2, <2>4, <3>1
  <2> QED
    BY <2>3, <2>4
<1> QED
  BY <1>1, <1>3, <1>5, <1>6

(* A callback that raises, or a decoder that takes pieces for a message.   *)
LEMMA DisturbedImplements == ASSUME Joined, ReceivedDisturbed PROVE Books!Next
<1>1. /\ stream' = stream /\ script' = script /\ snapped' = snapped /\ decoded' # decoded
      /\ Unnoticed \/ Jumped \/ \E b : Parsed(b)
  BY ChannelStep DEF ReceivedDisturbed
<1>2. PICK b : Parsed(b)
  BY <1>1 DEF Unnoticed, Jumped
<1>3. PICK n : /\ n = Position /\ Position' = n + 1 /\ n <= Len(stream)
               /\ CallbackDisturbed([buffer |-> b, header |-> n])
  BY <1>2, DecodedAppended DEF Parsed, ReceivedDisturbed
<1>4. /\ Position \in Nat /\ Len(stream) \in Nat /\ Len(script) = Len(stream)
      /\ Position \in 1 .. Len(stream) + 1
  BY JoinedFacts, ScriptFacts DEF Joined
<1>5. Handed' = Handed \cup IF Channel!Whole(stream, b) THEN {Position} ELSE {}
  BY <1>1, <1>2, HandedGrows DEF Parsed
<1>6. CASE Channel!Whole(stream, b)
  <2>1. Books!UpdateRaises(Position)
    BY <1>3, <1>6 DEF CallbackDisturbed, Whole
  <2>2. LostMessages' = LostMessages
    BY <1>1, <1>3, <1>5, <1>6, LostParsed
  <2>3. Books!IncrementalRaises
    BY <1>1, <1>3, <1>4, <2>1, <2>2 DEF Books!IncrementalRaises
  <2> QED
    BY <2>3 DEF Books!Next, Books!Disturbance
<1>7. CASE ~Channel!Whole(stream, b)
  <2>1. PICK i \in Instruments : Books!TornUpdate(i, Position)
    BY <1>3, <1>7 DEF CallbackDisturbed, Whole
  <2>2. LostMessages' = LostMessages \cup Books!Lost(Position, Position)
    BY <1>1, <1>3, <1>4, <1>5, <1>7, LostJumped
  <2>3. Books!IncrementalTorn(i)
    BY <1>1, <1>3, <1>4, <2>1, <2>2 DEF Books!IncrementalTorn
  <2> QED
    BY <2>3 DEF Books!Next, Books!Disturbance
<1> QED
  BY <1>6, <1>7

(* The snapshot channel does not touch the receiver.                       *)
LEMMA UntouchedReceiver ==
    ASSUME UNCHANGED <<receiverVars, script>>
    PROVE  Position' = Position /\ LostMessages' = LostMessages
<1>1. Position' = Position /\ stream' = stream /\ decoded' = decoded /\ script' = script
  BY DEF receiverVars, Position
<1> QED
  BY <1>1, HandedStays, LostUnnoticed

LEMMA SnapshotsImplement ==
    ASSUME SnapshotReceived \/ SnapshotDisturbed
    PROVE  Books!Next
<1>1. ASSUME NEW i \in Instruments, NEW n \in 0 .. Len(script),
             Snapshot(n), Books!SnapshotUpdate(i, n, FALSE)
      PROVE  Books!Next
  <2>1. Books!SnapshotReceived(i, n)
    BY <1>1, UntouchedReceiver DEF Snapshot, Books!SnapshotReceived, Books!Snapshot
  <2> QED
    BY <2>1 DEF Books!Next, Books!Ordinary
<1>2. ASSUME NEW i \in Instruments, NEW n \in 0 .. Len(script),
             Snapshot(n), Books!SnapshotRaises(i, n, FALSE)
      PROVE  Books!Next
  <2>1. Books!SnapshotReceivedRaises(i, n)
    BY <1>2, UntouchedReceiver DEF Snapshot, Books!SnapshotReceivedRaises, Books!Snapshot
  <2> QED
    BY <2>1 DEF Books!Next, Books!Disturbance
<1> QED
  BY <1>1, <1>2 DEF SnapshotReceived, SnapshotDisturbed

-----------------------------------------------------------------------------
LEMMA Beginning == Init => Joined /\ Books!Init
<1> SUFFICES ASSUME Init PROVE Joined /\ Books!Init
  OBVIOUS
<1>1. Channel!Init /\ Published
  BY DEF Init, Published
<1>2. ReceiverTheory!IInv
  BY <1>1, StreamsAssumed, SameChannelInit, ReceiverTheory!InitInv
<1>3. /\ reorder_buffer.next = 0 /\ reorder_buffer.held = {} /\ decoded = <<>>
  BY <1>1 DEF Channel!Init, Channel!Reorder!Empty
<1>4. Position = 1 /\ LostMessages = {}
  BY <1>3 DEF Position, LostMessages
<1>5. Books!Init
  BY <1>1, <1>4, ScriptFacts DEF Init, Books!Init
<1> QED
  BY <1>1, <1>2, <1>3, <1>5 DEF Joined, PositionBeyondDecoded

LEMMA JoinedStep == Joined /\ [Next]_vars => Joined'
<1> SUFFICES ASSUME Joined, [Next]_vars PROVE Joined'
  OBVIOUS
<1>1. (Channel!Next \/ UNCHANGED receiverVars) /\ script' = script
  BY DEF Next, Received, ReceivedDisturbed, SnapshotReceived, SnapshotDisturbed, Snapshot, vars
<1> QED
  BY <1>1, JoinedKeeps

LEMMA Implementation == Joined /\ [Next]_vars => [Books!Next]_(Books!vars)
<1> SUFFICES ASSUME Joined, [Next]_vars PROVE [Books!Next]_(Books!vars)
  OBVIOUS
<1>1. CASE UNCHANGED vars
  <2>1. UNCHANGED <<receiverVars, script>> /\ UNCHANGED <<snapped, sequencer, book, health>>
    BY <1>1 DEF vars
  <2> QED
    BY <2>1, UntouchedReceiver DEF Books!vars
<1> QED
  BY <1>1, ReceivedImplements, DisturbedImplements, SnapshotsImplement DEF Next

(* Datagrams to books, for every publication of any length, every depth of *)
(* the re-order buffer and every behaviour of network and callbacks: what  *)
(* Incremental, its decoder and the snapshot channel do to the books is a  *)
(* behaviour of module MarketByPriceFeed.  No message of the channel gets  *)
(* to a book twice, out of order or under another number.                  *)
THEOREM ImplementsBooksFeed == Spec => BooksFeed
<1>1. Init => Joined /\ Books!Init
  BY Beginning
<1>2. Joined /\ [Next]_vars => Joined'
  BY JoinedStep
<1>3. Joined /\ [Next]_vars => [Books!Next]_(Books!vars)
  BY Implementation
<1> QED
  BY <1>1, <1>2, <1>3, PTL DEF Spec, BooksFeed

-----------------------------------------------------------------------------
(* With that, the invariants of the books hold behind the receiver.        *)
LEMMA BooksBeginning == Init => BooksTheory!IInv
  BY Beginning, SameBooksInit, ScriptsAssumed, BooksTheory!InitHolds

LEMMA BooksStep == Joined /\ BooksTheory!IInv /\ [Next]_vars => BooksTheory!IInv'
<1> SUFFICES ASSUME Joined, BooksTheory!IInv, [Next]_vars PROVE BooksTheory!IInv'
  OBVIOUS
<1>1. [BooksTheory!Next]_(BooksTheory!vars)
  BY Implementation, SameBooksStep
<1> QED
  BY <1>1, ScriptsAssumed, BooksTheory!StepKeeps

LEMMA SameBooksFacts ==
    /\ BooksTheory!TypeOK => Books!TypeOK
    /\ BooksTheory!BookIsPublished => Books!BookIsPublished
    /\ BooksTheory!NothingForgotten => Books!NothingForgotten
<1>1. BooksTheory!TypeOK => Books!TypeOK
  BY DEF Books!TypeOK, BooksTheory!TypeOK
<1>2. BooksTheory!BookIsPublished => Books!BookIsPublished
  BY SameOperators
  DEF Books!BookIsPublished, BooksTheory!BookIsPublished, Books!Clean, BooksTheory!Clean,
      Books!Torn, BooksTheory!Torn
<1>3. BooksTheory!NothingForgotten => Books!NothingForgotten
  BY SameOperators DEF Books!NothingForgotten, BooksTheory!NothingForgotten
<1> QED
  BY <1>1, <1>2, <1>3

LEMMA BothHold == Spec => [](Joined /\ BooksTheory!IInv)
<1>1. Init => Joined /\ BooksTheory!IInv
  BY Beginning, BooksBeginning
<1>2. (Joined /\ BooksTheory!IInv) /\ [Next]_vars => (Joined /\ BooksTheory!IInv)'
  BY JoinedStep, BooksStep
<1> QED
  BY <1>1, <1>2, PTL DEF Spec

(* What the theorems about the feed say, from the datagrams on: books are  *)
(* those of the publisher unless something torn, or half done, is in them, *)
(* and include every message that the receiver has handed over.            *)
THEOREM BooksFollowDatagrams ==
    Spec => [](Books!BookIsPublished /\ Books!NothingForgotten)
<1>1. ASSUME BooksTheory!IInv PROVE Books!BookIsPublished /\ Books!NothingForgotten
  BY <1>1, ScriptsAssumed, BooksTheory!BooksWerePublished, BooksTheory!NothingIsForgotten,
     SameBooksFacts
<1> QED
  BY <1>1, BothHold, PTL

(* What was lost unnoticed, before a snapshot or after it, is missing from *)
(* a book only until the instrument's next update is handed over.          *)
THEOREM HolesAreNotBuiltUpon == Spec => []StaleUntilNextUpdate
<1>1. ASSUME Joined, BooksTheory!IInv PROVE StaleUntilNextUpdate
  <2> SUFFICES ASSUME NEW i \in Instruments, sequencer[i].ready, health[i] = "sound",
                      NEW q \in Handed \cap Books!Published(i, Position - 1)
               PROVE  Books!Published(i, q) \subseteq book[i]
    BY DEF StaleUntilNextUpdate
  <2> DEFINE last == sequencer[i].last
  <2>1. q \in book[i]
    <3>1. q \notin LostMessages
      BY DEF LostMessages
    <3>2. Books!NothingForgotten
      BY <1>1, ScriptsAssumed, BooksTheory!NothingIsForgotten, SameBooksFacts
    <3> QED
      BY <3>1, <3>2 DEF Books!NothingForgotten
  <2>2. book[i] = Books!Published(i, last) /\ last \in Nat
    BY <1>1, SameOperators
    DEF BooksTheory!IInv, BooksTheory!AllSane, BooksTheory!Sane, BooksTheory!InStep,
        BooksTheory!SequencerState
  <2>3. q \in 1 .. last
    BY <2>1, <2>2 DEF Books!Published, Books!Chain
  <2>4. 1 .. q \subseteq 1 .. last
    BY <2>2, <2>3
  <2>5. Books!Published(i, q) \subseteq Books!Published(i, last)
    <3> HIDE DEF last
    <3> QED
      BY <2>4 DEF Books!Published, Books!Chain
  <2> QED
    BY <2>2, <2>5
<1> QED
  BY <1>1, BothHold, PTL

(* A step of the whole is a step of the books, or none.                    *)
LEMMA BooksMove ==
    ASSUME Joined, BooksTheory!IInv, [Next]_vars
    PROVE  \/ BooksTheory!ForwardOnly /\ BooksTheory!OwnLossesOnly
           \/ UNCHANGED Books!vars
<1>1. BooksTheory!Next \/ UNCHANGED BooksTheory!vars
  BY Implementation, SameBooksStep
<1>2. CASE BooksTheory!Next
  BY <1>2, ScriptsAssumed, BooksTheory!ForwardStep, BooksTheory!OwnLossStep
<1>3. CASE UNCHANGED BooksTheory!vars
  BY <1>3 DEF Books!vars, BooksTheory!vars
<1> QED
  BY <1>1, <1>2, <1>3

LEMMA SameMoves ==
    /\ BooksTheory!ForwardOnly =>
          \A i \in Instruments :
              Books!GoesBack(i) => Books!SnapshotInChannel(i) \/ health'[i] # "sound"
    /\ BooksTheory!OwnLossesOnly =>
          \A i \in Instruments :
              Books!StartsOver(i) => health'[i] # "sound" \/ Books!OwnLoss(i)
<1>1. \A i : /\ BooksTheory!GoesBack(i) <=> Books!GoesBack(i)
             /\ BooksTheory!SnapshotInChannel(i) <=> Books!SnapshotInChannel(i)
             /\ BooksTheory!StartsOver(i) <=> Books!StartsOver(i)
             /\ BooksTheory!OwnLoss(i) <=> Books!OwnLoss(i)
  BY SameOperators
  DEF BooksTheory!GoesBack, Books!GoesBack, BooksTheory!SnapshotInChannel,
      Books!SnapshotInChannel, BooksTheory!StartsOver, Books!StartsOver,
      BooksTheory!OwnLoss, Books!OwnLoss, BooksTheory!IsOf, Books!IsOf
<1> QED
  BY <1>1 DEF BooksTheory!ForwardOnly, BooksTheory!OwnLossesOnly

(* However datagrams of both channels arrive, no snapshot takes an         *)
(* undisturbed book back, and none starts over but for a link of its own   *)
(* chain, later than all that is in it, that the receiver has not handed   *)
(* over or that the code ignores.                                          *)
THEOREM BooksMoveByRule == Spec => Books!NeverBackwards /\ Books!StartsOverByOwnLossOnly
<1>1. Joined /\ BooksTheory!IInv /\ [Next]_vars =>
        /\ [\A i \in Instruments :
               Books!GoesBack(i) => Books!SnapshotInChannel(i) \/ health'[i] # "sound"]_(Books!vars)
        /\ [\A i \in Instruments :
               Books!StartsOver(i) => health'[i] # "sound" \/ Books!OwnLoss(i)]_(Books!vars)
  BY BooksMove, SameMoves
<1> QED
  BY <1>1, BothHold, PTL DEF Spec, Books!NeverBackwards, Books!StartsOverByOwnLossOnly

-----------------------------------------------------------------------------
(* Until something is lost, every message from the first one on has been   *)
(* handed over by the time that the receiver is past its last fragment.    *)
Covered ==
    (intact /\ decoded # <<>>) =>
        \A p \in decoded[1].header .. Position - 1 : Channel!IsLast(p) => p \in Handed

LEMMA StaysIntact == ASSUME Channel!Next, intact' PROVE intact
  BY DEF Channel!Next, Channel!DatagramReceived, Channel!ParseLastFragment,
         Channel!ParseUnfragmented, Channel!ParseFirstFragment, Channel!ParseMiddleFragment,
         Channel!ParseRejoining, Channel!Reset, Channel!Return, Channel!DecoderDispatch,
         Channel!Raise, Channel!NoRaise

(* The receiver does not skip the rest of a message in the middle of which *)
(* it has not joined.                                                      *)
LEMMA NothingSkipped ==
    ASSUME Joined, ReceiverTheory!Chain, Channel!Next, intact', decoded # <<>>,
           decoded' = decoded
    PROVE  \/ Position' = Position
           \/ Position' = Position + 1 /\ ~Channel!IsLast(Position)
<1>1. intact
  BY StaysIntact
<1>2. /\ Len(stream) \in Nat /\ Position = reorder_buffer.next /\ Position \in Nat \ {0}
  <2>1. decoded \in Seq(Channel!Call)
    BY JoinedFacts
  <2>2. Len(decoded) \in Nat /\ 1 \in 1 .. Len(decoded)
    BY <2>1
  <2> QED
    BY <2>2, DecodedFacts, JoinedFacts, ScriptFacts DEF Joined
<1>3. CASE Channel!DatagramReceived
  <2>1. PICK n \in 1 .. Len(stream) : reorder_buffer' = Channel!Reorder!Insert(reorder_buffer, n)
    BY <1>3 DEF Channel!DatagramReceived
  <2>2. reorder_buffer \in Channel!Reorder!Buffer
    BY SameChannelFacts DEF Joined, ReceiverTheory!IInv, Channel!TypeOK
  <2>3. reorder_buffer'.next = reorder_buffer.next
    BY <1>2, <2>1, <2>2 DEF Channel!Reorder!Insert, Channel!Reorder!Buffer
  <2> QED
    BY <2>3 DEF Position
<1>4. ASSUME NEW n \in 1 .. Len(stream),
             Channel!ParseFirstFragment(n) \/ Channel!ParseMiddleFragment(n)
      PROVE  Position' = Position + 1 /\ ~Channel!IsLast(Position)
  <2>1. Channel!Parse(n) /\ ~Channel!IsLast(n)
    BY <1>4 DEF Channel!ParseFirstFragment, Channel!ParseMiddleFragment
  <2> QED
    BY <2>1, ParseStep
<1>5. ASSUME NEW n \in 1 .. Len(stream), Channel!ParseRejoining(n) PROVE FALSE
  <2>1. Channel!Parse(n) /\ decode_buffer = <<>> /\ stream[n].frag # 0
    BY <1>5 DEF Channel!ParseRejoining, Channel!IsFirst
  <2>2. n = Position /\ n = reorder_buffer.next
    BY <2>1, ParseStep
  <2>3. PICK last \in 1 .. Len(stream) :
            stream[last].frag = stream[last].max /\ last + 1 = n
    BY <1>1, <2>1, <2>2
    DEF ReceiverTheory!Chain, ReceiverTheory!IsLast, ReceiverTheory!Positions
  <2>4. ReceiverTheory!WellFormed(stream)
    BY StreamsAssumed, ReceiverTheory!StreamType DEF Joined, ReceiverTheory!IInv
  <2>5. n - 1 = last /\ n > 1
    BY <1>2, <2>3
  <2>6. stream[n].frag = 0
    BY <2>3, <2>4, <2>5 DEF ReceiverTheory!WellFormed
  <2> QED
    BY <2>1, <2>6
<1>6. ASSUME NEW n \in 1 .. Len(stream),
             Channel!ParseLastFragment(n) \/ Channel!ParseUnfragmented(n)
      PROVE  FALSE
  <2>1. PICK b : Channel!Parse(n) /\ decoded' = Append(decoded, [buffer |-> b, header |-> n])
    BY <1>6 DEF Channel!ParseLastFragment, Channel!ParseUnfragmented, Channel!DecoderDispatch
  <2>2. Parsed(b)
    BY <1>2, <2>1, ParseStep DEF Parsed
  <2> QED
    BY <2>2, DecodedAppended DEF Parsed
<1>7. ~Channel!Reset
  BY DEF Channel!Reset
<1>8. CASE Channel!Return
  BY <1>8 DEF Channel!Return, Position
<1> QED
  BY <1>3, <1>4, <1>5, <1>6, <1>7, <1>8 DEF Channel!Next

LEMMA CoveredKeeps ==
    ASSUME Joined, Joined', ReceiverTheory!Chain, Covered, Channel!Next
    PROVE  Covered'
<1> SUFFICES ASSUME intact', decoded' # <<>>,
                    NEW p \in decoded'[1].header .. Position' - 1, Channel!IsLast(p)'
             PROVE  p \in Handed'
  BY DEF Covered
<1>1. /\ intact /\ stream' = stream
      /\ Unnoticed \/ Jumped \/ \E b : Parsed(b)
  BY StaysIntact, ChannelStep
<1>2. Channel!IsLast(p)
  BY <1>1 DEF Channel!IsLast
<1>3. decoded \in Seq(Channel!Call) /\ Position \in Nat \ {0}
  BY JoinedFacts, ScriptFacts DEF Joined
<1>4. CASE decoded' = decoded
  <2>1. Handed' = Handed
    BY <1>1, <1>4, HandedStays
  <2>2. 1 \in 1 .. Len(decoded)
    BY <1>3, <1>4
  <2>3. decoded[1].header \in Nat
    BY <2>2, DecodedFacts
  <2>4. p \in decoded[1].header .. Position - 1 \/ (p = Position /\ ~Channel!IsLast(Position))
    BY <1>3, <1>4, <2>3, NothingSkipped
  <2>5. p \in decoded[1].header .. Position - 1
    BY <1>2, <2>4
  <2> QED
    BY <1>1, <1>2, <1>4, <2>1, <2>5 DEF Covered
<1>5. ASSUME NEW b, Parsed(b) PROVE p \in Handed'
  <2>1. /\ Len(decoded') = Len(decoded) + 1 /\ Len(decoded) \in Nat
        /\ \A k \in 1 .. Len(decoded) : decoded'[k] = decoded[k]
        /\ decoded'[Len(decoded')] = [buffer |-> b, header |-> Position]
        /\ Position' = Position + 1
    BY <1>5, DecodedAppended DEF Parsed
  <2>2. Channel!Whole(stream, b)
    <3>1. ReceiverTheory!WholeUntilLoss'
      BY DEF Joined, ReceiverTheory!IInv
    <3>2. Len(decoded') \in 1 .. Len(decoded')
      BY <2>1
    <3>3. ReceiverTheory!Whole(stream', decoded'[Len(decoded')].buffer)
      BY <3>1, <3>2 DEF ReceiverTheory!WholeUntilLoss
    <3> QED
      BY <1>1, <2>1, <3>3, SameChannelFacts
  <2>3. Handed' = Handed \cup {Position}
    BY <1>1, <1>5, <2>2, HandedGrows DEF Parsed
  <2>4. CASE decoded = <<>>
    <3>1. decoded'[1].header = Position
      BY <2>1, <2>4
    <3> QED
      BY <1>3, <2>1, <2>3, <3>1
  <2>5. CASE decoded # <<>>
    <3>1. 1 \in 1 .. Len(decoded)
      BY <1>3, <2>5
    <3>2. decoded'[1] = decoded[1] /\ decoded[1].header \in Nat
      BY <2>1, <3>1, DecodedFacts
    <3>3. p \in decoded[1].header .. Position - 1 \/ p = Position
      BY <1>3, <2>1, <3>2
    <3> QED
      BY <1>1, <1>2, <2>3, <2>5, <3>3 DEF Covered
  <2> QED
    BY <2>4, <2>5
<1> QED
  BY <1>1, <1>4, <1>5 DEF Unnoticed, Jumped

(* Until a loss a client is up to date as soon as it has a snapshot,       *)
(* however late: from the first message on, it has every update whose last *)
(* fragment the receiver has passed.                                       *)
THEOREM UpToDate == Spec => []UpToDateUntilLoss
<1>1. Init => ReceiverTheory!Chain /\ Covered
  BY DEF Init, Channel!Init, ReceiverTheory!Chain, Covered
<1>2. /\ Joined /\ Joined' /\ ReceiverTheory!Chain /\ Covered /\ [Next]_vars
      => (ReceiverTheory!Chain /\ Covered)'
  <2> SUFFICES ASSUME Joined, Joined', ReceiverTheory!Chain, Covered, [Next]_vars
               PROVE  (ReceiverTheory!Chain /\ Covered)'
    OBVIOUS
  <2>1. (Channel!Next \/ UNCHANGED receiverVars) /\ script' = script
    BY DEF Next, Received, ReceivedDisturbed, SnapshotReceived, SnapshotDisturbed, Snapshot, vars
  <2>2. ReceiverTheory!Chain'
    <3>1. [ReceiverTheory!Next]_(ReceiverTheory!vars)
      BY <2>1, SameChannelStep DEF receiverVars, Channel!vars
    <3> QED
      BY <3>1, StreamsAssumed, ReceiverTheory!FeedStep DEF Joined
  <2>3. Covered'
    <3>1. CASE Channel!Next
      BY <3>1, CoveredKeeps
    <3>2. CASE UNCHANGED receiverVars
      BY <3>2, HandedStays DEF receiverVars, Covered, Position, Channel!IsLast
    <3> QED
      BY <2>1, <3>1, <3>2
  <2> QED
    BY <2>2, <2>3
<1>3. ASSUME Joined, BooksTheory!IInv, Covered PROVE UpToDateUntilLoss
  <2> SUFFICES ASSUME intact, decoded # <<>>,
                      NEW i \in Instruments, sequencer[i].ready, health[i] = "sound",
                      NEW p \in Books!Published(i, Position - 1), p >= decoded[1].header
               PROVE  p \in book[i]
    BY DEF UpToDateUntilLoss
  <2>1. /\ Position \in 1 .. Len(stream) + 1 /\ Len(script) = Len(stream) /\ Len(stream) \in Nat
        /\ decoded \in Seq(Channel!Call)
    BY <1>3, JoinedFacts, ScriptFacts DEF Joined
  <2>2. p \in 1 .. Position - 1 /\ script[p].update_type = "INCREMENTAL" /\ p \in 1 .. Len(script)
    BY <2>1 DEF Books!Published, Books!Chain
  <2>3. stream[p].frag = stream[p].max
    <3>1. script[p].update_type # "OTHER"
      BY <2>2
    <3> QED
      BY <1>3, <2>2, <3>1, ScriptFacts DEF Joined
  <2>4. 1 \in 1 .. Len(decoded)
    BY <2>1
  <2>5. decoded[1].header \in Nat
    BY <1>3, <2>4, DecodedFacts
  <2>6. p \in Handed
    BY <1>3, <2>1, <2>2, <2>3, <2>5 DEF Covered, Channel!IsLast
  <2>7. p \notin LostMessages
    BY <2>6 DEF LostMessages
  <2>8. Books!NothingForgotten
    BY <1>3, ScriptsAssumed, BooksTheory!NothingIsForgotten, SameBooksFacts
  <2> QED
    BY <2>7, <2>8 DEF Books!NothingForgotten
<1> QED
  BY <1>1, <1>2, <1>3, BothHold, PTL DEF Spec

-----------------------------------------------------------------------------
(* What keeps garbage out: the sequencer makes up no contents, ...         *)
Pristine(s) == \A k \in 1 .. Len(s.cache) : s.cache[k].content # Books!Garbage

Harmless(o) ==
    /\ Pristine(o.sequencer)
    /\ Books!Garbage \notin o.effect.book
    /\ o.effect.kind \in {"none", "update", "snapshot", "reset"}

LEMMA EffectsAre ==
    /\ Books!Sequencer!Nothing = [kind |-> "none", book |-> {}]
    /\ Books!Sequencer!RequestSnapshot = [kind |-> "reset", book |-> {}]
  BY DEF Books!Sequencer!Nothing, Books!Sequencer!RequestSnapshot

LEMMA UpdateHarmless ==
    ASSUME NEW s, s.cache \in Seq(BooksTheory!CollectedUpdate), Pristine(s),
           NEW m, m.content # Books!Garbage,
           NEW o \in Books!Sequencer!OnUpdate(s, m)
    PROVE  Harmless(o)
<1>1. CASE ~s.ready
  <2> DEFINE cache == Books!Sequencer!Collect(s.cache, m)
  <2>1. /\ o.sequencer.cache = cache
        /\ o.effect \in {Books!Sequencer!Nothing, Books!Sequencer!RequestSnapshot}
    BY <1>1
    DEF Books!Sequencer!OnUpdate, Books!Sequencer!Outcome, Books!Sequencer!Collecting
  <2>2. CASE cache = <<m>>
    <3>1. Len(<<m>>) = 1 /\ <<m>>[1] = m
      OBVIOUS
    <3>2. Pristine(o.sequencer)
      BY <2>1, <2>2, <3>1 DEF Pristine
    <3> QED
      BY <2>1, <3>2, EffectsAre DEF Harmless
  <2>3. CASE cache = Append(s.cache, m)
    <3>1. /\ Len(s.cache) \in Nat /\ Len(Append(s.cache, m)) = Len(s.cache) + 1
          /\ \A k \in 1 .. Len(s.cache) : Append(s.cache, m)[k] = s.cache[k]
          /\ Append(s.cache, m)[Len(s.cache) + 1] = m
      OBVIOUS
    <3>2. ASSUME NEW k \in 1 .. Len(Append(s.cache, m))
          PROVE  Append(s.cache, m)[k].content # Books!Garbage
      <4>1. k \in 1 .. Len(s.cache) \/ k = Len(s.cache) + 1
        BY <3>1
      <4> QED
        BY <3>1, <4>1 DEF Pristine
    <3>3. Pristine(o.sequencer)
      BY <2>1, <2>3, <3>2, Zenon DEF Pristine
    <3> QED
      BY <2>1, <3>3, EffectsAre DEF Harmless
  <2>4. cache = <<m>> \/ cache = Append(s.cache, m)
    BY DEF Books!Sequencer!Collect
  <2> QED
    BY <2>2, <2>3, <2>4
<1>2. CASE s.ready /\ m.sn <= s.last
  <2>1. o.sequencer = s /\ o.effect = Books!Sequencer!Nothing
    BY <1>2 DEF Books!Sequencer!OnUpdate, Books!Sequencer!Outcome
  <2> QED
    BY <2>1, EffectsAre DEF Harmless
<1>3. CASE s.ready /\ ~(m.sn <= s.last) /\ m.prev = s.last
  <2>1. /\ o.sequencer.cache = <<>>
        /\ o.effect = [kind |-> "update", book |-> {m.content}]
    BY <1>3
    DEF Books!Sequencer!OnUpdate, Books!Sequencer!Outcome, Books!Sequencer!ReadyAt,
        Books!Sequencer!PublishUpdate
  <2> QED
    BY <2>1 DEF Harmless, Pristine
<1>4. CASE s.ready /\ ~(m.sn <= s.last) /\ m.prev # s.last
  <2>1. o.sequencer.cache = <<m>> /\ o.effect = Books!Sequencer!RequestSnapshot
    BY <1>4
    DEF Books!Sequencer!OnUpdate, Books!Sequencer!Outcome, Books!Sequencer!Collecting
  <2>2. Len(<<m>>) = 1 /\ <<m>>[1] = m
    OBVIOUS
  <2> QED
    BY <2>1, <2>2, EffectsAre DEF Harmless, Pristine
<1> QED
  BY <1>1, <1>2, <1>3, <1>4

LEMMA SnapshotHarmless ==
    ASSUME NEW s, Pristine(s), NEW n, NEW content, Books!Garbage \notin content,
           NEW o \in Books!Sequencer!OnSnapshot(s, n, content)
    PROVE  Harmless(o)
<1>1. CASE /\ o.sequencer = s
           /\ o.effect \in {Books!Sequencer!Nothing, Books!Sequencer!RequestSnapshot}
  BY <1>1, EffectsAre DEF Harmless
<1>2. ASSUME NEW later, Books!Garbage \notin later, NEW x,
             o = Books!Sequencer!Outcome(Books!Sequencer!ReadyAt(x),
                                         Books!Sequencer!PublishSnapshot(later))
      PROVE  Harmless(o)
  <2>1. o.sequencer.cache = <<>> /\ o.effect = [kind |-> "snapshot", book |-> later]
    BY <1>2
    DEF Books!Sequencer!Outcome, Books!Sequencer!ReadyAt, Books!Sequencer!PublishSnapshot
  <2> QED
    BY <1>2, <2>1 DEF Harmless, Pristine
<1> DEFINE collected == {s.cache[k] : k \in 1 .. Len(s.cache)}
           later == content \cup {m.content : m \in {x \in collected : x.sn > n}}
           numbers == {m.sn : m \in collected} \cup {n}
           newest == CHOOSE x \in numbers : \A y \in numbers : y <= x
<1>3. Books!Garbage \notin later
  BY DEF Pristine
<1>4. \/ o.sequencer = s /\ o.effect \in {Books!Sequencer!Nothing, Books!Sequencer!RequestSnapshot}
      \/ o = Books!Sequencer!Outcome(Books!Sequencer!ReadyAt(n),
                                     Books!Sequencer!PublishSnapshot(content))
      \/ o = Books!Sequencer!Outcome(Books!Sequencer!ReadyAt(newest),
                                     Books!Sequencer!PublishSnapshot(later))
  <2>1. CASE s.ready
    BY <2>1 DEF Books!Sequencer!OnSnapshot, Books!Sequencer!Outcome
  <2>2. CASE ~s.ready /\ s.cache # <<>> /\ n < s.cache[1].prev
    BY <2>2 DEF Books!Sequencer!OnSnapshot, Books!Sequencer!Outcome
  <2>3. CASE ~s.ready /\ ~(s.cache # <<>> /\ n < s.cache[1].prev)
    BY <2>3 DEF Books!Sequencer!OnSnapshot
  <2> QED
    BY <2>1, <2>2, <2>3
<1> HIDE DEF later, newest
<1> QED
  BY <1>1, <1>2, <1>3, <1>4

(* ... a handler passes on what it gives, ...                              *)
NoGarbage == \A i \in Instruments : ~HasGarbage(i)

LEMMA BookTypes ==
    ASSUME BooksTheory!IInv
    PROVE  /\ sequencer \in [Instruments -> BooksTheory!SequencerState]
           /\ book \in [Instruments -> SUBSET (0 .. Len(script))]
           /\ \A i \in Instruments : sequencer[i].cache \in Seq(BooksTheory!CollectedUpdate)
<1>1. /\ sequencer \in [Instruments -> BooksTheory!SequencerState]
      /\ book \in [Instruments -> SUBSET (0 .. Len(script))]
  BY DEF BooksTheory!IInv, BooksTheory!AllSane
<1> QED
  BY <1>1 DEF BooksTheory!SequencerState

LEMMA HandledHarmless ==
    ASSUME BooksTheory!IInv, NoGarbage, NEW i \in Instruments, NEW outcomes,
           \A o \in outcomes : Harmless(o),
           Books!Handle(i, outcomes) \/ Books!HandleRaising(i, outcomes)
    PROVE  NoGarbage'
<1>1. /\ \A j \in Instruments :
            /\ Pristine(sequencer[j]) /\ Books!Garbage \notin book[j]
            /\ j # i => sequencer'[j] = sequencer[j] /\ book'[j] = book[j]
      /\ \E o \in outcomes :
            /\ sequencer'[i] \in {sequencer[i], o.sequencer}
            /\ book'[i] \in {book[i], Books!Apply(book[i], o.effect)}
  <2>1. \A j \in Instruments : Pristine(sequencer[j]) /\ Books!Garbage \notin book[j]
    BY DEF NoGarbage, HasGarbage, Pristine, Books!Torn
  <2>2. ASSUME Books!Handle(i, outcomes)
        PROVE  /\ \A j \in Instruments \ {i} : sequencer'[j] = sequencer[j] /\ book'[j] = book[j]
               /\ \E o \in outcomes :
                     /\ sequencer'[i] \in {sequencer[i], o.sequencer}
                     /\ book'[i] \in {book[i], Books!Apply(book[i], o.effect)}
    <3>1. PICK o \in outcomes :
              /\ sequencer' = [sequencer EXCEPT ![i] = o.sequencer]
              /\ book' = [book EXCEPT ![i] = Books!Apply(@, o.effect)]
      BY <2>2 DEF Books!Handle
    <3> QED
      BY <3>1, BookTypes
  <2>3. ASSUME Books!HandleRaising(i, outcomes)
        PROVE  /\ \A j \in Instruments \ {i} : sequencer'[j] = sequencer[j] /\ book'[j] = book[j]
               /\ \E o \in outcomes :
                     /\ sequencer'[i] \in {sequencer[i], o.sequencer}
                     /\ book'[i] \in {book[i], Books!Apply(book[i], o.effect)}
    <3>1. PICK o \in outcomes, moved \in BOOLEAN, applied \in BOOLEAN :
              /\ sequencer' = [sequencer EXCEPT ![i] = IF moved THEN o.sequencer ELSE @]
              /\ book' = [book EXCEPT ![i] = IF applied THEN Books!Apply(@, o.effect) ELSE @]
      BY <2>3 DEF Books!HandleRaising
    <3> QED
      BY <3>1, BookTypes
  <2> QED
    BY <2>1, <2>2, <2>3
<1>2. PICK o \in outcomes : /\ sequencer'[i] \in {sequencer[i], o.sequencer}
                            /\ book'[i] \in {book[i], Books!Apply(book[i], o.effect)}
  BY <1>1
<1>3. Harmless(o)
  OBVIOUS
<1>4. Books!Garbage \notin Books!Apply(book[i], o.effect)
  BY <1>1, <1>3 DEF Harmless, Books!Apply
<1>5. \A j \in Instruments : Pristine(sequencer'[j]) /\ Books!Garbage \notin book'[j]
  <2> SUFFICES ASSUME NEW j \in Instruments
               PROVE  Pristine(sequencer'[j]) /\ Books!Garbage \notin book'[j]
    OBVIOUS
  <2>1. CASE j = i
    BY <1>1, <1>2, <1>3, <1>4, <2>1 DEF Harmless
  <2>2. CASE j # i
    BY <1>1, <2>2
  <2> QED
    BY <2>1, <2>2
<1> QED
  BY <1>5 DEF NoGarbage, HasGarbage, Pristine, Books!Torn, Books!Garbage

LEMMA NothingHandled == ASSUME NoGarbage, Books!NoBook PROVE NoGarbage'
  BY DEF NoGarbage, HasGarbage, Books!NoBook, Books!Torn, Books!Garbage

(* ... and publishers send none.                                           *)
LEMMA UpdatesHarmless ==
    ASSUME BooksTheory!IInv, NoGarbage, NEW i \in Instruments, NEW n, n # 0,
           NEW o \in Books!UpdateOutcomes(i, n, n)
    PROVE  Harmless(o)
<1> DEFINE m == [sn |-> n, prev |-> Books!LastSequenceNumber(i, n - 1), content |-> n]
<1>1. o \in Books!Sequencer!OnUpdate(sequencer[i], m)
  BY DEF Books!UpdateOutcomes
<1>2. m.content # Books!Garbage
  BY DEF Books!Garbage
<1>3. Pristine(sequencer[i])
  BY DEF NoGarbage, HasGarbage, Pristine
<1> HIDE DEF m
<1> QED
  BY <1>1, <1>2, <1>3, BookTypes, UpdateHarmless

LEMMA SnapshotsHarmless ==
    ASSUME NoGarbage, NEW i \in Instruments, NEW n,
           NEW o \in Books!SnapshotOutcomes(i, n, Books!Published(i, n))
    PROVE  Harmless(o)
<1>1. o \in Books!Sequencer!OnSnapshot(sequencer[i], Books!LastSequenceNumber(i, n),
                                       Books!Published(i, n))
  BY DEF Books!SnapshotOutcomes
<1>2. Books!Garbage \notin Books!Published(i, n)
  BY DEF Books!Garbage, Books!Published, Books!Chain
<1>3. Pristine(sequencer[i])
  BY DEF NoGarbage, HasGarbage, Pristine
<1> QED
  BY <1>1, <1>2, <1>3, SnapshotHarmless

LEMMA SnapshotKeepsPristine ==
    ASSUME BooksTheory!IInv, NoGarbage, NEW i \in Instruments, NEW n, NEW incremental,
           Books!SnapshotUpdate(i, n, incremental) \/ Books!SnapshotRaises(i, n, incremental)
    PROVE  NoGarbage'
<1>1. \/ Books!NoBook
      \/ Books!Handle(i, Books!SnapshotOutcomes(i, n, Books!Published(i, n)))
      \/ Books!HandleRaising(i, Books!SnapshotOutcomes(i, n, Books!Published(i, n)))
  BY DEF Books!SnapshotUpdate, Books!SnapshotRaises
<1> QED
  BY <1>1, SnapshotsHarmless, HandledHarmless, NothingHandled

LEMMA UpdateKeepsPristine ==
    ASSUME Joined, BooksTheory!IInv, NoGarbage, NEW n \in 1 .. Len(stream),
           Books!Update(n) \/ Books!UpdateRaises(n)
    PROVE  NoGarbage'
<1> DEFINE i == script[n].instrument
<1>1. n # 0 /\ script[n] \in Books!Message
  BY ScriptFacts DEF Joined
<1>2. script[n].update_type \in {"SNAPSHOT", "INCREMENTAL"} => i \in Instruments
  <2>1. Books!Other.update_type = "OTHER"
    BY DEF Books!Other
  <2>2. \A m \in Books!Message :
            m.update_type \in {"SNAPSHOT", "INCREMENTAL"} => m.instrument \in Instruments
    <3> HIDE DEF Books!Other
    <3> QED
      BY <2>1 DEF Books!Message
  <2> QED
    BY <1>1, <2>2
<1>3. \/ Books!NoBook
      \/ /\ i \in Instruments
         /\ Books!SnapshotUpdate(i, n, TRUE) \/ Books!SnapshotRaises(i, n, TRUE)
      \/ /\ i \in Instruments
         /\ \/ Books!Handle(i, Books!UpdateOutcomes(i, n, n))
            \/ Books!HandleRaising(i, Books!UpdateOutcomes(i, n, n))
  BY <1>2 DEF Books!Update, Books!UpdateRaises, Books!Ignored
<1> HIDE DEF i
<1> QED
  BY <1>1, <1>3, SnapshotKeepsPristine, UpdatesHarmless, HandledHarmless, NothingHandled

-----------------------------------------------------------------------------
(* Nothing torn comes from a decoder that is given whole messages only.    *)
Safe == intact \/ ReceiverTheory!Unfragmented

Clean == Safe => NoGarbage

LEMMA SafeMeansWhole ==
    ASSUME Joined, Joined', ReceiverTheory!UnfragmentedInvariant', Safe',
           NEW b, Parsed(b), stream' = stream
    PROVE  Channel!Whole(stream, b)
<1>1. /\ Len(decoded') \in 1 .. Len(decoded')
      /\ decoded'[Len(decoded')].buffer = b
  <2>1. /\ Len(decoded') = Len(decoded) + 1 /\ Len(decoded) \in Nat
        /\ decoded'[Len(decoded')] = [buffer |-> b, header |-> Position]
    BY DecodedAppended
  <2> QED
    BY <2>1
<1>2. \A k \in 1 .. Len(decoded') : ReceiverTheory!Whole(stream', decoded'[k].buffer)
  <2>1. CASE intact'
    BY <2>1 DEF Joined, ReceiverTheory!IInv, ReceiverTheory!WholeUntilLoss, ReceiverTheory!Whole
  <2>2. CASE ReceiverTheory!Unfragmented'
    BY <2>2 DEF ReceiverTheory!UnfragmentedInvariant, ReceiverTheory!UnfragmentedSurvivesLoss,
                ReceiverTheory!Unfragmented, ReceiverTheory!Whole
  <2> QED
    BY <2>1, <2>2 DEF Safe
<1> QED
  BY <1>1, <1>2, SameChannelFacts

LEMMA CleanKeeps ==
    ASSUME Joined, Joined', BooksTheory!IInv, ReceiverTheory!UnfragmentedInvariant',
           Clean, [Next]_vars
    PROVE  Clean'
<1> SUFFICES ASSUME Safe' PROVE NoGarbage'
  BY DEF Clean
<1>1. CASE UNCHANGED vars
  BY <1>1 DEF vars, receiverVars, Clean, Safe, NoGarbage, HasGarbage, Books!Torn,
      Books!Garbage, ReceiverTheory!Unfragmented, ReceiverTheory!Positions
<1>2. CASE Received \/ ReceivedDisturbed
  <2>1. Channel!Next /\ stream' = stream
    BY <1>2, ChannelStep DEF Received, ReceivedDisturbed
  <2>2. NoGarbage
    <3>1. Safe
      BY <2>1, StaysIntact DEF Safe, ReceiverTheory!Unfragmented, ReceiverTheory!Positions
    <3> QED
      BY <3>1 DEF Clean
  <2>3. CASE ~\E b : Parsed(b)
    <3>1. decoded' = decoded
      BY <2>1, <2>3, ChannelStep DEF Unnoticed, Jumped
    <3>2. Books!NoBook
      BY <1>2, <3>1 DEF Received, ReceivedDisturbed
    <3> QED
      BY <2>2, <3>2, NothingHandled
  <2>4. ASSUME NEW b, Parsed(b) PROVE NoGarbage'
    <3>1. PICK n : /\ n \in 1 .. Len(stream)
                   /\ \/ Callback([buffer |-> b, header |-> n])
                      \/ CallbackDisturbed([buffer |-> b, header |-> n])
      BY <1>2, <2>4, DecodedAppended DEF Parsed, Received, ReceivedDisturbed
    <3>2. Channel!Whole(stream, b)
      BY <2>1, <2>4, SafeMeansWhole DEF Parsed
    <3>3. Books!Update(n) \/ Books!UpdateRaises(n)
      BY <3>1, <3>2 DEF Callback, CallbackDisturbed, Whole
    <3> QED
      BY <2>2, <3>1, <3>3, UpdateKeepsPristine
  <2> QED
    BY <2>3, <2>4
<1>3. CASE SnapshotReceived \/ SnapshotDisturbed
  <2>1. PICK i \in Instruments, n \in 0 .. Len(script) :
            /\ Snapshot(n)
            /\ Books!SnapshotUpdate(i, n, FALSE) \/ Books!SnapshotRaises(i, n, FALSE)
    BY <1>3 DEF SnapshotReceived, SnapshotDisturbed
  <2>2. intact' = intact /\ stream' = stream
    BY <2>1 DEF Snapshot, receiverVars
  <2>3. NoGarbage
    BY <2>2 DEF Safe, ReceiverTheory!Unfragmented, ReceiverTheory!Positions, Clean
  <2> QED
    BY <2>1, <2>3, SnapshotKeepsPristine
<1> QED
  BY <1>1, <1>2, <1>3 DEF Next

LEMMA UnfragmentedKeeps ==
    ASSUME Joined, Joined', ReceiverTheory!UnfragmentedInvariant, [Next]_vars
    PROVE  ReceiverTheory!UnfragmentedInvariant'
<1>1. [Channel!Next]_(Channel!vars)
  BY DEF Next, Received, ReceivedDisturbed, SnapshotReceived, SnapshotDisturbed, Snapshot,
         vars, receiverVars, Channel!vars
<1> QED
  BY <1>1, SameChannelStep, StreamsAssumed, ReceiverTheory!UnfragmentedStep DEF Joined

(* No torn message gets to a book, nor among the updates that wait for a   *)
(* snapshot, before the receiver has lost something or a handler has       *)
(* raised, and none ever does when each message has a datagram of its own, *)
(* whatever is lost and raised: for every publication and every network.   *)
THEOREM TornByFailureOnly == Spec => []GarbageNeedsFailureAndFragments
<1> DEFINE Inv == /\ Joined /\ BooksTheory!IInv
                  /\ ReceiverTheory!UnfragmentedInvariant /\ Clean
<1>1. Init => Inv
  <2> SUFFICES ASSUME Init PROVE ReceiverTheory!UnfragmentedInvariant /\ Clean
    BY Beginning, BooksBeginning
  <2>1. ReceiverTheory!UnfragmentedInvariant
    BY DEF Init, Channel!Init, ReceiverTheory!UnfragmentedInvariant,
           ReceiverTheory!UnfragmentedSurvivesLoss
  <2>2. NoGarbage
    BY DEF Init, NoGarbage, HasGarbage, Books!Torn, Books!Sequencer!Fresh
  <2> QED
    BY <2>1, <2>2 DEF Clean
<1>2. Inv /\ [Next]_vars => Inv'
  BY JoinedStep, BooksStep, UnfragmentedKeeps, CleanKeeps
<1>3. Inv => GarbageNeedsFailureAndFragments
  <2> SUFFICES ASSUME Inv, NEW i \in Instruments, HasGarbage(i)
               PROVE  ~intact /\ \E n \in 1 .. Len(stream) : stream[n].max > 0
    BY DEF GarbageNeedsFailureAndFragments
  <2>1. ~intact /\ ~ReceiverTheory!Unfragmented
    BY DEF Clean, Safe, NoGarbage
  <2>2. PICK n \in 1 .. Len(stream) : stream[n].max # 0
    BY <2>1 DEF ReceiverTheory!Unfragmented, ReceiverTheory!Positions
  <2>3. stream[n] \in [frag : Nat, max : Nat]
    <3>1. stream \in Seq([frag : Nat, max : Nat])
      BY ScriptFacts DEF Joined
    <3> QED
      BY <3>1, ElementOfSeq
  <2> QED
    BY <2>1, <2>2, <2>3
<1> QED
  BY <1>1, <1>2, <1>3, PTL DEF Spec
=============================================================================
