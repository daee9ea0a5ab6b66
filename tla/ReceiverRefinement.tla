------------------------- MODULE ReceiverRefinement -------------------------
(***************************************************************************)
(* The receiver implements MessageFeed, and loses nothing but the lost     *)
(* datagrams when messages are not fragmented.                             *)
(***************************************************************************)
EXTENDS ReceiverProofs

(* The datagram at which the last message handed over ended.               *)
LastDelivered == IF decoded = <<>> THEN 0 ELSE decoded[Len(decoded)].header

(* Until a loss, what is being assembled, or comes next, follows directly  *)
(* on the last message handed over.                                        *)
Chain ==
    (intact /\ decoded # <<>>) =>
        /\ LastDelivered \in Positions /\ IsLast(LastDelivered)
        /\ LastDelivered + 1 =
              IF decode_buffer = <<>> THEN reorder_buffer.next ELSE decode_buffer[1]

-----------------------------------------------------------------------------
(* A call of the decoder that succeeds delivers the message first .. n.    *)
LEMMA DeliverStep ==
    ASSUME IInv, Chain, NEW n \in Positions, NEW first \in Positions, NEW b,
           first <= n, stream[first].frag = 0, IsLast(n), stream[n].max = n - first,
           first = IF decode_buffer = <<>> THEN reorder_buffer.next ELSE decode_buffer[1],
           decoded' = Append(decoded, [buffer |-> b, header |-> n]),
           b \in Seq(Positions),
           intact, UNCHANGED <<stream, intact>>, decode_buffer' = <<>>,
           reorder_buffer'.next = n + 1
    PROVE  Feed!Deliver /\ Chain'
<1>1. decoded \in Seq(Call) /\ [buffer |-> b, header |-> n] \in Call
  BY DEF IInv, TypeOK, Call
<1>2. decoded' # <<>> /\ decoded'[Len(decoded')] = [buffer |-> b, header |-> n]
  BY <1>1, AppendProperties
<1>3. LastDelivered' = n
  BY <1>2 DEF LastDelivered
<1>4. /\ n \in Nat \ {0} /\ first \in Nat \ {0} /\ n <= Len(stream)
      /\ n \in 1 .. Len(stream) /\ first \in 1 .. n
  <2>1. TypeOK
    BY DEF IInv
  <2>2. n \in Nat \ {0} /\ first \in Nat \ {0} /\ n <= Len(stream)
    BY <2>1, PositionFacts
  <2>3. n \in 1 .. Len(stream)
    BY DEF Positions
  <2> QED
    BY <2>2, <2>3
<1>5. LastDelivered \in {0, first - 1}
  <2>1. CASE decoded = <<>>
    BY <2>1 DEF LastDelivered
  <2>2. CASE decoded # <<>>
    <3>1. LastDelivered \in Positions /\ LastDelivered + 1 = first
      BY <2>2 DEF Chain
    <3>2. LastDelivered \in Nat
      BY <3>1, PositionFacts DEF IInv
    <3>3. LastDelivered = first - 1
      BY <3>1, <3>2, <1>4
    <3> QED
      BY <3>3
  <2> QED
    BY <2>1, <2>2
<1>6. Feed!IsMessage(stream, first, n)
  BY <1>4 DEF Feed!IsMessage, IsLast
<1>7. Feed!Deliver
  BY <1>3, <1>4, <1>5, <1>6 DEF Feed!Deliver, LastDelivered
<1>8. Chain'
  BY <1>3, <1>2 DEF Chain, IsLast, Positions
<1> QED
  BY <1>7, <1>8

(* Any step that calls no decoder stutters if Chain is kept.               *)
LEMMA ParseChain ==
    ASSUME IInv, Chain, NEW n \in Positions, intact'
           , \/ ParseLastFragment(n) \/ ParseUnfragmented(n) \/ ParseFirstFragment(n)
             \/ ParseMiddleFragment(n) \/ ParseRejoining(n)
    PROVE  Chain' /\ (Feed!Deliver \/ UNCHANGED Feed!feedVars)
<1>1. Parse(n)
  BY DEF ParseLastFragment, ParseUnfragmented, ParseFirstFragment, ParseMiddleFragment,
         ParseRejoining
<1>2. n = reorder_buffer.next /\ stream' = stream /\ reorder_buffer'.next = n + 1
  BY <1>1, ParseMoves
<1>3. n \in Nat \ {0} /\ n <= Len(stream)
  BY PositionFacts DEF IInv
<1>4. ~Raise("callback") /\ ~Raise("length") /\ ~Raise("not empty")
  BY DEF Raise
<1>5. CASE ParseLastFragment(n)
  <2> DEFINE b == Assembled(n)
  <2>1. decode_buffer # <<>> /\ IsLast(n)
    BY <1>5 DEF ParseLastFragment
  <2>2. /\ b \in Seq(Positions) /\ b # <<>> /\ b[Len(b)] = n /\ Len(b) \in Nat
        /\ stream[b[1]].frag = 0
        /\ intact => /\ n + 1 = b[1] + Len(b)
                     /\ stream[n].frag = Len(b) - 1
    BY <1>1, <2>1, AssembledFacts
  <2>3. /\ decoded' = Append(decoded, [buffer |-> b, header |-> n])
        /\ decode_buffer' = <<>> /\ NoRaise
    BY <1>4, <1>5 DEF ParseLastFragment, DecoderDispatch, Assembled
  <2>4. intact /\ intact' = intact
    BY <2>3 DEF NoRaise
  <2>5. b[1] = decode_buffer[1]
    <3>1. decode_buffer \in Seq(Positions) /\ Len(decode_buffer) \in Nat \ {0}
      BY <2>1, EmptySeq DEF IInv, TypeOK
    <3>2. 1 \in 1 .. Len(decode_buffer)
      BY <3>1
    <3> QED
      BY <3>1, <3>2, AppendProperties DEF Assembled
  <2> HIDE DEF b
  <2>6. Len(b) \in Nat \ {0} /\ 1 \in 1 .. Len(b)
    BY <2>2, EmptySeq
  <2>7. b[1] \in Positions
    BY <2>2, <2>6, ElementOfSeq
  <2>8. b[1] \in Nat /\ b[1] <= n /\ Len(b) - 1 = n - b[1]
    <3>1. b[1] \in Nat
      BY <2>7, PositionFacts DEF IInv
    <3>2. n + 1 = b[1] + Len(b)
      BY <2>2, <2>4
    <3> QED
      BY <3>1, <3>2, <2>6, <1>3
  <2>9. stream[n].max = n - b[1]
    BY <2>1, <2>2, <2>4, <2>8 DEF IsLast
  <2> QED
    BY <1>2, <2>1, <2>2, <2>3, <2>4, <2>5, <2>7, <2>8, <2>9, DeliverStep
<1>6. CASE ParseUnfragmented(n)
  <2>1. /\ decode_buffer = <<>> /\ decode_buffer' = <<>> /\ IsLast(n) /\ IsFirst(n)
        /\ decoded' = Append(decoded, [buffer |-> <<n>>, header |-> n]) /\ NoRaise
    BY <1>4, <1>6 DEF ParseUnfragmented, DecoderDispatch
  <2>2. intact /\ intact' = intact
    BY <2>1 DEF NoRaise
  <2>3. stream[n].max = n - n /\ n <= n /\ stream[n].frag = 0
    BY <2>1, <1>3 DEF IsFirst, IsLast
  <2>4. <<n>> \in Seq(Positions)
    OBVIOUS
  <2> QED
    BY <1>2, <2>1, <2>2, <2>3, <2>4, DeliverStep
<1>7. CASE ParseFirstFragment(n)
  <2>1. decode_buffer = <<>> /\ decode_buffer' = <<n>> /\ NoRaise /\ decoded' = decoded
    BY <1>4, <1>7 DEF ParseFirstFragment
  <2>2. intact /\ intact' = intact
    BY <2>1 DEF NoRaise
  <2>3. Chain'
    BY <1>2, <2>1, <2>2 DEF Chain, LastDelivered, IsLast, Positions
  <2> QED
    BY <1>2, <2>1, <2>2, <2>3 DEF Feed!feedVars
<1>8. CASE ParseMiddleFragment(n)
  <2>1. decode_buffer # <<>> /\ decode_buffer' = Assembled(n) /\ NoRaise /\ decoded' = decoded
    BY <1>8 DEF ParseMiddleFragment, Assembled
  <2>2. intact /\ intact' = intact
    BY <2>1 DEF NoRaise
  <2>3. decode_buffer' # <<>> /\ decode_buffer'[1] = decode_buffer[1]
    <3>1. decode_buffer \in Seq(Positions) /\ Len(decode_buffer) \in Nat \ {0}
      BY <2>1, EmptySeq DEF IInv, TypeOK
    <3>2. 1 \in 1 .. Len(decode_buffer)
      BY <3>1
    <3> QED
      BY <2>1, <3>1, <3>2, AppendProperties DEF Assembled
  <2>4. Chain'
    BY <1>2, <2>1, <2>2, <2>3 DEF Chain, LastDelivered, IsLast, Positions
  <2> QED
    BY <1>2, <2>1, <2>2, <2>4 DEF Feed!feedVars
<1>9. CASE ParseRejoining(n)
  <2>1. decode_buffer = <<>> /\ ~IsFirst(n) /\ NoRaise /\ decoded' = decoded
    BY <1>9 DEF ParseRejoining
  <2>2. intact /\ intact' = intact
    BY <2>1 DEF NoRaise
  <2>3. decoded = <<>>
    <3> SUFFICES ASSUME decoded # <<>> PROVE FALSE
      OBVIOUS
    <3> DEFINE e == LastDelivered
    <3>1. e \in Positions /\ IsLast(e) /\ e + 1 = n
      BY <2>1, <2>2, <1>2 DEF Chain
    <3> HIDE DEF e
    <3>2. e \in Nat \ {0} /\ n > 1 /\ n - 1 = e /\ n \in 1 .. Len(stream)
      BY <3>1, <1>3, PositionFacts, StreamType DEF IInv
    <3>3. stream[n].frag = 0
      BY <3>1, <3>2, StreamType DEF WellFormed, IsLast, IInv
    <3> QED
      BY <2>1, <3>3 DEF IsFirst
  <2> QED
    BY <1>2, <2>1, <2>2, <2>3 DEF Chain, Feed!feedVars
<1> QED
  BY <1>5, <1>6, <1>7, <1>8, <1>9

LEMMA OutsideChain ==
    ASSUME IInv, Chain, intact', DatagramReceived \/ Reset \/ Return \/ UNCHANGED vars
    PROVE  Chain' /\ UNCHANGED Feed!feedVars
<1>1. ~Reset
  BY DEF Reset
<1>2. UNCHANGED <<stream, decode_buffer, header, decoded, errors, intact>>
  BY <1>1 DEF DatagramReceived, Return, vars
<1>3. intact /\ UNCHANGED Feed!feedVars
  BY <1>2 DEF Feed!feedVars
<1>4. reorder_buffer'.next = reorder_buffer.next \/ reorder_buffer.next = 0
  <2>1. CASE DatagramReceived
    <3>1. PICK n \in 1 .. Len(stream) : reorder_buffer' = Reorder!Insert(reorder_buffer, n)
      BY <2>1 DEF DatagramReceived
    <3>2. CASE n < reorder_buffer.next
      BY <3>1, <3>2 DEF Reorder!Insert
    <3>3. CASE ~(n < reorder_buffer.next) /\ reorder_buffer.next # 0
      <4>1. reorder_buffer' = [reorder_buffer EXCEPT !.held = @ \cup {n}]
        BY <3>1, <3>3 DEF Reorder!Insert
      <4>2. reorder_buffer \in [next : Nat, held : SUBSET (Nat \ {0})]
        BY DEF IInv, TypeOK, Reorder!Buffer
      <4> QED
        BY <4>1, <4>2
    <3> QED
      BY <3>2, <3>3, <3>1 DEF Reorder!Insert
  <2>2. CASE Return \/ UNCHANGED vars
    BY <2>2 DEF Return, vars
  <2> QED
    BY <1>1, <2>1, <2>2
<1>5. reorder_buffer.next = 0 => decoded = <<>>
  <2> SUFFICES ASSUME reorder_buffer.next = 0, decoded # <<>> PROVE FALSE
    OBVIOUS
  <2> DEFINE e == LastDelivered
  <2>1. e \in Positions
    BY <1>3 DEF Chain
  <2>2. e \in Nat \ {0} /\ e + 1 # 0
    BY <2>1, PositionFacts DEF IInv
  <2>3. CASE decode_buffer = <<>>
    BY <2>2, <2>3, <1>3 DEF Chain
  <2>4. CASE decode_buffer # <<>>
    <3>1. decode_buffer \in Seq(Positions)
      BY DEF IInv, TypeOK
    <3>2. 1 \in 1 .. Len(decode_buffer)
      BY <2>4, <3>1, EmptySeq
    <3>3. decode_buffer[1] \in Nat
      BY <3>1, <3>2, ElementOfSeq, PositionFacts DEF IInv
    <3> QED
      BY <3>2, <3>3 DEF IInv, BufferOrdered
  <2> QED
    BY <2>3, <2>4
<1>6. Chain'
  BY <1>2, <1>3, <1>4, <1>5 DEF Chain, LastDelivered, IsLast, Positions
<1> QED
  BY <1>3, <1>6

(* The stream never changes.                                               *)
LEMMA StreamFixed == [Next]_vars => stream' = stream
  BY DEF Next, vars, DatagramReceived, Reset, Return, ParseLastFragment, ParseUnfragmented,
         ParseFirstFragment, ParseMiddleFragment, ParseRejoining, Parse

LEMMA FeedStep ==
    ASSUME IInv, IInv', Chain, [Next]_vars
    PROVE  Chain' /\ [Feed!Deliver \/ Feed!Break]_Feed!feedVars
<1>1. CASE intact'
  BY <1>1, ParseChain, OutsideChain DEF Next, Positions
<1>2. CASE ~intact'
  <2>1. intact' = FALSE
    BY <1>2 DEF IInv, TypeOK
  <2> QED
    BY <2>1, StreamFixed DEF Chain, Feed!Break
<1> QED
  BY <1>1, <1>2

(* The receiver implements MessageFeed: every message from the joining on, *)
(* whole, in order, exactly once, until a loss is reported or a handler    *)
(* fails.                                                                  *)
THEOREM ImplementsFeed == Spec => FeedSpec
<1>1. Init => Feed!FeedInit /\ Chain
  BY DEF Init, Feed!FeedInit, Chain
<1>2. IInv /\ IInv' /\ Chain /\ [Next]_vars
          => Chain' /\ [Feed!Deliver \/ Feed!Break]_Feed!feedVars
  BY FeedStep
<1> QED
  BY <1>1, <1>2, Invariance, PTL DEF Spec, FeedSpec, Feed!FeedSpec

-----------------------------------------------------------------------------
(* Without fragments nothing is ever assembled, and the decoder's calls    *)
(* stay behind the re-order buffer's position.                             *)
Unfragmented == \A i \in Positions : stream[i].max = 0

UnfragmentedInvariant ==
    Unfragmented =>
        /\ decode_buffer = <<>>
        /\ \A k \in 1 .. Len(decoded) : decoded[k].header < reorder_buffer.next
        /\ UnfragmentedSurvivesLoss

LEMMA UnfragmentedDatagram ==
    ASSUME IInv, Unfragmented, NEW n \in Positions
    PROVE  IsFirst(n) /\ IsLast(n) /\ Whole(stream, <<n>>)
<1>1. stream[n].max = 0 /\ stream[n].frag \in Nat /\ stream[n].frag <= stream[n].max
  BY StreamType DEF Unfragmented, IInv, WellFormed, Positions
<1>2. stream[n].frag = 0 /\ n \in Nat
  BY <1>1, PositionFacts DEF IInv
<1> QED
  BY <1>1, <1>2 DEF IsFirst, IsLast, Whole

LEMMA HeaderType ==
    ASSUME IInv, NEW k \in 1 .. Len(decoded)
    PROVE  decoded[k].header \in Nat
<1>1. decoded[k] \in Call
  BY ElementOfSeq DEF IInv, TypeOK
<1> QED
  BY <1>1, PositionFacts DEF Call, IInv

LEMMA UnfragmentedStep ==
    ASSUME IInv, IInv', UnfragmentedInvariant, [Next]_vars
    PROVE  UnfragmentedInvariant'
<1> SUFFICES ASSUME Unfragmented'
             PROVE  /\ decode_buffer' = <<>>
                    /\ \A k \in 1 .. Len(decoded') : decoded'[k].header < reorder_buffer'.next
                    /\ errors' \subseteq {"callback"}
                    /\ \A k \in 1 .. Len(decoded') :
                          Whole(stream', decoded'[k].buffer)
                          /\ (k > 1 => decoded'[k - 1].header < decoded'[k].header)
  BY DEF UnfragmentedInvariant, UnfragmentedSurvivesLoss, Unfragmented, Whole
<1>1. stream' = stream /\ Unfragmented
  BY StreamFixed DEF Unfragmented, Positions
<1>2. /\ decode_buffer = <<>> /\ errors \subseteq {"callback"}
      /\ \A k \in 1 .. Len(decoded) :
            /\ decoded[k].header < reorder_buffer.next
            /\ Whole(stream, decoded[k].buffer)
            /\ k > 1 => decoded[k - 1].header < decoded[k].header
  BY <1>1 DEF UnfragmentedInvariant, UnfragmentedSurvivesLoss, Unfragmented
<1>3. CASE DatagramReceived \/ Reset \/ Return \/ UNCHANGED vars
  <2>1. UNCHANGED <<decode_buffer, decoded, errors>>
    BY <1>3 DEF DatagramReceived, Reset, Return, vars
  <2>2. /\ reorder_buffer.next \in Nat /\ reorder_buffer'.next \in Nat
        /\ reorder_buffer.next <= reorder_buffer'.next
    <3>1. /\ reorder_buffer \in Reorder!Buffer /\ reorder_buffer.held \subseteq Positions
          /\ HeldAhead
      BY DEF IInv, TypeOK
    <3>2. reorder_buffer.next \in Nat /\ reorder_buffer'.next \in Nat
      BY DEF IInv, TypeOK, Reorder!Buffer
    <3>3. CASE DatagramReceived
      <4>1. PICK n \in Positions : reorder_buffer' = Reorder!Insert(reorder_buffer, n)
        BY <3>3 DEF DatagramReceived, Positions
      <4>2. n \in Nat
        BY PositionFacts DEF IInv
      <4> QED
        BY <3>1, <3>2, <4>1, <4>2 DEF Reorder!Insert, Reorder!Buffer
    <3>4. CASE Reset
      BY <3>1, <3>2, <3>4 DEF Reset, HeldAhead, Reorder!SkipTo, Reorder!Buffer
    <3>5. CASE Return \/ UNCHANGED vars
      BY <3>2, <3>5 DEF Return, vars
    <3> QED
      BY <1>3, <3>3, <3>4, <3>5, <3>2
  <2>3. \A k \in 1 .. Len(decoded) : decoded[k].header < reorder_buffer'.next
    BY <1>2, <2>2, HeaderType
  <2> QED
    BY <1>1, <1>2, <2>1, <2>3
<1>4. ASSUME NEW n \in Positions,
             \/ ParseLastFragment(n) \/ ParseUnfragmented(n) \/ ParseFirstFragment(n)
             \/ ParseMiddleFragment(n) \/ ParseRejoining(n)
      PROVE  /\ decode_buffer' = <<>>
             /\ \A k \in 1 .. Len(decoded') : decoded'[k].header < reorder_buffer'.next
             /\ errors' \subseteq {"callback"}
             /\ \A k \in 1 .. Len(decoded') :
                   Whole(stream', decoded'[k].buffer)
                   /\ (k > 1 => decoded'[k - 1].header < decoded'[k].header)
  <2>1. IsFirst(n) /\ IsLast(n) /\ Whole(stream, <<n>>)
    BY <1>1, UnfragmentedDatagram
  <2>2. ParseUnfragmented(n)
    BY <1>2, <1>4, <2>1 DEF ParseLastFragment, ParseFirstFragment, ParseMiddleFragment,
       ParseRejoining
  <2>3. Parse(n) /\ decode_buffer' = <<>>
    BY <2>2 DEF ParseUnfragmented
  <2>4. n = reorder_buffer.next /\ reorder_buffer'.next = n + 1 /\ n \in Nat
    BY <2>3, ParseMoves, PositionFacts DEF IInv
  <2>5. decoded' = Append(decoded, [buffer |-> <<n>>, header |-> n])
    BY <2>2 DEF ParseUnfragmented, DecoderDispatch
  <2>6. errors' \subseteq {"callback"}
    <3>1. NoRaise \/ Raise("callback")
      BY <2>1, <2>2 DEF ParseUnfragmented, DecoderDispatch
    <3> QED
      BY <3>1, <1>2 DEF NoRaise, Raise
  <2>7. /\ Len(decoded) \in Nat /\ Len(decoded') = Len(decoded) + 1
        /\ \A k \in 1 .. Len(decoded) : decoded'[k] = decoded[k]
        /\ decoded'[Len(decoded) + 1] = [buffer |-> <<n>>, header |-> n]
    <3>1. decoded \in Seq(Call) /\ [buffer |-> <<n>>, header |-> n] \in Call
      <4>1. decoded \in Seq(Call)
        BY DEF IInv, TypeOK
      <4>2. <<n>> \in Seq(Positions)
        OBVIOUS
      <4>3. [buffer |-> <<n>>, header |-> n] \in Call
        BY <4>2 DEF Call
      <4> QED
        BY <4>1, <4>3
    <3> QED
      BY <3>1, <2>5, AppendProperties, LenProperties
  <2>8. ASSUME NEW k \in 1 .. Len(decoded')
        PROVE  /\ decoded'[k].header < reorder_buffer'.next
               /\ Whole(stream', decoded'[k].buffer)
               /\ k > 1 => decoded'[k - 1].header < decoded'[k].header
    <3>1. CASE k \in 1 .. Len(decoded)
      <4>1. decoded[k].header \in Nat /\ decoded[k].header < n
        BY <3>1, <1>2, <2>4, HeaderType
      <4>2. decoded[k].header < n + 1
        BY <4>1, <2>4
      <4>3. k > 1 => k - 1 \in 1 .. Len(decoded)
        BY <3>1, <2>7
      <4> QED
        BY <3>1, <4>2, <4>3, <1>1, <1>2, <2>4, <2>7
    <3>2. CASE k = Len(decoded) + 1
      <4>1. decoded'[k].header = n /\ decoded'[k].buffer = <<n>>
        BY <3>2, <2>7
      <4>2. n < reorder_buffer'.next
        BY <2>4
      <4>3. ASSUME k > 1 PROVE decoded'[k - 1].header < n
        <5>1. k - 1 \in 1 .. Len(decoded)
          BY <3>2, <4>3, <2>7
        <5> QED
          BY <5>1, <1>2, <2>4, <2>7
      <4> QED
        BY <4>1, <4>2, <4>3, <1>1, <2>1
    <3>3. k \in 1 .. Len(decoded) \/ k = Len(decoded) + 1
      BY <2>7
    <3> QED
      BY <3>1, <3>2, <3>3
  <2> QED
    BY <2>3, <2>6, <2>8
<1> QED
  BY <1>3, <1>4 DEF Next, Positions

(* When every message fits in one datagram, a lost datagram costs its      *)
(* message and nothing else, whatever the network and the callback do.     *)
THEOREM UnfragmentedIsRobust == Spec => []UnfragmentedSurvivesLoss
<1>1. Init => UnfragmentedInvariant
  BY DEF Init, UnfragmentedInvariant, UnfragmentedSurvivesLoss
<1>2. IInv /\ IInv' /\ UnfragmentedInvariant /\ [Next]_vars => UnfragmentedInvariant'
  BY UnfragmentedStep
<1>3. UnfragmentedInvariant => UnfragmentedSurvivesLoss
  BY DEF UnfragmentedInvariant, UnfragmentedSurvivesLoss, Unfragmented
<1> QED
  BY <1>1, <1>2, <1>3, Invariance, PTL DEF Spec
=============================================================================
