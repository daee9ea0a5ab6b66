--------------------------- MODULE ReceiverProofs ---------------------------
(***************************************************************************)
(* What the receiver guarantees for every stream, every depth of the       *)
(* re-order buffer and every behaviour of the network.  The inductive      *)
(* invariant relates decode_buffer, the re-order buffer's position and the *)
(* stream: module Receiver's invariants speak of the decoder's calls only  *)
(* and say nothing of the buffers these will be made from.                 *)
(***************************************************************************)
EXTENDS Receiver, TLAPS, SequenceTheorems

(* The re-order buffer holds back nothing that it has passed.              *)
HeldAhead == \A m \in reorder_buffer.held : reorder_buffer.next <= m

(* What is being assembled starts with a first fragment and is in order,   *)
(* even after a loss.                                                      *)
BufferOrdered ==
    /\ \A j \in 1 .. Len(decode_buffer) : decode_buffer[j] < reorder_buffer.next
    /\ decode_buffer # <<>> => stream[decode_buffer[1]].frag = 0
    /\ \A i, j \in 1 .. Len(decode_buffer) : i < j => decode_buffer[i] < decode_buffer[j]

(* Until a loss it is the first fragments of a message, up to the last     *)
(* datagram parsed, and more are to come.                                  *)
BufferContiguous ==
    (intact /\ decode_buffer # <<>>) =>
        /\ \A j \in 1 .. Len(decode_buffer) : decode_buffer[j] = decode_buffer[1] + j - 1
        /\ reorder_buffer.next = decode_buffer[1] + Len(decode_buffer)
        /\ stream[decode_buffer[Len(decode_buffer)]].frag = Len(decode_buffer) - 1
        /\ ~IsLast(decode_buffer[Len(decode_buffer)])

IInv ==
    /\ TypeOK
    /\ HeldAhead
    /\ BufferOrdered
    /\ BufferContiguous
    /\ WholeUntilLoss
    /\ NeverFromTheMiddle

-----------------------------------------------------------------------------
(* What is known of the stream throughout.                                 *)
LEMMA StreamType ==
    ASSUME TypeOK
    PROVE  /\ stream \in Seq([frag : Nat, max : Nat])
           /\ Len(stream) \in Nat
           /\ \A i \in Positions : stream[i].frag \in Nat /\ stream[i].max \in Nat
           /\ WellFormed(stream)
<1>1. stream \in Seq([frag : Nat, max : Nat]) /\ WellFormed(stream)
  BY ReceiverAssumption DEF TypeOK
<1>2. \A i \in Positions : stream[i] \in [frag : Nat, max : Nat]
  BY <1>1, ElementOfSeq DEF Positions
<1>3. Len(stream) \in Nat
  BY <1>1, LenProperties
<1> QED
  BY <1>1, <1>2, <1>3

LEMMA PositionFacts ==
    ASSUME TypeOK, NEW n \in Positions
    PROVE  /\ n \in Nat \ {0} /\ n <= Len(stream) 
           /\ n \in 0 .. Len(stream) /\ n + 1 \in 0 .. Len(stream) + 1
  BY StreamType DEF Positions

(* In the middle of a message the next datagram continues it.              *)
LEMMA NextFragment ==
    ASSUME TypeOK, NEW n \in Positions, n - 1 \in Positions, ~IsLast(n - 1)
    PROVE  stream[n].frag = stream[n - 1].frag + 1 /\ stream[n].max = stream[n - 1].max
<1>1. n > 1 /\ n \in 1 .. Len(stream)
  BY StreamType DEF Positions
<1> QED
  BY <1>1, StreamType DEF WellFormed, IsLast

(* Parsing moves the re-order buffer forward by one.                       *)
LEMMA ParseMoves ==
    ASSUME IInv, NEW n \in Positions, Parse(n)
    PROVE  /\ stream' = stream /\ n = reorder_buffer.next
           /\ reorder_buffer' \in Reorder!Buffer
           /\ reorder_buffer'.next = n + 1
           /\ reorder_buffer'.held \subseteq Positions
           /\ HeldAhead'
           /\ header' = n
<1>1. /\ reorder_buffer.next \in Nat
      /\ reorder_buffer.held \subseteq Positions
      /\ \A m \in reorder_buffer.held : m \in Nat \ {0}
  BY StreamType DEF IInv, TypeOK, Positions, Reorder!Buffer
<1>2. reorder_buffer' = [next |-> n + 1, held |-> reorder_buffer.held \ {n}]
  BY DEF Parse, Reorder!Advance
<1>3. n = reorder_buffer.next /\ stream' = stream /\ header' = n
  BY DEF Parse
<1>4. reorder_buffer' \in Reorder!Buffer
  BY <1>1, <1>2, <1>3 DEF Reorder!Buffer
<1>5. HeldAhead'
  BY <1>1, <1>2, <1>3 DEF IInv, HeldAhead
<1> QED
  BY <1>1, <1>2, <1>3, <1>4, <1>5

-----------------------------------------------------------------------------
(* Initially.                                                              *)
LEMMA InitInv == Init => IInv
<1> SUFFICES ASSUME Init PROVE IInv
  OBVIOUS
<1>1. TypeOK
  BY ReceiverAssumption DEF Init, TypeOK, Reorder!Empty, Reorder!Buffer
<1> QED
  BY <1>1 DEF Init, IInv, HeldAhead, BufferOrdered, BufferContiguous, WholeUntilLoss,
       NeverFromTheMiddle, Reorder!Empty

-----------------------------------------------------------------------------
(* What the first, the middle and the last fragment make of the buffer.    *)
Assembled(n) == Append(decode_buffer, n)

LEMMA AssembledFacts ==
    ASSUME IInv, NEW n \in Positions, Parse(n), decode_buffer # <<>>
    PROVE  /\ Assembled(n) \in Seq(Positions) /\ Assembled(n) # <<>>
           /\ Len(Assembled(n)) = Len(decode_buffer) + 1
           /\ Len(Assembled(n)) \in Nat /\ Len(decode_buffer) \in Nat \ {0}
           /\ Assembled(n)[Len(Assembled(n))] = n
           /\ \A j \in 1 .. Len(Assembled(n)) : Assembled(n)[j] < n + 1
           /\ stream[Assembled(n)[1]].frag = 0
           /\ \A i, j \in 1 .. Len(Assembled(n)) : i < j => Assembled(n)[i] < Assembled(n)[j]
           /\ intact =>
                 /\ \A j \in 1 .. Len(Assembled(n)) : Assembled(n)[j] = Assembled(n)[1] + j - 1
                 /\ n + 1 = Assembled(n)[1] + Len(Assembled(n))
                 /\ stream[n].frag = Len(Assembled(n)) - 1
<1> DEFINE b == Assembled(n)
           L == Len(decode_buffer)
<1>1. decode_buffer \in Seq(Positions) /\ L \in Nat \ {0}
  BY EmptySeq DEF IInv, TypeOK
<1>2. /\ b \in Seq(Positions) /\ b # <<>> /\ Len(b) = L + 1
      /\ \A j \in 1 .. L : b[j] = decode_buffer[j]
      /\ b[L + 1] = n
  BY <1>1, AppendProperties DEF Assembled
<1> HIDE DEF b
<1>3. \A j \in 1 .. L : decode_buffer[j] \in Nat \ {0} /\ decode_buffer[j] < n
  <2>1. \A j \in 1 .. L : decode_buffer[j] \in Positions
    BY <1>1, ElementOfSeq
  <2>2. \A j \in 1 .. L : decode_buffer[j] < n
    BY DEF IInv, BufferOrdered, Parse
  <2> QED
    BY <2>1, <2>2, StreamType DEF IInv, Positions
<1>4. n \in Nat \ {0}
  BY StreamType DEF IInv, Positions
<1>5. \A j \in 1 .. Len(b) : b[j] < n + 1
  BY <1>1, <1>2, <1>3, <1>4
<1>6. stream[b[1]].frag = 0
  BY <1>1, <1>2 DEF IInv, BufferOrdered
<1>7. \A i, j \in 1 .. Len(b) : i < j => b[i] < b[j]
  <2> SUFFICES ASSUME NEW i \in 1 .. Len(b), NEW j \in 1 .. Len(b), i < j PROVE b[i] < b[j]
    OBVIOUS
  <2>1. CASE j = L + 1
    BY <2>1, <1>1, <1>2, <1>3
  <2>2. CASE j # L + 1
    BY <2>2, <1>1, <1>2 DEF IInv, BufferOrdered
  <2> QED
    BY <2>1, <2>2
<1>8. ASSUME intact
      PROVE  /\ \A j \in 1 .. Len(b) : b[j] = b[1] + j - 1
             /\ n + 1 = b[1] + Len(b)
             /\ stream[n].frag = Len(b) - 1
  <2>1. /\ \A j \in 1 .. L : decode_buffer[j] = decode_buffer[1] + j - 1
        /\ n = decode_buffer[1] + L
        /\ stream[n - 1].frag = L - 1
        /\ ~IsLast(n - 1)
    <3>1. /\ \A j \in 1 .. L : decode_buffer[j] = decode_buffer[1] + j - 1
          /\ n = decode_buffer[1] + L
          /\ stream[decode_buffer[L]].frag = L - 1
          /\ ~IsLast(decode_buffer[L])
      BY <1>8 DEF IInv, BufferContiguous, Parse
    <3>2. 1 \in 1 .. L /\ L \in 1 .. L /\ decode_buffer[1] \in Nat
      BY <1>1, <1>3
    <3>3. decode_buffer[L] = decode_buffer[1] + L - 1
      BY <3>1, <3>2
    <3>4. decode_buffer[L] = n - 1
      BY <3>1, <3>2, <3>3, <1>1
    <3> QED
      BY <3>1, <3>4
  <2>2. n - 1 \in Positions
    <3>1. 1 \in 1 .. L /\ decode_buffer[1] \in Nat \ {0}
      BY <1>1, <1>3
    <3>2. n - 1 >= 1 /\ n - 1 \in Nat
      BY <2>1, <3>1, <1>1, <1>4
    <3> QED
      BY <3>2, <1>4, StreamType DEF IInv, Positions
  <2>3. stream[n].frag = L
    BY <2>1, <2>2, <1>1, NextFragment DEF IInv
  <2>4. 1 \in 1 .. L /\ b[1] = decode_buffer[1] /\ b[1] \in Nat
    BY <1>1, <1>2, <1>3
  <2>5. \A j \in 1 .. Len(b) : b[j] = b[1] + j - 1
    <3> SUFFICES ASSUME NEW j \in 1 .. Len(b) PROVE b[j] = b[1] + j - 1
      OBVIOUS
    <3>1. CASE j = L + 1
      BY <3>1, <2>1, <2>4, <1>1, <1>2
    <3>2. CASE j # L + 1
      <4>1. j \in 1 .. L
        BY <3>2, <1>1, <1>2
      <4>2. b[j] = decode_buffer[j] /\ decode_buffer[j] = decode_buffer[1] + j - 1
        BY <4>1, <2>1, <1>2
      <4> QED
        BY <4>2, <2>4
    <3> QED
      BY <3>1, <3>2
  <2>6. n + 1 = b[1] + Len(b) /\ stream[n].frag = Len(b) - 1
    BY <2>1, <2>3, <2>4, <1>1, <1>2
  <2> QED
    BY <2>5, <2>6
<1> QED
  BY <1>1, <1>2, <1>5, <1>6, <1>7, <1>8 DEF b

-----------------------------------------------------------------------------
(* The history of the decoder's calls: not extended, or by a good one.     *)
LEMMA HistoryUnchanged ==
    ASSUME IInv, UNCHANGED <<stream, decoded>>, intact' => intact
    PROVE  (WholeUntilLoss /\ NeverFromTheMiddle /\ decoded \in Seq(Call))'
  BY DEF IInv, TypeOK, WholeUntilLoss, NeverFromTheMiddle, Whole, FromFirstToLast, Call, Positions

LEMMA HistoryExtended ==
    ASSUME IInv, stream' = stream, intact' => intact,
           NEW b \in Seq(Positions), NEW n \in Positions,
           decoded' = Append(decoded, [buffer |-> b, header |-> n]),
           b # <<>>, b[Len(b)] = n, IsLast(n), stream[b[1]].frag = 0,
           \A i, j \in 1 .. Len(b) : i < j => b[i] < b[j],
           intact' => Whole(stream, b)
    PROVE  (WholeUntilLoss /\ NeverFromTheMiddle /\ decoded \in Seq(Call))'
<1> DEFINE call == [buffer |-> b, header |-> n]
<1>1. decoded \in Seq(Call) /\ call \in Call
  BY DEF IInv, TypeOK, Call
<1>2. /\ decoded' \in Seq(Call) /\ Len(decoded) \in Nat /\ Len(decoded') = Len(decoded) + 1
      /\ \A k \in 1 .. Len(decoded) : decoded'[k] = decoded[k]
      /\ decoded'[Len(decoded) + 1] = call
  BY <1>1, AppendProperties, LenProperties
<1>3. \A k \in 1 .. Len(decoded') : k \in 1 .. Len(decoded) \/ k = Len(decoded) + 1
  BY <1>2
<1>4. WholeUntilLoss'
  <2> SUFFICES ASSUME intact', NEW k \in 1 .. Len(decoded')
               PROVE  /\ Whole(stream, decoded'[k].buffer)
                      /\ decoded'[k].header = decoded'[k].buffer[Len(decoded'[k].buffer)]
    BY DEF WholeUntilLoss, Whole
  <2>1. CASE k \in 1 .. Len(decoded)
    BY <2>1, <1>2 DEF IInv, WholeUntilLoss
  <2>2. CASE k = Len(decoded) + 1
    BY <2>2, <1>2
  <2> QED
    BY <2>1, <2>2, <1>3
<1>5. NeverFromTheMiddle'
  <2> SUFFICES ASSUME NEW k \in 1 .. Len(decoded')
               PROVE  FromFirstToLast(stream, decoded'[k].buffer)
    BY DEF NeverFromTheMiddle, FromFirstToLast
  <2>1. CASE k \in 1 .. Len(decoded)
    BY <2>1, <1>2 DEF IInv, NeverFromTheMiddle
  <2>2. CASE k = Len(decoded) + 1
    BY <2>2, <1>2 DEF FromFirstToLast, IsLast
  <2> QED
    BY <2>1, <2>2, <1>3
<1> QED
  BY <1>2, <1>4, <1>5 DEF Call, Positions

-----------------------------------------------------------------------------
(* The facts about a step of "_parse" that do not depend on the branch:    *)
(* what is left to show is what becomes of decode_buffer and the history.  *)
LEMMA ParseInv ==
    ASSUME IInv, NEW n \in Positions, Parse(n),
           pc' \in {"idle", "dispatch"},
           errors' \subseteq {"callback", "length", "not empty"},
           intact' \in BOOLEAN,
           decode_buffer' \in Seq(Positions),
           (BufferOrdered /\ BufferContiguous)',
           (WholeUntilLoss /\ NeverFromTheMiddle /\ decoded \in Seq(Call))'
    PROVE  IInv'
<1>1. /\ stream' = stream /\ header' = n
      /\ reorder_buffer' \in Reorder!Buffer
      /\ reorder_buffer'.next = n + 1
      /\ reorder_buffer'.held \subseteq Positions
      /\ HeldAhead'
  BY ParseMoves
<1>2. Positions' = Positions /\ n \in 1 .. Len(stream) /\ Len(stream) \in Nat
  BY <1>1, StreamType DEF Positions, IInv
<1>3. header' \in 0 .. Len(stream') /\ reorder_buffer'.next \in 0 .. Len(stream') + 1
  <2>1. header' = n /\ reorder_buffer'.next = n + 1 /\ stream' = stream
    BY <1>1
  <2>2. n \in 0 .. Len(stream) /\ n + 1 \in 0 .. Len(stream) + 1
    BY PositionFacts DEF IInv
  <2> QED
    BY <2>1, <2>2
<1>4. stream' \in Streams
  BY <1>1 DEF TypeOK, IInv
<1>5. TypeOK'
  BY <1>1, <1>2, <1>3, <1>4 DEF TypeOK
<1> QED
  BY <1>1, <1>5 DEF IInv

(* An exception promises nothing and threatens nothing.                    *)
LEMMA RaiseType ==
    ASSUME IInv, NEW error \in {"callback", "length", "not empty"}, Raise(error) \/ NoRaise
    PROVE  /\ pc' \in {"idle", "dispatch"}
           /\ errors' \subseteq {"callback", "length", "not empty"}
           /\ intact' \in BOOLEAN
           /\ intact' => (intact /\ NoRaise)
           /\ intact' => intact
<1>1. CASE Raise(error)
  <2>1. errors' \subseteq {"callback", "length", "not empty"}
    BY <1>1 DEF Raise, IInv, TypeOK
  <2>2. pc' \in {"idle", "dispatch"} /\ intact' = FALSE
    BY <1>1 DEF Raise
  <2> QED
    BY <2>1, <2>2
<1>2. CASE NoRaise
  <2>1. pc' = pc /\ errors' = errors /\ intact' = intact
    BY <1>2 DEF NoRaise
  <2>2. /\ pc \in {"idle", "dispatch"}
        /\ errors \subseteq {"callback", "length", "not empty"}
        /\ intact \in BOOLEAN
    BY DEF IInv, TypeOK
  <2> QED
    BY <1>2, <2>1, <2>2
<1> QED
  BY <1>1, <1>2

LEMMA EmptyBufferInv ==
    ASSUME decode_buffer' = <<>>
    PROVE  decode_buffer' \in Seq(Positions) /\ (BufferOrdered /\ BufferContiguous)'
  BY EmptySeq DEF BufferOrdered, BufferContiguous

(* The buffer as it was is as good as before when the promise is withdrawn *)
(* or the buffer empty.                                                    *)
LEMMA SameBufferInv ==
    ASSUME IInv, NEW n \in Positions, Parse(n), decode_buffer' = decode_buffer,
           intact' => decode_buffer = <<>>
    PROVE  decode_buffer' \in Seq(Positions) /\ (BufferOrdered /\ BufferContiguous)'
<1>1. decode_buffer \in Seq(Positions) /\ Len(decode_buffer) \in Nat
  BY LenProperties DEF IInv, TypeOK
<1>2. stream' = stream /\ n = reorder_buffer.next /\ reorder_buffer'.next = n + 1
  BY ParseMoves
<1>3. \A j \in 1 .. Len(decode_buffer) : decode_buffer[j] \in Nat
  <2>1. \A j \in 1 .. Len(decode_buffer) : decode_buffer[j] \in Positions
    BY <1>1, ElementOfSeq
  <2> QED
    BY <2>1, StreamType DEF IInv, Positions
<1>4. n \in Nat
  BY StreamType DEF IInv, Positions
<1>5. BufferOrdered'
  BY <1>1, <1>2, <1>3, <1>4 DEF IInv, BufferOrdered
<1> QED
  BY <1>1, <1>5 DEF BufferContiguous

(* The collected fragments, less the check that more are to come.          *)
LEMMA AssembledBufferInv ==
    ASSUME IInv, NEW n \in Positions, Parse(n), decode_buffer # <<>>,
           decode_buffer' = Assembled(n),
           intact' => intact /\ ~IsLast(n)
    PROVE  decode_buffer' \in Seq(Positions) /\ (BufferOrdered /\ BufferContiguous)'
<1> DEFINE b == Assembled(n)
<1>1. /\ b \in Seq(Positions) /\ b # <<>> /\ Len(b) \in Nat /\ b[Len(b)] = n
      /\ \A j \in 1 .. Len(b) : b[j] < n + 1
      /\ stream[b[1]].frag = 0
      /\ \A i, j \in 1 .. Len(b) : i < j => b[i] < b[j]
      /\ intact => /\ \A j \in 1 .. Len(b) : b[j] = b[1] + j - 1
                   /\ n + 1 = b[1] + Len(b)
                   /\ stream[n].frag = Len(b) - 1
  BY AssembledFacts
<1> HIDE DEF b
<1>2. stream' = stream /\ reorder_buffer'.next = n + 1 /\ decode_buffer' = b
  BY ParseMoves DEF b
<1>3. BufferOrdered'
  BY <1>1, <1>2 DEF BufferOrdered
<1>4. ASSUME intact'
      PROVE  /\ \A j \in 1 .. Len(b) : b[j] = b[1] + j - 1
             /\ n + 1 = b[1] + Len(b)
             /\ stream[b[Len(b)]].frag = Len(b) - 1
             /\ ~(stream[b[Len(b)]].frag = stream[b[Len(b)]].max)
  BY <1>1, <1>4 DEF IsLast
<1>5. BufferContiguous'
  BY <1>2, <1>4 DEF BufferContiguous, IsLast
<1> QED
  BY <1>1, <1>2, <1>3, <1>5

-----------------------------------------------------------------------------
(* One lemma per branch of "_parse".                                       *)
LEMMA LastFragmentInv ==
    ASSUME IInv, NEW n \in Positions, ParseLastFragment(n) PROVE IInv'
<1> DEFINE b == Assembled(n)
<1>1. Parse(n) /\ IsLast(n) /\ decode_buffer # <<>>
  BY DEF ParseLastFragment
<1>2. /\ b \in Seq(Positions) /\ b # <<>> /\ b[Len(b)] = n
      /\ stream[b[1]].frag = 0
      /\ \A i, j \in 1 .. Len(b) : i < j => b[i] < b[j]
      /\ intact => /\ \A j \in 1 .. Len(b) : b[j] = b[1] + j - 1
                   /\ stream[n].frag = Len(b) - 1
  BY <1>1, AssembledFacts
<1>3. /\ decoded' = Append(decoded, [buffer |-> b, header |-> n])
      /\ \/ decode_buffer' = <<>> /\ NoRaise
         \/ decode_buffer' = b /\ (Raise("callback") \/ Raise("length"))
  BY DEF ParseLastFragment, DecoderDispatch, Assembled
<1>4. /\ pc' \in {"idle", "dispatch"}
      /\ errors' \subseteq {"callback", "length", "not empty"}
      /\ intact' \in BOOLEAN
      /\ intact' => (intact /\ NoRaise)
  BY <1>3, RaiseType
<1>5. decode_buffer' \in Seq(Positions) /\ (BufferOrdered /\ BufferContiguous)'
  <2>1. CASE decode_buffer' = <<>>
    BY <2>1, EmptyBufferInv
  <2>2. CASE decode_buffer' = b /\ (Raise("callback") \/ Raise("length"))
    <3>1. intact' = FALSE
      BY <2>2 DEF Raise
    <3> QED
      BY <2>2, <3>1, <1>1, AssembledBufferInv
  <2> QED
    BY <1>3, <2>1, <2>2
<1>6. intact' => Whole(stream, b)
  BY <1>1, <1>2, <1>4 DEF Whole, IsLast
<1>7. (WholeUntilLoss /\ NeverFromTheMiddle /\ decoded \in Seq(Call))'
  <2>1. stream' = stream
    BY <1>1 DEF Parse
  <2> HIDE DEF b
  <2> QED
    BY <2>1, <1>1, <1>2, <1>3, <1>4, <1>6, HistoryExtended
<1> QED
  BY <1>1, <1>4, <1>5, <1>7, ParseInv

LEMMA UnfragmentedInv ==
    ASSUME IInv, NEW n \in Positions, ParseUnfragmented(n) PROVE IInv'
<1> DEFINE b == <<n>>
<1>1. Parse(n) /\ IsLast(n) /\ IsFirst(n) /\ decode_buffer' = <<>> /\ stream' = stream
  BY DEF ParseUnfragmented, Parse
<1>2. /\ decoded' = Append(decoded, [buffer |-> b, header |-> n])
      /\ NoRaise \/ Raise("callback") \/ Raise("length")
  BY DEF ParseUnfragmented, DecoderDispatch
<1>3. /\ pc' \in {"idle", "dispatch"}
      /\ errors' \subseteq {"callback", "length", "not empty"}
      /\ intact' \in BOOLEAN
      /\ intact' => intact
  BY <1>2, RaiseType
<1>4. /\ b \in Seq(Positions) /\ b # <<>> /\ Len(b) = 1 /\ b[1] = n
      /\ stream[b[1]].frag = 0
      /\ \A i, j \in 1 .. Len(b) : i < j => b[i] < b[j]
  BY <1>1 DEF IsFirst
<1>5. Whole(stream, b)
  <2>1. stream[n].max = 0 /\ n \in Nat
    BY <1>1, PositionFacts DEF IInv, IsFirst, IsLast
  <2> QED
    BY <1>4, <2>1 DEF Whole
<1>6. (WholeUntilLoss /\ NeverFromTheMiddle /\ decoded \in Seq(Call))'
  <2> HIDE DEF b
  <2> QED
    BY <1>1, <1>2, <1>3, <1>4, <1>5, HistoryExtended
<1> QED
  BY <1>1, <1>3, <1>6, EmptyBufferInv, ParseInv

LEMMA FirstFragmentInv ==
    ASSUME IInv, NEW n \in Positions, ParseFirstFragment(n) PROVE IInv'
<1>1. Parse(n) /\ ~IsLast(n) /\ IsFirst(n) /\ UNCHANGED <<stream, decoded>>
  BY DEF ParseFirstFragment, Parse
<1>2. \/ decode_buffer' = <<n>> /\ NoRaise
      \/ decode_buffer' = decode_buffer /\ Raise("not empty")
  BY DEF ParseFirstFragment
<1>3. /\ pc' \in {"idle", "dispatch"}
      /\ errors' \subseteq {"callback", "length", "not empty"}
      /\ intact' \in BOOLEAN
      /\ intact' => intact
  BY <1>2, RaiseType
<1>4. decode_buffer' \in Seq(Positions) /\ (BufferOrdered /\ BufferContiguous)'
  <2>1. CASE decode_buffer' = <<n>>
    <3>1. stream' = stream /\ reorder_buffer'.next = n + 1
      BY <1>1, ParseMoves
    <3>2. n \in Nat
      BY PositionFacts DEF IInv
    <3>3. decode_buffer' \in Seq(Positions) /\ Len(decode_buffer') = 1 /\ decode_buffer'[1] = n
      BY <2>1
    <3>4. BufferOrdered'
      BY <3>1, <3>2, <3>3, <1>1 DEF BufferOrdered, IsFirst
    <3>5. BufferContiguous'
      BY <3>1, <3>2, <3>3, <1>1 DEF BufferContiguous, IsFirst, IsLast
    <3> QED
      BY <3>3, <3>4, <3>5
  <2>2. CASE decode_buffer' = decode_buffer /\ Raise("not empty")
    <3>1. intact' = FALSE
      BY <2>2 DEF Raise
    <3> QED
      BY <2>2, <3>1, <1>1, SameBufferInv
  <2> QED
    BY <1>2, <2>1, <2>2
<1> QED
  BY <1>1, <1>3, <1>4, HistoryUnchanged, ParseInv

LEMMA MiddleFragmentInv ==
    ASSUME IInv, NEW n \in Positions, ParseMiddleFragment(n) PROVE IInv'
<1>1. /\ Parse(n) /\ ~IsLast(n) /\ decode_buffer # <<>>
      /\ decode_buffer' = Assembled(n)
      /\ NoRaise /\ UNCHANGED <<stream, decoded>>
  BY DEF ParseMiddleFragment, Parse, Assembled
<1>2. /\ pc' \in {"idle", "dispatch"}
      /\ errors' \subseteq {"callback", "length", "not empty"}
      /\ intact' \in BOOLEAN
      /\ intact' => intact
  BY <1>1, RaiseType
<1> QED
  BY <1>1, <1>2, AssembledBufferInv, HistoryUnchanged, ParseInv

LEMMA RejoiningInv ==
    ASSUME IInv, NEW n \in Positions, ParseRejoining(n) PROVE IInv'
<1>1. Parse(n) /\ decode_buffer' = <<>> /\ NoRaise /\ UNCHANGED <<stream, decoded>>
  BY DEF ParseRejoining, Parse
<1>2. /\ pc' \in {"idle", "dispatch"}
      /\ errors' \subseteq {"callback", "length", "not empty"}
      /\ intact' \in BOOLEAN
      /\ intact' => intact
  BY <1>1, RaiseType
<1> QED
  BY <1>1, <1>2, EmptyBufferInv, HistoryUnchanged, ParseInv

-----------------------------------------------------------------------------
(* The steps outside "_parse": they leave the buffer and the history.      *)
LEMMA SameBuffers ==
    ASSUME IInv, UNCHANGED <<stream, decode_buffer, header, decoded, errors>>,
           pc' \in {"idle", "dispatch"}, intact' \in BOOLEAN, intact' => intact,
           reorder_buffer' \in Reorder!Buffer,
           reorder_buffer'.held \subseteq Positions,
           reorder_buffer'.next \in 0 .. Len(stream) + 1,
           HeldAhead',
           reorder_buffer'.next # reorder_buffer.next =>
               /\ reorder_buffer.next <= reorder_buffer'.next
               /\ decode_buffer = <<>> \/ intact' = FALSE
    PROVE  IInv'
<1>1. TypeOK'
  BY DEF IInv, TypeOK, Call, Positions
<1>2. BufferOrdered'
  <2>1. \A j \in 1 .. Len(decode_buffer) : decode_buffer[j] < reorder_buffer'.next
    <3> SUFFICES ASSUME NEW j \in 1 .. Len(decode_buffer)
                 PROVE  decode_buffer[j] < reorder_buffer'.next
      OBVIOUS
    <3>1. decode_buffer[j] \in Positions
      BY ElementOfSeq DEF IInv, TypeOK
    <3>2. decode_buffer[j] \in Nat /\ decode_buffer[j] < reorder_buffer.next
      BY <3>1, PositionFacts DEF IInv, BufferOrdered
    <3>3. /\ reorder_buffer.next \in Nat /\ reorder_buffer'.next \in Nat
          /\ reorder_buffer.next <= reorder_buffer'.next
      <4>1. reorder_buffer.next \in Nat /\ reorder_buffer'.next \in Nat
        BY DEF IInv, TypeOK, Reorder!Buffer
      <4>2. CASE reorder_buffer'.next = reorder_buffer.next
        BY <4>1, <4>2
      <4>3. CASE reorder_buffer'.next # reorder_buffer.next
        BY <4>1, <4>3
      <4> QED
        BY <4>2, <4>3
    <3> QED
      BY <3>2, <3>3
  <2> QED
    BY <2>1 DEF IInv, BufferOrdered
<1>3. BufferContiguous'
  <2> SUFFICES ASSUME intact', decode_buffer # <<>>
               PROVE  BufferContiguous'
    BY DEF BufferContiguous
  <2>1. intact /\ reorder_buffer'.next = reorder_buffer.next
    OBVIOUS
  <2> QED
    BY <2>1 DEF IInv, BufferContiguous, IsLast
<1> QED
  BY <1>1, <1>2, <1>3, HistoryUnchanged DEF IInv

LEMMA DatagramReceivedInv == IInv /\ DatagramReceived => IInv'
<1> SUFFICES ASSUME IInv, NEW n \in Positions,
                    pc' = "dispatch",
                    reorder_buffer' = Reorder!Insert(reorder_buffer, n),
                    UNCHANGED <<stream, decode_buffer, header, decoded, errors, intact>>
             PROVE  IInv'
  BY DEF DatagramReceived, Positions
<1>1. /\ reorder_buffer \in Reorder!Buffer
      /\ reorder_buffer.held \subseteq Positions
      /\ reorder_buffer.next \in 0 .. Len(stream) + 1
      /\ intact \in BOOLEAN
      /\ HeldAhead
  BY DEF IInv, TypeOK
<1>2. n \in Nat \ {0} /\ n \in 0 .. Len(stream) + 1 /\ Len(stream) \in Nat
  BY PositionFacts, StreamType DEF IInv
<1>3. reorder_buffer.next = 0 => decode_buffer = <<>>
  <2> SUFFICES ASSUME reorder_buffer.next = 0, decode_buffer # <<>> PROVE FALSE
    OBVIOUS
  <2>1. decode_buffer \in Seq(Positions)
    BY DEF IInv, TypeOK
  <2>2. 1 \in 1 .. Len(decode_buffer)
    BY <2>1, EmptySeq
  <2>3. decode_buffer[1] \in Nat
    BY <2>1, <2>2, ElementOfSeq, PositionFacts DEF IInv
  <2> QED
    BY <2>2, <2>3 DEF IInv, BufferOrdered
<1>4. /\ reorder_buffer' \in Reorder!Buffer
      /\ reorder_buffer'.held \subseteq Positions
      /\ reorder_buffer'.next \in 0 .. Len(stream) + 1
      /\ HeldAhead'
      /\ reorder_buffer'.next # reorder_buffer.next =>
             reorder_buffer.next = 0 /\ reorder_buffer.next <= reorder_buffer'.next
  <2>1. CASE reorder_buffer.next = 0
    BY <2>1, <1>1, <1>2 DEF Reorder!Insert, Reorder!Buffer, HeldAhead
  <2>2. CASE reorder_buffer.next # 0 /\ n < reorder_buffer.next
    BY <2>2, <1>1, <1>2 DEF Reorder!Insert, Reorder!Buffer, HeldAhead
  <2>3. CASE reorder_buffer.next # 0 /\ ~(n < reorder_buffer.next)
    BY <2>3, <1>1, <1>2 DEF Reorder!Insert, Reorder!Buffer, HeldAhead
  <2> QED
    BY <2>1, <2>2, <2>3
<1> QED
  BY <1>1, <1>3, <1>4, SameBuffers

LEMMA ResetInv == IInv /\ Reset => IInv'
<1> SUFFICES ASSUME IInv, NEW n \in reorder_buffer.held,
                    pc = "dispatch",
                    Reorder!IsLowest(reorder_buffer, n),
                    reorder_buffer' = Reorder!SkipTo(reorder_buffer, n),
                    intact' = FALSE,
                    UNCHANGED <<stream, pc, decode_buffer, header, decoded, errors>>
             PROVE  IInv'
  BY DEF Reset
<1>1. /\ reorder_buffer \in Reorder!Buffer
      /\ reorder_buffer.held \subseteq Positions
      /\ HeldAhead
  BY DEF IInv, TypeOK
<1>2. n \in Positions
  BY <1>1
<1>3. n \in Nat \ {0} /\ n \in 0 .. Len(stream) + 1 /\ Len(stream) \in Nat
  BY <1>2, PositionFacts, StreamType DEF IInv
<1>4. /\ reorder_buffer' \in Reorder!Buffer
      /\ reorder_buffer'.held \subseteq Positions
      /\ reorder_buffer'.next \in 0 .. Len(stream) + 1
      /\ HeldAhead'
      /\ reorder_buffer.next <= reorder_buffer'.next
  BY <1>1, <1>3 DEF Reorder!IsLowest, Reorder!SkipTo, Reorder!Buffer, HeldAhead
<1> QED
  BY <1>4, SameBuffers

LEMMA UnchangedInv ==
    ASSUME IInv, UNCHANGED <<stream, reorder_buffer, decode_buffer, header, decoded, errors, intact>>,
           pc' \in {"idle", "dispatch"}
    PROVE  IInv'
  BY SameBuffers DEF IInv, TypeOK, HeldAhead

LEMMA NextInv == IInv /\ [Next]_vars => IInv'
<1> SUFFICES ASSUME IInv, [Next]_vars PROVE IInv'
  OBVIOUS
<1>1. CASE DatagramReceived
  BY <1>1, DatagramReceivedInv
<1>2. ASSUME NEW n \in 1 .. Len(stream),
             \/ ParseLastFragment(n) \/ ParseUnfragmented(n) \/ ParseFirstFragment(n)
             \/ ParseMiddleFragment(n) \/ ParseRejoining(n)
      PROVE  IInv'
  <2>1. n \in Positions
    BY DEF Positions
  <2> QED
    BY <1>2, <2>1, LastFragmentInv, UnfragmentedInv, FirstFragmentInv, MiddleFragmentInv,
       RejoiningInv
<1>3. CASE Reset
  BY <1>3, ResetInv
<1>4. CASE Return
  BY <1>4, UnchangedInv DEF Return
<1>5. CASE UNCHANGED vars
  BY <1>5, UnchangedInv DEF vars, IInv, TypeOK
<1> QED
  BY <1>1, <1>2, <1>3, <1>4, <1>5 DEF Next

-----------------------------------------------------------------------------
(* The inductive invariant holds throughout.                               *)
THEOREM Invariance == Spec => []IInv
  BY InitInv, NextInv, PTL DEF Spec

(* Every variable of the receiver keeps its type: header and buffer always *)
(* name datagrams of the stream, the re-order buffer never runs past it.   *)
THEOREM TypeCorrectness == Spec => []TypeOK
<1>1. IInv => TypeOK
  BY DEF IInv
<1> QED
  BY <1>1, Invariance, PTL

(* Until a loss is reported or a handler fails, the decoder is given whole *)
(* messages only, each with the header of its last fragment.               *)
THEOREM WholeMessages == Spec => []WholeUntilLoss
<1>1. IInv => WholeUntilLoss
  BY DEF IInv
<1> QED
  BY <1>1, Invariance, PTL

(* Even afterwards, the decoder is never given a buffer that begins in the *)
(* middle of a message or is out of order.                                 *)
THEOREM Rejoining == Spec => []NeverFromTheMiddle
<1>1. IInv => NeverFromTheMiddle
  BY DEF IInv
<1> QED
  BY <1>1, Invariance, PTL
=============================================================================
