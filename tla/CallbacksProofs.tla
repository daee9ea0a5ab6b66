--------------------------- MODULE CallbacksProofs ---------------------------
(***************************************************************************)
(* The guard of the handlers that do not swallow it is enough: for every   *)
(* depth of nested calls and every number of events, Python holds no dead  *)
(* object without having been told.  The inductive invariant says what the *)
(* guard of one level can rely on: the objects that are kept and alive are *)
(* arguments of a call in progress, and of one only, so that each level    *)
(* sees all that was stored of its own.                                    *)
(***************************************************************************)
EXTENDS Callbacks, TLAPS, SequenceTheorems

Frame == [entry : Entries, event : 1 .. events]

(* A call made from a callback handles later events than the callback.     *)
FramesInOrder ==
    \A j, k \in 1 .. Len(frames) : j < k => frames[j].event < frames[k].event

(* What is kept of a call in progress is among its arguments.              *)
KeptArePassed ==
    \A object \in kept : \A k \in 1 .. Len(frames) :
        frames[k].event = object.event => object \in Objects(frames[k])

(* No handler in use swallows what its guard throws.                       *)
Guarded == \A entry \in Entries : ~Swallows(entry)

IInv ==
    /\ TypeOK
    /\ FramesInOrder
    /\ KeptArePassed
    /\ Guarded => NoSilentDangling

-----------------------------------------------------------------------------
(* The front of a sequence is the sequence without its last element.       *)
LEMMA FrontFacts ==
    ASSUME NEW S, NEW s \in Seq(S), s # <<>>
    PROVE  /\ Front(s) \in Seq(S)
           /\ Len(s) \in Nat \ {0}
           /\ Len(Front(s)) = Len(s) - 1
           /\ \A k \in 1 .. Len(s) - 1 : Front(s)[k] = s[k]
           /\ Last(s) = s[Len(s)]
           /\ Last(s) \in S
<1>1. Len(s) \in Nat \ {0}
  BY EmptySeq, LenProperties
<1>2. /\ Front(s) \in Seq(S)
      /\ Len(Front(s)) = Len(s) - 1
      /\ \A k \in 1 .. Len(s) - 1 : Front(s)[k] = s[k]
  <2>1. 1 \in Int /\ Len(s) - 1 \in Int /\ \A i \in 1 .. Len(s) - 1 : s[i] \in S
    BY <1>1, ElementOfSeq
  <2>2. /\ SubSeq(s, 1, Len(s) - 1) \in Seq(S)
        /\ Len(SubSeq(s, 1, Len(s) - 1)) = IF 1 <= Len(s) - 1 THEN Len(s) - 1 - 1 + 1 ELSE 0
        /\ \A i \in 1 .. Len(s) - 1 - 1 + 1 : SubSeq(s, 1, Len(s) - 1)[i] = s[1 + i - 1]
    BY <2>1, SubSeqProperties
  <2>3. Front(s) = SubSeq(s, 1, Len(s) - 1)
    BY DEF Front
  <2>4. Len(SubSeq(s, 1, Len(s) - 1)) = Len(s) - 1
    <3>1. \A n \in Nat \ {0} : (IF 1 <= n - 1 THEN n - 1 - 1 + 1 ELSE 0) = n - 1
      OBVIOUS
    <3> QED
      BY <1>1, <2>2, <3>1, Zenon
  <2>5. \A i \in 1 .. Len(s) - 1 : SubSeq(s, 1, Len(s) - 1)[i] = s[i]
    <3> SUFFICES ASSUME NEW i \in 1 .. Len(s) - 1
                 PROVE  SubSeq(s, 1, Len(s) - 1)[i] = s[i]
      OBVIOUS
    <3>1. i \in 1 .. Len(s) - 1 - 1 + 1 /\ 1 + i - 1 = i
      BY <1>1
    <3> QED
      BY <2>2, <3>1
  <2> QED
    BY <2>2, <2>3, <2>4, <2>5
<1>3. Last(s) = s[Len(s)] /\ Last(s) \in S
  BY <1>1, ElementOfSeq DEF Last
<1> QED
  BY <1>1, <1>2, <1>3

(* A sequence with one element more.                                       *)
LEMMA AppendFacts ==
    ASSUME NEW S, NEW s \in Seq(S), NEW e \in S
    PROVE  /\ Append(s, e) \in Seq(S)
           /\ Len(s) \in Nat
           /\ Len(Append(s, e)) = Len(s) + 1
           /\ \A k \in 1 .. Len(s) : Append(s, e)[k] = s[k]
           /\ Append(s, e)[Len(s) + 1] = e
  BY AppendProperties, LenProperties

(* What is known of every call in progress.                                *)
LEMMA FramesFacts ==
    ASSUME TypeOK
    PROVE  /\ frames \in Seq(Frame)
           /\ Len(frames) \in Nat
           /\ events \in Nat
           /\ \A k \in 1 .. Len(frames) :
                 /\ frames[k] \in Frame
                 /\ frames[k].event \in 1 .. events
<1>1. frames \in Seq(Frame) /\ events \in Nat
  BY CallbacksAssumption DEF TypeOK, Frame
<1>2. Len(frames) \in Nat
  BY <1>1, LenProperties
<1>3. \A k \in 1 .. Len(frames) : frames[k] \in Frame
  BY <1>1, <1>2, ElementOfSeq
<1> QED
  BY <1>1, <1>2, <1>3 DEF Frame

(* The call in progress that a handler is about to leave.                  *)
LEMMA TopFacts ==
    ASSUME IInv, frames # <<>>
    PROVE  /\ Front(frames) \in Seq(Frame)
           /\ Len(frames) \in Nat \ {0}
           /\ Len(Front(frames)) = Len(frames) - 1
           /\ \A k \in 1 .. Len(Front(frames)) : Front(frames)[k] = frames[k]
           /\ Last(frames) = frames[Len(frames)]
           /\ Last(frames) \in Frame
           /\ Last(frames).entry \in Entries
           /\ Last(frames).event \in 1 .. events
<1>1. frames \in Seq(Frame)
  BY FramesFacts DEF IInv
<1>2. /\ Front(frames) \in Seq(Frame)
      /\ Len(frames) \in Nat \ {0}
      /\ Len(Front(frames)) = Len(frames) - 1
      /\ \A k \in 1 .. Len(frames) - 1 : Front(frames)[k] = frames[k]
      /\ Last(frames) = frames[Len(frames)]
      /\ Last(frames) \in Frame
  BY <1>1, FrontFacts
<1>3. Last(frames).entry \in Entries /\ Last(frames).event \in 1 .. events
  BY <1>2 DEF Frame
<1> QED
  BY <1>2, <1>3

LEMMA InitHolds == Init => IInv
<1> SUFFICES ASSUME Init PROVE IInv
  OBVIOUS
<1>1. frames = <<>> /\ events = 0 /\ kept = {} /\ raised = {}
  BY DEF Init
<1>2. Len(frames) = 0 /\ frames \in Seq([entry : Entries, event : 1 .. events])
  BY <1>1, EmptySeq
<1>3. TypeOK
  BY <1>1, <1>2, CallbacksAssumption DEF TypeOK
<1>4. FramesInOrder
  BY <1>2 DEF FramesInOrder
<1> QED
  BY <1>1, <1>3, <1>4 DEF IInv, KeptArePassed, NoSilentDangling

(* Stacks with one more call: it handles an event that nothing kept is of. *)
LEMMA Pushed ==
    ASSUME IInv, NEW entry \in Entries, NEW stack \in Seq(Frame),
           Len(stack) <= Len(frames), Len(stack) < MaxDepth,
           \A k \in 1 .. Len(stack) : stack[k] = frames[k],
           events < MaxEvents,
           frames' = Append(stack, Handled(entry)),
           events' = events + 1,
           kept' = kept,
           raised' = raised,
           \A object \in kept : Alive(object) =>
               \E k \in 1 .. Len(stack) : stack[k].event = object.event
    PROVE  IInv'
<1> USE DEF IInv
<1>1. events \in Nat /\ Len(frames) \in Nat /\ Len(stack) \in Nat
  BY FramesFacts, LenProperties
<1>2. /\ Handled(entry) \in [entry : Entries, event : 1 .. events']
      /\ Handled(entry).event = events + 1
  BY <1>1 DEF Handled
<1>3. stack \in Seq([entry : Entries, event : 1 .. events'])
  <2>1. Frame \subseteq [entry : Entries, event : 1 .. events']
    BY <1>1 DEF Frame
  <2> QED
    BY <2>1, SeqMonotonic
<1>4. /\ frames' \in Seq([entry : Entries, event : 1 .. events'])
      /\ Len(frames') = Len(stack) + 1
      /\ \A k \in 1 .. Len(stack) : frames'[k] = frames[k]
      /\ frames'[Len(stack) + 1] = Handled(entry)
  BY <1>2, <1>3, AppendFacts
<1>5. \A k \in 1 .. Len(stack) : frames[k].event \in 1 .. events
  BY <1>1, FramesFacts
<1>6. \A object \in kept : object.event \in 1 .. events
  BY DEF TypeOK
<1>7. TypeOK'
  <2>1. Len(frames') <= MaxDepth /\ events' \in 0 .. MaxEvents
    BY <1>1, <1>4, CallbacksAssumption
  <2>2. /\ kept' \subseteq [event : 1 .. events', arg : {"arg0", "arg1"}]
        /\ raised' \subseteq 1 .. events'
    BY <1>1 DEF TypeOK
  <2> QED
    BY <1>4, <2>1, <2>2 DEF TypeOK
<1>8. FramesInOrder'
  <2> SUFFICES ASSUME NEW j \in 1 .. Len(frames'), NEW k \in 1 .. Len(frames'), j < k
               PROVE  frames'[j].event < frames'[k].event
    BY DEF FramesInOrder
  <2>1. CASE k = Len(stack) + 1
    <3>1. j \in 1 .. Len(stack)
      BY <1>1, <1>4, <2>1
    <3>2. frames'[j].event \in 1 .. events
      BY <1>4, <1>5, <3>1
    <3>3. frames'[k].event = events + 1
      BY <1>2, <1>4, <2>1
    <3> QED
      BY <1>1, <3>2, <3>3
  <2>2. CASE k # Len(stack) + 1
    <3>1. Len(frames') = Len(stack) + 1
      BY <1>4
    <3>2. j \in 1 .. Len(stack) /\ k \in 1 .. Len(stack)
      BY <1>1, <2>2, <3>1
    <3>3. j \in 1 .. Len(frames) /\ k \in 1 .. Len(frames)
      BY <1>1, <3>2
    <3>4. frames[j].event < frames[k].event
      BY <3>3 DEF FramesInOrder
    <3> QED
      BY <1>4, <3>2, <3>4
  <2> QED
    BY <2>1, <2>2
<1>9. KeptArePassed'
  <2> SUFFICES ASSUME NEW object \in kept, NEW k \in 1 .. Len(frames'),
                      frames'[k].event = object.event
               PROVE  object \in Objects(frames'[k])
    BY DEF KeptArePassed, Objects, Arguments
  <2>1. k \in 1 .. Len(stack) /\ k \in 1 .. Len(frames)
    BY <1>1, <1>2, <1>4, <1>6
  <2> QED
    BY <1>4, <2>1 DEF KeptArePassed
<1>10. (Guarded => NoSilentDangling)'
  <2> SUFFICES ASSUME Guarded, NEW object \in kept, ~Alive(object)'
               PROVE  object.event \in raised
    BY DEF NoSilentDangling, Guarded, Swallows
  <2>1. ~Alive(object)
    BY <1>1, <1>4 DEF Alive
  <2> QED
    BY <2>1 DEF NoSilentDangling
<1> QED
  BY <1>7, <1>8, <1>9, <1>10

(* One call less: nothing of it is still kept, or its caller was told.     *)
LEMMA Popped ==
    ASSUME IInv, frames # <<>>,
           frames' = Front(frames),
           events' = events,
           kept' \in {kept, kept \cup Objects(Last(frames))},
           raised' \in {raised, raised \cup {Last(frames).event}},
           (Guarded /\ Stored(Last(frames))) \/ kept' # kept =>
               Last(frames).event \in raised'
    PROVE  IInv'
<1> USE DEF IInv
<1> DEFINE top == Len(frames)
<1>1. /\ frames' \in Seq(Frame)
      /\ top \in Nat \ {0}
      /\ Len(frames') = top - 1
      /\ \A k \in 1 .. top - 1 : frames'[k] = frames[k]
      /\ Last(frames) = frames[top]
      /\ Last(frames) \in Frame
  BY TopFacts
<1>2. /\ events \in Nat
      /\ Last(frames).event \in 1 .. events
      /\ Last(frames).entry \in Entries
      /\ Objects(Last(frames)) \subseteq [event : 1 .. events, arg : {"arg0", "arg1"}]
  BY <1>1, FramesFacts DEF Frame, Objects, Arguments
<1>3. TypeOK'
  <2>1. frames' \in Seq([entry : Entries, event : 1 .. events']) /\ Len(frames') <= MaxDepth
    BY <1>1, CallbacksAssumption DEF TypeOK, Frame
  <2>2. kept' \subseteq [event : 1 .. events', arg : {"arg0", "arg1"}]
    BY <1>2 DEF TypeOK
  <2>3. raised' \subseteq 1 .. events' /\ events' \in 0 .. MaxEvents
    BY <1>2 DEF TypeOK
  <2> QED
    BY <2>1, <2>2, <2>3 DEF TypeOK
<1>4. FramesInOrder'
  BY <1>1 DEF FramesInOrder
<1>5. \A object \in Objects(Last(frames)) : object.event = Last(frames).event
  BY DEF Objects
<1>6. \A k \in 1 .. top - 1 : frames[k].event # Last(frames).event
  <2> SUFFICES ASSUME NEW k \in 1 .. top - 1 PROVE frames[k].event # frames[top].event
    BY <1>1
  <2>1. frames[k].event < frames[top].event
    BY <1>1 DEF FramesInOrder
  <2>2. frames[k].event \in 1 .. events /\ frames[top].event \in 1 .. events
    BY <1>1, FramesFacts
  <2> QED
    BY <1>2, <2>1, <2>2
<1>7. KeptArePassed'
  <2> SUFFICES ASSUME NEW object \in kept', NEW k \in 1 .. Len(frames'),
                      frames'[k].event = object.event
               PROVE  object \in Objects(frames'[k])
    BY DEF KeptArePassed, Objects, Arguments
  <2>1. k \in 1 .. top - 1 /\ k \in 1 .. top /\ frames'[k] = frames[k]
    BY <1>1
  <2>2. object \in kept
    BY <1>5, <1>6, <2>1
  <2> QED
    BY <2>1, <2>2 DEF KeptArePassed
<1>8. (Guarded => NoSilentDangling)'
  <2> SUFFICES ASSUME Guarded, NEW object \in kept', ~Alive(object)'
               PROVE  object.event \in raised'
    BY DEF NoSilentDangling, Guarded, Swallows
  <2>1. CASE object.event = Last(frames).event
    <3>1. CASE object \in kept
      <4>1. object \in Objects(Last(frames))
        BY <1>1, <2>1, <3>1 DEF KeptArePassed
      <4>2. Stored(Last(frames))
        BY <3>1, <4>1 DEF Stored
      <4> QED
        BY <2>1, <4>2
    <3>2. CASE object \notin kept
      BY <2>1, <3>2
    <3> QED
      BY <3>1, <3>2
  <2>2. CASE object.event # Last(frames).event
    <3>1. object \in kept
      BY <1>5, <2>2
    <3>2. ~Alive(object)
      BY <1>1, <2>2 DEF Alive
    <3> QED
      BY <3>1, <3>2 DEF NoSilentDangling
  <2> QED
    BY <2>1, <2>2
<1> QED
  BY <1>3, <1>4, <1>7, <1>8

-----------------------------------------------------------------------------
LEMMA EnterKeeps == ASSUME IInv, NEW entry \in Entries, Enter(entry) PROVE IInv'
<1>1. frames \in Seq(Frame) /\ Len(frames) \in Nat
  BY FramesFacts DEF IInv
<1>2. \A object \in kept : Alive(object) =>
          \E k \in 1 .. Len(frames) : frames[k].event = object.event
  BY DEF Alive
<1>3. /\ Len(frames) < MaxDepth /\ events < MaxEvents
      /\ frames' = Append(frames, Handled(entry))
      /\ events' = events + 1 /\ kept' = kept /\ raised' = raised
  BY DEF Enter
<1> QED
  BY <1>1, <1>2, <1>3, Pushed

LEMMA KeepKeeps == ASSUME IInv, Keep PROVE IInv'
<1> USE DEF IInv
<1>1. PICK k \in 1 .. Len(frames) : \E object \in Objects(frames[k]) :
          /\ kept' = kept \cup {object}
          /\ UNCHANGED <<frames, events, raised>>
  BY DEF Keep
<1>2. PICK object \in Objects(frames[k]) : kept' = kept \cup {object}
  BY <1>1
<1>3. object \in [event : 1 .. events, arg : {"arg0", "arg1"}] /\ object.event = frames[k].event
  BY <1>2, FramesFacts DEF Objects, Arguments
<1>4. TypeOK'
  BY <1>1, <1>2, <1>3 DEF TypeOK
<1>5. FramesInOrder'
  BY <1>1 DEF FramesInOrder
<1>6. KeptArePassed'
  <2>1. \A j \in 1 .. Len(frames) : frames[j].event = object.event => j = k
    BY <1>3, FramesFacts DEF FramesInOrder
  <2> QED
    BY <1>1, <1>2, <2>1 DEF KeptArePassed, Objects, Arguments
<1>7. (Guarded => NoSilentDangling)'
  BY <1>1, <1>2, <1>3 DEF NoSilentDangling, Alive, Guarded, Swallows
<1> QED
  BY <1>4, <1>5, <1>6, <1>7

LEMMA ForgetKeeps == ASSUME IInv, Forget PROVE IInv'
<1> USE DEF IInv
<1>1. kept' \subseteq kept /\ UNCHANGED <<frames, events, raised>>
  BY DEF Forget
<1>2. TypeOK' /\ FramesInOrder'
  BY <1>1 DEF TypeOK, FramesInOrder
<1>3. KeptArePassed' /\ (Guarded => NoSilentDangling)'
  BY <1>1 DEF KeptArePassed, NoSilentDangling, Alive, Objects, Arguments, Guarded, Swallows
<1> QED
  BY <1>2, <1>3

LEMMA CallbackReturnsKeeps == ASSUME IInv, CallbackReturns PROVE IInv'
<1> DEFINE frame == Last(frames)
<1>1. /\ frames # <<>> /\ ~Stored(frame)
      /\ kept' = kept /\ raised' = raised
  BY DEF CallbackReturns
<1>2. CASE frames' = Front(frames) /\ events' = events
  BY <1>1, <1>2, Popped
<1>3. CASE /\ events < MaxEvents /\ events' = events + 1
           /\ frames' = Append(Front(frames), Handled(frame.entry))
  <2>1. /\ Front(frames) \in Seq(Frame)
        /\ Len(frames) \in Nat \ {0}
        /\ Len(Front(frames)) = Len(frames) - 1
        /\ \A k \in 1 .. Len(Front(frames)) : Front(frames)[k] = frames[k]
        /\ frame = frames[Len(frames)]
        /\ frame.entry \in Entries
    BY <1>1, TopFacts
  <2>2. Len(Front(frames)) <= Len(frames) /\ Len(Front(frames)) < MaxDepth
    BY <2>1, CallbacksAssumption DEF IInv, TypeOK
  <2>3. \A object \in kept : Alive(object) =>
            \E k \in 1 .. Len(Front(frames)) : Front(frames)[k].event = object.event
    <3> SUFFICES ASSUME NEW object \in kept, NEW k \in 1 .. Len(frames),
                        frames[k].event = object.event
                 PROVE  k \in 1 .. Len(Front(frames))
      BY <2>1 DEF Alive
    <3>1. object \in Objects(frames[k])
      BY DEF IInv, KeptArePassed
    <3>2. k # Len(frames)
      BY <1>1, <2>1, <3>1 DEF Stored
    <3> QED
      BY <2>1, <3>2
  <2> QED
    BY <1>1, <1>3, <2>1, <2>2, <2>3, Pushed
<1> QED
  BY <1>2, <1>3 DEF CallbackReturns

(* The only place where a guard that swallows its exception would matter.  *)
LEMMA CheckFailsKeeps == ASSUME IInv, CheckFails PROVE IInv'
<1>1. frames # <<>> /\ frames' = Front(frames) /\ events' = events /\ kept' = kept
  BY DEF CheckFails
<1>2. Last(frames).entry \in Entries
  BY <1>1, TopFacts
<1>3. /\ raised' \in {raised, raised \cup {Last(frames).event}}
      /\ Guarded => Last(frames).event \in raised'
  BY <1>2 DEF CheckFails, Guarded
<1> QED
  BY <1>1, <1>3, Popped

LEMMA CallbackRaisesKeeps == ASSUME IInv, CallbackRaises PROVE IInv'
<1>1. /\ frames # <<>> /\ frames' = Front(frames) /\ events' = events
      /\ kept' \in {kept, kept \cup Objects(Last(frames))}
      /\ raised' = raised \cup {Last(frames).event}
  BY DEF CallbackRaises
<1> QED
  BY <1>1, Popped

LEMMA StutterKeeps == ASSUME IInv, UNCHANGED vars PROVE IInv'
  BY DEF vars, IInv, TypeOK, FramesInOrder, KeptArePassed, NoSilentDangling, Alive,
         Objects, Arguments, Guarded, Swallows

-----------------------------------------------------------------------------
LEMMA Invariance == Spec => []IInv
<1>1. Init => IInv
  BY InitHolds
<1>2. IInv /\ [Next]_vars => IInv'
  <2> SUFFICES ASSUME IInv, [Next]_vars PROVE IInv'
    OBVIOUS
  <2>1. CASE \E entry \in Entries : Enter(entry)
    BY <2>1, EnterKeeps
  <2>2. CASE Keep
    BY <2>2, KeepKeeps
  <2>3. CASE Forget
    BY <2>3, ForgetKeeps
  <2>4. CASE CallbackReturns
    BY <2>4, CallbackReturnsKeeps
  <2>5. CASE CheckFails
    BY <2>5, CheckFailsKeeps
  <2>6. CASE CallbackRaises
    BY <2>6, CallbackRaisesKeeps
  <2>7. CASE UNCHANGED vars
    BY <2>7, StutterKeeps
  <2> QED
    BY <2>1, <2>2, <2>3, <2>4, <2>5, <2>6, <2>7 DEF Next
<1> QED
  BY <1>1, <1>2, PTL DEF Spec

(* Frames are calls of the entries in use, what is kept and what was       *)
(* raised is of events that have been handled - the SBE decoder included.  *)
THEOREM CallbacksTypeCorrectness == Spec => []TypeOK
<1>1. IInv => TypeOK
  BY DEF IInv
<1> QED
  BY <1>1, Invariance, PTL

(* Whatever callbacks keep, drop, raise and call, at every depth: unless   *)
(* the SBE decoder is used, Python holds no destroyed object without an    *)
(* exception from the call that handed it out (utils.hpp, and the checks   *)
(* after every callback).                                                  *)
THEOREM NeverSilentlyDangling ==
    ASSUME "sbe.Decoder" \notin Entries
    PROVE  Spec => []NoSilentDangling
<1>1. Guarded
  BY DEF Guarded, Swallows
<1>2. IInv => NoSilentDangling
  BY <1>1 DEF IInv
<1> QED
  BY <1>2, Invariance, PTL
=============================================================================
