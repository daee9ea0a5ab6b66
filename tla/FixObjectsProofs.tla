-------------------------- MODULE FixObjectsProofs --------------------------
(***************************************************************************)
(* FIX messages can be read in a callback, and those that own what they    *)
(* show can be kept: for every set of classes, every depth of nested calls *)
(* and however many pieces of memory.  The invariant says where a message  *)
(* may look: into itself, or, in a call in progress, into the bytes or the *)
(* wrapper of that very call, which no other call and nobody who has       *)
(* stored a message shares.                                                *)
(***************************************************************************)
EXTENDS FixObjects, TLAPS, SequenceTheorems

Cell(n) ==
    [kind : {"bytes"}, class : Classes] \cup
    [kind : {"message"}, class : Classes, built : BOOLEAN,
     strings : 1 .. n, view : 1 .. n, group : 1 .. n]

Call == [wire : Nat, value_2 : Nat, object : Nat]

(* A message has its strings, and all of it unless it has a view, or has a *)
(* group and was copied.                                                   *)
OwnsStrings ==
    \A p \in 1 .. Len(cells) : cells[p].kind = "message" =>
        /\ cells[p].strings = p
        /\ \/ cells[p].class \in Owning
           \/ cells[p].class \in Mirroring /\ cells[p].built
           => cells[p].view = p /\ cells[p].group = p

(* The three cells of a call in progress, among all cells.                 *)
Stacked(call, all, alive, held) ==
    /\ call.wire \in alive /\ call.value_2 \in alive /\ call.object \in alive
    /\ call.value_2 = call.wire + 1 /\ call.object = call.wire + 2
    /\ all[call.wire].kind = "bytes"
    /\ all[call.value_2].kind = "message" /\ all[call.object].kind = "message"
    /\ all[call.object].strings = call.object
    /\ all[call.object].view \in {call.wire, call.object}
    /\ all[call.object].group \in {call.value_2, call.object}
    /\ call.value_2 \notin held

InnerAfterOuter ==
    \A j, k \in 1 .. Len(calls) : j < k => calls[j].object < calls[k].wire

KeptAreMessages == \A object \in kept : cells[object].kind = "message"

IInv ==
    /\ cells \in Seq(Cell(Len(cells)))
    /\ live \subseteq 1 .. Len(cells)
    /\ kept \subseteq live
    /\ calls \in Seq(Call)
    /\ OwnsStrings
    /\ \A k \in 1 .. Len(calls) : Stacked(calls[k], cells, live, kept)
    /\ InnerAfterOuter
    /\ KeptAreMessages

-----------------------------------------------------------------------------
(* Sequences, put one after the other, and of elements of another set.     *)
LEMMA WiderSeq ==
    ASSUME NEW S, NEW T, S \subseteq T, NEW s \in Seq(S)
    PROVE  s \in Seq(T)
  OBVIOUS

LEMMA SeqOfElements ==
    ASSUME NEW S, NEW T, NEW s \in Seq(S), \A k \in 1 .. Len(s) : s[k] \in T
    PROVE  s \in Seq(T)
  OBVIOUS

LEMMA TwoMore ==
    ASSUME NEW T, NEW s \in Seq(T), NEW a \in T, NEW b \in T
    PROVE  /\ s \o <<a, b>> \in Seq(T)
           /\ Len(s \o <<a, b>>) = Len(s) + 2
           /\ \A k \in 1 .. Len(s) : (s \o <<a, b>>)[k] = s[k]
           /\ (s \o <<a, b>>)[Len(s) + 1] = a
           /\ (s \o <<a, b>>)[Len(s) + 2] = b
  OBVIOUS

LEMMA ThreeMore ==
    ASSUME NEW T, NEW s \in Seq(T), NEW a \in T, NEW b \in T, NEW c \in T
    PROVE  /\ s \o <<a, b, c>> \in Seq(T)
           /\ Len(s \o <<a, b, c>>) = Len(s) + 3
           /\ \A k \in 1 .. Len(s) : (s \o <<a, b, c>>)[k] = s[k]
           /\ (s \o <<a, b, c>>)[Len(s) + 1] = a
           /\ (s \o <<a, b, c>>)[Len(s) + 2] = b
           /\ (s \o <<a, b, c>>)[Len(s) + 3] = c
  OBVIOUS

LEMMA OneMore ==
    ASSUME NEW T, NEW s \in Seq(T), NEW a \in T
    PROVE  /\ Append(s, a) \in Seq(T)
           /\ Len(Append(s, a)) = Len(s) + 1
           /\ \A k \in 1 .. Len(s) : Append(s, a)[k] = s[k]
           /\ Append(s, a)[Len(s) + 1] = a
  OBVIOUS

(* The kinds of classes exclude each other.                                *)
LEMMA ClassesApart ==
    /\ \A class \in Owning : class \notin Viewing /\ class \notin Mirroring
    /\ \A class \in Mirroring : class \notin Viewing
  BY DEF Owning, Mirroring

LEMMA CellFacts ==
    /\ \A m, n \in Nat : m <= n => Cell(m) \subseteq Cell(n)
    /\ \A n \in Nat : \A c \in Cell(n) : c.kind \in {"bytes", "message"} /\ c.class \in Classes
    /\ \A n \in Nat : \A c \in Cell(n) : c.kind = "message" =>
          /\ c.built \in BOOLEAN
          /\ c.strings \in 1 .. n /\ c.view \in 1 .. n /\ c.group \in 1 .. n
<1>1. ASSUME NEW m \in Nat, NEW n \in Nat, m <= n PROVE Cell(m) \subseteq Cell(n)
  <2>1. 1 .. m \subseteq 1 .. n
    BY <1>1
  <2> QED
    BY <2>1 DEF Cell
<1> QED
  BY <1>1 DEF Cell

(* A message in cell self, made from cell source.                          *)
Made(m, n, class, built, source, self) ==
    /\ m \in Cell(n)
    /\ m.kind = "message" /\ m.class = class /\ m.built = built
    /\ m.strings = self /\ m.view \in {source, self} /\ m.group = self
    /\ class \in Owning \cup Mirroring => m.view = self
    /\ class \in Viewing => m.view = source

LEMMA MessageMade ==
    ASSUME NEW n \in Nat, NEW class \in Classes, NEW built \in BOOLEAN,
           NEW source \in 1 .. n, NEW self \in 1 .. n
    PROVE  Made(Constructed(class, built, source, self), n, class, built, source, self)
<1> DEFINE m == Constructed(class, built, source, self)
<1>1. m = [kind |-> "message", class |-> class, built |-> built, strings |-> self,
           view |-> IF class \in Viewing THEN source ELSE self, group |-> self]
  BY DEF Constructed, Message
<1> HIDE DEF m
<1>2. Made(m, n, class, built, source, self)
  BY <1>1, ClassesApart DEF Made, Cell
<1> QED
  BY <1>2 DEF m

(* A copy of a message, in cell self.                                      *)
CopyOf(m, n, message, self) ==
    /\ m \in Cell(n)
    /\ m.kind = "message" /\ m.class = message.class /\ m.built = message.built
    /\ m.strings = self
    /\ m.view = IF m.class \in Viewing THEN message.view ELSE self
    /\ m.group \in {message.group, self}
    /\ m.class \in Owning => m.view = self /\ m.group = self

LEMMA MessageCopied ==
    ASSUME NEW n \in Nat, NEW message \in Cell(n), message.kind = "message",
           NEW self \in 1 .. n
    PROVE  CopyOf(Copied(message, self), n, message, self)
<1> DEFINE m == Copied(message, self)
<1>1. m = [kind |-> "message", class |-> message.class, built |-> message.built,
           strings |-> self,
           view |-> IF message.class \in Viewing THEN message.view ELSE self,
           group |-> IF message.class \in Mirroring THEN message.group ELSE self]
  BY DEF Copied, Message
<1>2. /\ message.class \in Classes /\ message.built \in BOOLEAN
      /\ message.view \in 1 .. n /\ message.group \in 1 .. n
  BY CellFacts
<1> HIDE DEF m
<1>3. CopyOf(m, n, message, self)
  BY <1>1, <1>2, ClassesApart DEF CopyOf, Cell
<1> QED
  BY <1>3 DEF m

LEMMA Initially == Init => IInv
  BY DEF Init, IInv, OwnsStrings, InnerAfterOuter, KeptAreMessages

(* What is known of the state, for every proof about a step.               *)
LEMMA StateFacts ==
    ASSUME IInv
    PROVE  /\ cells \in Seq(Cell(Len(cells))) /\ Len(cells) \in Nat
           /\ calls \in Seq(Call) /\ Len(calls) \in Nat
           /\ \A k \in 1 .. Len(calls) : calls[k] \in Call /\ Stacked(calls[k], cells, live, kept)
           /\ \A object \in kept : object \in live /\ object \in 1 .. Len(cells)
<1>1. cells \in Seq(Cell(Len(cells))) /\ calls \in Seq(Call)
  BY DEF IInv
<1>2. Len(cells) \in Nat /\ Len(calls) \in Nat
  BY <1>1
<1>3. \A k \in 1 .. Len(calls) : calls[k] \in Call
  BY <1>1
<1> QED
  BY <1>1, <1>2, <1>3 DEF IInv

(* The cells of different calls are different.                             *)
LEMMA CallsApart ==
    ASSUME IInv, NEW j \in 1 .. Len(calls), NEW k \in 1 .. Len(calls), j # k
    PROVE  /\ {calls[j].wire, calls[j].value_2, calls[j].object}
                \cap {calls[k].wire, calls[k].value_2, calls[k].object} = {}
<1>1. /\ calls[j] \in Call /\ calls[k] \in Call /\ Len(calls) \in Nat
      /\ calls[j].value_2 = calls[j].wire + 1 /\ calls[j].object = calls[j].wire + 2
      /\ calls[k].value_2 = calls[k].wire + 1 /\ calls[k].object = calls[k].wire + 2
  BY StateFacts DEF Stacked
<1>2. calls[j].wire \in Nat /\ calls[k].wire \in Nat
  BY <1>1 DEF Call
<1>3. calls[j].object < calls[k].wire \/ calls[k].object < calls[j].wire
  BY <1>1 DEF IInv, InnerAfterOuter
<1> QED
  BY <1>1, <1>2, <1>3

(* Where references and lives change and the cells stay.                   *)
LEMMA CellsStay ==
    ASSUME IInv, cells' = cells, live' \subseteq live, kept' \subseteq live',
           \A object \in kept' : cells[object].kind = "message",
           calls' \in Seq(Call), Len(calls') <= Len(calls),
           \A k \in 1 .. Len(calls') :
              /\ calls'[k] = calls[k]
              /\ {calls[k].wire, calls[k].value_2, calls[k].object} \subseteq live'
              /\ calls[k].value_2 \notin kept'
    PROVE  IInv'
<1>1. Len(calls) \in Nat /\ Len(calls') \in Nat
  BY StateFacts
<1>2. \A k \in 1 .. Len(calls') : k \in 1 .. Len(calls)
  BY <1>1
<1>3. \A k \in 1 .. Len(calls') : Stacked(calls'[k], cells', live', kept')
  BY <1>2, StateFacts DEF Stacked
<1>4. InnerAfterOuter'
  BY <1>2 DEF IInv, InnerAfterOuter
<1>5. cells' \in Seq(Cell(Len(cells'))) /\ OwnsStrings' /\ live' \subseteq 1 .. Len(cells')
  BY DEF IInv, OwnsStrings
<1>6. KeptAreMessages'
  BY DEF KeptAreMessages
<1> QED
  BY <1>3, <1>4, <1>5, <1>6 DEF IInv

LEMMA KeepKeeps == ASSUME IInv, Keep PROVE IInv'
<1>1. PICK k \in 1 .. Len(calls) :
          /\ kept' = kept \cup {calls[k].object}
          /\ UNCHANGED <<cells, live, calls>>
  BY DEF Keep
<1>2. /\ calls[k] \in Call /\ Stacked(calls[k], cells, live, kept)
      /\ calls \in Seq(Call) /\ Len(calls) \in Nat
  BY StateFacts
<1>3. kept' \subseteq live /\ \A object \in kept' : cells[object].kind = "message"
  BY <1>1, <1>2 DEF IInv, KeptAreMessages, Stacked
<1>4. ASSUME NEW j \in 1 .. Len(calls)
      PROVE  /\ {calls[j].wire, calls[j].value_2, calls[j].object} \subseteq live
             /\ calls[j].value_2 \notin kept'
  <2>1. Stacked(calls[j], cells, live, kept) /\ calls[j] \in Call
    BY StateFacts
  <2>2. calls[j].value_2 # calls[k].object
    <3>1. CASE j = k
      <4>1. calls[k].wire \in Nat
        BY <1>2 DEF Call
      <4> QED
        BY <1>2, <3>1, <4>1 DEF Stacked
    <3>2. CASE j # k
      BY <3>2, CallsApart
    <3> QED
      BY <3>1, <3>2
  <2> QED
    BY <1>1, <2>1, <2>2 DEF Stacked
<1>5. /\ cells' = cells /\ live' \subseteq live /\ kept' \subseteq live'
      /\ calls' \in Seq(Call) /\ Len(calls') <= Len(calls)
      /\ \A j \in 1 .. Len(calls') :
            /\ calls'[j] = calls[j]
            /\ {calls[j].wire, calls[j].value_2, calls[j].object} \subseteq live'
            /\ calls[j].value_2 \notin kept'
  BY <1>1, <1>2, <1>3, <1>4
<1> QED
  BY <1>3, <1>5, CellsStay

LEMMA DropKeeps == ASSUME IInv, NEW object \in kept, Drop(object) PROVE IInv'
<1>1. /\ kept' = kept \ {object}
      /\ live' = live \ ({object} \ {calls[k].object : k \in 1 .. Len(calls)})
      /\ UNCHANGED <<cells, calls>>
  BY DEF Drop
<1>2. /\ calls \in Seq(Call) /\ Len(calls) \in Nat
      /\ kept \subseteq live /\ \A o \in kept : cells[o].kind = "message"
  BY StateFacts DEF IInv, KeptAreMessages
<1>3. ASSUME NEW j \in 1 .. Len(calls)
      PROVE  /\ {calls[j].wire, calls[j].value_2, calls[j].object} \subseteq live'
             /\ calls[j].value_2 \notin kept'
  <2>1. Stacked(calls[j], cells, live, kept)
    BY StateFacts
  <2>2. calls[j].wire # object
    BY <1>2, <2>1 DEF Stacked
  <2> QED
    BY <1>1, <2>1, <2>2 DEF Stacked
<1>4. /\ cells' = cells /\ live' \subseteq live /\ kept' \subseteq live'
      /\ \A o \in kept' : cells[o].kind = "message"
  BY <1>1, <1>2
<1>5. /\ calls' \in Seq(Call) /\ Len(calls') <= Len(calls)
      /\ \A j \in 1 .. Len(calls') :
            /\ calls'[j] = calls[j]
            /\ {calls[j].wire, calls[j].value_2, calls[j].object} \subseteq live'
            /\ calls[j].value_2 \notin kept'
  BY <1>1, <1>2, <1>3
<1> QED
  BY <1>4, <1>5, CellsStay

LEMMA ReleaseKeeps == ASSUME IInv, NEW buffer \in live, Release(buffer) PROVE IInv'
<1>1. /\ cells[buffer].kind = "bytes"
      /\ \A k \in 1 .. Len(calls) : calls[k].wire # buffer
      /\ live' = live \ {buffer}
      /\ UNCHANGED <<cells, calls, kept>>
  BY DEF Release
<1>2. /\ calls \in Seq(Call) /\ Len(calls) \in Nat
      /\ kept \subseteq live /\ \A o \in kept : cells[o].kind = "message"
  BY StateFacts DEF IInv, KeptAreMessages
<1>3. ASSUME NEW j \in 1 .. Len(calls)
      PROVE  /\ {calls[j].wire, calls[j].value_2, calls[j].object} \subseteq live'
             /\ calls[j].value_2 \notin kept'
  <2>1. Stacked(calls[j], cells, live, kept)
    BY StateFacts
  <2> QED
    BY <1>1, <2>1 DEF Stacked
<1>4. /\ cells' = cells /\ live' \subseteq live /\ kept' \subseteq live'
      /\ \A o \in kept' : cells[o].kind = "message"
  BY <1>1, <1>2
<1>5. /\ calls' \in Seq(Call) /\ Len(calls') <= Len(calls)
      /\ \A j \in 1 .. Len(calls') :
            /\ calls'[j] = calls[j]
            /\ {calls[j].wire, calls[j].value_2, calls[j].object} \subseteq live'
            /\ calls[j].value_2 \notin kept'
  BY <1>1, <1>2, <1>3
<1> QED
  BY <1>4, <1>5, CellsStay

(* The innermost call, and the calls without it.                           *)
LEMMA Innermost ==
    ASSUME NEW S, NEW s \in Seq(S), s # <<>>
    PROVE  /\ Front(s) \in Seq(S)
           /\ Len(s) \in Nat \ {0}
           /\ Len(Front(s)) = Len(s) - 1
           /\ \A k \in 1 .. Len(Front(s)) : k \in 1 .. Len(s) - 1 /\ Front(s)[k] = s[k]
           /\ Last(s) = s[Len(s)]
<1>1. Len(s) \in Nat \ {0}
  BY EmptySeq, LenProperties
<1>2. Front(s) = [k \in 1 .. Len(s) - 1 |-> s[k]]
  BY <1>1 DEF Front
<1>3. Len(s) - 1 \in Nat /\ \A k \in 1 .. Len(s) - 1 : s[k] \in S
  BY <1>1
<1>4. Front(s) \in Seq(S) /\ Len(Front(s)) = Len(s) - 1
  BY <1>2, <1>3
<1> QED
  BY <1>1, <1>2, <1>4 DEF Last

LEMMA CallbackReturnsKeeps == ASSUME IInv, CallbackReturns PROVE IInv'
<1> DEFINE call == Last(calls)
           n == Len(calls)
<1>1. /\ calls # <<>>
      /\ live' = (live \ {call.value_2}) \ ({call.object} \ kept)
      /\ calls' = Front(calls)
      /\ UNCHANGED <<cells, kept>>
  BY DEF CallbackReturns
<1>2. /\ calls \in Seq(Call)
      /\ kept \subseteq live /\ \A o \in kept : cells[o].kind = "message"
  BY StateFacts DEF IInv, KeptAreMessages
<1>3. /\ calls' \in Seq(Call) /\ n \in Nat \ {0} /\ Len(calls') = n - 1
      /\ \A k \in 1 .. Len(calls') : k \in 1 .. n - 1 /\ calls'[k] = calls[k]
      /\ call = calls[n]
  BY <1>1, <1>2, Innermost
<1> HIDE DEF call
<1>4. n \in 1 .. n /\ \A k \in 1 .. n - 1 : k \in 1 .. n /\ k # n
  BY <1>3
<1>5. call.value_2 \notin kept
  BY <1>3, <1>4, StateFacts DEF Stacked
<1>6. ASSUME NEW j \in 1 .. n - 1
      PROVE  /\ {calls[j].wire, calls[j].value_2, calls[j].object} \subseteq live'
             /\ calls[j].value_2 \notin kept'
  <2>1. Stacked(calls[j], cells, live, kept)
    BY <1>4, StateFacts
  <2>2. {calls[j].wire, calls[j].value_2, calls[j].object}
             \cap {call.wire, call.value_2, call.object} = {}
    BY <1>3, <1>4, CallsApart
  <2> QED
    BY <1>1, <2>1, <2>2 DEF Stacked
<1>7. /\ cells' = cells /\ live' \subseteq live /\ kept' \subseteq live'
      /\ \A o \in kept' : cells[o].kind = "message"
  BY <1>1, <1>2, <1>5
<1>8. /\ calls' \in Seq(Call) /\ Len(calls') <= Len(calls)
      /\ \A j \in 1 .. Len(calls') :
            /\ calls'[j] = calls[j]
            /\ {calls[j].wire, calls[j].value_2, calls[j].object} \subseteq live'
            /\ calls[j].value_2 \notin kept'
  BY <1>3, <1>6
<1> QED
  BY <1>7, <1>8, CellsStay

(* Where cells are added, and perhaps a message in one of them kept.       *)
LEMMA CellsGrow ==
    ASSUME IInv, Len(cells') \in Nat, Len(cells) <= Len(cells'),
           cells' \in Seq(Cell(Len(cells'))),
           \A p \in 1 .. Len(cells) : cells'[p] = cells[p],
           \A p \in 1 .. Len(cells') : p \notin 1 .. Len(cells) /\ cells'[p].kind = "message" =>
              /\ cells'[p].strings = p
              /\ \/ cells'[p].class \in Owning
                 \/ cells'[p].class \in Mirroring /\ cells'[p].built
                 => cells'[p].view = p /\ cells'[p].group = p,
           live \subseteq live', live' \subseteq 1 .. Len(cells'),
           kept \subseteq kept', kept' \subseteq live',
           \A object \in kept' : object \notin kept =>
              object \notin 1 .. Len(cells) /\ cells'[object].kind = "message"
    PROVE  /\ OwnsStrings' /\ KeptAreMessages'
           /\ \A k \in 1 .. Len(calls) : Stacked(calls[k], cells', live', kept')
<1>1. /\ live \subseteq 1 .. Len(cells) /\ kept \subseteq live /\ Len(cells) \in Nat
      /\ \A object \in kept : cells[object].kind = "message"
  BY StateFacts DEF IInv, KeptAreMessages
<1>2. OwnsStrings'
  <2> SUFFICES ASSUME NEW p \in 1 .. Len(cells'), cells'[p].kind = "message"
               PROVE  /\ cells'[p].strings = p
                      /\ \/ cells'[p].class \in Owning
                         \/ cells'[p].class \in Mirroring /\ cells'[p].built
                         => cells'[p].view = p /\ cells'[p].group = p
    BY Zenon DEF OwnsStrings
  <2>1. CASE p \in 1 .. Len(cells)
    BY <2>1 DEF IInv, OwnsStrings
  <2>2. CASE p \notin 1 .. Len(cells)
    BY <2>2
  <2> QED
    BY <2>1, <2>2
<1>3. KeptAreMessages'
  BY <1>1 DEF KeptAreMessages
<1>4. ASSUME NEW k \in 1 .. Len(calls) PROVE Stacked(calls[k], cells', live', kept')
  <2>1. Stacked(calls[k], cells, live, kept)
    BY StateFacts
  <2>2. {calls[k].wire, calls[k].value_2, calls[k].object} \subseteq 1 .. Len(cells)
    BY <1>1, <2>1 DEF Stacked
  <2> QED
    BY <2>1, <2>2 DEF Stacked
<1> QED
  BY <1>2, <1>3, <1>4

LEMMA DispatchKeeps ==
    ASSUME IInv, NEW class \in Classes, Dispatch(class) PROVE IInv'
<1> DEFINE wire == Len(cells) + 1
           wrapper == Constructed(class, FALSE, wire, wire + 1)
           copy == Copied(wrapper, wire + 2)
           bytes == Bytes(class)
           call == [wire |-> wire, value_2 |-> wire + 1, object |-> wire + 2]
           n == Len(cells) + 3
<1>1. /\ cells' = cells \o <<bytes, wrapper, copy>>
      /\ live' = live \cup {wire, wire + 1, wire + 2}
      /\ calls' = Append(calls, call)
      /\ kept' = kept
  BY DEF Dispatch
<1>2. /\ Len(cells) \in Nat /\ n \in Nat /\ wire \in Nat
      /\ wire \in 1 .. n /\ wire + 1 \in 1 .. n /\ wire + 2 \in 1 .. n
  BY StateFacts
<1>3. bytes \in Cell(n) /\ bytes.kind = "bytes"
  BY DEF Bytes, Cell
<1>4. /\ wrapper \in Cell(n)
      /\ wrapper.kind = "message" /\ wrapper.class = class /\ wrapper.built = FALSE
      /\ wrapper.strings = wire + 1 /\ wrapper.view \in {wire, wire + 1}
      /\ wrapper.group = wire + 1
      /\ class \in Owning \cup Mirroring => wrapper.view = wire + 1
      /\ class \in Viewing => wrapper.view = wire
  <2>1. Made(wrapper, n, class, FALSE, wire, wire + 1)
    <3> HIDE DEF n, wire
    <3> QED
      BY <1>2, MessageMade
  <2> HIDE DEF wrapper
  <2> QED
    BY <2>1, Zenon DEF Made
<1>5. /\ copy \in Cell(n)
      /\ copy.kind = "message" /\ copy.class = class /\ copy.built = FALSE
      /\ copy.strings = wire + 2
      /\ copy.view \in {wire, wire + 2} /\ copy.group \in {wire + 1, wire + 2}
      /\ copy.class \in Owning => copy.view = wire + 2 /\ copy.group = wire + 2
  <2>1. /\ copy \in Cell(n)
        /\ copy.kind = "message" /\ copy.class = class /\ copy.built = FALSE
        /\ copy.strings = wire + 2
        /\ copy.view = IF class \in Viewing THEN wrapper.view ELSE wire + 2
        /\ copy.group \in {wire + 1, wire + 2}
        /\ copy.class \in Owning => copy.view = wire + 2 /\ copy.group = wire + 2
    <3>1. CopyOf(copy, n, wrapper, wire + 2)
      <4> HIDE DEF n, wire, wrapper
      <4> QED
        BY <1>2, <1>4, MessageCopied
    <3> HIDE DEF copy, wrapper, n, wire
    <3> QED
      BY <1>4, <3>1 DEF CopyOf
  <2> HIDE DEF copy, wrapper
  <2> QED
    BY <1>4, <2>1
<1> HIDE DEF bytes, wrapper, copy
<1>6. /\ cells' \in Seq(Cell(n)) /\ Len(cells') = n
      /\ \A p \in 1 .. Len(cells) : cells'[p] = cells[p]
      /\ cells'[wire] = bytes /\ cells'[wire + 1] = wrapper /\ cells'[wire + 2] = copy
  <2>1. cells \in Seq(Cell(n))
    <3>1. Cell(Len(cells)) \subseteq Cell(n)
      BY <1>2, CellFacts
    <3> QED
      BY <3>1, StateFacts, WiderSeq
  <2>2. /\ cells' \in Seq(Cell(n)) /\ Len(cells') = Len(cells) + 3
        /\ \A p \in 1 .. Len(cells) : cells'[p] = cells[p]
        /\ cells'[Len(cells) + 1] = bytes /\ cells'[Len(cells) + 2] = wrapper
        /\ cells'[Len(cells) + 3] = copy
    <3> HIDE DEF n, wire
    <3> QED
      BY <1>1, <1>3, <1>4, <1>5, <2>1, ThreeMore
  <2>3. wire + 1 = Len(cells) + 2 /\ wire + 2 = Len(cells) + 3
    BY <1>2
  <2> QED
    BY <2>2, <2>3
<1>7. \A p \in 1 .. n : p \in 1 .. Len(cells) \/ p \in {wire, wire + 1, wire + 2}
  BY <1>2
<1>8. \A p \in 1 .. Len(cells) : p \notin {wire, wire + 1, wire + 2}
  BY <1>2
<1>9. /\ live \subseteq 1 .. Len(cells) /\ kept \subseteq live
      /\ live' \subseteq 1 .. n /\ kept \subseteq live' /\ Len(cells) <= n
  <2>1. 1 .. Len(cells) \subseteq 1 .. n /\ Len(cells) <= n
    BY <1>2
  <2>2. live \subseteq 1 .. Len(cells) /\ kept \subseteq live
    BY DEF IInv
  <2> HIDE DEF n, wire
  <2> QED
    BY <1>1, <1>2, <2>1, <2>2
<1>10. /\ OwnsStrings' /\ KeptAreMessages'
       /\ \A k \in 1 .. Len(calls) : Stacked(calls[k], cells', live', kept')
  <2>1. \A p \in 1 .. Len(cells') : p \notin 1 .. Len(cells) /\ cells'[p].kind = "message" =>
              /\ cells'[p].strings = p
              /\ \/ cells'[p].class \in Owning
                 \/ cells'[p].class \in Mirroring /\ cells'[p].built
                 => cells'[p].view = p /\ cells'[p].group = p
    <3> HIDE DEF n, wire
    <3> QED
      BY <1>3, <1>4, <1>5, <1>6, <1>7
  <2>2. \A object \in kept' : object \notin kept =>
              object \notin 1 .. Len(cells) /\ cells'[object].kind = "message"
    BY <1>1
  <2>3. live \subseteq live' /\ kept \subseteq kept' /\ kept' \subseteq live'
    BY <1>1, <1>9
  <2>4. /\ cells' \in Seq(Cell(Len(cells'))) /\ Len(cells') \in Nat /\ Len(cells) <= Len(cells')
        /\ live' \subseteq 1 .. Len(cells')
    BY <1>2, <1>6, <1>9
  <2> QED
    BY <1>6, <2>1, <2>2, <2>3, <2>4, CellsGrow
<1>11. Stacked(call, cells', live', kept')
  <2>1. /\ call.wire = wire /\ call.value_2 = wire + 1 /\ call.object = wire + 2
    OBVIOUS
  <2>2. wire + 1 \notin kept
    BY <1>8, <1>9
  <2> HIDE DEF call, n, wire
  <2> QED
    BY <1>1, <1>3, <1>4, <1>5, <1>6, <2>1, <2>2 DEF Stacked
<1>12. call \in Call /\ call.wire = wire
  BY <1>2 DEF Call
<1> HIDE DEF call
<1>13. /\ calls' \in Seq(Call) /\ Len(calls') = Len(calls) + 1 /\ Len(calls) \in Nat
       /\ \A k \in 1 .. Len(calls) : calls'[k] = calls[k]
       /\ calls'[Len(calls) + 1] = call
  BY <1>1, <1>12, StateFacts, OneMore
<1>14. \A k \in 1 .. Len(calls') : k \in 1 .. Len(calls) \/ k = Len(calls) + 1
  BY <1>13
<1>15. \A k \in 1 .. Len(calls') : Stacked(calls'[k], cells', live', kept')
  BY <1>10, <1>11, <1>13, <1>14
<1>16. InnerAfterOuter'
  <2>1. ASSUME NEW j \in 1 .. Len(calls'), NEW k \in 1 .. Len(calls'), j < k
        PROVE  calls'[j].object < calls'[k].wire
    <3>1. j \in 1 .. Len(calls)
      BY <1>13, <2>1
    <3>2. CASE k \in 1 .. Len(calls)
      BY <1>13, <2>1, <3>1, <3>2 DEF IInv, InnerAfterOuter
    <3>3. CASE k = Len(calls) + 1
      <4>1. Stacked(calls[j], cells, live, kept)
        BY <3>1, StateFacts
      <4>2. calls[j].object \in 1 .. Len(cells)
        BY <1>9, <4>1 DEF Stacked
      <4>3. calls'[k].wire = Len(cells) + 1 /\ calls'[j] = calls[j]
        BY <1>12, <1>13, <3>1, <3>3
      <4> QED
        BY <1>2, <4>2, <4>3
    <3> QED
      BY <1>14, <3>2, <3>3
  <2> QED
    BY <2>1 DEF InnerAfterOuter
<1> QED
  BY <1>1, <1>6, <1>9, <1>10, <1>13, <1>15, <1>16 DEF IInv

LEMMA ConstructKeeps ==
    ASSUME IInv, NEW class \in Classes, Construct(class) PROVE IInv'
<1> DEFINE argument == Len(cells) + 1
           message == Constructed(class, TRUE, argument, argument + 1)
           bytes == Bytes(class)
           n == Len(cells) + 2
<1>1. /\ cells' = cells \o <<bytes, message>>
      /\ live' = live \cup {argument, argument + 1}
      /\ kept' = kept \cup {argument + 1}
      /\ calls' = calls
  BY DEF Construct
<1>2. /\ Len(cells) \in Nat /\ n \in Nat /\ argument \in Nat
      /\ argument \in 1 .. n /\ argument + 1 \in 1 .. n
  BY StateFacts
<1>3. bytes \in Cell(n) /\ bytes.kind = "bytes"
  BY DEF Bytes, Cell
<1>4. /\ message \in Cell(n)
      /\ message.kind = "message" /\ message.class = class /\ message.built = TRUE
      /\ message.strings = argument + 1 /\ message.group = argument + 1
      /\ class \in Owning \cup Mirroring => message.view = argument + 1
  <2>1. Made(message, n, class, TRUE, argument, argument + 1)
    <3> HIDE DEF n, argument
    <3> QED
      BY <1>2, MessageMade
  <2> HIDE DEF message
  <2> QED
    BY <2>1, Zenon DEF Made
<1> HIDE DEF bytes, message
<1>5. /\ cells' \in Seq(Cell(n)) /\ Len(cells') = n
      /\ \A p \in 1 .. Len(cells) : cells'[p] = cells[p]
      /\ cells'[argument] = bytes /\ cells'[argument + 1] = message
  <2>1. cells \in Seq(Cell(n))
    <3>1. Cell(Len(cells)) \subseteq Cell(n)
      BY <1>2, CellFacts
    <3> QED
      BY <3>1, StateFacts, WiderSeq
  <2>2. /\ cells' \in Seq(Cell(n)) /\ Len(cells') = Len(cells) + 2
        /\ \A p \in 1 .. Len(cells) : cells'[p] = cells[p]
        /\ cells'[Len(cells) + 1] = bytes /\ cells'[Len(cells) + 2] = message
    <3> HIDE DEF n, argument
    <3> QED
      BY <1>1, <1>3, <1>4, <2>1, TwoMore
  <2>3. argument + 1 = Len(cells) + 2
    BY <1>2
  <2> QED
    BY <2>2, <2>3
<1>6. /\ \A p \in 1 .. n : p \in 1 .. Len(cells) \/ p \in {argument, argument + 1}
      /\ argument + 1 \notin 1 .. Len(cells)
  BY <1>2
<1>7. /\ live \subseteq 1 .. Len(cells) /\ kept \subseteq live
      /\ live' \subseteq 1 .. n /\ kept' \subseteq live' /\ Len(cells) <= n
      /\ live \subseteq live' /\ kept \subseteq kept'
  <2>1. 1 .. Len(cells) \subseteq 1 .. n /\ Len(cells) <= n
    BY <1>2
  <2>2. live \subseteq 1 .. Len(cells) /\ kept \subseteq live
    BY DEF IInv
  <2> HIDE DEF n, argument
  <2> QED
    BY <1>1, <1>2, <2>1, <2>2
<1>8. /\ OwnsStrings' /\ KeptAreMessages'
      /\ \A k \in 1 .. Len(calls) : Stacked(calls[k], cells', live', kept')
  <2>1. \A p \in 1 .. Len(cells') : p \notin 1 .. Len(cells) /\ cells'[p].kind = "message" =>
              /\ cells'[p].strings = p
              /\ \/ cells'[p].class \in Owning
                 \/ cells'[p].class \in Mirroring /\ cells'[p].built
                 => cells'[p].view = p /\ cells'[p].group = p
    <3> HIDE DEF n, argument
    <3> QED
      BY <1>3, <1>4, <1>5, <1>6
  <2>2. \A object \in kept' : object \notin kept =>
              object \notin 1 .. Len(cells) /\ cells'[object].kind = "message"
    BY <1>1, <1>4, <1>5, <1>6
  <2>3. /\ cells' \in Seq(Cell(Len(cells'))) /\ Len(cells') \in Nat /\ Len(cells) <= Len(cells')
        /\ live' \subseteq 1 .. Len(cells')
    BY <1>2, <1>5, <1>7
  <2> QED
    BY <1>5, <1>7, <2>1, <2>2, <2>3, CellsGrow
<1>9. calls' \in Seq(Call) /\ InnerAfterOuter'
  BY <1>1 DEF IInv, InnerAfterOuter
<1> QED
  BY <1>1, <1>5, <1>7, <1>8, <1>9 DEF IInv

LEMMA StepKeeps == IInv /\ [Next]_vars => IInv'
<1> SUFFICES ASSUME IInv, [Next]_vars PROVE IInv'
  OBVIOUS
<1>1. CASE UNCHANGED vars
  BY <1>1 DEF vars, IInv, OwnsStrings, Stacked, InnerAfterOuter, KeptAreMessages
<1> QED
  BY <1>1, DispatchKeeps, CallbackReturnsKeeps, KeepKeeps, DropKeeps, ConstructKeeps,
     ReleaseKeeps DEF Next

LEMMA Invariance == Spec => []IInv
  BY Initially, StepKeeps, PTL DEF Spec

-----------------------------------------------------------------------------
(* The variables keep their types: what Python can reach, and what is on   *)
(* the stack, has not been freed.                                          *)
THEOREM ObjectsTypeCorrectness == Spec => []TypeOK
<1>1. ASSUME IInv PROVE TypeOK
  <2>1. cells \in Seq(Cell(Len(cells)))
    BY <1>1 DEF IInv
  <2>2. calls \in Seq([wire : live, value_2 : live, object : live])
    <3>1. calls \in Seq(Call)
      BY <1>1, StateFacts
    <3>2. \A k \in 1 .. Len(calls) : calls[k] \in [wire : live, value_2 : live, object : live]
      BY <1>1, StateFacts DEF Call, Stacked
    <3> QED
      BY <3>1, <3>2, SeqOfElements
  <2> QED
    BY <1>1, <2>1, <2>2 DEF IInv, TypeOK, Cell, Positions
<1> QED
  BY <1>1, Invariance, PTL

(* Decoder.dispatch: until a callback returns its message can be read,     *)
(* whatever its class.                                                     *)
THEOREM CallbacksCanRead == Spec => []ReadableInCallback
<1>1. ASSUME IInv PROVE ReadableInCallback
  BY <1>1, StateFacts DEF ReadableInCallback, Readable, Stacked
<1> QED
  BY <1>1, Invariance, PTL

(* A message that owns what it shows, or that Python has built itself, can *)
(* be kept.                                                                *)
THEOREM OwnersCanBeKept == Spec => []OwnedStaysReadable
<1>1. ASSUME IInv PROVE OwnedStaysReadable
  BY <1>1, StateFacts DEF IInv, OwnedStaysReadable, Readable, OwnsStrings, KeptAreMessages
<1> QED
  BY <1>1, Invariance, PTL
=============================================================================
