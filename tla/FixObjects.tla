----------------------------- MODULE FixObjects -----------------------------
(***************************************************************************)
(* Who owns the memory behind a FIX message.  The decoder's values look    *)
(* into the bytes being decoded; the wrappers that Python gets to see      *)
(* (src/roq/python/codec/fix/details.hpp) copy the strings, with two       *)
(* exceptions: one member is a string_view, and classes with a repeating   *)
(* group also hold the group in the codec's own form, whose strings look   *)
(* into the members of the wrapper that the constructor made.  That        *)
(* wrapper lives on the stack of Decoder.dispatch; Python is given a copy. *)
(*                                                                         *)
(* A cell is a piece of memory with one lifetime: a Python buffer, the     *)
(* wrapper on the stack, or the wrapper inside a Python object.  What a    *)
(* message says does not matter, only into which cells it looks.           *)
(***************************************************************************)
EXTENDS FixBindings

CONSTANTS
    Classes,   \* the message classes that are used
    MaxCells   \* bound on the pieces of memory

(* The class with a string_view, text_.                                    *)
Viewing == {"BusinessMessageReject"}

(* The classes with a group, held twice: the copy is a member ..._2_.      *)
Mirroring == {class \in Messages \ Viewing : Members(class) \cap Groups # {}}

(* The classes whose members are all strings and plain values.             *)
Owning == Messages \ (Viewing \cup Mirroring)

ASSUME FixObjectsAssumption == Classes \subseteq Messages /\ MaxCells \in Nat

VARIABLES
    cells,  \* all cells so far
    live,   \* the positions of those that have not been freed
    calls,  \* the calls of Decoder.dispatch in progress, innermost last
    kept    \* the message objects that Python code holds on to

vars == <<cells, live, calls, kept>>

Init ==
    /\ cells = <<>>
    /\ live = {}
    /\ calls = <<>>
    /\ kept = {}

-----------------------------------------------------------------------------
(* A message in cell self: the cells that its strings, its string_view and *)
(* its group in the codec's form look into.                                *)
Message(class, built, self, view, group) ==
    [kind |-> "message", class |-> class, built |-> built,
     strings |-> self, view |-> view, group |-> group]

Bytes(class) == [kind |-> "bytes", class |-> class]

(* Mutant: the group is made from the constructor's argument.              *)
ConstructedFromArgument(class, built, source, self) ==
    Message(class, built, self, IF class \in Viewing THEN source ELSE self,
            IF class \in Mirroring THEN source ELSE self)

(* Constructed from decoded values, or Python arguments, in cell source.   *)
Constructed(class, built, source, self) ==
    Message(class, built, self, IF class \in Viewing THEN source ELSE self, self)

(* The implicit copy constructor: member by member.                        *)
Copied(message, self) ==
    Message(message.class, message.built, self,
            IF message.class \in Viewing THEN message.view ELSE self,
            IF message.class \in Mirroring THEN message.group ELSE self)

(* Mutant: the wrapper is a temporary, gone before the callback.           *)
DispatchTemporary(class) ==
    LET wire == Len(cells) + 1
        wrapper == Constructed(class, FALSE, wire, wire + 1)
    IN  /\ Len(cells) + 3 <= MaxCells
        /\ cells' = cells \o <<Bytes(class), wrapper, Copied(wrapper, wire + 2)>>
        /\ live' = live \cup {wire, wire + 2}
        /\ calls' = Append(calls, [wire |-> wire, value_2 |-> wire, object |-> wire + 2])
        /\ UNCHANGED kept

(* Decoder.dispatch: the message is decoded and wrapped on the stack, the  *)
(* wrapper is copied into a Python object, the callback starts.            *)
Dispatch(class) ==
    LET wire == Len(cells) + 1
        wrapper == Constructed(class, FALSE, wire, wire + 1)
    IN  /\ Len(cells) + 3 <= MaxCells
        /\ cells' = cells \o <<Bytes(class), wrapper, Copied(wrapper, wire + 2)>>
        /\ live' = live \cup {wire, wire + 1, wire + 2}
        /\ calls' = Append(calls, [wire |-> wire, value_2 |-> wire + 1, object |-> wire + 2])
        /\ UNCHANGED kept

(* Mutant: the object is freed although somebody holds it.                 *)
CallbackReturnsFrees ==
    /\ calls # <<>>
    /\ LET call == Last(calls)
       IN  live' = live \ {call.value_2, call.object}
    /\ calls' = Front(calls)
    /\ UNCHANGED <<cells, kept>>

(* The callback returns, or raises: the stack is unwound, and the object   *)
(* goes unless somebody holds it.                                          *)
CallbackReturns ==
    /\ calls # <<>>
    /\ LET call == Last(calls)
       IN  live' = (live \ {call.value_2}) \ ({call.object} \ kept)
    /\ calls' = Front(calls)
    /\ UNCHANGED <<cells, kept>>

Keep ==
    \E k \in 1 .. Len(calls) :
        /\ kept' = kept \cup {calls[k].object}
        /\ UNCHANGED <<cells, live, calls>>

Drop(object) ==
    /\ object \in kept
    /\ kept' = kept \ {object}
    /\ live' = live \ ({object} \ {calls[k].object : k \in 1 .. Len(calls)})
    /\ UNCHANGED <<cells, calls>>

(* Python creates a message from arguments of its own.                     *)
Construct(class) ==
    LET argument == Len(cells) + 1
    IN  /\ class \notin DecodedOnly
        /\ Len(cells) + 2 <= MaxCells
        /\ cells' = cells \o <<Bytes(class), Constructed(class, TRUE, argument, argument + 1)>>
        /\ live' = live \cup {argument, argument + 1}
        /\ kept' = kept \cup {argument + 1}
        /\ UNCHANGED calls

(* Python frees a buffer that no call in progress has as its argument.     *)
Release(buffer) ==
    /\ buffer \in live /\ cells[buffer].kind = "bytes"
    /\ \A k \in 1 .. Len(calls) : calls[k].wire # buffer
    /\ live' = live \ {buffer}
    /\ UNCHANGED <<cells, calls, kept>>

Next ==
    \/ \E class \in Classes : Dispatch(class)
    \/ CallbackReturns
    \/ Keep
    \/ \E object \in kept : Drop(object)
    \/ \E class \in Classes : Construct(class)
    \/ \E buffer \in live : Release(buffer)

Spec == Init /\ [][Next]_vars

-----------------------------------------------------------------------------
Positions == 1 .. Len(cells)

(* Every variable has its type; what Python can reach is there.            *)
TypeOK ==
    /\ cells \in Seq([kind : {"bytes"}, class : Classes] \cup
                     [kind : {"message"}, class : Classes, built : BOOLEAN,
                      strings : Positions, view : Positions, group : Positions])
    /\ live \subseteq Positions
    /\ calls \in Seq([wire : live, value_2 : live, object : live])
    /\ kept \subseteq live

(* All that a conversion to the codec's form reads (for encode, __repr__   *)
(* and most properties) is there.                                          *)
Readable(object) ==
    {object, cells[object].strings, cells[object].view, cells[object].group} \subseteq live

(* A callback can read its message, of whatever class, until it returns -  *)
(* nested calls, dropped references and freed buffers notwithstanding.     *)
ReadableInCallback == \A k \in 1 .. Len(calls) : Readable(calls[k].object)

(* A message of a class that owns its strings can be kept for as long as   *)
(* Python likes, and so can one with a group that Python has built itself. *)
OwnedStaysReadable ==
    \A object \in kept :
        \/ cells[object].class \in Owning
        \/ cells[object].class \in Mirroring /\ cells[object].built
        => Readable(object)

(* src/roq/python/codec/fix/details.cpp:1225 says that storing is noticed: *)
(* fix::Decoder does not look, so what a callback has stored had better be *)
(* readable.                                                               *)
StoredIsReadable == \A object \in kept : cells[object].built \/ Readable(object)
=============================================================================
