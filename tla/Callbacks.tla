------------------------------ MODULE Callbacks ------------------------------
(***************************************************************************)
(* How the binding hands C++ objects to Python callbacks, FIX messages     *)
(* apart (module FixObjects).  A callback is given utils::Ref wrappers of  *)
(* objects that live only until the handler returns; after the callback    *)
(* each handler checks that nobody kept a reference, and throws "Objects   *)
(* must not be stored" otherwise.                                          *)
(* The Python code is free: it keeps arguments and drops them again at any *)
(* time, raises, catches, and calls into the binding from a callback.      *)
(*                                                                         *)
(* frames is the stack of calls from Python into an entry of the binding,  *)
(* each with the event being handled; Python runs whenever it can move.    *)
(***************************************************************************)
EXTENDS Naturals, Sequences, SequencesExt

CONSTANTS
    Entries,    \* the entries of the binding that Python uses
    MaxDepth,   \* bound on calls made from within callbacks
    MaxEvents   \* bound on the events handled

(* The dispatcher's Bridge2, the event-log handlers, the SBE decoder and   *)
(* the lambda "dispatch" of sequence_helper.                               *)
AllEntries == {"Bridge2", "EventLogReader", "EventLogMultiplexer", "sbe.Decoder", "Sequencer"}

ASSUME CallbacksAssumption ==
    /\ Entries \subseteq AllEntries
    /\ MaxDepth \in Nat \ {0} /\ MaxEvents \in Nat

(* sbe.Decoder catches what is not a Python exception and returns 0.       *)
Swallows(entry) == entry = "sbe.Decoder"
Arguments(entry) == IF entry = "Sequencer" THEN {"arg0"} ELSE {"arg0", "arg1"}
ManyEvents(entry) == entry # "Sequencer"

VARIABLES
    frames,  \* the calls in progress, innermost last
    events,  \* events handled so far
    kept,    \* arguments that Python code holds on to
    raised   \* history: events of which the caller was told by an exception

vars == <<frames, events, kept, raised>>

Init ==
    /\ frames = <<>>
    /\ events = 0
    /\ kept = {}
    /\ raised = {}

Objects(frame) == [event : {frame.event}, arg : Arguments(frame.entry)]

(* Mutant: the event handled before.                                       *)
HandledBefore(entry) == [entry |-> entry, event |-> events]

Handled(entry) == [entry |-> entry, event |-> events + 1]

(* Python calls into the binding, which has an event for it.               *)
Enter(entry) ==
    /\ Len(frames) < MaxDepth /\ events < MaxEvents
    /\ events' = events + 1
    /\ frames' = Append(frames, Handled(entry))
    /\ UNCHANGED <<kept, raised>>

(* Any argument of a callback in progress can be reached, and stored.      *)
Keep ==
    \E k \in 1 .. Len(frames) : \E object \in Objects(frames[k]) :
        /\ kept' = kept \cup {object}
        /\ UNCHANGED <<frames, events, raised>>

Forget ==
    \E object \in kept :
        /\ kept' = kept \ {object}
        /\ UNCHANGED <<frames, events, raised>>

(* Mutant: only the first argument is looked at.                           *)
StoredFirst(frame) == \E object \in Objects(frame) \cap kept : object.arg = "arg0"

Stored(frame) == Objects(frame) \cap kept # {}

(* The callback returns, the check passes: the call returns or handles its *)
(* next event.                                                             *)
CallbackReturns ==
    /\ frames # <<>>
    /\ LET frame == Last(frames)
       IN  /\ ~Stored(frame)
           /\ \/ frames' = Front(frames) /\ UNCHANGED events
              \/ /\ ManyEvents(frame.entry) /\ events < MaxEvents
                 /\ frames' = Append(Front(frames), Handled(frame.entry))
                 /\ events' = events + 1
    /\ UNCHANGED <<kept, raised>>

(* The callback returns, the check throws.                                 *)
CheckFails ==
    /\ frames # <<>>
    /\ LET frame == Last(frames)
       IN  /\ Stored(frame)
           /\ raised' = IF Swallows(frame.entry) THEN raised ELSE raised \cup {frame.event}
    /\ frames' = Front(frames)
    /\ UNCHANGED <<events, kept>>

(* The callback raises: nothing is checked, the exception reaches the      *)
(* caller, and its traceback may hold on to the arguments.                 *)
CallbackRaises ==
    /\ frames # <<>>
    /\ LET frame == Last(frames)
       IN  /\ raised' = raised \cup {frame.event}
           /\ kept' \in {kept, kept \cup Objects(frame)}
    /\ frames' = Front(frames)
    /\ UNCHANGED events

Next ==
    \/ \E entry \in Entries : Enter(entry)
    \/ Keep
    \/ Forget
    \/ CallbackReturns
    \/ CheckFails
    \/ CallbackRaises

Spec == Init /\ [][Next]_vars

-----------------------------------------------------------------------------
(* Every variable has its type, and events are numbered as they come.      *)
TypeOK ==
    /\ frames \in Seq([entry : Entries, event : 1 .. events])
    /\ Len(frames) <= MaxDepth
    /\ events \in 0 .. MaxEvents
    /\ kept \subseteq [event : 1 .. events, arg : {"arg0", "arg1"}]
    /\ raised \subseteq 1 .. events

Alive(object) == \E k \in 1 .. Len(frames) : frames[k].event = object.event

(* Python never holds on to an object that has been destroyed without      *)
(* having been told so by an exception from the very call that handed it   *)
(* out - whatever callbacks call, keep, drop or raise (the checks after    *)
(* the callbacks, utils.hpp: "user is therefore not allowed to keep        *)
(* handles").                                                              *)
NoSilentDangling ==
    \A object \in kept : ~Alive(object) => object.event \in raised
=============================================================================
