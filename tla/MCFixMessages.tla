--------------------------- MODULE MCFixMessages ---------------------------
(***************************************************************************)
(* FixObjects, about the memory behind FIX messages, and FixFields, about  *)
(* what they say, checked in one run.  They share no variable and nothing  *)
(* in either depends on the other, so that their steps need no             *)
(* interleaving: a behaviour is one of the one or one of the other.        *)
(***************************************************************************)
EXTENDS FixObjects

CONSTANTS
    Amounts,  \* what an argument or a field may say
    MaxHops   \* bound on how often a message is decoded

ASSUME FixMessagesAssumption == Amounts \subseteq Nat /\ MaxHops \in Nat

VARIABLES class, said, form, fields, read, hops

fieldsVars == <<class, said, form, fields, read, hops>>

Fields == INSTANCE FixFields

(* The objects' behaviours are gone through beside one class, not all.     *)
Beside == "Heartbeat"

MCInit == Init /\ Fields!Init

MCNext ==
    \/ cells = <<>> /\ Fields!Next /\ UNCHANGED vars
    \/ form = "none" /\ class = Beside /\ Next /\ UNCHANGED fieldsVars

MCSpec == MCInit /\ [][MCNext]_<<vars, fieldsVars>>

(* FixFields: every variable has its type, an object says nothing for      *)
(* which its class has no member, and what is on the wire fits there.      *)
FieldsTypeOK == Fields!TypeOK

(* FixFields: each field says what was said under its name, however often  *)
(* the message is encoded and decoded again.                               *)
NothingMixedUp == Fields!NothingMixedUp

(* FixFields: what was said stays said, but for the losses it lists.       *)
NothingElseIsLost == Fields!NothingElseIsLost

(* FixFields: a constructor refuses the names of its class's fields only   *)
(* if one of the seven misspelt is among them or one it needs is not.      *)
RefusedForCause == Fields!RefusedForCause

=============================================================================
