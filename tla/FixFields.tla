----------------------------- MODULE FixFields ------------------------------
(***************************************************************************)
(* What a FIX message says, on its way between Python and the wire.  A     *)
(* value goes from a keyword to a position, to a member of the wrapper,    *)
(* to a field of the codec's structure; a decoded message goes the other   *)
(* way, and what was decoded can be encoded again.  Hundreds of names are  *)
(* written out by hand for that, four times each; a slip compiles.         *)
(*                                                                         *)
(* One message is followed.  It is a set of fields, those that say         *)
(* something.  A field remembers under which name it was said, how much    *)
(* (of seconds if it is an interval, microseconds if a time) and whether   *)
(* the decimals are known; what else it says does not matter.              *)
(***************************************************************************)
EXTENDS FixBindings

CONSTANTS
    Amounts,  \* what an argument or a field may say, natural numbers
    MaxHops   \* bound on how often a message is decoded

VARIABLES
    class,   \* the class of the message
    said,    \* what Python's arguments, or the peer, said
    form,    \* what the message is now
    fields,  \* what it says now
    read,    \* what Python has read of it
    hops     \* how often it has been decoded

vars == <<class, said, form, fields, read, hops>>

Field(name, says, amount, precise) ==
    [name |-> name, says |-> says, amount |-> amount, precise |-> precise]

Argument(name, amount) == Field(name, name, amount, FALSE)

(* The codec's fields are 16 bits for the interval, milliseconds for times *)
Sayable(amount) == amount < 2 ^ 16 /\ amount % 1000 = 0

Init ==
    /\ class \in DOMAIN FixClass
    /\ said = {}
    /\ form = "none"
    /\ fields = {}
    /\ read = {}
    /\ hops = 0

-----------------------------------------------------------------------------
(* An argument becomes a member: a time loses what is less than a          *)
(* millisecond, a date is not converted at all.                            *)
FromPython(name, argument) ==
    IF name \in Dates THEN {}
    ELSE IF name \in Times
    THEN {Field(name, argument.says, argument.amount - (argument.amount % 1000), FALSE)}
    ELSE {Field(name, argument.says, argument.amount, FALSE)}

(* The arguments, at their positions, become the members of an object.     *)
Constructed(argumentAt) ==
    UNION {FromPython(FixClass[class].members[k], argumentAt[k]) : k \in DOMAIN argumentAt}

(* Python names its arguments as the members of the class.                 *)
Construct(names, amount) ==
    LET keywords == FixBinding[class].keywords
        given == {k \in DOMAIN keywords : keywords[k] \in names}
    IN  /\ form = "none" /\ class \in Constructible
        /\ said' = {Argument(name, amount) : name \in names}
        /\ \/ /\ names \subseteq Keywords(class)
              /\ FixBinding[class].required \subseteq names
              /\ form' = "object"
              /\ fields' = Constructed([k \in given |-> Argument(keywords[k], amount)])
           \/ /\ ~(names \subseteq Keywords(class) /\ FixBinding[class].required \subseteq names)
              /\ form' = "refused"
              /\ UNCHANGED fields
        /\ UNCHANGED <<class, read, hops>>

(* Python gives the first n arguments by position: it means the members.   *)
ConstructByPosition(n, amount) ==
    LET meant == [k \in 1 .. n |-> Argument(FixClass[class].members[k], amount)]
    IN  /\ form = "none" /\ class \in Constructible
        /\ FixBinding[class].required \subseteq {FixBinding[class].keywords[k] : k \in 1 .. n}
        /\ said' = {meant[k] : k \in 1 .. n}
        /\ form' = "object"
        /\ fields' = Constructed(meant)
        /\ UNCHANGED <<class, read, hops>>

(* A peer sends all that the codec has a field for.                        *)
Receive(amount) ==
    /\ form = "none" /\ Sayable(amount)
    /\ said' = {Field(name, name, amount, TRUE) :
                   name \in Members(class) \cup FixClass[class].emptied}
    /\ form' = "wire"
    /\ fields' = said'
    /\ UNCHANGED <<class, read, hops>>

Precise(field) == field.precise /\ field.name \notin Doubles(class)

(* Decoder.dispatch wraps the codec's structure.                           *)
Decode ==
    /\ form = "wire" /\ hops < MaxHops
    /\ form' = "object"
    /\ fields' = {[field EXCEPT !.precise = Precise(field)] :
                     field \in {f \in fields : f.name \in Members(class)}}
    /\ read' = {}
    /\ hops' = hops + 1
    /\ UNCHANGED <<class, said>>

(* Mutant: the interval is not cast to what the codec has room for.        *)
CastNothing(field) == [field EXCEPT !.precise = Precise(field)]

(* A member becomes a field of the codec's structure.                      *)
Cast(field) ==
    [field EXCEPT !.precise = Precise(field),
                  !.amount = IF field.name = "heart_bt_int" THEN @ % 2 ^ 16 ELSE @]

(* Encoder.encode, with the conversion that it asks for.                   *)
Encode ==
    /\ form = "object"
    /\ form' = "wire"
    /\ fields' = {Cast(field) : field \in fields}
    /\ UNCHANGED <<class, said, read, hops>>

(* Python reads the properties; a decimal is read without its precision.   *)
Read ==
    /\ form = "object" /\ FixBinding[class].properties # {}
    /\ read' = {[field EXCEPT !.precise = FALSE] :
                   field \in {f \in fields : f.name \in FixBinding[class].properties}}
    /\ UNCHANGED <<class, said, form, fields, hops>>

(* The arguments that Python may give: all, all that have their name for a *)
(* keyword, these without one of them, and those without a default.        *)
NamesGiven ==
    LET known == Members(class) \cap Keywords(class)
    IN  {Members(class), known, FixBinding[class].required} \cup {known \ {name} : name \in known}

Next ==
    \/ \E amount \in Amounts :
          \/ \E names \in NamesGiven : Construct(names, amount)
          \/ \E n \in 0 .. Len(FixBinding[class].keywords) : ConstructByPosition(n, amount)
          \/ Receive(amount)
    \/ Decode
    \/ Encode
    \/ Read

Spec == Init /\ [][Next]_vars

-----------------------------------------------------------------------------
(* Every variable has its type, an object says nothing for which its class *)
(* has no member, and what is on the wire fits there.                      *)
TypeOK ==
    LET names == Members(class) \cup FixClass[class].emptied
        all == [name : names, says : names, amount : Amounts \cup Nat, precise : BOOLEAN]
    IN  /\ class \in DOMAIN FixClass
        /\ said \subseteq all /\ fields \subseteq all /\ read \subseteq all
        /\ form \in {"none", "refused", "object", "wire"}
        /\ form = "object" => \A f \in fields : f.name \in Members(class)
        /\ form = "wire" => \A f \in fields : f.name = "heart_bt_int" => f.amount < 2 ^ 16
        /\ hops \in 0 .. MaxHops

(* However often a message is encoded and decoded again, each field says   *)
(* what was said under its name, and nothing that was not said.            *)
NothingMixedUp ==
    \A f \in fields : f.says = f.name /\ \E s \in said : s.name = f.name

(* What a message must have from elsewhere: the groups of parties, sides   *)
(* and so on, and what Python cannot say or a double cannot hold.          *)
LeftOut ==
    {"no_party_ids", "no_trading_sessions", "no_sides", "no_positions", "no_pos_amt",
     "custom_type", "custom_value"}

KnownLoss(s) ==
    \/ s.name \in LeftOut
    \/ class = "SecurityDefinition" /\ s.name = "min_price_increment"
    \/ s.name \in Dates /\ ~s.precise
    \/ \E f \in fields :
          /\ f.name = s.name
          /\ \/ s.name \in Times /\ s.amount - f.amount \in 1 .. 999
             \/ s.name = "heart_bt_int" /\ s.amount >= 2 ^ 16 /\ f.amount < s.amount
             \/ class = "SecListGrp" /\ f = [s EXCEPT !.precise = FALSE]

(* Whatever was said stays said, by objects of all classes and on the      *)
(* wire, but for: groups that no class has a member for; dates given by    *)
(* Python, and less than a millisecond of its times; intervals that need   *)
(* more than 16 bits; the precision of the decimals of SecListGrp.         *)
NothingElseIsLost == form \in {"object", "wire"} => \A s \in said : s \in fields \/ KnownLoss(s)

(* The keywords that are not the names of what they set: a letter too many *)
(* or a comma inside the quotes.                                           *)
Misspelt ==
    {<<"SecurityDefinition", "security_exchange">>,
     <<"SecurityStatus", "unsolicited_indicator">>,
     <<"TradeCaptureReportRequest", "trade_request_type">>,
     <<"TradeCaptureReportRequest", "subscription_request_type">>,
     <<"RequestForPositions", "pos_req_type">>,
     <<"RequestForPositions", "subscription_request_type">>,
     <<"RequestForPositions", "account_type">>}

(* A constructor refuses the names of its class's fields only if one of    *)
(* those seven is among them, or if an argument without a default is not.  *)
RefusedForCause ==
    form = "refused" =>
        \/ \E s \in said : <<class, s.name>> \in Misspelt
        \/ \E name \in FixBinding[class].required : \A s \in said : s.name # name

=============================================================================
