-------------------------- MODULE MCEventDispatch --------------------------
(***************************************************************************)
(* EventDispatch with two sources: one has every mixture of N events, of   *)
(* two symbols, the other two updates or nothing.                          *)
(***************************************************************************)
EXTENDS EventDispatch

CONSTANTS First, Second, OneSymbol, OtherSymbol, N

Update(symbol, snapshot) ==
    [type |-> "MarketByPriceUpdate", symbol |-> symbol, snapshot |-> snapshot]

Other(type) == [type |-> type, symbol |-> OneSymbol, snapshot |-> FALSE]

Mixture ==
    {Update(symbol, snapshot) : symbol \in {OneSymbol, OtherSymbol}, snapshot \in BOOLEAN} \cup
    {Other(type) : type \in Types \ {"MarketByPriceUpdate", "TopOfBook"}}

SomeFeeds ==
    {[s \in {First, Second} |-> IF s = First THEN mixture ELSE updates] :
        mixture \in [1 .. N -> Mixture],
        updates \in {<<>>} \cup {<<Update(OneSymbol, FALSE), Update(symbol, snapshot)>> :
                                   symbol \in {OneSymbol, OtherSymbol}, snapshot \in BOOLEAN}}
=============================================================================
