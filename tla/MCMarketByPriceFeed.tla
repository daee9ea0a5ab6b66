------------------------ MODULE MCMarketByPriceFeed ------------------------
(***************************************************************************)
(* MarketByPriceFeed on scripts of which at most one message is not an     *)
(* update: N updates or N - 1 messages undisturbed; with one callback that *)
(* raises or one torn message, N - 1 updates or N - 2 messages.            *)
(* Instruments are interchangeable, so the first message is of First.      *)
(***************************************************************************)
EXTENDS MarketByPriceFeed

CONSTANTS N, First

ScriptsOf(length, exceptions) ==
    {s \in [1 .. length -> Message] :
        /\ s[1] # Other => s[1].instrument = First
        /\ Cardinality({p \in 1 .. length : s[p].update_type # "INCREMENTAL"}) <= exceptions}

DisturbedScripts == ScriptsOf(N - 1, 0) \cup ScriptsOf(N - 2, 1)

SomeScripts == ScriptsOf(N, 0) \cup ScriptsOf(N - 1, 1) \cup DisturbedScripts

MayDisturb == script \in DisturbedScripts /\ \A i \in Instruments : health[i] = "sound"

BoundedNext == Ordinary \/ (MayDisturb /\ Disturbance)

BoundedSpec == Init /\ [][BoundedNext]_vars /\ Fairness
=============================================================================
