---------------------------- MODULE MCMarketData ----------------------------
(***************************************************************************)
(* MarketData on every publication of N datagrams that are all updates, or *)
(* N - 2 with at most one message of another kind, in whole messages of at *)
(* most MaxFragments fragments.  Instruments are interchangeable, so the   *)
(* first message is of First.  The books are disturbed at most once, or,   *)
(* when all messages are fragmented, once more for the other instrument: a *)
(* callback that raises, and the torn message that it leaves behind.       *)
(***************************************************************************)
EXTENDS MarketData

CONSTANTS N, MaxFragments, First

(* What a stream and a message may be does not depend on Publications.     *)
Datagrams == INSTANCE Receiver WITH Streams <- {}, CallbackMayRaise <- TRUE
Messages == INSTANCE MarketByPriceFeed WITH Scripts <- {}, position <- 1, lost <- {}

StreamsOf(length) ==
    {s \in [1 .. length -> [frag : 0 .. MaxFragments - 1, max : 0 .. MaxFragments - 1]] :
        Datagrams!WellFormed(s) /\ s[length].frag = s[length].max}

LastFragments(s) == {n \in 1 .. Len(s) : s[n].frag = s[n].max}

(* What the messages that end in these datagrams may be.                   *)
MessagesOf(ends, exceptions) ==
    {m \in [ends -> Messages!Message] :
        /\ Cardinality({n \in ends : m[n].update_type # "INCREMENTAL"}) <= exceptions
        /\ \A n \in ends :
              (m[n] # Messages!Other /\ \A k \in ends : n <= k) => m[n].instrument = First}

ScriptOf(s, m) ==
    [n \in 1 .. Len(s) |-> IF n \in LastFragments(s) THEN m[n] ELSE Messages!Other]

PublicationsOf(length, exceptions) ==
    UNION {{[stream |-> s, script |-> ScriptOf(s, m)] :
               m \in MessagesOf(LastFragments(s), exceptions)} : s \in StreamsOf(length)}

SomePublications == PublicationsOf(N, 0) \cup PublicationsOf(N - 2, 1)

Undisturbed == \A i \in Instruments : health[i] = "sound"

MayDisturb ==
    \/ Undisturbed
    \/ /\ \A n \in 1 .. Len(stream) : stream[n].max > 0
       /\ \E i \in Instruments : health[i] = "sound"

BoundedNext ==
    \/ Received
    \/ SnapshotReceived
    \/ MayDisturb /\ ReceivedDisturbed
    \/ Undisturbed /\ SnapshotDisturbed

BoundedSpec == Init /\ [][BoundedNext]_vars
=============================================================================
