----------------------------- MODULE MCReceiver -----------------------------
(***************************************************************************)
(* Receiver on every stream of N datagrams whose messages have at most     *)
(* MaxFragments fragments; the last message may be cut short.               *)
(***************************************************************************)
EXTENDS Receiver

CONSTANTS N, MaxFragments

Datagrams == [frag : 0 .. MaxFragments - 1, max : 0 .. MaxFragments - 1]

AllStreams == {s \in [1 .. N -> Datagrams] : WellFormed(s)}
=============================================================================
