---------------------------- MODULE MessageFeed ----------------------------
(***************************************************************************)
(* What a receiver of a fragmented datagram stream promises to the decoder *)
(* until it has had to give up on a datagram: it joins at any message, and *)
(* from there on hands over every message of the stream, whole, in the     *)
(* order of the publisher and exactly once.                                *)
(***************************************************************************)
EXTENDS Naturals, Sequences

VARIABLES
    stream,  \* the datagrams of the publisher, as [frag, max] headers
    last,    \* the last datagram of the last message handed over, 0 if none
    intact   \* no loss has been reported and no handler has failed

feedVars == <<stream, last, intact>>

(* The datagrams first .. end of stream s are the fragments of one message. *)
IsMessage(s, first, end) ==
    /\ first \in 1 .. end /\ end <= Len(s)
    /\ s[first].frag = 0
    /\ s[end].frag = s[end].max
    /\ s[end].max = end - first

FeedInit == last = 0 /\ intact = TRUE

Deliver ==
    \E end \in 1 .. Len(stream) :
        /\ \E first \in 1 .. end :
              IsMessage(stream, first, end) /\ last \in {0, first - 1}
        /\ last' = end
        /\ intact /\ UNCHANGED <<stream, intact>>

(* From the first reported loss or failed handler on nothing is promised.  *)
Break == intact' = FALSE /\ UNCHANGED stream

FeedSpec == FeedInit /\ [][Deliver \/ Break]_feedVars
=============================================================================
