----------------------- MODULE MarketByPriceFeedProofs -----------------------
(***************************************************************************)
(* The books of samples/sbe_receiver.py are the publisher's: for every set *)
(* of instruments, every script of any length, and every interleaving of   *)
(* the two channels with losses, raising callbacks and torn messages.      *)
(* The properties speak of books; the inductive invariant has to say what  *)
(* a sequencer holds while there is no book: the collected updates are a   *)
(* piece of the instrument's chain that nothing is missing from, so that   *)
(* they bring a snapshot that is not older than they are up to date.       *)
(***************************************************************************)
EXTENDS MarketByPriceFeed, TLAPS, SequenceTheorems, WellFoundedInduction

CollectedUpdate == [sn : Nat, prev : Nat, content : Nat]

SequencerState == [ready : BOOLEAN, last : Nat, cache : Seq(CollectedUpdate)]

Healths == {"sound", "damaged", "healed"}

(* What a collected update may be: message m.sn of the channel, or a torn  *)
(* one under its header.                                                   *)
Plausible(i, m, upto) ==
    /\ m.sn \in 1 .. upto
    /\ m.prev < m.sn
    /\ m.content = Garbage \/ (m.content = m.sn /\ m.sn \in Published(i, upto))
    /\ m.sn \in Chain(i, upto) => m.prev = LastSequenceNumber(i, m.sn - 1)

Increasing(cache) ==
    \A j, k \in 1 .. Len(cache) : j < k => cache[j].sn < cache[k].sn

(* Between the predecessor of the first collected update and a collected    *)
(* update of the instrument's chain, the chain is there without a gap.     *)
WithoutGap(i, cache) ==
    \A k \in 1 .. Len(cache) : cache[k].sn \in Chain(i, cache[k].sn) =>
        \A p \in Published(i, cache[k].sn) : p > cache[1].prev =>
            \E l \in 1 .. k : cache[l].sn = p

(* A sequencer after the first upto messages of the channel.               *)
Good(i, s, upto) ==
    /\ s \in SequencerState
    /\ s.last <= Len(script)
    /\ s.ready => s.cache = <<>>
    /\ \A k \in 1 .. Len(s.cache) : Plausible(i, s.cache[k], upto)
    /\ Increasing(s.cache)
    /\ WithoutGap(i, s.cache)

(* Book and sequencer agree.                                               *)
InStep(i, s, b) == b = IF s.ready THEN Published(i, s.last) ELSE {}

(* The last update that went into the sequencer.                           *)
Reached(s) ==
    IF s.ready THEN s.last
    ELSE IF s.cache = <<>> THEN 0 ELSE s.cache[Len(s.cache)].sn

(* A sequencer that was shown nothing but the publisher's messages: only   *)
(* those that were missed can be ahead of it.                              *)
Pure(i, s, upto, missed) ==
    /\ \A k \in 1 .. Len(s.cache) : s.cache[k].content # Garbage
    /\ s.ready => s.last \in Chain(i, Len(script)) \cup {0}
    /\ \A p \in Published(i, upto) : p \in missed \/ p <= Reached(s)

(* An instrument, whatever has been done to it.                            *)
Sane(i, s, b, h, upto, missed) ==
    /\ Good(i, s, upto)
    /\ h # "damaged" /\ Garbage \notin b => InStep(i, s, b)
    /\ h = "sound" => Garbage \notin b /\ Pure(i, s, upto, missed)

(* All instruments after the first upto messages, less the missed ones.    *)
AllSane(sequencers, books, healths, upto, missed) ==
    /\ sequencers \in [Instruments -> SequencerState]
    /\ books \in [Instruments -> SUBSET (0 .. Len(script))]
    /\ healths \in [Instruments -> Healths]
    /\ \A i \in Instruments :
          Sane(i, sequencers[i], books[i], healths[i], upto, missed)

IInv ==
    /\ script \in Scripts
    /\ position \in 1 .. Len(script) + 1
    /\ snapped \in 0 .. Len(script)
    /\ lost \subseteq 1 .. Len(script)
    /\ AllSane(sequencer, book, health, position - 1, lost)

-----------------------------------------------------------------------------
(* A set of numbers up to n that is not empty has a greatest one.          *)
LEMMA GreatestExists ==
    ASSUME NEW n \in Nat, NEW S \in SUBSET (0 .. n), S # {}
    PROVE  \E p \in S : \A q \in S : q <= p
<1> DEFINE T == {n - p : p \in S}
           R == OpToRel(<, Nat)
<1>1. T \subseteq Nat /\ T # {}
  <2>1. \A p \in S : p \in 0 .. n
    OBVIOUS
  <2>2. \A p \in S : n - p \in Nat
    BY <2>1
  <2> QED
    BY <2>2
<1>2. PICK t \in T : \A u \in T : ~(<<u, t>> \in R)
  <2> HIDE DEF R, T
  <2> QED
    BY <1>1, WFMin, NatLessThanWellFounded DEF R
<1>3. PICK p \in S : t = n - p
  BY <1>2
<1>4. \A q \in S : q <= p
  <2> SUFFICES ASSUME NEW q \in S PROVE q <= p
    OBVIOUS
  <2>1. ~(<<n - q, t>> \in R)
    BY <1>2
  <2>2. ~(n - q < t)
    BY <1>1, <1>2, <2>1 DEF OpToRel
  <2> QED
    BY <1>3, <2>2
<1> QED
  BY <1>4

(* The number that the publisher names: the greatest of the chain so far.  *)
LEMMA LastSequenceNumberFacts ==
    ASSUME NEW i, NEW n \in Nat
    PROVE  /\ LastSequenceNumber(i, n) \in Chain(i, n) \cup {0}
           /\ LastSequenceNumber(i, n) \in 0 .. n
           /\ \A p \in Chain(i, n) : p <= LastSequenceNumber(i, n)
<1> DEFINE numbers == Chain(i, n) \cup {0}
<1>1. numbers \subseteq 0 .. n /\ numbers # {}
  BY DEF Chain
<1>2. \E p \in numbers : \A q \in numbers : q <= p
  <2> HIDE DEF numbers
  <2> QED
    BY <1>1, GreatestExists
<1>3. LastSequenceNumber(i, n) = CHOOSE p \in numbers : \A q \in numbers : q <= p
  BY DEF LastSequenceNumber
<1> HIDE DEF numbers
<1>4. /\ LastSequenceNumber(i, n) \in numbers
      /\ \A q \in numbers : q <= LastSequenceNumber(i, n)
  BY <1>2, <1>3
<1> QED
  BY <1>1, <1>4 DEF numbers

(* What is published up to a message is a part of what is up to a later.   *)
LEMMA ChainFacts ==
    ASSUME NEW i, NEW n \in Nat
    PROVE  /\ Chain(i, n) \subseteq 1 .. n
           /\ Published(i, n) \subseteq Chain(i, n)
           /\ \A m \in 0 .. n : /\ Chain(i, m) = Chain(i, n) \cap 1 .. m
                                /\ Published(i, m) = Published(i, n) \cap 1 .. m
           /\ Published(i, 0) = {}
  BY DEF Chain, Published

(* A book as of message n is one as of the last update before.             *)
LEMMA PublishedAsOf ==
    ASSUME NEW i, NEW n \in Nat
    PROVE  Published(i, LastSequenceNumber(i, n)) = Published(i, n)
<1> DEFINE m == LastSequenceNumber(i, n)
<1>1. m \in 0 .. n /\ \A p \in Chain(i, n) : p <= m
  BY LastSequenceNumberFacts
<1>2. Published(i, m) = Published(i, n) \cap 1 .. m
  BY <1>1, ChainFacts
<1>3. Published(i, n) \subseteq 1 .. n /\ \A p \in Published(i, n) : p <= m
  BY <1>1, ChainFacts
<1> HIDE DEF m
<1>4. Published(i, n) \subseteq 1 .. m
  BY <1>1, <1>3
<1> QED
  BY <1>2, <1>4 DEF m

(* The script is one for all times, so that what is derived from it is.    *)
LEMMA ScriptStays ==
    ASSUME script' = script
    PROVE  \A i, n : /\ Chain(i, n)' = Chain(i, n)
                     /\ Published(i, n)' = Published(i, n)
                     /\ LastSequenceNumber(i, n)' = LastSequenceNumber(i, n)
  BY DEF Chain, Published, LastSequenceNumber, IsOf

LEMMA AllSaneStays ==
    ASSUME script' = script,
           AllSane(sequencer', book', health', position' - 1, lost')
    PROVE  AllSane(sequencer, book, health, position - 1, lost)'
  BY ScriptStays DEF AllSane, Sane, Good, InStep, Pure, Plausible, Increasing, WithoutGap, Reached

-----------------------------------------------------------------------------
(* What was good remains so when the channel goes on.                      *)
LEMMA GoodAhead ==
    ASSUME NEW i, NEW s, NEW upto \in Nat, NEW ahead \in Nat, upto <= ahead,
           Good(i, s, upto)
    PROVE  Good(i, s, ahead)
<1>1. ASSUME NEW k \in 1 .. Len(s.cache) PROVE Plausible(i, s.cache[k], ahead)
  <2>1. Plausible(i, s.cache[k], upto)
    BY DEF Good
  <2>2. upto \in 0 .. ahead
    OBVIOUS
  <2>3. /\ Chain(i, upto) = Chain(i, ahead) \cap 1 .. upto
        /\ Published(i, upto) = Published(i, ahead) \cap 1 .. upto
    BY <2>2, ChainFacts
  <2> QED
    BY <2>1, <2>2, <2>3 DEF Plausible
<1> QED
  BY <1>1 DEF Good

LEMMA SaneAhead ==
    ASSUME NEW i, NEW s, NEW b, NEW h, NEW missed, NEW lacking,
           NEW upto \in Nat, NEW ahead \in Nat, upto <= ahead,
           Sane(i, s, b, h, upto, missed),
           missed \subseteq lacking,
           \A p \in Published(i, ahead) : p > upto => p \in lacking
    PROVE  Sane(i, s, b, h, ahead, lacking)
<1>1. Good(i, s, ahead)
  BY GoodAhead DEF Sane
<1>2. ASSUME Pure(i, s, upto, missed) PROVE Pure(i, s, ahead, lacking)
  <2>1. upto \in 0 .. ahead
    OBVIOUS
  <2>2. /\ Published(i, upto) = Published(i, ahead) \cap 1 .. upto
        /\ Published(i, ahead) \subseteq 1 .. ahead
    BY <2>1, ChainFacts
  <2>3. ASSUME NEW p \in Published(i, ahead) PROVE p \in lacking \/ p <= Reached(s)
    <3>1. CASE p > upto
      BY <3>1
    <3>2. CASE ~(p > upto)
      <4>1. p \in Published(i, upto)
        BY <2>2, <3>2
      <4> QED
        BY <1>2, <4>1 DEF Pure
    <3> QED
      BY <3>1, <3>2
  <2> QED
    BY <1>2, <2>3 DEF Pure
<1> QED
  BY <1>1, <1>2 DEF Sane

-----------------------------------------------------------------------------
(* A message that the sequencer may be shown as update n of instrument i.  *)
Shown(i, m, n) ==
    /\ m \in CollectedUpdate
    /\ m.sn = n
    /\ Plausible(i, m, n)

(* One more collected update: the chain is continued, or begun anew.       *)
LEMMA CollectFacts ==
    ASSUME NEW i, NEW s, NEW n \in Nat \ {0}, NEW m,
           Good(i, s, n - 1), Shown(i, m, n)
    PROVE  LET cache == Sequencer!Collect(s.cache, m)
           IN  /\ cache \in Seq(CollectedUpdate)
               /\ Len(cache) \in Nat \ {0}
               /\ cache[Len(cache)] = m
               /\ \A k \in 1 .. Len(cache) - 1 :
                     k \in 1 .. Len(s.cache) /\ cache[k] = s.cache[k]
               /\ \/ Len(cache) = 1
                  \/ Len(s.cache) = Len(cache) - 1 /\ s.cache[Len(s.cache)].sn = m.prev
<1> DEFINE cache == Sequencer!Collect(s.cache, m)
           L == Len(s.cache)
<1>1. m \in CollectedUpdate /\ s.cache \in Seq(CollectedUpdate)
  BY DEF Good, SequencerState, Shown
<1>2. L \in Nat
  BY <1>1, LenProperties
<1>3. CASE s.cache # <<>> /\ s.cache[L].sn = m.prev
  <2>1. cache = Append(s.cache, m)
    BY <1>3 DEF Sequencer!Collect
  <2>2. /\ Append(s.cache, m) \in Seq(CollectedUpdate)
        /\ Len(Append(s.cache, m)) = L + 1
        /\ \A k \in 1 .. L : Append(s.cache, m)[k] = s.cache[k]
        /\ Append(s.cache, m)[L + 1] = m
    BY <1>1, AppendProperties
  <2> HIDE DEF cache, L
  <2>3. \A k \in 1 .. Len(cache) - 1 : k \in 1 .. L
    BY <1>2, <2>1, <2>2
  <2> QED
    BY <1>2, <1>3, <2>1, <2>2, <2>3 DEF cache, L
<1>4. CASE ~(s.cache # <<>> /\ s.cache[L].sn = m.prev)
  <2>1. cache = <<m>>
    BY <1>4 DEF Sequencer!Collect
  <2>2. <<m>> \in Seq(CollectedUpdate) /\ Len(<<m>>) = 1 /\ <<m>>[1] = m
    BY <1>1
  <2> QED
    BY <2>1, <2>2
<1> QED
  BY <1>3, <1>4

LEMMA CollectingIsGood ==
    ASSUME NEW i, NEW s, NEW n \in Nat \ {0}, NEW m,
           Good(i, s, n - 1), Shown(i, m, n)
    PROVE  Good(i, Sequencer!Collecting(Sequencer!Collect(s.cache, m)), n)
<1> DEFINE cache == Sequencer!Collect(s.cache, m)
           L == Len(cache)
<1>1. /\ cache \in Seq(CollectedUpdate)
      /\ L \in Nat \ {0}
      /\ cache[L] = m
      /\ \A k \in 1 .. L - 1 : k \in 1 .. Len(s.cache) /\ cache[k] = s.cache[k]
      /\ L = 1 \/ (Len(s.cache) = L - 1 /\ s.cache[Len(s.cache)].sn = m.prev)
  BY CollectFacts
<1>2. Good(i, s, n)
  BY GoodAhead
<1> HIDE DEF cache
<1>3. ASSUME NEW k \in 1 .. L PROVE Plausible(i, cache[k], n)
  <2>1. CASE k = L
    BY <1>1, <2>1 DEF Shown
  <2>2. CASE k # L
    BY <1>1, <1>2, <2>2 DEF Good
  <2> QED
    BY <2>1, <2>2
<1>4. Increasing(cache)
  <2> SUFFICES ASSUME NEW j \in 1 .. L, NEW k \in 1 .. L, j < k
               PROVE  cache[j].sn < cache[k].sn
    BY DEF Increasing
  <2>1. j \in 1 .. L - 1
    BY <1>1
  <2>2. CASE k = L
    <3>1. cache[j].sn \in 1 .. n - 1
      BY <1>1, <2>1 DEF Good, Plausible
    <3> QED
      BY <1>1, <2>2, <3>1 DEF Shown
  <2>3. CASE k # L
    <3>1. k \in 1 .. L - 1
      BY <1>1, <2>3
    <3> QED
      BY <1>1, <2>1, <3>1 DEF Good, Increasing
  <2> QED
    BY <2>2, <2>3
<1>5. WithoutGap(i, cache)
  <2> SUFFICES ASSUME NEW k \in 1 .. L, cache[k].sn \in Chain(i, cache[k].sn),
                      NEW p \in Published(i, cache[k].sn), p > cache[1].prev
               PROVE  \E l \in 1 .. k : cache[l].sn = p
    BY DEF WithoutGap
  <2>1. CASE k # L
    <3>1. k \in 1 .. L - 1 /\ 1 \in 1 .. L - 1
      BY <1>1, <2>1
    <3>2. PICK l \in 1 .. k : s.cache[l].sn = p
      BY <1>1, <1>2, <3>1 DEF Good, WithoutGap
    <3>3. l \in 1 .. L - 1
      BY <1>1, <3>1
    <3> QED
      BY <1>1, <3>2, <3>3
  <2>2. CASE k = L /\ p = n
    BY <1>1, <2>2 DEF Shown
  <2>3. CASE k = L /\ p # n
    <3>1. m.sn = n /\ cache[k] = m /\ n \in Chain(i, n) /\ m.prev = LastSequenceNumber(i, n - 1)
      BY <1>1, <2>3 DEF Shown, Plausible
    <3>2. p \in 1 .. n - 1 /\ p \in Published(i, n - 1)
      BY <2>3, <3>1, ChainFacts
    <3>3. p \in Chain(i, n - 1) /\ p <= m.prev /\ m.prev \in 0 .. n - 1
      BY <3>1, <3>2, ChainFacts, LastSequenceNumberFacts
    <3>4. L # 1
      BY <1>1, <2>3, <3>2, <3>3
    <3>5. /\ s.cache[L - 1].sn = m.prev
          /\ L - 1 \in 1 .. L - 1 /\ 1 \in 1 .. L - 1
      <4>1. L \in Nat \ {0} /\ Len(s.cache) = L - 1 /\ s.cache[Len(s.cache)].sn = m.prev
        BY <1>1, <3>4
      <4> HIDE DEF L
      <4> QED
        BY <3>4, <4>1
    <3>6. m.prev \in Chain(i, n - 1) /\ m.prev \in Chain(i, m.prev)
      BY <3>1, <3>2, <3>3, LastSequenceNumberFacts, ChainFacts
    <3>7. p \in Published(i, m.prev)
      BY <3>2, <3>3, ChainFacts
    <3>8. PICK l \in 1 .. L - 1 : s.cache[l].sn = p
      BY <1>1, <1>2, <3>5, <3>6, <3>7 DEF Good, WithoutGap
    <3> QED
      BY <1>1, <2>3, <3>8
  <2> QED
    BY <2>1, <2>2, <2>3
<1>6. Sequencer!Collecting(cache) \in SequencerState
  BY <1>1 DEF Sequencer!Collecting, SequencerState
<1> QED
  BY <1>3, <1>4, <1>5, <1>6 DEF Good, Sequencer!Collecting, cache

-----------------------------------------------------------------------------
(* What a call of the sequencer may come to, whatever becomes of it: the   *)
(* sequencer is good, and a callback that is carried out keeps the book in *)
(* step with it.                                                           *)
Right(i, s, b, o, upto) ==
    /\ Good(i, o.sequencer, upto)
    /\ o.effect.kind \in {"none", "update", "snapshot", "reset"}
    /\ Apply(b, o.effect) \subseteq 0 .. Len(script)
    /\ /\ Garbage \notin Apply(b, o.effect)
       /\ o.effect.kind \in {"none", "update"} => InStep(i, s, b)
       => InStep(i, o.sequencer, Apply(b, o.effect))

(* What it may come to when the message is the publisher's.                *)
Genuine(i, o, upto, missed) ==
    /\ Garbage \notin o.effect.book
    /\ Pure(i, o.sequencer, upto, missed)

LEMMA UpdateIsRight ==
    ASSUME NEW i, NEW s, NEW b \in SUBSET (0 .. Len(script)), script \in Scripts,
           NEW n \in 1 .. Len(script), NEW m,
           Good(i, s, n - 1), Shown(i, m, n),
           NEW o \in Sequencer!OnUpdate(s, m)
    PROVE  Right(i, s, b, o, n)
<1>1. Len(script) \in Nat /\ n \in Nat \ {0} /\ n - 1 \in Nat /\ n - 1 <= n
  BY FeedAssumption, LenProperties
<1>2. /\ m.sn = n /\ m.prev \in 0 .. n - 1 /\ m.content \in {Garbage, n}
      /\ m.content = n => n \in Published(i, n)
      /\ n \in Chain(i, n) => m.prev = LastSequenceNumber(i, n - 1)
  BY <1>1 DEF Shown, CollectedUpdate, Plausible, Garbage
<1>3. CASE ~s.ready
  <2>1. /\ o.sequencer = Sequencer!Collecting(Sequencer!Collect(s.cache, m))
        /\ o.effect \in {Sequencer!Nothing, Sequencer!RequestSnapshot}
    BY <1>3 DEF Sequencer!OnUpdate, Sequencer!Outcome
  <2>2. Good(i, o.sequencer, n) /\ ~o.sequencer.ready
    BY <1>1, <2>1, CollectingIsGood DEF Sequencer!Collecting
  <2> QED
    BY <1>3, <2>1, <2>2
    DEF Right, Apply, InStep, Sequencer!Nothing, Sequencer!RequestSnapshot
<1>4. CASE s.ready /\ m.sn <= s.last
  <2>1. o.sequencer = s /\ o.effect = Sequencer!Nothing
    BY <1>4 DEF Sequencer!OnUpdate, Sequencer!Outcome
  <2>2. Good(i, s, n)
    BY <1>1, GoodAhead
  <2> QED
    BY <2>1, <2>2 DEF Right, Apply, Sequencer!Nothing
<1>5. CASE s.ready /\ ~(m.sn <= s.last) /\ m.prev = s.last
  <2>1. /\ o.sequencer = Sequencer!ReadyAt(n)
        /\ o.effect = [kind |-> "update", book |-> {m.content}]
    BY <1>2, <1>5 DEF Sequencer!OnUpdate, Sequencer!Outcome, Sequencer!PublishUpdate
  <2>2. Good(i, o.sequencer, n)
    BY <1>1, <2>1, EmptySeq
    DEF Good, Sequencer!ReadyAt, SequencerState, Increasing, WithoutGap
  <2>3. Apply(b, o.effect) = b \cup {m.content}
    BY <2>1 DEF Apply
  <2>4. ASSUME InStep(i, s, b), Garbage \notin b \cup {m.content}
        PROVE  InStep(i, o.sequencer, b \cup {m.content})
    <3>1. m.content = n /\ n \in Published(i, n) /\ n \in Chain(i, n)
      BY <1>1, <1>2, <2>4, ChainFacts
    <3>2. b = Published(i, LastSequenceNumber(i, n - 1))
      BY <1>2, <1>5, <2>4, <3>1 DEF InStep
    <3>3. b = Published(i, n - 1)
      BY <1>1, <3>2, PublishedAsOf
    <3>4. Published(i, n - 1) \cup {n} = Published(i, n)
      BY <1>1, <3>1, ChainFacts
    <3> QED
      BY <2>1, <3>1, <3>3, <3>4 DEF InStep, Sequencer!ReadyAt
  <2>5. b \cup {m.content} \subseteq 0 .. Len(script)
    <3>1. m.content \in 0 .. Len(script)
      BY <1>1, <1>2 DEF Garbage
    <3> QED
      BY <3>1
  <2> QED
    <3>1. o.effect.kind = "update"
      BY <2>1
    <3> QED
      BY <2>2, <2>3, <2>4, <2>5, <3>1 DEF Right
<1>6. CASE s.ready /\ ~(m.sn <= s.last) /\ m.prev # s.last
  <2>1. /\ o.sequencer = Sequencer!Collecting(<<m>>)
        /\ o.effect = Sequencer!RequestSnapshot
    BY <1>6 DEF Sequencer!OnUpdate, Sequencer!Outcome
  <2>2. Sequencer!Collect(s.cache, m) = <<m>>
    BY <1>6 DEF Good, Sequencer!Collect
  <2>3. Good(i, o.sequencer, n) /\ ~o.sequencer.ready
    BY <1>1, <2>1, <2>2, CollectingIsGood DEF Sequencer!Collecting
  <2> QED
    BY <2>1, <2>3 DEF Right, Apply, InStep, Sequencer!RequestSnapshot
<1> QED
  BY <1>3, <1>4, <1>5, <1>6

LEMMA UpdateIsGenuine ==
    ASSUME NEW i, NEW s, NEW missed, script \in Scripts,
           NEW n \in 1 .. Len(script), NEW m,
           Good(i, s, n - 1), Pure(i, s, n - 1, missed), Shown(i, m, n),
           m.content = n,
           NEW o \in Sequencer!OnUpdate(s, m)
    PROVE  Genuine(i, o, n, missed)
<1>1. Len(script) \in Nat /\ n \in Nat \ {0} /\ n - 1 \in Nat /\ n - 1 \in 0 .. n
  BY FeedAssumption, LenProperties
<1>2. /\ m.sn = n
      /\ n # Garbage
      /\ n \in Chain(i, Len(script))
  BY <1>1, ChainFacts DEF Shown, Plausible, Garbage
<1>3. ASSUME NEW p \in Published(i, n) PROVE p <= n /\ (p = n \/ p \in Published(i, n - 1))
  BY <1>1, ChainFacts
<1>4. CASE ~s.ready
  <2> DEFINE cache == Sequencer!Collect(s.cache, m)
  <2>1. /\ o.sequencer = Sequencer!Collecting(cache)
        /\ Garbage \notin o.effect.book
    BY <1>4 DEF Sequencer!OnUpdate, Sequencer!Outcome, Sequencer!Nothing, Sequencer!RequestSnapshot
  <2>2. /\ cache \in Seq(CollectedUpdate)
        /\ Len(cache) \in Nat \ {0}
        /\ cache[Len(cache)] = m
        /\ \A k \in 1 .. Len(cache) - 1 :
              k \in 1 .. Len(s.cache) /\ cache[k] = s.cache[k]
    <3>1. n \in Nat \ {0}
      BY <1>1
    <3> HIDE DEF cache
    <3> QED
      BY <3>1, CollectFacts DEF cache
  <2> HIDE DEF cache
  <2>3. ASSUME NEW k \in 1 .. Len(cache) PROVE cache[k].content # Garbage
    <3>1. k = Len(cache) \/ k \in 1 .. Len(cache) - 1
      BY <2>2
    <3> QED
      BY <1>2, <2>2, <3>1 DEF Pure
  <2>4. Reached(o.sequencer) = n
    BY <1>2, <2>1, <2>2, EmptySeq DEF Reached, Sequencer!Collecting
  <2> QED
    BY <1>3, <2>1, <2>3, <2>4 DEF Genuine, Pure, Sequencer!Collecting
<1>5. CASE s.ready /\ m.sn <= s.last
  <2>1. o.sequencer = s /\ Garbage \notin o.effect.book
    BY <1>5 DEF Sequencer!OnUpdate, Sequencer!Outcome, Sequencer!Nothing
  <2>2. n <= Reached(s)
    BY <1>2, <1>5 DEF Reached
  <2> QED
    BY <1>3, <2>1, <2>2 DEF Genuine, Pure
<1>6. CASE s.ready /\ ~(m.sn <= s.last) /\ m.prev = s.last
  <2>1. o.sequencer = Sequencer!ReadyAt(n) /\ o.effect.book = {n}
    BY <1>2, <1>6 DEF Sequencer!OnUpdate, Sequencer!Outcome, Sequencer!PublishUpdate
  <2>2. Reached(o.sequencer) = n
    BY <2>1 DEF Reached, Sequencer!ReadyAt
  <2> QED
    BY <1>2, <1>3, <2>1, <2>2 DEF Genuine, Pure, Sequencer!ReadyAt
<1>7. CASE s.ready /\ ~(m.sn <= s.last) /\ m.prev # s.last
  <2>1. o.sequencer = Sequencer!Collecting(<<m>>) /\ Garbage \notin o.effect.book
    BY <1>7 DEF Sequencer!OnUpdate, Sequencer!Outcome, Sequencer!RequestSnapshot
  <2>2. Len(<<m>>) = 1 /\ <<m>>[1] = m /\ <<m>> # <<>>
    OBVIOUS
  <2>3. Reached(o.sequencer) = n
    BY <1>2, <2>1, <2>2 DEF Reached, Sequencer!Collecting
  <2> QED
    BY <1>2, <1>3, <2>1, <2>2, <2>3 DEF Genuine, Pure, Sequencer!Collecting
<1> QED
  BY <1>4, <1>5, <1>6, <1>7

-----------------------------------------------------------------------------
(* A snapshot that is used makes the sequencer ready at its own number or  *)
(* at that of the last collected update.                                   *)
Newest(s, n) ==
    IF s.cache # <<>> /\ n < s.cache[Len(s.cache)].sn
    THEN s.cache[Len(s.cache)].sn ELSE n

(* What comes of the collected updates.                                    *)
Later(s, n) ==
    {m.content : m \in {s.cache[k] : k \in {j \in 1 .. Len(s.cache) : s.cache[j].sn > n}}}

LEMMA SnapshotOutcome ==
    ASSUME NEW i, NEW s, NEW upto \in Nat, Good(i, s, upto), NEW n \in Nat, NEW content,
           NEW o \in Sequencer!OnSnapshot(s, n, content)
    PROVE  \/ /\ s.ready
              /\ o.sequencer = Sequencer!ReadyAt(n)
              /\ o.effect = Sequencer!PublishSnapshot(content)
           \/ /\ s.ready \/ (s.cache # <<>> /\ n < s.cache[1].prev)
              /\ o.sequencer = s
              /\ \/ o.effect = Sequencer!Nothing
                 \/ ~s.ready /\ o.effect = Sequencer!RequestSnapshot
           \/ /\ ~s.ready
              /\ ~(s.cache # <<>> /\ n < s.cache[1].prev)
              /\ o.sequencer = Sequencer!ReadyAt(Newest(s, n))
              /\ o.effect = Sequencer!PublishSnapshot(content \cup Later(s, n))
<1> DEFINE collected == {s.cache[k] : k \in 1 .. Len(s.cache)}
           numbers == {m.sn : m \in collected} \cup {n}
           newest == CHOOSE x \in numbers : \A y \in numbers : y <= x
           L == Len(s.cache)
<1>1. /\ s.cache \in Seq(CollectedUpdate)
      /\ L \in Nat
      /\ \A k \in 1 .. L : s.cache[k].sn \in 1 .. upto
      /\ Increasing(s.cache)
      /\ s.cache # <<>> => L \in 1 .. L
      /\ s.cache = <<>> => L = 0
  <2>1. s.cache \in Seq(CollectedUpdate)
    BY DEF Good, SequencerState
  <2>2. L \in Nat /\ (s.cache # <<>> => L # 0)
    BY <2>1, LenProperties, EmptySeq
  <2> QED
    BY <2>1, <2>2 DEF Good, Plausible
<1>2. Newest(s, n) \in numbers
  BY <1>1 DEF Newest
<1>3. ASSUME NEW x \in numbers PROVE x <= Newest(s, n) /\ x \in Nat
  <2>1. CASE x = n
    BY <1>1, <2>1 DEF Newest
  <2>2. CASE \E k \in 1 .. L : x = s.cache[k].sn
    <3>1. PICK k \in 1 .. L : x = s.cache[k].sn
      BY <2>2
    <3>2. s.cache[k].sn <= s.cache[L].sn
      BY <1>1, <3>1 DEF Increasing
    <3>3. s.cache # <<>> /\ s.cache[L].sn \in Nat
      BY <1>1, <3>1
    <3> QED
      BY <1>1, <3>1, <3>2, <3>3 DEF Newest
  <2> QED
    BY <2>1, <2>2
<1>4. newest = Newest(s, n)
  <2> HIDE DEF numbers
  <2>1. newest \in numbers /\ Newest(s, n) <= newest
    BY <1>2, <1>3
  <2>2. newest \in Nat /\ Newest(s, n) \in Nat /\ newest <= Newest(s, n)
    BY <1>2, <1>3, <2>1
  <2> HIDE DEF newest
  <2> QED
    BY <2>1, <2>2
<1>5. {m.content : m \in {x \in collected : x.sn > n}} = Later(s, n)
  BY DEF Later
<1>6. CASE s.ready
  BY <1>6 DEF Sequencer!OnSnapshot, Sequencer!Outcome
<1>7. CASE ~s.ready /\ s.cache # <<>> /\ n < s.cache[1].prev
  BY <1>7 DEF Sequencer!OnSnapshot, Sequencer!Outcome
<1>8. CASE ~s.ready /\ ~(s.cache # <<>> /\ n < s.cache[1].prev)
  <2>1. o = Sequencer!Outcome(Sequencer!ReadyAt(newest),
                Sequencer!PublishSnapshot(
                    content \cup {m.content : m \in {x \in collected : x.sn > n}}))
    BY <1>8 DEF Sequencer!OnSnapshot
  <2> QED
    BY <1>4, <1>5, <1>8, <2>1 DEF Sequencer!Outcome
<1> QED
  BY <1>6, <1>7, <1>8

LEMMA NewestFacts ==
    ASSUME NEW i, NEW s, NEW upto \in Nat, Good(i, s, upto), NEW n \in Nat
    PROVE  /\ Newest(s, n) \in Nat /\ n <= Newest(s, n)
           /\ Newest(s, n) <= upto \/ Newest(s, n) = n
           /\ \A k \in 1 .. Len(s.cache) :
                 s.cache[k].sn \in 1 .. upto /\ s.cache[k].sn <= Newest(s, n)
           /\ n < Newest(s, n) => /\ s.cache # <<>>
                                  /\ Len(s.cache) \in 1 .. Len(s.cache)
                                  /\ s.cache[Len(s.cache)].sn = Newest(s, n)
<1> DEFINE L == Len(s.cache)
<1>1. L \in Nat /\ (s.cache # <<>> => L \in 1 .. L) /\ (s.cache = <<>> => L = 0)
  <2>1. s.cache \in Seq(CollectedUpdate)
    BY DEF Good, SequencerState
  <2>2. L \in Nat /\ (s.cache # <<>> => L # 0)
    BY <2>1, LenProperties, EmptySeq
  <2> QED
    BY <2>1, <2>2
<1>2. \A k \in 1 .. L : s.cache[k].sn \in 1 .. upto
  BY DEF Good, Plausible
<1>3. \A k \in 1 .. L : k = L \/ s.cache[k].sn < s.cache[L].sn
  BY <1>1 DEF Good, Increasing
<1> HIDE DEF L
<1> QED
  BY <1>1, <1>2, <1>3 DEF Newest, L

LEMMA ReachedFacts ==
    ASSUME NEW i, NEW s, NEW upto \in Nat, Good(i, s, upto)
    PROVE  /\ Reached(s) \in Nat
           /\ ~s.ready => \A n \in Nat : Reached(s) <= Newest(s, n)
<1> DEFINE L == Len(s.cache)
<1>1. s.cache # <<>> => L \in 1 .. L
  <2>1. s.cache \in Seq(CollectedUpdate)
    BY DEF Good, SequencerState
  <2> QED
    BY <2>1, LenProperties, EmptySeq
<1>2. s.last \in Nat
  BY DEF Good, SequencerState
<1>3. s.cache # <<>> => s.cache[L].sn \in 1 .. upto
  BY <1>1 DEF Good, Plausible
<1> HIDE DEF L
<1>4. Reached(s) \in Nat
  BY <1>2, <1>3 DEF Reached, L
<1>5. ASSUME ~s.ready, NEW n \in Nat PROVE Reached(s) <= Newest(s, n)
  BY <1>3, <1>5 DEF Reached, Newest, L
<1> QED
  BY <1>4, <1>5

(* What was collected after a snapshot is what its book lacks.             *)
LEMMA LaterIsWhatIsMissing ==
    ASSUME NEW i, NEW s, NEW upto \in Nat, Good(i, s, upto), NEW n \in Nat,
           ~(s.cache # <<>> /\ n < s.cache[1].prev),
           Garbage \notin Later(s, n)
    PROVE  Published(i, n) \cup Later(s, n) = Published(i, Newest(s, n))
<1> DEFINE L == Len(s.cache)
           newest == Newest(s, n)
<1>1. /\ newest \in Nat /\ n <= newest /\ n \in 0 .. newest
      /\ \A k \in 1 .. L : s.cache[k].sn \in 1 .. upto /\ s.cache[k].sn <= newest
      /\ n < newest => s.cache # <<>> /\ L \in 1 .. L /\ s.cache[L].sn = newest
  BY NewestFacts
<1>2. /\ Published(i, n) = Published(i, newest) \cap 1 .. n
      /\ Published(i, newest) \subseteq 1 .. newest
  BY <1>1, ChainFacts
<1>3. ASSUME NEW k \in 1 .. L, s.cache[k].sn > n
      PROVE  /\ s.cache[k].content = s.cache[k].sn
             /\ s.cache[k].content \in Later(s, n)
             /\ s.cache[k].sn \in Published(i, newest)
             /\ s.cache[k].sn \in Chain(i, s.cache[k].sn)
  <2>1. s.cache[k].content \in Later(s, n)
    BY <1>3 DEF Later
  <2>2. /\ s.cache[k].content = s.cache[k].sn
        /\ s.cache[k].sn \in Published(i, upto)
        /\ s.cache[k].sn \in 1 .. upto /\ s.cache[k].sn <= newest
    BY <1>1, <2>1 DEF Good, Plausible
  <2>3. s.cache[k].sn \in Published(i, newest) /\ s.cache[k].sn \in Chain(i, s.cache[k].sn)
    BY <1>1, <2>2 DEF Published, Chain
  <2> QED
    BY <2>1, <2>2, <2>3
<1>4. Later(s, n) \subseteq Published(i, newest)
  BY <1>3 DEF Later
<1>5. ASSUME NEW p \in Published(i, newest), p > n
      PROVE  p \in Later(s, n)
  <2>1. p \in 1 .. newest /\ n < newest
    BY <1>1, <1>2, <1>5
  <2>2. /\ s.cache # <<>> /\ L \in 1 .. L /\ s.cache[L].sn = newest
        /\ newest \in Chain(i, newest)
    BY <1>1, <1>3, <2>1
  <2>3. 1 \in 1 .. L /\ s.cache[1].prev \in Nat
    <3>1. s.cache \in Seq(CollectedUpdate) /\ L \in Nat
      BY LenProperties DEF Good, SequencerState
    <3>2. 1 \in 1 .. L
      BY <2>2, <3>1
    <3>3. s.cache[1] \in CollectedUpdate
      BY <3>1, <3>2, ElementOfSeq
    <3> QED
      BY <3>2, <3>3 DEF CollectedUpdate
  <2>4. p > s.cache[1].prev
    BY <1>5, <2>1, <2>2, <2>3
  <2>5. PICK l \in 1 .. L : s.cache[l].sn = p
    BY <2>2, <2>4 DEF Good, WithoutGap
  <2> QED
    BY <1>3, <1>5, <2>5
<1> QED
  <2>1. \A p \in Published(i, newest) : p \in 1 .. n \/ p > n
    BY <1>1, <1>2
  <2> QED
    BY <1>2, <1>4, <1>5, <2>1

LEMMA SnapshotIsRight ==
    ASSUME NEW i, NEW s, NEW b \in SUBSET (0 .. Len(script)), script \in Scripts,
           NEW upto \in 0 .. Len(script), Good(i, s, upto),
           NEW n \in 0 .. Len(script), NEW content \in {Published(i, n), {Garbage}},
           NEW o \in Sequencer!OnSnapshot(s, n, content)
    PROVE  Right(i, s, b, o, upto)
<1>1. Len(script) \in Nat /\ n \in Nat /\ upto \in Nat
  BY FeedAssumption, LenProperties
<1>2. content \subseteq 0 .. Len(script)
  BY <1>1, ChainFacts DEF Garbage
<1>3. ASSUME NEW m \in 0 .. Len(script) PROVE Good(i, Sequencer!ReadyAt(m), upto)
  BY <1>1, EmptySeq DEF Good, Sequencer!ReadyAt, SequencerState, Increasing, WithoutGap
<1>4. CASE /\ s.ready
           /\ o.sequencer = Sequencer!ReadyAt(n)
           /\ o.effect = Sequencer!PublishSnapshot(content)
  <2>1. Apply(b, o.effect) = content /\ o.effect.kind = "snapshot"
    BY <1>4 DEF Apply, Sequencer!PublishSnapshot
  <2>2. Garbage \notin content => content = Published(i, n)
    OBVIOUS
  <2> QED
    BY <1>2, <1>3, <1>4, <2>1, <2>2 DEF Right, InStep, Sequencer!ReadyAt
<1>5. CASE /\ o.sequencer = s
           /\ \/ o.effect = Sequencer!Nothing
              \/ ~s.ready /\ o.effect = Sequencer!RequestSnapshot
  <2>1. CASE o.effect = Sequencer!Nothing
    <3>1. Apply(b, o.effect) = b /\ o.effect.kind = "none"
      BY <2>1 DEF Apply, Sequencer!Nothing
    <3> QED
      BY <1>5, <3>1 DEF Right
  <2>2. CASE ~s.ready /\ o.effect = Sequencer!RequestSnapshot
    <3>1. Apply(b, o.effect) = {} /\ o.effect.kind = "reset"
      BY <2>2 DEF Apply, Sequencer!RequestSnapshot
    <3> QED
      BY <1>5, <2>2, <3>1 DEF Right, InStep
  <2> QED
    BY <1>5, <2>1, <2>2
<1>6. CASE /\ ~(s.cache # <<>> /\ n < s.cache[1].prev)
           /\ o.sequencer = Sequencer!ReadyAt(Newest(s, n))
           /\ o.effect = Sequencer!PublishSnapshot(content \cup Later(s, n))
  <2>1. Newest(s, n) \in 0 .. Len(script)
    <3>1. /\ Newest(s, n) \in Nat
          /\ Newest(s, n) <= upto \/ Newest(s, n) = n
      BY <1>1, NewestFacts
    <3> QED
      BY <1>1, <3>1
  <2>2. Apply(b, o.effect) = content \cup Later(s, n) /\ o.effect.kind = "snapshot"
    BY <1>6 DEF Apply, Sequencer!PublishSnapshot
  <2>3. Later(s, n) \subseteq 0 .. Len(script)
    <3>1. \A k \in 1 .. Len(s.cache) : s.cache[k].content \in 0 .. Len(script)
      BY <1>1 DEF Good, Plausible, Garbage
    <3> QED
      BY <3>1 DEF Later
  <2>4. Garbage \notin content \cup Later(s, n) =>
            content \cup Later(s, n) = Published(i, Newest(s, n))
    BY <1>1, <1>6, LaterIsWhatIsMissing
  <2>5. content \cup Later(s, n) \subseteq 0 .. Len(script)
    BY <1>2, <2>3
  <2>6. Garbage \notin content \cup Later(s, n) =>
            InStep(i, o.sequencer, content \cup Later(s, n))
    BY <1>6, <2>4 DEF InStep, Sequencer!ReadyAt
  <2>7. Good(i, o.sequencer, upto)
    BY <1>3, <1>6, <2>1
  <2> QED
    BY <2>2, <2>5, <2>6, <2>7 DEF Right
<1> QED
  BY <1>1, <1>4, <1>5, <1>6, SnapshotOutcome

LEMMA SnapshotIsGenuine ==
    ASSUME NEW i, NEW s, NEW missed, script \in Scripts,
           NEW upto \in 0 .. Len(script), Good(i, s, upto), Pure(i, s, upto, missed),
           NEW n \in 0 .. Len(script), n \in Chain(i, Len(script)) \cup {0},
           s.ready => \A p \in Published(i, upto) : p <= n,
           NEW o \in Sequencer!OnSnapshot(s, n, Published(i, n))
    PROVE  Genuine(i, o, upto, missed)
<1>1. Len(script) \in Nat /\ n \in Nat /\ upto \in Nat
  BY FeedAssumption, LenProperties
<1>2. Garbage \notin Published(i, n)
  BY <1>1, ChainFacts DEF Garbage
<1>3. ASSUME NEW m \in Chain(i, Len(script)) \cup {0},
             \A p \in Published(i, upto) : p \in missed \/ p <= m
      PROVE  Pure(i, Sequencer!ReadyAt(m), upto, missed)
  BY <1>3 DEF Pure, Reached, Sequencer!ReadyAt
<1>4. CASE /\ s.ready
           /\ o.sequencer = Sequencer!ReadyAt(n)
           /\ o.effect = Sequencer!PublishSnapshot(Published(i, n))
  BY <1>2, <1>3, <1>4 DEF Genuine, Sequencer!PublishSnapshot
<1>5. CASE /\ o.sequencer = s
           /\ \/ o.effect = Sequencer!Nothing
              \/ ~s.ready /\ o.effect = Sequencer!RequestSnapshot
  BY <1>5 DEF Genuine, Sequencer!Nothing, Sequencer!RequestSnapshot
<1>6. CASE /\ ~s.ready
           /\ o.sequencer = Sequencer!ReadyAt(Newest(s, n))
           /\ o.effect = Sequencer!PublishSnapshot(Published(i, n) \cup Later(s, n))
  <2>1. Garbage \notin Later(s, n)
    BY DEF Pure, Later
  <2>2. Newest(s, n) \in Chain(i, Len(script)) \cup {0}
    <3>1. CASE Newest(s, n) = n
      BY <3>1
    <3>2. CASE n < Newest(s, n)
      <4>1. Len(s.cache) \in 1 .. Len(s.cache) /\ s.cache[Len(s.cache)].sn = Newest(s, n)
        BY <1>1, <3>2, NewestFacts
      <4>2. Newest(s, n) \in Published(i, upto)
        BY <4>1 DEF Good, Pure, Plausible
      <4> QED
        BY <1>1, <4>2, ChainFacts
    <3> QED
      BY <1>1, <3>1, <3>2, NewestFacts
  <2>3. Reached(s) \in Nat /\ Reached(s) <= Newest(s, n) /\ Newest(s, n) \in Nat
    BY <1>1, <1>6, ReachedFacts, NewestFacts
  <2>4. ASSUME NEW p \in Published(i, upto) PROVE p \in missed \/ p <= Newest(s, n)
    <3>1. p \in Nat
      BY <1>1, ChainFacts
    <3>2. p \in missed \/ p <= Reached(s)
      BY DEF Pure
    <3> QED
      BY <2>3, <3>1, <3>2
  <2>5. Pure(i, o.sequencer, upto, missed)
    BY <1>3, <1>6, <2>2, <2>4
  <2> QED
    BY <1>2, <1>6, <2>1, <2>5 DEF Genuine, Sequencer!PublishSnapshot
<1>7. \/ /\ s.ready
         /\ o.sequencer = Sequencer!ReadyAt(n)
         /\ o.effect = Sequencer!PublishSnapshot(Published(i, n))
      \/ /\ s.ready \/ (s.cache # <<>> /\ n < s.cache[1].prev)
         /\ o.sequencer = s
         /\ \/ o.effect = Sequencer!Nothing
            \/ ~s.ready /\ o.effect = Sequencer!RequestSnapshot
      \/ /\ ~s.ready
         /\ ~(s.cache # <<>> /\ n < s.cache[1].prev)
         /\ o.sequencer = Sequencer!ReadyAt(Newest(s, n))
         /\ o.effect = Sequencer!PublishSnapshot(Published(i, n) \cup Later(s, n))
  BY <1>1, SnapshotOutcome
<1> QED
  BY <1>4, <1>5, <1>6, <1>7

-----------------------------------------------------------------------------
(* A call that is carried out, and one that is carried out although a      *)
(* callback raised or a message was torn.                                  *)
LEMMA OutcomeIsSane ==
    ASSUME NEW i, NEW s, NEW b, NEW h \in Healths, NEW upto, NEW missed,
           NEW before, NEW was, Sane(i, s, b, h, before, was),
           NEW o, Right(i, s, b, o, upto)
    PROVE  /\ (h = "sound" => Genuine(i, o, upto, missed)) =>
                 Sane(i, o.sequencer, Apply(b, o.effect), Heal(h, o.effect), upto, missed)
           /\ Sane(i, o.sequencer, Apply(b, o.effect), Touch(Heal(h, o.effect)), upto, missed)
<1>1. Good(i, o.sequencer, upto)
  BY DEF Right
<1>2. ASSUME Heal(h, o.effect) # "damaged", Garbage \notin Apply(b, o.effect)
      PROVE  InStep(i, o.sequencer, Apply(b, o.effect))
  <2>1. CASE o.effect.kind \in {"none", "update"}
    <3>1. h # "damaged" /\ Garbage \notin b
      BY <1>2, <2>1 DEF Heal, Apply
    <3>2. InStep(i, s, b)
      BY <3>1 DEF Sane
    <3> QED
      BY <1>2, <3>2 DEF Right
  <2>2. CASE o.effect.kind \notin {"none", "update"}
    BY <1>2, <2>2 DEF Right
  <2> QED
    BY <2>1, <2>2
<1>3. ASSUME h = "sound", Genuine(i, o, upto, missed)
      PROVE  Garbage \notin Apply(b, o.effect) /\ Pure(i, o.sequencer, upto, missed)
  <2>1. Garbage \notin b /\ Garbage \notin o.effect.book
    BY <1>3 DEF Sane, Genuine
  <2>2. o.effect.kind \in {"none", "update", "snapshot", "reset"}
    BY DEF Right
  <2> QED
    BY <1>3, <2>1, <2>2 DEF Genuine, Apply
<1>4. /\ Heal(h, o.effect) = "sound" => h = "sound"
      /\ Touch(Heal(h, o.effect)) # "sound"
      /\ Heal(h, o.effect) = "damaged" => Touch(Heal(h, o.effect)) = "damaged"
  BY DEF Heal, Touch
<1>5. ASSUME h = "sound" => Genuine(i, o, upto, missed)
      PROVE  Sane(i, o.sequencer, Apply(b, o.effect), Heal(h, o.effect), upto, missed)
  BY <1>1, <1>2, <1>3, <1>4, <1>5 DEF Sane
<1>6. Sane(i, o.sequencer, Apply(b, o.effect), Touch(Heal(h, o.effect)), upto, missed)
  BY <1>1, <1>2, <1>4 DEF Sane
<1> QED
  BY <1>5, <1>6

(* The other instruments do not notice.                                    *)
LEMMA OneHandled ==
    ASSUME IInv, NEW i \in Instruments, NEW upto \in Nat, position - 1 <= upto,
           NEW missed, lost \subseteq missed,
           \A j \in Instruments \ {i} :
              \A p \in Published(j, upto) : p > position - 1 => p \in missed,
           NEW s \in SequencerState, NEW b \in SUBSET (0 .. Len(script)),
           NEW h \in Healths,
           sequencer' = [sequencer EXCEPT ![i] = s],
           book' = [book EXCEPT ![i] = b],
           health' = [health EXCEPT ![i] = h],
           Sane(i, s, b, h, upto, missed)
    PROVE  AllSane(sequencer', book', health', upto, missed)
<1>1. AllSane(sequencer, book, health, position - 1, lost) /\ position - 1 \in Nat
  BY FeedAssumption, LenProperties DEF IInv
<1>2. ASSUME NEW j \in Instruments
      PROVE  Sane(j, sequencer'[j], book'[j], health'[j], upto, missed)
  <2>1. CASE j = i
    BY <1>1, <2>1 DEF AllSane
  <2>2. CASE j # i
    <3>1. Sane(j, sequencer[j], book[j], health[j], position - 1, lost)
      BY <1>1 DEF AllSane
    <3>2. Sane(j, sequencer[j], book[j], health[j], upto, missed)
      BY <1>1, <2>2, <3>1, SaneAhead
    <3> QED
      BY <1>1, <2>2, <3>2 DEF AllSane
  <2> QED
    BY <2>1, <2>2
<1> QED
  BY <1>1, <1>2 DEF AllSane

LEMMA NothingHandled ==
    ASSUME IInv, NEW upto \in Nat, position - 1 <= upto,
           NEW missed, lost \subseteq missed,
           \A j \in Instruments :
              \A p \in Published(j, upto) : p > position - 1 => p \in missed,
           NoBook
    PROVE  AllSane(sequencer', book', health', upto, missed)
<1>1. AllSane(sequencer, book, health, position - 1, lost) /\ position - 1 \in Nat
  BY FeedAssumption, LenProperties DEF IInv
<1>2. ASSUME NEW j \in Instruments
      PROVE  Sane(j, sequencer[j], book[j], health[j], upto, missed)
  <2>1. Sane(j, sequencer[j], book[j], health[j], position - 1, lost)
    BY <1>1 DEF AllSane
  <2> QED
    BY <1>1, <2>1, SaneAhead
<1> QED
  BY <1>1, <1>2 DEF AllSane, NoBook

-----------------------------------------------------------------------------
(* The three ways in which an instrument handles a message.                *)
LEMMA HandleKeeps ==
    ASSUME IInv, NEW i \in Instruments, NEW upto \in Nat, position - 1 <= upto,
           NEW missed, lost \subseteq missed,
           \A j \in Instruments \ {i} :
              \A p \in Published(j, upto) : p > position - 1 => p \in missed,
           NEW outcomes,
           \A o \in outcomes :
              /\ Right(i, sequencer[i], book[i], o, upto)
              /\ health[i] = "sound" => Genuine(i, o, upto, missed),
           Handle(i, outcomes)
    PROVE  AllSane(sequencer', book', health', upto, missed)
<1>1. PICK o \in outcomes :
          /\ sequencer' = [sequencer EXCEPT ![i] = o.sequencer]
          /\ book' = [book EXCEPT ![i] = Apply(book[i], o.effect)]
          /\ health' = [health EXCEPT ![i] = Heal(health[i], o.effect)]
  BY DEF Handle
<1>2. /\ Sane(i, sequencer[i], book[i], health[i], position - 1, lost)
      /\ health[i] \in Healths
  BY DEF IInv, AllSane
<1>3. /\ o.sequencer \in SequencerState
      /\ Apply(book[i], o.effect) \in SUBSET (0 .. Len(script))
      /\ Heal(health[i], o.effect) \in Healths
  BY <1>2 DEF Right, Good, Heal, Healths
<1>4. Sane(i, o.sequencer, Apply(book[i], o.effect), Heal(health[i], o.effect), upto, missed)
  BY <1>2, OutcomeIsSane
<1> QED
  BY <1>1, <1>3, <1>4, OneHandled

LEMMA HandleRaisingKeeps ==
    ASSUME IInv, NEW i \in Instruments, NEW upto \in Nat, position - 1 <= upto,
           NEW missed, lost \subseteq missed,
           \A j \in Instruments \ {i} :
              \A p \in Published(j, upto) : p > position - 1 => p \in missed,
           NEW outcomes,
           \A o \in outcomes : Right(i, sequencer[i], book[i], o, upto),
           HandleRaising(i, outcomes)
    PROVE  AllSane(sequencer', book', health', upto, missed)
<1> DEFINE s == sequencer[i]
           b == book[i]
           h == health[i]
<1>1. PICK o \in outcomes, moved \in BOOLEAN, applied \in BOOLEAN :
          /\ sequencer' = [sequencer EXCEPT ![i] = IF moved THEN o.sequencer ELSE s]
          /\ book' = [book EXCEPT ![i] = IF applied THEN Apply(b, o.effect) ELSE b]
          /\ health' = [health EXCEPT ![i] =
                           IF moved # applied THEN "damaged"
                           ELSE Touch(IF applied THEN Heal(h, o.effect) ELSE h)]
  BY DEF HandleRaising
<1>2. /\ Sane(i, s, b, h, position - 1, lost)
      /\ h \in Healths /\ s \in SequencerState /\ b \in SUBSET (0 .. Len(script))
      /\ position - 1 \in Nat
  BY FeedAssumption, LenProperties DEF IInv, AllSane
<1>3. /\ o.sequencer \in SequencerState
      /\ Good(i, o.sequencer, upto)
      /\ Apply(b, o.effect) \in SUBSET (0 .. Len(script))
      /\ Touch(Heal(h, o.effect)) \in Healths /\ Touch(h) \in Healths /\ "damaged" \in Healths
  BY <1>2 DEF Right, Good, Heal, Touch, Healths
<1>4. Good(i, s, upto)
  BY <1>2, GoodAhead DEF Sane
<1> HIDE DEF s, b, h
<1>5. CASE moved # applied
  <2>1. ASSUME NEW q \in {s, o.sequencer}, NEW c PROVE Sane(i, q, c, "damaged", upto, missed)
    BY <1>3, <1>4 DEF Sane
  <2> DEFINE q == IF moved THEN o.sequencer ELSE s
             c == IF applied THEN Apply(b, o.effect) ELSE b
  <2>2. q \in SequencerState /\ c \in SUBSET (0 .. Len(script))
    BY <1>2, <1>3
  <2>3. Sane(i, q, c, "damaged", upto, missed)
    BY <2>1
  <2>4. /\ sequencer' = [sequencer EXCEPT ![i] = q]
        /\ book' = [book EXCEPT ![i] = c]
        /\ health' = [health EXCEPT ![i] = "damaged"]
    BY <1>1, <1>5
  <2> HIDE DEF q, c
  <2> QED
    BY <1>3, <2>2, <2>3, <2>4, OneHandled
<1>6. CASE moved /\ applied
  <2>1. /\ sequencer' = [sequencer EXCEPT ![i] = o.sequencer]
        /\ book' = [book EXCEPT ![i] = Apply(b, o.effect)]
        /\ health' = [health EXCEPT ![i] = Touch(Heal(h, o.effect))]
    BY <1>1, <1>6
  <2>2. Right(i, s, b, o, upto)
    BY DEF s, b
  <2>3. Sane(i, o.sequencer, Apply(b, o.effect), Touch(Heal(h, o.effect)), upto, missed)
    BY <1>2, <2>2, OutcomeIsSane
  <2> QED
    BY <1>3, <2>1, <2>3, OneHandled
<1>7. CASE ~moved /\ ~applied
  <2>1. /\ sequencer' = [sequencer EXCEPT ![i] = s]
        /\ book' = [book EXCEPT ![i] = b]
        /\ health' = [health EXCEPT ![i] = Touch(h)]
    BY <1>1, <1>7
  <2>2. Sane(i, s, b, Touch(h), upto, missed)
    BY <1>2, <1>4 DEF Sane, Touch
  <2> QED
    BY <1>2, <1>3, <2>1, <2>2, OneHandled
<1> QED
  BY <1>5, <1>6, <1>7

LEMMA HandleTornKeeps ==
    ASSUME IInv, NEW i \in Instruments, NEW upto \in Nat, position - 1 <= upto,
           NEW missed, lost \subseteq missed,
           \A j \in Instruments \ {i} :
              \A p \in Published(j, upto) : p > position - 1 => p \in missed,
           NEW outcomes,
           \A o \in outcomes : Right(i, sequencer[i], book[i], o, upto),
           HandleTorn(i, outcomes)
    PROVE  AllSane(sequencer', book', health', upto, missed)
<1>1. CASE HandleRaising(i, outcomes)
  BY <1>1, HandleRaisingKeeps
<1>2. CASE \E o \in outcomes :
              /\ sequencer' = [sequencer EXCEPT ![i] = o.sequencer]
              /\ book' = [book EXCEPT ![i] = Apply(book[i], o.effect)]
              /\ health' = [health EXCEPT ![i] = Touch(Heal(health[i], o.effect))]
  <2>1. PICK o \in outcomes :
              /\ sequencer' = [sequencer EXCEPT ![i] = o.sequencer]
              /\ book' = [book EXCEPT ![i] = Apply(book[i], o.effect)]
              /\ health' = [health EXCEPT ![i] = Touch(Heal(health[i], o.effect))]
    BY <1>2
  <2>2. /\ Sane(i, sequencer[i], book[i], health[i], position - 1, lost)
        /\ health[i] \in Healths
    BY DEF IInv, AllSane
  <2>3. /\ o.sequencer \in SequencerState
        /\ Apply(book[i], o.effect) \in SUBSET (0 .. Len(script))
        /\ Touch(Heal(health[i], o.effect)) \in Healths
    BY <2>2 DEF Right, Good, Heal, Touch, Healths
  <2>4. Sane(i, o.sequencer, Apply(book[i], o.effect), Touch(Heal(health[i], o.effect)),
             upto, missed)
    BY <2>2, OutcomeIsSane
  <2> QED
    BY <2>1, <2>3, <2>4, OneHandled
<1> QED
  BY <1>1, <1>2 DEF HandleTorn

-----------------------------------------------------------------------------
LEMMA ScriptFacts ==
    ASSUME script \in Scripts
    PROVE  /\ Len(script) \in Nat
           /\ \A n \in 1 .. Len(script) :
                 /\ script[n] # Other => script[n].instrument \in Instruments
                 /\ script[n].update_type \in {"INCREMENTAL", "SNAPSHOT"} => script[n] # Other
                 /\ script[n].update_type = "INCREMENTAL" =>
                       n \in Published(script[n].instrument, n)
                 /\ script[n] # Other /\ script[n].chained =>
                       script[n].update_type \in {"INCREMENTAL"} \cup Ignored
                 /\ script[n].update_type \in {"INCREMENTAL", "SNAPSHOT"} \cup Ignored
<1>1. script \in Seq(Message) /\ Len(script) \in Nat
  BY FeedAssumption, LenProperties
<1>2. ASSUME NEW n \in 1 .. Len(script)
      PROVE  /\ script[n] # Other => script[n].instrument \in Instruments
             /\ script[n].update_type \in {"INCREMENTAL", "SNAPSHOT"} => script[n] # Other
             /\ script[n].update_type = "INCREMENTAL" => script[n].chained
             /\ script[n] # Other /\ script[n].chained =>
                   script[n].update_type \in {"INCREMENTAL"} \cup Ignored
             /\ script[n].update_type \in {"INCREMENTAL", "SNAPSHOT"} \cup Ignored
  <2>1. script[n] \in Message
    BY <1>1, ElementOfSeq
  <2>2. Other.update_type = "OTHER" /\ Ignored = {"STALE", "UNDEFINED", "OTHER"}
    BY DEF Other, Ignored
  <2>3. CASE script[n] \in [update_type : {"INCREMENTAL"}, instrument : Instruments,
                            chained : {TRUE}]
    BY <2>2, <2>3
  <2>4. CASE script[n] \in [update_type : {"SNAPSHOT"}, instrument : Instruments,
                            chained : {FALSE}]
    BY <2>2, <2>4
  <2>5. CASE script[n] \in [update_type : {"STALE", "UNDEFINED"}, instrument : Instruments,
                            chained : BOOLEAN]
    BY <2>2, <2>5
  <2>6. CASE script[n] = Other
    BY <2>2, <2>6
  <2> QED
    BY <2>1, <2>3, <2>4, <2>5, <2>6 DEF Message
<1>3. ASSUME NEW n \in 1 .. Len(script), script[n].update_type = "INCREMENTAL"
      PROVE  n \in Published(script[n].instrument, n)
  <2>1. script[n] # Other /\ script[n].chained /\ n \in 1 .. n
    BY <1>1, <1>2, <1>3
  <2> QED
    BY <1>3, <2>1 DEF Published, Chain, IsOf
<1> QED
  BY <1>1, <1>2, <1>3

LEMMA NewlyPublished ==
    ASSUME NEW j, NEW n \in Nat, NEW p \in Published(j, n)
    PROVE  /\ p \in 1 .. n
           /\ script[p] # Other
           /\ script[p].instrument = j
           /\ script[p].update_type = "INCREMENTAL"
  BY DEF Published, Chain, IsOf

LEMMA PositionFacts ==
    ASSUME IInv
    PROVE  /\ Len(script) \in Nat
           /\ position \in Nat \ {0} /\ position - 1 \in 0 .. Len(script)
           /\ position - 1 <= position
  BY ScriptFacts DEF IInv

(* A snapshot of the publisher's, which a ready sequencer is shown only    *)
(* when it comes on the incremental channel.                               *)
LEMMA SnapshotOutcomesAre ==
    ASSUME script \in Scripts, NEW i, NEW missed,
           NEW upto \in 0 .. Len(script), NEW n \in 0 .. Len(script),
           Sane(i, sequencer[i], book[i], health[i], upto, missed),
           book[i] \in SUBSET (0 .. Len(script)),
           sequencer[i].ready => upto <= n,
           NEW o \in SnapshotOutcomes(i, n, Published(i, n))
    PROVE  /\ Right(i, sequencer[i], book[i], o, upto)
           /\ health[i] = "sound" => Genuine(i, o, upto, missed)
<1> DEFINE last == LastSequenceNumber(i, n)
<1>1. Len(script) \in Nat /\ n \in Nat /\ upto \in Nat
  BY ScriptFacts
<1>2. /\ last \in 0 .. Len(script)
      /\ last \in Chain(i, Len(script)) \cup {0}
      /\ \A p \in Chain(i, n) : p <= last
  BY <1>1, LastSequenceNumberFacts, ChainFacts
<1>3. Published(i, last) = Published(i, n)
  BY <1>1, PublishedAsOf
<1>4. o \in Sequencer!OnSnapshot(sequencer[i], last, Published(i, last))
  BY <1>3 DEF SnapshotOutcomes
<1>5. sequencer[i].ready => \A p \in Published(i, upto) : p <= last
  BY <1>1, <1>2, ChainFacts
<1>6. Good(i, sequencer[i], upto)
  BY DEF Sane
<1> HIDE DEF last
<1>7. Right(i, sequencer[i], book[i], o, upto)
  BY <1>2, <1>4, <1>6, SnapshotIsRight
<1>8. ASSUME health[i] = "sound" PROVE Genuine(i, o, upto, missed)
  <2>1. Pure(i, sequencer[i], upto, missed)
    BY <1>8 DEF Sane
  <2> QED
    BY <1>2, <1>4, <1>5, <1>6, <2>1, SnapshotIsGenuine
<1> QED
  BY <1>7, <1>8

(* Update n of the channel, as it was sent and with a torn content.        *)
LEMMA UpdateShown ==
    ASSUME script \in Scripts, NEW n \in 1 .. Len(script),
           NEW i, NEW prev, NEW content,
           \/ /\ content = n
              /\ script[n].update_type = "INCREMENTAL" /\ script[n].instrument = i
              /\ prev = LastSequenceNumber(i, n - 1)
           \/ content = Garbage /\ prev \in Previous(n)
    PROVE  Shown(i, [sn |-> n, prev |-> prev, content |-> content], n)
<1>1. Len(script) \in Nat /\ n \in Nat /\ n - 1 \in Nat
  BY ScriptFacts
<1>2. prev \in 0 .. n - 1
  BY <1>1, LastSequenceNumberFacts DEF Previous
<1>3. content = Garbage \/ (content = n /\ n \in Published(i, n))
  BY ScriptFacts
<1>4. n \in Chain(i, n) => prev = LastSequenceNumber(i, n - 1)
  BY DEF Chain, IsOf, Previous
<1>5. content \in Nat
  BY <1>1, <1>3 DEF Garbage
<1> QED
  BY <1>1, <1>2, <1>3, <1>4, <1>5 DEF Shown, CollectedUpdate, Plausible

-----------------------------------------------------------------------------
LEMMA InitHolds == Init => IInv
<1> SUFFICES ASSUME Init PROVE IInv
  OBVIOUS
<1>1. /\ script \in Scripts /\ position = 1 /\ snapped = 0 /\ lost = {}
      /\ sequencer = [i \in Instruments |-> Sequencer!Fresh]
      /\ book = [i \in Instruments |-> {}]
      /\ health = [i \in Instruments |-> "sound"]
  BY DEF Init
<1>2. Len(script) \in Nat
  BY <1>1, ScriptFacts
<1>3. Sequencer!Fresh \in SequencerState /\ Len(Sequencer!Fresh.cache) = 0
  BY EmptySeq DEF Sequencer!Fresh, SequencerState
<1>4. ASSUME NEW i \in Instruments
      PROVE  Sane(i, Sequencer!Fresh, {}, "sound", position - 1, lost)
  <2>1. Good(i, Sequencer!Fresh, 0)
    BY <1>2, <1>3 DEF Good, Sequencer!Fresh, Increasing, WithoutGap
  <2>2. InStep(i, Sequencer!Fresh, {})
    BY DEF InStep, Sequencer!Fresh
  <2>3. Pure(i, Sequencer!Fresh, 0, lost)
    BY <1>3, ChainFacts DEF Pure, Sequencer!Fresh
  <2> QED
    BY <1>1, <2>1, <2>2, <2>3 DEF Sane
<1>5. AllSane(sequencer, book, health, position - 1, lost)
  BY <1>1, <1>3, <1>4 DEF AllSane, Healths
<1> QED
  BY <1>1, <1>2, <1>5 DEF IInv

LEMMA IncrementalReceivedKeeps == ASSUME IInv, IncrementalReceived PROVE IInv'
<1> DEFINE n == position
           i == script[n].instrument
<1>1. /\ n \in 1 .. Len(script) /\ position' = n + 1
      /\ script' = script /\ snapped' = snapped /\ lost' = lost
      /\ Update(n)
  BY PositionFacts DEF IncrementalReceived
<1>2. /\ script \in Scripts /\ Len(script) \in Nat /\ n \in Nat
      /\ n - 1 \in 0 .. Len(script) /\ n - 1 <= n /\ lost \subseteq lost
  BY PositionFacts DEF IInv
<1>3. AllSane(sequencer, book, health, n - 1, lost)
  BY DEF IInv
<1>4. CASE script[n].update_type = "SNAPSHOT" /\ SnapshotUpdate(i, n, TRUE)
  <2>1. i \in Instruments /\ Handle(i, SnapshotOutcomes(i, n, Published(i, n)))
    BY <1>1, <1>2, <1>4, ScriptFacts DEF SnapshotUpdate, use_snapshot
  <2>2. \A j \in Instruments : \A p \in Published(j, n) : p > n - 1 => p \in lost
    BY <1>1, <1>2, <1>4, NewlyPublished
  <2>3. Sane(i, sequencer[i], book[i], health[i], n, lost)
    <3>1. Sane(i, sequencer[i], book[i], health[i], n - 1, lost)
      BY <1>3, <2>1 DEF AllSane
    <3> HIDE DEF i, n
    <3> QED
      BY <1>2, <2>1, <2>2, <3>1, SaneAhead
  <2>4. book[i] \in SUBSET (0 .. Len(script))
    BY <1>3, <2>1 DEF AllSane
  <2>5. \A o \in SnapshotOutcomes(i, n, Published(i, n)) :
            /\ Right(i, sequencer[i], book[i], o, n)
            /\ health[i] = "sound" => Genuine(i, o, n, lost)
    <3>1. n \in 0 .. Len(script) /\ n <= n
      BY <1>1, <1>2
    <3> HIDE DEF i, n
    <3> QED
      BY <1>2, <2>3, <2>4, <3>1, SnapshotOutcomesAre
  <2> HIDE DEF i
  <2>6. AllSane(sequencer', book', health', n, lost)
    BY <1>2, <2>1, <2>2, <2>5, HandleKeeps
  <2> QED
    BY <1>1, <1>2, <2>6, AllSaneStays DEF IInv
<1>5. CASE script[n].update_type = "INCREMENTAL" /\ Handle(i, UpdateOutcomes(i, n, n))
  <2>1. i \in Instruments
    BY <1>1, <1>2, <1>5, ScriptFacts
  <2>2. \A j \in Instruments \ {i} : \A p \in Published(j, n) : p > n - 1 => p \in lost
    BY <1>1, <1>2, <1>5, NewlyPublished
  <2> DEFINE m == [sn |-> n, prev |-> LastSequenceNumber(i, n - 1), content |-> n]
  <2>3. Shown(i, m, n) /\ m.content = n
    BY <1>1, <1>2, <1>5, UpdateShown
  <2>4. Sane(i, sequencer[i], book[i], health[i], n - 1, lost)
    BY <1>3, <2>1 DEF AllSane
  <2>5. book[i] \in SUBSET (0 .. Len(script))
    BY <1>3, <2>1 DEF AllSane
  <2>6. ASSUME NEW o \in UpdateOutcomes(i, n, n)
        PROVE  /\ Right(i, sequencer[i], book[i], o, n)
               /\ health[i] = "sound" => Genuine(i, o, n, lost)
    <3>1. o \in Sequencer!OnUpdate(sequencer[i], m)
      BY DEF UpdateOutcomes
    <3>2. Good(i, sequencer[i], n - 1)
      BY <2>4 DEF Sane
    <3>3. health[i] = "sound" => Pure(i, sequencer[i], n - 1, lost)
      BY <2>4 DEF Sane
    <3> HIDE DEF m, i
    <3> QED
      BY <1>1, <1>2, <2>3, <2>5, <3>1, <3>2, <3>3, UpdateIsRight, UpdateIsGenuine
  <2> HIDE DEF i
  <2>7. AllSane(sequencer', book', health', n, lost)
    BY <1>2, <1>5, <2>1, <2>2, <2>6, HandleKeeps
  <2> QED
    BY <1>1, <1>2, <2>7, AllSaneStays DEF IInv
<1>6. CASE script[n].update_type \in Ignored /\ NoBook
  <2>1. \A j \in Instruments : \A p \in Published(j, n) : p > n - 1 => p \in lost
    BY <1>1, <1>2, <1>6, NewlyPublished DEF Ignored
  <2>2. AllSane(sequencer', book', health', n, lost)
    BY <1>2, <1>6, <2>1, NothingHandled
  <2> QED
    BY <1>1, <1>2, <2>2, AllSaneStays DEF IInv
<1> QED
  BY <1>1, <1>4, <1>5, <1>6 DEF Update

LEMMA IncrementalRaisesKeeps == ASSUME IInv, IncrementalRaises PROVE IInv'
<1> DEFINE n == position
           i == script[n].instrument
<1>1. /\ n \in 1 .. Len(script) /\ position' = n + 1
      /\ script' = script /\ snapped' = snapped /\ lost' = lost
      /\ UpdateRaises(n)
  BY PositionFacts DEF IncrementalRaises
<1>2. /\ script \in Scripts /\ Len(script) \in Nat /\ n \in Nat
      /\ n - 1 \in 0 .. Len(script) /\ n - 1 <= n /\ lost \subseteq lost
      /\ n \in 0 .. Len(script) /\ n <= n
  BY <1>1, PositionFacts DEF IInv
<1>3. CASE script[n].update_type \in Ignored /\ NoBook
  <2>1. \A j \in Instruments : \A p \in Published(j, n) : p > n - 1 => p \in lost
    BY <1>1, <1>2, <1>3, NewlyPublished DEF Ignored
  <2>2. AllSane(sequencer', book', health', n, lost)
    BY <1>2, <1>3, <2>1, NothingHandled
  <2> QED
    BY <1>1, <1>2, <2>2, AllSaneStays DEF IInv
<1>4. CASE \/ script[n].update_type = "SNAPSHOT" /\ SnapshotRaises(i, n, TRUE)
           \/ /\ script[n].update_type = "INCREMENTAL"
              /\ HandleRaising(i, UpdateOutcomes(i, n, n))
  <2>1. i \in Instruments
    BY <1>1, <1>2, <1>4, ScriptFacts
  <2>2. /\ Sane(i, sequencer[i], book[i], health[i], n - 1, lost)
        /\ book[i] \in SUBSET (0 .. Len(script))
    BY <2>1 DEF IInv, AllSane
  <2>3. \A j \in Instruments \ {i} : \A p \in Published(j, n) : p > n - 1 => p \in lost
    BY <1>1, <1>2, NewlyPublished
  <2>4. PICK outcomes : /\ HandleRaising(i, outcomes)
                        /\ \A o \in outcomes : Right(i, sequencer[i], book[i], o, n)
    <3>1. CASE script[n].update_type = "SNAPSHOT" /\ SnapshotRaises(i, n, TRUE)
      <4>1. HandleRaising(i, SnapshotOutcomes(i, n, Published(i, n)))
        BY <3>1 DEF SnapshotRaises, use_snapshot
      <4>2. \A p \in Published(i, n) : p > n - 1 => p \in lost
        BY <1>1, <1>2, <3>1, NewlyPublished
      <4> HIDE DEF i, n
      <4>3. Sane(i, sequencer[i], book[i], health[i], n, lost)
        BY <1>2, <2>1, <2>2, <4>2, SaneAhead
      <4>4. \A o \in SnapshotOutcomes(i, n, Published(i, n)) :
                Right(i, sequencer[i], book[i], o, n)
        BY <1>2, <2>1, <2>2, <4>3, SnapshotOutcomesAre
      <4> QED
        BY <4>1, <4>4
    <3>2. CASE /\ script[n].update_type = "INCREMENTAL"
               /\ HandleRaising(i, UpdateOutcomes(i, n, n))
      <4> DEFINE m == [sn |-> n, prev |-> LastSequenceNumber(i, n - 1), content |-> n]
      <4>1. Shown(i, m, n)
        BY <1>1, <1>2, <3>2, UpdateShown
      <4>2. Good(i, sequencer[i], n - 1)
        BY <2>2 DEF Sane
      <4>3. UpdateOutcomes(i, n, n) = Sequencer!OnUpdate(sequencer[i], m)
        BY DEF UpdateOutcomes
      <4> HIDE DEF i, m
      <4>4. \A o \in UpdateOutcomes(i, n, n) : Right(i, sequencer[i], book[i], o, n)
        BY <1>1, <1>2, <2>1, <2>2, <4>1, <4>2, <4>3, UpdateIsRight
      <4> QED
        BY <3>2, <4>4
    <3> QED
      BY <1>4, <3>1, <3>2
  <2> HIDE DEF i
  <2>5. AllSane(sequencer', book', health', n, lost)
    BY <1>2, <2>1, <2>3, <2>4, HandleRaisingKeeps
  <2> QED
    BY <1>1, <1>2, <2>5, AllSaneStays DEF IInv
<1> QED
  BY <1>1, <1>3, <1>4 DEF UpdateRaises

LEMMA IncrementalLostKeeps ==
    ASSUME IInv, NEW n \in 1 .. Len(script), IncrementalLost(n)
    PROVE  IInv'
<1>1. /\ n \in position .. Len(script) /\ position' = n + 1
      /\ script' = script /\ snapped' = snapped /\ lost' = lost \cup Lost(position, n)
      /\ NoBook
  BY DEF IncrementalLost
<1>2. /\ Len(script) \in Nat /\ position \in Nat \ {0} /\ n \in Nat /\ position - 1 <= n
      /\ n + 1 \in 1 .. Len(script) + 1 /\ n + 1 - 1 = n
  BY <1>1, PositionFacts
<1>3. lost' \subseteq 1 .. Len(script) /\ lost \subseteq lost'
  <2>1. Lost(position, n) \subseteq 1 .. Len(script)
    BY <1>2 DEF Lost
  <2> QED
    BY <1>1, <2>1 DEF IInv
<1>4. \A j \in Instruments : \A p \in Published(j, n) : p > position - 1 => p \in lost'
  <2> SUFFICES ASSUME NEW j \in Instruments, NEW p \in Published(j, n), p > position - 1
               PROVE  p \in Lost(position, n)
    BY <1>1
  <2>1. p \in 1 .. n /\ script[p] # Other
    BY <1>2, NewlyPublished
  <2> QED
    BY <1>2, <2>1 DEF Lost
<1>5. AllSane(sequencer', book', health', n, lost')
  BY <1>1, <1>2, <1>3, <1>4, NothingHandled
<1> QED
  BY <1>1, <1>2, <1>3, <1>5, AllSaneStays DEF IInv

LEMMA IncrementalTornKeeps ==
    ASSUME IInv, NEW i \in Instruments, IncrementalTorn(i)
    PROVE  IInv'
<1> DEFINE n == position
<1>1. /\ n \in 1 .. Len(script) /\ position' = n + 1
      /\ script' = script /\ snapped' = snapped /\ lost' = lost \cup Lost(n, n)
      /\ TornUpdate(i, n)
  BY PositionFacts DEF IncrementalTorn
<1>2. /\ script \in Scripts /\ Len(script) \in Nat /\ n \in Nat
      /\ n - 1 \in 0 .. Len(script) /\ n - 1 \in Nat /\ n - 1 <= n /\ n \in 0 .. Len(script)
  BY <1>1, PositionFacts DEF IInv
<1>3. lost' \subseteq 1 .. Len(script) /\ lost \subseteq lost'
  <2>1. Lost(n, n) \subseteq 1 .. Len(script)
    BY <1>1, <1>2 DEF Lost
  <2> QED
    BY <1>1, <2>1 DEF IInv
<1>4. \A j \in Instruments : \A p \in Published(j, n) : p > n - 1 => p \in lost'
  <2> SUFFICES ASSUME NEW j \in Instruments, NEW p \in Published(j, n), p > n - 1
               PROVE  p \in Lost(n, n)
    BY <1>1
  <2>1. p \in 1 .. n /\ script[p] # Other
    BY <1>2, NewlyPublished
  <2> QED
    BY <1>2, <2>1 DEF Lost
<1>5. /\ Good(i, sequencer[i], n - 1)
      /\ book[i] \in SUBSET (0 .. Len(script))
  BY DEF IInv, AllSane, Sane
<1>6. Good(i, sequencer[i], n)
  BY <1>2, <1>5, GoodAhead
<1>7. PICK prev \in Previous(n) :
          \/ HandleTorn(i, Sequencer!OnUpdate(sequencer[i],
                               [sn |-> n, prev |-> prev, content |-> Garbage]))
          \/ HandleTorn(i, Sequencer!OnSnapshot(sequencer[i], prev, {Garbage}))
  BY <1>1 DEF TornUpdate
<1>8. prev \in 0 .. Len(script)
  BY <1>1, <1>2, LastSequenceNumberFacts DEF Previous
<1>9. \A o \in Sequencer!OnUpdate(sequencer[i], [sn |-> n, prev |-> prev, content |-> Garbage]) :
          Right(i, sequencer[i], book[i], o, n)
  BY <1>1, <1>2, <1>5, UpdateShown, UpdateIsRight
<1>10. \A o \in Sequencer!OnSnapshot(sequencer[i], prev, {Garbage}) :
          Right(i, sequencer[i], book[i], o, n)
  BY <1>2, <1>5, <1>6, <1>8, SnapshotIsRight
<1>11. AllSane(sequencer', book', health', n, lost')
  BY <1>2, <1>3, <1>4, <1>7, <1>9, <1>10, HandleTornKeeps
<1> QED
  BY <1>1, <1>2, <1>3, <1>11, AllSaneStays DEF IInv

LEMMA SnapshotReceivedKeeps ==
    ASSUME IInv, NEW i \in Instruments, NEW n \in 0 .. Len(script), SnapshotReceived(i, n)
    PROVE  IInv'
<1> DEFINE upto == position - 1
<1>1. /\ snapped' = n /\ script' = script /\ position' = position /\ lost' = lost
      /\ SnapshotUpdate(i, n, FALSE)
  BY DEF SnapshotReceived, Snapshot
<1>2. /\ script \in Scripts /\ upto \in Nat /\ upto \in 0 .. Len(script) /\ upto <= upto
      /\ lost \subseteq lost
  BY PositionFacts DEF IInv
<1>3. \A j \in Instruments : \A p \in Published(j, upto) : p > upto => p \in lost
  BY <1>2, NewlyPublished
<1>4. AllSane(sequencer', book', health', upto, lost)
  <2>1. CASE use_snapshot(i, FALSE)
    <3>1. ~sequencer[i].ready
      BY <2>1 DEF use_snapshot
    <3>2. Handle(i, SnapshotOutcomes(i, n, Published(i, n)))
      BY <1>1, <2>1 DEF SnapshotUpdate
    <3>3. /\ Sane(i, sequencer[i], book[i], health[i], upto, lost)
          /\ book[i] \in SUBSET (0 .. Len(script))
      BY DEF IInv, AllSane
    <3> HIDE DEF upto
    <3>4. \A o \in SnapshotOutcomes(i, n, Published(i, n)) :
              /\ Right(i, sequencer[i], book[i], o, upto)
              /\ health[i] = "sound" => Genuine(i, o, upto, lost)
      BY <1>2, <3>1, <3>3, SnapshotOutcomesAre
    <3> QED
      BY <1>2, <1>3, <3>2, <3>4, HandleKeeps DEF upto
  <2>2. CASE ~use_snapshot(i, FALSE)
    BY <1>1, <1>2, <1>3, <2>2, NothingHandled DEF SnapshotUpdate
  <2> QED
    BY <2>1, <2>2
<1> QED
  BY <1>1, <1>4, AllSaneStays DEF IInv

LEMMA SnapshotReceivedRaisesKeeps ==
    ASSUME IInv, NEW i \in Instruments, NEW n \in 0 .. Len(script), SnapshotReceivedRaises(i, n)
    PROVE  IInv'
<1> DEFINE upto == position - 1
<1>1. /\ snapped' = n /\ script' = script /\ position' = position /\ lost' = lost
      /\ \/ NoBook
         \/ /\ ~sequencer[i].ready
            /\ HandleRaising(i, SnapshotOutcomes(i, n, Published(i, n)))
  BY DEF SnapshotReceivedRaises, Snapshot, SnapshotRaises, use_snapshot
<1>2. /\ script \in Scripts /\ upto \in Nat /\ upto \in 0 .. Len(script) /\ upto <= upto
      /\ lost \subseteq lost
  BY PositionFacts DEF IInv
<1>3. \A j \in Instruments : \A p \in Published(j, upto) : p > upto => p \in lost
  BY <1>2, NewlyPublished
<1>4. /\ Sane(i, sequencer[i], book[i], health[i], upto, lost)
      /\ book[i] \in SUBSET (0 .. Len(script))
  BY DEF IInv, AllSane
<1>5. ~sequencer[i].ready =>
          \A o \in SnapshotOutcomes(i, n, Published(i, n)) :
              Right(i, sequencer[i], book[i], o, upto)
  <2> HIDE DEF upto
  <2> QED
    BY <1>2, <1>4, SnapshotOutcomesAre
<1>6. CASE NoBook
  BY <1>1, <1>2, <1>3, <1>6, NothingHandled, AllSaneStays DEF IInv
<1>7. CASE ~sequencer[i].ready /\ HandleRaising(i, SnapshotOutcomes(i, n, Published(i, n)))
  <2>1. AllSane(sequencer', book', health', upto, lost)
    BY <1>2, <1>3, <1>5, <1>7, HandleRaisingKeeps
  <2> QED
    BY <1>1, <2>1, AllSaneStays DEF IInv
<1> QED
  BY <1>1, <1>6, <1>7

LEMMA SnapshotTornKeeps ==
    ASSUME IInv, NEW i \in Instruments, NEW n \in 0 .. Len(script), SnapshotTorn(i, n)
    PROVE  IInv'
<1> DEFINE upto == position - 1
<1>1. /\ snapped' = n /\ script' = script /\ position' = position /\ lost' = lost
      /\ TornSnapshot(i, n)
  BY DEF SnapshotTorn, Snapshot
<1>2. PICK j \in Instruments :
          HandleTorn(i, Sequencer!OnSnapshot(sequencer[i], LastSequenceNumber(j, n), {Garbage}))
  BY <1>1 DEF TornSnapshot
<1>3. /\ script \in Scripts /\ upto \in Nat /\ upto \in 0 .. Len(script) /\ upto <= upto
      /\ lost \subseteq lost
  BY PositionFacts DEF IInv
<1>4. \A k \in Instruments : \A p \in Published(k, upto) : p > upto => p \in lost
  BY <1>3, NewlyPublished
<1>5. /\ Good(i, sequencer[i], upto)
      /\ book[i] \in SUBSET (0 .. Len(script))
  BY DEF IInv, AllSane, Sane
<1>6. LastSequenceNumber(j, n) \in 0 .. Len(script)
  <2>1. Len(script) \in Nat /\ n \in Nat
    BY PositionFacts
  <2> QED
    BY <2>1, LastSequenceNumberFacts
<1>7. \A o \in Sequencer!OnSnapshot(sequencer[i], LastSequenceNumber(j, n), {Garbage}) :
          Right(i, sequencer[i], book[i], o, upto)
  <2> HIDE DEF upto
  <2> QED
    BY <1>3, <1>5, <1>6, SnapshotIsRight
<1>8. AllSane(sequencer', book', health', upto, lost)
  BY <1>2, <1>3, <1>4, <1>7, HandleTornKeeps
<1> QED
  BY <1>1, <1>8, AllSaneStays DEF IInv

LEMMA StutterKeeps == ASSUME IInv, UNCHANGED vars PROVE IInv'
  BY AllSaneStays DEF IInv, vars

-----------------------------------------------------------------------------
LEMMA StepKeeps == IInv /\ [Next]_vars => IInv'
<1> SUFFICES ASSUME IInv, [Next]_vars PROVE IInv'
  OBVIOUS
<1>1. CASE IncrementalReceived
  BY <1>1, IncrementalReceivedKeeps
<1>2. CASE \E n \in 1 .. Len(script) : IncrementalLost(n)
  BY <1>2, IncrementalLostKeeps
<1>3. CASE \E i \in Instruments, n \in 0 .. Len(script) : SnapshotReceived(i, n)
  BY <1>3, SnapshotReceivedKeeps
<1>4. CASE IncrementalRaises
  BY <1>4, IncrementalRaisesKeeps
<1>5. CASE \E i \in Instruments : IncrementalTorn(i)
  BY <1>5, IncrementalTornKeeps
<1>6. CASE \E i \in Instruments, n \in 0 .. Len(script) :
                 SnapshotReceivedRaises(i, n) \/ SnapshotTorn(i, n)
  BY <1>6, SnapshotReceivedRaisesKeeps, SnapshotTornKeeps
<1>7. CASE UNCHANGED vars
  BY <1>7, StutterKeeps
<1> QED
  BY <1>1, <1>2, <1>3, <1>4, <1>5, <1>6, <1>7 DEF Next, Ordinary, Disturbance

LEMMA Invariance == Spec => []IInv
  BY InitHolds, StepKeeps, PTL DEF Spec

(* What the invariant is for, state by state.                              *)
LEMMA TypesHold == ASSUME IInv PROVE TypeOK
<1>1. ASSUME NEW i \in Instruments
      PROVE  /\ sequencer[i].ready \in BOOLEAN
             /\ sequencer[i].last \in 0 .. Len(script)
             /\ sequencer[i].ready => sequencer[i].cache = <<>>
             /\ book[i] \subseteq 0 .. Len(script)
             /\ health[i] \in {"sound", "damaged", "healed"}
  <2>1. /\ Good(i, sequencer[i], position - 1)
        /\ book[i] \in SUBSET (0 .. Len(script))
        /\ health[i] \in {"sound", "damaged", "healed"}
    BY DEF IInv, AllSane, Sane, Healths
  <2> QED
    BY <2>1, PositionFacts DEF Good, SequencerState
<1> QED
  BY <1>1 DEF IInv, TypeOK

LEMMA BooksWerePublished == ASSUME IInv PROVE BookIsPublished
  BY DEF IInv, AllSane, Sane, BookIsPublished, Clean, Torn, InStep

LEMMA NothingIsForgotten == ASSUME IInv PROVE NothingForgotten
<1> SUFFICES ASSUME NEW i \in Instruments, health[i] = "sound", sequencer[i].ready,
                    NEW p \in Published(i, position - 1), p \notin lost
             PROVE  p \in book[i]
  BY DEF NothingForgotten
<1>1. /\ Good(i, sequencer[i], position - 1)
      /\ Pure(i, sequencer[i], position - 1, lost)
      /\ InStep(i, sequencer[i], book[i])
  BY DEF IInv, AllSane, Sane
<1>2. p <= sequencer[i].last /\ sequencer[i].last \in Nat
  BY <1>1 DEF Pure, Reached, Good, SequencerState
<1>3. p \in Published(i, sequencer[i].last)
  BY <1>2, PositionFacts DEF Published, Chain
<1> QED
  BY <1>1, <1>3 DEF InStep

-----------------------------------------------------------------------------
(* Every variable of the books keeps its type, whatever is sent, lost,     *)
(* torn and raised (Instrument, Shared, Incremental and Snapshot in        *)
(* samples/sbe_receiver.py).                                               *)
THEOREM FeedTypeCorrectness == Spec => []TypeOK
<1>1. IInv => TypeOK
  BY TypesHold
<1> QED
  BY <1>1, Invariance, PTL

(* For every number of instruments, every script and every interleaving of *)
(* the two channels: a book that no torn message or half-done callback has *)
(* spoilt is empty or one that the publisher had (sequence_helper).        *)
THEOREM BooksArePublished == Spec => []BookIsPublished
<1>1. IInv => BookIsPublished
  BY BooksWerePublished
<1> QED
  BY <1>1, Invariance, PTL

(* A book that is there includes every update that got through.            *)
THEOREM UpdatesAreNotForgotten == Spec => []NothingForgotten
<1>1. IInv => NothingForgotten
  BY NothingIsForgotten
<1> QED
  BY <1>1, Invariance, PTL

-----------------------------------------------------------------------------
(* What a step may do to one instrument: nothing, or carry out a call.     *)
Unmoved(i) == sequencer'[i] = sequencer[i] /\ book'[i] = book[i] /\ health'[i] = health[i]

Moved(i, o) ==
    /\ sequencer'[i] = o.sequencer
    /\ book'[i] = Apply(book[i], o.effect)
    /\ health'[i] = Heal(health[i], o.effect)

LEMMA HandleMoves ==
    ASSUME IInv, NEW i \in Instruments, NEW k \in Instruments, NEW outcomes, Handle(k, outcomes)
    PROVE  Unmoved(i) \/ (k = i /\ \E o \in outcomes : Moved(i, o))
<1>1. /\ sequencer \in [Instruments -> SequencerState]
      /\ book \in [Instruments -> SUBSET (0 .. Len(script))]
      /\ health \in [Instruments -> Healths]
  BY DEF IInv, AllSane
<1> QED
  BY <1>1 DEF Handle, Unmoved, Moved

LEMMA HandleTornSpoils ==
    ASSUME IInv, NEW i \in Instruments, NEW k \in Instruments, NEW outcomes,
           HandleRaising(k, outcomes) \/ HandleTorn(k, outcomes),
           health'[i] = "sound"
    PROVE  Unmoved(i)
<1>1. /\ sequencer \in [Instruments -> SequencerState]
      /\ book \in [Instruments -> SUBSET (0 .. Len(script))]
      /\ health \in [Instruments -> Healths]
  BY DEF IInv, AllSane
<1>2. \A h : Touch(h) # "sound"
  BY DEF Touch
<1>3. CASE k # i
  BY <1>1, <1>3 DEF HandleTorn, HandleRaising, Unmoved
<1>4. CASE k = i
  BY <1>1, <1>2, <1>4 DEF HandleTorn, HandleRaising
<1> QED
  BY <1>3, <1>4

(* What a step does to an instrument that it leaves sound.                 *)
LEMMA SoundStep ==
    ASSUME IInv, Next, NEW i \in Instruments, health'[i] = "sound"
    PROVE  \/ Unmoved(i)
           \/ /\ position \in 1 .. Len(script)
              /\ script[position].update_type = "INCREMENTAL"
              /\ script[position].instrument = i
              /\ \E o \in UpdateOutcomes(i, position, position) : Moved(i, o)
           \/ \E n \in 0 .. Len(script) :
                 /\ ~sequencer[i].ready \/ SnapshotInChannel(i)
                 /\ \E o \in SnapshotOutcomes(i, n, Published(i, n)) : Moved(i, o)
<1>1. /\ script \in Scripts /\ Len(script) \in Nat /\ position \in Nat \ {0}
  BY PositionFacts DEF IInv
<1>2. CASE NoBook
  BY <1>2 DEF NoBook, Unmoved
<1>3. CASE IncrementalReceived
  <2> DEFINE k == script[position].instrument
  <2>1. position \in 1 .. Len(script) /\ position' = position + 1 /\ Update(position)
    BY <1>1, <1>3 DEF IncrementalReceived
  <2>2. CASE script[position].update_type = "SNAPSHOT" /\ SnapshotUpdate(k, position, TRUE)
    <3>1. k \in Instruments /\ Handle(k, SnapshotOutcomes(k, position, Published(k, position)))
      BY <1>1, <2>1, <2>2, ScriptFacts DEF SnapshotUpdate, use_snapshot
    <3>2. k = i => SnapshotInChannel(i)
      BY <1>1, <2>1, <2>2, ScriptFacts DEF SnapshotInChannel, IsOf
    <3>3. position \in 0 .. Len(script)
      BY <2>1
    <3> QED
      BY <3>1, <3>2, <3>3, HandleMoves
  <2>3. CASE /\ script[position].update_type = "INCREMENTAL"
             /\ Handle(k, UpdateOutcomes(k, position, position))
    <3>1. k \in Instruments
      BY <1>1, <2>1, <2>3, ScriptFacts
    <3> QED
      BY <2>1, <2>3, <3>1, HandleMoves
  <2> QED
    BY <1>2, <2>1, <2>2, <2>3 DEF Update
<1>4. CASE \E n \in 1 .. Len(script) : IncrementalLost(n)
  BY <1>2, <1>4 DEF IncrementalLost
<1>5. CASE \E k \in Instruments, n \in 0 .. Len(script) : SnapshotReceived(k, n)
  <2>1. PICK k \in Instruments, n \in 0 .. Len(script) : SnapshotUpdate(k, n, FALSE)
    BY <1>5 DEF SnapshotReceived, Snapshot
  <2>2. CASE NoBook
    BY <1>2, <2>2
  <2>3. CASE ~sequencer[k].ready /\ Handle(k, SnapshotOutcomes(k, n, Published(k, n)))
    BY <2>3, HandleMoves
  <2> QED
    BY <2>1, <2>2, <2>3 DEF SnapshotUpdate, use_snapshot
<1>6. CASE IncrementalRaises
  <2>1. position \in 1 .. Len(script) /\ UpdateRaises(position)
    BY <1>1, <1>6 DEF IncrementalRaises
  <2>2. CASE script[position].update_type \in {"SNAPSHOT", "INCREMENTAL"}
    <3>1. PICK outcomes : HandleRaising(script[position].instrument, outcomes)
      BY <2>1, <2>2 DEF UpdateRaises, SnapshotRaises, use_snapshot, Ignored
    <3>2. script[position].instrument \in Instruments
      BY <1>1, <2>1, <2>2, ScriptFacts
    <3> QED
      BY <3>1, <3>2, HandleTornSpoils
  <2> QED
    BY <1>2, <2>1, <2>2 DEF UpdateRaises
<1>7. CASE \E k \in Instruments : IncrementalTorn(k)
  BY <1>7, HandleTornSpoils DEF IncrementalTorn, TornUpdate
<1>8. CASE \E k \in Instruments, n \in 0 .. Len(script) :
               SnapshotReceivedRaises(k, n) \/ SnapshotTorn(k, n)
  BY <1>2, <1>8, HandleTornSpoils
  DEF SnapshotReceivedRaises, SnapshotTorn, Snapshot, SnapshotRaises, TornSnapshot
<1> QED
  BY <1>3, <1>4, <1>5, <1>6, <1>7, <1>8 DEF Next, Ordinary, Disturbance

(* A sound instrument has been so all along, and its book is in step.      *)
LEMMA SoundBefore ==
    ASSUME IInv, NEW i \in Instruments, health'[i] = "sound",
           Unmoved(i) \/ \E o : Moved(i, o)
    PROVE  /\ health[i] = "sound"
           /\ Good(i, sequencer[i], position - 1)
           /\ Pure(i, sequencer[i], position - 1, lost)
           /\ InStep(i, sequencer[i], book[i])
<1>1. health[i] = "sound"
  BY DEF Unmoved, Moved, Heal
<1> QED
  BY <1>1 DEF IInv, AllSane, Sane

(* A step of the feed takes no undisturbed book back, unless a snapshot in *)
(* the incremental channel does.                                           *)
ForwardOnly ==
    \A i \in Instruments : GoesBack(i) => SnapshotInChannel(i) \/ health'[i] # "sound"

LEMMA ForwardStep == ASSUME IInv, Next PROVE ForwardOnly
<1>1. ASSUME NEW i \in Instruments, health'[i] = "sound", GoesBack(i)
      PROVE  SnapshotInChannel(i)
  <2>1. ~Unmoved(i)
    BY <1>1 DEF GoesBack, Unmoved
  <2>2. ASSUME NEW o \in UpdateOutcomes(i, position, position), Moved(i, o) PROVE FALSE
    <3>1. o.effect.kind \in {"none", "update", "reset"}
      BY <2>2 DEF UpdateOutcomes, Sequencer!OnUpdate, Sequencer!Outcome, Sequencer!Nothing,
                  Sequencer!RequestSnapshot, Sequencer!PublishUpdate
    <3> QED
      BY <1>1, <2>2, <3>1 DEF Moved, Apply, GoesBack
  <2>3. ASSUME NEW n \in 0 .. Len(script), ~sequencer[i].ready,
               NEW o \in SnapshotOutcomes(i, n, Published(i, n)), Moved(i, o)
        PROVE  FALSE
    BY <1>1, <2>3, SoundBefore DEF InStep, GoesBack
  <2> QED
    BY <1>1, <2>1, <2>2, <2>3, SoundStep
<1> QED
  BY <1>1 DEF ForwardOnly

(* The snapshot channel never takes a book back, however late or early its *)
(* snapshots are (use_snapshot in samples/sbe_receiver.py).                *)
THEOREM BooksGoForward == Spec => NeverBackwards
<1>1. IInv /\ [Next]_vars =>
        [\A i \in Instruments :
            GoesBack(i) => SnapshotInChannel(i) \/ health'[i] # "sound"]_vars
  BY ForwardStep DEF ForwardOnly
<1> QED
  BY <1>1, Invariance, PTL DEF Spec, NeverBackwards

(* The gap that makes a sound sequencer start over is the instrument's own *)
(* message: the predecessor that the update names came after the last one  *)
(* applied, so that it was lost or ignored.                                *)
LEMMA GapIsOwn ==
    ASSUME IInv, NEW i \in Instruments,
           position \in 1 .. Len(script),
           Good(i, sequencer[i], position - 1),
           Pure(i, sequencer[i], position - 1, lost),
           sequencer[i].ready,
           ~(position <= sequencer[i].last),
           LastSequenceNumber(i, position - 1) # sequencer[i].last
    PROVE  OwnLoss(i)
<1> DEFINE n == position
           prev == LastSequenceNumber(i, n - 1)
           last == sequencer[i].last
<1>1. /\ script \in Scripts /\ Len(script) \in Nat /\ n - 1 \in Nat /\ n - 1 \in 0 .. Len(script)
      /\ last \in Nat
  BY PositionFacts DEF IInv, Good, SequencerState
<1>2. /\ prev \in Chain(i, n - 1) \cup {0} /\ prev \in 0 .. n - 1
      /\ \A p \in Chain(i, n - 1) : p <= prev
  BY <1>1, LastSequenceNumberFacts
<1>3. last \in Chain(i, n - 1) \cup {0}
  <2>1. last \in Chain(i, Len(script)) \cup {0}
    BY DEF Pure
  <2>2. Chain(i, n - 1) = Chain(i, Len(script)) \cap 1 .. n - 1
    BY <1>1, ChainFacts
  <2>3. last < n
    BY <1>1
  <2>4. last = 0 \/ last \in 1 .. n - 1
    BY <1>1, <2>3
  <2> QED
    BY <2>1, <2>2, <2>4
<1>4. last < prev
  <2>1. last <= prev
    BY <1>2, <1>3
  <2> HIDE DEF prev, last
  <2> QED
    BY <1>1, <1>2, <2>1 DEF prev, last
<1>5. prev \in Chain(i, n - 1) /\ prev \in 1 .. position
  <2> HIDE DEF prev, last
  <2> QED
    BY <1>1, <1>2, <1>4
<1>6. IsOf(i, prev) /\ script[prev].chained /\ prev \in 1 .. Len(script)
  BY <1>1, <1>5 DEF Chain
<1>7. CASE script[prev].update_type = "INCREMENTAL"
  <2>1. prev \in Published(i, n - 1)
    BY <1>5, <1>7 DEF Published
  <2>2. prev \in lost \/ prev <= last
    BY <2>1 DEF Pure, Reached
  <2>3. prev \in lost
    <3> HIDE DEF prev, last
    <3> QED
      BY <1>1, <1>2, <1>4, <2>2
  <2> QED
    BY <1>4, <1>5, <2>3 DEF OwnLoss
<1>8. CASE script[prev].update_type \in Ignored
  BY <1>4, <1>5, <1>8 DEF OwnLoss
<1>9. script[prev].update_type \in {"INCREMENTAL"} \cup Ignored
  BY <1>1, <1>6, ScriptFacts DEF IsOf
<1> QED
  BY <1>7, <1>8, <1>9

(* An undisturbed sequencer starts over at a loss of its own only.         *)
OwnLossesOnly ==
    \A i \in Instruments : StartsOver(i) => health'[i] # "sound" \/ OwnLoss(i)

LEMMA OwnLossStep == ASSUME IInv, Next PROVE OwnLossesOnly
<1>1. ASSUME NEW i \in Instruments, health'[i] = "sound", StartsOver(i)
      PROVE  OwnLoss(i)
  <2>1. ~Unmoved(i)
    BY <1>1 DEF StartsOver, Unmoved
  <2>2. ASSUME position \in 1 .. Len(script),
               NEW o \in UpdateOutcomes(i, position, position), Moved(i, o)
        PROVE  OwnLoss(i)
    <3>1. /\ Good(i, sequencer[i], position - 1)
          /\ Pure(i, sequencer[i], position - 1, lost)
      BY <1>1, <2>2, SoundBefore
    <3>2. /\ ~(position <= sequencer[i].last)
          /\ LastSequenceNumber(i, position - 1) # sequencer[i].last
      BY <1>1, <2>2
      DEF StartsOver, Moved, UpdateOutcomes, Sequencer!OnUpdate, Sequencer!Outcome,
          Sequencer!ReadyAt
    <3> QED
      BY <1>1, <2>2, <3>1, <3>2, GapIsOwn DEF StartsOver
  <2>3. ASSUME NEW n \in 0 .. Len(script),
               NEW o \in SnapshotOutcomes(i, n, Published(i, n)), Moved(i, o)
        PROVE  FALSE
    BY <1>1, <2>3
    DEF StartsOver, Moved, SnapshotOutcomes, Sequencer!OnSnapshot, Sequencer!Outcome,
        Sequencer!ReadyAt
  <2> QED
    BY <1>1, <2>1, <2>2, <2>3, SoundStep
<1> QED
  BY <1>1 DEF OwnLossesOnly

(* What costs an undisturbed instrument its book is a link of its own      *)
(* chain that came after everything in the book, and was lost or ignored:  *)
(* not losses of others, nor those made good (previous in                  *)
(* sequence_helper).                                                       *)
THEOREM LossesStayTheirOwn == Spec => StartsOverByOwnLossOnly
<1>1. IInv /\ [Next]_vars =>
        [\A i \in Instruments : StartsOver(i) => health'[i] # "sound" \/ OwnLoss(i)]_vars
  BY OwnLossStep DEF OwnLossesOnly
<1> QED
  BY <1>1, Invariance, PTL DEF Spec, StartsOverByOwnLossOnly
=============================================================================
