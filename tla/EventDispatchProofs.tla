------------------------ MODULE EventDispatchProofs ------------------------
(***************************************************************************)
(* What the callbacks of a strategy and of a replay are given, and what    *)
(* they make of it: for all sources, symbols, events and programs, and     *)
(* wherever a signal, an exception or an exit comes.                       *)
(***************************************************************************)
EXTENDS EventDispatch, TLAPS, SequenceTheorems, FiniteSetTheorems

(* The event being handled is the last one taken of its source and the     *)
(* last one delivered, and has not been counted.                           *)
Handling ==
    IF pc = "callback"
    THEN /\ current \in Sources \X Nat
         /\ current[2] = taken[current[1]]
         /\ count < Len(delivered)
    ELSE current = <<>>

(* The counters go by the updates that the callback is done with.          *)
Counted ==
    IF program = "strategy"
    THEN failure # "callback" =>
            /\ count = BookUpdatesDone
            /\ cancels = IF count >= CancelAt THEN 1 ELSE 0
    ELSE count = 0 /\ cancels = 0

(* Sources have events of the kinds that the program can meet.             *)
EventsOccur ==
    \A s \in Sources : \A n \in 1 .. Len(events[s]) : events[s][n].type \in Occurs(program)

IInv ==
    /\ TypeOK
    /\ EventsOccur
    /\ taken \in [Sources -> Nat]
    /\ delivered \in Seq(Sources \X Nat)
    /\ Handling
    /\ failure = "callback" => pc = "ended"
    /\ DeliveredAreTheRegistered
    /\ BooksAreUpToDate
    /\ Counted

-----------------------------------------------------------------------------
LEMMA OneMore ==
    ASSUME NEW T, NEW s \in Seq(T), NEW a \in T
    PROVE  /\ Append(s, a) \in Seq(T)
           /\ Len(Append(s, a)) = Len(s) + 1
           /\ \A k \in 1 .. Len(s) : Append(s, a)[k] = s[k]
           /\ Append(s, a)[Len(s) + 1] = a
  OBVIOUS

LEMMA PairFacts ==
    /\ \A a, b : <<a, b>> # <<>> /\ <<a, b>>[1] = a /\ <<a, b>>[2] = b
    /\ \A a, b, c, d : <<a, b>> = <<c, d>> => a = c /\ b = d
  OBVIOUS

(* Every handler passes on what has a Python class and occurs, but for the *)
(* timer.                                                                  *)
LEMMA RegisteredForwarded ==
    /\ \A p : Occurs(p) \cap (Registered \ {"Timer"}) \subseteq Forwarded(p)
    /\ \A p : "Timer" \notin Forwarded(p)
    /\ "MarketByPriceUpdate" \in Registered \ {"Timer"}
<1>1. ASSUME NEW p
      PROVE  /\ Occurs(p) \cap (Registered \ {"Timer"}) \subseteq Forwarded(p)
             /\ "Timer" \notin Forwarded(p)
  <2>1. CASE p = "strategy"
    BY <2>1 DEF Registered, Forwarded, Types, Occurs
  <2>2. CASE p = "event_log_reader"
    BY <2>2 DEF Registered, Forwarded, Types, Occurs
  <2>3. CASE p # "strategy" /\ p # "event_log_reader"
    BY <2>3 DEF Registered, Forwarded, Types, Occurs
  <2> QED
    BY <2>1, <2>2, <2>3
<1> QED
  BY <1>1 DEF Registered

(* What is known of the state, for every proof about a step.               *)
LEMMA StateFacts ==
    ASSUME IInv
    PROVE  /\ events \in [Sources -> Seq(Event)]
           /\ \A s \in Sources : /\ Len(events[s]) \in Nat
                                 /\ taken[s] \in Nat /\ taken[s] <= Len(events[s])
           /\ \A s \in Sources : \A n \in 1 .. Len(events[s]) :
                 /\ events[s][n].symbol \in Symbols /\ events[s][n].type \in Types
                 /\ events[s][n].snapshot \in BOOLEAN
           /\ Len(delivered) \in Nat
           /\ \A k \in 1 .. Len(delivered) :
                 /\ delivered[k][1] \in Sources /\ delivered[k][2] \in 1 .. taken[delivered[k][1]]
                 /\ delivered[k] = <<delivered[k][1], delivered[k][2]>>
                 /\ delivered[k] # <<>>
<1>1. events \in [Sources -> Seq(Event)]
  BY EventDispatchAssumption DEF IInv, TypeOK
<1>2. ASSUME NEW s \in Sources
      PROVE  /\ Len(events[s]) \in Nat
             /\ taken[s] \in Nat /\ taken[s] <= Len(events[s])
  <2>1. events[s] \in Seq(Event)
    BY <1>1
  <2>2. Len(events[s]) \in Nat
    BY <2>1
  <2> QED
    BY <2>2 DEF IInv, TypeOK
<1>3. ASSUME NEW s \in Sources, NEW n \in 1 .. Len(events[s])
      PROVE  /\ events[s][n].symbol \in Symbols /\ events[s][n].type \in Types
             /\ events[s][n].snapshot \in BOOLEAN
  <2>1. events[s] \in Seq(Event)
    BY <1>1
  <2>2. events[s][n] \in Event
    BY <2>1
  <2> QED
    BY <2>2 DEF Event
<1>4. delivered \in Seq(Sources \X Nat)
  BY DEF IInv
<1>5. Len(delivered) \in Nat
  BY <1>4
<1>6. ASSUME NEW k \in 1 .. Len(delivered)
      PROVE  /\ delivered[k][1] \in Sources /\ delivered[k][2] \in 1 .. taken[delivered[k][1]]
             /\ delivered[k] = <<delivered[k][1], delivered[k][2]>>
             /\ delivered[k] # <<>>
  <2>1. delivered[k] \in Sources \X Nat
    BY <1>4
  <2>2. delivered[k] = <<delivered[k][1], delivered[k][2]>>
    BY <2>1
  <2> QED
    BY <2>2, PairFacts DEF IInv, TypeOK
<1> QED
  BY <1>1, <1>2, <1>3, <1>5, <1>6

(* No event is delivered twice.                                            *)
LEMMA DeliveredOnce ==
    ASSUME IInv, NEW j \in 1 .. Len(delivered), NEW k \in 1 .. Len(delivered), j # k
    PROVE  delivered[j] # delivered[k]
<1> SUFFICES ASSUME delivered[j] = delivered[k] PROVE FALSE
  OBVIOUS
<1>1. /\ Len(delivered) \in Nat /\ delivered[j][1] \in Sources
      /\ \A s \in Sources : taken[s] \in Nat
      /\ delivered[j][2] \in 1 .. taken[delivered[j][1]]
  BY StateFacts
<1>2. j < k \/ k < j
  BY <1>1
<1>3. delivered[j][2] < delivered[k][2] \/ delivered[k][2] < delivered[j][2]
  BY <1>1, <1>2 DEF IInv, DeliveredAreTheRegistered
<1>4. delivered[j][2] \in Nat
  BY <1>1
<1> QED
  BY <1>3, <1>4

(* The program and its sources stay what they are.                         *)
LEMMA EventsStay == ASSUME IInv, UNCHANGED <<program, events>> PROVE EventsOccur'
  BY DEF IInv, EventsOccur

LEMMA Initially == Init => IInv
<1> SUFFICES ASSUME Init PROVE IInv
  OBVIOUS
<1>1. /\ events \in [Sources -> Seq(Event)]
      /\ \A s \in Sources : Len(events[s]) \in Nat /\ taken[s] = 0 /\ 1 .. taken[s] = {}
  <2>1. events \in [Sources -> Seq(Event)]
    BY EventDispatchAssumption DEF Init
  <2>2. \A s \in Sources : events[s] \in Seq(Event)
    BY <2>1
  <2>3. \A s \in Sources : Len(events[s]) \in Nat
    BY <2>2
  <2> QED
    BY <2>1, <2>3 DEF Init
<1>2. Len(delivered) = 0 /\ 1 .. Len(delivered) = {} /\ delivered \in Seq(Sources \X Nat)
  BY DEF Init
<1>3. pc \in {"created", "loop"} /\ failure = "none"
  BY DEF Init
<1>4. TypeOK /\ taken \in [Sources -> Nat]
  <2>1. taken \in [Sources -> Nat] /\ \A s \in Sources : taken[s] \in 0 .. Len(events[s])
    BY <1>1 DEF Init
  <2>2. mbp_cache \in [Sources \X Symbols -> SUBSET Nat]
    BY DEF Init
  <2>3. count \in 0 .. Len(delivered) /\ cancels \in 0 .. 1
    BY <1>2 DEF Init
  <2>4. /\ program \in Programs /\ events \in Feeds
        /\ pc \in {"created", "loop", "dispatch", "callback", "ended"} /\ pc # "callback"
        /\ failure \in {"none", "cast", "callback", "log"}
        /\ signal \in {"none", "pending", "handled"}
        /\ stopped \in BOOLEAN /\ stopped = (signal = "handled")
    BY <1>3 DEF Init
  <2> QED
    BY <1>2, <2>1, <2>2, <2>3, <2>4 DEF TypeOK
<1>5. Handling
  BY <1>3 DEF Init, Handling
<1>6. DeliveredAreTheRegistered
  BY <1>1, <1>2 DEF DeliveredAreTheRegistered
<1>7. BooksAreUpToDate
  <2>1. \A s \in Sources, symbol \in Symbols : Done(s, symbol) = {}
    BY <1>1 DEF Done
  <2> QED
    BY <2>1 DEF Init, BooksAreUpToDate
<1>8. Counted
  <2>1. BookUpdatesDone = 0
    <3>1. {k \in 1 .. Len(delivered) :
              /\ events[delivered[k][1]][delivered[k][2]].type = "MarketByPriceUpdate"
              /\ delivered[k] # current} = {}
      BY <1>2
    <3> QED
      BY <3>1, FS_EmptySet DEF BookUpdatesDone
  <2> QED
    BY <2>1, EventDispatchAssumption DEF Init, Counted
<1>9. EventsOccur
  BY DEF Init, EventsOccur
<1> QED
  BY <1>2, <1>3, <1>4, <1>5, <1>6, <1>7, <1>8, <1>9 DEF IInv

(* Only control and signals move.                                          *)
LEMMA OthersKeep ==
    ASSUME IInv,
           UNCHANGED <<program, events, taken, current, delivered, mbp_cache, count, cancels>>,
           pc' \in {"created", "loop", "dispatch", "callback", "ended"},
           pc' = "callback" <=> pc = "callback",
           failure' = failure \/ (failure' = "log" /\ failure # "callback"),
           failure = "callback" => pc' = "ended",
           signal' \in {"none", "pending", "handled"},
           stopped' \in BOOLEAN, stopped' = (signal' = "handled")
    PROVE  IInv'
<1>1. TypeOK'
  BY DEF IInv, TypeOK
<1>2. Handling'
  BY DEF IInv, Handling
<1>3. DeliveredAreTheRegistered'
  <2>1. delivered' = delivered /\ taken' = taken /\ events' = events
    OBVIOUS
  <2> QED
    <3>1. DeliveredAreTheRegistered
      BY DEF IInv
    <3> QED
      BY <2>1, <3>1, Z3 DEF DeliveredAreTheRegistered
<1>4. BooksAreUpToDate'
  <2>1. \A s \in Sources, symbol \in Symbols : Done(s, symbol)' = Done(s, symbol)
    BY DEF Done
  <2>2. failure' # "callback" => failure # "callback"
    OBVIOUS
  <2> QED
    BY <2>1, <2>2 DEF IInv, BooksAreUpToDate
<1>5. Counted'
  <2>1. BookUpdatesDone' = BookUpdatesDone
    BY DEF BookUpdatesDone
  <2> QED
    BY <2>1 DEF IInv, Counted
<1> QED
  BY <1>1, <1>2, <1>3, <1>4, <1>5, EventsStay DEF IInv

-----------------------------------------------------------------------------
(* The library takes event n of source s.                                  *)
Taken(s, n) ==
    /\ n = taken[s] + 1 /\ n <= Len(events[s])
    /\ pc = "dispatch"
    /\ taken' = [taken EXCEPT ![s] = n]
    /\ UNCHANGED <<program, events, signal, stopped, mbp_cache, count, cancels>>

LEMMA TakenFacts ==
    ASSUME IInv, NEW s \in Sources, NEW n, Taken(s, n)
    PROVE  /\ n \in Nat /\ n \in 1 .. Len(events[s]) /\ n \notin 1 .. taken[s]
           /\ taken' \in [Sources -> Nat]
           /\ taken'[s] = n /\ \A t \in Sources \ {s} : taken'[t] = taken[t]
           /\ \A t \in Sources : taken'[t] \in 0 .. Len(events[t])
           /\ 1 .. taken'[s] = (1 .. taken[s]) \cup {n}
           /\ \A t \in Sources : 1 .. taken[t] \subseteq 1 .. taken'[t]
           /\ current = <<>>
           /\ failure # "callback"
<1>1. /\ taken[s] \in Nat /\ taken[s] <= Len(events[s]) /\ Len(events[s]) \in Nat
      /\ \A t \in Sources : taken[t] \in 0 .. Len(events[t])
      /\ taken \in [Sources -> Nat]
  BY StateFacts DEF IInv, TypeOK
<1>2. n = taken[s] + 1 /\ n <= Len(events[s]) /\ taken' = [taken EXCEPT ![s] = n]
  BY DEF Taken
<1>3. n \in Nat /\ n \in 1 .. Len(events[s]) /\ n \notin 1 .. taken[s]
  BY <1>1, <1>2
<1>4. /\ taken' \in [Sources -> Nat]
      /\ taken'[s] = n /\ \A t \in Sources \ {s} : taken'[t] = taken[t]
  BY <1>1, <1>2, <1>3
<1>5. \A t \in Sources : taken'[t] \in 0 .. Len(events[t])
  <2>1. n \in 0 .. Len(events[s])
    BY <1>1, <1>3
  <2> QED
    BY <1>1, <1>4, <2>1
<1>6. 1 .. n = (1 .. taken[s]) \cup {n}
  BY <1>1, <1>2
<1>7. \A t \in Sources : 1 .. taken[t] \subseteq 1 .. taken'[t]
  BY <1>4, <1>6
<1>8. current = <<>> /\ failure # "callback"
  BY DEF IInv, Handling, Taken
<1> QED
  BY <1>3, <1>4, <1>5, <1>6, <1>7, <1>8

(* What is taken and not delivered is no event with a Python class; and an *)
(* event that is delivered is not in a book before its callback is done.   *)
LEMMA BooksWait ==
    ASSUME IInv, NEW s \in Sources, NEW n, Taken(s, n), failure' # "callback",
           \/ events[s][n].type # "MarketByPriceUpdate" /\ current' = current
           \/ current' = <<s, n>>
    PROVE  BooksAreUpToDate'
<1>1. /\ n \in Nat /\ n \notin 1 .. taken[s]
      /\ taken'[s] = n /\ \A t \in Sources \ {s} : taken'[t] = taken[t]
      /\ 1 .. taken'[s] = (1 .. taken[s]) \cup {n}
      /\ current = <<>> /\ failure # "callback"
  BY TakenFacts
<1>2. events' = events /\ mbp_cache' = mbp_cache
  BY DEF Taken
<1>3. ASSUME NEW t \in Sources, NEW symbol \in Symbols
      PROVE  Done(t, symbol)' = Done(t, symbol)
  <2>1. \A m : current # <<t, m>>
    BY <1>1, PairFacts
  <2>2. CASE t = s
    <3>1. \A m \in 1 .. taken[s] : current' # <<s, m>>
      BY <1>1, <2>1, <2>2, PairFacts
    <3>2. ~(events[s][n].type = "MarketByPriceUpdate" /\ current' # <<s, n>>)
      OBVIOUS
    <3> QED
      BY <1>1, <1>2, <2>1, <2>2, <3>1, <3>2 DEF Done
  <2>3. CASE t # s
    <3>1. taken'[t] = taken[t]
      BY <1>1, <2>3
    <3>2. \A m : current' # <<t, m>>
      BY <2>1, <2>3, PairFacts
    <3> QED
      BY <1>2, <2>1, <3>1, <3>2 DEF Done
  <2> QED
    BY <2>2, <2>3
<1>4. ASSUME NEW t \in Sources, NEW symbol \in Symbols
      PROVE  mbp_cache'[<<t, symbol>>] =
                 {m \in Done(t, symbol)' : \A l \in Done(t, symbol)' :
                     events'[t][l].snapshot => l <= m}
  <2>1. mbp_cache[<<t, symbol>>] =
            {m \in Done(t, symbol) : \A l \in Done(t, symbol) : events[t][l].snapshot => l <= m}
    BY <1>1 DEF IInv, BooksAreUpToDate
  <2> QED
    BY <1>2, <1>3, <2>1
<1> QED
  BY <1>4, Zenon DEF BooksAreUpToDate

(* An event that is not delivered.                                         *)
LEMMA TakenOnlyKeeps ==
    ASSUME IInv, NEW s \in Sources, NEW n, Taken(s, n),
           events[s][n].type \notin Registered \ {"Timer"},
           current' = current, delivered' = delivered,
           \/ pc' = pc /\ failure' = failure
           \/ pc' = "ended" /\ failure' = "cast"
    PROVE  IInv'
<1>1. /\ n \in Nat /\ n \notin 1 .. taken[s]
      /\ taken' \in [Sources -> Nat]
      /\ taken'[s] = n /\ \A t \in Sources \ {s} : taken'[t] = taken[t]
      /\ \A t \in Sources : taken'[t] \in 0 .. Len(events[t])
      /\ 1 .. taken'[s] = (1 .. taken[s]) \cup {n}
      /\ \A t \in Sources : 1 .. taken[t] \subseteq 1 .. taken'[t]
      /\ current = <<>> /\ failure # "callback"
  BY TakenFacts
<1>2. /\ pc = "dispatch"
      /\ UNCHANGED <<program, events, signal, stopped, mbp_cache, count, cancels>>
  BY DEF Taken
<1>3. TypeOK'
  <2>1. \A k \in 1 .. Len(delivered) :
           delivered[k][1] \in Sources /\ delivered[k][2] \in 1 .. taken'[delivered[k][1]]
    BY <1>1 DEF IInv, TypeOK
  <2> QED
    BY <1>1, <1>2, <2>1 DEF IInv, TypeOK
<1>4. Handling' /\ (failure = "callback" => pc = "ended")'
  BY <1>1, <1>2 DEF Handling
<1>5. DeliveredAreTheRegistered'
  <2>1. \A t \in Sources : {m \in 1 .. taken'[t] : events[t][m].type \in Registered \ {"Timer"}} =
                           {m \in 1 .. taken[t] : events[t][m].type \in Registered \ {"Timer"}}
    <3> TAKE t \in Sources
    <3>1. CASE t = s
      BY <1>1, <3>1
    <3>2. CASE t # s
      <4>1. taken'[t] = taken[t]
        BY <1>1, <3>2
      <4> QED
        BY <4>1
    <3> QED
      BY <3>1, <3>2
  <2>2. DeliveredAreTheRegistered
    BY DEF IInv
  <2>3. delivered' = delivered /\ events' = events
    BY <1>2
  <2> QED
    BY <2>1, <2>2, <2>3 DEF DeliveredAreTheRegistered
<1>6. BooksAreUpToDate'
  <2>1. events[s][n].type # "MarketByPriceUpdate"
    BY RegisteredForwarded
  <2>2. failure' # "callback"
    BY <1>1
  <2> QED
    BY <2>1, <2>2, BooksWait
<1>7. Counted'
  <2>1. BookUpdatesDone' = BookUpdatesDone
    BY <1>2 DEF BookUpdatesDone
  <2> QED
    BY <1>1, <1>2, <2>1 DEF IInv, Counted
<1>8. delivered' \in Seq(Sources \X Nat)
  BY DEF IInv
<1>9. EventsOccur'
  BY <1>2, EventsStay
<1> QED
  BY <1>1, <1>3, <1>4, <1>5, <1>6, <1>7, <1>8, <1>9 DEF IInv

(* An event that is delivered.                                             *)
LEMMA DeliverKeeps ==
    ASSUME IInv, NEW s \in Sources, NEW n, Taken(s, n),
           events[s][n].type \in Registered \ {"Timer"},
           current' = <<s, n>>, delivered' = Append(delivered, <<s, n>>),
           pc' = "callback", failure' = failure
    PROVE  IInv'
<1> DEFINE L == Len(delivered)
<1>1. /\ n \in Nat /\ n \notin 1 .. taken[s]
      /\ taken' \in [Sources -> Nat]
      /\ taken'[s] = n /\ \A t \in Sources \ {s} : taken'[t] = taken[t]
      /\ \A t \in Sources : taken'[t] \in 0 .. Len(events[t])
      /\ 1 .. taken'[s] = (1 .. taken[s]) \cup {n}
      /\ \A t \in Sources : 1 .. taken[t] \subseteq 1 .. taken'[t]
      /\ current = <<>> /\ failure # "callback"
  BY TakenFacts
<1>2. UNCHANGED <<program, events, signal, stopped, mbp_cache, count, cancels>>
  BY DEF Taken
<1>3. /\ L \in Nat
      /\ \A k \in 1 .. L :
            /\ delivered[k][1] \in Sources /\ delivered[k][2] \in 1 .. taken[delivered[k][1]]
            /\ delivered[k] = <<delivered[k][1], delivered[k][2]>>
            /\ delivered[k] # <<>>
  BY StateFacts
<1>4. /\ delivered' \in Seq(Sources \X Nat) /\ Len(delivered') = L + 1
      /\ \A k \in 1 .. L : delivered'[k] = delivered[k]
      /\ delivered'[L + 1] = <<s, n>>
  <2>1. delivered \in Seq(Sources \X Nat) /\ <<s, n>> \in Sources \X Nat
    BY <1>1 DEF IInv
  <2> QED
    BY <2>1, OneMore
<1>5. \A k \in 1 .. Len(delivered') : k \in 1 .. L \/ k = L + 1
  BY <1>3, <1>4
<1>6. <<s, n>>[1] = s /\ <<s, n>>[2] = n
  BY PairFacts
<1>7. \A k \in 1 .. L : delivered[k] # <<s, n>>
  BY <1>1, <1>3, PairFacts
<1> HIDE DEF L
<1>8. TypeOK'
  <2>1. \A k \in 1 .. Len(delivered') :
           delivered'[k][1] \in Sources /\ delivered'[k][2] \in 1 .. taken'[delivered'[k][1]]
    <3> TAKE k \in 1 .. Len(delivered')
    <3>1. CASE k \in 1 .. L
      BY <1>1, <1>3, <1>4, <3>1
    <3>2. CASE k = L + 1
      <4>1. n \in 1 .. taken'[s]
        BY <1>1
      <4> QED
        BY <1>4, <1>6, <3>2, <4>1
    <3> QED
      BY <1>5, <3>1, <3>2
  <2>2. count' \in 0 .. Len(delivered')
    BY <1>2, <1>3, <1>4 DEF IInv, TypeOK, L
  <2> QED
    BY <1>1, <1>2, <1>4, <2>1, <2>2 DEF IInv, TypeOK
<1>9. Handling'
  <2>1. count < L + 1
    BY <1>3 DEF IInv, TypeOK, L
  <2>2. <<s, n>> \in Sources \X Nat
    BY <1>1
  <2> QED
    BY <1>1, <1>2, <1>4, <1>6, <2>1, <2>2 DEF Handling
<1>10. DeliveredAreTheRegistered'
  <2>1. ASSUME NEW t \in Sources
        PROVE  {delivered'[k][2] : k \in {j \in 1 .. Len(delivered') : delivered'[j][1] = t}} =
               {m \in 1 .. taken'[t] : events[t][m].type \in Registered \ {"Timer"}}
    <3>1. {delivered[k][2] : k \in {j \in 1 .. L : delivered[j][1] = t}} =
               {m \in 1 .. taken[t] : events[t][m].type \in Registered \ {"Timer"}}
      BY Zenon DEF IInv, DeliveredAreTheRegistered, L
    <3>2. CASE t = s
      <4> DEFINE From == {j \in 1 .. L : delivered[j][1] = t}
      <4>1. {j \in 1 .. Len(delivered') : delivered'[j][1] = t} = From \cup {L + 1}
        <5>1. 1 .. L \subseteq 1 .. Len(delivered') /\ L + 1 \in 1 .. Len(delivered')
          BY <1>3, <1>4
        <5> QED
          BY <1>4, <1>5, <1>6, <3>2, <5>1
      <4>2. {delivered'[k][2] : k \in From \cup {L + 1}} = {delivered[k][2] : k \in From} \cup {n}
        <5>1. \A k \in From : delivered'[k][2] = delivered[k][2]
          BY <1>4
        <5>2. delivered'[L + 1][2] = n
          BY <1>4, <1>6
        <5> HIDE DEF From
        <5> QED
          BY <5>1, <5>2
      <4>3. {m \in 1 .. taken'[t] : events[t][m].type \in Registered \ {"Timer"}} =
                {m \in 1 .. taken[t] : events[t][m].type \in Registered \ {"Timer"}} \cup {n}
        BY <1>1, <3>2
      <4>4. {delivered[k][2] : k \in From} =
                {m \in 1 .. taken[t] : events[t][m].type \in Registered \ {"Timer"}}
        BY <3>1
      <4> HIDE DEF From
      <4> QED
        BY <4>1, <4>2, <4>3, <4>4, Zenon
    <3>3. CASE t # s
      <4>1. {j \in 1 .. Len(delivered') : delivered'[j][1] = t} =
                {j \in 1 .. L : delivered[j][1] = t}
        <5>1. 1 .. L \subseteq 1 .. Len(delivered')
          BY <1>3, <1>4
        <5> QED
          BY <1>4, <1>5, <1>6, <3>3, <5>1
      <4>2. {delivered'[k][2] : k \in {j \in 1 .. L : delivered[j][1] = t}} =
                {delivered[k][2] : k \in {j \in 1 .. L : delivered[j][1] = t}}
        BY <1>4
      <4>3. taken'[t] = taken[t]
        BY <1>1, <3>3
      <4> QED
        BY <3>1, <4>1, <4>2, <4>3
    <3> QED
      BY <3>2, <3>3
  <2>2. ASSUME NEW j \in 1 .. Len(delivered'), NEW k \in 1 .. Len(delivered'), j < k,
               delivered'[j][1] = delivered'[k][1], delivered'[j][1] \in Sources
        PROVE  delivered'[j][2] < delivered'[k][2]
    <3>1. j \in 1 .. L
      BY <1>3, <1>4, <1>5, <2>2
    <3>2. CASE k \in 1 .. L
      <4>1. delivered[j][1] = delivered[k][1] /\ delivered[j][1] \in Sources
        BY <1>4, <2>2, <3>1, <3>2
      <4>2. delivered[j][2] < delivered[k][2]
        BY <2>2, <3>1, <3>2, <4>1 DEF IInv, DeliveredAreTheRegistered, L
      <4> QED
        BY <1>4, <3>1, <3>2, <4>2
    <3>3. CASE k = L + 1
      <4>1. delivered[j][1] = s /\ delivered[j][2] \in 1 .. taken[s]
        BY <1>3, <1>4, <1>6, <2>2, <3>1, <3>3
      <4>2. n = taken[s] + 1 /\ taken[s] \in Nat
        BY StateFacts DEF Taken
      <4>3. delivered'[j][2] = delivered[j][2] /\ delivered'[k][2] = n
        BY <1>4, <1>6, <3>1, <3>3
      <4> QED
        BY <4>1, <4>2, <4>3
    <3> QED
      BY <1>5, <3>2, <3>3
  <2>3. events' = events
    BY <1>2
  <2>4. \A t \in Sources :
           \A j, k \in {l \in 1 .. Len(delivered') : delivered'[l][1] = t} :
              j < k => delivered'[j][2] < delivered'[k][2]
    <3> TAKE t \in Sources
    <3> TAKE j, k \in {l \in 1 .. Len(delivered') : delivered'[l][1] = t}
    <3>1. /\ j \in 1 .. Len(delivered') /\ k \in 1 .. Len(delivered')
          /\ delivered'[j][1] = delivered'[k][1] /\ delivered'[j][1] \in Sources
      OBVIOUS
    <3> QED
      BY <2>2, <3>1
  <2> QED
    BY <2>1, <2>3, <2>4, Zenon DEF DeliveredAreTheRegistered
<1>11. BooksAreUpToDate'
  BY <1>1, BooksWait
<1>12. Counted'
  <2>1. {k \in 1 .. Len(delivered') :
            /\ events[delivered'[k][1]][delivered'[k][2]].type = "MarketByPriceUpdate"
            /\ delivered'[k] # <<s, n>>}
          = {k \in 1 .. L :
            /\ events[delivered[k][1]][delivered[k][2]].type = "MarketByPriceUpdate"
            /\ delivered[k] # <<>>}
    <3>1. 1 .. L \subseteq 1 .. Len(delivered')
      BY <1>3, <1>4
    <3> QED
      BY <1>3, <1>4, <1>5, <1>7, <3>1
  <2>2. BookUpdatesDone' = BookUpdatesDone
    BY <1>1, <1>2, <2>1 DEF BookUpdatesDone, L
  <2> QED
    BY <1>2, <2>2 DEF IInv, Counted
<1>13. (failure = "callback" => pc = "ended")'
  BY <1>1
<1>14. EventsOccur'
  BY <1>2, EventsStay
<1> QED
  BY <1>1, <1>4, <1>8, <1>9, <1>10, <1>11, <1>12, <1>13, <1>14 DEF IInv

LEMMA HandleKeeps == ASSUME IInv, NEW s \in Sources, Handle(s) PROVE IInv'
<1> DEFINE n == taken[s] + 1
<1>1. Taken(s, n)
  BY DEF Handle, Taken
<1>2. CASE events[s][n].type \notin Registered \ {"Timer"}
  <2>1. /\ current' = current /\ delivered' = delivered
        /\ \/ pc' = pc /\ failure' = failure
           \/ pc' = "ended" /\ failure' = "cast"
    BY <1>2, RegisteredForwarded DEF Handle
  <2> HIDE DEF n
  <2> QED
    BY <1>1, <1>2, <2>1, TakenOnlyKeeps
<1>3. CASE events[s][n].type \in Registered \ {"Timer"}
  <2>1. events[s][n].type \in Forwarded(program)
    <3>1. n \in 1 .. Len(events[s])
      BY <1>1, TakenFacts
    <3>2. events[s][n].type \in Occurs(program)
      BY <3>1 DEF IInv, EventsOccur
    <3> QED
      BY <1>3, <3>2, RegisteredForwarded
  <2>2. /\ current' = <<s, n>> /\ delivered' = Append(delivered, <<s, n>>)
        /\ pc' = "callback" /\ failure' = failure
    BY <1>3, <2>1 DEF Handle
  <2> HIDE DEF n
  <2> QED
    BY <1>1, <1>3, <2>2, DeliverKeeps
<1> QED
  BY <1>2, <1>3

-----------------------------------------------------------------------------
(* The event whose callback is running.                                    *)
LEMMA CurrentFacts ==
    ASSUME IInv, pc = "callback"
    PROVE  /\ current[1] \in Sources /\ current[2] = taken[current[1]]
           /\ current = <<current[1], current[2]>>
           /\ current[2] \in 1 .. Len(events[current[1]])
           /\ current[2] \in 1 .. taken[current[1]]
           /\ Len(delivered) \in 1 .. Len(delivered)
           /\ current = delivered[Len(delivered)]
           /\ count \in Nat /\ count < Len(delivered)
           /\ failure # "callback"
<1>1. /\ current \in Sources \X Nat /\ current[2] = taken[current[1]]
      /\ count < Len(delivered) /\ count \in 0 .. Len(delivered)
      /\ current = delivered[Len(delivered)]
      /\ failure # "callback"
  BY DEF IInv, Handling, TypeOK
<1>2. Len(delivered) \in 1 .. Len(delivered)
  BY <1>1, StateFacts
<1>3. current[1] \in Sources /\ current[2] \in 1 .. taken[current[1]]
  BY <1>1, <1>2, StateFacts
<1>4. taken[current[1]] <= Len(events[current[1]]) /\ Len(events[current[1]]) \in Nat
  BY <1>3, StateFacts
<1>5. current[2] \in 1 .. Len(events[current[1]])
  <2>1. \A a, b \in Nat : \A c \in 1 .. a : a <= b => c \in 1 .. b
    OBVIOUS
  <2>2. taken[current[1]] \in Nat
    BY <1>3, StateFacts
  <2> QED
    BY <1>3, <1>4, <2>1, <2>2, Zenon
<1>6. current = <<current[1], current[2]>>
  BY <1>1
<1> QED
  BY <1>1, <1>2, <1>3, <1>5, <1>6

(* One more update is done with, if it is one.                             *)
LEMMA UpdatesCounted ==
    ASSUME IInv, pc = "callback", current' = <<>>, delivered' = delivered, events' = events
    PROVE  BookUpdatesDone' = BookUpdatesDone + IF IsBookUpdate THEN 1 ELSE 0
<1> DEFINE L == Len(delivered)
           Update(k) == events[delivered[k][1]][delivered[k][2]].type = "MarketByPriceUpdate"
           done == {k \in 1 .. L : Update(k) /\ delivered[k] # current}
           all == {k \in 1 .. L : Update(k) /\ delivered[k] # <<>>}
<1>1. L \in 1 .. L /\ current = delivered[L]
  BY CurrentFacts
<1>2. L \in Nat /\ \A k \in 1 .. L : delivered[k] # <<>>
  BY StateFacts
<1>3. \A k \in 1 .. L : k # L => delivered[k] # current
  BY <1>1, DeliveredOnce
<1>4. Update(L) <=> IsBookUpdate
  BY <1>1 DEF IsBookUpdate
<1>5. IsFiniteSet(done)
  <2>1. IsFiniteSet(1 .. L)
    BY <1>2, FS_Interval
  <2>2. done \subseteq 1 .. L
    OBVIOUS
  <2> HIDE DEF done
  <2> QED
    BY <2>1, <2>2, FS_Subset
<1>6. BookUpdatesDone = Cardinality(done) /\ BookUpdatesDone' = Cardinality(all)
  BY DEF BookUpdatesDone
<1>7. L \notin done /\ Cardinality(done) \in Nat
  <2>1. L \notin done
    BY <1>1
  <2>2. Cardinality(done) \in Nat
    BY <1>5, FS_CardinalityType, Zenon
  <2> QED
    BY <2>1, <2>2
<1>8. CASE IsBookUpdate
  <2>1. all = done \cup {L}
    <3> HIDE DEF L, Update
    <3> QED
      BY <1>1, <1>2, <1>3, <1>4, <1>8
  <2>2. Cardinality(done \cup {L}) = Cardinality(done) + 1
    <3> HIDE DEF done, L
    <3> QED
      BY <1>5, <1>7, FS_AddElement, Zenon
  <2> HIDE DEF done, all
  <2> QED
    BY <1>6, <1>8, <2>1, <2>2
<1>9. CASE ~IsBookUpdate
  <2>1. all = done
    <3> HIDE DEF L, Update
    <3> QED
      BY <1>1, <1>2, <1>3, <1>4, <1>9
  <2> HIDE DEF done, all
  <2> QED
    BY <1>6, <1>7, <1>9, <2>1
<1> QED
  BY <1>8, <1>9

(* The book of updates done: the last snapshot and the updates after it.   *)
BookOf(s, done) == {n \in done : \A m \in done : events[s][m].snapshot => m <= n}

LEMMA OneUpdateMore ==
    ASSUME NEW s, NEW n \in Nat, NEW done \in SUBSET Nat, \A m \in done : m < n,
           events[s][n].snapshot \in BOOLEAN
    PROVE  BookOf(s, done \cup {n}) =
               {n} \cup IF events[s][n].snapshot THEN {} ELSE BookOf(s, done)
<1> DEFINE Snapshot(m) == events[s][m].snapshot
<1>1. n <= n /\ \A m \in done : m <= n /\ ~(n <= m)
  OBVIOUS
<1>2. \A x : x \in BookOf(s, done \cup {n}) <=>
          x \in done \cup {n} /\ \A m \in done \cup {n} : Snapshot(m) => m <= x
  BY Zenon DEF BookOf
<1>3. \A x : x \in BookOf(s, done) <=> x \in done /\ \A m \in done : Snapshot(m) => m <= x
  BY Zenon DEF BookOf
<1> HIDE DEF Snapshot
<1>4. n \in BookOf(s, done \cup {n})
  BY <1>1, <1>2, Zenon
<1>5. CASE Snapshot(n)
  <2>1. ASSUME NEW x \in BookOf(s, done \cup {n}) PROVE x = n
    BY <1>1, <1>2, <1>5, Zenon
  <2>2. BookOf(s, done \cup {n}) = {n}
    BY <1>4, <2>1
  <2> QED
    BY <1>5, <2>2 DEF Snapshot
<1>6. CASE ~Snapshot(n)
  <2>1. ASSUME NEW x PROVE x \in BookOf(s, done \cup {n}) <=> x = n \/ x \in BookOf(s, done)
    <3>1. ASSUME x \in BookOf(s, done \cup {n}), x # n PROVE x \in BookOf(s, done)
      BY <1>2, <1>3, <3>1, Zenon
    <3>2. ASSUME x \in BookOf(s, done) PROVE x \in BookOf(s, done \cup {n})
      BY <1>2, <1>3, <1>6, <3>2, Zenon
    <3> QED
      BY <1>4, <3>1, <3>2, Zenon
  <2>2. BookOf(s, done \cup {n}) = {n} \cup BookOf(s, done)
    BY <2>1
  <2> QED
    BY <1>6, <2>2 DEF Snapshot
<1> QED
  BY <1>5, <1>6

(* The book gets the update, the other books stay.                         *)
LEMMA BooksCatchUp ==
    ASSUME IInv, pc = "callback", current' = <<>>, taken' = taken, events' = events,
           IF IsBookUpdate THEN UpdateBook ELSE mbp_cache' = mbp_cache
    PROVE  BooksAreUpToDate' /\ mbp_cache' \in [Sources \X Symbols -> SUBSET Nat]
<1> DEFINE s == current[1]
           n == current[2]
           update == events[s][n]
<1>1. /\ s \in Sources /\ n = taken[s] /\ n \in 1 .. Len(events[s]) /\ n \in 1 .. taken[s]
      /\ current = <<s, n>> /\ failure # "callback"
  BY CurrentFacts
<1>2. /\ update.symbol \in Symbols /\ update.snapshot \in BOOLEAN
      /\ Len(events[s]) \in Nat /\ \A t \in Sources : taken[t] \in Nat
  BY <1>1, StateFacts
<1>3. n \in Nat
  BY <1>1, <1>2
<1>4. IsBookUpdate <=> update.type = "MarketByPriceUpdate"
  BY DEF IsBookUpdate
<1>5. mbp_cache \in [Sources \X Symbols -> SUBSET Nat]
  BY DEF IInv, TypeOK
<1>6. IsBookUpdate => mbp_cache' = [mbp_cache EXCEPT ![<<s, update.symbol>>] =
                         {n} \cup IF update.snapshot THEN {} ELSE mbp_cache[<<s, update.symbol>>]]
  BY DEF UpdateBook
<1>7. ~IsBookUpdate => mbp_cache' = mbp_cache
  OBVIOUS
<1>8. \A t \in Sources, symbol \in Symbols :
         /\ mbp_cache[<<t, symbol>>] = BookOf(t, Done(t, symbol))
         /\ Done(t, symbol) \in SUBSET Nat
  <2>1. BooksAreUpToDate
    BY DEF IInv
  <2>2. \A t \in Sources, symbol \in Symbols : Done(t, symbol) \subseteq 1 .. taken[t]
    BY DEF Done
  <2> QED
    BY <1>1, <1>2, <2>1, <2>2 DEF BooksAreUpToDate, BookOf
<1> HIDE DEF s, n
<1>9. \A m : current # <<>> /\ current' # <<s, m>>
  BY <1>1, PairFacts
<1>10. ASSUME NEW t \in Sources, NEW symbol \in Symbols
       PROVE  Done(t, symbol)' =
                  IF t = s /\ IsBookUpdate /\ symbol = update.symbol
                  THEN Done(t, symbol) \cup {n} ELSE Done(t, symbol)
  <2>1. \A m : current' # <<t, m>> /\ (current = <<t, m>> <=> t = s /\ m = n)
    BY <1>1, PairFacts
  <2>2. CASE t = s
    <3>1. \A m \in 1 .. taken[s] : current = <<s, m>> <=> m = n
      BY <2>1, <2>2
    <3> QED
      BY <1>1, <1>4, <2>1, <2>2, <3>1 DEF Done
  <2>3. CASE t # s
    BY <2>1, <2>3 DEF Done
  <2> QED
    BY <2>2, <2>3
<1>11. \A m \in Done(s, update.symbol) : m < n
  BY <1>1, <1>2, <1>3, PairFacts DEF Done
<1>12. BookOf(s, Done(s, update.symbol) \cup {n}) =
           {n} \cup IF update.snapshot THEN {} ELSE BookOf(s, Done(s, update.symbol))
  <2>1. Done(s, update.symbol) \in SUBSET Nat
    BY <1>1, <1>2, <1>8
  <2> QED
    BY <1>2, <1>3, <1>11, <2>1, OneUpdateMore, Zenon
<1>13. <<s, update.symbol>> \in Sources \X Symbols
  BY <1>1, <1>2
<1> HIDE DEF update
<1>14. mbp_cache' \in [Sources \X Symbols -> SUBSET Nat]
  BY <1>1, <1>2, <1>3, <1>5, <1>6, <1>7, <1>13
<1>15. ASSUME NEW t \in Sources, NEW symbol \in Symbols
       PROVE  mbp_cache'[<<t, symbol>>] = BookOf(t, Done(t, symbol)')
  <2>1. <<t, symbol>> \in Sources \X Symbols
    OBVIOUS
  <2>2. CASE t = s /\ IsBookUpdate /\ symbol = update.symbol
    <3>1. mbp_cache'[<<s, update.symbol>>] =
              {n} \cup IF update.snapshot THEN {} ELSE mbp_cache[<<s, update.symbol>>]
      BY <1>5, <1>6, <1>13, <2>2
    <3>2. mbp_cache[<<s, update.symbol>>] = BookOf(s, Done(s, update.symbol))
      BY <1>1, <1>2, <1>8, <2>2
    <3>3. Done(t, symbol)' = Done(s, update.symbol) \cup {n}
      BY <1>10, <2>2
    <3> QED
      BY <1>12, <2>2, <3>1, <3>2, <3>3
  <2>3. CASE ~(t = s /\ IsBookUpdate /\ symbol = update.symbol)
    <3>1. mbp_cache'[<<t, symbol>>] = mbp_cache[<<t, symbol>>]
      <4>1. <<t, symbol>> # <<s, update.symbol>> \/ ~IsBookUpdate
        BY <2>3, PairFacts
      <4> QED
        BY <1>5, <1>6, <1>7, <2>1, <4>1
    <3> QED
      BY <1>8, <1>10, <2>3, <3>1
  <2> QED
    BY <2>2, <2>3
<1>16. BooksAreUpToDate'
  BY <1>15, Zenon DEF BooksAreUpToDate, BookOf
<1> QED
  BY <1>14, <1>16

(* What has been delivered stays when a callback ends.                     *)
LEMMA DeliveredStay ==
    ASSUME IInv, UNCHANGED <<events, taken, delivered>>
    PROVE  DeliveredAreTheRegistered'
<1>1. DeliveredAreTheRegistered
  BY DEF IInv
<1>2. delivered' = delivered /\ taken' = taken /\ events' = events
  OBVIOUS
<1> QED
  BY <1>1, <1>2, Z3 DEF DeliveredAreTheRegistered

LEMMA CallbackReturnsKeeps == ASSUME IInv, CallbackReturns PROVE IInv'
<1>1. /\ pc = "callback" /\ pc' = "dispatch" /\ current' = <<>>
      /\ UNCHANGED <<program, events, taken, delivered, failure, signal, stopped>>
      /\ IF IsBookUpdate THEN UpdateBook ELSE mbp_cache' = mbp_cache
      /\ IsBookUpdate => CountUpdate
      /\ ~IsBookUpdate => count' = count /\ cancels' = cancels
  BY DEF CallbackReturns
<1>2. count \in Nat /\ count < Len(delivered) /\ Len(delivered) \in Nat /\ failure # "callback"
  BY <1>1, CurrentFacts, StateFacts
<1>3. BooksAreUpToDate' /\ mbp_cache' \in [Sources \X Symbols -> SUBSET Nat]
  BY <1>1, BooksCatchUp
<1>4. BookUpdatesDone' = BookUpdatesDone + IF IsBookUpdate THEN 1 ELSE 0
  BY <1>1, UpdatesCounted
<1>5. /\ Counted'
      /\ count' \in 0 .. Len(delivered) /\ cancels' \in 0 .. 1
  <2>1. cancels \in 0 .. 1 /\ Counted /\ CancelAt \in Nat
    BY EventDispatchAssumption DEF IInv, TypeOK
  <2>2. CASE program = "strategy"
    <3>1. count = BookUpdatesDone /\ cancels = IF count >= CancelAt THEN 1 ELSE 0
      BY <1>2, <2>1, <2>2 DEF Counted
    <3>2. CASE IsBookUpdate
      <4>1. /\ count' = count + 1
            /\ cancels' = cancels + IF count' = CancelAt THEN 1 ELSE 0
        BY <1>1, <2>2, <3>2 DEF CountUpdate
      <4>2. BookUpdatesDone' = BookUpdatesDone + 1
        BY <1>4, <3>2
      <4>3. cancels' = IF count' >= CancelAt THEN 1 ELSE 0
        BY <1>2, <2>1, <3>1, <4>1
      <4>4. count' \in 0 .. Len(delivered) /\ cancels' \in 0 .. 1
        BY <1>2, <4>1, <4>3
      <4> QED
        BY <1>1, <2>2, <3>1, <4>1, <4>2, <4>3, <4>4 DEF Counted
    <3>3. CASE ~IsBookUpdate
      <4>1. count' = count /\ cancels' = cancels /\ BookUpdatesDone' = BookUpdatesDone
        BY <1>1, <1>2, <1>4, <3>1, <3>3
      <4> QED
        BY <1>1, <1>2, <2>1, <2>2, <3>1, <4>1 DEF Counted
    <3> QED
      BY <3>2, <3>3
  <2>3. CASE program # "strategy"
    <3>1. count' = count /\ cancels' = cancels
      BY <1>1, <2>3 DEF CountUpdate
    <3> QED
      BY <1>1, <1>2, <2>1, <2>3, <3>1 DEF Counted
  <2> QED
    BY <2>2, <2>3
<1>6. TypeOK'
  BY <1>1, <1>3, <1>5 DEF IInv, TypeOK
<1>7. Handling'
  BY <1>1 DEF Handling
<1>8. DeliveredAreTheRegistered'
  BY <1>1, DeliveredStay
<1>9. EventsOccur'
  BY <1>1, EventsStay
<1> QED
  BY <1>1, <1>2, <1>3, <1>5, <1>6, <1>7, <1>8, <1>9 DEF IInv

LEMMA CallbackRaisesKeeps == ASSUME IInv, CallbackRaises PROVE IInv'
<1>1. /\ pc = "callback" /\ pc' = "ended" /\ current' = <<>> /\ failure' = "callback"
      /\ UNCHANGED <<program, events, taken, delivered, signal, stopped, cancels>>
      /\ \/ mbp_cache' = mbp_cache
         \/ IsBookUpdate /\ UpdateBook
      /\ \/ count' = count
         \/ program = "strategy" /\ count' = count + 1
  BY CurrentFacts DEF CallbackRaises
<1>2. count \in Nat /\ count < Len(delivered) /\ Len(delivered) \in Nat
  BY <1>1, CurrentFacts, StateFacts
<1>3. mbp_cache' \in [Sources \X Symbols -> SUBSET Nat]
  <2>1. mbp_cache \in [Sources \X Symbols -> SUBSET Nat]
    BY DEF IInv, TypeOK
  <2>2. ASSUME IsBookUpdate, UpdateBook PROVE mbp_cache' \in [Sources \X Symbols -> SUBSET Nat]
    BY <1>1, <2>2, BooksCatchUp
  <2> QED
    BY <1>1, <2>1, <2>2
<1>4. count' \in 0 .. Len(delivered)
  BY <1>1, <1>2
<1>5. TypeOK'
  BY <1>1, <1>3, <1>4 DEF IInv, TypeOK
<1>6. Handling' /\ BooksAreUpToDate'
  BY <1>1 DEF Handling, BooksAreUpToDate
<1>7. DeliveredAreTheRegistered'
  BY <1>1, DeliveredStay
<1>8. Counted'
  BY <1>1 DEF IInv, Counted
<1>9. EventsOccur'
  BY <1>1, EventsStay
<1> QED
  BY <1>1, <1>5, <1>6, <1>7, <1>8, <1>9 DEF IInv

LEMMA StepKeeps == IInv /\ [Next]_vars => IInv'
<1> SUFFICES ASSUME IInv, [Next]_vars PROVE IInv'
  OBVIOUS
<1>1. /\ pc \in {"created", "loop", "dispatch", "callback", "ended"}
      /\ failure = "callback" => pc = "ended"
      /\ signal \in {"none", "pending", "handled"}
      /\ stopped \in BOOLEAN /\ stopped = (signal = "handled")
  BY DEF IInv, TypeOK
<1>2. CASE Start
  BY <1>1, <1>2, OthersKeep DEF Start
<1>3. CASE CallDispatch
  BY <1>1, <1>3, OthersKeep DEF CallDispatch
<1>4. CASE DispatchReturns
  BY <1>1, <1>4, OthersKeep DEF DispatchReturns
<1>5. CASE LogHandlerExits
  BY <1>1, <1>5, OthersKeep DEF LogHandlerExits
<1>6. CASE SignalArrives
  BY <1>1, <1>6, OthersKeep DEF SignalArrives
<1>7. CASE SignalHandler
  BY <1>1, <1>7, OthersKeep DEF SignalHandler
<1>8. CASE UNCHANGED vars
  BY <1>1, <1>8, OthersKeep DEF vars
<1> QED
  BY <1>2, <1>3, <1>4, <1>5, <1>6, <1>7, <1>8, HandleKeeps, CallbackReturnsKeeps,
     CallbackRaisesKeeps DEF Next

LEMMA Invariance == Spec => []IInv
  BY Initially, StepKeeps, PTL DEF Spec

-----------------------------------------------------------------------------
(* The variables keep their types; in particular the event in the callback *)
(* is the last one delivered, and orders are cancelled at most once.       *)
THEOREM DispatchTypeCorrectness == Spec => []TypeOK
<1>1. IInv => TypeOK
  BY DEF IInv
<1> QED
  BY <1>1, Invariance, PTL

(* Bridge2 and the Handlers: every event taken that has a Python class and *)
(* is not the timer, which none of them passes on, is given to the         *)
(* callback, once and in the order of its source, and no other is.         *)
THEOREM EveryEventIsDelivered == Spec => []DeliveredAreTheRegistered
<1>1. IInv => DeliveredAreTheRegistered
  BY DEF IInv
<1> QED
  BY <1>1, Invariance, PTL

(* MBP_CACHE: a book is the last snapshot of its exchange and symbol and   *)
(* the updates after it, unless a callback has failed.                     *)
THEOREM CachedBooksAreRight == Spec => []BooksAreUpToDate
<1>1. IInv => BooksAreUpToDate
  BY DEF IInv
<1> QED
  BY <1>1, Invariance, PTL

(* Strategy: orders are cancelled once, at the update that makes it enough.*)
THEOREM OrdersAreCancelledOnce == Spec => []CancelledOnce
<1>1. ASSUME IInv PROVE CancelledOnce
  <2>1. ASSUME failure # "callback"
        PROVE  cancels = IF program = "strategy" /\ BookUpdatesDone >= CancelAt THEN 1 ELSE 0
    <3>1. Counted
      BY <1>1 DEF IInv
    <3> QED
      BY <2>1, <3>1 DEF Counted
  <2> QED
    BY <2>1 DEF CancelledOnce
<1> QED
  BY <1>1, Invariance, PTL
=============================================================================
