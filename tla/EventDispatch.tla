--------------------------- MODULE EventDispatch ---------------------------
(***************************************************************************)
(* Programs that have events dispatched to their callback: a strategy      *)
(* connected to gateways (samples/strategy.py) and the replay of event     *)
(* logs (samples/event_log_reader.py, event_log_multiplexer.py), with      *)
(* Dispatcher, EventLogReader and EventLogMultiplexer of                   *)
(* src/roq/python/client/details.hpp.                                      *)
(*                                                                         *)
(* A source, a gateway or a log, has the events of one exchange; the       *)
(* library takes the next event of one source at a time, in any order      *)
(* between them.  An order book is the set of positions of the updates     *)
(* that went into it.  What becomes of stored arguments is in Callbacks.   *)
(***************************************************************************)
EXTENDS Naturals, Sequences, FiniteSets

CONSTANTS
    Sources,   \* gateways or event logs
    Symbols,   \* symbols, the same on every exchange
    Programs,  \* the programs looked at
    Feeds,     \* the events that each source may have
    CancelAt   \* updates after which the strategy cancels its orders (20)

(* Events that the samples keep books of, that they print, that they have  *)
(* no overload for, that only a strategy or only a log has, and that have  *)
(* no Python class: of each kind, one or two stand for all.                *)
Types ==
    {"MarketByPriceUpdate", "TopOfBook", "RateLimitsUpdate", "Timer", "CreateOrder",
     "RiskLimits", "RiskLimitsUpdate", "ParametersUpdate"}

(* The library's dispatcher has a timer; orders that somebody has sent are *)
(* in the logs.                                                            *)
Occurs(p) == IF p = "strategy" THEN Types \ {"CreateOrder"} ELSE Types \ {"Timer"}

Event == [type : Types, symbol : Symbols, snapshot : BOOLEAN]

ASSUME EventDispatchAssumption ==
    /\ Programs \subseteq {"strategy", "event_log_reader", "event_log_multiplexer"}
    /\ Feeds \subseteq [Sources -> Seq(Event)]
    /\ CancelAt \in Nat \ {0}

VARIABLES
    program,    \* which of the programs: never changes
    events,     \* the events of each source: never changes
    taken,      \* how many of them the library has taken
    pc,         \* "created", "loop", "dispatch", "callback" or "ended"
    current,    \* the event being handled: source and position
    delivered,  \* history: the events given to the callback
    failure,    \* what ended the program: "none", "cast", "callback" or "log"
    signal,     \* SIGINT: "none", "pending" until Python runs, or "handled"
    stopped,    \* Dispatcher.stop has been called
    mbp_cache,  \* MBP_CACHE, Strategy.mbp_cache: the order books by key
    count,      \* Strategy.count
    cancels     \* history: how often all orders have been cancelled

vars == <<program, events, taken, pc, current, delivered, failure, signal, stopped,
          mbp_cache, count, cancels>>

Init ==
    /\ program \in Programs
    /\ events \in Feeds
    /\ \A s \in Sources : \A n \in 1 .. Len(events[s]) : events[s][n].type \in Occurs(program)
    /\ program = "event_log_reader" => Cardinality({s \in Sources : events[s] # <<>>}) <= 1
    /\ taken = [s \in Sources |-> 0]
    /\ pc = IF program = "strategy" THEN "created" ELSE "loop"
    /\ current = <<>>
    /\ delivered = <<>>
    /\ failure = "none"
    /\ signal = "none"
    /\ stopped = FALSE
    /\ mbp_cache = [k \in Sources \X Symbols |-> {}]
    /\ count = 0
    /\ cancels = 0

-----------------------------------------------------------------------------
(* The types with a Python class.                                          *)
Registered ==
    {"MarketByPriceUpdate", "TopOfBook", "RateLimitsUpdate", "Timer", "CreateOrder"}

(* Mutant: the multiplexer has a TODO for rate limits.                     *)
ForwardedLess(p) ==
    CASE p = "strategy" -> Registered \ {"Timer", "CreateOrder"}
      [] p = "event_log_reader" -> Types \ {"Timer", "ParametersUpdate"}
      [] OTHER -> Registered \ {"Timer", "RateLimitsUpdate"}

(* The types that a program's handler passes on, the others it ignores     *)
(* (Bridge2, the Handlers of the reader and of the multiplexer): none has  *)
(* an override for the timer.                                              *)
Forwarded(p) ==
    CASE p = "strategy" -> Registered \ {"Timer", "CreateOrder"}
      [] p = "event_log_reader" -> Types \ {"Timer", "ParametersUpdate"}
      [] OTHER -> Registered \ {"Timer"}

PythonRuns == pc \in {"loop", "callback"} /\ signal # "pending"

(* Dispatcher.start.                                                       *)
Start ==
    /\ pc = "created" /\ signal # "pending"
    /\ pc' = "loop"
    /\ UNCHANGED <<program, events, taken, current, delivered, failure, signal, stopped,
                   mbp_cache, count, cancels>>

(* Mutant: dispatch does not look whether it has been stopped.             *)
CallDispatchAnyway ==
    /\ pc = "loop" /\ PythonRuns
    /\ pc' = "dispatch"
    /\ UNCHANGED <<program, events, taken, current, delivered, failure, signal, stopped,
                   mbp_cache, count, cancels>>

(* The program's loop calls dispatch, which returns False if the           *)
(* dispatcher has been stopped; that ends the loop.                        *)
CallDispatch ==
    /\ pc = "loop" /\ PythonRuns
    /\ pc' = IF stopped THEN "ended" ELSE "dispatch"
    /\ UNCHANGED <<program, events, taken, current, delivered, failure, signal, stopped,
                   mbp_cache, count, cancels>>

(* The library handles the next event of source s.  The cast of a type     *)
(* without Python class throws, and the exception ends the loop.           *)
Handle(s) ==
    LET n == taken[s] + 1
    IN  /\ pc = "dispatch" /\ n <= Len(events[s])
        /\ taken' = [taken EXCEPT ![s] = n]
        /\ \/ /\ events[s][n].type \notin Forwarded(program)
              /\ UNCHANGED <<pc, current, delivered, failure>>
           \/ /\ events[s][n].type \in Forwarded(program) \ Registered
              /\ failure' = "cast" /\ pc' = "ended"
              /\ UNCHANGED <<current, delivered>>
           \/ /\ events[s][n].type \in Forwarded(program) \cap Registered
              /\ current' = <<s, n>>
              /\ delivered' = Append(delivered, <<s, n>>)
              /\ pc' = "callback"
              /\ UNCHANGED failure
        /\ UNCHANGED <<program, events, signal, stopped, mbp_cache, count, cancels>>

(* dispatch returns: of a dispatcher when it likes, of the event logs when *)
(* all has been read (with False).                                         *)
DispatchReturns ==
    /\ pc = "dispatch"
    /\ IF program = "strategy"
       THEN pc' = "loop" \/ (stopped /\ pc' = "ended")
       ELSE (\A s \in Sources : taken[s] = Len(events[s])) /\ pc' = "ended"
    /\ UNCHANGED <<program, events, taken, current, delivered, failure, signal, stopped,
                   mbp_cache, count, cancels>>

-----------------------------------------------------------------------------
IsBookUpdate == events[current[1]][current[2]].type = "MarketByPriceUpdate"

(* Mutant: the book of a symbol, whatever the exchange.                    *)
UpdateBookOfSymbol ==
    LET s == current[1]
        n == current[2]
        update == events[s][n]
    IN  mbp_cache' = [k \in Sources \X Symbols |->
                         IF k[2] = update.symbol
                         THEN {n} \cup IF update.snapshot THEN {} ELSE mbp_cache[k]
                         ELSE mbp_cache[k]]

(* "mbp_cache.get(key)", created on demand, then "mbp.apply".              *)
UpdateBook ==
    LET s == current[1]
        n == current[2]
        update == events[s][n]
    IN  mbp_cache' = [mbp_cache EXCEPT ![<<s, update.symbol>>] =
                         {n} \cup IF update.snapshot THEN {} ELSE @]

(* Mutant: from the update on, not at it.                                  *)
CountUpdatePast ==
    IF program = "strategy"
    THEN /\ count' = count + 1
         /\ cancels' = cancels + IF count' >= CancelAt THEN 1 ELSE 0
    ELSE UNCHANGED <<count, cancels>>

(* The strategy cancels all orders at one of its updates.                  *)
CountUpdate ==
    IF program = "strategy"
    THEN /\ count' = count + 1
         /\ cancels' = cancels + IF count' = CancelAt THEN 1 ELSE 0
    ELSE UNCHANGED <<count, cancels>>

(* The callback runs to its end; of most events it only prints.            *)
CallbackReturns ==
    /\ pc = "callback" /\ PythonRuns
    /\ IF IsBookUpdate
       THEN UpdateBook /\ CountUpdate
       ELSE UNCHANGED <<mbp_cache, count, cancels>>
    /\ pc' = "dispatch"
    /\ current' = <<>>
    /\ UNCHANGED <<program, events, taken, delivered, failure, signal, stopped>>

(* It raises, before or after it has updated the book, or because the      *)
(* library refuses to cancel orders; dispatch passes the exception on and  *)
(* the loop ends.                                                          *)
CallbackRaises ==
    /\ pc = "callback" /\ PythonRuns
    /\ \/ UNCHANGED <<mbp_cache, count>>
       \/ IsBookUpdate /\ UpdateBook /\ UNCHANGED count
       \/ /\ IsBookUpdate /\ UpdateBook
          /\ program = "strategy" /\ count + 1 = CancelAt
          /\ count' = CancelAt
    /\ failure' = "callback"
    /\ pc' = "ended"
    /\ current' = <<>>
    /\ UNCHANGED <<program, events, taken, delivered, signal, stopped, cancels>>

(* LogHandler: a level that log_handler does not know makes it exit, which *)
(* leaves the library through dispatch.                                    *)
LogHandlerExits ==
    /\ program = "strategy" /\ pc = "dispatch"
    /\ failure' = "log"
    /\ pc' = "ended"
    /\ UNCHANGED <<program, events, taken, current, delivered, signal, stopped, mbp_cache,
                   count, cancels>>

-----------------------------------------------------------------------------
(* The operating system notes the signal; Python calls signal_handler when *)
(* it gets to run: also in the middle of a dispatch, when the library logs *)
(* something and LogHandler calls the sample's log_handler.                *)
SignalArrives ==
    /\ program = "strategy" /\ pc # "ended"
    /\ signal = "none"
    /\ signal' = "pending"
    /\ UNCHANGED <<program, events, taken, pc, current, delivered, failure, stopped,
                   mbp_cache, count, cancels>>

(* Mutant: it does not call Dispatcher.stop.                               *)
SignalHandlerForgets ==
    /\ signal = "pending"
    /\ pc \in {"created", "loop", "dispatch", "callback"}
    /\ signal' = "handled"
    /\ UNCHANGED <<program, events, taken, pc, current, delivered, failure, stopped,
                   mbp_cache, count, cancels>>

(* The handler of SIGINT calls Dispatcher.stop.                            *)
SignalHandler ==
    /\ signal = "pending"
    /\ pc \in {"created", "loop", "dispatch", "callback"}
    /\ signal' = "handled"
    /\ stopped' = TRUE
    /\ UNCHANGED <<program, events, taken, pc, current, delivered, failure, mbp_cache,
                   count, cancels>>

Next ==
    \/ Start
    \/ CallDispatch
    \/ \E s \in Sources : Handle(s)
    \/ DispatchReturns
    \/ CallbackReturns
    \/ CallbackRaises
    \/ LogHandlerExits
    \/ SignalArrives
    \/ SignalHandler

(* Programs and library go on when they can, callbacks end, and a dispatch *)
(* deals with the events that there are; nobody has to press Ctrl-C, and   *)
(* the library does not have to log anything.                              *)
Fairness ==
    /\ WF_vars(Start)
    /\ WF_vars(CallDispatch)
    /\ WF_vars(\E s \in Sources : Handle(s))
    /\ WF_vars(DispatchReturns)
    /\ WF_vars(CallbackReturns \/ CallbackRaises)
    /\ WF_vars(pc # "dispatch" /\ SignalHandler)

Spec == Init /\ [][Next]_vars /\ Fairness

-----------------------------------------------------------------------------
(* Every variable has its type.                                            *)
TypeOK ==
    /\ program \in Programs
    /\ events \in Feeds
    /\ \A s \in Sources : taken[s] \in 0 .. Len(events[s])
    /\ pc \in {"created", "loop", "dispatch", "callback", "ended"}
    /\ pc = "callback" => current = delivered[Len(delivered)]
    /\ \A k \in 1 .. Len(delivered) :
          delivered[k][1] \in Sources /\ delivered[k][2] \in 1 .. taken[delivered[k][1]]
    /\ failure \in {"none", "cast", "callback", "log"}
    /\ signal \in {"none", "pending", "handled"}
    /\ stopped \in BOOLEAN /\ stopped = (signal = "handled")
    /\ mbp_cache \in [Sources \X Symbols -> SUBSET Nat]
    /\ count \in 0 .. Len(delivered) /\ cancels \in 0 .. 1

(* In every program, whichever order the library takes the sources in, the *)
(* callback is given every event taken that has a Python class, in the     *)
(* order of its source and none twice: the handler's overrides and the     *)
(* classes registered elsewhere go together.  With one exception: no timer *)
(* event ever arrives.  roq.Timer has a class (module.cpp:79), Dispatcher  *)
(* sets the timer's frequency (client/details.hpp:227), and samples/       *)
(* strategy.py:59-68 is an overload for it, among what it calls "all       *)
(* callback methods" (line 8), but Bridge2 has no override for it.         *)
DeliveredAreTheRegistered ==
    LET From(s) == {k \in 1 .. Len(delivered) : delivered[k][1] = s}
    IN  \A s \in Sources :
          /\ {delivered[k][2] : k \in From(s)} =
                {n \in 1 .. taken[s] : events[s][n].type \in Registered \ {"Timer"}}
          /\ \A j, k \in From(s) : j < k => delivered[j][2] < delivered[k][2]

(* The book updates that the callback is done with: of a book, of all.     *)
Done(s, symbol) ==
    {n \in 1 .. taken[s] :
        /\ events[s][n].type = "MarketByPriceUpdate"
        /\ events[s][n].symbol = symbol
        /\ current # <<s, n>>}

BookUpdatesDone ==
    Cardinality({k \in 1 .. Len(delivered) :
                    /\ events[delivered[k][1]][delivered[k][2]].type = "MarketByPriceUpdate"
                    /\ delivered[k] # current})

(* A cached book is that of its own exchange and symbol: the last snapshot *)
(* that was delivered and the updates after it, whatever came in between   *)
(* from other sources, unless a callback has failed half-way.              *)
BooksAreUpToDate ==
    failure # "callback" =>
        \A s \in Sources, symbol \in Symbols :
            mbp_cache[<<s, symbol>>] =
                {n \in Done(s, symbol) : \A m \in Done(s, symbol) : events[s][m].snapshot => m <= n}

(* All orders are cancelled once in the life of a strategy, as soon as the *)
(* updates of all sources together are enough - however often dispatch     *)
(* returns in between, and wherever in the callback a signal comes.        *)
CancelledOnce ==
    failure # "callback" =>
        cancels = IF program = "strategy" /\ BookUpdatesDone >= CancelAt THEN 1 ELSE 0

(* Ctrl-C ends a strategy whenever it is pressed - before start, between   *)
(* two dispatches, within one or within a callback - and a replay ends by  *)
(* itself (samples/strategy.py: "detected on next call to dispatch()").    *)
Ends == (program # "strategy" \/ signal # "none") ~> pc = "ended"

(* samples/event_log_reader.py:6 "Demonstrates how to replay an event-log":*)
(* only its callback, and never the binding, ends a replay early.          *)
NeverFailsToCast == failure # "cast"
=============================================================================
