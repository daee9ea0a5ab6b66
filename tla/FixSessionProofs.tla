-------------------------- MODULE FixSessionProofs --------------------------
(***************************************************************************)
(* The FIX session, for every message size and every bound: whatever the   *)
(* order of requests, answers, test requests, pieces of the stream, and    *)
(* wherever a callback raises.  StepsTakenOnce counts requests; the        *)
(* invariant says why the counts come out: the steps of the workflow and   *)
(* the messages that answer them form a chain in which each follows from   *)
(* the one before.                                                         *)
(***************************************************************************)
EXTENDS FixSession, TLAPS, SequenceTheorems, FiniteSetTheorems

(* What the client writes once it has counted number messages.             *)
Numbered(number) == [type : Requests, msg_seq_num : 1 .. number]

(* Before the connection is made nothing has happened.                     *)
Unconnected == connection = "none" => sent = <<>> /\ stream = <<>>

(* Until the connection is lost, what has been handled has been cut and    *)
(* what has been counted has been written.                                 *)
Running ==
    /\ connection # "lost" => Len(handled) = decoded /\ msg_seq_num = Len(sent)
    /\ pc = "loop" => connection = "up"

(* The steps of the workflow: the messages that a request is sent for, and *)
(* the request that a message answers.                                     *)
Steps == Requests \ {"Heartbeat", "NewOrderSingle", "TradingSessionStatusRequest"}

Trigger ==
    [type \in Steps \ {"Logon"} |->
        CASE type = "SecurityListRequest" -> {"Logon"}
          [] type = "SecurityDefinitionRequest" -> {"SecurityList"}
          [] type = "SecurityStatusRequest" -> {"SecurityDefinition"}
          [] type = "MarketDataRequest" -> {"SecurityDefinition"}
          [] type = "OrderStatusRequest" -> {"SecurityStatus"}
          [] type = "OrderMassStatusRequest" -> {"OrderStatusReport", "BothReport"}]

Answered ==
    [message \in {"Logon", "SecurityList", "SecurityDefinition", "SecurityStatus",
                  "OrderStatusReport", "BothReport"} |->
        CASE message = "Logon" -> "Logon"
          [] message = "SecurityList" -> "SecurityListRequest"
          [] message = "SecurityDefinition" -> "SecurityDefinitionRequest"
          [] message = "SecurityStatus" -> "SecurityStatusRequest"
          [] message = "OrderStatusReport" -> "OrderStatusRequest"
          [] message = "BothReport" -> "OrderStatusRequest"]

(* Each step follows from a message that has been handled, and that from a *)
(* step that has been answered; neither is repeated.                       *)
ChainOfSteps ==
    /\ \A j, k \in 1 .. Len(sent) :
          sent[j].type \in Steps /\ sent[k].type = sent[j].type => j = k
    /\ \A k \in 1 .. Len(sent) :
          sent[k].type \in DOMAIN Trigger =>
              \E p \in 1 .. Len(handled) : stream[p] \in Trigger[sent[k].type]
    /\ \A p, q \in 1 .. Len(stream) :
          /\ stream[p] \in DOMAIN Answered /\ stream[q] \in DOMAIN Answered
          /\ Answered[stream[q]] = Answered[stream[p]]
          => p = q
    /\ \A p \in 1 .. Len(stream) :
          stream[p] \in DOMAIN Answered =>
              \E k \in 1 .. answered : sent[k].type = Answered[stream[p]]

IInv ==
    /\ TypeOK
    /\ Unconnected
    /\ Running
    /\ HandledInOrder
    /\ NoGapOnTheWire
    /\ ChainOfSteps

-----------------------------------------------------------------------------
(* The two functions, value by value.                                      *)
LEMMA WorkflowFacts ==
    /\ DOMAIN Trigger = {"SecurityListRequest", "SecurityDefinitionRequest",
                         "SecurityStatusRequest", "MarketDataRequest",
                         "OrderStatusRequest", "OrderMassStatusRequest"}
    /\ Trigger["SecurityListRequest"] = {"Logon"}
    /\ Trigger["SecurityDefinitionRequest"] = {"SecurityList"}
    /\ Trigger["SecurityStatusRequest"] = {"SecurityDefinition"}
    /\ Trigger["MarketDataRequest"] = {"SecurityDefinition"}
    /\ Trigger["OrderStatusRequest"] = {"SecurityStatus"}
    /\ Trigger["OrderMassStatusRequest"] = {"OrderStatusReport", "BothReport"}
    /\ Steps = DOMAIN Trigger \cup {"Logon"}
    /\ DOMAIN Answered = {"Logon", "SecurityList", "SecurityDefinition", "SecurityStatus",
                          "OrderStatusReport", "BothReport"}
    /\ Answered["Logon"] = "Logon"
    /\ Answered["SecurityList"] = "SecurityListRequest"
    /\ Answered["SecurityDefinition"] = "SecurityDefinitionRequest"
    /\ Answered["SecurityStatus"] = "SecurityStatusRequest"
    /\ Answered["OrderStatusReport"] = "OrderStatusRequest"
    /\ Answered["BothReport"] = "OrderStatusRequest"
  BY DEF Trigger, Answered, Steps, Requests

(* The requests of a callback: at most two, all different, and a step only *)
(* for the message that triggers it.                                       *)
Proper(replies, message) ==
    /\ replies \in Seq(Requests)
    /\ Len(replies) \in 0 .. 2
    /\ \A j, k \in 1 .. Len(replies) : replies[j] = replies[k] => j = k
    /\ \A k \in 1 .. Len(replies) : replies[k] \in Steps =>
          replies[k] \in DOMAIN Trigger /\ message \in Trigger[replies[k]]

LEMMA ProperOne ==
    ASSUME NEW request \in Requests, NEW message,
           request \in Steps => request \in DOMAIN Trigger /\ message \in Trigger[request]
    PROVE  Proper(<<request>>, message)
<1>1. /\ <<request>> \in Seq(Requests)
      /\ Len(<<request>>) = 1
      /\ <<request>>[1] = request
  OBVIOUS
<1>2. 1 .. 1 = {1} /\ 1 \in 0 .. 2
  OBVIOUS
<1> QED
  BY <1>1, <1>2 DEF Proper

LEMMA ProperTwo ==
    ASSUME NEW first \in Requests, NEW second \in Requests, NEW message,
           first # second,
           first \in Steps => first \in DOMAIN Trigger /\ message \in Trigger[first],
           second \in Steps => second \in DOMAIN Trigger /\ message \in Trigger[second]
    PROVE  Proper(<<first, second>>, message)
<1> DEFINE replies == <<first, second>>
<1>1. /\ replies \in Seq(Requests)
      /\ Len(replies) = 2
      /\ replies[1] = first /\ replies[2] = second
  OBVIOUS
<1>2. 1 .. 2 = {1, 2} /\ 2 \in 0 .. 2
  OBVIOUS
<1> HIDE DEF replies
<1> QED
  BY <1>1, <1>2 DEF Proper, replies

LEMMA Pairs ==
    ASSUME NEW S, NEW first \in S, NEW second \in S
    PROVE  <<first>> \o <<second>> = <<first, second>> /\ <<>> \o <<second>> = <<second>>
<1> DEFINE s == <<first>>
           t == <<second>>
           pair == s \o t
<1>1. s \in Seq(S) /\ t \in Seq(S) /\ Len(s) = 1 /\ Len(t) = 1 /\ s[1] = first /\ t[1] = second
  OBVIOUS
<1>2. <<>> \o t = t
  <2> HIDE DEF t
  <2> QED
    BY <1>1
<1>3. pair \in Seq(S) /\ Len(pair) = 2 /\ pair[1] = first /\ pair[2] = second
  <2>1. 1 \in 1 .. 1 + 1 /\ 2 \in 1 .. 1 + 1 /\ 1 + 1 = 2
    OBVIOUS
  <2> HIDE DEF s, t
  <2> QED
    BY <1>1, <2>1, ConcatProperties
<1>4. pair = <<first, second>>
  <2> HIDE DEF pair
  <2> QED
    BY <1>3
<1> QED
  BY <1>2, <1>4

LEMMA ReportFacts == ASSUME NEW message \in Reports PROVE Proper(ReportReplies(message), message)
<1>1. /\ <<"OrderMassStatusRequest">> \o <<"NewOrderSingle">>
            = <<"OrderMassStatusRequest", "NewOrderSingle">>
      /\ <<"OrderMassStatusRequest">> \o <<"TradingSessionStatusRequest">>
            = <<"OrderMassStatusRequest", "TradingSessionStatusRequest">>
      /\ <<>> \o <<"NewOrderSingle">> = <<"NewOrderSingle">>
      /\ <<>> \o <<"TradingSessionStatusRequest">> = <<"TradingSessionStatusRequest">>
  <2>1. \A first, second \in Requests :
           <<first>> \o <<second>> = <<first, second>> /\ <<>> \o <<second>> = <<second>>
    BY Pairs
  <2> QED
    BY <2>1, Zenon DEF Requests
<1> DEFINE Stepwise(request) ==
               request \in Steps => request \in DOMAIN Trigger /\ message \in Trigger[request]
<1>2. \A request \in {"NewOrderSingle", "TradingSessionStatusRequest"} : Stepwise(request)
  BY DEF Steps
<1>3. message \in HasOrdStatusReqId => Stepwise("OrderMassStatusRequest")
  BY WorkflowFacts DEF HasOrdStatusReqId
<1>4. /\ "OrderMassStatusRequest" \in Requests /\ "NewOrderSingle" \in Requests
      /\ "TradingSessionStatusRequest" \in Requests
  BY DEF Requests
<1>5. CASE message = "BothReport"
  <2>1. ReportReplies(message) = <<"OrderMassStatusRequest", "NewOrderSingle">>
    BY <1>1, <1>5, Zenon DEF ReportReplies, HasOrdStatusReqId, HasMassStatusReqId
  <2> QED
    BY <1>5, <2>1, <1>2, <1>3, <1>4, ProperTwo DEF HasOrdStatusReqId
<1>6. CASE message = "OrderStatusReport"
  <2>1. message \in HasOrdStatusReqId /\ message \notin HasMassStatusReqId
    BY <1>6 DEF HasOrdStatusReqId, HasMassStatusReqId
  <2>2. ReportReplies(message) = <<"OrderMassStatusRequest", "TradingSessionStatusRequest">>
    BY <1>1, <2>1, Zenon DEF ReportReplies
  <2> QED
    BY <2>1, <2>2, <1>2, <1>3, <1>4, ProperTwo
<1>7. CASE message = "MassStatusReport"
  <2>1. message \notin HasOrdStatusReqId /\ message \in HasMassStatusReqId
    BY <1>7 DEF HasOrdStatusReqId, HasMassStatusReqId
  <2>2. ReportReplies(message) = <<"NewOrderSingle">>
    BY <1>1, <2>1, Zenon DEF ReportReplies
  <2> QED
    BY <2>2, <1>2, <1>4, ProperOne
<1>8. CASE message = "ExecutionReport"
  <2>1. message \notin HasOrdStatusReqId /\ message \notin HasMassStatusReqId
    BY <1>8 DEF HasOrdStatusReqId, HasMassStatusReqId
  <2>2. ReportReplies(message) = <<"TradingSessionStatusRequest">>
    BY <1>1, <2>1, Zenon DEF ReportReplies
  <2> QED
    BY <2>2, <1>2, <1>4, ProperOne
<1> QED
  BY <1>5, <1>6, <1>7, <1>8 DEF Reports, HasOrdStatusReqId, HasMassStatusReqId

LEMMA WorkflowRepliesFacts ==
    ASSUME NEW message PROVE Proper(WorkflowReplies(message), message)
<1>1. CASE message = "Logon"
  <2>1. WorkflowReplies(message) = <<"SecurityListRequest">>
    BY <1>1 DEF WorkflowReplies, Reports, HasOrdStatusReqId, HasMassStatusReqId
  <2> QED
    BY <1>1, <2>1, WorkflowFacts, ProperOne DEF Requests
<1>2. CASE message = "SecurityList"
  <2>1. WorkflowReplies(message) = <<"SecurityDefinitionRequest">>
    BY <1>2 DEF WorkflowReplies, Reports, HasOrdStatusReqId, HasMassStatusReqId
  <2> QED
    BY <1>2, <2>1, WorkflowFacts, ProperOne DEF Requests
<1>3. CASE message = "SecurityDefinition"
  <2>1. WorkflowReplies(message) = <<"SecurityStatusRequest", "MarketDataRequest">>
    BY <1>3 DEF WorkflowReplies, Reports, HasOrdStatusReqId, HasMassStatusReqId
  <2>2. \A request \in {"SecurityStatusRequest", "MarketDataRequest"} :
           request \in Requests /\ request \in DOMAIN Trigger /\ message \in Trigger[request]
    BY <1>3, WorkflowFacts DEF Requests
  <2> QED
    BY <2>1, <2>2, ProperTwo
<1>4. CASE message = "SecurityStatus"
  <2>1. WorkflowReplies(message) = <<"OrderStatusRequest">>
    BY <1>4 DEF WorkflowReplies, Reports, HasOrdStatusReqId, HasMassStatusReqId
  <2> QED
    BY <1>4, <2>1, WorkflowFacts, ProperOne DEF Requests
<1>5. CASE message \in Reports
  <2>1. message \notin {"Logon", "SecurityList", "SecurityDefinition", "SecurityStatus"}
    BY <1>5 DEF Reports, HasOrdStatusReqId, HasMassStatusReqId
  <2>2. WorkflowReplies(message) = ReportReplies(message)
    BY <1>5, <2>1 DEF WorkflowReplies
  <2> QED
    BY <1>5, <2>2, ReportFacts
<1>6. CASE message \notin Reports \cup {"Logon", "SecurityList", "SecurityDefinition",
                                       "SecurityStatus"}
  <2>1. WorkflowReplies(message) = <<>>
    BY <1>6 DEF WorkflowReplies
  <2> QED
    BY <2>1 DEF Proper
<1> QED
  BY <1>1, <1>2, <1>3, <1>4, <1>5, <1>6

LEMMA RepliesFacts == ASSUME NEW message PROVE Proper(Replies(message), message)
<1>1. CASE message = "TestRequest"
  <2>1. Replies(message) = <<"Heartbeat">>
    BY <1>1 DEF Replies
  <2> QED
    BY <2>1, ProperOne DEF Requests, Steps
<1>2. CASE message # "TestRequest"
  BY <1>2, WorkflowRepliesFacts DEF Replies
<1> QED
  BY <1>1, <1>2

(* A sequence of answers to a request consists of messages; and a step of  *)
(* the workflow is answered by one message.                                *)
LEMMA AnswersAreMessages ==
    ASSUME NEW request \in Requests, NEW answer \in Answers(request)
    PROVE  answer \in Seq(Messages)
<1>1. \/ \E message : answer = <<message>>
      \/ \E n \in 1 .. MaxReports : answer = [k \in 1 .. n |-> "MassStatusReport"]
      \/ answer = <<>>
  BY DEF Answers
<1>2. {answer[k] : k \in 1 .. Len(answer)} \subseteq Messages
  <2>1. answer \in UNION {Answers(r) : r \in Requests}
    OBVIOUS
  <2>2. {answer[k] : k \in 1 .. Len(answer)}
            \in {{a[k] : k \in 1 .. Len(a)} : a \in UNION {Answers(r) : r \in Requests}}
    BY <2>1, Zenon
  <2> QED
    BY <2>2, Zenon DEF Messages
<1>3. CASE \E message : answer = <<message>>
  <2>1. PICK message : answer = <<message>>
    BY <1>3
  <2>2. Len(answer) = 1 /\ answer[1] = message
    BY <2>1
  <2>3. message \in Messages
    BY <1>2, <2>2
  <2> QED
    BY <2>1, <2>3
<1>4. CASE \E n \in 1 .. MaxReports : answer = [k \in 1 .. n |-> "MassStatusReport"]
  <2>1. PICK n \in 1 .. MaxReports : answer = [k \in 1 .. n |-> "MassStatusReport"]
    BY <1>4
  <2>2. n \in Nat
    BY <2>1, FixSessionAssumption
  <2>3. answer \in Seq({"MassStatusReport"}) /\ Len(answer) = n
    BY <2>1, <2>2
  <2>4. answer[1] = "MassStatusReport" /\ 1 \in 1 .. Len(answer)
    BY <2>1, <2>3
  <2>5. "MassStatusReport" \in Messages
    BY <1>2, <2>4
  <2> QED
    BY <2>1, <2>2, <2>5
<1>5. CASE answer = <<>>
  BY <1>5
<1> QED
  BY <1>1, <1>3, <1>4, <1>5

LEMMA StepsAnsweredOnce ==
    ASSUME NEW request \in Requests, NEW answer \in Answers(request),
           NEW k \in 1 .. Len(answer), answer[k] \in DOMAIN Answered
    PROVE  Len(answer) = 1 /\ Answered[answer[k]] = request
<1>1. \/ \E message : answer = <<message>>
      \/ \E n \in 1 .. MaxReports : answer = [j \in 1 .. n |-> "MassStatusReport"]
      \/ answer = <<>>
  BY DEF Answers
<1>2. CASE \E n \in 1 .. MaxReports : answer = [j \in 1 .. n |-> "MassStatusReport"]
  <2>1. PICK n \in 1 .. MaxReports : answer = [j \in 1 .. n |-> "MassStatusReport"]
    BY <1>2
  <2>2. n \in Nat
    BY <2>1, FixSessionAssumption
  <2>3. Len(answer) = n
    BY <2>1, <2>2
  <2> QED
    BY <2>1, <2>3, WorkflowFacts
<1>3. CASE \E message : answer = <<message>>
  <2>1. Len(answer) = 1 /\ k = 1 /\ answer = <<answer[1]>>
    BY <1>3
  <2>2. CASE request = "OrderMassStatusRequest"
    <3>1. PICK n \in 1 .. MaxReports : answer = [j \in 1 .. n |-> "MassStatusReport"]
      BY <2>2 DEF Answers
    <3> QED
      BY <1>2, <3>1
  <2>3. CASE request # "OrderMassStatusRequest"
    <3>1. /\ request = "Logon" => answer[1] \in {"Logon", "Logout"}
          /\ request = "SecurityListRequest" => answer[1] = "SecurityList"
          /\ request = "SecurityDefinitionRequest" => answer[1] = "SecurityDefinition"
          /\ request = "SecurityStatusRequest" => answer[1] = "SecurityStatus"
          /\ request = "MarketDataRequest" => answer[1] = "MarketDataSnapshotFullRefresh"
          /\ request = "OrderStatusRequest" => answer[1] \in {"OrderStatusReport", "BothReport"}
          /\ request = "NewOrderSingle" => answer[1] = "ExecutionReport"
          /\ request = "TradingSessionStatusRequest" => answer[1] = "BusinessMessageReject"
      BY <2>1 DEF Answers
    <3>2. request # "Heartbeat"
      BY <2>1 DEF Answers
    <3> QED
      BY <2>1, <2>3, <3>1, <3>2, WorkflowFacts DEF Requests
  <2> QED
    BY <2>2, <2>3
<1>4. CASE answer = <<>>
  BY <1>4
<1> QED
  BY <1>1, <1>2, <1>3, <1>4

-----------------------------------------------------------------------------
(* As many whole messages as bytes of them.                                *)
LEMMA WholeMessages ==
    ASSUME NEW a \in Nat, NEW b \in Nat, Size * a <= Size * b
    PROVE  a <= b
<1>1. Size \in Nat /\ Size >= 1
  BY FixSessionAssumption
<1>2. SUFFICES ASSUME a >= b + 1 PROVE FALSE
  OBVIOUS
<1>3. Size * a >= Size * (b + 1)
  BY <1>1, <1>2, SMT
<1>4. Size * (b + 1) = Size * b + Size
  BY <1>1, SMT
<1> QED
  BY <1>1, <1>3, <1>4

LEMMA MoreBytes ==
    ASSUME NEW a \in Nat, NEW b \in Nat, a <= b
    PROVE  Size * a <= Size * b /\ Size * a \in Nat /\ Size * b \in Nat
<1>1. Size \in Nat
  BY FixSessionAssumption
<1>2. PICK d \in Nat : b = a + d
  <2>1. b - a \in Nat /\ b = a + (b - a)
    OBVIOUS
  <2> QED
    BY <2>1
<1>3. Size * b = Size * a + Size * d
  BY <1>1, <1>2, SMT
<1>4. Size * a \in Nat /\ Size * d \in Nat
  BY <1>1, SMT
<1> QED
  BY <1>3, <1>4

LEMMA DecodedInStream ==
    ASSUME TypeOK
    PROVE  /\ decoded \in 0 .. Len(stream)
           /\ Complete => decoded + 1 \in 1 .. Len(stream)
<1>1. /\ Len(stream) \in Nat /\ decoded \in Nat
      /\ Size * Len(stream) \in Nat
      /\ arrived \in 0 .. Size * Len(stream)
      /\ Size * decoded <= arrived
  <2>1. stream \in Seq(Messages)
    BY DEF TypeOK
  <2>2. Len(stream) \in Nat
    BY <2>1
  <2> QED
    BY <2>2, MoreBytes DEF TypeOK
<1>2. Size * decoded \in Nat /\ Size * (decoded + 1) \in Nat
  BY <1>1, MoreBytes
<1>3. Size * decoded <= Size * Len(stream)
  BY <1>1, <1>2
<1>4. decoded <= Len(stream)
  BY <1>1, <1>3, WholeMessages
<1>5. ASSUME Complete PROVE decoded + 1 <= Len(stream)
  <2>1. Size * (decoded + 1) <= Size * Len(stream)
    BY <1>1, <1>2, <1>5 DEF Complete
  <2> QED
    BY <1>1, <2>1, WholeMessages
<1> QED
  BY <1>1, <1>4, <1>5

LEMMA HandledInStream ==
    ASSUME TypeOK, HandledInOrder
    PROVE  Len(handled) \in 0 .. Len(stream)
<1>1. /\ Len(stream) \in Nat /\ Len(handled) \in Nat
      /\ Size * Len(stream) \in Nat /\ Size * Len(handled) \in Nat
      /\ arrived \in 0 .. Size * Len(stream)
  <2>1. stream \in Seq(Messages) /\ handled \in Seq(1 .. Len(stream))
    BY DEF TypeOK
  <2>2. Len(stream) \in Nat /\ Len(handled) \in Nat
    BY <2>1
  <2> QED
    BY <2>2, MoreBytes DEF TypeOK
<1>2. Size * Len(handled) <= Size * Len(stream)
  BY <1>1 DEF HandledInOrder
<1> QED
  BY <1>1, <1>2, WholeMessages

(* Sequences, put one after the other.                                     *)
LEMMA WiderSeq ==
    ASSUME NEW S, NEW T, S \subseteq T, NEW s \in Seq(S)
    PROVE  s \in Seq(T)
  OBVIOUS

LEMMA Concatenated ==
    ASSUME NEW T, NEW s \in Seq(T), NEW t \in Seq(T)
    PROVE  /\ s \o t \in Seq(T)
           /\ Len(s \o t) = Len(s) + Len(t)
           /\ \A j \in 1 .. Len(s) : (s \o t)[j] = s[j]
           /\ \A j \in 1 .. Len(t) : (s \o t)[Len(s) + j] = t[j]
  OBVIOUS

LEMMA NumberedFacts ==
    /\ \A m, n \in Nat : m <= n => Numbered(m) \subseteq Numbered(n)
    /\ \A n \in Nat : \A x \in Numbered(n) : x.type \in Requests /\ x.msg_seq_num \in 1 .. n
    /\ \A n \in Nat : \A type \in Requests : \A i \in 1 .. n :
          [type |-> type, msg_seq_num |-> i] \in Numbered(n)
<1>1. ASSUME NEW m \in Nat, NEW n \in Nat, m <= n
      PROVE  Numbered(m) \subseteq Numbered(n)
  <2>1. 1 .. m \subseteq 1 .. n
    BY <1>1
  <2> QED
    BY <2>1 DEF Numbered
<1> QED
  BY <1>1 DEF Numbered

(* What the client writes: the first k of the requests, numbered from the  *)
(* last number on.                                                         *)
Written(old, requests, k, new) ==
    /\ new \in Seq(Numbered(msg_seq_num + k))
    /\ Len(new) = Len(old) + k
    /\ \A j \in 1 .. Len(old) : new[j] = old[j]
    /\ \A j \in 1 .. k : /\ new[Len(old) + j].type = requests[j]
                         /\ new[Len(old) + j].msg_seq_num = msg_seq_num + j
    /\ \A j \in 1 .. Len(new) :
          j \in 1 .. Len(old) \/ \E i \in 1 .. k : j = Len(old) + i

LEMMA SentFacts ==
    ASSUME msg_seq_num \in Nat,
           NEW old \in Seq(Numbered(msg_seq_num)),
           NEW requests \in Seq(Requests), NEW k \in 0 .. Len(requests)
    PROVE  Written(old, requests, k, old \o Encoded(requests, k))
<1> DEFINE Wide == Numbered(msg_seq_num + k)
           more == Encoded(requests, k)
           new == old \o more
<1>1. k \in Nat /\ Len(old) \in Nat
  OBVIOUS
<1>2. \A j \in 1 .. k : [type |-> requests[j], msg_seq_num |-> msg_seq_num + j] \in Wide
  <2> TAKE j \in 1 .. k
  <2>1. requests[j] \in Requests
    BY <1>1
  <2>2. msg_seq_num + j \in 1 .. msg_seq_num + k
    BY <1>1
  <2>3. msg_seq_num + k \in Nat
    BY <1>1
  <2> QED
    BY <2>1, <2>2, <2>3, NumberedFacts
<1>3. more = [j \in 1 .. k |-> [type |-> requests[j], msg_seq_num |-> msg_seq_num + j]]
  BY DEF Encoded
<1>4. more \in Seq(Wide) /\ Len(more) = k
  <2> HIDE DEF Wide, more
  <2> QED
    BY <1>1, <1>2, <1>3
<1>5. old \in Seq(Wide)
  <2>1. Numbered(msg_seq_num) \subseteq Wide
    BY <1>1, NumberedFacts
  <2> HIDE DEF Wide
  <2> QED
    BY <2>1, WiderSeq
<1>6. /\ new \in Seq(Wide)
      /\ Len(new) = Len(old) + k
      /\ \A j \in 1 .. Len(old) : new[j] = old[j]
      /\ \A j \in 1 .. k : new[Len(old) + j] = more[j]
  <2>1. new = old \o more
    OBVIOUS
  <2> HIDE DEF Wide, more, new
  <2>2. /\ old \o more \in Seq(Wide)
        /\ Len(old \o more) = Len(old) + Len(more)
        /\ \A j \in 1 .. Len(old) : (old \o more)[j] = old[j]
        /\ \A j \in 1 .. Len(more) : (old \o more)[Len(old) + j] = more[j]
    <3>1. \A s, t \in Seq(Wide) :
             /\ s \o t \in Seq(Wide)
             /\ Len(s \o t) = Len(s) + Len(t)
             /\ \A j \in 1 .. Len(s) : (s \o t)[j] = s[j]
             /\ \A j \in 1 .. Len(t) : (s \o t)[Len(s) + j] = t[j]
      BY Concatenated
    <3> QED
      BY <1>4, <1>5, <3>1, Zenon
  <2>3. Len(more) = k
    BY <1>4
  <2> QED
    BY <2>1, <2>2, <2>3, Zenon
<1>7. \A j \in 1 .. k : /\ new[Len(old) + j].type = requests[j]
                        /\ new[Len(old) + j].msg_seq_num = msg_seq_num + j
  <2> TAKE j \in 1 .. k
  <2> DEFINE record == [type |-> requests[j], msg_seq_num |-> msg_seq_num + j]
  <2>1. more[j] = record
    <3> HIDE DEF more
    <3> QED
      BY <1>3
  <2>2. record.type = requests[j] /\ record.msg_seq_num = msg_seq_num + j
    OBVIOUS
  <2> HIDE DEF more, new, record
  <2> QED
    BY <1>6, <2>1, <2>2
<1>8. \A j \in 1 .. Len(new) : j \in 1 .. Len(old) \/ \E i \in 1 .. k : j = Len(old) + i
  <2> HIDE DEF new
  <2> TAKE j \in 1 .. Len(new)
  <2>1. CASE j > Len(old)
    <3>1. j - Len(old) \in 1 .. k /\ j = Len(old) + (j - Len(old))
      BY <1>1, <1>6, <2>1
    <3> QED
      BY <3>1
  <2> QED
    BY <1>1, <1>6, <2>1
<1> HIDE DEF new
<1> QED
  BY <1>6, <1>7, <1>8, Zenon DEF Written, new

(* What the server adds to the stream.                                     *)
Extended(old, more, new) ==
    /\ new \in Seq(Messages)
    /\ Len(new) = Len(old) + Len(more)
    /\ \A p \in 1 .. Len(old) : new[p] = old[p]
    /\ \A p \in 1 .. Len(new) :
          p \in 1 .. Len(old)
          \/ \E q \in 1 .. Len(more) : p = Len(old) + q /\ new[p] = more[q]
    /\ Len(new) \in Nat /\ Len(old) <= Len(new)
    /\ Size * Len(old) <= Size * Len(new)
    /\ Size * Len(old) \in Nat /\ Size * Len(new) \in Nat

LEMMA StreamFacts ==
    ASSUME NEW old \in Seq(Messages), NEW more \in Seq(Messages)
    PROVE  Extended(old, more, old \o more)
<1> DEFINE new == old \o more
<1>1. /\ new \in Seq(Messages)
      /\ Len(new) = Len(old) + Len(more)
      /\ Len(old) \in Nat /\ Len(more) \in Nat
      /\ \A p \in 1 .. Len(old) : new[p] = old[p]
      /\ \A q \in 1 .. Len(more) : new[Len(old) + q] = more[q]
  OBVIOUS
<1> HIDE DEF new
<1>2. ASSUME NEW p \in 1 .. Len(new), p \notin 1 .. Len(old)
      PROVE  \E q \in 1 .. Len(more) : p = Len(old) + q /\ new[p] = more[q]
  <2>1. p - Len(old) \in 1 .. Len(more) /\ p = Len(old) + (p - Len(old))
    BY <1>1, <1>2
  <2> QED
    BY <1>1, <2>1
<1>3. /\ Size * Len(old) <= Size * Len(new)
      /\ Size * Len(old) \in Nat /\ Size * Len(new) \in Nat
      /\ Len(new) \in Nat /\ Len(old) <= Len(new)
  <2>1. Len(new) \in Nat /\ Len(old) <= Len(new)
    BY <1>1
  <2> QED
    BY <1>1, <2>1, MoreBytes
<1>4. Extended(old, more, new)
  BY <1>1, <1>2, <1>3, Zenon DEF Extended
<1> QED
  BY <1>4 DEF new

-----------------------------------------------------------------------------
(* The numbers on the wire, when the client writes k requests.             *)
LEMMA NumbersGoOn ==
    ASSUME TypeOK, NoGapOnTheWire, msg_seq_num = Len(sent),
           NEW requests \in Seq(Requests), NEW k \in 0 .. Len(requests),
           Written(sent, requests, k, sent'),
           msg_seq_num' \in Nat, msg_seq_num + k <= msg_seq_num'
    PROVE  /\ sent' \in Seq(Numbered(msg_seq_num'))
           /\ Len(sent) \in Nat /\ Len(sent') = Len(sent) + k
           /\ NoGapOnTheWire'
<1>1. /\ msg_seq_num \in Nat /\ k \in Nat
      /\ sent \in Seq(Numbered(msg_seq_num))
      /\ Len(sent) \in Nat
  BY DEF TypeOK, Numbered
<1>2. /\ sent' \in Seq(Numbered(msg_seq_num + k))
      /\ Len(sent') = Len(sent) + k
      /\ \A j \in 1 .. Len(sent) : sent'[j] = sent[j]
      /\ \A j \in 1 .. k : sent'[Len(sent) + j].msg_seq_num = msg_seq_num + j
      /\ \A j \in 1 .. Len(sent') :
            j \in 1 .. Len(sent) \/ \E i \in 1 .. k : j = Len(sent) + i
  BY Zenon DEF Written
<1>3. sent' \in Seq(Numbered(msg_seq_num'))
  <2>1. Numbered(msg_seq_num + k) \subseteq Numbered(msg_seq_num')
    <3>1. msg_seq_num + k \in Nat
      BY <1>1
    <3> QED
      BY <3>1, NumberedFacts
  <2> QED
    BY <1>2, <2>1, WiderSeq
<1>4. ASSUME NEW j \in 1 .. Len(sent') PROVE sent'[j].msg_seq_num = j
  <2>1. CASE j \in 1 .. Len(sent)
    BY <1>2, <2>1 DEF NoGapOnTheWire
  <2>2. CASE j \notin 1 .. Len(sent)
    <3>1. PICK i \in 1 .. k : j = Len(sent) + i
      BY <1>2, <2>2
    <3>2. sent'[Len(sent) + i].msg_seq_num = msg_seq_num + i
      BY <1>2, Zenon
    <3> QED
      BY <3>1, <3>2
  <2> QED
    BY <2>1, <2>2
<1> QED
  BY <1>1, <1>2, <1>3, <1>4 DEF NoGapOnTheWire

(* What has been handled, when the message after those cut is handled: it  *)
(* is cut, or its callback has raised.                                     *)
LEMMA HandledNext ==
    ASSUME TypeOK, HandledInOrder, Complete, Len(handled) = decoded,
           handled' = Append(handled, decoded + 1),
           arrived' = arrived, stream' = stream,
           decoded' = decoded + 1 \/ (decoded' = decoded /\ connection' = "lost")
    PROVE  /\ decoded' \in Nat /\ Size * decoded' <= arrived'
           /\ handled' \in Seq(1 .. Len(stream'))
           /\ Len(handled') = decoded + 1
           /\ HandledInOrder'
<1>1. /\ decoded \in Nat /\ Len(stream) \in Nat
      /\ handled \in Seq(1 .. Len(stream)) /\ Len(handled) \in Nat
      /\ decoded + 1 \in 1 .. Len(stream)
  <2>1. stream \in Seq(Messages)
    BY DEF TypeOK
  <2>2. Len(stream) \in Nat
    BY <2>1
  <2> QED
    BY <2>2, DecodedInStream DEF TypeOK
<1>2. /\ handled' \in Seq(1 .. Len(stream))
      /\ Len(handled') = decoded + 1
      /\ \A j \in 1 .. Len(handled) : handled'[j] = handled[j]
      /\ handled'[decoded + 1] = decoded + 1
  BY <1>1
<1>3. decoded' \in Nat /\ Size * decoded' <= arrived'
  BY <1>1 DEF TypeOK, Complete
<1>4. \A k \in 1 .. Len(handled') : handled'[k] = k
  <2> TAKE k \in 1 .. Len(handled')
  <2>1. k = decoded + 1 \/ k \in 1 .. Len(handled)
    BY <1>1, <1>2
  <2> QED
    BY <1>2, <2>1 DEF HandledInOrder
<1>5. Size * Len(handled') <= arrived'
  BY <1>2 DEF Complete
<1>6. Len(handled') = decoded' \/ (Len(handled') = decoded' + 1 /\ connection' = "lost")
  BY <1>2
<1> QED
  BY <1>2, <1>3, <1>4, <1>5, <1>6 DEF HandledInOrder

(* What is sent when the next message is handled: some or all of the       *)
(* requests that it triggers.                                              *)
LEMMA StepsGoOn ==
    ASSUME TypeOK, ChainOfSteps, Complete, Len(handled) = decoded,
           NEW k \in 0 .. Len(Replies(stream[decoded + 1])),
           Written(sent, Replies(stream[decoded + 1]), k, sent'),
           stream' = stream, answered' = answered, Len(handled') = decoded + 1
    PROVE  ChainOfSteps'
<1> DEFINE message == stream[decoded + 1]
           replies == Replies(message)
<1>1. /\ Len(sent) \in Nat /\ Len(stream) \in Nat
      /\ decoded + 1 \in 1 .. Len(stream) /\ decoded \in Nat
      /\ answered \in 0 .. Len(sent)
  <2>1. sent \in Seq(Numbered(msg_seq_num)) /\ stream \in Seq(Messages)
    BY DEF TypeOK, Numbered
  <2>2. Len(sent) \in Nat /\ Len(stream) \in Nat
    BY <2>1
  <2> QED
    BY <2>2, DecodedInStream DEF TypeOK
<1>2. /\ Len(sent') = Len(sent) + k
      /\ \A j \in 1 .. Len(sent) : sent'[j] = sent[j]
      /\ \A j \in 1 .. k : sent'[Len(sent) + j].type = replies[j]
      /\ \A j \in 1 .. Len(sent') :
            j \in 1 .. Len(sent) \/ \E i \in 1 .. k : j = Len(sent) + i
  BY Zenon DEF Written
<1>3. /\ \A i, j \in 1 .. k : replies[i] = replies[j] => i = j
      /\ \A i \in 1 .. k : replies[i] \in Steps =>
            replies[i] \in DOMAIN Trigger /\ message \in Trigger[replies[i]]
  <2>1. Proper(replies, message)
    BY RepliesFacts
  <2>2. 1 .. k \subseteq 1 .. Len(replies)
    <3>1. Len(replies) \in Nat
      BY <2>1 DEF Proper
    <3> QED
      BY <3>1
  <2> QED
    BY <2>1, <2>2, Zenon DEF Proper
<1> HIDE DEF replies
<1>4. \A j \in 1 .. Len(sent') : j \notin 1 .. Len(sent) =>
         \E i \in 1 .. k : j = Len(sent) + i /\ sent'[j].type = replies[i]
  BY <1>2, Zenon
<1>5. ASSUME NEW i \in 1 .. Len(sent), NEW j \in 1 .. Len(sent'), j \notin 1 .. Len(sent),
             sent'[j].type \in Steps, sent'[i].type = sent'[j].type
      PROVE  FALSE
  <2>1. PICK q \in 1 .. k : sent'[j].type = replies[q]
    BY <1>4, <1>5
  <2>2. replies[q] \in DOMAIN Trigger /\ message \in Trigger[replies[q]]
    BY <1>3, <1>5, <2>1
  <2>3. sent[i].type = replies[q]
    BY <1>2, <1>5, <2>1
  <2>4. PICK p \in 1 .. decoded : stream[p] \in Trigger[replies[q]]
    <3>1. \E p \in 1 .. Len(handled) : stream[p] \in Trigger[sent[i].type]
      BY <2>2, <2>3, Zenon DEF ChainOfSteps
    <3> QED
      BY <2>3, <3>1
  <2>5. /\ message \in DOMAIN Answered /\ stream[p] \in DOMAIN Answered
        /\ Answered[message] = Answered[stream[p]]
    <3>1. \A type \in DOMAIN Trigger : \A m, n \in Trigger[type] :
             m \in DOMAIN Answered /\ n \in DOMAIN Answered /\ Answered[m] = Answered[n]
      BY WorkflowFacts
    <3> QED
      BY <2>2, <2>4, <3>1
  <2>6. p \in 1 .. Len(stream) /\ p # decoded + 1
    BY <1>1
  <2> QED
    BY <1>1, <2>5, <2>6, Zenon DEF ChainOfSteps
<1>6. ASSUME NEW i \in 1 .. Len(sent'), NEW j \in 1 .. Len(sent'),
             sent'[i].type \in Steps, sent'[j].type = sent'[i].type
      PROVE  i = j
  <2>1. CASE i \in 1 .. Len(sent) /\ j \in 1 .. Len(sent)
    BY <1>2, <1>6, <2>1 DEF ChainOfSteps
  <2>2. CASE i \notin 1 .. Len(sent) /\ j \notin 1 .. Len(sent)
    <3>1. PICK p \in 1 .. k : i = Len(sent) + p /\ sent'[i].type = replies[p]
      BY <1>4, <2>2
    <3>2. PICK q \in 1 .. k : j = Len(sent) + q /\ sent'[j].type = replies[q]
      BY <1>4, <2>2
    <3>3. p = q
      BY <1>3, <1>6, <3>1, <3>2
    <3> QED
      BY <3>1, <3>2, <3>3
  <2> QED
    BY <1>5, <1>6, <2>1, <2>2
<1>7. ASSUME NEW j \in 1 .. Len(sent'), sent'[j].type \in DOMAIN Trigger
      PROVE  \E p \in 1 .. decoded + 1 : stream[p] \in Trigger[sent'[j].type]
  <2>1. CASE j \in 1 .. Len(sent)
    <3>1. PICK p \in 1 .. decoded : stream[p] \in Trigger[sent[j].type]
      BY <1>2, <1>7, <2>1 DEF ChainOfSteps
    <3>2. p \in 1 .. decoded + 1
      BY <1>1
    <3> QED
      BY <1>2, <2>1, <3>1, <3>2
  <2>2. CASE j \notin 1 .. Len(sent)
    <3>1. PICK q \in 1 .. k : sent'[j].type = replies[q]
      BY <1>4, <2>2
    <3>2. sent'[j].type \in Steps
      BY <1>7, WorkflowFacts
    <3>3. message \in Trigger[sent'[j].type]
      BY <1>3, <3>1, <3>2
    <3>4. decoded + 1 \in 1 .. decoded + 1
      BY <1>1
    <3> QED
      BY <3>3, <3>4
  <2> QED
    BY <2>1, <2>2
<1>8. ASSUME NEW p \in 1 .. Len(stream), stream[p] \in DOMAIN Answered
      PROVE  \E j \in 1 .. answered : sent'[j].type = Answered[stream[p]]
  <2>1. PICK j \in 1 .. answered : sent[j].type = Answered[stream[p]]
    BY <1>8 DEF ChainOfSteps
  <2>2. j \in 1 .. Len(sent)
    BY <1>1
  <2> QED
    BY <1>2, <2>1, <2>2
<1> HIDE DEF message
<1>9. \A p, q \in 1 .. Len(stream) :
         /\ stream[p] \in DOMAIN Answered /\ stream[q] \in DOMAIN Answered
         /\ Answered[stream[q]] = Answered[stream[p]]
         => p = q
  BY DEF ChainOfSteps
<1> QED
  BY <1>6, <1>7, <1>8, <1>9, Zenon DEF ChainOfSteps

(* The stream grows: the answers to the next request.                      *)
LEMMA ChainAnswered ==
    ASSUME TypeOK, ChainOfSteps, HandledInOrder, answered < Len(sent),
           NEW answer \in Answers(sent[answered + 1].type),
           stream' = stream \o answer,
           sent' = sent, handled' = handled, answered' = answered + 1
    PROVE  ChainOfSteps'
<1> DEFINE request == sent[answered + 1].type
<1>1. /\ Len(sent) \in Nat /\ stream \in Seq(Messages) /\ Len(stream) \in Nat
      /\ Len(handled) \in 0 .. Len(stream) /\ answered \in 0 .. Len(sent)
      /\ answered + 1 \in 1 .. Len(sent)
      /\ request \in Requests
  <2>1. sent \in Seq(Numbered(msg_seq_num)) /\ stream \in Seq(Messages) /\ msg_seq_num \in Nat
    BY DEF TypeOK, Numbered
  <2>2. Len(sent) \in Nat /\ Len(stream) \in Nat
    BY <2>1
  <2>3. answered \in 0 .. Len(sent) /\ answered + 1 \in 1 .. Len(sent)
    BY <2>2 DEF TypeOK
  <2>4. sent[answered + 1] \in Numbered(msg_seq_num)
    BY <2>1, <2>3
  <2> QED
    BY <2>1, <2>2, <2>3, <2>4, NumberedFacts, HandledInStream
<1> HIDE DEF request
<1>2. answer \in Answers(request)
  BY DEF request
<1>3. answer \in Seq(Messages)
  BY <1>1, <1>2, AnswersAreMessages
<1>4. /\ Len(stream') = Len(stream) + Len(answer)
      /\ \A p \in 1 .. Len(stream) : stream'[p] = stream[p]
      /\ \A p \in 1 .. Len(stream') :
            p \in 1 .. Len(stream)
            \/ \E q \in 1 .. Len(answer) : p = Len(stream) + q /\ stream'[p] = answer[q]
  <2>1. Extended(stream, answer, stream \o answer)
    BY <1>1, <1>3, StreamFacts
  <2>2. Extended(stream, answer, stream')
    BY <2>1, Zenon
  <2> QED
    BY <2>2, Zenon DEF Extended
<1>5. ASSUME NEW q \in 1 .. Len(answer), answer[q] \in DOMAIN Answered
      PROVE  Len(answer) = 1 /\ Answered[answer[q]] = request
  BY <1>1, <1>2, <1>5, StepsAnsweredOnce
<1>6. ASSUME NEW p \in 1 .. Len(stream), NEW q \in 1 .. Len(stream'),
             q \notin 1 .. Len(stream),
             stream'[q] \in DOMAIN Answered, stream'[p] \in DOMAIN Answered,
             Answered[stream'[p]] = Answered[stream'[q]]
      PROVE  FALSE
  <2>1. Answered[stream'[q]] = request
    <3>1. PICK i \in 1 .. Len(answer) : stream'[q] = answer[i]
      BY <1>4, <1>6
    <3> QED
      BY <1>5, <1>6, <3>1
  <2>2. stream[p] = stream'[p]
    BY <1>4, <1>6
  <2>3. PICK k \in 1 .. answered : sent[k].type = Answered[stream[p]]
    BY <1>6, <2>2 DEF ChainOfSteps
  <2>4. sent[k].type = sent[answered + 1].type /\ k \in 1 .. Len(sent) /\ k # answered + 1
    BY <1>1, <1>6, <2>1, <2>2, <2>3 DEF request
  <2>5. sent[k].type \in Steps
    <3>1. \A m \in DOMAIN Answered : Answered[m] \in Steps
      BY WorkflowFacts
    <3> QED
      BY <1>6, <2>2, <2>3, <3>1
  <2> QED
    BY <1>1, <2>4, <2>5 DEF ChainOfSteps
<1>7. ASSUME NEW p \in 1 .. Len(stream'), NEW q \in 1 .. Len(stream'),
             stream'[p] \in DOMAIN Answered, stream'[q] \in DOMAIN Answered,
             Answered[stream'[q]] = Answered[stream'[p]]
      PROVE  p = q
  <2>1. CASE p \in 1 .. Len(stream) /\ q \in 1 .. Len(stream)
    BY <1>4, <1>7, <2>1 DEF ChainOfSteps
  <2>2. CASE p \notin 1 .. Len(stream) /\ q \notin 1 .. Len(stream)
    <3>1. PICK i \in 1 .. Len(answer) : p = Len(stream) + i /\ stream'[p] = answer[i]
      BY <1>4, <2>2
    <3>2. PICK j \in 1 .. Len(answer) : q = Len(stream) + j /\ stream'[q] = answer[j]
      BY <1>4, <2>2
    <3>3. Len(answer) = 1
      BY <1>5, <1>7, <3>1
    <3>4. i = 1 /\ j = 1
      BY <3>3
    <3> QED
      BY <3>1, <3>2, <3>4
  <2> QED
    BY <1>6, <1>7, <2>1, <2>2
<1>8. ASSUME NEW p \in 1 .. Len(stream'), stream'[p] \in DOMAIN Answered
      PROVE  \E k \in 1 .. answered + 1 : sent[k].type = Answered[stream'[p]]
  <2>1. CASE p \in 1 .. Len(stream)
    <3>1. PICK k \in 1 .. answered : sent[k].type = Answered[stream[p]]
      BY <1>4, <1>8, <2>1 DEF ChainOfSteps
    <3>2. k \in 1 .. answered + 1
      BY <1>1
    <3> QED
      BY <1>4, <2>1, <3>1, <3>2
  <2>2. CASE p \notin 1 .. Len(stream)
    <3>1. Answered[stream'[p]] = request
      <4>1. PICK i \in 1 .. Len(answer) : stream'[p] = answer[i]
        BY <1>4, <1>8, <2>2
      <4> QED
        BY <1>5, <1>8, <4>1
    <3>2. answered + 1 \in 1 .. answered + 1
      BY <1>1
    <3> QED
      BY <3>1, <3>2 DEF request
  <2> QED
    BY <2>1, <2>2
<1>9. ASSUME NEW k \in 1 .. Len(sent), sent[k].type \in DOMAIN Trigger
      PROVE  \E p \in 1 .. Len(handled) : stream'[p] \in Trigger[sent[k].type]
  <2>1. PICK p \in 1 .. Len(handled) : stream[p] \in Trigger[sent[k].type]
    BY <1>9 DEF ChainOfSteps
  <2>2. p \in 1 .. Len(stream)
    BY <1>1
  <2> QED
    BY <1>4, <2>1, <2>2
<1>10. \A j, k \in 1 .. Len(sent) :
          sent[j].type \in Steps /\ sent[k].type = sent[j].type => j = k
  BY DEF ChainOfSteps
<1> QED
  BY <1>7, <1>8, <1>9, <1>10, Zenon DEF ChainOfSteps

LEMMA Lengths ==
    ASSUME TypeOK
    PROVE  /\ Len(sent) \in Nat /\ Len(stream) \in Nat /\ Len(handled) \in Nat
           /\ decoded \in 0 .. Len(stream)
<1>1. /\ sent \in Seq(Numbered(msg_seq_num)) /\ stream \in Seq(Messages)
      /\ handled \in Seq(1 .. Len(stream))
  BY DEF TypeOK, Numbered
<1>2. Len(sent) \in Nat /\ Len(stream) \in Nat /\ Len(handled) \in Nat
  BY <1>1
<1> QED
  BY <1>2, DecodedInStream

-----------------------------------------------------------------------------
LEMMA Initially == Init => IInv
<1> SUFFICES ASSUME Init PROVE IInv
  OBVIOUS
<1>1. TypeOK
  <2>1. Size * Len(stream) \in Nat /\ Size * decoded = 0
    BY FixSessionAssumption DEF Init
  <2> QED
    BY <2>1, FixSessionAssumption DEF Init, TypeOK
<1>2. Unconnected /\ Running
  BY DEF Init, Unconnected, Running
<1>3. HandledInOrder
  <2>1. Size * Len(handled) = 0
    BY FixSessionAssumption DEF Init
  <2> QED
    BY <2>1 DEF Init, HandledInOrder
<1>4. NoGapOnTheWire /\ ChainOfSteps
  BY DEF Init, NoGapOnTheWire, ChainOfSteps
<1> QED
  BY <1>1, <1>2, <1>3, <1>4 DEF IInv

(* What Send writes, and what SendFails writes.                            *)
LEMMA SendWrites ==
    ASSUME TypeOK, NEW requests \in Seq(Requests), Send(requests)
    PROVE  /\ Len(requests) \in Nat
           /\ Written(sent, requests, Len(requests), sent')
           /\ msg_seq_num' = msg_seq_num + Len(requests)
<1>1. sent \in Seq(Numbered(msg_seq_num)) /\ msg_seq_num \in Nat
  BY DEF TypeOK, Numbered
<1>2. Len(requests) \in Nat /\ Len(requests) \in 0 .. Len(requests)
  OBVIOUS
<1>3. Written(sent, requests, Len(requests), sent \o Encoded(requests, Len(requests)))
  BY <1>1, <1>2, SentFacts, Zenon
<1> QED
  BY <1>2, <1>3, Zenon DEF Send

LEMMA SendFailsWrites ==
    ASSUME TypeOK, NEW requests \in Seq(Requests), SendFails(requests)
    PROVE  \E k \in 0 .. Len(requests) :
              /\ Written(sent, requests, k, sent')
              /\ msg_seq_num' \in {msg_seq_num + k, msg_seq_num + k + 1}
<1>1. sent \in Seq(Numbered(msg_seq_num)) /\ msg_seq_num \in Nat
  BY DEF TypeOK, Numbered
<1>2. PICK k \in 0 .. Len(requests) :
              /\ sent' = sent \o Encoded(requests, k)
              /\ msg_seq_num' \in {msg_seq_num + k, msg_seq_num + k + 1}
  BY Zenon DEF SendFails
<1>3. Written(sent, requests, k, sent \o Encoded(requests, k))
  BY <1>1, SentFacts, Zenon
<1> QED
  BY <1>2, <1>3, Zenon

LEMMA ConnectionMadeKeeps == ASSUME IInv, ConnectionMade PROVE IInv'
<1>1. /\ sent = <<>> /\ stream = <<>> /\ connection' = "up" /\ connection = "none"
      /\ TypeOK /\ Running /\ HandledInOrder /\ NoGapOnTheWire
  BY DEF IInv, Unconnected, ConnectionMade
<1>2. /\ answered' = answered /\ stream' = stream /\ arrived' = arrived /\ decoded' = decoded
      /\ pc' = pc /\ handled' = handled
  BY DEF ConnectionMade
<1>3. Unconnected'
  BY <1>1 DEF Unconnected
<1>4. /\ Len(handled) = decoded /\ msg_seq_num = Len(sent) /\ Len(sent) = 0
      /\ HandledInOrder'
  BY <1>1, <1>2 DEF Running, HandledInOrder
<1>5. CASE Required \subseteq LogonArguments
  <2>1. Send(<<"Logon">>)
    BY <1>5 DEF ConnectionMade
  <2>2. <<"Logon">> \in Seq(Requests) /\ Len(<<"Logon">>) = 1 /\ <<"Logon">>[1] = "Logon"
    BY DEF Requests
  <2>3. Written(sent, <<"Logon">>, 1, sent') /\ msg_seq_num' = msg_seq_num + 1
    <3>1. /\ Written(sent, <<"Logon">>, Len(<<"Logon">>), sent')
          /\ msg_seq_num' = msg_seq_num + Len(<<"Logon">>)
      BY <1>1, <2>1, <2>2, SendWrites, Zenon
    <3> QED
      BY <2>2, <3>1, Zenon
  <2>4. /\ msg_seq_num' = 1
        /\ sent' \in Seq(Numbered(msg_seq_num'))
        /\ Len(sent') = 1
        /\ NoGapOnTheWire'
    <3>1. 1 \in 0 .. Len(<<"Logon">>)
      BY <2>2
    <3>2. msg_seq_num' \in Nat /\ msg_seq_num + 1 <= msg_seq_num' /\ msg_seq_num' = 1
      BY <1>4, <2>3
    <3>3. /\ sent' \in Seq(Numbered(msg_seq_num'))
          /\ Len(sent') = Len(sent) + 1
          /\ NoGapOnTheWire'
      BY <1>1, <1>4, <2>2, <2>3, <3>1, <3>2, NumbersGoOn
    <3> QED
      BY <1>4, <3>2, <3>3
  <2>5. TypeOK'
    <3>1. answered = 0 /\ 0 \in 0 .. 1
      BY <1>1, <1>4 DEF TypeOK
    <3> QED
      BY <1>1, <1>2, <2>4, <3>1 DEF TypeOK, Numbered
  <2>6. Running'
    BY <1>1, <1>2, <1>4, <2>4 DEF Running
  <2>7. ChainOfSteps'
    <3>1. Len(sent') = 1 /\ Len(stream') = 0
      BY <1>1, <1>2, <2>4
    <3>2. sent'[1].type = "Logon"
      <4>1. \A j \in 1 .. 1 : sent'[Len(sent) + j].type = <<"Logon">>[j]
        BY <2>3, Zenon DEF Written
      <4> QED
        BY <1>4, <2>2, <4>1
    <3> QED
      BY <3>1, <3>2, WorkflowFacts DEF ChainOfSteps
  <2> QED
    BY <1>3, <1>4, <2>4, <2>5, <2>6, <2>7 DEF IInv
<1>6. CASE ~(Required \subseteq LogonArguments)
  <2>1. sent' = sent /\ msg_seq_num' = msg_seq_num
    BY <1>6 DEF ConnectionMade
  <2>2. TypeOK'
    BY <1>1, <1>2, <2>1 DEF TypeOK
  <2>3. Running' /\ NoGapOnTheWire'
    BY <1>1, <1>2, <2>1 DEF Running, NoGapOnTheWire
  <2>4. ChainOfSteps'
    BY <1>2, <2>1 DEF IInv, ChainOfSteps
  <2> QED
    BY <1>3, <1>4, <2>2, <2>3, <2>4 DEF IInv
<1> QED
  BY <1>5, <1>6

LEMMA DataReceivedKeeps == ASSUME IInv, DataReceived PROVE IInv'
<1>1. /\ connection = "up" /\ connection' = connection /\ pc' = "loop"
      /\ sent' = sent /\ msg_seq_num' = msg_seq_num
      /\ answered' = answered /\ stream' = stream /\ decoded' = decoded
      /\ handled' = handled
  BY DEF DataReceived
<1>2. /\ Size * Len(stream) \in Nat /\ Size * decoded \in Nat
      /\ Size * Len(handled) \in Nat
  <2>1. Len(stream) \in Nat /\ decoded \in Nat /\ Len(handled) \in Nat
    BY Lengths DEF IInv
  <2> QED
    BY <2>1, MoreBytes
<1>3. arrived' \in 0 .. Size * Len(stream) /\ arrived \in Nat /\ arrived <= arrived'
  BY <1>2 DEF IInv, TypeOK, DataReceived
<1>4. TypeOK'
  BY <1>1, <1>2, <1>3 DEF IInv, TypeOK
<1>5. HandledInOrder'
  BY <1>1, <1>2, <1>3 DEF IInv, HandledInOrder
<1>6. Unconnected' /\ Running' /\ NoGapOnTheWire'
  BY <1>1 DEF IInv, Unconnected, Running, NoGapOnTheWire
<1>7. ChainOfSteps'
  BY <1>1 DEF IInv, ChainOfSteps
<1> QED
  BY <1>4, <1>5, <1>6, <1>7 DEF IInv

(* A message is handled, to the end or until its callback raises.          *)
LEMMA HandlingKeeps ==
    ASSUME IInv, pc = "loop", Complete,
           handled' = Append(handled, decoded + 1),
           NEW k \in 0 .. Len(Replies(stream[decoded + 1])),
           Written(sent, Replies(stream[decoded + 1]), k, sent'),
           msg_seq_num' \in {msg_seq_num + k, msg_seq_num + k + 1},
           \/ /\ connection' = connection /\ pc' = pc /\ decoded' = decoded + 1
              /\ msg_seq_num' = msg_seq_num + k
           \/ connection' = "lost" /\ pc' = "idle" /\ decoded' = decoded,
           UNCHANGED <<answered, stream, arrived>>
    PROVE  IInv'
<1> DEFINE replies == Replies(stream[decoded + 1])
<1>1. /\ TypeOK /\ HandledInOrder /\ NoGapOnTheWire /\ ChainOfSteps
      /\ connection = "up" /\ Len(handled) = decoded /\ msg_seq_num = Len(sent)
  BY DEF IInv, Running
<1>2. replies \in Seq(Requests) /\ Len(replies) \in Nat
  <2>1. Proper(replies, stream[decoded + 1])
    BY RepliesFacts
  <2> QED
    BY <2>1 DEF Proper
<1> HIDE DEF replies
<1>3. msg_seq_num' \in Nat /\ msg_seq_num + k <= msg_seq_num' /\ k \in Nat
  BY <1>1, <1>2 DEF TypeOK, replies
<1>4. /\ sent' \in Seq(Numbered(msg_seq_num'))
      /\ Len(sent) \in Nat /\ Len(sent') = Len(sent) + k
      /\ NoGapOnTheWire'
  <2>1. k \in 0 .. Len(replies) /\ Written(sent, replies, k, sent')
    BY DEF replies
  <2> QED
    BY <1>1, <1>2, <1>3, <2>1, NumbersGoOn
<1>5. /\ decoded' \in Nat /\ Size * decoded' <= arrived'
      /\ handled' \in Seq(1 .. Len(stream'))
      /\ Len(handled') = decoded + 1
      /\ HandledInOrder'
  <2>1. decoded' = decoded + 1 \/ (decoded' = decoded /\ connection' = "lost")
    OBVIOUS
  <2>2. arrived' = arrived /\ stream' = stream
    OBVIOUS
  <2> QED
    BY <1>1, <2>1, <2>2, HandledNext
<1>6. TypeOK'
  <2>1. answered' \in 0 .. Len(sent')
    BY <1>1, <1>3, <1>4 DEF TypeOK
  <2> QED
    BY <1>1, <1>3, <1>4, <1>5, <2>1 DEF TypeOK, Numbered
<1>7. Running'
  BY <1>1, <1>4, <1>5 DEF Running
<1>8. Unconnected'
  BY <1>1 DEF Unconnected
<1>9. ChainOfSteps'
  <2>1. stream' = stream /\ answered' = answered
    OBVIOUS
  <2> QED
    BY <1>1, <1>5, <2>1, StepsGoOn
<1> QED
  BY <1>4, <1>5, <1>6, <1>7, <1>8, <1>9 DEF IInv

LEMMA DispatchKeeps == ASSUME IInv, Dispatch PROVE IInv'
<1> DEFINE replies == Replies(stream[decoded + 1])
<1>1. replies \in Seq(Requests) /\ TypeOK
  <2>1. Proper(replies, stream[decoded + 1])
    BY RepliesFacts
  <2> QED
    BY <2>1 DEF Proper, IInv
<1>2. Send(replies)
  BY DEF Dispatch
<1> HIDE DEF replies
<1>3. /\ Len(replies) \in Nat
      /\ Written(sent, replies, Len(replies), sent')
      /\ msg_seq_num' = msg_seq_num + Len(replies)
  BY <1>1, <1>2, SendWrites
<1>4. Len(replies) \in 0 .. Len(replies)
  BY <1>3
<1>5. /\ pc = "loop" /\ Complete /\ handled' = Append(handled, decoded + 1)
      /\ connection' = connection /\ pc' = pc /\ decoded' = decoded + 1
      /\ UNCHANGED <<answered, stream, arrived>>
  BY DEF Dispatch
<1> QED
  BY <1>3, <1>4, <1>5, HandlingKeeps DEF replies

LEMMA DispatchFailsKeeps == ASSUME IInv, DispatchFails PROVE IInv'
<1> DEFINE replies == Replies(stream[decoded + 1])
<1>1. replies \in Seq(Requests) /\ TypeOK
  <2>1. Proper(replies, stream[decoded + 1])
    BY RepliesFacts
  <2> QED
    BY <2>1 DEF Proper, IInv
<1>2. SendFails(replies)
  BY DEF DispatchFails
<1> HIDE DEF replies
<1>3. PICK k \in 0 .. Len(replies) :
              /\ Written(sent, replies, k, sent')
              /\ msg_seq_num' \in {msg_seq_num + k, msg_seq_num + k + 1}
  BY <1>1, <1>2, SendFailsWrites
<1>4. /\ pc = "loop" /\ Complete /\ handled' = Append(handled, decoded + 1)
      /\ connection' = "lost" /\ pc' = "idle" /\ decoded' = decoded
      /\ UNCHANGED <<answered, stream, arrived>>
  BY DEF DispatchFails
<1> QED
  BY <1>3, <1>4, HandlingKeeps DEF replies

(* The stream grows.                                                       *)
LEMMA StreamLonger ==
    ASSUME IInv, connection = "up", NEW more \in Seq(Messages),
           Extended(stream, more, stream'),
           answered' \in 0 .. Len(sent),
           ChainOfSteps',
           UNCHANGED <<connection, msg_seq_num, sent, arrived, decoded, pc, handled>>
    PROVE  IInv'
<1>1. stream \in Seq(Messages) /\ TypeOK
  BY DEF IInv, TypeOK
<1>2. /\ stream' \in Seq(Messages)
      /\ Len(stream) \in Nat /\ Len(stream') \in Nat /\ Len(stream) <= Len(stream')
      /\ Size * Len(stream) <= Size * Len(stream')
      /\ Size * Len(stream) \in Nat /\ Size * Len(stream') \in Nat
  <2>1. Len(stream) \in Nat
    BY <1>1
  <2> QED
    BY <2>1, Zenon DEF Extended
<1>3. handled' \in Seq(1 .. Len(stream'))
  <2>1. 1 .. Len(stream) \subseteq 1 .. Len(stream')
    BY <1>2
  <2>2. handled' \in Seq(1 .. Len(stream))
    BY DEF IInv, TypeOK
  <2> QED
    BY <2>1, <2>2, WiderSeq
<1>4. TypeOK'
  <2>1. arrived' \in 0 .. Size * Len(stream')
    BY <1>1, <1>2 DEF TypeOK
  <2> QED
    BY <1>1, <1>2, <1>3, <2>1 DEF TypeOK
<1>5. Unconnected' /\ Running' /\ HandledInOrder' /\ NoGapOnTheWire'
  BY DEF IInv, Unconnected, Running, HandledInOrder, NoGapOnTheWire
<1> QED
  BY <1>4, <1>5 DEF IInv

LEMMA StreamGrows ==
    ASSUME IInv, connection = "up", NEW more \in Seq(Messages),
           stream' = stream \o more,
           answered' \in 0 .. Len(sent),
           ChainOfSteps',
           UNCHANGED <<connection, msg_seq_num, sent, arrived, decoded, pc, handled>>
    PROVE  IInv'
<1>1. stream \in Seq(Messages)
  BY DEF IInv, TypeOK
<1>2. Extended(stream, more, stream')
  <2>1. Extended(stream, more, stream \o more)
    BY <1>1, StreamFacts
  <2> QED
    BY <2>1, Zenon
<1> QED
  BY <1>2, StreamLonger, Zenon

LEMMA ServerAnswersKeeps == ASSUME IInv, ServerAnswers PROVE IInv'
<1> DEFINE request == sent[answered + 1].type
<1>1. /\ connection = "up" /\ answered < Len(sent) /\ answered' = answered + 1
      /\ UNCHANGED <<connection, msg_seq_num, sent, arrived, decoded, pc, handled>>
  BY DEF ServerAnswers
<1>2. PICK answer \in Answers(request) : stream' = stream \o answer
  BY Zenon DEF ServerAnswers
<1>3. request \in Requests /\ answered' \in 0 .. Len(sent)
  <2>1. /\ sent \in Seq(Numbered(msg_seq_num)) /\ msg_seq_num \in Nat
        /\ answered \in 0 .. Len(sent)
    BY DEF IInv, TypeOK, Numbered
  <2>2. answered + 1 \in 1 .. Len(sent)
    BY <1>1, <2>1
  <2>3. sent[answered + 1] \in Numbered(msg_seq_num)
    BY <2>1, <2>2
  <2> QED
    BY <1>1, <2>1, <2>2, <2>3, NumberedFacts
<1>4. ChainOfSteps'
  BY <1>1, <1>2, ChainAnswered DEF IInv
<1> HIDE DEF request
<1>5. answer \in Seq(Messages)
  BY <1>2, <1>3, AnswersAreMessages
<1> QED
  BY <1>1, <1>2, <1>3, <1>4, <1>5, StreamGrows, Zenon

LEMMA ServerTestsKeeps == ASSUME IInv, ServerTests PROVE IInv'
<1>1. /\ connection = "up" /\ stream' = Append(stream, "TestRequest") /\ answered' = answered
      /\ UNCHANGED <<connection, msg_seq_num, sent, arrived, decoded, pc, handled>>
  BY DEF ServerTests
<1>2. stream \in Seq(Messages) /\ Len(stream) \in Nat /\ Len(handled) \in 0 .. Len(stream)
  BY Lengths, HandledInStream DEF IInv, TypeOK
<1>3. "TestRequest" \in Messages
  <2>1. "TestRequest" \in {"TestRequest"}
    OBVIOUS
  <2> QED
    BY <2>1, Zenon DEF Messages
<1>4. stream' = stream \o <<"TestRequest">> /\ <<"TestRequest">> \in Seq(Messages)
  BY <1>1, <1>2, <1>3
<1>5. answered' \in 0 .. Len(sent)
  BY <1>1 DEF IInv, TypeOK
<1>6. ChainOfSteps'
  <2>1. /\ Len(stream') = Len(stream) + 1
        /\ \A p \in 1 .. Len(stream) : stream'[p] = stream[p]
        /\ stream'[Len(stream) + 1] = "TestRequest"
    BY <1>1, <1>2
  <2>2. \A p \in 1 .. Len(stream') : p \in 1 .. Len(stream) \/ p = Len(stream) + 1
    BY <1>2, <2>1
  <2>3. "TestRequest" \notin DOMAIN Answered
    BY WorkflowFacts
  <2>4. /\ \A p \in 1 .. Len(stream') : stream'[p] \in DOMAIN Answered =>
              p \in 1 .. Len(stream) /\ stream'[p] = stream[p]
        /\ \A p \in 1 .. Len(handled) : stream'[p] = stream[p]
    BY <1>2, <2>1, <2>2, <2>3
  <2>5. ChainOfSteps
    BY DEF IInv
  <2>6. \A p, q \in 1 .. Len(stream') :
           /\ stream'[p] \in DOMAIN Answered /\ stream'[q] \in DOMAIN Answered
           /\ Answered[stream'[q]] = Answered[stream'[p]]
           => p = q
    BY <2>4, <2>5 DEF ChainOfSteps
  <2>7. \A p \in 1 .. Len(stream') : stream'[p] \in DOMAIN Answered =>
           \E k \in 1 .. answered : sent[k].type = Answered[stream'[p]]
    BY <2>4, <2>5 DEF ChainOfSteps
  <2>8. \A k \in 1 .. Len(sent) : sent[k].type \in DOMAIN Trigger =>
           \E p \in 1 .. Len(handled) : stream'[p] \in Trigger[sent[k].type]
    BY <2>4, <2>5 DEF ChainOfSteps
  <2>9. \A j, k \in 1 .. Len(sent) :
           sent[j].type \in Steps /\ sent[k].type = sent[j].type => j = k
    BY <2>5 DEF ChainOfSteps
  <2> QED
    BY <1>1, <2>6, <2>7, <2>8, <2>9, Zenon DEF ChainOfSteps
<1> QED
  BY <1>1, <1>4, <1>5, <1>6, StreamGrows, Zenon

(* Nothing moves but the connection or the control.                        *)
LEMMA OthersKeep ==
    ASSUME IInv, \/ UNCHANGED connection
                 \/ connection' = "lost",
           pc' \in {"idle", "loop"}, pc' = "loop" => connection' = "up",
           UNCHANGED <<msg_seq_num, sent, answered, stream, arrived, decoded, handled>>
    PROVE  IInv'
<1>1. TypeOK'
  BY DEF IInv, TypeOK
<1>2. Unconnected' /\ Running' /\ HandledInOrder' /\ NoGapOnTheWire'
  BY DEF IInv, Unconnected, Running, HandledInOrder, NoGapOnTheWire
<1>3. ChainOfSteps'
  BY DEF IInv, ChainOfSteps
<1> QED
  BY <1>1, <1>2, <1>3 DEF IInv

LEMMA StepKeeps == IInv /\ [Next]_vars => IInv'
<1> SUFFICES ASSUME IInv, [Next]_vars PROVE IInv'
  OBVIOUS
<1>1. CASE Return
  BY <1>1, OthersKeep DEF Return
<1>2. CASE ConnectionLost
  BY <1>2, OthersKeep DEF ConnectionLost
<1>3. CASE UNCHANGED vars
  BY <1>3, OthersKeep DEF vars, IInv, TypeOK, Running
<1> QED
  BY <1>1, <1>2, <1>3, ConnectionMadeKeeps, DataReceivedKeeps, DispatchKeeps,
     DispatchFailsKeeps, ServerAnswersKeeps, ServerTestsKeeps DEF Next

LEMMA Invariance == Spec => []IInv
  BY Initially, StepKeeps, PTL DEF Spec

-----------------------------------------------------------------------------
(* The variables keep their types: no stage of the session (written,       *)
(* answered, sent, arrived, cut) is ever ahead of the one before it.       *)
THEOREM SessionTypeCorrectness == Spec => []TypeOK
<1>1. IInv => TypeOK
  BY DEF IInv
<1> QED
  BY <1>1, Invariance, PTL

(* data_received: however the stream is cut into pieces, messages are      *)
(* handled whole, in order and once; the one whose callback raised is the  *)
(* last.                                                                   *)
THEOREM HandledWholeAndInOrder == Spec => []HandledInOrder
<1>1. IInv => HandledInOrder
  BY DEF IInv
<1> QED
  BY <1>1, Invariance, PTL

(* Encoder.encode and data_received: the numbers on the wire have no gap,  *)
(* because whoever fails after a number was taken sends nothing more.      *)
THEOREM NumbersOnTheWire == Spec => []NoGapOnTheWire
<1>1. IInv => NoGapOnTheWire
  BY DEF IInv
<1> QED
  BY <1>1, Invariance, PTL

(* MyMixin._callback: no step of the workflow is repeated, because each    *)
(* follows from one message, and that message from one step.               *)
THEOREM StepsOnce == Spec => []StepsTakenOnce
<1>1. ASSUME IInv PROVE StepsTakenOnce
  <2> SUFFICES ASSUME NEW type \in Steps PROVE CountSent(type) <= 1
    BY DEF StepsTakenOnce, Steps
  <2> DEFINE taken == {k \in 1 .. Len(sent) : sent[k].type = type}
  <2>1. ChainOfSteps
    BY <1>1 DEF IInv
  <2>2. \A j, k \in taken : j = k
    BY <2>1 DEF ChainOfSteps
  <2>3. taken = {} \/ \E k : taken = {k}
    <3> HIDE DEF taken
    <3> QED
      BY <2>2
  <2>4. Cardinality(taken) \in {0, 1}
    <3> HIDE DEF taken
    <3> QED
      BY <2>3, FS_EmptySet, FS_Singleton
  <2>5. CountSent(type) = Cardinality(taken)
    BY DEF CountSent
  <2> HIDE DEF taken
  <2> QED
    BY <2>4, <2>5
<1> QED
  BY <1>1, Invariance, PTL
=============================================================================
