----------------------------- MODULE FixSession -----------------------------
(***************************************************************************)
(* The FIX session of samples/fix_session.py: Client (framing of the byte  *)
(* stream, sending), MyMixin (a workflow of requests, each sent when the   *)
(* answer to another arrives) and the message sequence numbers of the      *)
(* encoder (src/roq/python/codec/fix/encoder.hpp), with a FIX server at    *)
(* the other end of the socket.                                            *)
(*                                                                         *)
(* A message takes Size bytes; which bytes does not matter, so a byte      *)
(* stream is its messages and how many bytes of them have got where.       *)
(***************************************************************************)
EXTENDS Naturals, Sequences, FiniteSets

CONSTANTS
    Required,         \* the arguments without which Logon cannot be created
    Size,             \* bytes of a message
    MaxReports,       \* bound on the reports answering a mass status request
    MaxTestRequests   \* bound on the server's test requests

ASSUME FixSessionAssumption ==
    /\ Size \in Nat \ {0} /\ MaxReports \in Nat \ {0}
    /\ MaxTestRequests \in Nat

VARIABLES
    connection,   \* "none", "up", or "lost"
    msg_seq_num,  \* Encoder: number of the last message encoded
    sent,         \* what the client has written: [type, msg_seq_num]
    answered,     \* how many of them the server has answered
    stream,       \* the messages that the server has sent
    arrived,      \* how many bytes of the stream have reached the client
    decoded,      \* how many messages have been cut from decode_buffer
    pc,           \* "idle", or "loop" inside data_received
    handled       \* history: positions in the stream given to _callback

vars == <<connection, msg_seq_num, sent, answered, stream, arrived, decoded, pc, handled>>

Init ==
    /\ connection = "none"
    /\ msg_seq_num = 0
    /\ sent = <<>>
    /\ answered = 0
    /\ stream = <<>>
    /\ arrived = 0
    /\ decoded = 0
    /\ pc = "idle"
    /\ handled = <<>>

-----------------------------------------------------------------------------
(* Client._send for each request in turn: encoded with the next number,    *)
(* then written.                                                           *)
Encoded(requests, k) == [j \in 1 .. k |-> [type |-> requests[j], msg_seq_num |-> msg_seq_num + j]]

Send(requests) ==
    /\ sent' = sent \o Encoded(requests, Len(requests))
    /\ msg_seq_num' = msg_seq_num + Len(requests)

(* The callback raises after k of its requests have been written; if it is *)
(* in Encoder.encode, the next number has been taken already.              *)
SendFails(requests) ==
    \E k \in 0 .. Len(requests) :
        /\ sent' = sent \o Encoded(requests, k)
        /\ \/ msg_seq_num' = msg_seq_num + k
           \/ k < Len(requests) /\ msg_seq_num' = msg_seq_num + k + 1

(* MyMixin.connection_made: TypeError if the binding misses an argument;   *)
(* asyncio logs what connection_made raises and keeps the connection.      *)
LogonArguments == {"heart_bt_int", "username", "password", "encrypt_method"}

ConnectionMade ==
    /\ connection = "none"
    /\ connection' = "up"
    /\ IF Required \subseteq LogonArguments
       THEN Send(<<"Logon">>)
       ELSE UNCHANGED <<sent, msg_seq_num>>
    /\ UNCHANGED <<answered, stream, arrived, decoded, pc, handled>>

(* Execution reports, by the ids they carry: the order status request's,   *)
(* the mass status request's, both or neither.                             *)
HasOrdStatusReqId == {"OrderStatusReport", "BothReport"}

HasMassStatusReqId == {"MassStatusReport", "BothReport"}

Reports == {"ExecutionReport"} \cup HasOrdStatusReqId \cup HasMassStatusReqId

(* Mutant: any report starts the mass status request.                      *)
ReportRepliesToAny(message) ==
    <<"OrderMassStatusRequest">>
    \o IF message \in HasMassStatusReqId THEN <<"NewOrderSingle">>
       ELSE <<"TradingSessionStatusRequest">>

ReportReplies(message) ==
    (IF message \in HasOrdStatusReqId THEN <<"OrderMassStatusRequest">> ELSE <<>>)
    \o (IF message \in HasMassStatusReqId THEN <<"NewOrderSingle">>
        ELSE <<"TradingSessionStatusRequest">>)

(* The workflow: each answer is followed by the next request.              *)
WorkflowReplies(message) ==
    CASE message = "Logon" -> <<"SecurityListRequest">>
      [] message = "SecurityList" -> <<"SecurityDefinitionRequest">>
      [] message = "SecurityDefinition" -> <<"SecurityStatusRequest", "MarketDataRequest">>
      [] message = "SecurityStatus" -> <<"OrderStatusRequest">>
      [] message \in Reports -> ReportReplies(message)
      [] OTHER -> <<>>

(* What MyMixin._callback sends, one request after the other.              *)
(* Mutant: no heartbeat in answer to a test request.                       *)
RepliesWithoutHeartbeat(message) == WorkflowReplies(message)

Replies(message) ==
    IF message = "TestRequest" THEN <<"Heartbeat">> ELSE WorkflowReplies(message)

-----------------------------------------------------------------------------
(* Any number of bytes arrive: Client.data_received is called.             *)
DataReceived ==
    /\ connection = "up" /\ pc = "idle"
    /\ arrived' \in arrived + 1 .. Size * Len(stream)
    /\ pc' = "loop"
    /\ UNCHANGED <<connection, msg_seq_num, sent, answered, stream, decoded, handled>>

(* A whole message is in decode_buffer: it is dispatched to _callback, and *)
(* cut from the buffer when that returns.                                  *)
(* Mutant: any bytes are enough to decode the message.                     *)
CompleteTooEarly == Size * decoded < arrived

Complete == Size * (decoded + 1) <= arrived

(* Mutants: the whole of decode_buffer is dropped; no loop.                *)
DispatchDropsBuffer ==
    /\ pc = "loop" /\ Complete
    /\ handled' = Append(handled, decoded + 1)
    /\ Send(Replies(stream[decoded + 1]))
    /\ decoded' = arrived \div Size
    /\ UNCHANGED <<connection, answered, stream, arrived, pc>>

DispatchOnce ==
    /\ pc = "loop" /\ Complete
    /\ handled' = Append(handled, decoded + 1)
    /\ Send(Replies(stream[decoded + 1]))
    /\ decoded' = decoded + 1
    /\ pc' = "idle"
    /\ UNCHANGED <<connection, answered, stream, arrived>>

Dispatch ==
    /\ pc = "loop" /\ Complete
    /\ handled' = Append(handled, decoded + 1)
    /\ Send(Replies(stream[decoded + 1]))
    /\ decoded' = decoded + 1
    /\ UNCHANGED <<connection, answered, stream, arrived, pc>>

(* The callback raises, and so does data_received, with the message still  *)
(* in decode_buffer: asyncio closes the transport, nothing is received or  *)
(* written any more.                                                       *)
(* Mutant: the exception is caught, the message cut and the loop goes on.  *)
DispatchFailsCaught ==
    /\ pc = "loop" /\ Complete
    /\ handled' = Append(handled, decoded + 1)
    /\ SendFails(Replies(stream[decoded + 1]))
    /\ decoded' = decoded + 1
    /\ UNCHANGED <<connection, answered, stream, arrived, pc>>

DispatchFails ==
    /\ pc = "loop" /\ Complete
    /\ handled' = Append(handled, decoded + 1)
    /\ SendFails(Replies(stream[decoded + 1]))
    /\ connection' = "lost"
    /\ pc' = "idle"
    /\ UNCHANGED <<answered, stream, arrived, decoded>>

(* Need more data, or there is no more.                                    *)
Return ==
    /\ pc = "loop" /\ ~Complete
    /\ pc' = "idle"
    /\ UNCHANGED <<connection, msg_seq_num, sent, answered, stream, arrived, decoded, handled>>

(* Client.connection_lost does nothing; nothing comes or goes any more.    *)
ConnectionLost ==
    /\ connection = "up" /\ pc = "idle"
    /\ connection' = "lost"
    /\ UNCHANGED <<msg_seq_num, sent, answered, stream, arrived, decoded, pc, handled>>

-----------------------------------------------------------------------------
(* The server: the answers to a request, a sequence of messages each.  The *)
(* order it is asked about may be told with both ids; the reports to a     *)
(* mass status request carry that request's id only, or the workflow would *)
(* never come to an end.                                                   *)
Answers(request) ==
    CASE request = "Logon" -> {<<"Logon">>, <<"Logout">>}
      [] request = "SecurityListRequest" -> {<<"SecurityList">>}
      [] request = "SecurityDefinitionRequest" -> {<<"SecurityDefinition">>}
      [] request = "SecurityStatusRequest" -> {<<"SecurityStatus">>}
      [] request = "MarketDataRequest" -> {<<"MarketDataSnapshotFullRefresh">>}
      [] request = "OrderStatusRequest" -> {<<"OrderStatusReport">>, <<"BothReport">>}
      [] request = "OrderMassStatusRequest" ->
             {[k \in 1 .. n |-> "MassStatusReport"] : n \in 1 .. MaxReports}
      [] request = "NewOrderSingle" -> {<<"ExecutionReport">>}
      [] request = "TradingSessionStatusRequest" -> {<<"BusinessMessageReject">>}
      [] OTHER -> {<<>>}

ServerAnswers ==
    /\ connection = "up" /\ answered < Len(sent)
    /\ answered' = answered + 1
    /\ \E answer \in Answers(sent[answered + 1].type) : stream' = stream \o answer
    /\ UNCHANGED <<connection, msg_seq_num, sent, arrived, decoded, pc, handled>>

Is(message) == {k \in 1 .. Len(stream) : stream[k] = message}

LoggedOn == Is("Logon") # {}

ServerTests ==
    /\ connection = "up" /\ LoggedOn
    /\ Cardinality(Is("TestRequest")) < MaxTestRequests
    /\ stream' = Append(stream, "TestRequest")
    /\ UNCHANGED <<connection, msg_seq_num, sent, answered, arrived, decoded, pc, handled>>

Next ==
    \/ ConnectionMade
    \/ DataReceived
    \/ Dispatch
    \/ DispatchFails
    \/ Return
    \/ ConnectionLost
    \/ ServerAnswers
    \/ ServerTests

(* The event loop runs what is ready, the server answers and the socket    *)
(* delivers; nothing makes a callback raise, the connection break or the   *)
(* server send test requests.                                              *)
Fairness ==
    /\ WF_vars(ConnectionMade)
    /\ WF_vars(DataReceived)
    /\ WF_vars(Dispatch \/ DispatchFails)
    /\ WF_vars(Return)
    /\ WF_vars(ServerAnswers)

Spec == Init /\ [][Next]_vars /\ Fairness

-----------------------------------------------------------------------------
Requests ==
    {"Logon", "SecurityListRequest", "Heartbeat", "SecurityDefinitionRequest",
     "SecurityStatusRequest", "MarketDataRequest", "OrderStatusRequest",
     "OrderMassStatusRequest", "TradingSessionStatusRequest", "NewOrderSingle"}

Messages ==
    {"TestRequest"} \cup
        UNION {{answer[k] : k \in 1 .. Len(answer)} : answer \in UNION {Answers(r) : r \in Requests}}

(* Every variable has its type, and no stage is ahead of the one before.   *)
TypeOK ==
    /\ connection \in {"none", "up", "lost"}
    /\ msg_seq_num \in Nat
    /\ sent \in Seq([type : Requests, msg_seq_num : 1 .. msg_seq_num])
    /\ stream \in Seq(Messages)
    /\ answered \in 0 .. Len(sent)
    /\ arrived \in 0 .. Size * Len(stream)
    /\ decoded \in Nat /\ Size * decoded <= arrived
    /\ pc \in {"idle", "loop"}
    /\ handled \in Seq(1 .. Len(stream))

(* However the stream is cut into pieces, messages are handled whole, in   *)
(* order, none skipped and none twice: a message whose callback raised is  *)
(* left in decode_buffer, but it is the last.                              *)
HandledInOrder ==
    /\ \A k \in 1 .. Len(handled) : handled[k] = k
    /\ Size * Len(handled) <= arrived
    /\ \/ Len(handled) = decoded
       \/ Len(handled) = decoded + 1 /\ connection = "lost"

(* The numbers on the wire have no gap, although Encoder.encode takes a    *)
(* number before it can fail: whoever raises has sent its last message.    *)
NoGapOnTheWire == \A k \in 1 .. Len(sent) : sent[k].msg_seq_num = k

CountSent(type) == Cardinality({k \in 1 .. Len(sent) : sent[k].type = type})

(* The steps of the workflow are taken once, in whatever order and pieces  *)
(* answers, market data and test requests come, and wherever a callback    *)
(* raises.  (Orders go by reports; trading session status, by others.)     *)
StepsTakenOnce ==
    \A type \in Requests \ {"Heartbeat", "NewOrderSingle", "TradingSessionStatusRequest"} :
        CountSent(type) <= 1

(* A session that is let in and not cut off gets as far as sending its     *)
(* order (the chain of answers in MyMixin._callback and the loop of        *)
(* data_received).                                                         *)
OrderIsSent ==
    <>(CountSent("NewOrderSingle") > 0 \/ connection = "lost" \/ Is("Logout") # {})

(* Every test request ends up answered by a heartbeat, unless the session  *)
(* is cut off.                                                             *)
TestRequestsAnswered ==
    <>[](CountSent("Heartbeat") = Cardinality(Is("TestRequest")) \/ connection = "lost")

(* samples/fix_session.py:6 "Demonstrates how to maintain a FIX session":  *)
(* once the connection is made, and unless it breaks, the client logs on.  *)
LogonIsSent == <>(CountSent("Logon") > 0 \/ connection = "lost")
=============================================================================
