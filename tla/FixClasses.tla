----------------------------- MODULE FixClasses -----------------------------
(***************************************************************************)
(* The FIX messages of src/roq/python/codec/fix/details.hpp.  Each class   *)
(* wraps one of the codec's structures: it copies its fields, or the       *)
(* arguments of a constructor, into members, and converts itself back by   *)
(* filling in the structure from the members.  What is written down of a   *)
(* class is what that says about names: the members, in the order of the   *)
(* constructor's parameters, and the fields of the structure for which the *)
(* class has no member, so that the conversion leaves them empty.          *)
(***************************************************************************)
EXTENDS Naturals, SequencesExt

(* The members of a class and the fields that it leaves empty.             *)
Wrapper(members, emptied) == [members |-> members, emptied |-> emptied]

(* Session and administration.                                             *)
Logon ==
    Wrapper(<<"encrypt_method", "heart_bt_int", "raw_data_length", "raw_data",
              "reset_seq_num_flag", "next_expected_msg_seq_num", "username", "password">>, {})

Logout ==
    Wrapper(<<"text">>, {})

TestRequest ==
    Wrapper(<<"test_req_id">>, {})

Heartbeat ==
    Wrapper(<<"test_req_id">>, {})

(* Mutant: the end is taken for the beginning.                             *)
ResendRequestSwapped ==
    Wrapper(<<"end_seq_no", "begin_seq_no">>, {})

ResendRequest ==
    Wrapper(<<"begin_seq_no", "end_seq_no">>, {})

Reject ==
    Wrapper(<<"ref_seq_num", "text", "ref_tag_id", "ref_msg_type", "session_reject_reason">>, {})

BusinessMessageReject ==
    Wrapper(<<"ref_seq_num", "ref_msg_type", "business_reject_ref_id",
              "business_reject_reason", "text">>, {})

UserRequest ==
    Wrapper(<<"user_request_id", "user_request_type", "username", "password", "new_password">>, {})

UserResponse ==
    Wrapper(<<"user_request_id", "username", "user_status", "user_status_text">>, {})

(* Trading sessions and securities; SecListGrp is an element of no_related_sym. *)
TradingSessionStatusRequest ==
    Wrapper(<<"trad_ses_req_id", "trading_session_id", "subscription_request_type">>, {})

TradingSessionStatus ==
    Wrapper(<<"trad_ses_req_id", "trading_session_id", "unsolicited_indicator",
              "trad_ses_status", "trad_ses_status_rej_reason", "text">>, {})

SecurityListRequest ==
    Wrapper(<<"security_req_id", "security_list_request_type", "symbol", "security_exchange",
              "trading_session_id", "subscription_request_type">>, {})

SecListGrp ==
    Wrapper(<<"symbol", "contract_multiplier", "security_exchange", "min_trade_vol",
              "trading_session_id", "min_price_increment">>, {})

SecurityList ==
    Wrapper(<<"security_req_id", "security_response_id", "security_request_result",
              "no_related_sym">>, {})

SecurityDefinitionRequest ==
    Wrapper(<<"security_req_id", "security_request_type", "symbol", "security_exchange",
              "trading_session_id", "subscription_request_type">>, {})

SecurityDefinition ==
    Wrapper(<<"security_req_id", "security_response_id", "security_response_type", "symbol",
              "contract_multiplier", "security_exchange", "trading_session_id",
              "min_trade_vol">>,
            {"min_price_increment"})

SecurityStatusRequest ==
    Wrapper(<<"security_status_req_id", "symbol", "security_exchange",
              "subscription_request_type", "trading_session_id">>, {})

SecurityStatus ==
    Wrapper(<<"security_status_req_id", "symbol", "security_exchange", "trading_session_id",
              "unsolicited_indicator", "security_trading_status", "transact_time">>, {})

(* Market data; InstrmtMDReq, MDFull and MDInc are elements of groups.     *)
InstrmtMDReq ==
    Wrapper(<<"symbol", "security_exchange">>, {})

MarketDataRequest ==
    Wrapper(<<"md_req_id", "subscription_request_type", "market_depth", "md_update_type",
              "aggregated_book", "no_md_entry_types", "no_related_sym">>,
            {"no_trading_sessions", "custom_type", "custom_value"})

MarketDataRequestReject ==
    Wrapper(<<"md_req_id", "md_req_rej_reason", "text">>, {})

MDFull ==
    Wrapper(<<"md_entry_type", "md_entry_px", "md_entry_size", "md_entry_date",
              "md_entry_time", "trading_session_id", "expire_time", "order_id",
              "number_of_orders", "md_entry_position_no">>, {})

MDInc ==
    Wrapper(<<"md_update_action", "md_entry_type", "symbol", "security_exchange",
              "md_entry_px", "md_entry_size", "md_entry_date", "md_entry_time",
              "trading_session_id", "expire_time", "order_id", "number_of_orders",
              "md_entry_position_no", "text">>, {})

MarketDataSnapshotFullRefresh ==
    Wrapper(<<"md_req_id", "symbol", "security_exchange", "no_md_entries">>, {})

MarketDataIncrementalRefresh ==
    Wrapper(<<"md_req_id", "no_md_entries">>, {})

(* Orders.                                                                 *)
OrderStatusRequest ==
    Wrapper(<<"order_id", "cl_ord_id", "ord_status_req_id", "account", "symbol",
              "security_exchange", "side">>,
            {"no_party_ids"})

OrderMassStatusRequest ==
    Wrapper(<<"mass_status_req_id", "mass_status_req_type", "account", "trading_session_id",
              "symbol", "security_exchange", "side">>,
            {"no_party_ids"})

NewOrderSingle ==
    Wrapper(<<"cl_ord_id", "secondary_cl_ord_id", "account", "handl_inst", "exec_inst",
              "symbol", "security_exchange", "side", "transact_time", "order_qty",
              "ord_type", "price", "stop_px", "time_in_force", "text", "position_effect",
              "max_show">>,
            {"no_party_ids", "no_trading_sessions"})

OrderCancelRequest ==
    Wrapper(<<"orig_cl_ord_id", "order_id", "cl_ord_id", "secondary_cl_ord_id", "account",
              "symbol", "security_exchange", "side", "transact_time", "order_qty", "text">>,
            {"no_party_ids"})

OrderCancelReplaceRequest ==
    Wrapper(<<"order_id", "orig_cl_ord_id", "cl_ord_id", "secondary_cl_ord_id", "account",
              "symbol", "security_exchange", "order_qty", "price", "side", "transact_time",
              "ord_type">>,
            {"no_party_ids"})

OrderMassCancelRequest ==
    Wrapper(<<"cl_ord_id", "mass_cancel_request_type", "trading_session_id", "symbol",
              "security_exchange", "side", "transact_time">>,
            {"no_party_ids"})

(* Mutant: the conversion to the codec's form forgets the reason.          *)
OrderCancelRejectForgetful ==
    Wrapper(<<"order_id", "secondary_cl_ord_id", "cl_ord_id", "orig_cl_ord_id", "ord_status",
              "working_indicator", "account", "cxl_rej_response_to", "text">>,
            {"cxl_rej_reason"})

OrderCancelReject ==
    Wrapper(<<"order_id", "secondary_cl_ord_id", "cl_ord_id", "orig_cl_ord_id", "ord_status",
              "working_indicator", "account", "cxl_rej_response_to", "cxl_rej_reason", "text">>, {})

OrderMassCancelReport ==
    Wrapper(<<"cl_ord_id", "order_id", "mass_cancel_request_type", "mass_cancel_response",
              "mass_cancel_reject_reason", "total_affected_orders", "symbol",
              "security_exchange", "side", "text">>,
            {"no_party_ids"})

ExecutionReport ==
    Wrapper(<<"order_id", "secondary_cl_ord_id", "cl_ord_id", "orig_cl_ord_id",
              "ord_status_req_id", "mass_status_req_id", "tot_num_reports",
              "last_rpt_requested", "exec_id", "exec_type", "ord_status",
              "working_indicator", "ord_rej_reason", "account", "account_type", "symbol",
              "security_exchange", "side", "ord_type", "order_qty", "price", "stop_px",
              "currency", "time_in_force", "exec_inst", "last_qty", "last_px",
              "trading_session_id", "leaves_qty", "cum_qty", "avg_px", "transact_time",
              "position_effect", "max_show", "text", "last_liquidity_ind">>,
            {"no_party_ids"})

(* Trades and positions.                                                   *)
TradeCaptureReportRequest ==
    Wrapper(<<"trade_request_id", "trade_request_type", "subscription_request_type",
              "order_id", "cl_ord_id", "symbol", "security_exchange">>,
            {"no_party_ids"})

TradeCaptureReport ==
    Wrapper(<<"trade_report_id", "trade_request_id", "exec_type", "tot_num_trade_reports",
              "last_rpt_requested", "unsolicited_indicator", "trd_match_id", "exec_id",
              "previously_reported", "symbol", "security_exchange", "last_qty", "last_px",
              "trade_date", "transact_time">>,
            {"no_sides"})

RequestForPositions ==
    Wrapper(<<"pos_req_id", "pos_req_type", "subscription_request_type", "account",
              "account_type", "currency", "symbol", "security_exchange",
              "clearing_business_date", "transact_time">>,
            {"no_party_ids", "no_trading_sessions"})

RequestForPositionsAck ==
    Wrapper(<<"pos_maint_rpt_id", "pos_req_id", "total_num_pos_reports",
              "unsolicited_indicator", "pos_req_result", "pos_req_status", "account",
              "account_type", "text">>,
            {"no_party_ids"})

PositionReport ==
    Wrapper(<<"pos_maint_rpt_id", "pos_req_id", "pos_req_type", "subscription_request_type",
              "total_num_pos_reports", "unsolicited_indicator", "pos_req_result",
              "clearing_business_date", "account", "account_type", "symbol",
              "security_exchange", "currency", "settl_price", "settl_price_type",
              "prior_settl_price", "text">>,
            {"no_party_ids", "no_positions", "no_pos_amt"})

FixClass ==
    [Logon |-> Logon, Logout |-> Logout, TestRequest |-> TestRequest, Heartbeat |-> Heartbeat,
     ResendRequest |-> ResendRequest, Reject |-> Reject,
     BusinessMessageReject |-> BusinessMessageReject, UserRequest |-> UserRequest,
     UserResponse |-> UserResponse,
     TradingSessionStatusRequest |-> TradingSessionStatusRequest,
     TradingSessionStatus |-> TradingSessionStatus,
     SecurityListRequest |-> SecurityListRequest, SecListGrp |-> SecListGrp,
     SecurityList |-> SecurityList, SecurityDefinitionRequest |-> SecurityDefinitionRequest,
     SecurityDefinition |-> SecurityDefinition,
     SecurityStatusRequest |-> SecurityStatusRequest, SecurityStatus |-> SecurityStatus,
     InstrmtMDReq |-> InstrmtMDReq, MarketDataRequest |-> MarketDataRequest,
     MarketDataRequestReject |-> MarketDataRequestReject, MDFull |-> MDFull, MDInc |-> MDInc,
     MarketDataSnapshotFullRefresh |-> MarketDataSnapshotFullRefresh,
     MarketDataIncrementalRefresh |-> MarketDataIncrementalRefresh,
     OrderStatusRequest |-> OrderStatusRequest,
     OrderMassStatusRequest |-> OrderMassStatusRequest, NewOrderSingle |-> NewOrderSingle,
     OrderCancelRequest |-> OrderCancelRequest,
     OrderCancelReplaceRequest |-> OrderCancelReplaceRequest,
     OrderMassCancelRequest |-> OrderMassCancelRequest,
     OrderCancelReject |-> OrderCancelReject, OrderMassCancelReport |-> OrderMassCancelReport,
     ExecutionReport |-> ExecutionReport,
     TradeCaptureReportRequest |-> TradeCaptureReportRequest,
     TradeCaptureReport |-> TradeCaptureReport, RequestForPositions |-> RequestForPositions,
     RequestForPositionsAck |-> RequestForPositionsAck, PositionReport |-> PositionReport]

(* Elements of groups, which are no messages of their own.                 *)
Elements == {"SecListGrp", "InstrmtMDReq", "MDFull", "MDInc"}

Messages == DOMAIN FixClass \ Elements

Members(class) == ToSet(FixClass[class].members)

(* Members that are groups, held as wrappers and in the codec's form.      *)
Groups == {"no_related_sym", "no_md_entries"}

(* Members and arguments of a time or a date.                              *)
Times == {"transact_time"}
Dates == {"clearing_business_date", "md_entry_date", "trade_date"}

(* Decimals that are held as a double, without their precision.            *)
Doubles(class) ==
    IF class = "SecListGrp"
    THEN {"contract_multiplier", "min_trade_vol", "min_price_increment"}
    ELSE {}
=============================================================================
