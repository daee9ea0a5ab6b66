---------------------------- MODULE FixBindings -----------------------------
(***************************************************************************)
(* What Python sees of the FIX messages                                    *)
(* (src/roq/python/codec/fix/details.cpp).  A class has a constructor,     *)
(* with keywords for the parameters of the C++ constructor in their order, *)
(* some of which have no default, or it has read-only properties for the   *)
(* fields of its structure, each named as its field; one class has both.   *)
(***************************************************************************)
EXTENDS FixClasses

Constructor(keywords, required, properties) ==
    [constructible |-> TRUE, keywords |-> keywords, required |-> required,
     properties |-> properties]

Properties(properties) ==
    [constructible |-> FALSE, keywords |-> <<>>, required |-> {}, properties |-> properties]

(* Session and administration.                                             *)
LogonBinding ==
    Constructor(<<"encrypt_method", "heart_bt_int", "raw_data_length", "raw_data",
                  "reset_seq_num_flag", "next_expected_msg_seq_num", "username", "password">>,
                {"heart_bt_int", "raw_data_length", "raw_data", "username"}, {})

LogoutBinding ==
    Constructor(<<"text">>, {}, {})

TestRequestBinding ==
    Constructor(<<"test_req_id">>, {}, {"test_req_id"})

HeartbeatBinding ==
    Constructor(<<"test_req_id">>, {}, {})

ResendRequestBinding ==
    Constructor(<<"begin_seq_no", "end_seq_no">>, {}, {})

RejectBinding ==
    Constructor(<<"ref_seq_num", "text", "ref_tag_id", "ref_msg_type",
                  "session_reject_reason">>, {}, {})

BusinessMessageRejectBinding ==
    Constructor(<<"ref_seq_num", "ref_msg_type", "business_reject_ref_id",
                  "business_reject_reason", "text">>, {}, {})

(* Mutant: a keyword with a comma in it.                                   *)
UserRequestBindingMisspelt ==
    Constructor(<<"user_request_id", "user_request_type,", "username", "password",
                  "new_password">>, {}, {})

UserRequestBinding ==
    Constructor(<<"user_request_id", "user_request_type", "username", "password",
                  "new_password">>, {}, {})

UserResponseBinding ==
    Constructor(<<"user_request_id", "username", "user_status", "user_status_text">>, {}, {})

(* Trading sessions and securities; SecListGrp is an element of no_related_sym. *)
TradingSessionStatusRequestBinding ==
    Constructor(<<"trad_ses_req_id", "trading_session_id", "subscription_request_type">>,
                {}, {})

TradingSessionStatusBinding ==
    Constructor(<<"trad_ses_req_id", "trading_session_id", "unsolicited_indicator",
                  "trad_ses_status", "trad_ses_status_rej_reason", "text">>, {}, {})

SecurityListRequestBinding ==
    Constructor(<<"security_req_id", "security_list_request_type", "symbol",
                  "security_exchange", "trading_session_id", "subscription_request_type">>,
                {}, {})

SecListGrpBinding ==
    Constructor(<<"symbol", "contract_multiplier", "security_exchange", "min_trade_vol",
                  "trading_session_id", "min_price_increment">>,
                {"symbol", "security_exchange"}, {})

SecurityListBinding ==
    Constructor(<<"security_req_id", "security_response_id", "security_request_result",
                  "no_related_sym">>, {}, {})

SecurityDefinitionRequestBinding ==
    Constructor(<<"security_req_id", "security_request_type", "symbol", "security_exchange",
                  "trading_session_id", "subscription_request_type">>, {}, {})

SecurityDefinitionBinding ==
    Constructor(<<"security_req_id", "security_response_id", "security_response_type",
                  "symbol", "contract_multiplier", "security_exechange",
                  "trading_session_id", "min_trade_vol">>, {}, {})

SecurityStatusRequestBinding ==
    Constructor(<<"security_status_req_id", "symbol", "security_exchange",
                  "subscription_request_type", "trading_session_id">>, {}, {})

SecurityStatusBinding ==
    Constructor(<<"security_status_req_id", "symbol", "security_exchange",
                  "trading_session_id", "unsolicited_indicator,", "security_trading_status",
                  "transact_time">>, {}, {})

(* Market data; InstrmtMDReq, MDFull and MDInc are elements of groups.     *)
InstrmtMDReqBinding ==
    Constructor(<<"symbol", "security_exchange">>, {}, {})

MarketDataRequestBinding ==
    Constructor(<<"md_req_id", "subscription_request_type", "market_depth", "md_update_type",
                  "aggregated_book", "no_md_entry_types", "no_related_sym">>,
                {"md_req_id", "subscription_request_type", "no_md_entry_types",
                 "no_related_sym"}, {})


MarketDataRequestRejectBinding ==
    Properties({"md_req_id", "md_req_rej_reason", "text"})

MDFullBinding ==
    Properties({"md_entry_type", "md_entry_px", "md_entry_size", "md_entry_date",
                "md_entry_time", "trading_session_id", "expire_time", "order_id",
                "number_of_orders", "md_entry_position_no"})

MDIncBinding ==
    Properties({"md_update_action", "md_entry_type", "symbol", "security_exchange",
                "md_entry_px", "md_entry_size", "md_entry_date", "md_entry_time",
                "trading_session_id", "expire_time", "order_id", "number_of_orders",
                "md_entry_position_no"})

MarketDataSnapshotFullRefreshBinding ==
    Properties({"md_req_id", "symbol", "security_exchange", "no_md_entries"})

MarketDataIncrementalRefreshBinding ==
    Properties({"md_req_id", "no_md_entries"})

(* Orders.                                                                 *)
OrderStatusRequestBinding ==
    Constructor(<<"order_id", "cl_ord_id", "ord_status_req_id", "account", "symbol",
                  "security_exchange", "side">>, {}, {})

OrderMassStatusRequestBinding ==
    Constructor(<<"mass_status_req_id", "mass_status_req_type", "account",
                  "trading_session_id", "symbol", "security_exchange", "side">>, {}, {})

NewOrderSingleBinding ==
    Constructor(<<"cl_ord_id", "secondary_cl_ord_id", "account", "handl_inst", "exec_inst",
                  "symbol", "security_exchange", "side", "transact_time", "order_qty",
                  "ord_type", "price", "stop_px", "time_in_force", "text", "position_effect",
                  "max_show">>, {}, {})

OrderCancelRequestBinding ==
    Constructor(<<"orig_cl_ord_id", "order_id", "cl_ord_id", "secondary_cl_ord_id",
                  "account", "symbol", "security_exchange", "side", "transact_time",
                  "order_qty", "text">>, {}, {})

OrderCancelReplaceRequestBinding ==
    Constructor(<<"order_id", "orig_cl_ord_id", "cl_ord_id", "secondary_cl_ord_id",
                  "account", "symbol", "security_exchange", "order_qty", "price", "side",
                  "transact_time", "ord_type">>, {}, {})

OrderMassCancelRequestBinding ==
    Constructor(<<"cl_ord_id", "mass_cancel_request_type", "trading_session_id", "symbol",
                  "security_exchange", "side", "transact_time">>, {}, {})

OrderCancelRejectBinding ==
    Properties({"order_id", "secondary_cl_ord_id", "cl_ord_id", "orig_cl_ord_id",
                "ord_status", "working_indicator", "account", "cxl_rej_response_to",
                "cxl_rej_reason", "text"})

OrderMassCancelReportBinding ==
    Properties({"cl_ord_id", "order_id", "mass_cancel_request_type", "mass_cancel_response",
                "mass_cancel_reject_reason", "total_affected_orders", "symbol",
                "security_exchange", "side", "text"})

ExecutionReportBinding ==
    Properties({"order_id", "secondary_cl_ord_id", "cl_ord_id", "orig_cl_ord_id",
                "ord_status_req_id", "mass_status_req_id", "tot_num_reports",
                "last_rpt_requested", "exec_id", "exec_type", "ord_status",
                "working_indicator", "ord_rej_reason", "account", "account_type", "symbol",
                "security_exchange", "side", "ord_type", "order_qty", "price", "stop_px",
                "currency", "time_in_force", "exec_inst", "last_qty", "last_px",
                "trading_session_id", "leaves_qty", "cum_qty", "avg_px", "transact_time",
                "position_effect", "max_show", "text", "last_liquidity_ind"})

(* Trades and positions.                                                   *)
TradeCaptureReportRequestBinding ==
    Constructor(<<"trade_request_id", "trade_request_type,", "subscription_request_type,",
                  "order_id", "cl_ord_id", "symbol", "security_exchange">>, {}, {})

TradeCaptureReportBinding ==
    Properties({"trade_report_id", "trade_request_id", "exec_type", "tot_num_trade_reports",
                "last_rpt_requested", "unsolicited_indicator", "trd_match_id", "exec_id",
                "previously_reported", "symbol", "security_exchange", "last_qty", "last_px",
                "trade_date", "transact_time"})

RequestForPositionsBinding ==
    Constructor(<<"pos_req_id", "pos_req_type,", "subscription_request_type,", "account",
                  "account_type,", "currency", "symbol", "security_exchange",
                  "clearing_business_date", "transact_time">>, {}, {})

RequestForPositionsAckBinding ==
    Properties({"pos_maint_rpt_id", "pos_req_id", "total_num_pos_reports",
                "unsolicited_indicator", "pos_req_result", "pos_req_status", "account",
                "account_type", "text"})

PositionReportBinding ==
    Properties({"pos_maint_rpt_id", "pos_req_id", "pos_req_type", "subscription_request_type",
                "total_num_pos_reports", "unsolicited_indicator", "pos_req_result",
                "clearing_business_date", "account", "account_type", "symbol",
                "security_exchange", "currency", "settl_price", "settl_price_type",
                "prior_settl_price", "text"})

FixBinding ==
    [Logon |-> LogonBinding, Logout |-> LogoutBinding, TestRequest |-> TestRequestBinding,
     Heartbeat |-> HeartbeatBinding, ResendRequest |-> ResendRequestBinding,
     Reject |-> RejectBinding, BusinessMessageReject |-> BusinessMessageRejectBinding,
     UserRequest |-> UserRequestBinding, UserResponse |-> UserResponseBinding,
     TradingSessionStatusRequest |-> TradingSessionStatusRequestBinding,
     TradingSessionStatus |-> TradingSessionStatusBinding,
     SecurityListRequest |-> SecurityListRequestBinding, SecListGrp |-> SecListGrpBinding,
     SecurityList |-> SecurityListBinding,
     SecurityDefinitionRequest |-> SecurityDefinitionRequestBinding,
     SecurityDefinition |-> SecurityDefinitionBinding,
     SecurityStatusRequest |-> SecurityStatusRequestBinding,
     SecurityStatus |-> SecurityStatusBinding, InstrmtMDReq |-> InstrmtMDReqBinding,
     MarketDataRequest |-> MarketDataRequestBinding,
     MarketDataRequestReject |-> MarketDataRequestRejectBinding, MDFull |-> MDFullBinding,
     MDInc |-> MDIncBinding,
     MarketDataSnapshotFullRefresh |-> MarketDataSnapshotFullRefreshBinding,
     MarketDataIncrementalRefresh |-> MarketDataIncrementalRefreshBinding,
     OrderStatusRequest |-> OrderStatusRequestBinding,
     OrderMassStatusRequest |-> OrderMassStatusRequestBinding,
     NewOrderSingle |-> NewOrderSingleBinding,
     OrderCancelRequest |-> OrderCancelRequestBinding,
     OrderCancelReplaceRequest |-> OrderCancelReplaceRequestBinding,
     OrderMassCancelRequest |-> OrderMassCancelRequestBinding,
     OrderCancelReject |-> OrderCancelRejectBinding,
     OrderMassCancelReport |-> OrderMassCancelReportBinding,
     ExecutionReport |-> ExecutionReportBinding,
     TradeCaptureReportRequest |-> TradeCaptureReportRequestBinding,
     TradeCaptureReport |-> TradeCaptureReportBinding,
     RequestForPositions |-> RequestForPositionsBinding,
     RequestForPositionsAck |-> RequestForPositionsAckBinding,
     PositionReport |-> PositionReportBinding]

(* Classes that Python cannot construct: they are only decoded.            *)
DecodedOnly == {class \in DOMAIN FixBinding : ~FixBinding[class].constructible}

Constructible == DOMAIN FixBinding \ DecodedOnly

Keywords(class) == ToSet(FixBinding[class].keywords)
=============================================================================
