------------------------------- MODULE FixTags -------------------------------
(***************************************************************************)
(* The codes of message/FixTags.{h,cpp}: how the values of the program and *)
(* those of FIX messages are turned into each other.  A value and its code *)
(* have the same name here, so only the exceptions show.                   *)
(***************************************************************************)
EXTENDS Integers, Sequences

CONSTANT Unset  \* a member nothing was stored in: 0, UNKNOWN or an empty text

(* The codes toCommonType has a case for.  An other code is UNKNOWN where  *)
(* the switch has a default; where it has none no return statement is      *)
(* reached and the value is whatever the register holds: UNDEFINED.        *)
CodesOf ==
  [MsgType |->
     {"HEART_BEAT", "LOGON", "LOGOUT", "MARKET_DATA_REQUEST", "MARKET_DATA", "SNAPSHOT",
      "EXECUTION_REPORT", "ORDER_CANCEL_REJECT"},
   EntryType |-> {"BID", "OFFER", "TRADE"},
   UpdateAction |-> {"NEW", "CHANGE", "DELETE"},
   ResetSeqNumFlag |-> {"NO", "YES"},
   OrderStatus |->
     {"NEW", "PARTIALLY_FILLED", "FILLED", "DONE_FOR_DAY", "CANCELED", "REPLACED",
      "PENDING_CANCEL", "STOPPED", "REJECTED", "SUSPENDED", "PENDING_NEW",
      "CALCULATED", "EXPIRED", "ACCEPTED_FOR_BIDDING", "PENDING_REPLACE"},
   ExecType |->
     {"NEW", "PARTIALLY_FILLED", "FILLED", "DONE_FOR_DAY", "CANCELED", "REPLACED",
      "PENDING_CANCEL", "STOPPED", "REJECTED", "SUSPENDED", "PENDING_NEW",
      "CALCULATED", "EXPIRED", "RESTATED", "PENDING_REPLACE"},
   Side |-> {"BUY", "SELL"},
   CxlRejResponseTo |-> {"ORDER_CANCEL", "ORDER_REPLACE"},
   CxlRejReason |-> {"TOO_LATE", "UNKNOWN_ORDER", "BROKER_OPTION", "PENDING_CANCEL_REPLACE"}]

WithDefault == {"EntryType", "UpdateAction", "ResetSeqNumFlag"}

toCommonType(tag, code) ==
  IF tag \notin DOMAIN CodesOf THEN code
  ELSE IF code \notin CodesOf[tag]
       THEN IF tag \in WithDefault THEN "UNKNOWN" ELSE "UNDEFINED"
       ELSE IF tag = "ExecType" /\ code = "PARTIALLY_FILLED" THEN "TRADE" ELSE code

(* The values toFixType has a case for; none of its switches has a default.*)
FixTypesOf ==
  [UpdateType |-> {"FULL_REFRESH", "INCREMENTAL_REFRESH"},
   EntryType |-> {"BID", "OFFER", "TRADE"},
   ResetSeqNumFlag |-> {"NO", "YES"},
   SubscriptionRequestType |-> {"SNAPSHOT", "SNAPSHOT_AND_UPDATE", "CANCEL"},
   Side |-> {"BUY", "SELL"},
   OrderType |-> {"MARKET", "LIMIT", "STOP", "STOP_LIMIT"},
   TimeInForce |->
     {"DAY", "GOOD_TILL_CANCEL", "AT_THE_OPENING", "IMMEDIATE_OR_CANCEL", "FILL_OR_KILL",
      "GOOD_TILL_CROSSING", "GOOD_TILL_DATE"}]

toFixType(tag, value) ==
  IF tag \in DOMAIN FixTypesOf /\ value \notin FixTypesOf[tag] THEN "UNDEFINED" ELSE value

=============================================================================
