------------------------- MODULE FixMessageBuilder -------------------------
(***************************************************************************)
(* MessageBuilder of message/FixMessageBuilder.{h,cpp}, as operators: what *)
(* a request of the program becomes in the buffer of an OutMessage, and    *)
(* what finalizeOutMessage makes of it when it is sent.                    *)
(*                                                                         *)
(* A request is a function from the attributes of its message object to    *)
(* values.  A field of a message is [tag, value, ok] as in                 *)
(* FixMessageParser, a price a number of ten-thousandths.                  *)
(***************************************************************************)
EXTENDS FixTags

CONSTANTS
  BufferSize,   \* outMessageBufferSize_, less what precedes the type
  LargestBody,  \* the largest body length, of one digit less than its place
  Width(_, _),  \* the bytes a field with a tag and a value takes
  PriceDecimals, \* PriceNumDecimals
  LargestSeqNum  \* with one digit less than seqNumPlaceHolder_

(* The fields of a body in the order they are added.                       *)
LogonFields == <<"Username", "Password", "ResetSeqNumFlag", "EncryptMethod", "HeartBtInt">>
HeartBeatFields == <<"TestReqID">>
MarketDataRequestFields ==
  <<"ReqID", "SubscriptionRequestType", "MarketDepth", "UpdateType", "Symbols", "EntryTypes">>
NewOrderFields ==
  <<"ClOrdID", "Symbol", "Side", "TransactionTime", "OrderQty", "Price", "StopPx",
    "OrderType", "TimeInForce">>
ReplaceFields ==
  <<"ClOrdID", "OrigClOrdID", "OrderID", "Symbol", "Side", "TransactionTime",
    "OrderQty", "Price", "StopPx", "TimeInForce">>
CancelFields ==
  <<"ClOrdID", "OrigClOrdID", "OrderID", "Symbol", "Side", "TransactionTime", "OrderQty">>

Layout ==
  [LOGON |-> LogonFields,
   HEART_BEAT |-> HeartBeatFields,
   MARKET_DATA_REQUEST |-> MarketDataRequestFields,
   NEW_ORDER_SINGLE |-> NewOrderFields,
   ORDER_REPLACE |-> ReplaceFields,
   ORDER_CANCEL |-> CancelFields]

(* What a request must have to be built at all.                            *)
Required ==
  [LOGON |-> {},
   HEART_BEAT |-> {},
   MARKET_DATA_REQUEST |-> {"ReqID", "Symbols", "SubscriptionRequestType", "UpdateType"},
   NEW_ORDER_SINGLE |->
     {"ClOrdID", "Symbol", "Side", "TransactionTime", "OrderQty", "Price", "OrderType",
      "TimeInForce"},
   ORDER_REPLACE |->
     {"ClOrdID", "OrigClOrdID", "Symbol", "Side", "TransactionTime", "OrderQty", "Price",
      "OrderType", "TimeInForce"},
   ORDER_CANCEL |->
     {"ClOrdID", "OrigClOrdID", "Symbol", "Side", "TransactionTime", "OrderQty"}]

IsSet(request, attribute) ==
  attribute \in DOMAIN request /\ request[attribute] # Unset

HasRequired(type, request) ==
  /\ \A a \in Required[type] : IsSet(request, a)
  /\ type \in {"NEW_ORDER_SINGLE", "ORDER_REPLACE"} => request["Price"] > 0

(* The fields that are left out when there is nothing to say.              *)
Present(type, request, tag) ==
  CASE tag \in {"Username", "Password"} ->
         IsSet(request, "Username") /\ IsSet(request, "Password")
    [] tag \in {"TestReqID", "OrderID"} -> IsSet(request, tag)
    [] tag = "StopPx" -> request["OrderType"] = "STOP_LIMIT" /\ IsSet(request, "StopPx")
    [] OTHER -> TRUE

(* A mistake: a cancel names itself.                                       *)
SourceSwapped(type, tag) ==
  IF type = "ORDER_CANCEL" /\ tag = "OrigClOrdID" THEN "ClOrdID" ELSE tag

(* The attribute a field is filled from: a new order writes its price      *)
(* where the stop price belongs.                                           *)
SourceOf(type, tag) ==
  IF type = "NEW_ORDER_SINGLE" /\ tag = "StopPx" THEN "Price" ELSE tag

(* A price is written as an integer whose last PriceDecimals digits are    *)
(* then moved for the point; with fewer digits the point lands in the tag. *)
SmallestWritten == 10 ^ (PriceDecimals - 1)

WellWritten(tag, value) == tag \in {"Price", "StopPx"} => value >= SmallestWritten

FieldFor(type, request, tag) ==
  LET value == IF IsSet(request, SourceOf(type, tag))
               THEN request[SourceOf(type, tag)] ELSE Unset
  IN [tag |-> tag, value |-> toFixType(tag, value), ok |-> WellWritten(tag, value)]

-----------------------------------------------------------------------------
(* addTagValue: every field must fit into what is left of the buffer, and  *)
(* one of the number types must leave a byte.                              *)
IntegralTags ==
  {"EncryptMethod", "HeartBtInt", "ReqID", "MarketDepth", "ClOrdID", "OrigClOrdID", "OrderQty",
   "CheckSum"}

Spare(tag) == IF tag \in IntegralTags THEN 1 ELSE 0

SizesOf(fields) ==
  LET upTo[i \in 0 .. Len(fields)] ==
        IF i = 0 THEN 0 ELSE upTo[i - 1] + Width(fields[i].tag, fields[i].value)
  IN upTo

SizeOf(fields) == SizesOf(fields)[Len(fields)]

Fits(fields) ==
  \A i \in 1 .. Len(fields) : SizesOf(fields)[i] <= BufferSize - Spare(fields[i].tag)

(* The header has a place to fill in for the sequence number.              *)
HeaderFields(type, seqNum) ==
  <<[tag |-> "MsgType", value |-> type, ok |-> TRUE],
    [tag |-> "MsgSeqNum", value |-> seqNum, ok |-> TRUE]>>

(* Every number that fits takes the whole place.                           *)
ASSUME BuilderAssumption ==
  /\ BufferSize \in Nat /\ LargestBody \in Nat
  /\ SmallestWritten \in Nat
  /\ LargestSeqNum \in Nat
  /\ \A n \in 0 .. LargestSeqNum : Width("MsgSeqNum", n) = Width("MsgSeqNum", 0)

FieldsOf(type, request) ==
  LET upTo[i \in 0 .. Len(Layout[type])] ==
        IF i = 0 THEN HeaderFields(type, 0)
        ELSE IF Present(type, request, Layout[type][i])
             THEN Append(upTo[i - 1], FieldFor(type, request, Layout[type][i]))
             ELSE upTo[i - 1]
  IN upTo[Len(Layout[type])]

(* addDataToOutMsg succeeds: the length of the body fits its place, too.   *)
CanBuild(type, request, fields) ==
  HasRequired(type, request) /\ Fits(fields) /\ SizeOf(fields) <= LargestBody

(* The checksum, and what a checksum that does not fit leaves behind: its  *)
(* tag, when there is room for it.                                         *)
CheckSumField == [tag |-> "CheckSum", value |-> Unset, ok |-> TRUE]
CheckSumCut == [tag |-> "CheckSum", value |-> "cut", ok |-> FALSE]

(* finalizeOutMessage, when the message is taken from the queue: it fills  *)
(* in the sequence number and appends the checksum.  The number may not    *)
(* fit its place, or the checksum the buffer; the session ignores that and *)
(* sends the message as it is.                                             *)
finalizeOutMessage(fields, seqNum) ==
  LET numbered == [fields EXCEPT ![2].value = seqNum]
      whole == Append(numbered, CheckSumField)
      cut == Append(numbered, CheckSumCut)
  IN IF seqNum > LargestSeqNum THEN fields
     ELSE IF Fits(whole) THEN whole
     ELSE IF SizeOf(cut) <= BufferSize THEN cut
     ELSE numbered

=============================================================================
