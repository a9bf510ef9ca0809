----------------------------- MODULE MCSession -----------------------------
(***************************************************************************)
(* An instance of Session: what brokers and the program may send.          *)
(***************************************************************************)
EXTENDS Session

F(tag, value) == [tag |-> tag, value |-> value, ok |-> TRUE]
Bad(tag, value) == [tag |-> tag, value |-> value, ok |-> FALSE]

(* The length of a long message ends later than the bytes parseHeader      *)
(* asks for.                                                               *)
Message(size, type, seqNum, body) ==
  [size |-> size, lengthEnds |-> size - 1,
   fields |-> <<F("MsgType", type), F("MsgSeqNum", seqNum)>> \o body \o <<F("CheckSum", Unset)>>]

(* A body of one byte leaves room for the checksum, of two bytes for all   *)
(* but its last, of four not even for its tag; one of five is too long for *)
(* its place.                                                              *)
MCWidth(tag, value) ==
  CASE tag = "MsgType" -> 1
    [] tag = "CheckSum" -> IF value = Unset THEN 3 ELSE 2
    [] tag = "OrderID" -> CASE value = "o1" -> 0 [] value = "o2" -> 1 [] OTHER -> 3
    [] tag = "TestReqID" /\ value = "t4" -> 4
    [] tag = "Username" /\ value = "long" -> 5
    [] OTHER -> 0

-----------------------------------------------------------------------------
Logon(n) == Message(3, "LOGON", n, <<F("EncryptMethod", "NONE"), F("HeartBtInt", 30)>>)
Beat(n, id) == Message(2, "HEART_BEAT", n, <<F("TestReqID", id)>>)
Logout(n) == Message(2, "LOGOUT", n, <<>>)

(* An acknowledgement of a new order, and one of an edit or a cancel.      *)
Report(n, id) ==
  Message(3, "EXECUTION_REPORT", n,
          <<F("ClOrdID", id), F("ExecType", "NEW"), F("OrderID", "o1"), F("Price", 7)>>)
Edited(n, id, old) ==
  Message(4, "EXECUTION_REPORT", n,
          <<F("OrigClOrdID", old), F("ClOrdID", id), F("ExecType", "REPLACED")>>)
Reject(n) ==
  Message(3, "ORDER_CANCEL_REJECT", n,
          <<F("ClOrdID", "c1"), F("CxlRejReason", "OTHER"), F("Text", "late")>>)

(* Two updates; a snapshot with a tag the parser does not know.            *)
Updates(n) ==
  Message(4, "MARKET_DATA", n,
          <<F("NoEntries", 2), F("UpdateAction", "NEW"), F("EntryType", "BID"), F("Symbol", "s"),
            F("RptSeq", 1), F("UpdateAction", "DELETE"), F("EntryID", 5), F("Symbol", "s"),
            F("EntryPrice", 7), F("RptSeq", 2)>>)
NoSymbol(n) ==
  Message(2, "MARKET_DATA", n,
          <<F("UpdateAction", "NEW"), F("Symbol", "s"), F("UpdateAction", "NEW"),
            F("RptSeq", 2)>>)
Snapshot(n) ==
  Message(3, "SNAPSHOT", n,
          <<F("Symbol", "s"), F("EntryType", "BID"), F("EntryPrice", 7),
            F("Currency", "x"), F("EntryType", "OFFER"), F("EntryPrice", 8)>>)

Garbled(n) ==
  Message(3, "EXECUTION_REPORT", n, <<F("ClOrdID", "c2"), Bad("OrderQty", 1), F("Price", 9)>>)
UnknownHeader(n) ==
  [size |-> 2, lengthEnds |-> 1,
   fields |-> <<F("MsgType", "HEART_BEAT"), F("ApplVerID", 9), F("MsgSeqNum", n),
               F("CheckSum", Unset)>>]
BadHeader(n) ==
  [size |-> 2, lengthEnds |-> 1,
   fields |-> <<F("MsgType", "HEART_BEAT"), Bad("MsgSeqNum", n), F("CheckSum", Unset)>>]

MCScripts ==
  {<<Logon(1), Report(2, "c1"), Edited(3, "c2", "c1"), Report(4, "c3")>>,
   <<Logon(1), Updates(2), Snapshot(3), Reject(4)>>,
   <<Beat(1, "t1"), Beat(1, "t2"), Garbled(2), Report(2, "c1"), Beat(4, "t3")>>,
   <<Logon(1), Logout(2), Beat(3, "t1")>>,
   <<Beat(1, "t1"), UnknownHeader(2), BadHeader(2)>>,
   <<Garbled(1), Report(1, "c4"), Beat(2, "t4")>>,
   <<Beat(1, "t1"), NoSymbol(2)>>}

-----------------------------------------------------------------------------
MCLogons ==
  {[Username |-> user, Password |-> "password", ResetSeqNumFlag |-> "YES",
    EncryptMethod |-> "NONE", HeartBtInt |-> 30] : user \in {"user", "long"}}

Order(price, kind) ==
  [type |-> "NEW_ORDER_SINGLE",
   request |-> [ClOrdID |-> "c1", Symbol |-> "s", Side |-> "BUY", TransactionTime |-> 1,
                OrderQty |-> 5, Price |-> price, StopPx |-> 70000, OrderType |-> kind,
                TimeInForce |-> "DAY"]]
Cancel(orderId) ==
  [type |-> "ORDER_CANCEL",
   request |-> [ClOrdID |-> "c2", OrigClOrdID |-> "c1", OrderID |-> orderId, Symbol |-> "s",
                Side |-> "BUY", TransactionTime |-> 2, OrderQty |-> 5]]

(* An order that is cheap, one that stops, one without a price; a cancel   *)
(* that leaves no room for the end of its checksum, and one that leaves    *)
(* none for its tag.                                                       *)
MCRequests ==
  {Order(900, "LIMIT"), Order(60000, "STOP_LIMIT"), Order(0, "LIMIT"),
   Cancel("o2"), Cancel("o3")}

=============================================================================
