-------------------------- MODULE FixMessageParser --------------------------
(***************************************************************************)
(* FixMessageParser and TagValueReader of message/, with the objects of    *)
(* util/Message.h they fill, as operators.                                 *)
(*                                                                         *)
(* A message is a sequence of fields [tag, value, ok] that ends with its   *)
(* checksum; ok says that the value can be read as what its tag stands     *)
(* for: a text that fits its array, a price without too many decimals.     *)
(* Each parse function of the code is a loop over fields with a switch on  *)
(* the tag; here it is the set of the tags it has a case for.  Bytes and   *)
(* incomplete messages are the business of Session.                        *)
(***************************************************************************)
EXTENDS FixTags, FiniteSets

CONSTANT KnownSymbols  \* the names of symbols_; every other one has the id -1

HeaderTags == {"MsgType", "SendingTime", "SenderCompID", "TargetCompID", "MsgSeqNum"}
SkippedHeaderTags == {"PossDupFlag", "PossResend", "LastMsgSeqNumProcessed",
                      "SenderSubID", "TargetSubID", "OrigSendingTime"}

(* The tags each parse function has a case for.                            *)
LogonTags == {"ResetSeqNumFlag", "HeartBtInt", "NextExpectedSeqNum", "EncryptMethod"}
HeartBeatTags == {"TestReqID"}
MarketDataTags == {"ReqID", "NoEntries", "UpdateAction"}
SnapshotTags == {"Symbol", "ReqID", "NoEntries", "EntryType"}
ExecutionReportTags ==
  {"ClOrdID", "OrigClOrdID", "OrderID", "ExecID", "ExecType", "OrderStatus", "Symbol", "Side",
   "OrderQty", "Price", "CumQty", "LeavesQty", "LastQuantity", "LastPrice", "AvgPrice", "Text"}
OrderCancelRejectTags ==
  {"ClOrdID", "OrigClOrdID", "OrderID", "OrderStatus", "CxlRejResponseTo", "CxlRejReason",
   "Text"}

(* The bodies parseBody knows.  It has no case for LOGOUT.                 *)
BodyTags ==
  [LOGON |-> LogonTags,
   HEART_BEAT |-> HeartBeatTags,
   MARKET_DATA |-> MarketDataTags,
   SNAPSHOT |-> SnapshotTags,
   EXECUTION_REPORT |-> ExecutionReportTags,
   ORDER_CANCEL_REJECT |-> OrderCancelRejectTags]

BodyTypes == DOMAIN BodyTags

(* The field that begins an entry, and the fields the loop of the entry    *)
(* has a case for (parseUpdate, parseSnapshotEntry).                       *)
EntryBegins(type) ==
  CASE type = "MARKET_DATA" -> "UpdateAction"
    [] type = "SNAPSHOT" -> "EntryType"
    [] OTHER -> "none"

SkippedEntryTags == {"EntryID", "NumberOfOrders"}

UpdateTags ==
  {"EntryType", "Symbol", "LastPrice", "EntryPrice", "EntryPosition", "RptSeq",
   "LastQuantity", "EntrySize", "TransactionTime"} \cup SkippedEntryTags

SnapshotEntryTags ==
  {"LastPrice", "EntryPrice", "EntryPosition", "LastQuantity", "EntrySize", "EntryTime",
   "RptSeq"}

EntryTags(type) ==
  CASE type = "MARKET_DATA" -> UpdateTags
    [] type = "SNAPSHOT" -> SnapshotEntryTags
    [] OTHER -> {}

(* The member an entry's field is stored in.                               *)
EntryMember(tag) ==
  CASE tag \in {"LastPrice", "EntryPrice"} -> "price"
    [] tag \in {"LastQuantity", "EntrySize"} -> "volume"
    [] OTHER -> tag

(* What reset() of the message objects leaves as the last message set it.  *)
KeptByReset(type) ==
  CASE type = "SNAPSHOT" -> {"Symbol", "ReqID"}
    [] type = "EXECUTION_REPORT" -> {"OrigClOrdID", "Price", "Text"}
    [] type = "ORDER_CANCEL_REJECT" -> {"Text"}
    [] OTHER -> {}

(* Members without a setter for an integer: numEntries is a local.         *)
Ignored == {"NoEntries"}

-----------------------------------------------------------------------------
(* How a loop runs over fields: it ends at the first tag it has no case    *)
(* for.  The checksum is such a tag for every loop, so it ends.            *)
EarliestOf(places) == CHOOSE i \in places : \A j \in places : i <= j
LatestOf(places) == CHOOSE i \in places : \A j \in places : j <= i

(* The last value a member is given, or what it was before.                *)
LastValue(fields, tags, before) ==
  LET at == {i \in 1 .. Len(fields) : fields[i].tag \in tags}
      last == fields[LatestOf(at)]
  IN IF at = {} THEN before ELSE toCommonType(last.tag, last.value)

(* parseHeaderTags.                                                        *)
HeaderLength(fields) ==
  EarliestOf({i \in 1 .. Len(fields) :
                fields[i].tag \notin HeaderTags \cup SkippedHeaderTags}) - 1

HeaderReadable(fields) ==
  \A i \in 1 .. HeaderLength(fields) : fields[i].tag \in HeaderTags => fields[i].ok

(* reset() sets the sequence number to 0.                                  *)
HeaderSeqNum(fields) ==
  LastValue(SubSeq(fields, 1, HeaderLength(fields)), {"MsgSeqNum"}, 0)

(* It does not touch the type of the body.                                 *)
HeaderBodyType(fields, before) ==
  LastValue(SubSeq(fields, 1, HeaderLength(fields)), {"MsgType"}, before)

Body(fields) == SubSeq(fields, HeaderLength(fields) + 1, Len(fields))

-----------------------------------------------------------------------------
(* Which fields of a body are read by the loop of an entry.                *)
InEntry(type, body) ==
  LET in[i \in 0 .. Len(body)] ==
        /\ i > 0
        /\ \/ body[i].tag = EntryBegins(type)
           \/ in[i - 1] /\ body[i].tag \in EntryTags(type)
  IN in

(* The fields that are read at all.                                        *)
Consumed(type, body) ==
  LET in == InEntry(type, body)
      unread == {i \in 1 .. Len(body) : body[i].tag \notin BodyTags[type] /\ ~in[i]}
  IN SubSeq(body, 1, EarliestOf(unread) - 1)

Readable(read) == \A i \in 1 .. Len(read) : read[i].tag \notin SkippedEntryTags => read[i].ok

(* parseBody, with the object of the type as the last message left it.     *)
BodyStatus(type, body) ==
  CASE type \notin BodyTypes -> "INCORRECT_TAG_VALUE"
    [] type \in BodyTypes /\ Readable(Consumed(type, body)) -> "SUCCESS"
    [] OTHER -> "TAG_VALUE_READ_ERROR"

(* reset() and the setters, as far as the fields could be read.            *)
Members(type) == BodyTags[type] \ (Ignored \cup {EntryBegins(type)})

Stored(type, body) ==
  LET read == Consumed(type, body)
      in == InEntry(type, body)
      bad == {i \in 1 .. Len(read) : ~Readable(<<read[i]>>)}
      kept == {i \in 1 .. Len(read) : ~in[i] /\ \A b \in bad : i < b}
  IN [i \in kept |-> read[i]]

(* A mistake: nothing is reset.                                            *)
ObjectReadStale(type, stored, before) ==
  [m \in Members(type) |->
     LET at == {i \in DOMAIN stored : stored[i].tag = m}
     IN IF at # {}
        THEN toCommonType(m, stored[LatestOf(at)].value)
        ELSE before[m]]

ObjectRead(type, stored, before) ==
  [m \in Members(type) |->
     LET at == {i \in DOMAIN stored : stored[i].tag = m}
     IN IF at # {}
        THEN toCommonType(m, stored[LatestOf(at)].value)
        ELSE IF m \in KeptByReset(type) THEN before[m] ELSE Unset]

(* The entries, each with the members its fields set; those of a snapshot  *)
(* get the symbol the snapshot had when they were read.  (An entry without *)
(* a time gets the time of the header, which is left out.)                 *)
EntryMembers == {"UpdateAction", "EntryType", "Symbol", "price", "volume",
                 "EntryPosition", "RptSeq", "TransactionTime", "EntryTime"}

(* The fields that begin an entry, and the k-th of them.                   *)
Beginnings(type, read) == {i \in 1 .. Len(read) : read[i].tag = EntryBegins(type)}

NthOf(places, k) == CHOOSE i \in places : Cardinality({j \in places : j <= i}) = k

EntryEnd(type, read, in, first) ==
  EarliestOf({e \in first .. Len(read) : \/ e = Len(read)
                                         \/ ~in[e + 1]
                                         \/ read[e + 1].tag = EntryBegins(type)})

Entry(type, read, in, first) ==
  LET symbol == IF type = "SNAPSHOT"
                THEN LastValue(SubSeq(read, 1, first), {"Symbol"}, Unset)
                ELSE Unset
  IN [m \in EntryMembers |->
        LastValue(SubSeq(read, first, EntryEnd(type, read, in, first)),
                  {t \in EntryTags(type) \cup {EntryBegins(type)} : EntryMember(t) = m},
                  IF m = "Symbol" THEN symbol ELSE Unset)]

Entries(type, body) ==
  LET read == Consumed(type, body)
      begins == Beginnings(type, read)
  IN [k \in 1 .. Cardinality(begins) |->
        Entry(type, read, InEntry(type, body), NthOf(begins, k))]

(* An update is added to those of its symbol as soon as it was read.  One  *)
(* without a symbol, or of an unknown one, has the id -1: with the checked *)
(* subscripts of the build that ends the program.                          *)
HasNoPlace(type, body) ==
  LET read == Consumed(type, body)
      in == InEntry(type, body)
  IN /\ type = "MARKET_DATA"
     /\ \E first \in Beginnings(type, read) :
          /\ Readable(SubSeq(read, 1, EntryEnd(type, read, in, first)))
          /\ Entry(type, read, in, first)["Symbol"] \notin KnownSymbols

=============================================================================
