------------------------------- MODULE Session -------------------------------
(***************************************************************************)
(* Session and Connection of network/, run by a thread of Gateway::exec,   *)
(* with another thread that puts requests into the session's queue.        *)
(*                                                                         *)
(* Incoming: the broker's messages are a script, and TCP brings any number *)
(* of their bytes at a time.  The receive buffer is a ring; positions are  *)
(* counted from the first byte of the session, as start_, parseStart_ and  *)
(* end_ are.  Outgoing: a ring of built messages that are numbered when    *)
(* they are taken out, and sent in pieces.                                 *)
(*                                                                         *)
(* Both threads write into that ring, and the gateway's reads it.  It is   *)
(* the ring of SlotRing: a call loads the index, claims its slot, stores   *)
(* the index and completes the slot in steps of its own.  (The test of the *)
(* status is one step with the compare-exchange after it: no other step    *)
(* tells a test that finds the slot free from one that comes later.)  A    *)
(* byte of the model stands for several of the program, and a message      *)
(* whose bytes are overwritten fails its checksum.  Outcomes of system     *)
(* calls are choices.  The session is opened once, as Gateway::start does. *)
(***************************************************************************)
EXTENDS FixMessageParser, FixMessageBuilder

CONSTANTS
  RingSize,      \* ringBufferSize_
  ReadSize,      \* the size of bufferIn_
  HeaderMinimum, \* the bytes parseHeader asks for before it looks (16)
  GapSize,       \* gapMsgQueueSize_
  QueueSize,     \* the slots of outQueue_
  Scripts,       \* what brokers may send: sequences of [fields, size, lengthEnds]
  Requests,      \* what the other thread may send: [type, request]
  LogonRequests, \* the request of openSession, with any user and password
  MaxSent        \* bound of the model: messages queued in a session

ASSUME SessionAssumption ==
  /\ RingSize \in Nat \ {0}
  /\ ReadSize \in 1 .. RingSize
  /\ HeaderMinimum \in Nat \ {0}
  /\ GapSize \in Nat \ {0}
  /\ QueueSize \in Nat \ {0}
  /\ MaxSent \in Nat
  /\ Unset \notin BodyTypes

(* What was not stored is told from every code.                            *)
ASSUME UnsetAssumption ==
  Unset \notin {"UNKNOWN"} \cup UNION {CodesOf[tag] : tag \in DOMAIN CodesOf}

(* A message has bytes, lengthEnds of them up to the end of its length, a  *)
(* known type, and ends with its checksum.                                 *)
Messages == UNION {{s[i] : i \in 1 .. Len(s)} : s \in Scripts}
Fields == UNION {{m.fields[i] : i \in 1 .. Len(m.fields)} : m \in Messages}

ASSUME ScriptsAssumption ==
  /\ \A s \in Scripts : s \in Seq(Messages)
  /\ \A m \in Messages :
       /\ m.size \in Nat \ {0} /\ m.lengthEnds \in 1 .. m.size - 1
       /\ m.fields \in Seq(Fields) \ {<< >>}
       /\ m.fields[Len(m.fields)].tag = "CheckSum"
  /\ \A f \in Fields :
       /\ f.ok \in BOOLEAN
       /\ f.tag # "none"
       /\ f.tag = "MsgSeqNum" => f.value \in Nat
       /\ f.tag = "MsgType" => f.value \in CodesOf["MsgType"]

(* A request has members of its type's object: an enumeration that is set  *)
(* has one of its values, a price is a number.                             *)
ASSUME RequestsAssumption ==
  /\ \A r \in Requests : r.type \in DOMAIN Layout \ {"LOGON"}
  /\ \A request \in LogonRequests : IsSet(request, "ResetSeqNumFlag")
  /\ \A request \in LogonRequests \cup {r.request : r \in Requests} :
       /\ {"MsgType", "MsgSeqNum", "CheckSum"} \cap DOMAIN request = {}
       /\ \A a \in DOMAIN request :
            IsSet(request, a) =>
              /\ a \in DOMAIN FixTypesOf => request[a] \in FixTypesOf[a]
              /\ a \in {"Price", "StopPx"} => request[a] \in Int

VARIABLES
  script,     \* what this broker sends
  socket,     \* status_ and fd_ of the Connection
  session,    \* sessionStatus_
  closes,     \* the ConnectionCloseEvents, each with the call it came from
  start, parseStart, end,    \* positions in the receive buffer
  expected, latest,          \* expIncomingMsgSeqNum_, latestIncomingMsgSeqNum_
  receiving,  \* the entries of gapMsgQueue_ that are RECIEVING
  bodyType,   \* of the parser's headerMessage_
  objects,    \* the parser's message objects, by type
  handled,    \* the messages that were handled
  testId,     \* testString_
  outQueue,   \* the slots of outQueue_: [state, type, request, fields]
  writeIndex, readIndex,     \* of outQueue_
  caller,     \* where a thread is in addMessageToSend, with what it asks for
  overtaken,  \* history: a writer stored an index that had been moved since it loaded it
  current,    \* currentOutMessageSlot_: [slot, fields, sent], or no message
  msgSeqNum,  \* msgSeqNum_
  sent,       \* the messages that were numbered, with what was asked
  wire,       \* the bytes sent: <<number of the message, number of the byte>>
  beatDue,    \* the time since lastSentTime_ is the heartbeat interval
  gateway     \* where the gateway's thread is

inVars == <<start, parseStart, end, expected, latest, receiving, bodyType, objects,
            handled, testId>>
queueVars == <<outQueue, writeIndex, readIndex, caller, overtaken>>
outVars == <<current, msgSeqNum, sent, wire>>
statusVars == <<socket, session, closes>>
vars == <<script, statusVars, inVars, queueVars, outVars, beatDue, gateway>>

NoMessage == [slot |-> 0, fields |-> << >>, sent |-> 0]

(* The slots of the ring, and the threads that write into it.              *)
Slots == 0 .. QueueSize - 1
NextIndex(i) == (i + 1) % QueueSize
FreeSlot == [state |-> "free", type |-> "none", request |-> << >>, fields |-> << >>]

Callers == {"gateway", "engine"}
Out == [at |-> "out", slot |-> 0, type |-> "none", request |-> << >>]

Init ==
  /\ script \in Scripts
  /\ socket = "NOTCONNECTED"
  /\ session = "DISCONNECTED"
  /\ closes = << >>
  /\ start = 0 /\ parseStart = 0 /\ end = 0
  /\ expected = 1 /\ latest = 0
  /\ receiving = {}
  /\ bodyType = "UNDEFINED"
  /\ objects = [type \in BodyTypes |-> [m \in Members(type) |-> Unset]]
  /\ handled = << >>
  /\ testId = Unset
  /\ outQueue = [s \in Slots |-> FreeSlot]
  /\ writeIndex = 0 /\ readIndex = 0
  /\ caller = [c \in Callers |-> Out]
  /\ overtaken = FALSE
  /\ current = NoMessage
  /\ msgSeqNum = 0
  /\ sent = << >>
  /\ wire = << >>
  /\ beatDue = TRUE
  /\ gateway = "opening"

GatewayGoes(location) == gateway' = location

-----------------------------------------------------------------------------
(* checkStatus asks the connection only while the session is CONNECTING,   *)
(* which no assignment makes it.                                           *)
isSessionReady == session \in {"CONNECTED", "LOGGEDIN"}

(* closeImidietely, by the gateway's thread: between its two assignments   *)
(* the other thread looks at neither.                                      *)
closeImidietely(reason, call) ==
  /\ socket' = "NOTCONNECTED"
  /\ session' = "DISCONNECTED"
  /\ closes' = Append(closes, [reason |-> reason, call |-> call])

-----------------------------------------------------------------------------
(* addMessageToSendTmp, by the gateway's thread for a heartbeat and by the *)
(* other one for its requests.  getWriteSlot loads the index ...           *)
Slot(state, type, request) ==
  [state |-> state, type |-> type, request |-> request, fields |-> FieldsOf(type, request)]

IsBuilt(slot) == CanBuild(slot.type, slot.request, slot.fields)

Ask(c, type, request) ==
  /\ caller[c].at = "out"
  /\ caller' = [caller EXCEPT ![c] = [at |-> "claim", slot |-> writeIndex,
                                     type |-> type, request |-> request]]
  /\ UNCHANGED <<outQueue, writeIndex, readIndex, overtaken>>

(* Where the gateway's thread goes on when its call returns.               *)
ReturnsTo(c, location) == gateway' = IF c = "gateway" THEN location ELSE gateway

StateAt(c) == outQueue[caller[c].slot].state

(* ... again, as long as its slot is marked as being written ...           *)
LookAgain(c) ==
  /\ caller[c].at = "claim"
  /\ StateAt(c) \in {"writing", "abandoned"}
  /\ caller' = [caller EXCEPT ![c].slot = writeIndex]
  /\ UNCHANGED <<script, statusVars, inVars, outQueue, writeIndex, readIndex, overtaken,
                 outVars, beatDue, gateway>>

(* ... returns nullptr when it holds a message ...                         *)
Refused(c) ==
  /\ caller[c].at = "claim"
  /\ StateAt(c) \in {"valid", "reading"}
  /\ caller' = [caller EXCEPT ![c] = Out]
  /\ ReturnsTo(c, "top")
  /\ UNCHANGED <<script, statusVars, inVars, outQueue, writeIndex, readIndex, overtaken,
                 outVars, beatDue>>

(* ... and otherwise marks it and stores the next index.                   *)
Claim(c) ==
  /\ caller[c].at = "claim"
  /\ StateAt(c) = "free"
  /\ outQueue' = [outQueue EXCEPT
                    ![caller[c].slot] = Slot("writing", caller[c].type, caller[c].request)]
  /\ caller' = [caller EXCEPT ![c].at = "advance"]
  /\ UNCHANGED <<script, statusVars, inVars, writeIndex, readIndex, overtaken, outVars,
                 beatDue, gateway>>

Advance(c) ==
  /\ caller[c].at = "advance"
  /\ writeIndex' = NextIndex(caller[c].slot)
  /\ overtaken' = (overtaken \/ writeIndex # caller[c].slot)
  /\ caller' = [caller EXCEPT ![c].at = "build"]
  /\ UNCHANGED <<script, statusVars, inVars, outQueue, readIndex, outVars, beatDue, gateway>>

Complete(c) ==
  /\ caller[c].at = "build"
  /\ IsBuilt(outQueue[caller[c].slot])
  /\ outQueue' = [outQueue EXCEPT ![caller[c].slot].state = "valid"]
  /\ caller' = [caller EXCEPT ![c] = Out]
  /\ ReturnsTo(c, "sending beat")
  /\ UNCHANGED <<script, statusVars, inVars, writeIndex, readIndex, overtaken, outVars,
                 beatDue>>

(* A mistake: the session is not closed.                                   *)
GiveUp(c) ==
  /\ caller[c].at = "build"
  /\ ~IsBuilt(outQueue[caller[c].slot])
  /\ outQueue' = [outQueue EXCEPT ![caller[c].slot].state = "abandoned"]
  /\ caller' = [caller EXCEPT ![c] = Out]
  /\ ReturnsTo(c, "top")
  /\ UNCHANGED <<script, statusVars, inVars, writeIndex, readIndex, overtaken, outVars,
                 beatDue>>

(* The message cannot be built.  Its slot stays marked for ever, here      *)
(* "abandoned", and closeImidietely closes first the socket, then the      *)
(* session.                                                                *)
Disconnect(c) ==
  /\ caller[c].at = "build"
  /\ ~IsBuilt(outQueue[caller[c].slot])
  /\ outQueue' = [outQueue EXCEPT ![caller[c].slot].state = "abandoned"]
  /\ socket' = "NOTCONNECTED"
  /\ caller' = [caller EXCEPT ![c].at = "close"]
  /\ UNCHANGED <<script, session, closes, inVars, writeIndex, readIndex, overtaken, outVars,
                 beatDue, gateway>>

Close(c) ==
  /\ caller[c].at = "close"
  /\ session' = "DISCONNECTED"
  /\ closes' = Append(closes, [reason |-> "FAILED_TO_ADD_OUT_QUEUE", call |-> "build"])
  /\ caller' = [caller EXCEPT ![c] = Out]
  /\ ReturnsTo(c, "top")
  /\ UNCHANGED <<script, socket, inVars, outQueue, writeIndex, readIndex, overtaken, outVars,
                 beatDue>>

AddMessage(c) ==
  \/ LookAgain(c) \/ Refused(c) \/ Claim(c) \/ Advance(c)
  \/ Complete(c) \/ Disconnect(c) \/ Close(c)

-----------------------------------------------------------------------------
(* openSession, by the main thread before the others run.  The socket does *)
(* not block: connect() may succeed at once, be in progress, or fail.  A   *)
(* connect in progress leaves the session DISCONNECTED.                    *)
QueueLogon(state, logon) ==
  /\ outQueue' = [outQueue EXCEPT ![writeIndex] = Slot(state, "LOGON", logon)]
  /\ writeIndex' = NextIndex(writeIndex)
  /\ UNCHANGED <<readIndex, caller, overtaken>>

LogonIsBuilt(logon) == IsBuilt(Slot("valid", "LOGON", logon))

OpenConnected(logon) ==
  /\ gateway = "opening"
  /\ LogonIsBuilt(logon)
  /\ socket' = "CONNECTED"
  /\ session' = "CONNECTED"
  /\ QueueLogon("valid", logon)
  /\ GatewayGoes("top")
  /\ UNCHANGED <<script, closes, inVars, outVars, beatDue>>

OpenInProgress(logon) ==
  /\ gateway = "opening"
  /\ LogonIsBuilt(logon)
  /\ socket' = "CONNECTING"
  /\ QueueLogon("valid", logon)
  /\ GatewayGoes("top")
  /\ UNCHANGED <<script, session, closes, inVars, outVars, beatDue>>

(* A logon that cannot be built closes the session again ...               *)
OpenUnbuilt(logon) ==
  /\ gateway = "opening"
  /\ ~LogonIsBuilt(logon)
  /\ QueueLogon("abandoned", logon)
  /\ closeImidietely("FAILED_TO_ADD_OUT_QUEUE", "build")
  /\ GatewayGoes("not started")
  /\ UNCHANGED <<script, inVars, outVars, beatDue>>

(* ... and start() returns false and starts no thread, as when connect()   *)
(* fails.                                                                  *)
OpenFails ==
  /\ gateway = "opening"
  /\ GatewayGoes("not started")
  /\ UNCHANGED <<script, statusVars, inVars, queueVars, outVars, beatDue>>

-----------------------------------------------------------------------------
(* Gateway::exec: one round for a session that is ready.                   *)
BeginRound ==
  /\ gateway = "top"
  /\ isSessionReady
  /\ GatewayGoes("sending")
  /\ UNCHANGED <<script, statusVars, inVars, queueVars, outVars, beatDue>>

(* sendMessages, called first and again after a heartbeat was queued.      *)
AfterSending == IF gateway = "sending" THEN "receiving" ELSE "top"

InSendMessages == gateway \in {"sending", "sending beat"}

HeadIsValid == outQueue[readIndex].state = "valid"

SendNothing ==
  /\ InSendMessages
  /\ ~isSessionReady \/ (current = NoMessage /\ ~HeadIsValid)
  /\ GatewayGoes(AfterSending)
  /\ UNCHANGED <<script, statusVars, inVars, queueVars, outVars, beatDue>>

(* getReadSlot: the slot at readIndex_, when it is complete, gets the next *)
(* number.  Nobody else moves that index or takes a complete message.      *)
TakeMessage ==
  /\ InSendMessages
  /\ isSessionReady
  /\ current = NoMessage
  /\ HeadIsValid
  /\ msgSeqNum' = msgSeqNum + 1
  /\ LET slot == outQueue[readIndex]
     IN \E fields \in {finalizeOutMessage(slot.fields, msgSeqNum')} :
          /\ current' = [slot |-> readIndex, fields |-> fields, sent |-> 0]
          /\ sent' = Append(sent, [type |-> slot.type, request |-> slot.request,
                                   fields |-> fields])
  /\ outQueue' = [outQueue EXCEPT ![readIndex].state = "reading"]
  /\ readIndex' = NextIndex(readIndex)
  /\ UNCHANGED <<script, statusVars, inVars, writeIndex, caller, overtaken, wire, beatDue,
                 gateway>>

(* A mistake: what was already sent is not skipped when send() is called   *)
(* again.                                                                  *)
SendFromBeginning(count) ==
  /\ InSendMessages
  /\ isSessionReady
  /\ socket = "CONNECTED"
  /\ current # NoMessage
  /\ LET total == current.sent + count
     IN /\ total <= SizeOf(current.fields)
        /\ wire' = wire \o [i \in 1 .. count |-> <<msgSeqNum, i>>]
        /\ beatDue' = FALSE
        /\ IF total = SizeOf(current.fields)
           THEN current' = NoMessage /\ outQueue' = [outQueue EXCEPT ![current.slot] = FreeSlot]
           ELSE current' = [current EXCEPT !.sent = total] /\ UNCHANGED outQueue
  /\ UNCHANGED <<script, statusVars, inVars, writeIndex, readIndex, caller, overtaken,
                 msgSeqNum, sent, gateway>>

(* send() takes some of the bytes that are left.  When it takes none       *)
(* because it would block, the loop tries again.                           *)
SendSome(count) ==
  /\ InSendMessages
  /\ isSessionReady
  /\ socket = "CONNECTED"
  /\ current # NoMessage
  /\ LET total == current.sent + count
     IN /\ total <= SizeOf(current.fields)
        /\ wire' = wire \o [i \in 1 .. count |-> <<msgSeqNum, current.sent + i>>]
        /\ beatDue' = FALSE
        /\ IF total = SizeOf(current.fields)
           THEN current' = NoMessage /\ outQueue' = [outQueue EXCEPT ![current.slot] = FreeSlot]
           ELSE current' = [current EXCEPT !.sent = total] /\ UNCHANGED outQueue
  /\ UNCHANGED <<script, statusVars, inVars, writeIndex, readIndex, caller, overtaken,
                 msgSeqNum, sent, gateway>>

(* send() fails, as it always does on a closed socket.                     *)
SendFails ==
  /\ InSendMessages
  /\ isSessionReady
  /\ current # NoMessage
  /\ closeImidietely("MESSAGE_OVER_SIZE", "send")
  /\ UNCHANGED <<script, inVars, queueVars, outVars, beatDue, gateway>>


-----------------------------------------------------------------------------
(* readMessages.  Where the messages of the script lie in the stream.      *)
EndOf ==
  LET e[i \in 0 .. Len(script)] == IF i = 0 THEN 0 ELSE e[i - 1] + script[i].size
  IN e

Total == EndOf[Len(script)]

StartsAt(i, p) == EndOf[i - 1] = p

(* After the bytes of a receive, of which the buffer is not asked whether  *)
(* it has room for them unless they reach its end: then start_, too, is    *)
(* moved by what was put at its beginning.                                 *)
ReadEnds == gateway' = "beating"

(* A mistake: a buffer that is exactly full counts as overflown.           *)
AppendIfRoomIsLeft(count) ==
  LET remain == RingSize - (end % RingSize)
  IN /\ end' = end + count
     /\ IF remain >= count \/ end' - start \in 0 .. RingSize - 1
        THEN /\ start' = IF remain >= count THEN start ELSE start + (count - remain)
             /\ UNCHANGED statusVars
             /\ GatewayGoes("parsing")
        ELSE /\ UNCHANGED start
             /\ closeImidietely("RING_BUFFER_OVERFLOW", "append")
             /\ ReadEnds

AppendToRingBuffer(count) ==
  LET remain == RingSize - (end % RingSize)
  IN /\ end' = end + count
     /\ IF remain >= count \/ end' - start \in 0 .. RingSize  \* the difference is unsigned
        THEN /\ start' = IF remain >= count THEN start ELSE start + (count - remain)
             /\ UNCHANGED statusVars
             /\ GatewayGoes("parsing")
        ELSE /\ UNCHANGED start
             /\ closeImidietely("RING_BUFFER_OVERFLOW", "append")
             /\ ReadEnds

Receive(count) ==
  /\ gateway = "receiving"
  /\ isSessionReady
  /\ socket = "CONNECTED"
  /\ end + count <= Total
  /\ AppendToRingBuffer(count)
  /\ UNCHANGED <<script, parseStart, expected, latest, receiving, bodyType, objects,
                 handled, testId, queueVars, outVars, beatDue>>

(* recv() fails or the broker has closed the connection.                   *)
ReceiveFails ==
  /\ gateway = "receiving"
  /\ isSessionReady
  /\ closeImidietely("CONNECTION_ERROR", "receive")
  /\ ReadEnds
  /\ UNCHANGED <<script, inVars, queueVars, outVars, beatDue>>

(* recv() would block, or the session is no longer ready: the loop ends,   *)
(* and the numbers that are missing are marked in gapMsgQueue_ until a     *)
(* marked entry is met.  (The replay that follows finds no entry VALID.)   *)
ReceiveNothing ==
  /\ gateway = "receiving"
  /\ socket = "CONNECTED" \/ ~isSessionReady
  /\ LET missing == expected .. latest
         met(i) == \/ i % GapSize \in receiving
                   \/ \E j \in expected .. i - 1 : j % GapSize = i % GapSize
     IN receiving' = receiving \cup
          {i % GapSize : i \in {k \in missing : \A j \in expected .. k : ~met(j)}}
  /\ ReadEnds
  /\ UNCHANGED <<script, statusVars, start, parseStart, end, expected, latest, bodyType,
                 objects, handled, testId, queueVars, outVars, beatDue>>

-----------------------------------------------------------------------------
(* The parser looks at parseStart_; where more bytes came than the buffer  *)
(* holds, it sees later ones in their place.                               *)
Shown == parseStart + RingSize * ((end - 1 - parseStart) \div RingSize)

Overwritten == Shown # parseStart

(* The message it finds there, if one begins there.                        *)
Found == {i \in 1 .. Len(script) : StartsAt(i, Shown)}

(* What the parser makes of each message: a table of the header, and of    *)
(* the body as the type that is read last into the header.                 *)
Header ==
  [message \in Messages |->
     [readable |-> HeaderReadable(message.fields),
      seqNum |-> HeaderSeqNum(message.fields),
      type |-> HeaderBodyType(message.fields, Unset)]]

BodyAs ==
  [type \in BodyTypes |->
     [message \in Messages |->
        LET body == Body(message.fields)
        IN [status |-> BodyStatus(type, body),
            stored |-> Stored(type, body),
            entries |-> Entries(type, body),
            aborts |-> HasNoPlace(type, body)]]]

(* parseHeader.  It looks as soon as there are 16 bytes, when the length   *)
(* of a long message may not have ended: it cannot be read.  It asks for 6 *)
(* bytes after the body and then reads 7: with one byte missing the        *)
(* checksum cannot be read.                                                *)
(* A mistake: the last byte is not waited for.                             *)
HeaderStatusTooSoon ==
  IF end - parseStart < HeaderMinimum THEN "MESSAGE_NOT_COMPLETE"
  ELSE IF Found = {} THEN "TAG_READ_ERROR"
  ELSE LET message == script[CHOOSE i \in Found : TRUE]
           missing == Shown + message.size - end
       IN IF missing <= 1
          THEN IF Header[message].readable THEN "SUCCESS" ELSE "TAG_VALUE_READ_ERROR"
          ELSE IF Overwritten THEN "INCORRECT_TAG_VALUE"
          ELSE IF end - parseStart < message.lengthEnds THEN "TAG_VALUE_READ_ERROR"
          ELSE "MESSAGE_NOT_COMPLETE"

HeaderStatus ==
  IF end - parseStart < HeaderMinimum THEN "MESSAGE_NOT_COMPLETE"
  ELSE IF Found = {} THEN "TAG_READ_ERROR"
  ELSE LET message == script[CHOOSE i \in Found : TRUE]
           missing == Shown + message.size - end
       IN IF missing <= 0
          THEN IF Header[message].readable THEN "SUCCESS" ELSE "TAG_VALUE_READ_ERROR"
          ELSE IF Overwritten THEN "INCORRECT_TAG_VALUE"
          ELSE IF missing = 1 \/ end - parseStart < message.lengthEnds
               THEN "TAG_VALUE_READ_ERROR"
          ELSE "MESSAGE_NOT_COMPLETE"

(* What is left is read when more bytes come.                              *)
ParseIncomplete ==
  /\ gateway = "parsing"
  /\ HeaderStatus = "MESSAGE_NOT_COMPLETE"
  /\ GatewayGoes("receiving")
  /\ UNCHANGED <<script, statusVars, inVars, queueVars, outVars, beatDue>>

ParseFails ==
  /\ gateway = "parsing"
  /\ HeaderStatus \notin {"SUCCESS", "MESSAGE_NOT_COMPLETE"}
  /\ closeImidietely("MESSAGE_PARSE_ERROR", "parse")
  /\ ReadEnds
  /\ UNCHANGED <<script, inVars, queueVars, outVars, beatDue>>

(* The header was read: its number decides.                                *)
FoundIndex == CHOOSE i \in Found : TRUE
SeqNum == Header[script[FoundIndex]].seqNum
TypeFound ==
  LET type == Header[script[FoundIndex]].type IN IF type = Unset THEN bodyType ELSE type

HeaderRead ==
  /\ gateway = "parsing"
  /\ HeaderStatus = "SUCCESS"
  /\ bodyType' = TypeFound
  /\ latest' = IF SeqNum > latest THEN SeqNum ELSE latest

Skip ==
  /\ start' = start + script[FoundIndex].size
  /\ parseStart' = parseStart + script[FoundIndex].size
  /\ GatewayGoes("receiving")

(* handleNewMessage.  A LOGON makes the session ready whatever it was; the *)
(* subscribers get the object of the parser.  (LOGOUT never gets here.)    *)
Handle(type, object, entries) ==
  /\ handled' = Append(handled, [seqNum |-> SeqNum, index |-> FoundIndex, type |-> type,
                                 object |-> object, entries |-> entries])
  /\ IF type = "LOGON" THEN session' = "LOGGEDIN" ELSE UNCHANGED session
  /\ IF type = "HEART_BEAT" THEN testId' = object["TestReqID"] ELSE UNCHANGED testId

(* The number is the expected one.  A body that cannot be read is skipped, *)
(* and its number stays the expected one.                                  *)
HandleBody ==
  IF TypeFound \in BodyTypes
  THEN \E read \in {BodyAs[TypeFound][script[FoundIndex]]} :
       \E object \in {ObjectRead(TypeFound, read.stored, objects[TypeFound])} :
         /\ objects' = [objects EXCEPT ![TypeFound] = object]
         /\ IF read.status = "SUCCESS"
            THEN /\ Handle(TypeFound, object, read.entries)
                 /\ expected' = expected + 1
            ELSE UNCHANGED <<handled, session, testId, expected>>
  ELSE UNCHANGED <<objects, handled, session, testId, expected>>

BodyAborts ==
  TypeFound \in BodyTypes /\ BodyAs[TypeFound][script[FoundIndex]].aborts

(* A mistake: any number will do.                                          *)
ParseUnordered ==
  /\ HeaderRead
  /\ ~BodyAborts
  /\ HandleBody
  /\ Skip
  /\ UNCHANGED <<script, socket, closes, end, receiving, queueVars, outVars, beatDue>>

ParseExpected ==
  /\ HeaderRead
  /\ SeqNum = expected
  /\ ~BodyAborts
  /\ HandleBody
  /\ Skip
  /\ UNCHANGED <<script, socket, closes, end, receiving, queueVars, outVars, beatDue>>

(* An update whose symbol the program does not know ends it.               *)
ParseAborts ==
  /\ HeaderRead
  /\ SeqNum = expected
  /\ BodyAborts
  /\ GatewayGoes("aborted")
  /\ UNCHANGED <<script, statusVars, start, parseStart, end, expected, receiving, objects,
                 handled, testId, queueVars, outVars, beatDue>>

(* A number seen before: the message is ignored.                           *)
ParseOld ==
  /\ HeaderRead
  /\ SeqNum < expected
  /\ Skip
  /\ UNCHANGED <<script, statusVars, end, expected, receiving, objects, handled, testId,
                 queueVars, outVars, beatDue>>

(* A number to come.  The entries of gapMsgQueue_ are copies of one whose  *)
(* array was reserved, so they have no room and no message fits.           *)
ParseAhead ==
  /\ HeaderRead
  /\ SeqNum > expected
  /\ closeImidietely(IF SeqNum % GapSize \in receiving THEN "MANY_GAPS"
                     ELSE "MESSAGE_OVER_SIZE", "gap")
  /\ ReadEnds
  /\ UNCHANGED <<script, start, parseStart, end, expected, receiving, objects, handled,
                 testId, queueVars, outVars, beatDue>>

-----------------------------------------------------------------------------
(* checkAndSendHeartBeat, with the last test id that came in.              *)
HeartBeatNotDue ==
  /\ gateway = "beating"
  /\ ~beatDue
  /\ GatewayGoes("top")
  /\ UNCHANGED <<script, statusVars, inVars, queueVars, outVars, beatDue>>

SendHeartBeat ==
  /\ gateway = "beating"
  /\ beatDue
  /\ Ask("gateway", "HEART_BEAT", [TestReqID |-> testId])
  /\ GatewayGoes("queueing")
  /\ UNCHANGED <<script, statusVars, inVars, outVars, beatDue>>

Running == gateway # "aborted"

(* The bound of the model.                                                 *)
Queued == Cardinality({s \in Slots : outQueue[s].state # "free"})
MoreIsSent == msgSeqNum + Queued < MaxSent

(* Time passes.                                                            *)
HeartBeatBecomesDue ==
  /\ Running
  /\ ~beatDue
  /\ MoreIsSent
  /\ beatDue' = TRUE
  /\ UNCHANGED <<script, statusVars, inVars, queueVars, outVars, gateway>>

-----------------------------------------------------------------------------
(* The other thread sends a request.                                       *)
SendRequest(request) ==
  /\ Running /\ gateway # "opening"
  /\ MoreIsSent
  /\ Ask("engine", request.type, request.request)
  /\ UNCHANGED <<script, statusVars, inVars, outVars, beatDue, gateway>>

-----------------------------------------------------------------------------
Open ==
  \/ \E logon \in LogonRequests :
       OpenConnected(logon) \/ OpenInProgress(logon) \/ OpenUnbuilt(logon)
  \/ OpenFails

Send ==
  \/ SendNothing \/ TakeMessage \/ SendFails
  \/ \E count \in 1 .. BufferSize : SendSome(count)

Read ==
  \/ ReceiveFails \/ ReceiveNothing
  \/ \E count \in 1 .. ReadSize : Receive(count)

Parse ==
  \/ ParseIncomplete \/ ParseFails
  \/ ParseExpected \/ ParseAborts \/ ParseOld \/ ParseAhead

KeepAlive == HeartBeatNotDue \/ SendHeartBeat \/ AddMessage("gateway")

Gateway == BeginRound \/ Send \/ Read \/ KeepAlive

EngineCall == Running /\ AddMessage("engine")

Engine == EngineCall \/ \E request \in Requests : SendRequest(request)

Next == Open \/ Gateway \/ Parse \/ Engine \/ HeartBeatBecomesDue

Spec == Init /\ [][Next]_vars

(* The threads run, the parser returns, and a call of the other thread     *)
(* goes on.  A socket that would block takes bytes in the end: Send is     *)
(* among the steps that are taken.  (A script has an end, so that a round  *)
(* of the gateway has one: readMessages reads on for as long as bytes      *)
(* come.)                                                                  *)
FairSpec ==
  /\ Spec
  /\ WF_vars(Open)
  /\ WF_vars(Gateway)
  /\ []<>(gateway # "parsing")
  /\ WF_vars(EngineCall)

-----------------------------------------------------------------------------
(* Types, with what bounds the positions in the stream.                    *)
Locations ==
  {"opening", "not started", "top", "sending", "receiving", "parsing", "beating",
   "queueing", "sending beat", "aborted"}

TypeOK ==
  /\ socket \in {"NOTCONNECTED", "CONNECTING", "CONNECTED"}
  /\ session \in {"DISCONNECTED", "CONNECTED", "LOGGEDIN"}
  /\ start \in Nat /\ parseStart \in 0 .. end /\ end \in 0 .. Total
  /\ expected \in Nat \ {0} /\ latest \in Nat
  /\ receiving \subseteq 0 .. GapSize - 1
  /\ writeIndex \in Slots /\ readIndex \in Slots
  /\ \A s \in Slots :
       outQueue[s].state \in {"free", "writing", "abandoned", "valid", "reading"}
  /\ \A c \in Callers :
       /\ caller[c].at \in {"out", "claim", "advance", "build", "close"}
       /\ caller[c].slot \in Slots
  /\ gateway \in Locations
  /\ caller["gateway"].at # "out" <=> gateway = "queueing"
  /\ current.sent \in 0 .. SizeOf(current.fields)
  /\ msgSeqNum = Len(sent)

(* The program acts on the broker's messages 1, 2, 3, ... one after the    *)
(* other, each once, however the stream is cut into pieces and whatever is *)
(* repeated in it (readMessages, Session.h:349-358).                       *)
HandledInOrder ==
  /\ Len(handled) = expected - 1
  /\ \A i \in 1 .. Len(handled) :
       /\ handled[i].seqNum = i
       /\ Header[script[handled[i].index]].seqNum = i

(* What the subscribers are told of a message is what the message says: a  *)
(* member has the value of one of its fields, or none; only the members    *)
(* reset() forgets may still be those of an earlier message.  There is an  *)
(* entry for each field that begins one, and as long as all tags are known *)
(* nothing the message says is left out (parseBody, and the reset() of     *)
(* Message.h).                                                             *)
Says(i, tag) == {toCommonType(tag, f.value) : f \in
                   {g \in {script[i].fields[n] : n \in 1 .. Len(script[i].fields)} :
                      g.tag = tag}}

SaidUpTo(seqNum, tag) ==
  UNION {Says(i, tag) : i \in {j \in 1 .. Len(script) : Header[script[j]].seqNum <= seqNum}}

AllKnown ==
  [type \in BodyTypes |->
     {m \in Messages : Len(Consumed(type, Body(m.fields))) + 1 = Len(Body(m.fields))}]

HandledAsStated ==
  \A k \in 1 .. Len(handled) :
    LET h == handled[k]
        known == script[h.index] \in AllKnown[h.type]
        begins == Beginnings(h.type, script[h.index].fields)
    IN /\ \A m \in DOMAIN h.object \ {"Symbol"} :
            /\ h.object[m] \in Says(h.index, m) \cup {Unset} \cup
                 (IF m \in KeptByReset(h.type) THEN SaidUpTo(k, m) ELSE {})
            /\ known /\ Says(h.index, m) # {} => h.object[m] \in Says(h.index, m)
       /\ Len(h.entries) <= Cardinality(begins)
       /\ known => Len(h.entries) = Cardinality(begins)
       /\ \A e \in 1 .. Len(h.entries) :
            /\ h.entries[e]["RptSeq"] \in Says(h.index, "RptSeq") \cup {Unset}
            /\ h.entries[e][EntryBegins(h.type)] # Unset

(* The program closes a session on its own only for the reasons listed     *)
(* here, some of which are faults of its parser: parsing fails on a header *)
(* that cannot be read, on one missing byte, on a length that is cut, and  *)
(* when more bytes came than the buffer holds; an overflow takes that, or  *)
(* a start_ that was moved by them; and a gap a number that the broker     *)
(* left out, or a message that was skipped since its body could not be     *)
(* read (readMessages, appendToRingBuffer, addMessageToSendTmp).  In no    *)
(* other state does a stream that is cut into pieces close the session.    *)
Unread == end - parseStart

SkippedOne ==
  \E i \in 1 .. Len(script) :
    /\ EndOf[i] <= parseStart
    /\ Header[script[i]].seqNum = expected
    /\ \/ Header[script[i]].type \notin BodyTypes
       \/ \E n \in 1 .. Len(script[i].fields) : ~script[i].fields[n].ok

LeftOut ==
  \A i \in 1 .. Len(script) :
    EndOf[i] <= parseStart => Header[script[i]].seqNum # expected

ClosedForAReason ==
  \A c \in 1 .. Len(closes) :
    CASE closes[c].call = "parse" ->
           \/ Unread > RingSize
           \/ \E i \in 1 .. Len(script) :
                /\ EndOf[i - 1] = parseStart
                /\ \/ EndOf[i] = end + 1
                   \/ Unread \in HeaderMinimum .. script[i].lengthEnds - 1
                   \/ ~Header[script[i]].readable
      [] closes[c].call = "append" ->
           end > RingSize /\ (Unread > RingSize \/ start > parseStart)
      [] closes[c].call = "gap" -> Unread > RingSize \/ LeftOut \/ SkippedOne
      [] closes[c].call = "build" -> \E s \in Slots : outQueue[s].state = "abandoned"
      [] OTHER -> TRUE

(* What the broker gets is whole messages, numbered 1, 2, 3, ..., each     *)
(* byte once and in its place, in however many pieces a message is sent    *)
(* (sendMessages, Session.h:235-258).                                      *)
NextByte(byte) ==
  IF byte[2] = SizeOf(sent[byte[1]].fields) THEN <<byte[1] + 1, 1>>
  ELSE <<byte[1], byte[2] + 1>>

WireIsWhole ==
  /\ wire # << >> => wire[1] = <<1, 1>>
  /\ \A j \in 1 .. Len(wire) - 1 : wire[j + 1] = NextByte(wire[j])

(* A message that is sent says what was asked.  While the numbers fit      *)
(* their place it carries its own; it ends with a checksum when the        *)
(* request leaves room for one; and when the request is one the builder    *)
(* can write - every price has its decimals, and no new order has a stop   *)
(* price, which goes out as its price - every field has the value of the   *)
(* request under its tag, and nothing required is missing but the type of  *)
(* an order that is edited (addDataToOutMsg, finalizeOutMessage).          *)
HasRoom(type, request) ==
  SizeOf(FieldsOf(type, request)) + Width("CheckSum", Unset) < BufferSize

CanBeWritten(type, request) ==
  /\ \A tag \in {"Price", "StopPx"} : IsSet(request, tag) => request[tag] >= SmallestWritten
  /\ type = "NEW_ORDER_SINGLE" => ~Present(type, request, "StopPx")

SaysAsAsked(message, n) ==
  LET fields == message.fields
      ends == fields[Len(fields)]
      tags == {fields[k].tag : k \in 1 .. Len(fields)}
  IN /\ fields[1].value = message.type
     /\ Required[message.type] \subseteq tags \cup {"OrderType"}
     /\ n <= LargestSeqNum => fields[2].value = n
     /\ n <= LargestSeqNum /\ HasRoom(message.type, message.request) =>
          ends.tag = "CheckSum" /\ ends.ok
     /\ CanBeWritten(message.type, message.request) =>
          \A k \in 1 .. Len(fields) :
            fields[k].tag \in DOMAIN message.request =>
              fields[k].ok /\ fields[k].value = message.request[fields[k].tag]

SentAsAsked == \A n \in 1 .. Len(sent) : SaysAsAsked(sent[n], n)

(* A complete message is taken from the queue of a session that stays      *)
(* ready - unless the two threads that write into the ring overtook each   *)
(* other (getWriteSlot stores the next index last): then a message may     *)
(* wait until another one is queued.                                       *)
QueueDrains ==
  \A s \in Slots :
    (outQueue[s].state = "valid" /\ isSessionReady) ~>
      (outQueue[s].state # "valid" \/ ~isSessionReady \/ overtaken \/ ~Running)

(* checkStatus asks the connection of a session that is CONNECTING whether *)
(* it is connected by now (Session.h:302-309): a session whose connect()   *)
(* is in progress becomes ready, or is closed.                             *)
OpenedBecomesReady == (socket = "CONNECTING") ~> (isSessionReady \/ closes # << >>)

=============================================================================
