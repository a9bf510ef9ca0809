# Simple_Trading in TLA+

Simple_Trading is a C++20 trading client: it keeps FIX sessions with exchanges
and brokers, maintains order books from market data, runs strategies on them
and books their orders. Its parts run in threads of their own and talk through
lock-free rings. This directory holds TLA+ models of those parts, TLC
configurations that check them on small instances, and TLAPS proofs of the
results that hold for every instance.

    tlc -config SlotRing_fifo.cfg MCSlotRing          # one run
    tlapm OrderManagerProofs.tla                      # one module of proofs

`PROJECT.json` lists the components, the runs with their properties, the
mutants (a plausible bug for each property, which the run must notice), the
lines of the source behind every definition, the findings, the hazards and the
theorems.

## 1. The system

### Components

| Component | State | Operations | What makes it correct |
|---|---|---|---|
| Slot ring buffer (`util/MWMRNoOverWriteSlotRingBuffer.h`) | per slot a status and the data; `writeIndex_`, `readIndex_` (all atomic) | `getWriteSlot`, `setWriteComplete`, `getReadSlot`, `setReadComplete` | one user per slot; nothing lost, duplicated or overwritten; with one thread on each side FIFO, and refuses only when full or empty; calls return when the others pause |
| OrderManager (`execution/OrderManager.cpp`) | the slots of orders, the free list, the map from ids to slots, totals of pending and owned shares | a handler for each request of a strategy and each report of the broker | the free list and the map stay sound; totals are those of the open orders; reports find their order |
| SymbolState (`execution/SymbolState.cpp`) | the same totals per symbol, averages, a version counter for readers | one update per event | agrees with the OrderManager; readers see no torn state |
| BrokerProfile (`execution/BrokerProfile.cpp`) | balance, rate-limit timestamps | debit, credit, commission, routing of requests | the balance lacks what is reserved and was paid |
| Rate limiter (`util/FastRingBuffer.h`, in BrokerProfile) | timestamps of the last second | push, drop the old ones | at most `maxOrdersPerSec_` orders in any second |
| ExecutionEngine (`execution/ExecutionEngine.cpp`) | event ring, table of brokers | `notify` from sessions and strategies, `exec` in its own thread | events reach the broker they are for |
| Session (`network/Session.h`) | sequence numbers, gap buffers, receive buffer, outgoing ring, status | open, read, send, heartbeat, close | messages are handled once, in order; a bad message does not stop the others |
| Connection (`network/Connection.cpp`) | socket, status | connect, send, receive | reports what the socket did |
| Gateway (`gateway/Gateway.h` and the wrappers) | its sessions, the list of the main thread | add session, start, `exec`, stop | every session is served by one thread |
| FeedHandler (`gateway/FeedHandler.h`) | symbols and their MarketStates | parsed messages to MarketState and strategies | the right MarketState gets each event |
| ExecutionHandler (`gateway/ExecutionHandler.h`) | none | parsed reports to the ExecutionEngine | - |
| MarketState, Liquidity (`market/`) | sequence number, status, version, the two sides of the book in sliding price windows | snapshot, update, trade, read | no update applied out of order; the window holds exactly the levels received |
| Strategies (`strategy/`) | event ring, copies of the market | event loop | act on a consistent copy |
| BinaryLogger (`log/`) | ring of records, counter of messages, current file | `logMessage` from any thread, writer thread, rotation, stop | every accepted record is written once |
| Single-writer rings (`util/SWSR...`) | indices | write, read | nothing uses them |
| FIX messages (`message/`) | an object for each type of message, used again and again | parse, build | what is handled, and what is sent, says what was meant |
| Decimal (`util/Decimal.h`) | a scaled integer | arithmetic | the rounding that callers expect |

### How they interact

A socket is read by a `Session` in a gateway thread. The session orders the
messages by sequence number, parses them and calls its handler: the
`FeedHandler` changes a `MarketState` and notifies strategies, the
`ExecutionHandler` calls `ExecutionEngine::notify`. Strategies and sessions put
events into the engine's ring and the engine's own thread takes them out and
calls the `BrokerProfile`, whose `OrderManager` books them; the requests it lets
through go to the ring of outgoing messages of a session and its gateway thread
sends them. Every thread logs through the ring of the `BinaryLogger`. So every
ring has several writers and one reader, and everything behind a ring is
sequential: what races with the `OrderManager` is the broker at the other end.

### What is hard

- **Interleavings** of the lock-free rings and of the version counters of
  `MarketState` and `SymbolState`.
- **Crossing messages**: a strategy cancels or edits an order while the broker
  fills it. Every handler of the OrderManager recomputes what an earlier one
  reserved, from an entry that has changed since.
- **Loss**: a full ring drops the event (`ExecutionEngine.cpp:80`), a session
  may see the same report twice or a gap in the sequence numbers.
- **Limits**: slots, ids, rings and buffers of fixed size.
- **Pieces**: a socket brings and takes any number of bytes; the receive buffer
  wraps, messages are cut, and what is left of one is sent in the next round.
- **Arithmetic**: scaled integers, a division by the shares owned, positions that
  are subtracted as unsigned numbers, decimal points put in by moving digits.

The list in full, each at its line, is under "hazards" in `PROJECT.json`.

## 2. What is modelled

### SlotRing

Every load, compare-exchange and store of the four functions is a step:
`WriteLoad` (the load of the index), `WriteRetry` / `WriteRefused` / `WriteFree`
(the load of the status and what follows from it), `WriteClaim` /
`WriteClaimLost` (the compare-exchange), `WriteAdvance` (the plain store of the
index computed from the one loaded first), `WriteData` (the caller fills the
slot) and `WriteComplete`; a reader has the same steps. The code
uses acquire loads, release stores and acquire-release compare-exchanges; here
the steps interleave as if they were sequentially consistent. What the weaker
orders add is a load that sees a slightly older index or status: an older index
is what the steps already allow for (a thread may stop between its loads), an
older status ends in one more refusal or a lost compare-exchange. Exclusion rests
on the compare-exchange alone, and the content of a slot is published by the
release store and acquire load of its status. `produced` and `delivered` are
history: they change together with the step they record and no guard reads
`delivered`; `produced` numbers the items and bounds them by `MaxItems`.

`BoundedFIFO` is what a queue promises. With one writer and one reader the ring
implements it (`IsFifo`, checked as a refinement by `ring_fifo` and proved for
every size in `RingFifoProofs`): a Put is `WriteComplete`, a Get is the reader's
compare-exchange, and the items inside are read off the slots from `HeadSlot`.

With **two writers** it does not. A writer that is overtaken between its
compare-exchange and its store puts `writeIndex_` back. The items of one writer
may then be delivered out of order, and in the run `ring_wedge` the ring ends in
a state (`Wedged`) where `writeIndex_` stands at a filled slot and `readIndex_`
at an empty one: every write is refused as full, every read as empty, for ever.
Exclusion, no loss and no duplication still hold, for any number of threads,
and those are the theorems.

The calls are **lock-free, not wait-free**. A call comes to an end if from some
time on the other threads claim no more slots (`CallsReturn`, with that
premise); while they do, it may lose every compare-exchange. What makes a caller
look again is a mark, and a mark is always that of a thread that still has the
slot (`MarkedByOwner`), as long as every claimed slot is released. `Session` has a
caller that does not (a message that cannot be built), and there the next one to
come round to that slot looks at it for ever.

### OrderManager and SymbolState

One action per handler (`NewOrder`, `CancelOrder`, `EditOrder`, and
`handle...` for the reports), in the order of the assignments of the code where
it matters. `SymbolState` holds the updates of the totals as operators, because
the manager keeps the same totals over all symbols with the same updates; the
few places where the code differs between the two (the manager leaves the value
of a cancelled order and of an edit in `pendingShareValues`) are spelled out in
the handlers.

The map `orderIDVsEntryMap` has elements 0 .. MaxOrders-1, ids start at 1, and
`orderEntryEnd` marks an id without entry. A request that finds no id, slot,
money or order is refused before anything changes, so it is no step.
`fault` says why the process has ended: a vector subscript out of range (the
default build defines `_GLIBCXX_DEBUG`, `CMakeLists.txt:11`) or the division
of `SymbolState.cpp:36` by zero shares.

The broker is the environment. It answers the requests in the order they were
sent, accepts or rejects each, fills an open order in any portions at its limit
or better, and answers "reject" to a request for an order that is over. A report
is handled in the step that emits it: the queue of `requests` behind it already
supplies the delay between asking and being told. With `MayLose` a report may be
dropped, with `MayResend` the last one may come again.

`parent`, `live`, `traded` and `misEdited` are history that no handler reads:
the order an id was issued for, the orders whose end the manager has not been
told, the value of the fills at the limit and as paid, and whether an edit went
to an order that was over, overtook another edit, or had its reject delivered to
the entry of another order.

`OrderTotals` adds the properties that sum over the open orders and over the
requests under way: what the totals and the balance must come to.

### LogFileWriter and BinaryLogger

`LogFileWriter` is the file writer: one `write(msg)` is one of `Buffered`,
`Flush`, `Rotate`, or one of the ways it fails (`FlushFails`,
`FlushWithoutFile`, `RotateCloseFails`, `RotateOpenFails`), each with what it
leaves behind: a failed write may have written some of its bytes (`Torn`), a
failed open leaves the descriptor at -1. `writeFull` continues a short write on
the descriptor `fd + totalWrittenBytes` (`BinaryLogger.cpp:13`); it is assumed
that no descriptor with that number is open, so that the write fails. (If one
is, the rest of the buffer goes there and the write counts as done.) A file is the sequence of what was
written to it, with its length beside it; `currentBufferSize_` and
`currentFileSize_` are counted as the code counts them.

`BinaryLogger` composes it with `SlotRing`, of which it is an instance with the
logging threads as writers and the writer thread as the only reader. Around the
steps of the ring there are the steps of `logMessage` (publish, count, notify),
of `exec` (test `stop_`, load the counter, look, wait, sleep, copy, release,
write) and of `stop()`. `wait` blocks while the counter has the value that was
loaded, and a notification makes it look again.

`LogContents` adds the properties that compare the files, the rotated ones and
the current one with its buffer, with what was taken out of the queue.

### FixTags, FixMessageParser and FixMessageBuilder

Operators, without state. A field of a message is a tag, a value and whether the
value can be read (`ok`); digits, separators and lengths are left out, and a
byte of `Session` stands for several. What is kept is the control: which tags
each parse function has a case for, that a loop ends at the first tag without
one, how the entries of market data are told apart, what a value that cannot be
read does to the message, what `reset()` leaves of the object that is used again
(`KeptByReset`), which codes a conversion has no case for (one of them reaches
the end of the function without a return, `UNDEFINED`), and that an update whose
symbol is missing or not known ends the program (`HasNoPlace`: the checked
subscript of `util/Message.h:101`). The builder adds the fields of a request in
the order of the code and refuses a message that lacks a required one, grows
beyond its buffer (of which an integral field leaves one byte unused, `Spare`,
`FixMessageBuilder.h:130`) or whose body is longer than its length has place for
(`LargestBody`, 999 in the code). `finalizeOutMessage` numbers it when it is sent
and adds the checksum; a number that does not fit its place (`LargestSeqNum`) stops
both, and a checksum that does not fit leaves at most its tag.

### Session

`Session` and its `Connection`, served by the gateway's thread (`gateway`), with
another thread (`engine`) that queues requests. One action per outcome of each
call: opening, with a logon that may not be built (`OpenUnbuilt`); a round of
`Gateway::exec` with `sendMessages` (`SendNothing`, `TakeMessage`, `SendSome`,
`SendFails`), `readMessages` (`Receive...`, then `Parse...` for what the parser made
of the bytes, among them `ParseAborts`) and `checkAndSendHeartBeat`; and
`addMessageToSend`. The broker is a `script` of messages of which TCP brings any
number of bytes at a time.

`addMessageToSend` is called by both threads, the gateway's for a heartbeat, and
both write into the ring of `SlotRing`, here with requests for data. A call
(`caller`) loads the index (`Ask`), tests and claims the slot (`LookAgain`, `Refused`,
`Claim`), stores the next index (`Advance`), builds and completes the message
(`Complete`), or leaves the slot marked (`abandoned`) and closes socket and session
in two steps (`Disconnect`, `Close`). Test and compare-exchange are one step: no
other step tells a test that finds the slot free from one that comes later. The
one reader needs one step (`TakeMessage`). `overtaken` says that a writer stored
an index that had been moved since it loaded it, which is what can wedge the
ring.

Positions in the stream are counted from its first byte, as `start_`,
`parseStart_` and `end_` are. Where more bytes came than the buffer holds, the
parser sees later ones in their place (`Shown`). `HeaderMinimum` is the length
`parseHeader` asks for before it looks, and `lengthEnds` how many bytes of a message
come up to the end of its length: a header that is cut between the two cannot be
read (16 bytes, of the 17 that a length of four digits takes). `handled`, `sent`,
`wire`, `closes` and `overtaken` are history.

### Liquidity and MarketData

`Liquidity` is one side of a book, a window of volumes that slides with the
prices it is given, as operators: `BidUpdate` and `AskUpdate` return the side and
the status, `BidCopy` and `AskCopy` what a strategy takes of it. The units are
those of the code: a price has a scale that a tick has not (`Liquidity.h:104`), and
the price that stands for none is made from an integer and so is the raw -1
(`NoPrice`).

`MarketData` takes the broker's messages through `FeedHandler::notify` to the
`SymbolMarketState` of each symbol, entry by entry, and lets a strategy read at
the same time: it loads the count of updates, copies the bids, copies the
offers and loads the count again. A side is changed, and copied, in one step;
copies of a side that is half changed are thrown away by the same test, which
is all that is asked of them. The order of loads and stores is that of x86.
The strategy handles what it was notified of at any later time and again, so
the queue in between is left out. What a subscript or a reference that is not
good would do is a `fault` and the end of the behaviour: `trade` (a trade
arrives; there is no room for one), `snapshot` (a snapshot after the states were
destroyed), `buffer` (the early updates are appended to themselves without
room for it), `freed` (a strategy reads a state that was destroyed).
When a snapshot cannot be booked, `addUpdate(tmpBuffer_)` appends the early updates
to the vector they are read from (`MarketState.cpp:40-43`). A vector keeps its
capacity when it is cleared, so `longest`, the most it ever held, says whether
there is room: with it the entries stay in place, and are then cleared
(`ReplayIntoItself`); without it they are read after they were moved
(`ReplayOutOfRoom`). A snapshot may have any number up to the last update
(`MarketState.cpp:34` does not look at it).
`came`, `looked`, `refused`, `outdated` and `books` are history: `refused` are the
updates that were kept for a snapshot that could not be booked, `outdated` the
symbols with a snapshot that was older than their last number or than an update
that was not kept.

### RateLimiter

The check and the counting of `BrokerProfile`, which read the clock at different
times, with the ring of timestamps and a limit that may be set to anything
between two requests. What the OrderManager does with a request matters only by
whether it is counted.

## 3. What the runs check

| Run | Instance | Shows |
|---|---|---|
| `ring_fifo` | 1 writer, 1 reader, 3 slots, 5 items | The ring refines `BoundedFIFO`; it refuses only when full or empty; everything written is delivered (with fairness). 5 items go around 3 slots more than once. |
| `ring_shared` | 2 writers, 2 readers, 2 slots, 2 items each | `SlotExclusive`, `MarkedByOwner`, `NothingLost`, `NothingDuplicated`; `CallsReturn` (with fairness, and the others claiming no more). Both index stores can be overtaken and both indices wrap twice. |
| `ring_wedge` | 2 writers, 1 reader, 3 slots | *Violation*: the wedged state. |
| `orders_cancel` | 2 slots, 5 ids, volume 2, prices 1 and 2, both sides | Orders and cancels crossing fills, acks and rejects: `BalanceExact`, `SymbolValueExact`. |
| `orders_edit` | 2 slots, 5 ids, volume 2, edits to 1 and 3 | Edits crossing fills and cancels: `PendingSharesExact`, `MoneyNeverCreated`, `SymbolAgrees`. |
| `orders_unreliable` | 2 slots, 5 ids, lost and repeated reports | `SlotsSound`, `ReportsFindOrder`, `FilledNeverAhead`. |
| `logger` | 1 logging thread, 7 records, files of 8 bytes, a buffer of 4, 1 failure | `TypeOK` with the buffer bound, `LogIsWhatWasTaken`, `OverrunBounded`, `LogInQueueOrder`, `FailureCostsOneRecord`; `AcceptedIsTaken` (with fairness): no notification is slept through. |
| `logger_stop` | 1 logging thread | *Violation*: `stop()` does not return (`BinaryLogger.cpp:97`). |
| `session` | 7 scripts of 2 to 5 messages in any pieces, 5 requests of the other thread, 2 logons, a queue of 2 slots, 2 messages queued | `HandledInOrder`, `HandledAsStated`, `ClosedForAReason`, `WireIsWhole`, `SentAsAsked`; `QueueDrains` (with fairness, unless the writers overtook each other). |
| `session_connect` | the same, 1 message queued | *Violation*: a session whose `connect()` is in progress never becomes ready (`Session.h:272`). |
| `market` | 2 symbols, a window of 2 ticks, 4 messages, numbers skipped by 1 | `BooksAreWhole`, `NoUpdateForgotten`, `GapIsReal`, `TellsWhatChanged`. |
| `rate_limit` | a ring of 2, limits 1 to 3, a second of 2 ticks, 4 requests counted, 6 ticks | `RateLimited`, `RefusedOnlyAtLimit`. |

Every module with state has a type invariant, checked by one of its runs.

**Bounds.** `MaxItems` bounds what a writer puts. Two slots and five ids are
enough for: an order that is partly filled, cancelled and filled while both
wait; an order that is edited and cancelled; a slot that is released and taken
again while an id of its former order is unanswered; both slots in use; running
out of ids. Volume 2 gives partial fills, prices 1 and 2 give fills better than
the limit. The deposit is chosen so that some orders cannot be paid.
For the logger, 7 records of two sizes fill buffers to different marks, flush
and rotate several times, and the failure may hit any of the system calls. There
is one logging thread because the queue can wedge with two (`ring_wedge`); what
its queue promises with more is proved.
The scripts of `session` have every type of message a broker sends, repeated
numbers, gaps, bodies and headers that cannot be read, a tag nobody knows and
values of an earlier message that must not show in a later one, and an update without a
symbol; a buffer of 4 bytes for messages of 2 to 4 wraps, overflows and is
overrun, and with `HeaderMinimum` = 2 the length of a message of 4 can be cut. The
requests give, in a `BufferSize` of 5 and a `LargestBody` of 4, a message with its
checksum, one whose checksum loses its last byte, one without room for the tag of
it, an order without its price and one with a price below a tenth; one of the
logons, and a heartbeat that repeats a long test id, are too long to be built.
With `MaxSent` = 2 and a queue of 2 slots both threads can be in a call at once,
overtake each other and come round to each slot. A heartbeat may come on top of
`MaxSent`, so that the number 3 is reached, which no longer fits (`LargestSeqNum` = 2).
`market` has prices on, below and above the window, levels that are deleted, a
message for two symbols of which the first has a gap, snapshots that are older
than what came before, and an empty one. With 4 messages there are snapshots
before, between and after updates, of any number that was reached, a replay of
what was kept, one into itself with room and one without.
`rate_limit` goes through the ring twice, with limits below, at and above its
size.

Deadlock is checked for the ring alone. The others may stop, and so may the
program: an OrderManager without ids whose orders are over, a logger with
nothing to log or stopped, a closed session, a broker that sends nothing more.

**Fairness** (`SlotRing!Fairness`): a thread inside a call of the ring goes on
(a running thread is scheduled again), and readers keep calling `getReadSlot`,
because every reader of the program does so in the loop of its thread. No
fairness is assumed for starting a write: nobody has to log or trade.
`BinaryLogger!Fairness` says the same of its threads; `stop()` need not be
called, and a sleeping writer thread has nothing it could be scheduled for.
`Session!FairSpec`: the gateway's thread runs, a call of the other thread comes
to its end, and the parser returns (`[]<>(gateway # "parsing")`: one step of
`Parse` always leads out of it, so this is weak fairness of that step). The
gateway's fairness includes that a socket that would block takes bytes in the
end or fails, since `sendMessages` loops until it does; the broker need not send
anything. A script has an end, which says more than the code: `readMessages` reads
on for as long as bytes come, so a broker that never paused would keep the
gateway's thread from sending. `QueueDrains` is about brokers that pause. OrderManager, MarketData and RateLimiter have no fairness: they promise
nothing that must happen.

### Further observations

These follow from the models, or were met in writing them, but no comment or
test of the repository says otherwise, or no run is spent on them.

Orders and money:

- `PendingSharesExact` and `MoneyNeverCreated` need `~misEdited`. An edit of an
  order that is filled before the broker sees the edit is debited; its reject
  finds the entry of whatever order took the slot.
- `MoneyNeverCreated` keeps the price of edits fixed: an edit that lowers the
  price and raises the volume, and is rejected after a fill, credits more than
  it debited, because the cost is recomputed with the new `filled_`.
- An edit that lowers the value of an order, or a fill better than the limit,
  is not credited (hence `<=` with edits, and the improvement of the fills in
  `BalanceExact`).
- A fill between a cancel and its answer leaves the filled shares in
  `pendingCancellations_` for ever, in the manager and in the SymbolState alike.
- The manager's own `pendingShareValues_` is not reduced when a cancellation is
  acknowledged; that of the SymbolState is. So `SymbolValueExact` is about
  the SymbolState, and `SymbolAgrees` leaves the values out.
- A buy that brings a short position back to zero divides by zero.
- The id check lets the id `maxOrders_` through (`OrderManager.cpp:57`), one
  more than the map has elements; an edit reads `freeEntries_[freeEntryPtr_]`
  even when no slot is free (`OrderManager.cpp:246`).
- No commission is ever debited: `Decimal::operator*=` divides before it
  multiplies, so that the product of `BrokerProfile.cpp:164` is 0, also for the
  example in its comment. `BalanceExact` holds with that.
- The current id of an order that was edited survives its cancellation
  (`OrderManager.cpp:299`), and the id of a cancel may lead to the entry of
  another order (`:265`). No invariant breaks: where such an id leads is free or
  another live order, and the broker no longer uses it.
- A limit above the size of the ring of timestamps is no limit: there are never
  that many to count (hence the premise of `RateLimited`).
- `ExecutionEngine::addBrokerProfile` always refuses (it compares the id with
  the size of a vector that was only reserved), so as the code stands no event
  reaches an OrderManager through the engine.

Logger:

- With several logging threads the queue of the logger can wedge like any other
  ring (`ring_wedge`); from then on every record is refused. So `AcceptedIsTaken`
  is checked with one.
- Records still in the queue when the writer thread sees `stop_` are never
  written: `stop()` closes the file after the record at hand.
- A rotation writes the last buffer twice, since `closeFile` writes it again
  (`BinaryLogger.cpp:220` and `:258`); `LogIsWhatWasTaken` says that this is
  all that is repeated.
- After a failed open the descriptor stays at -1 and every later record is lost,
  while `logMessage` keeps returning true.

Session and messages:

- One message is parsed for each `receive` (`Session.h:332`): what came with it
  waits until more bytes come.
- The entries of `gapMsgQueue_` are copies of one whose array was reserved, so
  they have no room: any gap closes the session, and the replay after it finds
  no entry that is valid.
- `appendToRingBuffer` moves `start_` by the bytes it puts at the beginning of
  the buffer as if they had been read (`Session.h:520`): after some rounds the
  session is closed for an overflow although there is room.
- A message that lacks its last byte closes the session, since `parseHeader`
  asks for one byte less than it reads (`FixMessageParser.cpp:112`), and so does
  one of which 16 bytes are there, if its length has four digits (`:87`; the fields
  read up to `:109` take 17). The failed check of a checksum does not.
- `outQueue_` has two writers, the heartbeat of the gateway's thread and the
  thread that sends, and can wedge like any other ring (`ring_wedge`): a message
  may then wait until another one is queued, or for ever. `QueueDrains` leaves a
  session out in which a writer was overtaken.
- The slot of a message that cannot be built stays marked: a caller that comes
  round to it loops in `getWriteSlot` for ever, also when it is the gateway's
  thread with a heartbeat.
- Where more came than the buffer holds, the parser sees later bytes in the place
  of earlier ones and goes on from the earlier place, so it may come to messages
  that lie before one it has handled. They are handled in the order of their
  numbers still (`HandledInOrder`), but not in that of the stream; so
  `HandledAsStated` says of a member that `reset()` keeps that a message with a
  number up to this one said it.
- A LOGOUT, and a body that cannot be read, is skipped without its number
  being counted (`FixMessageParser.cpp:157`): the next message is a gap.
- `reset()` keeps some members (`Message.cpp:55`): a report without a price has
  that of an earlier one.
- The stop price of a new order is sent as its price
  (`FixMessageBuilder.cpp:313`); a price below a tenth gets its decimal point in
  a wrong place (`:561`); a message that fills its buffer is sent without
  checksum (`Session.h:243`).
- Some functions that return a value reach their end without one
  (`FixTags.cpp:241`, `Gateway.h:162-190`), `testString_` is read before it is
  written (`Session.h:178`), and a symbol that is not known is -1
  (`Message.h:101`).
- `Gateway::addSession` has no instance that compiles (it leaves the type of
  `unique_ptr` to be deduced), so that only the main thread can serve sessions.
  A `start()` that fails leaves the sessions it opened open, and `stop()` before
  `start()` has set `running_` is without effect. A `SessionWrapper` that is moved
  loses its `delete_` (`SessionWrapper.cpp`), and every wrapper is moved once.

Market data and strategies:

- Ticks are not scaled while prices are (`Liquidity.h:104`): a window covers far
  fewer ticks than it has places, and the default tick of 0.01 becomes 0, a
  division by zero.
- The start of a window is compared with `NoPrice` to know whether it was used
  (`Liquidity.cpp:108` and `:245`). `NoPrice` is made from an integer and so is the raw
  -1 (`Liquidity.h:10`, `Decimal.h:39`), and a window may come to begin there: with a
  tick of 1 and a window of 2 an offer at 0.9999 does it (9999 - 10000). The
  next update moves it without moving its levels, which then have other prices;
  and an offer that is refused as out of range afterwards changed the book
  without anybody being told. `TellsWhatChanged` leaves this case out
  (`TakenForUnused`). Bids are always booked after the move.
- A snapshot is booked on top of what is there, its trades as bids; only the first
  message after it is booked at once, later ones are kept for the next snapshot.
  What the replay of the kept ones finds missing is not looked at.
- A snapshot that is older than the book sets its number back
  (`MarketState.cpp:34`): the next update then looks like a gap, although the broker
  skipped none, and all states are destroyed (`outdated` in `GapIsReal`).
- A snapshot that cannot be booked (an empty one, or one with all its prices out of
  range) forgets the early updates that were kept, or reads them where they no
  longer are (`MarketState.cpp:41`; `refused`, and the fault `buffer`).
- A gap of one symbol destroys the states of all (`FeedHandler.h:98`): what comes
  next reads or indexes what is gone (faults `freed` and `snapshot`).
- The first trade after a snapshot ends the program: `trades_` has no elements, only
  room for them, and the index is taken modulo 512 (`MarketState.cpp:122`).
- `MeanReversion::handleEvents` takes one slot and handles it for ever
  (`MeanReversion.cpp:14`); `StrategyEngine` binds a reference to itself
  (`StrategyEngine.cpp:48`) and its table holds null pointers, so no strategy is
  run as the code stands.

## 4. What is proved

For all values of the constants that satisfy their assumptions, by TLAPS.

**SlotRingProofs** (any number of writers, readers, slots, items):
`Typing` (`TypeOK`), `Exclusion` (`SlotExclusive`), `Ownership` (`MarkedByOwner`),
`NoLoss` (`NothingLost`), `NoDuplication` (`NothingDuplicated`). The inductive invariant
joins these with two facts they do not contain: where a thread may be in the code when it
owns a slot, and which item a slot that is being filled holds. Exclusion is
inductive because the compare-exchange is the only step that makes an owner and
needs a status that no owner's slot has; the indices, which can be stale, occur
in the invariant only through their type. That is why exclusion survives
what breaks the FIFO order.

**RingFifoProofs** (one writer and one reader, any size, any number of items):
`RingIsFifo` (`IsFifo`, the refinement of `BoundedFIFO`), `RefusalMeansFull`,
`RefusalMeansEmpty`. The theorems have the premise `OneEach`, without which they are
false. The invariant `FifoInv` adds to that of `SlotRingProofs` what holds only
with one thread on each side: the slots from the head on are exactly those of
the items that wait, in their order (`Queued`); and the index a thread
loaded is still the true one (`WriterInv`, `ReaderInv`), so that nobody is
overtaken. Each step of the ring is then a Put (`WriteComplete`), a Get
(`ReadClaim`) or a stutter of the abstract queue; that the slots from any one
on are all the slots, each once, is arithmetic modulo the size (`FromIsSlot`,
`FromOnce`, `FromAll`).

**OrderManagerProofs** (any number of slots and ids, any volumes and prices, with or
without lost and repeated reports): `Typing` (`TypeOK`), `Soundness`
(`SlotsSound`), `Finding` (`ReportsFindOrder`). Neither of the last two is
inductive alone. A slot may be released only if the order was live, so one needs
that an id of a live order leads to the slot of that order (`Links`), that ids
are never issued twice (`Fresh`, `Parents`), that requests carry ids of their
own (`Queue`), that the broker does not fill an order the manager takes
for finished (`BookLive`), and, for a report that comes twice, that the second
one finds nothing (`ReportSafe`). The proof goes in two stages: what a report
does is one of two things, keep the slot (`Keeps`) or release it (`Releases`),
shown once per report type in the `...Effect` lemmas; and each action of the
broker or a strategy preserves the invariant given that effect. That the pointer
of the free list can be moved back at all (it is not 0) is a counting argument
(`SlotInUse`): the free slots are pairwise different and a slot is in use, so
there are fewer of them than slots.

**OrderTotalsProofs** (any number of slots and ids, any volumes and prices):
`NeverAhead` (`FilledNeverAhead`) and `Agreement` (`SymbolAgrees`) for any
reports, lost and repeated ones included; `PendingExactly`
(`PendingSharesExact`) if every report arrives once; `BalanceExactly`
(`BalanceExact`) and `ValueExactly` (`SymbolValueExact`) if, besides, nothing
is edited (`EditVolumes = {}`); `MoneyBounded` (`MoneyNeverCreated`) if, besides,
edits keep the price (`OnePrice`). These are the settings of the runs that check
them, and without each the property is false (see the observations on orders). A
sum over a finite set is unfolded by induction over its subsets
(`SubsetInduction`, from the well-foundedness of the strict inclusion): adding or
taking away one element, or changing the value at one, changes the sum by that
value. A step then changes the sums by the part of one slot and of one request,
the totals by the amount the handler computed, and `Balanced` says that the two
are equal. What the handler recomputes is right because the entry knows the terms
of its order (`TermsKnown`), exactly what the broker has filled (`FilledExact`), and
the one edit under way (`EditsKnown`, `OneEdit`); these are the conjuncts of
`Terms`, which is inductive together with `IInv` of `OrderManagerProofs`, and
`Accounts` says that nothing is off.

**BinaryLoggerProofs** (any number of logging threads and records, any sizes, any
failures): `QueueIsSlotRing` shows that the logger implements `SlotRing` with its
threads, so the theorems of `SlotRingProofs` hold of its queue
(`QueueExclusion`, `NoRecordLost`); `Typing` (`TypeOK`) includes that the buffer
is never filled beyond its end, and uses that what the writer thread copies is a
record, which the types of the ring say of the history `delivered`; `Overrun`
(`OverrunBounded`) rests on `Counted`: what was written to a file never exceeds
`currentFileSize_`, and the file fits its limit with what is buffered, except
after a flush, when the buffer holds a single record.
What the files say: `LogIsExact` (`LogIsWhatWasTaken`), `FailuresCost`
(`FailureCostsOneRecord`) and `LogKeepsOrder` (`LogInQueueOrder`). For the log a
step of the composed system does one of four things (`StepKinds`): nothing, take a
record, write it, close the file; and a record that is taken is new
(`TakenIsNew`), since nothing is delivered twice. `FailuresCost`
counts: the set of missing records grows by at most the one at hand, and only
in a step that raises `failures` (`CostInv`). `LogIsExact` says how far the files
reach in the queue (`Reaches`): each file holds the records from where the one
before it ended. `LogKeepsOrder` needs that what is at hand was taken last
(`HandInv`) and that nothing is shown that was not taken (`KnownInv`).

**SessionProofs** (any scripts, requests, sizes and pieces):
`InOrder` (`HandledInOrder`): `expected` and `handled` change in one step only, and
there the number of the message is the expected one; nothing is assumed of the
buffer or of the parser.
`WholeMessages` (`WireIsWhole`) and `SaysWhatWasAsked` (`SentAsAsked`): `OutInv` has five
parts. Every slot of the queue that is not free holds what the builder makes of a
request, and a complete one was built (`RingInv`); a caller that has claimed its
slot is the only one that fills it (`CallerInv`), however stale the index is it
loaded; what was sent was built and numbered (`SentInv`); the message at hand is
the last one numbered and its slot is being read (`CurrentInv`); and which byte
comes next on the wire (`WireInv`). What the builder's recursive function
computes is followed by a lemma about recursion over an interval
(`RecursionWorks`), so that a size is a running total and the fields are those of
the layout. That a message that fits its buffer and has room gets its checksum
follows from the running totals.
`ClosedWithReason` (`ClosedForAReason`): `StreamInv` says that the session is at
the end of the message it looked at last and has seen none with a number to
come, unless it was overrun; from that each call that closes has its reason, and
the reason stays (`ReasonInv`), since what lies in the stream is not moved after
it, and an abandoned slot stays abandoned. `SessionTypes` (`TypeOK`) follows from
these.
`TellsAsStated` (`HandledAsStated`): every member of an object was said by a message
with a number up to the expected one or is unset (`ObjectsSay`), and what a
handler got of a message is what was read of it (`Told`). The entries of a message
correspond one to one to the fields that begin one (`EntriesAre`), and the kth of
them is found by counting (`NthIs`).
Where a size matters (all but the first and the last) the theorems have the
premise `WidthsAreNat`: that the bytes a field takes are a natural number, which
says of the constant operator `Width`, for all its arguments, what TLC can only
evaluate for the ones that occur.

**MarketDataProofs** (any symbols, messages, prices and windows):
`ReadsAreWhole` (`BooksAreWhole`). The invariant `ReadInv`: the count of a state is
odd exactly while a call is changing its book (`CountsTell`); a strategy whose
count is even and still the current one has copied from the book there is,
which is among those it may go on with (`CopiesCurrent`); and one that has
decided has such a book (`HasDecided`). What an update does to a side is not
needed. It is for `FeedTypes` (`TypeOK`): wherever a window slides, its subscripts
stay in it.
`NothingForgotten` (`NoUpdateForgotten`) and `GapsAreReal` (`GapIsReal`), for symbols
without an outdated snapshot: `FeedInv` follows an update from the message over what is kept and replayed to the book.
It says that a state has looked at everything up to its number (`Ledger`), that
what is kept has come, in ascending order and before what is on its way
(`Buffers`), that a state with a snapshot keeps nothing
unless it is being replayed (`NothingKept`), and what the call under way may
still meet (`UpdateCall`, `SnapshotCall`).
`TellsOfChanges` (`TellsWhatChanged`): while a message is taken apart, a book that
differs from the one before it is noted or belongs to a call whose status says so
(`TellInv`). An update that is out of range leaves its side as it was
(`OutOfRangeKeeps`), and a message whose next number is missing has no entry left
to change that status (from `UpdateCall`).

**RateLimiterProofs** (any ring, limits, second and clock): `RateTypes`, `RateIsLimited`
(`RateLimited`), `RefusalsAreDue` (`RefusedOnlyAtLimit`). The invariant says that the ring
is the last part of what was counted (`RingIsRecent`), that time does not go back
(`InTime`), and that what is no longer in the ring is old or was pushed out by as
many as the ring holds (`GoneForAReason`).

The assumptions are those on the constants, which TLC evaluates in the runs: sizes
are positive, volumes and prices are positive naturals, writers and readers are
different threads, a record fits twice into the buffer and once into a file (1026
bytes of 102400); a message has at least one byte and one field and ends with its
checksum, `Unset` is no value a message can state, the length of a message ends
before the message, every number that fits its place takes the whole of it, a
price is a number, a request has a type the
builder knows and does not set what the builder sets. Premises of
single theorems are named above: `OneEach`, `Exact`, `EditVolumes = {}`, `OnePrice`,
`WidthsAreNat`.

**Only model-checked**: liveness (`EverythingDelivered`, `CallsReturn`,
`AcceptedIsTaken`, `QueueDrains`), which is beyond the prover. Every
invariant of every passing run is stated by a theorem. The library's induction
theorems take an operator as a parameter and cannot be used; where data is
recursive or summed, induction is done over the members of a set instead (the
finite subsets of a set, the beginnings of an interval), for sets that can be
written down.

## 5. What is not modelled

- ExecutionEngine: the table of broker profiles. `addBrokerProfile` always
  refuses, so that the first event would index an empty vector. Its queue is
  `SlotRing`, and what a full queue drops is `MayLose` of the OrderManager.
- ExecutionHandler, which forwards reports and has no state.
- Gateway: the list of sessions that one thread serves in turn; a session is
  served alone here. A socket that would block holds up the others of the
  list, and stays in `sendMessages` for as long.
- Connection: `checkStatus`, which is asked only of a session that is CONNECTING
  (none ever is), and the options of the socket.
- SymbolState: averages, the best bid, and the copy constructor with its count:
  nothing copies a state while another thread changes it.
- BrokerProfile: the limits on size and price, which are stored and never used.
- Strategies: the windows of trades and the rule of trading, arithmetic on doubles;
  `StrategyEngine`, which runs no strategy.
- Logger: the readers of its files, the registration and the formats of records,
  calls of `logMessage` before `start()`.
- The single-writer rings, which nothing uses, so that nothing says how they are
  meant to be called.
- Text: digits, separators, the layout of log records, wording.
- `main.cpp`, which builds a logger and two gateways and returns.

## 6. Plan

What is left, in the order of its worth:

1. The sessions of a Gateway as a list, with the time that one that would block
   costs the others, over an abstraction of `Session`.
2. The bytes of the files and what becomes of a failed write as an abstract log
   that the logger implements, step by step.
3. The OrderManager behind `RateLimiter` and the engine's queue, once the engine
   can have a profile.
