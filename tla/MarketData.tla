------------------------------ MODULE MarketData ------------------------------
(***************************************************************************)
(* The way of market data: FeedHandler::notify takes the messages of the   *)
(* broker to the SymbolMarketState of each symbol and tells the strategies *)
(* which symbols changed; a strategy reads a state while the feed may be   *)
(* changing it, and believes what it read if the count of the updates was  *)
(* even and did not change (MeanReversion::handleEvent).                   *)
(*                                                                         *)
(* The session brings the messages in order (Session).  The broker numbers *)
(* the updates of each symbol; it may skip a number, and a snapshot may be *)
(* older than updates it has sent.  The queue between the feed and a       *)
(* strategy is left out: the strategy handles what it was notified of at   *)
(* any later time, and again.  One side of a book is changed, and read, in *)
(* one step.  What subscripts, iterators and pointers that are not valid   *)
(* would do is not modelled: it is a fault, and the end.                   *)
(***************************************************************************)
EXTENDS Liquidity, Sequences

CONSTANTS
  NumSymbols,   \* the symbols of the configuration
  Incremental,  \* what a MARKET_DATA message may say: of each symbol a sequence of quotes
  Snapshots,    \* what a SNAPSHOT message may say: sequences of quotes
  Room,         \* the size of a strategy's own book
  MaxMessages,  \* bound of the model: messages of the broker
  MaxSkipped    \* bound of the model: numbers that are skipped at a time

Symbols == 0 .. NumSymbols - 1
Quotes == [type : {"BID", "OFFER", "TRADE"}, price : Nat, volume : Nat]

ASSUME MarketDataAssumption ==
  /\ NumSymbols \in Nat \ {0} /\ Room \in Nat \ {0}
  /\ MaxMessages \in Nat /\ MaxSkipped \in Nat
  /\ \A news \in Incremental, s \in Symbols : news[s] \in Seq(Quotes)
  /\ \A quotes \in Snapshots : quotes \in Seq(Quotes)

VARIABLES
  states,    \* symbolMarketStates_
  lost,      \* symbolMarketStates_ was cleared
  changed,   \* symbolChangeStatus_
  feed,      \* where notify is: the message, the symbols to come and the call under way
  requested, \* the subscription types of the requests that were queued
  notified,  \* the symbols with a MarketChangeEvent
  strategy,  \* where a strategy is, and what it has copied so far
  fault,     \* what ended the program
  published, \* the number of the last update of a symbol the broker had
  messages,  \* how many messages came
  came,      \* the numbers of the updates of a symbol that came
  looked,    \* those that the state of the symbol has looked at
  refused,   \* those kept for a snapshot that could not be booked, until one is
  outdated,  \* the symbols with a snapshot older than their last number, or an update not kept
  books      \* the whole books there were since the strategy last began to read

history == <<came, looked, refused, outdated>>
feedVars == <<states, lost, changed, feed, requested, notified>>
vars == <<feedVars, strategy, fault, published, messages, history, books>>

-----------------------------------------------------------------------------
(* longest: the most entries that were added to tmpBuffer.                 *)
NoState ==
  [status |-> "INVALID", lastRptSeq |-> 0, tmpBuffer |-> << >>, longest |-> 0, updateCount |-> 0,
   bid |-> NoLiquidity, ask |-> NoLiquidity]

NoCall == [kind |-> "none", entries |-> << >>, first |-> 0, status |-> "UNKNOWN"]

Silent == [s \in Symbols |-> << >>]
BookOf(state) == [bid |-> state.bid, ask |-> state.ask]
BooksOf(all) == [s \in Symbols |-> BookOf(all[s])]

Idle == [at |-> "idle", todo |-> {}, message |-> Silent, before |-> BooksOf([s \in Symbols |-> NoState]),
         symbol |-> 0, call |-> NoCall]

Init ==
  /\ states = [s \in Symbols |-> NoState]
  /\ lost = FALSE
  /\ changed = {}
  /\ feed = [Idle EXCEPT !.at = "off"]
  /\ requested = {}
  /\ notified = {}
  /\ strategy = [at |-> "waiting", symbol |-> 0, count |-> 0, bid |-> NoLiquidity,
                 ask |-> NoLiquidity]
  /\ fault = "none"
  /\ published = [s \in Symbols |-> 0]
  /\ messages = 0
  /\ came = [s \in Symbols |-> {}]
  /\ looked = [s \in Symbols |-> {}]
  /\ refused = [s \in Symbols |-> {}]
  /\ outdated = {}
  /\ books = {}

Running == fault = "none"
FeedAt(place) == Running /\ feed.at = place

Ends(cause) ==
  /\ fault' = cause
  /\ UNCHANGED <<feedVars, strategy, published, messages, history, books>>

Counted(state) == [state EXCEPT !.updateCount = @ + 1]

(* A call that changed the book of a symbol is over: there is a whole book.*)
Publish(s) ==
  books' = IF strategy.symbol = s THEN books \cup {BookOf(states'[s])} ELSE books

-----------------------------------------------------------------------------
(* notify() of a LOGON: all the symbols are asked for, unless the queue is *)
(* full.                                                                   *)
LogonSuccess ==
  /\ FeedAt("off")
  /\ requested' \in {{}, {"SNAPSHOT_AND_UPDATE"}}
  /\ feed' = Idle
  /\ UNCHANGED <<states, lost, changed, notified, strategy, fault, published, messages,
                 history, books>>

(* The broker answers a request.                                           *)
NewMessage ==
  /\ FeedAt("idle")
  /\ requested # {}
  /\ messages < MaxMessages  \* bound of the model
  /\ messages' = messages + 1

Numbered(quotes, first) ==
  [i \in DOMAIN quotes |-> [type |-> quotes[i].type, price |-> quotes[i].price,
                            volume |-> quotes[i].volume, rptSeq |-> first + i - 1]]

NumbersOf(entries) == {entries[i].rptSeq : i \in {j \in DOMAIN entries : entries[j].type # "TRADE"}}

(* notify() of a MARKET_DATA: one symbol after the other.  A vector that   *)
(* was cleared has none.                                                   *)
MarketData(news, skipped) ==
  LET message == [s \in Symbols |-> Numbered(news[s], published[s] + skipped + 1)]
  IN /\ NewMessage
     /\ published' = [s \in Symbols |-> IF news[s] = << >> THEN published[s]
                                        ELSE published[s] + skipped + Len(news[s])]
     /\ came' = [s \in Symbols |-> came[s] \cup NumbersOf(message[s])]
     /\ feed' = [Idle EXCEPT !.at = IF lost THEN "idle" ELSE "symbols",
                             !.message = message,
                             !.before = BooksOf(states),
                             !.todo = {s \in Symbols : ~lost /\ message[s] # << >>}]
     /\ changed' = {}
     /\ UNCHANGED <<states, lost, requested, notified, strategy, fault, looked, refused, outdated,
                    books>>

Turn(s) == s \in feed.todo /\ \A r \in feed.todo : s <= r

(* A mistake: without a snapshot an update is dropped.                     *)
AddUpdateDropped(s) ==
  /\ FeedAt("symbols")
  /\ Turn(s)
  /\ states[s].status # "SNASHOT_ADDED"
  /\ feed' = [feed EXCEPT !.todo = @ \ {s}]
  /\ UNCHANGED <<states, lost, changed, requested, notified, strategy, fault, published,
                 messages, history, books>>

(* addUpdate(): without a snapshot the entries are kept for later, and so  *)
(* are all but the first that come after one.                              *)
Keeping(state, entries) ==
  LET buffer == state.tmpBuffer \o entries
  IN [state EXCEPT !.tmpBuffer = buffer,
                   !.longest = IF Len(buffer) > @ THEN Len(buffer) ELSE @]

AddUpdateNoSnapshot(s) ==
  /\ FeedAt("symbols")
  /\ Turn(s)
  /\ states[s].status # "SNASHOT_ADDED"
  /\ states' = [states EXCEPT ![s] = Keeping(@, feed.message[s])]
  /\ feed' = [feed EXCEPT !.todo = @ \ {s}]
  /\ UNCHANGED <<lost, changed, requested, notified, strategy, fault, published, messages,
                 history, books>>

Call(kind, s, entries) ==
  [feed EXCEPT !.at = "entries", !.todo = @ \ {s}, !.symbol = s,
               !.call = [NoCall EXCEPT !.kind = kind, !.entries = entries,
                           !.first = IF entries = << >> THEN 0 ELSE entries[1].rptSeq]]

AddUpdate(s) ==
  /\ FeedAt("symbols")
  /\ Turn(s)
  /\ states[s].status = "SNASHOT_ADDED"
  /\ states' = [states EXCEPT ![s] = Counted(@)]
  /\ feed' = Call("update", s, feed.message[s])
  /\ UNCHANGED <<lost, changed, requested, notified, strategy, fault, published, messages,
                 history, books>>

-----------------------------------------------------------------------------
(* One entry of the call that is under way.                                *)
State == states[feed.symbol]
Entry == Head(feed.call.entries)

InEntries == FeedAt("entries") /\ feed.call.entries # << >>

(* L2Book::update(): what is not an offer is a bid.                        *)
Booked ==
  IF Entry.type = "OFFER" THEN AskUpdate(State.ask, Entry.price, Entry.volume)
  ELSE BidUpdate(State.bid, Entry.price, Entry.volume)

(* A mistake: the last update decides.                                     *)
StatusOfLast(before, now) == now

Status(before, now) == IF before = "SUCCESSFULL" THEN before ELSE now

IsUpdate == feed.call.kind \in {"update", "replay"}
IsOld == Entry.rptSeq < State.lastRptSeq

(* A mistake: the next number counts as missing.                           *)
IsMissingNext == Entry.rptSeq > State.lastRptSeq

IsMissing == Entry.rptSeq > State.lastRptSeq + 1

UpdateBook ==
  /\ InEntries
  /\ IsUpdate => Entry.type # "TRADE" /\ ~IsOld /\ ~IsMissing
  /\ \E result \in {Booked} :
       LET now == IF Entry.type = "OFFER" THEN [State EXCEPT !.ask = result.side]
                  ELSE [State EXCEPT !.bid = result.side]
       IN /\ states' = [states EXCEPT
                          ![feed.symbol] = IF IsUpdate THEN [now EXCEPT !.lastRptSeq = Entry.rptSeq]
                                           ELSE now]
          /\ feed' = [feed EXCEPT !.call.entries = Tail(@),
                                  !.call.status = Status(@, result.status)]
  /\ looked' = IF IsUpdate THEN [looked EXCEPT ![feed.symbol] = @ \cup {Entry.rptSeq}] ELSE looked
  /\ UNCHANGED <<lost, changed, requested, notified, strategy, fault, published, messages,
                 came, refused, outdated, books>>

SkipOldUpdate ==
  /\ InEntries
  /\ IsUpdate /\ Entry.type # "TRADE" /\ IsOld
  /\ feed' = [feed EXCEPT !.call.entries = Tail(@)]
  /\ UNCHANGED <<states, lost, changed, requested, notified, strategy, fault, published,
                 messages, history, books>>

(* The rest is not looked at.                                              *)
MissUpdate ==
  /\ InEntries
  /\ IsUpdate /\ Entry.type # "TRADE" /\ IsMissing
  /\ feed' = [feed EXCEPT !.call.entries = << >>, !.call.status = "MISSING_UPDATE"]
  /\ UNCHANGED <<states, lost, changed, requested, notified, strategy, fault, published,
                 messages, history, books>>

(* updateTrade(): trades_ has no elements.                                 *)
UpdateTrade ==
  /\ InEntries
  /\ IsUpdate /\ Entry.type = "TRADE"
  /\ Ends("trade")

-----------------------------------------------------------------------------
(* The end of addUpdate.                                                   *)
AllEntriesDone(kind) ==
  FeedAt("entries") /\ feed.call.entries = << >> /\ feed.call.kind = kind

(* A mistake: the count is not raised.                                     *)
AfterUpdateUncounted(state) ==
  [state EXCEPT !.status = IF feed.call.status = "MISSING_UPDATE" THEN "INVALID" ELSE "VALID"]

AfterUpdate(state) ==
  [Counted(state) EXCEPT
     !.status = IF feed.call.status = "MISSING_UPDATE" THEN "INVALID" ELSE "VALID"]

UpdateDone ==
  /\ AllEntriesDone("update")
  /\ feed.call.status # "MISSING_UPDATE"
  /\ states' = [states EXCEPT ![feed.symbol] = AfterUpdate(@)]
  /\ changed' = IF feed.call.status = "SUCCESSFULL" THEN changed \cup {feed.symbol} ELSE changed
  /\ feed' = [feed EXCEPT !.at = "symbols", !.call = NoCall]
  /\ Publish(feed.symbol)
  /\ UNCHANGED <<lost, requested, notified, strategy, fault, published, messages, history>>

(* A gap: all the states are destroyed, those of the other symbols, too,   *)
(* and a snapshot of this one is asked for, unless the queue is full.      *)
UpdateMissed ==
  /\ AllEntriesDone("update")
  /\ feed.call.status = "MISSING_UPDATE"
  /\ lost' = TRUE
  /\ changed' = {}
  /\ requested' \in {requested, requested \cup {"SNAPSHOT"}}
  /\ states' = [states EXCEPT ![feed.symbol] = AfterUpdate(@)]
  /\ feed' = Idle
  /\ Publish(feed.symbol)
  /\ UNCHANGED <<notified, strategy, fault, published, messages, history>>

(* What the entries that were kept led to is not looked at, and they are   *)
(* forgotten.                                                              *)
ReplayDone ==
  /\ AllEntriesDone("replay")
  /\ states' = [states EXCEPT ![feed.symbol] = [AfterUpdate(@) EXCEPT !.tmpBuffer = << >>]]
  /\ feed' = Idle
  /\ Publish(feed.symbol)
  /\ UNCHANGED <<lost, changed, requested, notified, strategy, fault, published, messages, history>>

(* The MARKET_DATA message is done: the strategies are notified.           *)
NotifyMarketChanges ==
  /\ FeedAt("symbols")
  /\ feed.todo = {}
  /\ notified' = notified \cup changed
  /\ feed' = Idle
  /\ UNCHANGED <<states, lost, changed, requested, strategy, fault, published, messages,
                 history, books>>

-----------------------------------------------------------------------------
(* notify() of a SNAPSHOT, and addSnapshot, of whatever number.            *)
Snapshot(s, quotes, number) ==
  /\ NewMessage
  /\ ~lost
  /\ states' = [states EXCEPT ![s] = Counted(@)]
  /\ feed' = Call("snapshot", s, [i \in DOMAIN quotes |-> [type |-> quotes[i].type,
                    price |-> quotes[i].price, volume |-> quotes[i].volume, rptSeq |-> number]])
  /\ UNCHANGED <<lost, changed, requested, notified, strategy, fault, published, history, books>>

(* The states that were destroyed are not there.                           *)
SnapshotOfLost ==
  /\ NewMessage
  /\ lost
  /\ fault' = "snapshot"
  /\ UNCHANGED <<feedVars, strategy, published, history, books>>

(* The book is not emptied before.                                         *)
SnapshotDone ==
  LET s == feed.symbol
      added == feed.call.status = "SUCCESSFULL"
      kept == NumbersOf(State.tmpBuffer)
  IN /\ AllEntriesDone("snapshot")
     /\ states' = [states EXCEPT
                     ![s] = IF added THEN [Counted(@) EXCEPT !.lastRptSeq = feed.call.first,
                                                             !.status = "SNASHOT_ADDED"]
                            ELSE Counted(@)]
     /\ feed' = IF State.tmpBuffer = << >> THEN Idle
                ELSE [feed EXCEPT !.at = "replay", !.call = NoCall]
     /\ looked' = IF added THEN [looked EXCEPT ![s] = @ \cup 1 .. feed.call.first] ELSE looked
     /\ outdated' = IF /\ added
                        /\ \/ feed.call.first < State.lastRptSeq
                           \/ \E n \in came[s] \ kept : n > feed.call.first
                    THEN outdated \cup {s} ELSE outdated
     /\ refused' = [refused EXCEPT ![s] = IF added THEN {} ELSE @ \cup kept]
     /\ Publish(s)
     /\ UNCHANGED <<lost, changed, requested, notified, strategy, fault, published, messages,
                    came>>

Replay ==
  /\ FeedAt("replay")
  /\ State.status = "SNASHOT_ADDED"
  /\ states' = [states EXCEPT ![feed.symbol] = Counted(@)]
  /\ feed' = Call("replay", feed.symbol, State.tmpBuffer)
  /\ UNCHANGED <<lost, changed, requested, notified, strategy, fault, published, messages,
                 history, books>>

(* Without a snapshot addUpdate(tmpBuffer_) appends the buffer to itself   *)
(* while it goes through it.  A vector doubles its capacity as it grows,   *)
(* and keeps it: with room for all of it again the entries stay where they *)
(* are, and then the buffer is cleared.  Without, they are moved away.     *)
HasRoomFor(state, length) ==
  \A k \in 0 .. length : ~(state.longest <= 2 ^ k /\ 2 ^ k < length)

ReplayIntoItself ==
  /\ FeedAt("replay")
  /\ State.status # "SNASHOT_ADDED"
  /\ HasRoomFor(State, 2 * Len(State.tmpBuffer))
  /\ states' = [states EXCEPT ![feed.symbol].tmpBuffer = << >>]
  /\ feed' = Idle
  /\ UNCHANGED <<lost, changed, requested, notified, strategy, fault, published, messages,
                 history, books>>

ReplayOutOfRoom ==
  /\ FeedAt("replay")
  /\ State.status # "SNASHOT_ADDED"
  /\ ~HasRoomFor(State, 2 * Len(State.tmpBuffer))
  /\ Ends("buffer")

-----------------------------------------------------------------------------
(* MeanReversion::handleEvent, up to the end of its loop.  The event holds *)
(* a reference to the state.                                               *)
StrategyAt(place) == Running /\ strategy.at = place

(* A call is changing the book of the symbol.                              *)
Changing(s) == feed.at = "entries" /\ feed.symbol = s

HandleEvent(s) ==
  /\ StrategyAt("waiting") \/ StrategyAt("decided")
  /\ s \in notified
  /\ strategy' = [strategy EXCEPT !.at = "loop", !.symbol = s]
  /\ books' = {}
  /\ UNCHANGED <<feedVars, fault, published, messages, history>>

LoadCount ==
  /\ StrategyAt("loop")
  /\ ~lost
  /\ strategy' = [strategy EXCEPT !.at = "bids", !.count = states[strategy.symbol].updateCount]
  /\ books' = IF Changing(strategy.symbol) THEN {} ELSE {BookOf(states[strategy.symbol])}
  /\ UNCHANGED <<feedVars, fault, published, messages, history>>

CopyBids ==
  /\ StrategyAt("bids")
  /\ ~lost
  /\ strategy' = [strategy EXCEPT !.at = "asks", !.bid = states[strategy.symbol].bid]
  /\ UNCHANGED <<feedVars, fault, published, messages, history, books>>

CopyAsks ==
  /\ StrategyAt("asks")
  /\ ~lost
  /\ strategy' = [strategy EXCEPT !.at = "again", !.ask = states[strategy.symbol].ask]
  /\ UNCHANGED <<feedVars, fault, published, messages, history, books>>

(* A mistake: only a count that is odd and new is one to try again.        *)
TornOnlyIfBoth(count, now) == count # now /\ now % 2 = 1

Torn(count, now) == count # now \/ now % 2 = 1

LoadCountAgain ==
  /\ StrategyAt("again")
  /\ ~lost
  /\ strategy' = [strategy EXCEPT
                    !.at = IF Torn(strategy.count, states[strategy.symbol].updateCount)
                           THEN "loop" ELSE "decided"]
  /\ UNCHANGED <<feedVars, fault, published, messages, history, books>>

(* The state it reads was destroyed.                                       *)
ReadOfLost ==
  /\ Running
  /\ strategy.at \in {"loop", "bids", "asks", "again"}
  /\ lost
  /\ Ends("freed")

(* What it goes on with: l2snap.                                           *)
View == [bid |-> BidCopy(strategy.bid, Room), ask |-> AskCopy(strategy.ask, Room)]

-----------------------------------------------------------------------------
Next ==
  \/ LogonSuccess
  \/ \E news \in Incremental, skipped \in 0 .. MaxSkipped : MarketData(news, skipped)
  \/ \E s \in Symbols : AddUpdateNoSnapshot(s) \/ AddUpdate(s) \/ HandleEvent(s)
  \/ UpdateBook \/ SkipOldUpdate \/ MissUpdate \/ UpdateTrade
  \/ UpdateDone \/ UpdateMissed \/ NotifyMarketChanges
  \/ \E s \in Symbols, quotes \in Snapshots :
       \E number \in 0 .. published[s] : Snapshot(s, quotes, number)
  \/ SnapshotOfLost \/ SnapshotDone \/ Replay \/ ReplayDone
  \/ ReplayIntoItself \/ ReplayOutOfRoom
  \/ LoadCount \/ CopyBids \/ CopyAsks \/ LoadCountAgain \/ ReadOfLost

Spec == Init /\ [][Next]_vars

-----------------------------------------------------------------------------
(* Properties.                                                             *)

Sides ==
  [volumes : [Indices -> Nat], startPrice : Int, startIndex : Indices, endIndex : Indices,
   bestPrice : Int, bestVolume : Int]

Statuses == {"UNKNOWN", "PRICE_OUT_OF_RANGE", "MISSING_UPDATE", "SUCCESSFULL"}
Entries == Seq([type : {"BID", "OFFER", "TRADE"}, price : Nat, volume : Nat, rptSeq : Nat])

(* The types of the feed's and the strategy's state, and the count of a    *)
(* state is odd exactly while a call is changing its book.                 *)
TypeOK ==
  /\ states \in [Symbols -> [status : {"INVALID", "SNASHOT_ADDED", "VALID"}, lastRptSeq : Nat,
                             tmpBuffer : Entries, longest : Nat, updateCount : Nat,
                             bid : Sides, ask : Sides]]
  /\ lost \in BOOLEAN
  /\ changed \subseteq Symbols /\ notified \subseteq Symbols
  /\ requested \subseteq {"SNAPSHOT", "SNAPSHOT_AND_UPDATE"}
  /\ feed.at \in {"off", "idle", "symbols", "entries", "replay"}
  /\ feed.todo \subseteq Symbols /\ feed.symbol \in Symbols
  /\ feed.message \in [Symbols -> Entries]
  /\ feed.call \in [kind : {"none", "update", "replay", "snapshot"}, entries : Entries,
                    first : Nat, status : Statuses]
  /\ strategy \in [at : {"waiting", "loop", "bids", "asks", "again", "decided"},
                   symbol : Symbols, count : Nat, bid : Sides, ask : Sides]
  /\ fault \in {"none", "trade", "snapshot", "buffer", "freed"}
  /\ \A s \in Symbols : states[s].updateCount % 2 = (IF Changing(s) THEN 1 ELSE 0)

(* The book a strategy goes on with is one the symbol had, both sides of   *)
(* it, when no call was changing it, since the strategy began to read: not *)
(* the bids from before an update with the offers from after it.           *)
BooksAreWhole ==
  strategy.at = "decided" =>
    \E book \in books : View = [bid |-> BidCopy(book.bid, Room), ask |-> AskCopy(book.ask, Room)]

(* No update that came is forgotten: it has been looked at, or a snapshot  *)
(* stands for it, or it is kept for the snapshot, or it is on its way, or  *)
(* one before it never came.  One case forgets it: it was kept when a      *)
(* snapshot came that could not be booked, and none was since (refused).   *)
(* A symbol with an outdated snapshot is left out, and so are the states   *)
(* of a feed that met a gap: they are destroyed.                           *)
OnItsWay(s, n) ==
  \/ feed.at = "symbols" /\ s \in feed.todo /\ n \in NumbersOf(feed.message[s])
  \/ Changing(s) /\ \/ n \in NumbersOf(feed.call.entries)
                    \/ feed.call.status = "MISSING_UPDATE"
  \/ feed.at = "entries" /\ s \in feed.todo /\ n \in NumbersOf(feed.message[s])

AfterGap(s, n) ==
  /\ states[s].status = "INVALID"
  /\ n > states[s].lastRptSeq + 1
  /\ states[s].lastRptSeq + 1 \notin came[s]

NoUpdateForgotten ==
  lost \/ \A s \in Symbols \ outdated : \A n \in came[s] :
           \/ n \in looked[s] \cup refused[s] \cup NumbersOf(states[s].tmpBuffer)
           \/ OnItsWay(s, n) \/ AfterGap(s, n)

(* The states are destroyed only when the broker did skip a number of a    *)
(* symbol, or sent a snapshot that was older than an update the state did  *)
(* not keep any more: neither what was kept for a snapshot nor a snapshot  *)
(* that is older than that is taken for a gap.                             *)
GapIsReal ==
  lost => \E s \in Symbols : s \in outdated \/ \E n \in came[s] : AfterGap(s, n)

(* Levels in a window that begins at the price which stands for none: the  *)
(* next update takes it for one that was never used (Located), and may     *)
(* move it and still say that its price is out of range.                   *)
TakenForUnused(side) == side.startPrice = NoPrice /\ side.volumes # NoLevels

(* At the end of a MARKET_DATA message the strategies are told of every    *)
(* symbol whose book it changed, offers in such a window apart, and of     *)
(* none that it says nothing of.                                           *)
TellsWhatChanged ==
  feed.at = "symbols" /\ feed.todo = {} =>
    /\ \A s \in Symbols : BookOf(states[s]) # feed.before[s]
                            => s \in changed \/ TakenForUnused(feed.before[s].ask)
    /\ \A s \in changed : feed.message[s] # << >>

=============================================================================
