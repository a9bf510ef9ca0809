--------------------------- MODULE MarketDataProofs ---------------------------
(***************************************************************************)
(* What is proved of MarketData, whatever the messages of the broker and   *)
(* the books are.                                                          *)
(*                                                                         *)
(* What a strategy goes on with is a whole book: the argument needs the    *)
(* count of the updates alone, and nothing of what an update does to a     *)
(* side (ReadInv).  A side of a book stays one, so the types hold (Typed). *)
(* No update that came is forgotten, and the states are destroyed only for *)
(* a number the broker skipped: the argument follows an update from the    *)
(* message to the book, over what is kept, replayed and missed (FeedInv).  *)
(***************************************************************************)
EXTENDS MarketData, TLAPS, FiniteSetTheorems, SequenceTheorems

StateFields == DOMAIN NoState
FeedFields == DOMAIN Idle
StrategyFields == {"at", "symbol", "count", "bid", "ask"}
Places == {"off", "idle", "symbols", "entries", "replay"}

(* What the records are made of, as far as the argument needs it.          *)
Shapes ==
  /\ DOMAIN states = Symbols
  /\ \A s \in Symbols : DOMAIN states[s] = StateFields /\ states[s].updateCount \in Nat
  /\ DOMAIN feed = FeedFields /\ feed.at \in Places /\ feed.symbol \in Symbols
  /\ DOMAIN strategy = StrategyFields /\ strategy.symbol \in Symbols
  /\ strategy.count \in Nat /\ notified \subseteq Symbols /\ changed \subseteq Symbols

(* The count of a state is odd exactly while a call changes its book.      *)
CountsTell ==
  \A s \in Symbols : states[s].updateCount % 2 = (IF Changing(s) THEN 1 ELSE 0)

(* A strategy that loaded an even count which has not changed since has    *)
(* copied from the book there is.                                          *)
CopiesCurrent ==
  LET state == states[strategy.symbol]
  IN strategy.at \in {"bids", "asks", "again"} =>
       /\ strategy.count <= state.updateCount
       /\ strategy.count = state.updateCount /\ strategy.count % 2 = 0 =>
            /\ BookOf(state) \in books
            /\ strategy.at \in {"asks", "again"} => strategy.bid = state.bid
            /\ strategy.at = "again" => strategy.ask = state.ask

HasDecided ==
  strategy.at = "decided" =>
    \E book \in books : strategy.bid = book.bid /\ strategy.ask = book.ask

ReadInv == Shapes /\ CountsTell /\ CopiesCurrent /\ HasDecided

LEMMA ReadInvWhole == ReadInv => BooksAreWhole
BY DEF ReadInv, HasDecided, BooksAreWhole, View

LEMMA ZeroSymbol == 0 \in Symbols
BY MarketDataAssumption DEF Symbols

LEMMA InitReadInv == Init => ReadInv
<1> SUFFICES ASSUME Init PROVE ReadInv
  OBVIOUS
<1>1. Shapes
  BY ZeroSymbol DEF Init, Shapes, NoState, Idle, StateFields, FeedFields, StrategyFields, Places
<1>2. CountsTell
  BY DEF Init, CountsTell, NoState, Idle, Changing
<1>3. CopiesCurrent /\ HasDecided
  BY DEF Init, CopiesCurrent, HasDecided
<1> QED BY <1>1, <1>2, <1>3 DEF ReadInv


-----------------------------------------------------------------------------
(* What a step of the feed does to what a strategy may read.               *)
Kept(s) ==
  /\ states'[s].updateCount = states[s].updateCount
  /\ states'[s].bid = states[s].bid /\ states'[s].ask = states[s].ask

(* Nothing.                                                                *)
Quiet ==
  /\ \A s \in Symbols : Kept(s) /\ (Changing(s)' <=> Changing(s))
  /\ UNCHANGED <<strategy, books>>

(* A call begins to change the book of s: the count becomes odd.           *)
Begins(s) ==
  /\ \A r \in Symbols : ~Changing(r) /\ (Changing(r)' <=> r = s)
  /\ \A r \in Symbols \ {s} : Kept(r)
  /\ states'[s].updateCount = states[s].updateCount + 1
  /\ UNCHANGED <<strategy, books>>

(* The call changes the book of s: the count is odd, and stays.            *)
Changes(s) ==
  /\ \A r \in Symbols : (Changing(r) <=> r = s) /\ (Changing(r)' <=> r = s)
  /\ \A r \in Symbols \ {s} : Kept(r)
  /\ states'[s].updateCount = states[s].updateCount
  /\ UNCHANGED <<strategy, books>>

(* The call is over: the count is even again, and the book is a whole one. *)
Finishes(s) ==
  /\ \A r \in Symbols : (Changing(r) <=> r = s) /\ ~Changing(r)'
  /\ \A r \in Symbols \ {s} : Kept(r)
  /\ states'[s].updateCount = states[s].updateCount + 1
  /\ books \subseteq books'
  /\ UNCHANGED strategy

Effect == Quiet \/ \E s \in Symbols : Begins(s) \/ Changes(s) \/ Finishes(s)

LEMMA Parity ==
  ASSUME NEW n \in Nat PROVE /\ n % 2 = 0 => (n + 1) % 2 = 1
                             /\ n % 2 = 1 => (n + 1) % 2 = 0
OBVIOUS

LEMMA EffectCounts ==
  ASSUME ReadInv, Shapes', Effect PROVE CountsTell'
<1> USE DEF ReadInv
<1>1. CASE Quiet
  BY <1>1 DEF Quiet, Kept, CountsTell
<1>2. ASSUME NEW s \in Symbols, Begins(s) PROVE CountsTell'
  BY <1>2, Parity DEF Begins, Kept, CountsTell, Shapes
<1>3. ASSUME NEW s \in Symbols, Changes(s) PROVE CountsTell'
  BY <1>3 DEF Changes, Kept, CountsTell
<1>4. ASSUME NEW s \in Symbols, Finishes(s) PROVE CountsTell'
  BY <1>4, Parity DEF Finishes, Kept, CountsTell, Shapes
<1> QED BY <1>1, <1>2, <1>3, <1>4 DEF Effect

LEMMA EffectCopies ==
  ASSUME ReadInv, Shapes', Effect PROVE CopiesCurrent' /\ HasDecided'
<1> DEFINE y == strategy.symbol
<1>1. y \in Symbols /\ strategy' = strategy /\ books \subseteq books'
      /\ states[y].updateCount \in Nat /\ strategy.count \in Nat
  BY DEF Effect, Quiet, Begins, Changes, Finishes, ReadInv, Shapes
<1>2. HasDecided'
  BY <1>1 DEF HasDecided, ReadInv
<1>3. \/ Kept(y)
      \/ states'[y].updateCount = states[y].updateCount + 1
      \/ states'[y].updateCount = states[y].updateCount /\ Changing(y)
  BY <1>1 DEF Effect, Quiet, Begins, Changes, Finishes
<1>4. Changing(y) => states[y].updateCount % 2 = 1
  BY <1>1 DEF ReadInv, CountsTell
<1>5. CASE Kept(y)
  BY <1>1, <1>2, <1>5 DEF Kept, CopiesCurrent, ReadInv, BookOf
<1>6. CASE states'[y].updateCount = states[y].updateCount + 1
  BY <1>1, <1>2, <1>6 DEF CopiesCurrent, ReadInv
<1>7. CASE states'[y].updateCount = states[y].updateCount /\ Changing(y)
  BY <1>1, <1>2, <1>4, <1>7 DEF CopiesCurrent, ReadInv
<1> QED BY <1>2, <1>3, <1>5, <1>6, <1>7

LEMMA EffectReadInv ==
  ASSUME ReadInv, Shapes', Effect PROVE ReadInv'
BY EffectCounts, EffectCopies DEF ReadInv


-----------------------------------------------------------------------------
(* The steps of the feed, one by one.                                      *)
Shaped == Shapes' /\ Effect

LEMMA LogonShaped == ASSUME Shapes, LogonSuccess PROVE Shaped
<1> USE DEF LogonSuccess, FeedAt
<1>1. Shapes'
  BY ZeroSymbol DEF Shapes, Idle, FeedFields, StateFields, StrategyFields, Places
<1>2. Quiet
  BY DEF Quiet, Kept, Changing, Idle
<1> QED BY <1>1, <1>2 DEF Shaped, Effect

LEMMA MarketDataShaped ==
  ASSUME Shapes, NEW news, NEW skipped, MarketData(news, skipped) PROVE Shaped
<1> USE DEF MarketData, NewMessage, FeedAt
<1>1. Shapes'
  BY ZeroSymbol DEF Shapes, Idle, FeedFields, StateFields, StrategyFields, Places
<1>2. Quiet
  BY DEF Quiet, Kept, Changing, Idle
<1> QED BY <1>1, <1>2 DEF Shaped, Effect

LEMMA NoSnapshotShaped ==
  ASSUME Shapes, NEW s \in Symbols, AddUpdateNoSnapshot(s) PROVE Shaped
<1> USE DEF AddUpdateNoSnapshot, FeedAt, Keeping
<1>1. Shapes'
  BY DEF Shapes, NoState, Idle, FeedFields, StateFields, StrategyFields, Places
<1>2. Quiet
  BY DEF Shapes, Quiet, Kept, Changing, NoState, Idle, FeedFields, StateFields
<1> QED BY <1>1, <1>2 DEF Shaped, Effect

LEMMA AddUpdateShaped ==
  ASSUME Shapes, NEW s \in Symbols, AddUpdate(s) PROVE Shaped
<1> USE DEF AddUpdate, FeedAt, Call, Counted
<1>1. Shapes'
  BY DEF Shapes, NoState, Idle, FeedFields, StateFields, StrategyFields, Places
<1>2. Begins(s)
  BY DEF Shapes, Begins, Kept, Changing, NoState, Idle, FeedFields, StateFields
<1> QED BY <1>1, <1>2 DEF Shaped, Effect

LEMMA ReplayShaped ==
  ASSUME Shapes, Replay PROVE Shaped
<1> USE DEF Replay, FeedAt, Call, Counted
<1>1. Shapes'
  BY DEF Shapes, NoState, Idle, FeedFields, StateFields, StrategyFields, Places
<1>2. Begins(feed.symbol)
  BY DEF Shapes, Begins, Kept, Changing, NoState, Idle, FeedFields, StateFields
<1> QED BY <1>1, <1>2 DEF Shaped, Effect, Shapes

LEMMA SnapshotShaped ==
  ASSUME Shapes, NEW s \in Symbols, NEW quotes, NEW number, Snapshot(s, quotes, number)
  PROVE Shaped
<1> USE DEF Snapshot, NewMessage, FeedAt, Call, Counted
<1>1. Shapes'
  BY DEF Shapes, NoState, Idle, FeedFields, StateFields, StrategyFields, Places
<1>2. Begins(s)
  BY DEF Shapes, Begins, Kept, Changing, NoState, Idle, FeedFields, StateFields
<1> QED BY <1>1, <1>2 DEF Shaped, Effect, Shapes

LEMMA UpdateBookShaped ==
  ASSUME Shapes, UpdateBook PROVE Shaped
<1> USE DEF UpdateBook, InEntries, FeedAt, State
<1>1. Shapes'
  BY DEF Shapes, NoState, Idle, FeedFields, StateFields, StrategyFields, Places
<1>2. Changes(feed.symbol)
  BY DEF Shapes, Changes, Kept, Changing, NoState, Idle, FeedFields, StateFields
<1> QED BY <1>1, <1>2 DEF Shaped, Effect, Shapes

LEMMA SkipShaped ==
  ASSUME Shapes, SkipOldUpdate \/ MissUpdate PROVE Shaped
<1> USE DEF SkipOldUpdate, MissUpdate, InEntries, FeedAt
<1>1. Shapes'
  BY DEF Shapes, Idle, FeedFields, StrategyFields, Places
<1>2. Quiet
  BY DEF Shapes, Quiet, Kept, Changing, Idle, FeedFields
<1> QED BY <1>1, <1>2 DEF Shaped, Effect

LEMMA DoneShaped ==
  ASSUME Shapes, UpdateDone \/ UpdateMissed \/ ReplayDone PROVE Shaped
<1> USE DEF AllEntriesDone, FeedAt, Counted, AfterUpdate
<1>1. books \subseteq books'
  BY DEF UpdateDone, UpdateMissed, ReplayDone, Publish
<1>2. CASE UpdateDone
  <2>1. Shapes'
    BY <1>2, ZeroSymbol
    DEF UpdateDone, Shapes, NoState, Idle, FeedFields, StateFields, StrategyFields, Places
  <2>2. Finishes(feed.symbol)
    BY <1>1, <1>2 DEF UpdateDone, Shapes, Finishes, Kept, Changing, NoState, Idle, FeedFields,
                      StateFields
  <2> QED BY <2>1, <2>2 DEF Shaped, Effect, Shapes
<1>3. CASE UpdateMissed
  <2>1. Shapes'
    BY <1>3, ZeroSymbol
    DEF UpdateMissed, Shapes, NoState, Idle, FeedFields, StateFields, StrategyFields, Places
  <2>2. Finishes(feed.symbol)
    BY <1>1, <1>3 DEF UpdateMissed, Shapes, Finishes, Kept, Changing, NoState, Idle, FeedFields,
                      StateFields
  <2> QED BY <2>1, <2>2 DEF Shaped, Effect, Shapes
<1>4. CASE ReplayDone
  <2>1. Shapes'
    BY <1>4, ZeroSymbol
    DEF ReplayDone, Shapes, NoState, Idle, FeedFields, StateFields, StrategyFields, Places
  <2>2. Finishes(feed.symbol)
    BY <1>1, <1>4 DEF ReplayDone, Shapes, Finishes, Kept, Changing, NoState, Idle, FeedFields,
                      StateFields
  <2> QED BY <2>1, <2>2 DEF Shaped, Effect, Shapes
<1> QED BY <1>2, <1>3, <1>4

LEMMA SnapshotDoneShaped ==
  ASSUME Shapes, SnapshotDone PROVE Shaped
<1> USE DEF SnapshotDone, AllEntriesDone, FeedAt, Counted, State
<1>1. Shapes'
  BY ZeroSymbol DEF Shapes, NoState, Idle, FeedFields, StateFields, StrategyFields, Places
<1>2. books \subseteq books'
  BY DEF Publish
<1>3. Finishes(feed.symbol)
  BY <1>2 DEF Shapes, Finishes, Kept, Changing, NoState, Idle, FeedFields, StateFields
<1> QED BY <1>1, <1>3 DEF Shaped, Effect, Shapes

LEMMA NotifyShaped ==
  ASSUME Shapes, NotifyMarketChanges PROVE Shaped
<1> USE DEF NotifyMarketChanges, FeedAt
<1>1. Shapes'
  BY ZeroSymbol DEF Shapes, Idle, FeedFields, StrategyFields, Places
<1>2. Quiet
  BY DEF Shapes, Quiet, Kept, Changing, Idle
<1> QED BY <1>1, <1>2 DEF Shaped, Effect

LEMMA IntoItselfShaped ==
  ASSUME Shapes, ReplayIntoItself PROVE Shaped
<1> USE DEF ReplayIntoItself, FeedAt
<1>1. Shapes'
  BY ZeroSymbol DEF Shapes, NoState, Idle, FeedFields, StateFields, StrategyFields, Places
<1>2. Quiet
  BY DEF Shapes, Quiet, Kept, Changing, NoState, Idle, FeedFields, StateFields
<1> QED BY <1>1, <1>2 DEF Shaped, Effect

(* What ends the program changes nothing else.                             *)
LEMMA EndShaped ==
  ASSUME Shapes, UpdateTrade \/ SnapshotOfLost \/ ReplayOutOfRoom \/ ReadOfLost PROVE Shaped
<1>1. UNCHANGED <<states, feed, notified, changed, strategy, books>>
  BY DEF UpdateTrade, SnapshotOfLost, ReplayOutOfRoom, ReadOfLost, Ends, feedVars
<1>2. Shapes' /\ Quiet
  BY <1>1 DEF Shapes, Quiet, Kept, Changing
<1> QED BY <1>2 DEF Shaped, Effect

-----------------------------------------------------------------------------
(* The steps of the strategy.                                              *)
LEMMA StrategyShapes ==
  ASSUME Shapes, UNCHANGED feedVars,
         \/ \E s \in Symbols : HandleEvent(s)
         \/ LoadCount \/ CopyBids \/ CopyAsks \/ LoadCountAgain
  PROVE Shapes'
BY DEF Shapes, feedVars, HandleEvent, LoadCount, CopyBids, CopyAsks, LoadCountAgain,
       StrategyFields

LEMMA FeedUnchanged ==
  ASSUME \/ \E s \in Symbols : HandleEvent(s)
         \/ LoadCount \/ CopyBids \/ CopyAsks \/ LoadCountAgain
  PROVE UNCHANGED feedVars
BY DEF HandleEvent, LoadCount, CopyBids, CopyAsks, LoadCountAgain

LEMMA CountsKept == ASSUME CountsTell, UNCHANGED feedVars PROVE CountsTell'
BY DEF CountsTell, feedVars, Changing

LEMMA HandleEventReads ==
  ASSUME Shapes, NEW s \in Symbols, HandleEvent(s) PROVE CopiesCurrent' /\ HasDecided'
<1>1. strategy'.at = "loop"
  BY DEF HandleEvent, Shapes, StrategyFields
<1> QED BY <1>1 DEF CopiesCurrent, HasDecided

(* The count is even, and then no call is changing the book, or odd, and   *)
(* then nothing is said.                                                   *)
LEMMA LoadCountReads ==
  ASSUME Shapes, CountsTell, LoadCount PROVE CopiesCurrent' /\ HasDecided'
<1> DEFINE y == strategy.symbol
<1>1. /\ strategy'.at = "bids" /\ strategy'.symbol = y
      /\ strategy'.count = states[y].updateCount /\ states' = states
      /\ y \in Symbols /\ states[y].updateCount \in Nat
  BY DEF LoadCount, Shapes, StrategyFields, feedVars
<1>2. states[y].updateCount % 2 = 0 => BookOf(states[y]) \in books'
  BY <1>1 DEF LoadCount, CountsTell
<1> QED BY <1>1, <1>2 DEF CopiesCurrent, HasDecided

LEMMA CopyReads ==
  ASSUME ReadInv, CopyBids \/ CopyAsks PROVE CopiesCurrent' /\ HasDecided'
BY DEF ReadInv, Shapes, StrategyFields, CopyBids, CopyAsks, StrategyAt, feedVars,
       CopiesCurrent, HasDecided

(* What it decides on: the count is the one it loaded, and even.           *)
LEMMA LoadCountAgainReads ==
  ASSUME ReadInv, LoadCountAgain PROVE CopiesCurrent' /\ HasDecided'
<1> DEFINE y == strategy.symbol
           state == states[y]
<1>1. /\ strategy.at = "again" /\ books' = books /\ y \in Symbols
      /\ strategy'.at \in {"loop", "decided"}
      /\ strategy'.bid = strategy.bid /\ strategy'.ask = strategy.ask
      /\ strategy.count \in Nat /\ state.updateCount \in Nat
  BY DEF ReadInv, LoadCountAgain, StrategyAt, Shapes, StrategyFields
<1>2. strategy'.at = "decided" => ~Torn(strategy.count, state.updateCount)
  BY DEF ReadInv, LoadCountAgain, Shapes, StrategyFields
<1>3. ~Torn(strategy.count, state.updateCount) =>
        strategy.count = state.updateCount /\ strategy.count % 2 = 0
  BY <1>1 DEF Torn
<1>4. strategy'.at = "decided" =>
        /\ BookOf(state) \in books
        /\ strategy.bid = state.bid /\ strategy.ask = state.ask
  BY <1>1, <1>2, <1>3 DEF ReadInv, CopiesCurrent
<1>5. HasDecided'
  BY <1>1, <1>4 DEF HasDecided, BookOf
<1> QED BY <1>1, <1>5 DEF CopiesCurrent

-----------------------------------------------------------------------------
LEMMA NextReadInv ==
  ASSUME ReadInv, [Next]_vars PROVE ReadInv'
<1> Shapes
  BY DEF ReadInv
<1>1. CASE LogonSuccess
  BY <1>1, LogonShaped, EffectReadInv DEF Shaped
<1>2. ASSUME NEW news \in Incremental, NEW skipped \in 0 .. MaxSkipped, MarketData(news, skipped)
      PROVE ReadInv'
  BY <1>2, MarketDataShaped, EffectReadInv DEF Shaped
<1>3. ASSUME NEW s \in Symbols, AddUpdateNoSnapshot(s) PROVE ReadInv'
  BY <1>3, NoSnapshotShaped, EffectReadInv DEF Shaped
<1>4. ASSUME NEW s \in Symbols, AddUpdate(s) PROVE ReadInv'
  BY <1>4, AddUpdateShaped, EffectReadInv DEF Shaped
<1>5. ASSUME NEW s \in Symbols, HandleEvent(s) PROVE ReadInv'
  BY <1>5, FeedUnchanged, StrategyShapes, CountsKept, HandleEventReads DEF ReadInv
<1>6. CASE UpdateBook
  BY <1>6, UpdateBookShaped, EffectReadInv DEF Shaped
<1>7. CASE SkipOldUpdate \/ MissUpdate
  BY <1>7, SkipShaped, EffectReadInv DEF Shaped
<1>8. CASE UpdateDone \/ UpdateMissed \/ ReplayDone
  BY <1>8, DoneShaped, EffectReadInv DEF Shaped
<1>9. CASE NotifyMarketChanges
  BY <1>9, NotifyShaped, EffectReadInv DEF Shaped
<1>10. ASSUME NEW s \in Symbols, NEW quotes \in Snapshots, NEW number \in 0 .. published[s],
              Snapshot(s, quotes, number)
       PROVE ReadInv'
  BY <1>10, SnapshotShaped, EffectReadInv DEF Shaped
<1>11. CASE UpdateTrade \/ SnapshotOfLost \/ ReplayOutOfRoom \/ ReadOfLost
  BY <1>11, EndShaped, EffectReadInv DEF Shaped
<1>12. CASE SnapshotDone
  BY <1>12, SnapshotDoneShaped, EffectReadInv DEF Shaped
<1>13. CASE Replay
  BY <1>13, ReplayShaped, EffectReadInv DEF Shaped
<1>14. CASE LoadCount
  BY <1>14, FeedUnchanged, StrategyShapes, CountsKept, LoadCountReads DEF ReadInv
<1>15. CASE CopyBids \/ CopyAsks
  BY <1>15, FeedUnchanged, StrategyShapes, CountsKept, CopyReads DEF ReadInv
<1>16. CASE LoadCountAgain
  BY <1>16, FeedUnchanged, StrategyShapes, CountsKept, LoadCountAgainReads DEF ReadInv
<1>17. CASE UNCHANGED vars
  <2>1. UNCHANGED <<states, feed, notified, changed, strategy, books>>
    BY <1>17 DEF vars, feedVars
  <2> QED BY <2>1 DEF ReadInv, Shapes, CountsTell, CopiesCurrent, HasDecided, Changing
<1>18. CASE ReplayIntoItself
  BY <1>18, IntoItselfShaped, EffectReadInv DEF Shaped
<1> QED BY <1>1, <1>2, <1>3, <1>4, <1>5, <1>6, <1>7, <1>8, <1>9, <1>10, <1>11, <1>12, <1>13,
           <1>14, <1>15, <1>16, <1>17, <1>18 DEF Next

(* A strategy never goes on with a book that is not whole, however the     *)
(* steps of MeanReversion::handleEvent and of SymbolMarketState interleave,*)
(* for any number of symbols, any messages and any size of the books.      *)
THEOREM ReadsAreWhole == Spec => []BooksAreWhole
<1>1. Init => ReadInv
  BY InitReadInv
<1>2. ReadInv /\ [Next]_vars => ReadInv'
  BY NextReadInv
<1>3. ReadInv => BooksAreWhole
  BY ReadInvWhole
<1> QED BY <1>1, <1>2, <1>3, PTL DEF Spec

-----------------------------------------------------------------------------
(* Whatever prices a side is given, it stays a side of a book.             *)

LEMMA IndexType ==
  ASSUME NEW n \in Int PROVE n % Size \in Indices
<1>1. Size \in Nat /\ Size > 0
  BY LiquidityAssumption
<1>2. n % Size \in 0 .. Size - 1
  BY <1>1
<1>3. QED
  BY <1>2 DEF Indices

LEMMA SizeFacts ==
  /\ Size \in Int /\ midOffset \in Int /\ Tick \in Int /\ NoPrice \in Int
  /\ NoVolume \in Int /\ Indices \subseteq Int /\ 0 \in Indices
  /\ Size - 1 \in Indices /\ TickSize \in Nat \ {0}
<1>1. Size \in Nat \ {0} /\ TickSize \in Nat \ {0} /\ PriceScale \in Nat \ {0}
  BY LiquidityAssumption
<1>2. midOffset \in Int
  BY <1>1 DEF midOffset
<1>3. QED
  BY <1>1, <1>2 DEF Tick, NoPrice, NoVolume, Indices

LEMMA NoLiquidityType == NoLiquidity \in Sides
BY SizeFacts DEF NoLiquidity, NoLevels, Sides

LEMMA SideFacts ==
  ASSUME NEW side \in Sides
  PROVE  /\ side.startIndex \in Indices /\ side.endIndex \in Indices
         /\ side.startIndex \in Int /\ side.endIndex \in Int /\ side.startPrice \in Int
         /\ side.volumes \in [Indices -> Nat]
         /\ side.bestPrice \in Int /\ side.bestVolume \in Int
<1>1. /\ side.startIndex \in Indices /\ side.endIndex \in Indices /\ side.startPrice \in Int
      /\ side.volumes \in [Indices -> Nat]
      /\ side.bestPrice \in Int /\ side.bestVolume \in Int
  BY DEF Sides
<1>2. QED
  BY <1>1, SizeFacts

(* The position of the window after a move.                                *)
LEMMA TurnType ==
  ASSUME NEW index \in Int, NEW ticks \in Int
  PROVE  (index + ticks) % Size \in Indices
<1>1. index + ticks \in Int
  OBVIOUS
<1>2. QED
  BY <1>1, IndexType

LEMMA PriceMoveType ==
  ASSUME NEW price \in Int, NEW ticks \in Int
  PROVE  price + ticks * Tick \in Int
<1>1. Tick \in Int
  BY SizeFacts
<1>2. ticks * Tick \in Int
  BY <1>1
<1>3. QED
  BY <1>2

LEMMA OffsetType ==
  ASSUME NEW side \in Sides, NEW price \in Int
  PROVE  /\ getOffsetFromStartIndex(side, price) \in Int
         /\ getIndexFromPrice(side, price) \in Indices
<1>1. PICK d : d = price - side.startPrice
  OBVIOUS
<1>2. d \in Int /\ TickSize \in Nat /\ TickSize > 0
  BY <1>1, SizeFacts, SideFacts
<1>3. d \div TickSize \in Int /\ -((-d) \div TickSize) \in Int
  BY <1>2
<1>4. getOffsetFromStartIndex(side, price) \in Int
  BY <1>1, <1>3 DEF getOffsetFromStartIndex
<1>5. QED
  BY <1>4, SideFacts, TurnType DEF getIndexFromPrice

LEMMA PriceType ==
  ASSUME NEW side \in Sides, NEW index \in Indices
  PROVE  getPriceFromIndex(side, index) \in Int
<1>1. PICK k : k = (index - side.startIndex) % Size
  OBVIOUS
<1>2. PICK from : from = side.startIndex
  OBVIOUS
<1>3. from \in Int /\ index \in Int
  BY <1>2, SizeFacts, SideFacts
<1>4. index - from \in Int
  BY <1>3
<1>5. k \in Indices
  BY <1>1, <1>2, <1>4, IndexType
<1>6. k \in Int
  BY <1>5, SizeFacts
<1>7. QED
  BY <1>1, <1>6, SideFacts, PriceMoveType DEF getPriceFromIndex

LEMMA PutType ==
  ASSUME NEW side \in Sides, NEW index \in Indices, NEW volume \in Nat
  PROVE  Put(side, index, volume) \in Sides
BY DEF Put, Sides

LEMMA StartType ==
  ASSUME NEW side \in Sides, NEW price \in Int
  PROVE  [side EXCEPT !.startPrice = Centered(price)] \in Sides
<1>1. Centered(price) \in Int
  BY SizeFacts DEF Centered
<1>2. QED
  BY <1>1 DEF Sides

LEMMA WithoutType ==
  ASSUME NEW side \in Sides, NEW indices
  PROVE  Without(side, indices) \in Sides
BY DEF Without, Sides

LEMMA MovedType ==
  ASSUME NEW side \in Sides, NEW ticks \in Int
  PROVE  Moved(side, ticks) \in Sides
<1>1. (side.startIndex + ticks) % Size \in Indices
  BY SideFacts, TurnType
<1>2. (side.endIndex + ticks) % Size \in Indices
  BY SideFacts, TurnType
<1>3. side.startPrice + ticks * Tick \in Int
  BY SideFacts, PriceMoveType
<1>4. QED
  BY <1>1, <1>2, <1>3 DEF Moved, Sides

LEMMA CenteredAtType ==
  ASSUME NEW side \in Sides, NEW price \in Int, NEW volume \in Nat
  PROVE  CenteredAt(side, price, volume) \in Sides
<1>1. (side.startIndex + midOffset) % Size \in Indices
  BY SizeFacts, SideFacts, TurnType
<1>2. QED
  BY <1>1, PutType, StartType DEF CenteredAt

LEMMA EmptiedType ==
  ASSUME NEW side \in Sides PROVE Emptied(side) \in Sides
BY SizeFacts DEF Emptied, NoLevels, Sides

LEMMA LostType ==
  ASSUME NEW distance \in Int PROVE Lost(distance) \in Int
BY SizeFacts DEF Lost

LEMMA ShiftTypes ==
  ASSUME NEW side \in Sides, NEW d \in Int, NEW price \in Int, NEW volume \in Nat
  PROVE  /\ BidShiftTowardsHigherPrices(side, d, price, volume) \in Sides
         /\ AskShiftTowardsLowerPrices(side, d, price, volume) \in Sides
         /\ BidShiftTowardsLowerPrices(side, d, price, volume) \in Sides
         /\ AskShiftTowardsHigherPrices(side, d, price, volume) \in Sides
<1>1. ASSUME NEW m \in Sides
      PROVE  /\ Put(m, m.endIndex, volume) \in Sides
             /\ Put(m, m.startIndex, volume) \in Sides
  BY PutType DEF Sides
<1>2. /\ CenteredAt(side, price, volume) \in Sides
      /\ CenteredAt(Emptied(side), price, volume) \in Sides
  BY EmptiedType, CenteredAtType
<1>3. d - Size + 1 \in Int /\ -d \in Int /\ -(-d) \in Int
      /\ Lost(d) \in Int /\ -Lost(d) \in Int
  BY SizeFacts, LostType
<1>4. ASSUME NEW indices, NEW ticks \in Int
      PROVE  Moved(Without(side, indices), ticks) \in Sides
  BY WithoutType, MovedType
<1>5. ASSUME NEW ticks \in Int PROVE Moved(side, ticks) \in Sides
  BY MovedType
<1>6. BidShiftTowardsHigherPrices(side, d, price, volume) \in Sides
  BY <1>1, <1>2, <1>3, <1>4 DEF BidShiftTowardsHigherPrices
<1>7. AskShiftTowardsLowerPrices(side, d, price, volume) \in Sides
  BY <1>1, <1>2, <1>3, <1>4 DEF AskShiftTowardsLowerPrices
<1>8. BidShiftTowardsLowerPrices(side, d, price, volume) \in Sides
  BY <1>1, <1>2, <1>3, <1>5 DEF BidShiftTowardsLowerPrices
<1>9. AskShiftTowardsHigherPrices(side, d, price, volume) \in Sides
  BY <1>1, <1>2, <1>3, <1>5 DEF AskShiftTowardsHigherPrices
<1>10. QED
  BY <1>6, <1>7, <1>8, <1>9

LEMMA LeastNumber ==
  ASSUME NEW T, T \subseteq Nat, T # {}
  PROVE  \E n \in T : \A m \in T : n <= m
<1>1. PICK Upto : Upto = {0 .. n : n \in T}
  OBVIOUS
<1>2. Upto # {} /\ \A U \in Upto : U \in SUBSET Nat /\ IsFiniteSet(U)
  <2>1. ASSUME NEW n \in T PROVE (0 .. n) \in SUBSET Nat /\ IsFiniteSet(0 .. n)
    <3>1. n \in Int /\ 0 \in Int
      OBVIOUS
    <3>2. IsFiniteSet(0 .. n)
      BY <3>1, FS_Interval
    <3>3. QED
      BY <3>2
  <2>2. QED
    BY <1>1, <2>1
<1>3. Upto \subseteq FiniteSubsetsOf(Nat)
  BY <1>2 DEF FiniteSubsetsOf
<1>4. PICK U \in Upto : \A V \in Upto : ~(<<V, U>> \in StrictSubsetOrdering(Nat))
  BY <1>2, <1>3, FS_StrictSubsetOrderingWellFounded, WFMin
<1>5. PICK n \in T : U = 0 .. n
  BY <1>1
<1>6. ASSUME NEW m \in T PROVE n <= m
  <2>1. 0 .. m \in Upto
    BY <1>1
  <2>2. ~(0 .. m \subseteq 0 .. n /\ 0 .. m # 0 .. n)
    BY <1>2, <1>4, <1>5, <2>1 DEF StrictSubsetOrdering
  <2>3. SUFFICES ASSUME m < n PROVE FALSE
    BY <1>5
  <2>4. 0 .. m \subseteq 0 .. n /\ n \in 0 .. n /\ n \notin 0 .. m
    BY <2>3
  <2>5. QED
    BY <2>2, <2>4
<1>7. QED
  BY <1>6

LEMMA BestOfType ==
  ASSUME NEW side \in Sides, NEW price \in Int, NEW step \in Int, NEW stop,
         NEW none \in Int
  PROVE  BestOf(side, price, step, stop, none) \in Sides
<1> DEFINE index(n) == (getIndexFromPrice(side, price) + n * step) % Size
           found == {n \in Indices : /\ side.volumes[index(n)] > 0
                                     /\ \A m \in 0 .. n : index(m) # stop}
<1>1. CASE found = {}
  <2>1. [side EXCEPT !.bestPrice = NoPrice, !.bestVolume = none] \in Sides
    BY SizeFacts DEF Sides
  <2>2. QED
    BY <1>1, <2>1 DEF BestOf
<1>2. CASE found # {}
  <2>1. found \in SUBSET Nat
    BY SizeFacts DEF Indices
  <2>2. Min(found) \in found
    <3> HIDE DEF found
    <3>1. \E n \in found : \A m \in found : n <= m
      BY <1>2, <2>1, LeastNumber
    <3>2. QED
      BY <3>1 DEF Min
  <2>3. PICK n : n = Min(found)
    OBVIOUS
  <2>4. n \in Int
    <3> HIDE DEF found
    <3>1. n \in Nat
      BY <2>1, <2>2, <2>3
    <3>2. QED
      BY <3>1
  <2>5. index(n) \in Indices
    <3>1. getIndexFromPrice(side, price) \in Int
      BY OffsetType, SizeFacts
    <3>2. n * step \in Int
      BY <2>4
    <3>3. QED
      BY <3>1, <3>2, TurnType
  <2>6. PICK i \in Indices : i = index(n)
    BY <2>5
  <2>7. [side EXCEPT !.bestPrice = getPriceFromIndex(side, i),
                     !.bestVolume = side.volumes[i]] \in Sides
    <3>1. getPriceFromIndex(side, i) \in Int
      BY PriceType
    <3>2. side.volumes[i] \in Int
      <4>1. side.volumes[i] \in Nat
        BY SideFacts
      <4>2. QED
        BY <4>1
    <3>3. QED
      BY <3>1, <3>2 DEF Sides
  <2>8. BestOf(side, price, step, stop, none) =
          [side EXCEPT !.bestPrice = getPriceFromIndex(side, i),
                       !.bestVolume = side.volumes[i]]
    BY <1>2, <2>3, <2>6 DEF BestOf
  <2>9. QED
    BY <2>7, <2>8
<1>3. QED
  BY <1>1, <1>2

LEMMA WithBestType ==
  ASSUME NEW side \in Sides, NEW price \in Int, NEW volume \in Nat, NEW better,
         NEW step \in Int, NEW stop, NEW none \in Int
  PROVE  WithBest(side, price, volume, better, step, stop, none) \in Sides
<1>1. volume \in Int
  OBVIOUS
<1>2. [side EXCEPT !.bestPrice = price, !.bestVolume = volume] \in Sides
  BY <1>1 DEF Sides
<1>3. QED
  BY <1>2, BestOfType DEF WithBest

Results == [side : Sides, status : {"SUCCESSFULL", "PRICE_OUT_OF_RANGE"}]

LEMMA UpdateTypes ==
  ASSUME NEW before \in Sides, NEW price \in Nat, NEW volume \in Nat
  PROVE  /\ BidUpdate(before, price, volume) \in Results
         /\ AskUpdate(before, price, volume) \in Results
<1>1. PICK side : side = Located(before, price)
  OBVIOUS
<1>2. side \in Sides /\ price \in Int
  BY <1>1, StartType DEF Located
<1>3. PICK d : d = getOffsetFromStartIndex(side, price)
  OBVIOUS
<1>4. d \in Int
  BY <1>2, <1>3, OffsetType
<1>5. Put(side, (d + side.startIndex) % Size, volume) \in Sides
  <2>1. (d + side.startIndex) % Size \in Indices
    BY <1>2, <1>4, SideFacts, TurnType
  <2>2. QED
    BY <1>2, <2>1, PutType
<1>6. ASSUME NEW s \in Sides
      PROVE  /\ Done(WithBest(s, price, volume, s.bestPrice <= price, -1, s.endIndex, 0))
                  \in Results
             /\ Done(WithBest(s, price, volume, s.bestPrice >= price, 1, s.startIndex, NoVolume))
                  \in Results
  <2>1. -1 \in Int /\ 1 \in Int /\ 0 \in Int /\ NoVolume \in Int
    BY SizeFacts
  <2>2. /\ WithBest(s, price, volume, s.bestPrice <= price, -1, s.endIndex, 0) \in Sides
        /\ WithBest(s, price, volume, s.bestPrice >= price, 1, s.startIndex, NoVolume) \in Sides
    BY <1>2, <2>1, WithBestType
  <2>3. QED
    BY <2>2 DEF Done, Results
<1>7. OutOfRange(side) \in Results
  BY <1>2 DEF OutOfRange, Results
<1>8. /\ BidShiftTowardsHigherPrices(side, d, price, volume) \in Sides
      /\ AskShiftTowardsLowerPrices(side, d, price, volume) \in Sides
      /\ BidShiftTowardsLowerPrices(side, d, price, volume) \in Sides
      /\ AskShiftTowardsHigherPrices(side, d, price, volume) \in Sides
  BY <1>2, <1>4, ShiftTypes
<1>9. BidUpdate(before, price, volume) \in Results
  BY <1>1, <1>3, <1>5, <1>6, <1>7, <1>8 DEF BidUpdate
<1>10. AskUpdate(before, price, volume) \in Results
  BY <1>1, <1>3, <1>5, <1>6, <1>7, <1>8 DEF AskUpdate
<1>11. QED
  BY <1>9, <1>10

-----------------------------------------------------------------------------
(* What the variables hold, whatever the broker sends.                     *)
EntryTypes == [type : {"BID", "OFFER", "TRADE"}, price : Nat, volume : Nat, rptSeq : Nat]

StateTypes ==
  [status : {"INVALID", "SNASHOT_ADDED", "VALID"}, lastRptSeq : Nat,
   tmpBuffer : Entries, longest : Nat, updateCount : Nat, bid : Sides, ask : Sides]

CallTypes ==
  [kind : {"none", "update", "replay", "snapshot"}, entries : Entries, first : Nat,
   status : Statuses]

FeedTyped ==
  feed.todo \subseteq Symbols /\ feed.message \in [Symbols -> Entries] /\ feed.call \in CallTypes

RestTyped ==
  /\ lost \in BOOLEAN /\ requested \subseteq {"SNAPSHOT", "SNAPSHOT_AND_UPDATE"}
  /\ fault \in {"none", "trade", "snapshot", "buffer", "freed"}
  /\ published \in [Symbols -> Nat]

StrategyTyped ==
  strategy \in [at : {"waiting", "loop", "bids", "asks", "again", "decided"},
                symbol : Symbols, count : Nat, bid : Sides, ask : Sides]

Typed == states \in [Symbols -> StateTypes] /\ FeedTyped /\ RestTyped /\ StrategyTyped

LEMMA TypedIsTypeOK == ReadInv /\ Typed => TypeOK
BY DEF ReadInv, Shapes, CountsTell, Places, Typed, FeedTyped, RestTyped, StrategyTyped,
       StateTypes, CallTypes, TypeOK

LEMMA EntriesFacts ==
  ASSUME NEW entries \in Entries
  PROVE  /\ Len(entries) \in Nat /\ DOMAIN entries = 1 .. Len(entries)
         /\ \A i \in DOMAIN entries : entries[i] \in EntryTypes
         /\ entries # << >> =>
              /\ 1 \in DOMAIN entries /\ Head(entries) = entries[1]
              /\ Tail(entries) \in Entries /\ Len(Tail(entries)) = Len(entries) - 1
              /\ \A i \in 1 .. Len(entries) - 1 : Tail(entries)[i] = entries[i + 1]
<1>1. entries \in Seq(EntryTypes) /\ Entries = Seq(EntryTypes)
  BY DEF Entries, EntryTypes
<1>2. QED
  BY <1>1, LenProperties, HeadTailProperties, ElementOfSeq, EmptySeq

LEMMA NoEntries == << >> \in Entries
BY EmptySeq DEF Entries

LEMMA SequenceType ==
  ASSUME NEW n \in Nat, NEW f \in [1 .. n -> EntryTypes]
  PROVE  f \in Entries /\ DOMAIN f = 1 .. n /\ Len(f) = n
<1>1. f \in Seq(EntryTypes)
  OBVIOUS
<1>2. QED
  BY <1>1, LenProperties DEF Entries, EntryTypes

LEMMA QuotesFacts ==
  ASSUME NEW quotes \in Seq(Quotes)
  PROVE  /\ Len(quotes) \in Nat /\ DOMAIN quotes = 1 .. Len(quotes)
         /\ quotes # << >> => Len(quotes) > 0
         /\ \A i \in DOMAIN quotes :
              /\ quotes[i].type \in {"BID", "OFFER", "TRADE"}
              /\ quotes[i].price \in Nat /\ quotes[i].volume \in Nat
<1>1. Len(quotes) \in Nat /\ DOMAIN quotes = 1 .. Len(quotes)
      /\ (quotes # << >> => Len(quotes) > 0)
  BY LenProperties, EmptySeq
<1>2. ASSUME NEW i \in DOMAIN quotes PROVE quotes[i] \in Quotes
  BY <1>1, ElementOfSeq
<1>3. QED
  BY <1>1, <1>2 DEF Quotes

LEMMA NumberedType ==
  ASSUME NEW quotes \in Seq(Quotes), NEW first \in Nat
  PROVE  /\ Numbered(quotes, first) \in Entries
         /\ DOMAIN Numbered(quotes, first) = 1 .. Len(quotes)
         /\ \A i \in 1 .. Len(quotes) : Numbered(quotes, first)[i].rptSeq = first + i - 1
<1>1. DOMAIN quotes = 1 .. Len(quotes) /\ Len(quotes) \in Nat
  BY QuotesFacts
<1>2. ASSUME NEW i \in 1 .. Len(quotes)
      PROVE  [type |-> quotes[i].type, price |-> quotes[i].price, volume |-> quotes[i].volume,
              rptSeq |-> first + i - 1] \in EntryTypes
  <2>1. first + i - 1 \in Nat
    BY <1>1
  <2>2. QED
    BY <1>1, <2>1, QuotesFacts DEF EntryTypes
<1>3. Numbered(quotes, first) \in [1 .. Len(quotes) -> EntryTypes]
  BY <1>1, <1>2 DEF Numbered
<1>4. QED
  BY <1>1, <1>3, SequenceType DEF Numbered

(* The quotes of a snapshot, all with its number.                          *)
AllNumbered(quotes, number) ==
  [i \in DOMAIN quotes |-> [type |-> quotes[i].type, price |-> quotes[i].price,
                            volume |-> quotes[i].volume, rptSeq |-> number]]

LEMMA AllNumberedType ==
  ASSUME NEW quotes \in Seq(Quotes), NEW number \in Nat
  PROVE  /\ AllNumbered(quotes, number) \in Entries
         /\ \A i \in DOMAIN AllNumbered(quotes, number) :
              AllNumbered(quotes, number)[i].rptSeq = number
<1>1. DOMAIN quotes = 1 .. Len(quotes) /\ Len(quotes) \in Nat
  BY QuotesFacts
<1>2. ASSUME NEW i \in 1 .. Len(quotes)
      PROVE  [type |-> quotes[i].type, price |-> quotes[i].price, volume |-> quotes[i].volume,
              rptSeq |-> number] \in EntryTypes
  BY <1>1, QuotesFacts DEF EntryTypes
<1>3. AllNumbered(quotes, number) \in [1 .. Len(quotes) -> EntryTypes]
  BY <1>1, <1>2 DEF AllNumbered
<1>4. QED
  BY <1>1, <1>3, SequenceType DEF AllNumbered

LEMMA NewsFacts ==
  /\ \A news \in Incremental, s \in Symbols : news[s] \in Seq(Quotes)
  /\ \A quotes \in Snapshots : quotes \in Seq(Quotes)
  /\ MaxSkipped \in Nat
BY MarketDataAssumption

LEMMA EmptyTypes ==
  /\ NoState \in StateTypes /\ NoCall \in CallTypes /\ Silent \in [Symbols -> Entries]
  /\ Idle.todo = {} /\ Idle.message = Silent /\ Idle.call = NoCall
BY NoEntries, NoLiquidityType
DEF NoState, StateTypes, NoCall, CallTypes, Statuses, Silent, Idle

LEMMA InitTyped == Init => Typed
<1> SUFFICES ASSUME Init PROVE Typed
  OBVIOUS
<1>1. states \in [Symbols -> StateTypes]
  BY EmptyTypes DEF Init
<1>2. FeedTyped
  <2>1. feed.todo = {} /\ feed.message = Silent /\ feed.call = NoCall
    BY DEF Init, Idle
  <2>2. QED
    BY <2>1, EmptyTypes DEF FeedTyped
<1>3. RestTyped
  BY DEF Init, RestTyped
<1>4. StrategyTyped
  BY ZeroSymbol, NoLiquidityType DEF Init, StrategyTyped
<1>5. QED
  BY <1>1, <1>2, <1>3, <1>4 DEF Typed

LEMMA StateFacts ==
  ASSUME Typed, NEW s \in Symbols
  PROVE  /\ states[s] \in StateTypes /\ states[s].tmpBuffer \in Entries
         /\ states[s].lastRptSeq \in Nat /\ states[s].updateCount \in Nat
         /\ states[s].bid \in Sides /\ states[s].ask \in Sides
<1>1. states[s] \in StateTypes
  BY DEF Typed
<1>2. QED
  BY <1>1 DEF StateTypes

LEMMA CallFacts ==
  ASSUME Typed
  PROVE  /\ feed.call.entries \in Entries /\ feed.call.first \in Nat
         /\ feed.call.status \in Statuses
         /\ feed.call.kind \in {"none", "update", "replay", "snapshot"}
<1>1. feed.call \in CallTypes
  BY DEF Typed, FeedTyped
<1>2. QED
  BY <1>1 DEF CallTypes

(* What a call starts with.                                                *)
LEMMA CallTyped ==
  ASSUME Shapes, FeedTyped, NEW kind \in {"update", "replay", "snapshot"}, NEW s \in Symbols,
         NEW entries \in Entries, feed' = Call(kind, s, entries)
  PROVE  /\ FeedTyped' /\ feed'.at = "entries" /\ feed'.symbol = s
         /\ feed'.todo = feed.todo \ {s} /\ feed'.message = feed.message
         /\ feed'.call.kind = kind /\ feed'.call.entries = entries
         /\ feed'.call.status = "UNKNOWN"
         /\ feed'.call.first = IF entries = << >> THEN 0 ELSE entries[1].rptSeq
<1>1. (IF entries = << >> THEN 0 ELSE entries[1].rptSeq) \in Nat
  <2>1. entries # << >> => entries[1] \in EntryTypes
    BY EntriesFacts
  <2>2. QED
    BY <2>1 DEF EntryTypes
<1>2. PICK n \in Nat : n = IF entries = << >> THEN 0 ELSE entries[1].rptSeq
  BY <1>1
<1>3. PICK call : call = [NoCall EXCEPT !.kind = kind, !.entries = entries, !.first = n]
  OBVIOUS
<1>4. call \in CallTypes /\ call.kind = kind /\ call.entries = entries /\ call.first = n
      /\ call.status = "UNKNOWN"
  BY <1>3 DEF NoCall, CallTypes, Statuses
<1>5. feed' = [feed EXCEPT !.at = "entries", !.todo = @ \ {s}, !.symbol = s, !.call = call]
  BY <1>2, <1>3 DEF Call
<1>6. /\ feed'.at = "entries" /\ feed'.symbol = s /\ feed'.todo = feed.todo \ {s}
      /\ feed'.message = feed.message /\ feed'.call = call
  BY <1>5 DEF Shapes, FeedFields, Idle
<1>7. QED
  BY <1>2, <1>4, <1>6 DEF FeedTyped

-----------------------------------------------------------------------------
(* The types of what each step leaves.                                     *)
LEMMA IdleTyped ==
  ASSUME feed' = Idle
  PROVE  FeedTyped' /\ feed'.todo = {} /\ feed'.at = "idle"
<1>1. feed'.todo = {} /\ feed'.message = Silent /\ feed'.call = NoCall /\ feed'.at = "idle"
  BY DEF Idle
<1>2. QED
  BY <1>1, EmptyTypes DEF FeedTyped

LEMMA LogonTyped == ASSUME Typed, LogonSuccess PROVE Typed'
BY IdleTyped DEF Typed, LogonSuccess, RestTyped, StrategyTyped

LEMMA MarketDataTyped ==
  ASSUME Typed, NEW news \in Incremental, NEW skipped \in 0 .. MaxSkipped,
         MarketData(news, skipped)
  PROVE  /\ Typed'
         /\ \A s \in Symbols : feed'.message[s] = Numbered(news[s], published[s] + skipped + 1)
         /\ \A s \in Symbols : s \in feed'.todo <=> ~lost /\ feed'.message[s] # << >>
         /\ feed'.at = IF lost THEN "idle" ELSE "symbols"
<1>1. PICK message :
        message = [s \in Symbols |-> Numbered(news[s], published[s] + skipped + 1)]
  OBVIOUS
<1>2. \A s \in Symbols : published[s] + skipped + 1 \in Nat /\ published[s] \in Nat
  BY NewsFacts DEF Typed, RestTyped
<1>3. message \in [Symbols -> Entries]
  BY <1>1, <1>2, NewsFacts, NumberedType
<1>4. /\ feed'.message = message /\ feed'.call = NoCall
      /\ feed'.todo = {s \in Symbols : ~lost /\ message[s] # << >>}
      /\ feed'.at = IF lost THEN "idle" ELSE "symbols"
  BY <1>1 DEF MarketData, Idle
<1>5. FeedTyped'
  BY <1>3, <1>4, EmptyTypes DEF FeedTyped
<1>6. published' \in [Symbols -> Nat]
  <2>1. ASSUME NEW s \in Symbols
        PROVE  published[s] \in Nat /\ published[s] + skipped + Len(news[s]) \in Nat
    <3>1. published[s] \in Nat /\ skipped \in Nat /\ Len(news[s]) \in Nat
      BY <1>2, NewsFacts, QuotesFacts
    <3>2. QED
      BY <3>1
  <2>2. QED
    BY <2>1 DEF MarketData
<1>7. RestTyped'
  BY <1>6 DEF MarketData, NewMessage, Typed, RestTyped
<1>8. Typed'
  BY <1>5, <1>7 DEF MarketData, NewMessage, Typed, StrategyTyped
<1>9. QED
  BY <1>1, <1>4, <1>8

LEMMA NoSnapshotTyped ==
  ASSUME Shapes, Typed, NEW s \in Symbols, AddUpdateNoSnapshot(s) PROVE Typed'
<1>1. states[s].tmpBuffer \o feed.message[s] \in Entries
  <2>1. feed.message[s] \in Entries /\ states[s].tmpBuffer \in Entries
    BY StateFacts DEF Typed, FeedTyped
  <2>2. QED
    BY <2>1, ConcatProperties DEF Entries
<1>2. Keeping(states[s], feed.message[s]) \in StateTypes
  <2>1. PICK state \in StateTypes : state = states[s]
    BY StateFacts
  <2>2. PICK buffer \in Entries : buffer = state.tmpBuffer \o feed.message[s]
    BY <1>1, <2>1
  <2>3. PICK longest \in Nat :
          longest = IF Len(buffer) > state.longest THEN Len(buffer) ELSE state.longest
    <3>1. state.longest \in Nat /\ Len(buffer) \in Nat
      BY EntriesFacts DEF StateTypes
    <3>2. QED
      BY <3>1
  <2>4. Keeping(state, feed.message[s]) = [state EXCEPT !.tmpBuffer = buffer, !.longest = longest]
    BY <2>2, <2>3 DEF Keeping, StateTypes
  <2>5. QED
    BY <2>1, <2>4 DEF StateTypes
<1>3. states' \in [Symbols -> StateTypes]
  BY <1>2 DEF AddUpdateNoSnapshot, Typed
<1>4. FeedTyped'
  <2>1. feed'.todo = feed.todo \ {s} /\ feed'.message = feed.message /\ feed'.call = feed.call
    BY DEF AddUpdateNoSnapshot, Shapes, FeedFields, Idle
  <2>2. QED
    BY <2>1 DEF Typed, FeedTyped
<1>5. QED
  BY <1>3, <1>4 DEF AddUpdateNoSnapshot, Typed, RestTyped, StrategyTyped

LEMMA CountedType ==
  ASSUME NEW state \in StateTypes
  PROVE  Counted(state) \in StateTypes
<1>1. state.updateCount + 1 \in Nat
  BY DEF StateTypes
<1>2. QED
  BY <1>1 DEF Counted, StateTypes

LEMMA AddUpdateTyped ==
  ASSUME Shapes, Typed, NEW s \in Symbols, AddUpdate(s) PROVE Typed'
<1>1. states' \in [Symbols -> StateTypes]
  BY StateFacts, CountedType DEF AddUpdate, Typed
<1>2. FeedTyped'
  BY CallTyped DEF AddUpdate, Typed, FeedTyped
<1>3. QED
  BY <1>1, <1>2 DEF AddUpdate, Typed, RestTyped, StrategyTyped

LEMMA ReplayTyped ==
  ASSUME Shapes, Typed, Replay PROVE Typed'
<1>1. feed.symbol \in Symbols
  BY DEF Shapes
<1>2. states' \in [Symbols -> StateTypes]
  BY <1>1, StateFacts, CountedType DEF Replay, Typed
<1>3. FeedTyped'
  BY <1>1, CallTyped, StateFacts DEF Replay, State, Typed
<1>4. QED
  BY <1>2, <1>3 DEF Replay, Typed, RestTyped, StrategyTyped

LEMMA SnapshotCalls ==
  ASSUME NEW s, NEW quotes, NEW number, Snapshot(s, quotes, number)
  PROVE  feed' = Call("snapshot", s, AllNumbered(quotes, number))
BY DEF Snapshot, AllNumbered

LEMMA SnapshotTyped ==
  ASSUME Shapes, Typed, NEW s \in Symbols, NEW quotes \in Snapshots,
         NEW number \in 0 .. published[s], Snapshot(s, quotes, number)
  PROVE  Typed' /\ number \in Nat /\ AllNumbered(quotes, number) \in Entries
<1>1. published[s] \in Nat
  BY DEF Typed, RestTyped
<1>2. number \in Nat
  BY <1>1
<1>3. AllNumbered(quotes, number) \in Entries
  BY <1>2, NewsFacts, AllNumberedType
<1>4. states' \in [Symbols -> StateTypes]
  BY StateFacts, CountedType DEF Snapshot, Typed
<1>5. FeedTyped'
  BY <1>3, CallTyped, SnapshotCalls DEF Typed
<1>6. RestTyped'
  BY DEF Snapshot, NewMessage, Typed, RestTyped
<1>7. StrategyTyped'
  BY DEF Snapshot, NewMessage, Typed, StrategyTyped
<1>8. QED
  BY <1>2, <1>3, <1>4, <1>5, <1>6, <1>7 DEF Typed

LEMMA BookedType ==
  ASSUME Shapes, Typed, InEntries PROVE Booked \in Results
<1>1. feed.call.entries \in Entries /\ feed.call.entries # << >>
  BY CallFacts DEF InEntries
<1>2. Entry \in EntryTypes
  BY <1>1, EntriesFacts DEF Entry
<1>3. Entry.price \in Nat /\ Entry.volume \in Nat
  BY <1>2 DEF EntryTypes
<1>4. State.bid \in Sides /\ State.ask \in Sides
  BY StateFacts DEF State, Shapes
<1>5. QED
  BY <1>3, <1>4, UpdateTypes DEF Booked

LEMMA EntryFacts ==
  ASSUME Typed, InEntries
  PROVE  /\ Entry \in EntryTypes /\ Entry = feed.call.entries[1]
         /\ Entry.type \in {"BID", "OFFER", "TRADE"} /\ Entry.rptSeq \in Nat
         /\ Tail(feed.call.entries) \in Entries
<1>1. feed.call.entries \in Entries /\ feed.call.entries # << >>
  BY CallFacts DEF InEntries
<1>2. /\ Entry \in EntryTypes /\ Entry = feed.call.entries[1]
      /\ Tail(feed.call.entries) \in Entries
  BY <1>1, EntriesFacts DEF Entry
<1>3. QED
  BY <1>2 DEF EntryTypes

(* One more entry is dealt with.                                           *)
LEMMA TailTyped ==
  ASSUME Shapes, Typed, NEW entries \in Entries, NEW status \in Statuses,
         feed' = [feed EXCEPT !.call.entries = entries, !.call.status = status]
  PROVE  /\ FeedTyped'
         /\ feed'.at = feed.at /\ feed'.symbol = feed.symbol /\ feed'.todo = feed.todo
         /\ feed'.message = feed.message
         /\ feed'.call.kind = feed.call.kind /\ feed'.call.first = feed.call.first
         /\ feed'.call.entries = entries /\ feed'.call.status = status
<1>1. feed.call \in CallTypes
  BY DEF Typed, FeedTyped
<1>2. PICK call : call = [feed.call EXCEPT !.entries = entries, !.status = status]
  OBVIOUS
<1>3. /\ call \in CallTypes /\ call.kind = feed.call.kind /\ call.first = feed.call.first
      /\ call.entries = entries /\ call.status = status
  BY <1>1, <1>2 DEF CallTypes
<1>4. feed' = [feed EXCEPT !.call = call]
  BY <1>2 DEF Shapes, FeedFields, Idle
<1>5. /\ feed'.at = feed.at /\ feed'.symbol = feed.symbol /\ feed'.todo = feed.todo
      /\ feed'.message = feed.message /\ feed'.call = call
  BY <1>4 DEF Shapes, FeedFields, Idle
<1>6. QED
  BY <1>3, <1>5 DEF Typed, FeedTyped

(* What the call of UpdateBook leaves of the state and of the feed.        *)
LEMMA UpdateBookState ==
  ASSUME Shapes, Typed, UpdateBook
  PROVE  /\ states' \in [Symbols -> StateTypes]
         /\ \A s \in Symbols \ {feed.symbol} : states'[s] = states[s]
         /\ states'[feed.symbol].status = State.status
         /\ states'[feed.symbol].tmpBuffer = State.tmpBuffer
         /\ states'[feed.symbol].updateCount = State.updateCount
         /\ states'[feed.symbol].lastRptSeq =
              IF IsUpdate THEN Entry.rptSeq ELSE State.lastRptSeq
<1>1. InEntries /\ feed.symbol \in Symbols
  BY DEF UpdateBook, Shapes
<1>2. PICK result : result = Booked
  OBVIOUS
<1>3. result.side \in Sides
  BY <1>1, <1>2, BookedType DEF Results
<1>4. PICK now : now = IF Entry.type = "OFFER" THEN [State EXCEPT !.ask = result.side]
                       ELSE [State EXCEPT !.bid = result.side]
  OBVIOUS
<1>5. /\ now \in StateTypes /\ now.status = State.status /\ now.tmpBuffer = State.tmpBuffer
      /\ now.updateCount = State.updateCount /\ now.lastRptSeq = State.lastRptSeq
  BY <1>1, <1>3, <1>4, StateFacts DEF State, StateTypes
<1>6. PICK after : after = IF IsUpdate THEN [now EXCEPT !.lastRptSeq = Entry.rptSeq] ELSE now
  OBVIOUS
<1>7. /\ after \in StateTypes /\ after.status = State.status
      /\ after.tmpBuffer = State.tmpBuffer /\ after.updateCount = State.updateCount
      /\ after.lastRptSeq = IF IsUpdate THEN Entry.rptSeq ELSE State.lastRptSeq
  BY <1>1, <1>5, <1>6, EntryFacts DEF StateTypes
<1>8. states' = [states EXCEPT ![feed.symbol] = after]
  BY <1>2, <1>4, <1>6 DEF UpdateBook
<1>9. QED
  BY <1>1, <1>7, <1>8 DEF Typed

LEMMA UpdateBookFeed ==
  ASSUME Shapes, Typed, UpdateBook
  PROVE  /\ FeedTyped'
         /\ feed'.at = feed.at /\ feed'.symbol = feed.symbol /\ feed'.todo = feed.todo
         /\ feed'.message = feed.message
         /\ feed'.call.kind = feed.call.kind /\ feed'.call.first = feed.call.first
         /\ feed'.call.entries = Tail(feed.call.entries)
         /\ feed'.call.status = Status(feed.call.status, Booked.status)
<1>1. PICK status : status = Status(feed.call.status, Booked.status)
  OBVIOUS
<1>2. InEntries
  BY DEF UpdateBook
<1>3. status \in Statuses
  BY <1>1, <1>2, BookedType, CallFacts DEF Status, Results, Statuses
<1>4. feed' = [feed EXCEPT !.call.entries = Tail(@), !.call.status = status]
  BY <1>1 DEF UpdateBook
<1>5. feed' = [feed EXCEPT !.call.entries = Tail(feed.call.entries), !.call.status = status]
  BY <1>4 DEF Shapes, FeedFields, Idle
<1>6. QED
  BY <1>1, <1>2, <1>3, <1>5, EntryFacts, TailTyped

LEMMA UpdateBookTyped == ASSUME Shapes, Typed, UpdateBook PROVE Typed'
BY UpdateBookState, UpdateBookFeed DEF UpdateBook, Typed, RestTyped, StrategyTyped

LEMMA SkipFeed ==
  ASSUME Shapes, Typed, SkipOldUpdate
  PROVE  /\ FeedTyped'
         /\ feed'.at = feed.at /\ feed'.symbol = feed.symbol /\ feed'.todo = feed.todo
         /\ feed'.message = feed.message
         /\ feed'.call.kind = feed.call.kind /\ feed'.call.first = feed.call.first
         /\ feed'.call.entries = Tail(feed.call.entries)
         /\ feed'.call.status = feed.call.status
<1>1. feed.call \in CallTypes
  BY DEF Typed, FeedTyped
<1>2. feed' = [feed EXCEPT !.call.entries = Tail(feed.call.entries),
                           !.call.status = feed.call.status]
  BY <1>1 DEF SkipOldUpdate, Shapes, FeedFields, Idle, CallTypes
<1>3. Tail(feed.call.entries) \in Entries /\ feed.call.status \in Statuses
  BY EntryFacts, CallFacts DEF SkipOldUpdate
<1>4. QED
  BY <1>2, <1>3, TailTyped

LEMMA MissFeed ==
  ASSUME Shapes, Typed, MissUpdate
  PROVE  /\ FeedTyped'
         /\ feed'.at = feed.at /\ feed'.symbol = feed.symbol /\ feed'.todo = feed.todo
         /\ feed'.message = feed.message
         /\ feed'.call.kind = feed.call.kind /\ feed'.call.first = feed.call.first
         /\ feed'.call.entries = << >>
         /\ feed'.call.status = "MISSING_UPDATE"
<1>1. << >> \in Entries /\ "MISSING_UPDATE" \in Statuses
  BY NoEntries DEF Statuses
<1>2. feed' = [feed EXCEPT !.call.entries = << >>, !.call.status = "MISSING_UPDATE"]
  BY DEF MissUpdate
<1>3. QED
  BY <1>1, <1>2, TailTyped

LEMMA SkipTyped == ASSUME Shapes, Typed, SkipOldUpdate \/ MissUpdate PROVE Typed'
<1>1. FeedTyped'
  BY SkipFeed, MissFeed
<1>2. UNCHANGED <<states, lost, changed, requested, notified, strategy, fault, published,
                  messages, history, books>>
  BY DEF SkipOldUpdate, MissUpdate
<1>3. QED
  BY <1>1, <1>2 DEF Typed, RestTyped, StrategyTyped

(* What the end of addUpdate leaves of a state.                            *)
LEMMA AfterUpdateType ==
  ASSUME NEW state \in StateTypes
  PROVE  /\ AfterUpdate(state) \in StateTypes
         /\ AfterUpdate(state).status =
              IF feed.call.status = "MISSING_UPDATE" THEN "INVALID" ELSE "VALID"
         /\ AfterUpdate(state).lastRptSeq = state.lastRptSeq
         /\ AfterUpdate(state).tmpBuffer = state.tmpBuffer
         /\ AfterUpdate(state).updateCount = state.updateCount + 1
         /\ [AfterUpdate(state) EXCEPT !.tmpBuffer = << >>] \in StateTypes
<1>1. PICK counted : counted = Counted(state)
  OBVIOUS
<1>2. /\ counted \in StateTypes /\ counted.lastRptSeq = state.lastRptSeq
      /\ counted.tmpBuffer = state.tmpBuffer /\ counted.updateCount = state.updateCount + 1
  BY <1>1, CountedType DEF Counted, StateTypes
<1>3. PICK status \in {"INVALID", "VALID"} :
        status = IF feed.call.status = "MISSING_UPDATE" THEN "INVALID" ELSE "VALID"
  OBVIOUS
<1>4. AfterUpdate(state) = [counted EXCEPT !.status = status]
  BY <1>1, <1>3 DEF AfterUpdate
<1>5. QED
  BY <1>2, <1>3, <1>4, NoEntries DEF StateTypes

LEMMA DoneFeed ==
  ASSUME Shapes, Typed, UpdateDone
  PROVE  /\ FeedTyped' /\ feed'.at = "symbols" /\ feed'.todo = feed.todo
         /\ feed'.message = feed.message /\ feed'.call = NoCall
BY EmptyTypes DEF UpdateDone, Shapes, FeedFields, Idle, Typed, FeedTyped

LEMMA DoneTyped ==
  ASSUME Shapes, Typed, UpdateDone \/ UpdateMissed \/ ReplayDone PROVE Typed'
<1>1. feed.symbol \in Symbols
  BY DEF Shapes
<1>2. states' \in [Symbols -> StateTypes]
  <2>1. PICK state : state = states[feed.symbol]
    OBVIOUS
  <2>2. /\ AfterUpdate(state) \in StateTypes
        /\ [AfterUpdate(state) EXCEPT !.tmpBuffer = << >>] \in StateTypes
    BY <1>1, <2>1, StateFacts, AfterUpdateType
  <2>3. \/ states' = [states EXCEPT ![feed.symbol] = AfterUpdate(state)]
        \/ states' = [states EXCEPT ![feed.symbol] =
                        [AfterUpdate(state) EXCEPT !.tmpBuffer = << >>]]
    BY <1>1, <2>1 DEF UpdateDone, UpdateMissed, ReplayDone, Typed
  <2>4. QED
    BY <1>1, <2>2, <2>3 DEF Typed
<1>3. FeedTyped'
  BY DoneFeed, IdleTyped DEF UpdateMissed, ReplayDone
<1>4. RestTyped' /\ StrategyTyped'
  BY DEF UpdateDone, UpdateMissed, ReplayDone, Typed, RestTyped, StrategyTyped
<1>5. QED
  BY <1>2, <1>3, <1>4 DEF Typed

(* What the end of addSnapshot leaves of a state.                          *)
AfterSnapshot(state) ==
  IF feed.call.status = "SUCCESSFULL"
  THEN [Counted(state) EXCEPT !.lastRptSeq = feed.call.first, !.status = "SNASHOT_ADDED"]
  ELSE Counted(state)

LEMMA AfterSnapshotType ==
  ASSUME Typed, NEW state \in StateTypes
  PROVE  /\ AfterSnapshot(state) \in StateTypes
         /\ AfterSnapshot(state).tmpBuffer = state.tmpBuffer
         /\ AfterSnapshot(state).updateCount = state.updateCount + 1
         /\ feed.call.status = "SUCCESSFULL" =>
              /\ AfterSnapshot(state).lastRptSeq = feed.call.first
              /\ AfterSnapshot(state).status = "SNASHOT_ADDED"
         /\ feed.call.status # "SUCCESSFULL" =>
              /\ AfterSnapshot(state).lastRptSeq = state.lastRptSeq
              /\ AfterSnapshot(state).status = state.status
<1>1. PICK counted : counted = Counted(state)
  OBVIOUS
<1>2. /\ counted \in StateTypes /\ counted.lastRptSeq = state.lastRptSeq
      /\ counted.tmpBuffer = state.tmpBuffer /\ counted.updateCount = state.updateCount + 1
      /\ counted.status = state.status
  BY <1>1, CountedType DEF Counted, StateTypes
<1>3. feed.call.first \in Nat
  BY CallFacts
<1>4. QED
  BY <1>1, <1>2, <1>3 DEF AfterSnapshot, StateTypes

LEMMA SnapshotDoneTyped ==
  ASSUME Shapes, Typed, SnapshotDone
  PROVE  /\ Typed' /\ feed'.todo \subseteq feed.todo
         /\ states' = [states EXCEPT ![feed.symbol] = AfterSnapshot(State)]
         /\ State.tmpBuffer = << >> => feed'.at = "idle"
         /\ State.tmpBuffer # << >> => feed'.at = "replay" /\ feed'.symbol = feed.symbol
<1>1. feed.symbol \in Symbols
  BY DEF Shapes
<1>2. states' = [states EXCEPT ![feed.symbol] = AfterSnapshot(State)]
  BY <1>1 DEF SnapshotDone, AfterSnapshot, State, Typed
<1>3. states' \in [Symbols -> StateTypes]
  BY <1>1, <1>2, StateFacts, AfterSnapshotType DEF State, Typed
<1>4. CASE State.tmpBuffer = << >>
  BY <1>2, <1>3, <1>4, IdleTyped DEF SnapshotDone, Typed, RestTyped, StrategyTyped
<1>5. CASE State.tmpBuffer # << >>
  <2>1. /\ feed'.at = "replay" /\ feed'.symbol = feed.symbol /\ feed'.todo = feed.todo
        /\ feed'.message = feed.message /\ feed'.call = NoCall
    BY <1>5 DEF SnapshotDone, Shapes, FeedFields, Idle
  <2>2. FeedTyped'
    BY <2>1, EmptyTypes DEF Typed, FeedTyped
  <2>3. QED
    BY <1>2, <1>3, <1>5, <2>1, <2>2 DEF SnapshotDone, Typed, RestTyped, StrategyTyped
<1>6. QED
  BY <1>4, <1>5

LEMMA NotifyTyped == ASSUME Typed, NotifyMarketChanges PROVE Typed'
BY IdleTyped DEF Typed, NotifyMarketChanges, RestTyped, StrategyTyped

LEMMA IntoItselfTyped == ASSUME Shapes, Typed, ReplayIntoItself PROVE Typed'
<1>1. feed.symbol \in Symbols
  BY DEF Shapes
<1>2. [states[feed.symbol] EXCEPT !.tmpBuffer = << >>] \in StateTypes
  BY <1>1, StateFacts, NoEntries DEF StateTypes
<1>3. states' \in [Symbols -> StateTypes]
  BY <1>1, <1>2 DEF ReplayIntoItself, Typed
<1>4. FeedTyped'
  BY IdleTyped DEF ReplayIntoItself
<1>5. QED
  BY <1>3, <1>4 DEF ReplayIntoItself, Typed, RestTyped, StrategyTyped

LEMMA EndTyped ==
  ASSUME Typed, UpdateTrade \/ SnapshotOfLost \/ ReplayOutOfRoom \/ ReadOfLost PROVE Typed'
<1>1. UNCHANGED <<feedVars, strategy, published>>
  BY DEF UpdateTrade, SnapshotOfLost, ReplayOutOfRoom, ReadOfLost, Ends
<1>2. fault' \in {"trade", "snapshot", "buffer", "freed"}
  BY DEF UpdateTrade, SnapshotOfLost, ReplayOutOfRoom, ReadOfLost, Ends
<1>3. QED
  BY <1>1, <1>2 DEF feedVars, Typed, FeedTyped, RestTyped, StrategyTyped

LEMMA StrategyTypes ==
  ASSUME Typed,
         \/ \E s \in Symbols : HandleEvent(s)
         \/ LoadCount \/ CopyBids \/ CopyAsks \/ LoadCountAgain
  PROVE  Typed'
<1>1. strategy.symbol \in Symbols
  BY DEF Typed, StrategyTyped
<1>2. PICK state : state = states[strategy.symbol]
  OBVIOUS
<1>3. state.updateCount \in Nat /\ state.bid \in Sides /\ state.ask \in Sides
  BY <1>1, <1>2, StateFacts
<1>4. CASE \E s \in Symbols : HandleEvent(s)
  BY <1>4 DEF HandleEvent, feedVars, Typed, FeedTyped, RestTyped, StrategyTyped
<1>5. CASE LoadCount
  BY <1>2, <1>3, <1>5 DEF LoadCount, feedVars, Typed, FeedTyped, RestTyped, StrategyTyped
<1>6. CASE CopyBids
  BY <1>2, <1>3, <1>6 DEF CopyBids, feedVars, Typed, FeedTyped, RestTyped, StrategyTyped
<1>7. CASE CopyAsks
  BY <1>2, <1>3, <1>7 DEF CopyAsks, feedVars, Typed, FeedTyped, RestTyped, StrategyTyped
<1>8. CASE LoadCountAgain
  BY <1>8 DEF LoadCountAgain, feedVars, Typed, FeedTyped, RestTyped, StrategyTyped
<1>9. QED
  BY <1>4, <1>5, <1>6, <1>7, <1>8

LEMMA NextTyped == ASSUME Shapes, Typed, [Next]_vars PROVE Typed'
<1>1. CASE LogonSuccess
  BY <1>1, LogonTyped
<1>2. ASSUME NEW news \in Incremental, NEW skipped \in 0 .. MaxSkipped, MarketData(news, skipped)
      PROVE  Typed'
  BY <1>2, MarketDataTyped
<1>3. ASSUME NEW s \in Symbols, AddUpdateNoSnapshot(s) PROVE Typed'
  BY <1>3, NoSnapshotTyped
<1>4. ASSUME NEW s \in Symbols, AddUpdate(s) PROVE Typed'
  BY <1>4, AddUpdateTyped
<1>5. CASE UpdateBook
  BY <1>5, UpdateBookTyped
<1>6. CASE SkipOldUpdate \/ MissUpdate
  BY <1>6, SkipTyped
<1>7. CASE UpdateDone \/ UpdateMissed \/ ReplayDone
  BY <1>7, DoneTyped
<1>8. CASE NotifyMarketChanges
  BY <1>8, NotifyTyped
<1>9. ASSUME NEW s \in Symbols, NEW quotes \in Snapshots, NEW number \in 0 .. published[s],
             Snapshot(s, quotes, number)
      PROVE  Typed'
  BY <1>9, SnapshotTyped
<1>10. CASE UpdateTrade \/ SnapshotOfLost \/ ReplayOutOfRoom \/ ReadOfLost
  BY <1>10, EndTyped
<1>11. CASE SnapshotDone
  BY <1>11, SnapshotDoneTyped
<1>12. CASE Replay
  BY <1>12, ReplayTyped
<1>13. CASE (\E s \in Symbols : HandleEvent(s)) \/ LoadCount \/ CopyBids \/ CopyAsks
            \/ LoadCountAgain
  BY <1>13, StrategyTypes
<1>14. CASE UNCHANGED vars
  BY <1>14 DEF vars, feedVars, Typed, FeedTyped, RestTyped, StrategyTyped
<1>15. CASE ReplayIntoItself
  BY <1>15, IntoItselfTyped
<1>16. QED
  BY <1>1, <1>2, <1>3, <1>4, <1>5, <1>6, <1>7, <1>8, <1>9, <1>10, <1>11, <1>12, <1>13, <1>14,
     <1>15 DEF Next

(* The state of the feed and of the strategies has its types, the circular *)
(* windows of Liquidity their subscripts, and the count of a state is odd  *)
(* exactly while a call of SymbolMarketState is changing its book, for any *)
(* prices and volumes the broker sends and any size of the windows.        *)
THEOREM FeedTypes == Spec => []TypeOK
<1>1. Init => ReadInv /\ Typed
  BY InitReadInv, InitTyped
<1>2. ReadInv /\ Typed /\ [Next]_vars => (ReadInv /\ Typed)'
  BY NextReadInv, NextTyped DEF ReadInv
<1>3. ReadInv /\ Typed => TypeOK
  BY TypedIsTypeOK
<1>4. QED
  BY <1>1, <1>2, <1>3, PTL DEF Spec

-----------------------------------------------------------------------------
(* What is known of an update on its way from the broker to a book.        *)
Ascends(entries) ==
  \A i, j \in DOMAIN entries : i <= j => entries[i].rptSeq <= entries[j].rptSeq

(* Entries as they came, of a symbol with these numbers, up to the top.    *)
Genuine(entries, top, numbers) ==
  /\ Ascends(entries)
  /\ \A i \in DOMAIN entries : entries[i].rptSeq \in 1 .. top
  /\ NumbersOf(entries) \subseteq numbers

NextNumber(s) == states[s].lastRptSeq + 1

(* What a state has looked at is everything up to its number, and more if  *)
(* an outdated snapshot has set it back.                                   *)
Ledger ==
  /\ came \in [Symbols -> SUBSET Nat] /\ looked \in [Symbols -> SUBSET Nat]
  /\ refused \in [Symbols -> SUBSET Nat] /\ outdated \subseteq Symbols
  /\ \A s \in Symbols :
       /\ 1 .. states[s].lastRptSeq \subseteq looked[s]
       /\ s \notin outdated => looked[s] = 1 .. states[s].lastRptSeq
       /\ states[s].lastRptSeq <= published[s]
       /\ came[s] \subseteq 1 .. published[s]

(* One after the other: no entry of the first has a number above one of    *)
(* the second.                                                             *)
Precedes(first, second) ==
  \A i \in DOMAIN first, j \in DOMAIN second : first[i].rptSeq <= second[j].rptSeq

(* What is kept came before what is on its way.                            *)
Buffers ==
  /\ \A s \in Symbols : Genuine(states[s].tmpBuffer, published[s], came[s])
  /\ \A s \in feed.todo : /\ Genuine(feed.message[s], published[s], came[s])
                          /\ Precedes(states[s].tmpBuffer, feed.message[s])

Phases ==
  /\ feed.at \in {"off", "idle", "replay"} => feed.todo = {}
  /\ feed.at = "entries" =>
       /\ feed.call.kind # "none" /\ feed.symbol \notin feed.todo
       /\ feed.call.kind \in {"replay", "snapshot"} => feed.todo = {}
  /\ lost => feed.at = "idle"

(* A state with a snapshot keeps nothing, but while it is replayed.        *)
Replaying(s) ==
  /\ feed.symbol = s
  /\ feed.at = "replay" \/ (feed.at = "entries" /\ feed.call.kind = "replay")

NothingKept ==
  \A s \in Symbols :
    states[s].status = "SNASHOT_ADDED" /\ states[s].tmpBuffer # << >> => Replaying(s)

(* A number is missed only if it did not come, or after a snapshot that    *)
(* was outdated.                                                           *)
Missed(s) ==
  \/ s \in outdated
  \/ NextNumber(s) \notin came[s] /\ \E n \in came[s] : n > NextNumber(s)

UpdateCall ==
  feed.at = "entries" /\ IsUpdate =>
    LET s == feed.symbol IN
    /\ states[s].status = "SNASHOT_ADDED"
    /\ Genuine(feed.call.entries, published[s], came[s])
    /\ feed.call.status = "MISSING_UPDATE" => feed.call.entries = << >> /\ Missed(s)
    /\ feed.call.kind = "replay" =>
         \A n \in NumbersOf(states[s].tmpBuffer) :
           \/ n \in looked[s] \/ n \in NumbersOf(feed.call.entries)
           \/ feed.call.status = "MISSING_UPDATE"

SnapshotCall ==
  feed.at = "entries" /\ feed.call.kind = "snapshot" =>
    feed.call.status # "MISSING_UPDATE" /\ feed.call.first <= published[feed.symbol]

(* Without the snapshot they were kept for, the updates are refused, until *)
(* there is one.                                                           *)
ReplayCall ==
  feed.at = "replay" =>
    \/ states[feed.symbol].status = "SNASHOT_ADDED"
    \/ NumbersOf(states[feed.symbol].tmpBuffer) \subseteq refused[feed.symbol]

Coming(s, n) ==
  \/ /\ feed.at \in {"symbols", "entries"} /\ s \in feed.todo
     /\ n \in NumbersOf(feed.message[s])
  \/ /\ Changing(s) /\ IsUpdate
     /\ n \in NumbersOf(feed.call.entries) \/ feed.call.status = "MISSING_UPDATE"

(* An update that came was looked at, or refused, is kept or is coming, or *)
(* the state has a gap before it.                                          *)
Accounted(s, n) ==
  \/ n \in looked[s] \cup refused[s] \/ n \in NumbersOf(states[s].tmpBuffer)
  \/ Coming(s, n) \/ AfterGap(s, n)

AllAccounted == lost \/ \A s \in Symbols \ outdated : \A n \in came[s] : Accounted(s, n)

FeedInv ==
  /\ Ledger /\ Buffers /\ Phases /\ NothingKept /\ UpdateCall /\ SnapshotCall /\ ReplayCall
  /\ AllAccounted /\ GapIsReal

NoneRefused == \A s \in Symbols : states[s].status = "SNASHOT_ADDED" => refused[s] = {}

Inv == ReadInv /\ Typed /\ FeedInv /\ NoneRefused

-----------------------------------------------------------------------------
LEMMA NumbersOfNone == NumbersOf(<< >>) = {}
BY DEF NumbersOf

LEMMA NumberIsAnEntrys ==
  ASSUME NEW entries, NEW n \in NumbersOf(entries)
  PROVE  \E i \in DOMAIN entries : entries[i].rptSeq = n
BY DEF NumbersOf

LEMMA NumbersOfHead ==
  ASSUME NEW entries \in Entries, entries # << >>
  PROVE  /\ Head(entries).type # "TRADE" =>
              /\ Head(entries).rptSeq \in NumbersOf(entries)
              /\ NumbersOf(entries) \subseteq NumbersOf(Tail(entries)) \cup {Head(entries).rptSeq}
         /\ Head(entries).type = "TRADE" => NumbersOf(entries) \subseteq NumbersOf(Tail(entries))
         /\ NumbersOf(Tail(entries)) \subseteq NumbersOf(entries)
<1>1. PICK rest \in Entries : rest = Tail(entries)
  BY EntriesFacts
<1>2. /\ DOMAIN entries = 1 .. Len(entries) /\ Len(entries) \in Nat /\ Len(entries) >= 1
      /\ DOMAIN rest = 1 .. Len(entries) - 1
      /\ \A i \in 1 .. Len(entries) - 1 : rest[i] = entries[i + 1]
      /\ Head(entries) = entries[1]
  BY <1>1, EntriesFacts
<1>3. ASSUME NEW i \in DOMAIN entries, entries[i].type # "TRADE"
      PROVE  i = 1 \/ entries[i].rptSeq \in NumbersOf(rest)
  <2>1. CASE i # 1
    <3>1. i - 1 \in DOMAIN rest /\ rest[i - 1] = entries[i]
      BY <1>2, <2>1
    <3>2. QED
      BY <1>3, <3>1 DEF NumbersOf
  <2>2. QED
    BY <2>1
<1>4. NumbersOf(rest) \subseteq NumbersOf(entries)
  <2>1. ASSUME NEW i \in DOMAIN rest, rest[i].type # "TRADE"
        PROVE  rest[i].rptSeq \in NumbersOf(entries)
    <3>1. i + 1 \in DOMAIN entries /\ rest[i] = entries[i + 1]
      BY <1>2
    <3>2. QED
      BY <2>1, <3>1 DEF NumbersOf
  <2>2. QED
    BY <2>1 DEF NumbersOf
<1>5. ASSUME NEW n \in NumbersOf(entries)
      PROVE  n \in NumbersOf(rest) \/ (n = entries[1].rptSeq /\ entries[1].type # "TRADE")
  BY <1>3 DEF NumbersOf
<1>6. entries[1].type # "TRADE" => entries[1].rptSeq \in NumbersOf(entries)
  BY <1>2 DEF NumbersOf
<1>7. QED
  BY <1>1, <1>2, <1>4, <1>5, <1>6

LEMMA ConcatFacts ==
  ASSUME NEW first \in Entries, NEW second \in Entries
  PROVE  /\ DOMAIN (first \o second) = 1 .. Len(first) + Len(second)
         /\ DOMAIN first = 1 .. Len(first) /\ DOMAIN second = 1 .. Len(second)
         /\ Len(first) \in Nat /\ Len(second) \in Nat
         /\ \A i \in 1 .. Len(first) + Len(second) :
              (first \o second)[i] = IF i <= Len(first) THEN first[i] ELSE second[i - Len(first)]
<1>1. first \in Seq(EntryTypes) /\ second \in Seq(EntryTypes)
  BY DEF Entries, EntryTypes
<1>2. QED
  BY <1>1, ConcatProperties, LenProperties

LEMMA NumbersOfConcat ==
  ASSUME NEW first \in Entries, NEW second \in Entries
  PROVE  NumbersOf(first \o second) = NumbersOf(first) \cup NumbersOf(second)
<1>1. PICK both : both = first \o second
  OBVIOUS
<1>2. PICK k \in Nat, m \in Nat :
        /\ DOMAIN both = 1 .. k + m /\ DOMAIN first = 1 .. k /\ DOMAIN second = 1 .. m
        /\ \A i \in 1 .. k + m : both[i] = IF i <= k THEN first[i] ELSE second[i - k]
  BY <1>1, ConcatFacts
<1>3. ASSUME NEW i \in DOMAIN both, both[i].type # "TRADE"
      PROVE  both[i].rptSeq \in NumbersOf(first) \cup NumbersOf(second)
  <2>1. CASE i <= k
    BY <1>2, <1>3, <2>1 DEF NumbersOf
  <2>2. CASE ~(i <= k)
    <3>1. i - k \in DOMAIN second /\ both[i] = second[i - k]
      BY <1>2, <2>2
    <3>2. QED
      BY <1>3, <3>1 DEF NumbersOf
  <2>3. QED
    BY <2>1, <2>2
<1>4. ASSUME NEW i \in DOMAIN first, first[i].type # "TRADE"
      PROVE  first[i].rptSeq \in NumbersOf(both)
  <2>1. i \in DOMAIN both /\ both[i] = first[i]
    BY <1>2
  <2>2. QED
    BY <1>4, <2>1 DEF NumbersOf
<1>5. ASSUME NEW i \in DOMAIN second, second[i].type # "TRADE"
      PROVE  second[i].rptSeq \in NumbersOf(both)
  <2>1. i + k \in DOMAIN both /\ both[i + k] = second[i]
    BY <1>2
  <2>2. QED
    BY <1>5, <2>1 DEF NumbersOf
<1>6. NumbersOf(both) \subseteq NumbersOf(first) \cup NumbersOf(second)
  <2>1. ASSUME NEW n \in NumbersOf(both) PROVE n \in NumbersOf(first) \cup NumbersOf(second)
    <3>1. PICK i \in DOMAIN both : both[i].type # "TRADE" /\ n = both[i].rptSeq
      BY DEF NumbersOf
    <3>2. QED
      BY <1>3, <3>1
  <2>2. QED
    BY <2>1
<1>7. NumbersOf(first) \subseteq NumbersOf(both) /\ NumbersOf(second) \subseteq NumbersOf(both)
  BY <1>4, <1>5 DEF NumbersOf
<1>8. QED
  BY <1>1, <1>6, <1>7

-----------------------------------------------------------------------------
LEMMA GenuineNone == ASSUME NEW top, NEW numbers PROVE Genuine(<< >>, top, numbers)
BY NumbersOfNone DEF Genuine, Ascends

LEMMA GenuineGrows ==
  ASSUME NEW entries, NEW top \in Nat, NEW numbers, Genuine(entries, top, numbers),
         NEW higher \in Nat, top <= higher, NEW more, numbers \subseteq more
  PROVE  Genuine(entries, higher, more)
<1>1. \A n \in 1 .. top : n \in 1 .. higher
  OBVIOUS
<1>2. QED
  BY <1>1 DEF Genuine

LEMMA GenuineTail ==
  ASSUME NEW entries \in Entries, entries # << >>, NEW top, NEW numbers,
         Genuine(entries, top, numbers)
  PROVE  /\ Genuine(Tail(entries), top, numbers)
         /\ Head(entries).rptSeq \in 1 .. top
         /\ \A n \in NumbersOf(entries) : Head(entries).rptSeq <= n
<1>1. PICK rest \in Entries : rest = Tail(entries)
  BY EntriesFacts
<1>2. /\ DOMAIN entries = 1 .. Len(entries) /\ Len(entries) \in Nat /\ Len(entries) >= 1
      /\ DOMAIN rest = 1 .. Len(entries) - 1
      /\ \A i \in 1 .. Len(entries) - 1 : rest[i] = entries[i + 1]
      /\ Head(entries) = entries[1]
  BY <1>1, EntriesFacts
<1>3. Ascends(rest)
  <2>1. ASSUME NEW i \in DOMAIN rest, NEW j \in DOMAIN rest, i <= j
        PROVE  rest[i].rptSeq <= rest[j].rptSeq
    <3>1. i + 1 \in DOMAIN entries /\ j + 1 \in DOMAIN entries /\ i + 1 <= j + 1
      BY <1>2, <2>1
    <3>2. QED
      BY <1>2, <3>1 DEF Genuine, Ascends
  <2>2. QED
    BY <2>1 DEF Ascends
<1>4. \A i \in DOMAIN rest : rest[i].rptSeq \in 1 .. top
  <2>1. ASSUME NEW i \in DOMAIN rest PROVE rest[i].rptSeq \in 1 .. top
    <3>1. i + 1 \in DOMAIN entries /\ rest[i] = entries[i + 1]
      BY <1>2
    <3>2. QED
      BY <3>1 DEF Genuine
  <2>2. QED
    BY <2>1
<1>5. NumbersOf(rest) \subseteq numbers
  BY <1>1, NumbersOfHead DEF Genuine
<1>6. ASSUME NEW n \in NumbersOf(entries) PROVE entries[1].rptSeq <= n
  <2>1. PICK i \in DOMAIN entries : entries[i].rptSeq = n
    BY NumberIsAnEntrys
  <2>2. 1 \in DOMAIN entries /\ 1 <= i
    BY <1>2
  <2>3. QED
    BY <2>1, <2>2 DEF Genuine, Ascends
<1>7. entries[1].rptSeq \in 1 .. top
  BY <1>2 DEF Genuine
<1>8. QED
  BY <1>1, <1>2, <1>3, <1>4, <1>5, <1>6, <1>7 DEF Genuine

LEMMA GenuineConcat ==
  ASSUME NEW first \in Entries, NEW second \in Entries, NEW top, NEW numbers,
         Genuine(first, top, numbers), Genuine(second, top, numbers), Precedes(first, second)
  PROVE  Genuine(first \o second, top, numbers)
<1>1. PICK both : both = first \o second
  OBVIOUS
<1>2. PICK k \in Nat, m \in Nat :
        /\ DOMAIN both = 1 .. k + m /\ DOMAIN first = 1 .. k /\ DOMAIN second = 1 .. m
        /\ \A i \in 1 .. k + m : both[i] = IF i <= k THEN first[i] ELSE second[i - k]
  BY <1>1, ConcatFacts
<1>3. ASSUME NEW i \in DOMAIN both
      PROVE  \/ i <= k /\ i \in DOMAIN first /\ both[i] = first[i]
             \/ i > k /\ i - k \in DOMAIN second /\ both[i] = second[i - k]
  BY <1>2
<1>4. Ascends(both)
  <2>1. ASSUME NEW i \in DOMAIN both, NEW j \in DOMAIN both, i <= j
        PROVE  both[i].rptSeq <= both[j].rptSeq
    <3>1. i \in Int /\ j \in Int
      BY <1>2
    <3>2. CASE j <= k
      <4>1. i <= k
        BY <2>1, <3>1, <3>2
      <4>2. QED
        BY <1>3, <2>1, <3>1, <3>2, <4>1 DEF Genuine, Ascends
    <3>3. CASE i > k
      <4>1. j > k /\ i - k <= j - k
        BY <2>1, <3>1, <3>3
      <4>2. QED
        BY <1>3, <3>1, <3>3, <4>1 DEF Genuine, Ascends
    <3>4. CASE i <= k /\ j > k
      BY <1>3, <3>1, <3>4 DEF Precedes
    <3>5. QED
      BY <3>1, <3>2, <3>3, <3>4
  <2>2. QED
    BY <2>1 DEF Ascends
<1>5. \A i \in DOMAIN both : both[i].rptSeq \in 1 .. top
  BY <1>3 DEF Genuine
<1>6. NumbersOf(both) \subseteq numbers
  BY <1>1, NumbersOfConcat DEF Genuine
<1>7. QED
  BY <1>1, <1>4, <1>5, <1>6 DEF Genuine

-----------------------------------------------------------------------------
(* The feed invariant, step by step.                                       *)
LEMMA InitFeedInv == Init => FeedInv
<1> SUFFICES ASSUME Init PROVE FeedInv
  OBVIOUS
<1>1. \A s \in Symbols :
        /\ states[s].lastRptSeq = 0 /\ states[s].updateCount = 0
        /\ states[s].tmpBuffer = << >> /\ states[s].status = "INVALID"
        /\ published[s] = 0 /\ came[s] = {} /\ looked[s] = {}
  BY DEF Init, NoState
<1>2. feed.at = "off" /\ feed.todo = {} /\ ~lost
  BY DEF Init, Idle
<1>3. Ledger
  <2>1. /\ came \in [Symbols -> SUBSET Nat] /\ looked \in [Symbols -> SUBSET Nat]
        /\ refused \in [Symbols -> SUBSET Nat] /\ outdated \subseteq Symbols
    BY DEF Init
  <2>2. 1 .. 0 = {}
    OBVIOUS
  <2>3. ASSUME NEW s \in Symbols
        PROVE  /\ looked[s] = 1 .. states[s].lastRptSeq
               /\ states[s].lastRptSeq <= published[s] /\ states[s].lastRptSeq = 0
               /\ came[s] \subseteq 1 .. published[s]
    <3>1. /\ states[s].lastRptSeq = 0 /\ looked[s] = {} /\ came[s] = {}
          /\ published[s] = 0
      BY <1>1
    <3>2. 1 .. states[s].lastRptSeq = {}
      BY <2>2, <3>1
    <3>3. QED
      BY <3>1, <3>2
  <2>4. QED
    BY <2>1, <2>3 DEF Ledger
<1>4. Buffers
  BY <1>1, <1>2, GenuineNone DEF Buffers
<1>5. Phases /\ NothingKept /\ UpdateCall /\ SnapshotCall /\ ReplayCall /\ GapIsReal
  BY <1>1, <1>2 DEF Phases, NothingKept, UpdateCall, SnapshotCall, ReplayCall, GapIsReal
<1>6. AllAccounted
  BY <1>1 DEF AllAccounted
<1>7. QED
  BY <1>3, <1>4, <1>5, <1>6 DEF FeedInv

(* What the invariant is about, and a step that changes none of it.        *)
LEMMA FeedKept ==
  ASSUME FeedInv, UNCHANGED <<states, lost, feed, published, history>>
  PROVE  FeedInv'
<1>1. UNCHANGED <<came, looked, refused, outdated>>
  BY DEF history
<1>2. Ledger' /\ Buffers' /\ Phases'
  BY <1>1 DEF FeedInv, Ledger, Buffers, Phases
<1>3. NothingKept' /\ UpdateCall' /\ SnapshotCall' /\ ReplayCall'
  BY <1>1 DEF FeedInv, NothingKept, Replaying, UpdateCall, SnapshotCall, ReplayCall, Missed,
              NextNumber, IsUpdate
<1>4. AllAccounted' /\ GapIsReal'
  BY <1>1 DEF FeedInv, AllAccounted, GapIsReal, Accounted, Coming, AfterGap, Changing, IsUpdate
<1>5. QED
  BY <1>2, <1>3, <1>4 DEF FeedInv

(* Between the messages nothing is coming.                                 *)
LEMMA NothingComes ==
  ASSUME Phases, feed.at # "entries", feed.todo = {}, NEW s, NEW n
  PROVE  ~Coming(s, n)
BY DEF Coming, Changing

LEMMA NotReplaying ==
  ASSUME NothingKept, feed.at \notin {"replay", "entries"}, NEW s \in Symbols,
         states[s].status = "SNASHOT_ADDED"
  PROVE  states[s].tmpBuffer = << >>
BY DEF NothingKept, Replaying

(* The feed comes to rest, and nothing else changes.                       *)
LEMMA RestsFeedInv ==
  ASSUME FeedInv, UNCHANGED <<states, lost, published, history>>, feed' = Idle,
         feed.at \notin {"replay", "entries"}, feed.todo = {}
  PROVE  FeedInv'
<1>1. UNCHANGED <<came, looked, refused, outdated>> /\ feed'.at = "idle" /\ feed'.todo = {}
  BY DEF history, Idle
<1>2. Ledger' /\ Buffers' /\ Phases'
  BY <1>1 DEF FeedInv, Ledger, Buffers, Phases
<1>3. NothingKept'
  BY <1>1, NotReplaying DEF FeedInv, NothingKept
<1>4. UpdateCall' /\ SnapshotCall' /\ ReplayCall'
  BY <1>1 DEF UpdateCall, SnapshotCall, ReplayCall
<1>5. AllAccounted'
  BY <1>1, NothingComes DEF FeedInv, AllAccounted, Accounted, AfterGap
<1>6. GapIsReal'
  BY <1>1 DEF FeedInv, GapIsReal, AfterGap
<1>7. QED
  BY <1>2, <1>3, <1>4, <1>5, <1>6 DEF FeedInv

LEMMA LogonFeedInv == ASSUME FeedInv, LogonSuccess PROVE FeedInv'
<1>1. feed.at = "off"
  BY DEF LogonSuccess, FeedAt
<1>2. feed.todo = {}
  BY <1>1 DEF FeedInv, Phases
<1>3. QED
  BY <1>1, <1>2, RestsFeedInv DEF LogonSuccess

LEMMA NotifyFeedInv == ASSUME FeedInv, NotifyMarketChanges PROVE FeedInv'
<1>1. feed.at = "symbols" /\ feed.todo = {}
  BY DEF NotifyMarketChanges, FeedAt
<1>2. QED
  BY <1>1, RestsFeedInv DEF NotifyMarketChanges

(* A message of updates: its numbers are above all that were published.    *)
LEMMA MarketDataNumbers ==
  ASSUME Typed, Ledger, NEW news \in Incremental, NEW skipped \in 0 .. MaxSkipped,
         MarketData(news, skipped), NEW s \in Symbols
  PROVE  /\ published[s] \in Nat /\ published'[s] \in Nat /\ published[s] <= published'[s]
         /\ came[s] \subseteq 1 .. published[s]
         /\ came'[s] = came[s] \cup NumbersOf(feed'.message[s])
         /\ \A i \in DOMAIN feed'.message[s] :
              feed'.message[s][i].rptSeq \in published[s] + 1 .. published'[s]
         /\ Ascends(feed'.message[s])
         /\ feed'.message[s] \in Entries
<1>1. PICK message : message = Numbered(news[s], published[s] + skipped + 1)
  OBVIOUS
<1>2. published[s] \in Nat /\ skipped \in Nat /\ Len(news[s]) \in Nat
      /\ news[s] \in Seq(Quotes) /\ (news[s] # << >> => Len(news[s]) > 0)
  BY NewsFacts, QuotesFacts DEF Typed, RestTyped
<1>3. published[s] + skipped + 1 \in Nat
  BY <1>2
<1>4. /\ message \in Entries /\ DOMAIN message = 1 .. Len(news[s])
      /\ \A i \in 1 .. Len(news[s]) : message[i].rptSeq = published[s] + skipped + 1 + i - 1
  BY <1>1, <1>2, <1>3, NumberedType
<1>5. feed'.message[s] = message
  BY <1>1, MarketDataTyped
<1>6. published'[s] = IF news[s] = << >> THEN published[s]
                      ELSE published[s] + skipped + Len(news[s])
  BY DEF MarketData
<1>7. came'[s] = came[s] \cup NumbersOf(message)
  BY <1>1 DEF MarketData
<1>8. published'[s] \in Nat /\ published[s] <= published'[s]
  BY <1>2, <1>6
<1>9. ASSUME NEW i \in DOMAIN message
      PROVE  message[i].rptSeq \in published[s] + 1 .. published'[s]
  <2>1. i \in 1 .. Len(news[s]) /\ news[s] # << >>
    BY <1>4, EmptySeq
  <2>2. message[i].rptSeq = published[s] + skipped + 1 + i - 1
    BY <1>4, <2>1
  <2>3. QED
    BY <1>2, <1>6, <2>1, <2>2
<1>10. Ascends(message)
  <2>1. ASSUME NEW i \in 1 .. Len(news[s]), NEW j \in 1 .. Len(news[s]), i <= j
        PROVE  published[s] + skipped + 1 + i - 1 <= published[s] + skipped + 1 + j - 1
    BY <1>2, <2>1
  <2>2. QED
    BY <1>4, <2>1 DEF Ascends
<1>11. came[s] \subseteq 1 .. published[s]
  BY DEF Ledger
<1>12. QED
  BY <1>2, <1>4, <1>5, <1>7, <1>8, <1>9, <1>10, <1>11

LEMMA MarketDataFeedInv ==
  ASSUME Typed, FeedInv, NEW news \in Incremental, NEW skipped \in 0 .. MaxSkipped,
         MarketData(news, skipped)
  PROVE  FeedInv'
<1> Ledger
  BY DEF FeedInv
<1>1. /\ feed.at = "idle" /\ UNCHANGED <<states, lost, looked, refused, outdated>>
      /\ feed'.at = IF lost THEN "idle" ELSE "symbols"
      /\ \A s \in Symbols : s \in feed'.todo <=> ~lost /\ feed'.message[s] # << >>
      /\ feed'.todo \subseteq Symbols
  BY MarketDataTyped DEF MarketData, NewMessage, FeedAt, Typed, FeedTyped
<1>2. feed.todo = {} /\ feed.at # "entries"
  BY <1>1 DEF FeedInv, Phases
<1>3. lost \in BOOLEAN
  BY DEF Typed, RestTyped
<1>4. Ledger'
  <2>1. ASSUME NEW s \in Symbols PROVE came'[s] \in SUBSET Nat /\ came'[s] \subseteq 1 .. published'[s]
    <3>1. NumbersOf(feed'.message[s]) \subseteq 1 .. published'[s]
      BY MarketDataNumbers DEF NumbersOf
    <3>2. came[s] \subseteq 1 .. published'[s]
      BY MarketDataNumbers
    <3>3. QED
      BY <3>1, <3>2, MarketDataNumbers
  <2>2. came' \in [Symbols -> SUBSET Nat]
    BY <2>1 DEF MarketData
  <2>3. ASSUME NEW s \in Symbols PROVE states[s].lastRptSeq <= published'[s]
    <3>1. states[s].lastRptSeq <= published[s] /\ states[s].lastRptSeq \in Nat
      BY StateFacts DEF Ledger
    <3>2. QED
      BY <3>1, MarketDataNumbers
  <2>4. QED
    BY <1>1, <2>1, <2>2, <2>3 DEF Ledger
<1>5. Buffers'
  <2>1. ASSUME NEW s \in Symbols
        PROVE  Genuine(states[s].tmpBuffer, published'[s], came'[s])
    BY MarketDataNumbers, GenuineGrows DEF FeedInv, Buffers
  <2>2. ASSUME NEW s \in Symbols
        PROVE  Genuine(feed'.message[s], published'[s], came'[s])
    <3>1. \A n \in published[s] + 1 .. published'[s] : n \in 1 .. published'[s]
      BY MarketDataNumbers
    <3>2. QED
      BY <3>1, MarketDataNumbers DEF Genuine
  <2>3. ASSUME NEW s \in Symbols
        PROVE  Precedes(states[s].tmpBuffer, feed'.message[s])
    <3>1. \A i \in DOMAIN states[s].tmpBuffer : states[s].tmpBuffer[i].rptSeq \in 1 .. published[s]
      BY DEF FeedInv, Buffers, Genuine
    <3>2. QED
      BY <3>1, MarketDataNumbers DEF Precedes
  <2>4. QED
    BY <1>1, <2>1, <2>2, <2>3 DEF Buffers
<1>6. Phases'
  BY <1>1, <1>3 DEF Phases
<1>7. NothingKept'
  BY <1>1, NotReplaying DEF FeedInv, NothingKept
<1>8. UpdateCall' /\ SnapshotCall' /\ ReplayCall'
  BY <1>1 DEF UpdateCall, SnapshotCall, ReplayCall
<1>9. ASSUME NEW s \in Symbols, NEW n \in came[s], AfterGap(s, n) PROVE AfterGap(s, n)'
  <2>1. /\ states[s].lastRptSeq + 1 < n /\ states[s].lastRptSeq \in Nat
        /\ states[s].lastRptSeq + 1 \notin came[s] /\ n \in Nat
    BY <1>9, StateFacts DEF AfterGap, Ledger
  <2>2. states[s].lastRptSeq + 1 <= published[s]
    BY <2>1, MarketDataNumbers
  <2>3. states[s].lastRptSeq + 1 \notin NumbersOf(feed'.message[s])
    BY <2>1, <2>2, MarketDataNumbers DEF NumbersOf
  <2>4. states[s].lastRptSeq + 1 \notin came'[s]
    BY <2>1, <2>3, MarketDataNumbers
  <2>5. QED
    BY <1>1, <1>9, <2>4 DEF AfterGap
<1>10. AllAccounted'
  <2>1. SUFFICES ASSUME ~lost, NEW s \in Symbols \ outdated, NEW n \in came'[s]
                 PROVE  Accounted(s, n)'
    BY <1>1 DEF AllAccounted
  <2>2. CASE n \in came[s]
    <3>1. Accounted(s, n) /\ ~Coming(s, n)
      BY <1>2, <2>1, <2>2, NothingComes DEF FeedInv, AllAccounted
    <3>2. states' = states /\ looked' = looked /\ refused' = refused
      BY <1>1
    <3>3. QED
      BY <1>9, <2>2, <3>1, <3>2 DEF Accounted
  <2>3. CASE n \in NumbersOf(feed'.message[s])
    <3>1. feed'.message[s] # << >>
      BY <2>3, NumbersOfNone
    <3>2. Coming(s, n)'
      BY <1>1, <2>1, <2>3, <3>1 DEF Coming
    <3>3. QED
      BY <3>2 DEF Accounted
  <2>4. QED
    BY <2>1, <2>2, <2>3, MarketDataNumbers
<1>11. GapIsReal'
  <2>1. SUFFICES ASSUME lost, outdated \cap Symbols = {}
                 PROVE  \E s \in Symbols : \E n \in came'[s] : AfterGap(s, n)'
    BY <1>1 DEF GapIsReal
  <2>2. PICK s \in Symbols : \E n \in came[s] : AfterGap(s, n)
    BY <2>1 DEF FeedInv, GapIsReal
  <2>3. PICK n \in came[s] : AfterGap(s, n)
    BY <2>2
  <2>4. AfterGap(s, n)' /\ n \in came'[s]
    BY <1>9, <2>3, MarketDataNumbers
  <2>5. QED
    BY <2>4
<1>12. QED
  BY <1>4, <1>5, <1>6, <1>7, <1>8, <1>10, <1>11 DEF FeedInv

LEMMA NoSnapshotFeedInv ==
  ASSUME Shapes, Typed, FeedInv, NEW s \in Symbols, AddUpdateNoSnapshot(s)
  PROVE  FeedInv'
<1>1. /\ feed.at = "symbols" /\ s \in feed.todo /\ states[s].status # "SNASHOT_ADDED"
      /\ UNCHANGED <<lost, published, came, looked, refused, outdated>>
  BY DEF AddUpdateNoSnapshot, FeedAt, Turn, history
<1>2. /\ feed'.at = "symbols" /\ feed'.todo = feed.todo \ {s} /\ feed'.message = feed.message
  BY <1>1 DEF AddUpdateNoSnapshot, Shapes, FeedFields, Idle
<1>3. PICK both : both = states[s].tmpBuffer \o feed.message[s]
  OBVIOUS
<1>4. /\ states'[s].tmpBuffer = both /\ states'[s].status = states[s].status
      /\ states'[s].lastRptSeq = states[s].lastRptSeq
      /\ \A r \in Symbols \ {s} : states'[r] = states[r]
  <2>1. PICK state \in StateTypes : state = states[s]
    BY StateFacts
  <2>2. PICK longest : longest = IF Len(both) > state.longest THEN Len(both) ELSE state.longest
    OBVIOUS
  <2>3. states' = [states EXCEPT ![s] = [state EXCEPT !.tmpBuffer = both, !.longest = longest]]
    BY <1>3, <2>1, <2>2 DEF AddUpdateNoSnapshot, Keeping, Typed, StateTypes
  <2>4. QED
    BY <2>1, <2>3 DEF Typed, StateTypes
<1>5. states[s].tmpBuffer \in Entries /\ feed.message[s] \in Entries
  BY StateFacts DEF Typed, FeedTyped
<1>6. NumbersOf(both) = NumbersOf(states[s].tmpBuffer) \cup NumbersOf(feed.message[s])
  BY <1>3, <1>5, NumbersOfConcat
<1>7. ~lost
  BY <1>1 DEF FeedInv, Phases
<1>8. Ledger'
  <2>1. \A r \in Symbols : states'[r].lastRptSeq = states[r].lastRptSeq
    BY <1>4
  <2>2. QED
    BY <1>1, <2>1 DEF FeedInv, Ledger
<1>9. Buffers'
  <2>1. Genuine(both, published[s], came[s])
    BY <1>1, <1>3, <1>5, GenuineConcat DEF FeedInv, Buffers
  <2>2. ASSUME NEW r \in Symbols
        PROVE  Genuine(states'[r].tmpBuffer, published[r], came[r])
    BY <1>4, <2>1 DEF FeedInv, Buffers
  <2>3. ASSUME NEW r \in feed.todo \ {s}
        PROVE  /\ Genuine(feed.message[r], published[r], came[r])
               /\ Precedes(states'[r].tmpBuffer, feed.message[r])
    <3>1. r \in Symbols \ {s}
      BY DEF Typed, FeedTyped
    <3>2. QED
      BY <1>4, <3>1 DEF FeedInv, Buffers
  <2>4. QED
    BY <1>1, <1>2, <2>2, <2>3 DEF Buffers
<1>10. Phases'
  BY <1>1, <1>2, <1>7 DEF Phases
<1>11. NothingKept'
  BY <1>1, <1>4, NotReplaying DEF FeedInv, NothingKept
<1>12. UpdateCall' /\ SnapshotCall' /\ ReplayCall'
  BY <1>2 DEF UpdateCall, SnapshotCall, ReplayCall
<1>13. AllAccounted'
  <2>1. SUFFICES ASSUME NEW r \in Symbols \ outdated, NEW n \in came[r]
                 PROVE  Accounted(r, n)'
    BY <1>1 DEF AllAccounted
  <2>2. Accounted(r, n)
    BY <1>7 DEF FeedInv, AllAccounted
  <2>3. ~Changing(r)
    BY <1>1 DEF Changing
  <2>4. CASE r = s
    BY <1>1, <1>4, <1>6, <2>2, <2>3, <2>4 DEF Accounted, Coming, AfterGap
  <2>5. CASE r # s
    BY <1>1, <1>2, <1>4, <2>2, <2>3, <2>5 DEF Accounted, Coming, AfterGap
  <2>6. QED
    BY <2>4, <2>5
<1>14. GapIsReal'
  BY <1>1, <1>7 DEF GapIsReal
<1>15. QED
  BY <1>8, <1>9, <1>10, <1>11, <1>12, <1>13, <1>14 DEF FeedInv

(* A call begins: the count of its state is raised, and nothing else of    *)
(* the states changes.                                                     *)
Raised(s) ==
  /\ states'[s].updateCount = states[s].updateCount + 1
  /\ \A r \in Symbols :
       /\ states'[r].status = states[r].status /\ states'[r].lastRptSeq = states[r].lastRptSeq
       /\ states'[r].tmpBuffer = states[r].tmpBuffer
       /\ r # s => states'[r].updateCount = states[r].updateCount

LEMMA CountedRaises ==
  ASSUME Typed, NEW s \in Symbols, states' = [states EXCEPT ![s] = Counted(@)]
  PROVE  Raised(s)
<1>1. /\ states'[s].updateCount = states[s].updateCount + 1
      /\ states'[s].status = states[s].status
      /\ states'[s].lastRptSeq = states[s].lastRptSeq
      /\ states'[s].tmpBuffer = states[s].tmpBuffer
      /\ \A r \in Symbols \ {s} : states'[r] = states[r]
  BY StateFacts DEF Counted, Typed, StateTypes
<1>2. QED
  BY <1>1 DEF Raised

LEMMA RaisedLedger ==
  ASSUME Typed, Ledger, NEW s \in Symbols, Raised(s), UNCHANGED <<published, came, looked, refused, outdated>>
  PROVE  Ledger'
BY DEF Ledger, Raised

LEMMA RaisedAccounted ==
  ASSUME NEW s \in Symbols, Raised(s), UNCHANGED <<came, looked, refused, outdated>>,
         NEW r \in Symbols, NEW n, Accounted(r, n), Coming(r, n) => Coming(r, n)'
  PROVE  Accounted(r, n)'
BY DEF Raised, Accounted, AfterGap

LEMMA AddUpdateFeedInv ==
  ASSUME Shapes, Typed, FeedInv, NEW s \in Symbols, AddUpdate(s)
  PROVE  FeedInv'
<1>1. /\ feed.at = "symbols" /\ s \in feed.todo /\ states[s].status = "SNASHOT_ADDED"
      /\ UNCHANGED <<lost, published, came, looked, refused, outdated>>
      /\ states' = [states EXCEPT ![s] = Counted(@)]
      /\ feed' = Call("update", s, feed.message[s])
  BY DEF AddUpdate, FeedAt, Turn, history
<1>2. feed.message[s] \in Entries /\ FeedTyped
  BY DEF Typed, FeedTyped
<1>3. /\ feed'.at = "entries" /\ feed'.symbol = s /\ feed'.todo = feed.todo \ {s}
      /\ feed'.message = feed.message /\ feed'.call.kind = "update"
      /\ feed'.call.entries = feed.message[s] /\ feed'.call.status = "UNKNOWN"
  BY <1>1, <1>2, CallTyped
<1>4. Raised(s)
  BY <1>1, CountedRaises
<1>5. ~lost
  BY <1>1 DEF FeedInv, Phases
<1>6. Ledger'
  BY <1>1, <1>4, RaisedLedger DEF FeedInv
<1>7. Buffers'
  BY <1>1, <1>3, <1>4 DEF FeedInv, Buffers, Raised
<1>8. Phases'
  BY <1>1, <1>3, <1>5 DEF Phases
<1>9. NothingKept'
  BY <1>1, <1>4, NotReplaying DEF FeedInv, NothingKept, Raised
<1>10. UpdateCall' /\ SnapshotCall' /\ ReplayCall'
  <2>1. Genuine(feed.message[s], published[s], came[s])
    BY <1>1 DEF FeedInv, Buffers
  <2>2. states'[s].status = "SNASHOT_ADDED"
    BY <1>1, <1>4 DEF Raised
  <2>3. QED
    BY <1>1, <1>3, <2>1, <2>2 DEF UpdateCall, SnapshotCall, ReplayCall
<1>11. AllAccounted'
  <2>1. SUFFICES ASSUME NEW r \in Symbols \ outdated, NEW n \in came[r]
                 PROVE  Accounted(r, n)'
    BY <1>1 DEF AllAccounted
  <2>2. Accounted(r, n)
    BY <1>5 DEF FeedInv, AllAccounted
  <2>3. Coming(r, n) => Coming(r, n)'
    <3>1. ~Changing(r)
      BY <1>1 DEF Changing
    <3>2. r = s => Changing(r)' /\ IsUpdate'
      BY <1>3 DEF Changing, IsUpdate
    <3>3. QED
      BY <1>1, <1>3, <3>1, <3>2 DEF Coming
  <2>4. QED
    BY <1>1, <1>4, <2>2, <2>3, RaisedAccounted
<1>12. GapIsReal'
  BY <1>1, <1>5 DEF GapIsReal
<1>13. QED
  BY <1>6, <1>7, <1>8, <1>9, <1>10, <1>11, <1>12 DEF FeedInv

LEMMA ReplayFeedInv ==
  ASSUME Shapes, Typed, FeedInv, Replay
  PROVE  FeedInv'
<1> DEFINE s == feed.symbol
<1>1. /\ feed.at = "replay" /\ s \in Symbols /\ states[s].status = "SNASHOT_ADDED"
      /\ UNCHANGED <<lost, published, came, looked, refused, outdated>>
      /\ states' = [states EXCEPT ![s] = Counted(@)]
      /\ feed' = Call("replay", s, states[s].tmpBuffer)
  BY DEF Replay, State, FeedAt, Turn, history, Shapes
<1>2. states[s].tmpBuffer \in Entries /\ FeedTyped
  BY <1>1, StateFacts DEF Typed
<1>3. feed.todo = {} /\ ~lost
  BY <1>1 DEF FeedInv, Phases
<1>4. /\ feed'.at = "entries" /\ feed'.symbol = s /\ feed'.todo = {}
      /\ feed'.call.kind = "replay"
      /\ feed'.call.entries = states[s].tmpBuffer /\ feed'.call.status = "UNKNOWN"
  BY <1>1, <1>2, <1>3, CallTyped
<1>5. Raised(s)
  BY <1>1, CountedRaises
<1> HIDE DEF s
<1>6. Ledger'
  BY <1>1, <1>5, RaisedLedger DEF FeedInv
<1>7. Buffers'
  BY <1>1, <1>4, <1>5 DEF FeedInv, Buffers, Raised
<1>8. Phases'
  BY <1>1, <1>3, <1>4 DEF Phases
<1>9. NothingKept'
  BY <1>1, <1>4, <1>5 DEF FeedInv, NothingKept, Replaying, Raised, s
<1>10. UpdateCall' /\ SnapshotCall' /\ ReplayCall'
  <2>1. Genuine(states[s].tmpBuffer, published[s], came[s])
    BY <1>1 DEF FeedInv, Buffers
  <2>2. states'[s].status = "SNASHOT_ADDED" /\ states'[s].tmpBuffer = states[s].tmpBuffer
    BY <1>1, <1>5 DEF Raised
  <2>3. QED
    BY <1>1, <1>4, <2>1, <2>2 DEF UpdateCall, SnapshotCall, ReplayCall
<1>11. AllAccounted'
  <2>1. SUFFICES ASSUME NEW r \in Symbols \ outdated, NEW n \in came[r]
                 PROVE  Accounted(r, n)'
    BY <1>1 DEF AllAccounted
  <2>2. Accounted(r, n)
    BY <1>3 DEF FeedInv, AllAccounted
  <2>3. ~Coming(r, n)
    BY <1>1, <1>3, NothingComes DEF FeedInv
  <2>4. QED
    BY <1>1, <1>5, <2>2, <2>3, RaisedAccounted
<1>12. GapIsReal'
  BY <1>1, <1>3 DEF GapIsReal
<1>13. QED
  BY <1>6, <1>7, <1>8, <1>9, <1>10, <1>11, <1>12 DEF FeedInv

LEMMA SnapshotFeedInv ==
  ASSUME Shapes, Typed, FeedInv, NEW s \in Symbols, NEW quotes \in Snapshots,
         NEW number \in 0 .. published[s], Snapshot(s, quotes, number)
  PROVE  FeedInv'
<1>1. /\ feed.at = "idle" /\ ~lost
      /\ UNCHANGED <<lost, published, came, looked, refused, outdated>>
      /\ states' = [states EXCEPT ![s] = Counted(@)]
  BY DEF Snapshot, NewMessage, FeedAt, history
<1>2. PICK entries : entries = AllNumbered(quotes, number)
  OBVIOUS
<1>3. /\ entries \in Entries /\ number \in Nat
      /\ \A i \in DOMAIN entries : entries[i].rptSeq = number
      /\ feed' = Call("snapshot", s, entries)
  BY <1>2, SnapshotTyped, SnapshotCalls, AllNumberedType, NewsFacts
<1>4. feed.todo = {} /\ FeedTyped /\ published[s] \in Nat
  BY <1>1 DEF FeedInv, Phases, Typed, RestTyped
<1>5. /\ feed'.at = "entries" /\ feed'.symbol = s /\ feed'.todo = {}
      /\ feed'.call.kind = "snapshot"
      /\ feed'.call.entries = entries /\ feed'.call.status = "UNKNOWN"
      /\ feed'.call.first = IF entries = << >> THEN 0 ELSE entries[1].rptSeq
  BY <1>3, <1>4, CallTyped
<1>6. Raised(s)
  BY <1>1, CountedRaises
<1>7. Ledger'
  BY <1>1, <1>6, RaisedLedger DEF FeedInv
<1>8. Buffers'
  BY <1>1, <1>5, <1>6 DEF FeedInv, Buffers, Raised
<1>9. Phases'
  BY <1>1, <1>5 DEF Phases
<1>10. NothingKept'
  BY <1>1, <1>6, NotReplaying DEF FeedInv, NothingKept, Raised
<1>11. UpdateCall'
  BY <1>5 DEF UpdateCall, IsUpdate
<1>12. ASSUME NEW r \in Symbols, NEW n PROVE ~Coming(r, n)
  BY <1>1, <1>4, NothingComes DEF FeedInv
<1>13. SnapshotCall' /\ ReplayCall'
  <2>1. number <= published[s]
    BY <1>4
  <2>2. entries # << >> => entries[1].rptSeq = number
    BY <1>3, EntriesFacts
  <2>3. feed'.call.first <= published[s]
    BY <1>4, <1>5, <2>1, <2>2
  <2>4. QED
    BY <1>1, <1>5, <2>3 DEF SnapshotCall, ReplayCall
<1>14. AllAccounted'
  <2>1. SUFFICES ASSUME NEW r \in Symbols \ outdated, NEW n \in came[r]
                 PROVE  Accounted(r, n)'
    BY <1>1 DEF AllAccounted
  <2>2. Accounted(r, n)
    BY <1>1 DEF FeedInv, AllAccounted
  <2>3. QED
    BY <1>1, <1>6, <1>12, <2>2, RaisedAccounted
<1>15. GapIsReal'
  BY <1>1 DEF GapIsReal
<1>16. QED
  BY <1>7, <1>8, <1>9, <1>10, <1>11, <1>13, <1>14, <1>15 DEF FeedInv

(* During a call the state of its symbol is not in a gap, and nothing of   *)
(* that symbol is in the message any more.                                 *)
LEMMA DuringUpdate ==
  ASSUME Shapes, Typed, FeedInv, FeedAt("entries"), IsUpdate
  PROVE  /\ feed.symbol \in Symbols /\ feed.symbol \notin feed.todo /\ ~lost
         /\ State.status = "SNASHOT_ADDED"
         /\ Genuine(feed.call.entries, published[feed.symbol], came[feed.symbol])
         /\ 1 .. State.lastRptSeq \subseteq looked[feed.symbol]
         /\ feed.symbol \notin outdated => looked[feed.symbol] = 1 .. State.lastRptSeq
         /\ State.lastRptSeq \in Nat /\ published[feed.symbol] \in Nat
         /\ feed.call.entries \in Entries
<1>1. feed.at = "entries" /\ feed.symbol \in Symbols
  BY DEF FeedAt, Shapes
<1>2. feed.symbol \notin feed.todo /\ ~lost
  BY <1>1 DEF FeedInv, Phases
<1>3. /\ State.status = "SNASHOT_ADDED"
      /\ Genuine(feed.call.entries, published[feed.symbol], came[feed.symbol])
  BY <1>1 DEF FeedInv, UpdateCall, State
<1>4. /\ 1 .. State.lastRptSeq \subseteq looked[feed.symbol]
      /\ feed.symbol \notin outdated => looked[feed.symbol] = 1 .. State.lastRptSeq
  BY <1>1 DEF FeedInv, Ledger, State
<1>5. published[feed.symbol] \in Nat
  BY <1>1 DEF Typed, RestTyped
<1>6. QED
  BY <1>1, <1>2, <1>3, <1>4, <1>5, StateFacts, CallFacts DEF State

LEMMA DuringSnapshot ==
  ASSUME Shapes, Typed, FeedInv, FeedAt("entries"), ~IsUpdate
  PROVE  feed.call.kind = "snapshot" /\ feed.symbol \in Symbols /\ feed.todo = {} /\ ~lost
BY CallFacts DEF FeedAt, Shapes, IsUpdate, FeedInv, Phases

LEMMA UpdateBookLedger ==
  ASSUME Shapes, CountsTell, Typed, FeedInv, UpdateBook
  PROVE  Ledger'
<1>1. PICK s \in Symbols : s = feed.symbol
  BY DEF Shapes
<1>2. FeedAt("entries") /\ InEntries /\ UNCHANGED <<published, came, refused, outdated>>
  BY DEF UpdateBook, InEntries
<1>4. \A r \in Symbols \ {s} : states'[r] = states[r]
  BY <1>1, UpdateBookState
<1>5. CASE ~IsUpdate
  <2>1. looked' = looked /\ states'[s].lastRptSeq = states[s].lastRptSeq
    BY <1>1, <1>5, UpdateBookState DEF UpdateBook, State
  <2>2. QED
    BY <1>2, <1>4, <2>1 DEF FeedInv, Ledger
<1>6. CASE IsUpdate
  <2>1. PICK n \in Nat : n = Entry.rptSeq
    BY <1>2, EntryFacts
  <2>2. PICK last \in Nat : last = states[s].lastRptSeq
    BY StateFacts
  <2>3. n = last \/ n = last + 1
    BY <1>1, <1>6, <2>1, <2>2 DEF UpdateBook, IsOld, IsMissing, State
  <2>4. n \in 1 .. published[s] /\ published[s] \in Nat
    <3>1. feed.call.entries # << >> /\ Entry = Head(feed.call.entries)
      BY <1>2 DEF InEntries, Entry
    <3>2. QED
      BY <1>1, <1>2, <1>6, <2>1, <3>1, DuringUpdate, GenuineTail
  <2>5. 1 .. last \subseteq looked[s] /\ (s \notin outdated => looked[s] = 1 .. last)
    BY <1>1, <1>2, <1>6, <2>2, DuringUpdate DEF State
  <2>6. looked' = [looked EXCEPT ![s] = @ \cup {n}]
    BY <1>1, <1>6, <2>1 DEF UpdateBook
  <2>7. 1 .. n \subseteq looked'[s] /\ (s \notin outdated => looked'[s] = 1 .. n)
    <3>1. (1 .. last) \cup {n} = 1 .. n
      BY <2>3, <2>4
    <3>2. looked'[s] = looked[s] \cup {n}
      BY <2>6 DEF FeedInv, Ledger
    <3>3. QED
      BY <2>5, <3>1, <3>2
  <2>8. states'[s].lastRptSeq = n
    BY <1>1, <1>6, <2>1, UpdateBookState
  <2>9. looked' \in [Symbols -> SUBSET Nat]
    BY <2>6 DEF FeedInv, Ledger
  <2>10. \A r \in Symbols \ {s} : looked'[r] = looked[r]
    BY <2>6 DEF FeedInv, Ledger
  <2>11. n <= published[s]
    BY <2>4
  <2>12. QED
    BY <1>2, <1>4, <2>7, <2>8, <2>9, <2>10, <2>11 DEF FeedInv, Ledger
<1>7. QED
  BY <1>5, <1>6

LEMMA UpdateBookCalls ==
  ASSUME Shapes, Typed, FeedInv, UpdateBook, \A s \in Symbols : looked[s] \subseteq looked'[s],
         IsUpdate => Entry.rptSeq \in looked'[feed.symbol]
  PROVE  UpdateCall' /\ SnapshotCall' /\ ReplayCall'
<1>1. PICK s \in Symbols : s = feed.symbol
  BY DEF Shapes
<1>2. /\ FeedAt("entries") /\ InEntries /\ UNCHANGED <<published, came, refused, outdated>>
      /\ feed.call.entries # << >> /\ Entry = Head(feed.call.entries)
      /\ feed.at = "entries" /\ feed.call.entries \in Entries
  BY CallFacts DEF UpdateBook, InEntries, FeedAt, Entry
<1>3. /\ feed'.at = "entries" /\ feed'.symbol = s
      /\ feed'.call.kind = feed.call.kind /\ feed'.call.first = feed.call.first
      /\ feed'.call.entries = Tail(feed.call.entries)
      /\ feed'.call.status = Status(feed.call.status, Booked.status)
  BY <1>1, <1>2, UpdateBookFeed
<1>4. Booked.status # "MISSING_UPDATE"
  BY <1>2, BookedType DEF Results
<1>5. /\ states'[s].status = states[s].status /\ states'[s].tmpBuffer = states[s].tmpBuffer
      /\ ~IsUpdate => states'[s].lastRptSeq = states[s].lastRptSeq
  BY <1>1, UpdateBookState DEF State
<1>6. feed'.call.status # "MISSING_UPDATE"
  BY <1>3, <1>4 DEF Status
<1>7. UpdateCall'
  <2>1. SUFFICES ASSUME IsUpdate PROVE UpdateCall'
    BY <1>3 DEF UpdateCall, IsUpdate
  <2>2. feed.call.status # "MISSING_UPDATE"
    BY <1>2, <2>1 DEF FeedInv, UpdateCall
  <2>3. Genuine(Tail(feed.call.entries), published[s], came[s])
    BY <1>1, <1>2, <2>1, DuringUpdate, GenuineTail
  <2>4. ASSUME NEW n \in NumbersOf(states[s].tmpBuffer), feed.call.kind = "replay"
        PROVE  n \in looked'[s] \/ n \in NumbersOf(Tail(feed.call.entries))
    <3>1. n \in looked[s] \/ n \in NumbersOf(feed.call.entries)
      BY <1>1, <1>2, <2>1, <2>2, <2>4 DEF FeedInv, UpdateCall
    <3>2. n \in NumbersOf(feed.call.entries) =>
            n \in NumbersOf(Tail(feed.call.entries)) \/ n = Entry.rptSeq
      BY <1>2, NumbersOfHead, EntryFacts
    <3>3. QED
      BY <1>1, <2>1, <3>1, <3>2
  <2>5. states[s].status = "SNASHOT_ADDED"
    BY <1>1, <1>2, <2>1, DuringUpdate DEF State
  <2>6. QED
    BY <1>2, <1>3, <1>5, <1>6, <2>3, <2>4, <2>5 DEF UpdateCall
<1>8. SnapshotCall'
  <2>1. SUFFICES ASSUME feed.call.kind = "snapshot" PROVE SnapshotCall'
    BY <1>3 DEF SnapshotCall
  <2>2. ~IsUpdate
    BY <2>1 DEF IsUpdate
  <2>3. QED
    BY <1>1, <1>2, <1>3, <1>5, <1>6, <2>1, <2>2 DEF FeedInv, SnapshotCall
<1>9. QED
  BY <1>3, <1>7, <1>8 DEF ReplayCall

(* An entry is dealt with: its number is looked at.                        *)
LEMMA HeadAccounted ==
  ASSUME Shapes, Typed, FeedInv, InEntries, NEW s \in Symbols \ outdated,
         NEW n \in came[s], UNCHANGED <<came, lost, refused, outdated>>,
         feed'.at = feed.at, feed'.symbol = feed.symbol, feed'.todo = feed.todo,
         feed'.message = feed.message, feed'.call.kind = feed.call.kind,
         feed'.call.entries = Tail(feed.call.entries),
         \A r \in Symbols :
           /\ looked[r] \subseteq looked'[r]
           /\ states'[r].tmpBuffer = states[r].tmpBuffer
           /\ states'[r].status = states[r].status
           /\ states'[r].lastRptSeq = states[r].lastRptSeq \/ (IsUpdate /\ r = feed.symbol),
         IsUpdate => Entry.rptSeq \in looked'[feed.symbol] \/ Entry.type = "TRADE"
  PROVE  Accounted(s, n)'
<1>1. /\ FeedAt("entries") /\ feed.at = "entries" /\ feed.call.entries # << >>
      /\ Entry = Head(feed.call.entries) /\ feed.call.entries \in Entries
  BY CallFacts DEF InEntries, FeedAt, Entry
<1>2. ~lost
  BY <1>1 DEF FeedInv, Phases
<1>3. Accounted(s, n)
  BY <1>2 DEF FeedInv, AllAccounted
<1>4. CASE n \in looked[s] \cup refused[s] \/ n \in NumbersOf(states[s].tmpBuffer)
  BY <1>4 DEF Accounted
<1>5. CASE AfterGap(s, n)
  <2>1. ~(IsUpdate /\ s = feed.symbol)
    BY <1>1, <1>5, DuringUpdate DEF AfterGap, State
  <2>2. QED
    BY <1>5, <2>1 DEF Accounted, AfterGap
<1>6. CASE s \in feed.todo /\ n \in NumbersOf(feed.message[s])
  BY <1>1, <1>6 DEF Accounted, Coming
<1>7. CASE Changing(s) /\ IsUpdate /\ n \in NumbersOf(feed.call.entries)
  <2>1. s = feed.symbol /\ IsUpdate
    BY <1>7 DEF Changing
  <2>2. n \in NumbersOf(Tail(feed.call.entries)) \/ (n = Entry.rptSeq /\ Entry.type # "TRADE")
    <3>1. Entry.type \in {"BID", "OFFER", "TRADE"}
      BY EntryFacts
    <3>2. QED
      BY <1>1, <1>7, <3>1, NumbersOfHead
  <2>3. Changing(s)' /\ IsUpdate'
    BY <1>1, <2>1 DEF Changing, IsUpdate
  <2>4. QED
    BY <2>1, <2>2, <2>3 DEF Accounted, Coming
<1>8. CASE Changing(s) /\ IsUpdate /\ feed.call.status = "MISSING_UPDATE"
  BY <1>1, <1>8 DEF FeedInv, UpdateCall
<1>9. QED
  BY <1>3, <1>4, <1>5, <1>6, <1>7, <1>8 DEF Accounted, Coming

LEMMA UpdateBookFeedInv ==
  ASSUME Shapes, CountsTell, Typed, FeedInv, UpdateBook
  PROVE  FeedInv'
<1>1. /\ FeedAt("entries") /\ InEntries /\ feed.at = "entries"
      /\ feed.symbol \in Symbols /\ UNCHANGED <<lost, published, came, refused, outdated>>
  BY DEF UpdateBook, InEntries, FeedAt, Shapes
<1>2. ~lost
  BY <1>1 DEF FeedInv, Phases
<1>3. Ledger'
  BY UpdateBookLedger
<1>4. \A s \in Symbols : looked[s] \subseteq looked'[s]
  BY <1>1 DEF UpdateBook, FeedInv, Ledger
<1>5. IsUpdate => Entry.rptSeq \in looked'[feed.symbol]
  BY <1>1 DEF UpdateBook, FeedInv, Ledger
<1>6. /\ feed'.at = feed.at /\ feed'.symbol = feed.symbol /\ feed'.todo = feed.todo
      /\ feed'.message = feed.message /\ feed'.call.kind = feed.call.kind
      /\ feed'.call.entries = Tail(feed.call.entries)
  BY UpdateBookFeed
<1>7. \A s \in Symbols :
        /\ states'[s].tmpBuffer = states[s].tmpBuffer
        /\ states'[s].status = states[s].status
        /\ states'[s].updateCount = states[s].updateCount
        /\ states'[s].lastRptSeq = states[s].lastRptSeq \/ (IsUpdate /\ s = feed.symbol)
  BY UpdateBookState DEF State
<1>8. Buffers'
  <2>1. feed.todo \subseteq Symbols
    BY DEF Typed, FeedTyped
  <2>2. QED
    BY <1>1, <1>6, <1>7, <2>1 DEF FeedInv, Buffers
<1>9. Phases'
  BY <1>1, <1>6 DEF FeedInv, Phases
<1>10. NothingKept'
  BY <1>6, <1>7 DEF FeedInv, NothingKept, Replaying
<1>11. UpdateCall' /\ SnapshotCall' /\ ReplayCall'
  BY <1>4, <1>5, UpdateBookCalls
<1>12. AllAccounted'
  <2>1. SUFFICES ASSUME NEW s \in Symbols \ outdated, NEW n \in came[s]
                 PROVE  Accounted(s, n)'
    BY <1>1 DEF AllAccounted
  <2>2. QED
    BY <1>1, <1>4, <1>5, <1>6, <1>7, HeadAccounted
<1>13. GapIsReal'
  BY <1>1, <1>2 DEF GapIsReal
<1>14. QED
  BY <1>3, <1>8, <1>9, <1>10, <1>11, <1>12, <1>13 DEF FeedInv

(* A number below that of the state was looked at before.                  *)
LEMMA SkipFeedInv ==
  ASSUME Shapes, Typed, FeedInv, SkipOldUpdate
  PROVE  FeedInv'
<1>1. /\ FeedAt("entries") /\ InEntries /\ feed.at = "entries" /\ IsUpdate
      /\ feed.call.entries # << >> /\ Entry = Head(feed.call.entries)
      /\ feed.symbol \in Symbols /\ UNCHANGED <<states, lost, published, came, looked, refused, outdated>>
  BY DEF SkipOldUpdate, InEntries, FeedAt, Shapes, Entry, history
<1>2. ~lost
  BY <1>1 DEF FeedInv, Phases
<1>3. /\ feed'.at = feed.at /\ feed'.symbol = feed.symbol /\ feed'.todo = feed.todo
      /\ feed'.message = feed.message /\ feed'.call.kind = feed.call.kind
      /\ feed'.call.entries = Tail(feed.call.entries)
      /\ feed'.call.status = feed.call.status
  BY SkipFeed
<1>4. Entry.rptSeq \in looked[feed.symbol]
  <2>1. /\ Entry.rptSeq \in 1 .. published[feed.symbol] /\ Entry.rptSeq \in Nat
        /\ 1 .. State.lastRptSeq \subseteq looked[feed.symbol] /\ State.lastRptSeq \in Nat
    BY <1>1, DuringUpdate, GenuineTail, EntryFacts
  <2>2. Entry.rptSeq < State.lastRptSeq /\ Entry.rptSeq >= 1
    <3>1. \A k : Entry.rptSeq \in 1 .. k => Entry.rptSeq >= 1
      BY <2>1
    <3>2. QED
      BY <2>1, <3>1 DEF SkipOldUpdate, IsOld
  <2>3. Entry.rptSeq \in 1 .. State.lastRptSeq
    BY <2>1, <2>2
  <2>4. QED
    BY <2>1, <2>3
<1>5. Ledger'
  BY <1>1 DEF FeedInv, Ledger
<1>6. Buffers'
  BY <1>1, <1>3 DEF FeedInv, Buffers
<1>7. Phases'
  BY <1>1, <1>3 DEF FeedInv, Phases
<1>8. NothingKept'
  BY <1>1, <1>3 DEF FeedInv, NothingKept, Replaying
<1>9. UpdateCall' /\ SnapshotCall' /\ ReplayCall'
  <2>1. feed.call.status # "MISSING_UPDATE"
    BY <1>1 DEF FeedInv, UpdateCall
  <2>2. /\ Genuine(Tail(feed.call.entries), published[feed.symbol], came[feed.symbol])
        /\ states[feed.symbol].status = "SNASHOT_ADDED"
    BY <1>1, DuringUpdate, GenuineTail DEF State
  <2>3. ASSUME NEW n \in NumbersOf(states[feed.symbol].tmpBuffer), feed.call.kind = "replay"
        PROVE  n \in looked[feed.symbol] \/ n \in NumbersOf(Tail(feed.call.entries))
    <3>1. n \in looked[feed.symbol] \/ n \in NumbersOf(feed.call.entries)
      BY <1>1, <2>1, <2>3 DEF FeedInv, UpdateCall
    <3>2. n \in NumbersOf(feed.call.entries) =>
            n \in NumbersOf(Tail(feed.call.entries)) \/ n = Entry.rptSeq
      BY <1>1, NumbersOfHead, EntryFacts, CallFacts
    <3>3. QED
      BY <1>4, <3>1, <3>2
  <2>4. UpdateCall'
    BY <1>1, <1>3, <2>1, <2>2, <2>3 DEF UpdateCall
  <2>5. SnapshotCall' /\ ReplayCall'
    BY <1>1, <1>3 DEF SnapshotCall, ReplayCall, IsUpdate
  <2>6. QED
    BY <2>4, <2>5
<1>10. AllAccounted'
  <2>1. SUFFICES ASSUME NEW s \in Symbols \ outdated, NEW n \in came[s]
                 PROVE  Accounted(s, n)'
    BY <1>1 DEF AllAccounted
  <2>2. QED
    BY <1>1, <1>3, <1>4, HeadAccounted
<1>11. GapIsReal'
  BY <1>1, <1>2 DEF GapIsReal
<1>12. QED
  BY <1>5, <1>6, <1>7, <1>8, <1>9, <1>10, <1>11 DEF FeedInv

(* An update is missed: the number it should have had did not come, for    *)
(* had it come it would have been looked at, or it would be kept, and then *)
(* it would be among the entries, before this one.                         *)
LEMMA MissIsReal ==
  ASSUME Shapes, Typed, FeedInv, NoneRefused, MissUpdate
  PROVE  Missed(feed.symbol)
<1>0. SUFFICES ASSUME feed.symbol \notin outdated PROVE Missed(feed.symbol)
  BY DEF Missed
<1>1. PICK s \in Symbols : s = feed.symbol
  BY DEF Shapes
<1>2. /\ FeedAt("entries") /\ InEntries /\ feed.at = "entries" /\ IsUpdate
      /\ feed.call.entries # << >> /\ Entry = Head(feed.call.entries)
      /\ Entry.type # "TRADE" /\ feed.call.entries \in Entries
  BY CallFacts DEF MissUpdate, InEntries, FeedAt, Entry
<1>3. /\ s \notin feed.todo /\ ~lost /\ states[s].status = "SNASHOT_ADDED"
      /\ Genuine(feed.call.entries, published[s], came[s])
      /\ looked[s] = 1 .. states[s].lastRptSeq /\ states[s].lastRptSeq \in Nat
  BY <1>0, <1>1, <1>2, DuringUpdate DEF State
<1>4. Entry.rptSeq > NextNumber(s) /\ Entry.rptSeq \in Nat /\ NextNumber(s) \in Nat
  BY <1>1, <1>2, <1>3, EntryFacts DEF MissUpdate, IsMissing, State, NextNumber
<1>5. Entry.rptSeq \in came[s]
  BY <1>2, <1>3, NumbersOfHead DEF Genuine
<1>6. NextNumber(s) \notin NumbersOf(feed.call.entries)
  <2>1. SUFFICES ASSUME NextNumber(s) \in NumbersOf(feed.call.entries) PROVE FALSE
    OBVIOUS
  <2>2. Entry.rptSeq <= NextNumber(s)
    BY <1>2, <1>3, <2>1, GenuineTail
  <2>3. QED
    BY <1>4, <2>2
<1>7. feed.call.status # "MISSING_UPDATE"
  BY <1>2 DEF FeedInv, UpdateCall
<1>8. NextNumber(s) \notin looked[s] \cup refused[s]
  BY <1>3 DEF NextNumber, NoneRefused
<1>9. NextNumber(s) \notin NumbersOf(states[s].tmpBuffer)
  <2>1. CASE feed.call.kind = "replay"
    BY <1>1, <1>2, <1>6, <1>7, <1>8, <2>1 DEF FeedInv, UpdateCall
  <2>2. CASE feed.call.kind # "replay"
    <3>1. states[s].tmpBuffer = << >>
      BY <1>2, <1>3, <2>2 DEF FeedInv, NothingKept, Replaying
    <3>2. QED
      BY <3>1, NumbersOfNone
  <2>3. QED
    BY <2>1, <2>2
<1>10. NextNumber(s) \notin came[s]
  <2>1. SUFFICES ASSUME NextNumber(s) \in came[s] PROVE FALSE
    OBVIOUS
  <2>2. Accounted(s, NextNumber(s))
    BY <1>0, <1>1, <1>3, <2>1 DEF FeedInv, AllAccounted
  <2>3. ~Coming(s, NextNumber(s))
    BY <1>3, <1>6, <1>7 DEF Coming
  <2>4. ~AfterGap(s, NextNumber(s))
    BY <1>3 DEF AfterGap
  <2>5. QED
    BY <1>8, <1>9, <2>2, <2>3, <2>4 DEF Accounted
<1>11. QED
  BY <1>1, <1>4, <1>5, <1>10 DEF Missed

LEMMA MissFeedInv ==
  ASSUME Shapes, Typed, FeedInv, NoneRefused, MissUpdate
  PROVE  FeedInv'
<1>1. /\ FeedAt("entries") /\ InEntries /\ feed.at = "entries" /\ IsUpdate
      /\ feed.symbol \in Symbols /\ UNCHANGED <<states, lost, published, came, looked, refused, outdated>>
  BY DEF MissUpdate, InEntries, FeedAt, Shapes, history
<1>2. ~lost
  BY <1>1 DEF FeedInv, Phases
<1>3. /\ feed'.at = feed.at /\ feed'.symbol = feed.symbol /\ feed'.todo = feed.todo
      /\ feed'.message = feed.message /\ feed'.call.kind = feed.call.kind
      /\ feed'.call.entries = << >> /\ feed'.call.status = "MISSING_UPDATE"
  BY MissFeed
<1>4. Missed(feed.symbol)'
  BY <1>1, <1>3, MissIsReal DEF Missed, NextNumber
<1>5. Ledger'
  BY <1>1 DEF FeedInv, Ledger
<1>6. Buffers'
  BY <1>1, <1>3 DEF FeedInv, Buffers
<1>7. Phases'
  BY <1>1, <1>3 DEF FeedInv, Phases
<1>8. NothingKept'
  BY <1>1, <1>3 DEF FeedInv, NothingKept, Replaying
<1>9. UpdateCall'
  <2>1. states[feed.symbol].status = "SNASHOT_ADDED"
    BY <1>1, DuringUpdate DEF State
  <2>2. QED
    BY <1>1, <1>3, <1>4, <2>1, GenuineNone DEF UpdateCall
<1>10. SnapshotCall' /\ ReplayCall'
  BY <1>1, <1>3 DEF SnapshotCall, ReplayCall, IsUpdate
<1>11. AllAccounted'
  <2>1. SUFFICES ASSUME NEW s \in Symbols \ outdated, NEW n \in came[s]
                 PROVE  Accounted(s, n)'
    BY <1>1 DEF AllAccounted
  <2>2. Accounted(s, n)
    BY <1>2 DEF FeedInv, AllAccounted
  <2>3. CASE s = feed.symbol
    <3>1. Changing(s)' /\ IsUpdate'
      BY <1>1, <1>3, <2>3 DEF Changing, IsUpdate
    <3>2. QED
      BY <1>3, <3>1 DEF Accounted, Coming
  <2>4. CASE s # feed.symbol
    <3>1. ~Changing(s)
      BY <2>4 DEF Changing
    <3>2. QED
      BY <1>1, <1>3, <2>2, <3>1 DEF Accounted, Coming, AfterGap
  <2>5. QED
    BY <2>3, <2>4
<1>12. GapIsReal'
  BY <1>1, <1>2 DEF GapIsReal
<1>13. QED
  BY <1>5, <1>6, <1>7, <1>8, <1>9, <1>10, <1>11, <1>12 DEF FeedInv

-----------------------------------------------------------------------------
(* The ends of the calls.                                                  *)

(* What an addUpdate leaves, of its own state and of the others.           *)
LEMMA DoneStates ==
  ASSUME Shapes, Typed, UpdateDone \/ UpdateMissed \/ ReplayDone, NEW s \in Symbols
  PROVE  /\ s # feed.symbol => states'[s] = states[s]
         /\ s = feed.symbol =>
              /\ states'[s].lastRptSeq = states[s].lastRptSeq
              /\ states'[s].updateCount = states[s].updateCount + 1
              /\ states'[s].status =
                   IF feed.call.status = "MISSING_UPDATE" THEN "INVALID" ELSE "VALID"
              /\ ~ReplayDone => states'[s].tmpBuffer = states[s].tmpBuffer
              /\ ReplayDone => states'[s].tmpBuffer = << >>
<1>1. PICK after : after = AfterUpdate(states[s])
  OBVIOUS
<1>2. /\ after \in StateTypes /\ after.lastRptSeq = states[s].lastRptSeq
      /\ after.tmpBuffer = states[s].tmpBuffer
      /\ after.updateCount = states[s].updateCount + 1
      /\ after.status = IF feed.call.status = "MISSING_UPDATE" THEN "INVALID" ELSE "VALID"
  BY <1>1, StateFacts, AfterUpdateType
<1>3. PICK cleared : cleared = [after EXCEPT !.tmpBuffer = << >>]
  OBVIOUS
<1>4. /\ cleared.lastRptSeq = after.lastRptSeq /\ cleared.updateCount = after.updateCount
      /\ cleared.status = after.status /\ cleared.tmpBuffer = << >>
  BY <1>2, <1>3 DEF StateTypes
<1>5. s # feed.symbol => states'[s] = states[s]
  BY DEF UpdateDone, UpdateMissed, ReplayDone, Typed
<1>6. s = feed.symbol => /\ ~ReplayDone => states'[s] = after
                         /\ ReplayDone => states'[s] = cleared
  BY <1>1, <1>3 DEF UpdateDone, UpdateMissed, ReplayDone, Typed
<1>7. QED
  BY <1>2, <1>4, <1>5, <1>6

LEMMA DoneLedger ==
  ASSUME Shapes, Typed, FeedInv, UpdateDone \/ UpdateMissed \/ ReplayDone
  PROVE  Ledger' /\ UNCHANGED <<published, came, looked, refused, outdated>>
<1>1. UNCHANGED <<published, came, looked, refused, outdated>>
  BY DEF UpdateDone, UpdateMissed, ReplayDone, history
<1>2. \A s \in Symbols : states'[s].lastRptSeq = states[s].lastRptSeq
  BY DoneStates
<1>3. QED
  BY <1>1, <1>2 DEF FeedInv, Ledger

LEMMA UpdateDoneFeedInv ==
  ASSUME Shapes, Typed, FeedInv, UpdateDone
  PROVE  FeedInv'
<1>1. /\ FeedAt("entries") /\ feed.at = "entries" /\ feed.call.kind = "update" /\ IsUpdate
      /\ feed.call.status # "MISSING_UPDATE" /\ feed.call.entries = << >>
      /\ ~ReplayDone /\ lost' = lost
  BY DEF UpdateDone, AllEntriesDone, FeedAt, IsUpdate, ReplayDone
<1>2. /\ feed.symbol \in Symbols /\ feed.symbol \notin feed.todo /\ ~lost
      /\ states[feed.symbol].status = "SNASHOT_ADDED"
  BY <1>1, DuringUpdate DEF State
<1>3. /\ feed'.at = "symbols" /\ feed'.todo = feed.todo /\ feed'.message = feed.message
  BY DoneFeed
<1>4. Ledger' /\ UNCHANGED <<published, came, looked, refused, outdated>>
  BY DoneLedger
<1>5. \A s \in Symbols : states'[s].tmpBuffer = states[s].tmpBuffer
  BY <1>1, DoneStates
<1>6. Buffers'
  <2>1. feed.todo \subseteq Symbols
    BY DEF Typed, FeedTyped
  <2>2. QED
    BY <1>3, <1>4, <1>5, <2>1 DEF FeedInv, Buffers
<1>7. Phases'
  BY <1>1, <1>2, <1>3 DEF Phases
<1>8. NothingKept'
  <2>1. SUFFICES ASSUME NEW s \in Symbols, states'[s].status = "SNASHOT_ADDED"
                 PROVE  states'[s].tmpBuffer = << >>
    BY DEF NothingKept
  <2>2. s # feed.symbol /\ states'[s] = states[s]
    BY <1>1, <2>1, DoneStates
  <2>3. QED
    BY <1>1, <2>1, <2>2 DEF FeedInv, NothingKept, Replaying
<1>9. UpdateCall' /\ SnapshotCall' /\ ReplayCall'
  BY <1>3 DEF UpdateCall, SnapshotCall, ReplayCall
<1>10. AllAccounted'
  <2>1. SUFFICES ASSUME NEW s \in Symbols \ outdated, NEW n \in came[s]
                 PROVE  Accounted(s, n)'
    BY <1>4 DEF AllAccounted
  <2>2. Accounted(s, n)
    BY <1>2 DEF FeedInv, AllAccounted
  <2>3. Coming(s, n) => s \in feed.todo /\ n \in NumbersOf(feed.message[s])
    BY <1>1, NumbersOfNone DEF Coming
  <2>4. CASE s = feed.symbol
    <3>1. ~AfterGap(s, n) /\ ~Coming(s, n)
      BY <1>2, <2>3, <2>4 DEF AfterGap
    <3>2. QED
      BY <1>4, <1>5, <2>2, <3>1 DEF Accounted
  <2>5. CASE s # feed.symbol
    <3>1. states'[s] = states[s]
      BY <2>5, DoneStates
    <3>2. QED
      BY <1>3, <1>4, <2>2, <2>3, <3>1 DEF Accounted, Coming, AfterGap
  <2>6. QED
    BY <2>4, <2>5
<1>11. GapIsReal'
  BY <1>1, <1>2 DEF GapIsReal
<1>12. QED
  BY <1>4, <1>6, <1>7, <1>8, <1>9, <1>10, <1>11 DEF FeedInv

LEMMA MissedIsAfterGap ==
  ASSUME Shapes, Typed, Ledger, NEW s \in Symbols \ outdated,
         NEW n \in came[s], n \notin looked[s], Missed(s), UNCHANGED came,
         states'[s].status = "INVALID", states'[s].lastRptSeq = states[s].lastRptSeq
  PROVE  AfterGap(s, n)'
<1>1. /\ n \in Nat /\ n >= 1 /\ looked[s] = 1 .. states[s].lastRptSeq
      /\ states[s].lastRptSeq \in Nat /\ published[s] \in Nat
  <2>1. published[s] \in Nat /\ came[s] \subseteq 1 .. published[s]
    BY DEF Typed, RestTyped, Ledger
  <2>2. QED
    BY <2>1, StateFacts DEF Ledger
<1>2. n # states[s].lastRptSeq + 1 /\ states[s].lastRptSeq + 1 \notin came[s]
  BY DEF Missed, NextNumber
<1>3. n > states[s].lastRptSeq + 1
  BY <1>1, <1>2
<1>4. QED
  BY <1>2, <1>3 DEF AfterGap

(* The states are destroyed: the gap is one that the broker left.          *)
LEMMA UpdateMissedFeedInv ==
  ASSUME Shapes, Typed, FeedInv, UpdateMissed
  PROVE  FeedInv'
<1>1. /\ FeedAt("entries") /\ feed.at = "entries" /\ feed.call.kind = "update" /\ IsUpdate
      /\ feed.call.status = "MISSING_UPDATE" /\ ~ReplayDone /\ lost' = TRUE /\ feed' = Idle
  BY DEF UpdateMissed, AllEntriesDone, FeedAt, IsUpdate, ReplayDone
<1>2. PICK s \in Symbols : s = feed.symbol
  BY DEF Shapes
<1>3. feed'.at = "idle" /\ feed'.todo = {}
  BY <1>1 DEF Idle
<1>4. Ledger' /\ UNCHANGED <<published, came, looked, refused, outdated>>
  BY DoneLedger
<1>5. \A r \in Symbols : states'[r].tmpBuffer = states[r].tmpBuffer
  BY <1>1, DoneStates
<1>6. Buffers'
  BY <1>3, <1>4, <1>5 DEF FeedInv, Buffers
<1>7. Phases'
  BY <1>3 DEF Phases
<1>8. NothingKept'
  <2>1. SUFFICES ASSUME NEW r \in Symbols, states'[r].status = "SNASHOT_ADDED"
                 PROVE  states'[r].tmpBuffer = << >>
    BY DEF NothingKept
  <2>2. r # feed.symbol /\ states'[r] = states[r]
    BY <1>1, <2>1, DoneStates
  <2>3. QED
    BY <1>1, <2>1, <2>2 DEF FeedInv, NothingKept, Replaying
<1>9. UpdateCall' /\ SnapshotCall' /\ ReplayCall'
  BY <1>3 DEF UpdateCall, SnapshotCall, ReplayCall
<1>10. AllAccounted'
  BY <1>1 DEF AllAccounted
<1>11. GapIsReal'
  <2>0. SUFFICES ASSUME s \notin outdated PROVE GapIsReal'
    BY <1>2, <1>4 DEF GapIsReal
  <2>1. Missed(s)
    BY <1>1, <1>2 DEF FeedInv, UpdateCall
  <2>2. PICK n \in came[s] : n > NextNumber(s)
    BY <2>0, <2>1 DEF Missed
  <2>3. /\ states'[s].status = "INVALID"
        /\ states'[s].lastRptSeq = states[s].lastRptSeq
    BY <1>1, <1>2, DoneStates
  <2>4. AfterGap(s, n)'
    BY <1>4, <2>0, <2>1, <2>2, <2>3 DEF AfterGap, Missed, NextNumber
  <2>5. QED
    BY <1>4, <2>4 DEF GapIsReal
<1>12. QED
  BY <1>4, <1>6, <1>7, <1>8, <1>9, <1>10, <1>11 DEF FeedInv

LEMMA ReplayDoneFeedInv ==
  ASSUME Shapes, Typed, FeedInv, ReplayDone
  PROVE  FeedInv'
<1>1. /\ FeedAt("entries") /\ feed.at = "entries" /\ feed.call.kind = "replay" /\ IsUpdate
      /\ feed.call.entries = << >> /\ lost' = lost /\ feed' = Idle
  BY DEF ReplayDone, AllEntriesDone, FeedAt, IsUpdate
<1>2. PICK s \in Symbols : s = feed.symbol
  BY DEF Shapes
<1>3. feed'.at = "idle" /\ feed'.todo = {}
  BY <1>1 DEF Idle
<1>4. feed.todo = {} /\ ~lost /\ states[s].status = "SNASHOT_ADDED"
  BY <1>1, <1>2, DuringUpdate DEF FeedInv, Phases, State
<1>5. Ledger' /\ UNCHANGED <<published, came, looked, refused, outdated>>
  BY DoneLedger
<1>6. \A r \in Symbols \ {s} : states'[r] = states[r]
  BY <1>2, DoneStates
<1>7. /\ states'[s].tmpBuffer = << >> /\ states'[s].lastRptSeq = states[s].lastRptSeq
      /\ states'[s].updateCount = states[s].updateCount + 1
      /\ states'[s].status = IF feed.call.status = "MISSING_UPDATE" THEN "INVALID" ELSE "VALID"
  BY <1>2, DoneStates
<1>8. Buffers'
  BY <1>3, <1>5, <1>6, <1>7, GenuineNone DEF FeedInv, Buffers
<1>9. Phases'
  BY <1>3 DEF Phases
<1>10. NothingKept'
  BY <1>1, <1>2, <1>6, <1>7 DEF FeedInv, NothingKept, Replaying
<1>11. UpdateCall' /\ SnapshotCall' /\ ReplayCall'
  BY <1>3 DEF UpdateCall, SnapshotCall, ReplayCall
<1>12. AllAccounted'
  <2>1. SUFFICES ASSUME NEW r \in Symbols \ outdated, NEW n \in came[r]
                 PROVE  Accounted(r, n)'
    BY <1>5 DEF AllAccounted
  <2>2. Accounted(r, n)
    BY <1>4 DEF FeedInv, AllAccounted
  <2>3. CASE r # s
    <3>1. ~Coming(r, n)
      BY <1>2, <1>4, <2>3 DEF Coming, Changing
    <3>2. QED
      BY <1>5, <1>6, <2>2, <2>3, <3>1 DEF Accounted, AfterGap
  <2>4. CASE r = s /\ n \in looked[s] \cup refused[s]
    BY <1>5, <2>4 DEF Accounted
  <2>5. CASE r = s /\ n \notin looked[s] \cup refused[s]
    <3>1. feed.call.status = "MISSING_UPDATE"
      <4>1. ~AfterGap(s, n)
        BY <1>4 DEF AfterGap
      <4>2. n \in NumbersOf(states[s].tmpBuffer) \/ Coming(s, n)
        BY <2>2, <2>5, <4>1 DEF Accounted
      <4>3. QED
        BY <1>1, <1>2, <1>4, <2>5, <4>2, NumbersOfNone DEF FeedInv, UpdateCall, Coming
    <3>2. Missed(s)
      BY <1>1, <1>2, <3>1 DEF FeedInv, UpdateCall
    <3>3. AfterGap(s, n)'
      BY <1>5, <1>7, <2>5, <3>1, <3>2, MissedIsAfterGap DEF FeedInv
    <3>4. QED
      BY <2>5, <3>3 DEF Accounted
  <2>6. QED
    BY <2>3, <2>4, <2>5
<1>13. GapIsReal'
  BY <1>1, <1>4 DEF GapIsReal
<1>14. QED
  BY <1>5, <1>8, <1>9, <1>10, <1>11, <1>12, <1>13 DEF FeedInv

LEMMA CameFacts ==
  ASSUME Typed, Ledger, NEW s \in Symbols, NEW n \in came[s]
  PROVE  n \in Nat /\ n >= 1
<1>1. published[s] \in Nat /\ came[s] \subseteq 1 .. published[s]
  BY DEF Typed, RestTyped, Ledger
<1>2. QED
  BY <1>1

(* A snapshot that was booked stands for everything up to its number, and  *)
(* what came with a higher one is kept.                                    *)
LEMMA SnapshotDoneFeedInv ==
  ASSUME Shapes, Typed, FeedInv, SnapshotDone
  PROVE  FeedInv'
<1>1. /\ FeedAt("entries") /\ feed.at = "entries" /\ feed.call.kind = "snapshot"
      /\ feed.call.entries = << >> /\ UNCHANGED <<lost, published, came>>
      /\ outdated \subseteq outdated' /\ outdated' \subseteq outdated \cup {feed.symbol}
  BY DEF SnapshotDone, AllEntriesDone, FeedAt
<1>2. PICK s \in Symbols : s = feed.symbol
  BY DEF Shapes
<1>3. feed.todo = {} /\ ~lost
  BY <1>1 DEF FeedInv, Phases
<1>4. /\ feed'.todo = {} /\ feed'.at \in {"idle", "replay"}
      /\ states[s].tmpBuffer # << >> => feed'.at = "replay" /\ feed'.symbol = s
  BY <1>2, <1>3, SnapshotDoneTyped DEF State
<1>5. PICK after : after = AfterSnapshot(states[s])
  OBVIOUS
<1>6. /\ after.tmpBuffer = states[s].tmpBuffer
      /\ after.updateCount = states[s].updateCount + 1
      /\ feed.call.status = "SUCCESSFULL" =>
           after.lastRptSeq = feed.call.first /\ after.status = "SNASHOT_ADDED"
      /\ feed.call.status # "SUCCESSFULL" =>
           after.lastRptSeq = states[s].lastRptSeq /\ after.status = states[s].status
  BY <1>5, StateFacts, AfterSnapshotType
<1>7. states'[s] = after /\ \A r \in Symbols \ {s} : states'[r] = states[r]
  BY <1>2, <1>5, SnapshotDoneTyped DEF State, Typed
<1>8. /\ looked' = [looked EXCEPT ![s] = IF feed.call.status = "SUCCESSFULL"
                                         THEN @ \cup 1 .. feed.call.first ELSE @]
      /\ refused' = [refused EXCEPT ![s] = IF feed.call.status = "SUCCESSFULL" THEN {}
                                           ELSE @ \cup NumbersOf(states[s].tmpBuffer)]
      /\ feed.call.status = "SUCCESSFULL" =>
           \/ s \in outdated'
           \/ /\ s \notin outdated
              /\ ~(feed.call.first < states[s].lastRptSeq)
              /\ \A n \in came[s] \ NumbersOf(states[s].tmpBuffer) : ~(n > feed.call.first)
  <2>1. looked \in [Symbols -> SUBSET Nat]
    BY DEF FeedInv, Ledger
  <2>2. QED
    BY <1>2, <2>1 DEF SnapshotDone, State
<1>9. ASSUME feed.call.status = "SUCCESSFULL"
      PROVE  /\ feed.call.first \in Nat /\ feed.call.first <= published[s]
             /\ looked'[s] = looked[s] \cup 1 .. feed.call.first
             /\ s \notin outdated' => looked'[s] = 1 .. feed.call.first
  <2>1. feed.call.first <= published[s]
    BY <1>1, <1>2 DEF FeedInv, SnapshotCall
  <2>2. feed.call.first \in Nat
    BY CallFacts
  <2>3. looked'[s] = looked[s] \cup 1 .. feed.call.first
    BY <1>8, <1>9 DEF FeedInv, Ledger
  <2>4. ASSUME s \notin outdated' PROVE looked[s] \subseteq 1 .. feed.call.first
    <3>1. looked[s] = 1 .. states[s].lastRptSeq
      BY <1>8, <1>9, <2>4 DEF FeedInv, Ledger
    <3>2. states[s].lastRptSeq \in Nat
      BY StateFacts
    <3>3. states[s].lastRptSeq <= feed.call.first
      <4>1. ~(feed.call.first < states[s].lastRptSeq)
        BY <1>8, <1>9, <2>4
      <4>2. QED
        BY <2>2, <3>2, <4>1
    <3>4. QED
      BY <2>2, <3>1, <3>2, <3>3
  <2>5. QED
    BY <2>1, <2>2, <2>3, <2>4
<1>10. /\ looked[s] \subseteq looked'[s]
       /\ feed.call.status # "SUCCESSFULL" =>
            looked'[s] = looked[s] /\ refused[s] \subseteq refused'[s]
       /\ \A r \in Symbols \ {s} : looked'[r] = looked[r] /\ refused'[r] = refused[r]
  BY <1>8 DEF FeedInv, Ledger
<1>11. Ledger'
  <2>1. looked' \in [Symbols -> SUBSET Nat]
    <3>1. 1 .. feed.call.first \subseteq Nat
      BY CallFacts
    <3>2. QED
      BY <1>8, <3>1 DEF FeedInv, Ledger
  <2>2. refused' \in [Symbols -> SUBSET Nat]
    <3>1. NumbersOf(states[s].tmpBuffer) \subseteq Nat
      BY DEF FeedInv, Buffers, Genuine, Ledger
    <3>2. QED
      BY <1>8, <3>1 DEF FeedInv, Ledger
  <2>3. outdated' \subseteq Symbols
    BY <1>1, <1>2 DEF FeedInv, Ledger
  <2>4. /\ 1 .. after.lastRptSeq \subseteq looked'[s]
        /\ s \notin outdated' => looked'[s] = 1 .. after.lastRptSeq
        /\ after.lastRptSeq <= published[s]
    <3>1. CASE feed.call.status = "SUCCESSFULL"
      BY <1>6, <1>9, <3>1
    <3>2. CASE feed.call.status # "SUCCESSFULL"
      BY <1>1, <1>6, <1>10, <3>2 DEF FeedInv, Ledger
    <3>3. QED
      BY <3>1, <3>2
  <2>5. QED
    BY <1>1, <1>7, <1>10, <2>1, <2>2, <2>3, <2>4 DEF FeedInv, Ledger
<1>12. Buffers'
  BY <1>1, <1>4, <1>6, <1>7 DEF FeedInv, Buffers
<1>13. Phases'
  BY <1>1, <1>3, <1>4 DEF Phases
<1>14. NothingKept'
  <2>1. SUFFICES ASSUME NEW r \in Symbols, states'[r].status = "SNASHOT_ADDED",
                        states'[r].tmpBuffer # << >>
                 PROVE  Replaying(r)'
    BY DEF NothingKept
  <2>2. CASE r = s
    BY <1>4, <1>6, <1>7, <2>1, <2>2 DEF Replaying
  <2>3. CASE r # s
    BY <1>1, <1>7, <2>1, <2>3 DEF FeedInv, NothingKept, Replaying
  <2>4. QED
    BY <2>2, <2>3
<1>15. UpdateCall' /\ SnapshotCall' /\ ReplayCall'
  <2>1. UpdateCall' /\ SnapshotCall'
    BY <1>4 DEF UpdateCall, SnapshotCall
  <2>2. ReplayCall'
    <3>1. feed'.at = "replay" => feed'.symbol = s
      BY <1>2, <1>4, SnapshotDoneTyped DEF State
    <3>2. CASE feed.call.status = "SUCCESSFULL"
      BY <1>6, <1>7, <3>1, <3>2 DEF ReplayCall
    <3>3. CASE feed.call.status # "SUCCESSFULL"
      <4>1. NumbersOf(after.tmpBuffer) \subseteq refused'[s]
        BY <1>6, <1>8, <3>3 DEF FeedInv, Ledger
      <4>2. QED
        BY <1>7, <3>1, <4>1 DEF ReplayCall
    <3>4. QED
      BY <3>2, <3>3
  <2>3. QED
    BY <2>1, <2>2
<1>16. AllAccounted'
  <2>1. SUFFICES ASSUME NEW r \in Symbols \ outdated', NEW n \in came[r]
                 PROVE  Accounted(r, n)'
    BY <1>1 DEF AllAccounted
  <2>2. Accounted(r, n)
    BY <1>1, <1>3 DEF FeedInv, AllAccounted
  <2>3. ~Coming(r, n)
    BY <1>1, <1>3 DEF Coming, IsUpdate
  <2>4. CASE r # s
    BY <1>1, <1>7, <1>10, <2>2, <2>3, <2>4 DEF Accounted, AfterGap
  <2>5. CASE r = s /\ feed.call.status = "SUCCESSFULL"
    <3>1. looked'[s] = 1 .. feed.call.first /\ feed.call.first \in Nat
      BY <1>9, <2>5
    <3>2. n \in Nat /\ n >= 1
      BY <2>5, CameFacts DEF FeedInv
    <3>3. n \in looked'[s] \/ n \in NumbersOf(states[s].tmpBuffer)
      BY <1>8, <2>5, <3>1, <3>2
    <3>4. QED
      BY <1>6, <1>7, <2>5, <3>3 DEF Accounted
  <2>6. CASE r = s /\ feed.call.status # "SUCCESSFULL"
    BY <1>1, <1>6, <1>7, <1>10, <2>2, <2>3, <2>6 DEF Accounted, AfterGap
  <2>7. QED
    BY <2>4, <2>5, <2>6
<1>17. GapIsReal'
  BY <1>1, <1>3 DEF GapIsReal
<1>18. QED
  BY <1>11, <1>12, <1>13, <1>14, <1>15, <1>16, <1>17 DEF FeedInv

(* What is forgotten was refused.                                          *)
LEMMA IntoItselfFeedInv ==
  ASSUME Shapes, Typed, FeedInv, ReplayIntoItself
  PROVE  FeedInv'
<1>1. /\ feed.at = "replay" /\ feed' = Idle /\ UNCHANGED <<lost, published>>
      /\ UNCHANGED <<came, looked, refused, outdated>>
  BY DEF ReplayIntoItself, FeedAt, history
<1>2. PICK s \in Symbols : s = feed.symbol
  BY DEF Shapes
<1>3. /\ states'[s].tmpBuffer = << >> /\ states'[s].status = states[s].status
      /\ states'[s].lastRptSeq = states[s].lastRptSeq
      /\ \A r \in Symbols \ {s} : states'[r] = states[r]
  BY <1>2, StateFacts DEF ReplayIntoItself, Typed, StateTypes
<1>4. feed'.at = "idle" /\ feed'.todo = {} /\ feed.todo = {} /\ ~lost
  BY <1>1 DEF Idle, FeedInv, Phases
<1>5. NumbersOf(states[s].tmpBuffer) \subseteq refused[s]
  BY <1>1, <1>2 DEF ReplayIntoItself, State, FeedInv, ReplayCall
<1>6. Ledger'
  <2>1. \A r \in Symbols : states'[r].lastRptSeq = states[r].lastRptSeq
    BY <1>3
  <2>2. QED
    BY <1>1, <2>1 DEF FeedInv, Ledger
<1>7. Buffers'
  BY <1>1, <1>3, <1>4, GenuineNone DEF FeedInv, Buffers
<1>8. Phases'
  BY <1>1, <1>4 DEF Phases
<1>9. NothingKept'
  BY <1>1, <1>2, <1>3 DEF FeedInv, NothingKept, Replaying
<1>10. UpdateCall' /\ SnapshotCall' /\ ReplayCall'
  BY <1>4 DEF UpdateCall, SnapshotCall, ReplayCall
<1>11. AllAccounted'
  <2>1. SUFFICES ASSUME NEW r \in Symbols \ outdated, NEW n \in came[r]
                 PROVE  Accounted(r, n)'
    BY <1>1 DEF AllAccounted
  <2>2. Accounted(r, n) /\ ~Coming(r, n)
    BY <1>1, <1>4, NothingComes DEF FeedInv, AllAccounted
  <2>3. CASE r # s
    BY <1>1, <1>3, <2>2, <2>3 DEF Accounted, AfterGap
  <2>4. CASE r = s
    BY <1>1, <1>3, <1>5, <2>2, <2>4 DEF Accounted, AfterGap
  <2>5. QED
    BY <2>3, <2>4
<1>12. GapIsReal'
  BY <1>1, <1>4 DEF GapIsReal
<1>13. QED
  BY <1>6, <1>7, <1>8, <1>9, <1>10, <1>11, <1>12 DEF FeedInv

-----------------------------------------------------------------------------
LEMMA OthersFeedInv ==
  ASSUME FeedInv,
         \/ UpdateTrade \/ SnapshotOfLost \/ ReplayOutOfRoom \/ ReadOfLost
         \/ \E s \in Symbols : HandleEvent(s)
         \/ LoadCount \/ CopyBids \/ CopyAsks \/ LoadCountAgain \/ UNCHANGED vars
  PROVE  FeedInv'
<1>1. UNCHANGED <<states, lost, feed, published, history>>
  BY DEF UpdateTrade, SnapshotOfLost, ReplayOutOfRoom, ReadOfLost, Ends, HandleEvent,
         LoadCount, CopyBids, CopyAsks, LoadCountAgain, vars, feedVars
<1>2. QED
  BY <1>1, FeedKept

LEMMA NextFeedInv == ASSUME Inv, [Next]_vars PROVE FeedInv'
<1> USE DEF Inv, ReadInv
<1>1. CASE LogonSuccess
  BY <1>1, LogonFeedInv
<1>2. ASSUME NEW news \in Incremental, NEW skipped \in 0 .. MaxSkipped, MarketData(news, skipped)
      PROVE  FeedInv'
  BY <1>2, MarketDataFeedInv
<1>3. ASSUME NEW s \in Symbols, AddUpdateNoSnapshot(s) PROVE FeedInv'
  BY <1>3, NoSnapshotFeedInv
<1>4. ASSUME NEW s \in Symbols, AddUpdate(s) PROVE FeedInv'
  BY <1>4, AddUpdateFeedInv
<1>5. CASE UpdateBook
  BY <1>5, UpdateBookFeedInv
<1>6. CASE SkipOldUpdate
  BY <1>6, SkipFeedInv
<1>7. CASE MissUpdate
  BY <1>7, MissFeedInv
<1>8. CASE UpdateDone
  BY <1>8, UpdateDoneFeedInv
<1>9. CASE UpdateMissed
  BY <1>9, UpdateMissedFeedInv
<1>10. CASE ReplayDone
  BY <1>10, ReplayDoneFeedInv
<1>11. CASE NotifyMarketChanges
  BY <1>11, NotifyFeedInv
<1>12. ASSUME NEW s \in Symbols, NEW quotes \in Snapshots, NEW number \in 0 .. published[s],
              Snapshot(s, quotes, number)
       PROVE  FeedInv'
  BY <1>12, SnapshotFeedInv
<1>13. CASE SnapshotDone
  BY <1>13, SnapshotDoneFeedInv
<1>14. CASE Replay
  BY <1>14, ReplayFeedInv
<1>15. CASE \/ UpdateTrade \/ SnapshotOfLost \/ ReplayOutOfRoom \/ ReadOfLost
            \/ \E s \in Symbols : HandleEvent(s)
            \/ LoadCount \/ CopyBids \/ CopyAsks \/ LoadCountAgain \/ UNCHANGED vars
  BY <1>15, OthersFeedInv
<1>16. CASE ReplayIntoItself
  BY <1>16, IntoItselfFeedInv
<1>17. QED
  BY <1>1, <1>2, <1>3, <1>4, <1>5, <1>6, <1>7, <1>8, <1>9, <1>10, <1>11, <1>12, <1>13, <1>14,
     <1>15, <1>16 DEF Next

(* Only a snapshot gives a state the status that lets it take updates.     *)
LEMMA RefusedKept ==
  ASSUME NoneRefused, UNCHANGED refused,
         \A s \in Symbols : states'[s].status = "SNASHOT_ADDED" => states[s].status = "SNASHOT_ADDED"
  PROVE  NoneRefused'
BY DEF NoneRefused

LEMMA SnapshotDoneRefused ==
  ASSUME Shapes, Typed, FeedInv, NoneRefused, SnapshotDone PROVE NoneRefused'
<1>1. PICK s \in Symbols : s = feed.symbol
  BY DEF Shapes
<1>2. feed.at = "entries" /\ feed.call.kind = "snapshot"
  BY DEF SnapshotDone, AllEntriesDone, FeedAt
<1>3. states'[s] = AfterSnapshot(states[s]) /\ \A r \in Symbols \ {s} : states'[r] = states[r]
  BY <1>1, SnapshotDoneTyped DEF State, Typed
<1>4. /\ \A r \in Symbols \ {s} : refused'[r] = refused[r]
      /\ refused'[s] = IF feed.call.status = "SUCCESSFULL" THEN {}
                       ELSE refused[s] \cup NumbersOf(states[s].tmpBuffer)
  BY <1>1 DEF SnapshotDone, State, FeedInv, Ledger
<1>5. feed.call.status # "SUCCESSFULL" => AfterSnapshot(states[s]).status = states[s].status
  BY StateFacts, AfterSnapshotType
<1>6. states[s].status = "SNASHOT_ADDED" => states[s].tmpBuffer = << >>
  BY <1>2 DEF FeedInv, NothingKept, Replaying
<1>7. QED
  BY <1>3, <1>4, <1>5, <1>6, NumbersOfNone DEF NoneRefused

LEMMA NextRefused == ASSUME Shapes, Typed, FeedInv, NoneRefused, [Next]_vars PROVE NoneRefused'
<1>1. CASE \/ LogonSuccess \/ SkipOldUpdate \/ MissUpdate \/ NotifyMarketChanges
           \/ UpdateTrade \/ SnapshotOfLost \/ ReplayOutOfRoom \/ ReadOfLost
           \/ (\E news \in Incremental, skipped \in 0 .. MaxSkipped : MarketData(news, skipped))
           \/ (\E s \in Symbols : HandleEvent(s))
           \/ LoadCount \/ CopyBids \/ CopyAsks \/ LoadCountAgain \/ UNCHANGED vars
  <2>1. UNCHANGED <<states, refused>>
    BY <1>1 DEF LogonSuccess, SkipOldUpdate, MissUpdate, NotifyMarketChanges, UpdateTrade,
                SnapshotOfLost, ReplayOutOfRoom, ReadOfLost, Ends, MarketData, HandleEvent,
                LoadCount, CopyBids, CopyAsks, LoadCountAgain, vars, feedVars, history
  <2>2. QED
    BY <2>1, RefusedKept
<1>2. ASSUME NEW s \in Symbols, AddUpdateNoSnapshot(s) PROVE NoneRefused'
  <2>1. UNCHANGED refused /\ \A r \in Symbols : states'[r].status = states[r].status
    BY <1>2, StateFacts DEF AddUpdateNoSnapshot, Keeping, history, Typed, StateTypes
  <2>2. QED
    BY <2>1, RefusedKept
<1>3. ASSUME NEW s \in Symbols, states' = [states EXCEPT ![s] = Counted(@)], UNCHANGED history
      PROVE  NoneRefused'
  <2>1. Raised(s)
    BY <1>3, CountedRaises
  <2>2. QED
    BY <1>3, <2>1, RefusedKept DEF Raised, history
<1>4. ASSUME NEW s \in Symbols, AddUpdate(s) PROVE NoneRefused'
  BY <1>3, <1>4 DEF AddUpdate
<1>5. ASSUME NEW s \in Symbols, NEW quotes \in Snapshots, NEW number \in 0 .. published[s],
             Snapshot(s, quotes, number)
      PROVE  NoneRefused'
  BY <1>3, <1>5 DEF Snapshot
<1>6. CASE Replay
  BY <1>3, <1>6 DEF Replay, Shapes
<1>7. CASE UpdateBook
  <2>1. UNCHANGED refused /\ \A r \in Symbols : states'[r].status = states[r].status
    BY <1>7, UpdateBookState DEF UpdateBook, State
  <2>2. QED
    BY <2>1, RefusedKept
<1>8. CASE UpdateDone \/ UpdateMissed \/ ReplayDone
  <2>1. UNCHANGED refused
    BY <1>8 DEF UpdateDone, UpdateMissed, ReplayDone, history
  <2>2. \A r \in Symbols : states'[r] = states[r] \/ states'[r].status # "SNASHOT_ADDED"
    BY <1>8, DoneStates
  <2>3. QED
    BY <2>1, <2>2, RefusedKept
<1>9. CASE ReplayIntoItself
  <2>1. UNCHANGED refused /\ \A r \in Symbols : states'[r].status = states[r].status
    BY <1>9, StateFacts DEF ReplayIntoItself, history, Typed, StateTypes
  <2>2. QED
    BY <2>1, RefusedKept
<1>10. CASE SnapshotDone
  BY <1>10, SnapshotDoneRefused
<1>11. QED
  BY <1>1, <1>2, <1>4, <1>5, <1>6, <1>7, <1>8, <1>9, <1>10 DEF Next

LEMMA NextInv == Inv /\ [Next]_vars => Inv'
BY NextReadInv, NextTyped, NextFeedInv, NextRefused DEF Inv, ReadInv

LEMMA InitInv == Init => Inv
<1>1. Init => NoneRefused
  BY DEF Init, NoneRefused
<1>2. QED
  BY <1>1, InitReadInv, InitTyped, InitFeedInv DEF Inv

LEMMA InvForgetsNothing == Inv => NoUpdateForgotten
<1>1. SUFFICES ASSUME Inv, ~lost, NEW s \in Symbols \ outdated, NEW n \in came[s]
               PROVE  \/ n \in looked[s] \cup refused[s] \cup NumbersOf(states[s].tmpBuffer)
                      \/ OnItsWay(s, n) \/ AfterGap(s, n)
  BY DEF NoUpdateForgotten
<1>2. Accounted(s, n)
  BY <1>1 DEF Inv, FeedInv, AllAccounted
<1>3. Coming(s, n) => OnItsWay(s, n)
  BY DEF Coming, OnItsWay
<1>4. QED
  BY <1>2, <1>3 DEF Accounted

(* Of the updates of a symbol that FeedHandler::notify was given none is   *)
(* forgotten by SymbolMarketState, however the messages, the snapshots and *)
(* the replays follow each other: it was booked, a snapshot stands for it, *)
(* it is kept in tmpBuffer_, it is on its way, there is a gap before it,   *)
(* or it was kept for a snapshot that could not be booked; unless the      *)
(* symbol got a snapshot older than an update it did not keep any more.    *)
THEOREM NothingForgotten == Spec => []NoUpdateForgotten
<1>1. QED
  BY InitInv, NextInv, InvForgetsNothing, PTL DEF Spec

(* FeedHandler destroys the states of its symbols only when the broker did *)
(* skip a number, or sent a snapshot older than an update that was not     *)
(* kept any more: an update that was kept for a snapshot, or one that is   *)
(* older than the snapshot, is never taken for one that is missing.        *)
THEOREM GapsAreReal == Spec => []GapIsReal
<1>1. Inv => GapIsReal
  BY DEF Inv, FeedInv
<1>2. QED
  BY <1>1, InitInv, NextInv, PTL DEF Spec

-----------------------------------------------------------------------------
(* Who is told: a message is compared with the books there were before.    *)

(* An update that is out of range leaves a side of the book as it was: the *)
(* window moves first only if it has no place yet, and then bids are above *)
(* its start, and offers find it empty.                                    *)
LEMMA QuotientType ==
  ASSUME NEW m \in Nat, NEW n \in Nat \ {0} PROVE m \div n \in Nat
OBVIOUS

LEMMA NewWindowOffset ==
  ASSUME NEW side \in Sides, NEW price \in Nat, side.startPrice = Centered(price)
  PROVE  getOffsetFromStartIndex(side, price) \in Nat
<1>1. PICK m : m = midOffset * Tick
  OBVIOUS
<1>2. m \in Nat
  <2>1. Size \in Nat \ {0} /\ TickSize \in Nat \ {0} /\ PriceScale \in Nat \ {0}
    BY LiquidityAssumption
  <2>2. midOffset \in Nat /\ Tick \in Nat
    BY <2>1 DEF midOffset, Tick
  <2>3. QED
    BY <1>1, <2>2
<1>3. price - side.startPrice = m
  BY <1>1, <1>2 DEF Centered
<1>4. m \div TickSize \in Nat
  BY <1>2, SizeFacts, QuotientType
<1>5. QED
  BY <1>2, <1>3, <1>4 DEF getOffsetFromStartIndex

LEMMA EmptyMayShift ==
  ASSUME NEW side \in Sides, side.volumes = NoLevels, NEW d \in Int
  PROVE  AskMayShift(side, d)
<1>1. ASSUME NEW n \in 0 .. Lost(d) - 1
      PROVE  side.volumes[(side.startIndex + n) % Size] = 0
  <2>1. (side.startIndex + n) % Size \in Indices
    BY LostType, SideFacts, TurnType
  <2>2. QED
    BY <2>1 DEF NoLevels
<1>2. QED
  BY <1>1 DEF AskMayShift

LEMMA OutOfRangeKeeps ==
  ASSUME NEW before \in Sides, NEW price \in Nat, NEW volume \in Nat
  PROVE  /\ BidUpdate(before, price, volume).status # "SUCCESSFULL"
              => BidUpdate(before, price, volume).side = before
         /\ AskUpdate(before, price, volume).status # "SUCCESSFULL"
              => \/ AskUpdate(before, price, volume).side = before
                 \/ TakenForUnused(before)
<1>1. PICK side : side = Located(before, price)
  OBVIOUS
<1>2. PICK d : d = getOffsetFromStartIndex(side, price)
  OBVIOUS
<1>3. side \in Sides /\ d \in Int
  BY <1>1, <1>2, StartType, OffsetType DEF Located
<1>4. \A s : Done(s).status = "SUCCESSFULL" /\ OutOfRange(s).side = s
  BY DEF Done, OutOfRange
<1>5. /\ BidUpdate(before, price, volume).status # "SUCCESSFULL"
           => /\ BidUpdate(before, price, volume).side = side
              /\ d \notin Indices /\ ~(d >= Size)
      /\ AskUpdate(before, price, volume).status # "SUCCESSFULL"
           => /\ AskUpdate(before, price, volume).side = side
              /\ d \notin Indices /\ ~(d < 0) /\ ~AskMayShift(side, d)
  BY <1>1, <1>2, <1>4 DEF BidUpdate, AskUpdate
<1>6. CASE before.startPrice # NoPrice
  BY <1>1, <1>5, <1>6 DEF Located
<1>7. CASE before.startPrice = NoPrice
  <2>1. side = [before EXCEPT !.startPrice = Centered(price)]
    BY <1>1, <1>7 DEF Located
  <2>2. side.startPrice = Centered(price) /\ side.volumes = before.volumes
    BY <2>1 DEF Sides
  <2>3. d \in Nat
    BY <1>2, <1>3, <2>2, NewWindowOffset
  <2>4. d \in Indices \/ d >= Size
    BY <2>3, SizeFacts DEF Indices
  <2>5. before.volumes = NoLevels => AskMayShift(side, d)
    BY <1>3, <2>2, EmptyMayShift
  <2>6. QED
    BY <1>5, <1>7, <2>4, <2>5 DEF TakenForUnused
<1>8. QED
  BY <1>6, <1>7

(* While a MARKET_DATA message is taken apart, a book that is not the one  *)
(* from before it is known to have changed, or the call that changed it    *)
(* has a status that says so.                                              *)
InMessage == feed.at = "symbols" \/ (feed.at = "entries" /\ feed.call.kind = "update")

SameBook(s) == BookOf(states[s]) = feed.before[s] \/ TakenForUnused(feed.before[s].ask)

Noticed(s) ==
  \/ s \in changed
  \/ Changing(s) /\ feed.call.status \in {"SUCCESSFULL", "MISSING_UPDATE"}

Mentioned(s) == feed.message[s] # << >>

TellInv ==
  InMessage =>
    /\ \A s \in Symbols : SameBook(s) \/ Noticed(s)
    /\ \A s \in changed \cup feed.todo : Mentioned(s)
    /\ feed.at = "entries" => Mentioned(feed.symbol)

LEMMA TellInvTells == TellInv => TellsWhatChanged
BY DEF TellInv, InMessage, SameBook, Noticed, Changing, Mentioned, TellsWhatChanged

LEMMA OutsideTells ==
  ASSUME Shapes, Typed,
         \/ LogonSuccess \/ UpdateMissed \/ ReplayDone \/ NotifyMarketChanges
         \/ SnapshotDone \/ Replay \/ ReplayIntoItself
         \/ \E s \in Symbols, quotes \in Snapshots :
              \E number \in 0 .. published[s] : Snapshot(s, quotes, number)
  PROVE  TellInv'
<1>1. CASE LogonSuccess \/ UpdateMissed \/ ReplayDone \/ NotifyMarketChanges \/ ReplayIntoItself
  <2>1. feed'.at = "idle"
    BY <1>1 DEF LogonSuccess, UpdateMissed, ReplayDone, NotifyMarketChanges, ReplayIntoItself,
                Idle
  <2>2. QED
    BY <2>1 DEF TellInv, InMessage
<1>2. CASE SnapshotDone
  <2>1. feed'.at \in {"idle", "replay"}
    BY <1>2, SnapshotDoneTyped
  <2>2. QED
    BY <2>1 DEF TellInv, InMessage
<1>3. ASSUME NEW kind \in {"snapshot", "replay"}, NEW s, NEW entries,
             feed' = Call(kind, s, entries)
      PROVE  TellInv'
  <2>1. feed'.at = "entries" /\ feed'.call.kind = kind
    BY <1>3 DEF Call, NoCall, Shapes, FeedFields, Idle
  <2>2. QED
    BY <2>1 DEF TellInv, InMessage
<1>4. QED
  BY <1>1, <1>2, <1>3 DEF Snapshot, Replay

LEMMA FeedRestsTells == ASSUME TellInv, UNCHANGED feedVars PROVE TellInv'
BY DEF feedVars, TellInv, InMessage, SameBook, Noticed, Changing, Mentioned

LEMMA MarketDataTells ==
  ASSUME Shapes, NEW news \in Incremental, NEW skipped \in 0 .. MaxSkipped,
         MarketData(news, skipped)
  PROVE  TellInv'
<1>1. PICK message : message = [s \in Symbols |-> Numbered(news[s], published[s] + skipped + 1)]
  OBVIOUS
<1>2. /\ feed' = [Idle EXCEPT !.at = IF lost THEN "idle" ELSE "symbols",
                              !.message = message,
                              !.before = BooksOf(states),
                              !.todo = {s \in Symbols : ~lost /\ message[s] # << >>}]
      /\ changed' = {} /\ states' = states
  BY <1>1 DEF MarketData
<1>3. /\ feed'.at \in {"idle", "symbols"} /\ feed'.message = message
      /\ feed'.before = BooksOf(states)
      /\ feed'.todo = {s \in Symbols : ~lost /\ message[s] # << >>}
  BY <1>2 DEF Idle
<1>4. \A s \in Symbols : SameBook(s)'
  BY <1>2, <1>3 DEF SameBook, BooksOf
<1>5. QED
  BY <1>2, <1>3, <1>4 DEF TellInv, Mentioned

(* The turn of a symbol, which has or has not a snapshot.                  *)
LEMMA TurnTells ==
  ASSUME Shapes, Typed, TellInv, NEW s \in Symbols, AddUpdateNoSnapshot(s) \/ AddUpdate(s)
  PROVE  TellInv'
<1>1. /\ feed.at = "symbols" /\ s \in feed.todo /\ changed' = changed
      /\ Mentioned(s)
  BY DEF AddUpdateNoSnapshot, AddUpdate, FeedAt, Turn, TellInv, InMessage
<1>2. /\ feed'.at \in {"symbols", "entries"} /\ feed'.todo = feed.todo \ {s}
      /\ feed'.message = feed.message /\ feed'.before = feed.before
      /\ feed'.at = "entries" => feed'.symbol = s
  <2>1. CASE AddUpdateNoSnapshot(s)
    BY <1>1, <2>1 DEF AddUpdateNoSnapshot, Shapes, FeedFields, Idle
  <2>2. CASE AddUpdate(s)
    <3>1. PICK call : feed' = [feed EXCEPT !.at = "entries", !.todo = @ \ {s}, !.symbol = s,
                                           !.call = call]
      BY <2>2 DEF AddUpdate, Call
    <3>2. QED
      BY <3>1 DEF Shapes, FeedFields, Idle
  <2>3. QED
    BY <2>1, <2>2
<1>3. \A r \in Symbols : BookOf(states'[r]) = BookOf(states[r])
  <2>1. PICK state : state = states[s]
    OBVIOUS
  <2>2. state \in StateTypes
    BY <2>1, StateFacts
  <2>3. PICK after : /\ states' = [states EXCEPT ![s] = after]
                     /\ after = Keeping(state, feed.message[s]) \/ after = Counted(state)
    BY <2>1 DEF AddUpdateNoSnapshot, AddUpdate, Typed
  <2>4. BookOf(after) = BookOf(state)
    BY <2>2, <2>3 DEF Counted, Keeping, StateTypes, BookOf
  <2>5. QED
    BY <2>1, <2>3, <2>4 DEF Typed
<1>4. \A r \in Symbols : SameBook(r) => SameBook(r)'
  BY <1>2, <1>3 DEF SameBook
<1>5. \A r \in Symbols : SameBook(r) \/ r \in changed
  BY <1>1 DEF TellInv, InMessage, Noticed, Changing
<1>6. \A r : Mentioned(r) <=> Mentioned(r)'
  BY <1>2 DEF Mentioned
<1>7. \A r \in changed \cup feed.todo : Mentioned(r)
  BY <1>1 DEF TellInv, InMessage
<1>8. QED
  BY <1>1, <1>2, <1>4, <1>5, <1>6, <1>7 DEF TellInv, Noticed

(* What happens to the book of the symbol during an entry.                 *)
LEMMA UpdateBookBooks ==
  ASSUME Shapes, Typed, UpdateBook
  PROVE  /\ \A s \in Symbols \ {feed.symbol} : states'[s] = states[s]
         /\ Booked.status # "SUCCESSFULL" =>
              \/ BookOf(states'[feed.symbol]) = BookOf(State)
              \/ TakenForUnused(State.ask)
<1>1. InEntries /\ feed.symbol \in Symbols
  BY DEF UpdateBook, Shapes
<1>2. PICK result : result = Booked
  OBVIOUS
<1>3. PICK now : now = IF Entry.type = "OFFER" THEN [State EXCEPT !.ask = result.side]
                       ELSE [State EXCEPT !.bid = result.side]
  OBVIOUS
<1>4. PICK after : after = IF IsUpdate THEN [now EXCEPT !.lastRptSeq = Entry.rptSeq] ELSE now
  OBVIOUS
<1>5. states' = [states EXCEPT ![feed.symbol] = after]
  BY <1>2, <1>3, <1>4 DEF UpdateBook
<1>6. State \in StateTypes
  BY <1>1 DEF State, Typed
<1>7. /\ after.bid = IF Entry.type = "OFFER" THEN State.bid ELSE result.side
      /\ after.ask = IF Entry.type = "OFFER" THEN result.side ELSE State.ask
  BY <1>3, <1>4, <1>6 DEF StateTypes
<1>8. Entry.price \in Nat /\ Entry.volume \in Nat
  BY <1>1, EntryFacts DEF EntryTypes
<1>9. State.bid \in Sides /\ State.ask \in Sides
  BY <1>6 DEF StateTypes
<1>10. result.status # "SUCCESSFULL" =>
         \/ BookOf(after) = BookOf(State) \/ TakenForUnused(State.ask)
  BY <1>2, <1>7, <1>8, <1>9, OutOfRangeKeeps DEF Booked, BookOf
<1>11. states'[feed.symbol] = after /\ \A s \in Symbols \ {feed.symbol} : states'[s] = states[s]
  BY <1>1, <1>5 DEF Shapes
<1>12. QED
  BY <1>2, <1>10, <1>11

LEMMA EntryKeepsBefore ==
  ASSUME Shapes, UpdateBook \/ SkipOldUpdate \/ MissUpdate
  PROVE  feed'.before = feed.before /\ changed' = changed
BY DEF UpdateBook, SkipOldUpdate, MissUpdate, Shapes, FeedFields, Idle

LEMMA UpdateBookTells ==
  ASSUME Shapes, Typed, FeedInv, TellInv, UpdateBook PROVE TellInv'
<1>1. SUFFICES ASSUME InMessage' PROVE TellInv'
  BY DEF TellInv
<1>2. /\ feed.at = "entries" /\ feed.symbol \in Symbols
      /\ feed.call.status \in Statuses
  BY CallFacts DEF UpdateBook, InEntries, FeedAt, Shapes
<1>3. /\ feed'.at = feed.at /\ feed'.symbol = feed.symbol /\ feed'.todo = feed.todo
      /\ feed'.message = feed.message /\ feed'.call.kind = feed.call.kind
      /\ feed'.call.status = Status(feed.call.status, Booked.status)
      /\ feed'.before = feed.before /\ changed' = changed
  BY UpdateBookFeed, EntryKeepsBefore
<1>4. /\ InMessage
      /\ \A s \in Symbols : SameBook(s) \/ Noticed(s)
      /\ \A s \in changed \cup feed.todo : Mentioned(s)
      /\ Mentioned(feed.symbol)
  BY <1>1, <1>2, <1>3 DEF InMessage, TellInv
<1>5. ASSUME NEW s \in Symbols PROVE SameBook(s)' \/ Noticed(s)'
  <2>1. CASE s # feed.symbol
    BY <1>3, <1>4, <2>1, UpdateBookBooks DEF SameBook, Noticed, Changing
  <2>2. CASE s = feed.symbol
    <3>1. CASE feed'.call.status = "SUCCESSFULL"
      BY <1>2, <1>3, <2>2, <3>1 DEF Noticed, Changing
    <3>2. CASE feed'.call.status # "SUCCESSFULL" /\ s \notin changed
                 /\ ~TakenForUnused(feed.before[s].ask)
      <4>1. feed.call.status # "SUCCESSFULL" /\ Booked.status # "SUCCESSFULL"
        BY <1>3, <3>2 DEF Status
      <4>2. feed.call.entries # << >>
        BY DEF UpdateBook, InEntries
      <4>3. feed.call.status # "MISSING_UPDATE"
        BY <1>2, <1>4, <4>2 DEF FeedInv, UpdateCall, IsUpdate, InMessage
      <4>4. BookOf(State) = feed.before[s]
        BY <1>4, <2>2, <3>2, <4>1, <4>3 DEF SameBook, Noticed, State
      <4>5. State.ask = feed.before[s].ask
        BY <4>4 DEF BookOf
      <4>6. QED
        BY <1>3, <2>2, <3>2, <4>1, <4>4, <4>5, UpdateBookBooks DEF SameBook
    <3>3. QED
      BY <1>3, <3>1, <3>2 DEF SameBook, Noticed
  <2>3. QED
    BY <2>1, <2>2
<1>6. QED
  BY <1>3, <1>4, <1>5 DEF TellInv, Mentioned

LEMMA SkipTells ==
  ASSUME Shapes, Typed, TellInv, SkipOldUpdate \/ MissUpdate PROVE TellInv'
<1>1. /\ feed'.at = feed.at /\ feed'.symbol = feed.symbol /\ feed'.todo = feed.todo
      /\ feed'.message = feed.message /\ feed'.call.kind = feed.call.kind
      /\ feed'.call.status \in {feed.call.status, "MISSING_UPDATE"}
      /\ feed'.before = feed.before /\ changed' = changed /\ states' = states
  BY SkipFeed, MissFeed, EntryKeepsBefore DEF SkipOldUpdate, MissUpdate
<1>2. \A s : (SameBook(s) => SameBook(s)') /\ (Noticed(s) => Noticed(s)')
  BY <1>1 DEF SameBook, Noticed, Changing
<1>3. QED
  BY <1>1, <1>2 DEF TellInv, InMessage, Mentioned

LEMMA UpdateDoneTells == ASSUME Shapes, Typed, TellInv, UpdateDone PROVE TellInv'
<1>1. /\ feed.at = "entries" /\ feed.call.kind = "update" /\ feed.symbol \in Symbols
      /\ feed.call.status # "MISSING_UPDATE"
      /\ changed' = IF feed.call.status = "SUCCESSFULL" THEN changed \cup {feed.symbol}
                    ELSE changed
  BY DEF UpdateDone, AllEntriesDone, FeedAt, Shapes
<1>2. /\ feed'.at = "symbols" /\ feed'.todo = feed.todo
      /\ feed'.message = feed.message /\ feed'.before = feed.before
  BY DEF UpdateDone, Shapes, FeedFields, Idle
<1>3. \A s \in Symbols : BookOf(states'[s]) = BookOf(states[s])
  BY DEF UpdateDone, AfterUpdate, Counted, BookOf, Shapes, StateFields, NoState
<1>4. /\ \A s \in Symbols : SameBook(s) \/ Noticed(s)
      /\ \A s \in changed \cup feed.todo : Mentioned(s)
      /\ Mentioned(feed.symbol)
  BY <1>1 DEF InMessage, TellInv
<1>5. ASSUME NEW s \in Symbols PROVE SameBook(s)' \/ s \in changed'
  BY <1>1, <1>2, <1>3, <1>4 DEF SameBook, Noticed, Changing
<1>6. \A s : Mentioned(s) <=> Mentioned(s)'
  BY <1>2 DEF Mentioned
<1>7. QED
  BY <1>1, <1>2, <1>4, <1>5, <1>6 DEF TellInv, Noticed

LEMMA NextTells == ASSUME Inv, TellInv, [Next]_vars PROVE TellInv'
<1>0. Shapes /\ Typed /\ FeedInv
  BY DEF Inv, ReadInv
<1>1. CASE \/ LogonSuccess \/ UpdateMissed \/ ReplayDone \/ NotifyMarketChanges
           \/ SnapshotDone \/ Replay \/ ReplayIntoItself
           \/ \E s \in Symbols, quotes \in Snapshots :
                \E number \in 0 .. published[s] : Snapshot(s, quotes, number)
  BY <1>0, <1>1, OutsideTells
<1>2. ASSUME NEW news \in Incremental, NEW skipped \in 0 .. MaxSkipped, MarketData(news, skipped)
      PROVE  TellInv'
  BY <1>0, <1>2, MarketDataTells
<1>3. ASSUME NEW s \in Symbols, AddUpdateNoSnapshot(s) \/ AddUpdate(s) PROVE TellInv'
  BY <1>0, <1>3, TurnTells
<1>4. CASE UpdateBook
  BY <1>0, <1>4, UpdateBookTells
<1>5. CASE SkipOldUpdate \/ MissUpdate
  BY <1>0, <1>5, SkipTells
<1>6. CASE UpdateDone
  BY <1>0, <1>6, UpdateDoneTells
<1>7. CASE \/ UpdateTrade \/ SnapshotOfLost \/ ReplayOutOfRoom \/ ReadOfLost
           \/ (\E s \in Symbols : HandleEvent(s))
           \/ LoadCount \/ CopyBids \/ CopyAsks \/ LoadCountAgain \/ UNCHANGED vars
  <2>1. UNCHANGED feedVars
    BY <1>7 DEF UpdateTrade, SnapshotOfLost, ReplayOutOfRoom, ReadOfLost, Ends, HandleEvent,
                LoadCount, CopyBids, CopyAsks, LoadCountAgain, vars
  <2>2. QED
    BY <2>1, FeedRestsTells
<1>8. QED
  BY <1>1, <1>2, <1>3, <1>4, <1>5, <1>6, <1>7 DEF Next

(* FeedHandler tells the strategies of every symbol whose book a message   *)
(* changed, whichever of its entries are booked, late or out of range, and *)
(* of none it says nothing of; apart from offers in a window that begins   *)
(* at the price which stands for none.                                     *)
THEOREM TellsOfChanges == Spec => []TellsWhatChanged
<1>1. Init => TellInv
  BY DEF Init, Idle, TellInv, InMessage
<1>2. QED
  BY <1>1, InitInv, NextInv, NextTells, TellInvTells, PTL DEF Spec

=============================================================================
