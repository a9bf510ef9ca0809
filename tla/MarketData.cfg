\* One strategy reads while the feed takes the messages of the broker.
\* The broker may send nothing more: the system may stop.
SPECIFICATION Spec
CONSTANTS
  Size = 2
  TickSize = 1
  PriceScale = 10000
  NumSymbols = 2
  Incremental <- MCIncremental
  Snapshots <- MCSnapshots
  Room = 2
  MaxMessages = 4
  MaxSkipped = 1
INVARIANTS TypeOK BooksAreWhole NoUpdateForgotten GapIsReal TellsWhatChanged
CHECK_DEADLOCK FALSE
