\* Two writers and one reader: what the stale stores of writeIndex_ do.
SPECIFICATION FairSpec
CONSTANTS
  Writers = {w1, w2}
  Readers = {r1}
  Size = 3
  MaxItems = 3
INVARIANTS NeverWedged
