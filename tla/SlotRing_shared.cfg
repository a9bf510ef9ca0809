\* Two writers and two readers on two slots.
SPECIFICATION FairSpec
CONSTANTS
  Writers = {w1, w2}
  Readers = {r1, r2}
  Size = 2
  MaxItems = 2
INVARIANTS TypeOK SlotExclusive MarkedByOwner NothingLost NothingDuplicated
PROPERTIES CallsReturn
