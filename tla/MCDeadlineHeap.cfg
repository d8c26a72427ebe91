SPECIFICATION Spec
CONSTANTS
  Capacity = 4
  Positions = {0, 1}
  MaxTime = 2
INVARIANTS
  HeapInv
  RoomForEverySlot
  NothingDueOverlooked
PROPERTY TakesTheFirst
