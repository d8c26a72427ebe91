SPECIFICATION Spec
CONSTANTS
  Capacity = 2
  Producers = {p1, p2}
  Consumers = {c1, c2}
  MaxPosition = 4
INVARIANTS
  SlotExclusive
  QueueInv
PROPERTIES
  FullIsReal
  EmptyIsReal
  RingSpec
