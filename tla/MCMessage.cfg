SPECIFICATION Spec
CONSTANTS
  Threads = {t1, t2}
  Capacity = 2
  MessageCount = 3
  Streams <- ManyStreams
  StrictVersion = FALSE
  StrictCache = TRUE
  MaxLost = 1
CHECK_DEADLOCK FALSE
SYMMETRY ThreadSymmetry
INVARIANTS
  ObjectInv
  NothingReadAfterRelease
  GapsAreLostMessages
  ViewsAreTyped
PROPERTIES
  AnswersItsMessageUnlessReleased
  ChildLeavesParentAlone
