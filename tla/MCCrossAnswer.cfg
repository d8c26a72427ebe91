SPECIFICATION Spec
CONSTANTS
  Threads = {t1, t2}
  Capacity = 2
  MessageCount = 3
  Streams <- OneStream
  StrictVersion = FALSE
  StrictCache = FALSE
  MaxLost = 0
CHECK_DEADLOCK FALSE
PROPERTY AnswersItsOwnMessage
