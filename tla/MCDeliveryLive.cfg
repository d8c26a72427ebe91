SPECIFICATION FairSpec
CONSTANTS
  Capacity = 2
  MessageCount = 3
  Auth = {1, 3}
  Callbacks = {c1}
  MaxResponseErrors = 0
  MaxDeleteErrors = 1
INVARIANTS
  CloseRunsAlone
  RefsBalance
PROPERTIES
  EventuallyAnswered
  CloseCompletes
