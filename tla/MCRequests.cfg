SPECIFICATION RequestsSpec
CONSTANTS
  Capacity = 2
  Callbacks = {c1, c2}
  Payloads = {r1, r2}
  MaxRequests = 5
PROPERTIES
  RefusedOnlyWhenFull
  MissedOnlyUnwritten
  RequestsAreFifo
