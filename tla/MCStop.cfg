SPECIFICATION FairSpec
CONSTANTS
  u1 = u1
  u2 = u2
  Callers = {u1}
  Workers = {w1}
  Calls <- OneThread
  HandlerCalls = {}
  RaisingHooks = {}
  MessageCount = 1
  BatchMax = 2
  MaxTimeouts = 0
  MaxEvents = 1
  None = None
PROPERTY StopReturns
