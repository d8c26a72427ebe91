SPECIFICATION FairSpec
CONSTANTS
  u1 = u1
  u2 = u2
  Callers = {u1, u2}
  Workers = {w1}
  Calls <- TwoThreads
  HandlerCalls = {"close"}
  RaisingHooks = {"error", "timeout"}
  MessageCount = 2
  BatchMax = 2
  MaxTimeouts = 1
  MaxEvents = 2
  None = None
INVARIANT ReportingInv
PROPERTIES
  AbandonedOnlyByException
  DeferredCloseHappens
  
  ClosedUnlessJoinRaised
