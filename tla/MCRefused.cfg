SPECIFICATION Spec
CONSTANTS
  Capacity = 2
  MessageCount = 1
  Auth = {1}
  Callbacks = {c1}
  MaxResponseErrors = 1
  MaxDeleteErrors = 0
INVARIANT FallbackGuaranteed
