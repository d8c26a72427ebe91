SPECIFICATION Spec
CONSTANTS
  u1 = u1
  u2 = u2
  e1 = e1
  e2 = e2
  Users = {u1, u2}
  Creator = u1
  Events = {e1, e2}
  Available = {e1}
  Requests <- RequestsMC
  MaxDeleteErrors = 1
  MaxSpurious = 1
CHECK_DEADLOCK FALSE
INVARIANTS
  ResourceInv
  SubscriptionsAgree
PROPERTIES
  ControlledOnlyWhileOpen
  FunctionsReturn
