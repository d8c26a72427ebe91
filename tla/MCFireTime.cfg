SPECIFICATION Spec
CONSTANTS
  Modulus = 16
  Numer = 5
  Denom = 3
INVARIANTS
  FiresInWindow
  MarginSurvivesConversion
