SPECIFICATION Spec
CONSTANTS
  None = None
  Jobs = {j1, j2}
  Engines = {e1, e2}
  Capable = {e1}
  MaxAttempts = 1
  HasReducer = TRUE
  Lossy = TRUE
  MaxClaims = 1
INVARIANTS
  VerifiedIsReflected
