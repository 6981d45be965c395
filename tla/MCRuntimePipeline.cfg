SPECIFICATION Spec
CONSTANTS
  None = None
  Jobs = {j1}
  Engines = {e1, e2}
  Capable = {e1, e2}
  MaxAttempts = 2
  HasReducer = TRUE
  Lossy = TRUE
  MaxClaims = 2
INVARIANTS
  TypeOK
  StateIsEvidenced
  OutcomesAreEvidenced
