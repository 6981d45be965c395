SPECIFICATION FairSpec
CONSTANTS
  None = None
  Jobs = {j1}
  Engines = {e1}
  Capable = {e1}
  MaxAttempts = 3
  HasReducer = TRUE
  Lossy = TRUE
  MaxClaims = 4
PROPERTIES
  ClosedIsFinal
  JobSettles
