SPECIFICATION Spec
CONSTANTS
  k1 = k1
  None = None
  Keys = {k1}
  Requests = {r1}
  KeyOf <- OneKeyOf
  Budgets = {1, 2}
  Workers = {w1, w2}
  ProviderFences = TRUE
INVARIANTS
  RecoveryIsReconcilable
