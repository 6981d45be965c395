SPECIFICATION FairSpec
CONSTANTS
  k1 = k1
  None = None
  Keys = {k1}
  Requests = {r1, r2}
  KeyOf <- OneKeyOf
  Budgets = {1, 2, 3}
  Workers = {w1, w2}
  ProviderFences = TRUE
INVARIANTS
  TypeOK
  AppliedAtMostOnce
  RetryOnlyWhenNothingHappened
  PublishedIsVerified
PROPERTIES
  EffectResolves
  FactsAreImmutable
  StaleClaimsAreFenced
  OutcomeSpec
