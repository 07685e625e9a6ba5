SPECIFICATION Spec
CONSTANTS
  MaxInits = 1
  Outcomes = {"plugin"}
  Enriches = FALSE
  Nothing = Nothing
INVARIANTS
  ProviderFunctionsKnown
CHECK_DEADLOCK FALSE
