SPECIFICATION Spec
CONSTANTS
  SymbolCount = 3
  WordModulus = 4
  ResetLimit = 1
  PartialResets = FALSE
  Messages <- MCMessages
  Leftovers <- MCLeftovers
INVARIANTS
  NoStaleState
PROPERTIES
  ImplementsRiskPolicy
  ClearingEnds
