SPECIFICATION Spec
CONSTANTS
  SymbolCount = 3
  WordModulus = 4
  ResetLimit = 0
  PartialResets = TRUE
  Messages <- MCMessages
  Leftovers <- MCLeftovers
INVARIANT NoStaleState
