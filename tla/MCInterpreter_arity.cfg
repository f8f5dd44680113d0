SPECIFICATION Spec
CONSTANTS
  HALF = 128
  MAX_SEXP_TAGLEN = 1
  chars <- MCchars
  STACK_MAX_SIZE = 8
  CALL_STACK_MAX_SIZE = 4
  VERIFIED = TRUE
  Programs <- MCMisapplied
  Inputs <- MCInputs
  Printed <- MCPrinted
  Garbage <- MCGarbage
INVARIANTS ArgumentWasPassed
