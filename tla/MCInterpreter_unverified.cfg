SPECIFICATION Spec
CONSTANTS
  HALF = 128
  MAX_SEXP_TAGLEN = 1
  chars <- MCchars
  STACK_MAX_SIZE = 10
  CALL_STACK_MAX_SIZE = 4
  VERIFIED = TRUE
  Programs <- MCUnverified
  Inputs <- MCDeeperInputs
  Printed <- MCPrinted
  Garbage <- MCGarbage
INVARIANT TypeOK
