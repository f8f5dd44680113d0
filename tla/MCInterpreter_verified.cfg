SPECIFICATION Spec
CONSTANTS
  HALF = 128
  MAX_SEXP_TAGLEN = 1
  chars <- MCchars
  STACK_MAX_SIZE = 10
  CALL_STACK_MAX_SIZE = 4
  VERIFIED = TRUE
  Programs <- MCAnnotated
  Inputs <- MCDeeperInputs
  Printed <- MCPrinted
  Garbage <- MCGarbage
INVARIANTS StackSafe Disciplined
PROPERTIES ImplementsMachine
