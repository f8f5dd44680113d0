SPECIFICATION Spec
CONSTANTS
  HALF = 128
  MAX_SEXP_TAGLEN = 1
  chars <- MCchars
  STACK_MAX_SIZE = 14
  CALL_STACK_MAX_SIZE = 4
  VERIFIED = FALSE
  Programs <- MCRunnable
  Inputs <- MCInputs
  Printed <- MCPrinted
  Garbage <- MCGarbage
INVARIANTS TypeOK Balanced SlotsChecked ClosureKept Disciplined
PROPERTIES CallerUntouched ImplementsMachine
