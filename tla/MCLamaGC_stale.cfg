SPECIFICATION Spec
CONSTANTS
  WORD = 65536
  STACK_MAX_SIZE = 6
  MINIMUM_HEAP_CAPACITY = 10
  EXTRA_ROOM_HEAP_COEFFICIENT = 2
  PAGE = 10
  Pages <- MCTwoPages
  RESERVED = 2
  Programs <- MCDepths
  IDS <- MCIds
  INTS <- MCInts
  PAYLOAD = 4
INVARIANTS NeverCrashes
