SPECIFICATION Spec
CONSTANTS
  WORD = 65536
  STACK_MAX_SIZE = 6
  MINIMUM_HEAP_CAPACITY = 8
  EXTRA_ROOM_HEAP_COEFFICIENT = 2
  PAGE = 8
  Pages <- MCFourPages
  RESERVED = 3
  Programs <- MCFirstGlobal
  IDS <- MCIds
  INTS <- MCInts
  PAYLOAD = 4
INVARIANTS RootsDenoteObjects
