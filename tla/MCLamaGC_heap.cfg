SPECIFICATION Spec
CONSTANTS
  WORD = 65536
  STACK_MAX_SIZE = 6
  MINIMUM_HEAP_CAPACITY = 8
  EXTRA_ROOM_HEAP_COEFFICIENT = 2
  PAGE = 8
  Pages <- MCThreePages
  RESERVED = 3
  Programs <- MCHeap
  IDS <- MCIds
  INTS <- MCInts
  PAYLOAD = 4
INVARIANTS TypeOK MarkedIsReachable MarksClear RoomMade QueueSound RootsDenoteObjects
PROPERTIES ImplementsObjects
