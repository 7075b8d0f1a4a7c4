CONSTANTS
  FastKeys <- MCFastKeys
  SlowKeys <- MCSlowKeys
  KEYBOARD_QUEUE_CAPACITY = 2
  SequenceMod = 4
  WireMax = 2
SPECIFICATION Spec
INVARIANTS
  DecodedAsTyped
PROPERTIES
  ImplementsCharFifo
  CharactersHandled
