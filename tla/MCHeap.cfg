CONSTANTS
  KHEAP_ARENA_SIZE = 32
  KHEAP_ALIGNMENT = 2
  HeaderSize = 4
  SIZE_MAX = 63
  Sizes = {0, 1, 2, 5, 8, 13, 22, 28, 62, 63}
SPECIFICATION Spec
INVARIANTS
  HeapValid
  BlocksMatchCallers
  AllocationsDisjoint
  StatsExact
