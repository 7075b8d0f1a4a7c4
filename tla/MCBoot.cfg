SPECIFICATION BootSpec
CONSTANTS
  UINT32_MAX = 31
  UINT64_MAX = 63
  AddressMax = 63
  WordSize = 2
  MULTIBOOT_MMAP_MIN_PAYLOAD_SIZE = 3
  InfoSize = 2
  PMM_PAGE_COUNT = 6
  PMM_PAGE_SIZE = 4
  LOW_MEMORY_LIMIT = 4
  KernelStart = 4
  KernelEnd = 10
  VMM_IDENTITY_LIMIT = 24
  MaxMapLength = 13
  BootRecords <- MCBootRecords
INVARIANTS
  WalkExact
  BootOwnership
  OwnershipExact
  CountsMatchBitmaps
PROPERTIES
  BootOutcome
