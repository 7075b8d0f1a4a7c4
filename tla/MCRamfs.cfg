CONSTANTS
  RAMFS_MAX_FILES = 2
  RAMFS_NAME_MAX = 2
  RAMFS_FILE_MAX_BYTES = 2
  CallerNames <- MCNames
  CallerData <- MCData
  NULL = NULL
SPECIFICATION Spec
INVARIANTS
  AlwaysValid
  ListingComplete
PROPERTIES
  ImplementsFileStore
