CONSTANTS
  PAGE_DIRECTORY_ENTRIES = 6
  PAGE_TABLE_ENTRIES = 2
  PAGE_TABLE_COUNT = 3
  IDENTITY_TABLE_COUNT = 1
  VMM_PAGE_SIZE = 2
  VMM_DYNAMIC_START = 8
  VMM_DYNAMIC_END = 20
  MapRequests <- MCMapRequests
  UnmapRequests <- MCUnmapRequests
  TlbSize = 1
SPECIFICATION Spec
INVARIANTS
  TranslateMatchesHardware
  TablePoolExact
  NoStaleTranslation
PROPERTIES
  ImplementsAddressSpace
