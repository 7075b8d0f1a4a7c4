SPECIFICATION Spec
CONSTANTS
  SHELL_COMMAND_MAX_ARGS = 3
  SHELL_COMMAND_ARG_MAX = 2
  SHELL_LINE_MAX = 11
  SHELL_TEXT_CAPACITY = 12
  OverflowMod = 2
  Controls = {"esc"}
  RAMFS_MAX_FILES = 2
  RAMFS_NAME_MAX = 2
  RAMFS_FILE_MAX_BYTES = 5
  NULL = NULL
  UserLines <- MCUserLines
INVARIANTS
  TextNormal
PROPERTIES
  ImplementsSession
