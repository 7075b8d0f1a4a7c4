SPECIFICATION TerminalSpec
CONSTANTS
  SHELL_COMMAND_MAX_ARGS = 3
  SHELL_COMMAND_ARG_MAX = 2
  SHELL_LINE_MAX = 10
  SHELL_TEXT_CAPACITY = 11
  OverflowMod = 2
  Controls = {"esc"}
  RAMFS_MAX_FILES = 1
  RAMFS_NAME_MAX = 2
  RAMFS_FILE_MAX_BYTES = 4
  NULL = NULL
  UserLines <- MCUserLines
  VGA_WIDTH = 4
  VGA_HEIGHT = 3
INVARIANTS
  LineOnScreen
  ParseExact
PROPERTIES
  ImplementsTape
