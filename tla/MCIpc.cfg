CONSTANTS
  IPC_MAX_ENDPOINTS = 1
  IPC_QUEUE_DEPTH = 2
  IPC_PAYLOAD_MAX = 2
  SeqMod = 4
  Byte = {0, 1}
  Senders = {1}
  NULL = NULL
SPECIFICATION IpcSpec
INVARIANTS
  NoStaleBytes
PROPERTIES
  ImplementsFifo
