CONSTANTS
  TASK_FLOW_MESSAGES = 6
  PIT_TEST_TICKS = 3
  TASK_FLOW_BUDGET = 256
  TASK_MAX_TASKS = 8
  CounterMod = 512
  Budgets = {256}
  IPC_MAX_ENDPOINTS = 1
  IPC_QUEUE_DEPTH = 8
  IPC_PAYLOAD_MAX = 2
  SeqMod = 512
  Byte = {0, 1, 2, 3, 4, 5}
  Senders = {0, 1, 2, 3, 4, 5, 6, 7}
  NULL = NULL
  MaxStray = 4
  MaxKeys = 2
SPECIFICATION FlowSpec
INVARIANT MinimumSwitches
