CONSTANTS
  CounterMod = 3
  MaxBurst = 2
  MaxBytes = 2
SPECIFICATION IrqSpec
INVARIANTS
  SnapshotConsistent
PROPERTIES
  RequestsServed
