SPECIFICATION Spec
CONSTANTS
  Drivers = 2
  ConfSize = 3
INVARIANTS OutputsWaitForLock
