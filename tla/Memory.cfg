SPECIFICATION Spec
CONSTANTS
  Processes = 3
  Booted = 1
  Frames = 4
  Entries = 2
  AnonMax = 3
  LargeMax = 2
  Slots = 2
  WindowPages = 2
INVARIANTS FramesAreConserved SlotTablesAgree AcceptedWritesAreMapped
CHECK_DEADLOCK FALSE
