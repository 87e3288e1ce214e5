SPECIFICATION Spec
CONSTANTS
  ProcessLimit = 2
  SlotsPerProcess = 2
  Generations = 5
  SurfaceLimit = 1
  ArenaPages = 1
  MapSlots = 1
  MapPages = 1
  Sizes = {1}
  Services = {"display", "factory"}
  Reaches = {}
INVARIANTS
  KeptHandlesAreDead
CHECK_DEADLOCK FALSE
