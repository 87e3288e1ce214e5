SPECIFICATION Spec
CONSTANTS
  ProcessLimit = 3
  SlotsPerProcess = 2
  Generations = 2
  SurfaceLimit = 2
  ArenaPages = 2
  MapSlots = 1
  MapPages = 2
  Sizes = {1, 2}
  Services = {"factory"}
  Reaches = {2}
INVARIANTS
  ReferencesAreCounted
  MappingsShowTheirSurface
  ExtentsAreDisjoint
  NoResidue
  OneWriter
PROPERTIES
  LivePixelsStay
CHECK_DEADLOCK FALSE
