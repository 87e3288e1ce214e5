SPECIFICATION Spec
CONSTANTS
  ProcessLimit = 4
  Quantum = 1
  MaxDelay = 2
  Spawners = {0, 1, 2, 3}
  Results = {"woken"}
INVARIANTS TypeOK OneRunning NoStaleTimeout WaitedChildIsLive BlockedCallsAreDisjoint
PROPERTIES ResumedWithItsAnswer
