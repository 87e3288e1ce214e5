SPECIFICATION Spec
CONSTANTS
  ProcessLimit = 4
  Quantum = 2
  MaxDelay = 2
  Spawners = {0}
  Results = {"woken"}
PROPERTIES ReadyTasksRun TimedWaitsEnd
