SPECIFICATION IpcSpec
CONSTANTS
  ProcessLimit = 4
  Quantum = 1
  MaxDelay = 1
  Spawners = {0, 1}
  Results = {"message", "event", "sent", "error"}
  ChannelLimit = 1
  QueueDepth = 2
  MessageMax = 1
  Names = {"a"}
  Lengths = {1}
  Capacities = {1}
  Places = {"heap"}
  HasPrivate = {}
  InputCapacity = 1
  Users = {2, 3}
INVARIANTS  WaitersSeeEmptyQueues
PROPERTIES  ImplementsPipe
