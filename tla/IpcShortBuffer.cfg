SPECIFICATION IpcSpec
CONSTANTS
  ProcessLimit = 3
  Quantum = 1
  MaxDelay = 0
  Spawners = {0, 1}
  Results = {"message", "event", "sent", "error"}
  ChannelLimit = 1
  QueueDepth = 2
  MessageMax = 2
  Names = {"a"}
  Lengths = {1, 2}
  Capacities = {1, 2}
  Places = {"heap"}
  HasPrivate = {}
  InputCapacity = 1
  Users = {1, 2}
PROPERTY DeliveryWakesTheReceiver
