CONSTANTS
  Clients = {c1, c2}
  Capacity = 1
  PacketLimit = 1
  TimeBudget = FALSE
  MaxReceived = 1
  MaxSends = 2
SPECIFICATION FairSpec
PROPERTY Leaves
CHECK_DEADLOCK FALSE
