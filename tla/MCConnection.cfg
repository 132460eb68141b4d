CONSTANTS
  Clients = {c1, c2}
  Capacity = 1
  PacketLimit = 0
  TimeBudget = TRUE
  MaxReceived = 2
  MaxSends = 2
SPECIFICATION Spec
SYMMETRY Symmetry
INVARIANT NoGhost
PROPERTIES DropOnlyGone LifecycleSpec
CHECK_DEADLOCK FALSE
