CONSTANTS
  home = home
  away = away
  below = below
  k1 = k1
  k2 = k2
  k3 = k3
  Places <- MCPlaces
  Home = home
  Center <- MCCenter
  Near <- MCNear
  Dim <- MCDim
  NoTeleport = NoTeleport
  OwnBudget = 0
  Budgets <- MCBudgets
  Timeout = 4
  Ordered = FALSE
  WithTp = FALSE
  MaxTeleports = 2
  MaxQueue = 2
SPECIFICATION Spec
INVARIANTS Restored HeldAtDestination
PROPERTIES SyncLandsLoaded ConfirmedThere
CHECK_DEADLOCK FALSE
