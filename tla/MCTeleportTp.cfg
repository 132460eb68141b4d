CONSTANTS
  home = home
  away = away
  below = below
  k1 = k1
  k2 = k2
  k3 = k3
  Places <- MCPlaces
  Home = home
  Center <- MCCenter
  Near <- MCNear
  Dim <- MCDim
  NoTeleport = NoTeleport
  OwnBudget = 0
  Budgets <- MCBudgets
  Timeout = 4
  Ordered = TRUE
  WithTp = TRUE
  MaxTeleports = 2
  MaxQueue = 2
SPECIFICATION Spec
PROPERTY ConfirmedThere
CHECK_DEADLOCK FALSE
