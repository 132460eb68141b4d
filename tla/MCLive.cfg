SPECIFICATION SpecLive
CONSTANTS
  home = home away = away below = below k1 = k1 k2 = k2 k3 = k3
  Places <- MCPlaces Home = home Center <- MCCenter Near <- MCNear Dim <- MCDim
  NoTeleport = NoTeleport OwnBudget = 1 Budgets <- MCBudgets Timeout = 2
  Ordered = FALSE WithTp = TRUE MaxTeleports = 2 MaxQueue = 1
  Saved = {a, b} MaxRun = 1 MaxSector = 6 KillMidWrite = FALSE MaxFailures = 1
  Sizes = {1, 2} SaveInterval = 2 MaxSaves = 0 Versions = 1 MaxEdits = 0 MaxStops = 1
  Player = {p1, p2, p3} NoKart = NoKart NoFlight = NoFlight Grid = 2 GatesPerLap = 1 MaxLaps = 1 DefaultLaps = 1
  Countdown = 1 TimeLimit = 1 BuildPeriod = 1
  Circuit <- MCCircuits Track <- MCChunks
INVARIANTS SeatedOrFree CircuitWhole
PROPERTIES RoundEnds PlayerReleased EverySaved
CHECK_DEADLOCK FALSE
