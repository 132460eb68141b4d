CONSTANTS
  Chunks = {a, b, c}
  MaxRun = 2
  MaxSector = 14
  KillMidWrite = FALSE
  MaxFailures = 0
  Sizes = {1, 2, 3}
  SaveInterval = 1
  MaxSaves = 1
  Versions = 5
  MaxEdits = 5
  MaxStops = 1
SPECIFICATION Spec
SYMMETRY Symmetry
INVARIANTS NoOverlap SavedSurvives CleanIsStored
PROPERTIES ExitKeepsAll StoreSpec
CHECK_DEADLOCK FALSE
