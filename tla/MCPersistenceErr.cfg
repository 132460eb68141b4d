CONSTANTS
  Chunks = {a, b, c}
  MaxRun = 2
  MaxSector = 14
  KillMidWrite = FALSE
  MaxFailures = 1
  Sizes = {1, 2}
  SaveInterval = 1
  MaxSaves = 0
  Versions = 5
  MaxEdits = 5
  MaxStops = 1
SPECIFICATION Spec
SYMMETRY Symmetry
INVARIANT OwnPayload
CHECK_DEADLOCK FALSE
