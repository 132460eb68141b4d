SPECIFICATION Spec
CONSTANTS
  Player = {p, q} Cell = {x} Dim = {over, nether} Start = over
  Block = {stone} Tool = {wand} Air = Air None = None
  Creative = FALSE Instant = FALSE MaxActs = 5
INVARIANT UsedAsHeld
CHECK_DEADLOCK FALSE
