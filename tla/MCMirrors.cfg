SPECIFICATION SpecMirrors
CONSTANTS
  ann = ann bob = bob cat = cat
  Clients = {ann, bob, cat} Uuid <- MCUuid Places <- MCPlaces Spawn = 0 Reach = 2 Movers = {cat}
  None = None MaxActs = 4
  Player = {p1, p2}
  Solo = {p3} Mob = {m} Effect = {f, g} Length = {1, 3} Forever = Forever Replaced = FALSE MaxEffectActs = 3
  Attribute = {s} Base = {0, 1} KindBase = 2 Early = FALSE
  Interval = 2 Trip = {1, 2} Colour = {1, 2}
  Cell = {x} Dim = {over, nether} Start = over Block = {stone} Tool = {wand} Air = Air
  Creative = FALSE Instant = FALSE MaxBlockActs = 4
  Dial = {w1, w2} Clock = {over} Wrap = 2 Resend = 2 Hasty = FALSE MaxDialActs = 4
SYMMETRY Symmetry
INVARIANTS RosterMirrored DeltasAddUp EffectsShown AttributesShown EntriesShown PredictionsSettle ClocksShown
