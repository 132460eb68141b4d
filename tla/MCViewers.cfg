SPECIFICATION SpecViewers
CONSTANTS
  None = None Player = {p1, p2}
  Entity = {e1, e2} Dimension = {1, 2} Column = {0, 1} FreshRiders = FALSE MaxActs = 5
  MaxObjectiveActs = 4 MaxTeamActs = 3 MaxOverlayActs = 3
  Ranked = {o1, o2}
  Name = {1, 2} Slot = {1, 2} Board = {o2} BoardName = 1 BoardSlot = 1
  Text = {t} Line = {x, y} MaxLines = 2 MovesRefused = FALSE Member = {m} Param = {1, 2}
  Solo = {solo} Screenful = {s1, s2} Screen = Screen Full = 4 Transition = {0, 2}
  Overlap = FALSE Handover = FALSE Hasty = FALSE
SYMMETRY Symmetry
INVARIANTS ShownExactly ShownAsIs RidersShown ObjectivesShown RefusedForCause BoardInOrder TeamsShown OverlaysShown
