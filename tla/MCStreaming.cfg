SPECIFICATION FairSpec
CONSTANTS
  Player = {p1, p2}
  Dimension = {1, 2}
  Overworld = 1
  Low = 0
  High = 2
  Column <- MCColumn
  SpawnColumn = 0
  SpawnRadius = 0
  InitialRadius = 0
  ServerView = 1
  ClientView = {0}
  Cap = 1
  Budget = {1}
  None = None
  MaxEdits = 2
  MaxMoves = 2
INVARIANTS CopiesTrue NothingForgotten
PROPERTY Streamed
