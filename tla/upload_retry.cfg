SPECIFICATION SpecAll
CONSTANTS
  Groups <- CutByBytes
  Chunk = 2
  Cap = 6
  Handlers = {h1, h2}
  NoHandler = NoHandler
  Mishaps = 3
  Presses = 1
  Tabs = {t1, t2}
  Values = {"empty", "a"}
  Bodies = {"b1", "b2"}
  Saves = 3
  Limit = 2
  Shortlist = 2
  MaxList = 2
  MaxBytes = 10
  Edits = 3
  Rounds = 2
  Faults = 1
INVARIANTS AllPhotosIn SettledTrue SavedIsUsed ExactFound CardsArrive
CHECK_DEADLOCK FALSE
SYMMETRY Alike
