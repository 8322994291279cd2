SPECIFICATION Spec
CONSTANTS
  Items = {1, 2, 3}
  Batches = {1}
  BatchOf <- OneBatch
  Graded = {}
  Cards = {k1, k2}
  NoCard = NoCard
  Conditions = {nm}
  NoSku = NoSku
  Looks <- Known
  Labelled = {1}
  Prefixes = {"A"}
  TypedSkus <- NoTyped
  Starts = {0}
  Sessions = {s1, s2}
  Budget <- LinksBudget
  MayDie = {"detect"}
  MaxNext = 4
INVARIANTS DupLinksLeadBack NothingLostOrDoubled
CHECK_DEADLOCK FALSE
SYMMETRY Alike
