SPECIFICATION Spec
CONSTANTS
  Items = {1, 2, 3}
  Batches = {1, 2}
  BatchOf <- FirstApart
  Graded = {2}
  Cards = {k1}
  NoCard = NoCard
  Conditions = {nm}
  NoSku = NoSku
  Looks <- KnownOrNot
  Labelled = {}
  Prefixes = {"A", "B"}
  TypedSkus <- NoTyped
  Starts = {0}
  Sessions = {s1}
  Budget <- SerialBudget
  MayDie = {"commit"}
  MaxNext = 4
PROPERTY AllocatorSpec
CHECK_DEADLOCK FALSE
