SPECIFICATION Spec
CONSTANTS
  None = None
  MaxId = 2
  Ids = 256
  Families <- All
INVARIANTS InPlace Linked ResolvedOnce AssetIdsUnique
PROPERTY NothingLate
CHECK_DEADLOCK FALSE
