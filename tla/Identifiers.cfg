\* Two names, one more to rename to, and two identifiers: one name may get both.
SPECIFICATION Spec
CONSTANTS
  Names = {n1, n2}
  NewNames = {n3}
  MaxIds = 2
  MaxUpdates = 1
  MaxFaults = 1
INVARIANTS
  TypeOK
  QueuedUntilMade
  OneIdentifierPerName
  DeletedStaysDeleted
  PendingIsUnderWay
  NamesAgree
SYMMETRY Symmetry
CHECK_DEADLOCK FALSE
