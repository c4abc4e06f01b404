\* Two connections with one contact, made twice in all; one fault.
SPECIFICATION Spec
CONSTANTS
  i1 = i1
  i2 = i2
  c1 = c1
  Pairs <- MCPairs
  MaxConnects = 2
  MaxFaults = 1
  Recovers = TRUE
INVARIANTS
  TypeOK
  ShownConnectionHasContact
  ConfirmedConnectionIsBackedUp
  DeletedConnectionStaysDeleted
  DeletionIsUnderWay
  PendingConnectionIsResolved
SYMMETRY Symmetry
CHECK_DEADLOCK FALSE
