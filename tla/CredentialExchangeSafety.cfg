SPECIFICATION Spec
CONSTANTS
  MaxGrants = 2
  MaxAdmits = 2
  MaxFaults = 1
INVARIANTS
  TypeOK
  AcceptedHasOperation
  OneNotePerCredential
  PendingHasAWayOutUntilRevoked
PROPERTIES
  RevokedStaysRevokedWithoutFaults
  DeliveredAtLeastOnce
CHECK_DEADLOCK FALSE
