SPECIFICATION Spec
CONSTANTS
  MaxGrants = 2
  MaxAdmits = 1
  MaxFaults = 1
PROPERTIES
  AcceptedOfferIsCleared
  PendingIsSettledIfCredentialsArrive
  OwedRevocationIsApplied
CHECK_DEADLOCK FALSE
