SPECIFICATION Spec
CONSTANTS
  MaxGrants = 2
  MaxAdmits = 1
  MaxFaults = 1
INVARIANTS
  RevocationIsNotLost
CHECK_DEADLOCK FALSE
