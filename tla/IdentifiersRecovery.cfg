\* One identifier, renamed once, and one fault.
SPECIFICATION Spec
CONSTANTS
  Names = {n1}
  NewNames = {n2}
  MaxIds = 1
  MaxUpdates = 1
  MaxFaults = 1
INVARIANTS
  DeletedIsNotRecovered
CHECK_DEADLOCK FALSE
