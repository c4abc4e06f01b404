\* Both pollers, two calls, and three faults.
SPECIFICATION Spec
CONSTANTS
  Pollers = {"notifications", "operations"}
  Calls = {"call1", "call2"}
  MaxFaults = 3
INVARIANTS
  TypeOK
  RecoveryIsResumed
  OnlineOnceLoaded
PROPERTIES
  ComesOnlineInTheEnd
CHECK_DEADLOCK FALSE
