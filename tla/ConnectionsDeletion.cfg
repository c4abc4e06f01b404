\* One connection made once; a deletion that one fault interrupts.
SPECIFICATION Spec
CONSTANTS
  i1 = i1
  i2 = i2
  c1 = c1
  Pairs <- MCPairs
  MaxConnects = 1
  MaxFaults = 1
  Recovers = FALSE
PROPERTIES
  MarkedConnectionIsDeleted
CHECK_DEADLOCK FALSE
