\* Two operations, one saved twice; one crash, error or disconnection.
SPECIFICATION Spec
CONSTANTS
  Ops = {o1, o2}
  MaxSaves = 3
  MaxFaults = 1
INVARIANTS
  TypeOK
  LiveMirrorsStored
PROPERTIES
  OnlyHandledLeave
  DoneOperationLeaves
