\* Two notifications, read in batches that overlap; two faults.  The safety
\* properties are proved for every value of the constants.
SPECIFICATION Spec
CONSTANTS
  MaxNotes = 2
  BatchSize = 2
  MaxFaults = 2
INVARIANTS
  TypeOK
  NothingSkipped
  AtMostOneRepeated
PROPERTIES
  OnlyProcessedLeaveQueue
  ImplementsDelivery
  EveryNotificationProcessed
  FailedQueueDrains
