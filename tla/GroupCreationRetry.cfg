\* One group of two members, which may have either threshold.
SPECIFICATION Spec
CONSTANTS
  alice = alice
  bob = bob
  g1 = g1
  g2 = g2
  Members = {alice, bob}
  Names = {g1}
  Thresholds = {1, 2}
  Initiator <- OneInitiator
  MaxAsks = 2
  MaxFaults = 1
PROPERTIES
  QueueDrains
CHECK_DEADLOCK FALSE
