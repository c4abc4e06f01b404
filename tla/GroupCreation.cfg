\* Two members, two groups of one initiator, which may have either threshold.
SPECIFICATION Spec
CONSTANTS
  alice = alice
  bob = bob
  g1 = g1
  g2 = g2
  Members = {alice, bob}
  Names = {g1, g2}
  Thresholds = {1, 2}
  Initiator <- OneInitiator
  MaxAsks = 2
  MaxFaults = 1
INVARIANTS
  TypeOK
  QueuedUntilTracked
PROPERTIES
  QueuedGroupIsMade
  CompleteGroupIsShown
CHECK_DEADLOCK FALSE
