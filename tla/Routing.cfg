\* Two handlers while mediation is granted, denied and withdrawn.
CONSTANTS
  alice = alice
  bob = bob
  aliceKey1 = aliceKey1
  aliceKey2 = aliceKey2
  bobKey = bobKey
  note = note
  circular = circular
  w1 = w1
  w2 = w2
  NONE = NONE
  DIDs = {alice, bob}
  Kids = {aliceKey1, aliceKey2, bobKey}
  Forwards = {note, circular}
  NextOf <- MCNextOf
  KidsOf <- MCKidsOf
  Workers = {w1, w2}
  MaxClock = 1
  MaxArrivals = 2
  MaxChanges = 2
  MaxFaults = 1
SPECIFICATION Spec
SYMMETRY WorkerSymmetry
INVARIANTS TypeOK FollowsMediation QueuedInFull
CHECK_DEADLOCK FALSE
