\* Concurrent handlers of a mediator that denies by default, with policies
\* that change, saves that fail, and a stranger that answers unasked.
CONSTANTS
  NONE = NONE
  DIDs = {alice, bob}
  Mediator = med
  Others = {other}
  DefaultGrantAll = FALSE
  Workers = {w1, w2}
  MaxRequests = 2
  MaxArrivals = 2
  MaxChanges = 1
  MaxGrants = 1
  MaxFaults = 1
SPECIFICATION Spec
SYMMETRY Symmetry
INVARIANTS TypeOK ServicesWereRequested AnswersAreLawful
CHECK_DEADLOCK FALSE
