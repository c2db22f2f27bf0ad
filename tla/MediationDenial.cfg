\* A grant followed by a denial of the same mediator.
CONSTANTS
  NONE = NONE
  DIDs = {alice, bob}
  Mediator = med
  Others = {other}
  DefaultGrantAll = TRUE
  Workers = {w1}
  MaxRequests = 1
  MaxArrivals = 1
  MaxChanges = 0
  MaxGrants = 2
  MaxFaults = 0
SPECIFICATION Spec
PROPERTIES DenialRemovesService
CHECK_DEADLOCK FALSE
