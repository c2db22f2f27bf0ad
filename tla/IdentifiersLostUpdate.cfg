\* Two updates of one identifier at a time.
CONSTANTS
  Callers = {t1, t2}
  Aliases = {a1}
  Services = {s1, s2}
  None = None
  Operations = {"create", "addService"}
  Exclusive = FALSE
  MaxKeys = 1
  MaxListed = 1
  MaxFaults = 0
SPECIFICATION Spec
INVARIANTS AcknowledgedUpdatesStay
CHECK_DEADLOCK FALSE
