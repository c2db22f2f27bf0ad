\* A request of two claims, of which no credential has both.
CONSTANTS
  Credentials <- MCCredentials
  Claims <- MCClaims
  Subjects = {"me"}
  Containing <- Alone
  MaxClaims = 2
  MaxHeld = 2
SPECIFICATION Spec
INVARIANTS EveryClaimIsGathered
CHECK_DEADLOCK FALSE
