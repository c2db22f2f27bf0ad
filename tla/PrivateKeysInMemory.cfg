\* The private key store of data-store-json, with a SecretBox.
CONSTANTS
  Aliases = {a1, a2}
  Secrets = {k1, k2}
  NoSecret = ""
  Callers = {t1, t2}
  InPlace = TRUE
  Exclusive = TRUE
  MaxWrites = 3
  MaxFaults = 0
SPECIFICATION Spec
INVARIANTS EncryptedInMemory
CHECK_DEADLOCK FALSE
