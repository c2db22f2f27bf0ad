CONSTANTS
  alice = alice
  alice2 = alice2
  aliceKey = aliceKey
  alice2Key = alice2Key
  letter = letter
  circular = circular
  torn = torn
  phone = phone
  laptop = laptop
  tablet = tablet
  w1 = w1
  w2 = w2
  NoKey = NoKey
  DIDs = {alice, alice2}
  Kids = {aliceKey, alice2Key}
  DidOf <- MCDidOf
  Likes <- MCLikes
  Raws = {letter, circular}
  KidsOf <- MCKidsOf
  Unreadable = {}
  Limit = 1
  Sessions = {phone, tablet}
  DidAt <- MCDidAt
  Workers = {w1}
  MaxEntries = 2
  MaxFaults = 1
SPECIFICATION FairSpec

PROPERTIES EveryEntryDequeued
CHECK_DEADLOCK FALSE
