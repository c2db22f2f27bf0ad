\* One component at a time, each with the fairness that its module justifies.
SPECIFICATION ProgressSpec
CONSTANTS
  Chain <- AgentChain
  Raws <- Posted
  MaxPosted = 1
  MaxTries = 2
INVARIANTS ProgressTypeOK IdentifiersAreSound ExchangesAreSound HandlingIsSound
PROPERTIES EveryEmitEnds DeletionCompletes MessagesAreDone UnpackedIsKept
CHECK_DEADLOCK FALSE
