CONSTANTS
  None = None
  Channels <- AllChannels
  MaxMsgs = 2
  Malformed <- OneMalformed
  MaxDeliver = 3
  MaxBuffer = 2
  MaxCrashes = 2
SPECIFICATION FairSpec
INVARIANTS TypeOK AckedIsNotified DuplicatesBounded
PROPERTIES MessagesSettle ImplementsDelivery
CHECK_DEADLOCK FALSE
