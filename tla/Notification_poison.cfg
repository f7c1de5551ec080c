CONSTANTS
  None = None
  Channels <- LogAndMail
  MaxMsgs = 1
  Malformed <- NoneMalformed
  MaxDeliver = 2
  MaxBuffer = 1
  MaxCrashes = 2
SPECIFICATION Spec
INVARIANT OnlyPoisonDropped
CHECK_DEADLOCK FALSE
