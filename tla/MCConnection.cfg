\* Payloads that are empty, as long as the limit, and one byte longer.
CONSTANTS
  Length = {0, 1, 2}
  Limit = 1
  NoLimit = 2
  MaxKeepAlive = 2
  MaxErrors = 1
SPECIFICATION FairSpec
CHECK_DEADLOCK FALSE
INVARIANT ConnectionInv
INVARIANT ServerMemoryBounded
INVARIANT PongIsAnswer
INVARIANT EndLosesNothing
PROPERTY StreamsAreFraming
PROPERTY PingSettles
PROPERTY MessagesReachHandler
