SPECIFICATION MCSpec
CONSTANTS
  A = A
  B = B
  NoProgress = NoProgress
  MaxStreams = 2
  MaxCalls = 2
  MaxFaults = 1
  InboxSize = 2
ACTION_CONSTRAINT ADialsFirst
INVARIANTS
  HelloInv
  EstablishedMeansPrepared
  NoCrossChainPeers
PROPERTIES
  ConnectSettles
  HandshakesEnd
CHECK_DEADLOCK FALSE
