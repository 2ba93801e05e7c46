SPECIFICATION FairSpec
CONSTANTS
  p1 = p1
  handshake = handshake
  data = data
  sender1 = sender1
  sender2 = sender2
  Forwarder = Forwarder
  None = None
  Peers = {p1}
  Streams = {handshake, data}
  Encrypted = {data}
  PeerOf <- MCPeerOf
  Senders = {sender1, sender2}
  Callers <- MCCallers
  NonceExhaustionWarningThreshold = 2
  MaxTrackers = 2
  MessageBufferSize = 2
  MaxMessages = 3
INVARIANTS
  WarnedOnce
  CountsEveryMessage
  LossesReported
PROPERTIES
  ImplementsLossyFifo
  MessagesCloses
CHECK_DEADLOCK FALSE
