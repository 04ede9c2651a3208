SPECIFICATION Spec
CONSTANTS
  SeqMod = 3
  Lifetime = 2
  ConnectAttempts = 1
  TransmitAttempts = 2
  MaxChunks = 2
  MaxSessions = 2
  MaxPackets = 6
PROPERTIES
  AnswerIsMine
  StartsClean
  ImplementsExchange
  PacketSettles
CHECK_DEADLOCK FALSE
