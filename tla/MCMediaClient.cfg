SPECIFICATION Spec
CONSTANTS
  receiver = receiver
  first = first
  again = again
  other = other
  none = none
  opus = opus
  pcmu = pcmu
  Receiver = receiver
  Clients <- MCClients
  Slots <- MCSlots
  Calls <- MCCalls
  RemoteHost <- MCRemoteHost
  RemotePort <- MCRemotePort
  MaxSessions = 2
  Codecs <- MCCodecs
  Supported <- MCCodecs
  LocalPorts <- MCLocalPorts
  MaxKeys = 1
  None = none
  Listening <- MCListening
  MaxUpdates = 1
  Prompt = TRUE
SYMMETRY OnePhone
CHECK_DEADLOCK FALSE
INVARIANTS
  OpenIsServed
  ReachesOwnSession
  LimitsHold
  HeldIsNotClosed
  TypeOK
  RaceNeedsTwoCalls
