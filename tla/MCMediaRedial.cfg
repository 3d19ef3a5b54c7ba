SPECIFICATION Spec
CONSTANTS
  receiver = receiver
  first = first
  again = again
  other = other
  none = none
  opus = opus
  pcmu = pcmu
  Receiver = receiver
  Clients <- TwiceClients
  Slots <- TwiceSlots
  Calls <- TwiceCalls
  RemoteHost <- TwiceHost
  RemotePort <- TwicePort
  MaxSessions = 2
  Codecs <- TwiceCodecs
  Supported <- MCCodecs
  LocalPorts <- MCLocalPorts
  MaxKeys = 2
  None = none
  Listening <- TwiceCalls
  MaxUpdates = 1
  Prompt = TRUE
CHECK_DEADLOCK FALSE
INVARIANTS
  KeyReadOnce
PROPERTIES
  EveryRequestAnswered
  ClosedIsReleased
