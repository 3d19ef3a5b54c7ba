SPECIFICATION Spec
CONSTANTS
  alice = alice
  bob = bob
  ivr = ivr
  call1 = call1
  call2 = call2
  none = none
  Users <- MCUsers
  Agents <- MCAgents
  Ivr = ivr
  CallIds <- MCCallIds
  None = none
  Wire <- MCWire
CHECK_DEADLOCK FALSE
INVARIANTS
  NoOrphans
  CallHasMedia
PROPERTIES
  ReceiverReturns
