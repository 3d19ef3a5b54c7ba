SPECIFICATION TextSpec
CONSTANTS
  alice = alice
  bob = bob
  ivr = ivr
  call1 = call1
  none = none
  Users <- MCUsers
  Ivr = ivr
  CallIds <- MCCallIds
  None = none
  DebugMode = FALSE
  Wire <- MCWire
CHECK_DEADLOCK FALSE
INVARIANTS
  TypeOK
  ReferNeedsDest
  MediaNeedsAnswer
  EveryInviteHasSdp
  OnlyIvrIsCalledDirectly
  TextAgrees
PROPERTIES
  CallerIsFixed
  DestIsKept
  EndsAfterTeardown
