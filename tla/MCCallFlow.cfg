SPECIFICATION Spec
CONSTANTS
  alice = alice
  bob = bob
  agent1 = agent1
  agent2 = agent2
  ivr = ivr
  none = none
  Users <- MCUsers
  Agents <- MCAgents
  Ivr = ivr
  CallIds <- MCCallIds
  None = none
  MaxDigits = 2
  MaxTrouble = 0
  Hasty = FALSE
CHECK_DEADLOCK FALSE
INVARIANTS
  TypeOK
PROPERTIES
  KeepsPromise
  FailureGoesToIvr
  AgentByeConfirmedLast
  RingingAgentIsCancelled
  CallForgotten
