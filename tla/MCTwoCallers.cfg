SPECIFICATION Spec
CONSTANTS
  alice = alice
  bob = bob
  agent1 = agent1
  agent2 = agent2
  ivr = ivr
  none = none
  Users <- TwoUsers
  Agents <- TwoAgents
  Ivr = ivr
  CallIds <- TwoCallIds
  None = none
  MaxDigits = 2
  MaxTrouble = 0
  Hasty = FALSE
SYMMETRY TwoCallers
CHECK_DEADLOCK FALSE
INVARIANTS
  CrashNeedsCrossing
  HearsOutcome
PROPERTIES
  KeepsPromise
