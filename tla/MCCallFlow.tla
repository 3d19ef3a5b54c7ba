----------------------------- MODULE MCCallFlow -----------------------------
(***************************************************************************)
(* CallFlow with one caller and two agents: two is what it takes for a     *)
(* second referral to ring another phone than the first.  And with two     *)
(* callers and one agent, whom both may want: two is what it takes for one *)
(* call to disturb another, in the IVR's map or at the agent's phone.      *)
(***************************************************************************)
EXTENDS CallFlow

CONSTANTS alice, bob, agent1, agent2, ivr, none

MCUsers == {alice, agent1, agent2}
MCAgents == {agent1, agent2}
MCCallIds == {alice}

TwoUsers == {alice, bob, agent1}
TwoAgents == {agent1}
TwoCallIds == {alice, bob}

\* Either caller may be the first.
TwoCallers == Permutations({alice, bob})
=============================================================================
