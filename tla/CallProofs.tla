----------------------------- MODULE CallProofs -----------------------------
(***************************************************************************)
(* Call keeps callers and agents in pairs, for any number of either.       *)
(***************************************************************************)
EXTENDS Call, TLAPS

\* Who hears somebody is in a call, and whoever is heard has taken it.
Heard ==
  /\ \A a \in Agents : agent[a] = "free" <=> serves[a] = None
  /\ \A c \in Callers : hears[c] # None => caller[c] = "talking"
  /\ \A c \in Callers : hears[c] \in Agents =>
       agent[hears[c]] \in {"answered", "talking", "hanging"}

Pairs == TypeOK /\ Heard /\ Paired

USE DEF CallerStages, AgentStages

\* Nobody is in a call to begin with.
LEMMA InitPairs == ASSUME Distinct PROVE Init => Pairs
  BY DEF Distinct, Init, Pairs, TypeOK, Heard, Paired

\* What a caller does leaves the agents as they are.
LEMMA CallerKeepsPairs ==
  ASSUME Distinct, Pairs, NEW c \in Callers, Dials(c) \/ Greeted(c) \/ Ends(c)
  PROVE  Pairs'
<1> USE DEF Pairs
<1>1. TypeOK'
  BY DEF TypeOK, Dials, Greeted, Ends, Stage
<1>2. Heard'
  BY DEF Distinct, TypeOK, Heard, Dials, Greeted, Ends, Stage
<1>3. Paired'
  BY DEF Distinct, TypeOK, Heard, Paired, Dials, Greeted, Ends, Stage
<1> QED BY <1>1, <1>2, <1>3

\* A caller who is joined with an agent had none before.
LEMMA JoinedKeepsPairs ==
  ASSUME Distinct, Pairs, NEW c \in Callers, NEW a \in Agents, Joined(c, a)
  PROVE  Pairs'
<1> USE DEF Pairs
<1>1. TypeOK'
  BY DEF TypeOK, Joined, Stage
<1>2. Heard'
  BY DEF Distinct, TypeOK, Heard, Joined, Stage
<1>3. Paired'
  BY DEF Distinct, TypeOK, Heard, Paired, Joined, Stage
<1> QED BY <1>1, <1>2, <1>3

\* An agent who is offered a call is free, and the call has no other agent.
LEMMA OfferedKeepsPairs ==
  ASSUME Distinct, Pairs, NEW c \in Callers, NEW a \in Agents, Offered(a, c)
  PROVE  Pairs'
<1> USE DEF Pairs
<1>1. TypeOK'
  BY DEF TypeOK, Offered, Becomes
<1>2. Heard'
  BY DEF Distinct, TypeOK, Heard, Paired, Offered, Becomes
<1>3. Paired'
  BY DEF Distinct, TypeOK, Heard, Paired, Offered, Becomes
<1> QED BY <1>1, <1>2, <1>3

\* An agent who leaves a call has no caller who hears it.
LEMMA AgentKeepsPairs ==
  ASSUME Distinct, Pairs, NEW a \in Agents,
         Accepts(a) \/ Withdrawn(a) \/ Bridged(a) \/ Leaves(a) \/ Released(a)
  PROVE  Pairs'
<1> USE DEF Pairs
<1>1. TypeOK'
  BY DEF TypeOK, Accepts, Withdrawn, Bridged, Leaves, Released, Becomes
<1>2. Heard'
  BY DEF Distinct, TypeOK, Heard, Paired, Accepts, Withdrawn, Bridged, Leaves, Released, Becomes
<1>3. Paired'
  BY DEF Distinct, TypeOK, Heard, Paired, Accepts, Withdrawn, Bridged, Leaves, Released, Becomes
<1> QED BY <1>1, <1>2, <1>3

\* In every behaviour that Call allows, a call has at most one agent, a caller
\* talks to the agent of the call, and no agent is in a call whose caller talks
\* to somebody else.
THEOREM CallersHaveTheirAgents ==
  ASSUME Distinct PROVE Spec => [](TypeOK /\ Paired)
<1>1. Init => Pairs
  BY InitPairs
<1>2. Pairs /\ [Next]_vars => Pairs'
  <2> SUFFICES ASSUME Pairs, [Next]_vars PROVE Pairs'
    OBVIOUS
  <2>1. CASE Next
    BY <2>1, CallerKeepsPairs, JoinedKeepsPairs, OfferedKeepsPairs, AgentKeepsPairs DEF Next
  <2>2. CASE UNCHANGED vars
    BY <2>2 DEF vars, Pairs, TypeOK, Heard, Paired
  <2> QED BY <2>1, <2>2
<1>3. Pairs => TypeOK /\ Paired
  BY DEF Pairs
<1> QED BY <1>1, <1>2, <1>3, PTL DEF Spec
=============================================================================
