-------------------------------- MODULE Call --------------------------------
(***************************************************************************)
(* What the server and the IVR promise callers and agents, whatever        *)
(* messages it takes: a caller talks to the IVR first, then to at most one *)
(* agent, and never goes back; a call is offered to one agent at a time;   *)
(* and an agent who took it is not let go while the caller is in the call. *)
(*                                                                         *)
(* The state is what the people at the phones could tell.  CallFlow, with  *)
(* its messages, sessions and threads, implements this specification.      *)
(***************************************************************************)
CONSTANTS Callers,   \* the callers, each with one call
          Agents,    \* the agents
          Ivr,       \* the IVR application
          None       \* nobody

Distinct == Ivr \notin Agents /\ None \notin Agents \cup Callers

VARIABLES caller,    \* caller -> the stage of the call
          hears,     \* caller -> whom the caller talks to
          agent,     \* agent -> what the agent's phone is doing
          serves     \* agent -> the call it does that for

vars == <<caller, hears, agent, serves>>

CallerStages == {"idle", "waiting", "talking", "over"}

AgentStages == {"free", "ringing", "answered", "talking", "hanging"}

TypeOK ==
  /\ caller \in [Callers -> CallerStages]
  /\ hears \in [Callers -> Agents \cup {Ivr, None}]
  /\ agent \in [Agents -> AgentStages]
  /\ serves \in [Agents -> Callers \cup {None}]

Init ==
  /\ caller = [c \in Callers |-> "idle"]
  /\ hears = [c \in Callers |-> None]
  /\ agent = [a \in Agents |-> "free"]
  /\ serves = [a \in Agents |-> None]
-----------------------------------------------------------------------------
(***************************************************************************)
(* Callers.                                                                *)
(***************************************************************************)
Stage(c, stage, party) ==
  /\ caller' = [caller EXCEPT ![c] = stage]
  /\ hears' = [hears EXCEPT ![c] = party]
  /\ UNCHANGED <<agent, serves>>

Dials(c) == caller[c] = "idle" /\ Stage(c, "waiting", None)

\* The IVR answers.
Greeted(c) == caller[c] = "waiting" /\ Stage(c, "talking", Ivr)

\* Only an agent who has taken the call, and only from the IVR.
Joined(c, a) ==
  /\ caller[c] = "talking"
  /\ hears[c] = Ivr
  /\ agent[a] = "answered"
  /\ serves[a] = c
  /\ Stage(c, "talking", a)

\* The caller hangs up, or is told that the call is over.
Ends(c) == caller[c] \in {"waiting", "talking"} /\ Stage(c, "over", None)
-----------------------------------------------------------------------------
(***************************************************************************)
(* Agents.                                                                 *)
(***************************************************************************)
Becomes(a, stage, c) ==
  /\ agent' = [agent EXCEPT ![a] = stage]
  /\ serves' = [serves EXCEPT ![a] = c]
  /\ UNCHANGED <<caller, hears>>

\* The offer may cross the caller's hanging up.
Offered(a, c) ==
  /\ agent[a] = "free"
  /\ \/ caller[c] = "talking" /\ hears[c] = Ivr
     \/ caller[c] = "over"
  /\ \A b \in Agents : serves[b] # c
  /\ Becomes(a, "ringing", c)

Accepts(a) == agent[a] = "ringing" /\ Becomes(a, "answered", serves[a])

\* The agent rejects the call, or the offer is withdrawn.
Withdrawn(a) == agent[a] = "ringing" /\ Becomes(a, "free", None)

\* The agent's phone is in the call once the caller hears it.
Bridged(a) ==
  /\ agent[a] = "answered"
  /\ \/ caller[serves[a]] = "over"
     \/ hears[serves[a]] = a
  /\ Becomes(a, "talking", serves[a])

Leaves(a) == agent[a] = "talking" /\ Becomes(a, "hanging", serves[a])

\* Nobody is left alone in the call.
Released(a) ==
  /\ agent[a] \in {"answered", "talking", "hanging"}
  /\ caller[serves[a]] = "over"
  /\ Becomes(a, "free", None)
-----------------------------------------------------------------------------
Next ==
  \/ \E c \in Callers : Dials(c) \/ Greeted(c) \/ Ends(c)
  \/ \E c \in Callers, a \in Agents : Joined(c, a) \/ Offered(a, c)
  \/ \E a \in Agents : Accepts(a) \/ Withdrawn(a) \/ Bridged(a) \/ Leaves(a) \/ Released(a)

Spec == Init /\ [][Next]_vars
-----------------------------------------------------------------------------
(***************************************************************************)
(* Properties.                                                             *)
(***************************************************************************)
\* Caller and agent are joined in pairs: a call has at most one agent, a caller
\* who talks to an agent has that agent, and an agent in a call has the caller
\* or is the last one in it.
Paired ==
  /\ \A a, b \in Agents : serves[a] # None /\ serves[a] = serves[b] => a = b
  /\ \A c \in Callers : hears[c] \in Agents => serves[hears[c]] = c
  /\ \A a \in Agents : agent[a] \in {"talking", "hanging"} =>
       caller[serves[a]] = "over" \/ hears[serves[a]] = a
=============================================================================
