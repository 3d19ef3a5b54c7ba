------------------------------ MODULE CallFlow ------------------------------
(***************************************************************************)
(* Whole calls: the SIP server and the IVR application of one process,     *)
(* joined by UDP to each other and to the phones of callers and agents.    *)
(*                                                                         *)
(* SipServer and IvrApplication supply every step of the two programs.     *)
(* The phones are not part of the repository; they are the softphones that *)
(* the server's handlers take for granted (an answer carries an SDP body   *)
(* and a Contact, a re-INVITE is answered at once, a BYE gets a 200).      *)
(*                                                                         *)
(* A call is known by its caller: each caller makes one call and uses its  *)
(* own number as Call-ID.  Renewed registrations are left out: they leave  *)
(* the registry, and the IVR, as they were.                                *)
(***************************************************************************)
EXTENDS Sip, Integers, FiniteSets, SequencesExt

CONSTANTS Agents,       \* the phones the IVR refers callers to
          MaxDigits,    \* how many keys the callers press in all
          MaxTrouble,   \* how many datagrams are lost, repeated or overtaken
          Hasty         \* may a caller press a key while a referral is starting?

Callers == CallIds

ASSUME CallFlowAssumption ==
  /\ Agents \subseteq Users
  /\ CallIds = Users \ Agents
  /\ MaxDigits \in Nat
  /\ MaxTrouble \in Nat
  /\ Hasty \in BOOLEAN

VARIABLES
  clients, sessions,                             \* the SIP server
  calls, media, reader, running, pending, playing, rx,   \* the IVR application
  sent, fault,                                   \* of the step before; the process
  uplink,      \* number -> datagrams on their way from it to the server
  downlink,    \* number -> datagrams on their way from the server to it
  phone,       \* phone -> what it is doing
  rtp,         \* phone -> the party it sends its audio to
  dialog,      \* agent -> the call it is engaged in
  digits,      \* keys pressed so far
  trouble      \* network faults so far

serverVars == <<clients, sessions>>
ivrVars == <<calls, media, reader, running, pending, playing, rx>>
netVars == <<uplink, downlink, trouble>>
phoneVars == <<phone, rtp, dialog>>
vars == <<serverVars, ivrVars, sent, fault, netVars, phoneVars, digits>>

Server == INSTANCE SipServer WITH DebugMode <- FALSE, Wire <- {}
App == INSTANCE IvrApplication WITH Wire <- {}

\* An empty pointer is no session, and no datagram.
ASSUME NoSessionAssumption == None \notin Server!Session \cup App!CallSession \cup Datagram

CallerStates == {"idle", "calling", "abandoning", "talking", "hanging", "done"}
AgentStates == {"idle", "ringing", "answered", "talking", "hanging"}

TypeOK ==
  /\ clients \subseteq Numbers
  /\ sessions \in [CallIds -> OrNone(Server!Session)]
  /\ App!TypeOK \/ fault = "OnRefer"
  /\ uplink \in [Numbers -> Seq(Datagram)]
  /\ downlink \in [Numbers -> Seq(Datagram)]
  /\ \A u \in Users : phone[u] \in IF u \in Agents THEN AgentStates ELSE CallerStates
  /\ rtp \in [Users -> OrNone(Numbers)]
  /\ dialog \in [Agents -> OrNone(CallIds)]
  /\ digits \in 0..MaxDigits
  /\ trouble \in 0..MaxTrouble
  /\ Len(sent) <= 3

\* The IVR and the callers have registered; any agent may be away.
Init ==
  /\ clients \in {Callers \cup {Ivr} \cup S : S \in SUBSET Agents}
  /\ sessions = [c \in CallIds |-> None]
  /\ App!Init
  /\ uplink = [n \in Numbers |-> <<>>]
  /\ downlink = [n \in Numbers |-> <<>>]
  /\ phone = [u \in Users |-> "idle"]
  /\ rtp = [u \in Users |-> None]
  /\ dialog = [a \in Agents |-> None]
  /\ digits = 0
  /\ trouble = 0
-----------------------------------------------------------------------------
(***************************************************************************)
(* The two programs.                                                       *)
(***************************************************************************)
\* The i-th datagram that the step sends, if it is for n.
Nth(i, n) ==
  IF i <= Len(sent') /\ sent'[i].peer = n THEN <<sent'[i]>> ELSE <<>>

\* UDP to one party keeps its order unless there is trouble.  No handler sends
\* more than three datagrams.
Delivered(link) ==
  [n \in Numbers |-> link[n] \o Nth(1, n) \o Nth(2, n) \o Nth(3, n)]

ServerStep(n) ==
  /\ uplink[n] # <<>>
  /\ Server!Handle(Head(uplink[n]))
  /\ uplink' = [uplink EXCEPT ![n] = Tail(@)]
  /\ downlink' = Delivered(downlink)
  /\ UNCHANGED <<ivrVars, phoneVars, trouble, digits>>

IvrReceives ==
  /\ downlink[Ivr] # <<>>
  /\ App!Receive(Head(downlink[Ivr]))
  /\ downlink' = [downlink EXCEPT ![Ivr] = Tail(@)]
  /\ uplink' = Delivered(uplink)
  /\ UNCHANGED <<serverVars, phoneVars, trouble, digits>>

IvrWakes ==
  /\ App!Announced \/ App!Redirected \/ App!Joined
  /\ uplink' = Delivered(uplink)
  /\ UNCHANGED <<serverVars, downlink, phoneVars, trouble, digits>>

ReaderSteps(c) ==
  /\ App!ReaderStep(c)
  /\ uplink' = Delivered(uplink)
  /\ UNCHANGED <<serverVars, downlink, phoneVars, trouble, digits>>

\* A referral that the IVR asked for and has not been told the outcome of.
Referring(c) ==
  \/ reader[c] \in {"event", "raced", "refer"}
  \/ \E i \in DOMAIN uplink[Ivr] : uplink[Ivr][i].type = "REFER"
  \/ \E i \in DOMAIN downlink[Ivr] : downlink[Ivr][i].cseq = "REFER"

\* The media server hears a key only while the caller's audio goes to the IVR.
PressKey(c) ==
  /\ digits < MaxDigits
  /\ phone[c] = "talking"
  /\ rtp[c] = Ivr
  /\ Hasty \/ ~Referring(c)
  /\ App!ReadDTMF(c)
  /\ digits' = digits + 1
  /\ UNCHANGED <<serverVars, netVars, phoneVars>>
-----------------------------------------------------------------------------
(***************************************************************************)
(* The phones.                                                             *)
(***************************************************************************)
Sends(u, ms) ==
  /\ uplink' = [uplink EXCEPT ![u] = @ \o ms]
  /\ sent' = <<>>

\* A phone acts on its own, and sends ms.
Acts(u, ms) ==
  /\ fault = "none"
  /\ Sends(u, ms)
  /\ UNCHANGED <<serverVars, ivrVars, fault, downlink, trouble, digits>>

\* A phone takes in the next datagram and sends ms.
Takes(u, ms) ==
  /\ fault = "none"
  /\ Sends(u, ms)
  /\ downlink' = [downlink EXCEPT ![u] = Tail(@)]
  /\ UNCHANGED <<serverVars, ivrVars, fault, trouble, digits>>

Becomes(u, st, to) ==
  /\ phone' = [phone EXCEPT ![u] = st]
  /\ rtp' = [rtp EXCEPT ![u] = to]

Own(method, c, u, to) == [Request(method, c, u, to, u) EXCEPT !.contact = u]

Reply(type, u, m) == [m EXCEPT !.type = type, !.contact = u, !.sdp = None, !.peer = u]

Dial(c) ==
  /\ phone[c] = "idle"
  /\ Becomes(c, "calling", None)
  /\ Acts(c, <<[Own("INVITE", c, c, Ivr) EXCEPT !.sdp = c]>>)
  /\ UNCHANGED dialog

\* A caller who gives up before the answer has to wait for it: the IVR sends
\* no provisional response, without which a phone must not send a CANCEL.
Abandon(c) ==
  /\ phone[c] = "calling"
  /\ Becomes(c, "abandoning", None)
  /\ Acts(c, <<>>)
  /\ UNCHANGED dialog

CallerHangsUp(c) ==
  /\ phone[c] = "talking"
  /\ Becomes(c, "hanging", None)
  /\ Acts(c, <<Own("BYE", c, c, Ivr)>>)
  /\ UNCHANGED dialog

\* The answer to the caller's INVITE, or a repeated one.
CallerAnswered(c, m) ==
  /\ m.type = "200"
  /\ m.cseq = "INVITE"
  /\ \/ /\ phone[c] = "calling"
        /\ Becomes(c, "talking", m.sdp)
        /\ Takes(c, <<Own("ACK", c, c, m.to)>>)
     \/ /\ phone[c] = "abandoning"
        /\ Becomes(c, "hanging", None)
        /\ Takes(c, <<Own("ACK", c, c, m.to), Own("BYE", c, c, Ivr)>>)
     \/ /\ phone[c] \in {"talking", "hanging", "done"}
        /\ Takes(c, <<Own("ACK", c, c, m.to)>>)
        /\ UNCHANGED <<phone, rtp>>

\* A re-INVITE moves the caller's audio; outside a call it is refused with
\* a 481, which the server has no handler for.
CallerReinvited(c, m) ==
  /\ m.type = "INVITE"
  /\ \/ /\ phone[c] = "talking"
        /\ Becomes(c, "talking", m.sdp)
        /\ Takes(c, <<[Reply("200", c, m) EXCEPT !.sdp = c]>>)
     \/ /\ phone[c] # "talking"
        /\ Takes(c, <<>>)
        /\ UNCHANGED <<phone, rtp>>

CallerToldBye(c, m) ==
  /\ m.type = "BYE"
  /\ \/ /\ phone[c] = "talking"
        /\ Becomes(c, "done", None)
        /\ Takes(c, <<Reply("200", c, m)>>)
     \/ /\ phone[c] = "hanging"
        /\ Takes(c, <<Reply("200", c, m)>>)
        /\ UNCHANGED <<phone, rtp>>
     \/ /\ phone[c] \notin {"talking", "hanging"}
        /\ Takes(c, <<>>)
        /\ UNCHANGED <<phone, rtp>>

CallerByeAnswered(c, m) ==
  /\ m.type = "200"
  /\ m.cseq = "BYE"
  /\ Becomes(c, IF phone[c] = "hanging" THEN "done" ELSE phone[c], rtp[c])
  /\ Takes(c, <<>>)

\* The 487 of an agent's phone is for an INVITE the caller's never sent; some
\* phones acknowledge it all the same.
CallerToldTerminated(c, m) ==
  /\ m.type = "487"
  /\ Takes(c, <<>>) \/ Takes(c, <<[m EXCEPT !.type = "ACK", !.cseq = "ACK", !.peer = c]>>)
  /\ UNCHANGED <<phone, rtp>>

CallerIgnores(c, m) ==
  /\ m.type \notin {"INVITE", "BYE", "487"}
  /\ m.type = "200" => m.cseq \notin {"INVITE", "BYE"}
  /\ Takes(c, <<>>)
  /\ UNCHANGED <<phone, rtp>>

CallerReceives(c) ==
  /\ downlink[c] # <<>>
  /\ LET m == Head(downlink[c])
     IN  \/ CallerAnswered(c, m) \/ CallerReinvited(c, m) \/ CallerToldBye(c, m)
         \/ CallerByeAnswered(c, m) \/ CallerToldTerminated(c, m) \/ CallerIgnores(c, m)
  /\ UNCHANGED dialog
-----------------------------------------------------------------------------
Engages(a, c) == dialog' = [dialog EXCEPT ![a] = c]

\* The agent's response to the INVITE of call c.
Response(type, c, a) ==
  [Message(type, "INVITE", c, c, a, a) EXCEPT !.contact = a]

AgentAnswers(a) ==
  /\ phone[a] = "ringing"
  /\ Becomes(a, "answered", rtp[a])
  /\ Acts(a, <<[Response("200", dialog[a], a) EXCEPT !.sdp = a]>>)
  /\ UNCHANGED dialog

AgentRejects(a) ==
  /\ phone[a] = "ringing"
  /\ Becomes(a, "idle", None)
  /\ Engages(a, None)
  /\ \E type \in {"480", "486"} : Acts(a, <<Response(type, dialog[a], a)>>)

AgentHangsUp(a) ==
  /\ phone[a] = "talking"
  /\ Becomes(a, "hanging", None)
  /\ Acts(a, <<Own("BYE", dialog[a], a, dialog[a])>>)
  /\ UNCHANGED dialog

\* An INVITE of another call finds the agent busy, a repeated one is dropped.
AgentInvited(a, m) ==
  /\ m.type = "INVITE"
  /\ \/ /\ phone[a] = "idle"
        /\ Becomes(a, "ringing", m.sdp)
        /\ Engages(a, m.callID)
        /\ Takes(a, <<Response("180", m.callID, a)>>)
     \/ /\ phone[a] # "idle"
        /\ Takes(a, IF m.callID = dialog[a] THEN <<>>
                    ELSE <<Response("486", m.callID, a)>>)
        /\ UNCHANGED <<phone, rtp, dialog>>

AgentCancelled(a, m) ==
  /\ m.type = "CANCEL"
  /\ phone[a] = "ringing"
  /\ m.callID = dialog[a]
  /\ Becomes(a, "idle", None)
  /\ Engages(a, None)
  /\ Takes(a, <<Reply("200", a, m), Response("487", m.callID, a)>>)

AgentAcknowledged(a, m) ==
  /\ m.type = "ACK"
  /\ phone[a] = "answered"
  /\ m.callID = dialog[a]
  /\ Becomes(a, "talking", rtp[a])
  /\ Takes(a, <<>>)
  /\ UNCHANGED dialog

\* A BYE for a dialog the agent is in.
AgentToldBye(a, m) ==
  /\ m.type = "BYE"
  /\ phone[a] \in {"answered", "talking", "hanging"}
  /\ m.callID = dialog[a]
  /\ Becomes(a, "idle", None)
  /\ Engages(a, None)
  /\ Takes(a, <<Reply("200", a, m)>>)

AgentByeAnswered(a, m) ==
  /\ m.type = "200"
  /\ m.cseq = "BYE"
  /\ phone[a] = "hanging"
  /\ m.callID = dialog[a]
  /\ Becomes(a, "idle", None)
  /\ Engages(a, None)
  /\ Takes(a, <<>>)

\* Anything else is dropped, or refused with a 481.
AgentIgnores(a, m) ==
  /\ m.type # "INVITE"
  /\ \/ m.callID # dialog[a]
     \/ m.type \notin {"CANCEL", "ACK", "BYE", "200"}
     \/ m.type = "CANCEL" /\ phone[a] # "ringing"
     \/ m.type = "ACK" /\ phone[a] # "answered"
     \/ m.type = "BYE" /\ phone[a] \notin {"answered", "talking", "hanging"}
     \/ m.type = "200" /\ (m.cseq # "BYE" \/ phone[a] # "hanging")
  /\ Takes(a, <<>>)
  /\ UNCHANGED phoneVars

AgentReceives(a) ==
  /\ downlink[a] # <<>>
  /\ LET m == Head(downlink[a])
     IN  \/ AgentInvited(a, m) \/ AgentCancelled(a, m) \/ AgentAcknowledged(a, m)
         \/ AgentToldBye(a, m) \/ AgentByeAnswered(a, m) \/ AgentIgnores(a, m)
-----------------------------------------------------------------------------
(***************************************************************************)
(* The network: a datagram is lost, arrives twice, or is overtaken by the  *)
(* one sent after it.                                                      *)
(***************************************************************************)
Disturbed(q) ==
  {RemoveAt(q, i) : i \in DOMAIN q}
  \cup {InsertAt(q, i, q[i]) : i \in DOMAIN q}
  \cup {[q EXCEPT ![i] = q[i + 1], ![i + 1] = q[i]] : i \in 1..(Len(q) - 1)}

Trouble ==
  /\ fault = "none"
  /\ trouble < MaxTrouble
  /\ trouble' = trouble + 1
  /\ \E n \in Numbers :
       \/ /\ \E q \in Disturbed(uplink[n]) : uplink' = [uplink EXCEPT ![n] = q]
          /\ UNCHANGED downlink
       \/ /\ \E q \in Disturbed(downlink[n]) : downlink' = [downlink EXCEPT ![n] = q]
          /\ UNCHANGED uplink
  /\ sent' = <<>>
  /\ UNCHANGED <<serverVars, ivrVars, fault, phoneVars, digits>>
-----------------------------------------------------------------------------
Next ==
  \/ \E n \in Numbers : ServerStep(n)
  \/ IvrReceives
  \/ IvrWakes
  \/ \E c \in Callers : \/ ReaderSteps(c) \/ PressKey(c)
                        \/ Dial(c) \/ Abandon(c) \/ CallerHangsUp(c) \/ CallerReceives(c)
  \/ \E a \in Agents : AgentAnswers(a) \/ AgentRejects(a) \/ AgentHangsUp(a) \/ AgentReceives(a)
  \/ Trouble

\* Programs and phones run, and take in what arrives; nobody has to dial, to
\* press a key, to answer or to hang up.
Fairness ==
  /\ \A n \in Numbers : WF_vars(ServerStep(n))
  /\ WF_vars(IvrReceives) /\ WF_vars(IvrWakes)
  /\ \A c \in Callers : WF_vars(ReaderSteps(c)) /\ WF_vars(CallerReceives(c))
  /\ \A a \in Agents : WF_vars(AgentReceives(a))

Spec == Init /\ [][Next]_vars /\ Fairness
-----------------------------------------------------------------------------
(***************************************************************************)
(* Properties.                                                             *)
(***************************************************************************)
\* A caller who was connected to an agent is not left behind: the agent's
\* phone stays in the call until the caller's has been told of its end.
CallerKeepsAgent ==
  \A c \in Callers : phone[c] = "talking" /\ rtp[c] \in Agents => dialog[rtp[c]] = c

\* The IVR has dropped a call that its caller had.
EndedInIvr(c) == calls[c] = None /\ phone[c] \in {"talking", "hanging", "done"}

\* The process crashes only over a call that the IVR has just been told is
\* over, when a key or the failure of a referral crosses the BYE, or over a key
\* whose lookup another caller's call disturbs: no REFER finds a session that
\* has no dest, the IVR never gets an INVITE without media, no second ACK
\* reaches a call whose reader runs, and no two threads meet in one
\* announcement.
CrashNeedsCrossing ==
  /\ fault \in {"none", "onDTMFEvent", "findSession", "OnUnavailable"}
  /\ fault = "OnUnavailable" => \E c \in Callers : EndedInIvr(c)
  /\ fault \in {"onDTMFEvent", "findSession"} =>
       \E c \in Callers :
         \/ reader[c] \in {"event", "raced"} /\ EndedInIvr(c)
         \/ reader[c] = "raced" /\ \E d \in Callers \ {c} : phone[d] # "idle"

\* What the caller hears from the IVR is what the IVR takes the call to be in:
\* a guide while keys count, the referral or its music while it is refered, and
\* the regret once the agent has failed.  The reader sets the announcement too,
\* as much as five seconds after it tested the state (invalidChoose).
HearsOutcome ==
  \A c \in Callers : calls[c] # None =>
    /\ calls[c].state = "Referring" => playing[c] \in {"redirecting", "holding"}
    /\ calls[c].state \in {"Busy", "Unavailable"} => playing[c] = "agent_busy"

\* The server is not crashed by a REFER that comes before the answer or after
\* the end of its call.  A network that makes one mistake cannot bring that
\* about; three can: an INVITE that comes twice, the second time behind the ACK
\* and the BYE, starts a finished call anew, with a REFER of it still to come.
ReferFindsDest == fault # "OnRefer"

\* What callers and agents can tell of a call: the stages of Call.
CallerStage(c) ==
  CASE phone[c] = "idle" -> "idle"
    [] phone[c] \in {"calling", "abandoning"} -> "waiting"
    [] phone[c] = "talking" -> "talking"
    [] phone[c] \in {"hanging", "done"} -> "over"

AgentStage(a) == IF phone[a] = "idle" THEN "free" ELSE phone[a]

Promise == INSTANCE Call WITH
  caller <- [c \in Callers |-> CallerStage(c)],
  hears <- [c \in Callers |-> rtp[c]],
  agent <- [a \in Agents |-> AgentStage(a)],
  serves <- dialog

\* Server, IVR and the messages between them keep the promise of Call: from the
\* IVR to one agent and never back, offers to one agent at a time, and no agent
\* who took a call is let go while the caller is in it.
KeepsPromise == Promise!Spec

Ended(c) == phone[c] \in {"hanging", "done"}

\* An agent is told that a BYE was taken only when the caller's phone has left
\* the call, or is leaving it: the 200 that goes back to the agent is told from
\* the others by the Contact alone (RequestsHandler::OnOk).
AgentByeConfirmedLast ==
  [][\A i \in DOMAIN sent' :
       sent'[i].type = "200" /\ sent'[i].cseq = "BYE" /\ sent'[i].peer \in Agents
         => Ended(sent'[i].callID)]_vars

\* Whoever hangs up, the call is forgotten: the server's session goes away, and
\* the IVR's call, its reader thread and its media session.
CallForgotten ==
  \A c \in Callers :
    Ended(c) ~> (  \/ /\ sessions[c] = None
                      /\ calls[c] = None
                      /\ reader[c] = "none"
                      /\ media[c] = "none"
                   \/ fault # "none")

(***************************************************************************)
(* What comments of the code say, and the code does not always do.         *)
(***************************************************************************)
\* Failed is the only handler that clears referedDest; what it sends first is
\* the agent's failure, "send UNAVAILABLE to IVR".
FailureGoesToIvr ==
  [][\A c \in Callers :
       /\ sessions[c] # None
       /\ sessions[c].referedDest # None
       /\ sessions'[c] # None
       /\ sessions'[c].referedDest = None
       => sent'[1].peer = Ivr]_vars

\* "Agent is not connected yet. -> send cancel to agent."
RingingAgentIsCancelled ==
  [][\A i \in DOMAIN sent' :
       sent'[i].type = "BYE" /\ sent'[i].peer \in Agents
         => ~(phone[sent'[i].peer] = "ringing" /\ dialog[sent'[i].peer] = sent'[i].callID)]_vars

\* "Agent is not connected yet. -> send cancel to agent.": an agent's phone that
\* rings for a caller who has hung up is made to stop.
RingingStops ==
  \A a \in Agents, c \in Callers :
    (dialog[a] = c /\ phone[a] = "ringing" /\ Ended(c))
      ~> (dialog[a] # c \/ phone[a] # "ringing" \/ fault # "none")

\* OnUnavailable tests whether there is a call session: a 480 for a call that
\* has ended is to be survived.
UnavailableSurvivesHangUp == fault # "OnUnavailable"
=============================================================================
