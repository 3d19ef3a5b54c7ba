----------------------------- MODULE SipServer -----------------------------
(***************************************************************************)
(* The SIP server: sipserver::RequestsHandler, with the registry _clients  *)
(* and the call table _sessions.  One receiver thread takes a datagram off *)
(* the socket and runs its handler to the end before the next one, so each *)
(* handler is one action.  What a handler hands to UdpServer::send is      *)
(* appended to sent, in the order of the calls.                            *)
(***************************************************************************)
EXTENDS Sip, Sequences

CONSTANTS DebugMode,   \* TRUE when compiled with -DDEBUG_MODE
          Wire         \* the datagrams that may reach the socket

ASSUME SipServerAssumption ==
  /\ DebugMode \in BOOLEAN
  /\ Wire \subseteq Datagram

VARIABLES clients,    \* the numbers registered in _clients
          sessions,   \* _sessions: Call-ID -> session, None where there is none
          sent,       \* the datagrams sent by the handler that ran last
          fault       \* the handler that crashed the process, or "none"

vars == <<clients, sessions, sent, fault>>

States == {"Invited", "Busy", "Unavailable", "Cancel", "Bye", "Connected"}

Session == [state : States, src : Numbers, dest : OrNone(Numbers),
            referedDest : OrNone(Numbers), fromMedia : Numbers,
            referedToMedia : OrNone(Numbers)]

ASSUME NoneAssumption == None \notin Session

TypeOK ==
  /\ clients \subseteq Numbers
  /\ sessions \in [CallIds -> OrNone(Session)]
  /\ sent \in Seq(Datagram)
  /\ fault \in {"none", "OnRefer"}

Init ==
  /\ clients = {}
  /\ sessions = [c \in CallIds |-> None]
  /\ sent = <<>>
  /\ fault = "none"
-----------------------------------------------------------------------------
HasSession(c) == sessions[c] # None

(***************************************************************************)
(* Where a definition is preceded by one with the same parameters that no  *)
(* other refers to, that one is a fault the properties are known to        *)
(* detect: a lost test, a lost assignment, a wrong party, a wrong order.   *)
(***************************************************************************)
Put(c, s) == sessions' = [sessions EXCEPT ![c] = s]

EndCall(c) == Put(c, None)

\* _sessions.emplace keeps the session a known Call-ID already has.
Assign(c, s) == Put(c, s)
Emplace(c, s) == IF HasSession(c) THEN UNCHANGED sessions ELSE Put(c, s)

\* setCallState: nothing happens when the call is unknown.
SetNoState(c, st) == UNCHANGED sessions
SetCallState(c, st) ==
  sessions' = IF HasSession(c) THEN [sessions EXCEPT ![c].state = st] ELSE sessions

\* endHandle: to the destination if it is registered, else back as a 404.
EndHandle(registry, number, m) ==
  IF number \in registry
  THEN [m EXCEPT !.peer = number]
  ELSE [m EXCEPT !.type = IF @ = "garbled" THEN @ ELSE "404"]

Route(number, m) == EndHandle(clients, number, m)

\* A handler that only passes the datagram on.
Forward(number, m) == sent' = <<Route(number, m)>>

\* A handler that returns early.
Drop == sent' = <<>> /\ UNCHANGED sessions

\* The ACK that a handler makes of a final response, by its first line and CSeq.
AckOf(m) == [m EXCEPT !.type = "ACK", !.cseq = "ACK"]
-----------------------------------------------------------------------------
(***************************************************************************)
(* Registration.  A number that leaves is answered while it is still in    *)
(* the registry.                                                           *)
(***************************************************************************)
OnRegister(m) ==
  LET leaving  == m.contact = ExpiresZero
      registry == IF leaving THEN clients ELSE clients \cup {m.from}
  IN  /\ m.type = "REGISTER"
      /\ sent' = <<EndHandle(registry, m.from,
                             [m EXCEPT !.type = "200", !.contact = m.from])>>
      /\ clients' = IF leaving THEN clients \ {m.from} ELSE registry
      /\ UNCHANGED <<sessions, fault>>

(***************************************************************************)
(* Call setup.                                                             *)
(***************************************************************************)
AnyoneReachable(number) == number \in clients
Reachable(number) == number \in clients /\ (DebugMode \/ number = Ivr)

\* dynamic_cast to SipSdpMessage.
NoSdpNeeded(m) == TRUE
HasSdp(m) == m.sdp # None

NewSession(m) == [state |-> "Invited", src |-> m.from, dest |-> None,
                  referedDest |-> None, fromMedia |-> m.sdp,
                  referedToMedia |-> None]

OnInvite(m) ==
  /\ m.type = "INVITE"
  /\ \/ /\ m.from \notin clients
        /\ Drop
     \/ /\ m.from \in clients
        /\ ~Reachable(m.to)
        /\ Forward(m.from, SetContact([m EXCEPT !.type = "404"], m.from))
        /\ UNCHANGED sessions
     \/ /\ m.from \in clients
        /\ Reachable(m.to)
        /\ ~HasSdp(m)
        /\ Drop
     \/ /\ m.from \in clients
        /\ Reachable(m.to)
        /\ HasSdp(m)
        /\ Emplace(m.callID, NewSession(m))
        /\ Forward(m.to, SetContact(m, m.from))
  /\ UNCHANGED <<clients, fault>>

OnTrying(m) ==
  /\ m.type = "100"
  /\ Forward(m.from, m)
  /\ UNCHANGED <<clients, sessions, fault>>

OnRinging(m) ==
  /\ m.type = "180"
  /\ Forward(m.from, m)
  /\ UNCHANGED <<clients, sessions, fault>>

OnCancel(m) ==
  /\ m.type = "CANCEL"
  /\ SetCallState(m.callID, "Cancel")
  /\ Forward(m.to, m)
  /\ UNCHANGED <<clients, fault>>

OnReqTerminated(m) ==
  /\ m.type = "487"
  /\ IF HasSession(m.callID) THEN Forward(m.from, m) ELSE Forward(m.to, AckOf(m))
  /\ UNCHANGED <<clients, sessions, fault>>

(***************************************************************************)
(* A final failure.  Before a referral it is the callee's, and goes to the *)
(* caller; during one it is the agent's, goes to the IVR, is acknowledged  *)
(* on the caller's behalf and ends the referral.  OnBusy leaves the 486    *)
(* as it is, OnUnavailable makes the first line a 480 again.               *)
(***************************************************************************)
CallerIsTold(s, m) == m.from
FailureTarget(s, m) == s.dest

Failed(m, st) ==
  LET s == sessions[m.callID]
  IN  /\ \/ /\ ~HasSession(m.callID)
            /\ Drop
         \/ /\ HasSession(m.callID)
            /\ s.referedDest = None
            /\ SetCallState(m.callID, st)
            /\ Forward(m.from, m)
         \/ /\ HasSession(m.callID)
            /\ s.referedDest # None
            /\ sent' = <<Route(FailureTarget(s, m), m), Route(s.referedDest, AckOf(m))>>
            /\ Put(m.callID, [s EXCEPT !.referedDest = None])
      /\ UNCHANGED <<clients, fault>>

OnBusy(m) == m.type = "486" /\ Failed(m, "Busy")

OnUnavailable(m) == m.type = "480" /\ Failed(m, "Unavailable")
-----------------------------------------------------------------------------
(***************************************************************************)
(* Referral: the IVR asks for the caller to be connected to an agent.      *)
(* Both the 480 for an unknown agent and the test of dest against IVR_NAME *)
(* dereference dest, which is empty until a 200 for an INVITE has passed.  *)
(* The datagrams the server makes up carry the caller's or the IVR's       *)
(* address as their source, which is where a 404 for them goes.            *)
(***************************************************************************)
ReferAllowedEarly(s) == s.dest \in {None, Ivr}
ReferAllowed(s) == s.dest = Ivr

OnRefer(m) ==
  LET s == sessions[m.callID]
      known == m.referTo \in clients
      accepted == Message("202", "REFER", m.callID, s.dest, s.src, s.src)
      invite == [Request("INVITE", m.callID, s.src, m.referTo, s.src)
                   EXCEPT !.contact = s.src, !.sdp = s.fromMedia]
  IN  /\ m.type = "REFER"
      /\ UNCHANGED clients
      /\ \/ /\ ~HasSession(m.callID)
            /\ Drop
            /\ UNCHANGED fault
         \/ /\ HasSession(m.callID)
            /\ s.dest = None
            /\ Drop
            /\ fault' = "OnRefer"
         \/ /\ HasSession(m.callID)
            /\ s.dest # None
            /\ ~known
            /\ Forward(s.dest, [m EXCEPT !.type = "480"])
            /\ UNCHANGED <<sessions, fault>>
         \/ /\ HasSession(m.callID)
            /\ s.dest # None
            /\ ~ReferAllowed(s)
            /\ known
            /\ Drop
            /\ UNCHANGED fault
         \/ /\ HasSession(m.callID)
            /\ ReferAllowed(s)
            /\ known
            /\ sent' = <<Route(s.dest, accepted), Route(m.referTo, invite)>>
            /\ Put(m.callID, [s EXCEPT !.referedDest = m.referTo])
            /\ UNCHANGED fault

(***************************************************************************)
(* A 200 for an INVITE: the callee's answer, the refered agent's answer    *)
(* (the caller is then re-INVITEd with the agent's media), or the caller's *)
(* answer to that re-INVITE (the referral is complete: both are            *)
(* acknowledged and the IVR is told to hang up).                           *)
(***************************************************************************)
Transfered(s, m) == s.referedDest # None /\ s.referedDest = m.to

UpdateMedia(s, m) == s.referedDest # None /\ s.referedDest # m.to /\ s.src = m.to

ConnectedOnly(s, m) == [s EXCEPT !.state = "Connected"]
Connected(s, m) == [s EXCEPT !.dest = m.to, !.state = "Connected"]

Answered(s, m) ==
  /\ ~Transfered(s, m)
  /\ ~UpdateMedia(s, m)
  /\ Put(m.callID, Connected(s, m))
  /\ Forward(m.from, SetContact(m, m.to))

AckAgent(s, c) == [Request("ACK", c, s.src, s.referedDest, s.src) EXCEPT !.contact = s.src]

AckClient(s, c) == [Request("ACK", c, s.dest, s.src, s.dest) EXCEPT !.contact = s.dest]

Reinvite(s, m) ==
  [Request("INVITE", m.callID, s.dest, s.src, s.src) EXCEPT !.contact = s.dest, !.sdp = m.sdp]

AgentAckedAtOnce(s, m) ==
  /\ Transfered(s, m)
  /\ Put(m.callID, [s EXCEPT !.referedToMedia = m.sdp])
  /\ sent' = <<Route(s.referedDest, AckAgent(s, m.callID)), Route(s.src, Reinvite(s, m))>>

AgentAnswered(s, m) ==
  /\ Transfered(s, m)
  /\ Put(m.callID, [s EXCEPT !.referedToMedia = m.sdp])
  /\ Forward(s.src, Reinvite(s, m))

ByeToAgent(s, c) == Request("BYE", c, s.src, s.referedDest, s.src)
ByeToIvr(s, c) == Request("BYE", c, s.src, s.dest, s.src)

MediaUpdated(s, m) ==
  LET bye == ByeToIvr(s, m.callID)
  IN  /\ UpdateMedia(s, m)
      /\ sent' = <<Route(s.referedDest, AckAgent(s, m.callID)),
                   Route(s.src, AckClient(s, m.callID)), Route(bye.to, bye)>>
      /\ UNCHANGED sessions

OnOkInvite(s, m) ==
  \/ /\ m.to \notin clients
     /\ Drop
  \/ /\ m.to \in clients
     /\ ~HasSdp(m)
     /\ EndCall(m.callID)
     /\ sent' = <<>>
  \/ /\ m.to \in clients
     /\ HasSdp(m)
     /\ Answered(s, m) \/ AgentAnswered(s, m) \/ MediaUpdated(s, m)
-----------------------------------------------------------------------------
(***************************************************************************)
(* Hanging up.  During a referral the caller's BYE goes to the IVR and, as *)
(* a BYE or a CANCEL, to the agent; the agent's BYE goes to the caller as  *)
(* if the IVR had sent it.                                                 *)
(***************************************************************************)
ByeForAnyAgent(s, m) == [m EXCEPT !.to = s.referedDest]
ByeForAgent(s, m) ==
  IF s.referedToMedia = None
  THEN [m EXCEPT !.to = s.referedDest, !.type = "CANCEL", !.cseq = "CANCEL"]
  ELSE [m EXCEPT !.to = s.referedDest, !.type = "BYE"]

AnswerBye(s, m) ==
  sent' = << Route(s.src, SetContact([m EXCEPT !.from = s.dest], s.dest)),
             Route(s.referedDest, [m EXCEPT !.type = "200"]) >>
PassBye(s, m) == Forward(s.src, SetContact([m EXCEPT !.from = s.dest], s.dest))

OnBye(m) ==
  LET s == sessions[m.callID]
  IN  /\ m.type = "BYE"
      /\ UNCHANGED <<clients, fault>>
      /\ \/ /\ ~HasSession(m.callID)
            /\ Drop
         \/ /\ HasSession(m.callID)
            /\ SetCallState(m.callID, "Bye")
            /\ \/ /\ s.referedDest = None
                  /\ Forward(m.to, m)
               \/ /\ s.referedDest # None
                  /\ m.from = s.src
                  /\ sent' = <<Route(m.to, m), Route(s.referedDest, ByeForAgent(s, m))>>
               \/ /\ s.referedDest # None
                  /\ m.from = s.referedDest
                  /\ m.from # s.src
                  /\ PassBye(s, m)
               \/ /\ s.referedDest # None
                  /\ m.from \notin {s.src, s.referedDest}
                  /\ sent' = <<>>

\* A 200 for a BYE is the caller's or the agent's by its Contact.
OnOkBye(s, m) ==
  \/ /\ s.state # "Bye"
     /\ Drop
  \/ /\ s.state = "Bye"
     /\ s.referedDest = None
     /\ Forward(m.from, m)
     /\ EndCall(m.callID)
  \/ /\ s.state = "Bye"
     /\ s.referedDest # None
     /\ m.contact = s.src
     /\ IF s.referedToMedia = None
        THEN Forward(s.src, m)
        ELSE Forward(s.referedDest, [m EXCEPT !.from = s.referedDest])
     /\ EndCall(m.callID)
  \/ /\ s.state = "Bye"
     /\ s.referedDest # None
     /\ m.contact = s.referedDest
     /\ m.contact # s.src
     /\ Forward(s.src, [m EXCEPT !.from = s.dest])
     /\ EndCall(m.callID)
  \/ /\ s.state = "Bye"
     /\ s.referedDest # None
     /\ m.contact \notin {s.src, s.referedDest}
     /\ Drop

\* A cancelled call passes every 200 on, and a 200 for anything else is ignored.
OnOk(m) ==
  LET s == sessions[m.callID]
  IN  /\ m.type = "200"
      /\ UNCHANGED <<clients, fault>>
      /\ \/ /\ ~HasSession(m.callID)
            /\ Drop
         \/ /\ HasSession(m.callID)
            /\ s.state = "Cancel"
            /\ Forward(m.from, m)
            /\ UNCHANGED sessions
         \/ /\ HasSession(m.callID)
            /\ s.state # "Cancel"
            /\ \/ m.cseq = "INVITE" /\ OnOkInvite(s, m)
               \/ m.cseq = "BYE" /\ OnOkBye(s, m)
               \/ m.cseq \notin {"INVITE", "BYE"} /\ Drop

FinishedOnceConnected(s) == s.state # "Invited"
Finished(s) == s.state \in {"Busy", "Unavailable", "Cancel", "Bye"}

\* An ACK after a failure, a CANCEL or a BYE is the end of the call.
OnAck(m) ==
  /\ m.type = "ACK"
  /\ \/ /\ ~HasSession(m.callID)
        /\ Drop
     \/ /\ HasSession(m.callID)
        /\ Forward(m.to, m)
        /\ IF Finished(sessions[m.callID]) THEN EndCall(m.callID) ELSE UNCHANGED sessions
  /\ UNCHANGED <<clients, fault>>

\* handle: a type without a handler is ignored.
OnUnknown(m) ==
  /\ m.type \in {"202", "404", "garbled"}
  /\ Drop
  /\ UNCHANGED <<clients, fault>>
-----------------------------------------------------------------------------
Handle(m) ==
  /\ fault = "none"
  /\ \/ OnRegister(m) \/ OnInvite(m) \/ OnTrying(m) \/ OnRinging(m)
     \/ OnCancel(m) \/ OnReqTerminated(m) \/ OnBusy(m) \/ OnUnavailable(m)
     \/ OnRefer(m) \/ OnOk(m) \/ OnAck(m) \/ OnBye(m) \/ OnUnknown(m)

Next == \E m \in Wire : Handle(m)

Spec == Init /\ [][Next]_vars
-----------------------------------------------------------------------------
(***************************************************************************)
(* Properties.                                                             *)
(***************************************************************************)
\* While a referral is open the session has a dest: OnBusy, OnUnavailable,
\* OnBye and OnOk dereference dest without a test once referedDest is set.
ReferNeedsDest ==
  \A c \in CallIds : HasSession(c) =>
    (sessions[c].referedDest # None => sessions[c].dest # None)

\* No agent's media, and no Connected state, without an answered call: what
\* the server re-INVITEs the caller with belongs to a call that has a dest.
MediaNeedsAnswer ==
  \A c \in CallIds : HasSession(c) =>
    (sessions[c].referedToMedia # None \/ sessions[c].state = "Connected"
       => sessions[c].dest # None)

\* Every INVITE the server sends, forwarded or made up, has an SDP body: the
\* IVR's OnInvite and the phones take one for granted.
EveryInviteHasSdp ==
  \A i \in DOMAIN sent : sent[i].type = "INVITE" => sent[i].sdp # None

\* In a release build nobody is called directly but the IVR: an INVITE to any
\* other number is a re-INVITE of the caller or the INVITE of a referral, in
\* a session the IVR has answered.
OnlyIvrIsCalledDirectly ==
  ~DebugMode =>
    \A i \in DOMAIN sent :
      /\ sent[i].type = "INVITE"
      /\ sent[i].peer # Ivr
      => LET s == sessions[sent[i].callID]
         IN  /\ s # None
             /\ s.dest # None
             /\ \/ sent[i].peer = s.src
                \/ sent[i].peer = s.referedDest

\* Who called, with which media, never changes while the session lives: a
\* second INVITE with a Call-ID in use cannot take the call over, and what a
\* referral later offers the agent is what the caller offered.
CallerIsFixed ==
  [][\A c \in CallIds : HasSession(c) /\ sessions'[c] # None =>
       /\ sessions'[c].src = sessions[c].src
       /\ sessions'[c].fromMedia = sessions[c].fromMedia]_vars

\* Once answered, always answered: no handler takes dest away again.
DestIsKept ==
  [][\A c \in CallIds : HasSession(c) /\ sessions'[c] # None =>
       (sessions[c].dest # None => sessions'[c].dest # None)]_vars

\* A session in use ends in two steps: it is erased only when an earlier
\* message ended the call, or on an answer that has no body.
EndsAfterTeardown ==
  [][\A c \in CallIds : HasSession(c) /\ sessions'[c] = None =>
       \/ sessions[c].state \in {"Busy", "Unavailable", "Cancel", "Bye"}
       \/ sent' = <<>>]_vars
=============================================================================
