-------------------------- MODULE SipServerProofs --------------------------
(***************************************************************************)
(* What holds of the SIP server for every set of phones, Call-IDs and      *)
(* datagrams, in a release and in a debug build.                           *)
(*                                                                         *)
(* TypeOK is not inductive: in the middle of a referral the server makes   *)
(* up datagrams that carry session.dest as their sender, so a session that *)
(* has a referedDest must have a dest.  That is ReferNeedsDest, and with   *)
(* MediaNeedsAnswer it makes the invariant below.                          *)
(***************************************************************************)
EXTENDS SipServer, TLAPS

IInv == TypeOK /\ ReferNeedsDest /\ MediaNeedsAnswer

-----------------------------------------------------------------------------
(***************************************************************************)
(* Datagrams.                                                              *)
(***************************************************************************)
\* What may be sent: an INVITE only with an SDP body.
Sendable(d) == d \in Datagram /\ (d.type = "INVITE" => d.sdp # None)

\* A made-up datagram of the server is one: it has all the fields.
LEMMA MessageType ==
  ASSUME NEW type \in Types, NEW cseq \in Methods, NEW c \in CallIds,
         NEW from \in Numbers, NEW to \in Numbers, NEW peer \in Numbers
  PROVE  /\ Message(type, cseq, c, from, to, peer) \in Datagram
         /\ Message(type, cseq, c, from, to, peer).type = type
BY DEF Message, Datagram, OrNone

\* So is a request, whose CSeq names its method.
LEMMA RequestType ==
  ASSUME NEW method \in Methods, NEW c \in CallIds,
         NEW from \in Numbers, NEW to \in Numbers, NEW peer \in Numbers
  PROVE  /\ Request(method, c, from, to, peer) \in Datagram
         /\ Request(method, c, from, to, peer).type = method
BY MessageType DEF Request, Types

\* setContact leaves a datagram a datagram, and its first line alone or unusable.
LEMMA SetContactType ==
  ASSUME NEW m \in Datagram, NEW number \in Numbers
  PROVE  /\ SetContact(m, number) \in Datagram
         /\ SetContact(m, number).type \in {m.type, "garbled"}
         /\ SetContact(m, number).sdp = m.sdp
BY DEF SetContact, Datagram, Types, OrNone

\* endHandle makes no INVITE of what was none, and keeps the body.
LEMMA RouteSendable ==
  ASSUME NEW registry \in SUBSET Numbers, NEW number, NEW m, Sendable(m)
  PROVE  Sendable(EndHandle(registry, number, m))
<1>1. CASE number \in registry
  BY <1>1 DEF EndHandle, Sendable, Datagram
<1>2. CASE number \notin registry
  BY <1>2 DEF EndHandle, Sendable, Datagram, Types, Responses, Methods
<1>. QED  BY <1>1, <1>2

\* An ACK is made of a response by its first line and CSeq only.
LEMMA AckOfSendable ==
  ASSUME NEW m \in Datagram
  PROVE  Sendable(AckOf(m))
BY DEF AckOf, Sendable, Datagram, Types, Methods
-----------------------------------------------------------------------------
(***************************************************************************)
(* What a handler of datagram m does: to the session of m.callID, to every *)
(* other, and to the network.                                              *)
(***************************************************************************)
\* The states in which a session may be erased.
Over == {"Busy", "Unavailable", "Cancel", "Bye"}

\* The session t that a handler may make of session s.
Changed(s, t) ==
  \/ t = s
  \/ t = None /\ (s.state \in Over \/ sent' = <<>>)
  \/ \E st \in States \ {"Connected"} : t = [s EXCEPT !.state = st]
  \/ t = [s EXCEPT !.referedDest = None]
  \/ s.dest # None /\ \E a \in Numbers : t = [s EXCEPT !.referedDest = a]
  \/ \E d \in Numbers : t = [s EXCEPT !.dest = d, !.state = "Connected"]
  \/ s.referedDest # None /\ \E x \in Numbers : t = [s EXCEPT !.referedToMedia = x]

SessionStep(m) ==
  \E t \in OrNone(Session) :
    /\ sessions' = sessions \/ sessions' = [sessions EXCEPT ![m.callID] = t]
    /\ IF HasSession(m.callID)
       THEN Changed(sessions[m.callID], t)
       ELSE t = None \/ (HasSdp(m) /\ t = NewSession(m))

SendsOnly == \A i \in DOMAIN sent' : Sendable(sent'[i])

Effect(m) ==
  /\ clients' \subseteq Numbers
  /\ SessionStep(m)
  /\ sent' \in Seq(Datagram)
  /\ SendsOnly
  /\ fault' \in {"none", "OnRefer"}

\* A session that exists is one.
LEMMA SessionType ==
  ASSUME TypeOK, NEW c \in CallIds, HasSession(c)
  PROVE  sessions[c] \in Session
BY DEF TypeOK, HasSession, OrNone

\* A handler that changes no session.
LEMMA NoChange ==
  ASSUME TypeOK, NEW m \in Datagram, UNCHANGED sessions
  PROVE  SessionStep(m)
<1>1. PICK t : t = sessions[m.callID]
  OBVIOUS
<1>2. m.callID \in CallIds
  BY DEF Datagram
<1>3. t \in OrNone(Session)
  BY <1>1, <1>2 DEF TypeOK
<1>4. IF HasSession(m.callID) THEN Changed(sessions[m.callID], t) ELSE t = None
  BY <1>1 DEF HasSession, Changed
<1>. QED  BY <1>3, <1>4 DEF SessionStep

\* A handler that puts t in the place of the session.
LEMMA PutChange ==
  ASSUME NEW m \in Datagram, NEW t \in OrNone(Session), Put(m.callID, t),
         HasSession(m.callID), Changed(sessions[m.callID], t)
  PROVE  SessionStep(m)
BY DEF SessionStep, Put

\* setCallState, with a state that is not Connected.
LEMMA StateChange ==
  ASSUME TypeOK, NEW m \in Datagram, NEW st \in States \ {"Connected"},
         SetCallState(m.callID, st)
  PROVE  SessionStep(m)
<1>. DEFINE s == sessions[m.callID]
<1>. m.callID \in CallIds
  BY DEF Datagram
<1>1. CASE ~HasSession(m.callID)
  BY <1>1, NoChange DEF SetCallState
<1>2. CASE HasSession(m.callID)
  <2>1. s \in Session
    BY <1>2, SessionType
  <2>2. [s EXCEPT !.state = st] \in OrNone(Session)
    BY <2>1 DEF Session, OrNone
  <2>3. Put(m.callID, [s EXCEPT !.state = st])
    BY <1>2 DEF SetCallState, Put, TypeOK
  <2>4. Changed(s, [s EXCEPT !.state = st])
    BY DEF Changed
  <2>. QED  BY <1>2, <2>2, <2>3, <2>4, PutChange
<1>. QED  BY <1>1, <1>2

\* endCall.
LEMMA EndChange ==
  ASSUME NEW m \in Datagram, HasSession(m.callID), EndCall(m.callID),
         sessions[m.callID].state \in Over \/ sent' = <<>>
  PROVE  SessionStep(m)
<1>1. None \in OrNone(Session)
  BY DEF OrNone
<1>. QED  BY <1>1, PutChange DEF EndCall, Changed

\* The datagrams of one, two and three sends.
LEMMA OneSent ==
  ASSUME NEW a, Sendable(a), sent' = <<a>>
  PROVE  sent' \in Seq(Datagram) /\ SendsOnly
BY DEF SendsOnly, Sendable

LEMMA TwoSent ==
  ASSUME NEW a, NEW b, Sendable(a), Sendable(b), sent' = <<a, b>>
  PROVE  sent' \in Seq(Datagram) /\ SendsOnly
BY DEF SendsOnly, Sendable

LEMMA ThreeSent ==
  ASSUME NEW a, NEW b, NEW d, Sendable(a), Sendable(b), Sendable(d), sent' = <<a, b, d>>
  PROVE  sent' \in Seq(Datagram) /\ SendsOnly
BY DEF SendsOnly, Sendable

LEMMA NoneSent ==
  ASSUME sent' = <<>>
  PROVE  sent' \in Seq(Datagram) /\ SendsOnly
BY DEF SendsOnly

\* A handler that passes m on.
LEMMA Forwards ==
  ASSUME TypeOK, NEW number, NEW m, Sendable(m), Forward(number, m)
  PROVE  sent' \in Seq(Datagram) /\ SendsOnly
<1>1. Sendable(Route(number, m))
  BY RouteSendable DEF Route, TypeOK
<1>. QED  BY <1>1, OneSent DEF Forward
-----------------------------------------------------------------------------
(***************************************************************************)
(* One lemma per handler.                                                  *)
(***************************************************************************)
\* A handler that returns early has no effect.
LEMMA DropEffect ==
  ASSUME TypeOK, NEW m \in Datagram, Drop
  PROVE  SessionStep(m) /\ sent' \in Seq(Datagram) /\ SendsOnly
BY NoChange, NoneSent DEF Drop

LEMMA OnRegisterEffect ==
  ASSUME IInv, fault = "none", NEW m \in Datagram, OnRegister(m)
  PROVE  Effect(m)
<1>. DEFINE ok == [m EXCEPT !.type = "200", !.contact = m.from]
            registry == IF m.contact = ExpiresZero THEN clients ELSE clients \cup {m.from}
<1>1. /\ registry \subseteq Numbers
      /\ clients' \subseteq Numbers
  BY DEF IInv, TypeOK, OnRegister, Datagram
<1>2. Sendable(ok)
  BY DEF Sendable, Datagram, Types, Responses, OrNone
<1>3. sent' = <<EndHandle(registry, m.from, ok)>>
  BY DEF OnRegister
<1>4. sent' \in Seq(Datagram) /\ SendsOnly
  BY <1>1, <1>2, <1>3, RouteSendable, OneSent
<1>5. SessionStep(m)
  BY NoChange DEF IInv, OnRegister
<1>. QED  BY <1>1, <1>4, <1>5 DEF Effect, OnRegister

LEMMA OnInviteEffect ==
  ASSUME IInv, fault = "none", NEW m \in Datagram, OnInvite(m)
  PROVE  Effect(m)
<1>. USE DEF IInv
<1>0. clients' \subseteq Numbers /\ fault' = "none" /\ m.from \in Numbers /\ m.callID \in CallIds
  BY DEF OnInvite, TypeOK, Datagram
<1>1. CASE Drop
  BY <1>0, <1>1, DropEffect DEF Effect
<1>2. CASE /\ Forward(m.from, SetContact([m EXCEPT !.type = "404"], m.from))
           /\ UNCHANGED sessions
  <2>1. [m EXCEPT !.type = "404"] \in Datagram /\ [m EXCEPT !.type = "404"].type = "404"
    BY DEF Datagram, Types, Responses
  <2>2. Sendable(SetContact([m EXCEPT !.type = "404"], m.from))
    BY <2>1, <1>0, SetContactType DEF Sendable
  <2>. QED  BY <1>0, <1>2, <2>2, NoChange, Forwards DEF Effect
<1>3. CASE /\ HasSdp(m)
           /\ Emplace(m.callID, NewSession(m))
           /\ Forward(m.to, SetContact(m, m.from))
  <2>1. Sendable(SetContact(m, m.from))
    BY <1>0, <1>3, SetContactType DEF Sendable, HasSdp
  <2>2. NewSession(m) \in OrNone(Session)
    BY <1>3 DEF NewSession, Session, OrNone, States, HasSdp, Datagram
  <2>3. SessionStep(m)
    <3>1. CASE HasSession(m.callID)
      BY <1>3, <3>1, NoChange DEF Emplace
    <3>2. CASE ~HasSession(m.callID)
      BY <1>3, <2>2, <3>2 DEF Emplace, SessionStep, Put
    <3>. QED  BY <3>1, <3>2
  <2>. QED  BY <1>0, <1>3, <2>1, <2>3, Forwards DEF Effect
<1>. QED  BY <1>1, <1>2, <1>3 DEF OnInvite

\* OnTrying, OnRinging and OnCancel pass the datagram on.
LEMMA OnTryingEffect ==
  ASSUME IInv, fault = "none", NEW m \in Datagram, OnTrying(m) \/ OnRinging(m)
  PROVE  Effect(m)
<1>1. Sendable(m)
  BY DEF Sendable, OnTrying, OnRinging
<1>. QED  BY <1>1, NoChange, Forwards DEF Effect, OnTrying, OnRinging, IInv, TypeOK

LEMMA OnCancelEffect ==
  ASSUME IInv, fault = "none", NEW m \in Datagram, OnCancel(m)
  PROVE  Effect(m)
<1>1. Sendable(m)
  BY DEF Sendable, OnCancel
<1>2. SessionStep(m)
  BY StateChange DEF OnCancel, IInv, States
<1>. QED  BY <1>1, <1>2, Forwards DEF Effect, OnCancel, IInv, TypeOK

LEMMA OnReqTerminatedEffect ==
  ASSUME IInv, fault = "none", NEW m \in Datagram, OnReqTerminated(m)
  PROVE  Effect(m)
<1>1. Sendable(m) /\ Sendable(AckOf(m))
  BY AckOfSendable DEF Sendable, OnReqTerminated
<1>2. SessionStep(m)
  BY NoChange DEF OnReqTerminated, IInv
<1>. QED  BY <1>1, <1>2, Forwards DEF Effect, OnReqTerminated, IInv, TypeOK

LEMMA FailedEffect ==
  ASSUME IInv, fault = "none", NEW m \in Datagram, m.type # "INVITE",
         NEW st \in States \ {"Connected"}, Failed(m, st)
  PROVE  clients' = clients /\ fault' = fault
         /\ SessionStep(m) /\ sent' \in Seq(Datagram) /\ SendsOnly
<1>. DEFINE s == sessions[m.callID]
<1>. USE DEF IInv
<1>. m.callID \in CallIds /\ Sendable(m)
  BY DEF Datagram, Sendable
<1>0. clients' = clients /\ fault' = fault
  BY DEF Failed
<1>1. CASE Drop
  BY <1>0, <1>1, DropEffect
<1>2. CASE SetCallState(m.callID, st) /\ Forward(m.from, m)
  BY <1>0, <1>2, StateChange, Forwards
<1>3. CASE /\ HasSession(m.callID)
           /\ sent' = <<Route(FailureTarget(s, m), m), Route(s.referedDest, AckOf(m))>>
           /\ Put(m.callID, [s EXCEPT !.referedDest = None])
  <2>1. s \in Session
    BY <1>3, SessionType
  <2>2. [s EXCEPT !.referedDest = None] \in OrNone(Session)
    BY <2>1 DEF Session, OrNone
  <2>3. SessionStep(m)
    BY <1>3, <2>2, PutChange DEF Changed
  <2>4. /\ Sendable(Route(FailureTarget(s, m), m))
        /\ Sendable(Route(s.referedDest, AckOf(m)))
    BY RouteSendable, AckOfSendable DEF Route, TypeOK
  <2>. QED  BY <1>0, <1>3, <2>3, <2>4, TwoSent
<1>. QED  BY <1>1, <1>2, <1>3 DEF Failed

LEMMA OnBusyEffect ==
  ASSUME IInv, fault = "none", NEW m \in Datagram, OnBusy(m) \/ OnUnavailable(m)
  PROVE  Effect(m)
BY FailedEffect DEF OnBusy, OnUnavailable, States, Effect, IInv, TypeOK

\* The server makes a 202 and an INVITE up for a session that has a dest.
LEMMA OnReferEffect ==
  ASSUME IInv, fault = "none", NEW m \in Datagram, OnRefer(m)
  PROVE  Effect(m)
<1>. DEFINE s == sessions[m.callID]
            accepted == Message("202", "REFER", m.callID, s.dest, s.src, s.src)
            invite == [Request("INVITE", m.callID, s.src, m.referTo, s.src)
                         EXCEPT !.contact = s.src, !.sdp = s.fromMedia]
<1>. USE DEF IInv
<1>0. /\ m.callID \in CallIds
      /\ m.type = "REFER"
      /\ clients' \subseteq Numbers
      /\ fault' \in {"none", "OnRefer"}
  BY DEF OnRefer, TypeOK, Datagram
<1>1. CASE Drop
  BY <1>0, <1>1, DropEffect DEF Effect
<1>2. CASE Forward(s.dest, [m EXCEPT !.type = "480"]) /\ UNCHANGED sessions
  <2>1. Sendable([m EXCEPT !.type = "480"])
    BY DEF Sendable, Datagram, Types, Responses
  <2>. QED  BY <1>0, <1>2, <2>1, NoChange, Forwards DEF Effect
<1>3. CASE /\ HasSession(m.callID)
           /\ ReferAllowed(s)
           /\ m.referTo \in clients
           /\ sent' = <<Route(s.dest, accepted), Route(m.referTo, invite)>>
           /\ Put(m.callID, [s EXCEPT !.referedDest = m.referTo])
  <2>1. s \in Session /\ s.dest = Ivr /\ Ivr \in Numbers /\ m.referTo \in Numbers
    BY <1>0, <1>3, SessionType DEF ReferAllowed, Numbers, TypeOK
  <2>2. s.src \in Numbers /\ s.fromMedia \in Numbers /\ s.dest # None
    BY <2>1, SipAssumption DEF Session, Numbers
  <2>3. Sendable(accepted)
    <3>1. "202" \in Types /\ "REFER" \in Methods
      BY DEF Types, Responses, Methods
    <3>2. accepted \in Datagram /\ accepted.type = "202"
      BY <1>0, <2>1, <2>2, <3>1, MessageType
    <3>. QED  BY <3>2 DEF Sendable
  <2>4. Sendable(invite)
    <3>1. Request("INVITE", m.callID, s.src, m.referTo, s.src) \in Datagram
      BY <1>0, <2>1, <2>2, RequestType DEF Methods
    <3>2. invite \in Datagram /\ invite.sdp = s.fromMedia
      BY <2>2, <3>1 DEF Datagram, OrNone
    <3>. QED  BY <2>2, <3>2, SipAssumption DEF Sendable
  <2>5. SessionStep(m)
    <3>1. [s EXCEPT !.referedDest = m.referTo] \in OrNone(Session)
      BY <2>1 DEF Session, OrNone
    <3>2. Changed(s, [s EXCEPT !.referedDest = m.referTo])
      BY <2>1, <2>2 DEF Changed
    <3>. QED  BY <1>3, <3>1, <3>2, PutChange
  <2>6. sent' \in Seq(Datagram) /\ SendsOnly
    BY <1>3, <2>3, <2>4, RouteSendable, TwoSent DEF Route, TypeOK
  <2>. QED  BY <1>0, <2>5, <2>6 DEF Effect
<1>. QED  BY <1>1, <1>2, <1>3 DEF OnRefer

\* An answer of the callee makes its sender dest.
LEMMA AnsweredEffect ==
  ASSUME IInv, NEW m \in Datagram, m.type = "200", HasSession(m.callID),
         Answered(sessions[m.callID], m)
  PROVE  SessionStep(m) /\ sent' \in Seq(Datagram) /\ SendsOnly
<1>. DEFINE s == sessions[m.callID]
<1>. USE DEF IInv
<1>1. s \in Session /\ m.to \in Numbers
  BY SessionType DEF Datagram
<1>2. Connected(s, m) \in OrNone(Session)
  BY <1>1 DEF Connected, Session, OrNone, States
<1>3. Changed(s, Connected(s, m))
  BY <1>1 DEF Changed, Connected
<1>4. Sendable(SetContact(m, m.to))
  BY <1>1, SetContactType DEF Sendable
<1>. QED  BY <1>2, <1>3, <1>4, PutChange, Forwards DEF Answered

\* An agent's answer makes the server re-INVITE the caller in the name of dest.
LEMMA AgentAnsweredEffect ==
  ASSUME IInv, NEW m \in Datagram, HasSdp(m), HasSession(m.callID),
         AgentAnswered(sessions[m.callID], m)
  PROVE  SessionStep(m) /\ sent' \in Seq(Datagram) /\ SendsOnly
<1>. DEFINE s == sessions[m.callID]
<1>. USE DEF IInv
<1>1. /\ s \in Session /\ s.dest # None /\ s.referedDest # None
      /\ m.callID \in CallIds /\ m.sdp \in Numbers
  BY SessionType DEF AgentAnswered, Transfered, ReferNeedsDest, HasSdp, Datagram, OrNone
<1>2. s.src \in Numbers /\ s.dest \in Numbers
  BY <1>1 DEF Session, OrNone
<1>3. Sendable(Reinvite(s, m))
  <2>1. Request("INVITE", m.callID, s.dest, s.src, s.src) \in Datagram
    BY <1>1, <1>2, RequestType DEF Methods
  <2>2. Reinvite(s, m) \in Datagram /\ Reinvite(s, m).sdp = m.sdp
    BY <1>1, <1>2, <2>1 DEF Reinvite, Datagram, OrNone
  <2>. QED  BY <2>2 DEF Sendable, HasSdp
<1>4. [s EXCEPT !.referedToMedia = m.sdp] \in OrNone(Session)
  BY <1>1 DEF Session, OrNone
<1>5. Changed(s, [s EXCEPT !.referedToMedia = m.sdp])
  BY <1>1 DEF Changed
<1>. QED  BY <1>3, <1>4, <1>5, PutChange, Forwards DEF AgentAnswered

\* The end of a referral: two ACKs and a BYE.
LEMMA MediaUpdatedEffect ==
  ASSUME IInv, NEW m \in Datagram, HasSession(m.callID),
         MediaUpdated(sessions[m.callID], m)
  PROVE  SessionStep(m) /\ sent' \in Seq(Datagram) /\ SendsOnly
<1>. DEFINE s == sessions[m.callID]
            c == m.callID
<1>. USE DEF IInv
<1>1. s \in Session /\ s.dest # None /\ s.referedDest # None /\ c \in CallIds
  BY SessionType DEF MediaUpdated, UpdateMedia, ReferNeedsDest, Datagram
<1>2. s.src \in Numbers /\ s.dest \in Numbers /\ s.referedDest \in Numbers
  BY <1>1 DEF Session, OrNone
<1>3. /\ Request("ACK", c, s.src, s.referedDest, s.src) \in Datagram
      /\ Request("ACK", c, s.src, s.referedDest, s.src).type = "ACK"
      /\ Request("ACK", c, s.dest, s.src, s.dest) \in Datagram
      /\ Request("ACK", c, s.dest, s.src, s.dest).type = "ACK"
      /\ Request("BYE", c, s.src, s.dest, s.src) \in Datagram
      /\ Request("BYE", c, s.src, s.dest, s.src).type = "BYE"
  BY <1>1, <1>2, RequestType DEF Methods
<1>4. Sendable(AckAgent(s, c))
  BY <1>2, <1>3 DEF AckAgent, Sendable, Datagram, OrNone
<1>5. Sendable(AckClient(s, c))
  BY <1>2, <1>3 DEF AckClient, Sendable, Datagram, OrNone
<1>6. Sendable(ByeToIvr(s, c))
  BY <1>3 DEF ByeToIvr, Sendable
<1>7. sent' \in Seq(Datagram) /\ SendsOnly
  <2>1. /\ Sendable(Route(s.referedDest, AckAgent(s, c)))
        /\ Sendable(Route(s.src, AckClient(s, c)))
        /\ Sendable(Route(ByeToIvr(s, c).to, ByeToIvr(s, c)))
    BY <1>4, <1>5, <1>6, RouteSendable DEF Route, TypeOK
  <2>. QED  BY <2>1, ThreeSent DEF MediaUpdated
<1>. QED  BY <1>7, NoChange DEF MediaUpdated

LEMMA OnOkInviteEffect ==
  ASSUME IInv, NEW m \in Datagram, m.type = "200", HasSession(m.callID),
         OnOkInvite(sessions[m.callID], m)
  PROVE  SessionStep(m) /\ sent' \in Seq(Datagram) /\ SendsOnly
<1>. DEFINE s == sessions[m.callID]
<1>1. CASE Drop
  BY <1>1, DropEffect DEF IInv
<1>2. CASE EndCall(m.callID) /\ sent' = <<>>
  BY <1>2, EndChange, NoneSent
<1>3. CASE HasSdp(m) /\ (Answered(s, m) \/ AgentAnswered(s, m) \/ MediaUpdated(s, m))
  BY <1>3, AnsweredEffect, AgentAnsweredEffect, MediaUpdatedEffect
<1>. QED  BY <1>1, <1>2, <1>3 DEF OnOkInvite

LEMMA OnOkByeEffect ==
  ASSUME IInv, NEW m \in Datagram, m.type = "200", HasSession(m.callID),
         OnOkBye(sessions[m.callID], m)
  PROVE  SessionStep(m) /\ sent' \in Seq(Datagram) /\ SendsOnly
<1>. DEFINE s == sessions[m.callID]
<1>. USE DEF IInv
<1>0. s \in Session /\ Sendable(m)
  BY SessionType DEF Datagram, Sendable
<1>1. CASE Drop
  BY <1>1, DropEffect
<1>2. CASE s.state \in Over /\ Forward(m.from, m) /\ EndCall(m.callID)
  BY <1>0, <1>2, EndChange, Forwards
<1>3. CASE s.state \in Over /\ Forward(s.src, m) /\ EndCall(m.callID)
  BY <1>0, <1>3, EndChange, Forwards
<1>4. CASE /\ s.state \in Over
           /\ s.referedDest # None
           /\ Forward(s.referedDest, [m EXCEPT !.from = s.referedDest])
           /\ EndCall(m.callID)
  <2>1. Sendable([m EXCEPT !.from = s.referedDest])
    BY <1>0, <1>4 DEF Session, OrNone, Sendable, Datagram
  <2>. QED  BY <1>4, <2>1, EndChange, Forwards
<1>5. CASE /\ s.state \in Over
           /\ s.referedDest # None
           /\ Forward(s.src, [m EXCEPT !.from = s.dest])
           /\ EndCall(m.callID)
  <2>1. s.dest \in Numbers
    BY <1>0, <1>5 DEF ReferNeedsDest, Session, OrNone, Datagram
  <2>2. Sendable([m EXCEPT !.from = s.dest])
    BY <1>0, <2>1 DEF Sendable, Datagram
  <2>. QED  BY <1>5, <2>2, EndChange, Forwards
<1>. QED  BY <1>1, <1>2, <1>3, <1>4, <1>5 DEF OnOkBye, Over

LEMMA OnOkEffect ==
  ASSUME IInv, fault = "none", NEW m \in Datagram, OnOk(m)
  PROVE  Effect(m)
<1>0. m.type = "200" /\ clients' \subseteq Numbers /\ fault' = "none"
  BY DEF OnOk, IInv, TypeOK
<1>1. CASE Drop
  BY <1>0, <1>1, DropEffect DEF Effect, IInv
<1>2. CASE Forward(m.from, m) /\ UNCHANGED sessions
  <2>1. Sendable(m)
    BY <1>0 DEF Sendable
  <2>. QED  BY <1>0, <1>2, <2>1, NoChange, Forwards DEF Effect, IInv
<1>3. CASE HasSession(m.callID) /\ OnOkInvite(sessions[m.callID], m)
  BY <1>0, <1>3, OnOkInviteEffect DEF Effect
<1>4. CASE HasSession(m.callID) /\ OnOkBye(sessions[m.callID], m)
  BY <1>0, <1>4, OnOkByeEffect DEF Effect
<1>. QED  BY <1>1, <1>2, <1>3, <1>4 DEF OnOk

LEMMA OnByeEffect ==
  ASSUME IInv, fault = "none", NEW m \in Datagram, OnBye(m)
  PROVE  Effect(m)
<1>. DEFINE s == sessions[m.callID]
<1>. USE DEF IInv
<1>0. m.type = "BYE" /\ m.callID \in CallIds /\ clients' \subseteq Numbers /\ fault' = "none"
  BY DEF OnBye, TypeOK, Datagram
<1>1. CASE Drop
  BY <1>0, <1>1, DropEffect DEF Effect
<1>2. CASE HasSession(m.callID) /\ SetCallState(m.callID, "Bye")
  <2>0. SessionStep(m) /\ s \in Session /\ Sendable(m)
    BY <1>0, <1>2, StateChange, SessionType DEF States, Sendable
  <2>1. CASE Forward(m.to, m)
    BY <1>0, <2>0, <2>1, Forwards DEF Effect
  <2>2. CASE /\ s.referedDest # None
             /\ sent' = <<Route(m.to, m), Route(s.referedDest, ByeForAgent(s, m))>>
    <3>1. s.referedDest \in Numbers
      BY <2>0, <2>2 DEF Session, OrNone
    <3>2. Sendable(ByeForAgent(s, m))
      BY <3>1 DEF ByeForAgent, Sendable, Datagram, Types, Methods
    <3>3. Sendable(Route(m.to, m)) /\ Sendable(Route(s.referedDest, ByeForAgent(s, m)))
      BY <2>0, <3>2, RouteSendable DEF Route, TypeOK
    <3>. QED  BY <1>0, <2>0, <2>2, <3>3, TwoSent DEF Effect
  <2>3. CASE /\ s.referedDest # None
             /\ PassBye(s, m)
    <3>1. s.dest \in Numbers
      BY <1>0, <1>2, <2>0, <2>3 DEF ReferNeedsDest, Session, OrNone
    <3>2. [m EXCEPT !.from = s.dest] \in Datagram /\ [m EXCEPT !.from = s.dest].type = "BYE"
      BY <1>0, <3>1 DEF Datagram
    <3>3. Sendable(SetContact([m EXCEPT !.from = s.dest], s.dest))
      BY <3>1, <3>2, SetContactType DEF Sendable
    <3>. QED  BY <1>0, <2>0, <2>3, <3>3, Forwards DEF Effect, PassBye
  <2>4. CASE sent' = <<>>
    BY <1>0, <2>0, <2>4, NoneSent DEF Effect
  <2>. QED  BY <1>2, <2>1, <2>2, <2>3, <2>4 DEF OnBye, Drop
<1>. QED  BY <1>1, <1>2 DEF OnBye

LEMMA OnAckEffect ==
  ASSUME IInv, fault = "none", NEW m \in Datagram, OnAck(m)
  PROVE  Effect(m)
<1>. USE DEF IInv
<1>0. Sendable(m) /\ clients' \subseteq Numbers /\ fault' = "none"
  BY DEF OnAck, TypeOK, Sendable
<1>1. CASE Drop
  BY <1>0, <1>1, DropEffect DEF Effect
<1>2. CASE /\ HasSession(m.callID)
           /\ Forward(m.to, m)
           /\ \/ sessions[m.callID].state \in Over /\ EndCall(m.callID)
              \/ UNCHANGED sessions
  BY <1>0, <1>2, EndChange, NoChange, Forwards DEF Effect
<1>. QED  BY <1>1, <1>2 DEF OnAck, Finished, Over

\* Whatever datagram arrives, its handler has no other effect than Effect.
LEMMA HandleEffect ==
  ASSUME IInv, NEW m \in Datagram, Handle(m)
  PROVE  Effect(m)
<1>0. fault = "none"
  BY DEF Handle
<1>1. CASE OnUnknown(m)
  BY <1>0, <1>1, DropEffect DEF OnUnknown, Effect, IInv, TypeOK
<1>. QED
  BY <1>0, <1>1, OnRegisterEffect, OnInviteEffect, OnTryingEffect, OnCancelEffect,
     OnReqTerminatedEffect, OnBusyEffect, OnReferEffect, OnOkEffect, OnAckEffect,
     OnByeEffect
  DEF Handle
-----------------------------------------------------------------------------
(***************************************************************************)
(* The inductive invariant.                                                *)
(***************************************************************************)
\* What has become of call c's session after the handler of m.
LEMMA SessionAfter ==
  ASSUME TypeOK, NEW m \in Datagram, SessionStep(m), NEW c \in CallIds
  PROVE  \/ sessions'[c] = sessions[c]
         \/ /\ HasSession(c)
            /\ Changed(sessions[c], sessions'[c])
         \/ /\ ~HasSession(c)
            /\ HasSdp(m)
            /\ sessions'[c] = NewSession(m)
<1>1. PICK t \in OrNone(Session) :
        /\ sessions' = sessions \/ sessions' = [sessions EXCEPT ![m.callID] = t]
        /\ IF HasSession(m.callID)
           THEN Changed(sessions[m.callID], t)
           ELSE t = None \/ (HasSdp(m) /\ t = NewSession(m))
  BY DEF SessionStep
<1>2. CASE sessions' = sessions \/ c # m.callID
  BY <1>1, <1>2 DEF TypeOK
<1>3. CASE sessions' = [sessions EXCEPT ![m.callID] = t] /\ c = m.callID
  <2>1. sessions'[c] = t
    BY <1>3 DEF TypeOK
  <2>. QED  BY <1>1, <1>3, <2>1 DEF HasSession
<1>. QED  BY <1>1, <1>2, <1>3

\* Every reachable Changed keeps the two session invariants.
LEMMA ChangedKeeps ==
  ASSUME NEW s \in Session, NEW t \in Session, t # None, Changed(s, t),
         s.referedDest # None => s.dest # None,
         s.referedToMedia # None \/ s.state = "Connected" => s.dest # None
  PROVE  /\ t.referedDest # None => t.dest # None
         /\ t.referedToMedia # None \/ t.state = "Connected" => t.dest # None
<1>1. CASE \E st \in States \ {"Connected"} : t = [s EXCEPT !.state = st]
  BY <1>1 DEF Session
<1>2. CASE \E d \in Numbers : t = [s EXCEPT !.dest = d, !.state = "Connected"]
  BY <1>2, SipAssumption DEF Session
<1>3. CASE \/ t = [s EXCEPT !.referedDest = None]
           \/ s.dest # None /\ \E a \in Numbers : t = [s EXCEPT !.referedDest = a]
  BY <1>3 DEF Session
<1>4. CASE s.referedDest # None /\ \E x \in Numbers : t = [s EXCEPT !.referedToMedia = x]
  BY <1>4 DEF Session
<1>5. CASE t = s
  BY <1>5
<1>. QED  BY <1>1, <1>2, <1>3, <1>4, <1>5 DEF Changed

\* A handler keeps the table of sessions well-typed.
LEMMA SessionsType ==
  ASSUME TypeOK, NEW m \in Datagram, SessionStep(m)
  PROVE  sessions' \in [CallIds -> OrNone(Session)]
BY DEF SessionStep, TypeOK

\* A session after a handler of m is the new one or a Changed one.
LEMMA SessionsInv ==
  ASSUME IInv, NEW m \in Datagram, SessionStep(m), NEW c \in CallIds, HasSession(c)'
  PROVE  /\ sessions'[c].referedDest # None => sessions'[c].dest # None
         /\ sessions'[c].referedToMedia # None \/ sessions'[c].state = "Connected"
              => sessions'[c].dest # None
<1>. DEFINE s == sessions[c]
            t == sessions'[c]
<1>. USE DEF IInv
<1>1. t \in Session /\ t # None
  BY SessionsType DEF HasSession, OrNone
<1>2. CASE t = s
  BY <1>1, <1>2 DEF ReferNeedsDest, MediaNeedsAnswer, HasSession
<1>3. CASE HasSession(c) /\ Changed(s, t)
  <2>1. s \in Session
    BY <1>3, SessionType
  <2>2. /\ s.referedDest # None => s.dest # None
        /\ s.referedToMedia # None \/ s.state = "Connected" => s.dest # None
    BY <1>3 DEF ReferNeedsDest, MediaNeedsAnswer
  <2>. QED  BY <1>1, <1>3, <2>1, <2>2, ChangedKeeps
<1>4. CASE t = NewSession(m)
  BY <1>4 DEF NewSession
<1>. QED  BY <1>2, <1>3, <1>4, SessionAfter

LEMMA InitInv == Init => IInv
BY DEF Init, IInv, TypeOK, ReferNeedsDest, MediaNeedsAnswer, OrNone, HasSession

\* Every handler keeps the invariant, for it has the effect that is asked of one.
LEMMA HandleKeeps ==
  ASSUME IInv, NEW m \in Datagram, Handle(m)
  PROVE  IInv'
<1>1. Effect(m)
  BY HandleEffect
<1>2. TypeOK'
  BY <1>1, SessionsType DEF Effect, TypeOK, IInv
<1>3. ReferNeedsDest' /\ MediaNeedsAnswer'
  BY <1>1, SessionsInv DEF Effect, ReferNeedsDest, MediaNeedsAnswer
<1>. QED  BY <1>2, <1>3 DEF IInv

LEMMA NextInv ==
  ASSUME IInv, [Next]_vars
  PROVE  IInv'
<1>1. CASE UNCHANGED vars
  BY <1>1 DEF vars, IInv, TypeOK, ReferNeedsDest, MediaNeedsAnswer, HasSession
<1>2. CASE Next
  BY <1>2, SipServerAssumption, HandleKeeps DEF Next
<1>. QED  BY <1>1, <1>2

\* The invariant, for every set of phones, Call-IDs and datagrams.
THEOREM Invariance == Spec => []IInv
BY InitInv, NextInv, PTL DEF Spec
-----------------------------------------------------------------------------
(***************************************************************************)
(* The theorems.                                                           *)
(***************************************************************************)
\* The server's state has its type, and it only ever sends datagrams that
\* have all their fields: nothing made up for a referral has an empty sender.
THEOREM TypeCorrect == Spec => []TypeOK
<1>1. IInv => TypeOK
  BY DEF IInv
<1>. QED  BY <1>1, Invariance, PTL

\* A session in a referral has a dest: the handlers that dereference dest
\* because referedDest is set (OnBusy, OnUnavailable, OnBye, OnOk) are safe.
THEOREM ReferralHasDest == Spec => []ReferNeedsDest
<1>1. IInv => ReferNeedsDest
  BY DEF IInv
<1>. QED  BY <1>1, Invariance, PTL

\* No Connected state and no agent's media without a callee's answer.
THEOREM MediaHasAnswer == Spec => []MediaNeedsAnswer
<1>1. IInv => MediaNeedsAnswer
  BY DEF IInv
<1>. QED  BY <1>1, Invariance, PTL

\* Every INVITE the server sends, forwarded or made up, carries an SDP body.
THEOREM InvitesHaveSdp == Spec => []EveryInviteHasSdp
<1>1. Init => EveryInviteHasSdp
  BY DEF Init, EveryInviteHasSdp
<1>2. IInv /\ EveryInviteHasSdp /\ [Next]_vars => EveryInviteHasSdp'
  <2>. SUFFICES ASSUME IInv, EveryInviteHasSdp, [Next]_vars
                PROVE  EveryInviteHasSdp'
    OBVIOUS
  <2>1. CASE UNCHANGED vars
    BY <2>1 DEF vars, EveryInviteHasSdp
  <2>2. CASE Next
    <3>1. PICK m \in Wire : Handle(m)
      BY <2>2 DEF Next
    <3>2. Effect(m)
      BY <3>1, SipServerAssumption, HandleEffect
    <3>. QED  BY <3>2 DEF Effect, SendsOnly, Sendable, EveryInviteHasSdp
  <2>. QED  BY <2>1, <2>2
<1>. QED  BY <1>1, <1>2, Invariance, PTL DEF Spec

\* What a step may do to a session that lives on, or that ends.
LEMMA SessionHistory ==
  ASSUME IInv, [Next]_vars, NEW c \in CallIds, HasSession(c)
  PROVE  /\ sessions[c] \in Session
         /\ sessions'[c] = sessions[c] \/ Changed(sessions[c], sessions'[c])
<1>1. sessions[c] \in Session
  BY SessionType DEF IInv
<1>2. CASE UNCHANGED vars
  BY <1>1, <1>2 DEF vars
<1>3. CASE Next
  <2>1. PICK m \in Wire : Handle(m)
    BY <1>3 DEF Next
  <2>2. m \in Datagram /\ SessionStep(m)
    BY <2>1, SipServerAssumption, HandleEffect DEF Effect
  <2>. QED  BY <1>1, <2>2, SessionAfter DEF IInv
<1>. QED  BY <1>2, <1>3

\* No handler changes who called and with which media, or takes dest away.
LEMMA SessionKeeps ==
  ASSUME NEW s \in Session, NEW t, t # None, t = s \/ Changed(s, t)
  PROVE  /\ t.src = s.src
         /\ t.fromMedia = s.fromMedia
         /\ s.dest # None => t.dest # None
<1>1. CASE \/ \E st \in States \ {"Connected"} : t = [s EXCEPT !.state = st]
           \/ t = [s EXCEPT !.referedDest = None]
           \/ \E a \in Numbers : t = [s EXCEPT !.referedDest = a]
           \/ \E x \in Numbers : t = [s EXCEPT !.referedToMedia = x]
  BY <1>1 DEF Session
<1>2. CASE \E d \in Numbers : t = [s EXCEPT !.dest = d, !.state = "Connected"]
  BY <1>2, SipAssumption DEF Session
<1>. QED  BY <1>1, <1>2 DEF Changed

\* No handler erases a session whose call is not over, and sends something.
LEMMA SessionEnds ==
  ASSUME NEW s \in Session, Changed(s, None)
  PROVE  s.state \in Over \/ sent' = <<>>
<1>1. ASSUME NEW st \in States, NEW d \in OrNone(Numbers), NEW a \in OrNone(Numbers),
             NEW x \in OrNone(Numbers)
      PROVE  /\ None # s
             /\ None # [s EXCEPT !.state = st]
             /\ None # [s EXCEPT !.referedDest = a]
             /\ None # [s EXCEPT !.dest = d, !.state = st]
             /\ None # [s EXCEPT !.referedToMedia = x]
  BY NoneAssumption DEF Session
<1>. QED  BY <1>1 DEF Changed, OrNone, States

\* Nobody can take a session over: its caller and the media it offers agents
\* stay what the first INVITE said.
THEOREM CallerStays == Spec => CallerIsFixed
<1>1. IInv /\ [Next]_vars =>
        [\A c \in CallIds : HasSession(c) /\ sessions'[c] # None =>
           /\ sessions'[c].src = sessions[c].src
           /\ sessions'[c].fromMedia = sessions[c].fromMedia]_vars
  BY SessionHistory, SessionKeeps
<1>. QED  BY <1>1, Invariance, PTL DEF Spec, CallerIsFixed

\* An answered call stays answered until its session ends.
THEOREM DestStays == Spec => DestIsKept
<1>1. IInv /\ [Next]_vars =>
        [\A c \in CallIds : HasSession(c) /\ sessions'[c] # None =>
           (sessions[c].dest # None => sessions'[c].dest # None)]_vars
  BY SessionHistory, SessionKeeps
<1>. QED  BY <1>1, Invariance, PTL DEF Spec, DestIsKept

\* A session is erased only when the call is over, or on an answer without body.
THEOREM EndsInTwoSteps == Spec => EndsAfterTeardown
<1>1. IInv /\ [Next]_vars =>
        [\A c \in CallIds : HasSession(c) /\ sessions'[c] = None =>
           \/ sessions[c].state \in {"Busy", "Unavailable", "Cancel", "Bye"}
           \/ sent' = <<>>]_vars
  BY SessionHistory, SessionEnds, NoneAssumption DEF Over
<1>. QED  BY <1>1, Invariance, PTL DEF Spec, EndsAfterTeardown
-----------------------------------------------------------------------------
(***************************************************************************)
(* Who is invited.                                                         *)
(***************************************************************************)
\* No INVITE is among the datagrams sent.
NoInvite == \A i \in DOMAIN sent' : sent'[i].type # "INVITE"

\* An INVITE for the caller or the agent of an answered call.
InCall(d) ==
  LET s == sessions'[d.callID]
  IN  s # None /\ s.dest # None /\ (d.peer = s.src \/ d.peer = s.referedDest)

\* endHandle makes no INVITE, and delivers one only to whom it was meant for.
LEMMA RouteInvite ==
  ASSUME NEW registry, NEW number, NEW m \in Datagram,
         EndHandle(registry, number, m).type = "INVITE"
  PROVE  /\ m.type = "INVITE"
         /\ EndHandle(registry, number, m).peer = number
         /\ EndHandle(registry, number, m).callID = m.callID
         /\ number \in registry
BY DEF EndHandle, Datagram

\* A handler that passes on something else than an INVITE invites nobody.
LEMMA ForwardsNoInvite ==
  ASSUME NEW number, NEW m \in Datagram, m.type # "INVITE", Forward(number, m)
  PROVE  NoInvite
BY RouteInvite DEF Forward, Route, NoInvite

\* OnInvite lets nobody be called but the IVR, in a release build.
LEMMA OnInviteInvites ==
  ASSUME ~DebugMode, NEW m \in Datagram, OnInvite(m),
         NEW i \in DOMAIN sent', sent'[i].type = "INVITE"
  PROVE  sent'[i].peer = Ivr
<1>1. m.from \in Numbers /\ m.to \in Numbers
  BY DEF Datagram
<1>2. CASE Drop
  BY <1>2 DEF Drop
<1>3. CASE Forward(m.from, SetContact([m EXCEPT !.type = "404"], m.from))
  <2>1. [m EXCEPT !.type = "404"] \in Datagram /\ [m EXCEPT !.type = "404"].type = "404"
    BY DEF Datagram, Types, Responses
  <2>2. /\ SetContact([m EXCEPT !.type = "404"], m.from) \in Datagram
        /\ SetContact([m EXCEPT !.type = "404"], m.from).type # "INVITE"
    BY <1>1, <2>1, SetContactType
  <2>. QED  BY <1>3, <2>2, ForwardsNoInvite DEF NoInvite
<1>4. CASE Reachable(m.to) /\ Forward(m.to, SetContact(m, m.from))
  <2>1. SetContact(m, m.from) \in Datagram
    BY <1>1, SetContactType
  <2>2. i = 1 /\ sent'[1] = EndHandle(clients, m.to, SetContact(m, m.from))
    BY <1>4 DEF Forward, Route
  <2>. QED  BY <1>4, <2>1, <2>2, RouteInvite DEF Reachable
<1>. QED  BY <1>2, <1>3, <1>4 DEF OnInvite

\* OnRefer invites the agent that becomes the session's referedDest.
LEMMA OnReferInvites ==
  ASSUME IInv, NEW m \in Datagram, OnRefer(m),
         NEW i \in DOMAIN sent', sent'[i].type = "INVITE"
  PROVE  InCall(sent'[i])
<1>. DEFINE s == sessions[m.callID]
            accepted == Message("202", "REFER", m.callID, s.dest, s.src, s.src)
            invite == [Request("INVITE", m.callID, s.src, m.referTo, s.src)
                         EXCEPT !.contact = s.src, !.sdp = s.fromMedia]
            t == [s EXCEPT !.referedDest = m.referTo]
<1>1. CASE Drop
  BY <1>1 DEF Drop
<1>2. CASE Forward(s.dest, [m EXCEPT !.type = "480"])
  <2>1. [m EXCEPT !.type = "480"] \in Datagram /\ [m EXCEPT !.type = "480"].type = "480"
    BY DEF Datagram, Types, Responses
  <2>. QED  BY <1>2, <2>1, ForwardsNoInvite DEF NoInvite
<1>3. CASE /\ HasSession(m.callID)
           /\ ReferAllowed(s)
           /\ m.referTo \in clients
           /\ sent' = <<Route(s.dest, accepted), Route(m.referTo, invite)>>
           /\ Put(m.callID, t)
  <2>1. s \in Session /\ m.callID \in CallIds /\ s.dest = Ivr /\ Ivr # None /\ Ivr \in Numbers
    BY <1>3, SessionType, SipAssumption DEF IInv, ReferAllowed, Datagram, Numbers
  <2>2. t \in Session /\ t.dest = s.dest /\ t.referedDest = m.referTo
    BY <1>3, <2>1 DEF Session, OrNone, IInv, TypeOK
  <2>3. sessions'[m.callID] = t /\ t # None
    BY <1>3, <2>1, <2>2, NoneAssumption DEF Put, IInv, TypeOK
  <2>4. Route(s.dest, accepted).type # "INVITE"
    BY DEF Route, EndHandle, Message
  <2>5. /\ Route(m.referTo, invite).callID = m.callID
        /\ Route(m.referTo, invite).peer = m.referTo
    BY <1>3 DEF Route, EndHandle, Request, Message
  <2>6. i = 2 /\ sent'[2] = Route(m.referTo, invite)
    BY <1>3, <2>4
  <2>. QED  BY <2>1, <2>2, <2>3, <2>5, <2>6 DEF InCall
<1>. QED  BY <1>1, <1>2, <1>3 DEF OnRefer

\* The answer to a referral re-invites the caller.
LEMMA OnOkInvites ==
  ASSUME IInv, NEW m \in Datagram, OnOk(m),
         NEW i \in DOMAIN sent', sent'[i].type = "INVITE"
  PROVE  InCall(sent'[i])
<1>. DEFINE s == sessions[m.callID]
            c == m.callID
<1>0. m.type = "200" /\ c \in CallIds
  BY DEF OnOk, Datagram
<1>1. CASE Drop \/ sent' = <<>>
  BY <1>1 DEF Drop
<1>2. CASE Forward(m.from, m) \/ Forward(s.src, m)
  BY <1>0, <1>2, ForwardsNoInvite DEF NoInvite
<1>3. CASE Forward(m.from, SetContact(m, m.to))
  BY <1>0, <1>3, SetContactType, ForwardsNoInvite DEF NoInvite, Datagram
<1>4. CASE HasSession(c) /\ AgentAnswered(s, m)
  <2>. DEFINE t == [s EXCEPT !.referedToMedia = m.sdp]
  <2>1. s \in Session /\ s.dest # None
    BY <1>0, <1>4, SessionType DEF IInv, ReferNeedsDest, AgentAnswered, Transfered
  <2>2. t \in Session /\ t.dest = s.dest /\ t.src = s.src
    BY <2>1 DEF Session, Datagram
  <2>3. sessions'[c] = t /\ t # None
    BY <1>0, <1>4, <2>2, NoneAssumption DEF AgentAnswered, Put, IInv, TypeOK
  <2>4. Reinvite(s, m).type = "INVITE" /\ Reinvite(s, m).callID = c
    BY DEF Reinvite, Request, Message
  <2>5. i = 1 /\ sent'[1] = Route(s.src, Reinvite(s, m))
    BY <1>4 DEF AgentAnswered, Forward
  <2>6. sent'[i].callID = c /\ sent'[i].peer = s.src
    BY <2>4, <2>5 DEF Route, EndHandle, Reinvite, Request, Message
  <2>. QED  BY <2>1, <2>2, <2>3, <2>6 DEF InCall
<1>5. CASE MediaUpdated(s, m)
  <2>1. /\ Route(s.referedDest, AckAgent(s, c)).type # "INVITE"
        /\ Route(s.src, AckClient(s, c)).type # "INVITE"
        /\ Route(ByeToIvr(s, c).to, ByeToIvr(s, c)).type # "INVITE"
    BY DEF Route, EndHandle, AckAgent, AckClient, ByeToIvr, Request, Message
  <2>. QED  BY <1>5, <2>1 DEF MediaUpdated
<1>6. CASE \/ Forward(s.referedDest, [m EXCEPT !.from = s.referedDest])
           \/ Forward(s.src, [m EXCEPT !.from = s.dest])
  <2>1. /\ Route(s.referedDest, [m EXCEPT !.from = s.referedDest]).type # "INVITE"
        /\ Route(s.src, [m EXCEPT !.from = s.dest]).type # "INVITE"
    BY <1>0 DEF Route, EndHandle, Datagram
  <2>. QED  BY <1>6, <2>1 DEF Forward
<1>. QED  BY <1>1, <1>2, <1>3, <1>4, <1>5, <1>6 DEF OnOk, OnOkInvite, OnOkBye, Answered

\* The other handlers invite nobody.
LEMMA OthersInviteNobody ==
  ASSUME NEW m \in Datagram,
         \/ OnRegister(m) \/ OnTrying(m) \/ OnRinging(m) \/ OnCancel(m)
         \/ OnReqTerminated(m) \/ OnBusy(m) \/ OnUnavailable(m) \/ OnAck(m)
         \/ OnBye(m) \/ OnUnknown(m)
  PROVE  NoInvite
<1>. DEFINE s == sessions[m.callID]
<1>1. CASE OnRegister(m)
  <2>. DEFINE ok == [m EXCEPT !.type = "200", !.contact = m.from]
              registry == IF m.contact = ExpiresZero THEN clients ELSE clients \cup {m.from}
  <2>1. EndHandle(registry, m.from, ok).type # "INVITE"
    BY DEF EndHandle, Datagram
  <2>. QED  BY <1>1, <2>1 DEF OnRegister, NoInvite
<1>2. CASE OnTrying(m) \/ OnRinging(m) \/ OnCancel(m)
  BY <1>2, ForwardsNoInvite DEF OnTrying, OnRinging, OnCancel
<1>3. CASE OnReqTerminated(m)
  BY <1>3, ForwardsNoInvite, AckOfSendable DEF OnReqTerminated, AckOf, Sendable, Datagram
<1>4. CASE OnBusy(m) \/ OnUnavailable(m)
  <2>1. m.type # "INVITE"
    BY <1>4 DEF OnBusy, OnUnavailable
  <2>2. /\ Route(FailureTarget(s, m), m).type # "INVITE"
        /\ Route(s.referedDest, AckOf(m)).type # "INVITE"
    BY <2>1 DEF Route, EndHandle, AckOf, Datagram
  <2>. QED  BY <1>4, <2>1, <2>2, ForwardsNoInvite
            DEF OnBusy, OnUnavailable, Failed, Drop, NoInvite
<1>5. CASE OnAck(m)
  BY <1>5, ForwardsNoInvite DEF OnAck, Drop, NoInvite
<1>6. CASE OnBye(m)
  <2>1. /\ Route(m.to, m).type # "INVITE"
        /\ Route(s.referedDest, ByeForAgent(s, m)).type # "INVITE"
        /\ Route(s.src, SetContact([m EXCEPT !.from = s.dest], s.dest)).type # "INVITE"
    BY <1>6 DEF OnBye, Route, EndHandle, ByeForAgent, SetContact, Datagram
  <2>. QED  BY <1>6, <2>1 DEF OnBye, PassBye, Forward, Drop, NoInvite
<1>7. CASE OnUnknown(m)
  BY <1>7 DEF OnUnknown, Drop, NoInvite
<1>. QED  BY <1>1, <1>2, <1>3, <1>4, <1>5, <1>6, <1>7

\* In a release build a phone is invited only by the referral of an answered
\* call, or called back by it; whoever calls a number, only the IVR is called.
THEOREM OnlyIvrIsCalled == Spec => []OnlyIvrIsCalledDirectly
<1>1. Init => OnlyIvrIsCalledDirectly
  BY DEF Init, OnlyIvrIsCalledDirectly
<1>2. IInv /\ OnlyIvrIsCalledDirectly /\ [Next]_vars => OnlyIvrIsCalledDirectly'
  <2>. SUFFICES ASSUME IInv, OnlyIvrIsCalledDirectly, [Next]_vars
                PROVE  OnlyIvrIsCalledDirectly'
    OBVIOUS
  <2>1. CASE UNCHANGED vars
    BY <2>1 DEF vars, OnlyIvrIsCalledDirectly
  <2>2. CASE Next
    <3>1. PICK m \in Wire : Handle(m)
      BY <2>2 DEF Next
    <3>2. m \in Datagram
      BY <3>1, SipServerAssumption
    <3>3. SUFFICES ASSUME ~DebugMode, NEW i \in DOMAIN sent', sent'[i].type = "INVITE",
                          sent'[i].peer # Ivr
                   PROVE  InCall(sent'[i])
      BY DEF OnlyIvrIsCalledDirectly, InCall
    <3>. QED  BY <3>1, <3>2, <3>3, OnInviteInvites, OnReferInvites, OnOkInvites,
                 OthersInviteNobody
              DEF Handle, NoInvite
  <2>. QED  BY <2>1, <2>2
<1>. QED  BY <1>1, <1>2, Invariance, PTL DEF Spec
=============================================================================
