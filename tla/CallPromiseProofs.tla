------------------------- MODULE CallPromiseProofs -------------------------
(***************************************************************************)
(* What callers and agents are told, for every set of callers and agents,  *)
(* and whatever the network does: the invariant Told, of what is said of   *)
(* the end of a call, and Usual, of every datagram.                        *)
(***************************************************************************)
EXTENDS CallFlowProofs

\* The datagrams of call c on their way from n to the server, and from the
\* server to n.
Rises(c, n) == {m \in In(uplink[n]) : m.callID = c}
Falls(c, n) == {m \in In(downlink[n]) : m.callID = c}
-----------------------------------------------------------------------------
(***************************************************************************)
(* Who says that a call is over.  Whatever the network does, a caller's    *)
(* phone has ended the call when it sends a BYE or answers one, an agent's *)
(* says by its Contact that it is an agent's, and what the IVR gets, and   *)
(* echoes, is the caller's or bears no Contact of the caller's.            *)
(***************************************************************************)
IsBye(m) == m.type \in {"BYE", "200"} /\ m.cseq = "BYE"

Parting(c, m) == Ended(c) \/ (m.contact # c /\ m.from \notin Agents)

Spoken(c, n, m) ==
  /\ m.type # "CANCEL"
  /\ m.type = "BYE" =>
       /\ n = c => m.from = c /\ m.to = Ivr /\ Ended(c)
       /\ n # c => m.from = n /\ m.to = c
  /\ m.type = "200" /\ m.cseq = "BYE" =>
       /\ n = c => Ended(c)
       /\ n = Ivr => Parting(c, m)
       /\ n \in Agents => m.contact = n /\ m.from = c

Heard(c, n, m) ==
  /\ m.type = "INVITE" => m.cseq = "INVITE" /\ (n = Ivr => m.from = c)
  /\ IsBye(m) /\ n = Ivr => Parting(c, m)
  /\ n \in Agents /\ m.type \in {"BYE", "CANCEL"} => m.from = c
  /\ n \in Agents /\ m.type = "200" /\ m.cseq = "BYE" => Ended(c)
  /\ n \in Agents /\ m.type = "CANCEL" => Ended(c)

KnownCaller(c) ==
  /\ sessions[c] # None => sessions[c].src = c
  /\ calls[c] # None => calls[c].src = c

ToldOf(c) ==
  /\ KnownCaller(c)
  /\ \A n \in Numbers : /\ \A m \in Rises(c, n) : Spoken(c, n, m)
                        /\ \A m \in Falls(c, n) : Heard(c, n, m)

Told == \A c \in CallIds : ToldOf(c)

\* Three datagrams.
LEMMA InThree ==
  ASSUME NEW m, NEW k, NEW l
  PROVE  In(<<m, k, l>>) = {m, k, l}
<1>1. Len(<<m, k, l>>) = 3 /\ <<m, k, l>>[1] = m /\ <<m, k, l>>[2] = k /\ <<m, k, l>>[3] = l
  OBVIOUS
<1> QED BY <1>1 DEF In

\* What a handler sends is heard as it should be.
Says(c) == \A x \in In(sent') : Heard(c, x.peer, x)

\* endHandle: what may be heard at k may be sent there; the 404 says nothing.
LEMMA RouteHeard ==
  ASSUME NEW c \in CallIds, NEW m \in Of(c), NEW k \in Party(c), Heard(c, k, m)
  PROVE  Heard(c, Server!Route(k, m).peer, Server!Route(k, m))
<1>1. CASE k \in clients
  <2>1. Server!Route(k, m) = [m EXCEPT !.peer = k]
    BY <1>1 DEF Server!Route, Server!EndHandle
  <2>2. /\ [m EXCEPT !.peer = k].peer = k /\ [m EXCEPT !.peer = k].type = m.type
        /\ [m EXCEPT !.peer = k].cseq = m.cseq /\ [m EXCEPT !.peer = k].from = m.from
        /\ [m EXCEPT !.peer = k].contact = m.contact
    BY DEF Of, Datagram
  <2> QED BY <2>1, <2>2 DEF Heard, Parting, IsBye
<1>2. CASE k \notin clients
  <2>1. Server!Route(k, m).type \in {"404", "garbled"}
    BY <1>2 DEF Server!Route, Server!EndHandle, Of, Datagram
  <2> QED BY <2>1 DEF Heard, IsBye
<1> QED BY <1>1, <1>2

\* A handler that passes one datagram on.
LEMMA ForwardSays ==
  ASSUME NEW c \in CallIds, NEW m \in Of(c), NEW k \in Party(c), Heard(c, k, m),
         Server!Forward(k, m)
  PROVE  Says(c)
<1>1. In(sent') = {Server!Route(k, m)}
  BY InOne DEF Server!Forward
<1> QED BY <1>1, RouteHeard DEF Says

\* A handler that returns early.
LEMMA DropSays ==
  ASSUME NEW c, sent' = <<>>
  PROVE  Says(c)
BY InNone DEF Says

\* What the server knows when datagram m of call c arrives from n.
Arrives(c, n, m) ==
  /\ m \in Of(c) /\ m.peer = n /\ Spoken(c, n, m)
  /\ sessions[c] # None => sessions[c].src = c
  /\ m.type = "INVITE" => m = Invitation(c)

\* Parties that say something of the call: its caller, the IVR, an agent.
LEMMA ArrivesFrom ==
  ASSUME NEW c \in CallIds, NEW n, NEW m, Arrives(c, n, m)
  PROVE  /\ m.callID = c /\ m.peer = n /\ n \in Party(c)
         /\ m.from \in Party(c) /\ m.to \in Party(c)
         /\ c # Ivr /\ c \notin Agents /\ Ivr \notin Agents
BY PartyType, SipAssumption, CallFlowAssumption DEF Arrives, Of, Party

\* A made-up datagram is its fields.
LEMMA MadeUp ==
  ASSUME NEW type, NEW cseq, NEW c, NEW from, NEW to, NEW peer
  PROVE  /\ Server!Message(type, cseq, c, from, to, peer) = Message(type, cseq, c, from, to, peer)
         /\ Message(type, cseq, c, from, to, peer) =
              [type |-> type, cseq |-> cseq, callID |-> c, from |-> from, to |-> to,
               contact |-> None, referTo |-> None, sdp |-> None, peer |-> peer]
BY DEF Server!Message, Message

\* A datagram that is neither INVITE nor BYE, CANCEL or 200 says nothing here.
LEMMA PlainHeard ==
  ASSUME NEW c, NEW n, NEW m, m.type \notin {"INVITE", "BYE", "CANCEL", "200"}
  PROVE  Heard(c, n, m)
BY DEF Heard, IsBye

\* Nor does a 200 for something else than a BYE.
LEMMA OtherHeard ==
  ASSUME NEW c, NEW n, NEW m, m.type = "200", m.cseq # "BYE"
  PROVE  Heard(c, n, m)
BY DEF Heard, IsBye

\* The INVITE of the caller.
LEMMA OnInviteSays ==
  ASSUME NEW c \in CallIds, NEW n, NEW m, Arrives(c, n, m), Server!OnInvite(m)
  PROVE  Says(c)
<1>0. m \in Of(c) /\ m.from = c /\ m.cseq = "INVITE" /\ m.contact = c /\ m.to \in Party(c)
      /\ m.contact # None /\ c \in Party(c) /\ m.to = Ivr
  <2>1. m = Invitation(c) /\ m \in Of(c)
    BY DEF Arrives, Server!OnInvite
  <2>2. Own("INVITE", c, c, Ivr) =
          [type |-> "INVITE", cseq |-> "INVITE", callID |-> c, from |-> c, to |-> Ivr,
           contact |-> c, referTo |-> None, sdp |-> None, peer |-> c]
    BY DEF Own, Request, Message
  <2>3. m.from = c /\ m.cseq = "INVITE" /\ m.contact = c /\ m.to = Ivr
    BY <2>1, <2>2 DEF Invitation
  <2> QED BY <2>1, <2>3, PartyType
<1>1. CASE sent' = <<>>
  BY <1>1, DropSays
<1>2. CASE Server!Forward(m.from, Server!SetContact([m EXCEPT !.type = "404"], m.from))
  <2> DEFINE x == Server!SetContact([m EXCEPT !.type = "404"], m.from)
  <2>1. x \in Of(c)
    BY <1>0, RewriteOf DEF Server!SetContact, SetContact, Types, Responses
  <2>2. x.type \in {"404", "garbled"}
    BY <1>0 DEF Server!SetContact, Of, Datagram
  <2> HIDE DEF x
  <2>3. Heard(c, c, x)
    BY <2>2, PlainHeard
  <2> QED BY <1>0, <1>2, <2>1, <2>3, ForwardSays DEF x
<1>3. CASE Server!Forward(m.to, Server!SetContact(m, m.from))
  <2> DEFINE x == Server!SetContact(m, m.from)
  <2>1. x \in Of(c)
    BY <1>0, RewriteOf DEF Server!SetContact, SetContact
  <2>2. x.cseq = "INVITE" /\ x.from = c /\ x.type = "INVITE"
    BY <1>0 DEF Server!SetContact, Of, Datagram, Server!OnInvite
  <2> HIDE DEF x
  <2>3. Heard(c, Ivr, x)
    BY <2>2, SipAssumption, CallFlowAssumption DEF Heard, IsBye
  <2> QED BY <1>0, <1>3, <2>1, <2>3, ForwardSays DEF x
<1> QED BY <1>1, <1>2, <1>3 DEF Server!OnInvite, Server!Drop

\* Handlers of what says nothing.
LEMMA PassingSays ==
  ASSUME NEW c \in CallIds, NEW n, NEW m, Arrives(c, n, m),
         \/ Server!OnTrying(m) \/ Server!OnRinging(m) \/ Server!OnReqTerminated(m)
         \/ Server!OnAck(m)
  PROVE  Says(c)
<1>0. m \in Of(c) /\ m.from \in Party(c) /\ m.to \in Party(c) /\ m.callID = c
  BY ArrivesFrom DEF Arrives
<1>1. CASE Server!OnTrying(m) \/ Server!OnRinging(m)
  BY <1>0, <1>1, PlainHeard, ForwardSays DEF Server!OnTrying, Server!OnRinging
<1>2. CASE Server!OnReqTerminated(m)
  <2>1. Server!AckOf(m) \in Of(c) /\ Server!AckOf(m).type = "ACK"
    <3>1. Server!AckOf(m) \in Of(c)
      BY <1>0, RewriteOf
    <3>2. Server!AckOf(m).type = "ACK"
      BY <1>0 DEF Server!AckOf, Of, Datagram
    <3> QED BY <3>1, <3>2
  <2> QED BY <1>0, <1>2, <2>1, PlainHeard, ForwardSays DEF Server!OnReqTerminated
<1>3. CASE Server!OnAck(m)
  BY <1>0, <1>3, PlainHeard, ForwardSays, DropSays DEF Server!OnAck, Server!Drop
<1> QED BY <1>1, <1>2, <1>3

\* A failure.
LEMMA FailedSays ==
  ASSUME ServerKeeps, NEW c \in CallIds, OwnSession(c), NEW n, NEW m, Arrives(c, n, m), NEW st,
         m.type \in {"480", "486"}, Server!Failed(m, st)
  PROVE  Says(c)
<1>0. m \in Of(c) /\ m.from \in Party(c) /\ m.to \in Party(c) /\ m.callID = c
  BY ArrivesFrom DEF Arrives
<1>1. CASE sent' = <<>>
  BY <1>1, DropSays
<1>2. CASE Server!Forward(m.from, m)
  BY <1>0, <1>2, PlainHeard, ForwardSays
<1>3. CASE /\ sessions[c] # None /\ sessions[c].referedDest # None
           /\ sent' = <<Server!Route(sessions[c].dest, m),
                        Server!Route(sessions[c].referedDest, Server!AckOf(m))>>
  <2>1. sessions[c].dest \in Party(c) /\ sessions[c].referedDest \in Party(c)
    BY <1>3, SessionOf
  <2>2. Server!AckOf(m) \in Of(c) /\ Server!AckOf(m).type = "ACK"
    <3>1. Server!AckOf(m) \in Of(c)
      BY <1>0, RewriteOf
    <3>2. Server!AckOf(m).type = "ACK"
      BY <1>0 DEF Server!AckOf, Of, Datagram
    <3> QED BY <3>1, <3>2
  <2>3. \A x \in {Server!Route(sessions[c].dest, m),
                  Server!Route(sessions[c].referedDest, Server!AckOf(m))} : Heard(c, x.peer, x)
    BY <1>0, <2>1, <2>2, PlainHeard, RouteHeard
  <2> QED BY <1>3, <2>3, InTwo DEF Says
<1> QED BY <1>0, <1>1, <1>2, <1>3
        DEF Server!Failed, Server!Drop, Server!FailureTarget, Server!HasSession

\* The referral: the agent gets an INVITE from the caller.
LEMMA OnReferSays ==
  ASSUME ServerKeeps, NEW c \in CallIds, OwnSession(c), NEW n, NEW m, Arrives(c, n, m),
         Server!OnRefer(m)
  PROVE  Says(c)
<1> DEFINE s == sessions[c]
           accepted == Message("202", "REFER", c, s.dest, s.src, s.src)
           ring == Request("INVITE", c, s.src, m.referTo, s.src)
           invite == [ring EXCEPT !.contact = s.src, !.sdp = s.fromMedia]
<1>0. m \in Of(c) /\ m.callID = c /\ (m.referTo # None => m.referTo \in Party(c))
      /\ (s # None => s.src = c) /\ c \in Party(c)
  BY ArrivesFrom, PartyType DEF Arrives, Of, OrNone
<1>1. CASE sent' = <<>>
  BY <1>1, DropSays
<1>2. CASE /\ s # None /\ s.dest # None
           /\ Server!Forward(s.dest, [m EXCEPT !.type = "480"])
  <2> DEFINE x == [m EXCEPT !.type = "480"]
  <2>1. x \in Of(c) /\ x.type = "480"
    <3>1. x \in Of(c)
      BY <1>0, RewriteOf DEF Types, Responses
    <3> QED BY <1>0, <3>1 DEF Of, Datagram
  <2>2. s.dest \in Party(c)
    BY <1>2, SessionOf
  <2> HIDE DEF x
  <2>3. Heard(c, s.dest, x)
    BY <2>1, PlainHeard
  <2> QED BY <1>2, <2>1, <2>2, <2>3, ForwardSays DEF x
<1>3. CASE /\ s # None /\ Server!ReferAllowed(s) /\ m.referTo \in clients
           /\ sent' = <<Server!Route(s.dest, accepted), Server!Route(m.referTo, invite)>>
  <2>1. /\ s \in Server!Session /\ s.dest \in Party(c) /\ s.src = c
        /\ s.fromMedia \in Numbers /\ m.referTo \in Party(c)
    BY <1>0, <1>3, SessionOf, SipAssumption DEF Server!ReferAllowed, Numbers, ServerKeeps
  <2>2. accepted \in Of(c) /\ accepted.type = "202"
    <3>1. accepted \in Of(c)
      BY <1>0, <2>1, RequestOf DEF Types, Methods, Responses
    <3> QED BY <3>1, MadeUp
  <2>3. invite \in Of(c) /\ invite.type = "INVITE" /\ invite.cseq = "INVITE" /\ invite.from = c
    <3>1. ring \in Of(c)
      BY <1>0, <2>1, RequestOf DEF Request, Types, Methods, Responses
    <3>2. ring = [type |-> "INVITE", cseq |-> "INVITE", callID |-> c, from |-> s.src,
                  to |-> m.referTo, contact |-> None, referTo |-> None, sdp |-> None,
                  peer |-> s.src]
      BY MadeUp DEF Request
    <3>3. s.src \in Numbers /\ s.fromMedia \in OrNone(Numbers)
      BY <2>1, PartyType DEF OrNone
    <3>4. invite.type = "INVITE" /\ invite.cseq = "INVITE" /\ invite.from = c
      BY <2>1, <3>2
    <3> HIDE DEF ring
    <3>5. invite \in Of(c)
      BY <3>1, <3>3 DEF Of, Datagram, OrNone
    <3> QED BY <3>4, <3>5
  <2> HIDE DEF accepted, invite
  <2>4. Heard(c, s.dest, accepted)
    BY <2>2, PlainHeard
  <2>5. Heard(c, m.referTo, invite)
    BY <2>3 DEF Heard, IsBye
  <2>6. \A x \in {Server!Route(s.dest, accepted), Server!Route(m.referTo, invite)} :
          Heard(c, x.peer, x)
    BY <2>1, <2>2, <2>3, <2>4, <2>5, RouteHeard
  <2> QED BY <1>3, <2>6, InTwo DEF Says
<1> QED BY <1>0, <1>1, <1>2, <1>3
        DEF Server!OnRefer, Server!HasSession, Server!Drop, Server!Request, Request,
            Server!Message, Message

\* The answers to INVITEs.
LEMMA OnOkInviteSays ==
  ASSUME ServerKeeps, NEW c \in CallIds, OwnSession(c), NEW n, NEW m, Arrives(c, n, m),
         m.type = "200", m.cseq = "INVITE", sessions[c] # None,
         Server!OnOkInvite(sessions[c], m)
  PROVE  Says(c)
<1> DEFINE s == sessions[c]
<1>0. /\ m \in Of(c) /\ m.callID = c /\ m.from \in Party(c) /\ m.to \in Party(c)
      /\ m.sdp \in OrNone(Numbers) /\ s.src = c /\ c \in Party(c)
      /\ s.referedDest # None => s.dest \in Party(c) /\ s.referedDest \in Party(c)
      /\ c # Ivr /\ c \notin Agents /\ c # None
  BY ArrivesFrom, PartyType, SessionOf DEF Arrives, Of, Datagram
<1>1. CASE sent' = <<>>
  BY <1>1, DropSays
<1>2. CASE Server!Forward(m.from, Server!SetContact(m, m.to))
  <2> DEFINE x == Server!SetContact(m, m.to)
  <2>1. x \in Of(c) /\ (x.type = "garbled" \/ (x.type = "200" /\ x.cseq = "INVITE"))
    <3>1. x \in Of(c)
      BY <1>0, RewriteOf DEF Server!SetContact, SetContact
    <3> QED BY <1>0, <3>1 DEF Server!SetContact, Of, Datagram
  <2> HIDE DEF x
  <2>2. Heard(c, m.from, x)
    BY <2>1, PlainHeard, OtherHeard
  <2> QED BY <1>0, <1>2, <2>1, <2>2, ForwardSays DEF x
<1>3. CASE Server!AgentAnswered(s, m)
  <2> DEFINE ring == Message("INVITE", "INVITE", c, s.dest, s.src, s.src)
             x == [ring EXCEPT !.contact = s.dest, !.sdp = m.sdp]
  <2>1. s.dest \in Party(c) /\ s.dest \in Numbers
    BY <1>0, <1>3, PartyType DEF Server!AgentAnswered, Server!Transfered
  <2>2. Server!Forward(s.src, x)
    BY <1>0, <1>3 DEF Server!AgentAnswered, Server!Reinvite, Server!Request, Server!Message, Message
  <2>3. x.type = "INVITE" /\ x.cseq = "INVITE"
    BY MadeUp
  <2>4. ring \in Of(c)
    BY <1>0, <2>1, RequestOf DEF Types, Methods
  <2> HIDE DEF ring
  <2>5. x \in Of(c)
    BY <1>0, <2>1, <2>4 DEF Of, Datagram, OrNone
  <2> HIDE DEF x
  <2>6. Heard(c, c, x)
    BY <1>0, <2>3 DEF Heard, IsBye
  <2> QED BY <1>0, <2>2, <2>5, <2>6, ForwardSays
<1>4. CASE Server!MediaUpdated(s, m)
  <2> DEFINE a0 == Message("ACK", "ACK", c, s.src, s.referedDest, s.src)
             b0 == Message("ACK", "ACK", c, s.dest, s.src, s.dest)
             a1 == [a0 EXCEPT !.contact = s.src]
             b1 == [b0 EXCEPT !.contact = s.dest]
             bye == Message("BYE", "BYE", c, s.src, s.dest, s.src)
  <2>1. s.dest \in Party(c) /\ s.referedDest \in Party(c) /\ s.src \in Numbers /\ s.dest \in Numbers
    BY <1>0, <1>4, PartyType DEF Server!MediaUpdated, Server!UpdateMedia
  <2>2. a0 \in Of(c) /\ b0 \in Of(c) /\ bye \in Of(c)
    BY <1>0, <2>1, RequestOf DEF Types, Methods
  <2>3. /\ a1.type = "ACK" /\ b1.type = "ACK"
        /\ bye.type = "BYE" /\ bye.from = c /\ bye.contact = None
    BY <1>0, MadeUp
  <2>4. /\ Server!AckAgent(s, c) = a1 /\ Server!AckClient(s, c) = b1
        /\ Server!ByeToIvr(s, c) = bye /\ bye.to = s.dest
    BY DEF Server!AckAgent, Server!AckClient, Server!ByeToIvr, Server!Request, Server!Message, Message
  <2> HIDE DEF a0, b0
  <2>5. a1 \in Of(c) /\ b1 \in Of(c)
    BY <2>1, <2>2, SMTT(30) DEF Of, Datagram, OrNone
  <2> HIDE DEF a1, b1, bye
  <2>6. Heard(c, s.referedDest, a1) /\ Heard(c, c, b1)
    BY <2>3, PlainHeard
  <2>7. Heard(c, s.dest, bye)
    BY <1>0, <2>3 DEF Heard, IsBye, Parting
  <2>8. \A x \in {Server!Route(s.referedDest, a1), Server!Route(s.src, b1), Server!Route(s.dest, bye)} :
          Heard(c, x.peer, x)
    BY <1>0, <2>1, <2>2, <2>5, <2>6, <2>7, RouteHeard
  <2>9. sent' = <<Server!Route(s.referedDest, a1), Server!Route(s.src, b1), Server!Route(s.dest, bye)>>
    BY <1>0, <1>4, <2>4 DEF Server!MediaUpdated
  <2> QED BY <2>8, <2>9, InThree DEF Says
<1> QED BY <1>0, <1>1, <1>2, <1>3, <1>4 DEF Server!OnOkInvite, Server!Answered, Server!Drop

\* A 200 for a BYE where it came to.
LEMMA OkByeHeard ==
  ASSUME NEW c \in CallIds, NEW n, NEW m, Arrives(c, n, m), m.type = "200", m.cseq = "BYE"
  PROVE  /\ Heard(c, c, m)
         /\ Heard(c, m.from, m)
         /\ n \in Agents \/ Parting(c, m)
         /\ m.contact = c => Ended(c)
<1>1. /\ n = c \/ n = Ivr \/ n \in Agents
      /\ c # Ivr /\ c \notin Agents /\ Ivr \notin Agents
  BY ArrivesFrom DEF Party
<1>2. Spoken(c, n, m)
  BY DEF Arrives
<1> QED BY <1>1, <1>2 DEF Spoken, Heard, IsBye, Parting

\* An answered BYE.
LEMMA OnOkByeSays ==
  ASSUME ServerKeeps, NEW c \in CallIds, OwnSession(c), NEW n, NEW m, Arrives(c, n, m),
         m.type = "200", m.cseq = "BYE", sessions[c] # None, Server!OnOkBye(sessions[c], m)
  PROVE  Says(c)
<1> DEFINE s == sessions[c]
<1>0. /\ m \in Of(c) /\ m.callID = c /\ m.from \in Party(c)
      /\ s.src = c /\ c \in Party(c)
      /\ s.referedDest # None => s.dest \in Party(c) /\ s.referedDest \in Party(c)
      /\ c # Ivr /\ c \notin Agents /\ c # None
  BY ArrivesFrom, PartyType, SessionOf DEF Arrives, Of, Datagram
<1>1. CASE sent' = <<>>
  BY <1>1, DropSays
<1>2. CASE Server!Forward(m.from, m) \/ Server!Forward(s.src, m)
  BY <1>0, <1>2, OkByeHeard, ForwardSays
<1>3. CASE s.referedDest # None /\ m.contact = s.src
           /\ Server!Forward(s.referedDest, [m EXCEPT !.from = s.referedDest])
  <2> DEFINE x == [m EXCEPT !.from = s.referedDest]
  <2>1. x \in Of(c)
    BY <1>0, <1>3, RewriteOf
  <2>2. x.type = "200" /\ x.cseq = "BYE" /\ Ended(c)
    BY <1>0, <1>3, OkByeHeard DEF Of, Datagram
  <2> HIDE DEF x
  <2>3. Heard(c, s.referedDest, x)
    BY <2>2 DEF Heard, IsBye, Parting
  <2> QED BY <1>0, <1>3, <2>1, <2>3, ForwardSays DEF x
<1>4. CASE s.referedDest # None /\ Server!Forward(s.src, [m EXCEPT !.from = s.dest])
  <2> DEFINE x == [m EXCEPT !.from = s.dest]
  <2>1. x \in Of(c)
    BY <1>0, <1>4, RewriteOf
  <2>2. x.type = "200" /\ x.cseq = "BYE"
    BY <1>0 DEF Of, Datagram
  <2> HIDE DEF x
  <2>3. Heard(c, c, x)
    BY <1>0, <2>2 DEF Heard, IsBye, Parting
  <2> QED BY <1>0, <1>4, <2>1, <2>3, ForwardSays DEF x
<1> QED BY <1>0, <1>1, <1>2, <1>3, <1>4 DEF Server!OnOkBye, Server!Drop

\* A 200.
LEMMA OnOkSays ==
  ASSUME ServerKeeps, NEW c \in CallIds, OwnSession(c), NEW n, NEW m, Arrives(c, n, m),
         Server!OnOk(m)
  PROVE  Says(c)
<1>0. m \in Of(c) /\ m.callID = c /\ m.from \in Party(c) /\ m.type = "200"
  BY ArrivesFrom DEF Arrives, Server!OnOk
<1>1. CASE sent' = <<>>
  BY <1>1, DropSays
<1>2. CASE Server!Forward(m.from, m)
  <2>1. Heard(c, m.from, m)
    BY <1>0, OkByeHeard, OtherHeard
  <2> QED BY <1>0, <1>2, <2>1, ForwardSays
<1>3. CASE sessions[c] # None /\ m.cseq = "INVITE" /\ Server!OnOkInvite(sessions[c], m)
  BY <1>0, <1>3, OnOkInviteSays
<1>4. CASE sessions[c] # None /\ m.cseq = "BYE" /\ Server!OnOkBye(sessions[c], m)
  BY <1>0, <1>4, OnOkByeSays
<1> QED BY <1>0, <1>1, <1>2, <1>3, <1>4 DEF Server!OnOk, Server!HasSession, Server!Drop

\* A BYE.
LEMMA OnByeSays ==
  ASSUME ServerKeeps, NEW c \in CallIds, OwnSession(c), NEW n, NEW m, Arrives(c, n, m),
         m.cseq \in Methods, Server!OnBye(m)
  PROVE  Says(c)
<1> DEFINE s == sessions[c]
<1>0. /\ m \in Of(c) /\ m.callID = c /\ m.from \in Party(c) /\ m.to \in Party(c)
      /\ m.type = "BYE" /\ c \in Party(c)
      /\ c # Ivr /\ c \notin Agents /\ c # None /\ Ivr \notin Agents
  BY ArrivesFrom, PartyType DEF Arrives, Server!OnBye
<1>s. s # None => /\ s.src = c
                  /\ s.referedDest # None => s.dest \in Party(c) /\ s.referedDest \in Party(c)
  BY SessionOf DEF Arrives
<1>m. /\ n = c => m.from = c /\ m.to = Ivr /\ Ended(c)
      /\ n # c => m.from = n /\ m.to = c
  BY <1>0 DEF Arrives, Spoken
<1>h. Heard(c, m.to, m)
  BY <1>0, <1>m DEF Heard, IsBye, Parting
<1>1. CASE sent' = <<>>
  BY <1>1, DropSays
<1>2. CASE Server!Forward(m.to, m)
  BY <1>0, <1>2, <1>h, ForwardSays
<1>3. CASE /\ s # None /\ s.referedDest # None /\ m.from = s.src
           /\ sent' = <<Server!Route(m.to, m), Server!Route(s.referedDest, Server!ByeForAgent(s, m))>>
  <2> DEFINE x == Server!ByeForAgent(s, m)
  <2>1. x \in Of(c) /\ x.type \in {"BYE", "CANCEL"} /\ x.from = c
    <3>1. [m EXCEPT !.to = s.referedDest] \in Of(c)
      BY <1>0, <1>s, <1>3, RewriteOf
    <3>2. \/ x = [[m EXCEPT !.to = s.referedDest] EXCEPT !.type = "CANCEL", !.cseq = "CANCEL"]
          \/ x = [[m EXCEPT !.to = s.referedDest] EXCEPT !.type = "BYE"]
      BY <1>0 DEF Server!ByeForAgent, Of, Datagram
    <3>3. "CANCEL" \in Types /\ "CANCEL" \in Methods /\ "BYE" \in Types
      BY DEF Types, Methods
    <3>4. x \in Of(c)
      BY <3>1, <3>2, <3>3 DEF Of, Datagram
    <3>5. x.type \in {"BYE", "CANCEL"} /\ x.from = m.from
      BY <1>0, <3>2 DEF Of, Datagram
    <3> QED BY <1>s, <1>3, <3>4, <3>5
  <2>2. Ended(c)
    BY <1>s, <1>m, <1>3
  <2> HIDE DEF x
  <2>3. Heard(c, s.referedDest, x)
    BY <2>1, <2>2 DEF Heard, IsBye, Parting
  <2>4. \A y \in {Server!Route(m.to, m), Server!Route(s.referedDest, x)} : Heard(c, y.peer, y)
    BY <1>0, <1>s, <1>3, <1>h, <2>1, <2>3, RouteHeard
  <2> QED BY <1>3, <2>4, InTwo DEF Says, x
<1>4. CASE s # None /\ s.referedDest # None /\ Server!PassBye(s, m)
  <2> DEFINE x == Server!SetContact([m EXCEPT !.from = s.dest], s.dest)
  <2>1. x \in Of(c)
    BY <1>0, <1>s, <1>4, RewriteOf DEF Server!SetContact, SetContact
  <2>2. x.type \in {"BYE", "garbled"}
    BY <1>0 DEF Server!SetContact, Of, Datagram
  <2> HIDE DEF x
  <2>3. Heard(c, c, x)
    BY <1>0, <2>2 DEF Heard, IsBye, Parting
  <2> QED BY <1>0, <1>s, <1>4, <2>1, <2>3, ForwardSays DEF Server!PassBye, x
<1> QED BY <1>0, <1>1, <1>2, <1>3, <1>4 DEF Server!OnBye, Server!Drop, Server!HasSession

\* Whatever it is told of a call, the server says nothing of it that it must not.
LEMMA HandleSays ==
  ASSUME ServerKeeps, NEW c \in CallIds, OwnSession(c), NEW n, NEW m, Arrives(c, n, m),
         m.type # "REGISTER", Server!Handle(m)
  PROVE  Says(c)
<1>0. m.cseq \in Methods /\ m.type # "CANCEL"
  BY DEF Arrives, Of, Datagram, Spoken
<1>1. CASE Server!OnUnknown(m)
  BY <1>1, DropSays DEF Server!OnUnknown, Server!Drop
<1>2. CASE Server!OnBusy(m)
  <2>1. m.type \in {"480", "486"} /\ Server!Failed(m, "Busy")
    BY <1>2 DEF Server!OnBusy
  <2> QED BY <2>1, FailedSays
<1>3. CASE Server!OnUnavailable(m)
  <2>1. m.type \in {"480", "486"} /\ Server!Failed(m, "Unavailable")
    BY <1>3 DEF Server!OnUnavailable
  <2> QED BY <2>1, FailedSays
<1>4. CASE Server!OnTrying(m) \/ Server!OnRinging(m) \/ Server!OnReqTerminated(m) \/ Server!OnAck(m)
  BY <1>4, PassingSays
<1>5. ~Server!OnRegister(m) /\ ~Server!OnCancel(m)
  BY <1>0 DEF Server!OnRegister, Server!OnCancel
<1> QED BY <1>0, <1>1, <1>2, <1>3, <1>4, <1>5, OnInviteSays, OnReferSays, OnOkSays, OnByeSays
        DEF Server!Handle

\* The caller of a session stays the caller: only an INVITE makes one.
LEMMA SrcStays ==
  ASSUME Programs, NEW c \in CallIds, NEW n, NEW m, Arrives(c, n, m), Server!Handle(m)
  PROVE  sessions'[c] # None => sessions'[c].src = c
<1>0. m \in Datagram /\ m.callID = c /\ m \in Of(c)
  BY DEF Arrives, Of
<1>1. SP!SessionStep(m)
  BY <1>0, ServerHandles, ProgramsRun, PartsAssume, SameSip, SP!HandleEffect
  DEF Server!Handle, SP!Effect
<1>2. CASE sessions[c] = None /\ m.type # "INVITE"
  BY <1>0, <1>2, NoSessionMade DEF Programs
<1>3. CASE sessions[c] = None /\ m.type = "INVITE"
  <2>1. m = Invitation(c)
    BY <1>3 DEF Arrives
  <2>2. Own("INVITE", c, c, Ivr) =
          [type |-> "INVITE", cseq |-> "INVITE", callID |-> c, from |-> c, to |-> Ivr,
           contact |-> c, referTo |-> None, sdp |-> None, peer |-> c]
    BY DEF Own, Request, Message
  <2>3. m.from = c
    BY <2>1, <2>2 DEF Invitation
  <2>4. Server!OnInvite(m)
    BY <1>3 DEF Server!Handle, Server!OnRegister, Server!OnInvite, Server!OnTrying, Server!OnRinging,
     Server!OnCancel, Server!OnReqTerminated, Server!OnBusy, Server!OnUnavailable,
     Server!OnRefer, Server!OnOk, Server!OnAck, Server!OnBye, Server!OnUnknown
  <2>5. sessions'[c] # None => sessions'[c] = Server!NewSession(m)
    BY <1>0, <1>3, <2>4 DEF Server!OnInvite, Server!Emplace, Server!Put, Server!HasSession, Server!Drop,
       Programs, ServerKeeps
  <2> QED BY <2>3, <2>5 DEF Server!NewSession
<1>4. CASE sessions[c] # None
  <2>1. sessions[c] \in Server!Session /\ sessions[c].src = c
    BY <1>4 DEF Programs, ServerKeeps, OrNone, Arrives
  <2>2. CASE sessions' = sessions
    BY <2>1, <2>2
  <2>3. CASE sessions' # sessions
    <3>1. PICK t : sessions' = [sessions EXCEPT ![c] = t] /\ SP!Changed(sessions[c], t)
      BY <1>0, <1>1, <1>4, <2>3 DEF SP!SessionStep, SP!HasSession
    <3>2. sessions'[c] = t
      BY <3>1 DEF Programs, ServerKeeps
    <3> QED BY <2>1, <3>1, <3>2 DEF SP!Changed, Server!Session
  <2> QED BY <2>2, <2>3
<1> QED BY <1>2, <1>3, <1>4
-----------------------------------------------------------------------------
(***************************************************************************)
(* So every step keeps Told.                                               *)
(***************************************************************************)
\* A step that sends what may be said, and brings nobody back into a call.
LEMMA ToldKept ==
  ASSUME NEW c \in CallIds, ToldOf(c), KnownCaller(c)', Ended(c) => Ended(c)',
         \A n \in Numbers : \A m \in In(uplink'[n]) :
           m.callID = c => m \in In(uplink[n]) \/ Spoken(c, n, m)',
         \A n \in Numbers : \A m \in In(downlink'[n]) :
           m.callID = c => m \in In(downlink[n]) \/ Heard(c, n, m)
  PROVE  ToldOf(c)'
<1>1. \A n \in Numbers : \A m : Spoken(c, n, m) => Spoken(c, n, m)'
  BY DEF Spoken, Parting
<1>2. \A n \in Numbers : \A m : Heard(c, n, m) => Heard(c, n, m)'
  BY DEF Heard, Parting
<1>3. \A n \in Numbers : \A m \in Rises(c, n)' : Spoken(c, n, m)'
  BY <1>1 DEF ToldOf, Rises
<1>4. \A n \in Numbers : \A m \in Falls(c, n)' : Heard(c, n, m)'
  BY <1>2 DEF ToldOf, Falls
<1> QED BY <1>3, <1>4 DEF ToldOf

\* A step of the server.
LEMMA ServerTells ==
  ASSUME Kept, \A d \in CallIds : ToldOf(d), NEW n \in Numbers, ServerStep(n)
  PROVE  /\ \A d \in CallIds : ToldOf(d)'
         /\ \A x \in In(sent') : Heard(x.callID, x.peer, x) /\ x.callID \in CallIds
<1>1. PICK m \in Datagram, c \in CallIds : ServerDoes(n, m, c)
  BY ServerStepDoes
<1>2. /\ m = Head(uplink[n]) /\ m \in Of(c) /\ Rising(n, m) /\ uplink[n] # <<>>
      /\ Server!Handle(m) /\ \A d \in CallIds \ {c} : sessions'[d] = sessions[d]
      /\ uplink' = [uplink EXCEPT ![n] = Tail(@)]
      /\ \A k \in Numbers : In(downlink'[k]) \subseteq
                          In(downlink[k]) \cup {x \in In(sent') : x \in Of(c) /\ x.peer = k}
      /\ UNCHANGED <<ivrVars, phoneVars, trouble, digits>>
      /\ Speaks(c)
  BY <1>1 DEF ServerDoes, Serves
<1>3. uplink \in [Numbers -> Seq(Datagram)]
  BY DEF Kept, Up
<1>4. m \in In(uplink[n]) /\ \A k \in Numbers : In(uplink'[k]) \subseteq In(uplink[k])
  BY <1>2, <1>3, TailLink
<1>5. m.callID = c /\ m.peer = n /\ m.type # "REGISTER"
  BY <1>2 DEF Of, Rising
<1>6. m.type = "INVITE" => m = Invitation(c)
  <2>1. Own("INVITE", n, n, Ivr) =
          [type |-> "INVITE", cseq |-> "INVITE", callID |-> n, from |-> n, to |-> Ivr,
           contact |-> n, referTo |-> None, sdp |-> None, peer |-> n]
    BY DEF Own, Request, Message
  <2>2. Invitation(n).callID = n
    BY <2>1 DEF Invitation
  <2> QED BY <1>2, <1>5, <2>2 DEF Rising
<1>7. Arrives(c, n, m)
  BY <1>2, <1>4, <1>5, <1>6 DEF Arrives, ToldOf, KnownCaller, Rises
<1>8. Says(c)
  BY <1>2, <1>5, <1>7, HandleSays DEF Kept, Programs, OwnSessions
<1>9. sessions'[c] # None => sessions'[c].src = c
  BY <1>2, <1>7, SrcStays DEF Kept
<1>10. \A x \in In(sent') : x \in Of(c)
  BY <1>2, InType DEF Speaks
<1>11. \A x \in In(sent') : Heard(x.callID, x.peer, x) /\ x.callID \in CallIds
  BY <1>8, <1>10 DEF Says, Of
<1>12. ASSUME NEW d \in CallIds
       PROVE  ToldOf(d)'
  <2>1. KnownCaller(d)'
    BY <1>2, <1>9 DEF KnownCaller, ToldOf, ivrVars
  <2>2. Ended(d) => Ended(d)'
    BY <1>2 DEF Ended, phoneVars
  <2>3. \A k \in Numbers : \A x \in In(downlink'[k]) :
           x.callID = d => x \in In(downlink[k]) \/ Heard(d, k, x)
    BY <1>2, <1>11
  <2>4. \A k \in Numbers : \A x \in In(uplink'[k]) :
           x.callID = d => x \in In(uplink[k]) \/ Spoken(d, k, x)'
    BY <1>4
  <2> QED BY <2>1, <2>2, <2>3, <2>4, ToldKept
<1> QED BY <1>11, <1>12

\* What the IVR says to a datagram.
LEMMA ReceiveTells ==
  ASSUME AppKeeps, NEW c \in CallIds, NEW m \in Of(c), Heard(c, Ivr, m), App!Receive(m),
         \A d \in CallIds : calls[d] # None => calls[d].src = d
  PROVE  /\ \A x \in In(sent') : Spoken(c, Ivr, x)
         /\ \A d \in CallIds : calls'[d] # None => calls'[d].src = d
<1>0. m.callID = c /\ m \in Datagram /\ c # Ivr /\ Ivr \notin Agents
  BY PartyType, SipAssumption, CallFlowAssumption DEF Of
<1>1. CASE App!OnInvite(m) /\ sent' # <<>>
  <2>1. m.cseq = "INVITE" /\ m.from = c
    BY <1>1 DEF App!OnInvite, Heard
  <2> DEFINE x == [[m EXCEPT !.type = "200", !.to = Ivr, !.contact = Ivr, !.sdp = Ivr]
                     EXCEPT !.peer = Ivr]
  <2>2. x.type = "200" /\ x.cseq = "INVITE"
    BY <1>0, <2>1 DEF Datagram
  <2>3. In(sent') = {x}
    BY <1>1, InOne DEF App!OnInvite, App!Send, App!Crash, App!Ignore, App!Refused
  <2>4. calls' = [calls EXCEPT ![c] = App!NewCall(m)]
    BY <1>0, <1>1 DEF App!OnInvite, App!Send, App!Crash, App!Ignore, App!Refused
  <2>5. App!NewCall(m).src = c
    BY <2>1 DEF App!NewCall
  <2> HIDE DEF x
  <2>6. \A d \in CallIds : calls'[d] # None => calls'[d].src = d
    BY <2>4, <2>5 DEF AppKeeps
  <2> QED BY <2>2, <2>3, <2>6 DEF Spoken
<1>2. CASE App!OnInvite(m) /\ sent' = <<>>
  BY <1>2, InNone DEF App!OnInvite, App!Send, App!Crash, App!Ignore, App!Refused
<1>3. CASE App!OnAck(m) \/ App!OnBusy(m) \/ App!OnUnavailable(m) \/ App!OnReferAccepted(m)
  <2>1. sent' = <<>>
    BY <1>3 DEF App!OnAck, App!OnBusy, App!OnUnavailable, App!OnReferAccepted, App!Announce,
       App!Overwritten, App!Ignore, App!Crash
  <2>2. UNCHANGED calls \/ (calls[c] # None /\ \E st : App!SetState(c, st))
    BY <1>0, <1>3 DEF App!OnAck, App!OnBusy, App!OnUnavailable, App!OnReferAccepted, App!Announce,
       App!Overwritten, App!Ignore, App!Crash, App!HasCall, App!StartsReferring
  <2>3. ASSUME NEW st, calls[c] # None, App!SetState(c, st)
        PROVE  \A d \in CallIds : calls'[d] # None => calls'[d].src = d
    <3>1. calls[c] \in App!CallSession
      BY <2>3 DEF AppKeeps, OrNone
    <3>2. calls'[c] = [calls[c] EXCEPT !.state = st] /\ \A d \in CallIds \ {c} : calls'[d] = calls[d]
      BY <2>3 DEF App!SetState, AppKeeps
    <3> QED BY <2>3, <3>1, <3>2 DEF App!CallSession
  <2> QED BY <2>1, <2>2, <2>3, InNone
<1>4. CASE App!EndCall(m) /\ IsBye(m) /\ sent' # <<>>
  <2>1. Parting(c, m)
    BY <1>4 DEF Heard
  <2> DEFINE x == [[m EXCEPT !.type = "200"] EXCEPT !.peer = Ivr]
  <2>2. x.type = "200" /\ x.contact = m.contact /\ x.from = m.from
    BY <1>0 DEF Datagram
  <2>3. In(sent') = {x} /\ calls' = [calls EXCEPT ![c] = None]
    BY <1>0, <1>4, InOne DEF App!EndCall, App!Send, App!Ignore
  <2> HIDE DEF x
  <2>4. Spoken(c, Ivr, x)
    BY <1>0, <2>1, <2>2 DEF Spoken, Parting
  <2> QED BY <2>3, <2>4 DEF AppKeeps
<1>5. CASE App!OnBye(m) /\ m.cseq # "BYE" /\ sent' # <<>>
  <2> DEFINE x == [[m EXCEPT !.type = "200"] EXCEPT !.peer = Ivr]
  <2>2. x.type = "200" /\ x.cseq # "BYE"
    BY <1>0, <1>5 DEF Datagram
  <2>3. In(sent') = {x} /\ calls' = [calls EXCEPT ![c] = None]
    BY <1>0, <1>5, InOne DEF App!OnBye, App!EndCall, App!Send, App!Ignore
  <2> HIDE DEF x
  <2>4. Spoken(c, Ivr, x)
    BY <2>2 DEF Spoken
  <2> QED BY <2>3, <2>4 DEF AppKeeps
<1>6. CASE (App!OnBye(m) \/ App!OnOk(m)) /\ sent' = <<>>
  BY <1>6, InNone DEF App!OnBye, App!OnOk, App!EndCall, App!Send, App!Ignore
<1>7. CASE App!OnNothing(m)
  BY <1>7, InNone DEF App!OnNothing, App!Ignore
<1>8. App!OnOk(m) /\ sent' # <<>> => App!EndCall(m) /\ IsBye(m)
  BY DEF App!OnOk, App!Ignore, IsBye
<1>9. App!OnBye(m) /\ m.cseq = "BYE" => App!EndCall(m) /\ IsBye(m)
  BY DEF App!OnBye, IsBye
<1> QED BY <1>1, <1>2, <1>3, <1>4, <1>5, <1>6, <1>7, <1>8, <1>9 DEF App!Receive

\* What it says on its own.
LEMMA VoiceTells ==
  ASSUME AppKeeps, \A d \in CallIds : calls[d] # None => calls[d].src = d, NEW c \in CallIds,
         OwnCalls,
         \/ c = rx.call /\ (App!Announced \/ App!Redirected \/ App!Joined)
         \/ App!ReaderStep(c) \/ App!ReadDTMF(c)
  PROVE  /\ \A x \in In(sent') : Spoken(c, Ivr, x)
         /\ \A d \in CallIds : calls'[d] # None => calls'[d].src = d
<1>0. c # Ivr
  BY PartyType
<1>1. CASE App!Announced /\ c = rx.call
  <2>1. calls[c] # None
    BY <1>1 DEF AppKeeps, AP!Tidy, AP!RxHasCall, AP!HasCall, App!Announced
  <2> DEFINE x == [App!Bye(c) EXCEPT !.peer = Ivr]
  <2>2. App!Bye(c) = [type |-> "BYE", cseq |-> "BYE", callID |-> c, from |-> Ivr, to |-> calls[c].src,
                      contact |-> Ivr, referTo |-> None, sdp |-> None, peer |-> Ivr]
    BY DEF App!Bye, App!Request, App!Message
  <2>3. x.type = "BYE" /\ x.from = Ivr /\ x.to = c
    BY <2>1, <2>2
  <2>4. In(sent') = {x} /\ calls' = calls
    BY <1>1, InOne DEF App!Announced, App!Send
  <2> HIDE DEF x
  <2>5. Spoken(c, Ivr, x)
    BY <1>0, <2>3 DEF Spoken
  <2> QED BY <2>4, <2>5 DEF AppKeeps
<1>2. CASE App!MakeRefer(c) /\ pending[c] \in Datagram /\ pending[c].type = "REFER"
  <2> DEFINE x == [pending[c] EXCEPT !.peer = Ivr]
  <2>1. x.type = "REFER"
    BY <1>2 DEF Datagram
  <2>2. In(sent') = {x} /\ calls' = calls
    BY <1>2, InOne DEF App!MakeRefer, App!Send
  <2> HIDE DEF x
  <2> QED BY <2>1, <2>2 DEF Spoken
<1>3. CASE sent' = <<>> /\ calls' = calls
  BY <1>3, InNone
<1>4. CASE App!Redirected \/ App!Joined \/ App!ReadDTMF(c)
  BY <1>3, <1>4 DEF App!Redirected, App!Joined, App!ReadDTMF, App!Overwritten, App!Crash
<1>5. CASE App!ReaderStep(c) /\ ~App!MakeRefer(c)
  BY <1>3, <1>5 DEF App!ReaderStep, App!OnDTMFEvent, App!LookupFails, App!Crash, App!ReplayGuide,
     App!InvalidChoose, App!InvalidChosen, App!RestoreGuide, App!Replays, App!Exit
<1>6. ASSUME App!MakeRefer(c)
      PROVE  pending[c] \in Datagram /\ pending[c].type = "REFER"
  <2>1. pending[c] # None
    BY <1>6, SameSip, NoSessionAssumption DEF App!MakeRefer, AppKeeps, AP!Tidy, AP!ReferReady
  <2>2. pending[c] \in Datagram
    BY <2>1 DEF AppKeeps, OrNone
  <2>3. pending[c].type = "REFER"
    BY <2>1 DEF OwnCalls, OwnCall
  <2> QED BY <2>2, <2>3
<1> QED BY <1>1, <1>2, <1>4, <1>5, <1>6

\* A step of the IVR.
LEMMA IvrTells ==
  ASSUME Kept, \A d \in CallIds : ToldOf(d), NEW c \in CallIds, IvrDoes(c),
         \A x \in In(sent') : Spoken(c, Ivr, x),
         \A d \in CallIds : calls'[d] # None => calls'[d].src = d
  PROVE  \A d \in CallIds : ToldOf(d)'
<1> SUFFICES ASSUME NEW d \in CallIds
             PROVE  ToldOf(d)'
  OBVIOUS
<1>1. /\ Answers(c) /\ UNCHANGED <<serverVars, phoneVars>>
      /\ \A k \in Numbers \ {Ivr} : uplink'[k] = uplink[k]
      /\ In(uplink'[Ivr]) \subseteq In(uplink[Ivr]) \cup In(sent')
      /\ \A k \in Numbers : In(downlink'[k]) \subseteq In(downlink[k])
  BY DEF IvrDoes, Attends
<1>2. \A x \in In(sent') : x.callID = c
  <2>1. In(sent') \subseteq Voice(c)
    BY <1>1, InType DEF Answers
  <2> QED BY <2>1 DEF Voice, Of
<1>3. KnownCaller(d)' /\ (Ended(d) => Ended(d)')
  BY <1>1 DEF KnownCaller, ToldOf, Ended, serverVars, phoneVars
<1>4. \A n \in Numbers : \A m \in In(uplink'[n]) :
        m.callID = d => m \in In(uplink[n]) \/ Spoken(d, n, m)'
  <2>1. \A m : Spoken(d, Ivr, m) => Spoken(d, Ivr, m)'
    BY <1>3 DEF Spoken, Parting
  <2> QED BY <1>1, <1>2, <2>1
<1>5. \A n \in Numbers : \A m \in In(downlink'[n]) :
        m.callID = d => m \in In(downlink[n]) \/ Heard(d, n, m)
  BY <1>1
<1> QED BY <1>3, <1>4, <1>5, ToldKept

\* What a phone may say of call c.
Saying(u, c) == {m \in Of(c) : Spoken(c, u, m)}

\* A phone that puts ms on its link.
LEMMA SendsIn ==
  ASSUME Up, NEW u \in Numbers, NEW S \in SUBSET Datagram, NEW ms \in Seq(S),
         uplink' = [uplink EXCEPT ![u] = @ \o ms]
  PROVE  /\ \A n \in Numbers \ {u} : uplink'[n] = uplink[n]
         /\ In(uplink'[u]) \subseteq In(uplink[u]) \cup S
<1>1. uplink \in [Numbers -> Seq(Datagram)]
  BY DEF Up
<1> QED BY <1>1, PutLink

\* Its utterances are their fields.
LEMMA UtterFields ==
  ASSUME NEW c, NEW u, NEW to, NEW type
  PROVE  /\ Own("BYE", c, u, to).type = "BYE" /\ Own("BYE", c, u, to).from = u
         /\ Own("BYE", c, u, to).to = to
         /\ Own("ACK", c, u, to).type = "ACK"
         /\ Response(type, c, u).type = type /\ Response(type, c, u).cseq = "INVITE"
         /\ [Response(type, c, u) EXCEPT !.sdp = u].type = type
         /\ [Response(type, c, u) EXCEPT !.sdp = u].cseq = "INVITE"
BY DEF Own, Response, Request, Message

\* So are its replies.
LEMMA ReplyFields ==
  ASSUME NEW u, NEW m \in Datagram
  PROVE  /\ Reply("200", u, m).type = "200" /\ Reply("200", u, m).cseq = m.cseq
         /\ Reply("200", u, m).contact = u /\ Reply("200", u, m).from = m.from
         /\ [Reply("200", u, m) EXCEPT !.sdp = u].type = "200"
         /\ [Reply("200", u, m) EXCEPT !.sdp = u].cseq = m.cseq
         /\ [m EXCEPT !.type = "ACK", !.cseq = "ACK", !.peer = u].type = "ACK"
BY DEF Reply, Datagram

\* A phone of a caller: its BYE, and its answer to one, end the call.
LEMMA CallerTells ==
  ASSUME Kept, NEW c \in CallIds, ToldOf(c), CallerActs(c)
  PROVE  /\ Ended(c) => Ended(c)'
         /\ In(uplink'[c]) \subseteq In(uplink[c]) \cup Saying(c, c)'
<1>0. c \in Users /\ c \in Numbers /\ c \in Party(c) /\ Ivr \in Party(c)
      /\ phone \in [Users -> PhoneStates] /\ Saying(c, c)' \in SUBSET Datagram /\ Up
  BY CallFlowAssumption, PartyType DEF Kept, Phones, Saying, Of, Numbers
<1>1. ASSUME NEW ms \in Seq(Saying(c, c)'), Sends(c, ms)
      PROVE  In(uplink'[c]) \subseteq In(uplink[c]) \cup Saying(c, c)'
  BY <1>0, <1>1, SendsIn DEF Sends
<1>2. <<>> \in Seq(Saying(c, c)')
  OBVIOUS
<1>3. \A st, to : Becomes(c, st, to) => phone'[c] = st
  BY <1>0 DEF Becomes
<1>4. ASSUME NEW to \in Party(c)
      PROVE  Own("ACK", c, c, to) \in Saying(c, c)'
  BY <1>0, OwnUtter, UtterFields DEF Saying, Spoken, Utter, Of
<1>5. Ended(c)' => Own("BYE", c, c, Ivr) \in Saying(c, c)'
  <2>1. Own("BYE", c, c, Ivr) \in Utter(c, c)
    BY <1>0, OwnUtter
  <2> QED BY <2>1, UtterFields DEF Saying, Spoken, Utter, Of
<1>6. CASE Abandon(c)
  BY <1>1, <1>2, <1>3, <1>6 DEF Abandon, Acts, Ended
<1>7. CASE CallerHangsUp(c)
  <2>1. Ended(c)' /\ Sends(c, <<Own("BYE", c, c, Ivr)>>)
    BY <1>3, <1>7 DEF CallerHangsUp, Acts, Ended
  <2>2. <<Own("BYE", c, c, Ivr)>> \in Seq(Saying(c, c)')
    BY <1>5, <2>1
  <2> QED BY <1>1, <2>1, <2>2
<1>8. CASE CallerReceives(c)
  <2> DEFINE m == Head(downlink[c])
  <2>1. m \in Of(c) /\ m.to \in Party(c) /\ downlink[c] # <<>> /\ m \in Datagram
    BY <1>0, <1>8, OwnDownlink DEF CallerReceives, Of, Kept
  <2>2. m.type = "INVITE" => m.cseq = "INVITE"
    <3>1. downlink \in [Numbers -> Seq(Datagram)]
      BY DEF Kept, Down
    <3>2. m \in In(downlink[c])
      BY <1>0, <2>1, <3>1, InTail
    <3>3. Heard(c, c, m)
      BY <1>0, <2>1, <3>2 DEF ToldOf, Falls, Of
    <3> QED BY <3>3 DEF Heard
  <2>3. /\ \/ CallerAnswered(c, m) \/ CallerReinvited(c, m) \/ CallerToldBye(c, m)
           \/ CallerByeAnswered(c, m) \/ CallerToldTerminated(c, m) \/ CallerIgnores(c, m)
    BY <1>8 DEF CallerReceives
  <2>4. /\ Reply("200", c, m) \in Utter(c, c)
        /\ [Reply("200", c, m) EXCEPT !.sdp = c] \in Utter(c, c)
        /\ [m EXCEPT !.type = "ACK", !.cseq = "ACK", !.peer = c] \in Utter(c, c)
    BY <1>0, <2>1, ReplyUtter
  <2> HIDE DEF m
  <2>5. CASE CallerAnswered(c, m)
    <3>1. Own("ACK", c, c, m.to) \in Saying(c, c)'
      BY <1>4, <2>1
    <3>2. CASE phone[c] = "abandoning"
      <4>1. Ended(c)' /\ Sends(c, <<Own("ACK", c, c, m.to), Own("BYE", c, c, Ivr)>>)
        BY <1>3, <2>5, <3>2 DEF CallerAnswered, Takes, Ended
      <4>2. <<Own("ACK", c, c, m.to), Own("BYE", c, c, Ivr)>> \in Seq(Saying(c, c)')
        BY <1>5, <3>1, <4>1
      <4> QED BY <1>1, <4>1, <4>2
    <3>3. CASE phone[c] # "abandoning"
      <4>1. Sends(c, <<Own("ACK", c, c, m.to)>>) /\ (Ended(c) => Ended(c)')
        BY <2>5, <3>3 DEF CallerAnswered, Takes, Ended
      <4>2. <<Own("ACK", c, c, m.to)>> \in Seq(Saying(c, c)')
        BY <3>1
      <4> QED BY <1>1, <4>1, <4>2
    <3> QED BY <3>2, <3>3
  <2>6. CASE CallerReinvited(c, m)
    <3> DEFINE x == [Reply("200", c, m) EXCEPT !.sdp = c]
    <3>1. x \in Saying(c, c)'
      <4>1. x.type = "200" /\ x.cseq = "INVITE"
        BY <2>1, <2>2, <2>6, ReplyFields DEF CallerReinvited
      <4> QED BY <2>4, <4>1 DEF Saying, Spoken, Utter, Of
    <3>2. Sends(c, <<x>>) \/ Sends(c, <<>>)
      BY <2>6 DEF CallerReinvited, Takes
    <3>3. Ended(c) => Ended(c)'
      BY <2>6 DEF CallerReinvited, Takes, Ended
    <3> HIDE DEF x
    <3>4. <<x>> \in Seq(Saying(c, c)')
      BY <3>1
    <3> QED BY <1>1, <1>2, <3>2, <3>3, <3>4
  <2>7. CASE CallerToldBye(c, m)
    <3> DEFINE x == Reply("200", c, m)
    <3>1. Ended(c)' => x \in Saying(c, c)'
      <4>1. x.type = "200"
        BY <2>1, ReplyFields
      <4>2. c # Ivr /\ c \notin Agents
        BY PartyType
      <4> QED BY <2>4, <4>1, <4>2 DEF Saying, Spoken, Utter, Of
    <3>2. (Ended(c)' /\ Sends(c, <<x>>)) \/ Sends(c, <<>>)
      BY <1>3, <2>7 DEF CallerToldBye, Takes, Ended
    <3>3. Ended(c) => Ended(c)'
      BY <2>7 DEF CallerToldBye, Takes, Ended
    <3> HIDE DEF x
    <3>4. Ended(c)' => <<x>> \in Seq(Saying(c, c)')
      BY <3>1
    <3> QED BY <1>1, <1>2, <3>2, <3>3, <3>4
  <2>8. CASE CallerToldTerminated(c, m)
    <3> DEFINE x == [m EXCEPT !.type = "ACK", !.cseq = "ACK", !.peer = c]
    <3>1. x \in Saying(c, c)'
      <4>1. x.type = "ACK"
        BY <2>1, ReplyFields
      <4> QED BY <2>4, <4>1 DEF Saying, Spoken, Utter, Of
    <3>2. Sends(c, <<x>>) \/ Sends(c, <<>>)
      BY <2>8 DEF CallerToldTerminated, Takes
    <3>3. Ended(c) => Ended(c)'
      BY <2>8 DEF CallerToldTerminated, Takes, Ended
    <3> HIDE DEF x
    <3>4. <<x>> \in Seq(Saying(c, c)')
      BY <3>1
    <3> QED BY <1>1, <1>2, <3>2, <3>3, <3>4
  <2>9. CASE CallerByeAnswered(c, m) \/ CallerIgnores(c, m)
    <3>1. Sends(c, <<>>)
      BY <2>9 DEF CallerByeAnswered, CallerIgnores, Takes
    <3>2. Ended(c) => Ended(c)'
      BY <1>3, <2>9 DEF CallerByeAnswered, CallerIgnores, Takes, Ended
    <3> QED BY <1>1, <1>2, <3>1, <3>2
  <2> QED BY <2>3, <2>5, <2>6, <2>7, <2>8, <2>9
<1> QED BY <1>6, <1>7, <1>8 DEF CallerActs

\* A phone of an agent: its Contact tells its 200 from the caller's.
LEMMA AgentTells ==
  ASSUME Kept, \A d \in CallIds : ToldOf(d), NEW a \in Agents, AgentActs(a)
  PROVE  \E k \in CallIds : In(uplink'[a]) \subseteq In(uplink[a]) \cup Saying(a, k)'
<1>0. /\ a \in Users /\ a \in Numbers /\ a \notin CallIds /\ a # Ivr /\ Up
      /\ phone[a] # "idle" => dialog[a] \in CallIds
  BY CallFlowAssumption, SipAssumption DEF Kept, Phones, Numbers, OrNone
<1>1. ASSUME NEW k \in CallIds, NEW ms \in Seq(Saying(a, k)'), Sends(a, ms)
      PROVE  In(uplink'[a]) \subseteq In(uplink[a]) \cup Saying(a, k)'
  <2>1. Saying(a, k)' \in SUBSET Datagram
    BY DEF Saying, Of
  <2> QED BY <1>0, <1>1, <2>1, SendsIn DEF Sends
<1>2. ASSUME NEW k \in CallIds
      PROVE  /\ \A type \in {"180", "200", "480", "486", "487"} :
                  /\ <<Response(type, k, a)>> \in Seq(Saying(a, k)')
                  /\ <<[Response(type, k, a) EXCEPT !.sdp = a]>> \in Seq(Saying(a, k)')
             /\ Response("487", k, a) \in Saying(a, k)'
             /\ <<Own("BYE", k, a, k)>> \in Seq(Saying(a, k)')
             /\ <<>> \in Seq(Saying(a, k)')
  <2>1. ASSUME NEW type \in {"180", "200", "480", "486", "487"}
        PROVE  /\ Response(type, k, a) \in Saying(a, k)'
               /\ [Response(type, k, a) EXCEPT !.sdp = a] \in Saying(a, k)'
    <3>1. ASSUME NEW m \in Utter(a, k), m.type = type, m.cseq = "INVITE"
          PROVE  m \in Saying(a, k)'
      <4>1. m \in Of(k) /\ m.peer = a /\ m.type \notin {"BYE", "CANCEL"} /\ (m.type = "200" => m.cseq = "INVITE")
        BY <2>1, <3>1 DEF Utter
      <4> QED BY <4>1 DEF Saying, Spoken, Of
    <3>2. /\ Response(type, k, a) \in Utter(a, k)
          /\ [Response(type, k, a) EXCEPT !.sdp = a] \in Utter(a, k)
      BY ResponseUtter
    <3>3. Response(type, k, a).type = type /\ Response(type, k, a).cseq = "INVITE"
      BY UtterFields
    <3>4. /\ [Response(type, k, a) EXCEPT !.sdp = a].type = type
          /\ [Response(type, k, a) EXCEPT !.sdp = a].cseq = "INVITE"
      BY UtterFields
    <3>5. Response(type, k, a) \in Saying(a, k)'
      BY <3>1, <3>2, <3>3
    <3>6. [Response(type, k, a) EXCEPT !.sdp = a] \in Saying(a, k)'
      BY <3>1, <3>2, <3>4
    <3> QED BY <3>5, <3>6
  <2>2. Own("BYE", k, a, k) \in Saying(a, k)'
    <3>1. Own("BYE", k, a, k) \in Utter(a, k)
      BY PartyType, OwnUtter
    <3> QED BY <1>0, <3>1, UtterFields DEF Saying, Spoken, Utter, Of
  <2> QED BY <2>1, <2>2
<1>3. CASE AgentAnswers(a)
  <2>1. dialog[a] \in CallIds /\ Sends(a, <<[Response("200", dialog[a], a) EXCEPT !.sdp = a]>>)
    BY <1>0, <1>3 DEF AgentAnswers, Acts
  <2> QED BY <1>1, <1>2, <2>1
<1>4. CASE AgentRejects(a)
  <2>1. PICK type \in {"480", "486"} : Sends(a, <<Response(type, dialog[a], a)>>)
    BY <1>4 DEF AgentRejects, Acts
  <2>2. dialog[a] \in CallIds
    BY <1>0, <1>4 DEF AgentRejects
  <2> QED BY <1>1, <1>2, <2>1, <2>2
<1>5. CASE AgentHangsUp(a)
  <2>1. dialog[a] \in CallIds /\ Sends(a, <<Own("BYE", dialog[a], a, dialog[a])>>)
    BY <1>0, <1>5 DEF AgentHangsUp, Acts
  <2> QED BY <1>1, <1>2, <2>1
<1>6. CASE AgentReceives(a)
  <2>m. PICK m \in {Head(downlink[a])} : TRUE
    OBVIOUS
  <2>k. PICK k \in {m.callID} : TRUE
    OBVIOUS
  <2>1. m \in Of(k) /\ k \in CallIds /\ downlink[a] # <<>> /\ m \in Datagram
    BY <1>0, <1>6, <2>m, <2>k, OwnDownlink DEF AgentReceives, Of, Kept
  <2>2. m.type \in {"BYE", "CANCEL"} => m.from = k
    <3>1. downlink \in [Numbers -> Seq(Datagram)]
      BY DEF Kept, Down
    <3>2. m \in In(downlink[a])
      BY <1>0, <2>1, <2>m, <3>1, InTail
    <3>3. Heard(k, a, m)
      BY <1>0, <2>1, <2>k, <3>2 DEF ToldOf, Falls
    <3> QED BY <3>3 DEF Heard
  <2>3. Reply("200", a, m) \in Utter(a, k)
    BY <2>1, PartyType, ReplyUtter
  <2>4. \/ AgentInvited(a, m) \/ AgentCancelled(a, m) \/ AgentAcknowledged(a, m)
        \/ AgentToldBye(a, m) \/ AgentByeAnswered(a, m) \/ AgentIgnores(a, m)
    BY <1>6, <2>m DEF AgentReceives
  <2>5. m.callID = k
    BY <2>k
  <2>6. m.type \in {"BYE", "CANCEL"} => Reply("200", a, m) \in Saying(a, k)'
    BY <1>0, <2>1, <2>2, <2>3, ReplyFields DEF Saying, Spoken, Utter, Of
  <2>7. \E ms \in Seq(Saying(a, k)') : Sends(a, ms)
    <3>1. CASE AgentInvited(a, m)
      <4>1. Sends(a, <<>>) \/ Sends(a, <<Response("180", k, a)>>) \/ Sends(a, <<Response("486", k, a)>>)
        BY <2>5, <3>1 DEF AgentInvited, Takes
      <4> QED BY <1>2, <2>1, <4>1
    <3>2. CASE AgentCancelled(a, m)
      <4>1. Sends(a, <<Reply("200", a, m), Response("487", k, a)>>)
        BY <2>5, <3>2 DEF AgentCancelled, Takes
      <4>2. <<Reply("200", a, m), Response("487", k, a)>> \in Seq(Saying(a, k)')
        <5>1. Reply("200", a, m) \in Saying(a, k)'
          BY <2>6, <3>2 DEF AgentCancelled
        <5>2. Response("487", k, a) \in Saying(a, k)'
          BY <1>2, <2>1
        <5> QED BY <5>1, <5>2
      <4> QED BY <4>1, <4>2
    <3>3. CASE AgentToldBye(a, m)
      <4>1. Sends(a, <<Reply("200", a, m)>>)
        BY <3>3 DEF AgentToldBye, Takes
      <4>2. <<Reply("200", a, m)>> \in Seq(Saying(a, k)')
        BY <2>6, <3>3 DEF AgentToldBye
      <4> QED BY <4>1, <4>2
    <3>4. CASE AgentAcknowledged(a, m) \/ AgentByeAnswered(a, m) \/ AgentIgnores(a, m)
      BY <1>2, <2>1, <3>4 DEF AgentAcknowledged, AgentByeAnswered, AgentIgnores, Takes
    <3> QED BY <2>4, <3>1, <3>2, <3>3, <3>4
  <2> QED BY <1>1, <2>1, <2>7
<1> QED BY <1>3, <1>4, <1>5, <1>6 DEF AgentActs

\* A step of a phone.
LEMMA PhoneTells ==
  ASSUME Kept, Told, NEW u \in Numbers, NEW k \in CallIds, Kept', Apart,
         \A n \in Numbers \ {u} : uplink'[n] = uplink[n],
         In(uplink'[u]) \subseteq In(uplink[u]) \cup Saying(u, k)',
         \A n \in Numbers : In(downlink'[n]) \subseteq In(downlink[n]),
         \A d \in CallIds : Ended(d) => Ended(d)'
  PROVE  Told'
<1> SUFFICES ASSUME NEW d \in CallIds
             PROVE  ToldOf(d)'
  BY DEF Told
<1>1. KnownCaller(d)'
  BY DEF KnownCaller, Told, ToldOf, Apart, serverVars, ivrVars
<1>2. \A m \in Saying(u, k)' : m.callID = k /\ Spoken(k, u, m)'
  BY DEF Saying, Of
<1>3. \A n \in Numbers : \A m \in In(uplink'[n]) :
        m.callID = d => m \in In(uplink[n]) \/ Spoken(d, n, m)'
  BY <1>2
<1>4. \A n \in Numbers : \A m \in In(downlink'[n]) :
        m.callID = d => m \in In(downlink[n]) \/ Heard(d, n, m)
  OBVIOUS
<1> QED BY <1>1, <1>3, <1>4, ToldKept DEF Told

\* A caller dials.
LEMMA DialTells ==
  ASSUME Kept, Told, NEW c \in CallIds, Dial(c)
  PROVE  Told'
<1>1. /\ Kept' /\ Apart /\ UNCHANGED downlink
      /\ phone[c] = "idle" /\ \A v \in Users \ {c} : phone'[v] = phone[v]
      /\ uplink' = [uplink EXCEPT ![c] = @ \o <<Invitation(c)>>]
  BY DialDoes
<1>2. Ended(c) = FALSE /\ \A d \in CallIds : Ended(d) => Ended(d)'
  BY <1>1, CallFlowAssumption DEF Ended
<1>3. Invitation(c) \in Saying(c, c)'
  <2> DEFINE x == Message("INVITE", "INVITE", c, c, Ivr, c)
  <2>1. x \in Of(c) /\ x.peer = c /\ x.type = "INVITE"
    <3>1. x \in Of(c)
      BY PartyType, RequestOf DEF Types, Methods
    <3> QED BY <3>1, MadeUp
  <2>2. Invitation(c) = [x EXCEPT !.contact = c, !.sdp = c]
    BY <2>1 DEF Invitation, Own, Request, Of, Datagram
  <2>3. c \in Numbers
    BY PartyType
  <2> HIDE DEF x
  <2>4. Invitation(c) \in Of(c) /\ Invitation(c).type = "INVITE"
    BY <2>1, <2>2, <2>3 DEF Of, Datagram, OrNone
  <2> QED BY <2>4 DEF Saying, Spoken
<1>4. /\ c \in Numbers /\ Up /\ <<Invitation(c)>> \in Seq(Saying(c, c)')
      /\ Saying(c, c)' \in SUBSET Datagram
  BY <1>3, PartyType DEF Kept, Saying, Of
<1>5. /\ \A n \in Numbers \ {c} : uplink'[n] = uplink[n]
      /\ In(uplink'[c]) \subseteq In(uplink[c]) \cup Saying(c, c)'
  BY <1>1, <1>4, SendsIn
<1>6. \A n \in Numbers : In(downlink'[n]) \subseteq In(downlink[n])
  BY <1>1
<1> QED BY <1>1, <1>2, <1>4, <1>5, <1>6, PhoneTells

\* What an agent may be told, in a step.
Confirms ==
  \A i \in DOMAIN sent' :
       sent'[i].type = "200" /\ sent'[i].cseq = "BYE" /\ sent'[i].peer \in Agents
         => Ended(sent'[i].callID)

\* Every step.
LEMMA NextTold ==
  ASSUME Kept, Told, Next
  PROVE  Told' /\ Confirms
<1>0. /\ \A c \in CallIds : calls[c] # None => calls[c].src = c
      /\ AppKeeps /\ OwnCalls
  BY DEF Told, ToldOf, KnownCaller, Kept, Programs
<1>i. ASSUME NEW c \in CallIds, IvrDoes(c)
      PROVE  Confirms
  <2>1. sent' \in Seq(Voice(c))
    BY <1>i DEF IvrDoes, Attends, Answers
  <2>2. \A i \in DOMAIN sent' : sent'[i].peer = Ivr
    BY <2>1 DEF Voice
  <2> QED BY <2>2, SipAssumption, CallFlowAssumption DEF Confirms
<1>s. sent' = <<>> => Confirms
  BY DEF Confirms
<1>1. ASSUME NEW n \in Numbers, ServerStep(n)
      PROVE  Told' /\ Confirms
  <2>1. /\ \A d \in CallIds : ToldOf(d)'
        /\ \A x \in In(sent') : Heard(x.callID, x.peer, x) /\ x.callID \in CallIds
    BY <1>1, ServerTells DEF Told
  <2>2. sent' \in Seq(Datagram)
    BY <1>1, ServerStepDoes DEF Kept, Programs, Outcome
  <2>3. \A i \in DOMAIN sent' : sent'[i] \in In(sent')
    BY <2>2 DEF In
  <2>4. Confirms
    BY <2>1, <2>3 DEF Confirms, Heard
  <2> QED BY <2>1, <2>4 DEF Told
<1>2. CASE IvrReceives
  <2>1. PICK m \in Datagram, c \in CallIds :
          m \in In(downlink[Ivr]) /\ m.callID = c /\ App!Receive(m) /\ IvrDoes(c)
    BY <1>2, IvrReceivesDoes
  <2>2. Ivr \in Numbers
    BY DEF Numbers
  <2>3. Heard(c, Ivr, m) /\ m \in Of(c)
    BY <2>1, <2>2 DEF Told, ToldOf, Falls, Kept, Down, Falling
  <2>4. /\ \A x \in In(sent') : Spoken(c, Ivr, x)
        /\ \A d \in CallIds : calls'[d] # None => calls'[d].src = d
    BY <1>0, <2>1, <2>3, ReceiveTells
  <2> QED BY <1>i, <2>1, <2>4, IvrTells DEF Told
<1>3. CASE IvrWakes
  <2>1. PICK c \in CallIds : c = rx.call /\ IvrDoes(c)
    BY <1>3, IvrWakesDoes
  <2>2. /\ \A x \in In(sent') : Spoken(c, Ivr, x)
        /\ \A d \in CallIds : calls'[d] # None => calls'[d].src = d
    BY <1>0, <1>3, <2>1, VoiceTells DEF IvrWakes
  <2> QED BY <1>i, <2>1, <2>2, IvrTells DEF Told
<1>4. ASSUME NEW c \in CallIds, ReaderSteps(c) \/ PressKey(c)
      PROVE  Told' /\ Confirms
  <2>1. IvrDoes(c)
    BY <1>4, ReaderStepsDoes, PressKeyDoes
  <2>2. /\ \A x \in In(sent') : Spoken(c, Ivr, x)
        /\ \A d \in CallIds : calls'[d] # None => calls'[d].src = d
    BY <1>0, <1>4, VoiceTells DEF ReaderSteps, PressKey
  <2> QED BY <1>i, <2>1, <2>2, IvrTells DEF Told
<1>5. ASSUME NEW c \in CallIds, Dial(c)
      PROVE  Told' /\ Confirms
  <2>1. sent' = <<>>
    BY <1>5, DialDoes DEF Apart
  <2> QED BY <1>5, <1>s, <2>1, DialTells
<1>6. ASSUME NEW c \in CallIds, CallerActs(c)
      PROVE  Told' /\ Confirms
  <2>1. /\ Kept' /\ PhoneDoes(c, c) /\ c \in Numbers /\ c \in Users
    BY <1>6, CallerDoes, CallFlowAssumption DEF Numbers
  <2>2. /\ Ended(c) => Ended(c)'
        /\ In(uplink'[c]) \subseteq In(uplink[c]) \cup Saying(c, c)'
    BY <1>6, CallerTells DEF Told
  <2>3. \A d \in CallIds : Ended(d) => Ended(d)'
    BY <2>1, <2>2, CallFlowAssumption DEF PhoneDoes, Ended
  <2>4. Told'
    BY <2>1, <2>2, <2>3, PhoneTells DEF PhoneDoes
  <2> QED BY <1>s, <2>1, <2>4 DEF PhoneDoes, Apart
<1>7. ASSUME NEW a \in Agents, AgentActs(a)
      PROVE  Told' /\ Confirms
  <2>1. /\ Kept' /\ a \in Numbers /\ a \in Users /\ \E k \in CallIds : PhoneDoes(a, k)
    BY <1>7, AgentDoes, CallFlowAssumption DEF Numbers
  <2>2. PICK k \in CallIds : In(uplink'[a]) \subseteq In(uplink[a]) \cup Saying(a, k)'
    BY <1>7, AgentTells DEF Told
  <2>3. \A d \in CallIds : Ended(d) => Ended(d)'
    BY <2>1, CallFlowAssumption DEF PhoneDoes, Ended
  <2>4. Told'
    BY <2>1, <2>2, <2>3, PhoneTells DEF PhoneDoes
  <2> QED BY <1>s, <2>1, <2>4 DEF PhoneDoes, Apart
<1>8. CASE Trouble
  <2>1. /\ UNCHANGED <<serverVars, ivrVars, phoneVars>>
        /\ \A n \in Numbers : In(downlink'[n]) \subseteq In(downlink[n])
        /\ \A n \in Numbers : uplink'[n] = uplink[n] \/ uplink'[n] \in Disturbed(uplink[n])
    BY <1>8, TroubleDoes
  <2>2. \A n \in Numbers : In(uplink'[n]) \subseteq In(uplink[n])
    BY <2>1, InDisturbed DEF Kept, Up
  <2>3. ASSUME NEW d \in CallIds
        PROVE  ToldOf(d)'
    <3>1. KnownCaller(d)' /\ (Ended(d) => Ended(d)')
      BY <2>1 DEF Told, ToldOf, KnownCaller, Ended, serverVars, ivrVars, phoneVars
    <3> QED BY <2>1, <2>2, <3>1, ToldKept DEF Told
  <2>4. sent' = <<>>
    BY <1>8 DEF Trouble
  <2> QED BY <1>s, <2>3, <2>4 DEF Told
<1> QED BY <1>1, <1>2, <1>3, <1>4, <1>5, <1>6, <1>7, <1>8
        DEF Next, Callers, CallerActs, AgentActs

\* At first nobody has said anything.
LEMMA InitTold == Init => Told
BY InNone DEF Init, App!Init, Told, ToldOf, KnownCaller, Rises, Falls

\* Whatever the network does, and however many take part, an agent's phone is
\* told that its BYE was taken only for a caller who has left, or is leaving.
THEOREM ByeConfirmedLast == Spec => AgentByeConfirmedLast
<1>1. Kept /\ Told /\ [Next]_vars => Told'
  <2>1. Told /\ UNCHANGED vars => Told'
    BY DEF vars, Told, ToldOf, KnownCaller, Rises, Falls, Spoken, Heard, Parting, Ended,
       serverVars, ivrVars, netVars, phoneVars
  <2> QED BY <2>1, NextTold
<1>2. Kept /\ Told /\ [Next]_vars => [Confirms]_vars
  BY NextTold
<1>3. [Confirms]_vars => [\A i \in DOMAIN sent' :
       sent'[i].type = "200" /\ sent'[i].cseq = "BYE" /\ sent'[i].peer \in Agents
         => Ended(sent'[i].callID)]_vars
  BY DEF Confirms
<1> QED BY <1>1, <1>2, <1>3, InitTold, Invariance, PTL DEF Spec, AgentByeConfirmedLast

-----------------------------------------------------------------------------
(***************************************************************************)
(* The datagrams of a call that anybody says or hears, by type, CSeq and   *)
(* parties, whatever the network does to them.                             *)
(***************************************************************************)
\* What rises from n in call c, ...
Utters(c, n, m) ==
  /\ m.type \in {"INVITE", "ACK", "BYE", "REFER", "180", "200", "480", "486", "487"}
  /\ m.type \in {"180", "480", "486", "487"} =>
       n \in Agents /\ m.from = c /\ m.to = n /\ m.cseq = "INVITE"
  /\ m.type = "200" /\ m.cseq = "INVITE" => m.to = n /\ m.sdp = n /\ (n # c => m.from = c)
  /\ m.type = "ACK" => n = c
  /\ m.type = "BYE" => m.cseq = "BYE"
  /\ m.type = "REFER" => n = Ivr /\ m.from = Ivr /\ m.to = c /\ m.referTo \in Agents
  /\ m.type = "REFER" <=> m.cseq = "REFER"

\* ... and falls to it.
Hears(c, n, m) ==
  /\ m.type # "REFER"
  /\ m.cseq = "REFER" => m.type \in {"202", "480", "404", "garbled"}
  /\ m.type = "202" => m.cseq = "REFER"
  /\ m.type \in {"480", "486"} => m.cseq = "REFER" \/ m.to \in Agents
  /\ m.type = "487" => m.to \in Agents
  /\ m.type = "INVITE" =>
       m.to = n /\ m.cseq = "INVITE" /\ (n # c => m.from = c) /\ (n = c => m.sdp \in Agents)
  /\ m.type = "ACK" => (m.to = Ivr <=> n = Ivr)
  /\ m.type \in {"BYE", "CANCEL"} => m.cseq = m.type

RefersAgents(c) ==
  /\ sessions[c] # None => sessions[c].referedDest \in OrNone(Agents)
  /\ pending[c] # None => /\ pending[c].cseq = "REFER" /\ pending[c].from = Ivr
                          /\ pending[c].to = c /\ pending[c].referTo \in Agents

UsualOf(c) ==
  /\ RefersAgents(c)
  /\ \A n \in Numbers : /\ \A m \in Rises(c, n) : Utters(c, n, m)
                        /\ \A m \in Falls(c, n) : Hears(c, n, m)

Usual == \A c \in CallIds : UsualOf(c)

Opens(m) == m.to = Ivr /\ (m.type \in {"INVITE", "ACK"} \/ (m.type = "200" /\ m.cseq = "INVITE"))

\* A datagram that names nobody to refer to.
Made(type, cseq, c, from, to, contact, sdp, peer) ==
  [type |-> type, cseq |-> cseq, callID |-> c, from |-> from, to |-> to, contact |-> contact,
   referTo |-> None, sdp |-> sdp, peer |-> peer]

\* The INVITE of a referral, and its acceptance.
RingOf(c, s, a) == Made("INVITE", "INVITE", c, s.src, a, s.src, s.fromMedia, s.src)

AcceptedOf(c, s) == Made("202", "REFER", c, s.dest, s.src, None, None, s.src)

\* A referral that is accepted.
Accepts(c, m) ==
  LET s == sessions[c]
  IN  /\ m.type = "REFER" /\ s # None /\ s.dest = Ivr /\ m.referTo \in clients
      /\ sent' = <<Server!Route(Ivr, AcceptedOf(c, s)), Server!Route(m.referTo, RingOf(c, s, m.referTo))>>
      /\ sessions' = [sessions EXCEPT ![c] = [s EXCEPT !.referedDest = m.referTo]]

\* The answer to an INVITE, and what it is taken for.
OkInvite(m) == m.type = "200" /\ m.cseq = "INVITE"

Transfers(c, m) == OkInvite(m) /\ sessions[c] # None /\ Server!Transfered(sessions[c], m)

Updates(c, m) == OkInvite(m) /\ sessions[c] # None /\ Server!UpdateMedia(sessions[c], m)

\* x, which goes to k, is made of m: only a referral rings at an agent, a
\* re-INVITE bears the media of the agent who answered, an answer that is passed
\* on is neither the refered agent's nor the caller's to the re-INVITE, and an ACK
\* or a BYE for an agent has a reason.
Gives(c, m, k, x) ==
  /\ x.type = "INVITE" =>
       k = Ivr \/ Accepts(c, m) \/ (Transfers(c, m) /\ k = c /\ x.sdp = m.sdp)
  /\ OkInvite(x) =>
       /\ OkInvite(m) /\ x.to = m.to /\ x.sdp = m.sdp
       /\ sessions[c] # None
       /\ sessions[c].state = "Cancel" \/ (~Transfers(c, m) /\ ~Updates(c, m))
  /\ x.type = "ACK" /\ k \in Agents =>
       \/ m.type = "ACK" /\ m.to = k /\ x.to = k
       \/ m.type \in {"480", "486", "487"} /\ x.to = m.to
       \/ Updates(c, m) /\ k = sessions[c].referedDest /\ x.to = k
  /\ x.type = "487" => m.type = "487"
  /\ x.type = "BYE" /\ k \in Agents =>
       (m.type = "BYE" /\ m.from = c) \/ (Updates(c, m) /\ k = sessions[c].dest)

\* What may go to k when m has come.
Due(c, m, k, x) ==
  /\ Hears(c, k, x)
  /\ Gives(c, m, k, x)
  /\ x.cseq = "REFER" => m.type = "REFER"
  /\ Opens(x) => Opens(m) /\ (x.type = "ACK" <=> m.type = "ACK")

\* What the server knows when datagram m of call c comes from n.
Comes(c, n, m) ==
  /\ Arrives(c, n, m) /\ Utters(c, n, m)
  /\ sessions[c] # None => sessions[c].referedDest \in OrNone(Agents)

DuesOf(c, m) ==
  /\ \A x \in In(sent') : Due(c, m, x.peer, x)
  /\ Len(sent') <= 1 \/ \A x \in In(sent') : ~Opens(x)

\* endHandle: what may go to k may be sent there; the 404 says nothing.
LEMMA RouteDue ==
  ASSUME NEW c \in CallIds, NEW m, NEW x \in Of(c), NEW k \in Party(c), Due(c, m, k, x)
  PROVE  Due(c, m, Server!Route(k, x).peer, Server!Route(k, x))
<1>1. CASE k \in clients
  <2>1. Server!Route(k, x) = [x EXCEPT !.peer = k]
    BY <1>1 DEF Server!Route, Server!EndHandle
  <2>2. PICK y \in {Server!Route(k, x)} : TRUE
    OBVIOUS
  <2>3. /\ y.peer = k /\ y.type = x.type /\ y.cseq = x.cseq /\ y.from = x.from
        /\ y.to = x.to /\ y.sdp = x.sdp
    BY <2>1, <2>2 DEF Of, Datagram
  <2>4. Due(c, m, y.peer, y)
    BY <2>3 DEF Due, Hears, Gives, OkInvite, Opens
  <2> QED BY <2>2, <2>4
<1>2. CASE k \notin clients
  <2>2. PICK y \in {Server!Route(k, x)} : TRUE
    OBVIOUS
  <2>1. y.type \in {"404", "garbled"} /\ y.cseq = x.cseq
    BY <1>2, <2>2 DEF Server!Route, Server!EndHandle, Of, Datagram
  <2>3. Due(c, m, y.peer, y)
    BY <2>1 DEF Due, Hears, Gives, OkInvite, Opens
  <2> QED BY <2>2, <2>3
<1> QED BY <1>1, <1>2

\* A handler that passes one datagram on, ...
LEMMA ForwardDues ==
  ASSUME NEW c \in CallIds, NEW m, NEW x \in Of(c), NEW k \in Party(c), Due(c, m, k, x),
         Server!Forward(k, x)
  PROVE  DuesOf(c, m)
<1>1. In(sent') = {Server!Route(k, x)} /\ Len(sent') = 1
  BY InOne DEF Server!Forward
<1> QED BY <1>1, RouteDue DEF DuesOf

\* ... and one that returns early.
LEMMA DropDues ==
  ASSUME NEW c, NEW m, sent' = <<>>
  PROVE  DuesOf(c, m)
BY InNone DEF DuesOf

\* What opens no call before it is routed does not after it.
LEMMA RouteShut ==
  ASSUME NEW c \in CallIds, NEW x \in Of(c), NEW k \in Party(c), ~Opens(x)
  PROVE  ~Opens(Server!Route(k, x))
<1>2. PICK y \in {Server!Route(k, x)} : TRUE
  OBVIOUS
<1>1. y.type \in {"404", "garbled", x.type} /\ y.cseq = x.cseq /\ y.to = x.to
  BY <1>2 DEF Server!Route, Server!EndHandle, Of, Datagram
<1> QED BY <1>1, <1>2 DEF Opens

\* The INVITE.
LEMMA OnInviteDues ==
  ASSUME NEW c \in CallIds, NEW n, NEW m, Comes(c, n, m), Server!OnInvite(m)
  PROVE  DuesOf(c, m)
<1>0. m \in Of(c) /\ m.from = c /\ m.cseq = "INVITE" /\ m.contact = c /\ m.type = "INVITE"
      /\ m.contact # None /\ c \in Party(c) /\ m.to = Ivr /\ c # Ivr
  <2>1. m = Invitation(c) /\ m \in Of(c)
    BY DEF Comes, Arrives, Server!OnInvite
  <2>2. Own("INVITE", c, c, Ivr) =
          [type |-> "INVITE", cseq |-> "INVITE", callID |-> c, from |-> c, to |-> Ivr,
           contact |-> c, referTo |-> None, sdp |-> None, peer |-> c]
    BY DEF Own, Request, Message
  <2> QED BY <2>1, <2>2, PartyType DEF Invitation
<1>1. CASE sent' = <<>>
  BY <1>1, DropDues
<1>2. CASE Server!Forward(m.from, Server!SetContact([m EXCEPT !.type = "404"], m.from))
  <2> DEFINE x == Server!SetContact([m EXCEPT !.type = "404"], m.from)
  <2>1. x \in Of(c)
    BY <1>0, RewriteOf DEF Server!SetContact, SetContact, Types, Responses
  <2>2. x.type = "404" /\ x.cseq = "INVITE"
    BY <1>0 DEF Server!SetContact, Of, Datagram
  <2> HIDE DEF x
  <2>3. Due(c, m, c, x)
    BY <2>2 DEF Due, Hears, Gives, OkInvite, Opens
  <2> QED BY <1>0, <1>2, <2>1, <2>3, ForwardDues DEF x
<1>3. CASE Server!Forward(m.to, Server!SetContact(m, m.from))
  <2> DEFINE x == Server!SetContact(m, m.from)
  <2>1. x \in Of(c)
    BY <1>0, RewriteOf DEF Server!SetContact, SetContact
  <2>2. x.type = "INVITE" /\ x.cseq = "INVITE" /\ x.from = c /\ x.to = Ivr
    BY <1>0 DEF Server!SetContact, Of, Datagram
  <2> HIDE DEF x
  <2>3. Due(c, m, Ivr, x)
    BY <1>0, <2>2 DEF Due, Hears, Gives, OkInvite, Opens
  <2> QED BY <1>0, <1>3, <2>1, <2>3, ForwardDues, PartyType DEF x
<1> QED BY <1>1, <1>2, <1>3 DEF Server!OnInvite, Server!Drop

\* Handlers that pass on a ringing, a 487 or an ACK.
LEMMA PassingDues ==
  ASSUME NEW c \in CallIds, NEW n, NEW m, Comes(c, n, m),
         Server!OnRinging(m) \/ Server!OnReqTerminated(m) \/ Server!OnAck(m)
  PROVE  DuesOf(c, m)
<1>0. m \in Of(c) /\ m.callID = c /\ m.from \in Party(c) /\ m.to \in Party(c) /\ Utters(c, n, m)
      /\ Ivr \notin Agents
  BY ArrivesFrom DEF Comes, Arrives
<1>1. CASE sent' = <<>>
  BY <1>1, DropDues
<1>2. CASE m.type \in {"180", "487"} /\ Server!Forward(m.from, m)
  <2>1. Due(c, m, m.from, m)
    BY <1>0, <1>2 DEF Due, Hears, Gives, OkInvite, Utters
  <2> QED BY <1>0, <1>2, <2>1, ForwardDues
<1>3. CASE m.type = "487" /\ Server!Forward(m.to, Server!AckOf(m))
  <2> DEFINE x == Server!AckOf(m)
  <2>1. x \in Of(c)
    BY <1>0, RewriteOf
  <2>2. x.type = "ACK" /\ x.cseq = "ACK" /\ x.to = m.to
    BY <1>0 DEF Server!AckOf, Of, Datagram
  <2>3. m.to \in Agents
    BY <1>0, <1>3 DEF Utters
  <2> HIDE DEF x
  <2>4. Due(c, m, m.to, x)
    BY <1>0, <1>3, <2>2, <2>3 DEF Due, Hears, Gives, OkInvite, Opens
  <2> QED BY <1>0, <1>3, <2>1, <2>4, ForwardDues DEF x
<1>4. CASE m.type = "ACK" /\ Server!Forward(m.to, m)
  <2>1. Due(c, m, m.to, m)
    BY <1>0, <1>4 DEF Due, Hears, Gives, OkInvite, Utters
  <2> QED BY <1>0, <1>4, <2>1, ForwardDues
<1> QED BY <1>0, <1>1, <1>2, <1>3, <1>4
        DEF Server!OnRinging, Server!OnReqTerminated, Server!OnAck, Server!Drop, Server!HasSession

\* A failure.
LEMMA FailedDues ==
  ASSUME ServerKeeps, NEW c \in CallIds, OwnSession(c), NEW n, NEW m, Comes(c, n, m), NEW st,
         m.type \in {"480", "486"}, Server!Failed(m, st)
  PROVE  DuesOf(c, m)
<1>0. m \in Of(c) /\ m.callID = c /\ m.from \in Party(c) /\ m.to \in Party(c) /\ Utters(c, n, m)
      /\ Ivr \notin Agents /\ m.to \in Agents /\ m.cseq = "INVITE"
  BY ArrivesFrom DEF Comes, Arrives, Utters
<1>m. \A k : Due(c, m, k, m)
  BY <1>0 DEF Due, Hears, Gives, OkInvite
<1>1. CASE sent' = <<>>
  BY <1>1, DropDues
<1>2. CASE Server!Forward(m.from, m)
  BY <1>0, <1>2, <1>m, ForwardDues
<1>3. CASE /\ sessions[c] # None /\ sessions[c].referedDest # None
           /\ sent' = <<Server!Route(sessions[c].dest, m),
                        Server!Route(sessions[c].referedDest, Server!AckOf(m))>>
  <2> DEFINE x == Server!AckOf(m)
  <2>1. sessions[c].dest \in Party(c) /\ sessions[c].referedDest \in Party(c)
        /\ sessions[c].referedDest \in Agents
    BY <1>3, SessionOf DEF Comes, OrNone
  <2>2. x \in Of(c)
    BY <1>0, RewriteOf
  <2>3. x.type = "ACK" /\ x.cseq = "ACK" /\ x.to = m.to
    BY <1>0 DEF Server!AckOf, Of, Datagram
  <2> HIDE DEF x
  <2>4. Due(c, m, sessions[c].referedDest, x) /\ ~Opens(x) /\ ~Opens(m)
    BY <1>0, <2>1, <2>3 DEF Due, Hears, Gives, OkInvite, Opens
  <2>5. \A y \in {Server!Route(sessions[c].dest, m), Server!Route(sessions[c].referedDest, x)} :
          Due(c, m, y.peer, y) /\ ~Opens(y)
    BY <1>0, <1>m, <2>1, <2>2, <2>4, RouteDue, RouteShut
  <2> QED BY <1>3, <2>5, InTwo DEF DuesOf, x
<1> QED BY <1>0, <1>1, <1>2, <1>3
        DEF Server!Failed, Server!Drop, Server!FailureTarget, Server!HasSession

\* What is made up, field by field, ...
LEMMA MadeIs ==
  ASSUME NEW type, NEW cseq, NEW c, NEW from, NEW to, NEW contact, NEW sdp, NEW peer,
         NEW x, x = Made(type, cseq, c, from, to, contact, sdp, peer)
  PROVE  /\ x.type = type /\ x.cseq = cseq /\ x.callID = c /\ x.from = from /\ x.to = to
         /\ x.contact = contact /\ x.sdp = sdp /\ x.peer = peer
BY DEF Made

\* ... and the call it is of.
LEMMA MadeOf ==
  ASSUME NEW c \in CallIds, NEW type \in Types, NEW cseq \in Methods, NEW from \in Party(c),
         NEW to \in Party(c), NEW contact \in OrNone(Numbers), NEW sdp \in OrNone(Numbers),
         NEW peer \in Party(c)
  PROVE  Made(type, cseq, c, from, to, contact, sdp, peer) \in Of(c)
BY PartyType DEF Made, Of, Datagram, OrNone

\* An INVITE with a Contact and a body.
BodyOf(m, contact, sdp) == [m EXCEPT !.contact = contact, !.sdp = sdp]

\* The server's is made in two steps.
LEMMA BodyFields ==
  ASSUME NEW c, NEW from, NEW to, NEW peer, NEW contact, NEW sdp
  PROVE  BodyOf(Server!Request("INVITE", c, from, to, peer), contact, sdp) =
           Made("INVITE", "INVITE", c, from, to, contact, sdp, peer)
<1> DEFINE x == Server!Request("INVITE", c, from, to, peer)
           y == [type |-> "INVITE", cseq |-> "INVITE", callID |-> c, from |-> from, to |-> to,
                 contact |-> contact, referTo |-> None, sdp |-> None, peer |-> peer]
           z == [type |-> "INVITE", cseq |-> "INVITE", callID |-> c, from |-> from, to |-> to,
                 contact |-> contact, referTo |-> None, sdp |-> sdp, peer |-> peer]
<1>1. [x EXCEPT !.contact = contact] = y
  BY DEF Server!Request, Server!Message
<1>2. [y EXCEPT !.sdp = sdp] = z
  OBVIOUS
<1> HIDE DEF x, y, z
<1>3. BodyOf(x, contact, sdp) = [[x EXCEPT !.contact = contact] EXCEPT !.sdp = sdp]
  BY DEF BodyOf
<1>4. BodyOf(x, contact, sdp) = z
  BY <1>1, <1>2, <1>3
<1> QED BY <1>4 DEF x, z, Made

\* What the server makes up, field by field.
LEMMA MadeFields ==
  ASSUME NEW s, NEW c, NEW m
  PROVE  /\ Server!AckAgent(s, c) = Made("ACK", "ACK", c, s.src, s.referedDest, s.src, None, s.src)
         /\ Server!AckClient(s, c) = Made("ACK", "ACK", c, s.dest, s.src, s.dest, None, s.dest)
         /\ Server!ByeToIvr(s, c) = Made("BYE", "BYE", c, s.src, s.dest, None, None, s.src)
         /\ Server!Reinvite(s, m) =
              Made("INVITE", "INVITE", m.callID, s.dest, s.src, s.dest, m.sdp, s.src)
<1>1. Server!AckAgent(s, c) = Made("ACK", "ACK", c, s.src, s.referedDest, s.src, None, s.src)
  BY DEF Server!AckAgent, Server!Request, Server!Message, Made
<1>2. Server!AckClient(s, c) = Made("ACK", "ACK", c, s.dest, s.src, s.dest, None, s.dest)
  BY DEF Server!AckClient, Server!Request, Server!Message, Made
<1>3. Server!ByeToIvr(s, c) = Made("BYE", "BYE", c, s.src, s.dest, None, None, s.src)
  BY DEF Server!ByeToIvr, Server!Request, Server!Message, Made
<1>4. Server!Reinvite(s, m) = BodyOf(Server!Request("INVITE", m.callID, s.dest, s.src, s.src), s.dest, m.sdp)
  BY DEF Server!Reinvite, BodyOf
<1> QED BY <1>1, <1>2, <1>3, <1>4, BodyFields

\* What OnRefer does.
LEMMA OnReferDoes ==
  ASSUME NEW c, NEW m, m.callID = c, Server!OnRefer(m)
  PROVE  /\ m.type = "REFER"
         /\ \/ sent' = <<>> /\ UNCHANGED sessions
            \/ /\ sessions[c] # None /\ sessions[c].dest # None
               /\ Server!Forward(sessions[c].dest, [m EXCEPT !.type = "480"])
               /\ UNCHANGED sessions
            \/ Accepts(c, m)
<1> DEFINE s == sessions[c]
           y == BodyOf(Server!Request("INVITE", c, s.src, m.referTo, s.src), s.src, s.fromMedia)
<1>1. y = RingOf(c, s, m.referTo)
  BY BodyFields DEF RingOf
<1>2. Server!Message("202", "REFER", c, s.dest, s.src, s.src) = AcceptedOf(c, s)
  BY DEF Server!Message, AcceptedOf, Made
<1> HIDE DEF y
<1>3. \/ sent' = <<>> /\ UNCHANGED sessions
      \/ /\ s # None /\ s.dest # None
         /\ Server!Forward(s.dest, [m EXCEPT !.type = "480"])
         /\ UNCHANGED sessions
      \/ /\ s # None /\ s.dest = Ivr /\ m.referTo \in clients
         /\ sent' = <<Server!Route(s.dest, Server!Message("202", "REFER", c, s.dest, s.src, s.src)),
                      Server!Route(m.referTo, y)>>
         /\ sessions' = [sessions EXCEPT ![c] = [s EXCEPT !.referedDest = m.referTo]]
  BY DEF Server!OnRefer, Server!HasSession, Server!Drop, Server!ReferAllowed, Server!Put, y, BodyOf
<1>4. m.type = "REFER"
  BY DEF Server!OnRefer
<1> QED BY <1>1, <1>2, <1>3, <1>4 DEF Accepts

\* The referral.
LEMMA OnReferDues ==
  ASSUME ServerKeeps, NEW c \in CallIds, OwnSession(c), NEW n, NEW m, Comes(c, n, m),
         Server!OnRefer(m)
  PROVE  DuesOf(c, m)
<1> DEFINE s == sessions[c]
<1>0. m \in Of(c) /\ m.callID = c /\ m.type = "REFER" /\ m.referTo \in Agents
      /\ (s # None => s.src = c) /\ c \in Party(c) /\ Ivr \in Party(c) /\ Ivr \notin Agents
      /\ c \notin Agents /\ c # Ivr /\ Agents \subseteq Party(c) /\ m.cseq = "REFER"
  BY ArrivesFrom, PartyType, OnReferDoes DEF Comes, Arrives, Of, Utters
<1>1. CASE sent' = <<>>
  BY <1>1, DropDues
<1>2. CASE s # None /\ s.dest # None /\ Server!Forward(s.dest, [m EXCEPT !.type = "480"])
  <2> DEFINE x == [m EXCEPT !.type = "480"]
  <2>1. x \in Of(c)
    BY <1>0, RewriteOf DEF Types, Responses
  <2>3. x.type = "480" /\ x.cseq = "REFER"
    BY <1>0 DEF Of, Datagram
  <2>2. s.dest \in Party(c)
    BY <1>2, SessionOf
  <2> HIDE DEF x
  <2>4. Due(c, m, s.dest, x)
    BY <1>0, <2>3 DEF Due, Hears, Gives, OkInvite, Opens
  <2> QED BY <1>2, <2>1, <2>2, <2>4, ForwardDues DEF x
<1>3. CASE Accepts(c, m)
  <2> DEFINE x == AcceptedOf(c, s)
             y == RingOf(c, s, m.referTo)
  <2>1. s \in Server!Session /\ s.src = c /\ s.fromMedia \in OrNone(Numbers) /\ c \in Numbers /\ s.dest = Ivr
    BY <1>0, <1>3, SessionOf, PartyType DEF Accepts, OrNone
  <2>2. x \in Of(c)
    BY <1>0, <2>1, MadeOf DEF AcceptedOf, Types, Methods, Responses, OrNone
  <2>3. y \in Of(c)
    BY <1>0, <2>1, MadeOf DEF RingOf, Types, Methods, OrNone
  <2>4. /\ x.type = "202" /\ x.cseq = "REFER"
        /\ y.type = "INVITE" /\ y.cseq = "INVITE" /\ y.to = m.referTo /\ y.from = c
    BY <2>1, MadeIs DEF AcceptedOf, RingOf
  <2>5. sent' = <<Server!Route(Ivr, x), Server!Route(m.referTo, y)>>
    BY <1>3 DEF Accepts
  <2> HIDE DEF x, y
  <2>6. Due(c, m, Ivr, x) /\ Due(c, m, m.referTo, y) /\ ~Opens(x) /\ ~Opens(y)
    BY <1>0, <1>3, <2>4 DEF Due, Hears, Gives, OkInvite, Opens
  <2>7. \A z \in {Server!Route(Ivr, x), Server!Route(m.referTo, y)} :
          Due(c, m, z.peer, z) /\ ~Opens(z)
    BY <1>0, <2>2, <2>3, <2>6, RouteDue, RouteShut
  <2> QED BY <2>5, <2>7, InTwo DEF DuesOf
<1> QED BY <1>0, <1>1, <1>2, <1>3, OnReferDoes

\* The answers to INVITEs.
LEMMA OnOkInviteDues ==
  ASSUME ServerKeeps, NEW c \in CallIds, OwnSession(c), NEW n, NEW m, Comes(c, n, m),
         m.type = "200", m.cseq = "INVITE", sessions[c] # None,
         Server!OnOkInvite(sessions[c], m)
  PROVE  DuesOf(c, m)
<1> DEFINE s == sessions[c]
<1>0. /\ m \in Of(c) /\ m.callID = c /\ m.from \in Party(c) /\ m.to \in Party(c)
      /\ m.sdp \in OrNone(Numbers) /\ s.src = c /\ c \in Party(c) /\ m.to = n /\ m.sdp = n
      /\ s.referedDest # None =>
           s.dest \in Party(c) /\ s.referedDest \in Party(c) /\ s.referedDest \in Agents
      /\ c # Ivr /\ c \notin Agents /\ c # None /\ Ivr \notin Agents /\ c \in Numbers
      /\ Party(c) \subseteq Numbers
  BY ArrivesFrom, PartyType, SessionOf DEF Comes, Arrives, Of, Datagram, Utters, OrNone
<1>1. CASE sent' = <<>>
  BY <1>1, DropDues
<1>2. CASE Server!Answered(s, m)
  <2> DEFINE x == Server!SetContact(m, m.to)
  <2>1. x \in Of(c)
    BY <1>0, RewriteOf DEF Server!SetContact, SetContact
  <2>2. /\ x.type = "garbled" \/ x.type = "200"
        /\ x.cseq = "INVITE" /\ x.to = m.to /\ x.sdp = m.sdp
    BY <1>0 DEF Server!SetContact, Of, Datagram
  <2>4. Server!Forward(m.from, x) /\ ~Transfers(c, m) /\ ~Updates(c, m)
    BY <1>0, <1>2 DEF Server!Answered, Transfers, Updates
  <2> HIDE DEF x
  <2>3. Due(c, m, m.from, x)
    BY <2>2, <2>4 DEF Due, Hears, Gives, OkInvite, Opens
  <2> QED BY <1>0, <2>1, <2>3, <2>4, ForwardDues
<1>3. CASE Server!AgentAnswered(s, m)
  <2> DEFINE x == Server!Reinvite(s, m)
  <2>1. s.dest \in Party(c) /\ s.dest \in Numbers /\ m.sdp \in Agents /\ m.sdp \in OrNone(Numbers)
        /\ s.dest \in OrNone(Numbers)
    BY <1>0, <1>3, PartyType DEF Server!AgentAnswered, Server!Transfered, OrNone
  <2>2. Server!Forward(c, x)
    BY <1>0, <1>3 DEF Server!AgentAnswered
  <2>3. x = Made("INVITE", "INVITE", c, s.dest, c, s.dest, m.sdp, c)
    BY <1>0, MadeFields
  <2> HIDE DEF x
  <2>4. x.type = "INVITE" /\ x.cseq = "INVITE" /\ x.to = c /\ x.sdp \in Agents /\ x.sdp = m.sdp
    BY <2>1, <2>3, MadeIs
  <2>7. Transfers(c, m)
    BY <1>3 DEF Server!AgentAnswered, Transfers, OkInvite
  <2>t. "INVITE" \in Types /\ "INVITE" \in Methods
    BY DEF Types, Methods
  <2>5. x \in Of(c)
    BY <1>0, <2>1, <2>3, <2>t, MadeOf
  <2>6. Due(c, m, c, x)
    BY <1>0, <2>4, <2>7 DEF Due, Hears, Gives, OkInvite, Opens
  <2> QED BY <1>0, <2>2, <2>5, <2>6, ForwardDues
<1>4. CASE Server!MediaUpdated(s, m)
  <2> DEFINE x == Server!AckAgent(s, c)
             y == Server!AckClient(s, c)
             z == Server!ByeToIvr(s, c)
  <2>1. /\ s.dest \in Party(c) /\ s.referedDest \in Party(c) /\ s.referedDest \in Agents
        /\ s.dest \in OrNone(Numbers) /\ c \in OrNone(Numbers) /\ None \in OrNone(Numbers)
    BY <1>0, <1>4, PartyType DEF Server!MediaUpdated, Server!UpdateMedia, OrNone
  <2>t. {"ACK", "BYE"} \subseteq Types /\ {"ACK", "BYE"} \subseteq Methods
    BY DEF Types, Methods
  <2>4. sent' = <<Server!Route(s.referedDest, x), Server!Route(c, y), Server!Route(s.dest, z)>>
    <3>1. z.to = s.dest
      BY MadeFields, MadeIs
    <3> QED BY <1>0, <1>4, <3>1 DEF Server!MediaUpdated
  <2>f. /\ x = Made("ACK", "ACK", c, c, s.referedDest, c, None, c)
        /\ y = Made("ACK", "ACK", c, s.dest, c, s.dest, None, s.dest)
        /\ z = Made("BYE", "BYE", c, c, s.dest, None, None, c)
    BY <1>0, MadeFields
  <2> HIDE DEF x, y, z
  <2>x. x \in Of(c) /\ x.type = "ACK" /\ x.cseq = "ACK" /\ x.to = s.referedDest
    <3>1. x \in Of(c)
      BY <1>0, <2>1, <2>t, <2>f, MadeOf
    <3> QED BY <2>f, <3>1, MadeIs
  <2>y. y \in Of(c) /\ y.type = "ACK" /\ y.cseq = "ACK" /\ y.to = c
    <3>1. y \in Of(c)
      BY <1>0, <2>1, <2>t, <2>f, MadeOf
    <3> QED BY <2>f, <3>1, MadeIs
  <2>z. z \in Of(c) /\ z.type = "BYE" /\ z.cseq = "BYE" /\ z.to = s.dest
    <3>1. z \in Of(c)
      BY <1>0, <2>1, <2>t, <2>f, MadeOf
    <3> QED BY <2>f, <3>1, MadeIs
  <2>5. /\ Due(c, m, s.referedDest, x) /\ Due(c, m, c, y) /\ Due(c, m, s.dest, z)
        /\ ~Opens(x) /\ ~Opens(y) /\ ~Opens(z)
    <3>1. Updates(c, m)
      BY <1>4 DEF Server!MediaUpdated, Updates, OkInvite
    <3> QED BY <1>0, <2>1, <2>x, <2>y, <2>z, <3>1 DEF Due, Hears, Gives, OkInvite, Opens
  <2>6. \A w \in {Server!Route(s.referedDest, x), Server!Route(c, y), Server!Route(s.dest, z)} :
          Due(c, m, w.peer, w) /\ ~Opens(w)
    BY <1>0, <2>1, <2>x, <2>y, <2>z, <2>5, RouteDue, RouteShut
  <2> QED BY <2>4, <2>6, InThree DEF DuesOf
<1> QED BY <1>0, <1>1, <1>2, <1>3, <1>4 DEF Server!OnOkInvite, Server!Drop

\* What says nothing that matters may go to anybody.
LEMMA AnyDue ==
  ASSUME NEW c, NEW m, NEW k, NEW x, x.cseq # "REFER",
         x.type \in {"200", "100", "180", "404", "garbled"}
           \/ (x.type \in {"BYE", "CANCEL"} /\ x.cseq = x.type),
         OkInvite(x) \/ x.type = "BYE" => Gives(c, m, k, x),
         Opens(x) => Opens(m) /\ m.type # "ACK"
  PROVE  Due(c, m, k, x)
<1>1. x.type # "ACK"
  OBVIOUS
<1>2. Gives(c, m, k, x)
  BY DEF Gives
<1> QED BY <1>1, <1>2 DEF Due, Hears

\* An answered BYE.
LEMMA OnOkByeDues ==
  ASSUME ServerKeeps, NEW c \in CallIds, OwnSession(c), NEW n, NEW m, Comes(c, n, m),
         m.type = "200", m.cseq = "BYE", sessions[c] # None, Server!OnOkBye(sessions[c], m)
  PROVE  DuesOf(c, m)
<1> DEFINE s == sessions[c]
<1>0. /\ m \in Of(c) /\ m.callID = c /\ m.from \in Party(c)
      /\ s.src = c /\ c \in Party(c)
      /\ s.referedDest # None => s.dest \in Party(c) /\ s.referedDest \in Party(c)
  BY ArrivesFrom, PartyType, SessionOf DEF Comes, Arrives, Of, Datagram
<1>1. CASE sent' = <<>>
  BY <1>1, DropDues
<1>2. CASE Server!Forward(m.from, m) \/ Server!Forward(s.src, m)
  <2>1. \A k : Due(c, m, k, m)
    BY AnyDue DEF OkInvite
  <2> QED BY <1>0, <1>2, <2>1, ForwardDues
<1>3. CASE s.referedDest # None /\ Server!Forward(s.referedDest, [m EXCEPT !.from = s.referedDest])
  <2> DEFINE x == [m EXCEPT !.from = s.referedDest]
  <2>1. x \in Of(c)
    BY <1>0, <1>3, RewriteOf
  <2>2. x.type = "200" /\ x.cseq = "BYE"
    BY <1>0 DEF Of, Datagram
  <2> HIDE DEF x
  <2>3. Due(c, m, s.referedDest, x)
    BY <2>2, AnyDue DEF Opens, OkInvite
  <2> QED BY <1>0, <1>3, <2>1, <2>3, ForwardDues DEF x
<1>4. CASE s.referedDest # None /\ Server!Forward(s.src, [m EXCEPT !.from = s.dest])
  <2> DEFINE x == [m EXCEPT !.from = s.dest]
  <2>1. x \in Of(c)
    BY <1>0, <1>4, RewriteOf
  <2>2. x.type = "200" /\ x.cseq = "BYE"
    BY <1>0 DEF Of, Datagram
  <2> HIDE DEF x
  <2>3. Due(c, m, c, x)
    BY <2>2, AnyDue DEF Opens, OkInvite
  <2> QED BY <1>0, <1>4, <2>1, <2>3, ForwardDues DEF x
<1> QED BY <1>0, <1>1, <1>2, <1>3, <1>4 DEF Server!OnOkBye, Server!Drop

\* A 200.
LEMMA OnOkDues ==
  ASSUME ServerKeeps, NEW c \in CallIds, OwnSession(c), NEW n, NEW m, Comes(c, n, m),
         Server!OnOk(m)
  PROVE  DuesOf(c, m)
<1>0. m \in Of(c) /\ m.callID = c /\ m.from \in Party(c) /\ m.type = "200" /\ m.cseq # "REFER"
  BY ArrivesFrom DEF Comes, Arrives, Server!OnOk, Utters
<1>1. CASE sent' = <<>>
  BY <1>1, DropDues
<1>2. CASE sessions[c] # None /\ sessions[c].state = "Cancel" /\ Server!Forward(m.from, m)
  <2>2. OkInvite(m) => Gives(c, m, m.from, m)
    BY <1>0, <1>2 DEF Gives, OkInvite
  <2>1. Due(c, m, m.from, m)
    BY <1>0, <2>2, AnyDue
  <2> QED BY <1>0, <1>2, <2>1, ForwardDues
<1>3. CASE sessions[c] # None /\ m.cseq = "INVITE" /\ Server!OnOkInvite(sessions[c], m)
  BY <1>0, <1>3, OnOkInviteDues
<1>4. CASE sessions[c] # None /\ m.cseq = "BYE" /\ Server!OnOkBye(sessions[c], m)
  BY <1>0, <1>4, OnOkByeDues
<1> QED BY <1>0, <1>1, <1>2, <1>3, <1>4 DEF Server!OnOk, Server!HasSession, Server!Drop

\* A BYE.
LEMMA OnByeDues ==
  ASSUME ServerKeeps, NEW c \in CallIds, OwnSession(c), NEW n, NEW m, Comes(c, n, m),
         Server!OnBye(m)
  PROVE  DuesOf(c, m)
<1> DEFINE s == sessions[c]
<1>0. /\ m \in Of(c) /\ m.callID = c /\ m.from \in Party(c) /\ m.to \in Party(c)
      /\ m.type = "BYE" /\ m.cseq = "BYE" /\ c \in Party(c)
      /\ c # Ivr /\ c \notin Agents /\ c # None /\ Ivr \notin Agents
  BY ArrivesFrom, PartyType DEF Comes, Arrives, Server!OnBye, Utters
<1>s. s # None => /\ s.src = c
                  /\ s.referedDest # None => s.dest \in Party(c) /\ s.referedDest \in Party(c)
  BY SessionOf DEF Comes, Arrives
<1>h. ASSUME NEW k, k \notin Agents \/ m.from = c
      PROVE  Due(c, m, k, m)
  <2>1. Gives(c, m, k, m)
    BY <1>0, <1>h DEF Gives, OkInvite
  <2> QED BY <1>0, <2>1, AnyDue
<1>t. m.to \in {c, Ivr}
  BY <1>0 DEF Comes, Arrives, Spoken
<1>1. CASE sent' = <<>>
  BY <1>1, DropDues
<1>2. CASE Server!Forward(m.to, m)
  <2>1. Due(c, m, m.to, m)
    BY <1>0, <1>h, <1>t
  <2> QED BY <1>0, <1>2, <2>1, ForwardDues
<1>3. CASE /\ s # None /\ s.referedDest # None /\ m.from = s.src
           /\ sent' = <<Server!Route(m.to, m), Server!Route(s.referedDest, Server!ByeForAgent(s, m))>>
  <2> DEFINE x == Server!ByeForAgent(s, m)
  <2>1. x \in Of(c) /\ x.type \in {"BYE", "CANCEL"} /\ x.cseq = x.type
    <3>1. [m EXCEPT !.to = s.referedDest] \in Of(c)
      BY <1>0, <1>s, <1>3, RewriteOf
    <3>2. \/ x = [[m EXCEPT !.to = s.referedDest] EXCEPT !.type = "CANCEL", !.cseq = "CANCEL"]
          \/ x = [[m EXCEPT !.to = s.referedDest] EXCEPT !.type = "BYE"]
      BY <1>0 DEF Server!ByeForAgent, Of, Datagram
    <3>3. "CANCEL" \in Types /\ "CANCEL" \in Methods /\ "BYE" \in Types
      BY DEF Types, Methods
    <3>4. x \in Of(c)
      BY <3>1, <3>2, <3>3 DEF Of, Datagram
    <3>5. x.type \in {"BYE", "CANCEL"} /\ x.cseq = x.type
      BY <1>0, <3>2, ZenonT(60) DEF Of, Datagram
    <3> QED BY <3>4, <3>5
  <2> HIDE DEF x
  <2>2. ~Opens(x) /\ ~Opens(m)
    BY <1>0, <2>1 DEF Opens
  <2>3. Due(c, m, s.referedDest, x)
    <3>1. Gives(c, m, s.referedDest, x)
      BY <1>0, <1>s, <1>3, <2>1 DEF Gives, OkInvite
    <3> QED BY <2>1, <2>2, <3>1, AnyDue
  <2>5. Due(c, m, m.to, m)
    BY <1>0, <1>h, <1>t
  <2>4. \A y \in {Server!Route(m.to, m), Server!Route(s.referedDest, x)} :
          Due(c, m, y.peer, y) /\ ~Opens(y)
    BY <1>0, <1>s, <1>3, <2>1, <2>2, <2>3, <2>5, RouteDue, RouteShut
  <2> QED BY <1>3, <2>4, InTwo DEF DuesOf, x
<1>4. CASE s # None /\ s.referedDest # None /\ Server!PassBye(s, m)
  <2> DEFINE x == Server!SetContact([m EXCEPT !.from = s.dest], s.dest)
  <2>1. x \in Of(c)
    BY <1>0, <1>s, <1>4, RewriteOf DEF Server!SetContact, SetContact
  <2>2. x.type \in {"BYE", "garbled"} /\ x.cseq = "BYE"
    BY <1>0 DEF Server!SetContact, Of, Datagram
  <2> HIDE DEF x
  <2>3. Due(c, m, c, x)
    <3>1. Gives(c, m, c, x)
      BY <1>0, <2>2 DEF Gives, OkInvite
    <3> QED BY <1>0, <2>2, <3>1, AnyDue DEF Opens
  <2> QED BY <1>0, <1>s, <1>4, <2>1, <2>3, ForwardDues DEF Server!PassBye, x
<1> QED BY <1>0, <1>1, <1>2, <1>3, <1>4 DEF Server!OnBye, Server!Drop, Server!HasSession

\* Every handler.
LEMMA HandleDues ==
  ASSUME ServerKeeps, NEW c \in CallIds, OwnSession(c), NEW n, NEW m, Comes(c, n, m),
         Server!Handle(m)
  PROVE  DuesOf(c, m)
<1>1. CASE Server!OnUnknown(m)
  BY <1>1, DropDues DEF Server!OnUnknown, Server!Drop
<1>2. CASE Server!OnBusy(m)
  <2>1. m.type \in {"480", "486"} /\ Server!Failed(m, "Busy")
    BY <1>2 DEF Server!OnBusy
  <2> QED BY <2>1, FailedDues
<1>3. CASE Server!OnUnavailable(m)
  <2>1. m.type \in {"480", "486"} /\ Server!Failed(m, "Unavailable")
    BY <1>3 DEF Server!OnUnavailable
  <2> QED BY <2>1, FailedDues
<1>4. CASE Server!OnRinging(m) \/ Server!OnReqTerminated(m) \/ Server!OnAck(m)
  BY <1>4, PassingDues
<1>5. ~Server!OnRegister(m) /\ ~Server!OnCancel(m) /\ ~Server!OnTrying(m)
  BY DEF Server!OnRegister, Server!OnCancel, Server!OnTrying, Comes, Utters
<1> QED BY <1>1, <1>2, <1>3, <1>4, <1>5, OnInviteDues, OnReferDues, OnOkDues, OnByeDues
        DEF Server!Handle
-----------------------------------------------------------------------------
(***************************************************************************)
(* What becomes of a session.                                              *)
(***************************************************************************)
\* Session t after s, when datagram m was no referral that is accepted.
Turned(s, t, m) ==
  /\ IF s = None THEN m.type = "INVITE" /\ t.referedDest = None
     ELSE t.referedDest = s.referedDest \/ (m.type \in {"480", "486"} /\ t.referedDest = None)
  /\ t.state = "Cancel" => m.type = "CANCEL" \/ (s # None /\ s.state = "Cancel")
  /\ \/ t.dest = None
     \/ s # None /\ t.dest = s.dest
     \/ /\ OkInvite(m) /\ t.dest = m.to
        /\ s # None /\ ~Server!Transfered(s, m) /\ ~Server!UpdateMedia(s, m)
  /\ \/ t.referedToMedia = None
     \/ s # None /\ (t.referedToMedia = s.referedToMedia \/ (OkInvite(m) /\ Server!Transfered(s, m)))

\* Only an accepted referral sets referedDest, only an answer dest, only the
\* agent's answer referedToMedia, and only a failure of the agent's takes
\* referedDest away.
LEMMA HandleTurns ==
  ASSUME ServerKeeps, NEW c \in CallIds, NEW m, m.callID = c, Server!Handle(m), sessions'[c] # None
  PROVE  Accepts(c, m) \/ Turned(sessions[c], sessions'[c], m)
<1> DEFINE s == sessions[c]
           t == sessions'[c]
<1>0. s # None => s \in Server!Session
  BY DEF ServerKeeps, OrNone
<1>1. CASE sessions' = sessions
  BY <1>1 DEF Turned
<1>2. CASE Server!EndCall(c)
  BY <1>2 DEF Server!EndCall, Server!Put, ServerKeeps
<1>3. CASE m.type = "INVITE" /\ s = None /\ sessions' = [sessions EXCEPT ![c] = Server!NewSession(m)]
  <2>1. t = Server!NewSession(m)
    BY <1>3 DEF ServerKeeps
  <2> QED BY <1>3, <2>1 DEF Server!NewSession, Turned
<1>4. CASE /\ s # None
           /\ \E st : /\ st # "Cancel" \/ m.type = "CANCEL"
                     /\ sessions' = [sessions EXCEPT ![c].state = st]
  <2>1. PICK st : t = [s EXCEPT !.state = st] /\ (st # "Cancel" \/ m.type = "CANCEL")
    BY <1>4 DEF ServerKeeps
  <2> QED BY <1>0, <1>4, <2>1 DEF Server!Session, Turned
<1>5. CASE m.type \in {"480", "486"} /\ s # None /\ sessions' = [sessions EXCEPT ![c] = [s EXCEPT !.referedDest = None]]
  <2>1. t = [s EXCEPT !.referedDest = None]
    BY <1>5 DEF ServerKeeps
  <2> QED BY <1>0, <1>5, <2>1 DEF Server!Session, Turned
<1>6. CASE /\ s # None /\ OkInvite(m) /\ Server!Transfered(s, m)
           /\ \E a : sessions' = [sessions EXCEPT ![c] = [s EXCEPT !.referedToMedia = a]]
  <2>1. PICK a : t = [s EXCEPT !.referedToMedia = a]
    BY <1>6 DEF ServerKeeps
  <2> QED BY <1>0, <1>6, <2>1 DEF Server!Session, Turned
<1>7. CASE /\ s # None /\ OkInvite(m) /\ ~Server!Transfered(s, m) /\ ~Server!UpdateMedia(s, m)
           /\ sessions' = [sessions EXCEPT ![c] = Server!Connected(s, m)]
  <2>1. t = [s EXCEPT !.dest = m.to, !.state = "Connected"]
    BY <1>7 DEF ServerKeeps, Server!Connected
  <2>2. /\ t.dest = m.to /\ t.state = "Connected" /\ t.referedDest = s.referedDest
        /\ t.referedToMedia = s.referedToMedia
    BY <1>0, <1>7, <2>1, ZenonT(60) DEF Server!Session
  <2> QED BY <1>7, <2>2 DEF Turned
<1>a. CASE \/ Server!OnRegister(m) \/ Server!OnTrying(m) \/ Server!OnRinging(m)
           \/ Server!OnReqTerminated(m) \/ Server!OnUnknown(m)
  BY <1>1, <1>a DEF Server!OnRegister, Server!OnTrying, Server!OnRinging, Server!OnReqTerminated,
     Server!OnUnknown, Server!Drop
<1>b. CASE Server!OnInvite(m)
  BY <1>1, <1>3, <1>b DEF Server!OnInvite, Server!Drop, Server!Emplace, Server!Put, Server!HasSession
<1>c. CASE Server!OnCancel(m) \/ Server!OnBye(m)
  <2>1. \/ UNCHANGED sessions
        \/ \E st : (st # "Cancel" \/ m.type = "CANCEL") /\ Server!SetCallState(c, st)
    BY <1>c DEF Server!OnCancel, Server!OnBye, Server!Drop
  <2> QED BY <1>1, <1>4, <2>1 DEF Server!SetCallState, Server!HasSession
<1>d. CASE Server!OnBusy(m) \/ Server!OnUnavailable(m)
  <2>1. \/ UNCHANGED sessions \/ \E st : st # "Cancel" /\ Server!SetCallState(c, st)
        \/ /\ m.type \in {"480", "486"} /\ s # None
           /\ sessions' = [sessions EXCEPT ![c] = [s EXCEPT !.referedDest = None]]
    BY <1>d DEF Server!OnBusy, Server!OnUnavailable, Server!Failed, Server!Drop, Server!Put,
       Server!HasSession
  <2> QED BY <1>1, <1>4, <1>5, <2>1 DEF Server!SetCallState, Server!HasSession
<1>e. CASE Server!OnRefer(m)
  BY <1>1, <1>e, OnReferDoes
<1>f. CASE Server!OnAck(m)
  BY <1>1, <1>2, <1>f DEF Server!OnAck, Server!Drop
<1>g. CASE Server!OnOk(m)
  <2>1. \/ UNCHANGED sessions \/ Server!EndCall(c)
        \/ s # None /\ m.cseq = "INVITE" /\ Server!OnOkInvite(s, m)
    BY <1>g DEF Server!OnOk, Server!OnOkBye, Server!Drop, Server!HasSession
  <2>2. m.type = "200"
    BY <1>g DEF Server!OnOk
  <2>3. CASE s # None /\ m.cseq = "INVITE" /\ Server!OnOkInvite(s, m)
    <3>1. \/ UNCHANGED sessions \/ Server!EndCall(c)
          \/ /\ ~Server!Transfered(s, m) /\ ~Server!UpdateMedia(s, m)
             /\ sessions' = [sessions EXCEPT ![c] = Server!Connected(s, m)]
          \/ /\ Server!Transfered(s, m)
             /\ \E a : sessions' = [sessions EXCEPT ![c] = [s EXCEPT !.referedToMedia = a]]
      BY <2>3 DEF Server!OnOkInvite, Server!Answered, Server!AgentAnswered, Server!MediaUpdated,
         Server!Put, Server!Drop
    <3> QED BY <1>1, <1>2, <1>6, <1>7, <2>2, <2>3, <3>1 DEF OkInvite
  <2> QED BY <1>1, <1>2, <2>1, <2>3
<1> QED BY <1>a, <1>b, <1>c, <1>d, <1>e, <1>f, <1>g DEF Server!Handle

\* A session whose caller speaks with nobody but the IVR, ...
PlainSession(c) == sessions[c] # None =>
  sessions[c].referedDest = None /\ sessions[c].dest \in {None, Ivr}

\* ... in which the server only passes on what it gets.
Echoes(m, x) == x.from = m.from /\ x.to = m.to /\ x.cseq \in {m.cseq, "ACK"}

\* A handler that passes one on.
LEMMA RouteEchoes ==
  ASSUME NEW c \in CallIds, NEW m, NEW x \in Of(c), NEW k, Echoes(m, x), Server!Forward(k, x)
  PROVE  \A y \in In(sent') : Echoes(m, y)
<1>1. In(sent') = {Server!Route(k, x)}
  BY InOne DEF Server!Forward
<1>2. PICK y \in {Server!Route(k, x)} : TRUE
  OBVIOUS
<1>3. y.from = x.from /\ y.to = x.to /\ y.cseq = x.cseq
  BY <1>2 DEF Server!Route, Server!EndHandle, Of, Datagram
<1> QED BY <1>1, <1>2, <1>3 DEF Echoes

\* All the server says in such a session.
LEMMA HandleEchoes ==
  ASSUME NEW c \in CallIds, NEW m \in Of(c), m.type # "REGISTER", PlainSession(c), Server!Handle(m)
  PROVE  Accepts(c, m) \/ \A y \in In(sent') : Echoes(m, y)
<1> DEFINE s == sessions[c]
<1>0. m.callID = c /\ m \in Datagram /\ m.from \in Numbers /\ m.to \in Numbers /\ m.from # None
      /\ m.to # None
  BY SipAssumption DEF Of, Datagram
<1>1. CASE sent' = <<>>
  BY <1>1, InNone
<1>2. CASE \E k : Server!Forward(k, m)
  BY <1>2, RouteEchoes DEF Echoes
<1>3. ASSUME NEW k, NEW x, x \in Of(c), Echoes(m, x), Server!Forward(k, x)
      PROVE  \A y \in In(sent') : Echoes(m, y)
  BY <1>3, RouteEchoes
<1>r. /\ \A k \in Party(c) : SetContact(m, k) \in Of(c) /\ Echoes(m, SetContact(m, k))
      /\ [m EXCEPT !.type = "404"] \in Of(c) /\ Echoes(m, [m EXCEPT !.type = "404"])
      /\ [m EXCEPT !.type = "480"] \in Of(c) /\ Echoes(m, [m EXCEPT !.type = "480"])
      /\ Server!AckOf(m) \in Of(c) /\ Echoes(m, Server!AckOf(m))
  <2>1. "404" \in Types /\ "480" \in Types
    BY DEF Types, Responses
  <2>2. \A k \in Party(c) : SetContact(m, k) \in Of(c)
    BY RewriteOf
  <2>3. \A k : Echoes(m, SetContact(m, k))
    BY <1>0 DEF SetContact, Echoes, Datagram
  <2>4. [m EXCEPT !.type = "404"] \in Of(c) /\ [m EXCEPT !.type = "480"] \in Of(c)
    BY <2>1 DEF Of, Datagram
  <2>5. Echoes(m, [m EXCEPT !.type = "404"]) /\ Echoes(m, [m EXCEPT !.type = "480"])
    BY <1>0 DEF Echoes, Datagram
  <2>6. Echoes(m, Server!AckOf(m))
    BY <1>0 DEF Echoes, Datagram, Server!AckOf
  <2>7. Ivr \in Party(c)
    BY PartyType
  <2> QED BY <2>2, <2>3, <2>4, <2>5, <2>6, <2>7, RewriteOf
<1>a. CASE \/ Server!OnTrying(m) \/ Server!OnRinging(m) \/ Server!OnCancel(m) \/ Server!OnUnknown(m)
           \/ Server!OnAck(m)
  BY <1>1, <1>2, <1>a DEF Server!OnTrying, Server!OnRinging, Server!OnCancel, Server!OnUnknown,
     Server!OnAck, Server!Drop
<1>b. CASE Server!OnReqTerminated(m)
  BY <1>2, <1>3, <1>b, <1>r DEF Server!OnReqTerminated
<1>c. CASE Server!OnInvite(m)
  <2>1. m.from \in Party(c)
    BY DEF Of
  <2>2. CASE Server!Forward(m.from, Server!SetContact([m EXCEPT !.type = "404"], m.from))
    <3> DEFINE y == [m EXCEPT !.type = "404"]
               x == Server!SetContact(y, m.from)
    <3>1. y \in Of(c) /\ Echoes(m, y)
      BY <1>r
    <3> HIDE DEF y
    <3>2. x \in Of(c)
      BY <2>1, <3>1, RewriteOf DEF Server!SetContact, SetContact
    <3>3. Echoes(m, x)
      BY <3>1 DEF Server!SetContact, Echoes, Of, Datagram
    <3> HIDE DEF x
    <3> QED BY <1>3, <2>2, <3>2, <3>3 DEF x, y
  <2>3. CASE Server!Forward(m.to, Server!SetContact(m, m.from))
    <3> DEFINE x == Server!SetContact(m, m.from)
    <3>1. x = SetContact(m, m.from)
      BY DEF Server!SetContact, SetContact
    <3> HIDE DEF x
    <3>2. x \in Of(c) /\ Echoes(m, x)
      BY <1>r, <2>1, <3>1
    <3> QED BY <1>3, <2>3, <3>2 DEF x
  <2> QED BY <1>1, <1>c, <2>2, <2>3 DEF Server!OnInvite, Server!Drop
<1>d. CASE Server!OnBusy(m) \/ Server!OnUnavailable(m)
  BY <1>0, <1>1, <1>2, <1>d DEF Server!OnBusy, Server!OnUnavailable, Server!Failed, Server!Drop,
     Server!HasSession, PlainSession
<1>e. CASE Server!OnRefer(m)
  <2>1. \/ sent' = <<>> \/ \E k : Server!Forward(k, [m EXCEPT !.type = "480"])
        \/ Accepts(c, m)
    BY <1>0, <1>e, OnReferDoes
  <2> DEFINE x == [m EXCEPT !.type = "480"]
  <2>2. x \in Of(c) /\ Echoes(m, x)
    BY <1>r
  <2> HIDE DEF x
  <2> QED BY <1>1, <1>3, <2>1, <2>2 DEF x
<1>f. CASE Server!OnBye(m)
  BY <1>0, <1>1, <1>2, <1>f DEF Server!OnBye, Server!Drop, Server!HasSession, PlainSession
<1>g. CASE Server!OnOk(m)
  <2>1. CASE s # None /\ Server!OnOkInvite(s, m)
    <3>1. sent' = <<>> \/ Server!Forward(m.from, Server!SetContact(m, m.to))
      BY <2>1 DEF Server!OnOkInvite, Server!Answered, Server!AgentAnswered, Server!MediaUpdated,
         Server!Transfered, Server!UpdateMedia, Server!Drop, PlainSession
    <3> DEFINE x == Server!SetContact(m, m.to)
    <3>2. x = SetContact(m, m.to)
      BY DEF Server!SetContact, SetContact
    <3>3. m.to \in Party(c)
      BY DEF Of
    <3> HIDE DEF x
    <3>4. x \in Of(c) /\ Echoes(m, x)
      BY <1>r, <3>2, <3>3
    <3> QED BY <1>1, <1>3, <3>1, <3>4 DEF x
  <2>2. CASE s # None /\ Server!OnOkBye(s, m)
    BY <1>0, <1>1, <1>2, <2>2 DEF Server!OnOkBye, Server!Drop, PlainSession
  <2> QED BY <1>0, <1>1, <1>2, <1>g, <2>1, <2>2 DEF Server!OnOk, Server!Drop, Server!HasSession
<1> QED BY <1>a, <1>b, <1>c, <1>d, <1>e, <1>f, <1>g DEF Server!Handle, Server!OnRegister
-----------------------------------------------------------------------------
(***************************************************************************)
(* What is usual stays so.                                                 *)
(***************************************************************************)
\* A step that sends what may be said.
LEMMA UsualKept ==
  ASSUME NEW c \in CallIds, UsualOf(c), RefersAgents(c)',
         \A n \in Numbers : \A m \in In(uplink'[n]) :
           m.callID = c => m \in In(uplink[n]) \/ Utters(c, n, m),
         \A n \in Numbers : \A m \in In(downlink'[n]) :
           m.callID = c => m \in In(downlink[n]) \/ Hears(c, n, m)
  PROVE  UsualOf(c)'
<1>1. \A n \in Numbers : \A m \in Rises(c, n)' : Utters(c, n, m)
  BY DEF UsualOf, Rises
<1>2. \A n \in Numbers : \A m \in Falls(c, n)' : Hears(c, n, m)
  BY DEF UsualOf, Falls
<1>3. \A n \in Numbers : \A m : /\ Utters(c, n, m) = Utters(c, n, m)'
                                /\ Hears(c, n, m) = Hears(c, n, m)'
  BY DEF Utters, Hears
<1> QED BY <1>1, <1>2, <1>3 DEF UsualOf

\* A step of the server is the handling of one datagram.
LEMMA ServerWorks ==
  ASSUME Kept, Told, Usual, NEW n \in Numbers, ServerStep(n)
  PROVE  \E m \in Datagram, c \in CallIds :
           /\ ServerDoes(n, m, c) /\ m \in Rises(c, n) /\ m.type # "REGISTER"
           /\ Comes(c, n, m) /\ DuesOf(c, m) /\ sent' \in Seq(Of(c))
<1>1. PICK m \in Datagram, c \in CallIds : ServerDoes(n, m, c)
  BY ServerStepDoes
<1>2. /\ m = Head(uplink[n]) /\ m \in Of(c) /\ Rising(n, m) /\ uplink[n] # <<>>
      /\ Server!Handle(m) /\ Speaks(c)
  BY <1>1 DEF ServerDoes, Serves
<1>3. uplink \in [Numbers -> Seq(Datagram)]
  BY DEF Kept, Up
<1>4. m \in In(uplink[n])
  BY <1>2, <1>3, TailLink
<1>5. m.callID = c /\ m.peer = n /\ m.type # "REGISTER"
  BY <1>2 DEF Of, Rising
<1>6. m.type = "INVITE" => m = Invitation(c)
  <2>1. Own("INVITE", n, n, Ivr) =
          [type |-> "INVITE", cseq |-> "INVITE", callID |-> n, from |-> n, to |-> Ivr,
           contact |-> n, referTo |-> None, sdp |-> None, peer |-> n]
    BY DEF Own, Request, Message
  <2>2. Invitation(n).callID = n
    BY <2>1 DEF Invitation
  <2> QED BY <1>2, <1>5, <2>2 DEF Rising
<1>7. m \in Rises(c, n)
  BY <1>4, <1>5 DEF Rises
<1>8. Comes(c, n, m)
  BY <1>2, <1>5, <1>6, <1>7 DEF Comes, Arrives, Told, ToldOf, KnownCaller, Usual, UsualOf, RefersAgents
<1>9. DuesOf(c, m)
  BY <1>2, <1>8, HandleDues DEF Kept, Programs, OwnSessions
<1> QED BY <1>1, <1>2, <1>5, <1>7, <1>8, <1>9 DEF Speaks

\* The server puts only the usual on the links.
LEMMA ServerUsual ==
  ASSUME Kept, Told, Usual, NEW n \in Numbers, ServerStep(n)
  PROVE  Usual'
<1>1. PICK m \in Datagram, c \in CallIds :
           /\ ServerDoes(n, m, c) /\ m \in Rises(c, n)
           /\ Comes(c, n, m) /\ DuesOf(c, m) /\ sent' \in Seq(Of(c))
  BY ServerWorks
<1>2. /\ uplink[n] # <<>> /\ Server!Handle(m) /\ \A d \in CallIds \ {c} : sessions'[d] = sessions[d]
      /\ uplink' = [uplink EXCEPT ![n] = Tail(@)]
      /\ \A k \in Numbers : In(downlink'[k]) \subseteq
                          In(downlink[k]) \cup {x \in In(sent') : x \in Of(c) /\ x.peer = k}
      /\ pending' = pending
  BY <1>1 DEF ServerDoes, ivrVars
<1>3. uplink \in [Numbers -> Seq(Datagram)] /\ ServerKeeps
  BY DEF Kept, Up, Programs
<1>4. \A k \in Numbers : In(uplink'[k]) \subseteq In(uplink[k])
  BY <1>2, <1>3, TailLink
<1>5. \A x \in In(sent') : x.callID = c /\ Hears(c, x.peer, x)
  <2>1. In(sent') \subseteq Of(c)
    BY <1>1, InType
  <2> QED BY <1>1, <2>1 DEF DuesOf, Due, Of
<1>6. m.callID = c
  BY <1>1 DEF Rises
<1>7. sessions'[c] # None => sessions'[c].referedDest \in OrNone(Agents)
  <2>1. CASE Accepts(c, m) /\ sessions'[c] # None
    <3>1. m.referTo \in Agents
      BY <1>1, <2>1 DEF Accepts, Comes, Utters
    <3>2. sessions'[c] = [sessions[c] EXCEPT !.referedDest = m.referTo] /\ sessions[c] # None
      BY <1>3, <2>1 DEF Accepts, ServerKeeps
    <3>3. sessions[c] \in Server!Session
      BY <1>3, <3>2 DEF ServerKeeps, OrNone
    <3> QED BY <3>1, <3>2, <3>3 DEF Server!Session, OrNone
  <2>2. CASE sessions'[c] # None /\ Turned(sessions[c], sessions'[c], m)
    BY <1>1, <2>2 DEF Turned, Comes, OrNone
  <2> QED BY <1>2, <1>3, <1>6, <2>1, <2>2, HandleTurns
<1> SUFFICES ASSUME NEW d \in CallIds
             PROVE  UsualOf(d)'
  BY DEF Usual
<1>8. RefersAgents(d)'
  BY <1>2, <1>7 DEF RefersAgents, Usual, UsualOf
<1>9. \A k \in Numbers : \A x \in In(downlink'[k]) :
           x.callID = d => x \in In(downlink[k]) \/ Hears(d, k, x)
  BY <1>2, <1>5
<1> QED BY <1>4, <1>8, <1>9, UsualKept DEF Usual

\* What the IVR answers to a datagram: a 200 for an INVITE, or for what ends the call.
Echoed(m, x) ==
  /\ x.type = "200" /\ x.cseq = m.cseq /\ x.callID = m.callID /\ x.from = m.from
  /\ \/ m.type = "INVITE" /\ x.to = Ivr /\ x.sdp = Ivr
     \/ x.to = m.to /\ m.cseq = "BYE"

\* A handler sends one such answer, or nothing.
LEMMA ReceiveSends ==
  ASSUME NEW c \in CallIds, NEW m \in Of(c), Hears(c, Ivr, m), App!Receive(m), sent' # <<>>
  PROVE  \E x : sent' = <<x>> /\ Echoed(m, x)
<1>0. m.callID = c /\ m \in Datagram
  BY DEF Of
<1>1. CASE App!OnInvite(m)
  <2> DEFINE x == [[m EXCEPT !.type = "200", !.to = Ivr, !.contact = Ivr, !.sdp = Ivr]
                     EXCEPT !.peer = Ivr]
  <2>1. sent' = <<x>>
    BY <1>1 DEF App!OnInvite, App!Send, App!Crash, App!Ignore, App!Refused
  <2>2. x.type = "200" /\ x.cseq = m.cseq /\ x.callID = m.callID /\ x.from = m.from /\ x.to = Ivr
        /\ x.sdp = Ivr
    BY <1>0 DEF Datagram
  <2>3. m.type = "INVITE"
    BY <1>1 DEF App!OnInvite
  <2> HIDE DEF x
  <2> QED BY <2>1, <2>2, <2>3 DEF Echoed
<1>2. CASE App!OnAck(m) \/ App!OnBusy(m) \/ App!OnUnavailable(m) \/ App!OnReferAccepted(m)
           \/ App!OnNothing(m)
  BY <1>2 DEF App!OnAck, App!OnBusy, App!OnUnavailable, App!OnReferAccepted, App!OnNothing,
     App!Announce, App!Overwritten, App!Ignore, App!Crash
<1>3. CASE App!OnBye(m) \/ App!OnOk(m)
  <2>1. m.cseq = "BYE" /\ App!EndCall(m)
    BY <1>3 DEF App!OnBye, App!OnOk, App!Ignore, Hears
  <2> DEFINE x == [[m EXCEPT !.type = "200"] EXCEPT !.peer = Ivr]
  <2>2. sent' = <<x>>
    BY <2>1 DEF App!EndCall, App!Send, App!Ignore
  <2>3. x.type = "200" /\ x.cseq = m.cseq /\ x.callID = m.callID /\ x.from = m.from /\ x.to = m.to
    BY <1>0 DEF Datagram
  <2> HIDE DEF x
  <2> QED BY <2>1, <2>2, <2>3 DEF Echoed
<1> QED BY <1>1, <1>2, <1>3 DEF App!Receive

\* What it says on its own: the BYE after an announcement, or a REFER.
Voiced(c, x) ==
  /\ x.type \in {"BYE", "REFER"} /\ x.cseq = x.type /\ x.callID = c /\ x.from = Ivr /\ x.to = c
  /\ x.type = "REFER" => x.referTo \in Agents

\* A thread that wakes up, and a reader, say one such thing, or nothing.
LEMMA VoiceSends ==
  ASSUME AppKeeps, OwnCalls, NEW c \in CallIds, RefersAgents(c), KnownCaller(c), sent' # <<>>,
         \/ c = rx.call /\ (App!Announced \/ App!Redirected \/ App!Joined)
         \/ App!ReaderStep(c) \/ App!ReadDTMF(c)
  PROVE  \E x : /\ sent' = <<x>> /\ Voiced(c, x)
                /\ App!MakeRefer(c) \/ (App!Announced /\ x.type = "BYE")
<1>1. CASE App!Announced /\ c = rx.call
  <2>1. calls[c] # None
    BY <1>1 DEF AppKeeps, AP!Tidy, AP!RxHasCall, AP!HasCall, App!Announced
  <2> DEFINE x == [App!Bye(c) EXCEPT !.peer = Ivr]
  <2>2. App!Bye(c) = [type |-> "BYE", cseq |-> "BYE", callID |-> c, from |-> Ivr, to |-> calls[c].src,
                      contact |-> Ivr, referTo |-> None, sdp |-> None, peer |-> Ivr]
    BY DEF App!Bye, App!Request, App!Message
  <2>3. x.type = "BYE" /\ x.cseq = "BYE" /\ x.callID = c /\ x.from = Ivr /\ x.to = c
    BY <2>1, <2>2 DEF KnownCaller
  <2>4. sent' = <<x>>
    BY <1>1 DEF App!Announced, App!Send
  <2> HIDE DEF x
  <2> QED BY <1>1, <2>3, <2>4 DEF Voiced
<1>2. CASE App!MakeRefer(c)
  <2> DEFINE x == [pending[c] EXCEPT !.peer = Ivr]
  <2>1. pending[c] # None
    BY <1>2, SameSip, NoSessionAssumption DEF App!MakeRefer, AppKeeps, AP!Tidy, AP!ReferReady
  <2>2. pending[c] \in Datagram /\ pending[c].type = "REFER" /\ pending[c] \in Of(c)
    BY <2>1 DEF OwnCalls, OwnCall, Of
  <2>3. x.type = "REFER" /\ x.cseq = "REFER" /\ x.callID = c /\ x.from = Ivr /\ x.to = c
        /\ x.referTo \in Agents
    BY <2>1, <2>2 DEF Datagram, Of, RefersAgents
  <2>4. sent' = <<x>>
    BY <1>2 DEF App!MakeRefer, App!Send
  <2> HIDE DEF x
  <2> QED BY <1>2, <2>3, <2>4 DEF Voiced
<1>3. CASE App!Redirected \/ App!Joined \/ App!ReadDTMF(c)
  BY <1>3 DEF App!Redirected, App!Joined, App!ReadDTMF, App!Overwritten, App!Crash
<1>4. CASE App!ReaderStep(c) /\ ~App!MakeRefer(c)
  BY <1>4 DEF App!ReaderStep, App!OnDTMFEvent, App!LookupFails, App!Crash, App!ReplayGuide,
     App!InvalidChoose, App!InvalidChosen, App!RestoreGuide, App!Replays, App!Exit
<1> QED BY <1>1, <1>2, <1>3, <1>4

\* The REFER a reader keeps ready.
LEMMA PendingStays ==
  ASSUME AppKeeps, NEW c \in CallIds, RefersAgents(c), KnownCaller(c),
         App!Announced \/ App!Redirected \/ App!Joined \/ App!ReaderStep(c) \/ App!ReadDTMF(c)
  PROVE  /\ pending'[c] # None => /\ pending'[c].cseq = "REFER" /\ pending'[c].from = Ivr
                                  /\ pending'[c].to = c /\ pending'[c].referTo \in Agents
         /\ \A d \in CallIds \ {c} : pending'[d] = pending[d]
<1>1. CASE pending' = pending
  BY <1>1 DEF RefersAgents
<1>2. CASE App!MakeRefer(c)
  BY <1>2 DEF App!MakeRefer, AppKeeps
<1>3. CASE App!OnDTMFEvent(c) /\ pending' # pending
  <2>1. PICK a \in Agents : pending' = [pending EXCEPT ![c] = App!Refer(c, a)]
    BY <1>3 DEF App!OnDTMFEvent, App!LookupFails, App!Choose, App!Crash
  <2>2. calls[c] # None
    BY <1>3 DEF App!OnDTMFEvent, App!LookupFails, App!StillConnected, App!HasCall, App!Crash
  <2>3. App!Request("REFER", c, Ivr, calls[c].src, Ivr) =
          [type |-> "REFER", cseq |-> "REFER", callID |-> c, from |-> Ivr, to |-> calls[c].src,
           contact |-> None, referTo |-> None, sdp |-> None, peer |-> Ivr]
    BY DEF App!Request, App!Message
  <2>4. /\ App!Refer(c, a).cseq = "REFER" /\ App!Refer(c, a).from = Ivr
        /\ App!Refer(c, a).to = c /\ App!Refer(c, a).referTo = a
    BY <2>2, <2>3 DEF App!Refer, KnownCaller
  <2>5. pending'[c] = App!Refer(c, a) /\ \A d \in CallIds \ {c} : pending'[d] = pending[d]
    BY <2>1 DEF AppKeeps
  <2> QED BY <2>4, <2>5
<1>4. CASE \/ App!Announced \/ App!Redirected \/ App!Joined \/ App!ReadDTMF(c)
           \/ App!ReplayGuide(c) \/ App!InvalidChoose(c) \/ App!InvalidChosen(c)
           \/ App!RestoreGuide(c) \/ App!Exit(c)
  BY <1>1, <1>4 DEF App!Announced, App!StopReadDTMF, App!Redirected, App!Overwritten, App!Crash,
     App!ReaderUnchanged, App!Joined, App!ReadDTMF, App!ReplayGuide, App!InvalidChoose,
     App!InvalidChosen, App!RestoreGuide, App!Replays, App!Exit
<1> QED BY <1>1, <1>2, <1>3, <1>4 DEF App!ReaderStep

\* A step of the IVR.
LEMMA IvrUsual ==
  ASSUME Kept, Usual, NEW c \in CallIds, IvrDoes(c),
         \A x \in In(sent') : Utters(c, Ivr, x),
         \A d \in CallIds : RefersAgents(d)'
  PROVE  Usual'
<1>1. /\ Answers(c)
      /\ \A k \in Numbers \ {Ivr} : uplink'[k] = uplink[k]
      /\ In(uplink'[Ivr]) \subseteq In(uplink[Ivr]) \cup In(sent')
      /\ \A k \in Numbers : In(downlink'[k]) \subseteq In(downlink[k])
  BY DEF IvrDoes, Attends
<1>2. \A x \in In(sent') : x.callID = c
  <2>1. In(sent') \subseteq Voice(c)
    BY <1>1, InType DEF Answers
  <2> QED BY <2>1 DEF Voice, Of
<1> SUFFICES ASSUME NEW d \in CallIds
             PROVE  UsualOf(d)'
  BY DEF Usual
<1>3. \A n \in Numbers : \A m \in In(uplink'[n]) :
        m.callID = d => m \in In(uplink[n]) \/ Utters(d, n, m)
  BY <1>1, <1>2
<1>4. \A n \in Numbers : \A m \in In(downlink'[n]) :
        m.callID = d => m \in In(downlink[n]) \/ Hears(d, n, m)
  BY <1>1
<1> QED BY <1>3, <1>4, UsualKept DEF Usual

\* What the IVR answers, and what it says on its own, is usual.
LEMMA EchoedSpeaks ==
  ASSUME NEW c \in CallIds, NEW m, Hears(c, Ivr, m), NEW x, Echoed(m, x)
  PROVE  Utters(c, Ivr, x)
<1>1. c # Ivr /\ Ivr \notin Agents
  BY PartyType, SipAssumption, CallFlowAssumption
<1>2. m.type = "INVITE" => m.cseq = "INVITE" /\ m.from = c
  BY <1>1 DEF Hears
<1> QED BY <1>1, <1>2 DEF Echoed, Utters

\* That is usual too.
LEMMA VoicedSpeaks ==
  ASSUME NEW c \in CallIds, NEW x, Voiced(c, x)
  PROVE  Utters(c, Ivr, x)
BY DEF Voiced, Utters

\* A handler of the IVR puts only the usual on the links.
LEMMA ReceiveUsual ==
  ASSUME Kept, Usual, IvrReceives
  PROVE  Usual'
<1>1. PICK m \in Datagram, c \in CallIds :
        m \in In(downlink[Ivr]) /\ m.callID = c /\ App!Receive(m) /\ IvrDoes(c)
  BY IvrReceivesDoes
<1>2. Ivr \in Numbers
  BY DEF Numbers
<1>3. Hears(c, Ivr, m) /\ m \in Of(c)
  BY <1>1, <1>2 DEF Usual, UsualOf, Falls, Kept, Down, Falling
<1>4. \A x \in In(sent') : Utters(c, Ivr, x)
  <2>1. CASE sent' = <<>>
    BY <2>1, InNone
  <2>2. CASE sent' # <<>>
    <3>1. PICK x : sent' = <<x>> /\ Echoed(m, x)
      BY <1>1, <1>3, <2>2, ReceiveSends
    <3> QED BY <1>3, <3>1, EchoedSpeaks, InOne
  <2> QED BY <2>1, <2>2
<1>5. UNCHANGED <<sessions, pending>>
  <2>1. UNCHANGED pending
    BY <1>1 DEF App!Receive, App!OnInvite, App!OnAck, App!OnBusy, App!OnUnavailable,
     App!OnReferAccepted, App!OnNothing, App!OnBye, App!OnOk, App!EndCall, App!Announce,
     App!Overwritten, App!Ignore, App!Crash, App!Refused, App!ReaderUnchanged
  <2> QED BY <1>1, <2>1 DEF IvrDoes, serverVars
<1>6. \A d \in CallIds : RefersAgents(d)'
  BY <1>5 DEF Usual, UsualOf, RefersAgents
<1> QED BY <1>1, <1>4, <1>6, IvrUsual

\* A step of the IVR on its own.
LEMMA VoiceUsual ==
  ASSUME Kept, Told, Usual, NEW c \in CallIds, IvrDoes(c),
         \/ c = rx.call /\ (App!Announced \/ App!Redirected \/ App!Joined)
         \/ App!ReaderStep(c) \/ App!ReadDTMF(c)
  PROVE  Usual'
<1>0. AppKeeps /\ OwnCalls /\ RefersAgents(c) /\ KnownCaller(c)
  BY DEF Kept, Programs, Told, ToldOf, Usual, UsualOf
<1>1. \A x \in In(sent') : Utters(c, Ivr, x)
  <2>1. CASE sent' = <<>>
    BY <2>1, InNone
  <2>2. CASE sent' # <<>>
    <3>1. PICK x : sent' = <<x>> /\ Voiced(c, x)
      BY <1>0, <2>2, VoiceSends
    <3> QED BY <3>1, VoicedSpeaks, InOne
  <2> QED BY <2>1, <2>2
<1>2. UNCHANGED sessions
  BY DEF IvrDoes, serverVars
<1>3. /\ pending'[c] # None => /\ pending'[c].cseq = "REFER" /\ pending'[c].from = Ivr
                               /\ pending'[c].to = c /\ pending'[c].referTo \in Agents
      /\ \A d \in CallIds \ {c} : pending'[d] = pending[d]
  BY <1>0, PendingStays
<1>4. \A d \in CallIds : RefersAgents(d)'
  BY <1>2, <1>3 DEF Usual, UsualOf, RefersAgents
<1> QED BY <1>1, <1>4, IvrUsual
-----------------------------------------------------------------------------
(***************************************************************************)
(* What the phones say.                                                    *)
(***************************************************************************)
\* A datagram between the caller and the IVR alone.
Plain(c, m) == {m.from, m.to} \subseteq {c, Ivr} /\ (m.cseq = "INVITE" => m.to = Ivr)

OnlyPlain(c) == \A n \in Numbers : \A m \in Rises(c, n) \cup Falls(c, n) : Plain(c, m)

\* The datagrams that move call c on towards the IVR, or an agent.
Leads(c, m) == m.callID = c /\ (Opens(m) \/ m.type = "REFER")

\* What the caller says when that is neither its INVITE nor its ACK to the IVR.
Shut(c) ==
  {x \in Of(c) : Utters(c, c, x) /\ ~Leads(c, x) /\ (OnlyPlain(c) => Plain(c, x))}

Waiting(c) == phone[c] \in {"idle", "calling", "abandoning"}

\* The IVR's answer has come to the caller.
Answering(c) ==
  LET m == Head(downlink[c])
  IN  /\ downlink[c] # <<>> /\ m.type = "200" /\ m.cseq = "INVITE" /\ m.to = Ivr
      /\ downlink' = [downlink EXCEPT ![c] = Tail(@)]
      /\ ~Waiting(c)'

IvrAck(c) == Own("ACK", c, c, Ivr)
CallersBye(c) == Own("BYE", c, c, Ivr)

\* Field by field.
LEMMA OwnFields ==
  ASSUME NEW method, NEW c, NEW u, NEW to
  PROVE  Own(method, c, u, to) = Made(method, method, c, u, to, u, None, u)
BY DEF Own, Request, Message, Made

\* The caller's own requests.
LEMMA CallersOwn ==
  ASSUME NEW c \in CallIds, NEW to \in Party(c)
  PROVE  /\ CallersBye(c) \in Shut(c)
         /\ to # Ivr => Own("ACK", c, c, to) \in Shut(c) \/ OnlyPlain(c)
         /\ IvrAck(c) \in Of(c) /\ Utters(c, c, IvrAck(c)) /\ Leads(c, IvrAck(c))
         /\ Plain(c, IvrAck(c)) /\ IvrAck(c).type = "ACK"
<1>0. c \in Party(c) /\ Ivr \in Party(c) /\ c # Ivr /\ c \notin Agents
  BY PartyType
<1> DEFINE x == Own("BYE", c, c, Ivr)
           y == Own("ACK", c, c, to)
           z == Own("ACK", c, c, Ivr)
<1>x. x \in Of(c) /\ x = Made("BYE", "BYE", c, c, Ivr, c, None, c)
  BY <1>0, OwnUtter, OwnFields DEF Utter
<1>y. y \in Of(c) /\ y = Made("ACK", "ACK", c, c, to, c, None, c)
  BY <1>0, OwnUtter, OwnFields DEF Utter
<1>z. z \in Of(c) /\ z = Made("ACK", "ACK", c, c, Ivr, c, None, c)
  BY <1>0, OwnUtter, OwnFields DEF Utter
<1> HIDE DEF x, y, z
<1>1. x.type = "BYE" /\ x.cseq = "BYE" /\ x.from = c /\ x.to = Ivr
  BY <1>x, MadeIs
<1>2. y.type = "ACK" /\ y.cseq = "ACK" /\ y.from = c /\ y.to = to
  BY <1>y, MadeIs
<1>3. z.type = "ACK" /\ z.cseq = "ACK" /\ z.from = c /\ z.to = Ivr /\ z.callID = c
  BY <1>z, MadeIs
<1>4. x \in Shut(c)
  BY <1>x, <1>1 DEF Shut, Utters, Leads, Opens, Plain
<1>5. to # Ivr => y \in Shut(c) \/ OnlyPlain(c)
  BY <1>y, <1>2 DEF Shut, Utters, Leads, Opens
<1>6. Utters(c, c, z) /\ Leads(c, z) /\ Plain(c, z)
  BY <1>3 DEF Utters, Leads, Opens, Plain
<1> QED BY <1>4, <1>5, <1>z, <1>3, <1>6 DEF x, y, z, IvrAck, CallersBye

\* A phone of a caller.
LEMMA CallerSends ==
  ASSUME Kept, NEW c \in CallIds, UsualOf(c), CallerActs(c)
  PROVE  /\ ~Waiting(c) => ~Waiting(c)'
         /\ \/ Waiting(c) => Waiting(c)'
            \/ /\ downlink[c] # <<>> /\ downlink' = [downlink EXCEPT ![c] = Tail(@)]
               /\ Head(downlink[c]).type = "200" /\ Head(downlink[c]).cseq = "INVITE"
         /\ \E ms : /\ Sends(c, ms)
                    /\ \/ ms \in Seq(Shut(c))
                       \/ Answering(c) /\ (ms = <<IvrAck(c)>> \/ ms = <<IvrAck(c), CallersBye(c)>>)
<1>0. c \in Users /\ c \in Numbers /\ c \in Party(c) /\ Ivr \in Party(c)
      /\ phone \in [Users -> PhoneStates] /\ downlink \in [Numbers -> Seq(Datagram)]
      /\ c # Ivr /\ c \notin Agents /\ Ivr \notin Agents
  BY CallFlowAssumption, SipAssumption, PartyType DEF Kept, Phones, Down, Numbers
<1>1. <<>> \in Seq(Shut(c)) /\ \A x \in Shut(c) : <<x>> \in Seq(Shut(c))
  OBVIOUS
<1>3. \A st, to : Becomes(c, st, to) => phone'[c] = st
  BY <1>0 DEF Becomes
<1>4. /\ CallersBye(c) \in Shut(c)
      /\ \A to \in Party(c) : to # Ivr => Own("ACK", c, c, to) \in Shut(c) \/ OnlyPlain(c)
  BY <1>0, CallersOwn
<1>6. CASE Abandon(c)
  <2>1. Sends(c, <<>>) /\ Waiting(c) /\ Waiting(c)'
    BY <1>3, <1>6 DEF Abandon, Acts, Waiting
  <2> QED BY <1>1, <2>1
<1>7. CASE CallerHangsUp(c)
  <2>1. ~Waiting(c) /\ ~Waiting(c)' /\ Sends(c, <<CallersBye(c)>>)
    BY <1>3, <1>7 DEF CallerHangsUp, Acts, Waiting, CallersBye
  <2> QED BY <1>1, <1>4, <2>1
<1>8. CASE CallerReceives(c)
  <2> DEFINE m == Head(downlink[c])
  <2>1. m \in Of(c) /\ m.to \in Party(c) /\ downlink[c] # <<>> /\ m \in Datagram
    BY <1>0, <1>8, OwnDownlink DEF CallerReceives, Of, Kept
  <2>f. m \in Falls(c, c)
    <3>1. m \in In(downlink[c])
      BY <1>0, <2>1, InTail
    <3> QED BY <2>1, <3>1 DEF Falls, Of
  <2>2. Hears(c, c, m) /\ (OnlyPlain(c) => Plain(c, m))
    BY <1>0, <2>f DEF UsualOf, OnlyPlain
  <2>3. /\ \/ CallerAnswered(c, m) \/ CallerReinvited(c, m) \/ CallerToldBye(c, m)
           \/ CallerByeAnswered(c, m) \/ CallerToldTerminated(c, m) \/ CallerIgnores(c, m)
    BY <1>8 DEF CallerReceives
  <2>4. /\ Reply("200", c, m) \in Utter(c, c)
        /\ [Reply("200", c, m) EXCEPT !.sdp = c] \in Utter(c, c)
        /\ [m EXCEPT !.type = "ACK", !.cseq = "ACK", !.peer = c] \in Utter(c, c)
    BY <1>0, <2>1, ReplyUtter
  <2> HIDE DEF m
  <2>5. CASE CallerAnswered(c, m)
    <3>1. /\ ~Waiting(c)' /\ m.type = "200" /\ m.cseq = "INVITE"
          /\ downlink' = [downlink EXCEPT ![c] = Tail(@)]
          /\ \/ Sends(c, <<Own("ACK", c, c, m.to)>>)
             \/ Sends(c, <<Own("ACK", c, c, m.to), CallersBye(c)>>)
      BY <1>3, <2>5 DEF CallerAnswered, Takes, Waiting, CallersBye
    <3>2. CASE m.to = Ivr
      <4>1. Answering(c)
        BY <2>1, <3>1, <3>2 DEF Answering, m
      <4>2. Sends(c, <<IvrAck(c)>>) \/ Sends(c, <<IvrAck(c), CallersBye(c)>>)
        BY <3>1, <3>2 DEF IvrAck
      <4> QED BY <2>1, <3>1, <4>1, <4>2 DEF m
    <3>3. CASE m.to # Ivr
      <4>1. Own("ACK", c, c, m.to) \in Shut(c)
        BY <1>4, <2>1, <2>2, <3>1, <3>3 DEF Plain
      <4>2. /\ <<Own("ACK", c, c, m.to)>> \in Seq(Shut(c))
            /\ <<Own("ACK", c, c, m.to), CallersBye(c)>> \in Seq(Shut(c))
        BY <1>4, <4>1
      <4> QED BY <2>1, <3>1, <4>2 DEF m
    <3> QED BY <3>2, <3>3
  <2>6. CASE CallerReinvited(c, m)
    <3> DEFINE x == [Reply("200", c, m) EXCEPT !.sdp = c]
    <3>1. x.type = "200" /\ x.cseq = "INVITE" /\ x.to = c /\ x.sdp = c
      <4>1. x.type = "200" /\ x.cseq = "INVITE"
        BY <2>1, <2>2, <2>6, ReplyFields DEF CallerReinvited, Hears
      <4>2. m.to = c
        BY <2>2, <2>6 DEF CallerReinvited, Hears
      <4> QED BY <2>1, <4>1, <4>2 DEF Reply, Datagram
    <3>2. Sends(c, <<x>>) \/ Sends(c, <<>>)
      BY <2>6 DEF CallerReinvited, Takes
    <3>3. Waiting(c)' = Waiting(c)
      BY <1>3, <2>6 DEF CallerReinvited, Takes, Waiting
    <3>4. OnlyPlain(c) => FALSE
      BY <1>0, <2>2, <2>6 DEF CallerReinvited, Hears, Plain
    <3>5. x \in Of(c)
      BY <2>4 DEF Utter
    <3> HIDE DEF x
    <3>6. x \in Shut(c)
      BY <1>0, <3>1, <3>4, <3>5 DEF Shut, Utters, Leads, Opens
    <3> QED BY <1>1, <3>2, <3>3, <3>6
  <2>7. CASE CallerToldBye(c, m)
    <3> DEFINE x == Reply("200", c, m)
    <3>1. x.type = "200" /\ x.cseq = "BYE" /\ x.from = m.from /\ x.to = m.to
      <4>1. m.cseq = "BYE"
        BY <2>2, <2>7 DEF CallerToldBye, Hears
      <4> QED BY <2>1, <4>1, ReplyFields DEF Reply, Datagram
    <3>2. Sends(c, <<x>>) \/ Sends(c, <<>>)
      BY <2>7 DEF CallerToldBye, Takes
    <3>3. Waiting(c)' = Waiting(c)
      BY <1>3, <2>7 DEF CallerToldBye, Takes, Waiting
    <3>5. x \in Of(c)
      BY <2>4 DEF Utter
    <3> HIDE DEF x
    <3>6. x \in Shut(c)
      BY <1>0, <2>2, <3>1, <3>5 DEF Shut, Utters, Leads, Opens, Plain
    <3> QED BY <1>1, <3>2, <3>3, <3>6
  <2>8. CASE CallerToldTerminated(c, m)
    <3> DEFINE x == [m EXCEPT !.type = "ACK", !.cseq = "ACK", !.peer = c]
    <3>1. x.type = "ACK" /\ x.cseq = "ACK" /\ x.to = m.to /\ m.to \in Agents
      <4>1. m.to \in Agents
        BY <2>2, <2>8 DEF CallerToldTerminated, Hears
      <4> QED BY <2>1, <4>1 DEF Datagram
    <3>2. Sends(c, <<x>>) \/ Sends(c, <<>>)
      BY <2>8 DEF CallerToldTerminated, Takes
    <3>3. Waiting(c)' = Waiting(c)
      BY <2>8 DEF CallerToldTerminated, Takes, Waiting
    <3>4. OnlyPlain(c) => FALSE
      BY <1>0, <2>2, <3>1 DEF Plain
    <3>5. x \in Of(c)
      BY <2>4 DEF Utter
    <3> HIDE DEF x
    <3>6. x \in Shut(c)
      BY <1>0, <3>1, <3>4, <3>5 DEF Shut, Utters, Leads, Opens
    <3> QED BY <1>1, <3>2, <3>3, <3>6
  <2>9. CASE CallerByeAnswered(c, m) \/ CallerIgnores(c, m)
    <3>1. Sends(c, <<>>)
      BY <2>9 DEF CallerByeAnswered, CallerIgnores, Takes
    <3>2. Waiting(c)' = Waiting(c)
      BY <1>3, <2>9 DEF CallerByeAnswered, CallerIgnores, Takes, Waiting
    <3> QED BY <1>1, <3>1, <3>2
  <2> QED BY <2>3, <2>5, <2>6, <2>7, <2>8, <2>9
<1> QED BY <1>6, <1>7, <1>8 DEF CallerActs

\* No agent is in the call or may be asked into it.
Agentless(c) == (\A a \in Agents : dialog[a] # c) /\ PlainSession(c) /\ OnlyPlain(c)

\* What an agent may say of call k.
AgentSays(a, k) == {x \in Of(k) : Utters(k, a, x) /\ ~Leads(k, x)}

\* The agent's responses and its BYE.
LEMMA AgentsOwn ==
  ASSUME NEW a \in Agents, NEW k \in CallIds
  PROVE  /\ \A type \in {"180", "480", "486", "487"} : Response(type, k, a) \in AgentSays(a, k)
         /\ [Response("200", k, a) EXCEPT !.sdp = a] \in AgentSays(a, k)
         /\ Own("BYE", k, a, k) \in AgentSays(a, k)
<1>0. a \in Party(k) /\ k \in Party(k) /\ a # Ivr /\ a # k /\ k # Ivr
  BY PartyType, SipAssumption, CallFlowAssumption
<1>1. ASSUME NEW type \in {"180", "480", "486", "487"}
      PROVE  Response(type, k, a) \in AgentSays(a, k)
  <2>1. Response(type, k, a) \in Of(k)
    BY <1>1, ResponseUtter DEF Utter
  <2>2. Response(type, k, a).type = type /\ Response(type, k, a).cseq = "INVITE"
        /\ Response(type, k, a).from = k /\ Response(type, k, a).to = a
    BY DEF Response, Message
  <2> QED BY <1>0, <2>1, <2>2 DEF AgentSays, Utters, Leads, Opens
<1>2. [Response("200", k, a) EXCEPT !.sdp = a] \in AgentSays(a, k)
  <2> DEFINE x == [Response("200", k, a) EXCEPT !.sdp = a]
  <2>1. x \in Of(k)
    BY ResponseUtter DEF Utter
  <2>2. x.type = "200" /\ x.cseq = "INVITE" /\ x.from = k /\ x.to = a /\ x.sdp = a
    BY DEF Response, Message
  <2> HIDE DEF x
  <2>3. x \in AgentSays(a, k)
    BY <1>0, <2>1, <2>2 DEF AgentSays, Utters, Leads, Opens
  <2> QED BY <2>3 DEF x
<1>3. Own("BYE", k, a, k) \in AgentSays(a, k)
  <2>1. Own("BYE", k, a, k) \in Of(k)
    BY <1>0, OwnUtter DEF Utter
  <2>2. Own("BYE", k, a, k).type = "BYE" /\ Own("BYE", k, a, k).cseq = "BYE"
    BY DEF Own, Request, Message
  <2> QED BY <2>1, <2>2 DEF AgentSays, Utters, Leads, Opens
<1> QED BY <1>1, <1>2, <1>3

\* A phone of an agent: it says nothing of a call that has nothing to do with agents.
LEMMA AgentSends ==
  ASSUME Kept, Usual, NEW a \in Agents, AgentActs(a)
  PROVE  /\ \A d \in CallIds : Agentless(d) => dialog'[a] # d
         /\ \E k \in CallIds : \E ms \in Seq(AgentSays(a, k)) :
              Sends(a, ms) /\ (Agentless(k) => ms = <<>>)
<1>0. /\ a \in Users /\ a \in Numbers /\ a \notin CallIds /\ a # Ivr
      /\ phone[a] # "idle" => dialog[a] \in CallIds
      /\ dialog \in [Agents -> OrNone(CallIds)] /\ \A k \in CallIds : k # None
  BY CallFlowAssumption, SipAssumption, PartyType DEF Kept, Phones, Numbers, OrNone
<1>1. ASSUME NEW k \in CallIds
      PROVE  /\ <<>> \in Seq(AgentSays(a, k))
             /\ \A type \in {"180", "480", "486", "487"} :
                  <<Response(type, k, a)>> \in Seq(AgentSays(a, k))
             /\ <<[Response("200", k, a) EXCEPT !.sdp = a]>> \in Seq(AgentSays(a, k))
             /\ <<Own("BYE", k, a, k)>> \in Seq(AgentSays(a, k))
  BY AgentsOwn
<1>2. ASSUME NEW k, Engages(a, k)
      PROVE  dialog'[a] = k
  BY <1>0, <1>2 DEF Engages
<1>3. CASE AgentAnswers(a)
  <2>1. dialog[a] \in CallIds /\ Sends(a, <<[Response("200", dialog[a], a) EXCEPT !.sdp = a]>>)
        /\ UNCHANGED dialog
    BY <1>0, <1>3 DEF AgentAnswers, Acts
  <2>2. <<[Response("200", dialog[a], a) EXCEPT !.sdp = a]>> \in Seq(AgentSays(a, dialog[a]))
    BY <1>1, <2>1
  <2> QED BY <2>1, <2>2 DEF Agentless
<1>4. CASE AgentRejects(a)
  <2>1. PICK type \in {"480", "486"} : Sends(a, <<Response(type, dialog[a], a)>>)
    BY <1>4 DEF AgentRejects, Acts
  <2>2. dialog[a] \in CallIds /\ dialog'[a] = None
    BY <1>0, <1>2, <1>4 DEF AgentRejects
  <2>3. <<Response(type, dialog[a], a)>> \in Seq(AgentSays(a, dialog[a]))
    BY <1>1, <2>2
  <2> QED BY <1>0, <2>1, <2>2, <2>3 DEF Agentless
<1>5. CASE AgentHangsUp(a)
  <2>1. dialog[a] \in CallIds /\ Sends(a, <<Own("BYE", dialog[a], a, dialog[a])>>) /\ UNCHANGED dialog
    BY <1>0, <1>5 DEF AgentHangsUp, Acts
  <2>2. <<Own("BYE", dialog[a], a, dialog[a])>> \in Seq(AgentSays(a, dialog[a]))
    BY <1>1, <2>1
  <2> QED BY <2>1, <2>2 DEF Agentless
<1>6. CASE AgentReceives(a)
  <2>m. PICK m \in {Head(downlink[a])} : TRUE
    OBVIOUS
  <2>k. PICK k \in {m.callID} : TRUE
    OBVIOUS
  <2>1. m \in Of(k) /\ k \in CallIds /\ downlink[a] # <<>> /\ m \in Datagram
    BY <1>0, <1>6, <2>m, <2>k, OwnDownlink DEF AgentReceives, Of, Kept
  <2>2. m \in Falls(k, a)
    <3>1. downlink \in [Numbers -> Seq(Datagram)]
      BY DEF Kept, Down
    <3>2. m \in In(downlink[a])
      BY <1>0, <2>1, <2>m, <3>1, InTail
    <3> QED BY <2>k, <3>2 DEF Falls
  <2>3. Hears(k, a, m) /\ (Agentless(k) => Plain(k, m))
    BY <1>0, <2>1, <2>2 DEF Usual, UsualOf, Agentless, OnlyPlain
  <2>4. \/ AgentInvited(a, m) \/ AgentCancelled(a, m) \/ AgentAcknowledged(a, m)
        \/ AgentToldBye(a, m) \/ AgentByeAnswered(a, m) \/ AgentIgnores(a, m)
    BY <1>6, <2>m DEF AgentReceives
  <2>5. m.callID = k
    BY <2>k
  <2>6. CASE AgentInvited(a, m)
    <3>1. ~Agentless(k)
      BY <1>0, <2>1, <2>3, <2>6, PartyType DEF AgentInvited, Hears, Plain
    <3>2. Sends(a, <<>>) \/ Sends(a, <<Response("180", k, a)>>) \/ Sends(a, <<Response("486", k, a)>>)
      BY <2>5, <2>6 DEF AgentInvited, Takes
    <3>3. dialog'[a] \in {k, dialog[a]}
      BY <1>2, <2>5, <2>6 DEF AgentInvited
    <3>4. \A d \in CallIds : Agentless(d) => dialog'[a] # d
      BY <3>1, <3>3 DEF Agentless
    <3> QED BY <1>1, <2>1, <3>1, <3>2, <3>4
  <2>7. CASE AgentCancelled(a, m)
    <3>1. Sends(a, <<Reply("200", a, m), Response("487", k, a)>>) /\ dialog'[a] = None /\ dialog[a] = k
      BY <1>2, <2>5, <2>7 DEF AgentCancelled, Takes
    <3>2. Reply("200", a, m) \in AgentSays(a, k)
      <4>1. Reply("200", a, m) \in Of(k)
        BY <2>1, PartyType, ReplyUtter DEF Utter
      <4>2. m.cseq = "CANCEL"
        BY <2>3, <2>7 DEF Hears, AgentCancelled
      <4>3. Reply("200", a, m).type = "200" /\ Reply("200", a, m).cseq = "CANCEL"
        BY <2>1, <4>2, ReplyFields
      <4> QED BY <4>1, <4>3 DEF AgentSays, Utters, Leads, Opens
    <3>3. <<Reply("200", a, m), Response("487", k, a)>> \in Seq(AgentSays(a, k))
      <4>1. Response("487", k, a) \in AgentSays(a, k)
        BY <2>1, AgentsOwn
      <4> QED BY <3>2, <4>1
    <3> QED BY <1>0, <2>1, <3>1, <3>3 DEF Agentless
  <2>8. CASE AgentToldBye(a, m)
    <3>1. Sends(a, <<Reply("200", a, m)>>) /\ dialog'[a] = None /\ dialog[a] = k
      BY <1>2, <2>5, <2>8 DEF AgentToldBye, Takes
    <3>2. Reply("200", a, m) \in AgentSays(a, k)
      <4>1. Reply("200", a, m) \in Of(k)
        BY <2>1, PartyType, ReplyUtter DEF Utter
      <4>2. m.cseq = "BYE"
        BY <2>3, <2>8 DEF Hears, AgentToldBye
      <4>3. Reply("200", a, m).type = "200" /\ Reply("200", a, m).cseq = "BYE"
        BY <2>1, <4>2, ReplyFields
      <4> QED BY <4>1, <4>3 DEF AgentSays, Utters, Leads, Opens
    <3>3. <<Reply("200", a, m)>> \in Seq(AgentSays(a, k))
      BY <3>2
    <3> QED BY <1>0, <2>1, <3>1, <3>3 DEF Agentless
  <2>9. CASE AgentAcknowledged(a, m) \/ AgentByeAnswered(a, m) \/ AgentIgnores(a, m)
    <3>1. Sends(a, <<>>)
      BY <2>9 DEF AgentAcknowledged, AgentByeAnswered, AgentIgnores, Takes
    <3>2. dialog'[a] \in {dialog[a], None}
      BY <1>2, <2>9 DEF AgentAcknowledged, AgentByeAnswered, AgentIgnores, phoneVars
    <3>3. \A d \in CallIds : Agentless(d) => dialog'[a] # d
      BY <1>0, <3>2 DEF Agentless
    <3> QED BY <1>1, <2>1, <3>1, <3>3
  <2> QED BY <2>4, <2>6, <2>7, <2>8, <2>9
<1> QED BY <1>3, <1>4, <1>5, <1>6 DEF AgentActs

\* A phone's step leaves what is usual.
LEMMA PhoneUsual ==
  ASSUME Kept, Usual, NEW u \in Numbers, NEW k \in CallIds, Apart,
         NEW S \in SUBSET Of(k), \A x \in S : Utters(k, u, x),
         NEW ms \in Seq(S), uplink' = [uplink EXCEPT ![u] = @ \o ms],
         \A n \in Numbers : In(downlink'[n]) \subseteq In(downlink[n])
  PROVE  Usual'
<1> SUFFICES ASSUME NEW d \in CallIds
             PROVE  UsualOf(d)'
  BY DEF Usual
<1>1. RefersAgents(d)'
  BY DEF RefersAgents, Usual, UsualOf, Apart, serverVars, ivrVars
<1>2. /\ \A n \in Numbers \ {u} : uplink'[n] = uplink[n]
      /\ In(uplink'[u]) \subseteq In(uplink[u]) \cup S
  <2>1. S \in SUBSET Datagram /\ Up
    BY DEF Of, Kept
  <2> QED BY <2>1, SendsIn
<1>3. \A x \in S : x.callID = k /\ Utters(k, u, x)
  BY DEF Of
<1>4. \A n \in Numbers : \A m \in In(uplink'[n]) :
        m.callID = d => m \in In(uplink[n]) \/ Utters(d, n, m)
  BY <1>2, <1>3
<1>5. \A n \in Numbers : \A m \in In(downlink'[n]) :
        m.callID = d => m \in In(downlink[n]) \/ Hears(d, n, m)
  OBVIOUS
<1> QED BY <1>1, <1>4, <1>5, UsualKept DEF Usual

\* Every step leaves it.
LEMMA NextUsual ==
  ASSUME Kept, Told, Usual, [Next]_vars
  PROVE  Usual'
<1>1. ASSUME NEW n \in Numbers, ServerStep(n)
      PROVE  Usual'
  BY <1>1, ServerUsual
<1>2. CASE IvrReceives
  BY <1>2, ReceiveUsual
<1>3. CASE IvrWakes
  <2>1. PICK c \in CallIds : c = rx.call /\ IvrDoes(c)
    BY <1>3, IvrWakesDoes
  <2> QED BY <1>3, <2>1, VoiceUsual DEF IvrWakes
<1>4. ASSUME NEW c \in CallIds, ReaderSteps(c) \/ PressKey(c)
      PROVE  Usual'
  <2>1. IvrDoes(c)
    BY <1>4, ReaderStepsDoes, PressKeyDoes
  <2> QED BY <1>4, <2>1, VoiceUsual DEF ReaderSteps, PressKey
<1>5. ASSUME NEW c \in CallIds, Dial(c)
      PROVE  Usual'
  <2>1. /\ Apart /\ UNCHANGED downlink /\ c \in Numbers
        /\ uplink' = [uplink EXCEPT ![c] = @ \o <<Invitation(c)>>]
    BY <1>5, DialDoes, PartyType
  <2>2. Invitation(c) \in Of(c) /\ Invitation(c).type = "INVITE" /\ Invitation(c).cseq = "INVITE"
    <3> DEFINE x == Own("INVITE", c, c, Ivr)
    <3>1. x = Made("INVITE", "INVITE", c, c, Ivr, c, None, c)
      BY OwnFields
    <3>2. "INVITE" \in Types /\ "INVITE" \in Methods /\ c \in OrNone(Numbers) /\ None \in OrNone(Numbers)
      BY PartyType DEF Types, Methods, OrNone
    <3> HIDE DEF x
    <3>3. x \in Of(c) /\ x.type = "INVITE" /\ x.cseq = "INVITE"
      <4>1. x \in Of(c)
        BY <3>1, <3>2, MadeOf, PartyType
      <4> QED BY <3>1, <4>1, MadeIs
    <3>4. Invitation(c) = [x EXCEPT !.sdp = c]
      BY DEF Invitation, x
    <3> QED BY <3>2, <3>3, <3>4 DEF Of, Datagram
  <2>3. Utters(c, c, Invitation(c))
    BY <2>2 DEF Utters
  <2>4. <<Invitation(c)>> \in Seq({Invitation(c)}) /\ {Invitation(c)} \in SUBSET Of(c)
    BY <2>2
  <2>5. \A n \in Numbers : In(downlink'[n]) \subseteq In(downlink[n])
    BY <2>1
  <2> QED BY <2>1, <2>3, <2>4, <2>5, PhoneUsual
<1>6. ASSUME NEW c \in CallIds, CallerActs(c)
      PROVE  Usual'
  <2>1. Apart /\ c \in Numbers /\ \A n \in Numbers : In(downlink'[n]) \subseteq In(downlink[n])
    BY <1>6, CallerDoes, PartyType DEF PhoneDoes
  <2>2. PICK ms : /\ Sends(c, ms)
                  /\ \/ ms \in Seq(Shut(c))
                     \/ ms = <<IvrAck(c)>> \/ ms = <<IvrAck(c), CallersBye(c)>>
    BY <1>6, CallerSends DEF Usual
  <2> DEFINE S == {x \in Of(c) : Utters(c, c, x)}
  <2>3. ms \in Seq(S)
    <3>1. IvrAck(c) \in S /\ CallersBye(c) \in S /\ Shut(c) \subseteq S
      BY CallersOwn, PartyType DEF Shut
    <3>2. \A q \in Seq(Shut(c)) : q \in Seq(S)
      BY <3>1
    <3> HIDE DEF S
    <3>3. <<IvrAck(c)>> \in Seq(S) /\ <<IvrAck(c), CallersBye(c)>> \in Seq(S)
      BY <3>1
    <3> QED BY <2>2, <3>2, <3>3
  <2>4. S \in SUBSET Of(c) /\ \A x \in S : Utters(c, c, x)
    OBVIOUS
  <2>5. uplink' = [uplink EXCEPT ![c] = @ \o ms]
    BY <2>2 DEF Sends
  <2> HIDE DEF S
  <2> QED BY <2>1, <2>3, <2>4, <2>5, PhoneUsual
<1>7. ASSUME NEW a \in Agents, AgentActs(a)
      PROVE  Usual'
  <2>1. Apart /\ a \in Numbers /\ \A n \in Numbers : In(downlink'[n]) \subseteq In(downlink[n])
    BY <1>7, AgentDoes, CallFlowAssumption DEF PhoneDoes, Numbers
  <2>2. PICK k \in CallIds : \E ms \in Seq(AgentSays(a, k)) : Sends(a, ms)
    BY <1>7, AgentSends
  <2>3. PICK ms \in Seq(AgentSays(a, k)) : uplink' = [uplink EXCEPT ![a] = @ \o ms]
    BY <2>2 DEF Sends
  <2>4. AgentSays(a, k) \in SUBSET Of(k) /\ \A x \in AgentSays(a, k) : Utters(k, a, x)
    BY DEF AgentSays
  <2> QED BY <2>1, <2>3, <2>4, PhoneUsual
<1>8. CASE Trouble
  <2>1. /\ UNCHANGED <<serverVars, ivrVars, phoneVars>>
        /\ \A n \in Numbers : In(downlink'[n]) \subseteq In(downlink[n])
        /\ \A n \in Numbers : uplink'[n] = uplink[n] \/ uplink'[n] \in Disturbed(uplink[n])
    BY <1>8, TroubleDoes
  <2>2. \A n \in Numbers : In(uplink'[n]) \subseteq In(uplink[n])
    BY <2>1, InDisturbed DEF Kept, Up
  <2>3. ASSUME NEW d \in CallIds
        PROVE  UsualOf(d)'
    <3>1. RefersAgents(d)'
      BY <2>1 DEF Usual, UsualOf, RefersAgents, serverVars, ivrVars
    <3> QED BY <2>1, <2>2, <3>1, UsualKept DEF Usual
  <2> QED BY <2>3 DEF Usual
<1>9. CASE UNCHANGED vars
  BY <1>9 DEF vars, Usual, UsualOf, RefersAgents, Rises, Falls, Utters, Hears, serverVars, ivrVars,
     netVars
<1> QED BY <1>1, <1>2, <1>3, <1>4, <1>5, <1>6, <1>7, <1>8, <1>9
        DEF Next, Callers, CallerActs, AgentActs

\* At first nobody has said anything.
LEMMA InitUsual == Init => Usual
BY InNone DEF Init, App!Init, Usual, UsualOf, RefersAgents, Rises, Falls
=============================================================================
