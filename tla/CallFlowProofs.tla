--------------------------- MODULE CallFlowProofs ---------------------------
(***************************************************************************)
(* What holds of whole calls, for every set of callers and agents.         *)
(*                                                                         *)
(* The invariant is Kept.  Each program keeps its own (SipServerProofs,    *)
(* IvrApplicationProofs), on datagrams that the other one, the phones and  *)
(* the network have put on the links.  So it says of every link what may   *)
(* be on it: datagrams of one call each, between the parties of the call,  *)
(* sent from or to the owner of the link.  To keep that, a server's        *)
(* session and a call of the IVR have to name parties of their call only,  *)
(* and a phone has to speak of the call it is in.                          *)
(*                                                                         *)
(* ReferFindsDest needs more, and a network that makes one mistake at most *)
(* (see Setup): that a REFER comes after the answer is a matter of order.  *)
(***************************************************************************)
EXTENDS CallFlow, TLAPS

\* What is proved of the two programs, with the links for their sockets.
SP == INSTANCE SipServerProofs WITH DebugMode <- FALSE, Wire <- {}
AP == INSTANCE IvrApplicationProofs WITH Wire <- {}
-----------------------------------------------------------------------------
(***************************************************************************)
(* The programs in the composition.                                        *)
(***************************************************************************)
\* All parts speak of the same numbers and datagrams.
LEMMA SameSip ==
  /\ SP!Numbers = Numbers /\ AP!Numbers = Numbers
  /\ SP!Types = Types /\ AP!Types = Types
  /\ SP!Methods = Methods /\ AP!Methods = Methods
  /\ SP!Datagram = Datagram /\ AP!Datagram = Datagram
  /\ SP!ExpiresZero = ExpiresZero /\ AP!ExpiresZero = ExpiresZero
  /\ SP!Session = Server!Session /\ AP!CallSession = App!CallSession
BY DEF SP!Numbers, AP!Numbers, Numbers, SP!Types, AP!Types, Types, SP!Methods, AP!Methods, Methods,
       SP!Responses, AP!Responses, Responses, SP!Datagram, AP!Datagram, Datagram, SP!OrNone,
       AP!OrNone, OrNone, SP!ExpiresZero, AP!ExpiresZero, ExpiresZero, SP!Session, Server!Session,
       SP!States, Server!States, Server!OrNone, Server!Numbers, AP!CallSession, App!CallSession,
       AP!CallStates, App!CallStates, App!Numbers

\* The composition satisfies what its parts assume.
LEMMA PartsAssume ==
  /\ SP!SipAssumption /\ SP!SipServerAssumption /\ SP!NoneAssumption
  /\ AP!SipAssumption /\ AP!IvrAssumption /\ AP!NoSessionAssumption
BY SipAssumption, CallFlowAssumption, NoSessionAssumption, SameSip
DEF SP!SipAssumption, SP!SipServerAssumption, SP!NoneAssumption, AP!SipAssumption,
    AP!IvrAssumption, AP!NoSessionAssumption

\* A handler of the server, as the proofs about it know it.
LEMMA ServerHandles ==
  ASSUME NEW m, Server!Handle(m)
  PROVE  SP!Handle(m)
<1> USE DEF Server!Drop, SP!Drop, Server!Forward, SP!Forward, Server!Route, SP!Route,
       Server!EndHandle, SP!EndHandle, Server!HasSession, SP!HasSession, Server!Put, SP!Put,
       Server!EndCall, SP!EndCall, Server!AckOf, SP!AckOf, Server!SetCallState, SP!SetCallState,
       Server!HasSdp, SP!HasSdp
<1>1. Server!OnRegister(m) => SP!OnRegister(m)
  BY DEF Server!OnRegister, SP!OnRegister, Server!ExpiresZero, SP!ExpiresZero
<1>2. Server!OnInvite(m) => SP!OnInvite(m)
  BY DEF Server!OnInvite, SP!OnInvite, Server!Reachable, SP!Reachable, Server!Emplace, SP!Emplace,
     Server!NewSession, SP!NewSession, Server!SetContact, SP!SetContact
<1>3. /\ Server!OnTrying(m) => SP!OnTrying(m)
      /\ Server!OnRinging(m) => SP!OnRinging(m)
      /\ Server!OnCancel(m) => SP!OnCancel(m)
      /\ Server!OnReqTerminated(m) => SP!OnReqTerminated(m)
  BY DEF Server!OnTrying, SP!OnTrying, Server!OnRinging, SP!OnRinging, Server!OnCancel,
     SP!OnCancel, Server!OnReqTerminated, SP!OnReqTerminated
<1>4. /\ Server!OnBusy(m) => SP!OnBusy(m)
      /\ Server!OnUnavailable(m) => SP!OnUnavailable(m)
  BY DEF Server!OnBusy, SP!OnBusy, Server!OnUnavailable, SP!OnUnavailable, Server!Failed, SP!Failed,
     Server!FailureTarget, SP!FailureTarget
<1>5. Server!OnRefer(m) => SP!OnRefer(m)
  BY DEF Server!OnRefer, SP!OnRefer, Server!Message, SP!Message, Server!Request, SP!Request,
     Server!ReferAllowed, SP!ReferAllowed
<1>6. Server!OnOk(m) => SP!OnOk(m)
  <2>1. ASSUME NEW s PROVE Server!OnOkInvite(s, m) => SP!OnOkInvite(s, m)
    BY DEF Server!OnOkInvite, SP!OnOkInvite, Server!Answered, SP!Answered, Server!Connected,
       SP!Connected, Server!AgentAnswered, SP!AgentAnswered, Server!MediaUpdated, SP!MediaUpdated,
       Server!Transfered, SP!Transfered, Server!UpdateMedia, SP!UpdateMedia, Server!Reinvite,
       SP!Reinvite, Server!AckAgent, SP!AckAgent, Server!AckClient, SP!AckClient,
       Server!ByeToIvr, SP!ByeToIvr, Server!Request, SP!Request, Server!Message, SP!Message,
       Server!SetContact, SP!SetContact
  <2>2. ASSUME NEW s PROVE Server!OnOkBye(s, m) => SP!OnOkBye(s, m)
    BY DEF Server!OnOkBye, SP!OnOkBye
  <2> QED BY <2>1, <2>2 DEF Server!OnOk, SP!OnOk
<1>7. Server!OnAck(m) => SP!OnAck(m)
  BY DEF Server!OnAck, SP!OnAck, Server!Finished, SP!Finished
<1>8. Server!OnBye(m) => SP!OnBye(m)
  BY DEF Server!OnBye, SP!OnBye, Server!ByeForAgent, SP!ByeForAgent, Server!PassBye, SP!PassBye,
     Server!SetContact, SP!SetContact
<1>9. Server!OnUnknown(m) => SP!OnUnknown(m)
  BY DEF Server!OnUnknown, SP!OnUnknown
<1> HIDE DEF Server!Drop, SP!Drop, Server!Forward, SP!Forward, Server!Route, SP!Route,
       Server!EndHandle, SP!EndHandle, Server!HasSession, SP!HasSession, Server!Put, SP!Put,
       Server!EndCall, SP!EndCall, Server!AckOf, SP!AckOf, Server!SetCallState, SP!SetCallState,
       Server!HasSdp, SP!HasSdp
<1> QED BY <1>1, <1>2, <1>3, <1>4, <1>5, <1>6, <1>7, <1>8, <1>9 DEF Server!Handle, SP!Handle

\* So with the IVR: a handler of its receiver thread, ...
LEMMA AppReceives ==
  ASSUME NEW m, App!Receive(m)
  PROVE  AP!Receive(m)
<1> USE DEF App!HasCall, AP!HasCall, App!SetState, AP!SetState, App!Send, AP!Send, App!Busy, AP!Busy,
       App!ReaderUnchanged, AP!ReaderUnchanged, App!MapChanges, AP!MapChanges, App!Plays, AP!Plays,
       App!Ignore, AP!Ignore, App!Crash, AP!Crash, App!Overwritten, AP!Overwritten,
       App!SettingFile, AP!SettingFile, App!StopReadDTMF, AP!StopReadDTMF, App!EndCall, AP!EndCall,
       App!Announce, AP!Announce, App!Idle, AP!Idle
<1>1. App!OnInvite(m) => AP!OnInvite(m)
  BY DEF App!OnInvite, AP!OnInvite, App!Refused, AP!Refused, App!NewCall, AP!NewCall
<1>2. App!OnAck(m) => AP!OnAck(m)
  BY DEF App!OnAck, AP!OnAck
<1>3. /\ App!OnBusy(m) => AP!OnBusy(m)
      /\ App!OnUnavailable(m) => AP!OnUnavailable(m)
  BY DEF App!OnBusy, AP!OnBusy, App!OnUnavailable, AP!OnUnavailable
<1>4. App!OnReferAccepted(m) => AP!OnReferAccepted(m)
  BY DEF App!OnReferAccepted, AP!OnReferAccepted, App!StartsReferring, AP!StartsReferring
<1>5. /\ App!OnBye(m) => AP!OnBye(m)
      /\ App!OnOk(m) => AP!OnOk(m)
      /\ App!OnNothing(m) => AP!OnNothing(m)
  BY DEF App!OnBye, AP!OnBye, App!OnOk, AP!OnOk, App!OnNothing, AP!OnNothing
<1> QED BY <1>1, <1>2, <1>3, <1>4, <1>5 DEF App!Receive, AP!Receive

\* ... the rest of one, ...
LEMMA AppWakes ==
  /\ App!Announced => AP!Announced
  /\ App!Redirected => AP!Redirected
  /\ App!Joined => AP!Joined
<1> USE DEF App!HasCall, AP!HasCall, App!Send, AP!Send, App!Busy, AP!Busy, App!ReaderUnchanged,
       AP!ReaderUnchanged, App!Plays, AP!Plays, App!Crash, AP!Crash, App!Overwritten,
       AP!Overwritten, App!SettingFile, AP!SettingFile, App!StopReadDTMF, AP!StopReadDTMF,
       App!Idle, AP!Idle
<1>1. App!Announced => AP!Announced
  BY DEF App!Announced, AP!Announced, App!Bye, AP!Bye, App!Request, AP!Request,
     App!Message, AP!Message
<1>2. App!Redirected => AP!Redirected
  BY DEF App!Redirected, AP!Redirected
<1>3. App!Joined => AP!Joined
  BY DEF App!Joined, AP!Joined
<1> QED BY <1>1, <1>2, <1>3

\* ... and a reader.
LEMMA AppReads ==
  ASSUME NEW c
  PROVE  /\ App!ReaderStep(c) => AP!ReaderStep(c)
         /\ App!ReadDTMF(c) => AP!ReadDTMF(c)
<1> USE DEF App!HasCall, AP!HasCall, App!Send, AP!Send, App!Plays, AP!Plays, App!Crash, AP!Crash,
       App!Goto, AP!Goto, App!Replays, AP!Replays
<1>1. App!OnDTMFEvent(c) => AP!OnDTMFEvent(c)
  BY DEF App!OnDTMFEvent, AP!OnDTMFEvent, App!LookupFails, AP!LookupFails, App!Answers, AP!Answers,
     App!StillConnected, AP!StillConnected, App!Choose, AP!Choose, App!Refer, AP!Refer,
     App!Request, AP!Request, App!Message, AP!Message
<1>2. /\ App!MakeRefer(c) => AP!MakeRefer(c)
      /\ App!ReplayGuide(c) => AP!ReplayGuide(c)
      /\ App!InvalidChoose(c) => AP!InvalidChoose(c)
      /\ App!InvalidChosen(c) => AP!InvalidChosen(c)
      /\ App!RestoreGuide(c) => AP!RestoreGuide(c)
      /\ App!Exit(c) => AP!Exit(c)
  BY DEF App!MakeRefer, AP!MakeRefer, App!ReplayGuide, AP!ReplayGuide, App!InvalidChoose,
     AP!InvalidChoose, App!InvalidChosen, AP!InvalidChosen, App!RestoreGuide, AP!RestoreGuide,
     App!Exit, AP!Exit
<1>3. App!ReadDTMF(c) => AP!ReadDTMF(c)
  BY DEF App!ReadDTMF, AP!ReadDTMF
<1> QED BY <1>1, <1>2, <1>3 DEF App!ReaderStep, AP!ReaderStep
-----------------------------------------------------------------------------
(***************************************************************************)
(* What the programs keep, whatever happens to the process.                *)
(***************************************************************************)
ServerKeeps ==
  /\ clients \subseteq Numbers
  /\ sessions \in [CallIds -> OrNone(Server!Session)]
  /\ SP!ReferNeedsDest /\ SP!MediaNeedsAnswer

AppKeeps ==
  /\ calls \in [CallIds -> OrNone(App!CallSession)]
  /\ media \in [CallIds -> {"none", "open", "closed"}]
  /\ reader \in [CallIds -> App!ReaderStates]
  /\ running \in [CallIds -> BOOLEAN]
  /\ pending \in [CallIds -> OrNone(Datagram)]
  /\ playing \in [CallIds -> OrNone(App!Announcements)]
  /\ rx \in [at : App!RxStates, call : OrNone(CallIds)]
  /\ AP!Tidy

AppFaults == {"OnInvite", "OnAck", "OnUnavailable", "onDTMFEvent", "findSession",
              "setPbSourceFile"}

Outcome ==
  /\ sent \in Seq(Datagram)
  /\ fault \in {"none", "OnRefer"} \cup AppFaults

Programs == ServerKeeps /\ AppKeeps /\ Outcome

\* While the process runs, the invariants of both programs hold.
LEMMA ProgramsRun ==
  ASSUME Programs, fault = "none"
  PROVE  SP!IInv /\ AP!IInv
<1>1. SP!IInv
  BY SameSip DEF Programs, ServerKeeps, Outcome, SP!IInv, SP!TypeOK, SP!OrNone, OrNone
<1>2. AP!IInv
  BY SameSip DEF Programs, AppKeeps, Outcome, AP!IInv, AP!TypeOK, AP!OrNone, OrNone,
     AP!ReaderStates, App!ReaderStates, AP!Announcements, App!Announcements,
     AP!RxStates, App!RxStates
<1> QED BY <1>1, <1>2

\* A handler of the server.
LEMMA ServerRuns ==
  ASSUME Programs, NEW m \in Datagram, Server!Handle(m), UNCHANGED ivrVars
  PROVE  Programs' /\ (fault' = "none" \/ fault' = "OnRefer")
<1>1. fault = "none" /\ SP!Handle(m)
  BY ServerHandles DEF Server!Handle
<1>2. SP!IInv'
  BY <1>1, ProgramsRun, PartsAssume, SameSip, SP!HandleKeeps
<1>3. ServerKeeps' /\ Outcome' /\ (fault' = "none" \/ fault' = "OnRefer")
  BY <1>2, SameSip DEF ServerKeeps, Outcome, SP!IInv, SP!TypeOK, SP!OrNone, OrNone
<1>4. AppKeeps'
  BY DEF Programs, AppKeeps, ivrVars, AP!Tidy, AP!RxHasCall, AP!ReferReady, AP!NoOrphans,
     AP!CallHasMedia, AP!HasCall, AP!TearingDown
<1> QED BY <1>3, <1>4 DEF Programs

\* A step of the IVR.
LEMMA AppRuns ==
  ASSUME Programs, UNCHANGED serverVars,
         \/ \E m \in Datagram : App!Receive(m)
         \/ App!Announced \/ App!Redirected \/ App!Joined
         \/ \E c \in CallIds : App!ReaderStep(c) \/ App!ReadDTMF(c)
  PROVE  Programs' /\ (fault' = "none" \/ fault' \in AppFaults)
<1>1. fault = "none"
  BY DEF App!Receive, App!Announced, App!Redirected, App!Joined, App!ReaderStep, App!ReadDTMF,
     App!OnDTMFEvent, App!MakeRefer, App!ReplayGuide, App!InvalidChoose, App!InvalidChosen,
     App!RestoreGuide, App!Exit, App!Replays
<1>2. AP!IInv
  BY <1>1, ProgramsRun
<1>3. AP!IInv'
  <2>1. CASE \E m \in Datagram : App!Receive(m)
    BY <2>1, <1>2, AppReceives, PartsAssume, SameSip, AP!ReceiveKeeps
  <2>2. CASE App!Announced \/ App!Redirected \/ App!Joined
    BY <2>2, <1>2, AppWakes, PartsAssume, AP!AnnouncedKeeps, AP!RedirectedKeeps, AP!JoinedKeeps
  <2>3. CASE \E c \in CallIds : App!ReaderStep(c) \/ App!ReadDTMF(c)
    BY <2>3, <1>2, AppReads, PartsAssume, AP!ReaderKeeps
  <2> QED BY <2>1, <2>2, <2>3
<1>4. AppKeeps' /\ Outcome' /\ (fault' = "none" \/ fault' \in AppFaults)
  BY <1>3, SameSip DEF AppKeeps, Outcome, AP!IInv, AP!TypeOK, AP!OrNone, OrNone,
     AP!ReaderStates, App!ReaderStates, AP!Announcements, App!Announcements,
     AP!RxStates, App!RxStates, AppFaults
<1>5. ServerKeeps'
  BY DEF Programs, ServerKeeps, serverVars, SP!ReferNeedsDest, SP!MediaNeedsAnswer, SP!HasSession
<1> QED BY <1>4, <1>5 DEF Programs

\* What neither program does.
LEMMA ProgramsRest ==
  ASSUME Programs, UNCHANGED <<serverVars, ivrVars, fault>>, sent' \in Seq(Datagram)
  PROVE  Programs'
BY DEF Programs, ServerKeeps, AppKeeps, Outcome, serverVars, ivrVars, AP!Tidy, AP!RxHasCall,
   AP!ReferReady, AP!NoOrphans, AP!CallHasMedia, AP!HasCall, AP!TearingDown, SP!ReferNeedsDest,
   SP!MediaNeedsAnswer, SP!HasSession
-----------------------------------------------------------------------------
(***************************************************************************)
(* Queues.                                                                 *)
(***************************************************************************)
In(q) == {q[i] : i \in 1 .. Len(q)}

\* What is in a queue is of its type, ...
LEMMA InType ==
  ASSUME NEW S, NEW q \in Seq(S)
  PROVE  In(q) \subseteq S
BY DEF In

\* A sequence whose elements are in a set.
LEMMA SeqOfIn ==
  ASSUME NEW S, NEW T, NEW q \in Seq(S), In(q) \subseteq T
  PROVE  q \in Seq(T)
<1>1. \A i \in 1 .. Len(q) : q[i] \in T
  BY DEF In
<1> QED BY <1>1

\* ... nothing, ...
LEMMA InNone == In(<<>>) = {}
BY DEF In

\* ... one datagram, ...
LEMMA InOne ==
  ASSUME NEW m
  PROVE  In(<<m>>) = {m}
<1>1. Len(<<m>>) = 1 /\ <<m>>[1] = m
  OBVIOUS
<1> QED BY <1>1 DEF In

\* ... or two.
LEMMA InTwo ==
  ASSUME NEW m, NEW k
  PROVE  In(<<m, k>>) = {m, k}
<1>1. Len(<<m, k>>) = 2 /\ <<m, k>>[1] = m /\ <<m, k>>[2] = k
  OBVIOUS
<1> QED BY <1>1 DEF In

\* A queue is empty when its length is 0.
LEMMA LenNone ==
  ASSUME NEW S, NEW q \in Seq(S)
  PROVE  q = <<>> <=> Len(q) = 0
OBVIOUS

\* What is in a queue is its head or behind it.
LEMMA InTail ==
  ASSUME NEW S, NEW q \in Seq(S), q # <<>>
  PROVE  /\ Head(q) \in S /\ Tail(q) \in Seq(S)
         /\ In(q) = {Head(q)} \cup In(Tail(q))
         /\ Len(Tail(q)) = Len(q) - 1
<1>1. /\ Head(q) = q[1] /\ Head(q) \in S
      /\ Tail(q) \in Seq(S) /\ Len(Tail(q)) = Len(q) - 1
      /\ \A i \in 1 .. Len(Tail(q)) : Tail(q)[i] = q[i + 1]
      /\ Len(q) \in Nat /\ Len(q) >= 1
  OBVIOUS
<1>2. ASSUME NEW x \in In(q)
      PROVE  x \in {Head(q)} \cup In(Tail(q))
  <2>1. PICK i \in 1 .. Len(q) : x = q[i]
    BY DEF In
  <2>2. CASE i = 1
    BY <1>1, <2>1, <2>2
  <2>3. CASE i # 1
    <3>1. i - 1 \in 1 .. Len(Tail(q)) /\ Tail(q)[i - 1] = q[i]
      BY <1>1, <2>1, <2>3
    <3> QED BY <2>1, <3>1 DEF In
  <2> QED BY <2>2, <2>3
<1>3. ASSUME NEW x \in {Head(q)} \cup In(Tail(q))
      PROVE  x \in In(q)
  <2>1. CASE x = Head(q)
    BY <1>1, <2>1 DEF In
  <2>2. CASE x \in In(Tail(q))
    <3>1. PICK i \in 1 .. Len(Tail(q)) : x = Tail(q)[i]
      BY <2>2 DEF In
    <3>2. i + 1 \in 1 .. Len(q) /\ x = q[i + 1]
      BY <1>1, <3>1
    <3> QED BY <3>2 DEF In
  <2> QED BY <2>1, <2>2
<1> QED BY <1>1, <1>2, <1>3

\* What is in two queues put together.
LEMMA InConcat ==
  ASSUME NEW S, NEW q \in Seq(S), NEW r \in Seq(S)
  PROVE  /\ q \o r \in Seq(S)
         /\ Len(q \o r) = Len(q) + Len(r)
         /\ In(q \o r) = In(q) \cup In(r)
<1>1. /\ q \o r \in Seq(S) /\ Len(q \o r) = Len(q) + Len(r)
      /\ Len(q) \in Nat /\ Len(r) \in Nat
      /\ \A i \in 1 .. Len(q) : (q \o r)[i] = q[i]
      /\ \A i \in 1 .. Len(r) : (q \o r)[Len(q) + i] = r[i]
  OBVIOUS
<1>2. ASSUME NEW x \in In(q \o r)
      PROVE  x \in In(q) \cup In(r)
  <2>1. PICK i \in 1 .. Len(q) + Len(r) : x = (q \o r)[i]
    BY <1>1 DEF In
  <2>2. CASE i <= Len(q)
    BY <1>1, <2>1, <2>2 DEF In
  <2>3. CASE i > Len(q)
    <3>1. i - Len(q) \in 1 .. Len(r) /\ x = r[i - Len(q)]
      BY <1>1, <2>1, <2>3
    <3> QED BY <3>1 DEF In
  <2> QED BY <1>1, <2>1, <2>2, <2>3
<1>3. ASSUME NEW x \in In(q) \cup In(r)
      PROVE  x \in In(q \o r)
  <2>1. CASE x \in In(q)
    BY <1>1, <2>1 DEF In
  <2>2. CASE x \in In(r)
    <3>1. PICK i \in 1 .. Len(r) : x = r[i]
      BY <2>2 DEF In
    <3>2. Len(q) + i \in 1 .. Len(q \o r) /\ x = (q \o r)[Len(q) + i]
      BY <1>1, <3>1
    <3> QED BY <3>2 DEF In
  <2> QED BY <2>1, <2>2
<1> QED BY <1>1, <1>2, <1>3

\* What UDP delivers to n was on its way before, or is sent to n now.
LEMMA InDelivered ==
  ASSUME NEW link \in [Numbers -> Seq(Datagram)], sent' \in Seq(Datagram), NEW n \in Numbers
  PROVE  /\ Delivered(link) \in [Numbers -> Seq(Datagram)]
         /\ In(Delivered(link)[n]) \subseteq In(link[n]) \cup {m \in In(sent') : m.peer = n}
<1>1. ASSUME NEW k \in Numbers, NEW i \in {1, 2, 3}
      PROVE  Nth(i, k) \in Seq(Datagram) /\ In(Nth(i, k)) \subseteq {m \in In(sent') : m.peer = k}
  <2>1. CASE i <= Len(sent') /\ sent'[i].peer = k
    <3>1. i \in 1 .. Len(sent') /\ sent'[i] \in Datagram
      BY <2>1
    <3>2. Nth(i, k) = <<sent'[i]>> /\ In(Nth(i, k)) = {sent'[i]}
      BY <2>1, InOne DEF Nth
    <3>3. sent'[i] \in In(sent')
      BY <3>1 DEF In
    <3> QED BY <2>1, <3>1, <3>2, <3>3
  <2>2. CASE ~(i <= Len(sent') /\ sent'[i].peer = k)
    BY <2>2, InNone DEF Nth
  <2> QED BY <2>1, <2>2
<1>2. ASSUME NEW k \in Numbers
      PROVE  /\ Delivered(link)[k] \in Seq(Datagram)
             /\ In(Delivered(link)[k]) \subseteq In(link[k]) \cup {m \in In(sent') : m.peer = k}
  <2>1. Delivered(link)[k] = ((link[k] \o Nth(1, k)) \o Nth(2, k)) \o Nth(3, k)
    BY DEF Delivered
  <2> DEFINE a == link[k] \o Nth(1, k)
             b == a \o Nth(2, k)
  <2>2. a \in Seq(Datagram) /\ In(a) = In(link[k]) \cup In(Nth(1, k))
    BY <1>1, InConcat
  <2> HIDE DEF a
  <2>3. b \in Seq(Datagram) /\ In(b) = In(a) \cup In(Nth(2, k))
    BY <1>1, <2>2, InConcat, SMTT(30)
  <2> HIDE DEF b
  <2>4. /\ b \o Nth(3, k) \in Seq(Datagram)
        /\ In(b \o Nth(3, k)) = In(b) \cup In(Nth(3, k))
    BY <1>1, <2>3, InConcat, SMTT(30)
  <2>5. Delivered(link)[k] = b \o Nth(3, k)
    BY <2>1 DEF a, b
  <2> QED BY <1>1, <2>2, <2>3, <2>4, <2>5
<1>3. Delivered(link) = [k \in Numbers |-> Delivered(link)[k]]
  BY DEF Delivered
<1> QED BY <1>2, <1>3

\* A part of a queue.
LEMMA InSub ==
  ASSUME NEW S, NEW q \in Seq(S), NEW i \in 1 .. (Len(q) + 1), NEW k \in 0 .. Len(q), i <= k + 1
  PROVE  /\ SubSeq(q, i, k) \in Seq(S)
         /\ In(SubSeq(q, i, k)) \subseteq In(q)
         /\ Len(SubSeq(q, i, k)) = k - i + 1
<1>1. /\ SubSeq(q, i, k) \in Seq(S)
      /\ Len(SubSeq(q, i, k)) = k - i + 1
      /\ \A j \in 1 .. k - i + 1 : SubSeq(q, i, k)[j] = q[i + j - 1]
  OBVIOUS
<1>2. \A j \in 1 .. k - i + 1 : i + j - 1 \in 1 .. Len(q)
  OBVIOUS
<1> QED BY <1>1, <1>2 DEF In

\* The network takes, repeats and moves what is there.
LEMMA InDisturbed ==
  ASSUME NEW S, NEW q \in Seq(S), NEW r \in Disturbed(q)
  PROVE  r \in Seq(S) /\ In(r) \subseteq In(q) /\ Len(r) <= Len(q) + 1
<1>0. Len(q) \in Nat /\ DOMAIN q = 1 .. Len(q)
  OBVIOUS
<1>1. ASSUME NEW i \in DOMAIN q, r = RemoveAt(q, i)
      PROVE  r \in Seq(S) /\ In(r) \subseteq In(q) /\ Len(r) <= Len(q) + 1
  <2> DEFINE a == SubSeq(q, 1, i - 1)
             b == SubSeq(q, i + 1, Len(q))
  <2>1. a \in Seq(S) /\ In(a) \subseteq In(q) /\ Len(a) = i - 1
    BY <1>0, InSub
  <2>2. b \in Seq(S) /\ In(b) \subseteq In(q) /\ Len(b) = Len(q) - i
    BY <1>0, InSub
  <2>3. r = a \o b
    BY <1>1 DEF RemoveAt
  <2> HIDE DEF a, b
  <2>4. r \in Seq(S) /\ In(r) = In(a) \cup In(b) /\ Len(r) = Len(a) + Len(b)
    BY <2>1, <2>2, <2>3, InConcat, ZenonT(60)
  <2> QED BY <1>0, <2>1, <2>2, <2>4, SMTT(30)
<1>2. ASSUME NEW i \in DOMAIN q, r = InsertAt(q, i, q[i])
      PROVE  r \in Seq(S) /\ In(r) \subseteq In(q) /\ Len(r) <= Len(q) + 1
  <2> DEFINE a == SubSeq(q, 1, i - 1)
             b == <<q[i]>>
             d == SubSeq(q, i, Len(q))
  <2>1. a \in Seq(S) /\ In(a) \subseteq In(q) /\ Len(a) = i - 1
    BY <1>0, InSub
  <2>2. b \in Seq(S) /\ In(b) \subseteq In(q) /\ Len(b) = 1
    <3>1. In(b) = {q[i]}
      BY InOne
    <3> QED BY <1>0, <3>1 DEF In
  <2>3. d \in Seq(S) /\ In(d) \subseteq In(q) /\ Len(d) = Len(q) - i + 1
    BY <1>0, InSub
  <2>4. r = (a \o b) \o d
    BY <1>2 DEF InsertAt
  <2> HIDE DEF a, b, d
  <2>5. /\ a \o b \in Seq(S) /\ In(a \o b) = In(a) \cup In(b)
        /\ Len(a \o b) = Len(a) + Len(b)
    BY <2>1, <2>2, InConcat, ZenonT(60)
  <2> DEFINE e == a \o b
  <2>6. e \in Seq(S) /\ In(e) \subseteq In(q) /\ Len(e) = i
    BY <1>0, <2>1, <2>2, <2>5
  <2>7. r = e \o d
    BY <2>4
  <2> HIDE DEF e
  <2>8. r \in Seq(S) /\ In(r) = In(e) \cup In(d) /\ Len(r) = Len(e) + Len(d)
    BY <2>3, <2>6, <2>7, InConcat, ZenonT(60)
  <2> QED BY <1>0, <2>3, <2>6, <2>8
<1>3. ASSUME NEW i \in 1 .. (Len(q) - 1), r = [q EXCEPT ![i] = q[i + 1], ![i + 1] = q[i]]
      PROVE  r \in Seq(S) /\ In(r) \subseteq In(q) /\ Len(r) <= Len(q) + 1
  <2>1. /\ r \in Seq(S)
        /\ Len(r) = Len(q)
        /\ \A j \in 1 .. Len(r) : r[j] = IF j = i THEN q[i + 1] ELSE IF j = i + 1 THEN q[i] ELSE q[j]
    BY <1>0, <1>3
  <2>2. \A j \in 1 .. Len(r) : r[j] \in In(q)
    BY <1>0, <2>1 DEF In
  <2> QED BY <1>0, <2>1, <2>2 DEF In
<1> QED BY <1>1, <1>2, <1>3 DEF Disturbed
-----------------------------------------------------------------------------
(***************************************************************************)
(* Who takes part in a call: its caller, the IVR and the agents.           *)
(***************************************************************************)
Party(c) == {c, Ivr} \cup Agents

\* The datagrams of call c: from, to and over addresses of its parties.
Of(c) == {m \in Datagram : /\ m.callID = c
                           /\ m.from \in Party(c) /\ m.to \in Party(c) /\ m.peer \in Party(c)
                           /\ m.referTo \in OrNone(Party(c))}

Owned(c, s) ==
  /\ s.src \in Party(c)
  /\ s.dest \in OrNone(Party(c))
  /\ s.referedDest \in OrNone(Party(c))

OwnSession(c) == sessions[c] # None => Owned(c, sessions[c])

\* What a step sends is about call c, and no more than UDP delivers.
Speaks(c) == sent' \in Seq(Of(c)) /\ Len(sent') <= 3

\* The callers are no agents, and everybody is a number.
LEMMA PartyType ==
  ASSUME NEW c \in CallIds
  PROVE  /\ c \in Numbers /\ c \notin Agents /\ c # Ivr /\ c # None
         /\ Ivr \in Party(c) /\ c \in Party(c) /\ Agents \subseteq Party(c)
         /\ Party(c) \subseteq Numbers
         /\ None \notin Party(c)
BY SipAssumption, CallFlowAssumption DEF Party, Numbers

\* To say nothing, or up to three things.
LEMMA SpeaksNone ==
  ASSUME NEW c, sent' = <<>>
  PROVE  Speaks(c)
BY DEF Speaks

\* One datagram of the call, ...
LEMMA SpeaksOne ==
  ASSUME NEW c, NEW a \in Of(c), sent' = <<a>>
  PROVE  Speaks(c)
BY DEF Speaks

\* ... two, ...
LEMMA SpeaksTwo ==
  ASSUME NEW c, NEW a \in Of(c), NEW b \in Of(c), sent' = <<a, b>>
  PROVE  Speaks(c)
BY DEF Speaks

\* ... or three.
LEMMA SpeaksThree ==
  ASSUME NEW c, NEW a \in Of(c), NEW b \in Of(c), NEW d \in Of(c), sent' = <<a, b, d>>
  PROVE  Speaks(c)
BY DEF Speaks

\* A datagram made up for parties of the call is of the call.
LEMMA RequestOf ==
  ASSUME NEW c \in CallIds, NEW type \in Types, NEW cseq \in Methods,
         NEW from \in Party(c), NEW to \in Party(c), NEW peer \in Party(c)
  PROVE  Message(type, cseq, c, from, to, peer) \in Of(c)
BY PartyType DEF Message, Of, Datagram, OrNone

\* Its first line, CSeq, Contact and body do not matter.
LEMMA RewriteOf ==
  ASSUME NEW c \in CallIds, NEW m \in Of(c), NEW k \in Party(c)
  PROVE  /\ \A type \in Types : [m EXCEPT !.type = type] \in Of(c)
         /\ \A type \in Types, cseq \in Methods :
              [m EXCEPT !.type = type, !.cseq = cseq] \in Of(c)
         /\ [m EXCEPT !.from = k] \in Of(c)
         /\ [m EXCEPT !.to = k] \in Of(c)
         /\ [m EXCEPT !.peer = k] \in Of(c)
         /\ SetContact(m, k) \in Of(c)
         /\ Server!AckOf(m) \in Of(c)
<1> k \in Numbers /\ m \in Datagram
  BY PartyType DEF Of
<1>1. \A type \in Types : [m EXCEPT !.type = type] \in Of(c)
  BY DEF Of, Datagram
<1>2. \A type \in Types, cseq \in Methods : [m EXCEPT !.type = type, !.cseq = cseq] \in Of(c)
  BY DEF Of, Datagram
<1>3. [m EXCEPT !.from = k] \in Of(c) /\ [m EXCEPT !.to = k] \in Of(c)
  BY DEF Of, Datagram
<1>4. [m EXCEPT !.peer = k] \in Of(c)
  BY DEF Of, Datagram
<1>5. SetContact(m, k) \in Of(c)
  <2>1. [m EXCEPT !.contact = k] \in Of(c)
    BY DEF Of, Datagram, OrNone
  <2>2. "garbled" \in Types
    BY DEF Types
  <2> QED BY <1>1, <2>1, <2>2 DEF SetContact
<1>6. Server!AckOf(m) \in Of(c)
  <2>1. "ACK" \in Types /\ "ACK" \in Methods
    BY DEF Types, Methods
  <2> QED BY <1>2, <2>1 DEF Server!AckOf
<1> QED BY <1>1, <1>2, <1>3, <1>4, <1>5, <1>6

\* endHandle sends to a party, or back.
LEMMA RouteOf ==
  ASSUME NEW c \in CallIds, NEW m \in Of(c), NEW k \in Party(c)
  PROVE  Server!Route(k, m) \in Of(c)
<1>1. "404" \in Types
  BY DEF Types, Responses
<1>2. CASE k \in clients
  BY <1>2, RewriteOf DEF Server!Route, Server!EndHandle
<1>3. CASE k \notin clients
  <2>1. PICK type \in Types : Server!Route(k, m) = [m EXCEPT !.type = type]
    BY <1>1, <1>3 DEF Server!Route, Server!EndHandle, Of, Datagram
  <2> QED BY <2>1, RewriteOf, ZenonT(60)
<1> QED BY <1>2, <1>3

\* The parties that a session names.
LEMMA SessionOf ==
  ASSUME ServerKeeps, NEW c \in CallIds, OwnSession(c), sessions[c] # None
  PROVE  /\ sessions[c] \in Server!Session
         /\ sessions[c].src \in Party(c)
         /\ sessions[c].fromMedia \in Numbers
         /\ sessions[c].dest # None => sessions[c].dest \in Party(c)
         /\ sessions[c].referedDest # None =>
              sessions[c].dest \in Party(c) /\ sessions[c].referedDest \in Party(c)
<1>1. sessions[c] \in Server!Session
  BY DEF ServerKeeps, OrNone
<1>2. sessions[c].referedDest # None => sessions[c].dest # None
  BY DEF ServerKeeps, SP!ReferNeedsDest, SP!HasSession
<1>3. /\ sessions[c].src \in Party(c)
      /\ sessions[c].dest # None => sessions[c].dest \in Party(c)
      /\ sessions[c].referedDest # None => sessions[c].referedDest \in Party(c)
  BY DEF OwnSession, Owned, OrNone
<1>4. sessions[c].fromMedia \in Numbers
  BY <1>1 DEF Server!Session, Server!Numbers, Numbers
<1> QED BY <1>1, <1>2, <1>3, <1>4

\* The session that a handler leaves.
LEMMA PutOwned ==
  ASSUME ServerKeeps, NEW c \in CallIds, NEW t, Server!Put(c, t), t # None => Owned(c, t)
  PROVE  OwnSession(c)'
<1>1. sessions'[c] = t
  BY DEF Server!Put, ServerKeeps
<1> QED BY <1>1 DEF OwnSession, Owned

\* setCallState, endCall and no change.
LEMMA StateOwned ==
  ASSUME ServerKeeps, NEW c \in CallIds, OwnSession(c),
         \/ UNCHANGED sessions \/ Server!EndCall(c)
         \/ \E st : Server!SetCallState(c, st)
  PROVE  OwnSession(c)'
<1>1. CASE UNCHANGED sessions
  BY <1>1 DEF OwnSession, Owned
<1>2. CASE Server!EndCall(c)
  BY <1>2, PutOwned DEF Server!EndCall
<1>3. ASSUME NEW st, Server!SetCallState(c, st)
      PROVE  OwnSession(c)'
  <2>1. CASE sessions[c] # None
    <3>1. sessions[c] \in Server!Session /\ Owned(c, sessions[c])
      BY <2>1 DEF ServerKeeps, OrNone, OwnSession
    <3>2. sessions'[c] = [sessions[c] EXCEPT !.state = st]
      BY <1>3, <2>1 DEF Server!SetCallState, Server!HasSession, ServerKeeps
    <3> QED BY <3>1, <3>2 DEF OwnSession, Owned, Server!Session
  <2>2. CASE sessions[c] = None
    BY <1>3, <2>2 DEF Server!SetCallState, Server!HasSession, OwnSession
  <2> QED BY <2>1, <2>2
<1> QED BY <1>1, <1>2, <1>3
-----------------------------------------------------------------------------
(***************************************************************************)
(* What the server says is about the call it is asked about, and its       *)
(* session for the call names nobody else.                                 *)
(***************************************************************************)
Serves(c) == Speaks(c) /\ OwnSession(c)'

\* A handler that only passes on a datagram of the call.
LEMMA ForwardSpeaks ==
  ASSUME NEW c \in CallIds, NEW m \in Of(c), NEW k \in Party(c), Server!Forward(k, m)
  PROVE  Speaks(c)
BY RouteOf, SpeaksOne DEF Server!Forward

\* A handler that returns early.
LEMMA DropServes ==
  ASSUME ServerKeeps, NEW c \in CallIds, OwnSession(c), Server!Drop
  PROVE  Serves(c)
BY StateOwned, SpeaksNone DEF Server!Drop, Serves

\* The INVITE: a new session names its sender.
LEMMA OnInviteServes ==
  ASSUME ServerKeeps, NEW c \in CallIds, OwnSession(c), NEW m \in Of(c), Server!OnInvite(m)
  PROVE  Serves(c)
<1> m.callID = c /\ m.from \in Party(c) /\ m.to \in Party(c)
  BY DEF Of
<1>1. CASE Server!Drop
  BY <1>1, DropServes
<1>2. CASE /\ Server!Forward(m.from, SetContact([m EXCEPT !.type = "404"], m.from))
           /\ UNCHANGED sessions
  <2>1. SetContact([m EXCEPT !.type = "404"], m.from) \in Of(c)
    <3>1. "404" \in Types
      BY DEF Types, Responses
    <3> QED BY <3>1, RewriteOf
  <2> QED BY <1>2, <2>1, ForwardSpeaks, StateOwned DEF Serves
<1>3. CASE /\ Server!Emplace(m.callID, Server!NewSession(m))
           /\ Server!Forward(m.to, SetContact(m, m.from))
  <2>1. Speaks(c)
    BY <1>3, RewriteOf, ForwardSpeaks
  <2>2. Owned(c, Server!NewSession(m))
    BY DEF Owned, Server!NewSession, OrNone
  <2> QED BY <1>3, <2>1, <2>2, StateOwned, PutOwned DEF Server!Emplace, Serves
<1> QED BY <1>1, <1>2, <1>3 DEF Server!OnInvite, Server!SetContact, SetContact

\* Handlers that pass the datagram on, and at most set the state.
LEMMA PassingServes ==
  ASSUME ServerKeeps, NEW c \in CallIds, OwnSession(c), NEW m \in Of(c),
         \/ Server!OnTrying(m) \/ Server!OnRinging(m) \/ Server!OnCancel(m)
         \/ Server!OnReqTerminated(m) \/ Server!OnAck(m)
  PROVE  Serves(c)
<1> m.callID = c /\ m.from \in Party(c) /\ m.to \in Party(c)
  BY DEF Of
<1>1. CASE Server!OnTrying(m) \/ Server!OnRinging(m)
  BY <1>1, ForwardSpeaks, StateOwned DEF Server!OnTrying, Server!OnRinging, Serves
<1>2. CASE Server!OnCancel(m)
  BY <1>2, ForwardSpeaks, StateOwned DEF Server!OnCancel, Serves
<1>3. CASE Server!OnReqTerminated(m)
  BY <1>3, RewriteOf, ForwardSpeaks, StateOwned DEF Server!OnReqTerminated, Serves
<1>4. CASE Server!OnAck(m)
  BY <1>4, DropServes, ForwardSpeaks, StateOwned DEF Server!OnAck, Serves
<1> QED BY <1>1, <1>2, <1>3, <1>4

\* A failure: the caller's, or the agent's to the IVR and the ACK to the agent.
LEMMA FailedServes ==
  ASSUME ServerKeeps, NEW c \in CallIds, OwnSession(c), NEW m \in Of(c), NEW st,
         Server!Failed(m, st)
  PROVE  Serves(c)
<1> DEFINE s == sessions[c]
<1> m.callID = c /\ m.from \in Party(c)
  BY DEF Of
<1>1. CASE Server!Drop
  BY <1>1, DropServes
<1>2. CASE Server!SetCallState(c, st) /\ Server!Forward(m.from, m)
  BY <1>2, ForwardSpeaks, StateOwned DEF Serves
<1>3. CASE /\ s # None /\ s.referedDest # None
           /\ sent' = <<Server!Route(s.dest, m), Server!Route(s.referedDest, Server!AckOf(m))>>
           /\ Server!Put(c, [s EXCEPT !.referedDest = None])
  <2>1. s \in Server!Session /\ s.dest \in Party(c) /\ s.referedDest \in Party(c)
    BY <1>3, SessionOf
  <2>2. Speaks(c)
    BY <1>3, <2>1, RewriteOf, RouteOf, SpeaksTwo
  <2>3. Owned(c, [s EXCEPT !.referedDest = None])
    BY <1>3, <2>1 DEF OwnSession, Owned, OrNone, Server!Session
  <2> QED BY <1>3, <2>2, <2>3, PutOwned DEF Serves
<1> QED BY <1>1, <1>2, <1>3 DEF Server!Failed, Server!HasSession, Server!FailureTarget

\* The referral: the agent is the one that the REFER names.
LEMMA OnReferServes ==
  ASSUME ServerKeeps, NEW c \in CallIds, OwnSession(c), NEW m \in Of(c), Server!OnRefer(m)
  PROVE  Serves(c)
<1> DEFINE s == sessions[c]
           accepted == Message("202", "REFER", c, s.dest, s.src, s.src)
           ring == Request("INVITE", c, s.src, m.referTo, s.src)
           invite == [ring EXCEPT !.contact = s.src, !.sdp = s.fromMedia]
<1> m.callID = c /\ (m.referTo # None => m.referTo \in Party(c))
  BY DEF Of, OrNone
<1>1. CASE Server!Drop
  BY <1>1, DropServes
<1>2. CASE /\ s # None /\ s.dest # None
           /\ Server!Forward(s.dest, [m EXCEPT !.type = "480"]) /\ UNCHANGED sessions
  <2>1. "480" \in Types
    BY DEF Types, Responses
  <2> QED BY <1>2, <2>1, SessionOf, RewriteOf, ForwardSpeaks, StateOwned DEF Serves
<1>3. CASE /\ s # None /\ Server!ReferAllowed(s) /\ m.referTo \in clients
           /\ sent' = <<Server!Route(s.dest, accepted), Server!Route(m.referTo, invite)>>
           /\ Server!Put(c, [s EXCEPT !.referedDest = m.referTo])
  <2>1. /\ s \in Server!Session /\ s.dest \in Party(c) /\ s.src \in Party(c)
        /\ s.fromMedia \in Numbers /\ m.referTo \in Party(c)
    BY <1>3, SessionOf, SipAssumption DEF Server!ReferAllowed, Numbers, ServerKeeps
  <2>2. accepted \in Of(c) /\ ring \in Of(c)
    <3>1. /\ "202" \in Types /\ "REFER" \in Methods
          /\ "INVITE" \in Types /\ "INVITE" \in Methods
      BY DEF Types, Methods, Responses
    <3> QED BY <2>1, <3>1, RequestOf DEF Request
  <2>3. invite \in Of(c)
    <3>1. s.src \in Numbers /\ s.fromMedia \in OrNone(Numbers)
      BY <2>1, PartyType DEF OrNone
    <3> HIDE DEF ring
    <3> QED BY <2>2, <3>1, ZenonT(60) DEF Of, Datagram, OrNone
  <2>4. Speaks(c)
    BY <1>3, <2>1, <2>2, <2>3, RouteOf, SpeaksTwo
  <2>5. Owned(c, [s EXCEPT !.referedDest = m.referTo])
    BY <1>3, <2>1 DEF OwnSession, Owned, OrNone, Server!Session
  <2> QED BY <1>3, <2>4, <2>5, PutOwned DEF Serves
<1> QED BY <1>1, <1>2, <1>3
        DEF Server!OnRefer, Server!HasSession, Server!Request, Request, Server!Message, Message

\* The agent's answer: the caller is re-INVITEd.  The end of the referral: two
\* ACKs and a BYE.
LEMMA OnOkInviteServes ==
  ASSUME ServerKeeps, NEW c \in CallIds, OwnSession(c), NEW m \in Of(c),
         sessions[c] # None, Server!OnOkInvite(sessions[c], m)
  PROVE  Serves(c)
<1> DEFINE s == sessions[c]
<1> m.callID = c /\ m.from \in Party(c) /\ m.to \in Party(c) /\ m.sdp \in OrNone(Numbers)
  BY DEF Of, Datagram
<1>0. /\ s \in Server!Session /\ s.src \in Party(c)
      /\ s.referedDest # None => s.dest \in Party(c) /\ s.referedDest \in Party(c)
  BY SessionOf
<1>1. CASE Server!Drop
  BY <1>1, DropServes
<1>2. CASE Server!EndCall(c) /\ sent' = <<>>
  BY <1>2, StateOwned, SpeaksNone DEF Serves
<1>3. CASE Server!Answered(s, m)
  <2>1. Speaks(c)
    BY <1>3, RewriteOf, ForwardSpeaks DEF Server!Answered, Server!SetContact, SetContact
  <2>2. Owned(c, Server!Connected(s, m))
    BY <1>0 DEF OwnSession, Owned, OrNone, Server!Session, Server!Connected
  <2>3. Server!Put(c, Server!Connected(s, m))
    BY <1>3 DEF Server!Answered
  <2> QED BY <2>1, <2>2, <2>3, PutOwned DEF Serves
<1>4. CASE Server!AgentAnswered(s, m)
  <2> DEFINE ring == Message("INVITE", "INVITE", c, s.dest, s.src, s.src)
  <2>1. s.dest \in Party(c) /\ s.dest \in Numbers
    BY <1>0, <1>4, PartyType DEF Server!AgentAnswered, Server!Transfered
  <2>2. ring \in Of(c)
    BY <1>0, <2>1, RequestOf DEF Types, Methods
  <2>3. Server!Reinvite(s, m) = [ring EXCEPT !.contact = s.dest, !.sdp = m.sdp]
    BY DEF Server!Reinvite, Server!Request, Server!Message, Message
  <2> HIDE DEF ring
  <2>4. Server!Reinvite(s, m) \in Of(c)
    BY <2>1, <2>2, <2>3 DEF Of, Datagram, OrNone
  <2>5. Speaks(c)
    BY <1>0, <1>4, <2>4, ForwardSpeaks DEF Server!AgentAnswered
  <2>6. Owned(c, [s EXCEPT !.referedToMedia = m.sdp])
    BY <1>0 DEF OwnSession, Owned, OrNone, Server!Session
  <2>7. Server!Put(c, [s EXCEPT !.referedToMedia = m.sdp])
    BY <1>4 DEF Server!AgentAnswered
  <2> QED BY <2>5, <2>6, <2>7, PutOwned DEF Serves
<1>5. CASE Server!MediaUpdated(s, m)
  <2> DEFINE ack(from, to) == Message("ACK", "ACK", c, from, to, from)
             bye == Message("BYE", "BYE", c, s.src, s.dest, s.src)
  <2>1. s.dest \in Party(c) /\ s.referedDest \in Party(c)
    BY <1>0, <1>5 DEF Server!MediaUpdated, Server!UpdateMedia
  <2>2. ack(s.src, s.referedDest) \in Of(c) /\ ack(s.dest, s.src) \in Of(c) /\ bye \in Of(c)
    BY <1>0, <2>1, RequestOf DEF Types, Methods
  <2>3. Server!ByeToIvr(s, c) = bye /\ bye.to = s.dest
    BY DEF Server!ByeToIvr, Server!Request, Server!Message, Message
  <2>4. /\ Server!AckAgent(s, c) = [ack(s.src, s.referedDest) EXCEPT !.contact = s.src]
        /\ Server!AckClient(s, c) = [ack(s.dest, s.src) EXCEPT !.contact = s.dest]
    BY DEF Server!AckAgent, Server!AckClient, Server!Request, Server!Message, Message
  <2>5. s.src \in Numbers /\ s.dest \in Numbers
    BY <1>0, <2>1, PartyType
  <2> HIDE DEF ack, bye
  <2>6. Server!AckAgent(s, c) \in Of(c) /\ Server!AckClient(s, c) \in Of(c)
    BY <2>2, <2>4, <2>5, SMTT(30) DEF Of, Datagram, OrNone
  <2>7. Speaks(c)
    <3>1. /\ Server!Route(s.referedDest, Server!AckAgent(s, c)) \in Of(c)
          /\ Server!Route(s.src, Server!AckClient(s, c)) \in Of(c)
          /\ Server!Route(bye.to, bye) \in Of(c)
      BY <1>0, <2>1, <2>2, <2>3, <2>6, RouteOf
    <3>2. sent' = <<Server!Route(s.referedDest, Server!AckAgent(s, c)),
                    Server!Route(s.src, Server!AckClient(s, c)), Server!Route(bye.to, bye)>>
      BY <1>5, <2>3 DEF Server!MediaUpdated
    <3> QED BY <3>1, <3>2, SpeaksThree
  <2> QED BY <1>5, <2>7, StateOwned DEF Server!MediaUpdated, Serves
<1> QED BY <1>1, <1>2, <1>3, <1>4, <1>5 DEF Server!OnOkInvite

\* An answered BYE.
LEMMA OnOkByeServes ==
  ASSUME ServerKeeps, NEW c \in CallIds, OwnSession(c), NEW m \in Of(c),
         sessions[c] # None, Server!OnOkBye(sessions[c], m)
  PROVE  Serves(c)
<1> DEFINE s == sessions[c]
<1> m.callID = c /\ m.from \in Party(c)
  BY DEF Of
<1>0. /\ s.src \in Party(c)
      /\ s.referedDest # None => s.dest \in Party(c) /\ s.referedDest \in Party(c)
  BY SessionOf
<1>1. CASE Server!Drop
  BY <1>1, DropServes
<1>2. CASE /\ Server!EndCall(c)
           /\ \/ Server!Forward(m.from, m)
              \/ Server!Forward(s.src, m)
              \/ /\ s.referedDest # None
                 /\ \/ Server!Forward(s.referedDest, [m EXCEPT !.from = s.referedDest])
                    \/ Server!Forward(s.src, [m EXCEPT !.from = s.dest])
  BY <1>0, <1>2, RewriteOf, ForwardSpeaks, StateOwned DEF Serves
<1> QED BY <1>1, <1>2 DEF Server!OnOkBye

\* A 200 for either.
LEMMA OnOkServes ==
  ASSUME ServerKeeps, NEW c \in CallIds, OwnSession(c), NEW m \in Of(c), Server!OnOk(m)
  PROVE  Serves(c)
<1> m.callID = c /\ m.from \in Party(c)
  BY DEF Of
<1>1. CASE Server!Forward(m.from, m) /\ UNCHANGED sessions
  BY <1>1, ForwardSpeaks, StateOwned DEF Serves
<1> QED BY <1>1, DropServes, OnOkInviteServes, OnOkByeServes DEF Server!OnOk, Server!HasSession

\* A BYE: to both sides of the call, or to the caller.
LEMMA OnByeServes ==
  ASSUME ServerKeeps, NEW c \in CallIds, OwnSession(c), NEW m \in Of(c), Server!OnBye(m)
  PROVE  Serves(c)
<1> DEFINE s == sessions[c]
<1> m.callID = c /\ m.from \in Party(c) /\ m.to \in Party(c)
  BY DEF Of
<1>1. CASE Server!Drop
  BY <1>1, DropServes
<1>2. CASE s # None /\ Server!SetCallState(c, "Bye")
  <2>0. /\ s.src \in Party(c)
        /\ s.referedDest # None => s.dest \in Party(c) /\ s.referedDest \in Party(c)
    BY <1>2, SessionOf
  <2>1. CASE Server!Forward(m.to, m)
    BY <1>2, <2>1, ForwardSpeaks, StateOwned DEF Serves
  <2>2. CASE /\ s.referedDest # None
             /\ sent' = <<Server!Route(m.to, m), Server!Route(s.referedDest, Server!ByeForAgent(s, m))>>
    <3>1. [m EXCEPT !.to = s.referedDest] \in Of(c)
      BY <2>0, <2>2, RewriteOf
    <3>2. /\ Server!ByeForAgent(s, m) \in Of(c)
      <4>1. "CANCEL" \in Types /\ "CANCEL" \in Methods /\ "BYE" \in Types
        BY DEF Types, Methods
      <4>2. \/ Server!ByeForAgent(s, m) =
                 [[m EXCEPT !.to = s.referedDest] EXCEPT !.type = "CANCEL", !.cseq = "CANCEL"]
            \/ Server!ByeForAgent(s, m) = [[m EXCEPT !.to = s.referedDest] EXCEPT !.type = "BYE"]
        BY DEF Server!ByeForAgent, Of, Datagram
      <4> QED BY <3>1, <4>1, <4>2 DEF Of, Datagram
    <3> QED BY <1>2, <2>0, <2>2, <3>2, RouteOf, SpeaksTwo, StateOwned DEF Serves
  <2>3. CASE s.referedDest # None /\ Server!PassBye(s, m)
    <3>1. SetContact([m EXCEPT !.from = s.dest], s.dest) \in Of(c)
      BY <2>0, <2>3, RewriteOf
    <3> QED BY <1>2, <2>0, <2>3, <3>1, ForwardSpeaks, StateOwned
            DEF Server!PassBye, Server!SetContact, SetContact, Serves
  <2>4. CASE sent' = <<>>
    BY <1>2, <2>4, SpeaksNone, StateOwned DEF Serves
  <2> QED BY <1>2, <2>1, <2>2, <2>3, <2>4 DEF Server!OnBye, Server!HasSession
<1> QED BY <1>1, <1>2 DEF Server!OnBye, Server!HasSession

\* Whatever datagram of a call arrives (no phone registers), its handler speaks
\* of that call, and touches no other.
LEMMA HandleServes ==
  ASSUME Programs, NEW c \in CallIds, OwnSession(c), NEW m \in Of(c), m.type # "REGISTER",
         Server!Handle(m)
  PROVE  /\ Serves(c)
         /\ clients' = clients
         /\ \A d \in CallIds \ {c} : sessions'[d] = sessions[d]
<1> m \in Datagram /\ m.callID = c /\ ServerKeeps
  BY DEF Of, Programs
<1>1. Serves(c)
  <2>1. CASE Server!OnUnknown(m)
    BY <2>1, DropServes DEF Server!OnUnknown
  <2>2. CASE Server!OnBusy(m) \/ Server!OnUnavailable(m)
    BY <2>2, FailedServes DEF Server!OnBusy, Server!OnUnavailable
  <2> QED BY <2>1, <2>2, OnInviteServes, PassingServes, OnReferServes, OnOkServes, OnByeServes
          DEF Server!Handle, Server!OnRegister
<1>2. clients' = clients
  BY DEF Server!Handle, Server!OnRegister, Server!OnInvite, Server!OnTrying, Server!OnRinging,
     Server!OnCancel, Server!OnReqTerminated, Server!OnBusy, Server!OnUnavailable, Server!Failed,
     Server!OnRefer, Server!OnOk, Server!OnAck, Server!OnBye, Server!OnUnknown
<1>3. \A d \in CallIds \ {c} : sessions'[d] = sessions[d]
  <2>1. SP!SessionStep(m)
    BY ServerHandles, ProgramsRun, PartsAssume, SameSip, SP!HandleEffect
    DEF Server!Handle, SP!Effect
  <2> QED BY <2>1 DEF SP!SessionStep, ServerKeeps
<1> QED BY <1>1, <1>2, <1>3
-----------------------------------------------------------------------------
(***************************************************************************)
(* The same of the IVR: a step of its for one call speaks of that call,    *)
(* and keeps the REFER and the caller's number of every other.             *)
(***************************************************************************)
OwnCall(c) ==
  /\ calls[c] # None => calls[c].src \in Party(c)
  /\ pending[c] # None => pending[c] \in Of(c) /\ pending[c].type = "REFER"

\* What the IVR says.
Voice(c) == {m \in Of(c) : m.peer = Ivr /\ m.type \in {"200", "BYE", "REFER"}}

Answers(c) == sent' \in Seq(Voice(c)) /\ Len(sent') <= 3

OwnCalls == \A d \in CallIds : OwnCall(d)

\* A step for call c starts no other's reader, and takes up no other call.
Minds(c) ==
  /\ \A d \in CallIds \ {c} : reader[d] = "none" => reader'[d] = "none"
  /\ rx'.call \in {rx.call, c, None}

Attends(c) == Answers(c) /\ OwnCalls' /\ Minds(c)

\* A call session that exists is one.
LEMMA CallOf ==
  ASSUME AppKeeps, OwnCalls, NEW c \in CallIds, calls[c] # None
  PROVE  calls[c] \in App!CallSession /\ calls[c].src \in Party(c)
BY DEF AppKeeps, OrNone, OwnCalls, OwnCall

\* What becomes of the call sessions, ...
LEMMA SrcKept ==
  ASSUME AppKeeps, OwnCalls, NEW c \in CallIds,
         \/ UNCHANGED calls
         \/ calls[c] # None /\ \E st : App!SetState(c, st)
         \/ calls' = [calls EXCEPT ![c] = None]
         \/ \E m \in Of(c) : calls' = [calls EXCEPT ![c] = App!NewCall(m)],
         NEW d \in CallIds, calls'[d] # None
  PROVE  calls'[d].src \in Party(d)
<1>1. CASE calls'[d] = calls[d]
  BY <1>1, CallOf
<1>2. CASE d = c /\ calls[c] # None /\ \E st : App!SetState(c, st)
  <2>1. PICK st : calls'[c] = [calls[c] EXCEPT !.state = st]
    BY <1>2 DEF App!SetState, AppKeeps
  <2>2. calls[c] \in App!CallSession /\ calls[c].src \in Party(c)
    BY <1>2, CallOf
  <2> QED BY <1>2, <2>1, <2>2 DEF App!CallSession
<1>3. ASSUME NEW m \in Of(c), d = c, calls' = [calls EXCEPT ![c] = App!NewCall(m)]
      PROVE  calls'[d].src \in Party(d)
  BY <1>3 DEF App!NewCall, AppKeeps, Of
<1> QED BY <1>1, <1>2, <1>3 DEF App!SetState, AppKeeps

\* ... and of the REFERs of the readers.
LEMMA CallsKept ==
  ASSUME AppKeeps, OwnCalls, NEW c \in CallIds,
         \/ UNCHANGED calls
         \/ calls[c] # None /\ \E st : App!SetState(c, st)
         \/ calls' = [calls EXCEPT ![c] = None]
         \/ \E m \in Of(c) : calls' = [calls EXCEPT ![c] = App!NewCall(m)],
         \/ UNCHANGED pending
         \/ pending' = [pending EXCEPT ![c] = None]
         \/ \E m \in Of(c) : m.type = "REFER" /\ pending' = [pending EXCEPT ![c] = m]
  PROVE  OwnCalls'
<1>1. ASSUME NEW d \in CallIds, pending'[d] # None
      PROVE  pending'[d] \in Of(d) /\ pending'[d].type = "REFER"
  <2>1. CASE pending'[d] = pending[d]
    BY <1>1, <2>1 DEF OwnCalls, OwnCall
  <2>2. CASE d = c /\ \E m \in Of(c) : m.type = "REFER" /\ pending' = [pending EXCEPT ![c] = m]
    BY <2>2 DEF AppKeeps
  <2> QED BY <1>1, <2>1, <2>2 DEF AppKeeps
<1> QED BY <1>1, SrcKept DEF OwnCalls, OwnCall

\* Silence.
LEMMA AnswersNone ==
  ASSUME NEW c, sent' = <<>>
  PROVE  Answers(c)
BY DEF Answers

\* One datagram of the call, over the IVR's socket.
LEMMA AnswersOne ==
  ASSUME NEW c \in CallIds, NEW m \in Of(c), m.type \in {"200", "BYE", "REFER"}, App!Send(m)
  PROVE  Answers(c)
<1>1. [m EXCEPT !.peer = Ivr] \in Of(c)
  BY PartyType, RewriteOf
<1>2. [m EXCEPT !.peer = Ivr] \in Voice(c)
  BY <1>1 DEF Voice, Of, Datagram
<1> QED BY <1>2 DEF Answers, App!Send

\* Nothing, and a crash.
LEMMA StillAttends ==
  ASSUME AppKeeps, OwnCalls, NEW c \in CallIds, App!Ignore \/ \E at : App!Crash(at)
  PROVE  Attends(c)
BY CallsKept, AnswersNone DEF App!Ignore, App!Crash, Attends, Minds

\* The IVR takes an offer in: neither reader nor receiver is in the call yet.
LEMMA OnInviteAttends ==
  ASSUME AppKeeps, OwnCalls, NEW c \in CallIds, NEW m \in Of(c), App!OnInvite(m)
  PROVE  Attends(c) /\ (reader[c] = "none" => reader'[c] = "none") /\ rx'.call = rx.call
<1> m.callID = c
  BY DEF Of
<1>0. Minds(c) /\ (reader[c] = "none" => reader'[c] = "none") /\ rx'.call = rx.call
  BY DEF App!OnInvite, App!Crash, App!Ignore, App!Refused, App!MapChanges, Minds
<1>1. CASE App!Crash("OnInvite") \/ App!Ignore
  BY <1>0, <1>1, StillAttends
<1>2. CASE App!Refused(m)
  BY <1>0, <1>2, CallsKept, AnswersNone DEF App!Refused, Attends
<1>3. CASE /\ calls' = [calls EXCEPT ![c] = App!NewCall(m)]
           /\ App!Send([m EXCEPT !.type = "200", !.to = Ivr, !.contact = Ivr, !.sdp = Ivr])
           /\ UNCHANGED pending
  <2> DEFINE ok == [m EXCEPT !.type = "200", !.to = Ivr, !.contact = Ivr, !.sdp = Ivr]
  <2>1. ok \in Of(c) /\ ok.type = "200"
    BY PartyType DEF Of, Datagram, OrNone, Types, Responses
  <2>2. App!Send(ok)
    BY <1>3
  <2> HIDE DEF ok
  <2>3. Answers(c)
    BY <2>1, <2>2, AnswersOne
  <2> QED BY <1>0, <1>3, <2>3, CallsKept DEF Attends
<1> QED BY <1>1, <1>2, <1>3 DEF App!OnInvite

\* Announcements and referrals: the receiver turns to the call.
LEMMA SleepAttends ==
  ASSUME AppKeeps, OwnCalls, NEW c \in CallIds, NEW m \in Of(c),
         \/ App!OnAck(m) \/ App!OnBusy(m) \/ App!OnUnavailable(m) \/ App!OnReferAccepted(m)
  PROVE  Attends(c)
<1> m.callID = c
  BY DEF Of
<1>1. CASE App!Ignore \/ \E at : App!Crash(at)
  BY <1>1, StillAttends
<1>2. CASE /\ calls[c] # None
           /\ \E st : App!SetState(c, st)
           /\ sent' = <<>>
           /\ UNCHANGED pending
           /\ Minds(c)
  BY <1>2, CallsKept, AnswersNone DEF Attends
<1>3. CASE App!OnAck(m)
  BY <1>1, <1>2, <1>3 DEF App!OnAck, App!HasCall, AppKeeps, Minds
<1>4. CASE App!OnBusy(m) \/ App!OnUnavailable(m) \/ App!OnReferAccepted(m)
  BY <1>1, <1>2, <1>4 DEF App!OnBusy, App!OnUnavailable, App!OnReferAccepted, App!Announce,
     App!StartsReferring, App!Overwritten, App!HasCall, App!Busy, App!ReaderUnchanged, Minds
<1> QED BY <1>3, <1>4

\* A call of the IVR is ended.
LEMMA EndCallAttends ==
  ASSUME AppKeeps, OwnCalls, NEW c \in CallIds, NEW m \in Of(c),
         App!OnBye(m) \/ App!OnOk(m) \/ App!OnNothing(m)
  PROVE  Attends(c)
<1> m.callID = c
  BY DEF Of
<1>1. CASE App!Ignore
  BY <1>1, StillAttends
<1>2. CASE /\ App!Send([m EXCEPT !.type = "200"])
           /\ calls' = [calls EXCEPT ![c] = None]
           /\ App!MapChanges
           /\ App!StopReadDTMF(c)
           /\ UNCHANGED pending
  <2>1. [m EXCEPT !.type = "200"] \in Of(c) /\ [m EXCEPT !.type = "200"].type = "200"
    BY DEF Of, Datagram, Types, Responses
  <2>2. Minds(c)
    BY <1>2 DEF Minds, App!MapChanges, App!StopReadDTMF, App!Busy
  <2>3. Answers(c)
    BY <1>2, <2>1, AnswersOne
  <2> QED BY <1>2, <2>2, <2>3, CallsKept DEF Attends
<1> QED BY <1>1, <1>2 DEF App!OnBye, App!OnOk, App!OnNothing, App!EndCall

\* A datagram of the call, at the IVR's socket.
LEMMA ReceiveAttends ==
  ASSUME AppKeeps, OwnCalls, NEW c \in CallIds, NEW m \in Of(c), App!Receive(m)
  PROVE  Attends(c)
BY OnInviteAttends, SleepAttends, EndCallAttends DEF App!Receive

\* The rest of a handler speaks of the call it was for.
LEMMA WakeAttends ==
  ASSUME AppKeeps, OwnCalls, App!Announced \/ App!Redirected \/ App!Joined
  PROVE  rx.call \in CallIds /\ Attends(rx.call)
<1> DEFINE c == rx.call
<1>1. c \in CallIds /\ rx.at \in App!RxStates /\ (rx.at # "joining" => calls[c] # None)
  BY DEF AppKeeps, AP!Tidy, AP!RxHasCall, AP!HasCall, App!Announced, App!Redirected, App!Joined,
     OrNone
<1>2. CASE App!Announced
  <2>1. calls[c].src \in Party(c)
    BY <1>1, <1>2, CallOf DEF App!Announced
  <2> DEFINE bye == Message("BYE", "BYE", c, Ivr, calls[c].src, Ivr)
  <2>2. bye \in Of(c) /\ bye.type = "BYE"
    <3>1. bye \in Of(c)
      BY <1>1, <2>1, PartyType, RequestOf DEF Types, Methods
    <3> QED BY <3>1 DEF Message
  <2>3. App!Bye(c) = [bye EXCEPT !.contact = Ivr]
    BY DEF App!Bye, App!Request, App!Message, Message
  <2> HIDE DEF bye
  <2>4. App!Bye(c) \in Of(c) /\ App!Bye(c).type = "BYE"
    BY <1>1, <2>2, <2>3, PartyType DEF Of, Datagram, OrNone
  <2>5. Answers(c)
    BY <1>1, <1>2, <2>4, AnswersOne DEF App!Announced
  <2> QED BY <1>1, <1>2, <2>5, CallsKept
          DEF App!Announced, App!StopReadDTMF, App!Busy, Attends, Minds
<1>3. CASE App!Redirected
  BY <1>1, <1>3, CallsKept, AnswersNone, StillAttends
  DEF App!Redirected, App!Overwritten, App!Idle, App!ReaderUnchanged, Attends, Minds
<1>4. CASE App!Joined
  BY <1>1, <1>4, CallsKept, AnswersNone DEF App!Joined, App!Idle, Attends, Minds, AppKeeps
<1> QED BY <1>2, <1>3, <1>4, <1>1

\* A reader, which is no idle one, speaks of its call.
LEMMA ReadAttends ==
  ASSUME AppKeeps, OwnCalls, NEW c \in CallIds, App!ReaderStep(c) \/ App!ReadDTMF(c)
  PROVE  Attends(c) /\ reader[c] # "none" /\ rx'.call = rx.call
<1>0. Minds(c) /\ reader[c] # "none" /\ rx'.call = rx.call
  BY DEF App!ReaderStep, App!ReadDTMF, App!OnDTMFEvent, App!LookupFails, App!Choose, App!MakeRefer,
     App!ReplayGuide, App!InvalidChoose, App!InvalidChosen, App!RestoreGuide, App!Exit,
     App!Replays, App!Goto, App!Crash, AppKeeps, Minds
<1>1. CASE \E at : App!Crash(at)
  BY <1>0, <1>1, StillAttends
<1>2. CASE sent' = <<>> /\ UNCHANGED <<calls, pending>>
  BY <1>0, <1>2, CallsKept, AnswersNone DEF Attends
<1>3. CASE App!MakeRefer(c)
  <2>1. pending[c] # None
    BY <1>3, SameSip, NoSessionAssumption DEF App!MakeRefer, AppKeeps, AP!Tidy, AP!ReferReady
  <2>2. pending[c] \in Of(c) /\ pending[c].type = "REFER"
    BY <2>1 DEF OwnCalls, OwnCall
  <2>3. Answers(c)
    BY <1>3, <2>2, AnswersOne DEF App!MakeRefer
  <2> QED BY <1>0, <1>3, <2>3, CallsKept DEF App!MakeRefer, Attends
<1>4. ASSUME NEW a \in Agents, calls[c] # None, sent' = <<>>, UNCHANGED calls,
             pending' = [pending EXCEPT ![c] = App!Refer(c, a)]
      PROVE  Attends(c)
  <2>1. calls[c].src \in Party(c) /\ a \in Party(c) /\ a \in Numbers
    BY <1>4, CallOf, PartyType
  <2> DEFINE refer == Message("REFER", "REFER", c, Ivr, calls[c].src, Ivr)
  <2>2. refer \in Of(c) /\ refer.type = "REFER"
    <3>1. refer \in Of(c)
      BY <2>1, PartyType, RequestOf DEF Types, Methods
    <3> QED BY <3>1 DEF Message
  <2>3. App!Refer(c, a) = [refer EXCEPT !.contact = Ivr, !.referTo = a]
    BY DEF App!Refer, App!Request, App!Message, Message
  <2> HIDE DEF refer
  <2>4. App!Refer(c, a) \in Of(c) /\ App!Refer(c, a).type = "REFER"
    BY <2>1, <2>2, <2>3, PartyType, ZenonT(60) DEF Of, Datagram, OrNone
  <2> QED BY <1>0, <1>4, <2>4, CallsKept, AnswersNone DEF Attends
<1>5. CASE App!OnDTMFEvent(c)
  BY <1>1, <1>2, <1>4, <1>5
  DEF App!OnDTMFEvent, App!LookupFails, App!StillConnected, App!HasCall, App!Choose
<1> QED BY <1>0, <1>2, <1>3, <1>5
        DEF App!ReaderStep, App!ReadDTMF, App!ReplayGuide, App!InvalidChoose, App!InvalidChosen,
            App!RestoreGuide, App!Exit, App!Replays
-----------------------------------------------------------------------------
(***************************************************************************)
(* The phones and the network.                                             *)
(***************************************************************************)
\* The only INVITE that a phone sends.
Invitation(c) == [Own("INVITE", c, c, Ivr) EXCEPT !.sdp = c]

\* On their way to the server and from it: datagrams over the address of the
\* queue they are in, of the call they name.
Rising(n, m) ==
  /\ m.peer = n /\ m \in Of(m.callID)
  /\ m.type # "REGISTER"
  /\ m.type = "INVITE" => m = Invitation(n)

Falling(n, m) == m.peer = n /\ m \in Of(m.callID)

Up == /\ uplink \in [Numbers -> Seq(Datagram)]
      /\ \A n \in Numbers : \A m \in In(uplink[n]) : Rising(n, m)

Down == /\ downlink \in [Numbers -> Seq(Datagram)]
        /\ \A n \in Numbers : \A m \in In(downlink[n]) : Falling(n, m)

PhoneStates == AgentStates \cup CallerStates

Phones ==
  /\ phone \in [Users -> PhoneStates]
  /\ \A u \in Users : phone[u] \in IF u \in Agents THEN AgentStates ELSE CallerStates
  /\ rtp \in [Users -> OrNone(Numbers)]
  /\ dialog \in [Agents -> OrNone(CallIds)]
  /\ \A a \in Agents : phone[a] # "idle" => dialog[a] # None
  /\ digits \in 0 .. MaxDigits
  /\ trouble \in 0 .. MaxTrouble

\* Nobody in a phone's call, and nobody else, speaks of another call.
Utter(u, c) == {m \in Of(c) : m.peer = u /\ m.type \notin {"REGISTER", "INVITE"}}

Speaking(u, c) == \E ms \in Seq(Utter(u, c)) : uplink' = [uplink EXCEPT ![u] = @ \o ms]

Listening(u) ==
  \/ UNCHANGED downlink
  \/ downlink[u] # <<>> /\ downlink' = [downlink EXCEPT ![u] = Tail(@)]

\* A phone's step leaves the programs alone.
Apart == sent' = <<>> /\ UNCHANGED <<serverVars, ivrVars, fault, trouble, digits>>

\* So is a step of a phone that acts on its own, ...
LEMMA ActsApart ==
  ASSUME NEW u, NEW c, NEW ms \in Seq(Utter(u, c)), Acts(u, ms)
  PROVE  Speaking(u, c) /\ Listening(u) /\ Apart
BY DEF Acts, Sends, Speaking, Listening, Apart

\* ... of a phone that takes in a datagram.
LEMMA TakesApart ==
  ASSUME NEW u, NEW c, NEW ms \in Seq(Utter(u, c)), downlink[u] # <<>>, Takes(u, ms)
  PROVE  Speaking(u, c) /\ Listening(u) /\ Apart
BY DEF Takes, Sends, Speaking, Listening, Apart

\* Everybody in the call may make a request up, ...
LEMMA OwnUtter ==
  ASSUME NEW c \in CallIds, NEW u \in Party(c), NEW to \in Party(c), NEW method \in {"ACK", "BYE"}
  PROVE  Own(method, c, u, to) \in Utter(u, c)
<1> DEFINE x == Message(method, method, c, u, to, u)
<1>1. x \in Of(c) /\ x.type = method /\ x.peer = u
  <2>1. x \in Of(c)
    BY RequestOf DEF Types, Methods
  <2> QED BY <2>1 DEF Message
<1>2. Own(method, c, u, to) = [x EXCEPT !.contact = u]
  BY DEF Own, Request
<1>3. u \in Numbers
  BY PartyType
<1> HIDE DEF x
<1> QED BY <1>1, <1>2, <1>3 DEF Utter, Of, Datagram, OrNone

\* ... respond to an INVITE, ...
LEMMA ResponseUtter ==
  ASSUME NEW c \in CallIds, NEW a \in Agents, NEW type \in {"180", "200", "480", "486", "487"}
  PROVE  /\ Response(type, c, a) \in Utter(a, c)
         /\ [Response(type, c, a) EXCEPT !.sdp = a] \in Utter(a, c)
<1> DEFINE x == Message(type, "INVITE", c, c, a, a)
<1>0. a \in Party(c) /\ c \in Party(c) /\ a \in Numbers
  BY PartyType
<1>1. x \in Of(c) /\ x.type = type /\ x.peer = a
  <2>1. x \in Of(c)
    BY <1>0, RequestOf DEF Types, Methods, Responses
  <2> QED BY <2>1 DEF Message
<1>2. Response(type, c, a) = [x EXCEPT !.contact = a]
  BY DEF Response
<1> HIDE DEF x
<1> QED BY <1>0, <1>1, <1>2, ZenonT(60) DEF Utter, Of, Datagram, OrNone

\* ... or answer what it got.
LEMMA ReplyUtter ==
  ASSUME NEW c \in CallIds, NEW u \in Party(c), NEW m \in Of(c)
  PROVE  /\ Reply("200", u, m) \in Utter(u, c)
         /\ [Reply("200", u, m) EXCEPT !.sdp = u] \in Utter(u, c)
         /\ [m EXCEPT !.type = "ACK", !.cseq = "ACK", !.peer = u] \in Utter(u, c)
<1>1. u \in Numbers
  BY PartyType
<1>2. "200" \in Types /\ "ACK" \in Types /\ "ACK" \in Methods
  BY DEF Types, Methods, Responses
<1> QED BY <1>1, <1>2 DEF Reply, Utter, Of, Datagram, OrNone

\* What arrives at a caller's phone is of its call.
LEMMA OwnDownlink ==
  ASSUME Down, NEW n \in Numbers, downlink[n] # <<>>
  PROVE  /\ Head(downlink[n]) \in Of(Head(downlink[n]).callID)
         /\ Head(downlink[n]).callID \in CallIds
         /\ n \in CallIds => Head(downlink[n]).callID = n
<1>1. Head(downlink[n]) \in In(downlink[n])
  BY InTail DEF Down
<1>2. Falling(n, Head(downlink[n]))
  BY <1>1 DEF Down
<1>3. Head(downlink[n]).callID \in CallIds
  BY <1>2 DEF Falling, Of, Datagram
<1> QED BY <1>2, <1>3, PartyType DEF Falling, Of, Party

\* A caller's phone, unless it makes its call.
CallerActs(c) == Abandon(c) \/ CallerHangsUp(c) \/ CallerReceives(c)

\* What a phone may become.
Only(u) ==
  /\ phone' \in [Users -> PhoneStates]
  /\ phone'[u] \in IF u \in Agents THEN AgentStates ELSE CallerStates
  /\ rtp' \in [Users -> OrNone(Numbers)]
  /\ \A v \in Users \ {u} : phone'[v] = phone[v]

\* A phone that becomes something else, ...
LEMMA BecomesOnly ==
  ASSUME Phones, NEW u \in Users, NEW st, NEW to \in OrNone(Numbers), Becomes(u, st, to),
         st \in IF u \in Agents THEN AgentStates ELSE CallerStates
  PROVE  Only(u) /\ phone'[u] = st
<1>1. st \in PhoneStates
  BY DEF PhoneStates
<1> QED BY <1>1 DEF Phones, Becomes, Only

\* ... or stays what it is.
LEMMA SameOnly ==
  ASSUME Phones, NEW u \in Users, UNCHANGED <<phone, rtp>>
  PROVE  Only(u) /\ phone'[u] = phone[u]
BY DEF Phones, Only

\* A caller's phone speaks of its call only.
LEMMA CallerSpeaks ==
  ASSUME Phones, Down, NEW c \in CallIds, CallerActs(c)
  PROVE  Speaking(c, c) /\ Listening(c) /\ Apart
<1>0. c \in Party(c) /\ Ivr \in Party(c) /\ c \in Numbers
  BY PartyType
<1>1. <<>> \in Seq(Utter(c, c))
  OBVIOUS
<1>2. ASSUME NEW to \in Party(c)
      PROVE  Own("ACK", c, c, to) \in Utter(c, c) /\ Own("BYE", c, c, to) \in Utter(c, c)
  BY <1>0, OwnUtter
<1>3. CASE Abandon(c)
  BY <1>1, <1>3, ActsApart DEF Abandon
<1>4. CASE CallerHangsUp(c)
  <2>1. <<Own("BYE", c, c, Ivr)>> \in Seq(Utter(c, c))
    BY <1>0, <1>2
  <2> QED BY <1>4, <2>1, ActsApart DEF CallerHangsUp
<1>5. CASE CallerReceives(c)
  <2> DEFINE m == Head(downlink[c])
  <2>1. m \in Of(c) /\ m.to \in Party(c) /\ downlink[c] # <<>>
    BY <1>0, <1>5, OwnDownlink DEF CallerReceives, Of
  <2>2. /\ Reply("200", c, m) \in Utter(c, c)
        /\ [Reply("200", c, m) EXCEPT !.sdp = c] \in Utter(c, c)
        /\ [m EXCEPT !.type = "ACK", !.cseq = "ACK", !.peer = c] \in Utter(c, c)
    BY <1>0, <2>1, ReplyUtter
  <2>3. PICK ms \in Seq(Utter(c, c)) : Takes(c, ms)
    <3> HIDE DEF m
    <3>1. CASE CallerAnswered(c, m)
      <4>1. /\ <<Own("ACK", c, c, m.to)>> \in Seq(Utter(c, c))
            /\ <<Own("ACK", c, c, m.to), Own("BYE", c, c, Ivr)>> \in Seq(Utter(c, c))
        BY <1>0, <1>2, <2>1
      <4> QED BY <3>1, <4>1 DEF CallerAnswered
    <3>2. CASE CallerReinvited(c, m)
      <4>1. <<[Reply("200", c, m) EXCEPT !.sdp = c]>> \in Seq(Utter(c, c))
        BY <2>2
      <4> QED BY <1>1, <3>2, <4>1 DEF CallerReinvited
    <3>3. CASE CallerToldBye(c, m)
      <4>1. <<Reply("200", c, m)>> \in Seq(Utter(c, c))
        BY <2>2
      <4> QED BY <1>1, <3>3, <4>1 DEF CallerToldBye
    <3>4. CASE CallerToldTerminated(c, m)
      <4>1. <<[m EXCEPT !.type = "ACK", !.cseq = "ACK", !.peer = c]>> \in Seq(Utter(c, c))
        BY <2>2
      <4> QED BY <1>1, <3>4, <4>1 DEF CallerToldTerminated
    <3>5. CASE CallerByeAnswered(c, m) \/ CallerIgnores(c, m)
      BY <1>1, <3>5 DEF CallerByeAnswered, CallerIgnores
    <3> QED BY <1>5, <3>1, <3>2, <3>3, <3>4, <3>5 DEF CallerReceives, m
  <2> QED BY <2>1, <2>3, TakesApart
<1> QED BY <1>3, <1>4, <1>5 DEF CallerActs

\* It never gets back to where it has not called.
LEMMA CallerBecomes ==
  ASSUME Phones, Down, NEW c \in CallIds, CallerActs(c)
  PROVE  /\ Only(c) /\ UNCHANGED dialog
         /\ phone[c] # "idle" => phone'[c] # "idle"
<1>0. c \in Users /\ c \notin Agents /\ phone[c] \in CallerStates /\ rtp[c] \in OrNone(Numbers)
  BY CallFlowAssumption DEF Phones
<1>1. None \in OrNone(Numbers)
  BY DEF OrNone
<1>2. ASSUME NEW st \in CallerStates, NEW to \in OrNone(Numbers), Becomes(c, st, to)
      PROVE  Only(c) /\ phone'[c] = st
  BY <1>0, <1>2, BecomesOnly
<1>3. CASE Abandon(c) \/ CallerHangsUp(c)
  BY <1>1, <1>2, <1>3 DEF Abandon, CallerHangsUp, CallerStates
<1>4. CASE CallerReceives(c)
  <2> DEFINE m == Head(downlink[c])
  <2>1. m.sdp \in OrNone(Numbers)
    BY <1>4, OwnDownlink, PartyType DEF CallerReceives, Of, Datagram
  <2>2. \/ UNCHANGED <<phone, rtp>>
        \/ \E st \in CallerStates \ {"idle"}, to \in OrNone(Numbers) : Becomes(c, st, to)
        \/ Becomes(c, phone[c], rtp[c])
    <3> HIDE DEF m
    <3>1. CASE CallerAnswered(c, m) \/ CallerReinvited(c, m)
      BY <1>1, <2>1, <3>1 DEF CallerAnswered, CallerReinvited, CallerStates
    <3>2. CASE CallerToldBye(c, m)
      BY <1>1, <3>2 DEF CallerToldBye, CallerStates
    <3>3. CASE CallerByeAnswered(c, m)
      <4>1. Becomes(c, "done", rtp[c]) \/ Becomes(c, phone[c], rtp[c])
        BY <3>3 DEF CallerByeAnswered
      <4> QED BY <1>0, <4>1 DEF CallerStates
    <3>4. CASE CallerToldTerminated(c, m) \/ CallerIgnores(c, m)
      BY <3>4 DEF CallerToldTerminated, CallerIgnores
    <3> QED BY <1>4, <3>1, <3>2, <3>3, <3>4 DEF CallerReceives, m
  <2>3. UNCHANGED dialog
    BY <1>4 DEF CallerReceives
  <2> QED BY <1>0, <1>2, <2>2, <2>3, SameOnly
<1> QED BY <1>3, <1>4 DEF CallerActs

\* An agent's phone: it speaks of the call k it is in, or is asked about, and
\* is in no other afterwards.
AgentActs(a) == AgentAnswers(a) \/ AgentRejects(a) \/ AgentHangsUp(a) \/ AgentReceives(a)

About(a, k) == k = dialog[a] \/ (downlink[a] # <<>> /\ k = Head(downlink[a]).callID)

Engaging(a, k) ==
  /\ dialog' \in [Agents -> OrNone(CallIds)]
  /\ \A b \in Agents \ {a} : dialog'[b] = dialog[b]
  /\ dialog'[a] \in {dialog[a], None, k}
  /\ phone'[a] # "idle" => dialog'[a] # None

Rests(a, k) == Only(a) /\ Engaging(a, k)

\* An agent's phone that stays as it is.
LEMMA SameRests ==
  ASSUME Phones, NEW a \in Agents, NEW k, UNCHANGED phoneVars
  PROVE  Rests(a, k)
BY CallFlowAssumption, SameOnly DEF phoneVars, Phones, Rests, Engaging

\* It changes what it is doing, within its call or out of it.
LEMMA BecomesRests ==
  ASSUME Phones, NEW a \in Agents, NEW k \in CallIds, NEW st \in AgentStates,
         NEW to \in OrNone(Numbers), Becomes(a, st, to),
         \/ UNCHANGED dialog /\ (phone[a] # "idle" \/ st = "idle")
         \/ Engages(a, k)
         \/ Engages(a, None) /\ st = "idle"
  PROVE  Rests(a, k)
<1>0. a \in Users /\ k # None
  BY CallFlowAssumption, PartyType
<1>1. Only(a) /\ phone'[a] = st
  BY <1>0, BecomesOnly
<1>2. Engaging(a, k)
  BY <1>0, <1>1 DEF Phones, Engaging, Engages, OrNone
<1> QED BY <1>1, <1>2 DEF Rests

\* What an agent does is for one call: its own, or the one it is asked about.
LEMMA AgentSpeaks ==
  ASSUME Phones, Down, NEW a \in Agents, AgentActs(a)
  PROVE  \E k \in CallIds : About(a, k) /\ Speaking(a, k) /\ Listening(a) /\ Apart /\ Rests(a, k)
<1>0. /\ a \in Users /\ a \in Numbers /\ a \notin CallIds
      /\ phone[a] \in AgentStates /\ rtp[a] \in OrNone(Numbers)
      /\ None \in OrNone(Numbers) /\ "idle" \in AgentStates
      /\ phone[a] # "idle" => dialog[a] \in CallIds
  BY CallFlowAssumption DEF Phones, Numbers, OrNone, AgentStates
<1>1. ASSUME NEW k \in CallIds
      PROVE  /\ a \in Party(k) /\ k \in Party(k)
             /\ <<>> \in Seq(Utter(a, k))
             /\ \A type \in {"180", "200", "480", "486", "487"} :
                  /\ <<Response(type, k, a)>> \in Seq(Utter(a, k))
                  /\ <<[Response(type, k, a) EXCEPT !.sdp = a]>> \in Seq(Utter(a, k))
             /\ <<Own("BYE", k, a, k)>> \in Seq(Utter(a, k))
  <2>1. a \in Party(k) /\ k \in Party(k)
    BY PartyType
  <2>2. ASSUME NEW type \in {"180", "200", "480", "486", "487"}
        PROVE  /\ <<Response(type, k, a)>> \in Seq(Utter(a, k))
               /\ <<[Response(type, k, a) EXCEPT !.sdp = a]>> \in Seq(Utter(a, k))
    <3>1. /\ Response(type, k, a) \in Utter(a, k)
          /\ [Response(type, k, a) EXCEPT !.sdp = a] \in Utter(a, k)
      BY ResponseUtter
    <3> QED BY <3>1
  <2>3. <<Own("BYE", k, a, k)>> \in Seq(Utter(a, k))
    <3>1. Own("BYE", k, a, k) \in Utter(a, k)
      BY <2>1, OwnUtter
    <3> QED BY <3>1
  <2> QED BY <2>1, <2>2, <2>3
<1>2. CASE AgentAnswers(a)
  <2>1. dialog[a] \in CallIds /\ phone[a] # "idle"
    BY <1>0, <1>2 DEF AgentAnswers
  <2>2. Speaking(a, dialog[a]) /\ Listening(a) /\ Apart
    BY <1>1, <1>2, <2>1, ActsApart DEF AgentAnswers
  <2>3. Rests(a, dialog[a])
    BY <1>0, <1>2, <2>1, BecomesRests DEF AgentAnswers, AgentStates
  <2> QED BY <2>1, <2>2, <2>3 DEF About
<1>3. CASE AgentRejects(a)
  <2>1. dialog[a] \in CallIds
    BY <1>0, <1>3 DEF AgentRejects
  <2>2. Speaking(a, dialog[a]) /\ Listening(a) /\ Apart
    BY <1>1, <1>3, <2>1, ActsApart DEF AgentRejects
  <2>3. Rests(a, dialog[a])
    BY <1>0, <1>3, <2>1, BecomesRests DEF AgentRejects
  <2> QED BY <2>1, <2>2, <2>3 DEF About
<1>4. CASE AgentHangsUp(a)
  <2>1. dialog[a] \in CallIds /\ phone[a] # "idle"
    BY <1>0, <1>4 DEF AgentHangsUp
  <2>2. <<Own("BYE", dialog[a], a, dialog[a])>> \in Seq(Utter(a, dialog[a]))
    BY <1>1, <2>1
  <2>3. Speaking(a, dialog[a]) /\ Listening(a) /\ Apart
    BY <1>4, <2>2, ActsApart DEF AgentHangsUp
  <2>4. Rests(a, dialog[a])
    BY <1>0, <1>4, <2>1, BecomesRests DEF AgentHangsUp, AgentStates
  <2> QED BY <2>1, <2>3, <2>4 DEF About
<1>5. CASE AgentReceives(a)
  <2> DEFINE m == Head(downlink[a])
             k == m.callID
  <2>1. m \in Of(k) /\ k \in CallIds /\ downlink[a] # <<>> /\ m.sdp \in OrNone(Numbers)
    BY <1>0, <1>5, OwnDownlink DEF AgentReceives, Of, Datagram
  <2>2. Reply("200", a, m) \in Utter(a, k)
    BY <1>1, <2>1, ReplyUtter
  <2>3. About(a, k)
    BY <2>1 DEF About
  <2>4. (\E ms \in Seq(Utter(a, k)) : Takes(a, ms)) /\ Rests(a, k)
    <3>0. \/ AgentInvited(a, m) \/ AgentCancelled(a, m) \/ AgentAcknowledged(a, m)
          \/ AgentToldBye(a, m) \/ AgentByeAnswered(a, m) \/ AgentIgnores(a, m)
      BY <1>5 DEF AgentReceives
    <3>5. m.callID = k
      OBVIOUS
    <3> HIDE DEF m, k
    <3>1. CASE AgentInvited(a, m)
      <4>1. CASE phone[a] = "idle"
        <5>1. /\ Becomes(a, "ringing", m.sdp) /\ Engages(a, k)
              /\ Takes(a, <<Response("180", k, a)>>)
          BY <3>1, <3>5, <4>1 DEF AgentInvited
        <5> QED BY <1>1, <2>1, <5>1, BecomesRests DEF AgentStates
      <4>2. CASE phone[a] # "idle"
        <5>1. /\ Takes(a, <<>>) \/ Takes(a, <<Response("486", k, a)>>)
              /\ UNCHANGED phoneVars
          BY <3>1, <3>5, <4>2 DEF AgentInvited, phoneVars
        <5> QED BY <1>1, <2>1, <5>1, SameRests
      <4> QED BY <4>1, <4>2
    <3>2. CASE AgentCancelled(a, m)
      <4>1. <<Reply("200", a, m), Response("487", k, a)>> \in Seq(Utter(a, k))
        <5>1. Response("487", k, a) \in Utter(a, k)
          BY <2>1, ResponseUtter
        <5> QED BY <2>2, <5>1
      <4>2. Rests(a, k)
        BY <1>0, <2>1, <3>2, BecomesRests DEF AgentCancelled
      <4> QED BY <3>2, <3>5, <4>1, <4>2 DEF AgentCancelled
    <3>3. CASE AgentToldBye(a, m) \/ AgentByeAnswered(a, m)
      <4>1. <<Reply("200", a, m)>> \in Seq(Utter(a, k))
        BY <2>2
      <4>2. Rests(a, k)
        BY <1>0, <2>1, <3>3, BecomesRests DEF AgentToldBye, AgentByeAnswered
      <4> QED BY <1>1, <2>1, <3>3, <4>1, <4>2 DEF AgentToldBye, AgentByeAnswered
    <3>4. CASE AgentAcknowledged(a, m)
      <4>1. Rests(a, k)
        BY <1>0, <2>1, <3>4, BecomesRests DEF AgentAcknowledged, AgentStates
      <4> QED BY <1>1, <2>1, <3>4, <4>1 DEF AgentAcknowledged
    <3>6. CASE AgentIgnores(a, m)
      BY <1>1, <2>1, <3>6, SameRests DEF AgentIgnores
    <3> QED BY <3>0, <3>1, <3>2, <3>3, <3>4, <3>6
  <2>5. Speaking(a, k) /\ Listening(a) /\ Apart
    BY <2>1, <2>4, TakesApart
  <2> QED BY <2>1, <2>3, <2>4, <2>5
<1> QED BY <1>2, <1>3, <1>4, <1>5 DEF AgentActs
-----------------------------------------------------------------------------
(***************************************************************************)
(* The invariant of the composition, and what each of its steps does.      *)
(***************************************************************************)
Known == Callers \cup {Ivr} \subseteq clients

OwnSessions == \A c \in CallIds : OwnSession(c)

Kept == /\ Programs /\ Known /\ OwnSessions /\ OwnCalls
        /\ Up /\ Down /\ Phones
        /\ Len(sent) <= 3

\* What is taken off a queue.
LEMMA TailLink ==
  ASSUME NEW link \in [Numbers -> Seq(Datagram)], NEW n \in Numbers, link[n] # <<>>
  PROVE  /\ [link EXCEPT ![n] = Tail(@)] \in [Numbers -> Seq(Datagram)]
         /\ \A k \in Numbers : In([link EXCEPT ![n] = Tail(@)][k]) \subseteq In(link[k])
         /\ Head(link[n]) \in In(link[n])
<1>1. Tail(link[n]) \in Seq(Datagram) /\ In(link[n]) = {Head(link[n])} \cup In(Tail(link[n]))
  BY InTail
<1> QED BY <1>1

\* What is put at a queue's end.
LEMMA PutLink ==
  ASSUME NEW link \in [Numbers -> Seq(Datagram)], NEW n \in Numbers,
         NEW S \in SUBSET Datagram, NEW ms \in Seq(S)
  PROVE  /\ [link EXCEPT ![n] = @ \o ms] \in [Numbers -> Seq(Datagram)]
         /\ In([link EXCEPT ![n] = @ \o ms][n]) \subseteq In(link[n]) \cup S
<1>1. ms \in Seq(Datagram) /\ In(ms) \subseteq S
  BY InType
<1>2. link[n] \o ms \in Seq(Datagram) /\ In(link[n] \o ms) = In(link[n]) \cup In(ms)
  BY <1>1, InConcat
<1> QED BY <1>1, <1>2

\* A phone that speaks of call k and listens.
LEMMA PhoneLinks ==
  ASSUME Up, Down, NEW u \in Numbers, NEW k \in CallIds, Speaking(u, k), Listening(u)
  PROVE  /\ Up' /\ Down'
         /\ \A n \in Numbers \ {u} : uplink'[n] = uplink[n]
         /\ In(uplink'[u]) \subseteq In(uplink[u]) \cup Utter(u, k)
         /\ \A n \in Numbers : In(downlink'[n]) \subseteq In(downlink[n])
<1>0. /\ uplink \in [Numbers -> Seq(Datagram)] /\ downlink \in [Numbers -> Seq(Datagram)]
      /\ \A n \in Numbers : \A m \in In(uplink[n]) : Rising(n, m)
      /\ \A n \in Numbers : \A m \in In(downlink[n]) : Falling(n, m)
  BY DEF Up, Down
<1>1. PICK ms \in Seq(Utter(u, k)) : uplink' = [uplink EXCEPT ![u] = @ \o ms]
  BY DEF Speaking
<1>2. Utter(u, k) \subseteq Datagram
  BY DEF Utter, Of
<1>3. /\ uplink' \in [Numbers -> Seq(Datagram)]
      /\ In(uplink'[u]) \subseteq In(uplink[u]) \cup Utter(u, k)
  BY <1>0, <1>1, <1>2, PutLink
<1>4. \A n \in Numbers \ {u} : uplink'[n] = uplink[n]
  BY <1>0, <1>1
<1>5. \A m \in Utter(u, k) : Rising(u, m)
  BY DEF Utter, Rising, Of
<1>6. \A n \in Numbers : \A m \in In(uplink'[n]) : Rising(n, m)
  BY <1>0, <1>3, <1>4, <1>5
<1>7. /\ downlink' \in [Numbers -> Seq(Datagram)]
      /\ \A n \in Numbers : In(downlink'[n]) \subseteq In(downlink[n])
  <2>1. CASE UNCHANGED downlink
    BY <1>0, <2>1
  <2>2. CASE downlink[u] # <<>> /\ downlink' = [downlink EXCEPT ![u] = Tail(@)]
    BY <1>0, <2>2, TailLink
  <2> QED BY <2>1, <2>2 DEF Listening
<1>8. \A n \in Numbers : \A m \in In(downlink'[n]) : Falling(n, m)
  BY <1>0, <1>7
<1> QED BY <1>3, <1>4, <1>6, <1>7, <1>8 DEF Up, Down, Rising, Falling

\* The server's step on a datagram of call c.
ServerDoes(n, m, c) ==
  /\ m = Head(uplink[n]) /\ m \in Of(c) /\ Rising(n, m)
  /\ uplink[n] # <<>> /\ Server!Handle(m) /\ Serves(c)
  /\ clients' = clients
  /\ \A d \in CallIds \ {c} : sessions'[d] = sessions[d]
  /\ uplink' = [uplink EXCEPT ![n] = Tail(@)]
  /\ \A k \in Numbers : In(downlink'[k]) \subseteq
                          In(downlink[k]) \cup {x \in In(sent') : x \in Of(c) /\ x.peer = k}
  /\ UNCHANGED <<ivrVars, phoneVars, trouble, digits>>

\* The server serves the call of the datagram it takes in.
LEMMA ServerStepDoes ==
  ASSUME Kept, NEW n \in Numbers, ServerStep(n)
  PROVE  Kept' /\ \E m \in Datagram, c \in CallIds : ServerDoes(n, m, c)
<1>m. PICK m \in {Head(uplink[n])} : TRUE
  OBVIOUS
<1>c. PICK c \in {m.callID} : TRUE
  OBVIOUS
<1>0. /\ uplink \in [Numbers -> Seq(Datagram)] /\ downlink \in [Numbers -> Seq(Datagram)]
      /\ \A k \in Numbers : \A x \in In(uplink[k]) : Rising(k, x)
      /\ \A k \in Numbers : \A x \in In(downlink[k]) : Falling(k, x)
  BY DEF Kept, Up, Down
<1>1. /\ m = Head(uplink[n]) /\ uplink[n] # <<>> /\ Server!Handle(m) /\ uplink' = [uplink EXCEPT ![n] = Tail(@)]
      /\ downlink' = Delivered(downlink)
      /\ UNCHANGED <<ivrVars, phoneVars, trouble, digits>>
  BY <1>m DEF ServerStep
<1>2. /\ uplink' \in [Numbers -> Seq(Datagram)]
      /\ \A k \in Numbers : In(uplink'[k]) \subseteq In(uplink[k])
      /\ m \in In(uplink[n])
  BY <1>0, <1>1, TailLink
<1>3. Rising(n, m)
  BY <1>0, <1>2
<1>4. m.callID = c /\ m \in Of(c) /\ c \in CallIds /\ m.type # "REGISTER" /\ m \in Datagram
  BY <1>3, <1>c DEF Rising, Of, Datagram
<1>5. /\ Serves(c) /\ clients' = clients
      /\ \A d \in CallIds \ {c} : sessions'[d] = sessions[d]
  BY <1>1, <1>4, HandleServes DEF Kept, OwnSessions
<1>6. Programs'
  BY <1>1, <1>4, ServerRuns DEF Kept
<1>7. sent' \in Seq(Datagram) /\ In(sent') \subseteq Of(c) /\ Len(sent') <= 3
  BY <1>5, <1>6, InType DEF Serves, Speaks, Programs, Outcome
<1>8. /\ downlink' \in [Numbers -> Seq(Datagram)]
      /\ \A k \in Numbers : In(downlink'[k]) \subseteq
                              In(downlink[k]) \cup {x \in In(sent') : x \in Of(c) /\ x.peer = k}
  BY <1>0, <1>1, <1>7, InDelivered
<1>9. ServerDoes(n, m, c)
  BY <1>1, <1>3, <1>4, <1>5, <1>8 DEF ServerDoes
<1>10. Up'
  BY <1>0, <1>2 DEF Up, Rising
<1>11. Down'
  <2>1. \A x \in Of(c), k \in Numbers : x.peer = k => Falling(k, x)
    BY DEF Falling, Of
  <2>2. \A k \in Numbers : \A x \in In(downlink'[k]) : Falling(k, x)
    BY <1>0, <1>8, <2>1
  <2> QED BY <1>8, <2>2 DEF Down, Falling
<1>12. OwnSessions'
  <2>1. OwnSession(c)'
    BY <1>5 DEF Serves
  <2>2. ASSUME NEW d \in CallIds \ {c}
        PROVE  OwnSession(d)'
    BY <1>5 DEF Kept, OwnSessions, OwnSession
  <2> QED BY <2>1, <2>2 DEF OwnSessions
<1>13. OwnCalls' /\ Phones'
  BY <1>1 DEF Kept, OwnCalls, OwnCall, Phones, ivrVars, phoneVars
<1>14. Known'
  BY <1>5 DEF Kept, Known
<1>15. Kept'
  BY <1>6, <1>7, <1>10, <1>11, <1>12, <1>13, <1>14 DEF Kept
<1> QED BY <1>4, <1>9, <1>15

\* A step of the IVR for call c.
IvrDoes(c) ==
  /\ Attends(c)
  /\ \A k \in Numbers \ {Ivr} : uplink'[k] = uplink[k]
  /\ In(uplink'[Ivr]) \subseteq In(uplink[Ivr]) \cup In(sent')
  /\ \A k \in Numbers : In(downlink'[k]) \subseteq In(downlink[k])
  /\ UNCHANGED <<serverVars, phoneVars, trouble>>

\* It goes to the uplink of the IVR only.
LEMMA IvrSpeaks ==
  ASSUME Up, NEW c \in CallIds, Answers(c), uplink' = Delivered(uplink)
  PROVE  /\ Up'
         /\ \A k \in Numbers \ {Ivr} : uplink'[k] = uplink[k]
         /\ In(uplink'[Ivr]) \subseteq In(uplink[Ivr]) \cup In(sent')
         /\ Len(sent') <= 3
<1>0. /\ uplink \in [Numbers -> Seq(Datagram)]
      /\ \A k \in Numbers : \A x \in In(uplink[k]) : Rising(k, x)
  BY DEF Up
<1>1. sent' \in Seq(Voice(c)) /\ sent' \in Seq(Datagram) /\ In(sent') \subseteq Voice(c)
      /\ Len(sent') <= 3
  <2>1. Voice(c) \subseteq Datagram
    BY DEF Voice, Of
  <2> QED BY <2>1, InType DEF Answers
<1>5. Ivr \in Numbers
  BY DEF Numbers
<1>2. /\ uplink' \in [Numbers -> Seq(Datagram)]
      /\ \A k \in Numbers : In(uplink'[k]) \subseteq In(uplink[k]) \cup {x \in In(sent') : x.peer = k}
  <2>1. ASSUME NEW k \in Numbers
        PROVE  /\ Delivered(uplink) \in [Numbers -> Seq(Datagram)]
               /\ In(Delivered(uplink)[k]) \subseteq In(uplink[k]) \cup {x \in In(sent') : x.peer = k}
    BY <1>0, <1>1, InDelivered
  <2> QED BY <2>1, <1>5
<1>3. ASSUME NEW k \in Numbers \ {Ivr}
      PROVE  uplink'[k] = uplink[k]
  <2>1. ASSUME NEW i \in {1, 2, 3}
        PROVE  Nth(i, k) = <<>>
    <3>1. i <= Len(sent') => sent'[i] \in Voice(c)
      BY <1>1
    <3> QED BY <3>1 DEF Nth, Voice
  <2>2. uplink'[k] = ((uplink[k] \o <<>>) \o <<>>) \o <<>>
    BY <2>1 DEF Delivered
  <2> QED BY <1>0, <2>2
<1>4. \A x \in Voice(c) : Rising(Ivr, x)
  BY DEF Voice, Of, Rising
<1>6. ASSUME NEW k \in Numbers, NEW x \in In(uplink'[k])
      PROVE  Rising(k, x)
  <2>1. CASE x \in In(uplink[k])
    BY <1>0, <2>1
  <2>2. CASE x \in In(sent') /\ x.peer = k
    <3>1. k = Ivr
      BY <1>1, <2>2 DEF Voice
    <3> QED BY <1>1, <1>4, <2>2, <3>1
  <2> QED BY <1>2, <2>1, <2>2
<1>7. Up'
  BY <1>2, <1>6 DEF Up, Rising
<1> QED BY <1>1, <1>2, <1>3, <1>5, <1>7

\* What a step of the IVR keeps.
LEMMA IvrKeeps ==
  ASSUME Kept, NEW c \in CallIds, Attends(c), Programs', uplink' = Delivered(uplink), Down',
         \A k \in Numbers : In(downlink'[k]) \subseteq In(downlink[k]),
         UNCHANGED <<serverVars, phoneVars, trouble, digits>>
  PROVE  Kept' /\ IvrDoes(c)
<1>1. /\ Up' /\ \A k \in Numbers \ {Ivr} : uplink'[k] = uplink[k]
      /\ In(uplink'[Ivr]) \subseteq In(uplink[Ivr]) \cup In(sent') /\ Len(sent') <= 3
  BY IvrSpeaks DEF Kept, Attends
<1>2. OwnSessions' /\ Known' /\ Phones'
  BY DEF Kept, OwnSessions, OwnSession, Known, Phones, serverVars, phoneVars
<1> QED BY <1>1, <1>2 DEF Kept, Attends, IvrDoes

\* The receiver thread of the IVR attends to the call of its datagram, ...
LEMMA IvrReceivesDoes ==
  ASSUME Kept, IvrReceives
  PROVE  /\ Kept'
         /\ \E m \in Datagram, c \in CallIds :
              /\ downlink[Ivr] # <<>> /\ m = Head(downlink[Ivr])
              /\ m \in In(downlink[Ivr]) /\ m.callID = c /\ App!Receive(m)
              /\ IvrDoes(c)
              /\ m.type = "INVITE" => rx'.call = rx.call /\ (reader[c] = "none" => reader'[c] = "none")
<1>m. PICK m \in {Head(downlink[Ivr])} : TRUE
  OBVIOUS
<1>c. PICK c \in {m.callID} : TRUE
  OBVIOUS
<1>0. /\ Ivr \in Numbers /\ downlink \in [Numbers -> Seq(Datagram)]
      /\ \A k \in Numbers : \A x \in In(downlink[k]) : Falling(k, x)
  BY DEF Kept, Down, Numbers
<1>1. /\ downlink[Ivr] # <<>> /\ App!Receive(m)
      /\ downlink' = [downlink EXCEPT ![Ivr] = Tail(@)]
      /\ uplink' = Delivered(uplink)
      /\ UNCHANGED <<serverVars, phoneVars, trouble, digits>>
  BY <1>m DEF IvrReceives
<1>2. /\ downlink' \in [Numbers -> Seq(Datagram)]
      /\ \A k \in Numbers : In(downlink'[k]) \subseteq In(downlink[k])
      /\ m \in In(downlink[Ivr])
  <2>1. /\ [downlink EXCEPT ![Ivr] = Tail(@)] \in [Numbers -> Seq(Datagram)]
        /\ \A k \in Numbers : In([downlink EXCEPT ![Ivr] = Tail(@)][k]) \subseteq In(downlink[k])
        /\ Head(downlink[Ivr]) \in In(downlink[Ivr])
    BY <1>0, <1>1, TailLink
  <2> QED BY <1>1, <1>m, <2>1
<1>3. m \in Of(c) /\ m.callID = c /\ c \in CallIds /\ m \in Datagram
  BY <1>0, <1>2, <1>c DEF Falling, Of, Datagram
<1>4. Attends(c)
  BY <1>1, <1>3, ReceiveAttends DEF Kept, Programs
<1>5. Programs'
  BY <1>1, <1>3, AppRuns DEF Kept
<1>6. Down'
  BY <1>0, <1>2 DEF Down, Falling
<1>7. Kept' /\ IvrDoes(c)
  BY <1>1, <1>2, <1>3, <1>4, <1>5, <1>6, IvrKeeps
<1>8. m.type = "INVITE" => rx'.call = rx.call /\ (reader[c] = "none" => reader'[c] = "none")
  <2>1. m.type = "INVITE" => App!OnInvite(m)
    BY <1>1 DEF App!Receive, App!OnAck, App!OnBusy, App!OnUnavailable, App!OnReferAccepted,
       App!OnBye, App!OnOk, App!OnNothing
  <2> QED BY <1>3, <2>1, OnInviteAttends DEF Kept, Programs
<1> QED BY <1>m, <1>1, <1>2, <1>3, <1>7, <1>8

\* ... the rest of a handler to the call it is about, ...
LEMMA IvrWakesDoes ==
  ASSUME Kept, IvrWakes
  PROVE  Kept' /\ \E c \in CallIds : c = rx.call /\ IvrDoes(c)
<1>1. rx.call \in CallIds /\ Attends(rx.call)
  BY WakeAttends DEF Kept, Programs, IvrWakes
<1>2. PICK c \in CallIds : c = rx.call /\ Attends(c)
  BY <1>1
<1>3. Programs'
  BY AppRuns DEF Kept, IvrWakes
<1>4. Down' /\ downlink' = downlink
  BY DEF Kept, Down, IvrWakes
<1>5. /\ uplink' = Delivered(uplink)
      /\ \A k \in Numbers : In(downlink'[k]) \subseteq In(downlink[k])
      /\ UNCHANGED <<serverVars, phoneVars, trouble, digits>>
  BY <1>4 DEF IvrWakes
<1>6. Kept' /\ IvrDoes(c)
  BY <1>2, <1>3, <1>4, <1>5, IvrKeeps
<1> QED BY <1>2, <1>6

\* ... and a reader to its own.
LEMMA ReaderStepsDoes ==
  ASSUME Kept, NEW c \in CallIds, ReaderSteps(c)
  PROVE  Kept' /\ IvrDoes(c) /\ reader[c] # "none" /\ rx'.call = rx.call
<1>1. Attends(c) /\ reader[c] # "none" /\ rx'.call = rx.call
  BY ReadAttends DEF Kept, Programs, ReaderSteps
<1>2. Programs'
  BY AppRuns DEF Kept, ReaderSteps
<1>3. Down' /\ downlink' = downlink
  BY DEF Kept, Down, ReaderSteps
<1>4. /\ uplink' = Delivered(uplink)
      /\ \A k \in Numbers : In(downlink'[k]) \subseteq In(downlink[k])
      /\ UNCHANGED <<serverVars, phoneVars, trouble, digits>>
  BY <1>3 DEF ReaderSteps
<1> QED BY <1>1, <1>2, <1>3, <1>4, IvrKeeps

\* A key is heard by the reader, which sends nothing.
LEMMA PressKeyDoes ==
  ASSUME Kept, NEW c \in CallIds, PressKey(c)
  PROVE  Kept' /\ IvrDoes(c) /\ reader[c] # "none" /\ rx'.call = rx.call
<1>1. Attends(c) /\ reader[c] # "none" /\ rx'.call = rx.call
  BY ReadAttends DEF Kept, Programs, PressKey
<1>2. Programs'
  BY AppRuns DEF Kept, PressKey
<1>3. /\ sent' = <<>>
      /\ UNCHANGED <<serverVars, uplink, downlink, trouble, phoneVars>>
  BY DEF PressKey, App!ReadDTMF, netVars
<1>4. digits' \in 0 .. MaxDigits
  BY CallFlowAssumption DEF Kept, Phones, PressKey
<1>5. /\ OwnSessions' /\ Known' /\ Up' /\ Down' /\ Phones' /\ Len(sent') <= 3
  <2>1. OwnSessions' /\ Known'
    BY <1>3 DEF Kept, OwnSessions, OwnSession, Known, serverVars
  <2>2. Up' /\ Down'
    BY <1>3 DEF Kept, Up, Down
  <2>3. Phones'
    BY <1>3, <1>4 DEF Kept, Phones, phoneVars
  <2>4. Len(sent') <= 3
    BY <1>3
  <2> QED BY <2>1, <2>2, <2>3, <2>4
<1>6. IvrDoes(c)
  BY <1>1, <1>3 DEF IvrDoes
<1> QED BY <1>1, <1>2, <1>5, <1>6 DEF Kept, Attends

\* A step of phone u, which is in or asked about call k.
PhoneDoes(u, k) ==
  /\ Apart
  /\ \A n \in Numbers \ {u} : uplink'[n] = uplink[n]
  /\ In(uplink'[u]) \subseteq In(uplink[u]) \cup Utter(u, k)
  /\ \A n \in Numbers : In(downlink'[n]) \subseteq In(downlink[n])
  /\ \A v \in Users \ {u} : phone'[v] = phone[v]

\* What a step of a phone keeps, apart from its own state.
LEMMA ApartKeeps ==
  ASSUME Kept, Apart, Up', Down', Phones'
  PROVE  Kept'
<1>1. Programs'
  BY ProgramsRest DEF Kept, Apart
<1>2. OwnSessions' /\ OwnCalls' /\ Known' /\ Len(sent') <= 3
  BY DEF Kept, Apart, OwnSessions, OwnSession, OwnCalls, OwnCall, Known, serverVars, ivrVars
<1> QED BY <1>1, <1>2 DEF Kept

\* A caller's phone, in its own call.
LEMMA CallerDoes ==
  ASSUME Kept, NEW c \in CallIds, CallerActs(c)
  PROVE  /\ Kept' /\ PhoneDoes(c, c) /\ Speaking(c, c) /\ Listening(c) /\ UNCHANGED dialog
         /\ phone[c] # "idle" => phone'[c] # "idle"
<1>0. c \in Users /\ c \notin Agents /\ c \in Numbers
  BY CallFlowAssumption DEF Numbers
<1>1. Speaking(c, c) /\ Listening(c) /\ Apart
  BY CallerSpeaks DEF Kept
<1>2. Only(c) /\ UNCHANGED dialog /\ (phone[c] # "idle" => phone'[c] # "idle")
  BY CallerBecomes DEF Kept
<1>3. /\ Up' /\ Down'
      /\ \A n \in Numbers \ {c} : uplink'[n] = uplink[n]
      /\ In(uplink'[c]) \subseteq In(uplink[c]) \cup Utter(c, c)
      /\ \A n \in Numbers : In(downlink'[n]) \subseteq In(downlink[n])
  BY <1>0, <1>1, PhoneLinks DEF Kept
<1>4. Phones'
  <2>1. digits' = digits /\ trouble' = trouble
    BY <1>1 DEF Apart
  <2>2. \A a \in Agents : phone'[a] = phone[a]
    BY <1>0, <1>2, CallFlowAssumption DEF Only
  <2> QED BY <1>0, <1>2, <2>1, <2>2 DEF Kept, Phones, Only
<1>5. Kept'
  BY <1>1, <1>3, <1>4, ApartKeeps
<1>6. PhoneDoes(c, c)
  BY <1>1, <1>2, <1>3 DEF PhoneDoes, Only
<1> QED BY <1>1, <1>2, <1>5, <1>6

\* An agent's phone, in one call.
LEMMA AgentDoes ==
  ASSUME Kept, NEW a \in Agents, AgentActs(a)
  PROVE  Kept' /\ \E k \in CallIds : About(a, k) /\ PhoneDoes(a, k) /\ Engaging(a, k)
<1>0. a \in Users /\ a \in Numbers
  BY CallFlowAssumption DEF Numbers
<1>1. PICK k \in CallIds : About(a, k) /\ Speaking(a, k) /\ Listening(a) /\ Apart /\ Rests(a, k)
  BY AgentSpeaks DEF Kept
<1>2. Only(a) /\ Engaging(a, k)
  BY <1>1 DEF Rests
<1>3. /\ Up' /\ Down'
      /\ \A n \in Numbers \ {a} : uplink'[n] = uplink[n]
      /\ In(uplink'[a]) \subseteq In(uplink[a]) \cup Utter(a, k)
      /\ \A n \in Numbers : In(downlink'[n]) \subseteq In(downlink[n])
  BY <1>0, <1>1, PhoneLinks DEF Kept
<1>4. Phones'
  <2>1. digits' = digits /\ trouble' = trouble
    BY <1>1 DEF Apart
  <2>2. \A b \in Agents \ {a} : phone'[b] = phone[b] /\ dialog'[b] = dialog[b]
    BY <1>0, <1>2, CallFlowAssumption DEF Only, Engaging
  <2> QED BY <1>0, <1>2, <2>1, <2>2 DEF Kept, Phones, Only, Engaging
<1>5. Kept'
  BY <1>1, <1>3, <1>4, ApartKeeps
<1>6. PhoneDoes(a, k)
  BY <1>1, <1>2, <1>3 DEF PhoneDoes, Only
<1> QED BY <1>1, <1>2, <1>5, <1>6

\* A call begins with the only INVITE of its caller's phone.
LEMMA DialDoes ==
  ASSUME Kept, NEW c \in CallIds, Dial(c)
  PROVE  /\ Kept' /\ Apart /\ UNCHANGED <<downlink, dialog>>
         /\ phone[c] = "idle" /\ phone'[c] = "calling"
         /\ \A v \in Users \ {c} : phone'[v] = phone[v]
         /\ uplink' = [uplink EXCEPT ![c] = @ \o <<Invitation(c)>>]
<1>0. c \in Users /\ c \notin Agents /\ c \in Numbers
  BY CallFlowAssumption DEF Numbers
<1>1. /\ Apart /\ UNCHANGED <<downlink, dialog>> /\ phone[c] = "idle"
      /\ uplink' = [uplink EXCEPT ![c] = @ \o <<Invitation(c)>>]
      /\ Becomes(c, "calling", None)
  BY DEF Dial, Acts, Sends, Apart, Invitation
<1>2. Only(c) /\ phone'[c] = "calling"
  BY <1>0, <1>1, BecomesOnly DEF Kept, CallerStates, OrNone
<1>3. Rising(c, Invitation(c))
  <2> DEFINE x == Message("INVITE", "INVITE", c, c, Ivr, c)
  <2>1. x \in Of(c) /\ x.peer = c /\ x.type = "INVITE"
    <3>1. x \in Of(c)
      BY PartyType, RequestOf DEF Types, Methods
    <3> QED BY <3>1 DEF Message
  <2>2. Invitation(c) = [x EXCEPT !.contact = c, !.sdp = c]
    BY <2>1 DEF Invitation, Own, Request, Of, Datagram
  <2> HIDE DEF x
  <2>3. Invitation(c) \in Of(c) /\ Invitation(c).peer = c /\ Invitation(c).type = "INVITE"
    BY <1>0, <2>1, <2>2 DEF Of, Datagram, OrNone
  <2> QED BY <2>3 DEF Rising, Of
<1>4. Up'
  <2>0. /\ uplink \in [Numbers -> Seq(Datagram)]
        /\ \A n \in Numbers : \A m \in In(uplink[n]) : Rising(n, m)
    BY DEF Kept, Up
  <2>1. Invitation(c) \in Datagram /\ {Invitation(c)} \in SUBSET Datagram
    BY <1>3 DEF Rising, Of
  <2>2. <<Invitation(c)>> \in Seq({Invitation(c)})
    OBVIOUS
  <2>3. /\ uplink' \in [Numbers -> Seq(Datagram)]
        /\ In(uplink'[c]) \subseteq In(uplink[c]) \cup {Invitation(c)}
    BY <1>0, <1>1, <2>0, <2>1, <2>2, PutLink, ZenonT(60)
  <2>4. \A n \in Numbers \ {c} : uplink'[n] = uplink[n]
    BY <1>1, <2>0
  <2>5. \A n \in Numbers : \A m \in In(uplink'[n]) : Rising(n, m)
    BY <1>3, <2>0, <2>3, <2>4
  <2> QED BY <2>3, <2>5 DEF Up, Rising
<1>5. Down'
  BY <1>1 DEF Kept, Down
<1>6. Phones'
  <2>1. digits' = digits /\ trouble' = trouble
    BY <1>1 DEF Apart
  <2>2. \A a \in Agents : phone'[a] = phone[a]
    BY <1>0, <1>2, CallFlowAssumption DEF Only
  <2> QED BY <1>0, <1>1, <1>2, <2>1, <2>2 DEF Kept, Phones, Only
<1>7. Kept'
  BY <1>1, <1>4, <1>5, <1>6, ApartKeeps
<1> QED BY <1>1, <1>2, <1>7 DEF Only

\* The network makes nothing up.
LEMMA TroubleDoes ==
  ASSUME Kept, Trouble
  PROVE  /\ Kept'
         /\ trouble < MaxTrouble /\ trouble' = trouble + 1
         /\ UNCHANGED <<serverVars, ivrVars, phoneVars>>
         /\ \A n \in Numbers : In(downlink'[n]) \subseteq In(downlink[n])
         /\ \A n \in Numbers : uplink'[n] = uplink[n] \/ uplink'[n] \in Disturbed(uplink[n])
<1>0. /\ uplink \in [Numbers -> Seq(Datagram)]
      /\ downlink \in [Numbers -> Seq(Datagram)]
      /\ \A n \in Numbers : \A m \in In(uplink[n]) : Rising(n, m)
      /\ \A n \in Numbers : \A m \in In(downlink[n]) : Falling(n, m)
  BY DEF Kept, Up, Down
<1>1. /\ trouble < MaxTrouble /\ trouble' = trouble + 1 /\ sent' = <<>>
      /\ UNCHANGED <<serverVars, ivrVars, fault, phoneVars, digits>>
  BY DEF Trouble
<1>2. PICK n \in Numbers :
        \/ /\ \E q \in Disturbed(uplink[n]) : uplink' = [uplink EXCEPT ![n] = q]
           /\ UNCHANGED downlink
        \/ /\ \E q \in Disturbed(downlink[n]) : downlink' = [downlink EXCEPT ![n] = q]
           /\ UNCHANGED uplink
  BY DEF Trouble
<1>3. /\ uplink' \in [Numbers -> Seq(Datagram)]
      /\ \A k \in Numbers : uplink'[k] = uplink[k] \/ uplink'[k] \in Disturbed(uplink[k])
      /\ \A k \in Numbers : In(uplink'[k]) \subseteq In(uplink[k])
  <2>1. CASE UNCHANGED uplink
    BY <1>0, <2>1
  <2>2. ASSUME NEW q \in Disturbed(uplink[n]), uplink' = [uplink EXCEPT ![n] = q]
        PROVE  <1>3!:
    <3>1. q \in Seq(Datagram) /\ In(q) \subseteq In(uplink[n])
      BY <1>0, InDisturbed
    <3> QED BY <1>0, <2>2, <3>1
  <2> QED BY <1>2, <2>1, <2>2
<1>4. /\ downlink' \in [Numbers -> Seq(Datagram)]
      /\ \A k \in Numbers : In(downlink'[k]) \subseteq In(downlink[k])
  <2>1. CASE UNCHANGED downlink
    BY <1>0, <2>1
  <2>2. ASSUME NEW q \in Disturbed(downlink[n]), downlink' = [downlink EXCEPT ![n] = q]
        PROVE  <1>4!:
    <3>1. q \in Seq(Datagram) /\ In(q) \subseteq In(downlink[n])
      BY <1>0, InDisturbed
    <3> QED BY <1>0, <2>2, <3>1
  <2> QED BY <1>2, <2>1, <2>2
<1>5. Up' /\ Down'
  <2>1. \A k \in Numbers : \A m \in In(uplink'[k]) : Rising(k, m)
    BY <1>0, <1>3
  <2>2. \A k \in Numbers : \A m \in In(downlink'[k]) : Falling(k, m)
    BY <1>0, <1>4
  <2> QED BY <1>3, <1>4, <2>1, <2>2 DEF Up, Down, Rising, Falling
<1>6. Programs'
  BY <1>1, ProgramsRest DEF Kept
<1>7. OwnSessions' /\ OwnCalls' /\ Known' /\ Len(sent') <= 3
  BY <1>1 DEF Kept, OwnSessions, OwnSession, OwnCalls, OwnCall, Known, serverVars, ivrVars
<1>8. Phones'
  <2>1. trouble' \in 0 .. MaxTrouble
    BY <1>1, CallFlowAssumption DEF Kept, Phones
  <2>2. digits' = digits /\ phone' = phone /\ rtp' = rtp /\ dialog' = dialog
    BY <1>1 DEF phoneVars
  <2> QED BY <2>1, <2>2 DEF Kept, Phones
<1> QED BY <1>1, <1>3, <1>4, <1>5, <1>6, <1>7, <1>8 DEF Kept
-----------------------------------------------------------------------------
\* At first nothing is under way.
LEMMA InitKept == Init => Kept
<1> SUFFICES ASSUME Init PROVE Kept
  OBVIOUS
<1>1. Programs
  <2>1. ServerKeeps
    <3>1. clients \subseteq Numbers
      BY CallFlowAssumption DEF Init, Numbers, Callers
    <3>2. sessions = [c \in CallIds |-> None]
      BY DEF Init
    <3> QED BY <3>1, <3>2
            DEF ServerKeeps, OrNone, SP!ReferNeedsDest, SP!MediaNeedsAnswer, SP!HasSession
  <2>2. AppKeeps
    BY DEF Init, App!Init, App!Idle, AppKeeps, OrNone, App!ReaderStates, App!RxStates, AP!Tidy,
       AP!RxHasCall, AP!ReferReady, AP!NoOrphans, AP!CallHasMedia, AP!HasCall
  <2>3. Outcome
    BY DEF Init, App!Init, Outcome
  <2> QED BY <2>1, <2>2, <2>3 DEF Programs
<1>2. Known /\ OwnSessions /\ OwnCalls /\ Len(sent) <= 3
  BY DEF Init, App!Init, Known, OwnSessions, OwnSession, OwnCalls, OwnCall
<1>3. Up /\ Down
  BY InNone DEF Init, Up, Down
<1>4. Phones
  BY CallFlowAssumption
  DEF Init, Phones, PhoneStates, AgentStates, CallerStates, OrNone
<1> QED BY <1>1, <1>2, <1>3, <1>4 DEF Kept

\* Every step keeps the invariant.
LEMMA NextKept ==
  ASSUME Kept, [Next]_vars
  PROVE  Kept'
<1>1. CASE UNCHANGED vars
  <2>1. sent' = sent /\ fault' = fault /\ digits' = digits
        /\ UNCHANGED <<serverVars, ivrVars, netVars, phoneVars>>
    BY <1>1 DEF vars
  <2>2. Programs'
    BY <2>1, ProgramsRest DEF Kept, Programs, Outcome
  <2>3. OwnSessions' /\ OwnCalls' /\ Known' /\ Len(sent') <= 3
    BY <2>1 DEF Kept, OwnSessions, OwnSession, OwnCalls, OwnCall, Known, serverVars, ivrVars
  <2>4. Up' /\ Down'
    BY <2>1 DEF Kept, Up, Down, netVars
  <2>5. Phones'
    BY <2>1 DEF Kept, Phones, phoneVars, netVars
  <2> QED BY <2>2, <2>3, <2>4, <2>5 DEF Kept
<1>2. CASE Next
  BY <1>2, ServerStepDoes, IvrReceivesDoes, IvrWakesDoes, ReaderStepsDoes, PressKeyDoes, DialDoes,
     CallerDoes, AgentDoes, TroubleDoes, CallFlowAssumption
  DEF Next, CallerActs, AgentActs, Callers
<1> QED BY <1>1, <1>2

\* What both programs keep, what is on every link and what the phones are in: the
\* invariant of the composition holds, whatever the network loses, repeats or swaps.
THEOREM Invariance == Spec => []Kept
BY InitKept, NextKept, PTL DEF Spec

\* Whoever calls, and whatever the network does: server, IVR, phones and links
\* are in states of their types, and no step sends more than Delivered delivers.
THEOREM TypeCorrect == Spec => []TypeOK
<1>1. Kept => TypeOK
  <2> SUFFICES ASSUME Kept PROVE TypeOK
    OBVIOUS
  <2>1. App!TypeOK \/ fault = "OnRefer"
    <3>1. App!Datagram = Datagram
      BY DEF App!Datagram, Datagram, App!Types, Types, App!Methods, Methods, App!Responses,
         Responses, App!Numbers, Numbers, App!OrNone, OrNone, App!ExpiresZero, ExpiresZero
    <3> QED BY <3>1 DEF Kept, Programs, AppKeeps, Outcome, AppFaults, App!TypeOK, App!OrNone, OrNone
  <2> QED BY <2>1 DEF Kept, Programs, ServerKeeps, Up, Down, Phones, TypeOK
<1> QED BY <1>1, Invariance, PTL

\* What each program keeps on its own it keeps among the others: the dest of a
\* referral, the answer behind any media, no orphans and no call without media.
THEOREM PartsHold ==
  Spec => [](/\ Server!ReferNeedsDest /\ Server!MediaNeedsAnswer
             /\ App!NoOrphans /\ App!CallHasMedia)
<1>1. Kept => /\ Server!ReferNeedsDest /\ Server!MediaNeedsAnswer
              /\ App!NoOrphans /\ App!CallHasMedia
  BY DEF Kept, Programs, ServerKeeps, AppKeeps, SP!ReferNeedsDest, Server!ReferNeedsDest,
     SP!MediaNeedsAnswer, Server!MediaNeedsAnswer, SP!HasSession, Server!HasSession, AP!Tidy,
     AP!NoOrphans, App!NoOrphans, AP!CallHasMedia, App!CallHasMedia, AP!HasCall, App!HasCall,
     AP!TearingDown, App!TearingDown
<1> QED BY <1>1, Invariance, PTL
-----------------------------------------------------------------------------
(***************************************************************************)
(* Every INVITE that the server sends has a body, so the IVR, which does   *)
(* not look, gets none without.                                            *)
(***************************************************************************)
Bodies == \A n \in Numbers : \A m \in In(downlink[n]) : m.type = "INVITE" => m.sdp # None

\* The server sends no INVITE without a body.
LEMMA ServerSendsBodies ==
  ASSUME Programs, NEW m \in Datagram, Server!Handle(m)
  PROVE  \A x \in In(sent') : x.type = "INVITE" => x.sdp # None
<1>1. SP!IInv /\ SP!Handle(m)
  BY ProgramsRun, ServerHandles DEF Server!Handle
<1>2. sent' \in Seq(Datagram) /\ SP!SendsOnly
  BY <1>1, PartsAssume, SameSip, SP!HandleEffect DEF SP!Effect
<1>3. \A i \in 1 .. Len(sent') : sent'[i].type = "INVITE" => sent'[i].sdp # None
  BY <1>2 DEF SP!SendsOnly, SP!Sendable
<1> QED BY <1>3 DEF In

\* Nobody else puts a datagram on a downlink.
LEMMA NextBodies ==
  ASSUME Kept, Bodies, [Next]_vars
  PROVE  Bodies'
<1>1. CASE \E n \in Numbers : ServerStep(n)
  <2>1. PICK n \in Numbers, m \in Datagram, c \in CallIds : ServerDoes(n, m, c)
    BY <1>1, ServerStepDoes
  <2>2. /\ Server!Handle(m)
        /\ \A k \in Numbers : In(downlink'[k]) \subseteq In(downlink[k]) \cup In(sent')
    BY <2>1 DEF ServerDoes
  <2>3. \A x \in In(sent') : x.type = "INVITE" => x.sdp # None
    BY <2>2, ServerSendsBodies DEF Kept
  <2> QED BY <2>2, <2>3 DEF Bodies
<1>2. CASE \A k \in Numbers : In(downlink'[k]) \subseteq In(downlink[k])
  BY <1>2 DEF Bodies
<1>3. CASE IvrReceives
  BY <1>2, <1>3, IvrReceivesDoes DEF IvrDoes
<1>4. CASE IvrWakes \/ \E k \in CallIds : ReaderSteps(k) \/ PressKey(k)
  BY <1>2, <1>4, IvrWakesDoes, ReaderStepsDoes, PressKeyDoes DEF IvrDoes
<1>5. CASE \E k \in CallIds : Dial(k)
  BY <1>5, DialDoes DEF Bodies
<1>6. CASE (\E k \in CallIds : CallerActs(k)) \/ \E a \in Agents : AgentActs(a)
  BY <1>2, <1>6, CallerDoes, AgentDoes DEF PhoneDoes
<1>7. CASE Trouble
  BY <1>2, <1>7, TroubleDoes
<1>8. CASE UNCHANGED vars
  BY <1>8 DEF vars, netVars, Bodies
<1> QED BY <1>1, <1>3, <1>4, <1>5, <1>6, <1>7, <1>8 DEF Next, CallerActs, AgentActs, Callers

\* The IVR's OnInvite, which dereferences the body unseen, fails on no INVITE
\* that the server passes on, whatever the network does to it.
THEOREM OffersHaveBodies == Spec => [](fault # "OnInvite")
<1> DEFINE Inv == Kept /\ Bodies /\ fault # "OnInvite"
<1>1. Init => Inv
  <2>1. Init => Bodies
    BY InNone DEF Init, Bodies
  <2> QED BY <2>1, InitKept DEF Init, App!Init
<1>2. ASSUME Inv, [Next]_vars
      PROVE  Inv'
  <2>1. Kept' /\ Bodies'
    BY <1>2, NextKept, NextBodies
  <2>2. fault' # "OnInvite"
    <3>1. CASE UNCHANGED vars
      BY <1>2, <3>1 DEF vars
    <3>2. CASE \E n \in Numbers : ServerStep(n)
      <4>1. PICK n \in Numbers, m \in Datagram, c \in CallIds : ServerDoes(n, m, c)
        BY <1>2, <3>2, ServerStepDoes
      <4>2. fault' = "none" \/ fault' = "OnRefer"
        BY <1>2, <4>1, ServerRuns DEF Kept, ServerDoes
      <4> QED BY <4>2
    <3>3. CASE IvrReceives
      <4>1. PICK m \in Datagram : m \in In(downlink[Ivr]) /\ App!Receive(m)
        BY <1>2, <3>3, IvrReceivesDoes
      <4>2. m.type = "INVITE" => m.sdp # None
        BY <1>2, <4>1 DEF Bodies, Numbers
      <4> QED BY <1>2, <4>1, <4>2
              DEF App!Receive, App!OnInvite, App!OnAck, App!OnBusy, App!OnUnavailable,
                  App!OnReferAccepted, App!StartsReferring, App!OnBye, App!OnOk, App!OnNothing,
                  App!Refused, App!Ignore, App!Crash, App!Announce, App!Overwritten, App!EndCall
    <3>4. CASE IvrWakes
      BY <1>2, <3>4 DEF IvrWakes, App!Announced, App!Redirected, App!Joined, App!Overwritten,
         App!Crash
    <3>5. CASE \E k \in CallIds : ReaderSteps(k) \/ PressKey(k)
      BY <1>2, <3>5 DEF ReaderSteps, PressKey, App!ReaderStep, App!ReadDTMF, App!OnDTMFEvent,
         App!LookupFails, App!Answers, App!StillConnected, App!Choose, App!Refer, App!MakeRefer,
         App!ReplayGuide, App!InvalidChoose, App!InvalidChosen, App!RestoreGuide, App!Exit,
         App!Replays, App!Crash
    <3>6. CASE \/ \E k \in CallIds : Dial(k) \/ CallerActs(k)
               \/ \E a \in Agents : AgentActs(a)
      <4>1. Apart
        BY <1>2, <3>6, DialDoes, CallerDoes, AgentDoes DEF PhoneDoes
      <4> QED BY <1>2, <4>1 DEF Apart
    <3>7. CASE Trouble
      BY <1>2, <3>7 DEF Trouble
    <3> QED BY <1>2, <3>1, <3>2, <3>3, <3>4, <3>5, <3>6, <3>7
            DEF Next, CallerActs, AgentActs, Callers
  <2> QED BY <2>1, <2>2
<1>3. Inv => fault # "OnInvite"
  OBVIOUS
<1> QED BY <1>1, <1>2, <1>3, PTL DEF Spec
-----------------------------------------------------------------------------
(***************************************************************************)
(* The beginning of a call, on a network that loses, repeats or swaps one  *)
(* datagram at most.  Until the server has passed the IVR's answer on, the *)
(* call is nothing but its INVITE and that answer: no agent, no reader and *)
(* no phone has a datagram of it on the way.  A repeated INVITE takes the  *)
(* call back to its beginning, but the ACK is behind it in the queue.      *)
(***************************************************************************)
Invites(c) == \E m \in In(uplink[c]) : m.type = "INVITE"

Unanswered(c) == sessions[c] # None /\ sessions[c].dest = None

Early(c) == phone[c] = "idle" \/ Invites(c) \/ Unanswered(c)

IsOffer(c, m) == m.type = "INVITE" /\ m.cseq = "INVITE" /\ m.from = c

IsAnswer(c, m) ==
  /\ m.type = "200" /\ m.cseq = "INVITE" /\ m.from = c /\ m.to = Ivr
  /\ m.sdp # None /\ m.contact # None

\* Neither reader, nor receiver, nor agent is in the call, ...
Untouched(c) == reader[c] = "none" /\ rx.call # c /\ \A a \in Agents : dialog[a] # c

\* ... its session is a new one, ...
Offered(c) == sessions[c] # None =>
  sessions[c].referedDest = None /\ sessions[c].state \in {"Invited", "Connected"}

\* ... only the IVR says something, its answer, ...
UpQuiet(c) == \A n \in Numbers \ {c} : \A m \in In(uplink[n]) : m.callID = c =>
  n = Ivr /\ sessions[c] # None /\ IsAnswer(c, m)

\* ... only the IVR and the caller are told, that and the offer, ...
DownQuiet(c) == \A n \in Numbers : \A m \in In(downlink[n]) : m.callID = c =>
  /\ sessions[c] # None
  /\ \/ n = Ivr /\ IsOffer(c, m)
     \/ n = c /\ IsAnswer(c, m) /\ sessions[c].dest # None

\* ... the caller waits for it, ...
Waits(c) == sessions[c] = None \/ Unanswered(c) =>
  /\ phone[c] \in {"idle", "calling", "abandoning"}
  /\ \A m \in In(uplink[c]) : m.type = "INVITE"

Unused(c) == phone[c] = "idle" => uplink[c] = <<>> /\ sessions[c] = None

\* ... and what it says next is its INVITE, perhaps for the second time.
First(c) == Invites(c) =>
  /\ Head(uplink[c]).type = "INVITE"
  /\ trouble = 0 => sessions[c] = None /\ Len(uplink[c]) = 1
  /\ IF sessions[c] = None THEN Len(uplink[c]) <= 2
     ELSE \A m \in In(Tail(uplink[c])) : m.type # "INVITE"

Fresh(c) ==
  Untouched(c) /\ Offered(c) /\ UpQuiet(c) /\ DownQuiet(c) /\ Waits(c) /\ Unused(c) /\ First(c)

Setup == \A c \in CallIds : Early(c) => Fresh(c)

\* A step that is not about call c.
LEMMA FreshKept ==
  ASSUME NEW c \in CallIds, Early(c) => Fresh(c), Early(c)',
         sessions'[c] = sessions[c], phone'[c] = phone[c], uplink'[c] = uplink[c],
         trouble' = trouble,
         Fresh(c) => /\ reader'[c] = "none" /\ rx'.call # c
                     /\ \A a \in Agents : dialog'[a] # c
                     /\ \A n \in Numbers \ {c} : \A m \in In(uplink'[n]) :
                          m.callID = c => m \in In(uplink[n])
                     /\ \A n \in Numbers : \A m \in In(downlink'[n]) :
                          m.callID = c => m \in In(downlink[n])
  PROVE  Fresh(c)'
<1>1. Early(c)
  BY DEF Early, Invites, Unanswered
<1>2. Fresh(c)
  BY <1>1
<1>3. Untouched(c)' /\ Offered(c)'
  BY <1>2 DEF Fresh, Untouched, Offered
<1>4. UpQuiet(c)' /\ DownQuiet(c)'
  BY <1>2 DEF Fresh, UpQuiet, DownQuiet, IsAnswer, IsOffer
<1>5. Waits(c)' /\ Unused(c)' /\ First(c)'
  BY <1>2 DEF Fresh, Waits, Unanswered, Unused, First, Invites
<1> QED BY <1>3, <1>4, <1>5 DEF Fresh

\* What is on a caller's uplink is of its call.
LEMMA OwnUplink ==
  ASSUME Up, NEW c \in CallIds, NEW m \in In(uplink[c])
  PROVE  m.callID = c
<1>1. Rising(c, m)
  BY PartyType DEF Up
<1> QED BY <1>1, PartyType DEF Rising, Of, Party, Datagram

\* A step of the IVR for another call.
LEMMA IvrElsewhere ==
  ASSUME Kept, NEW c \in CallIds, Early(c) => Fresh(c), Early(c)',
         NEW k \in CallIds \ {c}, IvrDoes(k)
  PROVE  Fresh(c)'
<1>1. /\ Attends(k)
      /\ \A n \in Numbers \ {Ivr} : uplink'[n] = uplink[n]
      /\ In(uplink'[Ivr]) \subseteq In(uplink[Ivr]) \cup In(sent')
      /\ \A n \in Numbers : In(downlink'[n]) \subseteq In(downlink[n])
      /\ UNCHANGED <<sessions, phone, dialog, trouble>>
  BY DEF IvrDoes, serverVars, phoneVars
<1>2. c \in Numbers \ {Ivr} /\ c # None
  BY PartyType
<1>3. In(sent') \subseteq Voice(k)
  BY <1>1, InType DEF Attends, Answers
<1>4. \A m \in In(sent') : m.callID = k
  BY <1>3 DEF Voice, Of
<1>5. \A n \in Numbers \ {c} : \A m \in In(uplink'[n]) : m.callID = c => m \in In(uplink[n])
  BY <1>1, <1>4
<1>6. Fresh(c) => reader'[c] = "none" /\ rx'.call # c /\ \A a \in Agents : dialog'[a] # c
  BY <1>1, <1>2 DEF Fresh, Untouched, Attends, Minds
<1> QED BY <1>1, <1>2, <1>5, <1>6, FreshKept

\* The IVR's answer to the offer.
LEMMA OfferAnswered ==
  ASSUME NEW c \in CallIds, NEW m \in Of(c), IsOffer(c, m), App!Receive(m)
  PROVE  \A x \in In(sent') : IsAnswer(c, x)
<1>1. App!OnInvite(m)
  BY DEF IsOffer, App!Receive, App!OnAck, App!OnBusy, App!OnUnavailable, App!OnReferAccepted,
     App!OnBye, App!OnOk, App!OnNothing
<1>2. CASE sent' = <<>>
  BY <1>2, InNone
<1>3. CASE App!Send([m EXCEPT !.type = "200", !.to = Ivr, !.contact = Ivr, !.sdp = Ivr])
  <2> DEFINE x == [[m EXCEPT !.type = "200", !.to = Ivr, !.contact = Ivr, !.sdp = Ivr] EXCEPT !.peer = Ivr]
  <2>1. IsAnswer(c, x)
    BY SipAssumption DEF IsOffer, IsAnswer, Of, Datagram, Numbers
  <2>2. In(sent') = {x}
    BY <1>3, InOne DEF App!Send
  <2> QED BY <2>1, <2>2
<1> QED BY <1>1, <1>2, <1>3 DEF App!OnInvite, App!Crash, App!Ignore, App!Refused

\* The IVR answers the offer, or is told of another call.
LEMMA IvrReceivesFresh ==
  ASSUME Kept, NEW c \in CallIds, Early(c) => Fresh(c), Early(c)', IvrReceives
  PROVE  Fresh(c)'
<1>1. PICK m \in Datagram, k \in CallIds :
        /\ m \in In(downlink[Ivr]) /\ m.callID = k /\ App!Receive(m)
        /\ IvrDoes(k)
        /\ m.type = "INVITE" => rx'.call = rx.call /\ (reader[k] = "none" => reader'[k] = "none")
  BY IvrReceivesDoes
<1>2. CASE k # c
  BY <1>1, <1>2, IvrElsewhere
<1>3. CASE k = c
  <2>1. /\ \A n \in Numbers \ {Ivr} : uplink'[n] = uplink[n]
        /\ In(uplink'[Ivr]) \subseteq In(uplink[Ivr]) \cup In(sent')
        /\ \A n \in Numbers : In(downlink'[n]) \subseteq In(downlink[n])
        /\ sessions' = sessions /\ phone' = phone /\ dialog' = dialog /\ trouble' = trouble
    BY <1>1 DEF IvrDoes, serverVars, phoneVars
  <2>2. c \in Numbers \ {Ivr} /\ Ivr \in Numbers
    BY PartyType
  <2>3. uplink'[c] = uplink[c]
    BY <2>1, <2>2
  <2>4. Early(c)
    BY <2>1, <2>3 DEF Early, Invites, Unanswered
  <2>5. Fresh(c)
    BY <2>4
  <2>6. IsOffer(c, m) /\ sessions[c] # None
    BY <1>1, <1>3, <2>2, <2>5 DEF Fresh, DownQuiet
  <2>7. m \in Of(c)
    <3>1. Falling(Ivr, m)
      BY <1>1, <2>2 DEF Kept, Down
    <3> QED BY <1>1, <1>3, <3>1 DEF Falling
  <2>8. \A x \in In(sent') : IsAnswer(c, x)
    BY <1>1, <2>6, <2>7, OfferAnswered
  <2>9. Untouched(c)' /\ Offered(c)'
    BY <1>1, <1>3, <2>1, <2>5, <2>6 DEF Fresh, Untouched, Offered, IsOffer
  <2>10. UpQuiet(c)'
    <3>1. ASSUME NEW n \in Numbers \ {c}, NEW x \in In(uplink'[n]), x.callID = c
          PROVE  n = Ivr /\ sessions[c] # None /\ IsAnswer(c, x)
      BY <2>1, <2>5, <2>6, <2>8, <3>1 DEF Fresh, UpQuiet
    <3> QED BY <2>1, <3>1 DEF UpQuiet, IsAnswer
  <2>11. DownQuiet(c)'
    BY <2>1, <2>5 DEF Fresh, DownQuiet, IsAnswer, IsOffer
  <2>12. Waits(c)' /\ Unused(c)' /\ First(c)'
    BY <2>1, <2>3, <2>5 DEF Fresh, Waits, Unanswered, Unused, First, Invites
  <2> QED BY <2>9, <2>10, <2>11, <2>12 DEF Fresh
<1> QED BY <1>2, <1>3

\* The rest of the IVR is not in the call: its receiver and its readers are in
\* others.
LEMMA IvrRestFresh ==
  ASSUME Kept, NEW c \in CallIds, Early(c) => Fresh(c), Early(c)',
         \/ IvrWakes \/ \E k \in CallIds : ReaderSteps(k) \/ PressKey(k)
  PROVE  Fresh(c)'
<1>1. PICK k \in CallIds : IvrDoes(k) /\ (k = rx.call \/ reader[k] # "none")
  BY IvrWakesDoes, ReaderStepsDoes, PressKeyDoes
<1>2. Early(c)
  <2>1. /\ \A n \in Numbers \ {Ivr} : uplink'[n] = uplink[n]
        /\ sessions' = sessions /\ phone' = phone
    BY <1>1 DEF IvrDoes, serverVars, phoneVars
  <2>2. uplink'[c] = uplink[c]
    BY <2>1, PartyType
  <2> QED BY <2>1, <2>2 DEF Early, Invites, Unanswered
<1>3. k # c
  BY <1>1, <1>2 DEF Fresh, Untouched
<1> QED BY <1>1, <1>3, IvrElsewhere

\* A step of a phone for another call.
LEMMA PhoneElsewhere ==
  ASSUME Kept, NEW c \in CallIds, Early(c) => Fresh(c), Early(c)',
         NEW u \in Users \ {c}, NEW k \in CallIds \ {c}, PhoneDoes(u, k),
         \A a \in Agents : dialog[a] # c => dialog'[a] # c
  PROVE  Fresh(c)'
<1>1. /\ Apart
      /\ \A n \in Numbers \ {u} : uplink'[n] = uplink[n]
      /\ In(uplink'[u]) \subseteq In(uplink[u]) \cup Utter(u, k)
      /\ \A n \in Numbers : In(downlink'[n]) \subseteq In(downlink[n])
      /\ \A v \in Users \ {u} : phone'[v] = phone[v]
  BY DEF PhoneDoes
<1>2. c \in Numbers \ {u} /\ c \in Users \ {u}
  BY PartyType, CallFlowAssumption
<1>3. /\ sessions' = sessions /\ reader' = reader /\ rx' = rx /\ trouble' = trouble
      /\ uplink'[c] = uplink[c] /\ phone'[c] = phone[c]
  BY <1>1, <1>2 DEF Apart, serverVars, ivrVars
<1>4. \A m \in Utter(u, k) : m.callID # c
  BY DEF Utter, Of
<1>5. \A n \in Numbers \ {c} : \A m \in In(uplink'[n]) : m.callID = c => m \in In(uplink[n])
  BY <1>1, <1>4
<1>6. Fresh(c) => reader'[c] = "none" /\ rx'.call # c /\ \A a \in Agents : dialog'[a] # c
  BY <1>3 DEF Fresh, Untouched
<1> QED BY <1>1, <1>3, <1>5, <1>6, FreshKept

\* An agent cannot be in the call, nor be asked about it.
LEMMA AgentFresh ==
  ASSUME Kept, NEW c \in CallIds, Early(c) => Fresh(c), Early(c)', NEW a \in Agents, AgentActs(a)
  PROVE  Fresh(c)'
<1>1. PICK k \in CallIds : About(a, k) /\ PhoneDoes(a, k) /\ Engaging(a, k)
  BY AgentDoes
<1>2. c # a /\ c # Ivr /\ c # None /\ a # Ivr /\ a \in Users /\ a \in Numbers /\ c \in Users
      /\ c \in Numbers
  BY PartyType, CallFlowAssumption, SipAssumption DEF Numbers
<1>3. Early(c)
  <2>1. sessions' = sessions /\ phone'[c] = phone[c] /\ uplink'[c] = uplink[c]
    BY <1>1, <1>2 DEF PhoneDoes, Apart, serverVars
  <2> QED BY <2>1 DEF Early, Invites, Unanswered
<1>4. dialog[a] # c
  BY <1>3 DEF Fresh, Untouched
<1>5. downlink[a] # <<>> => Head(downlink[a]).callID # c
  <2>1. SUFFICES ASSUME downlink[a] # <<>>, Head(downlink[a]).callID = c PROVE FALSE
    OBVIOUS
  <2>2. Head(downlink[a]) \in In(downlink[a])
    BY <1>2, <2>1, InTail DEF Kept, Down
  <2> QED BY <1>2, <1>3, <2>1, <2>2 DEF Fresh, DownQuiet
<1>6. k # c
  BY <1>1, <1>4, <1>5 DEF About
<1>7. \A b \in Agents : dialog[b] # c => dialog'[b] # c
  BY <1>1, <1>2, <1>6 DEF Engaging
<1> QED BY <1>1, <1>2, <1>6, <1>7, PhoneElsewhere

\* The head of a queue is not changed by what is put behind it.
LEMMA HeadConcat ==
  ASSUME NEW S, NEW q \in Seq(S), NEW r \in Seq(S), q # <<>>
  PROVE  Head(q \o r) = Head(q) /\ Tail(q \o r) = Tail(q) \o r
<1>1. Head(q \o r) = Head(q)
  OBVIOUS
<1>2. /\ Tail(q \o r) \in Seq(S) /\ Tail(q) \o r \in Seq(S)
      /\ Len(Tail(q \o r)) = Len(q) + Len(r) - 1
      /\ Len(Tail(q) \o r) = Len(q) + Len(r) - 1
      /\ Len(q) \in Nat /\ Len(r) \in Nat /\ Len(q) > 0
  OBVIOUS
<1>3. ASSUME NEW i \in 1 .. (Len(q) + Len(r) - 1)
      PROVE  Tail(q \o r)[i] = (Tail(q) \o r)[i]
  <2>1. Tail(q \o r)[i] = (q \o r)[i + 1]
    BY <1>2
  <2>2. CASE i < Len(q)
    BY <1>2, <2>1, <2>2
  <2>3. CASE i >= Len(q)
    BY <1>2, <2>1, <2>3
  <2> QED BY <1>2, <2>2, <2>3
<1> QED BY <1>1, <1>2, <1>3

\* The caller gives up, or, with the answer it waited for, goes on.
LEMMA CallerFresh ==
  ASSUME Kept, NEW c \in CallIds, Early(c) => Fresh(c), Early(c)', CallerActs(c)
  PROVE  Fresh(c)'
<1>0. c \in Numbers /\ c # Ivr /\ c \notin Agents /\ c \in Users
  BY PartyType, CallFlowAssumption
<1>1. /\ PhoneDoes(c, c) /\ Speaking(c, c) /\ Listening(c) /\ UNCHANGED dialog
      /\ phone[c] # "idle" => phone'[c] # "idle"
  BY CallerDoes
<1>2. /\ In(uplink'[c]) \subseteq In(uplink[c]) \cup Utter(c, c)
      /\ \A n \in Numbers \ {c} : uplink'[n] = uplink[n]
      /\ \A n \in Numbers : In(downlink'[n]) \subseteq In(downlink[n])
      /\ sessions' = sessions /\ reader' = reader /\ rx' = rx /\ trouble' = trouble
  BY <1>1 DEF PhoneDoes, Apart, serverVars, ivrVars
<1>3. Early(c)
  <2>1. \A m \in Utter(c, c) : m.type # "INVITE"
    BY DEF Utter
  <2> QED BY <1>1, <1>2, <2>1 DEF Early, Invites, Unanswered
<1>4. Fresh(c)
  BY <1>3
<1>5. Untouched(c)' /\ Offered(c)' /\ UpQuiet(c)' /\ DownQuiet(c)'
  <2>1. Untouched(c)' /\ Offered(c)'
    BY <1>1, <1>2, <1>4 DEF Fresh, Untouched, Offered
  <2>2. UpQuiet(c)' /\ DownQuiet(c)'
    BY <1>2, <1>4 DEF Fresh, UpQuiet, DownQuiet, IsAnswer, IsOffer
  <2> QED BY <2>1, <2>2
<1>6. CASE sessions[c] = None \/ Unanswered(c)
  <2>1. downlink[c] = <<>>
    <3> SUFFICES ASSUME downlink[c] # <<>> PROVE FALSE
      OBVIOUS
    <3>1. Head(downlink[c]) \in In(downlink[c])
      BY <1>0, InTail DEF Kept, Down
    <3>2. Head(downlink[c]).callID = c
      BY <1>0, OwnDownlink DEF Kept
    <3> QED BY <1>0, <1>4, <1>6, <3>1, <3>2 DEF Fresh, DownQuiet, Unanswered
  <2>2. phone[c] \in {"idle", "calling", "abandoning"}
    BY <1>4, <1>6 DEF Fresh, Waits
  <2>3. Abandon(c)
    BY <2>1, <2>2 DEF CallerActs, CallerHangsUp, CallerReceives
  <2>4. phone'[c] = "abandoning" /\ uplink' = [uplink EXCEPT ![c] = @ \o <<>>]
    BY <1>0, <2>3 DEF Abandon, Becomes, Acts, Sends, Kept, Phones
  <2>5. uplink'[c] = uplink[c]
    <3>1. uplink[c] \in Seq(Datagram) /\ uplink'[c] = uplink[c] \o <<>>
      BY <1>0, <2>4 DEF Kept, Up
    <3> QED BY <3>1
  <2>6. Waits(c)' /\ Unused(c)' /\ First(c)'
    BY <1>2, <1>4, <2>4, <2>5 DEF Fresh, Waits, Unanswered, Unused, First, Invites
  <2> QED BY <1>5, <2>6 DEF Fresh
<1>7. CASE sessions[c] # None /\ ~Unanswered(c)
  <2>1. phone[c] # "idle"
    BY <1>4, <1>7 DEF Fresh, Unused
  <2>2. Invites(c)
    BY <1>3, <1>7, <2>1 DEF Early
  <2>3. /\ Head(uplink[c]).type = "INVITE" /\ trouble # 0
        /\ \A m \in In(Tail(uplink[c])) : m.type # "INVITE"
    BY <1>4, <1>7, <2>2 DEF Fresh, First
  <2>4. uplink[c] \in Seq(Datagram) /\ uplink[c] # <<>> /\ Utter(c, c) \subseteq Datagram
    BY <1>0, <2>2, InNone DEF Kept, Up, Invites, Utter, Of
  <2>5. PICK ms \in Seq(Utter(c, c)) : uplink'[c] = uplink[c] \o ms
    BY <1>0, <1>1 DEF Speaking, Kept, Up
  <2>6. ms \in Seq(Datagram) /\ In(ms) \subseteq Utter(c, c)
    BY <2>4, InType
  <2>7. Head(uplink'[c]) = Head(uplink[c]) /\ Tail(uplink'[c]) = Tail(uplink[c]) \o ms
    BY <2>4, <2>5, <2>6, HeadConcat
  <2>8. \A m \in In(Tail(uplink'[c])) : m.type # "INVITE"
    <3>1. Tail(uplink[c]) \in Seq(Datagram)
      BY <2>4
    <3>2. In(Tail(uplink[c]) \o ms) = In(Tail(uplink[c])) \cup In(ms)
      <4>1. \A p, r \in Seq(Datagram) : In(p \o r) = In(p) \cup In(r)
        BY InConcat, ZenonT(60)
      <4> QED BY <2>6, <3>1, <4>1, ZenonT(60)
    <3> QED BY <2>3, <2>6, <2>7, <3>2 DEF Utter
  <2>9. Waits(c)' /\ Unused(c)' /\ First(c)'
    BY <1>1, <1>2, <1>7, <2>1, <2>3, <2>7, <2>8 DEF Waits, Unanswered, Unused, First, Invites
  <2> QED BY <1>5, <2>9 DEF Fresh
<1> QED BY <1>6, <1>7 DEF Unanswered

\* The call is made, or another one.
LEMMA DialFresh ==
  ASSUME Kept, NEW c \in CallIds, Early(c) => Fresh(c), Early(c)', NEW k \in CallIds, Dial(k)
  PROVE  Fresh(c)'
<1>0. c \in Numbers /\ c \in Users /\ k \in Numbers
  BY PartyType, CallFlowAssumption
<1>1. /\ Apart /\ UNCHANGED <<downlink, dialog>>
      /\ phone[k] = "idle" /\ phone'[k] = "calling"
      /\ \A v \in Users \ {k} : phone'[v] = phone[v]
      /\ uplink' = [uplink EXCEPT ![k] = @ \o <<Invitation(k)>>]
  BY DialDoes
<1>2. sessions' = sessions /\ reader' = reader /\ rx' = rx /\ trouble' = trouble
  BY <1>1 DEF Apart, serverVars, ivrVars
<1>3. uplink \in [Numbers -> Seq(Datagram)]
  BY DEF Kept, Up
<1>4. \A n \in Numbers \ {k} : uplink'[n] = uplink[n]
  BY <1>1, <1>3
<1>5. CASE k # c
  <2>1. ASSUME NEW n \in Numbers \ {c}, NEW m \in In(uplink'[n]), m.callID = c
        PROVE  m \in In(uplink[n])
    <3>1. CASE n # k
      BY <1>4, <2>1, <3>1
    <3>2. CASE n = k
      <4>1. Kept'
        BY DialDoes
      <4>2. m.callID = k
        <5>1. Rising(k, m)
          BY <1>0, <2>1, <3>2, <4>1 DEF Kept, Up, Rising
        <5> QED BY <5>1, PartyType DEF Rising, Of, Party, Datagram
      <4> QED BY <1>5, <2>1, <4>2
    <3> QED BY <3>1, <3>2
  <2>2. Fresh(c) => reader'[c] = "none" /\ rx'.call # c /\ \A a \in Agents : dialog'[a] # c
    BY <1>1, <1>2 DEF Fresh, Untouched
  <2>3. phone'[c] = phone[c] /\ uplink'[c] = uplink[c]
    BY <1>0, <1>1, <1>4, <1>5
  <2> QED BY <1>1, <1>2, <2>1, <2>2, <2>3, FreshKept
<1>6. CASE k = c
  <2>1. Fresh(c)
    BY <1>1, <1>6 DEF Early
  <2>2. uplink[c] = <<>> /\ sessions[c] = None
    BY <1>1, <1>6, <2>1 DEF Fresh, Unused
  <2>3. uplink'[c] = <<Invitation(c)>>
    BY <1>0, <1>1, <1>3, <1>6, <2>2
  <2>4. In(uplink'[c]) = {Invitation(c)} /\ Head(uplink'[c]) = Invitation(c) /\ Len(uplink'[c]) = 1
    BY <2>3, InOne
  <2>5. Invitation(c).type = "INVITE"
    BY DEF Invitation, Own, Request, Message
  <2>6. Untouched(c)' /\ Offered(c)'
    BY <1>1, <1>2, <2>1 DEF Fresh, Untouched, Offered
  <2>7. UpQuiet(c)' /\ DownQuiet(c)'
    BY <1>1, <1>2, <1>4, <1>6, <2>1 DEF Fresh, UpQuiet, DownQuiet, IsAnswer, IsOffer
  <2>8. Waits(c)' /\ Unused(c)' /\ First(c)'
    BY <1>1, <1>2, <1>6, <2>2, <2>4, <2>5 DEF Waits, Unanswered, Unused, First, Invites
  <2> QED BY <2>6, <2>7, <2>8 DEF Fresh
<1> QED BY <1>5, <1>6

\* One disturbance at most: the INVITE is lost, or comes twice.
LEMMA TroubleFresh ==
  ASSUME Kept, NEW c \in CallIds, Early(c) => Fresh(c), Early(c)', MaxTrouble <= 1, Trouble
  PROVE  Fresh(c)'
<1>0. c \in Numbers /\ uplink[c] \in Seq(Datagram)
  BY PartyType DEF Kept, Up
<1>1. /\ trouble = 0 /\ trouble' = 1
      /\ UNCHANGED <<serverVars, ivrVars, phoneVars>>
      /\ \A n \in Numbers : In(downlink'[n]) \subseteq In(downlink[n])
      /\ \A n \in Numbers : uplink'[n] = uplink[n] \/ uplink'[n] \in Disturbed(uplink[n])
  <2>1. /\ trouble < MaxTrouble /\ trouble' = trouble + 1
        /\ UNCHANGED <<serverVars, ivrVars, phoneVars>>
        /\ \A n \in Numbers : In(downlink'[n]) \subseteq In(downlink[n])
        /\ \A n \in Numbers : uplink'[n] = uplink[n] \/ uplink'[n] \in Disturbed(uplink[n])
    BY TroubleDoes
  <2>2. trouble \in 0 .. MaxTrouble /\ MaxTrouble \in Nat
    BY CallFlowAssumption DEF Kept, Phones
  <2>3. trouble = 0
    BY <2>1, <2>2
  <2> QED BY <2>1, <2>3
<1>2. \A n \in Numbers : In(uplink'[n]) \subseteq In(uplink[n])
  BY <1>1, InDisturbed DEF Kept, Up
<1>3. Len(uplink'[c]) <= Len(uplink[c]) + 1 /\ uplink'[c] \in Seq(Datagram)
  BY <1>0, <1>1, InDisturbed
<1>4. sessions' = sessions /\ reader' = reader /\ rx' = rx /\ phone' = phone /\ dialog' = dialog
  BY <1>1 DEF serverVars, ivrVars, phoneVars
<1>5. Early(c) /\ Fresh(c)
  BY <1>0, <1>2, <1>4 DEF Early, Invites, Unanswered
<1>6. Untouched(c)' /\ Offered(c)'
  BY <1>4, <1>5 DEF Fresh, Untouched, Offered
<1>7. UpQuiet(c)' /\ DownQuiet(c)'
  BY <1>1, <1>2, <1>4, <1>5 DEF Fresh, UpQuiet, DownQuiet, IsAnswer, IsOffer
<1>8. Waits(c)'
  BY <1>0, <1>2, <1>4, <1>5 DEF Fresh, Waits, Unanswered
<1>9. Unused(c)'
  <2> SUFFICES ASSUME phone[c] = "idle"
               PROVE  uplink'[c] = <<>> /\ sessions[c] = None
    BY <1>4 DEF Unused
  <2>1. uplink[c] = <<>> /\ sessions[c] = None
    BY <1>5 DEF Fresh, Unused
  <2>2. Disturbed(uplink[c]) = {}
    BY <2>1 DEF Disturbed
  <2> QED BY <1>0, <1>1, <2>1, <2>2
<1>10. First(c)'
  <2> SUFFICES ASSUME Invites(c)' PROVE First(c)'
    BY DEF First
  <2>1. Invites(c) /\ uplink'[c] # <<>>
    BY <1>0, <1>2, InNone DEF Invites
  <2>2. sessions[c] = None /\ Len(uplink[c]) = 1
    BY <1>1, <1>5, <2>1 DEF Fresh, First
  <2>3. Head(uplink'[c]) \in In(uplink[c])
    <3>1. Head(uplink'[c]) \in In(uplink'[c])
      BY <1>3, <2>1, InTail
    <3> QED BY <1>0, <1>2, <3>1
  <2>4. Head(uplink'[c]).type = "INVITE"
    BY <1>5, <2>2, <2>3 DEF Fresh, Waits
  <2> QED BY <1>1, <1>3, <1>4, <2>2, <2>4 DEF First
<1> QED BY <1>6, <1>7, <1>8, <1>9, <1>10 DEF Fresh

\* Only an INVITE makes a session.
LEMMA NoSessionMade ==
  ASSUME ServerKeeps, NEW c \in CallIds, NEW m \in Of(c), Server!Handle(m), m.type # "INVITE",
         sessions[c] = None
  PROVE  sessions' = sessions
<1>1. m.callID = c /\ ~Server!HasSession(c)
  BY DEF Of, Server!HasSession
<1>2. CASE \/ Server!OnRegister(m) \/ Server!OnTrying(m) \/ Server!OnRinging(m)
           \/ Server!OnReqTerminated(m) \/ Server!OnUnknown(m)
  BY <1>2 DEF Server!OnRegister, Server!OnTrying, Server!OnRinging, Server!OnReqTerminated,
     Server!OnUnknown, Server!Drop
<1>3. CASE Server!OnCancel(m)
  BY <1>1, <1>3 DEF Server!OnCancel, Server!SetCallState
<1>4. CASE Server!OnBusy(m) \/ Server!OnUnavailable(m)
  BY <1>1, <1>4 DEF Server!OnBusy, Server!OnUnavailable, Server!Failed, Server!Drop
<1>5. CASE Server!OnRefer(m)
  <2>1. ~Server!ReferAllowed(sessions[c]) \/ Server!HasSession(c) \/ Server!Drop
    BY <1>1, <1>5 DEF Server!OnRefer
  <2> QED BY <1>1, <1>5 DEF Server!OnRefer, Server!Drop
<1>6. CASE Server!OnOk(m)
  BY <1>1, <1>6 DEF Server!OnOk, Server!Drop
<1>7. CASE Server!OnAck(m)
  BY <1>1, <1>7 DEF Server!OnAck, Server!Drop
<1>8. CASE Server!OnBye(m)
  BY <1>1, <1>8 DEF Server!OnBye, Server!Drop
<1>9. ~Server!OnInvite(m)
  BY DEF Server!OnInvite
<1> QED BY <1>2, <1>3, <1>4, <1>5, <1>6, <1>7, <1>8, <1>9 DEF Server!Handle

\* No handler takes the dest of a session away.
LEMMA DestKept ==
  ASSUME Programs, NEW c \in CallIds, NEW m \in Of(c), Server!Handle(m),
         sessions[c] # None, sessions[c].dest # None, sessions'[c] # None
  PROVE  sessions'[c].dest # None
<1>1. m.callID = c /\ m \in Datagram
  BY DEF Of
<1>2. SP!SessionStep(m)
  <2>1. SP!IInv /\ SP!Handle(m)
    BY ProgramsRun, ServerHandles DEF Server!Handle
  <2> QED BY <1>1, <2>1, PartsAssume, SameSip, SP!HandleEffect DEF SP!Effect
<1>3. sessions \in [CallIds -> OrNone(Server!Session)] /\ sessions[c] \in Server!Session
  BY DEF Programs, ServerKeeps, OrNone
<1>4. CASE sessions' = sessions
  BY <1>4
<1>5. CASE sessions' # sessions
  <2>1. PICK t : sessions' = [sessions EXCEPT ![c] = t] /\ SP!Changed(sessions[c], t)
    BY <1>1, <1>2, <1>5 DEF SP!SessionStep, SP!HasSession
  <2>2. sessions'[c] = t /\ t # None
    BY <1>3, <2>1
  <2>3. None \notin Numbers /\ SP!Numbers = Numbers
    BY SipAssumption, SameSip
  <2>4. t.dest # None
    BY <1>3, <2>1, <2>2, <2>3 DEF SP!Changed, Server!Session
  <2> QED BY <2>2, <2>4
<1> QED BY <1>4, <1>5

\* The server's step on the caller's INVITE.
LEMMA InviteHandled ==
  ASSUME ServerKeeps, Known, NEW c \in CallIds, Server!Handle(Invitation(c))
  PROVE  /\ \A x \in In(sent') : IsOffer(c, x) /\ x.peer = Ivr
         /\ fault' = fault
         /\ sessions[c] # None => sessions' = sessions
         /\ sessions[c] = None =>
              /\ sessions'[c] # None
              /\ sessions'[c].dest = None /\ sessions'[c].referedDest = None
              /\ sessions'[c].state = "Invited"
<1> DEFINE m == Invitation(c)
<1>1. /\ m.type = "INVITE" /\ m.cseq = "INVITE" /\ m.callID = c /\ m.from = c /\ m.to = Ivr
      /\ m.contact = c /\ m.sdp = c /\ m.peer = c
  BY DEF Invitation, Own, Request, Message
<1>0. m = [type |-> "INVITE", cseq |-> "INVITE", callID |-> c, from |-> c, to |-> Ivr,
           contact |-> c, referTo |-> None, sdp |-> c, peer |-> c]
  <2>1. Own("INVITE", c, c, Ivr) =
          [type |-> "INVITE", cseq |-> "INVITE", callID |-> c, from |-> c, to |-> Ivr,
           contact |-> c, referTo |-> None, sdp |-> None, peer |-> c]
    BY DEF Own, Request, Message
  <2> QED BY <2>1 DEF Invitation
<1> HIDE DEF m
<1>2. c # None /\ c \in clients /\ Ivr \in clients /\ c \in Numbers /\ Ivr # None
  BY PartyType, SipAssumption DEF Known, Callers, Numbers
<1>3. Server!OnInvite(m)
  <2>1. Server!Handle(m)
    BY DEF m
  <2> QED BY <1>1, <2>1
          DEF Server!Handle, Server!OnRegister, Server!OnTrying, Server!OnRinging,
              Server!OnCancel, Server!OnReqTerminated, Server!OnBusy, Server!OnUnavailable,
              Server!OnRefer, Server!OnOk, Server!OnAck, Server!OnBye, Server!OnUnknown
<1>4. /\ Server!Emplace(c, Server!NewSession(m))
      /\ Server!Forward(Ivr, Server!SetContact(m, c))
      /\ fault' = fault
  BY <1>1, <1>2, <1>3 DEF Server!OnInvite, Server!Reachable, Server!HasSdp
<1>5. Server!SetContact(m, c) = m
  BY <1>0, <1>1, <1>2 DEF Server!SetContact
<1>6. sent' = <<[m EXCEPT !.peer = Ivr]>>
  BY <1>2, <1>4, <1>5 DEF Server!Forward, Server!Route, Server!EndHandle
<1>7. \A x \in In(sent') : IsOffer(c, x) /\ x.peer = Ivr
  BY <1>0, <1>6, InOne DEF IsOffer
<1>8. sessions[c] # None => sessions' = sessions
  BY <1>4 DEF Server!Emplace, Server!HasSession
<1>9. ASSUME sessions[c] = None
      PROVE  /\ sessions'[c] # None
             /\ sessions'[c].dest = None /\ sessions'[c].referedDest = None
             /\ sessions'[c].state = "Invited"
  <2>1. sessions'[c] = Server!NewSession(m)
    BY <1>4, <1>9 DEF Server!Emplace, Server!HasSession, Server!Put, ServerKeeps
  <2>2. Server!NewSession(m) \in Server!Session
    BY <1>1, <1>2 DEF Server!NewSession, Server!Session, Server!States, Server!OrNone,
       Server!Numbers, Numbers
  <2>3. Server!NewSession(m) # None
    BY <2>2, NoSessionAssumption
  <2> QED BY <2>1, <2>3 DEF Server!NewSession
<1> QED BY <1>4, <1>7, <1>8, <1>9

\* The server's step on the IVR's answer to it.
LEMMA AnswerHandled ==
  ASSUME ServerKeeps, Known, NEW c \in CallIds, NEW m \in Of(c), IsAnswer(c, m),
         Server!Handle(m), sessions[c] # None, sessions[c].referedDest = None,
         sessions[c].state \in {"Invited", "Connected"}
  PROVE  /\ \A x \in In(sent') : IsAnswer(c, x) /\ x.peer = c
         /\ fault' = fault
         /\ sessions'[c] # None
         /\ sessions'[c].dest = Ivr /\ sessions'[c].referedDest = None
         /\ sessions'[c].state = "Connected"
<1>1. /\ m.type = "200" /\ m.cseq = "INVITE" /\ m.callID = c /\ m.from = c /\ m.to = Ivr
      /\ m.contact # None /\ m.sdp # None /\ m \in Datagram
  BY DEF IsAnswer, Of
<1>2. c \in clients /\ Ivr \in clients /\ c \in Numbers /\ Ivr \in Numbers
  BY PartyType, SipAssumption DEF Known, Callers, Numbers
<1>3. Server!OnOk(m)
  BY <1>1 DEF Server!Handle, Server!OnRegister, Server!OnInvite, Server!OnTrying,
     Server!OnRinging, Server!OnCancel, Server!OnReqTerminated, Server!OnBusy,
     Server!OnUnavailable, Server!OnRefer, Server!OnAck, Server!OnBye, Server!OnUnknown
<1>4. Server!OnOkInvite(sessions[c], m) /\ fault' = fault
  BY <1>1, <1>3 DEF Server!OnOk, Server!HasSession
<1>5. Server!Answered(sessions[c], m)
  BY <1>1, <1>2, <1>4 DEF Server!OnOkInvite, Server!HasSdp, Server!AgentAnswered,
     Server!MediaUpdated, Server!Transfered, Server!UpdateMedia
<1>6. sent' = <<[[m EXCEPT !.contact = Ivr] EXCEPT !.peer = c]>>
  BY <1>1, <1>2, <1>5 DEF Server!Answered, Server!Forward, Server!Route, Server!EndHandle,
     Server!SetContact
<1>7. \A x \in In(sent') : IsAnswer(c, x) /\ x.peer = c
  <2> DEFINE x == [[m EXCEPT !.contact = Ivr] EXCEPT !.peer = c]
  <2>1. IsAnswer(c, x) /\ x.peer = c
    BY <1>1, <1>2, SipAssumption DEF IsAnswer, Datagram
  <2>2. sent' = <<x>>
    BY <1>6
  <2> HIDE DEF x
  <2>3. In(sent') = {x}
    BY <2>2, InOne
  <2> QED BY <2>1, <2>3
<1>8. sessions[c] \in Server!Session
  BY DEF ServerKeeps, OrNone
<1>9. sessions'[c] = [sessions[c] EXCEPT !.dest = Ivr, !.state = "Connected"]
  BY <1>1, <1>5 DEF Server!Answered, Server!Connected, Server!Put, ServerKeeps
<1>10. [sessions[c] EXCEPT !.dest = Ivr, !.state = "Connected"] \in Server!Session
  BY <1>2, <1>8 DEF Server!Session, Server!States, Server!OrNone, Server!Numbers, Numbers
<1>11. sessions'[c] # None
  BY <1>9, <1>10, NoSessionAssumption
<1> QED BY <1>4, <1>7, <1>8, <1>9, <1>11 DEF Server!Session

\* The server takes the INVITE in, the first or a repeated one.
LEMMA InviteFresh ==
  ASSUME Kept, NEW c \in CallIds, Early(c), Fresh(c), NEW m, ServerDoes(c, m, c)
  PROVE  Fresh(c)'
<1>1. /\ uplink[c] \in Seq(Datagram) /\ uplink[c] # <<>> /\ m = Head(uplink[c])
      /\ Rising(c, m) /\ Server!Handle(m)
      /\ uplink'[c] = Tail(uplink[c])
      /\ \A n \in Numbers \ {c} : uplink'[n] = uplink[n]
      /\ \A k \in Numbers : In(downlink'[k]) \subseteq
                              In(downlink[k]) \cup {x \in In(sent') : x \in Of(c) /\ x.peer = k}
      /\ reader' = reader /\ rx' = rx /\ phone' = phone /\ dialog' = dialog /\ trouble' = trouble
  BY PartyType DEF ServerDoes, Kept, Up, ivrVars, phoneVars
<1>2. /\ Tail(uplink[c]) \in Seq(Datagram) /\ Len(Tail(uplink[c])) = Len(uplink[c]) - 1
      /\ In(uplink[c]) = {m} \cup In(Tail(uplink[c]))
  BY <1>1, InTail
<1>3. m = Invitation(c) /\ m.type = "INVITE" /\ Invites(c)
  <2>1. m.type = "INVITE"
    <3>1. CASE Invites(c)
      BY <1>1, <3>1 DEF Fresh, First
    <3>2. CASE Unanswered(c)
      BY <1>2, <3>2 DEF Fresh, Waits
    <3>3. phone[c] # "idle"
      BY <1>1 DEF Fresh, Unused
    <3> QED BY <3>1, <3>2, <3>3 DEF Early
  <2> QED BY <1>1, <1>2, <2>1 DEF Rising, Invites
<1>4. /\ \A x \in In(sent') : IsOffer(c, x) /\ x.peer = Ivr
      /\ sessions[c] # None => sessions' = sessions
      /\ sessions[c] = None =>
           /\ sessions'[c] # None
           /\ sessions'[c].dest = None /\ sessions'[c].referedDest = None
           /\ sessions'[c].state = "Invited"
  <2>1. ServerKeeps /\ Known
    BY DEF Kept, Programs
  <2> QED BY <1>1, <1>3, <2>1, InviteHandled
<1>5. sessions'[c] # None /\ phone[c] # "idle"
  BY <1>1, <1>4 DEF Fresh, Unused
<1>6. Untouched(c)' /\ Offered(c)'
  BY <1>1, <1>4 DEF Fresh, Untouched, Offered
<1>7. UpQuiet(c)'
  BY <1>1, <1>5 DEF Fresh, UpQuiet, IsAnswer
<1>8. DownQuiet(c)'
  <2>1. ASSUME NEW n \in Numbers, NEW x \in In(downlink'[n]), x.callID = c
        PROVE  \/ n = Ivr /\ IsOffer(c, x)
               \/ n = c /\ IsAnswer(c, x) /\ sessions'[c].dest # None
    <3>1. CASE x \in In(downlink[n])
      BY <1>4, <2>1, <3>1 DEF Fresh, DownQuiet
    <3>2. CASE x \in In(sent') /\ x.peer = n
      BY <1>4, <3>2
    <3> QED BY <1>1, <2>1, <3>1, <3>2
  <2> QED BY <1>5, <2>1 DEF DownQuiet, IsOffer, IsAnswer
<1>9. Waits(c)'
  <2> SUFFICES ASSUME Unanswered(c)'
               PROVE  /\ phone[c] \in {"idle", "calling", "abandoning"}
                      /\ \A x \in In(uplink'[c]) : x.type = "INVITE"
    BY <1>1, <1>5 DEF Waits
  <2>1. sessions[c] = None \/ Unanswered(c)
    BY <1>4 DEF Unanswered
  <2> QED BY <1>1, <1>2, <2>1 DEF Fresh, Waits
<1>10. First(c)'
  <2> SUFFICES ASSUME Invites(c)'
               PROVE  /\ Head(uplink'[c]).type = "INVITE" /\ trouble # 0
                      /\ \A x \in In(Tail(uplink'[c])) : x.type # "INVITE"
    BY <1>1, <1>5 DEF First
  <2>1. PICK x \in In(uplink'[c]) : x.type = "INVITE"
    BY DEF Invites
  <2>2. x \in In(Tail(uplink[c]))
    BY <1>1, <2>1
  <2>3. sessions[c] = None /\ Len(uplink[c]) <= 2
    BY <1>3, <2>1, <2>2 DEF Fresh, First
  <2>q. PICK q \in Seq(Datagram) : q = uplink[c]
    BY <1>1
  <2>t. PICK t \in Seq(Datagram) : t = Tail(uplink[c])
    BY <1>2
  <2>4. Len(t) = 1 /\ Len(q) = 2
    <3>1. x \in In(t) /\ Len(t) = Len(q) - 1 /\ Len(q) <= 2
      BY <1>2, <2>2, <2>3, <2>q, <2>t
    <3>2. Len(t) # 0
      BY <3>1 DEF In
    <3> QED BY <3>1, <3>2
  <2>5. trouble # 0
    <3>1. Len(q) # 1
      BY <2>4
    <3> QED BY <1>3, <2>q, <3>1 DEF Fresh, First
  <2>6. Head(Tail(uplink[c])) \in In(Tail(uplink[c])) /\ Tail(Tail(uplink[c])) = <<>>
    <3>1. t # <<>>
      <4>1. t = <<>> <=> Len(t) = 0
        BY LenNone
      <4>2. Len(t) # 0
        BY <2>4
      <4> QED BY <4>1, <4>2
    <3>2. /\ In(t) = {Head(t)} \cup In(Tail(t))
          /\ Tail(t) \in Seq(Datagram) /\ Len(Tail(t)) = Len(t) - 1
      BY <3>1, InTail
    <3>3. Len(Tail(t)) = 0
      BY <2>4, <3>2
    <3>4. Tail(t) = <<>>
      BY <3>2, <3>3, LenNone
    <3> QED BY <2>t, <3>2, <3>4
  <2>7. Head(uplink'[c]).type = "INVITE"
    BY <1>1, <1>2, <2>3, <2>6 DEF Fresh, Waits
  <2> QED BY <1>1, <2>5, <2>6, <2>7, InNone
<1> QED BY <1>1, <1>5, <1>6, <1>7, <1>8, <1>9, <1>10 DEF Fresh, Unused

\* The server takes the IVR's answer in.
LEMMA AnswerFresh ==
  ASSUME Kept, NEW c \in CallIds, Early(c), Fresh(c), Early(c)',
         NEW n \in Numbers \ {c}, NEW m, ServerDoes(n, m, c)
  PROVE  Fresh(c)'
<1>1. /\ uplink \in [Numbers -> Seq(Datagram)] /\ uplink[n] # <<>> /\ m = Head(uplink[n])
      /\ m \in Of(c) /\ m.callID = c /\ Server!Handle(m)
      /\ uplink' = [uplink EXCEPT ![n] = Tail(@)]
      /\ \A k \in Numbers : In(downlink'[k]) \subseteq
                              In(downlink[k]) \cup {x \in In(sent') : x \in Of(c) /\ x.peer = k}
      /\ reader' = reader /\ rx' = rx /\ phone' = phone /\ dialog' = dialog /\ trouble' = trouble
  BY DEF ServerDoes, Kept, Up, Of, ivrVars, phoneVars
<1>2. m \in In(uplink[n]) /\ \A k \in Numbers : In(uplink'[k]) \subseteq In(uplink[k])
  BY <1>1, TailLink
<1>3. uplink'[c] = uplink[c]
  BY <1>1, PartyType
<1>4. IsAnswer(c, m) /\ sessions[c] # None
  BY <1>1, <1>2 DEF Fresh, UpQuiet
<1>5. /\ \A x \in In(sent') : IsAnswer(c, x) /\ x.peer = c
      /\ sessions'[c] # None
      /\ sessions'[c].dest = Ivr /\ sessions'[c].referedDest = None
      /\ sessions'[c].state = "Connected"
  <2>1. ServerKeeps /\ Known
    BY DEF Kept, Programs
  <2> QED BY <1>1, <1>4, <2>1, AnswerHandled DEF Fresh, Offered
<1>6. phone[c] # "idle" /\ Ivr # None
  BY <1>4, SipAssumption DEF Fresh, Unused, Numbers
<1>7. Invites(c) /\ ~Unanswered(c)'
  BY <1>1, <1>3, <1>5, <1>6 DEF Early, Invites, Unanswered
<1>8. Untouched(c)' /\ Offered(c)'
  BY <1>1, <1>5 DEF Fresh, Untouched, Offered
<1>9. UpQuiet(c)'
  BY <1>2, <1>5 DEF Fresh, UpQuiet, IsAnswer
<1>10. DownQuiet(c)'
  <2>1. ASSUME NEW k \in Numbers, NEW x \in In(downlink'[k]), x.callID = c
        PROVE  \/ k = Ivr /\ IsOffer(c, x)
               \/ k = c /\ IsAnswer(c, x)
    <3>1. CASE x \in In(downlink[k])
      BY <2>1, <3>1 DEF Fresh, DownQuiet
    <3>2. CASE x \in In(sent') /\ x.peer = k
      BY <1>5, <3>2
    <3> QED BY <1>1, <2>1, <3>1, <3>2
  <2> QED BY <1>5, <1>6, <2>1 DEF DownQuiet, IsOffer, IsAnswer
<1>11. Waits(c)' /\ Unused(c)'
  BY <1>1, <1>5, <1>6, <1>7 DEF Waits, Unused
<1>12. First(c)'
  BY <1>1, <1>3, <1>4, <1>5, <1>7 DEF Fresh, First, Invites
<1> QED BY <1>8, <1>9, <1>10, <1>11, <1>12 DEF Fresh

\* A step of the server for another call.
LEMMA ServerElsewhere ==
  ASSUME Kept, NEW c \in CallIds, Early(c) => Fresh(c), Early(c)',
         NEW n \in Numbers, NEW m, NEW k \in CallIds \ {c}, ServerDoes(n, m, k)
  PROVE  Fresh(c)'
<1>1. /\ uplink \in [Numbers -> Seq(Datagram)] /\ uplink[n] # <<>>
      /\ m = Head(uplink[n]) /\ m.callID = k
      /\ \A d \in CallIds \ {k} : sessions'[d] = sessions[d]
      /\ uplink' = [uplink EXCEPT ![n] = Tail(@)]
      /\ \A j \in Numbers : In(downlink'[j]) \subseteq
                              In(downlink[j]) \cup {x \in In(sent') : x \in Of(k) /\ x.peer = j}
      /\ reader' = reader /\ rx' = rx /\ phone' = phone /\ dialog' = dialog /\ trouble' = trouble
  BY DEF ServerDoes, Kept, Up, Of, ivrVars, phoneVars
<1>2. m \in In(uplink[n]) /\ \A j \in Numbers : In(uplink'[j]) \subseteq In(uplink[j])
  BY <1>1, TailLink
<1>3. n # c
  BY <1>1, <1>2, OwnUplink DEF Kept
<1>4. uplink'[c] = uplink[c]
  BY <1>1, <1>3, PartyType
<1>5. \A x \in Of(k) : x.callID # c
  BY DEF Of
<1>6. \A j \in Numbers : \A x \in In(downlink'[j]) : x.callID = c => x \in In(downlink[j])
  BY <1>1, <1>5
<1>7. Fresh(c) => reader'[c] = "none" /\ rx'.call # c /\ \A a \in Agents : dialog'[a] # c
  BY <1>1 DEF Fresh, Untouched
<1> QED BY <1>1, <1>2, <1>4, <1>6, <1>7, FreshKept

\* The server takes the INVITE in, or the IVR's answer.
LEMMA ServerFresh ==
  ASSUME Kept, NEW c \in CallIds, Early(c) => Fresh(c), Early(c)',
         NEW n \in Numbers, ServerStep(n)
  PROVE  Fresh(c)'
<1>1. PICK m \in Datagram, k \in CallIds : ServerDoes(n, m, k)
  BY ServerStepDoes
<1>2. CASE k # c
  BY <1>1, <1>2, ServerElsewhere
<1>3. CASE k = c
  <2>1. /\ uplink \in [Numbers -> Seq(Datagram)] /\ uplink[n] # <<>>
        /\ m = Head(uplink[n]) /\ m \in Of(c) /\ m.callID = c /\ Rising(n, m)
        /\ Server!Handle(m)
        /\ uplink' = [uplink EXCEPT ![n] = Tail(@)]
        /\ \A j \in Numbers : In(downlink'[j]) \subseteq
                                In(downlink[j]) \cup {x \in In(sent') : x \in Of(c) /\ x.peer = j}
        /\ reader' = reader /\ rx' = rx /\ phone' = phone /\ dialog' = dialog
        /\ trouble' = trouble
    BY <1>1, <1>3 DEF ServerDoes, Kept, Up, Of, ivrVars, phoneVars
  <2>2. m \in In(uplink[n]) /\ \A j \in Numbers : In(uplink'[j]) \subseteq In(uplink[j])
    BY <2>1, TailLink
  <2>3. /\ ServerKeeps /\ Programs /\ Known /\ sessions \in [CallIds -> OrNone(Server!Session)]
        /\ c \in Numbers /\ c # Ivr
    BY PartyType DEF Kept, Programs, ServerKeeps
  <2>4. m.type = "INVITE" => n = c /\ m = Invitation(c)
    <3>1. Invitation(n).callID = n
      BY DEF Invitation, Own, Request, Message
    <3> QED BY <2>1, <3>1 DEF Rising
  <2>5. Early(c)
    <3>1. CASE Unanswered(c)'
      <4>1. CASE sessions[c] = None
        <5>1. m.type = "INVITE"
          BY <2>1, <2>3, <3>1, <4>1, NoSessionMade DEF Unanswered
        <5> QED BY <2>2, <2>4, <5>1 DEF Early, Invites
      <4>2. CASE sessions[c] # None
        BY <2>1, <2>3, <3>1, <4>2, DestKept DEF Early, Unanswered
      <4> QED BY <4>1, <4>2
    <3>2. CASE phone'[c] = "idle" \/ Invites(c)'
      BY <2>1, <2>2, <2>3, <3>2 DEF Early, Invites
    <3> QED BY <3>1, <3>2 DEF Early
  <2>6. CASE n = c
    BY <1>1, <1>3, <2>5, <2>6, InviteFresh
  <2>7. CASE n # c
    BY <1>1, <1>3, <2>5, <2>7, AnswerFresh
  <2> QED BY <2>6, <2>7
<1> QED BY <1>2, <1>3
-----------------------------------------------------------------------------
(***************************************************************************)
(* No REFER finds a session without a dest.                                *)
(***************************************************************************)
\* At first every call is unused.
LEMMA InitSetup == Init => Setup
<1> SUFFICES ASSUME Init, NEW c \in CallIds PROVE Fresh(c)
  BY DEF Setup
<1>1. /\ sessions[c] = None /\ reader[c] = "none" /\ rx.call = None
      /\ \A a \in Agents : dialog[a] = None
      /\ phone[c] = "idle"
      /\ \A n \in Numbers : uplink[n] = <<>> /\ downlink[n] = <<>>
  BY CallFlowAssumption DEF Init, App!Init, App!Idle
<1>2. c \in Numbers /\ c # None
  BY PartyType
<1>3. Untouched(c) /\ Offered(c)
  BY <1>1, <1>2 DEF Untouched, Offered
<1>4. UpQuiet(c) /\ DownQuiet(c)
  BY <1>1, InNone DEF UpQuiet, DownQuiet
<1>5. Waits(c) /\ Unused(c) /\ First(c)
  BY <1>1, <1>2, InNone DEF Waits, Unused, First, Invites
<1> QED BY <1>3, <1>4, <1>5 DEF Fresh

\* A call that is early is fresh after every step.
LEMMA NextSetup ==
  ASSUME MaxTrouble <= 1, Kept, Setup, [Next]_vars
  PROVE  Setup'
<1> SUFFICES ASSUME NEW c \in CallIds, Early(c)' PROVE Fresh(c)'
  BY DEF Setup
<1>1. Early(c) => Fresh(c)
  BY DEF Setup
<1>2. CASE UNCHANGED vars
  <2>1. /\ sessions' = sessions /\ reader' = reader /\ rx' = rx /\ phone' = phone
        /\ dialog' = dialog /\ trouble' = trouble /\ uplink' = uplink /\ downlink' = downlink
    BY <1>2 DEF vars, serverVars, ivrVars, netVars, phoneVars
  <2>2. Fresh(c) => reader'[c] = "none" /\ rx'.call # c /\ \A a \in Agents : dialog'[a] # c
    BY <2>1 DEF Fresh, Untouched
  <2> QED BY <1>1, <2>1, <2>2, FreshKept
<1>3. CASE \E n \in Numbers : ServerStep(n)
  BY <1>1, <1>3, ServerFresh
<1>4. CASE IvrReceives
  BY <1>1, <1>4, IvrReceivesFresh
<1>5. CASE IvrWakes \/ \E k \in CallIds : ReaderSteps(k) \/ PressKey(k)
  BY <1>1, <1>5, IvrRestFresh
<1>6. CASE \E k \in CallIds : Dial(k)
  BY <1>1, <1>6, DialFresh
<1>7. CASE \E k \in CallIds : CallerActs(k)
  <2>1. PICK k \in CallIds : CallerActs(k)
    BY <1>7
  <2>2. CASE k = c
    BY <1>1, <2>1, <2>2, CallerFresh
  <2>3. CASE k # c
    <3>1. PhoneDoes(k, k) /\ dialog' = dialog
      BY <2>1, CallerDoes
    <3>2. k \in Users \ {c} /\ k \in CallIds \ {c}
      BY <2>3, CallFlowAssumption
    <3> QED BY <1>1, <3>1, <3>2, PhoneElsewhere
  <2> QED BY <2>2, <2>3
<1>8. CASE \E a \in Agents : AgentActs(a)
  BY <1>1, <1>8, AgentFresh
<1>9. CASE Trouble
  BY <1>1, <1>9, TroubleFresh
<1> QED BY <1>2, <1>3, <1>4, <1>5, <1>6, <1>7, <1>8, <1>9
        DEF Next, CallerActs, AgentActs, Callers

\* A REFER finds the session of its call answered.
LEMMA ServerSurvives ==
  ASSUME Kept, Setup, NEW n \in Numbers, ServerStep(n)
  PROVE  fault' # "OnRefer"
<1> SUFFICES ASSUME fault' = "OnRefer" PROVE FALSE
  OBVIOUS
<1>1. PICK m \in Datagram, c \in CallIds : ServerDoes(n, m, c)
  BY ServerStepDoes
<1>2. /\ uplink[n] \in Seq(Datagram) /\ uplink[n] # <<>> /\ m = Head(uplink[n])
      /\ m \in Of(c) /\ m.callID = c /\ Server!Handle(m) /\ fault = "none"
  BY <1>1 DEF ServerDoes, Kept, Up, Of, Server!Handle
<1>3. Server!OnRefer(m)
  BY <1>2 DEF Server!Handle, Server!OnRegister, Server!OnInvite, Server!OnTrying,
     Server!OnRinging, Server!OnCancel, Server!OnReqTerminated, Server!OnBusy, Server!Failed,
     Server!OnUnavailable, Server!OnOk, Server!OnAck, Server!OnBye, Server!OnUnknown
<1>4. m.type = "REFER" /\ Unanswered(c)
  BY <1>2, <1>3 DEF Server!OnRefer, Server!HasSession, Unanswered
<1>5. Fresh(c)
  BY <1>4 DEF Setup, Early
<1>6. m \in In(uplink[n])
  BY <1>2, InTail
<1>7. CASE n = c
  BY <1>4, <1>5, <1>6, <1>7 DEF Fresh, Waits
<1>8. CASE n # c
  BY <1>2, <1>4, <1>5, <1>6, <1>8 DEF Fresh, UpQuiet, IsAnswer
<1> QED BY <1>7, <1>8

\* The IVR fails in its own handlers.
LEMMA IvrStepSurvives ==
  ASSUME Kept, IvrReceives \/ IvrWakes \/ \E k \in CallIds : ReaderSteps(k) \/ PressKey(k)
  PROVE  fault' = "none" \/ fault' \in AppFaults
<1>1. CASE IvrReceives
  <2>1. PICK m \in Datagram : App!Receive(m)
    BY <1>1, IvrReceivesDoes
  <2> QED BY <1>1, <2>1, AppRuns DEF Kept, IvrReceives
<1>2. CASE IvrWakes
  BY <1>2, AppRuns DEF Kept, IvrWakes
<1>3. CASE \E k \in CallIds : ReaderSteps(k) \/ PressKey(k)
  BY <1>3, AppRuns DEF Kept, ReaderSteps, PressKey
<1> QED BY <1>1, <1>2, <1>3

\* Nothing else can fail with it.
LEMMA NextSurvives ==
  ASSUME Kept, Setup, ReferFindsDest, [Next]_vars
  PROVE  ReferFindsDest'
<1>1. CASE UNCHANGED vars
  BY <1>1 DEF vars, ReferFindsDest
<1>2. CASE \E n \in Numbers : ServerStep(n)
  BY <1>2, ServerSurvives DEF ReferFindsDest
<1>3. CASE IvrReceives \/ IvrWakes \/ \E k \in CallIds : ReaderSteps(k) \/ PressKey(k)
  <2>1. fault' = "none" \/ fault' \in AppFaults
    BY <1>3, IvrStepSurvives
  <2> QED BY <2>1 DEF AppFaults, ReferFindsDest
<1>4. CASE (\E k \in CallIds : Dial(k) \/ CallerActs(k)) \/ \E a \in Agents : AgentActs(a)
  <2>1. Apart
    BY <1>4, DialDoes, CallerDoes, AgentDoes DEF PhoneDoes
  <2> QED BY <2>1 DEF Apart, ReferFindsDest
<1>5. CASE Trouble
  BY <1>5 DEF Trouble, ReferFindsDest
<1> QED BY <1>1, <1>2, <1>3, <1>4, <1>5 DEF Next, CallerActs, AgentActs, Callers

\* On a network that loses, repeats or swaps one datagram at most the server is
\* never crashed by a REFER (RequestsHandler::OnRefer reads the dest of the
\* session), however many callers, agents and keys there are.
THEOREM ReferFound ==
  ASSUME MaxTrouble <= 1
  PROVE  Spec => []ReferFindsDest
<1> DEFINE Inv == Kept /\ Setup /\ ReferFindsDest
<1>1. Init => Inv
  <2>1. Init => ReferFindsDest
    BY DEF Init, App!Init, ReferFindsDest
  <2> QED BY <2>1, InitKept, InitSetup
<1>2. Inv /\ [Next]_vars => Inv'
  BY NextKept, NextSetup, NextSurvives
<1>3. Inv => ReferFindsDest
  OBVIOUS
<1> QED BY <1>1, <1>2, <1>3, PTL DEF Spec
=============================================================================
