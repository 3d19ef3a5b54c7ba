------------------------ MODULE IvrApplicationProofs ------------------------
(***************************************************************************)
(* What holds of the IVR application for every set of calls, agents and    *)
(* datagrams: its sessions, readers and media go together.                 *)
(*                                                                         *)
(* None of it is inductive alone.  A handler that sleeps goes on with the  *)
(* call it slept for, and a reader sends what it prepared: RxHasCall and   *)
(* ReferReady say that these are still there.                              *)
(***************************************************************************)
EXTENDS IvrApplication, TLAPS

\* The receiver sleeps for a call that exists; nobody else removes one.
RxHasCall ==
  /\ rx.at # "idle" => rx.call \in CallIds
  /\ rx.at \in {"announcing", "redirecting"} => HasCall(rx.call)

\* The REFER that a reader is about to send has been built.
ReferReady == \A c \in CallIds : reader[c] = "refer" => pending[c] \in Datagram

Tidy == RxHasCall /\ ReferReady /\ NoOrphans /\ CallHasMedia

IInv == TypeOK /\ Tidy

USE DEF Tidy
-----------------------------------------------------------------------------
(***************************************************************************)
(* The parts that handlers are made of.                                    *)
(***************************************************************************)
\* A made-up request is a datagram, with or without Contact and Refer-To.
LEMMA RequestType ==
  ASSUME NEW method \in Methods, NEW c \in CallIds, NEW from \in Numbers,
         NEW to \in Numbers, NEW peer \in Numbers, NEW contact \in Numbers,
         NEW referTo \in OrNone(Numbers)
  PROVE  /\ [Request(method, c, from, to, peer) EXCEPT !.contact = contact] \in Datagram
         /\ [Request(method, c, from, to, peer)
               EXCEPT !.contact = contact, !.referTo = referTo] \in Datagram
BY DEF Request, Message, Datagram, Types, OrNone

\* What is sent is a datagram.
LEMMA SendType ==
  ASSUME NEW m \in Datagram, Send(m)
  PROVE  sent' \in Seq(Datagram)
BY DEF Send, Datagram, Numbers

\* A call that exists is a session.
LEMMA CallType ==
  ASSUME TypeOK, NEW c \in CallIds, HasCall(c)
  PROVE  calls[c] \in CallSession
BY DEF TypeOK, HasCall, OrNone

\* setState keeps every call a call, and none appears or goes.
LEMMA StateKeepsCalls ==
  ASSUME TypeOK, NEW c \in CallIds, HasCall(c), NEW st \in CallStates, SetState(c, st)
  PROVE  /\ calls' \in [CallIds -> OrNone(CallSession)]
         /\ \A d \in CallIds : HasCall(d)' <=> HasCall(d)
<1>1. [calls[c] EXCEPT !.state = st] \in CallSession
  BY CallType DEF CallSession
<1>2. calls' = [calls EXCEPT ![c] = [calls[c] EXCEPT !.state = st]]
  BY DEF SetState
<1> QED BY <1>1, <1>2, NoSessionAssumption DEF TypeOK, HasCall, OrNone

\* Readers in the map are disturbed, no reader comes, goes or gets to refer.
LEMMA MapChangesReaders ==
  ASSUME TypeOK, MapChanges
  PROVE  /\ reader' \in [CallIds -> ReaderStates]
         /\ \A c \in CallIds : /\ reader'[c] = "none" <=> reader[c] = "none"
                               /\ reader'[c] = "refer" => reader[c] = "refer"
BY DEF TypeOK, MapChanges, ReaderStates

\* Setting an announcement.
LEMMA PlaysType ==
  ASSUME TypeOK, NEW c \in CallIds, NEW file \in Announcements, Plays(c, file)
  PROVE  playing' \in [CallIds -> OrNone(Announcements)]
BY DEF TypeOK, Plays, OrNone

\* A step that leaves sessions, readers and receiver as they are.
LEMMA SameKeepsTidy ==
  ASSUME Tidy, UNCHANGED <<calls, media, reader, pending, rx>>
  PROVE  Tidy'
BY DEF RxHasCall, ReferReady, NoOrphans, CallHasMedia, HasCall, TearingDown

LEMMA IgnoreKeeps ==
  ASSUME IInv, Ignore
  PROVE  IInv'
BY SameKeepsTidy DEF IInv, Ignore, TypeOK

LEMMA CrashKeeps ==
  ASSUME IInv, NEW where \in {"OnInvite", "OnAck", "OnUnavailable", "onDTMFEvent",
                              "findSession", "setPbSourceFile"},
         Crash(where)
  PROVE  IInv'
BY SameKeepsTidy DEF IInv, Crash, TypeOK
-----------------------------------------------------------------------------
(***************************************************************************)
(* The handlers.                                                           *)
(***************************************************************************)
\* A new call gets its media session in the same handler, or goes again.
LEMMA OnInviteKeeps ==
  ASSUME IInv, NEW m \in Datagram, rx = Idle, OnInvite(m)
  PROVE  IInv'
<1> DEFINE c == m.callID
<1> USE DEF IInv
<1>0. c \in CallIds /\ m.from \in Numbers /\ Ivr \in Numbers
  BY DEF Datagram, Numbers
<1>1. CASE Crash("OnInvite")
  BY <1>1, CrashKeeps
<1>2. CASE Ignore
  BY <1>2, IgnoreKeeps
<1>3. CASE Refused(m)
  <2>1. TypeOK'
    BY <1>3, MapChangesReaders DEF Refused, TypeOK
  <2>2. Tidy'
    BY <1>3, MapChangesReaders
    DEF Refused, RxHasCall, ReferReady, NoOrphans, CallHasMedia, HasCall, TearingDown
  <2> QED BY <2>1, <2>2
<1>4. CASE /\ calls' = [calls EXCEPT ![c] = NewCall(m)]
           /\ media' = [media EXCEPT ![c] = "open"]
           /\ playing' = [playing EXCEPT ![c] = None]
           /\ Send([m EXCEPT !.type = "200", !.to = Ivr, !.contact = Ivr, !.sdp = Ivr])
           /\ MapChanges
           /\ UNCHANGED <<running, pending, rx, fault>>
  <2>1. NewCall(m) \in CallSession
    BY <1>0 DEF NewCall, CallSession, CallStates
  <2>2. [m EXCEPT !.type = "200", !.to = Ivr, !.contact = Ivr, !.sdp = Ivr] \in Datagram
    BY <1>0 DEF Datagram, Types, Responses, OrNone
  <2>3. TypeOK'
    BY <1>0, <1>4, <2>1, <2>2, SendType, MapChangesReaders DEF TypeOK, OrNone
  <2>4. \A d \in CallIds : HasCall(d)' <=> d = c \/ HasCall(d)
    BY <1>0, <1>4, <2>1, NoSessionAssumption DEF HasCall, TypeOK
  <2>5. RxHasCall' /\ ReferReady'
    BY <1>4, MapChangesReaders DEF RxHasCall, ReferReady, Idle
  <2>6. NoOrphans'
    BY <1>0, <1>4, <2>4, MapChangesReaders DEF NoOrphans, TearingDown, TypeOK
  <2>7. CallHasMedia'
    BY <1>0, <1>4, <2>4 DEF CallHasMedia, TypeOK
  <2> QED BY <2>3, <2>5, <2>6, <2>7
<1> QED BY <1>1, <1>2, <1>3, <1>4 DEF OnInvite

\* A reader starts only for a call.
LEMMA OnAckKeeps ==
  ASSUME IInv, NEW m \in Datagram, rx = Idle, OnAck(m)
  PROVE  IInv'
<1> DEFINE c == m.callID
<1> USE DEF IInv
<1>0. c \in CallIds
  BY DEF Datagram
<1>1. CASE Ignore
  BY <1>1, IgnoreKeeps
<1>2. CASE Crash("OnAck")
  BY <1>2, CrashKeeps
<1>3. CASE /\ HasCall(c)
           /\ SetState(c, "Connected")
           /\ Plays(c, "welcome")
           /\ reader' = [reader EXCEPT ![c] = "polling"]
           /\ running' = [running EXCEPT ![c] = TRUE]
           /\ sent' = <<>>
           /\ UNCHANGED <<media, pending, rx, fault>>
  <2>1. /\ calls' \in [CallIds -> OrNone(CallSession)]
        /\ \A d \in CallIds : HasCall(d)' <=> HasCall(d)
    BY <1>0, <1>3, StateKeepsCalls DEF CallStates
  <2>2. TypeOK'
    <3>1. playing' \in [CallIds -> OrNone(Announcements)]
      BY <1>0, <1>3, PlaysType DEF Announcements
    <3>2. reader' \in [CallIds -> ReaderStates]
      BY <1>0, <1>3 DEF TypeOK, ReaderStates
    <3>3. running' \in [CallIds -> BOOLEAN]
      BY <1>0, <1>3 DEF TypeOK
    <3> QED BY <1>3, <2>1, <3>1, <3>2, <3>3 DEF TypeOK
  <2>3. RxHasCall' /\ ReferReady'
    BY <1>0, <1>3, <2>1 DEF RxHasCall, ReferReady, Idle, TypeOK
  <2>4. NoOrphans' /\ CallHasMedia'
    BY <1>0, <1>3, <2>1 DEF NoOrphans, CallHasMedia, TearingDown, TypeOK
  <2> QED BY <2>2, <2>3, <2>4
<1> QED BY <1>1, <1>2, <1>3 DEF OnAck

\* A handler that announces something to a call, and goes to sleep for it.
LEMMA SleepKeeps ==
  ASSUME IInv, NEW c \in CallIds, rx = Idle, HasCall(c), NEW st \in CallStates,
         NEW file \in Announcements, NEW at \in {"announcing", "redirecting"},
         SetState(c, st), Plays(c, file), Busy(at, c), sent' = <<>>,
         ReaderUnchanged, UNCHANGED <<media, fault>>
  PROVE  IInv'
<1> USE DEF IInv, ReaderUnchanged
<1>1. /\ calls' \in [CallIds -> OrNone(CallSession)]
      /\ \A d \in CallIds : HasCall(d)' <=> HasCall(d)
  BY StateKeepsCalls
<1>2. rx' \in [at : RxStates, call : OrNone(CallIds)] /\ rx'.call = c
  BY DEF Busy, RxStates, OrNone
<1>3. TypeOK'
  BY <1>1, <1>2, PlaysType DEF TypeOK
<1>4. RxHasCall' /\ ReferReady'
  BY <1>1, <1>2 DEF RxHasCall, ReferReady
<1>5. NoOrphans' /\ CallHasMedia'
  BY <1>1 DEF NoOrphans, CallHasMedia, TearingDown, Idle
<1> QED BY <1>3, <1>4, <1>5

\* The failures, and the acceptance of a referral.
LEMMA OutcomeKeeps ==
  ASSUME IInv, NEW m \in Datagram, rx = Idle,
         OnBusy(m) \/ OnUnavailable(m) \/ OnReferAccepted(m)
  PROVE  IInv'
<1> DEFINE c == m.callID
<1>0. c \in CallIds
  BY DEF Datagram
<1>1. CASE Ignore
  BY <1>1, IgnoreKeeps
<1>2. CASE Crash("OnUnavailable") \/ Overwritten(c)
  BY <1>2, CrashKeeps DEF Overwritten
<1>3. CASE /\ HasCall(c)
           /\ SetState(c, "Busy") \/ SetState(c, "Unavailable")
           /\ Plays(c, "agent_busy") /\ Busy("announcing", c)
           /\ sent' = <<>> /\ ReaderUnchanged /\ UNCHANGED <<media, fault>>
  BY <1>0, <1>3, SleepKeeps DEF CallStates, Announcements
<1>4. CASE /\ HasCall(c)
           /\ SetState(c, "Referring")
           /\ Plays(c, "redirecting") /\ Busy("redirecting", c)
           /\ sent' = <<>> /\ ReaderUnchanged /\ UNCHANGED <<media, fault>>
  BY <1>0, <1>4, SleepKeeps DEF CallStates, Announcements
<1> QED BY <1>1, <1>2, <1>3, <1>4
        DEF OnBusy, OnUnavailable, Announce, OnReferAccepted, StartsReferring

\* The call session goes, and the receiver waits for the call's reader.
LEMMA EndCallKeeps ==
  ASSUME IInv, NEW m \in Datagram, rx = Idle, EndCall(m)
  PROVE  IInv'
<1> DEFINE c == m.callID
<1> USE DEF IInv
<1>0. c \in CallIds
  BY DEF Datagram
<1>1. CASE Ignore
  BY <1>1, IgnoreKeeps
<1>2. CASE /\ Send([m EXCEPT !.type = "200"])
           /\ calls' = [calls EXCEPT ![c] = None]
           /\ MapChanges
           /\ StopReadDTMF(c)
           /\ UNCHANGED <<media, pending, playing, fault>>
  <2>1. [m EXCEPT !.type = "200"] \in Datagram
    BY DEF Datagram, Types, Responses
  <2>2. rx' = [at |-> "joining", call |-> c]
    BY <1>2 DEF StopReadDTMF, Busy
  <2>3. rx' \in [at : RxStates, call : OrNone(CallIds)]
    BY <1>0, <2>2 DEF RxStates, OrNone
  <2>4. TypeOK'
    BY <1>0, <1>2, <2>1, <2>3, SendType, MapChangesReaders DEF TypeOK, StopReadDTMF, OrNone
  <2>5. \A d \in CallIds : HasCall(d)' <=> d # c /\ HasCall(d)
    BY <1>0, <1>2 DEF HasCall, TypeOK
  <2>6. RxHasCall' /\ ReferReady'
    BY <1>0, <1>2, <2>2, MapChangesReaders DEF RxHasCall, ReferReady
  <2>7. NoOrphans'
    BY <1>2, <2>2, <2>5, MapChangesReaders DEF NoOrphans, TearingDown, Idle
  <2>8. CallHasMedia'
    BY <1>2, <2>5 DEF CallHasMedia
  <2> QED BY <2>4, <2>6, <2>7, <2>8
<1> QED BY <1>1, <1>2 DEF EndCall

LEMMA ReceiveKeeps ==
  ASSUME IInv, NEW m \in Datagram, Receive(m)
  PROVE  IInv'
BY OnInviteKeeps, OnAckKeeps, OutcomeKeeps, EndCallKeeps, IgnoreKeeps
   DEF Receive, OnBye, OnOk, OnNothing
-----------------------------------------------------------------------------
(***************************************************************************)
(* The rest of the handlers.                                               *)
(***************************************************************************)
\* The call for which the receiver slept is still there, and is told goodbye.
LEMMA AnnouncedKeeps ==
  ASSUME IInv, Announced
  PROVE  IInv'
<1> USE DEF IInv
<1>1. /\ rx.call \in CallIds /\ HasCall(rx.call)
      /\ rx' = [at |-> "joining", call |-> rx.call]
  BY DEF Announced, RxHasCall, StopReadDTMF, Busy
<1>2. Bye(rx.call) \in Datagram
  <2>1. calls[rx.call].src \in Numbers /\ Ivr \in Numbers
    BY <1>1, CallType DEF CallSession, Numbers
  <2> QED BY <1>1, <2>1, RequestType DEF Bye, Methods, OrNone
<1>3. rx' \in [at : RxStates, call : OrNone(CallIds)]
  BY <1>1 DEF RxStates, OrNone
<1>4. TypeOK'
  BY <1>1, <1>2, <1>3, SendType DEF Announced, StopReadDTMF, TypeOK
<1>5. RxHasCall' /\ ReferReady'
  BY <1>1 DEF RxHasCall, ReferReady, Announced
<1>6. NoOrphans' /\ CallHasMedia'
  BY <1>1 DEF NoOrphans, CallHasMedia, TearingDown, HasCall, Announced
<1> QED BY <1>4, <1>5, <1>6

\* Music follows, and the receiver is back at its socket.
LEMMA RedirectedKeeps ==
  ASSUME IInv, Redirected
  PROVE  IInv'
<1> USE DEF IInv
<1>1. CASE Overwritten(rx.call)
  BY <1>1, CrashKeeps DEF Overwritten
<1>2. CASE /\ Plays(rx.call, "holding")
           /\ rx' = Idle
           /\ sent' = <<>>
           /\ ReaderUnchanged
           /\ UNCHANGED <<calls, media, fault>>
  <2>1. rx.call \in CallIds /\ rx.at = "redirecting"
    BY DEF Redirected, RxHasCall
  <2>2. TypeOK'
    BY <1>2, <2>1, PlaysType DEF TypeOK, Announcements, Idle, RxStates, OrNone, ReaderUnchanged
  <2>3. RxHasCall' /\ ReferReady'
    BY <1>2 DEF RxHasCall, ReferReady, Idle, ReaderUnchanged
  <2>4. NoOrphans' /\ CallHasMedia'
    BY <1>2, <2>1 DEF NoOrphans, CallHasMedia, TearingDown, HasCall, ReaderUnchanged
  <2> QED BY <2>2, <2>3, <2>4
<1> QED BY <1>1, <1>2 DEF Redirected

\* The reader is joined before the media session is closed.
LEMMA JoinedKeeps ==
  ASSUME IInv, Joined
  PROVE  IInv'
<1> USE DEF IInv
<1>1. rx.call \in CallIds /\ rx.at = "joining" /\ rx' = Idle
  BY DEF Joined, RxHasCall
<1>2. TypeOK'
  BY <1>1 DEF Joined, TypeOK, ReaderStates, Idle, RxStates, OrNone
<1>3. RxHasCall' /\ ReferReady'
  BY <1>1 DEF Joined, RxHasCall, ReferReady, Idle, TypeOK
<1>4. NoOrphans'
  BY <1>1 DEF Joined, NoOrphans, TearingDown, HasCall, TypeOK
<1>5. CallHasMedia'
  BY <1>1 DEF Joined, CallHasMedia, HasCall, TypeOK
<1> QED BY <1>2, <1>3, <1>4, <1>5
-----------------------------------------------------------------------------
(***************************************************************************)
(* The readers.                                                            *)
(***************************************************************************)
\* A reader that goes on, without a REFER to send.
LEMMA GotoKeeps ==
  ASSUME IInv, NEW c \in CallIds, NEW at \in ReaderStates \ {"none", "refer"},
         reader[c] # "none", Goto(c, at), sent' \in Seq(Datagram),
         playing' \in [CallIds -> OrNone(Announcements)],
         pending' = pending \/ pending' = [pending EXCEPT ![c] = None],
         UNCHANGED <<calls, media, running, rx, fault>>
  PROVE  IInv'
<1> USE DEF IInv
<1>1. TypeOK'
  BY DEF Goto, TypeOK, OrNone
<1>2. RxHasCall' /\ ReferReady'
  BY DEF Goto, RxHasCall, ReferReady, HasCall, TypeOK
<1>3. NoOrphans' /\ CallHasMedia'
  BY DEF Goto, NoOrphans, CallHasMedia, HasCall, TearingDown, TypeOK
<1> QED BY <1>1, <1>2, <1>3

\* onDTMFEvent: the REFER names the caller of a call that was found.
LEMMA OnDTMFEventKeeps ==
  ASSUME IInv, NEW c \in CallIds, OnDTMFEvent(c)
  PROVE  IInv'
<1> USE DEF IInv
<1>0. reader[c] # "none" /\ playing \in [CallIds -> OrNone(Announcements)]
      /\ <<>> \in Seq(Datagram)
  BY DEF OnDTMFEvent, TypeOK
<1>1. CASE LookupFails(c)
  BY <1>1, CrashKeeps DEF LookupFails
<1>2. CASE /\ \E at \in {"polling", "replay", "refuse"} : Goto(c, at)
           /\ UNCHANGED <<pending, calls, media, running, playing, rx, fault>>
           /\ sent' = <<>>
  BY <1>0, <1>2, GotoKeeps DEF ReaderStates
<1>3. ASSUME NEW a \in Agents, StillConnected(c), Goto(c, "refer"),
             pending' = [pending EXCEPT ![c] = Refer(c, a)], sent' = <<>>,
             UNCHANGED <<calls, media, running, playing, rx, fault>>
      PROVE  IInv'
  <2>1. Refer(c, a) \in Datagram
    <3>1. calls[c].src \in Numbers /\ Ivr \in Numbers /\ a \in Numbers
      BY <1>3, CallType, IvrAssumption DEF StillConnected, CallSession, Numbers
    <3> QED BY <3>1, RequestType DEF Refer, Methods, OrNone
  <2>2. TypeOK'
    BY <1>3, <2>1 DEF Goto, TypeOK, ReaderStates, OrNone
  <2>3. RxHasCall' /\ ReferReady'
    BY <1>3, <2>1 DEF Goto, RxHasCall, ReferReady, HasCall, TypeOK
  <2>4. NoOrphans' /\ CallHasMedia'
    BY <1>0, <1>3 DEF Goto, NoOrphans, CallHasMedia, HasCall, TearingDown, TypeOK
  <2> QED BY <2>2, <2>3, <2>4
<1> QED BY <1>1, <1>2, <1>3 DEF OnDTMFEvent, Choose

\* The other steps of a reader.
LEMMA ReaderKeeps ==
  ASSUME IInv, NEW c \in CallIds, ReadDTMF(c) \/ ReaderStep(c)
  PROVE  IInv'
<1> USE DEF IInv
<1>0. playing \in [CallIds -> OrNone(Announcements)] /\ <<>> \in Seq(Datagram)
  BY DEF TypeOK
<1>1. CASE ReadDTMF(c) \/ InvalidChosen(c) \/ Exit(c)
  BY <1>0, <1>1, GotoKeeps DEF ReadDTMF, InvalidChosen, Exit, ReaderStates
<1>2. CASE ReplayGuide(c) \/ InvalidChoose(c) \/ RestoreGuide(c)
  BY <1>0, <1>2, PlaysType, GotoKeeps
  DEF ReplayGuide, InvalidChoose, RestoreGuide, Replays, Announcements, ReaderStates
<1>3. CASE MakeRefer(c)
  <2>1. sent' \in Seq(Datagram)
    BY <1>3, SendType DEF MakeRefer, ReferReady
  <2> QED BY <1>0, <1>3, <2>1, GotoKeeps DEF MakeRefer, ReaderStates
<1> QED BY <1>1, <1>2, <1>3, OnDTMFEventKeeps DEF ReaderStep

\* The registration touches no call.
LEMMA RegisterKeeps ==
  ASSUME IInv, NEW c \in CallIds, Register(c)
  PROVE  IInv'
<1> USE DEF IInv
<1>1. sent' \in Seq(Datagram)
  BY RequestType, SendType DEF Register, Methods, Numbers, OrNone
<1> QED BY <1>1, SameKeepsTidy DEF Register, TypeOK
-----------------------------------------------------------------------------
(***************************************************************************)
(* The theorems.                                                           *)
(***************************************************************************)
LEMMA InitInv == Init => IInv
BY DEF Init, IInv, TypeOK, RxHasCall, ReferReady, NoOrphans, CallHasMedia, HasCall,
   OrNone, Idle, RxStates, ReaderStates

LEMMA NextInv ==
  ASSUME IInv, [Next]_vars
  PROVE  IInv'
<1>1. CASE UNCHANGED vars
  BY <1>1, SameKeepsTidy DEF vars, IInv, TypeOK
<1>2. CASE \E m \in Wire : Receive(m)
  BY <1>2, IvrAssumption, ReceiveKeeps
<1>3. CASE Announced \/ Redirected \/ Joined
  BY <1>3, AnnouncedKeeps, RedirectedKeeps, JoinedKeeps
<1>4. CASE \E c \in CallIds : ReadDTMF(c) \/ ReaderStep(c) \/ Register(c)
  BY <1>4, ReaderKeeps, RegisterKeeps
<1> QED BY <1>1, <1>2, <1>3, <1>4 DEF Next

\* The invariant of the IVR application, for every set of calls, agents and
\* datagrams.
THEOREM Invariance == Spec => []IInv
BY InitInv, NextInv, PTL DEF Spec

\* What the IVR sends is complete, and so is every session.
THEOREM TypeCorrect == Spec => []TypeOK
<1>1. IInv => TypeOK
  BY DEF IInv
<1> QED BY <1>1, Invariance, PTL

\* No reader thread and no media session outlives its call, except while the
\* receiver waits for that very reader and will then close that very session.
THEOREM NothingOrphaned == Spec => []NoOrphans
<1>1. IInv => NoOrphans
  BY DEF IInv
<1> QED BY <1>1, Invariance, PTL

\* Every call has had a media session, which onDTMFEvent, OnBusy and
\* OnReferAccepted go on to use.
THEOREM CallsHaveMedia == Spec => []CallHasMedia
<1>1. IInv => CallHasMedia
  BY DEF IInv
<1> QED BY <1>1, Invariance, PTL
=============================================================================
