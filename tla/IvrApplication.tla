--------------------------- MODULE IvrApplication ---------------------------
(***************************************************************************)
(* The IVR application: gstivr::Application, its DTMFHandler, and the call *)
(* and media sessions it keeps.                                            *)
(*                                                                         *)
(* Its threads are the receiver, which runs a handler to the end before it *)
(* takes the next datagram off the socket and which some handlers put to   *)
(* sleep, the thread that registers the IVR every minute, and, for every   *)
(* started media session, a reader that polls the media server for DTMF    *)
(* events and runs DTMFHandler::onDTMFEvent on each.  No lock is held      *)
(* between two of these steps, nor inside them: a reader goes through the  *)
(* map of calls, and sets the announcement of its media session, while the *)
(* receiver may be changing the same map or the same string.               *)
(***************************************************************************)
EXTENDS Sip, Sequences

CONSTANTS Agents,    \* the numbers behind the keys 1 to 5
          Wire       \* the datagrams the server may send to the IVR

ASSUME IvrAssumption ==
  /\ Agents \subseteq Users
  /\ Wire \subseteq Datagram

VARIABLES calls,     \* SessionManager: Call-ID -> call session, None if there is none
          media,     \* Call-ID -> "none", "open" (in MediaManager) or "closed"
          reader,    \* Call-ID -> where the DTMF reader thread of the call is
          running,   \* Call-ID -> _readDTMFThreadRunning
          pending,   \* Call-ID -> the REFER the reader is about to send
          playing,   \* Call-ID -> the announcement of its media session
          rx,        \* what the receiver thread is doing, and for which call
          sent,      \* the datagrams sent by the last step
          fault      \* the function that crashed the process, or "none"

vars == <<calls, media, reader, running, pending, playing, rx, sent, fault>>

CallStates == {"Connected", "Busy", "Unavailable", "Referring"}

CallSession == [state : CallStates, src : Numbers]

ASSUME NoSessionAssumption == None \notin CallSession

\* "event" is inside findSession, "raced" inside it while the map was changed;
\* "replay", "refuse" and "restore" are about to set an announcement.
ReaderStates == {"none", "polling", "event", "raced", "refer", "replay", "refuse",
                 "invalid", "restore", "exited"}

\* welcome.wav, selection_unavailable.wav, redirecting.wav,
\* phone_holding_music.wav and agent_busy.wav.
Announcements == {"welcome", "invalid", "redirecting", "holding", "agent_busy"}

RxStates == {"idle", "announcing", "redirecting", "joining"}

TypeOK ==
  /\ calls \in [CallIds -> OrNone(CallSession)]
  /\ media \in [CallIds -> {"none", "open", "closed"}]
  /\ reader \in [CallIds -> ReaderStates]
  /\ running \in [CallIds -> BOOLEAN]
  /\ pending \in [CallIds -> OrNone(Datagram)]
  /\ playing \in [CallIds -> OrNone(Announcements)]
  /\ rx \in [at : RxStates, call : OrNone(CallIds)]
  /\ sent \in Seq(Datagram)
  /\ fault \in {"none", "OnInvite", "OnAck", "OnUnavailable", "onDTMFEvent",
               "findSession", "setPbSourceFile"}

Idle == [at |-> "idle", call |-> None]

Init ==
  /\ calls = [c \in CallIds |-> None]
  /\ media = [c \in CallIds |-> "none"]
  /\ reader = [c \in CallIds |-> "none"]
  /\ running = [c \in CallIds |-> FALSE]
  /\ pending = [c \in CallIds |-> None]
  /\ playing = [c \in CallIds |-> None]
  /\ rx = Idle
  /\ sent = <<>>
  /\ fault = "none"
-----------------------------------------------------------------------------
(***************************************************************************)
(* As in SipServer, a definition that no other refers to, followed by one  *)
(* with the same parameters, is a fault the properties are known to        *)
(* detect.                                                                 *)
(***************************************************************************)
HasCall(c) == calls[c] # None

SetState(c, st) == calls' = [calls EXCEPT ![c].state = st]

\* Everything the IVR sends goes to the server from its own socket.
Send(m) == sent' = <<[m EXCEPT !.peer = Ivr]>>

Busy(at, c) == rx' = [at |-> at, call |-> c]

ReaderUnchanged == UNCHANGED <<reader, running, pending>>

\* The map of calls changes under every reader that is going through it.
MapChanges ==
  reader' = [c \in CallIds |-> IF reader[c] = "event" THEN "raced" ELSE reader[c]]

\* setPbSourceFile and the update request that carries it.
Plays(c, file) == playing' = [playing EXCEPT ![c] = file]

\* The reader of call c is where it writes the same string.
SettingFile(c) == reader[c] \in {"replay", "refuse", "restore"}

\* stopReadDTMF: clear the flag, wait for the thread.
StopWithoutJoin(c) == running' = [running EXCEPT ![c] = FALSE] /\ UNCHANGED rx
JoinWithoutStop(c) == Busy("joining", c) /\ UNCHANGED running
StopReadDTMF(c) == running' = [running EXCEPT ![c] = FALSE] /\ Busy("joining", c)

Ignore ==
  sent' = <<>> /\ UNCHANGED <<calls, media, reader, running, pending, playing, rx, fault>>

Crash(where) ==
  /\ fault' = where
  /\ sent' = <<>>
  /\ UNCHANGED <<calls, media, reader, running, pending, playing, rx>>

\* The receiver sets the announcement.  Two threads in one string: it ends up
\* as either wrote it, or the process does not survive.
Overwritten(c) == SettingFile(c) /\ Crash("setPbSourceFile")
-----------------------------------------------------------------------------
(***************************************************************************)
(* The handlers, run by the receiver thread.                               *)
(***************************************************************************)
NewCallInvited(m) == [state |-> "Invited", src |-> m.from]
NewCall(m) == [state |-> "Connected", src |-> m.from]

\* The media server refuses the session: the caller gets no response, and the
\* call that was put into the map is taken out again.
RefusedButKept(m) ==
  /\ calls' = [calls EXCEPT ![m.callID] = NewCall(m)]
  /\ sent' = <<>>
  /\ MapChanges
  /\ UNCHANGED <<media, running, pending, playing, rx, fault>>
Refused(m) ==
  /\ sent' = <<>>
  /\ MapChanges
  /\ UNCHANGED <<calls, media, running, pending, playing, rx, fault>>

OnInvite(m) ==
  /\ m.type = "INVITE"
  /\ \/ m.sdp = None /\ Crash("OnInvite")
     \/ m.sdp # None /\ HasCall(m.callID) /\ Ignore
     \/ m.sdp # None /\ ~HasCall(m.callID) /\ Refused(m)
     \/ /\ m.sdp # None
        /\ ~HasCall(m.callID)
        /\ calls' = [calls EXCEPT ![m.callID] = NewCall(m)]
        /\ media' = [media EXCEPT ![m.callID] = "open"]
        /\ playing' = [playing EXCEPT ![m.callID] = None]
        /\ Send([m EXCEPT !.type = "200", !.to = Ivr, !.contact = Ivr, !.sdp = Ivr])
        /\ MapChanges
        /\ UNCHANGED <<running, pending, rx, fault>>

\* startReadDTMF replaces the thread object; one that was never joined,
\* finished or not, terminates the process.
OnAck(m) ==
  /\ m.type = "ACK"
  /\ \/ ~HasCall(m.callID) /\ Ignore
     \/ HasCall(m.callID) /\ reader[m.callID] # "none" /\ Crash("OnAck")
     \/ /\ HasCall(m.callID)
        /\ reader[m.callID] = "none"
        /\ SetState(m.callID, "Connected")
        /\ Plays(m.callID, "welcome")
        /\ reader' = [reader EXCEPT ![m.callID] = "polling"]
        /\ running' = [running EXCEPT ![m.callID] = TRUE]
        /\ sent' = <<>>
        /\ UNCHANGED <<media, pending, rx, fault>>

\* The announcement plays for seven seconds.
AnnounceNothing(m, st) ==
  /\ HasCall(m.callID)
  /\ SetState(m.callID, st)
  /\ Busy("announcing", m.callID)
  /\ sent' = <<>>
  /\ ReaderUnchanged
  /\ UNCHANGED <<media, playing, fault>>
Announce(m, st) ==
  /\ HasCall(m.callID)
  /\ \/ Overwritten(m.callID)
     \/ /\ SetState(m.callID, st)
        /\ Plays(m.callID, "agent_busy")
        /\ Busy("announcing", m.callID)
        /\ sent' = <<>>
        /\ ReaderUnchanged
        /\ UNCHANGED <<media, fault>>

OnBusy(m) ==
  /\ m.type = "486"
  /\ Announce(m, "Busy") \/ (~HasCall(m.callID) /\ Ignore)

\* OnUnavailable uses the call session before it tests that there is one.
OnUnavailable(m) ==
  /\ m.type = "480"
  /\ Announce(m, "Unavailable") \/ (~HasCall(m.callID) /\ Crash("OnUnavailable"))

NotReferring(c) == UNCHANGED calls
StartsReferring(c) == SetState(c, "Referring")

OnReferAccepted(m) ==
  /\ m.type = "202"
  /\ \/ ~HasCall(m.callID) /\ Ignore
     \/ HasCall(m.callID) /\ Overwritten(m.callID)
     \/ /\ HasCall(m.callID)
        /\ StartsReferring(m.callID)
        /\ Plays(m.callID, "redirecting")
        /\ Busy("redirecting", m.callID)
        /\ sent' = <<>>
        /\ ReaderUnchanged
        /\ UNCHANGED <<media, fault>>

\* The 200 echoes the datagram; the call session goes before its media session.
EndCall(m) ==
  \/ ~HasCall(m.callID) /\ Ignore
  \/ /\ HasCall(m.callID)
     /\ Send([m EXCEPT !.type = "200"])
     /\ calls' = [calls EXCEPT ![m.callID] = None]
     /\ MapChanges
     /\ StopReadDTMF(m.callID)
     /\ UNCHANGED <<media, pending, playing, fault>>

OnBye(m) == m.type = "BYE" /\ EndCall(m)

OnOk(m) ==
  /\ m.type = "200"
  /\ \/ m.cseq = "BYE" /\ EndCall(m)
     \/ m.cseq # "BYE" /\ Ignore

\* Handlers without a body, and first lines without a handler.
OnNothing(m) ==
  /\ m.type \in {"100", "180", "404", "487", "CANCEL", "REFER", "REGISTER", "garbled"}
  /\ Ignore

Receive(m) ==
  /\ fault = "none"
  /\ rx = Idle
  /\ \/ OnInvite(m) \/ OnAck(m) \/ OnBusy(m) \/ OnUnavailable(m)
     \/ OnReferAccepted(m) \/ OnBye(m) \/ OnOk(m) \/ OnNothing(m)
-----------------------------------------------------------------------------
(***************************************************************************)
(* The rest of a handler, after it slept or waited for a reader.           *)
(***************************************************************************)
Bye(c) == [Request("BYE", c, Ivr, calls[c].src, Ivr) EXCEPT !.contact = Ivr]

\* The announcement is over: hang up, then stop the reader.
Announced ==
  /\ fault = "none"
  /\ rx.at = "announcing"
  /\ Send(Bye(rx.call))
  /\ StopReadDTMF(rx.call)
  /\ UNCHANGED <<calls, media, reader, pending, playing, fault>>

\* The referral was announced for five seconds, and music follows.
Redirected ==
  /\ fault = "none"
  /\ rx.at = "redirecting"
  /\ \/ Overwritten(rx.call)
     \/ /\ Plays(rx.call, "holding")
        /\ rx' = Idle
        /\ sent' = <<>>
        /\ ReaderUnchanged
        /\ UNCHANGED <<calls, media, fault>>

\* stopReadDTMF joins the thread, then the media session is closed.
Joined ==
  /\ fault = "none"
  /\ rx.at = "joining"
  /\ reader[rx.call] \in {"none", "exited"}
  /\ reader' = [reader EXCEPT ![rx.call] = "none"]
  /\ media' = [media EXCEPT ![rx.call] = IF HasCall(rx.call) THEN "closed" ELSE "none"]
  /\ rx' = Idle
  /\ sent' = <<>>
  /\ UNCHANGED <<calls, running, pending, playing, fault>>
-----------------------------------------------------------------------------
(***************************************************************************)
(* The DTMF reader of call c.                                              *)
(***************************************************************************)
Goto(c, at) == reader' = [reader EXCEPT ![c] = at]

\* A poll that found an event; the others change nothing.  The test of the flag
\* and the poll are one step: nobody can tell a poll that ends after the flag
\* was cleared from one that ended just before.
ReadDTMF(c) ==
  /\ fault = "none"
  /\ reader[c] = "polling"
  /\ running[c]
  /\ media[c] = "open"
  /\ Goto(c, "event")
  /\ sent' = <<>>
  /\ UNCHANGED <<calls, media, running, pending, playing, rx, fault>>

Refer(c, a) ==
  [Request("REFER", c, Ivr, calls[c].src, Ivr) EXCEPT !.contact = Ivr, !.referTo = a]

\* onDTMFEvent looks for the call of the media session.  While the map changes
\* under it, it may step on a node that is gone, or miss its own; what it does
\* not find it dereferences.
LookupFails(c) ==
  \/ reader[c] = "raced" /\ Crash("findSession")
  \/ (reader[c] = "raced" \/ ~HasCall(c)) /\ Crash("onDTMFEvent")

\* A call that was found and removed since is in state Bye.
StillConnected(c) == HasCall(c) /\ calls[c].state = "Connected"
Answers(c) == HasCall(c) \/ reader[c] = "raced"

\* The key is ignored, or acted on: 0 replays the guide, 1 to 5 refer to an
\* agent, any other is an invalid choice.
Choose(c) ==
  \/ Goto(c, "replay") /\ UNCHANGED pending
  \/ Goto(c, "refuse") /\ UNCHANGED pending
  \/ \E a \in Agents :
       /\ Goto(c, "refer")
       /\ pending' = [pending EXCEPT ![c] = Refer(c, a)]

OnDTMFEvent(c) ==
  /\ fault = "none"
  /\ reader[c] \in {"event", "raced"}
  /\ \/ LookupFails(c)
     \/ /\ Answers(c)
        /\ IF StillConnected(c) THEN Choose(c) ELSE Goto(c, "polling") /\ UNCHANGED pending
        /\ sent' = <<>>
        /\ UNCHANGED <<calls, media, running, playing, rx, fault>>

MakeRefer(c) ==
  /\ fault = "none"
  /\ reader[c] = "refer"
  /\ Send(pending[c])
  /\ pending' = [pending EXCEPT ![c] = None]
  /\ Goto(c, "polling")
  /\ UNCHANGED <<calls, media, running, playing, rx, fault>>

\* The reader sets the announcement.
Replays(c, file, at) ==
  /\ fault = "none"
  /\ Plays(c, file)
  /\ Goto(c, at)
  /\ sent' = <<>>
  /\ UNCHANGED <<calls, media, running, pending, rx, fault>>

ReplayGuide(c) == reader[c] = "replay" /\ Replays(c, "welcome", "polling")

InvalidChoose(c) == reader[c] = "refuse" /\ Replays(c, "invalid", "invalid")

\* invalidChoose has slept for five seconds.
InvalidChosen(c) ==
  /\ fault = "none"
  /\ reader[c] = "invalid"
  /\ Goto(c, "restore")
  /\ sent' = <<>>
  /\ UNCHANGED <<calls, media, running, pending, playing, rx, fault>>

RestoreGuide(c) == reader[c] = "restore" /\ Replays(c, "welcome", "polling")

Exit(c) ==
  /\ fault = "none"
  /\ reader[c] = "polling"
  /\ ~running[c]
  /\ Goto(c, "exited")
  /\ sent' = <<>>
  /\ UNCHANGED <<calls, media, running, pending, playing, rx, fault>>

\* What a reader does whether or not a key is pressed.
ReaderStep(c) ==
  \/ OnDTMFEvent(c) \/ MakeRefer(c) \/ ReplayGuide(c)
  \/ InvalidChoose(c) \/ InvalidChosen(c) \/ RestoreGuide(c) \/ Exit(c)
-----------------------------------------------------------------------------
\* The register thread, once a minute; the Call-ID is a new one each time.
Register(c) ==
  /\ fault = "none"
  /\ Send([Request("REGISTER", c, Ivr, Ivr, Ivr) EXCEPT !.contact = Ivr])
  /\ UNCHANGED <<calls, media, reader, running, pending, playing, rx, fault>>

Next ==
  \/ \E m \in Wire : Receive(m)
  \/ Announced \/ Redirected \/ Joined
  \/ \E c \in CallIds : ReadDTMF(c) \/ ReaderStep(c) \/ Register(c)

\* The sleeps end, and a thread that can run does; nothing makes a key be
\* pressed or a datagram arrive.
Fairness ==
  /\ WF_vars(Announced) /\ WF_vars(Redirected) /\ WF_vars(Joined)
  /\ \A c \in CallIds : WF_vars(ReaderStep(c))

Spec == Init /\ [][Next]_vars /\ Fairness
-----------------------------------------------------------------------------
(***************************************************************************)
(* Properties.                                                             *)
(***************************************************************************)
TearingDown(c) == rx = [at |-> "joining", call |-> c]

\* Nothing outlives its call: between removeSession and the join in OnBye the
\* receiver is waiting for this very reader, and will close its media session
\* next; at no other time is there a reader whose call is gone, or a media
\* session open in MediaManager, and so on the media server, without a call
\* session that will close it.  It is the window in which findSession fails.
NoOrphans ==
  \A c \in CallIds :
    reader[c] # "none" \/ media[c] = "open" => HasCall(c) \/ TearingDown(c)

\* A call that can be refered has its media session: onDTMFEvent, OnBusy and
\* OnReferAccepted go on to use it.
CallHasMedia ==
  \A c \in CallIds : HasCall(c) => media[c] # "none"

\* The receiver gets back to its socket: no sleep and no join keeps a handler
\* for ever, unless the process has crashed.
ReceiverReturns == rx # Idle ~> (rx = Idle \/ fault # "none")
=============================================================================
