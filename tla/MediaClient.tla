---------------------------- MODULE MediaClient ----------------------------
(***************************************************************************)
(* The IVR's side of the media server: MediaManager, MediaSession and      *)
(* MediaClient, as Application and DTMFHandler use them, composed with     *)
(* MediaServer.                                                            *)
(*                                                                         *)
(* Two kinds of threads send requests, each one at a time: the receiver of *)
(* the IVR, and the DTMF reader of every call.                             *)
(***************************************************************************)
EXTENDS MediaServer

CONSTANTS Receiver,     \* the receiver thread, as a client
          Listening,    \* the calls that are acknowledged, or fewer to bound the model
          MaxUpdates,   \* how many updates a key may cause: 2, or fewer to bound the model
          Prompt        \* whether a poll is over before the reader, which sleeps
                        \* 100 ms in between, makes the next one

ASSUME ClientAssumption ==
  /\ Receiver \notin Calls
  /\ Clients = Calls \cup {Receiver}
  /\ Listening \subseteq Calls
  /\ MaxUpdates \in 0 .. 2
  /\ Prompt \in BOOLEAN

VARIABLES phase,        \* call -> what the IVR has made of its media session
          rx,           \* what the receiver thread is doing, and for which call
          reader,       \* call -> its DTMF reader thread
          running,      \* call -> _readDTMFThreadRunning
          updates,      \* call -> the updates the reader has still to make for a key
          heard         \* call -> the keys its reader was given, in order

clientVars == <<phase, rx, reader, running, updates, heard>>

vars == <<serverVars, connection, clientVars>>

Phases == {"none", "open", "closed", "over"}

Operations == {"idle", "init", "start", "update", "join", "stop", "close"}

TypeOK ==
  /\ MediaTypeOK
  /\ phase \in [Calls -> Phases]
  /\ rx \in [at : Operations, call : Calls \cup {None}, next : Phases]
  /\ reader \in [Calls -> {"none", "running", "exited"}]
  /\ running \in [Calls -> BOOLEAN]
  /\ updates \in [Calls -> 0 .. MaxUpdates]
  /\ heard \in [Calls -> Seq(1 .. MaxKeys)]

Idle == [at |-> "idle", call |-> None, next |-> "none"]

Init ==
  /\ MediaInit
  /\ phase = [c \in Calls |-> "none"]
  /\ rx = Idle
  /\ reader = [c \in Calls |-> "none"]
  /\ running = [c \in Calls |-> FALSE]
  /\ updates = [c \in Calls |-> 0]
  /\ heard = [c \in Calls |-> <<>>]
-----------------------------------------------------------------------------
\* sendRequest: connect, send, and wait in read for the answer.
Send(k, type, c) == Accept(k, [type |-> type, call |-> c, id |-> Identifier(c)])

Answered(k) == connection[k] # None /\ connection[k].reply # None

Take(k) == connection' = [connection EXCEPT ![k] = None] /\ UNCHANGED serverVars

Is(operation, c) == rx.at = operation /\ rx.call = c

Begin(operation, c) == rx' = [at |-> operation, call |-> c, next |-> "none"]

ReaderUnchanged == UNCHANGED <<reader, running, updates, heard>>

SamePhone(c, d) == Identifier(c) = Identifier(d)
-----------------------------------------------------------------------------
(***************************************************************************)
(* The receiver thread: one operation at a time, for one call.             *)
(***************************************************************************)
\* OnInvite.  A phone that the IVR has hung up on answers the BYE, and so
\* ends the call in the IVR, before it dials again.
CreateSession(c) ==
  /\ rx = Idle
  /\ phase[c] = "none"
  /\ \A d \in Calls : SamePhone(c, d) => phase[d] # "closed"
  /\ Begin("init", c)
  /\ Send(Receiver, "init", c)
  /\ UNCHANGED phase
  /\ ReaderUnchanged

\* Without a media session the call is removed, and may be tried again.
SessionCreated(c) ==
  /\ Is("init", c)
  /\ Answered(Receiver)
  /\ phase' = [phase EXCEPT ![c] = IF connection[Receiver].reply.success THEN "open" ELSE "none"]
  /\ rx' = Idle
  /\ Take(Receiver)
  /\ ReaderUnchanged

\* OnAck.  A second ACK finds a reader and ends the process: IvrApplication.
StartMediaSession(c) ==
  /\ rx = Idle
  /\ c \in Listening
  /\ phase[c] \in {"open", "closed"}
  /\ reader[c] = "none"
  /\ Begin("start", c)
  /\ Send(Receiver, "start", c)
  /\ UNCHANGED phase
  /\ ReaderUnchanged

\* The reader starts whatever the answer is.
StartReadDTMF(c) ==
  /\ Is("start", c)
  /\ Answered(Receiver)
  /\ reader' = [reader EXCEPT ![c] = "running"]
  /\ running' = [running EXCEPT ![c] = TRUE]
  /\ rx' = Idle
  /\ Take(Receiver)
  /\ UNCHANGED <<phase, updates, heard>>

\* OnBusy, OnUnavailable, OnReferAccepted: another announcement.
UpdateMediaSession(c) ==
  /\ rx = Idle
  /\ phase[c] \in {"open", "closed"}
  /\ Begin("update", c)
  /\ Send(Receiver, "update", c)
  /\ UNCHANGED phase
  /\ ReaderUnchanged

MediaSessionUpdated(c) ==
  /\ Is("update", c)
  /\ Answered(Receiver)
  /\ rx' = Idle
  /\ Take(Receiver)
  /\ UNCHANGED phase
  /\ ReaderUnchanged

\* OnBusy and OnUnavailable keep the call until its BYE is answered; OnBye
\* is the end of it.
StopReadDTMF(c, next) ==
  /\ rx = Idle
  /\ phase[c] \in {"open", "closed"}
  /\ running' = [running EXCEPT ![c] = FALSE]
  /\ rx' = [at |-> "join", call |-> c, next |-> next]
  /\ UNCHANGED <<phase, reader, updates, heard, connection, serverVars>>

NoJoin(c) == TRUE
ReaderEnded(c) == reader[c] # "running"

StopSession(c) ==
  /\ Is("join", c)
  /\ ReaderEnded(c)
  /\ reader' = [reader EXCEPT ![c] = "none"]
  /\ rx' = [rx EXCEPT !.at = "stop"]
  /\ Send(Receiver, "stop", c)
  /\ UNCHANGED <<phase, running, updates, heard>>

\* removeSession, if MediaManager still knows the session.
NothingToClose(c) == TRUE
AlreadyClosed(c) == phase[c] = "closed"

SessionStopped(c) ==
  /\ Is("stop", c)
  /\ Answered(Receiver)
  /\ ReaderUnchanged
  /\ Take(Receiver)
  /\ \/ /\ AlreadyClosed(c)
        /\ phase' = [phase EXCEPT ![c] = rx.next]
        /\ rx' = Idle
     \/ /\ ~AlreadyClosed(c)
        /\ rx' = [rx EXCEPT !.at = "close"]
        /\ UNCHANGED phase

CloseSession(c) ==
  /\ Is("close", c)
  /\ Send(Receiver, "close", c)
  /\ UNCHANGED <<phase, rx>>
  /\ ReaderUnchanged

SessionClosed(c) ==
  /\ Is("close", c)
  /\ Answered(Receiver)
  /\ phase' = [phase EXCEPT ![c] = rx.next]
  /\ rx' = Idle
  /\ Take(Receiver)
  /\ ReaderUnchanged

ReceiverStep(c) ==
  \/ SessionCreated(c) \/ StartReadDTMF(c) \/ MediaSessionUpdated(c)
  \/ StopSession(c) \/ SessionStopped(c) \/ CloseSession(c) \/ SessionClosed(c)

Command(c) ==
  \/ CreateSession(c) \/ StartMediaSession(c) \/ UpdateMediaSession(c)
  \/ \E next \in {"closed", "over"} : StopReadDTMF(c, next)
-----------------------------------------------------------------------------
(***************************************************************************)
(* The readers.                                                            *)
(***************************************************************************)
Resting(c) == \A i \in 1 .. Slots[c] : thread[<<c, i>>] = None

ReadDTMF(c) ==
  /\ reader[c] = "running"
  /\ running[c]
  /\ updates[c] = 0
  /\ Prompt => Resting(c)
  /\ Send(c, "dtmf", c)
  /\ UNCHANGED clientVars

\* onDTMFEvent: nothing or a REFER, the guide again, or that the key is
\* wrong and then the guide.
DTMFRead(c) ==
  LET reply == connection[c].reply IN
  /\ Answered(c)
  /\ connection[c].request.type = "dtmf"
  /\ Take(c)
  /\ \/ /\ reply.success /\ reply.key # 0
        /\ heard' = [heard EXCEPT ![c] = Append(@, reply.key)]
        /\ \E n \in 0 .. MaxUpdates : updates' = [updates EXCEPT ![c] = n]
     \/ /\ ~reply.success \/ reply.key = 0
        /\ UNCHANGED <<heard, updates>>
  /\ UNCHANGED <<phase, rx, reader, running>>

ReaderUpdates(c) ==
  /\ updates[c] > 0
  /\ Send(c, "update", c)
  /\ updates' = [updates EXCEPT ![c] = @ - 1]
  /\ UNCHANGED <<phase, rx, reader, running, heard>>

ReaderUpdated(c) ==
  /\ Answered(c)
  /\ connection[c].request.type = "update"
  /\ Take(c)
  /\ UNCHANGED clientVars

Exit(c) ==
  /\ reader[c] = "running"
  /\ connection[c] = None
  /\ updates[c] = 0
  /\ ~running[c]
  /\ reader' = [reader EXCEPT ![c] = "exited"]
  /\ UNCHANGED <<phase, rx, running, updates, heard, connection, serverVars>>

ReaderStep(c) ==
  ReadDTMF(c) \/ DTMFRead(c) \/ ReaderUpdates(c) \/ ReaderUpdated(c) \/ Exit(c)
-----------------------------------------------------------------------------
Next ==
  \/ MediaNext /\ UNCHANGED clientVars
  \/ fault = "none" /\ \E c \in Calls : Command(c) \/ ReceiverStep(c) \/ ReaderStep(c)

\* Threads are scheduled, and the accept loop takes every connection.
\* Nobody need call, press a key or hang up.
Fairness ==
  /\ \A t \in Threads : WF_vars(fault = "none" /\ ThreadStep(t) /\ UNCHANGED clientVars)
  /\ \A c \in Calls : WF_vars(fault = "none" /\ ReceiverStep(c))
  /\ \A c \in Calls : WF_vars(fault = "none" /\ ReaderStep(c))

Spec == Init /\ [][Next]_vars /\ Fairness
-----------------------------------------------------------------------------
(***************************************************************************)
(* Properties                                                              *)
(***************************************************************************)
\* A session that the IVR holds open is in the media server's map, live, at
\* exactly one port: no init for another call takes its port or replaces it,
\* and no close for another call removes it.
OpenIsServed ==
  \A c \in Calls :
    phase[c] = "open" /\ rx.at # "close" =>
      /\ session[c].state = "live"
      /\ Cardinality({p \in LocalPorts : sessions[p] = c}) = 1

\* A request is carried out on the session of the call it is made for:
\* identifiers are made from the caller's address, and the calls of one phone
\* have them in turn.
ReachesOwnSession ==
  \A t \in Threads :
    thread[t] # None =>
      thread[t].object \in {None, thread[t].request.call}

\* MAX_SESSIONS sessions at most, each with a remote port of its own, although
\* createSession tests and inserts without a lock.
LimitsHold ==
  /\ Cardinality(UsedPorts) <= MaxSessions
  /\ \A p, q \in UsedPorts :
       RemotePort[sessions[p]] = RemotePort[sessions[q]] => p = q

\* No thread uses a session whose players are being closed: a poll may still
\* be clearing the mailbox when its session is closed.
HeldIsNotClosed ==
  \A t \in Threads :
    thread[t] # None /\ thread[t].object # None /\ thread[t].at # "closing" =>
      session[thread[t].object].state = "live"

\* The unlocked map is read and changed at the same time only on behalf of two
\* calls: the reader of a call has not started when its session is inserted
\* and has been joined when it is removed.
RaceNeedsTwoCalls ==
  \A t, u \in Threads :
    /\ At(t, "looking")
    /\ At(u, "allowed") \/ (At(u, "found") /\ Asks(u, "close"))
    => thread[t].request.call # thread[u].request.call

\* A key is given to a reader once, though the mailbox is cleared after the
\* answer: a poll must be over within the reader's sleep (Prompt).
KeyReadOnce ==
  /\ \A c \in Calls : \A i, j \in 1 .. Len(heard[c]) : heard[c][i] = heard[c][j] => i = j
  /\ \A c, d \in Calls : c # d =>
       \A i \in 1 .. Len(heard[c]), j \in 1 .. Len(heard[d]) : heard[c][i] # heard[d][j]

\* Every request is answered, so neither receiver nor readers wait for ever,
\* unless the race on the map has ended the process.
EveryRequestAnswered ==
  \A k \in Clients : connection[k] # None ~> (connection[k] = None \/ fault # "none")

\* When the IVR has done with a call, nothing of it stays on the media server:
\* the map has let go of it and its players are closed.
ClosedIsReleased ==
  \A c \in Calls :
    phase[c] = "over" ~>
      \/ session[c].state = "gone" /\ \A p \in LocalPorts : sessions[p] # c
      \/ fault # "none"
=============================================================================
