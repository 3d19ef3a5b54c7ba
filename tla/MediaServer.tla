---------------------------- MODULE MediaServer ----------------------------
(***************************************************************************)
(* The media server: gstmediaserver::MediaServer, RequestHandler and       *)
(* SessionManager.                                                         *)
(*                                                                         *)
(* A client opens a TCP connection for every request and waits on it for   *)
(* the answer.  The accept loop starts a detached thread per connection;   *)
(* these threads use one session map without a lock.  A thread goes on     *)
(* after it has answered: it clears the DTMF mailbox it has read, and it   *)
(* closes the players of a session it was the last to hold.                *)
(*                                                                         *)
(* A session object is named by the call it was made for.                  *)
(***************************************************************************)
EXTENDS Integers, Sequences, FiniteSets

CONSTANTS Clients,      \* the threads that send requests
          Slots,        \* client -> how many threads serve it at a time: bounds the model only
          Calls,        \* the calls, one session object each
          RemoteHost,   \* Call -> remote host, as a sequence
          RemotePort,   \* Call -> remote port, as a sequence
          MaxSessions,  \* MAX_SESSIONS
          LocalPorts,   \* START_PORT up to 65535
          Codecs,       \* the codecs that callers offer first
          Supported,    \* those the players have a pipeline for
          MaxKeys,      \* how many keys are pressed: bounds the model only
          None          \* an empty pointer

ASSUME MediaAssumption ==
  /\ Slots \in [Clients -> Nat \ {0}]
  /\ MaxSessions \in Nat
  /\ MaxKeys \in Nat
  /\ LocalPorts \subseteq Nat
  /\ IsFiniteSet(LocalPorts)
  /\ Cardinality(LocalPorts) >= MaxSessions
  /\ None \notin Calls
  /\ Codecs # {}

VARIABLES sessions,     \* _sessions: local port -> the session object there, or None
          session,      \* call -> its session object
          thread,       \* the threads that serve a connection
          connection,   \* client -> its open connection, or None
          pressed,      \* how many keys the callers have pressed
          fault         \* the function that crashed the process, or "none"

serverVars == <<sessions, session, thread, pressed, fault>>

Threads == UNION {{k} \X (1 .. Slots[k]) : k \in Clients}

\* MD5 is taken to be injective: what it is given decides.
HostOnly(c) == RemoteHost[c]
Identifier(c) == RemoteHost[c] \o RemotePort[c]

Types == {"init", "start", "update", "stop", "close", "dtmf"}

\* "call" is the remote address in an init request; the others go by "id".
Request == [type : Types, call : Calls, id : {Identifier(c) : c \in Calls}]

Keys == 0 .. MaxKeys      \* 0 is the empty mailbox

Reply == [success : BOOLEAN, key : Keys]

Connection == [request : Request, reply : Reply \cup {None}]

ThreadStates == {"entered", "allowed", "opening", "looking", "found", "answered", "closing"}

Thread == [at : ThreadStates, request : Request, object : Calls \cup {None},
           port : LocalPorts \cup {None}, raced : BOOLEAN]

\* An object is made, is used, and has its players closed by its destructor.
Session == [state : {"none", "live", "closing", "gone"}, players : BOOLEAN,
            playing : BOOLEAN, dtmf : Keys]

ASSUME NoneAssumption == None \notin Reply \cup Connection \cup Thread

MediaTypeOK ==
  /\ sessions \in [LocalPorts -> Calls \cup {None}]
  /\ session \in [Calls -> Session]
  /\ thread \in [Threads -> Thread \cup {None}]
  /\ connection \in [Clients -> Connection \cup {None}]
  /\ pressed \in Keys
  /\ fault \in {"none", "getSession"}

MediaInit ==
  /\ sessions = [p \in LocalPorts |-> None]
  /\ session = [c \in Calls |-> [state |-> "none", players |-> FALSE,
                              playing |-> FALSE, dtmf |-> 0]]
  /\ thread = [t \in Threads |-> None]
  /\ connection = [k \in Clients |-> None]
  /\ pressed = 0
  /\ fault = "none"
-----------------------------------------------------------------------------
(***************************************************************************)
(* As in the other modules, a definition that no other refers to, followed *)
(* by one with the same parameters, is a fault the properties are known to *)
(* detect.                                                                 *)
(***************************************************************************)
\* The accept loop starts a thread for a connection, which reads the request.
Accept(k, request) ==
  /\ connection[k] = None
  /\ connection' = [connection EXCEPT ![k] = [request |-> request, reply |-> None]]
  /\ \E i \in 1 .. Slots[k] :
       /\ thread[<<k, i>>] = None
       /\ \A j \in 1 .. (i - 1) : thread[<<k, j>>] # None
       /\ thread' = [thread EXCEPT ![<<k, i>>] =
            [at |-> "entered", request |-> request, object |-> None,
             port |-> None, raced |-> FALSE]]
  /\ UNCHANGED <<sessions, session, pressed, fault>>

At(t, state) == thread[t] # None /\ thread[t].at = state

Asks(t, type) == thread[t].request.type = type

\* sendResponse.
Respond(t, ok, key) ==
  connection' = [connection EXCEPT ![t[1]].reply = [success |-> ok, key |-> key]]

Goto(t, state) == thread' = [thread EXCEPT ![t].at = state]

\* A change of the map under a thread that iterates over it is a data race.
WithRace(t, state) ==
  [u \in Threads |->
     IF u = t THEN [thread[t] EXCEPT !.at = state]
     ELSE IF At(u, "looking") THEN [thread[u] EXCEPT !.raced = TRUE]
     ELSE thread[u]]
-----------------------------------------------------------------------------
(***************************************************************************)
(* init_session: createSession tests the limits, takes the first free port *)
(* and inserts; open returns when the players' threads run.  That open     *)
(* makes no players for a codec it does not know is told to nobody.        *)
(***************************************************************************)
UsedPorts == {p \in LocalPorts : sessions[p] # None}

ExceedsMaxSessions == Cardinality(UsedPorts) >= MaxSessions

NeverInUse(c) == FALSE
RemotePortInUse(c) == \E p \in UsedPorts : RemotePort[sessions[p]] = RemotePort[c]

FirstPort == CHOOSE p \in LocalPorts : \A q \in LocalPorts : p <= q

PortByCount(p) == p = FirstPort + Cardinality(UsedPorts)
AvailablePort(p) == p \notin UsedPorts /\ \A q \in LocalPorts : q < p => q \in UsedPorts

CheckLimits(t) ==
  /\ At(t, "entered")
  /\ Asks(t, "init")
  /\ \/ /\ ExceedsMaxSessions \/ RemotePortInUse(thread[t].request.call)
        /\ Respond(t, FALSE, 0)
        /\ Goto(t, "answered")
     \/ /\ ~ExceedsMaxSessions
        /\ ~RemotePortInUse(thread[t].request.call)
        /\ \E p \in LocalPorts :
             /\ AvailablePort(p)
             /\ thread' = [thread EXCEPT ![t].at = "allowed", ![t].port = p]
        /\ UNCHANGED connection
  /\ UNCHANGED <<sessions, session, pressed, fault>>

Insert(t) ==
  LET c == thread[t].request.call IN
  /\ At(t, "allowed")
  /\ sessions' = [sessions EXCEPT ![thread[t].port] = c]
  /\ session' = [session EXCEPT ![c].state = "live"]
  /\ thread' = [WithRace(t, "opening") EXCEPT ![t].object = c, ![t].port = None]
  /\ UNCHANGED <<connection, pressed, fault>>

Opened(t) ==
  /\ At(t, "opening")
  /\ \E codec \in Codecs :
       session' = [session EXCEPT ![thread[t].object].players = codec \in Supported]
  /\ Respond(t, TRUE, 0)
  /\ Goto(t, "answered")
  /\ UNCHANGED <<sessions, pressed, fault>>
-----------------------------------------------------------------------------
(***************************************************************************)
(* The other requests: getSession, then the method of the session.         *)
(***************************************************************************)
Holders(id) == {p \in UsedPorts : Identifier(sessions[p]) = id}

\* The iteration over the map begins ...
GetSession(t) ==
  /\ At(t, "entered")
  /\ ~Asks(t, "init")
  /\ Goto(t, "looking")
  /\ UNCHANGED <<sessions, session, connection, pressed, fault>>

Found(t) ==
  /\ \E p \in Holders(thread[t].request.id) :
       /\ \A q \in Holders(thread[t].request.id) : p <= q
       /\ thread' = [thread EXCEPT ![t].at = "found", ![t].raced = FALSE,
                                   ![t].object = sessions[p]]
  /\ UNCHANGED <<connection, fault>>

NotFound(t) ==
  /\ Respond(t, FALSE, 0)
  /\ thread' = [thread EXCEPT ![t].at = "answered", ![t].raced = FALSE]
  /\ UNCHANGED fault

Crashed ==
  /\ fault' = "getSession"
  /\ UNCHANGED <<thread, connection>>

\* ... and ends.  If the map changed meanwhile it may miss the session, or
\* follow a node that is no more.
EndGetSession(t) ==
  /\ At(t, "looking")
  /\ \/ Found(t)
     \/ (Holders(thread[t].request.id) = {} \/ thread[t].raced) /\ NotFound(t)
     \/ thread[t].raced /\ Crashed
  /\ UNCHANGED <<sessions, session, pressed>>

StartOrStop(t, type, playing) ==
  LET c == thread[t].object IN
  /\ Asks(t, type)
  /\ session' = [session EXCEPT ![c].playing = playing /\ session[c].players]
  /\ Respond(t, TRUE, 0)
  /\ Goto(t, "answered")
  /\ UNCHANGED sessions

Update(t) ==
  /\ Asks(t, "update")
  /\ Respond(t, TRUE, 0)
  /\ Goto(t, "answered")
  /\ UNCHANGED <<sessions, session>>

RemoveSession(t) ==
  /\ Asks(t, "close")
  /\ sessions' = [p \in LocalPorts |->
       IF p \in Holders(thread[t].request.id) /\ (\A q \in Holders(thread[t].request.id) : p <= q)
       THEN None ELSE sessions[p]]
  /\ thread' = WithRace(t, "answered")
  /\ Respond(t, TRUE, 0)
  /\ UNCHANGED session

\* getDTMFEvent and the answer: an empty mailbox is an answer too.
AnswerKeysOnly(t) ==
  /\ Asks(t, "dtmf")
  /\ session[thread[t].object].dtmf # 0
  /\ Respond(t, TRUE, session[thread[t].object].dtmf)
  /\ Goto(t, "answered")
  /\ UNCHANGED <<sessions, session>>
GetDTMFEvent(t) ==
  /\ Asks(t, "dtmf")
  /\ Respond(t, TRUE, session[thread[t].object].dtmf)
  /\ Goto(t, "answered")
  /\ UNCHANGED <<sessions, session>>

Serve(t) ==
  /\ At(t, "found")
  /\ \/ StartOrStop(t, "start", TRUE)
     \/ StartOrStop(t, "stop", FALSE)
     \/ Update(t)
     \/ RemoveSession(t)
     \/ GetDTMFEvent(t)
  /\ UNCHANGED <<pressed, fault>>
-----------------------------------------------------------------------------
(***************************************************************************)
(* After the answer.                                                       *)
(***************************************************************************)
InMap(c) == \E p \in LocalPorts : sessions[p] = c

Users(c) == {u \in Threads : thread[u] # None /\ thread[u].object = c}

\* Nothing else points to the session object thread t holds.
ClosedAtOnce(t) == ~InMap(thread[t].object)
LastReference(t) == ~InMap(thread[t].object) /\ Users(thread[t].object) = {t}

\* clearDTMFEvent, if the request was for the mailbox.
NotCleared(t) == session
ClearedToNull(t) ==
  IF Asks(t, "dtmf") THEN [session EXCEPT ![thread[t].object].dtmf = None] ELSE session
Cleared(t) ==
  IF Asks(t, "dtmf") THEN [session EXCEPT ![thread[t].object].dtmf = 0] ELSE session

\* The thread lets go of its session; the last to do so runs ~MediaSession.
Release(t) ==
  /\ At(t, "answered")
  /\ \/ /\ thread[t].object = None
        /\ thread' = [thread EXCEPT ![t] = None]
        /\ UNCHANGED session
     \/ /\ thread[t].object # None
        /\ ~LastReference(t)
        /\ thread' = [thread EXCEPT ![t] = None]
        /\ session' = Cleared(t)
     \/ /\ thread[t].object # None
        /\ LastReference(t)
        /\ Goto(t, "closing")
        /\ session' = [Cleared(t) EXCEPT ![thread[t].object].state = "closing",
                                         ![thread[t].object].playing = FALSE]
  /\ UNCHANGED <<sessions, connection, pressed, fault>>

\* GstPlayer::close has returned.
Destroyed(t) ==
  /\ At(t, "closing")
  /\ session' = [session EXCEPT ![thread[t].object].state = "gone"]
  /\ thread' = [thread EXCEPT ![t] = None]
  /\ UNCHANGED <<sessions, connection, pressed, fault>>

\* A key of the caller reaches the receiver pipeline, which writes the mailbox.
KeyPressed(c) ==
  /\ pressed < MaxKeys
  /\ session[c].state = "live"
  /\ session[c].playing
  /\ pressed' = pressed + 1
  /\ session' = [session EXCEPT ![c].dtmf = pressed + 1]
  /\ UNCHANGED <<sessions, thread, connection, fault>>

ThreadStep(t) ==
  \/ CheckLimits(t) \/ Insert(t) \/ Opened(t)
  \/ GetSession(t) \/ EndGetSession(t) \/ Serve(t)
  \/ Release(t) \/ Destroyed(t)

\* What goes on without a client: requests come with the composition.
MediaNext ==
  /\ fault = "none"
  /\ \/ \E t \in Threads : ThreadStep(t)
     \/ \E c \in Calls : KeyPressed(c)
=============================================================================
