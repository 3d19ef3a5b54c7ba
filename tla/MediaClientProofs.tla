------------------------- MODULE MediaClientProofs --------------------------
(***************************************************************************)
(* What holds of the media server and the IVR's threads that use it for    *)
(* every number of calls, ports, threads and keys, while the identifier of *)
(* a session tells the port it is made of (AddressesApart).                *)
(*                                                                         *)
(* The argument follows a request.  Its client waits while one thread has  *)
(* it (Served), so the receiver, which alone inserts and removes, has at   *)
(* most one thread between the tests and the insertion (Allowed), and what *)
(* the IVR holds open is what the map holds (MapInv).  Calls of one phone  *)
(* are open in turn (Phones): a lookup finds the session of its own call.  *)
(***************************************************************************)
EXTENDS MediaClient, FiniteSetTheorems, TLAPS

\* The thread has not answered yet.
Pending(t) ==
  /\ thread[t] # None
  /\ thread[t].at \in {"entered", "allowed", "opening", "looking", "found"}

\* A request is served by one thread, and its client waits for the answer.
Served ==
  \A t \in Threads : Pending(t) =>
    /\ connection[t[1]] # None
    /\ connection[t[1]].reply = None
    /\ connection[t[1]].request = thread[t].request
    /\ \A u \in Threads : Pending(u) /\ u[1] = t[1] => u = t

\* What a thread holds at each place; the receiver's requests are not raced.
Objects ==
  \A t \in Threads : thread[t] # None =>
    /\ thread[t].request.id = Identifier(thread[t].request.call)
    /\ thread[t].at \in {"entered", "allowed", "looking"} => thread[t].object = None
    /\ thread[t].at \in {"opening", "found", "closing"} => thread[t].object # None
    /\ thread[t].at \in {"allowed", "opening"} => Asks(t, "init")
    /\ thread[t].at \in {"looking", "found"} => ~Asks(t, "init")
    /\ t[1] = Receiver => ~thread[t].raced

\* What the receiver thread asks for, and what it relies on while it waits.
RxAsks ==
  /\ rx.at = "idle" \/ rx.call \in Calls
  /\ rx.at \in {"idle", "join"} => connection[Receiver] = None
  /\ rx.at \in {"init", "start", "update", "stop"} => connection[Receiver] # None
  /\ connection[Receiver] # None =>
       connection[Receiver].request.type = rx.at /\ connection[Receiver].request.call = rx.call
  /\ rx.at = "init" =>
       phase[rx.call] = "none" /\ \A d \in Calls : SamePhone(rx.call, d) => phase[d] # "closed"
  /\ rx.at \in {"start", "update", "join", "stop"} => phase[rx.call] \in {"open", "closed"}
  /\ rx.at = "close" => phase[rx.call] = "open"
  /\ rx.at \in {"start", "stop", "close"} => reader[rx.call] = "none"
  /\ rx.at \in {"join", "stop", "close"} => rx.next \in {"closed", "over"}

\* What readers ask for; they run between start and stop.
ReaderAsks ==
  \A c \in Calls :
    /\ connection[c] # None =>
         /\ reader[c] = "running"
         /\ connection[c].request.call = c
         /\ connection[c].request.type \in {"dtmf", "update"}
    /\ updates[c] > 0 => reader[c] = "running"
    /\ reader[c] # "none" => phase[c] \in {"open", "closed"}

\* The receiver's connection is there and has been answered.
RxAnswered == connection[Receiver] # None /\ connection[Receiver].reply # None

\* The call's session has been inserted, and the IVR is about to know.
Inserted(c) ==
  /\ rx.at = "init"
  /\ rx.call = c
  /\ \/ RxAnswered /\ connection[Receiver].reply.success
     \/ \E t \in Threads : At(t, "opening") /\ t[1] = Receiver

\* The sessions in the map are those the IVR holds open.
MapInv ==
  /\ \A p, q \in UsedPorts : RemotePort[sessions[p]] = RemotePort[sessions[q]] => p = q
  /\ \A c \in Calls : InMap(c) => session[c].state = "live"
  /\ \A c \in Calls : InMap(c) => phase[c] = "open" \/ Inserted(c)
  /\ \A c \in Calls : phase[c] = "open" =>
       InMap(c) \/ (rx.at = "close" /\ rx.call = c /\ RxAnswered)
  /\ RxAnswered /\ rx.at = "init" /\ connection[Receiver].reply.success => InMap(rx.call)
  /\ RxAnswered /\ rx.at = "close" => ~InMap(rx.call)
  /\ \A t \in Threads : At(t, "opening") => InMap(thread[t].object)

CountInv ==
  /\ Cardinality(UsedPorts) <= MaxSessions
  /\ \A t \in Threads : At(t, "allowed") => Cardinality(UsedPorts) < MaxSessions

\* What createSession has tested stays true until it inserts.
Allowed ==
  \A t \in Threads : At(t, "allowed") =>
    /\ thread[t].port \in LocalPorts
    /\ sessions[thread[t].port] = None
    /\ ~RemotePortInUse(thread[t].request.call)

\* A session is held while it is live; the last to hold it closes it.
HeldInv ==
  \A t \in Threads : thread[t] # None /\ thread[t].object # None =>
    /\ phase[thread[t].object] # "none" \/ InMap(thread[t].object)
    /\ thread[t].at = "closing" =>
         /\ ~InMap(thread[t].object)
         /\ \A u \in Threads : thread[u] # None /\ thread[u].object = thread[t].object => u = t

\* The calls of one phone follow each other.
Phones ==
  \A c, d \in Calls :
    SamePhone(c, d) /\ phase[c] \in {"open", "closed"} /\ phase[d] \in {"open", "closed"} => c = d

\* The text that identifies a phone tells its port.  It is address and port
\* with nothing in between, so this is so where all RTP ports have as many
\* digits, and not if 10.0.0.1 uses 15000 and 10.0.0.11 uses 5000.
AddressesApart == \A c, d \in Calls : SamePhone(c, d) => RemotePort[c] = RemotePort[d]

Core ==
  /\ TypeOK
  /\ Served /\ Objects /\ ReachesOwnSession
  /\ RxAsks /\ ReaderAsks /\ Phones
  /\ MapInv /\ CountInv /\ Allowed
  /\ HeldInv /\ HeldIsNotClosed
-----------------------------------------------------------------------------
(***************************************************************************)
(* What the parts of a step do.                                            *)
(***************************************************************************)
\* Nothing of a thread changes, but that the map it reads may change.
Kept(u) ==
  /\ thread'[u] = None <=> thread[u] = None
  /\ thread[u] # None =>
       /\ thread'[u].at = thread[u].at
       /\ thread'[u].request = thread[u].request
       /\ thread'[u].object = thread[u].object
       /\ thread'[u].port = thread[u].port
       /\ u[1] = Receiver => thread'[u].raced = thread[u].raced

Others(t) == \A u \in Threads : u # t => Kept(u)

\* The thread goes on with the same request.
Moves(t, place, object) ==
  /\ thread[t] # None
  /\ thread'[t] # None
  /\ thread'[t].at = place
  /\ thread'[t].object = object
  /\ thread'[t].request = thread[t].request
  /\ t[1] = Receiver => ~thread'[t].raced

\* The client of the thread, and no other, has its answer.
Answers(t, ok, key) ==
  /\ connection'[t[1]] # None
  /\ connection'[t[1]].request = connection[t[1]].request
  /\ connection'[t[1]].reply # None
  /\ connection'[t[1]].reply.success = ok
  /\ connection'[t[1]].reply.key = key
  /\ \A k \in Clients : k # t[1] => connection'[k] = connection[k]

\* A thread is known by its client and its slot.
LEMMA ThreadIds ==
  /\ \A t \in Threads : t[1] \in Clients /\ t[2] \in 1 .. Slots[t[1]] /\ t = <<t[1], t[2]>>
  /\ \A k \in Clients : \A i \in 1 .. Slots[k] : <<k, i>> \in Threads
BY DEF Threads

\* A thread that exists is one.
LEMMA ThreadType ==
  ASSUME TypeOK, NEW t \in Threads, thread[t] # None
  PROVE  /\ thread[t] \in Thread
         /\ thread[t].at \in ThreadStates
         /\ thread[t].request \in Request
         /\ thread[t].object \in Calls \cup {None}
         /\ thread[t].port \in LocalPorts \cup {None}
         /\ thread[t].raced \in BOOLEAN
BY DEF TypeOK, MediaTypeOK, Thread

\* A connection that is open is one.
LEMMA ConnectionType ==
  ASSUME TypeOK, NEW k \in Clients, connection[k] # None
  PROVE  /\ connection[k] \in Connection
         /\ connection[k].request \in Request
         /\ connection[k].reply \in Reply \cup {None}
BY DEF TypeOK, MediaTypeOK, Connection

\* Clients are the receiver and the readers, which are named by their calls.
LEMMA ClientIds ==
  /\ Receiver \in Clients /\ Receiver \notin Calls
  /\ \A c \in Calls : c \in Clients
  /\ \A k \in Clients : k \in Calls \/ k = Receiver
BY ClientAssumption

\* A thread that takes on another shape is a thread, and no other changes.
LEMMA ThreadBecomes ==
  ASSUME TypeOK, NEW t \in Threads, NEW r \in Thread \cup {None},
         thread' = [thread EXCEPT ![t] = r]
  PROVE  /\ thread' \in [Threads -> Thread \cup {None}]
         /\ Others(t)
         /\ thread'[t] = r
BY DEF TypeOK, MediaTypeOK, Others, Kept

\* A session that takes on another shape is a session, and no other changes.
LEMMA SessionBecomes ==
  ASSUME TypeOK, NEW c \in Calls, NEW r \in Session, session' = [session EXCEPT ![c] = r]
  PROVE  /\ session' \in [Calls -> Session]
         /\ session'[c] = r
         /\ \A d \in Calls : d # c => session'[d] = session[d]
BY DEF TypeOK, MediaTypeOK

\* What is written to a session.
LEMMA SessionFields ==
  ASSUME NEW s \in Session, NEW b \in BOOLEAN, NEW key \in Keys
  PROVE  /\ [s EXCEPT !.players = b] \in Session /\ [s EXCEPT !.players = b].state = s.state
         /\ [s EXCEPT !.playing = b] \in Session /\ [s EXCEPT !.playing = b].state = s.state
         /\ [s EXCEPT !.dtmf = key] \in Session /\ [s EXCEPT !.dtmf = key].state = s.state
BY DEF Session

\* Goto.
LEMMA GotoEffect ==
  ASSUME TypeOK, NEW t \in Threads, thread[t] # None, t[1] = Receiver => ~thread[t].raced,
         NEW place \in ThreadStates, Goto(t, place)
  PROVE  /\ thread' \in [Threads -> Thread \cup {None}]
         /\ Others(t)
         /\ Moves(t, place, thread[t].object)
         /\ thread'[t].port = thread[t].port
<1> DEFINE r == [thread[t] EXCEPT !.at = place]
<1>1. r \in Thread
  BY ThreadType DEF Thread
<1>2. thread' = [thread EXCEPT ![t] = r]
  BY DEF Goto, TypeOK, MediaTypeOK
<1>3. /\ r.at = place /\ r.object = thread[t].object /\ r.request = thread[t].request
      /\ r.raced = thread[t].raced /\ r.port = thread[t].port
  BY ThreadType DEF Thread
<1> HIDE DEF r
<1> QED BY <1>1, <1>2, <1>3, ThreadBecomes, NoneAssumption DEF Moves

\* sendResponse.
LEMMA RespondEffect ==
  ASSUME TypeOK, NEW t \in Threads, connection[t[1]] # None, NEW ok \in BOOLEAN, NEW key \in Keys,
         Respond(t, ok, key)
  PROVE  /\ connection' \in [Clients -> Connection \cup {None}]
         /\ Answers(t, ok, key)
<1> DEFINE k == t[1]
           answer == [success |-> ok, key |-> key]
           r == [connection[k] EXCEPT !.reply = answer]
<1>1. k \in Clients /\ connection[k] \in Connection
  BY ThreadIds, ConnectionType
<1>2. answer \in Reply /\ answer # None /\ answer.success = ok /\ answer.key = key
  BY NoneAssumption DEF Reply
<1>3. r \in Connection /\ r # None /\ r.reply = answer /\ r.request = connection[k].request
  BY <1>1, <1>2, NoneAssumption DEF Connection
<1>4. connection' = [connection EXCEPT ![k] = r]
  BY <1>1 DEF Respond, TypeOK, MediaTypeOK
<1> HIDE DEF k, r, answer
<1>5. connection'[k] = r /\ \A j \in Clients : j # k => connection'[j] = connection[j]
  BY <1>1, <1>4 DEF TypeOK, MediaTypeOK
<1>6. connection' \in [Clients -> Connection \cup {None}]
  BY <1>1, <1>3, <1>4 DEF TypeOK, MediaTypeOK
<1> QED BY <1>2, <1>3, <1>5, <1>6 DEF Answers, k

\* A change of the map disturbs those that read it: readers, not the receiver,
\* which has the one thread that makes the change.
LEMMA RaceEffect ==
  ASSUME TypeOK, Served, Objects, NEW t \in Threads, Pending(t), t[1] = Receiver,
         NEW place \in ThreadStates, NEW f, f = WithRace(t, place)
  PROVE  /\ f \in [Threads -> Thread \cup {None}]
         /\ f[t] = [thread[t] EXCEPT !.at = place]
         /\ \A u \in Threads : u # t =>
              /\ f[u] = None <=> thread[u] = None
              /\ thread[u] # None =>
                   /\ f[u].at = thread[u].at
                   /\ f[u].request = thread[u].request
                   /\ f[u].object = thread[u].object
                   /\ f[u].port = thread[u].port
                   /\ u[1] = Receiver => f[u].raced = thread[u].raced
<1>1. ASSUME NEW u \in Threads, thread[u] # None
      PROVE  /\ [thread[u] EXCEPT !.raced = TRUE] \in Thread
             /\ [thread[u] EXCEPT !.raced = TRUE] # None
             /\ [thread[u] EXCEPT !.raced = TRUE].at = thread[u].at
             /\ [thread[u] EXCEPT !.raced = TRUE].request = thread[u].request
             /\ [thread[u] EXCEPT !.raced = TRUE].object = thread[u].object
             /\ [thread[u] EXCEPT !.raced = TRUE].port = thread[u].port
  BY <1>1, ThreadType, NoneAssumption DEF Thread
<1>2. [thread[t] EXCEPT !.at = place] \in Thread
  BY ThreadType DEF Thread, Pending
<1>3. \A u \in Threads : thread[u] \in Thread \cup {None}
  BY DEF TypeOK, MediaTypeOK
<1>4. ASSUME NEW u \in Threads, u # t, u[1] = Receiver
      PROVE  ~At(u, "looking")
  BY <1>4 DEF Served, Pending, At
<1>5. \A u \in Threads : f[u] = IF u = t THEN [thread[t] EXCEPT !.at = place]
                                 ELSE IF At(u, "looking") THEN [thread[u] EXCEPT !.raced = TRUE]
                                 ELSE thread[u]
  BY DEF WithRace
<1>6. f \in [Threads -> Thread \cup {None}]
  <2>1. \A u \in Threads : f[u] \in Thread \cup {None}
    BY <1>1, <1>2, <1>3, <1>5 DEF At
  <2> QED BY <2>1 DEF WithRace
<1>7. ASSUME NEW u \in Threads, u # t
      PROVE  /\ f[u] = None <=> thread[u] = None
             /\ thread[u] # None =>
                   /\ f[u].at = thread[u].at
                   /\ f[u].request = thread[u].request
                   /\ f[u].object = thread[u].object
                   /\ f[u].port = thread[u].port
                   /\ u[1] = Receiver => f[u].raced = thread[u].raced
  <2>1. CASE At(u, "looking")
    <3>1. f[u] = [thread[u] EXCEPT !.raced = TRUE] /\ thread[u] # None
      BY <1>5, <1>7, <2>1 DEF At
    <3> QED BY <1>1, <1>4, <1>7, <2>1, <3>1
  <2>2. CASE ~At(u, "looking")
    BY <1>5, <1>7, <2>2
  <2> QED BY <2>1, <2>2
<1> QED BY <1>5, <1>6, <1>7

\* Who waits for the answer of a thread, and what has been asked.
LEMMA AskedBy ==
  ASSUME Core, NEW t \in Threads, Pending(t)
  PROVE  /\ thread[t].request.type \in Types /\ thread[t].request.call \in Calls
         /\ t[1] = Receiver =>
              rx.at = thread[t].request.type /\ rx.call = thread[t].request.call
         /\ t[1] \in Calls =>
              /\ thread[t].request.call = t[1]
              /\ thread[t].request.type \in {"dtmf", "update"}
              /\ reader[t[1]] = "running"
              /\ phase[t[1]] \in {"open", "closed"}
         /\ thread[t].request.type \in {"init", "start", "stop", "close"} => t[1] = Receiver
<1>1. /\ t[1] \in Clients /\ connection[t[1]] # None
      /\ connection[t[1]].request = thread[t].request
  BY ThreadIds DEF Core, Served
<1>2. thread[t].request.type \in Types /\ thread[t].request.call \in Calls
  BY ThreadType DEF Core, Pending, Request
<1>3. t[1] = Receiver => rx.at = thread[t].request.type /\ rx.call = thread[t].request.call
  BY <1>1 DEF Core, RxAsks
<1>4. t[1] \in Calls =>
              /\ thread[t].request.call = t[1]
              /\ thread[t].request.type \in {"dtmf", "update"}
              /\ reader[t[1]] = "running"
              /\ phase[t[1]] \in {"open", "closed"}
  BY <1>1 DEF Core, ReaderAsks
<1> QED BY <1>1, <1>2, <1>3, <1>4, ClientIds

\* Where the map does not change, nor do the sets made from it.
LEMMA SameMap ==
  ASSUME UNCHANGED sessions
  PROVE  /\ UsedPorts' = UsedPorts
         /\ \A c : InMap(c)' = InMap(c)
         /\ \A c : RemotePortInUse(c)' = RemotePortInUse(c)
BY DEF UsedPorts, InMap, RemotePortInUse

\* The server only adds its answer to what the clients know.
LEMMA ServerFrame ==
  ASSUME Core, NEW t \in Threads, UNCHANGED clientVars,
         \/ UNCHANGED connection
         \/ connection[t[1]] # None /\ \E ok, key : Answers(t, ok, key)
  PROVE  RxAsks' /\ ReaderAsks' /\ Phones'
<1>1. \A k \in Clients : /\ connection'[k] = None <=> connection[k] = None
                         /\ connection[k] # None => connection'[k].request = connection[k].request
  BY ThreadIds DEF Answers
<1>2. RxAsks'
  BY <1>1, ClientIds DEF Core, RxAsks, clientVars
<1>3. ReaderAsks'
  BY <1>1, ClientIds DEF Core, ReaderAsks, clientVars
<1>4. Phones'
  BY DEF Core, Phones, SamePhone, clientVars
<1> QED BY <1>2, <1>3, <1>4

\* An object stays the session of its request's call, which others also hold.
LEMMA ObjectsFrame ==
  ASSUME Core, NEW t \in Threads, Others(t),
         thread'[t] # None =>
           /\ thread[t] # None
           /\ thread'[t].request = thread[t].request
           /\ thread'[t].at \in {"entered", "allowed", "looking"} => thread'[t].object = None
           /\ thread'[t].at \in {"opening", "found", "closing"} => thread'[t].object # None
           /\ thread'[t].at \in {"allowed", "opening"} => Asks(t, "init")
           /\ thread'[t].at \in {"looking", "found"} => ~Asks(t, "init")
           /\ t[1] = Receiver => ~thread'[t].raced
           /\ thread'[t].object \in {None, thread[t].request.call}
  PROVE  Objects' /\ ReachesOwnSession'
<1>1. Objects'
  BY DEF Core, Others, Kept, Objects, Asks
<1>2. ReachesOwnSession'
  BY DEF Core, Others, Kept, ReachesOwnSession
<1> QED BY <1>1, <1>2

\* A step that changes nothing but mailboxes, keys and the fault.
LEMMA SameServer ==
  ASSUME Core, TypeOK', UNCHANGED <<sessions, thread, connection, clientVars>>,
         \A c \in Calls : session'[c].state = session[c].state
  PROVE  Core'
<1>1. Served' /\ Objects' /\ ReachesOwnSession'
  BY DEF Core, Served, Pending, Objects, Asks, ReachesOwnSession
<1>2. RxAsks' /\ ReaderAsks' /\ Phones'
  BY DEF Core, RxAsks, ReaderAsks, Phones, SamePhone, clientVars
<1>3. MapInv'
  BY SameMap DEF Core, MapInv, Inserted, RxAnswered, At, clientVars
<1>4. CountInv' /\ Allowed'
  BY SameMap DEF Core, CountInv, Allowed, At
<1>5. HeldInv' /\ HeldIsNotClosed'
  BY SameMap, ThreadType DEF Core, HeldInv, HeldIsNotClosed, clientVars
<1> QED BY <1>1, <1>2, <1>3, <1>4, <1>5 DEF Core

\* A thread goes on, and neither the map nor any session is opened or closed.
LEMMA MoveKeeps ==
  ASSUME Core, TypeOK', NEW t \in Threads, Pending(t),
         NEW place \in {"allowed", "looking", "found"}, NEW object,
         Others(t), Moves(t, place, object), UNCHANGED <<sessions, connection, clientVars>>,
         \A c \in Calls : session'[c].state = session[c].state,
         thread[t].at # "opening",
         place = "allowed" => /\ Asks(t, "init") /\ object = None
                              /\ thread'[t].port \in LocalPorts
                              /\ sessions[thread'[t].port] = None
                              /\ ~RemotePortInUse(thread[t].request.call)
                              /\ Cardinality(UsedPorts) < MaxSessions,
         place = "looking" => ~Asks(t, "init") /\ object = None,
         place = "found" => ~Asks(t, "init") /\ object = thread[t].request.call /\ InMap(object)
  PROVE  Core'
<1>1. RxAsks' /\ ReaderAsks' /\ Phones'
  BY ServerFrame
<1>2. object \in {None, thread[t].request.call} /\ (place = "found" => object # None)
  BY AskedBy, MediaAssumption
<1>3. Objects' /\ ReachesOwnSession'
  BY <1>2, ObjectsFrame DEF Moves, Asks
<1>4. Served'
  BY DEF Core, Served, Pending, Others, Kept, Moves
<1>5. MapInv'
  <2>1. \A u \in Threads : At(u, "opening")' => At(u, "opening") /\ thread'[u].object = thread[u].object
    BY DEF At, Others, Kept, Moves
  <2>2. \A u \in Threads : At(u, "opening") => At(u, "opening")'
    BY DEF At, Others, Kept, Moves
  <2> QED BY <2>1, <2>2, SameMap DEF Core, MapInv, Inserted, RxAnswered, clientVars
<1>6. CountInv'
  BY SameMap DEF Core, CountInv, At, Others, Kept, Moves
<1>7. Allowed'
  BY SameMap DEF Core, Allowed, At, Others, Kept, Moves
<1>8. HeldInv' /\ HeldIsNotClosed'
  <2>1. \A u \in Threads : thread'[u] # None /\ thread'[u].object # None =>
          \/ thread[u] # None /\ thread[u].object = thread'[u].object /\ thread[u].at = thread'[u].at
          \/ u = t /\ place = "found"
    BY DEF Others, Kept, Moves
  <2>2. place = "found" => session'[object].state = "live"
    BY AskedBy DEF Core, MapInv
  <2>3. HeldInv'
    BY <2>1, SameMap DEF Core, HeldInv, Moves, clientVars
  <2>4. HeldIsNotClosed'
    BY <2>1, <2>2, AskedBy, ThreadType DEF Core, HeldIsNotClosed, Moves
  <2> QED BY <2>3, <2>4
<1> QED BY <1>1, <1>3, <1>4, <1>5, <1>6, <1>7, <1>8 DEF Core

\* A thread answers: its client, and nobody else, knows more.
LEMMA AnswerFrame ==
  ASSUME Core, NEW t \in Threads, Pending(t), NEW ok, NEW key,
         Others(t), Moves(t, "answered", thread[t].object), Answers(t, ok, key),
         UNCHANGED clientVars
  PROVE  Served' /\ Objects' /\ ReachesOwnSession' /\ RxAsks' /\ ReaderAsks' /\ Phones'
<1>1. connection[t[1]] # None
  BY DEF Core, Served
<1>2. RxAsks' /\ ReaderAsks' /\ Phones'
  BY <1>1, ServerFrame
<1>3. Objects' /\ ReachesOwnSession'
  BY ObjectsFrame DEF Core, ReachesOwnSession, Moves
<1>4. Served'
  <2>1. \A u \in Threads : Pending(u)' => u # t /\ Pending(u) /\ thread'[u].request = thread[u].request
    BY DEF Pending, Others, Kept, Moves
  <2>2. \A u \in Threads : Pending(u) /\ u # t => connection'[u[1]] = connection[u[1]]
    BY ThreadIds DEF Core, Served, Answers
  <2> QED BY <2>1, <2>2 DEF Core, Served
<1> QED BY <1>2, <1>3, <1>4

\* A thread answers, and neither the map nor any session is opened or closed.
LEMMA AnswerKeeps ==
  ASSUME Core, TypeOK', NEW t \in Threads, Pending(t),
         NEW ok, NEW key, Others(t), Moves(t, "answered", thread[t].object), Answers(t, ok, key),
         UNCHANGED <<sessions, clientVars>>,
         \A c \in Calls : session'[c].state = session[c].state,
         ~Asks(t, "close"),
         Asks(t, "init") => (ok <=> thread[t].at = "opening")
  PROVE  Core'
<1>1. connection[t[1]] # None /\ connection[t[1]].reply = None
  BY DEF Core, Served
<1>2. Served' /\ Objects' /\ ReachesOwnSession' /\ RxAsks' /\ ReaderAsks' /\ Phones'
  BY AnswerFrame
<1>5. MapInv'
  <2> USE SameMap, ClientIds, ThreadIds DEF Core
  <2>1. t[1] # Receiver => connection'[Receiver] = connection[Receiver]
    BY DEF Answers
  <2>2. \A u \in Threads : At(u, "opening")' =>
          u # t /\ At(u, "opening") /\ thread'[u].object = thread[u].object
    BY DEF At, Others, Kept, Moves
  <2>3. \A u \in Threads : At(u, "opening") /\ u # t => At(u, "opening")'
    BY DEF At, Others, Kept
  <2>4. \A c \in Calls : Inserted(c) => Inserted(c)'
    <3> SUFFICES ASSUME NEW c \in Calls, Inserted(c) PROVE Inserted(c)'
      OBVIOUS
    <3>1. CASE t[1] # Receiver
      BY <2>1, <2>3, <3>1 DEF Inserted, RxAnswered, clientVars
    <3>2. CASE t[1] = Receiver
      <4>1. ~RxAnswered
        BY <1>1, <3>2 DEF RxAnswered
      <4>2. PICK u \in Threads : At(u, "opening") /\ u[1] = Receiver
        BY <4>1 DEF Inserted
      <4>3. u = t
        BY <3>2, <4>2 DEF Served, Pending, At
      <4>4. Asks(t, "init") /\ ok
        BY <4>2, <4>3 DEF Objects, At
      <4> QED BY <3>2, <4>4 DEF Inserted, RxAnswered, Answers, clientVars
    <3> QED BY <3>1, <3>2
  <2>5. RxAnswered' /\ rx'.at = "init" /\ connection'[Receiver].reply.success => InMap(rx.call)'
    <3>1. CASE t[1] # Receiver
      BY <2>1, <3>1 DEF MapInv, RxAnswered, clientVars
    <3>2. CASE t[1] = Receiver
      BY <3>2, AskedBy DEF MapInv, RxAnswered, clientVars, Answers, Asks, Objects, Pending, At,
                           ReachesOwnSession
    <3> QED BY <3>1, <3>2
  <2>6. RxAnswered' /\ rx'.at = "close" => RxAnswered
    BY <2>1, AskedBy DEF RxAnswered, clientVars, Asks
  <2>7. RxAnswered => RxAnswered'
    BY <2>1 DEF RxAnswered, Answers
  <2> QED BY <2>2, <2>4, <2>5, <2>6, <2>7 DEF MapInv, clientVars
<1>6. CountInv'
  BY SameMap DEF Core, CountInv, At, Others, Kept, Moves
<1>7. Allowed'
  BY SameMap DEF Core, Allowed, At, Others, Kept, Moves
<1>8. HeldInv' /\ HeldIsNotClosed'
  <2>1. \A u \in Threads : thread'[u] # None /\ thread'[u].object # None =>
          /\ thread[u] # None /\ thread[u].object = thread'[u].object
          /\ thread'[u].at = "closing" <=> thread[u].at = "closing"
    BY DEF Others, Kept, Moves, Pending
  <2>2. HeldInv'
    BY <2>1, SameMap DEF Core, HeldInv, clientVars
  <2>3. HeldIsNotClosed'
    BY <2>1, ThreadType DEF Core, HeldIsNotClosed
  <2> QED BY <2>2, <2>3
<1> QED BY <1>2, <1>5, <1>6, <1>7, <1>8 DEF Core
-----------------------------------------------------------------------------
(***************************************************************************)
(* The media server.                                                       *)
(***************************************************************************)
\* The mailbox may be empty.
LEMMA ZeroKey == 0 \in Keys
BY MediaAssumption DEF Keys

\* The type of the state from that of what a thread may change.
LEMMA ServerTypes ==
  ASSUME TypeOK, UNCHANGED clientVars,
         sessions' \in [LocalPorts -> Calls \cup {None}],
         session' \in [Calls -> Session],
         thread' \in [Threads -> Thread \cup {None}],
         connection' \in [Clients -> Connection \cup {None}],
         pressed' \in Keys,
         fault' \in {"none", "getSession"}
  PROVE  TypeOK'
BY DEF TypeOK, MediaTypeOK, clientVars

\* init_session tests the limits: what it finds is what it will insert on.
LEMMA CheckLimitsKeeps ==
  ASSUME Core, NEW t \in Threads, CheckLimits(t), UNCHANGED clientVars
  PROVE  Core'
<1>0. TypeOK /\ 0 \in Keys
  BY ZeroKey DEF Core
<1>1. thread[t] # None /\ thread[t].at = "entered" /\ Asks(t, "init") /\ Pending(t)
  BY DEF CheckLimits, At, Pending
<1>2. /\ connection[t[1]] # None
      /\ t[1] = Receiver => ~thread[t].raced
      /\ thread[t].object = None
  BY <1>1 DEF Core, Served, Objects
<1>3. UNCHANGED <<sessions, session, pressed, fault>>
  BY DEF CheckLimits
<1>4. CASE Respond(t, FALSE, 0) /\ Goto(t, "answered")
  <2>1. Answers(t, FALSE, 0) /\ connection' \in [Clients -> Connection \cup {None}]
    BY <1>0, <1>2, <1>4, RespondEffect
  <2>2. /\ thread' \in [Threads -> Thread \cup {None}]
        /\ Others(t) /\ Moves(t, "answered", thread[t].object)
    BY <1>0, <1>1, <1>2, <1>4, GotoEffect DEF ThreadStates
  <2>3. TypeOK'
    BY <1>3, <2>1, <2>2, <1>0, ServerTypes DEF TypeOK, MediaTypeOK
  <2> QED BY <1>1, <1>3, <2>1, <2>2, <2>3, AnswerKeeps DEF Asks
<1>5. ASSUME ~ExceedsMaxSessions, ~RemotePortInUse(thread[t].request.call), UNCHANGED connection,
             NEW p \in LocalPorts, AvailablePort(p),
             thread' = [thread EXCEPT ![t].at = "allowed", ![t].port = p]
      PROVE  Core'
  <2> DEFINE r == [thread[t] EXCEPT !.at = "allowed", !.port = p]
  <2>1. thread' = [thread EXCEPT ![t] = r]
    BY <1>0, <1>5 DEF TypeOK, MediaTypeOK
  <2>2. /\ r \in Thread /\ r.at = "allowed" /\ r.port = p /\ r.object = None
        /\ r.request = thread[t].request /\ r.raced = thread[t].raced
    BY <1>0, <1>1, <1>2, ThreadType DEF Thread, ThreadStates
  <2> HIDE DEF r
  <2>3. /\ thread' \in [Threads -> Thread \cup {None}]
        /\ Others(t) /\ thread'[t] = r
    BY <1>0, <2>1, <2>2, ThreadBecomes
  <2>4. Moves(t, "allowed", None) /\ thread'[t].port = p
    BY <1>1, <1>2, <2>2, <2>3, NoneAssumption DEF Moves
  <2>5. TypeOK'
    BY <1>3, <1>5, <2>3, <1>0, ServerTypes DEF TypeOK, MediaTypeOK
  <2>6. sessions[p] = None
    BY <1>5 DEF AvailablePort, UsedPorts
  <2>7. Cardinality(UsedPorts) < MaxSessions
    <3>1. IsFiniteSet(UsedPorts)
      BY FS_Subset, MediaAssumption DEF UsedPorts
    <3> QED BY <1>5, <3>1, FS_CardinalityType, MediaAssumption DEF ExceedsMaxSessions
  <2> QED BY <1>1, <1>3, <1>5, <2>3, <2>4, <2>5, <2>6, <2>7, MoveKeeps
<1> QED BY <1>4, <1>5 DEF CheckLimits

\* open has returned.
LEMMA OpenedKeeps ==
  ASSUME Core, NEW t \in Threads, Opened(t), UNCHANGED clientVars
  PROVE  Core'
<1>0. TypeOK /\ 0 \in Keys
  BY ZeroKey DEF Core
<1>1. thread[t] # None /\ thread[t].at = "opening" /\ Asks(t, "init") /\ Pending(t)
  BY DEF Opened, At, Pending, Core, Objects
<1>2. /\ connection[t[1]] # None
      /\ t[1] = Receiver => ~thread[t].raced
  BY <1>1 DEF Core, Served, Objects
<1>3. UNCHANGED <<sessions, pressed, fault>> /\ Respond(t, TRUE, 0) /\ Goto(t, "answered")
  BY DEF Opened
<1>4. Answers(t, TRUE, 0) /\ connection' \in [Clients -> Connection \cup {None}]
  BY <1>0, <1>2, <1>3, RespondEffect
<1>5. /\ thread' \in [Threads -> Thread \cup {None}]
      /\ Others(t) /\ Moves(t, "answered", thread[t].object)
  BY <1>0, <1>1, <1>2, <1>3, GotoEffect DEF ThreadStates
<1>6. /\ session' \in [Calls -> Session]
      /\ \A c \in Calls : session'[c].state = session[c].state
  <2>1. PICK codec \in Codecs :
          session' = [session EXCEPT ![thread[t].object].players = codec \in Supported]
    BY DEF Opened
  <2>2. thread[t].object \in Calls
    BY <1>0, <1>1, ThreadType DEF Core, Objects
  <2> DEFINE c == thread[t].object
             b == codec \in Supported
             r == [session[c] EXCEPT !.players = b]
  <2>3. b \in BOOLEAN
    OBVIOUS
  <2> HIDE DEF b
  <2>4. r \in Session /\ r.state = session[c].state
    BY <1>0, <2>2, <2>3, SessionFields DEF TypeOK, MediaTypeOK
  <2>5. session' = [session EXCEPT ![c] = r]
    BY <1>0, <2>1, <2>2 DEF TypeOK, MediaTypeOK, b
  <2> HIDE DEF r
  <2> QED BY <1>0, <2>2, <2>4, <2>5, SessionBecomes
<1>7. TypeOK'
  BY <1>3, <1>4, <1>5, <1>6, <1>0, ServerTypes DEF TypeOK, MediaTypeOK
<1> QED BY <1>1, <1>3, <1>4, <1>5, <1>6, <1>7, AnswerKeeps DEF Asks

\* The search begins.
LEMMA GetSessionKeeps ==
  ASSUME Core, NEW t \in Threads, GetSession(t), UNCHANGED clientVars
  PROVE  Core'
<1>0. TypeOK /\ 0 \in Keys
  BY ZeroKey DEF Core
<1>1. thread[t] # None /\ thread[t].at = "entered" /\ ~Asks(t, "init") /\ Pending(t)
  BY DEF GetSession, At, Pending
<1>2. /\ thread[t].object = None
      /\ t[1] = Receiver => ~thread[t].raced
  BY <1>1 DEF Core, Objects
<1>3. UNCHANGED <<sessions, session, connection, pressed, fault>> /\ Goto(t, "looking")
  BY DEF GetSession
<1>4. /\ thread' \in [Threads -> Thread \cup {None}]
      /\ Others(t) /\ Moves(t, "looking", thread[t].object)
  BY <1>0, <1>1, <1>2, <1>3, GotoEffect DEF ThreadStates
<1>5. TypeOK'
  BY <1>3, <1>4, <1>0, ServerTypes DEF TypeOK, MediaTypeOK
<1> QED BY <1>1, <1>2, <1>3, <1>4, <1>5, MoveKeeps

\* Only the receiver opens sessions.
LEMMA InitsAreReceivers ==
  ASSUME Core, NEW t \in Threads, At(t, "allowed") \/ At(t, "opening")
  PROVE  Pending(t) /\ t[1] = Receiver /\ rx.at = "init" /\ rx.call = thread[t].request.call
<1>1. Pending(t) /\ Asks(t, "init")
  BY DEF At, Pending, Core, Objects
<1> QED BY <1>1, AskedBy DEF Asks

\* The ports in use can be counted.
LEMMA FiniteUsed == IsFiniteSet(UsedPorts) /\ IsFiniteSet(UsedPorts')
BY FS_Subset, MediaAssumption DEF UsedPorts

\* The session that a request's id finds is that of the call it is made for.
LEMMA HolderIsOwn ==
  ASSUME Core, AddressesApart, NEW t \in Threads, At(t, "looking"),
         NEW p \in Holders(thread[t].request.id)
  PROVE  sessions[p] = thread[t].request.call
<1> DEFINE c == thread[t].request.call
           d == sessions[p]
<1>1. Pending(t) /\ ~Asks(t, "init") /\ thread[t].request.id = Identifier(c)
  BY DEF Core, Objects, At, Pending
<1>2. p \in UsedPorts /\ p \in LocalPorts /\ d \in Calls /\ Identifier(d) = Identifier(c) /\ InMap(d)
  BY <1>1 DEF Holders, UsedPorts, InMap, Core, TypeOK, MediaTypeOK
<1>3. c \in Calls
  BY <1>1, AskedBy
<1>4. phase[d] = "open" \/ Inserted(d)
  BY <1>2 DEF Core, MapInv
<1>5. phase[c] \in {"open", "closed"}
  <2>1. CASE t[1] = Receiver
    <3>1. rx.at \in {"start", "update", "stop", "close"} /\ rx.call = c
      BY <1>1, <2>1, AskedBy DEF Asks, Core, TypeOK, Operations, Types
    <3> QED BY <3>1 DEF Core, RxAsks
  <2>2. CASE t[1] \in Calls
    BY <1>1, <2>2, AskedBy
  <2> QED BY <2>1, <2>2, ThreadIds, ClientIds
<1>6. CASE phase[d] = "open"
  BY <1>2, <1>3, <1>5, <1>6 DEF Core, Phones, SamePhone
<1>7. CASE Inserted(d)
  <2>1. phase[c] = "open"
    BY <1>2, <1>3, <1>5, <1>7 DEF Inserted, Core, RxAsks, SamePhone
  <2>2. InMap(c)
    BY <1>3, <1>7, <2>1 DEF Inserted, Core, MapInv
  <2>3. PICK q \in LocalPorts : sessions[q] = c
    BY <2>2 DEF InMap
  <2>4. RemotePort[sessions[p]] = RemotePort[sessions[q]]
    BY <1>2, <1>3, <2>3 DEF AddressesApart, SamePhone
  <2>5. q \in UsedPorts
    BY <1>3, <2>3, MediaAssumption DEF UsedPorts
  <2> QED BY <1>2, <2>3, <2>4, <2>5 DEF Core, MapInv
<1> QED BY <1>4, <1>6, <1>7

\* The search ends, with the session, without it, or with the process.
LEMMA EndGetSessionKeeps ==
  ASSUME Core, AddressesApart, NEW t \in Threads, EndGetSession(t), UNCHANGED clientVars
  PROVE  Core'
<1>0. TypeOK /\ 0 \in Keys
  BY ZeroKey DEF Core
<1>1. thread[t] # None /\ thread[t].at = "looking" /\ ~Asks(t, "init") /\ Pending(t)
  BY DEF Core, EndGetSession, At, Pending, Objects
<1>2. /\ connection[t[1]] # None
      /\ t[1] = Receiver => ~thread[t].raced
      /\ thread[t].object = None
  BY <1>1 DEF Core, Served, Objects
<1>3. UNCHANGED <<sessions, session, pressed>>
  BY DEF EndGetSession
<1>4. CASE Found(t)
  <2>1. PICK p \in Holders(thread[t].request.id) :
          thread' = [thread EXCEPT ![t].at = "found", ![t].raced = FALSE, ![t].object = sessions[p]]
    BY <1>4 DEF Found
  <2>2. sessions[p] = thread[t].request.call
    BY <1>1, HolderIsOwn DEF At
  <2>3. sessions[p] \in Calls /\ InMap(sessions[p])
    BY <2>2, <1>1, AskedBy DEF Holders, UsedPorts, InMap
  <2> DEFINE d == sessions[p]
             r == [thread[t] EXCEPT !.at = "found", !.raced = FALSE, !.object = d]
  <2>4. thread' = [thread EXCEPT ![t] = r]
    BY <1>0, <2>1 DEF TypeOK, MediaTypeOK
  <2>5. /\ r \in Thread /\ r.at = "found" /\ r.object = d
        /\ r.request = thread[t].request /\ r.raced = FALSE
    BY <1>1, <2>3, <1>0, ThreadType DEF Thread, ThreadStates
  <2> HIDE DEF r
  <2>6. /\ thread' \in [Threads -> Thread \cup {None}]
        /\ Others(t) /\ thread'[t] = r
    BY <2>4, <2>5, <1>0, ThreadBecomes
  <2>7. Moves(t, "found", d)
    BY <1>1, <2>5, <2>6, NoneAssumption DEF Moves
  <2>8. UNCHANGED <<connection, fault>>
    BY <1>4 DEF Found
  <2>9. TypeOK'
    BY <1>3, <2>6, <2>8, <1>0, ServerTypes DEF TypeOK, MediaTypeOK
  <2> QED BY <1>1, <1>3, <2>2, <2>3, <2>6, <2>7, <2>8, <2>9, MoveKeeps
<1>5. CASE (Holders(thread[t].request.id) = {} \/ thread[t].raced) /\ NotFound(t)
  <2>1. Answers(t, FALSE, 0) /\ connection' \in [Clients -> Connection \cup {None}]
    BY <1>0, <1>2, <1>5, RespondEffect DEF NotFound
  <2> DEFINE r == [thread[t] EXCEPT !.at = "answered", !.raced = FALSE]
  <2>2. thread' = [thread EXCEPT ![t] = r]
    BY <1>0, <1>5 DEF NotFound, TypeOK, MediaTypeOK
  <2>3. /\ r \in Thread /\ r.at = "answered" /\ r.object = thread[t].object
        /\ r.request = thread[t].request /\ r.raced = FALSE
    BY <1>1, <1>0, ThreadType DEF Thread, ThreadStates
  <2> HIDE DEF r
  <2>4. /\ thread' \in [Threads -> Thread \cup {None}]
        /\ Others(t) /\ thread'[t] = r
    BY <2>2, <2>3, <1>0, ThreadBecomes
  <2>5. Moves(t, "answered", thread[t].object)
    BY <1>1, <2>3, <2>4, NoneAssumption DEF Moves
  <2>6. TypeOK'
    BY <1>3, <1>5, <2>1, <2>4, <1>0, ServerTypes DEF NotFound, TypeOK, MediaTypeOK
  <2>7. ~Asks(t, "close")
    <3> SUFFICES ASSUME Asks(t, "close") PROVE FALSE
      OBVIOUS
    <3>1. t[1] = Receiver /\ rx.at = "close" /\ rx.call = thread[t].request.call
      BY <1>1, AskedBy DEF Asks
    <3>2. connection[Receiver].reply = None
      BY <1>1, <3>1 DEF Core, Served
    <3>3. phase[rx.call] = "open" /\ rx.call \in Calls
      BY <3>1 DEF Core, RxAsks
    <3>4. InMap(rx.call)
      BY <3>2, <3>3 DEF Core, MapInv, RxAnswered
    <3>5. Holders(thread[t].request.id) # {}
      BY <1>1, <3>1, <3>3, <3>4, MediaAssumption
         DEF InMap, Holders, UsedPorts, Core, Objects
    <3> QED BY <1>2, <1>5, <3>1, <3>5
  <2> QED BY <1>1, <1>3, <2>1, <2>4, <2>5, <2>6, <2>7, AnswerKeeps
<1>6. CASE Crashed
  <2>1. UNCHANGED <<thread, connection>> /\ fault' = "getSession"
    BY <1>6 DEF Crashed
  <2>2. TypeOK'
    BY <1>3, <2>1, <1>0, ServerTypes DEF TypeOK, MediaTypeOK
  <2> QED BY <1>3, <2>1, <2>2, SameServer
<1> QED BY <1>4, <1>5, <1>6 DEF EndGetSession

\* What is served without a change of the map: start, stop, update, dtmf.
LEMMA ServeKeeps ==
  ASSUME Core, NEW t \in Threads, At(t, "found"), UNCHANGED <<pressed, fault, clientVars>>,
         StartOrStop(t, "start", TRUE) \/ StartOrStop(t, "stop", FALSE) \/ Update(t)
           \/ GetDTMFEvent(t)
  PROVE  Core'
<1>0. TypeOK /\ 0 \in Keys
  BY ZeroKey DEF Core
<1>1. /\ thread[t] # None /\ thread[t].at = "found" /\ Pending(t) /\ ~Asks(t, "init")
      /\ thread[t].object \in Calls
  BY <1>0, ThreadType DEF At, Pending, Core, Objects
<1>2. /\ connection[t[1]] # None
      /\ t[1] = Receiver => ~thread[t].raced
  BY <1>1 DEF Core, Served, Objects
<1>3. UNCHANGED sessions /\ Goto(t, "answered") /\ ~Asks(t, "close")
  BY DEF StartOrStop, Update, GetDTMFEvent, Asks
<1>4. PICK key \in Keys : Respond(t, TRUE, key)
  <2>1. session[thread[t].object].dtmf \in Keys
    BY <1>0, <1>1 DEF TypeOK, MediaTypeOK, Session
  <2> QED BY <1>0, <2>1 DEF StartOrStop, Update, GetDTMFEvent
<1>5. /\ session' \in [Calls -> Session]
      /\ \A c \in Calls : session'[c].state = session[c].state
  <2>1. CASE UNCHANGED session
    BY <1>0, <2>1 DEF TypeOK, MediaTypeOK
  <2>2. ASSUME NEW playing \in BOOLEAN,
               session' = [session EXCEPT ![thread[t].object].playing =
                             playing /\ session[thread[t].object].players]
        PROVE  /\ session' \in [Calls -> Session]
               /\ \A c \in Calls : session'[c].state = session[c].state
    <3> DEFINE c == thread[t].object
               b == playing /\ session[c].players
               r == [session[c] EXCEPT !.playing = b]
    <3>1. b \in BOOLEAN
      OBVIOUS
    <3>2. session' = [session EXCEPT ![c] = r]
      BY <1>0, <1>1, <2>2 DEF TypeOK, MediaTypeOK
    <3> HIDE DEF b
    <3>3. r \in Session /\ r.state = session[c].state
      BY <1>0, <1>1, <3>1, SessionFields DEF TypeOK, MediaTypeOK
    <3> HIDE DEF r
    <3> QED BY <1>0, <1>1, <3>2, <3>3, SessionBecomes
  <2>3. CASE StartOrStop(t, "start", TRUE)
    BY <2>2, <2>3 DEF StartOrStop
  <2>4. CASE StartOrStop(t, "stop", FALSE)
    BY <2>2, <2>4 DEF StartOrStop
  <2> QED BY <2>1, <2>3, <2>4 DEF Update, GetDTMFEvent
<1>6. Answers(t, TRUE, key) /\ connection' \in [Clients -> Connection \cup {None}]
  BY <1>0, <1>2, <1>4, RespondEffect
<1>7. /\ thread' \in [Threads -> Thread \cup {None}]
      /\ Others(t) /\ Moves(t, "answered", thread[t].object)
  BY <1>0, <1>1, <1>2, <1>3, GotoEffect DEF ThreadStates
<1>8. TypeOK'
  BY <1>0, <1>3, <1>5, <1>6, <1>7, ServerTypes DEF TypeOK, MediaTypeOK
<1> QED BY <1>1, <1>3, <1>5, <1>6, <1>7, <1>8, AnswerKeeps

\* The thread that removes a session answers; others see that the map changes.
LEMMA RemoveEffect ==
  ASSUME Core, NEW t \in Threads, At(t, "found"), RemoveSession(t)
  PROVE  /\ Pending(t) /\ connection[t[1]] # None
         /\ thread' \in [Threads -> Thread \cup {None}]
         /\ Others(t) /\ Moves(t, "answered", thread[t].object)
<1>0. TypeOK
  BY DEF Core
<1>1. thread[t] # None /\ thread[t].at = "found" /\ Pending(t) /\ Asks(t, "close")
  BY DEF RemoveSession, At, Pending
<1>2. t[1] = Receiver
  BY <1>1, AskedBy DEF Asks
<1>3. connection[t[1]] # None /\ ~thread[t].raced
  BY <1>1, <1>2 DEF Core, Served, Objects
<1>4. "answered" \in ThreadStates /\ thread' = WithRace(t, "answered")
  BY DEF ThreadStates, RemoveSession
<1>5. /\ thread' \in [Threads -> Thread \cup {None}]
      /\ thread'[t] = [thread[t] EXCEPT !.at = "answered"]
      /\ Others(t)
  BY <1>0, <1>1, <1>2, <1>4, RaceEffect DEF Core, Others, Kept
<1>6. Moves(t, "answered", thread[t].object)
  BY <1>0, <1>1, <1>3, <1>4, <1>5, ThreadType, NoneAssumption DEF Moves, Thread
<1> QED BY <1>1, <1>3, <1>5, <1>6

\* removeSession: the session that goes is the one the receiver closes.
LEMMA RemoveSessionKeeps ==
  ASSUME Core, NEW t \in Threads, At(t, "found"), RemoveSession(t),
         UNCHANGED <<pressed, fault, clientVars>>
  PROVE  Core'
<1> DEFINE c == thread[t].request.call
<1>0. TypeOK /\ 0 \in Keys
  BY ZeroKey DEF Core
<1>1. /\ thread[t] # None /\ thread[t].at = "found" /\ Pending(t) /\ Asks(t, "close")
      /\ thread[t].request.id = Identifier(c)
  BY DEF RemoveSession, At, Pending, Core, Objects
<1>2. t[1] = Receiver /\ rx.at = "close" /\ rx.call = c /\ c \in Calls
  BY <1>1, AskedBy DEF Asks
<1>3. connection[Receiver] # None /\ connection[Receiver].reply = None /\ ~thread[t].raced
  BY <1>1, <1>2 DEF Core, Served, Objects
<1>4. phase[c] = "open" /\ InMap(c)
  BY <1>2, <1>3 DEF Core, RxAsks, MapInv, RxAnswered
<1>5. Answers(t, TRUE, 0) /\ connection' \in [Clients -> Connection \cup {None}]
  BY <1>0, <1>2, <1>3, RespondEffect DEF RemoveSession
<1>6. /\ thread' \in [Threads -> Thread \cup {None}]
      /\ Others(t) /\ Moves(t, "answered", thread[t].object)
  BY RemoveEffect
<1>7. \A p \in LocalPorts : sessions'[p] = IF sessions[p] = c THEN None ELSE sessions[p]
  <2>1. ASSUME NEW p \in Holders(thread[t].request.id)
        PROVE  sessions[p] = c
    <3>1. p \in LocalPorts /\ sessions[p] \in Calls /\ Identifier(sessions[p]) = Identifier(c)
      BY <1>0, <1>1 DEF Holders, UsedPorts, TypeOK, MediaTypeOK
    <3>2. InMap(sessions[p])
      BY <3>1 DEF InMap
    <3>3. phase[sessions[p]] = "open"
      BY <1>2, <3>1, <3>2 DEF Core, MapInv, Inserted
    <3> QED BY <1>2, <1>4, <3>1, <3>3 DEF Core, Phones, SamePhone
  <2>2. \A p \in LocalPorts : sessions[p] = c => p \in Holders(thread[t].request.id)
    BY <1>1, <1>2, MediaAssumption DEF Holders, UsedPorts
  <2>3. \A p, q \in Holders(thread[t].request.id) : p = q
    BY <2>1 DEF Core, MapInv, Holders
  <2>4. \A p \in Holders(thread[t].request.id) : p <= p
    BY MediaAssumption DEF Holders, UsedPorts
  <2> QED BY <2>1, <2>2, <2>3, <2>4 DEF RemoveSession
<1>8. UNCHANGED session /\ sessions' \in [LocalPorts -> Calls \cup {None}]
  BY <1>0, <1>7 DEF RemoveSession, TypeOK, MediaTypeOK
<1>9. TypeOK'
  BY <1>0, <1>5, <1>6, <1>8, ServerTypes DEF TypeOK, MediaTypeOK
<1>10. Served' /\ Objects' /\ ReachesOwnSession' /\ RxAsks' /\ ReaderAsks' /\ Phones'
  BY <1>1, <1>5, <1>6, AnswerFrame
<1>11. \A u \in Threads : ~At(u, "opening")' /\ ~At(u, "allowed")'
  <2>1. \A u \in Threads : u # t => ~At(u, "opening") /\ ~At(u, "allowed")
    BY <1>1, <1>2, InitsAreReceivers DEF Core, Served, Pending, At
  <2> QED BY <1>6, <2>1 DEF At, Others, Kept, Moves
<1>12. /\ UsedPorts' \subseteq UsedPorts
       /\ \A p \in UsedPorts' : sessions'[p] = sessions[p]
       /\ \A d \in Calls : InMap(d)' <=> InMap(d) /\ d # c
  BY <1>2, <1>7, MediaAssumption DEF UsedPorts, InMap
<1>13. MapInv'
  <2>1. RxAnswered'
    BY <1>2, <1>5 DEF RxAnswered, Answers
  <2> QED BY <1>2, <1>4, <1>8, <1>11, <1>12, <2>1 DEF Core, MapInv, Inserted, clientVars
<1>14. CountInv'
  <2>1. Cardinality(UsedPorts') <= Cardinality(UsedPorts)
    BY <1>12, FiniteUsed, FS_Subset
  <2>2. Cardinality(UsedPorts') \in Nat /\ Cardinality(UsedPorts) \in Nat
    BY <1>12, FiniteUsed, FS_Subset, FS_CardinalityType
  <2> QED BY <1>11, <2>1, <2>2, MediaAssumption DEF Core, CountInv
<1>15. Allowed'
  BY <1>11 DEF Allowed
<1>16. HeldInv' /\ HeldIsNotClosed'
  <2>1. \A u \in Threads : thread'[u] # None /\ thread'[u].object # None =>
          /\ thread[u] # None /\ thread[u].object = thread'[u].object
          /\ thread[u].object \in Calls
          /\ thread'[u].at = "closing" <=> thread[u].at = "closing"
    BY <1>0, <1>6, <1>1, ThreadType DEF Others, Kept, Moves
  <2>2. HeldInv'
    BY <1>4, <1>12, <2>1 DEF Core, HeldInv, clientVars
  <2>3. HeldIsNotClosed'
    BY <1>8, <2>1 DEF Core, HeldIsNotClosed
  <2> QED BY <2>2, <2>3
<1> QED BY <1>9, <1>10, <1>13, <1>14, <1>15, <1>16 DEF Core

\* The thread that inserts has its session; others see that the map changes.
LEMMA InsertEffect ==
  ASSUME Core, NEW t \in Threads, Insert(t)
  PROVE  /\ thread' \in [Threads -> Thread \cup {None}]
         /\ Others(t) /\ Moves(t, "opening", thread[t].request.call)
<1> DEFINE c == thread[t].request.call
<1>a. TypeOK
  BY DEF Core
<1>b. /\ thread[t] # None /\ thread[t].at = "allowed" /\ Pending(t)
      /\ t[1] = Receiver /\ c \in Calls
  BY InitsAreReceivers DEF Insert, At, Core, Objects, RxAsks
<1>c. ~thread[t].raced
  BY <1>b DEF Core, Objects
<1> DEFINE f == WithRace(t, "opening")
           r == [f[t] EXCEPT !.object = c, !.port = None]
<1>1. "opening" \in ThreadStates
  BY DEF ThreadStates
<1>2. /\ f \in [Threads -> Thread \cup {None}]
      /\ f[t] = [thread[t] EXCEPT !.at = "opening"]
      /\ \A u \in Threads : u # t =>
            /\ f[u] = None <=> thread[u] = None
            /\ thread[u] # None =>
                 /\ f[u].at = thread[u].at
                 /\ f[u].request = thread[u].request
                 /\ f[u].object = thread[u].object
                 /\ f[u].port = thread[u].port
                 /\ u[1] = Receiver => f[u].raced = thread[u].raced
  BY <1>a, <1>b, <1>1, RaceEffect DEF Core
<1>3. thread' = [f EXCEPT ![t].object = c, ![t].port = None]
  BY DEF Insert
<1> HIDE DEF f
<1>4. thread' = [f EXCEPT ![t] = r]
  BY <1>2, <1>3
<1>5. /\ r \in Thread /\ r # None /\ r.at = "opening" /\ r.object = c
      /\ r.request = thread[t].request /\ r.raced = thread[t].raced
  <2> DEFINE s == [thread[t] EXCEPT !.at = "opening"]
  <2>1. /\ s \in Thread /\ s.at = "opening" /\ s.request = thread[t].request
        /\ s.raced = thread[t].raced
    BY <1>a, <1>b, <1>1, ThreadType DEF Thread
  <2>2. f[t] = s
    BY <1>2
  <2> HIDE DEF s
  <2>3. /\ r \in Thread /\ r.at = "opening" /\ r.object = c
        /\ r.request = thread[t].request /\ r.raced = thread[t].raced
    BY <1>b, <2>1, <2>2 DEF Thread
  <2> QED BY <2>3, NoneAssumption
<1> HIDE DEF r
<1>6. /\ thread' \in [Threads -> Thread \cup {None}]
      /\ thread'[t] = r
      /\ \A u \in Threads : u # t => thread'[u] = f[u]
  BY <1>2, <1>4, <1>5
<1>7. Others(t)
  BY <1>2, <1>6 DEF Others, Kept
<1>8. Moves(t, "opening", c)
  BY <1>b, <1>c, <1>5, <1>6 DEF Moves
<1> QED BY <1>6, <1>7, <1>8

\* createSession inserts on the port and under the limits it has tested.
LEMMA InsertKeeps ==
  ASSUME Core, NEW t \in Threads, Insert(t), UNCHANGED clientVars
  PROVE  Core'
<1> DEFINE c == thread[t].request.call
           p == thread[t].port
<1>0. TypeOK
  BY DEF Core
<1>1. /\ thread[t] # None /\ thread[t].at = "allowed" /\ Pending(t) /\ Asks(t, "init")
      /\ t[1] = Receiver /\ rx.at = "init" /\ rx.call = c /\ c \in Calls
  BY InitsAreReceivers DEF Insert, At, Core, Objects, RxAsks
<1>2. connection[Receiver] # None /\ connection[Receiver].reply = None /\ ~thread[t].raced
  BY <1>1 DEF Core, Served, Objects
<1>3. /\ p \in LocalPorts /\ sessions[p] = None /\ ~RemotePortInUse(c)
      /\ phase[c] = "none"
  BY <1>1 DEF Insert, Core, Allowed, RxAsks
<1>4. /\ sessions' = [sessions EXCEPT ![p] = c]
      /\ session' = [session EXCEPT ![c].state = "live"]
      /\ UNCHANGED <<connection, pressed, fault>>
  BY DEF Insert
<1>5. /\ thread' \in [Threads -> Thread \cup {None}]
      /\ Others(t) /\ Moves(t, "opening", c)
  BY InsertEffect
<1>6. /\ session' \in [Calls -> Session]
      /\ session'[c].state = "live"
      /\ \A d \in Calls : d # c => session'[d].state = session[d].state
  BY <1>0, <1>1, <1>4, ZenonT(60) DEF TypeOK, MediaTypeOK, Session
<1>7. TypeOK'
  <2>1. sessions' \in [LocalPorts -> Calls \cup {None}]
    BY <1>0, <1>1, <1>4 DEF TypeOK, MediaTypeOK
  <2> QED BY <1>0, <1>4, <1>5, <1>6, <2>1, ServerTypes DEF TypeOK, MediaTypeOK
<1>8. RxAsks' /\ ReaderAsks' /\ Phones'
  BY <1>4, ServerFrame
<1>9. Objects' /\ ReachesOwnSession'
  BY <1>1, <1>2, <1>5, ObjectsFrame, MediaAssumption DEF Moves
<1>10. Served'
  BY <1>1, <1>4, <1>5 DEF Core, Served, Pending, Others, Kept, Moves
<1>11. \A u \in Threads : u # t => ~At(u, "opening") /\ ~At(u, "allowed")
  BY <1>1, InitsAreReceivers DEF Core, Served, Pending, At
<1>12. \A u \in Threads : ~At(u, "allowed")' /\ (At(u, "opening")' => u = t)
  BY <1>5, <1>11 DEF At, Others, Kept, Moves
<1>13. /\ UsedPorts' = UsedPorts \cup {p} /\ p \notin UsedPorts
       /\ sessions'[p] = c
       /\ \A q \in UsedPorts : sessions'[q] = sessions[q]
       /\ \A d \in Calls : InMap(d)' <=> InMap(d) \/ d = c
  BY <1>0, <1>1, <1>3, <1>4, MediaAssumption DEF UsedPorts, InMap, TypeOK, MediaTypeOK
<1>14. MapInv'
  <2>1. Inserted(c)'
    BY <1>1, <1>5 DEF Inserted, At, Moves, clientVars
  <2>2. ~RxAnswered /\ ~RxAnswered'
    BY <1>2, <1>4 DEF RxAnswered
  <2>3. \A d \in Calls : d # c => ~Inserted(d)
    BY <1>1 DEF Inserted
  <2>4. \A q, s \in UsedPorts' :
          RemotePort[sessions'[q]] = RemotePort[sessions'[s]] => q = s
    BY <1>3, <1>13 DEF Core, MapInv, RemotePortInUse
  <2>5. \A d \in Calls : InMap(d)' => session'[d].state = "live"
    BY <1>6, <1>13 DEF Core, MapInv
  <2>6. \A u \in Threads : At(u, "opening")' => InMap(thread[u].object)'
    BY <1>1, <1>5, <1>12, <1>13 DEF Moves
  <2> QED BY <1>1, <1>12, <1>13, <2>1, <2>2, <2>3, <2>4, <2>5, <2>6, <1>5 DEF Core, MapInv, clientVars, Moves
<1>15. CountInv'
  <2>1. Cardinality(UsedPorts) < MaxSessions
    BY <1>1 DEF Core, CountInv, At
  <2>2. Cardinality(UsedPorts') = Cardinality(UsedPorts) + 1 /\ Cardinality(UsedPorts) \in Nat
    BY <1>13, FiniteUsed, FS_AddElement, FS_CardinalityType
  <2> QED BY <1>12, <2>1, <2>2, MediaAssumption DEF CountInv
<1>16. Allowed'
  BY <1>12 DEF Allowed
<1>17. ~InMap(c)
  <2>1. ~Inserted(c)
    BY <1>1, <1>2, <1>11 DEF Inserted, RxAnswered, At
  <2> QED BY <1>1, <1>3, <2>1 DEF Core, MapInv
<1>18. \A u \in Threads : thread'[u] # None /\ thread'[u].object # None /\ u # t =>
         /\ thread[u] # None /\ thread[u].object = thread'[u].object
         /\ thread[u].object \in Calls /\ thread[u].object # c
         /\ thread'[u].at = thread[u].at
  BY <1>0, <1>1, <1>3, <1>5, <1>17, ThreadType DEF Others, Kept, Core, HeldInv
<1>19. HeldInv'
  BY <1>1, <1>5, <1>13, <1>18 DEF Core, HeldInv, Moves, clientVars
<1>20. HeldIsNotClosed'
  BY <1>5, <1>6, <1>18 DEF Core, HeldIsNotClosed, Moves
<1> QED BY <1>7, <1>8, <1>9, <1>10, <1>14, <1>15, <1>16, <1>19, <1>20 DEF Core

\* A thread that has answered ends, or goes on to close what it was the last
\* to hold.
LEMMA LeaveKeeps ==
  ASSUME Core, TypeOK', NEW t \in Threads, thread[t] # None,
         thread[t].at \in {"answered", "closing"},
         Others(t), UNCHANGED <<sessions, connection, clientVars>>,
         NEW c \in Calls \cup {None}, c = thread[t].object,
         \A d \in Calls : d # c => session'[d].state = session[d].state,
         \/ /\ thread'[t] = None
            /\ \/ c # None => session'[c].state = session[c].state
               \/ thread[t].at = "closing"
         \/ Moves(t, "closing", c) /\ c # None /\ LastReference(t)
  PROVE  Core'
<1>1. RxAsks' /\ ReaderAsks' /\ Phones'
  BY ServerFrame
<1>2. Objects' /\ ReachesOwnSession'
  <2>1. c \in {None, thread[t].request.call}
    BY DEF Core, ReachesOwnSession
  <2> QED BY <2>1, ObjectsFrame DEF Moves
<1>3. Served'
  BY DEF Core, Served, Pending, Others, Kept, Moves
<1>4. \A u \in Threads : u # t /\ c # None /\ (thread[t].at = "closing" \/ LastReference(t)) =>
        thread[u] = None \/ thread[u].object # c
  BY DEF Core, HeldInv, LastReference, Users
<1>5. c # None /\ (thread[t].at = "closing" \/ LastReference(t)) => ~InMap(c)
  BY DEF Core, HeldInv, LastReference
<1>6. ASSUME NEW d \in Calls, InMap(d) PROVE session'[d].state = session[d].state
  <2>1. CASE d # c
    BY <2>1
  <2>2. CASE d = c
    <3>1. c # None
      BY <2>2, MediaAssumption
    <3>2. ~(thread[t].at = "closing" \/ LastReference(t))
      BY <1>5, <1>6, <2>2, <3>1
    <3> QED BY <2>2, <3>1, <3>2
  <2> QED BY <2>1, <2>2
<1>7. MapInv'
  <2>1. \A u \in Threads : At(u, "opening")' => At(u, "opening") /\ thread'[u].object = thread[u].object
    BY DEF At, Others, Kept, Moves
  <2>2. \A u \in Threads : At(u, "opening") => At(u, "opening")'
    BY DEF At, Others, Kept
  <2> QED BY <1>6, <2>1, <2>2, SameMap DEF Core, MapInv, Inserted, RxAnswered, clientVars
<1>8. CountInv' /\ Allowed'
  BY SameMap DEF Core, CountInv, Allowed, At, Others, Kept, Moves
<1>9. HeldInv'
  <2>1. \A u \in Threads : thread'[u] # None =>
          /\ thread[u] # None /\ thread'[u].object = thread[u].object
          /\ u # t => thread'[u].at = thread[u].at
    BY DEF Others, Kept, Moves
  <2>2. \A u \in Threads : u # t => (thread'[u] = None <=> thread[u] = None)
    BY DEF Others, Kept
  <2>3. thread'[t] # None => c # None /\ LastReference(t)
    OBVIOUS
  <2> QED BY <1>4, <1>5, <2>1, <2>2, <2>3, SameMap DEF Core, HeldInv, clientVars
<1>10. HeldIsNotClosed'
  <2> SUFFICES ASSUME NEW u \in Threads, thread'[u] # None, thread'[u].object # None,
                      thread'[u].at # "closing"
               PROVE  session'[thread'[u].object].state = "live"
    BY DEF HeldIsNotClosed
  <2>1. /\ u # t /\ thread[u] # None /\ thread[u].object = thread'[u].object
        /\ thread[u].at # "closing"
    BY DEF Others, Kept, Moves
  <2>2. thread[u].object \in Calls /\ session[thread[u].object].state = "live"
    BY <2>1, ThreadType DEF Core, HeldIsNotClosed
  <2> QED BY <1>4, <2>1, <2>2
<1> QED BY <1>1, <1>2, <1>3, <1>7, <1>8, <1>9, <1>10 DEF Core

\* The mailbox of the session that was read is cleared, and no more.
LEMMA ClearedType ==
  ASSUME Core, NEW t \in Threads, thread[t] # None, thread[t].object \in Calls
  PROVE  /\ Cleared(t) \in [Calls -> Session]
         /\ \A d \in Calls : Cleared(t)[d].state = session[d].state
         /\ \A d \in Calls : d # thread[t].object => Cleared(t)[d] = session[d]
         /\ Cleared(t)[thread[t].object].dtmf =
              IF Asks(t, "dtmf") THEN 0 ELSE session[thread[t].object].dtmf
BY ZeroKey, ZenonT(60) DEF Core, TypeOK, MediaTypeOK, Cleared, Session

\* After the answer.
LEMMA ReleaseKeeps ==
  ASSUME Core, NEW t \in Threads, Release(t), UNCHANGED clientVars
  PROVE  Core'
<1> DEFINE c == thread[t].object
<1>0. TypeOK /\ thread[t] # None /\ thread[t].at = "answered" /\ c \in Calls \cup {None}
  BY ThreadType DEF Core, Release, At
<1>1. UNCHANGED <<sessions, connection, pressed, fault>>
  BY DEF Release
<1>2. ASSUME thread' = [thread EXCEPT ![t] = None]
      PROVE  /\ thread' \in [Threads -> Thread \cup {None}]
             /\ Others(t) /\ thread'[t] = None
  BY <1>0, <1>2, ThreadBecomes
<1>3. CASE c = None /\ thread' = [thread EXCEPT ![t] = None] /\ UNCHANGED session
  <2>1. TypeOK'
    BY <1>0, <1>1, <1>2, <1>3, ServerTypes DEF TypeOK, MediaTypeOK
  <2> QED BY <1>0, <1>1, <1>2, <1>3, <2>1, LeaveKeeps
<1>4. CASE c # None /\ thread' = [thread EXCEPT ![t] = None] /\ session' = Cleared(t)
  <2>1. session' \in [Calls -> Session] /\ \A d \in Calls : session'[d].state = session[d].state
    BY <1>0, <1>4, ClearedType
  <2>2. TypeOK'
    BY <1>0, <1>1, <1>2, <1>4, <2>1, ServerTypes DEF TypeOK, MediaTypeOK
  <2> QED BY <1>0, <1>1, <1>2, <1>4, <2>1, <2>2, LeaveKeeps
<1>5. CASE /\ c # None /\ LastReference(t) /\ Goto(t, "closing")
           /\ session' = [Cleared(t) EXCEPT ![c].state = "closing", ![c].playing = FALSE]
  <2>1. /\ session' \in [Calls -> Session]
        /\ \A d \in Calls : d # c => session'[d].state = session[d].state
    <3> DEFINE f == Cleared(t)
               r == [f[c] EXCEPT !.state = "closing", !.playing = FALSE]
    <3>1. f \in [Calls -> Session] /\ \A d \in Calls : f[d].state = session[d].state
      BY <1>0, <1>5, ClearedType
    <3>2. session' = [f EXCEPT ![c].state = "closing", ![c].playing = FALSE]
      BY <1>5
    <3> HIDE DEF f
    <3>3. r \in Session
      BY <1>0, <1>5, <3>1 DEF Session
    <3>4. session' = [f EXCEPT ![c] = r]
      BY <1>0, <1>5, <3>1, <3>2
    <3> HIDE DEF r
    <3> QED BY <1>0, <1>5, <3>1, <3>3, <3>4
  <2>2. "closing" \in ThreadStates /\ (t[1] = Receiver => ~thread[t].raced)
    BY <1>0 DEF ThreadStates, Core, Objects
  <2>3. /\ thread' \in [Threads -> Thread \cup {None}]
        /\ Others(t) /\ Moves(t, "closing", c)
    BY <1>0, <1>5, <2>2, GotoEffect
  <2>4. TypeOK'
    BY <1>0, <1>1, <2>1, <2>3, ServerTypes DEF TypeOK, MediaTypeOK
  <2> QED BY <1>0, <1>1, <1>5, <2>1, <2>3, <2>4, LeaveKeeps
<1> QED BY <1>3, <1>4, <1>5 DEF Release

\* The players are closed; nobody else holds the session.
LEMMA DestroyedKeeps ==
  ASSUME Core, NEW t \in Threads, Destroyed(t), UNCHANGED clientVars
  PROVE  Core'
<1> DEFINE c == thread[t].object
<1>0. TypeOK /\ thread[t] # None /\ thread[t].at = "closing" /\ c \in Calls
  BY ThreadType DEF Core, Destroyed, At, Objects
<1>1. UNCHANGED <<sessions, connection, pressed, fault>>
  BY DEF Destroyed
<1>2. /\ thread' \in [Threads -> Thread \cup {None}]
      /\ Others(t) /\ thread'[t] = None
  BY <1>0, ThreadBecomes DEF Destroyed
<1>3. /\ session' \in [Calls -> Session]
      /\ \A d \in Calls : d # c => session'[d].state = session[d].state
  BY <1>0, ZenonT(60) DEF Destroyed, TypeOK, MediaTypeOK, Session
<1>4. TypeOK'
  BY <1>0, <1>1, <1>2, <1>3, ServerTypes DEF TypeOK, MediaTypeOK
<1> QED BY <1>0, <1>1, <1>2, <1>3, <1>4, LeaveKeeps

\* A key changes a mailbox.
LEMMA KeyPressedKeeps ==
  ASSUME Core, NEW c \in Calls, KeyPressed(c), UNCHANGED clientVars
  PROVE  Core'
<1>1. pressed + 1 \in Keys
  BY MediaAssumption DEF Core, TypeOK, MediaTypeOK, Keys, KeyPressed
<1>2. /\ session' \in [Calls -> Session]
      /\ \A d \in Calls : session'[d].state = session[d].state
  BY <1>1, ZenonT(60) DEF Core, TypeOK, MediaTypeOK, Session, KeyPressed
<1>3. TypeOK'
  BY <1>1, <1>2, ServerTypes DEF Core, TypeOK, MediaTypeOK, KeyPressed
<1> QED BY <1>2, <1>3, SameServer DEF KeyPressed

\* Every step of the media server keeps the invariant.
LEMMA MediaKeeps ==
  ASSUME Core, AddressesApart, MediaNext, UNCHANGED clientVars
  PROVE  Core'
<1>1. ASSUME NEW t \in Threads, ThreadStep(t)
      PROVE  Core'
  <2>1. CASE CheckLimits(t)
    BY <2>1, CheckLimitsKeeps
  <2>2. CASE Insert(t)
    BY <2>2, InsertKeeps
  <2>3. CASE Opened(t)
    BY <2>3, OpenedKeeps
  <2>4. CASE GetSession(t)
    BY <2>4, GetSessionKeeps
  <2>5. CASE EndGetSession(t)
    BY <2>5, EndGetSessionKeeps
  <2>6. CASE Serve(t)
    BY <2>6, ServeKeeps, RemoveSessionKeeps DEF Serve
  <2>7. CASE Release(t)
    BY <2>7, ReleaseKeeps
  <2>8. CASE Destroyed(t)
    BY <2>8, DestroyedKeeps
  <2> QED BY <1>1, <2>1, <2>2, <2>3, <2>4, <2>5, <2>6, <2>7, <2>8 DEF ThreadStep
<1> QED BY <1>1, KeyPressedKeeps DEF MediaNext
-----------------------------------------------------------------------------
(***************************************************************************)
(* The receiver and the readers.                                           *)
(***************************************************************************)
\* What the IVR keeps about its media sessions, and of which type.
ClientTypeOK ==
  /\ phase \in [Calls -> Phases]
  /\ rx \in [at : Operations, call : Calls \cup {None}, next : Phases]
  /\ reader \in [Calls -> {"none", "running", "exited"}]
  /\ running \in [Calls -> BOOLEAN]
  /\ updates \in [Calls -> 0 .. MaxUpdates]
  /\ heard \in [Calls -> Seq(1 .. MaxKeys)]

\* The client waits on a connection for the request it has sent.
Asked(k, type, c) ==
  /\ connection[k] = None
  /\ connection'[k] # None
  /\ connection'[k].reply = None
  /\ connection'[k].request.type = type
  /\ connection'[k].request.call = c
  /\ \A j \in Clients : j # k => connection'[j] = connection[j]

\* A thread has been started for the connection.
Enters(t) ==
  /\ thread[t] = None
  /\ thread'[t] # None
  /\ thread'[t].at = "entered"
  /\ thread'[t].object = None
  /\ ~thread'[t].raced
  /\ thread'[t].request = connection'[t[1]].request
  /\ thread'[t].request.id = Identifier(thread'[t].request.call)

\* sendRequest opens a connection and has a thread serve it.
LEMMA SendEffect ==
  ASSUME TypeOK, NEW k \in Clients, NEW type \in Types, NEW c \in Calls, Send(k, type, c)
  PROVE  /\ connection' \in [Clients -> Connection \cup {None}]
         /\ thread' \in [Threads -> Thread \cup {None}]
         /\ Asked(k, type, c)
         /\ \E t \in Threads : t[1] = k /\ Enters(t) /\ Others(t)
         /\ UNCHANGED <<sessions, session, pressed, fault>>
<1> DEFINE request == [type |-> type, call |-> c, id |-> Identifier(c)]
           open == [request |-> request, reply |-> None]
           r == [at |-> "entered", request |-> request, object |-> None,
                 port |-> None, raced |-> FALSE]
<1>1. /\ request \in Request /\ request.type = type /\ request.call = c
      /\ request.id = Identifier(c)
  BY DEF Request
<1>2. /\ connection[k] = None
      /\ connection' = [connection EXCEPT ![k] = open]
      /\ UNCHANGED <<sessions, session, pressed, fault>>
  BY DEF Send, Accept
<1>3. PICK i \in 1 .. Slots[k] : thread[<<k, i>>] = None /\ thread' = [thread EXCEPT ![<<k, i>>] = r]
  BY DEF Send, Accept
<1> HIDE DEF request
<1>4. open \in Connection /\ open # None /\ open.request = request /\ open.reply = None
  BY <1>1, NoneAssumption DEF Connection
<1>5. /\ r \in Thread /\ r # None /\ r.at = "entered" /\ r.object = None /\ ~r.raced
      /\ r.request = request
  <2>1. r \in Thread
    BY <1>1 DEF Thread, ThreadStates
  <2> QED BY <2>1, NoneAssumption
<1> HIDE DEF open, r
<1>6. /\ connection' \in [Clients -> Connection \cup {None}]
      /\ connection'[k] = open
      /\ \A j \in Clients : j # k => connection'[j] = connection[j]
  BY <1>2, <1>4 DEF TypeOK, MediaTypeOK
<1> DEFINE t == <<k, i>>
<1>7. t \in Threads /\ t[1] = k
  BY ThreadIds
<1>8. thread[t] = None /\ thread' = [thread EXCEPT ![t] = r]
  BY <1>3
<1> HIDE DEF t
<1>9. thread' \in [Threads -> Thread \cup {None}] /\ Others(t) /\ thread'[t] = r
  BY <1>5, <1>7, <1>8, ThreadBecomes
<1>10. Enters(t)
  BY <1>1, <1>4, <1>5, <1>6, <1>7, <1>8, <1>9 DEF Enters
<1>11. Asked(k, type, c)
  BY <1>1, <1>2, <1>4, <1>6 DEF Asked
<1> QED BY <1>2, <1>6, <1>7, <1>9, <1>10, <1>11

\* The type of the state, from that of its two parts.
LEMMA ClientTypes ==
  /\ TypeOK <=> MediaTypeOK /\ ClientTypeOK
  /\ TypeOK' <=> MediaTypeOK' /\ ClientTypeOK'
BY DEF TypeOK, ClientTypeOK

\* A request changes nothing of what the server holds.
LEMMA SendKeeps ==
  ASSUME Core, NEW k \in Clients, NEW type \in Types, NEW c \in Calls, Send(k, type, c),
         UNCHANGED phase, k # Receiver => UNCHANGED rx,
         ClientTypeOK', RxAsks', ReaderAsks'
  PROVE  Core'
<1>0. TypeOK
  BY DEF Core
<1>1. /\ connection' \in [Clients -> Connection \cup {None}]
      /\ thread' \in [Threads -> Thread \cup {None}]
      /\ Asked(k, type, c)
      /\ UNCHANGED <<sessions, session, pressed, fault>>
  BY <1>0, SendEffect
<1>2. PICK t \in Threads : t[1] = k /\ Enters(t) /\ Others(t)
  BY <1>0, SendEffect
<1>3. TypeOK'
  BY <1>0, <1>1, ClientTypes DEF MediaTypeOK
<1>4. \A u \in Threads : u # t =>
        /\ (thread'[u] = None <=> thread[u] = None)
        /\ thread[u] # None =>
             /\ thread'[u].at = thread[u].at
             /\ thread'[u].request = thread[u].request
             /\ thread'[u].object = thread[u].object
             /\ thread'[u].port = thread[u].port
  BY <1>2 DEF Others, Kept
<1>5. \A u \in Threads : Pending(u) => u[1] # k
  BY <1>1 DEF Core, Served, Asked
<1>6. Served'
  <2>1. \A u \in Threads : Pending(u)' => u = t \/ (Pending(u) /\ u # t /\ thread'[u].request = thread[u].request)
    BY <1>4 DEF Pending
  <2>2. \A u \in Threads : Pending(u) => connection'[u[1]] = connection[u[1]]
    BY <1>1, <1>5, ThreadIds DEF Asked
  <2>3. connection'[k] # None /\ connection'[k].reply = None /\ thread'[t].request = connection'[k].request
    BY <1>1, <1>2 DEF Asked, Enters
  <2> QED BY <1>2, <1>5, <2>1, <2>2, <2>3 DEF Core, Served
<1>7. Objects' /\ ReachesOwnSession'
  <2>1. Objects'
    BY <1>2 DEF Core, Objects, Others, Kept, Enters, Asks
  <2>2. ReachesOwnSession'
    BY <1>2, <1>4 DEF Core, ReachesOwnSession, Enters
  <2> QED BY <2>1, <2>2
<1>8. Phones'
  BY DEF Core, Phones, SamePhone
<1>9. \A u \in Threads : /\ At(u, "opening")' <=> At(u, "opening")
                         /\ At(u, "allowed")' <=> At(u, "allowed")
  BY <1>2, <1>4 DEF At, Enters
<1>10. MapInv'
  <2>1. k = Receiver => ~RxAnswered /\ ~RxAnswered' /\ \A d \in Calls : ~Inserted(d)
    BY <1>1, <1>5 DEF Asked, RxAnswered, Inserted, Pending, At
  <2>2. k # Receiver => /\ connection'[Receiver] = connection[Receiver]
                        /\ RxAnswered' <=> RxAnswered
    BY <1>1, ClientIds DEF Asked, RxAnswered
  <2>3. \A d \in Calls : Inserted(d) => Inserted(d)'
    BY <1>9, <2>1, <2>2 DEF Inserted
  <2>4. \A u \in Threads : At(u, "opening") => thread'[u].object = thread[u].object
    BY <1>2, <1>4 DEF At, Enters
  <2> QED BY <1>1, <1>9, <2>1, <2>2, <2>3, <2>4, SameMap DEF Core, MapInv
<1>11. CountInv'
  BY <1>1, <1>9, SameMap DEF Core, CountInv
<1>12. Allowed'
  <2>1. \A u \in Threads : At(u, "allowed") => /\ thread'[u].port = thread[u].port
                                               /\ thread'[u].request = thread[u].request
    BY <1>2, <1>4 DEF At, Enters
  <2> QED BY <1>1, <1>9, <2>1, SameMap DEF Core, Allowed
<1>13. HeldInv' /\ HeldIsNotClosed'
  <2>1. \A u \in Threads : thread'[u] # None /\ thread'[u].object # None =>
          /\ thread[u] # None /\ thread[u].object = thread'[u].object
          /\ thread[u].at = thread'[u].at
    BY <1>2, <1>4 DEF Enters
  <2>2. HeldInv'
    BY <1>1, <2>1, SameMap DEF Core, HeldInv
  <2>3. HeldIsNotClosed'
    BY <1>1, <2>1 DEF Core, HeldIsNotClosed
  <2> QED BY <2>2, <2>3
<1> QED BY <1>3, <1>6, <1>7, <1>8, <1>10, <1>11, <1>12, <1>13 DEF Core

\* The answer is taken: nobody serves the client any more.
LEMMA TakeEffect ==
  ASSUME Core, NEW k \in Clients, Answered(k), Take(k)
  PROVE  /\ connection[k] # None /\ connection[k].reply # None
         /\ connection' \in [Clients -> Connection \cup {None}]
         /\ connection'[k] = None
         /\ \A j \in Clients : j # k => connection'[j] = connection[j]
         /\ \A u \in Threads : Pending(u) => u[1] # k
         /\ UNCHANGED <<sessions, session, thread, pressed, fault>>
<1>1. \A u \in Threads : Pending(u) => u[1] # k
  BY DEF Core, Served, Answered
<1> QED BY <1>1 DEF Core, TypeOK, MediaTypeOK, Answered, Take, serverVars

\* An answer, or no message at all, changes nothing of what the server holds.
LEMMA ClientKeeps ==
  ASSUME Core, NEW k \in Clients, (Answered(k) /\ Take(k)) \/ UNCHANGED <<connection, serverVars>>,
         ClientTypeOK', RxAsks', ReaderAsks', Phones', MapInv',
         \A c \in Calls : phase[c] # "none" => phase'[c] # "none"
  PROVE  Core'
<1>1. /\ connection' \in [Clients -> Connection \cup {None}]
      /\ UNCHANGED <<sessions, session, thread, pressed, fault>>
      /\ \A u \in Threads : Pending(u) => connection'[u[1]] = connection[u[1]]
  <2>1. CASE Answered(k) /\ Take(k)
    BY <2>1, TakeEffect, ThreadIds
  <2>2. CASE UNCHANGED <<connection, serverVars>>
    BY <2>2 DEF Core, TypeOK, MediaTypeOK, serverVars
  <2> QED BY <2>1, <2>2
<1>2. TypeOK'
  BY <1>1, ClientTypes DEF Core, MediaTypeOK
<1>3. Served' /\ Objects' /\ ReachesOwnSession'
  BY <1>1 DEF Core, Served, Pending, Objects, Asks, ReachesOwnSession
<1>4. CountInv' /\ Allowed'
  BY <1>1, SameMap DEF Core, CountInv, Allowed, At
<1>5. HeldInv' /\ HeldIsNotClosed'
  <2>1. \A u \in Threads : thread[u] # None /\ thread[u].object # None => thread[u].object \in Calls
    BY ThreadType DEF Core
  <2>2. HeldIsNotClosed'
    BY <1>1 DEF Core, HeldIsNotClosed
  <2> QED BY <1>1, <2>1, <2>2, SameMap DEF Core, HeldInv
<1> QED BY <1>2, <1>3, <1>4, <1>5 DEF Core

\* A request of the receiver.
LEMMA RxSends ==
  ASSUME Core, NEW c \in Calls, NEW type \in {"init", "start", "update", "stop", "close"},
         Send(Receiver, type, c), ClientTypeOK',
         UNCHANGED <<phase, updates>>, \A d \in Calls : d # c => reader'[d] = reader[d],
         reader'[c] = reader[c] \/ (reader[c] # "running" /\ reader'[c] = "none"),
         rx'.at = type, rx'.call = c,
         type = "init" => phase[c] = "none" /\ \A d \in Calls : SamePhone(c, d) => phase[d] # "closed",
         type \in {"start", "update", "stop"} => phase[c] \in {"open", "closed"},
         type = "close" => phase[c] = "open",
         type \in {"start", "stop", "close"} => reader'[c] = "none",
         type \in {"stop", "close"} => rx'.next \in {"closed", "over"}
  PROVE  Core'
<1>1. Asked(Receiver, type, c)
  BY SendEffect, ClientIds DEF Core, Types
<1>2. RxAsks'
  BY <1>1 DEF RxAsks, Asked, SamePhone
<1>3. \A d \in Calls : connection'[d] = connection[d]
  BY <1>1, ClientIds DEF Asked
<1>4. \A d \in Calls : reader[d] = "running" => reader'[d] = "running"
  OBVIOUS
<1>5. ReaderAsks'
  BY <1>3, <1>4 DEF Core, ReaderAsks
<1> QED BY <1>2, <1>5, SendKeeps, ClientIds DEF Types

\* A request of a reader.
LEMMA ReaderSends ==
  ASSUME Core, NEW c \in Calls, NEW type \in {"dtmf", "update"}, Send(c, type, c), ClientTypeOK',
         UNCHANGED <<phase, rx, reader>>, reader[c] = "running",
         \A d \in Calls : updates'[d] > 0 => updates[d] > 0
  PROVE  Core'
<1>1. Asked(c, type, c)
  BY SendEffect, ClientIds DEF Core, Types
<1>2. connection'[Receiver] = connection[Receiver]
  BY <1>1, ClientIds DEF Asked
<1>3. RxAsks'
  BY <1>2 DEF Core, RxAsks, SamePhone
<1>4. ReaderAsks'
  <2> SUFFICES ASSUME NEW d \in Calls
               PROVE  /\ connection'[d] # None =>
                           /\ reader[d] = "running"
                           /\ connection'[d].request.call = d
                           /\ connection'[d].request.type \in {"dtmf", "update"}
                      /\ updates'[d] > 0 => reader[d] = "running"
                      /\ reader[d] # "none" => phase[d] \in {"open", "closed"}
    BY DEF ReaderAsks
  <2>1. CASE d = c
    BY <1>1, <2>1 DEF Core, ReaderAsks, Asked
  <2>2. CASE d # c
    BY <1>1, <2>2, ClientIds DEF Core, ReaderAsks, Asked
  <2> QED BY <2>1, <2>2
<1> QED BY <1>3, <1>4, SendKeeps, ClientIds DEF Types

\* An answer to the receiver leaves the readers' connections alone.
LEMMA RxTakes ==
  ASSUME Core, NEW c \in Calls, Answered(Receiver), Take(Receiver),
         ClientTypeOK', UNCHANGED updates,
         \A d \in Calls : reader[d] = "running" => reader'[d] = "running",
         \A d \in Calls : reader'[d] # "none" => phase'[d] \in {"open", "closed"},
         rx'.at = "idle" \/ (rx'.at = "close" /\ rx'.call = c /\ phase'[c] = "open"
                              /\ reader'[c] = "none" /\ rx'.next \in {"closed", "over"}),
         Phones', MapInv', \A d \in Calls : phase[d] # "none" => phase'[d] # "none"
  PROVE  Core'
<1>1. connection'[Receiver] = None /\ \A d \in Calls : connection'[d] = connection[d]
  BY TakeEffect, ClientIds
<1>2. RxAsks'
  BY <1>1 DEF RxAsks
<1>3. ReaderAsks'
  BY <1>1 DEF Core, ReaderAsks
<1> QED BY <1>2, <1>3, ClientKeeps, ClientIds

\* The map does not change when an answer is taken.
LEMMA TakenMap ==
  ASSUME Core, Answered(Receiver), Take(Receiver)
  PROVE  /\ RxAnswered /\ ~RxAnswered'
         /\ connection[Receiver] # None
         /\ \A t \in Threads : ~(At(t, "opening") /\ t[1] = Receiver)
         /\ UNCHANGED <<sessions, session, thread>>
         /\ \A c : InMap(c)' = InMap(c)
         /\ UsedPorts' = UsedPorts
         /\ \A t \in Threads : At(t, "opening")' = At(t, "opening")
<1>1. /\ connection[Receiver] # None /\ connection[Receiver].reply # None
      /\ connection'[Receiver] = None
      /\ \A u \in Threads : Pending(u) => u[1] # Receiver
      /\ UNCHANGED <<sessions, session, thread, pressed, fault>>
  BY TakeEffect, ClientIds
<1> QED BY <1>1, SameMap DEF RxAnswered, At, Pending

\* Another call of the phone cannot be open when a session was made for one.
LEMMA SessionCreatedKeeps ==
  ASSUME Core, AddressesApart, NEW c \in Calls, SessionCreated(c)
  PROVE  Core'
<1> DEFINE ok == connection[Receiver].reply.success
<1>1. /\ rx.at = "init" /\ rx.call = c /\ Answered(Receiver) /\ Take(Receiver) /\ rx' = Idle
      /\ phase' = [phase EXCEPT ![c] = IF ok THEN "open" ELSE "none"]
      /\ UNCHANGED <<reader, running, updates, heard>>
  BY DEF SessionCreated, Is, ReaderUnchanged
<1>2. /\ phase[c] = "none" /\ (\A d \in Calls : SamePhone(c, d) => phase[d] # "closed")
      /\ phase \in [Calls -> Phases] /\ ClientTypeOK
  BY <1>1 DEF Core, RxAsks, TypeOK, ClientTypeOK
<1>3. /\ phase'[c] = IF ok THEN "open" ELSE "none"
      /\ \A d \in Calls : d # c => phase'[d] = phase[d]
      /\ phase' \in [Calls -> Phases]
  BY <1>1, <1>2 DEF Phases
<1>4. ClientTypeOK'
  BY <1>1, <1>2, <1>3 DEF ClientTypeOK, Idle, Operations, Phases
<1>5. rx'.at = "idle"
  BY <1>1 DEF Idle
<1>6. InMap(c) <=> ok
  <2>1. ok => InMap(c)
    BY <1>1, TakenMap DEF Core, MapInv
  <2>2. ~ok => ~Inserted(c)
    BY <1>1, TakenMap DEF Inserted
  <2> QED BY <1>2, <2>1, <2>2 DEF Core, MapInv
<1>7. \A d \in Calls : d # c => (InMap(d) <=> phase[d] = "open")
  BY <1>1 DEF Core, MapInv, Inserted
<1>8. MapInv'
  BY <1>1, <1>3, <1>5, <1>6, <1>7, TakenMap DEF Core, MapInv
<1>9. Phones'
  <2>1. ASSUME ok, NEW d \in Calls, SamePhone(c, d), d # c, phase[d] \in {"open", "closed"}
        PROVE  FALSE
    <3>1. InMap(c) /\ InMap(d)
      BY <1>2, <1>6, <1>7, <2>1
    <3>2. PICK p, q \in LocalPorts : sessions[p] = c /\ sessions[q] = d
      BY <3>1 DEF InMap
    <3>3. p \in UsedPorts /\ q \in UsedPorts
      BY <3>2, MediaAssumption DEF UsedPorts
    <3>4. p = q
      BY <2>1, <3>2, <3>3 DEF AddressesApart, Core, MapInv
    <3> QED BY <2>1, <3>2, <3>4
  <2>2. \A d, e \in Calls : SamePhone(d, e) => SamePhone(e, d)
    BY DEF SamePhone
  <2> QED BY <1>2, <1>3, <2>1, <2>2 DEF Core, Phones, SamePhone
<1> QED BY <1>1, <1>2, <1>3, <1>4, <1>5, <1>8, <1>9, RxTakes DEF Core, ReaderAsks

\* The answer to start or update: the session is as it was.
LEMMA RxReturns ==
  ASSUME Core, NEW c \in Calls, Answered(Receiver), Take(Receiver),
         rx.at \in {"start", "update"}, rx.call = c, rx' = Idle,
         ClientTypeOK', UNCHANGED <<phase, updates>>,
         \A d \in Calls : d # c => reader'[d] = reader[d],
         reader'[c] \in {reader[c], "running"}
  PROVE  Core'
<1>1. rx'.at = "idle"
  BY DEF Idle
<1>2. MapInv'
  BY <1>1, TakenMap DEF Core, MapInv, Inserted
<1>3. Phones'
  BY DEF Core, Phones, SamePhone
<1>4. phase[c] \in {"open", "closed"}
  BY DEF Core, RxAsks
<1>5. \A d \in Calls : reader'[d] # "none" => phase'[d] \in {"open", "closed"}
  BY <1>4 DEF Core, ReaderAsks
<1>6. \A d \in Calls : reader[d] = "running" => reader'[d] = "running"
  OBVIOUS
<1> QED BY <1>1, <1>2, <1>3, <1>5, <1>6, RxTakes

\* The call is over for the receiver, and the map has no session of it.
LEMMA RxEnds ==
  ASSUME Core, NEW c \in Calls, Answered(Receiver), Take(Receiver),
         rx.at \in {"stop", "close"}, rx.call = c, rx.at = "stop" => phase[c] = "closed",
         rx' = Idle, phase' = [phase EXCEPT ![c] = rx.next],
         UNCHANGED <<reader, running, updates, heard>>
  PROVE  Core'
<1>1. rx'.at = "idle"
  BY DEF Idle
<1>2. /\ phase[c] \in {"open", "closed"} /\ rx.next \in {"closed", "over"} /\ reader[c] = "none"
      /\ ClientTypeOK
  BY DEF Core, RxAsks, TypeOK, ClientTypeOK
<1>3. /\ phase'[c] \in {"closed", "over"}
      /\ \A d \in Calls : d # c => phase'[d] = phase[d]
      /\ phase' \in [Calls -> Phases]
  BY <1>2 DEF ClientTypeOK, Phases
<1>4. ClientTypeOK'
  BY <1>2, <1>3 DEF ClientTypeOK, Idle, Operations, Phases
<1>5. ~InMap(c)
  BY TakenMap DEF Core, MapInv, Inserted
<1>6. \A d \in Calls : d # c => (InMap(d) <=> phase[d] = "open")
  BY DEF Core, MapInv, Inserted
<1>7. MapInv'
  BY <1>1, <1>3, <1>5, <1>6, TakenMap DEF Core, MapInv
<1>8. Phones'
  BY <1>2, <1>3 DEF Core, Phones, SamePhone
<1>9. \A d \in Calls : reader'[d] # "none" => phase'[d] \in {"open", "closed"}
  BY <1>2, <1>3 DEF Core, ReaderAsks
<1> QED BY <1>1, <1>3, <1>4, <1>7, <1>8, <1>9, RxTakes

\* What the receiver does without a message.
LEMMA StopReadDTMFKeeps ==
  ASSUME Core, NEW c \in Calls, NEW next \in {"closed", "over"}, StopReadDTMF(c, next)
  PROVE  Core'
<1>1. /\ rx.at = "idle" /\ phase[c] \in {"open", "closed"}
      /\ rx' = [at |-> "join", call |-> c, next |-> next]
      /\ running' = [running EXCEPT ![c] = FALSE]
      /\ UNCHANGED <<phase, reader, updates, heard, connection, serverVars>>
  BY DEF StopReadDTMF, Idle
<1>2. ClientTypeOK'
  BY <1>1, ClientTypes DEF Core, ClientTypeOK, Operations, Phases
<1>3. rx'.at = "join" /\ rx'.call = c /\ rx'.next \in {"closed", "over"}
  BY <1>1
<1>4. RxAsks' /\ ReaderAsks' /\ Phones'
  BY <1>1, <1>3 DEF Core, RxAsks, ReaderAsks, Phones, SamePhone
<1>5. MapInv'
  BY <1>1, <1>3, SameMap DEF Core, MapInv, Inserted, RxAnswered, At, serverVars
<1> QED BY <1>1, <1>2, <1>4, <1>5, ClientKeeps, ClientIds

\* Every command of the receiver keeps the invariant.
LEMMA CommandKeeps ==
  ASSUME Core, NEW c \in Calls, Command(c)
  PROVE  Core'
<1>0. ClientTypeOK
  BY ClientTypes DEF Core
<1>1. CASE CreateSession(c)
  <2>1. /\ rx' = [at |-> "init", call |-> c, next |-> "none"] /\ Send(Receiver, "init", c)
        /\ phase[c] = "none" /\ (\A d \in Calls : SamePhone(c, d) => phase[d] # "closed")
        /\ UNCHANGED <<phase, reader, running, updates, heard>>
    BY <1>1 DEF CreateSession, Begin, ReaderUnchanged
  <2>2. ClientTypeOK' /\ rx'.at = "init" /\ rx'.call = c
    BY <1>0, <2>1 DEF ClientTypeOK, Operations, Phases
  <2> QED BY <2>1, <2>2, RxSends
<1>2. CASE StartMediaSession(c)
  <2>1. /\ rx' = [at |-> "start", call |-> c, next |-> "none"] /\ Send(Receiver, "start", c)
        /\ phase[c] \in {"open", "closed"} /\ reader[c] = "none"
        /\ UNCHANGED <<phase, reader, running, updates, heard>>
    BY <1>2 DEF StartMediaSession, Begin, ReaderUnchanged
  <2>2. ClientTypeOK' /\ rx'.at = "start" /\ rx'.call = c
    BY <1>0, <2>1 DEF ClientTypeOK, Operations, Phases
  <2> QED BY <2>1, <2>2, RxSends
<1>3. CASE UpdateMediaSession(c)
  <2>1. /\ rx' = [at |-> "update", call |-> c, next |-> "none"] /\ Send(Receiver, "update", c)
        /\ phase[c] \in {"open", "closed"}
        /\ UNCHANGED <<phase, reader, running, updates, heard>>
    BY <1>3 DEF UpdateMediaSession, Begin, ReaderUnchanged
  <2>2. ClientTypeOK' /\ rx'.at = "update" /\ rx'.call = c
    BY <1>0, <2>1 DEF ClientTypeOK, Operations, Phases
  <2> QED BY <2>1, <2>2, RxSends
<1> QED BY <1>1, <1>2, <1>3, StopReadDTMFKeeps DEF Command

\* Every step of the receiver in an operation keeps the invariant.
LEMMA ReceiverStepKeeps ==
  ASSUME Core, AddressesApart, NEW c \in Calls, ReceiverStep(c)
  PROVE  Core'
<1>0. ClientTypeOK
  BY ClientTypes DEF Core
<1>1. CASE StartReadDTMF(c)
  <2>1. /\ rx.at = "start" /\ rx.call = c /\ Answered(Receiver) /\ Take(Receiver) /\ rx' = Idle
        /\ reader' = [reader EXCEPT ![c] = "running"]
        /\ running' = [running EXCEPT ![c] = TRUE]
        /\ UNCHANGED <<phase, updates, heard>>
    BY <1>1 DEF StartReadDTMF, Is
  <2>2. ClientTypeOK'
    BY <1>0, <2>1 DEF ClientTypeOK, Idle, Operations, Phases
  <2>3. reader'[c] = "running" /\ \A d \in Calls : d # c => reader'[d] = reader[d]
    BY <1>0, <2>1 DEF ClientTypeOK
  <2> QED BY <2>1, <2>2, <2>3, RxReturns
<1>2. CASE MediaSessionUpdated(c)
  <2>1. /\ rx.at = "update" /\ rx.call = c /\ Answered(Receiver) /\ Take(Receiver) /\ rx' = Idle
        /\ UNCHANGED <<phase, reader, running, updates, heard>>
    BY <1>2 DEF MediaSessionUpdated, Is, ReaderUnchanged
  <2>2. ClientTypeOK'
    BY <1>0, <2>1 DEF ClientTypeOK, Idle, Operations, Phases
  <2> QED BY <2>1, <2>2, RxReturns
<1>3. CASE StopSession(c)
  <2>1. /\ rx.at = "join" /\ rx.call = c /\ reader[c] # "running"
        /\ reader' = [reader EXCEPT ![c] = "none"] /\ rx' = [rx EXCEPT !.at = "stop"]
        /\ Send(Receiver, "stop", c)
        /\ UNCHANGED <<phase, running, updates, heard>>
    BY <1>3 DEF StopSession, Is, ReaderEnded
  <2>2. ClientTypeOK' /\ rx'.at = "stop" /\ rx'.call = c /\ rx'.next = rx.next
    BY <1>0, <2>1 DEF ClientTypeOK, Operations, Phases
  <2>3. reader'[c] = "none" /\ \A d \in Calls : d # c => reader'[d] = reader[d]
    BY <1>0, <2>1 DEF ClientTypeOK
  <2>4. phase[c] \in {"open", "closed"} /\ rx.next \in {"closed", "over"}
    BY <2>1 DEF Core, RxAsks
  <2> QED BY <2>1, <2>2, <2>3, <2>4, RxSends
<1>4. CASE SessionStopped(c)
  <2>1. /\ rx.at = "stop" /\ rx.call = c /\ Answered(Receiver) /\ Take(Receiver)
        /\ UNCHANGED <<reader, running, updates, heard>>
    BY <1>4 DEF SessionStopped, Is, ReaderUnchanged
  <2>2. CASE phase[c] = "closed" /\ phase' = [phase EXCEPT ![c] = rx.next] /\ rx' = Idle
    BY <2>1, <2>2, RxEnds
  <2>3. CASE phase[c] # "closed" /\ rx' = [rx EXCEPT !.at = "close"] /\ UNCHANGED phase
    <3>1. phase[c] = "open" /\ rx.next \in {"closed", "over"} /\ reader[c] = "none"
      BY <2>1, <2>3 DEF Core, RxAsks
    <3>2. ClientTypeOK' /\ rx'.at = "close" /\ rx'.call = c /\ rx'.next = rx.next
      BY <1>0, <2>1, <2>3 DEF ClientTypeOK, Operations, Phases
    <3>3. MapInv'
      BY <2>1, <2>3, <3>2, TakenMap DEF Core, MapInv, Inserted
    <3>4. Phones'
      BY <2>3 DEF Core, Phones, SamePhone
    <3> QED BY <2>1, <2>3, <3>1, <3>2, <3>3, <3>4, RxTakes DEF Core, ReaderAsks
  <2> QED BY <1>4, <2>2, <2>3 DEF SessionStopped, AlreadyClosed
<1>5. CASE CloseSession(c)
  <2>1. /\ rx.at = "close" /\ rx.call = c /\ Send(Receiver, "close", c)
        /\ UNCHANGED <<phase, rx, reader, running, updates, heard>>
    BY <1>5 DEF CloseSession, Is, ReaderUnchanged
  <2>2. phase[c] = "open" /\ rx.next \in {"closed", "over"} /\ reader[c] = "none"
    BY <2>1 DEF Core, RxAsks
  <2>3. ClientTypeOK'
    BY <1>0, <2>1 DEF ClientTypeOK
  <2> QED BY <2>1, <2>2, <2>3, RxSends
<1>6. CASE SessionClosed(c)
  <2>1. /\ rx.at = "close" /\ rx.call = c /\ Answered(Receiver) /\ Take(Receiver)
        /\ phase' = [phase EXCEPT ![c] = rx.next] /\ rx' = Idle
        /\ UNCHANGED <<reader, running, updates, heard>>
    BY <1>6 DEF SessionClosed, Is, ReaderUnchanged
  <2> QED BY <2>1, RxEnds
<1> QED BY <1>1, <1>2, <1>3, <1>4, <1>5, <1>6, SessionCreatedKeeps DEF ReceiverStep

\* An answer to a reader.
LEMMA ReaderTakes ==
  ASSUME Core, NEW c \in Calls, Answered(c), Take(c), ClientTypeOK',
         UNCHANGED <<phase, rx, reader>>, \A d \in Calls : d # c => updates'[d] = updates[d]
  PROVE  Core'
<1>1. /\ connection[c] # None /\ connection'[c] = None
      /\ \A j \in Clients : j # c => connection'[j] = connection[j]
      /\ UNCHANGED <<sessions, session, thread>>
  BY TakeEffect, ClientIds
<1>2. connection'[Receiver] = connection[Receiver]
  BY <1>1, ClientIds
<1>3. RxAsks' /\ Phones'
  BY <1>2 DEF Core, RxAsks, Phones, SamePhone
<1>4. ReaderAsks'
  BY <1>1, ClientIds DEF Core, ReaderAsks
<1>5. MapInv'
  BY <1>1, <1>2, SameMap DEF Core, MapInv, Inserted, RxAnswered, At
<1> QED BY <1>3, <1>4, <1>5, ClientKeeps, ClientIds

\* Every step of a reader keeps the invariant.
LEMMA ReaderStepKeeps ==
  ASSUME Core, NEW c \in Calls, ReaderStep(c)
  PROVE  Core'
<1>0. ClientTypeOK
  BY ClientTypes DEF Core
<1>1. CASE ReadDTMF(c)
  <2>1. ClientTypeOK' /\ UNCHANGED <<phase, rx, reader, updates>>
    BY <1>0, <1>1 DEF ClientTypeOK, ReadDTMF, clientVars
  <2> QED BY <1>1, <2>1, ReaderSends DEF ReadDTMF
<1>2. CASE DTMFRead(c)
  <2>1. Answered(c) /\ Take(c) /\ UNCHANGED <<phase, rx, reader, running>>
    BY <1>2 DEF DTMFRead
  <2>2. CASE UNCHANGED <<heard, updates>>
    <3>1. ClientTypeOK'
      BY <1>0, <2>1, <2>2 DEF ClientTypeOK
    <3> QED BY <2>1, <2>2, <3>1, ReaderTakes
  <2>3. ASSUME connection[c].reply.key # 0,
               heard' = [heard EXCEPT ![c] = Append(@, connection[c].reply.key)],
               NEW n \in 0 .. MaxUpdates, updates' = [updates EXCEPT ![c] = n]
        PROVE  Core'
    <3>1. connection[c].reply.key \in 1 .. MaxKeys
      <4>1. connection[c].reply \in Reply
        BY <2>1, ConnectionType, ClientIds DEF Core, Answered
      <4> QED BY <2>3, <4>1, MediaAssumption DEF Reply, Keys
    <3>2. heard' \in [Calls -> Seq(1 .. MaxKeys)]
      BY <1>0, <2>3, <3>1 DEF ClientTypeOK
    <3>3. /\ updates' \in [Calls -> 0 .. MaxUpdates]
          /\ \A d \in Calls : d # c => updates'[d] = updates[d]
      BY <1>0, <2>3 DEF ClientTypeOK
    <3>4. ClientTypeOK'
      BY <1>0, <2>1, <3>2, <3>3 DEF ClientTypeOK
    <3> QED BY <2>1, <3>3, <3>4, ReaderTakes
  <2> QED BY <1>2, <2>2, <2>3 DEF DTMFRead
<1>3. CASE ReaderUpdates(c)
  <2>1. /\ updates[c] > 0 /\ Send(c, "update", c) /\ updates' = [updates EXCEPT ![c] = @ - 1]
        /\ UNCHANGED <<phase, rx, reader, running, heard>>
    BY <1>3 DEF ReaderUpdates
  <2>2. /\ updates' \in [Calls -> 0 .. MaxUpdates]
        /\ \A d \in Calls : updates'[d] > 0 => updates[d] > 0
    BY <1>0, <2>1, ClientAssumption DEF ClientTypeOK
  <2>3. ClientTypeOK'
    BY <1>0, <2>1, <2>2 DEF ClientTypeOK
  <2>4. reader[c] = "running"
    BY <2>1 DEF Core, ReaderAsks
  <2> QED BY <2>1, <2>2, <2>3, <2>4, ReaderSends
<1>4. CASE ReaderUpdated(c)
  <2>1. ClientTypeOK' /\ UNCHANGED <<phase, rx, reader, updates>>
    BY <1>0, <1>4 DEF ClientTypeOK, ReaderUpdated, clientVars
  <2> QED BY <1>4, <2>1, ReaderTakes DEF ReaderUpdated
<1>5. CASE Exit(c)
  <2>1. /\ reader[c] = "running" /\ connection[c] = None /\ updates[c] = 0
        /\ reader' = [reader EXCEPT ![c] = "exited"]
        /\ UNCHANGED <<phase, rx, running, updates, heard, connection, serverVars>>
    BY <1>5 DEF Exit
  <2>2. /\ reader' \in [Calls -> {"none", "running", "exited"}]
        /\ reader'[c] = "exited" /\ \A d \in Calls : d # c => reader'[d] = reader[d]
    BY <1>0, <2>1 DEF ClientTypeOK
  <2>3. ClientTypeOK'
    BY <1>0, <2>1, <2>2 DEF ClientTypeOK
  <2>4. RxAsks'
    BY <2>1, <2>2 DEF Core, RxAsks, SamePhone
  <2>5. ReaderAsks'
    BY <2>1, <2>2 DEF Core, ReaderAsks
  <2>6. Phones'
    BY <2>1 DEF Core, Phones, SamePhone
  <2>7. MapInv'
    BY <2>1, SameMap DEF Core, MapInv, Inserted, RxAnswered, At, serverVars
  <2> QED BY <2>1, <2>3, <2>4, <2>5, <2>6, <2>7, ClientKeeps, ClientIds
<1> QED BY <1>1, <1>2, <1>3, <1>4, <1>5 DEF ReaderStep
-----------------------------------------------------------------------------
(***************************************************************************)
(* The invariant and what follows from it.                                 *)
(***************************************************************************)
\* Nothing is open at first.
LEMMA InitCore == Init => Core
<1> SUFFICES ASSUME Init PROVE Core
  OBVIOUS
<1>1. /\ sessions = [p \in LocalPorts |-> None] /\ thread = [t \in Threads |-> None]
      /\ connection = [k \in Clients |-> None] /\ pressed = 0 /\ fault = "none"
      /\ session = [c \in Calls |-> [state |-> "none", players |-> FALSE,
                                     playing |-> FALSE, dtmf |-> 0]]
      /\ phase = [c \in Calls |-> "none"] /\ reader = [c \in Calls |-> "none"]
      /\ running = [c \in Calls |-> FALSE] /\ updates = [c \in Calls |-> 0]
      /\ heard = [c \in Calls |-> <<>>]
      /\ rx.at = "idle" /\ rx = [at |-> "idle", call |-> None, next |-> "none"]
  BY DEF Init, MediaInit, Idle
<1>2. MediaTypeOK
  BY <1>1, ZeroKey DEF MediaTypeOK, Session
<1>3. ClientTypeOK
  <2>1. updates \in [Calls -> 0 .. MaxUpdates]
    BY <1>1, ClientAssumption
  <2>2. rx \in [at : Operations, call : Calls \cup {None}, next : Phases]
    BY <1>1 DEF Operations, Phases
  <2>3. heard \in [Calls -> Seq(1 .. MaxKeys)]
    BY <1>1
  <2> QED BY <1>1, <2>1, <2>2, <2>3 DEF ClientTypeOK, Phases
<1>4. UsedPorts = {} /\ \A c \in Calls : ~InMap(c)
  BY <1>1, MediaAssumption DEF UsedPorts, InMap
<1>5. CountInv
  BY <1>1, <1>4, FS_EmptySet, MediaAssumption DEF CountInv, At
<1>6. connection[Receiver] = None /\ \A c \in Calls : connection[c] = None
  BY <1>1, ClientIds
<1>7. RxAsks
  BY <1>1, <1>6 DEF RxAsks
<1>8. ReaderAsks
  BY <1>1, <1>6, ClientAssumption DEF ReaderAsks
<1>9. Served /\ Objects /\ ReachesOwnSession /\ Allowed /\ HeldInv /\ HeldIsNotClosed
  BY <1>1 DEF Served, Pending, Objects, ReachesOwnSession, Allowed, At, HeldInv, HeldIsNotClosed
<1>10. MapInv /\ Phones
  BY <1>1, <1>4, <1>6 DEF MapInv, Phones, RxAnswered, At
<1> QED BY <1>2, <1>3, <1>5, <1>7, <1>8, <1>9, <1>10, ClientTypes DEF Core

\* Every step of the two programs keeps the invariant.
LEMMA NextCore == Core /\ AddressesApart /\ [Next]_vars => Core'
<1> SUFFICES ASSUME Core, AddressesApart, [Next]_vars PROVE Core'
  OBVIOUS
<1>1. CASE UNCHANGED vars
  <2>1. UNCHANGED <<sessions, session, thread, pressed, fault, connection, clientVars>>
    BY <1>1 DEF vars, serverVars
  <2>2. TypeOK'
    BY <2>1, ServerTypes DEF Core, TypeOK, MediaTypeOK
  <2> QED BY <2>1, <2>2, SameServer
<1>2. CASE Next
  BY <1>2, MediaKeeps, CommandKeeps, ReceiverStepKeeps, ReaderStepKeeps DEF Next
<1> QED BY <1>1, <1>2

\* The two programs together keep their invariant.
THEOREM MediaInvariance == ASSUME AddressesApart PROVE Spec => []Core
<1>1. Init => Core
  BY InitCore
<1>2. Core /\ [Next]_vars => Core'
  BY NextCore
<1> QED BY <1>1, <1>2, PTL DEF Spec

\* Every variable of the IVR's clients and of the media server has its type.
THEOREM MediaTypeCorrect == ASSUME AddressesApart PROVE Spec => []TypeOK
<1>1. Core => TypeOK
  BY DEF Core
<1> QED BY <1>1, MediaInvariance, PTL

\* getSession finds the session of the call that the request is made for,
\* though the calls of one phone have the same identifier.
THEOREM RequestsReachOwnSession == ASSUME AddressesApart PROVE Spec => []ReachesOwnSession
<1>1. Core => ReachesOwnSession
  BY DEF Core
<1> QED BY <1>1, MediaInvariance, PTL

\* createSession keeps to MAX_SESSIONS and to one session for a remote port,
\* though it tests and inserts without a lock.
THEOREM LimitsAreKept == ASSUME AddressesApart PROVE Spec => []LimitsHold
<1>1. Core => LimitsHold
  BY DEF Core, MapInv, CountInv, LimitsHold
<1> QED BY <1>1, MediaInvariance, PTL

\* A thread that holds a session keeps its players from being closed.
THEOREM HeldStaysLive == ASSUME AddressesApart PROVE Spec => []HeldIsNotClosed
<1>1. Core => HeldIsNotClosed
  BY DEF Core
<1> QED BY <1>1, MediaInvariance, PTL

\* What the IVR holds open, the media server serves, at one port.
THEOREM OpenSessionsServed == ASSUME AddressesApart PROVE Spec => []OpenIsServed
<1>1. ASSUME Core PROVE OpenIsServed
  <2> SUFFICES ASSUME NEW c \in Calls, phase[c] = "open", rx.at # "close"
               PROVE  /\ session[c].state = "live"
                      /\ Cardinality({p \in LocalPorts : sessions[p] = c}) = 1
    BY DEF OpenIsServed
  <2>1. InMap(c) /\ session[c].state = "live"
    BY <1>1 DEF Core, MapInv
  <2>2. PICK p \in LocalPorts : sessions[p] = c
    BY <2>1 DEF InMap
  <2>3. ASSUME NEW q \in LocalPorts, sessions[q] = c PROVE q = p
    <3>1. p \in UsedPorts /\ q \in UsedPorts
      BY <2>2, <2>3, MediaAssumption DEF UsedPorts
    <3> QED BY <1>1, <2>2, <2>3, <3>1 DEF Core, MapInv
  <2>4. {q \in LocalPorts : sessions[q] = c} = {p}
    BY <2>2, <2>3
  <2> QED BY <2>1, <2>4, FS_Singleton
<1> QED BY <1>1, MediaInvariance, PTL

\* The thread that changes the map and the one that reads it serve two calls.
THEOREM RacesNeedTwoCalls == ASSUME AddressesApart PROVE Spec => []RaceNeedsTwoCalls
<1>1. ASSUME Core PROVE RaceNeedsTwoCalls
  <2> SUFFICES ASSUME NEW t \in Threads, NEW u \in Threads, At(t, "looking"),
                      At(u, "allowed") \/ (At(u, "found") /\ Asks(u, "close")),
                      thread[t].request.call = thread[u].request.call
               PROVE  FALSE
    BY DEF RaceNeedsTwoCalls
  <2> DEFINE c == thread[u].request.call
  <2>1. /\ Pending(t) /\ Pending(u) /\ t # u
        /\ Asks(u, "init") \/ Asks(u, "close")
    BY <1>1 DEF At, Pending, Core, Objects
  <2>2. /\ u[1] = Receiver /\ c \in Calls /\ rx.call = c
        /\ rx.at \in {"init", "close"}
    BY <1>1, <2>1, AskedBy DEF Asks
  <2>3. phase[c] = "none" \/ reader[c] = "none"
    BY <1>1, <2>2 DEF Core, RxAsks
  <2>4. t[1] \in Calls
    BY <1>1, <2>1, <2>2, ClientIds, ThreadIds DEF Core, Served
  <2>5. t[1] = c /\ reader[c] = "running" /\ phase[c] \in {"open", "closed"}
    BY <1>1, <2>1, <2>4, AskedBy
  <2> QED BY <2>3, <2>5
<1> QED BY <1>1, MediaInvariance, PTL
-----------------------------------------------------------------------------
(***************************************************************************)
(* A key reaches a DTMF reader once, though the media server clears the    *)
(* mailbox after it has answered, when the poll is over before the reader  *)
(* makes the next one.  On top of the invariant above: which keys a reader *)
(* has, or is about to have, and that the mailbox holds one of them only   *)
(* while the thread that will clear it is still there.                     *)
(***************************************************************************)
\* The key in the answer that a reader has yet to take.
Offered(c) ==
  {key \in 1 .. MaxKeys :
     connection[c] # None /\ connection[c].reply # None /\ connection[c].reply.key = key}

Heard(c) == {heard[c][i] : i \in 1 .. Len(heard[c])}

Given(c) == Offered(c) \cup Heard(c)

\* The thread has read the mailbox of the call and has yet to clear it.
Polled(t, c) ==
  /\ t[1] = c
  /\ At(t, "answered")
  /\ Asks(t, "dtmf")
  /\ thread[t].object = c

\* Keys are counted as they are pressed, and the next one is new.
Counted ==
  \A c \in Calls :
    /\ session[c].dtmf <= pressed
    /\ \A key \in Given(c) : key <= pressed

\* No key is for two calls.
Distinct ==
  \A c, d \in Calls : c # d =>
    /\ session[c].dtmf # 0 => session[c].dtmf # session[d].dtmf /\ session[c].dtmf \notin Given(d)
    /\ Given(c) \cap Given(d) = {}

Once ==
  \A c \in Calls :
    /\ Offered(c) \cap Heard(c) = {}
    /\ \A i, j \in 1 .. Len(heard[c]) : heard[c][i] = heard[c][j] => i = j

\* A key that was read is still in the mailbox until its thread clears it.
Uncleared == \A c \in Calls : session[c].dtmf \in Given(c) => \E t \in Threads : Polled(t, c)

\* Readers poll for their own call, when no earlier thread of theirs is left.
PollsAlone ==
  \A t \in Threads : thread[t] # None /\ Asks(t, "dtmf") =>
    /\ t[1] \in Calls /\ thread[t].request.call = t[1]
    /\ Pending(t) => \A u \in Threads : u[1] = t[1] /\ u # t => thread[u] = None

Keyed == Counted /\ Distinct /\ Once /\ Uncleared /\ PollsAlone
-----------------------------------------------------------------------------
\* What a sequence holds.
LEMMA ElementOfSeq ==
  ASSUME NEW S, NEW s \in Seq(S)
  PROVE  \A i \in 1 .. Len(s) : s[i] \in S
OBVIOUS

\* An empty mailbox gives nobody a key.
LEMMA GivenType ==
  ASSUME TypeOK, NEW c \in Calls
  PROVE  /\ Given(c) \subseteq 1 .. MaxKeys /\ 0 \notin Given(c)
         /\ session[c].dtmf \in Nat /\ pressed \in Nat
<1>1. heard[c] \in Seq(1 .. MaxKeys) /\ session[c] \in Session /\ pressed \in Keys
  BY DEF TypeOK, MediaTypeOK
<1>2. \A i \in 1 .. Len(heard[c]) : heard[c][i] \in 1 .. MaxKeys
  BY <1>1, ElementOfSeq
<1>3. Given(c) \subseteq 1 .. MaxKeys
  BY <1>2 DEF Given, Offered, Heard
<1> QED BY <1>1, <1>3, MediaAssumption DEF Session, Keys

\* Nobody is given a new key and no mailbox has one.
LEMMA KeyedFrame ==
  ASSUME Core, Keyed, UNCHANGED pressed,
         \A c \in Calls : session'[c].dtmf \in {0, session[c].dtmf},
         \A c \in Calls : Given(c)' \subseteq Given(c),
         Once', PollsAlone',
         \A c \in Calls : session'[c].dtmf # 0 =>
           \A t \in Threads : Polled(t, c) => \E u \in Threads : Polled(u, c)'
  PROVE  Keyed'
<1>1. \A c \in Calls : /\ 0 \notin Given(c) /\ session[c].dtmf \in Nat /\ pressed \in Nat
                       /\ session'[c].dtmf # 0 => session'[c].dtmf = session[c].dtmf
  BY GivenType DEF Core
<1>2. Counted'
  BY <1>1 DEF Keyed, Counted
<1>3. Distinct'
  <2> SUFFICES ASSUME NEW c \in Calls, NEW d \in Calls, c # d
               PROVE  /\ session'[c].dtmf # 0 => /\ session'[c].dtmf # session'[d].dtmf
                                                 /\ session'[c].dtmf \notin Given(d)'
                      /\ Given(c)' \cap Given(d)' = {}
    BY DEF Distinct
  <2>1. /\ session[c].dtmf # 0 => session[c].dtmf # session[d].dtmf /\ session[c].dtmf \notin Given(d)
        /\ Given(c) \cap Given(d) = {}
    BY DEF Keyed, Distinct
  <2> QED BY <1>1, <2>1
<1>4. Uncleared'
  BY <1>1 DEF Keyed, Uncleared
<1> QED BY <1>2, <1>3, <1>4 DEF Keyed

\* A step that changes no mailbox, thread or connection.
LEMMA SameKeyed ==
  ASSUME Keyed, UNCHANGED <<session, thread, connection, pressed, heard>>
  PROVE  Keyed'
<1>1. \A c : Offered(c)' = Offered(c) /\ Heard(c)' = Heard(c) /\ Given(c)' = Given(c)
  BY DEF Offered, Heard, Given
<1>2. \A t, c : Polled(t, c)' = Polled(t, c)
  BY DEF Polled, At, Asks
<1>3. Counted' /\ Distinct'
  BY <1>1 DEF Keyed, Counted, Distinct
<1>4. Once' /\ Uncleared'
  BY <1>1, <1>2 DEF Keyed, Once, Uncleared
<1>5. PollsAlone'
  BY DEF Keyed, PollsAlone, Asks, Pending
<1> QED BY <1>3, <1>4, <1>5 DEF Keyed

\* What a step of the thread leaves of the polls.
LEMMA PollsFrame ==
  ASSUME Core, Keyed, NEW t \in Threads, Others(t),
         thread'[t] # None => /\ thread[t] # None
                              /\ thread'[t].request = thread[t].request
                              /\ Pending(t)' => Pending(t)
  PROVE  /\ PollsAlone'
         /\ \A c \in Calls : \A u \in Threads : u # t => (Polled(u, c) => Polled(u, c)')
<1>1. \A u \in Threads : thread'[u] # None =>
        /\ thread[u] # None /\ thread'[u].request = thread[u].request
        /\ Pending(u)' => Pending(u)
  BY DEF Others, Kept, Pending
<1>2. PollsAlone'
  BY <1>1 DEF Keyed, PollsAlone, Asks, Pending
<1>3. \A c \in Calls : \A u \in Threads : u # t => (Polled(u, c) => Polled(u, c)')
  BY DEF Others, Kept, Polled, At, Asks
<1> QED BY <1>2, <1>3

\* A thread goes on without an answer, or answers with an empty mailbox.
LEMMA EmptyAnswer ==
  ASSUME Core, Keyed, NEW t \in Threads, Pending(t), NEW place, NEW object,
         Others(t), Moves(t, place, object),
         UNCHANGED connection \/ \E ok : Answers(t, ok, 0),
         \A c \in Calls : session'[c].dtmf = session[c].dtmf, UNCHANGED <<pressed, heard>>
  PROVE  Keyed'
<1>1. connection[t[1]] # None /\ connection[t[1]].reply = None
  BY DEF Core, Served
<1>2. \A c \in Calls : Offered(c)' \subseteq Offered(c)
  BY <1>1, ClientIds DEF Offered, Answers
<1>3. \A c \in Calls : Heard(c)' = Heard(c)
  BY DEF Heard
<1>4. Once'
  BY <1>2, <1>3 DEF Keyed, Once
<1>5. /\ PollsAlone'
      /\ \A c \in Calls : \A u \in Threads : u # t => (Polled(u, c) => Polled(u, c)')
  BY PollsFrame DEF Moves
<1>6. \A c \in Calls : ~Polled(t, c)
  BY DEF Polled, At, Pending
<1> QED BY <1>2, <1>3, <1>4, <1>5, <1>6, KeyedFrame DEF Given

\* The answer has the key in the mailbox, which the thread will clear.
LEMMA PollAnswers ==
  ASSUME Core, Keyed, NEW t \in Threads, Pending(t), Asks(t, "dtmf"), thread[t].object # None,
         Others(t), Moves(t, "answered", thread[t].object),
         Answers(t, TRUE, session[thread[t].object].dtmf),
         UNCHANGED <<session, pressed, heard>>
  PROVE  Keyed'
<1> DEFINE c == t[1]
           key == session[c].dtmf
<1>1. c \in Calls /\ thread[t].request.call = c /\ thread[t].object = c
  BY DEF Keyed, PollsAlone, Pending, Core, ReachesOwnSession
<1>2. connection[c].reply = None
  BY DEF Core, Served
<1>3. Offered(c) = {} /\ Offered(c)' \subseteq {key} \ {0}
  BY <1>1, <1>2 DEF Offered, Answers
<1>4. \A d \in Calls : Heard(d)' = Heard(d) /\ (d # c => Offered(d)' = Offered(d))
  BY <1>1, ClientIds DEF Heard, Offered, Answers
<1>5. key \notin Given(c)
  BY <1>1 DEF Keyed, Uncleared, PollsAlone, Polled, At, Pending
<1>6. Polled(t, c)'
  BY <1>1 DEF Polled, At, Asks, Moves
<1>7. /\ PollsAlone'
      /\ \A d \in Calls : \A u \in Threads : u # t => (Polled(u, d) => Polled(u, d)')
  BY PollsFrame DEF Moves, Pending
<1>8. /\ Given(c)' \subseteq Given(c) \cup ({key} \ {0})
      /\ \A d \in Calls : d # c => Given(d)' = Given(d)
  BY <1>3, <1>4, <1>1 DEF Given
<1> HIDE DEF c, key
<1>9. Counted'
  BY <1>1, <1>8 DEF Keyed, Counted, key
<1>10. Distinct'
  BY <1>1, <1>8 DEF Keyed, Distinct, key
<1>11. Once'
  BY <1>1, <1>3, <1>4, <1>5 DEF Keyed, Once, Given
<1>12. Uncleared'
  BY <1>1, <1>6, <1>7, <1>8 DEF Keyed, Uncleared, Polled, c
<1> QED BY <1>7, <1>9, <1>10, <1>11, <1>12 DEF Keyed
-----------------------------------------------------------------------------
(***************************************************************************)
(* The media server.                                                       *)
(***************************************************************************)
\* init_session has nothing to do with keys.
LEMMA InitKeyed ==
  ASSUME Core, Keyed, NEW t \in Threads, CheckLimits(t) \/ Insert(t) \/ Opened(t), UNCHANGED clientVars
  PROVE  Keyed'
<1>0. /\ TypeOK /\ 0 \in Keys /\ heard' = heard
      /\ {"answered", "allowed"} \subseteq ThreadStates
  BY ZeroKey DEF Core, clientVars, ThreadStates
<1>1. Pending(t) /\ thread[t] # None
  BY DEF CheckLimits, Insert, Opened, At, Pending
<1>2. connection[t[1]] # None /\ (t[1] = Receiver => ~thread[t].raced)
  BY <1>1 DEF Core, Served, Objects
<1>3. CASE CheckLimits(t)
  <2>1. UNCHANGED <<session, pressed>>
    BY <1>3 DEF CheckLimits
  <2>2. CASE Respond(t, FALSE, 0) /\ Goto(t, "answered")
    <3>1. Answers(t, FALSE, 0) /\ Others(t) /\ Moves(t, "answered", thread[t].object)
      BY <1>0, <1>1, <1>2, <2>2, RespondEffect, GotoEffect
    <3> QED BY <1>0, <1>1, <2>1, <3>1, EmptyAnswer
  <2>3. ASSUME UNCHANGED connection, NEW p \in LocalPorts,
               thread' = [thread EXCEPT ![t].at = "allowed", ![t].port = p]
        PROVE  Keyed'
    <3> DEFINE r == [thread[t] EXCEPT !.at = "allowed", !.port = p]
    <3>1. thread' = [thread EXCEPT ![t] = r]
      BY <1>0, <2>3 DEF TypeOK, MediaTypeOK
    <3>2. /\ r \in Thread /\ r.at = "allowed" /\ r.object = thread[t].object
          /\ r.request = thread[t].request /\ r.raced = thread[t].raced
      BY <1>0, <1>1, ThreadType DEF Thread
    <3> HIDE DEF r
    <3>3. Others(t) /\ thread'[t] = r
      BY <1>0, <3>1, <3>2, ThreadBecomes
    <3>4. Moves(t, "allowed", thread[t].object)
      BY <1>1, <1>2, <3>2, <3>3, NoneAssumption DEF Moves
    <3> QED BY <1>0, <1>1, <2>1, <2>3, <3>3, <3>4, EmptyAnswer
  <2> QED BY <1>3, <2>2, <2>3 DEF CheckLimits
<1>4. CASE Insert(t)
  <2>1. Others(t) /\ Moves(t, "opening", thread[t].request.call)
    BY <1>4, InsertEffect
  <2>2. UNCHANGED <<connection, pressed>> /\ \A c \in Calls : session'[c].dtmf = session[c].dtmf
    BY <1>0, <1>4 DEF Insert, TypeOK, MediaTypeOK, Session
  <2> QED BY <1>0, <1>1, <2>1, <2>2, EmptyAnswer
<1>5. CASE Opened(t)
  <2>1. Answers(t, TRUE, 0) /\ Others(t) /\ Moves(t, "answered", thread[t].object)
    BY <1>0, <1>1, <1>2, <1>5, RespondEffect, GotoEffect DEF Opened
  <2>2. pressed' = pressed
    BY <1>5 DEF Opened
  <2>3. \A c \in Calls : session'[c].dtmf = session[c].dtmf
    <3>1. PICK codec \in Codecs :
            session' = [session EXCEPT ![thread[t].object].players = codec \in Supported]
      BY <1>5 DEF Opened
    <3> QED BY <1>0, <3>1 DEF TypeOK, MediaTypeOK, Session
  <2> QED BY <1>0, <1>1, <2>1, <2>2, <2>3, EmptyAnswer
<1> QED BY <1>3, <1>4, <1>5

\* Nor has the search for a session.
LEMMA SearchKeyed ==
  ASSUME Core, Keyed, NEW t \in Threads, GetSession(t) \/ EndGetSession(t), UNCHANGED clientVars
  PROVE  Keyed'
<1>0. /\ TypeOK /\ 0 \in Keys /\ heard' = heard
      /\ {"answered", "looking", "found"} \subseteq ThreadStates
  BY ZeroKey DEF Core, clientVars, ThreadStates
<1>1. Pending(t) /\ thread[t] # None /\ UNCHANGED <<session, pressed>>
  BY DEF GetSession, EndGetSession, At, Pending
<1>2. connection[t[1]] # None /\ (t[1] = Receiver => ~thread[t].raced)
  BY <1>1 DEF Core, Served, Objects
<1>3. CASE GetSession(t)
  <2>1. Others(t) /\ Moves(t, "looking", thread[t].object)
    BY <1>0, <1>1, <1>2, <1>3, GotoEffect DEF GetSession
  <2> QED BY <1>0, <1>1, <1>3, <2>1, EmptyAnswer DEF GetSession
<1>4. ASSUME NEW place \in {"answered", "found"}, NEW object \in Calls \cup {None},
             NEW r, r = [thread[t] EXCEPT !.at = place, !.raced = FALSE, !.object = object],
             thread' = [thread EXCEPT ![t] = r]
      PROVE  Others(t) /\ Moves(t, place, object)
  <2>1. /\ r \in Thread /\ r.at = place /\ r.object = object
        /\ r.request = thread[t].request /\ r.raced = FALSE
    BY <1>0, <1>1, <1>4, ThreadType DEF Thread
  <2>2. Others(t) /\ thread'[t] = r
    BY <1>0, <1>4, <2>1, ThreadBecomes
  <2> QED BY <1>1, <2>1, <2>2, NoneAssumption DEF Moves
<1>5. CASE Found(t)
  <2>1. PICK p \in Holders(thread[t].request.id) :
          thread' = [thread EXCEPT ![t].at = "found", ![t].raced = FALSE, ![t].object = sessions[p]]
    BY <1>5 DEF Found
  <2>2. sessions[p] \in Calls
    BY <1>0, <2>1 DEF Holders, UsedPorts, TypeOK, MediaTypeOK
  <2> DEFINE d == sessions[p]
             r == [thread[t] EXCEPT !.at = "found", !.raced = FALSE, !.object = d]
  <2>3. thread' = [thread EXCEPT ![t] = r]
    BY <1>0, <2>1 DEF TypeOK, MediaTypeOK
  <2>4. Others(t) /\ Moves(t, "found", d)
    BY <1>4, <2>2, <2>3
  <2> QED BY <1>0, <1>1, <1>5, <2>4, EmptyAnswer DEF Found
<1>6. CASE NotFound(t)
  <2>1. Answers(t, FALSE, 0)
    BY <1>0, <1>2, <1>6, RespondEffect DEF NotFound
  <2> DEFINE object == thread[t].object
             r == [thread[t] EXCEPT !.at = "answered", !.raced = FALSE, !.object = object]
  <2>2. thread' = [thread EXCEPT ![t] = r]
    BY <1>0, <1>1, <1>6, ThreadType DEF NotFound, TypeOK, MediaTypeOK, Thread
  <2>3. object \in Calls \cup {None}
    BY <1>0, <1>1, ThreadType
  <2>4. Others(t) /\ Moves(t, "answered", object)
    BY <1>4, <2>2, <2>3
  <2> QED BY <1>0, <1>1, <2>1, <2>4, EmptyAnswer
<1>7. CASE Crashed
  BY <1>0, <1>1, <1>7, SameKeyed DEF Crashed
<1> QED BY <1>3, <1>5, <1>6, <1>7 DEF EndGetSession

\* A poll alone is answered with a key.
LEMMA ServeKeyed ==
  ASSUME Core, Keyed, NEW t \in Threads, Serve(t), UNCHANGED clientVars
  PROVE  Keyed'
<1>0. TypeOK /\ 0 \in Keys /\ heard' = heard /\ pressed' = pressed /\ "answered" \in ThreadStates
  BY ZeroKey DEF Core, clientVars, ThreadStates, Serve
<1>1. /\ At(t, "found") /\ thread[t] # None /\ Pending(t)
      /\ thread[t].object \in Calls /\ thread[t].object # None
  BY <1>0, ThreadType DEF Serve, At, Pending, Core, Objects
<1>2. connection[t[1]] # None /\ (t[1] = Receiver => ~thread[t].raced)
  BY <1>1 DEF Core, Served, Objects
<1>3. ASSUME Goto(t, "answered")
      PROVE  Others(t) /\ Moves(t, "answered", thread[t].object)
  BY <1>0, <1>1, <1>2, <1>3, GotoEffect
<1>4. ASSUME Respond(t, TRUE, 0) PROVE Answers(t, TRUE, 0)
  BY <1>0, <1>2, <1>4, RespondEffect
<1>5. ASSUME NEW type, NEW playing, StartOrStop(t, type, playing)
      PROVE  Keyed'
  <2>1. Respond(t, TRUE, 0) /\ Goto(t, "answered")
    BY <1>5 DEF StartOrStop
  <2>2. \A c \in Calls : session'[c].dtmf = session[c].dtmf
    BY <1>0, <1>5 DEF StartOrStop, TypeOK, MediaTypeOK, Session
  <2> QED BY <1>0, <1>1, <1>3, <1>4, <2>1, <2>2, EmptyAnswer
<1>6. CASE Update(t)
  BY <1>0, <1>1, <1>3, <1>4, <1>6, EmptyAnswer DEF Update
<1>7. CASE RemoveSession(t)
  <2>1. Others(t) /\ Moves(t, "answered", thread[t].object)
    BY <1>1, <1>7, RemoveEffect
  <2> QED BY <1>0, <1>1, <1>4, <1>7, <2>1, EmptyAnswer DEF RemoveSession
<1>8. CASE GetDTMFEvent(t)
  <2> DEFINE key == session[thread[t].object].dtmf
  <2>1. key \in Keys
    BY <1>0, <1>1 DEF TypeOK, MediaTypeOK, Session
  <2>2. Asks(t, "dtmf") /\ Respond(t, TRUE, key) /\ Goto(t, "answered") /\ UNCHANGED session
    BY <1>8 DEF GetDTMFEvent
  <2> HIDE DEF key
  <2>3. Answers(t, TRUE, key)
    BY <1>0, <1>2, <2>1, <2>2, RespondEffect
  <2> QED BY <1>0, <1>1, <1>3, <2>2, <2>3, PollAnswers DEF key
<1> QED BY <1>5, <1>6, <1>7, <1>8 DEF Serve

\* The thread that has read the mailbox clears it before it goes.
LEMMA LeaveKeyed ==
  ASSUME Core, Keyed, NEW t \in Threads, Release(t) \/ Destroyed(t), UNCHANGED clientVars
  PROVE  Keyed'
<1> DEFINE c == thread[t].object
<1>0. /\ TypeOK /\ heard' = heard /\ UNCHANGED <<connection, pressed>>
      /\ thread[t] # None /\ ~Pending(t) /\ c \in Calls \cup {None}
      /\ t[1] = Receiver => ~thread[t].raced
  BY ThreadType DEF Core, clientVars, Release, Destroyed, At, Pending, Objects
<1>1. /\ Others(t)
      /\ thread'[t] # None => /\ thread'[t].request = thread[t].request
                              /\ ~Pending(t)'
  <2>1. CASE thread' = [thread EXCEPT ![t] = None]
    BY <1>0, <2>1, ThreadBecomes
  <2>2. CASE Goto(t, "closing")
    <3>1. Others(t) /\ Moves(t, "closing", c)
      BY <1>0, <2>2, GotoEffect DEF ThreadStates
    <3> QED BY <3>1 DEF Moves, Pending
  <2> QED BY <2>1, <2>2 DEF Release, Destroyed
<1>2. \A d \in Calls : session'[d].dtmf \in {0, session[d].dtmf}
  <2>1. CASE Release(t) /\ c # None
    BY <1>0, <2>1, ClearedType DEF Release, Session
  <2>2. CASE Release(t) /\ c = None
    BY <2>2 DEF Release
  <2>3. CASE Destroyed(t)
    BY <1>0, <2>3 DEF Destroyed, TypeOK, MediaTypeOK, Session
  <2> QED BY <2>1, <2>2, <2>3
<1>3. \A d \in Calls : Polled(t, d) => session'[d].dtmf = 0
  BY <1>0, ClearedType, MediaAssumption DEF Polled, At, Release, Destroyed, Session
<1>4. /\ PollsAlone'
      /\ \A d \in Calls : \A u \in Threads : u # t => (Polled(u, d) => Polled(u, d)')
  BY <1>0, <1>1, PollsFrame
<1>5. \A d \in Calls : Offered(d)' = Offered(d) /\ Heard(d)' = Heard(d)
  BY <1>0 DEF Offered, Heard
<1>6. Once' /\ \A d \in Calls : Given(d)' = Given(d)
  BY <1>0, <1>5 DEF Keyed, Once, Given
<1> QED BY <1>0, <1>2, <1>3, <1>4, <1>6, KeyedFrame

\* A key that is pressed is a new one.
LEMMA PressKeyed ==
  ASSUME Core, Keyed, NEW c \in Calls, KeyPressed(c), UNCHANGED clientVars
  PROVE  Keyed'
<1>1. /\ heard' = heard /\ UNCHANGED <<thread, connection>>
      /\ pressed' = pressed + 1 /\ pressed \in Nat
      /\ session'[c].dtmf = pressed + 1
      /\ \A d \in Calls : d # c => session'[d].dtmf = session[d].dtmf
  BY GivenType DEF KeyPressed, clientVars, Core, TypeOK, MediaTypeOK, Session
<1>2. \A d \in Calls : /\ Given(d)' = Given(d) /\ Offered(d)' = Offered(d) /\ Heard(d)' = Heard(d)
                       /\ session[d].dtmf \in Nat /\ Given(d) \subseteq 1 .. MaxKeys
                       /\ \A t \in Threads : Polled(t, d)' = Polled(t, d)
  BY <1>1, GivenType DEF Core, Given, Offered, Heard, Polled, At, Asks
<1>3. PollsAlone' /\ Once'
  BY <1>1, <1>2 DEF Keyed, PollsAlone, Once, Asks, Pending
<1>4. \A d \in Calls : session[d].dtmf <= pressed /\ \A key \in Given(d) : key <= pressed
  BY DEF Keyed, Counted
<1>5. Counted'
  BY <1>1, <1>2, <1>4 DEF Counted
<1>6. pressed + 1 # 0 /\ \A d \in Calls : pressed + 1 \notin Given(d) /\ pressed + 1 # session[d].dtmf
  BY <1>1, <1>2, <1>4
<1>7. Distinct'
  BY <1>1, <1>2, <1>6 DEF Keyed, Distinct
<1>8. Uncleared'
  BY <1>1, <1>2, <1>6 DEF Keyed, Uncleared
<1> QED BY <1>3, <1>5, <1>7, <1>8 DEF Keyed
-----------------------------------------------------------------------------
(***************************************************************************)
(* The receiver and the readers.                                           *)
(***************************************************************************)
\* A poll begins when the threads of the reader's earlier requests are gone.
LEMMA SendKeyed ==
  ASSUME Core, Keyed, NEW k \in Clients, NEW type \in Types, NEW c \in Calls, Send(k, type, c),
         type = "dtmf" => k = c /\ Resting(c), UNCHANGED heard
  PROVE  Keyed'
<1>1. /\ Asked(k, type, c)
      /\ UNCHANGED <<sessions, session, pressed, fault>>
  BY SendEffect DEF Core
<1>2. PICK t \in Threads : t[1] = k /\ Enters(t) /\ Others(t)
  BY SendEffect DEF Core
<1>3. \A d \in Calls : Offered(d)' \subseteq Offered(d) /\ Heard(d)' = Heard(d)
  BY <1>1, ClientIds DEF Offered, Heard, Asked
<1>4. Once'
  BY <1>3 DEF Keyed, Once
<1>5. \A u \in Threads : Pending(u) => u[1] # k
  BY <1>1 DEF Core, Served, Asked
<1>6. \A u \in Threads : u # t =>
        /\ (thread'[u] = None <=> thread[u] = None)
        /\ thread[u] # None => thread'[u].request = thread[u].request
        /\ Pending(u)' <=> Pending(u)
  BY <1>2 DEF Others, Kept, Pending
<1>7. PollsAlone'
  <2> SUFFICES ASSUME NEW u \in Threads, thread'[u] # None, thread'[u].request.type = "dtmf"
               PROVE  /\ u[1] \in Calls /\ thread'[u].request.call = u[1]
                      /\ Pending(u)' => \A v \in Threads : v[1] = u[1] /\ v # u => thread'[v] = None
    BY DEF PollsAlone, Asks
  <2>1. CASE u = t
    <3>1. type = "dtmf" /\ thread'[t].request.call = c
      BY <1>1, <1>2, <2>1 DEF Enters, Asked
    <3>2. \A v \in Threads : v[1] = c => thread[v] = None
      BY <3>1, ThreadIds DEF Resting
    <3> QED BY <1>2, <1>6, <2>1, <3>1, <3>2
  <2>2. CASE u # t
    <3>1. /\ u[1] \in Calls /\ thread[u].request.call = u[1]
          /\ Pending(u) => \A v \in Threads : v[1] = u[1] /\ v # u => thread[v] = None
      BY <1>6, <2>2 DEF Keyed, PollsAlone, Asks
    <3> QED BY <1>2, <1>5, <1>6, <2>2, <3>1
  <2> QED BY <2>1, <2>2
<1>8. \A d \in Calls : \A u \in Threads : Polled(u, d) => Polled(u, d)'
  BY <1>2 DEF Others, Kept, Enters, Polled, At, Asks
<1> QED BY <1>1, <1>3, <1>4, <1>7, <1>8, KeyedFrame DEF Given

\* An answer that is not about a key.
LEMMA TakeKeyed ==
  ASSUME Core, Keyed, NEW k \in Clients, Answered(k), Take(k), UNCHANGED heard
  PROVE  Keyed'
<1>1. /\ connection'[k] = None
      /\ \A j \in Clients : j # k => connection'[j] = connection[j]
      /\ UNCHANGED <<session, thread, pressed>>
  BY TakeEffect
<1>2. \A d \in Calls : Offered(d)' \subseteq Offered(d) /\ Heard(d)' = Heard(d)
  BY <1>1, ClientIds DEF Offered, Heard
<1>3. Once'
  BY <1>2 DEF Keyed, Once
<1>4. PollsAlone' /\ \A d \in Calls : \A u \in Threads : Polled(u, d) => Polled(u, d)'
  BY <1>1 DEF Keyed, PollsAlone, Polled, At, Asks, Pending
<1> QED BY <1>1, <1>2, <1>3, <1>4, KeyedFrame DEF Given

\* What Append does to the set of elements.
LEMMA AppendedKeys ==
  ASSUME NEW S, NEW s \in Seq(S), NEW e \in S, e \notin {s[i] : i \in 1 .. Len(s)},
         \A i, j \in 1 .. Len(s) : s[i] = s[j] => i = j,
         NEW r, r = Append(s, e)
  PROVE  /\ {r[i] : i \in 1 .. Len(r)} = {s[i] : i \in 1 .. Len(s)} \cup {e}
         /\ \A i, j \in 1 .. Len(r) : r[i] = r[j] => i = j
<1>1. /\ Len(r) = Len(s) + 1 /\ Len(s) \in Nat /\ r[Len(s) + 1] = e
      /\ \A i \in 1 .. Len(s) : r[i] = s[i]
  OBVIOUS
<1>2. \A i \in 1 .. Len(r) : i \in 1 .. Len(s) \/ i = Len(s) + 1
  BY <1>1
<1>3. \A i \in 1 .. Len(s) : i \in 1 .. Len(r) /\ i # Len(s) + 1
  BY <1>1
<1>4. Len(s) + 1 \in 1 .. Len(r)
  BY <1>1
<1>5. {r[i] : i \in 1 .. Len(r)} = {s[i] : i \in 1 .. Len(s)} \cup {e}
  BY <1>1, <1>2, <1>3, <1>4
<1>6. ASSUME NEW i \in 1 .. Len(r), NEW j \in 1 .. Len(r), r[i] = r[j]
      PROVE  i = j
  <2>1. \A n \in 1 .. Len(s) : s[n] # e
    OBVIOUS
  <2> QED BY <1>1, <1>2, <1>6, <2>1
<1> QED BY <1>5, <1>6

\* The key in the answer is one that the reader has not heard.
LEMMA HearKeyed ==
  ASSUME Core, Keyed, NEW c \in Calls, Answered(c), Take(c), connection[c].reply.key # 0,
         heard' = [heard EXCEPT ![c] = Append(@, connection[c].reply.key)]
  PROVE  Keyed'
<1> DEFINE key == connection[c].reply.key
<1>1. /\ connection'[c] = None
      /\ \A j \in Clients : j # c => connection'[j] = connection[j]
      /\ UNCHANGED <<session, thread, pressed>>
  BY TakeEffect, ClientIds
<1>2. key \in 1 .. MaxKeys
  <2>1. connection[c].reply \in Reply
    BY ConnectionType, ClientIds DEF Core, Answered
  <2> QED BY <2>1, MediaAssumption DEF Reply, Keys
<1>3. Offered(c) = {key} /\ Offered(c)' = {}
  BY <1>1, <1>2 DEF Offered, Answered
<1>4. key \notin Heard(c)
  BY <1>3 DEF Keyed, Once
<1>5. /\ heard[c] \in Seq(1 .. MaxKeys) /\ heard'[c] = Append(heard[c], key)
      /\ \A d \in Calls : d # c => heard'[d] = heard[d]
  BY DEF Core, TypeOK
<1>6. \A i, j \in 1 .. Len(heard[c]) : heard[c][i] = heard[c][j] => i = j
  BY DEF Keyed, Once
<1>7. /\ Heard(c)' = Heard(c) \cup {key}
      /\ \A i, j \in 1 .. Len(heard'[c]) : heard'[c][i] = heard'[c][j] => i = j
  <2> HIDE DEF key
  <2>1. key \notin {heard[c][i] : i \in 1 .. Len(heard[c])}
    BY <1>4 DEF Heard
  <2> QED BY <1>2, <1>5, <1>6, <2>1, AppendedKeys DEF Heard
<1>8. \A d \in Calls : d # c => Offered(d)' = Offered(d) /\ Heard(d)' = Heard(d)
  BY <1>1, <1>5, ClientIds DEF Offered, Heard
<1>9. \A d \in Calls : Given(d)' = Given(d)
  BY <1>3, <1>7, <1>8 DEF Given
<1>10. Once'
  <2> SUFFICES ASSUME NEW d \in Calls
               PROVE  /\ Offered(d)' \cap Heard(d)' = {}
                      /\ \A i, j \in 1 .. Len(heard'[d]) : heard'[d][i] = heard'[d][j] => i = j
    BY DEF Once
  <2>1. CASE d = c
    BY <1>3, <1>7, <2>1
  <2>2. CASE d # c
    BY <1>5, <1>8, <2>2 DEF Keyed, Once
  <2> QED BY <2>1, <2>2
<1>11. PollsAlone' /\ \A d \in Calls : \A u \in Threads : Polled(u, d) => Polled(u, d)'
  BY <1>1 DEF Keyed, PollsAlone, Polled, At, Asks, Pending
<1> QED BY <1>1, <1>9, <1>10, <1>11, KeyedFrame

\* The receiver never polls, and hears nothing.
LEMMA ReceiverKeyed ==
  ASSUME Core, Keyed, NEW c \in Calls, Command(c) \/ ReceiverStep(c)
  PROVE  Keyed'
<1>1. /\ heard' = heard
      /\ \/ \E type \in Types \ {"dtmf"} : Send(Receiver, type, c)
         \/ Answered(Receiver) /\ Take(Receiver)
         \/ UNCHANGED <<connection, serverVars>>
  <2>1. CASE Command(c)
    BY <2>1 DEF Command, CreateSession, StartMediaSession, UpdateMediaSession, StopReadDTMF,
                ReaderUnchanged, Types
  <2>2. CASE ReceiverStep(c)
    BY <2>2 DEF ReceiverStep, SessionCreated, StartReadDTMF, MediaSessionUpdated, StopSession,
                SessionStopped, CloseSession, SessionClosed, ReaderUnchanged, Types
  <2> QED BY <2>1, <2>2
<1> QED BY <1>1, SendKeyed, TakeKeyed, SameKeyed, ClientIds DEF serverVars

\* A reader that is prompt polls when it rests.
LEMMA ReaderKeyed ==
  ASSUME Core, Keyed, Prompt, NEW c \in Calls, ReaderStep(c)
  PROVE  Keyed'
<1>1. CASE ReadDTMF(c)
  BY <1>1, SendKeyed, ClientIds DEF ReadDTMF, Types, clientVars
<1>2. CASE DTMFRead(c)
  <2>1. Answered(c) /\ Take(c)
    BY <1>2 DEF DTMFRead
  <2>2. CASE UNCHANGED heard
    BY <2>1, <2>2, TakeKeyed, ClientIds
  <2>3. CASE /\ connection[c].reply.key # 0
             /\ heard' = [heard EXCEPT ![c] = Append(@, connection[c].reply.key)]
    BY <2>1, <2>3, HearKeyed
  <2> QED BY <1>2, <2>2, <2>3 DEF DTMFRead
<1>3. CASE ReaderUpdates(c)
  BY <1>3, SendKeyed, ClientIds DEF ReaderUpdates, Types
<1>4. CASE ReaderUpdated(c)
  BY <1>4, TakeKeyed, ClientIds DEF ReaderUpdated, clientVars
<1>5. CASE Exit(c)
  BY <1>5, SameKeyed DEF Exit, serverVars
<1> QED BY <1>1, <1>2, <1>3, <1>4, <1>5 DEF ReaderStep
-----------------------------------------------------------------------------
(***************************************************************************)
(* The invariant and what follows from it.                                 *)
(***************************************************************************)
\* Nobody has pressed a key at first.
LEMMA InitHasNoKeys == Init => Keyed
<1> SUFFICES ASSUME Init PROVE Keyed
  OBVIOUS
<1>1. /\ \A c \in Calls : /\ connection[c] = None /\ heard[c] = <<>>
                          /\ session[c].dtmf = 0
      /\ \A t \in Threads : thread[t] = None
      /\ pressed = 0
  BY ClientIds DEF Init, MediaInit
<1>2. \A c \in Calls : Offered(c) = {} /\ Heard(c) = {} /\ Given(c) = {}
  BY <1>1 DEF Offered, Heard, Given
<1> QED BY <1>1, <1>2 DEF Keyed, Counted, Distinct, Once, Uncleared, PollsAlone

\* Every step keeps keys to one reader.
LEMMA NextKeyed == Core /\ Keyed /\ Prompt /\ [Next]_vars => Keyed'
<1> SUFFICES ASSUME Core, Keyed, Prompt, [Next]_vars PROVE Keyed'
  OBVIOUS
<1>1. CASE UNCHANGED vars
  BY <1>1, SameKeyed DEF vars, serverVars, clientVars
<1>2. ASSUME MediaNext, UNCHANGED clientVars PROVE Keyed'
  BY <1>2, InitKeyed, SearchKeyed, ServeKeyed, LeaveKeyed, PressKeyed DEF MediaNext, ThreadStep
<1> QED BY <1>1, <1>2, ReceiverKeyed, ReaderKeyed DEF Next

\* The readers' keys keep their invariant.
THEOREM KeyInvariance == ASSUME AddressesApart, Prompt PROVE Spec => [](Core /\ Keyed)
<1>1. Init => Core /\ Keyed
  BY InitCore, InitHasNoKeys
<1>2. (Core /\ Keyed) /\ [Next]_vars => (Core /\ Keyed)'
  BY NextCore, NextKeyed
<1> QED BY <1>1, <1>2, PTL DEF Spec

\* A key that is pressed is given to one reader, once.
THEOREM KeysReadOnce == ASSUME AddressesApart, Prompt PROVE Spec => []KeyReadOnce
<1>1. ASSUME Core /\ Keyed PROVE KeyReadOnce
  <2>1. \A c \in Calls : \A i, j \in 1 .. Len(heard[c]) : heard[c][i] = heard[c][j] => i = j
    BY <1>1 DEF Keyed, Once
  <2>2. \A c, d \in Calls : c # d => Heard(c) \cap Heard(d) = {}
    BY <1>1 DEF Keyed, Distinct, Given
  <2>3. \A c \in Calls : \A i \in 1 .. Len(heard[c]) : heard[c][i] \in Heard(c)
    BY DEF Heard
  <2> QED BY <2>1, <2>2, <2>3 DEF KeyReadOnce
<1> QED BY <1>1, KeyInvariance, PTL
=============================================================================
