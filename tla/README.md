# TLA+ models and proofs of the IVR system

The program is one process with three parts: a SIP server (registrar and call
control), an IVR application that answers calls, listens to the keys the caller
presses and refers the caller to an agent, and a media server that plays
announcements and detects DTMF. This directory holds TLA+ models of the parts
that decide what happens to a call, TLC configurations that check them on small
instances, and TLAPS proofs for all instances: about the SIP server, the IVR
application, the two and the phones in whole calls, what a whole call promises,
the media server and its clients, and the players with the announcement they play.

## 1. Inventory

| Part | Source | State it keeps | Operations |
| --- | --- | --- | --- |
| SIP server | `sipserver/src/SIP/RequestsHandler.cpp`, `Session.cpp`, `SipServer.cpp` | `_clients` (registered numbers and their addresses), `_sessions` (Call-ID to session: state, src, dest, referedDest, the SDP of caller and agent) | one handler per SIP type: REGISTER, INVITE, 100, 180, 486, 480, 487, 200, ACK, BYE, CANCEL, REFER |
| SIP messages | `SipMessage.cpp`, `SipSdpMessage.cpp`, the factories | none | parsing, header setters |
| IVR application | `ivr/gstivr/src/Application.cpp`, `session/` | `SessionManager::_sessionMap` (Call-ID to call session: state, caller, media session) | handlers for INVITE, ACK, BYE, 200, 202, 480, 486; a REGISTER every minute |
| IVR DTMF and media client | `DTMFHandler.cpp`, `media/` | per call a reader thread and its run flag; `MediaManager::_sessionMap` | poll for a key every 100 ms; refer, replay the guide, refuse the key; JSON requests over TCP |
| Media server | `gstmediaserver/src/*.cpp` | map from RTP port to media session | init, start, stop, update, close session; get DTMF event; one detached thread per request |
| Players | `gstmediaserver/src/player/` | per session a sender and a receiver pipeline with a GLib thread each; last DTMF event; playback position | open, start, stop, close |
| UDP transport | `Helpers/UdpServer.cpp`, `UdpClient.cpp` | socket, receiver thread | receive loop, send |

How they interact. The phones and the IVR talk only to the SIP server, over
UDP. Server and IVR each have one receiver thread, which runs a handler to its
end before it takes the next datagram. A call goes through

1. `INVITE` from the caller to the IVR, which opens a media session and answers
   `200`; the caller's `ACK` starts the reader thread of the call;
2. a key makes the reader send `REFER`; the server answers `202` and sends an
   `INVITE` with the caller's SDP to the agent;
3. the agent's `200` makes the server re-INVITE the caller with the agent's
   SDP; the caller's `200` makes it acknowledge both and send `BYE` to the IVR;
4. caller or agent hangs up; the server translates the `BYE` for the other side.

What is hard about it: the server keeps no transaction state, so every handler
guesses from the session (`state`, `dest`, `referedDest`,
`referedToMediaDescContent`) what a datagram is about; datagrams of the caller,
two agents and the IVR cross at every step; nothing is retransmitted or timed
out; the IVR's handlers sleep and join reader threads on the only receiver
thread; reader threads use call sessions that the receiver removes without a
lock; the media server runs requests in parallel over an unlocked map. The list
of hazards, at their lines and with the properties that watch over them, is in
`PROJECT.json`.

What makes each part correct:

* **server**: a session that is being referred has been answered; nobody takes
  over a session; every INVITE it sends has a body; a release build lets nobody
  be called directly but the IVR; sessions end, and end in order;
* **SIP messages**: however often a handler edits a message in place, each edit
  finds its line and the text says what the handler meant;
* **IVR application**: no reader thread and no media session outlives its call;
  the receiver thread always comes back to its socket; a datagram for a call
  that has gone does no harm; the announcement follows the state of the call;
* **whole call**: a caller goes from the IVR to one agent and not back; agents
  are offered a call one at a time; an agent who took a call is not let go while
  the caller is in it, and the other way round; the IVR learns of a failed
  referral; after a hang-up everything about the call goes, whoever hangs up;
* **media server**: a session keeps its port and its identifier reaches nobody
  else's; a key is delivered once; every request is answered; what a call held
  is released;
* **players**: a session that is open has both pipelines and both loops; the
  last command wins; closing ends the threads, unless it comes too soon after
  opening; an announcement is played in order, and again from the beginning, until it is changed or stopped.

## 2. Modules

| Module | Models |
| --- | --- |
| `Sip` | datagrams, and `setContact` |
| `SipServer` | `RequestsHandler`: the registry and the call table; one action per handler |
| `IvrApplication` | `Application`, `DTMFHandler`, the reader threads and the two session maps of the IVR |
| `SipText` | the text of the server's messages: `SipMessage`'s parsing and setters, and the edits of every handler, on top of `SipServer` |
| `Call` | what a caller and an agent are promised: the abstract specification of `CallFlow` |
| `CallFlow` | `SipServer` and `IvrApplication` joined by UDP queues, with callers and agents; implements `Call` |
| `MediaServer` | `MediaServer`, `RequestHandler`, `SessionManager`: the threads that serve requests, and the sessions |
| `MediaClient` | `MediaManager`, `MediaSession`, `MediaClient` of the IVR, composed with `MediaServer` |
| `Player` | `GstPlayer` and its two `GstBasePlayer`s, with their threads |
| `Playback` | `GstSenderPlayer`: the announcement file, `setPBSourceFile` and `need_data_callback`, on top of `Player` |
| `SipServerProofs`, `IvrApplicationProofs`, `CallProofs` | theorems about `SipServer`, `IvrApplication` and `Call` |
| `MediaClientProofs` | theorems about `MediaClient` (with `MediaServer`), and about the keys it reads |
| `PlaybackProofs` | theorems about `Player` and `Playback` |
| `CallFlowProofs` | theorems about `CallFlow`, from those about its two programs |
| `CallPromiseProofs` | further theorems about `CallFlow`: what a teardown tells whom, and every datagram that is usual |
| `CallGuidedProofs` | theorems about `CallFlow` on a reliable network: what leads a call on, what the caller hears, what crashes the process |
| `MCSipServer`, `MCIvrApplication`, `MCCallFlow`, `MCMediaClient`, `MCPlayer` | the instances TLC checks |

**`Sip`.** A datagram is the record of the fields that some handler tests or
rewrites: first line (`type`), `cseq`, `callID`, `from`, `to`, `contact`,
`referTo`, `sdp`. Tags, branches and Via lines carry no decision of the code
and are left out. An SDP body is named by the party whose address is in it. An
address is named by the number that registers from it (`peer`), which assumes a
phone keeps its address. `setContact` on a message without a Contact is not the
identity: the code finds the empty string at position 0 and spoils the first
line (type `"garbled"`).

**`SipServer`.** `clients` is `_clients`, `sessions` is `_sessions` (`None`
where there is no entry), `sent` the datagrams passed to `UdpServer::send` by
the handler that ran last, `fault` the handler that dereferenced an empty
pointer. Each `OnXxx(m)` is the handler of that name with every branch and early
return; `EndHandle` is `endHandle`, which turns what it cannot deliver into a
404 for the sender; `Emplace` keeps an existing session as `std::map::emplace`
does. `DebugMode` stands for the `DEBUG_MODE` macro. `Wire` is the set of
datagrams that may arrive, in any order and any number of times.

**`SipText`.** The server never composes a message it passes on: `SipMessage`
keeps the received text and the lines it parsed out of it, and a setter searches
the text for the old line and puts the new one in its place. `SipText` runs
`SipServer` together with these edits: a text is a sequence of lines (name and
value), `Set` is the search and the replacement, including the search that finds
a To line at the end of a Refer-To line, the empty old line that is found at 0,
and the line that is not found, which throws. `Edits(m)` lists, in the code's
order, the edits of the handler of `m` and the sends between them; `Bounce` those of
`endHandle`. What a handler makes up itself (`MakesUp`) is written whole. `Valid` is
`isValidMessage`; what it refuses is discarded.

**`IvrApplication`.** `calls` is `SessionManager::_sessionMap`, `media` whether
the call's media session is in `MediaManager::_sessionMap`, `reader` where the
reader thread is, `running` its flag, `pending` the REFER it has built and not
sent, `rx` what holds the receiver thread: a sleep (`announcing`,
`redirecting`) or the join in `stopReadDTMF`. A handler that sleeps or joins is
split at exactly these points, because the readers go on meanwhile; so is
`onDTMFEvent`, between its test of the call's state and its send, its
announcement or its sleep. `playing` is the announcement of the call's media
session, a string that receiver and reader both write: where they meet
(`Overwritten`) either value or a crash may come of it. A reader that was inside
`findSession` when the receiver changed the map is `raced`: it may find its call,
miss it, or follow a node that is gone. A poll of the media server returns a key
or not.

**`CallFlow`** takes every step of the two programs from the modules above.
Each party has a queue to the server and one from it (`uplink`, `downlink`).
Only the phones are new: external, modelled as the softphones the server takes
for granted. A caller dials, may give up (and then, like a compliant phone,
waits for the answer and hangs up), presses keys while its audio goes to the
IVR, takes re-INVITEs, hangs up. An agent rings, answers, rejects, hangs up, and
takes CANCEL, ACK and BYE only for the call it is in. `rtp` is where a phone's
audio goes, `dialog` which call an agent is in. `Referring(c)` is a referral that
the IVR asked for and has not been told the outcome of; with `Hasty = FALSE` the
caller presses no key meanwhile.

**`Call`** is the same call as its callers and agents could tell it, without
messages, sessions and threads: `caller` the stage of the call, `hears` whom the
caller talks to, `agent` and `serves` what an agent is doing and for which call. A
caller is `Joined` only with an agent who has taken the call, and only from the
IVR; an agent in a call is `Bridged` and `Released` only as the caller's side
allows. The refinement mapping is in `CallFlow`: `CallerStage`, `AgentStage`, `rtp`
for `hears`, `dialog` for `serves`.

**`MediaServer`.** `sessions` is `SessionManager::_sessions`, `session` the
session objects, each named by the call it was made for and with the life of the
object (`live`, `closing` while its destructor waits for the players, `gone`)
and its DTMF mailbox; `thread` is what serves a connection, with the request, the
session object it holds and where in the handler it is. A handler is split where
another thread can tell: between the limit tests and the insertion, at the two
ends of an iteration over the map, between the answer and what follows it
(clearing the mailbox, letting go of the session). An iteration during which
another thread changed the map (`raced`) may miss the session, find it, or crash.
Accepting a connection, starting its thread and reading the request are one step.
A session whose codec has no pipeline (`Supported`) is opened without players, as
`open`'s result is ignored.
The keys that are pressed are numbered, to tell them apart.

**`MediaClient`** is the other end: the receiver thread of the IVR, which makes
and takes down media sessions call by call, and one reader per call, each with
one request at a time. It takes from `Application` only the order in which
handlers call `MediaManager`; `phase` is what the IVR has made of a call's media
session (`closed` when its own BYE is not yet answered, `over` when the call is
gone from its map), `rx` the request or join the receiver waits for.

**`Player`.** `user` is the thread that opens, commands and closes a session,
the sender first; `player` is where each player's thread is in
`onBasePlayerThreadStarted`; `queue` the sources that start, stop and close attach to
its main context; `loop` is `_loop` and the state of what it points to. The
condition variable has its lock, its lost signals and its spurious wake-ups.
`_loop` is read twice in the polling of `close`, and freed before it is cleared.
Draining the context after the loop is one step, as nobody else wants the lock by
then, or else the step into `locking`, from which a thread does not return: it has
found `onMainLoopStarted` in the context, and waits for a lock of its own.

**`Playback`** adds what the sender plays. `file` is the `FileContext` of the
session, measured in the buffers the pipeline asks for; `setting` is where the
thread of a request is in `setPBSourceFile`, `feed` where the streaming thread is
in `need_data_callback`. The two share the `FileContext` without a lock, and every
read and write of it that the other can tell is a step. `file_changed` is one flag
for all sessions of the process, so a callback may find anything in it. `crossed`
records that the last change of the file met a callback. Files are changed one at a
time, although the updates of receiver and reader may overlap.

In the modules a definition that no other refers to, placed before one with the
same parameters, is a known fault: a lost test, a wrong party, a wrong order.
`PROJECT.json` lists which property each of them breaks.

## 3. What is checked

Runs that must hold (distinct states in parentheses):

| Run | Instance | What it shows |
| --- | --- | --- |
| `sip_server` (33 thousand) | one caller, one agent, the IVR, one Call-ID; every datagram they could send, in any order and number, with the texts | `ReferNeedsDest`, `MediaNeedsAnswer`: the sessions in which handlers dereference `dest` have one. `EveryInviteHasSdp`: the IVR never gets the INVITE that would crash it. `OnlyIvrIsCalledDirectly`. `TextAgrees`: every text sent reads as the record that `SipServer` sends. `CallerIsFixed`, `DestIsKept`: no second INVITE, late 200 or failure takes a session over or back. `EndsAfterTeardown`: no live call is erased. |
| `ivr_application` (34 thousand) | two calls, one agent, every datagram of the server | `NoOrphans`: reader and media session of a call go with it, or are being waited for. `CallHasMedia`. `ReceiverReturns`: no handler keeps the receiver thread for ever. |
| `whole_call` (35 thousand) | one caller, two agents, two keys, reliable network | `KeepsPromise`: it implements `Call`. `FailureGoesToIvr`. `AgentByeConfirmedLast`: the 200 that is misdirected to an agent does no harm. `RingingAgentIsCancelled`: no BYE of a call goes to an agent whose phone still rings for it. `CallForgotten`: session, call, reader and media go after a hang-up by anybody. |
| `two_callers` (2.2 million) | two callers who want the same agent, two keys | `KeepsPromise` for both. `CrashNeedsCrossing`: the process crashes only over a call that the IVR has just been told is over, or over a key whose lookup another call's begin or end disturbs. `HearsOutcome`: the announcement is the one of the call's state, whichever of receiver and reader set it last. |
| `troubled_net` (2.1 million) | as `whole_call`, with one datagram lost, repeated or overtaken | `ReferFindsDest`: a referral still finds an answered call. `CallerKeepsAgent`: nobody is left talking to an agent who has gone. |
| `media_calls` (2.4 million) | two phones on one host, one of which calls twice, the other with a reader, a key and an update; two sessions at most | `OpenIsServed`, `ReachesOwnSession`: late requests of a call never reach or remove another. `LimitsHold`: two sessions and one per remote port, without a lock. `HeldIsNotClosed`. `RaceNeedsTwoCalls`: a single call never races with itself on the map. |
| `media_redial` (209 thousand) | one phone, two calls with readers, two keys, a codec with players or without | `KeyReadOnce`: no key is read twice or in the next call of the phone. `EveryRequestAnswered`, `ClosedIsReleased`. |
| `player` (221 thousand) | sender and receiver, two commands, two files of one and two buffers, set twice | `OpenedRuns`. `OpenReturns`: no wake-up is lost. `LastCommandWins`. `ThreadsEnd`: `close` returns, and ends the thread and the pipeline of every player, save one that was asked to quit before its loop got to `onMainLoopStarted`. `SizeIsOfFile`, `PlayedInOrder`, `PlayedAgain`: unless a change of the file met a callback, the announcement is played in order, to its end, and again, whatever other sessions do to `file_changed`. |

Runs that must fail, because the code does not do what a comment or a test in it
says (`findings` in `PROJECT.json` quotes the lines):

| Run | What happens |
| --- | --- |
| `failure_misrouted` | Two keys in quick succession ring two agents. The first one's answer is taken for the callee's, and makes that agent `dest`; the failure of the second is then sent to the first agent instead of the IVR. |
| `agent_left_ringing` | The IVR's REFER reaches the server after the caller's BYE. `OnRefer` does not look at the session's state and invites an agent, the IVR's 200 for the BYE erases the session, and the agent's phone rings for a caller who has gone. |
| `close_outruns_thread` | The player's loop has been asked to quit, `close` sees that it no longer runs and returns, and the player is freed before its thread has drained its context and destroyed its pipeline. |
| `unavailable_after_bye` | A referral fails while the caller hangs up: `OnUnavailable` dereferences the session it has not yet tested. |

**Bounds of the calls.** `MaxDigits = 2` keys in all: a second referral needs two,
and the third finds nothing that the second did not leave (`referedDest`, the
agent's media and `dest` are overwritten, not accumulated); `whole_call` passes
with three as well (56 thousand states). `MaxTrouble = 1` network fault in
all. With three, `ReferFindsDest` fails: the INVITE comes twice, and first the ACK
and then the BYE overtake its copy, which starts the finished call anew while the
REFER of a key that crossed the BYE is still to come. One Call-ID per caller, used
once. In `CallFlow` the IVR and the callers are
registered, any set of agents is, and renewals are left out: they change
nothing. Queues need no bound, since phones and programs send finitely much.
`Wire` in `sip_server` has every type with every pair of parties, with and
without body, Contact and Refer-To. Two callers are symmetric in `two_callers`,
which checks no liveness.

`Hasty` says whether a key may be pressed while a referral is starting, which is
the time from the key until the IVR has handled the 202 or the failure. The
program does nothing to stop such a caller: `failure_misrouted` is a run with
`Hasty = TRUE`. So configured, `KeepsPromise` fails as well (two agents ring for
one call), and `HearsOutcome`, and `CrashNeedsCrossing` (receiver and reader meet in
one announcement); and with a network fault `CallerKeepsAgent` does. The passing
runs of `CallFlow` say what holds for the caller who waits.

**Bounds of the media server.** `MaxSessions = 2` in place of five and three local
ports, so that the limit is met with three calls and a port is used again. `Slots`
bounds the threads that serve one client at a time, for a thread may outlast its
answer: two for the receiver in `media_calls`, else one. `Listening` is the calls
whose readers are started, `MaxKeys` the keys, `MaxUpdates` the updates per key. The
two calls of one phone are symmetric in `media_calls`. `Prompt` says that a poll's
thread has ended before the reader, which sleeps 100 ms, sends the next, and one
slot per reader says the same: with two slots and without `Prompt`, `KeyReadOnce`
fails, as the mailbox is cleared after the answer.

The exception of `ThreadsEnd` is a hang of the code. `open` returns without waiting
for `onMainLoopStarted` if the loop already runs, or after a spurious wake-up, and
that source has the lowest priority. Is the session closed before the loop gets to
it, the thread drains its context with `_lock` held (GstBasePlayer.cpp:88-89), finds
the source there, and waits for the lock it holds (line 113): `GreetDrained`. `close`
returns; the thread, the pipeline and its socket stay. Without the exception,
`ThreadsEnd` fails in just this way.

**Bounds of the player.** `MaxCommands = 2`: start and stop are the shortest run in
which a wrong order ends in a wrong state. `MaxChanges = 2` settings of the file, one
before the first start and one against a callback; lengths 1 and 2, so that either
file may be the longer of the old and the new.

Deadlock is not checked: when all calls are over, or the process has crashed,
nothing need happen.

**Fairness.** Weak fairness on the steps of the receiver threads, the readers, the
end of a sleep and a join, and on the phones taking in what has arrived: threads
are scheduled and `sleep_for` returns. Nobody is forced to dial, press a key,
answer, reject or hang up, and the network need not behave. `IvrApplication`
assumes that a poll of the media server returns (`MediaClient::sendRequest` has no
timeout); `media_redial` shows it, under weak fairness of the media server's
threads, of the receiver's operations once begun and of the readers. In `Player`
the two players' threads are fair, and so is the user inside open and close, with
the step from the sender to the receiver; nobody need start, stop or close, and
memory that was freed too early need not be used to bad effect.
`g_cond_wait` may wake without a signal, but `OpenReturns` does not rely on it. In
`Playback` the streaming thread and `setPBSourceFile` are weakly fair and the
players' threads strongly: a pipeline that stops waits for the callback under way
and lets no further one begin, but the model, in which the next callback may
come first, would let the callbacks keep it out for ever.

## 4. What is proved

`SipServerProofs` proves, for every set of phones, Call-IDs and datagrams and
for both builds, the type invariant and all properties of
`sip_server` but the one of `SipText` (`TypeCorrect`, `ReferralHasDest`,
`MediaHasAnswer`, `InvitesHaveSdp`, `OnlyIvrIsCalled`, `CallerStays`, `DestStays`,
`EndsInTwoSteps`). The assumptions
are those of `Sip` and `SipServer`: the IVR is not a phone, an empty pointer is
neither a number nor a session, and what arrives is a datagram with a number in
From and To.

`TypeOK` is not inductive. During a referral the server makes up datagrams with
`dest` as their sender (`AckClient`, `Reinvite`, the agent's BYE in `OnBye`), so
they are well-formed only if a session with a `referedDest` has a `dest`. That
is `ReferNeedsDest`; it is kept because `OnRefer` opens a referral only when
`dest` is the IVR and nothing takes `dest` away. `IInv` is `TypeOK`,
`ReferNeedsDest` and `MediaNeedsAnswer`. Each handler has a lemma that says it
has at most the effect `Effect`: it makes of the session of its Call-ID one of
the seven things `Changed` lists, and sends only well-formed datagrams, an
INVITE only with a body. The invariant and the theorems follow from `HandleEffect`
without looking at a handler again, except `OnlyIvrIsCalled`: `OnInviteInvites`,
`OnReferInvites` and `OnOkInvites` say whom the three handlers that send INVITEs
invite, and `OthersInviteNobody` that there are no more of them.

`IvrApplicationProofs` proves, for every set of calls, agents and datagrams, the
type invariant and the two safety properties of `ivr_application` (`TypeCorrect`,
`NothingOrphaned`, `CallsHaveMedia`). Not inductive by themselves, they need to know
that what a thread left before it slept is there when it goes on: `RxHasCall`, the
call for which the receiver sleeps still exists (only the receiver removes calls),
and `ReferReady`, the REFER a reader is about to send has been built. The argument
of `NoOrphans` is in `EndCallKeeps` and `JoinedKeeps`: the receiver takes the call out
of the map only to wait for its reader, and leaves the wait only with the reader
joined and the media session closed. The assumptions are those of `Sip` and
`IvrApplication`: agents are phones, what arrives is a datagram, and an empty
pointer is no session.

`CallProofs` proves `CallersHaveTheirAgents` about `Call`, for every number of
callers and agents: a call has at most one agent, a caller who talks to an agent
has that agent, and an agent in a call has the caller or is the last one in it.
The inductive invariant `Pairs` adds `Heard`: an agent's phone is free exactly when
it serves nobody, and whoever is heard has taken the call. There is one lemma for
what a caller does, one each for the joining and the offer, one for what an agent
does. `CallFlow` implements `Call` (`PromiseKept` below; TLC checks `KeepsPromise` on
instances), so what is proved of `Call` holds of callers and agents there, and the
runs need no invariant of their own for it. The assumption, `Distinct`, is that the
IVR is no agent and nobody is neither an agent nor a caller.

`CallFlowProofs` proves, for every number of callers, agents and keys, and with
`Hasty` or not:

* `Invariance`, `TypeCorrect`, `PartsHold`, whatever the network does. The proofs
  about the server and the IVR assume that what arrives is a datagram; here it is
  what the other one, the phones and the network have sent, so the invariant
  `Kept` has to say what is on every link. A datagram that rises from a party
  (`Up`, `Rising`) or falls to it (`Down`, `Falling`) is of one call, and names
  parties of this call only: its caller, the IVR, the agents. That holds only if the
  sessions of the server and the calls of the IVR name none but parties of theirs
  (`OwnSessions`, `OwnCalls`), an agent's phone speaks of the call it is in or is
  asked about, and the network makes nothing up (`InDisturbed`). `HandleServes`,
  `ReceiveAttends`, `WakeAttends` and `ReadAttends` say it of every step of the
  programs, `CallerSpeaks` and `AgentSpeaks` of the phones. `Len(sent) <= 3` in
  `TypeOK` says that `Delivered` delivers all that a step sends.
* `OffersHaveBodies`, whatever the network does: that the server sends no INVITE
  without a body (`InvitesHaveSdp`) is what keeps the IVR's `OnInvite` from crashing.
* `ReferFound`, that is `ReferFindsDest`, under the hypothesis `MaxTrouble <= 1`. The
  session has a dest once the IVR's 200 has passed the server, and the REFER comes
  from a reader that the caller's ACK has started; what has to be excluded is that
  a session is made after it. `Setup` says of a call that is `Early` (its phone is
  idle, its INVITE is on the way, or its session has no dest) that it is `Fresh`:
  nothing of the call is anywhere but its INVITE with what the caller says behind
  it, the offer and the IVR's answer,
  and no reader, receiver or agent is in it. The INVITE is `First` in its queue; a
  network that has used its one mistake up to repeat it cannot move the ACK before
  the copy. With three mistakes the theorem is false (see the bounds in §3); for two
  it is neither proved nor refuted.

The assumptions are those of the parts, the callers are the phones that are no
agents, and an empty pointer is neither a session nor a datagram.

`CallPromiseProofs` proves `ByeConfirmedLast`, that is `AgentByeConfirmedLast`, for every
network and for callers who press keys at any time. `OnOk` sends a 200 for a BYE to
an agent if its Contact is not the agent's. Such an answer is the caller's phone's,
or the IVR's own, and the caller's phone answers a BYE only outside or at the end of
its call. The IVR is asked only by a BYE of the caller (`Parting`), which the phone
sends as it hangs up, or by the server's copy of one. The invariant `Told` therefore
says of each BYE and each 200 for one, on each link, who spoke it (`Spoken`) and who is
to hear it (`Heard`), and that the caller's phone has left the call wherever the
caller's BYE, or the answer to it, is on its way. One lemma per
handler says what it sends of this kind; `NextTold` collects them. A second
invariant, `Usual`, says the same of every datagram: by type and CSeq, which parties
it names, who says it (`Utters`) and who hears it (`Hears`).

`CallGuidedProofs` proves `CrashesCross` and `OutcomeHeard`, that is `CrashNeedsCrossing`
and `HearsOutcome`, for every number of callers, agents and keys, under two hypotheses:
`MaxTrouble = 0`, the network makes no mistake, and `~Hasty`, no caller presses a key
over a referral. Each property needs both: TLC finds it broken when the first holds without the second
(§3 says what `Hasty` callers bring about), and when the network makes one mistake. An
ACK that comes twice finds the reader running, and crashes the IVR without a crossing;
a lost 202 leaves the call Connected in the IVR, where the next key and the failure of
the referral replace each other's announcement. Neither property is inductive,
for both are about the order in which the receiver, the reader and the datagrams
of a referral come to one call. The invariant is `Guided`. A datagram *leads* the
call on (`Leads`) if it is its INVITE, the IVR's answer, the ACK to the IVR or a
REFER: there is at most one on all links (`Lone`), none while the reader is about to
send a REFER, and its kind tells how far phone and reader have come (`Guides`). No
agent is in the call, asked into it or named by a datagram of it (`Agentless`) until
the IVR is in the call no more, has left the state Connected, or is about to hear of
its REFER (`Asked`). So the reader of a call that hears of an outcome sets nothing
(`Settles`, `InTime`, `OutcomeSilent`), and a key is acted on only when nothing of a
referral is left. One lemma per handler and per phone says that its step keeps this
(`ServerGuided`, `ReceiveGuided`, `WakeGuided`, `ReaderGuided`, `KeyGuided`,
`DialGuided`, `CallerGuided`, `AgentGuided`); `NextHears` and `NextCrashes` draw the
two conclusions, the latter with `Setup` and with the bodies of `OffersHaveBodies`.

On top of it, and under the same hypotheses, come `AgentKept`, that is
`CallerKeepsAgent`, and `PromiseKept`, that is `KeepsPromise`: `CallFlow`, with its
messages, sessions and threads, implements `Call`. The invariant is `Met`, about what
the server's session, the caller's phone and the agent's phone know of each other
once the IVR has asked for a referral. One agent at most is `Engaged`: the INVITE is
on its way to it, once, or its phone is in the call, never both (`Sole`). The session
refers to that agent and is not cancelled (`Refers`). A caller who hears an agent
hears one whose phone is in the call and has stopped ringing (`InTouch`). What makes
this inductive is what the datagrams say (`Reports`, `Brings`): the answer of an
agent, and the re-INVITE made of it, hold as long as the agent is in the call and has
not been acknowledged (`Holds`), or the caller has left; a failure comes from an agent
who is in the call no more; the ACK of an agent comes when the caller hears it, or
nobody rings; and a BYE for an agent, a 487 and the ACK of anybody but the IVR come
when the caller has left. `MetStays` says which changes of phones and session keep
that, so that a step needs an argument only for what it sends, and `MetApart` that
the calls a step is not about keep it anyway. The server's steps need `Guided`: the
REFER that is accepted finds nobody `Engaged`, because a call in which a REFER leads
is `Agentless` (`ServerOffers`). A phone's step is classified by what its owner can
tell (`CallerMoves`, `AgentMoves`); the step simulation (`CallerMaps`, `AgentMaps`)
then takes each class to an action of `Call` or a stutter. The one that needs an
argument is `Offered`: that the caller hears the IVR or has gone, and that no other
agent serves the call, follows from `Guided` and `Sole` (`OfferMaps`). `PairedKept`
instantiates `CallersHaveTheirAgents` with the refinement mapping. `troubled_net`
checks `CallerKeepsAgent` with one mistake of the network, which the theorem does not
cover; `Hasty` callers break `KeepsPromise` (§3).

The third invariant, `Decided`, is about the answer of the agent, and gives
`FailureReachesIvr` and `RingingCancelled`, that is `FailureGoesToIvr` and
`RingingAgentIsCancelled`. An agent who is offered the call has not answered it, and
one who refused it never will, so while either is so nobody's answer is on its way
and the session has nobody's media (`NoAnswer`). What an answer is taken for depends
on `referedDest` alone; so that the agent's is never taken for the callee's, and
`dest` stays the IVR, every answer on its way has to find the referral it belongs to
(`Owed`). `AgentDecided` is the step that decides: an agent who accepts was the only
one offered the call, and no refusal is on its way, which is what `Met` says. Both
properties need both hypotheses: TLC finds each of them broken by a `Hasty` caller,
and by one mistake of the network.

`MediaClientProofs` proves, for every number of calls, ports, threads, keys and
sessions, the type invariant and all safety properties of `media_calls`
(`MediaTypeCorrect`, `OpenSessionsServed`, `RequestsReachOwnSession`, `LimitsAreKept`,
`HeldStaysLive`, `RacesNeedTwoCalls`). None of them is inductive, for each is about
what two or three threads make of the map together. `Core` follows a request:
`Served` says that a client that waits has one thread, which has its request;
`RxAsks` and `ReaderAsks` what each client can be asking for, and `Objects` what a
thread holds at each place of its handler. The receiver alone inserts and
removes, so while it has a thread between the tests of `createSession` and the
insertion no other changes the map (`Allowed`, `CountInv`); what is in the map is
then what the IVR has open, but for the session it is about to hear of and the
one it is about to be told has gone (`MapInv`). Calls of one phone are open one
after the other (`Phones`), which is why an identifier that two calls share finds
the right one. A session lives while it is in the map or a thread holds it
(`HeldInv`). The steps of the server's threads come first, by what they change
(`Moves`, `Answers`, `Others`), then the operations of receiver and readers.

These theorems have a hypothesis, `AddressesApart`: sessions with the same
identifier have the same remote port. The identifier is the MD5 of address and
port written one after the other, with nothing in between; this is so when all
RTP ports have as many digits, and not if 10.0.0.1 uses port 15000 and 10.0.0.11
port 5000. Nothing in the code rules that out, and without it the theorems are
false: a `close` for one of the two phones would remove the other's session. The
instances TLC checks satisfy it.

The second half proves `KeysReadOnce` on top of it, under the hypothesis `Prompt`,
without which it is false: the mailbox is cleared after the answer. The invariant
`Keyed` numbers the keys (`Counted`), says that no key is in two places that a
reader can get it from (`Distinct`, `Once`), and that a key which was read is in the
mailbox only while the thread that will clear it is there (`Uncleared`).

`PlaybackProofs` proves the type invariant and all safety properties of `player`,
for every set of players and of files of any length, and without a bound on
commands or changes (`PlaybackTypeCorrect`, `PlaybackOpenedRuns`, `SizeFollowsFile`,
`PlayedWithoutGap`), and that every step of `Playback` is one of `Player` or leaves the
players alone (`PlaybackImplementsPlayer`; the fairness is not part of it).
`OpenedRuns` needs the place of the player's thread for each state of `_loop`
(`Loops`) and that nothing asks the loop to quit before `close` (`NotAskedToQuit`).
For the announcement, `Knows` says what the `FileContext` and the callback can know
of each other as long as no change has crossed a callback, `InOrder` that the offset
is behind the last buffer pushed, and `PlaysFile` that nothing plays before a file
has been set, so that a callback never opens an empty path.

The assumptions about constants are in the modules: there are finitely many
local ports, and the empty pointer is none of the things it may point to.

Model-checked only: `TextAgrees`; `CallerKeepsAgent` for a network that makes a
mistake; and all liveness, which is out of the prover's reach.
`SipText` edits a message with folds over sequences, for which the provers would
need induction over data.

## 5. Not modelled

Nearly nine tenths of the lines in the repository are vendored (two copies of
nlohmann's `json.hpp`, three of `cxxopts.hpp`); the program itself has about 6,800.
Of these, the following are left out.

* Malformed lines, and values inside a line (tags, branches, ports). The IVR's
  `SipMessage`, which writes every message anew from its fields and decides nothing
  by its text.
* A caller's BYE that stays unanswered, because the IVR's 200 to it is sent to the
  agent: the model has it, and a real phone repeats the BYE, which the model's
  does not.
* The GStreamer pipelines beyond their state: end of stream, bus errors, the
  speex pipeline, which reads the file itself.
* An announcement file that does not exist.
* JSON that does not parse, which ends the process, and the descriptors of the
  parts of a media description.
* A write of the media server's map that races with another write: the IVR's
  receiver is the only client that inserts and removes, one request at a time.
* Two changes of a session's announcement at a time, by the threads that serve an
  update of the receiver and one of the reader: they assign one string.
* What the media server does in `CallFlow`: there a key or a refusal is a choice.
* A phone that changes its address, or registers twice.
* Shutdown: nothing in the program stops its threads.
* `ivr/pjsipivr`, an earlier prototype outside the executable, the loggers,
  option parsing, and vendored code.

## 6. Plan

1. Done: `Sip`, `SipServer`, `SipText`, `IvrApplication`, `Call`, `CallFlow`,
   `MediaServer`, `MediaClient`, `Player`, `Playback`, and the proofs of each but
   `SipText`.
2. What is left to prove about `CallFlow`: `CallerKeepsAgent` with one mistake of the
   network.
3. An abstract specification of the media service (open, poll, close) that
   `MediaClient` implements.
4. `MediaServer` composed with `Player`: a port that is used again while the old
   receiver still has the socket.
