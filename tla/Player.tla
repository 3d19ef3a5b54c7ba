------------------------------- MODULE Player -------------------------------
(***************************************************************************)
(* The players of a media session: GstPlayer's sender and receiver, each a *)
(* GstBasePlayer with a thread of its own that runs a GLib main loop.      *)
(*                                                                         *)
(* The requests that open, start, stop and close a session come one after  *)
(* the other (MediaClient), so one thread, the user, does it all.          *)
(* Commands reach a player as sources on its main context.  GLib and       *)
(* GStreamer are modelled by what the code relies on: sources of the same  *)
(* priority run in the order they were attached.                           *)
(***************************************************************************)
EXTENDS Naturals, Sequences

CONSTANTS Players,      \* a set of 2: the sender and the receiver
          Sender,       \* which of them is opened, commanded and closed first
          MaxCommands   \* how often the session is started or stopped: bounds the model only

ASSUME PlayerAssumption == Sender \in Players /\ MaxCommands \in Nat

VARIABLES user,         \* player -> where the user is in open or close of it
          player,       \* player -> where its thread is
          lock,         \* player -> who holds _lock: "user", "thread", or "free"
          loop,         \* player -> _loop
          queue,        \* player -> the sources attached by commands, in order
          greeting,     \* player -> whether the source of onMainLoopStarted is attached
          opened,       \* player -> _isOpened
          pipeline,     \* player -> its pipeline's state, "none" if there is no pipeline
          last,         \* the last command given, or "none"
          commands,     \* how many commands were given
          fault         \* whether freed memory was used to bad effect

vars == <<user, player, lock, loop, queue, greeting, opened, pipeline, last, commands, fault>>

Places == {"new", "deciding", "waiting", "asleep", "woken", "opened", "polling", "testing", "closed"}

ThreadPlaces == {"none", "created", "made", "built", "looping", "locking", "drained",
                 "destroyed", "released", "ended"}

TypeOK ==
  /\ user \in [Players -> Places]
  /\ player \in [Players -> ThreadPlaces]
  /\ lock \in [Players -> {"free", "user", "thread"}]
  /\ loop \in [Players -> {"none", "made", "running", "quit", "freed"}]
  /\ queue \in [Players -> Seq({"play", "stop", "close"})]
  /\ greeting \in [Players -> BOOLEAN]
  /\ opened \in [Players -> BOOLEAN]
  /\ pipeline \in [Players -> {"none", "idle", "playing"}]
  /\ last \in {"none", "play", "stop"}
  /\ commands \in 0 .. MaxCommands
  /\ fault \in BOOLEAN

Init ==
  /\ user = [p \in Players |-> "new"]
  /\ player = [p \in Players |-> "none"]
  /\ lock = [p \in Players |-> "free"]
  /\ loop = [p \in Players |-> "none"]
  /\ queue = [p \in Players |-> <<>>]
  /\ greeting = [p \in Players |-> FALSE]
  /\ opened = [p \in Players |-> FALSE]
  /\ pipeline = [p \in Players |-> "none"]
  /\ last = "none"
  /\ commands = 0
  /\ fault = FALSE
-----------------------------------------------------------------------------
(***************************************************************************)
(* As in the other modules, a definition that no other refers to, followed *)
(* by one with the same parameters, is a fault the properties are known to *)
(* detect.                                                                 *)
(***************************************************************************)
InTurn(p, place) == p # Sender => user[Sender] = place

UserAt(p, from, to) == user[p] = from /\ user' = [user EXCEPT ![p] = to]

\* open: under the lock, start the thread and wait for its loop.
Open(p) ==
  /\ InTurn(p, "opened")
  /\ UserAt(p, "new", "deciding")
  /\ opened' = [opened EXCEPT ![p] = TRUE]
  /\ lock' = [lock EXCEPT ![p] = "user"]
  /\ player' = [player EXCEPT ![p] = "created"]
  /\ UNCHANGED <<loop, queue, greeting, pipeline, last, commands, fault>>

LoopIsMade(p) == loop[p] # "none"
LoopRuns(p) == loop[p] = "running"

Decide(p) ==
  /\ \/ LoopRuns(p) /\ UserAt(p, "deciding", "opened") /\ lock' = [lock EXCEPT ![p] = "free"]
     \/ ~LoopRuns(p) /\ UserAt(p, "deciding", "waiting") /\ UNCHANGED lock
  /\ UNCHANGED <<player, loop, queue, greeting, opened, pipeline, last, commands, fault>>

\* g_cond_wait gives the lock up, and takes it again when woken.
Sleep(p) ==
  /\ UserAt(p, "waiting", "asleep")
  /\ lock' = [lock EXCEPT ![p] = "free"]
  /\ UNCHANGED <<player, loop, queue, greeting, opened, pipeline, last, commands, fault>>

WakeSpuriously(p) ==
  /\ UserAt(p, "asleep", "woken")
  /\ UNCHANGED <<player, lock, loop, queue, greeting, opened, pipeline, last, commands, fault>>

Relock(p) ==
  /\ lock[p] = "free"
  /\ UserAt(p, "woken", "deciding")
  /\ lock' = [lock EXCEPT ![p] = "user"]
  /\ UNCHANGED <<player, loop, queue, greeting, opened, pipeline, last, commands, fault>>

\* INVOKE_WITH_MAIN_CONTEXT_DEFAULT: all commands have the same priority.
PauseForStop(q, command) == Append(q, IF command = "stop" THEN "pause" ELSE command)
StopFirst(q, command) == IF command = "stop" THEN <<command>> \o q ELSE Append(q, command)
Attach(q, command) == Append(q, command)

\* start and stop.
Command(command) ==
  /\ \A p \in Players : user[p] = "opened"
  /\ commands < MaxCommands
  /\ queue' = [p \in Players |-> Attach(queue[p], command)]
  /\ commands' = commands + 1
  /\ last' = command
  /\ UNCHANGED <<user, player, lock, loop, greeting, opened, pipeline, fault>>

\* close, which the destructor of the session calls, polls once a second.
ClosedFirst(p) == opened' = [opened EXCEPT ![p] = FALSE]
StaysOpen(p) == UNCHANGED opened

Close(p) ==
  /\ \A q \in Players : user[q] \notin {"new", "deciding", "waiting", "asleep", "woken"}
  /\ InTurn(p, "closed")
  /\ UserAt(p, "opened", "polling")
  /\ queue' = [queue EXCEPT ![p] = Attach(@, "close")]
  /\ StaysOpen(p)
  /\ UNCHANGED <<player, lock, loop, greeting, pipeline, last, commands, fault>>

\* _loop is read once to see whether it is null ...
Poll(p) ==
  /\ \/ loop[p] # "none" /\ UserAt(p, "polling", "testing") /\ UNCHANGED opened
     \/ /\ loop[p] = "none"
        /\ UserAt(p, "polling", "closed")
        /\ opened' = [opened EXCEPT ![p] = FALSE]
  /\ UNCHANGED <<player, lock, loop, queue, greeting, pipeline, last, commands, fault>>

\* ... and once more for g_main_loop_is_running: a loop freed in between
\* may still look as if it ran, or not, or end the process.
Test(p) ==
  /\ \/ /\ loop[p] # "quit"
        /\ UserAt(p, "testing", "polling")
        /\ UNCHANGED <<opened, fault>>
     \/ /\ loop[p] # "running"
        /\ UserAt(p, "testing", "closed")
        /\ opened' = [opened EXCEPT ![p] = FALSE]
        /\ UNCHANGED fault
     \/ /\ loop[p] \in {"freed", "none"}
        /\ user[p] = "testing"
        /\ fault' = TRUE
        /\ UNCHANGED <<user, opened>>
  /\ UNCHANGED <<player, lock, loop, queue, greeting, pipeline, last, commands>>

UserStep(p) ==
  Open(p) \/ Decide(p) \/ Sleep(p) \/ WakeSpuriously(p) \/ Relock(p) \/ Close(p) \/ Poll(p) \/ Test(p)
-----------------------------------------------------------------------------
(***************************************************************************)
(* onBasePlayerThreadStarted, the player's thread.                         *)
(***************************************************************************)
ThreadAt(p, from, to) == player[p] = from /\ player' = [player EXCEPT ![p] = to]

MakeLoop(p) ==
  /\ ThreadAt(p, "created", "made")
  /\ loop' = [loop EXCEPT ![p] = "made"]
  /\ UNCHANGED <<user, lock, queue, greeting, opened, pipeline, last, commands, fault>>

InitPipeline(p) ==
  /\ ThreadAt(p, "made", "built")
  /\ pipeline' = [pipeline EXCEPT ![p] = "idle"]
  /\ greeting' = [greeting EXCEPT ![p] = TRUE]
  /\ UNCHANGED <<user, lock, loop, queue, opened, last, commands, fault>>

RunLoop(p) ==
  /\ ThreadAt(p, "built", "looping")
  /\ loop' = [loop EXCEPT ![p] = "running"]
  /\ UNCHANGED <<user, lock, queue, greeting, opened, pipeline, last, commands, fault>>

\* onMainLoopStarted takes the lock to signal; it has idle priority.
SignalUnlocked(p) == TRUE
SignalLocked(p) == lock[p] = "free"

OnMainLoopStarted(p) ==
  /\ player[p] = "looping"
  /\ loop[p] = "running"
  /\ queue[p] = <<>>
  /\ greeting[p]
  /\ SignalLocked(p)
  /\ greeting' = [greeting EXCEPT ![p] = FALSE]
  /\ user' = [user EXCEPT ![p] = IF @ = "asleep" THEN "woken" ELSE @]
  /\ UNCHANGED <<player, lock, loop, queue, opened, pipeline, last, commands, fault>>

\* playOnMainCtx, stopOnMainCtx, closeOnMainCtx, in the loop or when the
\* context is drained after it.
Dispatch(p) ==
  /\ player[p] = "looping"
  /\ queue[p] # <<>>
  /\ queue' = [queue EXCEPT ![p] = Tail(@)]
  /\ \/ /\ Head(queue[p]) = "play"
        /\ pipeline' = [pipeline EXCEPT ![p] = "playing"]
        /\ UNCHANGED loop
     \/ /\ Head(queue[p]) = "stop"
        /\ pipeline' = [pipeline EXCEPT ![p] = "idle"]
        /\ UNCHANGED loop
     \/ /\ Head(queue[p]) = "close"
        /\ loop' = [loop EXCEPT ![p] = IF opened[p] /\ @ = "running" THEN "quit" ELSE @]
        /\ UNCHANGED pipeline
  /\ UNCHANGED <<user, player, lock, greeting, opened, last, commands, fault>>

\* The context is drained under the lock, of its idle source last ...
Draining(p, place) ==
  /\ loop[p] = "quit"
  /\ queue[p] = <<>>
  /\ lock[p] = "free"
  /\ ThreadAt(p, "looping", place)

Drained(p) ==
  /\ Draining(p, "drained")
  /\ ~greeting[p]
  /\ UNCHANGED <<user, lock, loop, queue, greeting, opened, pipeline, last, commands, fault>>

\* ... and onMainLoopStarted takes the lock, which is not recursive: a thread
\* that finds it there waits for itself, and there is no step from "locking".
GreetDrained(p) ==
  /\ Draining(p, "locking")
  /\ greeting[p]
  /\ greeting' = [greeting EXCEPT ![p] = FALSE]
  /\ lock' = [lock EXCEPT ![p] = "thread"]
  /\ UNCHANGED <<user, loop, queue, opened, pipeline, last, commands, fault>>

DestroyPipeline(p) ==
  /\ ThreadAt(p, "drained", "destroyed")
  /\ pipeline' = [pipeline EXCEPT ![p] = "none"]
  /\ UNCHANGED <<user, lock, loop, queue, greeting, opened, last, commands, fault>>

\* g_main_loop_unref, and then _loop is set to null.
ReleaseLoop(p) ==
  /\ ThreadAt(p, "destroyed", "released")
  /\ loop' = [loop EXCEPT ![p] = "freed"]
  /\ UNCHANGED <<user, lock, queue, greeting, opened, pipeline, last, commands, fault>>

End(p) ==
  /\ ThreadAt(p, "released", "ended")
  /\ loop' = [loop EXCEPT ![p] = "none"]
  /\ UNCHANGED <<user, lock, queue, greeting, opened, pipeline, last, commands, fault>>

ThreadRuns(p) ==
  \/ MakeLoop(p) \/ InitPipeline(p) \/ RunLoop(p) \/ OnMainLoopStarted(p) \/ Dispatch(p)
  \/ Drained(p) \/ GreetDrained(p) \/ DestroyPipeline(p) \/ ReleaseLoop(p) \/ End(p)

\* The destructor of the session frees both players when both are closed, which
\* may be under a thread, or under a pipeline that plays: a thread that waits for
\* itself touches nothing.
UseAfterFree(p) ==
  /\ \A q \in Players : user[q] = "closed"
  /\ player[p] # "ended"
  /\ player[p] = "locking" => pipeline[p] = "playing"
  /\ fault' = TRUE
  /\ UNCHANGED <<user, player, lock, loop, queue, greeting, opened, pipeline, last, commands>>

ThreadStep(p) == ThreadRuns(p) \/ UseAfterFree(p)
-----------------------------------------------------------------------------
Next ==
  /\ ~fault
  /\ \/ \E p \in Players : UserStep(p) \/ ThreadStep(p)
     \/ \E command \in {"play", "stop"} : Command(command)

\* Threads are scheduled; that a free hits one of them is never forced.  A session
\* need never be started, stopped or closed; GstPlayer::open and close go on to
\* the receiver.
Waits(p) == Decide(p) \/ Sleep(p) \/ Relock(p) \/ Poll(p) \/ Test(p)

Fairness ==
  \A p \in Players :
    /\ WF_vars(~fault /\ Waits(p))
    /\ WF_vars(~fault /\ ThreadRuns(p))
    /\ p # Sender => WF_vars(~fault /\ (Open(p) \/ (user[Sender] = "closed" /\ Close(p))))

Spec == Init /\ [][Next]_vars /\ Fairness
-----------------------------------------------------------------------------
(***************************************************************************)
(* Properties                                                              *)
(***************************************************************************)
\* open returns only once the player's loop runs with a pipeline, and the loop
\* runs until close asks it to quit: commands are carried out by the player's
\* thread, on a pipeline.
OpenedRuns ==
  \A p \in Players :
    user[p] = "opened" => loop[p] = "running" /\ pipeline[p] # "none"

\* open returns: the signal of the loop is not lost between the test of the
\* loop and the wait.
OpenReturns ==
  user[Sender] = "deciding" ~> ((\A p \in Players : user[p] = "opened") \/ fault)

\* However starts and stops follow each other, both pipelines end in the state
\* of the last one, unless the players are closed.
LastCommandWins ==
  LET Reaches(state) == \/ \A p \in Players : pipeline[p] = state
                        \/ \E p \in Players : user[p] # "opened"
                        \/ fault
  IN  /\ last = "play" ~> (last # "play" \/ Reaches("playing"))
      /\ last = "stop" ~> (last # "stop" \/ Reaches("idle"))

\* Closing a session returns, and ends the thread and the pipeline of every
\* player, so that its RTP port is free again.  The one exception is a player
\* asked to quit before its main loop got to onMainLoopStarted: its thread may
\* wait for the lock it holds (GreetDrained).
ThreadsEnd ==
  user[Sender] = "polling" ~>
    \/ fault
    \/ \A p \in Players : /\ user[p] = "closed"
                          /\ \/ player[p] = "ended" /\ pipeline[p] = "none"
                             \/ player[p] = "locking"

\* close returns, and with it the destructor of the session, when the thread
\* of the player has stopped.
CloseWaitsForThread ==
  \A p \in Players : user[p] = "closed" => player[p] = "ended"
=============================================================================
