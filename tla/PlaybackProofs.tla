--------------------------- MODULE PlaybackProofs ---------------------------
(***************************************************************************)
(* What holds of the players and of the announcement for every set of      *)
(* players and of files: commands find a loop that runs and a pipeline,    *)
(* and the callback plays a file in order up to its own length.            *)
(*                                                                         *)
(* The thread of a player goes with its loop and its pipeline, and cannot  *)
(* leave its loop before close asks it to (Loops, NotAskedToQuit).  What   *)
(* the callback knows of the file is what the last change left, while the  *)
(* two do not cross (Alone, Knows, InOrder).                               *)
(***************************************************************************)
EXTENDS Playback, TLAPS

\* The user has not yet called close.
Held(p) == user[p] \notin {"polling", "testing", "closed"}

\* _loop and the pipeline at each place of the thread.
Loops(p) ==
  /\ user[p] = "new" <=> player[p] = "none"
  /\ player[p] \in {"none", "created", "ended"} <=> loop[p] = "none"
  /\ player[p] \in {"made", "built"} <=> loop[p] = "made"
  /\ player[p] = "released" <=> loop[p] = "freed"
  /\ loop[p] = "running" => player[p] = "looping"
  /\ player[p] \in {"locking", "drained", "destroyed"} => loop[p] = "quit"
  /\ player[p] \in {"built", "looping", "locking", "drained"} => pipeline[p] # "none"

\* Before close nothing ends the loop.
NotAskedToQuit(p) ==
  Held(p) =>
    /\ player[p] \in {"none", "created", "made", "built", "looping"}
    /\ loop[p] # "quit"
    /\ \A i \in 1 .. Len(queue[p]) : queue[p][i] # "close"

LoopsHeld == \A p \in Players : Loops(p) /\ NotAskedToQuit(p)

PlayerInv == TypeOK /\ LoopsHeld /\ OpenedRuns

\* The user is between the assignments of setPBSourceFile.
Changing == setting.at \in {"called", "named"}

\* A callback and a change that do not cross.
Alone == Changing /\ ~crossed => feed.at \notin Callback

\* No pipeline plays and none is about to.
Silent ==
  \A p \in Players :
    /\ pipeline[p] # "playing"
    /\ \A i \in 1 .. Len(queue[p]) : queue[p][i] # "play"

\* Nothing is played before a file has been set.
PlaysFile ==
  /\ setting.at = "called" => setting.to \in Files
  /\ setting.at \in {"named", "starts"} => file.path \in Files
  /\ feed.at # "off" => file.path \in Files
  /\ feed.at \in {"opened", "measured", "placed"} => feed.held \in Files
  /\ file.path = NoFile => Silent

\* The size is unknown or that of the file; the callback has that file open.
Knows ==
  ~crossed /\ ~Changing =>
    /\ \/ file.size = 0 /\ file.offset = 0
       \/ /\ file.path \in Files
          /\ file.size = Length[file.path]
          /\ file.offset <= file.size
    /\ feed.at \in {"opened", "measured", "placed"} => feed.held = file.path
    /\ feed.at \in {"measured", "placed"} => file.size = Length[file.path]
    /\ feed.at = "placed" => feed.place = file.offset /\ feed.place < file.size

\* The offset follows the last buffer pushed.
InOrder ==
  ~crossed /\ ~Changing =>
    file.offset = 0 \/ (pushed[1] = file.path /\ pushed[2] + 1 = file.offset)

FeedInv == Alone /\ PlaysFile /\ Knows /\ InOrder

IInv == PlaybackTypeOK /\ LoopsHeld /\ OpenedRuns /\ FeedInv
-----------------------------------------------------------------------------
(***************************************************************************)
(* The players.                                                            *)
(***************************************************************************)
\* Nothing has been opened to begin with.
LEMMA InitPlayer == Init => PlayerInv
<1> SUFFICES ASSUME Init PROVE PlayerInv
  OBVIOUS
<1>1. TypeOK
  <2>1. commands \in 0 .. MaxCommands
    BY PlayerAssumption DEF Init
  <2>2. queue \in [Players -> Seq({"play", "stop", "close"})]
    BY DEF Init
  <2>3. greeting \in [Players -> BOOLEAN] /\ opened \in [Players -> BOOLEAN] /\ fault \in BOOLEAN
    BY DEF Init
  <2> QED BY <2>1, <2>2, <2>3 DEF Init, TypeOK, Places, ThreadPlaces
<1>2. LoopsHeld
  <2> SUFFICES ASSUME NEW p \in Players
               PROVE  Loops(p) /\ NotAskedToQuit(p)
    BY DEF LoopsHeld
  <2>1. queue[p] = <<>> /\ Len(queue[p]) = 0
    BY DEF Init
  <2> QED BY <2>1 DEF Init, Loops, NotAskedToQuit
<1>3. OpenedRuns
  BY DEF Init, OpenedRuns
<1> QED BY <1>1, <1>2, <1>3 DEF PlayerInv

\* A command is appended as it is.
LEMMA AttachType ==
  ASSUME NEW q \in Seq({"play", "stop", "close"}), NEW command \in {"play", "stop", "close"}
  PROVE  /\ Attach(q, command) \in Seq({"play", "stop", "close"})
         /\ Len(Attach(q, command)) = Len(q) + 1
         /\ \A i \in 1 .. Len(q) : Attach(q, command)[i] = q[i]
         /\ Attach(q, command)[Len(q) + 1] = command
BY DEF Attach

\* What is left of the queue when its first command is taken.
LEMMA TailType ==
  ASSUME NEW q \in Seq({"play", "stop", "close"}), q # <<>>
  PROVE  /\ Head(q) \in {"play", "stop", "close"}
         /\ Head(q) = q[1]
         /\ Len(q) >= 1
         /\ Tail(q) \in Seq({"play", "stop", "close"})
         /\ Len(Tail(q)) = Len(q) - 1
         /\ \A i \in 1 .. Len(Tail(q)) : Tail(q)[i] = q[i + 1]
OBVIOUS

\* open and close keep every type ...
LEMMA UserStepType ==
  ASSUME TypeOK, NEW p \in Players, UserStep(p)
  PROVE  TypeOK'
<1> USE DEF UserAt, Places
<1>1. CASE Open(p)
  BY <1>1 DEF Open, TypeOK, ThreadPlaces
<1>2. CASE Decide(p)
  BY <1>2 DEF Decide, TypeOK
<1>3. CASE Sleep(p)
  BY <1>3 DEF Sleep, TypeOK
<1>4. CASE WakeSpuriously(p)
  BY <1>4 DEF WakeSpuriously, TypeOK
<1>5. CASE Relock(p)
  BY <1>5 DEF Relock, TypeOK
<1>6. CASE Close(p)
  BY <1>6, AttachType DEF Close, StaysOpen, TypeOK
<1>7. CASE Poll(p)
  BY <1>7 DEF Poll, TypeOK
<1>8. CASE Test(p)
  BY <1>8 DEF Test, TypeOK
<1> QED BY <1>1, <1>2, <1>3, <1>4, <1>5, <1>6, <1>7, <1>8, UserStep(p) DEF UserStep

\* ... and so does the thread of a player.
LEMMA ThreadStepType ==
  ASSUME TypeOK, NEW p \in Players, ThreadStep(p)
  PROVE  TypeOK'
<1> USE DEF ThreadAt, ThreadPlaces
<1>1. CASE MakeLoop(p)
  BY <1>1 DEF MakeLoop, TypeOK
<1>2. CASE InitPipeline(p)
  BY <1>2 DEF InitPipeline, TypeOK
<1>3. CASE RunLoop(p)
  BY <1>3 DEF RunLoop, TypeOK
<1>4. CASE OnMainLoopStarted(p)
  BY <1>4 DEF OnMainLoopStarted, TypeOK, Places
<1>5. CASE Dispatch(p)
  BY <1>5, TailType DEF Dispatch, TypeOK
<1>6. CASE Drained(p)
  BY <1>6 DEF Drained, Draining, TypeOK
<1>7. CASE DestroyPipeline(p)
  BY <1>7 DEF DestroyPipeline, TypeOK
<1>8. CASE ReleaseLoop(p)
  BY <1>8 DEF ReleaseLoop, TypeOK
<1>9. CASE End(p)
  BY <1>9 DEF End, TypeOK
<1>10. CASE UseAfterFree(p)
  BY <1>10 DEF UseAfterFree, TypeOK
<1>11. CASE GreetDrained(p)
  BY <1>11 DEF GreetDrained, Draining, TypeOK
<1> QED BY <1>1, <1>2, <1>3, <1>4, <1>5, <1>6, <1>7, <1>8, <1>9, <1>10, <1>11, ThreadStep(p)
        DEF ThreadStep, ThreadRuns

\* A start or a stop goes to every player.
LEMMA CommandType ==
  ASSUME TypeOK, NEW command \in {"play", "stop"}, Command(command)
  PROVE  TypeOK'
<1>1. queue' \in [Players -> Seq({"play", "stop", "close"})]
  BY AttachType, SMTT(30) DEF Command, TypeOK
<1>2. commands' \in 0 .. MaxCommands
  BY PlayerAssumption DEF Command, TypeOK
<1> QED BY <1>1, <1>2 DEF Command, TypeOK

\* The user opens a player that has no thread, goes on when the loop runs,
\* and asks for the end of it only in close.
LEMMA UserStepLoops ==
  ASSUME TypeOK, LoopsHeld, NEW p \in Players, UserStep(p)
  PROVE  LoopsHeld'
<1> SUFFICES ASSUME NEW q \in Players
             PROVE  Loops(q)' /\ NotAskedToQuit(q)'
  BY DEF LoopsHeld
<1> USE DEF UserAt, LoopsHeld, Loops, NotAskedToQuit, Held, TypeOK
<1>1. CASE Open(p)
  BY <1>1 DEF Open
<1>2. CASE Decide(p)
  BY <1>2, ZenonT(60) DEF Decide
<1>3. CASE Sleep(p)
  BY <1>3 DEF Sleep
<1>4. CASE WakeSpuriously(p)
  BY <1>4 DEF WakeSpuriously
<1>5. CASE Relock(p)
  BY <1>5 DEF Relock
<1>6. CASE Close(p)
  BY <1>6 DEF Close
<1>7. CASE Poll(p)
  BY <1>7 DEF Poll
<1>8. CASE Test(p)
  BY <1>8 DEF Test
<1> QED BY <1>1, <1>2, <1>3, <1>4, <1>5, <1>6, <1>7, <1>8, UserStep(p) DEF UserStep

\* The loop and the pipeline follow the thread, which leaves the loop only
\* when it finds the command to close.
LEMMA ThreadStepLoops ==
  ASSUME TypeOK, LoopsHeld, NEW p \in Players, ThreadStep(p)
  PROVE  LoopsHeld'
<1> SUFFICES ASSUME NEW q \in Players
             PROVE  Loops(q)' /\ NotAskedToQuit(q)'
  BY DEF LoopsHeld
<1> USE DEF ThreadAt, LoopsHeld, Loops, NotAskedToQuit, Held, TypeOK
<1>1. CASE MakeLoop(p)
  BY <1>1 DEF MakeLoop
<1>2. CASE InitPipeline(p)
  BY <1>2 DEF InitPipeline
<1>3. CASE RunLoop(p)
  BY <1>3 DEF RunLoop
<1>4. CASE OnMainLoopStarted(p)
  BY <1>4 DEF OnMainLoopStarted
<1>5. CASE Dispatch(p)
  BY <1>5, TailType DEF Dispatch
<1>6. CASE Drained(p)
  BY <1>6 DEF Drained, Draining
<1>7. CASE DestroyPipeline(p)
  BY <1>7 DEF DestroyPipeline
<1>8. CASE ReleaseLoop(p)
  BY <1>8 DEF ReleaseLoop
<1>9. CASE End(p)
  BY <1>9 DEF End
<1>10. CASE UseAfterFree(p)
  BY <1>10 DEF UseAfterFree
<1>11. CASE GreetDrained(p)
  BY <1>11 DEF GreetDrained, Draining
<1> QED BY <1>1, <1>2, <1>3, <1>4, <1>5, <1>6, <1>7, <1>8, <1>9, <1>10, <1>11, ThreadStep(p)
        DEF ThreadStep, ThreadRuns

\* Starts and stops do not end a loop.
LEMMA CommandLoops ==
  ASSUME TypeOK, LoopsHeld, NEW command \in {"play", "stop"}, Command(command)
  PROVE  LoopsHeld'
<1> SUFFICES ASSUME NEW q \in Players
             PROVE  Loops(q)' /\ NotAskedToQuit(q)'
  BY DEF LoopsHeld
<1>0. queue'[q] = Attach(queue[q], command) /\ queue[q] \in Seq({"play", "stop", "close"})
  BY DEF Command, TypeOK
<1>1. /\ Len(queue'[q]) = Len(queue[q]) + 1
      /\ \A i \in 1 .. Len(queue[q]) : queue'[q][i] = queue[q][i]
      /\ queue'[q][Len(queue[q]) + 1] = command
      /\ Len(queue[q]) \in Nat
  BY <1>0 DEF Attach
<1>2. ASSUME Held(q), NEW i \in 1 .. Len(queue'[q])
      PROVE  queue'[q][i] # "close"
  <2>1. Held(q) => \A j \in 1 .. Len(queue[q]) : queue[q][j] # "close"
    BY DEF LoopsHeld, NotAskedToQuit
  <2>2. Held(q)
    BY <1>2 DEF Held, Command
  <2> QED BY <1>1, <1>2, <2>1, <2>2
<1> QED BY <1>2 DEF Command, LoopsHeld, Loops, NotAskedToQuit, Held

\* A player that is open has looked at the loop when it ran, and nothing has
\* ended it since.
LEMMA OpenedStays ==
  ASSUME TypeOK, LoopsHeld, LoopsHeld', OpenedRuns, NEW p \in Players,
         UserStep(p) \/ ThreadStep(p)
  PROVE  OpenedRuns'
<1> SUFFICES ASSUME NEW q \in Players, user'[q] = "opened"
             PROVE  loop'[q] = "running" /\ pipeline'[q] # "none"
  BY DEF OpenedRuns
<1>1. /\ Loops(q) /\ Loops(q)'
      /\ NotAskedToQuit(q) /\ NotAskedToQuit(q)'
  BY DEF LoopsHeld
<1>2. loop'[q] = "running" => pipeline'[q] # "none"
  BY <1>1 DEF Loops, NotAskedToQuit, Held
<1>3. CASE user[q] = "opened"
  BY <1>1, <1>2, <1>3, UserStep(p) \/ ThreadStep(p)
     DEF OpenedRuns, TypeOK, UserAt, ThreadAt, Loops, NotAskedToQuit, Held,
         UserStep, Open, Decide, Sleep, WakeSpuriously, Relock, Close, Poll, Test,
         ThreadStep, ThreadRuns, MakeLoop, InitPipeline, RunLoop, OnMainLoopStarted, Dispatch,
         Draining, Drained, GreetDrained, DestroyPipeline, ReleaseLoop, End, UseAfterFree
<1>4. CASE user[q] # "opened"
  <2>1. CASE UserStep(p)
    <3>1. Decide(p) /\ p = q /\ LoopRuns(p)
      BY <1>4, <2>1 DEF UserStep, Open, Decide, Sleep, WakeSpuriously, Relock, Close, Poll,
                        Test, UserAt, TypeOK
    <3> QED BY <1>2, <3>1 DEF Decide, LoopRuns
  <2>2. CASE ThreadStep(p)
    BY <1>4, <2>2 DEF ThreadStep, ThreadRuns, MakeLoop, InitPipeline, RunLoop, OnMainLoopStarted,
                      Dispatch, Draining, Drained, GreetDrained, DestroyPipeline, ReleaseLoop, End, UseAfterFree, TypeOK
  <2> QED BY <2>1, <2>2
<1> QED BY <1>3, <1>4

\* Every step of the players keeps their invariant.
LEMMA NextPlayer == PlayerInv /\ [Next]_vars => PlayerInv'
<1> SUFFICES ASSUME PlayerInv, [Next]_vars
             PROVE  PlayerInv'
  OBVIOUS
<1> USE DEF PlayerInv
<1>1. ASSUME NEW p \in Players, UserStep(p)
      PROVE  PlayerInv'
  BY <1>1, UserStepType, UserStepLoops, OpenedStays
<1>2. ASSUME NEW p \in Players, ThreadStep(p)
      PROVE  PlayerInv'
  BY <1>2, ThreadStepType, ThreadStepLoops, OpenedStays
<1>3. ASSUME NEW command \in {"play", "stop"}, Command(command)
      PROVE  PlayerInv'
  <2>1. OpenedRuns'
    BY <1>3 DEF Command, OpenedRuns
  <2> QED BY <1>3, <2>1, CommandType, CommandLoops
<1>4. CASE UNCHANGED vars
  BY <1>4 DEF vars, TypeOK, LoopsHeld, Loops, NotAskedToQuit, Held, OpenedRuns
<1> QED BY <1>1, <1>2, <1>3, <1>4 DEF Next

\* However open, close and the commands meet the threads of the players, the
\* invariant holds.
THEOREM PlayerInvariance == Spec => []PlayerInv
BY InitPlayer, NextPlayer, PTL DEF Spec

\* An open player has a loop that runs and a pipeline, for any set of players
\* and any number of commands.
THEOREM OpenedPlayerRuns == Spec => []OpenedRuns
<1>1. PlayerInv => OpenedRuns
  BY DEF PlayerInv
<1> QED BY <1>1, PlayerInvariance, PTL
-----------------------------------------------------------------------------
(***************************************************************************)
(* The announcement.                                                       *)
(***************************************************************************)
\* No file is set to begin with.
LEMMA InitPlayback == PlaybackInit => IInv
<1> SUFFICES ASSUME PlaybackInit PROVE IInv
  OBVIOUS
<1>1. TypeOK /\ LoopsHeld /\ OpenedRuns
  BY InitPlayer DEF PlaybackInit, PlayerInv
<1>2. PlaybackTypeOK
  <2> USE PlaybackAssumption DEF PlaybackInit, Sizes
  <2>1. file \in [path : Files \cup {NoFile}, size : Sizes, offset : Sizes]
    OBVIOUS
  <2>2. setting \in [at : {"idle", "called", "named", "starts"}, to : Files \cup {NoFile},
                     start : BOOLEAN]
    BY DEF NotSetting
  <2>3. feed \in [at : {"off", "asks", "waits"} \cup Callback, held : Files \cup {NoFile},
                  place : Sizes]
    BY DEF Fed
  <2>4. pushed \in (Files \cup {NoFile}) \X Sizes /\ changes \in 0 .. MaxChanges
    OBVIOUS
  <2> QED BY <1>1, <2>1, <2>2, <2>3, <2>4 DEF PlaybackTypeOK
<1>3. Alone /\ InOrder
  BY DEF PlaybackInit, Alone, Changing, NotSetting, InOrder
<1>4. Knows
  BY DEF PlaybackInit, Fed, Knows
<1>5. PlaysFile
  <2>1. \A p \in Players : pipeline[p] = "none" /\ Len(queue[p]) = 0
    BY DEF PlaybackInit, Init
  <2> QED BY <2>1 DEF PlaybackInit, NotSetting, Fed, PlaysFile, Silent
<1> QED BY <1>1, <1>2, <1>3, <1>4, <1>5 DEF IInv, FeedInv

\* What a callback or a change of the file does is nothing to the players.
LEMMA SamePlayer ==
  ASSUME TypeOK, LoopsHeld, OpenedRuns, UNCHANGED vars
  PROVE  TypeOK' /\ LoopsHeld' /\ OpenedRuns'
BY DEF vars, TypeOK, LoopsHeld, Loops, NotAskedToQuit, Held, OpenedRuns

\* ... nor to their types.
LEMMA SamePlayerType ==
  ASSUME TypeOK, UNCHANGED vars
  PROVE  TypeOK'
BY DEF vars, TypeOK

\* The file, the feed and the buffer keep their types in a callback.
LEMMA FeedStepType ==
  ASSUME PlaybackTypeOK, PlaysFile, FeedStep
  PROVE  PlaybackTypeOK'
<1> USE DEF FeedAt, PlaybackTypeOK, Callback, Sizes, Cross
<1>1. TypeOK'
  BY DEF FeedStep, LoadFlag, Restart, OpenFile, Measure, Seek, Push, vars, TypeOK
<1>2. crossed' \in BOOLEAN
  BY DEF FeedStep, LoadFlag, Restart, OpenFile, Measure, Seek, Push
<1>3. CASE LoadFlag
  BY <1>1, <1>2, <1>3 DEF LoadFlag
<1>4. CASE Restart
  BY <1>1, <1>2, <1>4 DEF Restart, FromTheStart
<1>5. CASE OpenFile
  BY <1>1, <1>2, <1>5 DEF OpenFile, Fed
<1>6. CASE Measure
  <2>1. Length[feed.held] \in Nat
    BY <1>6, PlaybackAssumption DEF Measure, PlaysFile
  <2> QED BY <1>1, <1>2, <1>6, <2>1 DEF Measure
<1>7. CASE Seek
  BY <1>1, <1>2, <1>7 DEF Seek
<1>8. CASE Push
  BY <1>1, <1>2, <1>8 DEF Push, Fed
<1> QED BY <1>3, <1>4, <1>5, <1>6, <1>7, <1>8 DEF FeedStep

\* A callback that no change crosses leaves the file it has open, at its
\* offset, for the next one.
LEMMA FeedStepKeeps ==
  ASSUME PlaybackTypeOK, FeedInv, FeedStep
  PROVE  FeedInv'
<1> USE PlaybackAssumption
    DEF FeedAt, PlaybackTypeOK, Callback, Sizes, Cross, FeedInv, Changing
<1>1. Alone'
  BY DEF FeedStep, LoadFlag, Restart, OpenFile, Measure, Seek, Push, Alone
<1>2. PlaysFile'
  <2>1. CASE OpenFile
    BY <2>1 DEF OpenFile, Fed, PlaysFile, Silent, vars
  <2>2. CASE Push
    BY <2>2 DEF Push, Fed, PlaysFile, Silent, vars
  <2>3. CASE LoadFlag \/ Restart \/ Measure \/ Seek
    BY <2>3, ZenonT(60) DEF LoadFlag, Restart, FromTheStart, Measure, Seek, PlaysFile, Silent, vars
  <2> QED BY <2>1, <2>2, <2>3 DEF FeedStep
<1>3. Knows' /\ InOrder'
  <2> SUFFICES ASSUME ~crossed', ~Changing'
               PROVE  Knows' /\ InOrder'
    BY DEF Knows, InOrder
  <2>1. ~crossed /\ ~Changing
    BY DEF FeedStep, LoadFlag, Restart, OpenFile, Measure, Seek, Push
  <2>2. CASE LoadFlag
    BY <2>1, <2>2 DEF LoadFlag, Knows, InOrder
  <2>3. CASE Restart
    BY <2>1, <2>3 DEF Restart, FromTheStart, Knows, InOrder
  <2>4. CASE OpenFile
    BY <2>1, <2>4 DEF OpenFile, Fed, Knows, InOrder
  <2>5. CASE Measure
    BY <2>1, <2>5 DEF Measure, Knows, InOrder, PlaysFile
  <2>6. CASE Seek
    BY <2>1, <2>6 DEF Seek, EndOfFile, Knows, InOrder, PlaysFile
  <2>7. CASE Push
    BY <2>1, <2>7 DEF Push, Fed, Knows, InOrder, PlaysFile
  <2> QED BY <2>2, <2>3, <2>4, <2>5, <2>6, <2>7 DEF FeedStep
<1> QED BY <1>1, <1>2, <1>3

\* Without a start nothing begins to play.
LEMMA SilentStays ==
  ASSUME TypeOK, Silent, NEW p \in Players,
         UserStep(p) \/ ThreadStep(p) \/ Command("stop")
  PROVE  Silent'
<1> SUFFICES ASSUME NEW q \in Players
             PROVE  /\ pipeline'[q] # "playing"
                    /\ \A i \in 1 .. Len(queue'[q]) : queue'[q][i] # "play"
  BY DEF Silent
<1> USE DEF Silent, TypeOK, UserAt, ThreadAt, Attach
<1>1. CASE UserStep(p)
  <2>1. CASE Close(p)
    <3>1. /\ queue[p] \in Seq({"play", "stop", "close"})
          /\ queue' = [queue EXCEPT ![p] = Append(queue[p], "close")]
          /\ UNCHANGED pipeline
      BY <2>1 DEF Close
    <3>2. \A i \in 1 .. Len(queue'[q]) : queue'[q][i] # "play"
      BY <3>1
    <3> QED BY <3>1, <3>2
  <2>2. CASE ~Close(p)
    BY <1>1, <2>2 DEF UserStep, Open, Decide, Sleep, WakeSpuriously, Relock, Poll, Test
  <2> QED BY <2>1, <2>2
<1>2. CASE Dispatch(p)
  <2>1. /\ queue[p] \in Seq({"play", "stop", "close"}) /\ queue[p] # <<>>
        /\ queue' = [queue EXCEPT ![p] = Tail(queue[p])]
    BY <1>2 DEF Dispatch
  <2>2. Head(queue[p]) # "play"
    BY <2>1, TailType
  <2>3. pipeline'[q] # "playing"
    BY <1>2, <2>2 DEF Dispatch
  <2>4. \A i \in 1 .. Len(queue'[q]) : queue'[q][i] # "play"
    BY <2>1, TailType
  <2> QED BY <2>3, <2>4
<1>3. CASE ThreadStep(p) /\ ~Dispatch(p)
  BY <1>3 DEF ThreadStep, ThreadRuns, MakeLoop, InitPipeline, RunLoop, OnMainLoopStarted,
              Drained, GreetDrained, Draining, DestroyPipeline, ReleaseLoop, End, UseAfterFree
<1>4. CASE Command("stop")
  BY <1>4 DEF Command
<1> QED BY <1>1, <1>2, <1>3, <1>4

\* The user sets a file that exists.
LEMMA SettingType ==
  ASSUME PlaybackTypeOK,
         SettingStep \/ Stop \/ \E f \in Files, start \in BOOLEAN : SetPBSourceFile(f, start)
  PROVE  PlaybackTypeOK'
<1> USE DEF PlaybackTypeOK, Sizes, Cross
<1>1. CASE SetPath
  BY <1>1, SamePlayerType DEF SetPath
<1>2. CASE ResetFile
  BY <1>2, SamePlayerType DEF ResetFile, FromTheStart, NotSetting
<1>3. CASE Start
  BY <1>3, CommandType DEF Start, NotSetting
<1>4. CASE Stop
  BY <1>4, CommandType DEF Stop, playbackVars
<1>5. ASSUME NEW f \in Files, NEW start \in BOOLEAN, SetPBSourceFile(f, start)
      PROVE  PlaybackTypeOK'
  <2>1. changes' \in 0 .. MaxChanges
    BY <1>5, PlaybackAssumption DEF SetPBSourceFile
  <2> QED BY <1>5, <2>1, SamePlayerType DEF SetPBSourceFile
<1> QED BY <1>1, <1>2, <1>3, <1>4, <1>5 DEF SettingStep

\* A change of the file that no callback crosses leaves it at its start.
LEMMA SettingKeeps ==
  ASSUME PlaybackTypeOK, FeedInv,
         SettingStep \/ Stop \/ \E f \in Files, start \in BOOLEAN : SetPBSourceFile(f, start)
  PROVE  FeedInv'
<1> USE DEF PlaybackTypeOK, FeedInv, Callback, Sizes, Cross, Changing
<1>1. CASE SetPath
  BY <1>1, PlaybackAssumption DEF SetPath, vars, Alone, PlaysFile, Knows, InOrder
<1>2. CASE ResetFile
  BY <1>2, PlaybackAssumption
     DEF ResetFile, FromTheStart, NotSetting, vars, Alone, PlaysFile, Knows, InOrder
<1>3. CASE Start
  BY <1>3, PlaybackAssumption DEF Start, NotSetting, Alone, PlaysFile, Knows, InOrder
<1>4. CASE Stop
  <2>1. Silent => Silent'
    BY <1>4, SilentStays, PlayerAssumption DEF Stop
  <2> QED BY <1>4, <2>1 DEF Stop, playbackVars, Alone, PlaysFile, Knows, InOrder
<1>5. ASSUME NEW f \in Files, NEW start \in BOOLEAN, SetPBSourceFile(f, start)
      PROVE  FeedInv'
  BY <1>5 DEF SetPBSourceFile, vars, Alone, PlaysFile, Knows, InOrder, Silent
<1> QED BY <1>1, <1>2, <1>3, <1>4, <1>5 DEF SettingStep

\* The user opens and closes the players between two changes.
LEMMA UserMovesKeeps ==
  ASSUME PlaybackTypeOK, FeedInv, NEW p \in Players, UserMoves(p)
  PROVE  PlaybackTypeOK' /\ FeedInv'
<1>1. TypeOK'
  BY UserStepType DEF UserMoves, PlaybackTypeOK
<1>2. Silent => Silent'
  BY SilentStays DEF UserMoves, PlaybackTypeOK
<1> QED BY <1>1, <1>2 DEF UserMoves, playbackVars, PlaybackTypeOK, FeedInv, Changing, Alone,
                          PlaysFile, Knows, InOrder

\* A pipeline that begins to play, or stops, finds no callback at work.
LEMMA ThreadMovesKeeps ==
  ASSUME PlaybackTypeOK, FeedInv, NEW p \in Players, ThreadMoves(p)
  PROVE  PlaybackTypeOK' /\ FeedInv'
<1>1. TypeOK'
  BY ThreadStepType DEF ThreadMoves, PlaybackTypeOK
<1>2. Silent => Silent'
  BY SilentStays DEF ThreadMoves, PlaybackTypeOK
<1>3. \/ UNCHANGED feed
      \/ feed' = Fed("asks") /\ pipeline'[Sender] = "playing"
      \/ feed' = Fed("off")
  BY DEF ThreadMoves, FeedFollows
<1>4. feed' = Fed("asks") /\ pipeline'[Sender] = "playing" => file.path \in Files
  BY <1>2, PlayerAssumption DEF Silent, FeedInv, PlaysFile, PlaybackTypeOK
<1>5. PlaybackTypeOK'
  BY <1>1, <1>3 DEF ThreadMoves, Fed, PlaybackTypeOK, Sizes
<1>6. FeedInv'
  BY <1>2, <1>3, <1>4
     DEF ThreadMoves, Fed, FeedInv, Changing, Callback, Alone, PlaysFile, Knows, InOrder
<1> QED BY <1>5, <1>6

\* Without the announcement a step is one of the players', or none.
LEMMA PlaybackStep == [PlaybackNext]_allVars => [Next]_vars
<1> SUFFICES ASSUME [PlaybackNext]_allVars
             PROVE  [Next]_vars
  OBVIOUS
<1>1. ASSUME ~fault, NEW p \in Players, UserMoves(p) \/ ThreadMoves(p)
      PROVE  Next
  BY <1>1 DEF UserMoves, ThreadMoves, Next
<1>2. ASSUME ~fault, Start \/ Stop
      PROVE  Next
  BY <1>2 DEF Start, Stop, Next
<1>3. ASSUME NEW f \in Files, NEW start \in BOOLEAN, SetPBSourceFile(f, start)
      PROVE  UNCHANGED vars
  BY <1>3 DEF SetPBSourceFile
<1>4. CASE SetPath \/ ResetFile \/ FeedStep
  BY <1>4 DEF SetPath, ResetFile, FeedStep, LoadFlag, Restart, OpenFile, Measure, Seek, Push
<1>5. CASE UNCHANGED allVars
  BY <1>5 DEF allVars
<1> QED BY <1>1, <1>2, <1>3, <1>4, <1>5 DEF PlaybackNext, SettingStep

\* Every step keeps what the callback knows of the file.
LEMMA NextPlayback == IInv /\ [PlaybackNext]_allVars => IInv'
<1> SUFFICES ASSUME IInv, [PlaybackNext]_allVars
             PROVE  IInv'
  OBVIOUS
<1>1. PlayerInv'
  BY PlaybackStep, NextPlayer DEF IInv, PlayerInv, PlaybackTypeOK
<1>2. PlaybackTypeOK' /\ FeedInv'
  <2> USE DEF IInv
  <2>1. ASSUME NEW p \in Players, UserMoves(p) \/ ThreadMoves(p)
        PROVE  PlaybackTypeOK' /\ FeedInv'
    BY <2>1, UserMovesKeeps, ThreadMovesKeeps
  <2>2. CASE SettingStep \/ Stop \/ \E f \in Files, start \in BOOLEAN : SetPBSourceFile(f, start)
    BY <2>2, SettingType, SettingKeeps
  <2>3. CASE FeedStep
    BY <2>3, FeedStepType, FeedStepKeeps DEF FeedInv
  <2>4. CASE UNCHANGED allVars
    <3>1. TypeOK'
      BY <2>4, SamePlayerType DEF allVars, PlaybackTypeOK
    <3>2. PlaybackTypeOK'
      BY <2>4, <3>1 DEF allVars, playbackVars, PlaybackTypeOK
    <3>3. FeedInv'
      BY <2>4 DEF allVars, vars, playbackVars, FeedInv, Changing, Alone, PlaysFile, Silent,
                  Knows, InOrder
    <3> QED BY <3>2, <3>3
  <2> QED BY <2>1, <2>2, <2>3, <2>4 DEF PlaybackNext
<1> QED BY <1>1, <1>2 DEF IInv, PlayerInv

\* The invariant of players and announcement.
THEOREM PlaybackInvariance == PlaybackSpec => []IInv
BY InitPlayback, NextPlayback, PTL DEF PlaybackSpec

\* Playback adds the announcement to the players and changes nothing of what
\* they do.
THEOREM PlaybackImplementsPlayer == PlaybackSpec => Init /\ [][Next]_vars
<1>1. PlaybackInit => Init
  BY DEF PlaybackInit
<1> QED BY <1>1, PlaybackStep, PTL DEF PlaybackSpec

\* The FileContext, the callback and the players keep their types, for files
\* of any length.
THEOREM PlaybackTypeCorrect == PlaybackSpec => []PlaybackTypeOK
<1>1. IInv => PlaybackTypeOK
  BY DEF IInv
<1> QED BY <1>1, PlaybackInvariance, PTL

\* While an announcement is played, too, an open player has its loop and its
\* pipeline.
THEOREM PlaybackOpenedRuns == PlaybackSpec => []OpenedRuns
<1>1. IInv => OpenedRuns
  BY DEF IInv
<1> QED BY <1>1, PlaybackInvariance, PTL

\* Whatever a callback finds in the flag, the size it plays up to is that of
\* the file, unless a change crossed it.
THEOREM SizeFollowsFile == PlaybackSpec => []SizeIsOfFile
<1>1. IInv => SizeIsOfFile
  <2> SUFFICES ASSUME IInv, setting.at = "idle", feed.at \notin Callback, ~crossed, file.size # 0
               PROVE  file.size = Length[file.path] /\ file.offset <= file.size
    BY DEF SizeIsOfFile
  <2> QED BY DEF IInv, FeedInv, Knows, Changing
<1> QED BY <1>1, PlaybackInvariance, PTL

\* Only a callback pushes a buffer.
LEMMA OnlyPushes ==
  ASSUME [PlaybackNext]_allVars, pushed' # pushed
  PROVE  Push
BY DEF PlaybackNext, allVars, playbackVars, UserMoves, ThreadMoves, SetPBSourceFile, SettingStep,
       SetPath, ResetFile, Start, Stop, FeedStep, LoadFlag, Restart, OpenFile, Measure, Seek

\* Announcements of any length are played from their beginning and without a
\* gap, whatever the flag tells the callbacks.
THEOREM PlayedWithoutGap == PlaybackSpec => PlayedInOrder
<1>1. ASSUME IInv, [PlaybackNext]_allVars, pushed' # pushed, ~crossed'
      PROVE  pushed'[2] = 0 \/ pushed' = <<pushed[1], pushed[2] + 1>>
  <2>1. Push
    BY <1>1, OnlyPushes
  <2>2. ~crossed /\ ~Changing /\ feed.at = "placed"
    BY <1>1, <2>1 DEF Push, Cross, Changing, Callback, IInv, PlaybackTypeOK
  <2>3. /\ feed.held = file.path /\ feed.place = file.offset
        /\ file.offset = 0 \/ (pushed[1] = file.path /\ pushed[2] + 1 = file.offset)
    BY <1>1, <2>2 DEF IInv, FeedInv, Knows, InOrder
  <2>4. pushed' = <<feed.held, feed.place>>
    BY <1>1, <2>1 DEF Push
  <2> QED BY <2>3, <2>4
<1>2. IInv /\ [PlaybackNext]_allVars =>
        [pushed' # pushed /\ ~crossed' =>
           \/ pushed'[2] = 0
           \/ pushed' = <<pushed[1], pushed[2] + 1>>]_allVars
  BY <1>1
<1> QED BY <1>2, PlaybackInvariance, PTL DEF PlaybackSpec, PlayedInOrder
=============================================================================
