------------------------------ MODULE Playback ------------------------------
(***************************************************************************)
(* What the caller hears: the announcement that GstSenderPlayer feeds into *)
(* its pipeline, on top of Player.                                         *)
(*                                                                         *)
(* Two threads share the FileContext of a session without a lock: the one  *)
(* that serves its requests and changes the file, and the streaming thread *)
(* of the pipeline's appsrc, which calls need_data_callback whenever it    *)
(* has nothing to send.  They tell each other of a change by file_changed. *)
(* That is one flag for the sessions of the whole process: whatever a      *)
(* session writes to it, another may have set or cleared it since, and so  *)
(* it is modelled by what a callback may find in it, which is anything.    *)
(*                                                                         *)
(* A file is measured in the buffers that the pipeline asks for.  Codecs   *)
(* other than opus, whose pipelines read the file themselves, and files    *)
(* that do not exist are left out.                                         *)
(***************************************************************************)
EXTENDS Player

CONSTANTS Files,        \* the announcements
          Length,       \* file -> how many buffers it holds
          NoFile,       \* the empty path of a session not yet started
          MaxChanges    \* how often the file is set: bounds the model only

ASSUME PlaybackAssumption ==
  /\ Length \in [Files -> Nat \ {0}]
  /\ NoFile \notin Files
  /\ MaxChanges \in Nat

VARIABLES file,         \* the FileContext of the session
          setting,      \* where the user is in setPBSourceFile, and with what
          feed,         \* where the streaming thread is in need_data_callback
          pushed,       \* the last buffer that was pushed: its file and its place
          changes,      \* how often the file was set
          crossed       \* whether the last change was made during a callback

playbackVars == <<file, setting, feed, pushed, changes, crossed>>

allVars == <<vars, playbackVars>>

Sizes == Nat

Callback == {"flagged", "opening", "opened", "measured", "placed"}

PlaybackTypeOK ==
  /\ TypeOK
  /\ file \in [path : Files \cup {NoFile}, size : Sizes, offset : Sizes]
  /\ setting \in [at : {"idle", "called", "named", "starts"}, to : Files \cup {NoFile},
                  start : BOOLEAN]
  /\ feed \in [at : {"off", "asks", "waits"} \cup Callback, held : Files \cup {NoFile},
               place : Sizes]
  /\ pushed \in (Files \cup {NoFile}) \X Sizes
  /\ changes \in 0 .. MaxChanges
  /\ crossed \in BOOLEAN

NotSetting == [at |-> "idle", to |-> NoFile, start |-> FALSE]

Fed(place) == [at |-> place, held |-> NoFile, place |-> 0]

PlaybackInit ==
  /\ Init
  /\ file = [path |-> NoFile, size |-> 0, offset |-> 0]
  /\ setting = NotSetting
  /\ feed = Fed("off")
  /\ pushed = <<NoFile, 0>>
  /\ changes = 0
  /\ crossed = FALSE

\* Both threads are at the FileContext, before or after the step.
Cross(before) ==
  crossed' = \/ before
             \/ /\ setting.at \in {"called", "named"} \/ setting'.at \in {"called", "named"}
                /\ feed.at \in Callback \/ feed'.at \in Callback
-----------------------------------------------------------------------------
(***************************************************************************)
(* setPBSourceFile, for a start_session or an update_session.              *)
(*                                                                         *)
(* One change at a time.  The updates of the IVR's receiver and of its     *)
(* reader are served by two threads, which may be here both at once and    *)
(* assign one string: the model leaves that out.                           *)
(***************************************************************************)
SetPBSourceFile(f, start) ==
  /\ \A p \in Players : user[p] = "opened"
  /\ setting.at = "idle"
  /\ changes < MaxChanges
  /\ start => commands < MaxCommands
  /\ ~start => file.path # NoFile
  /\ setting' = [at |-> "called", to |-> f, start |-> start]
  /\ changes' = changes + 1
  /\ UNCHANGED <<vars, file, feed, pushed>>
  /\ Cross(FALSE)

SetPath ==
  /\ setting.at = "called"
  /\ file' = [file EXCEPT !.path = setting.to]
  /\ setting' = [setting EXCEPT !.at = "named"]
  /\ UNCHANGED <<vars, feed, pushed, changes>>
  /\ Cross(crossed)

\* A callback between the two assignments would make a crossing of the two
\* threads all the same.
OffsetOnly == [file EXCEPT !.offset = 0]
SizeOnly == [file EXCEPT !.size = 0]
FromTheStart == [file EXCEPT !.size = 0, !.offset = 0]

ResetFile ==
  /\ setting.at = "named"
  /\ file' = FromTheStart
  /\ setting' = IF setting.start THEN [setting EXCEPT !.at = "starts"] ELSE NotSetting
  /\ UNCHANGED <<vars, feed, pushed, changes>>
  /\ Cross(crossed)

Start ==
  /\ setting.at = "starts"
  /\ Command("play")
  /\ setting' = NotSetting
  /\ UNCHANGED <<file, feed, pushed, changes, crossed>>

Stop ==
  /\ setting.at = "idle"
  /\ Command("stop")
  /\ UNCHANGED playbackVars
-----------------------------------------------------------------------------
(***************************************************************************)
(* need_data_callback.                                                     *)
(***************************************************************************)
FeedAt(from, to) == feed.at = from /\ feed' = [feed EXCEPT !.at = to]

\* file_changed is loaded ...
LoadFlag ==
  /\ \/ FeedAt("asks", "flagged")
     \/ FeedAt("asks", "opening")
  /\ UNCHANGED <<vars, file, setting, pushed, changes>>
  /\ Cross(crossed)

\* ... and cleared, if it was set.
Restart ==
  /\ FeedAt("flagged", "opening")
  /\ file' = FromTheStart
  /\ UNCHANGED <<vars, setting, pushed, changes>>
  /\ Cross(crossed)

\* A path that is being assigned may be anything.  Without a file nothing is
\* pushed, and appsrc does not ask again: it waits for a buffer.
OpenFile ==
  /\ feed.at = "opening"
  /\ \/ feed' = [at |-> "opened", held |-> file.path, place |-> 0]
     \/ setting.at = "called" /\ feed' = Fed("waits")
  /\ UNCHANGED <<vars, file, setting, pushed, changes>>
  /\ Cross(crossed)

Measure ==
  /\ FeedAt("opened", "measured")
  /\ file' = [file EXCEPT !.size = IF @ = 0 THEN Length[feed.held] ELSE @]
  /\ UNCHANGED <<vars, setting, pushed, changes>>
  /\ Cross(crossed)

EndOfFileMissed == file.offset > file.size
EndOfFile == file.offset >= file.size

Seek ==
  /\ feed.at = "measured"
  /\ LET place == IF EndOfFile THEN 0 ELSE file.offset
     IN  /\ feed' = [feed EXCEPT !.at = "placed", !.place = place]
         /\ file' = [file EXCEPT !.offset = place]
  /\ UNCHANGED <<vars, setting, pushed, changes>>
  /\ Cross(crossed)

\* Past the end of the file nothing is read and nothing is pushed.
Push ==
  /\ feed.at = "placed"
  /\ IF feed.place < Length[feed.held]
     THEN /\ pushed' = <<feed.held, feed.place>>
          /\ file' = [file EXCEPT !.offset = @ + 1]
          /\ feed' = Fed("asks")
     ELSE /\ feed' = Fed("waits")
          /\ UNCHANGED <<pushed, file>>
  /\ UNCHANGED <<vars, setting, changes>>
  /\ Cross(crossed)

FeedStep ==
  LoadFlag \/ Restart \/ OpenFile \/ Measure \/ Seek \/ Push
-----------------------------------------------------------------------------
UserMoves(p) ==
  /\ setting.at = "idle"
  /\ UserStep(p)
  /\ UNCHANGED playbackVars

\* A pipeline that starts to play makes appsrc ask; one that stops waits for
\* the callback to return, and wakes appsrc up.
FeedFollows ==
  IF pipeline'[Sender] = pipeline[Sender] THEN UNCHANGED feed
  ELSE IF pipeline'[Sender] = "playing" THEN feed' = Fed("asks")
  ELSE feed.at \notin Callback /\ feed' = Fed("off")

ThreadMoves(p) ==
  /\ ThreadStep(p)
  /\ FeedFollows
  /\ UNCHANGED <<file, setting, pushed, changes, crossed>>

ThreadGoesOn(p) == ThreadRuns(p) /\ ThreadMoves(p)

SettingStep == SetPath \/ ResetFile \/ Start

PlaybackNext ==
  /\ ~fault
  /\ \/ \E p \in Players : UserMoves(p) \/ ThreadMoves(p)
     \/ \E f \in Files, start \in BOOLEAN : SetPBSourceFile(f, start)
     \/ SettingStep \/ Stop \/ FeedStep

PlaybackFairness ==
  /\ \A p \in Players :
       /\ WF_allVars(~fault /\ Waits(p) /\ UNCHANGED playbackVars)
       /\ SF_allVars(~fault /\ ThreadGoesOn(p))
       /\ p # Sender =>
            WF_allVars(~fault /\ (Open(p) \/ (user[Sender] = "closed" /\ Close(p)))
                       /\ UNCHANGED playbackVars)
  /\ WF_allVars(~fault /\ SettingStep)
  /\ WF_allVars(~fault /\ FeedStep)

PlaybackSpec == PlaybackInit /\ [][PlaybackNext]_allVars /\ PlaybackFairness
-----------------------------------------------------------------------------
(***************************************************************************)
(* Properties                                                              *)
(***************************************************************************)
\* Whatever the other sessions do with the flag, the size the callback plays
\* up to is that of the file it plays, unless the file was changed while a
\* callback was running: a size too large silences the session, one too small
\* cuts the announcement short.
SizeIsOfFile ==
  setting.at = "idle" /\ feed.at \notin Callback /\ ~crossed /\ file.size # 0 =>
    file.size = Length[file.path] /\ file.offset <= file.size

\* Announcements are played from their beginning and without a gap, on from
\* where a stop interrupted them: between the callback and a change of the
\* file that did not cross it, no buffer is skipped.
PlayedInOrder ==
  [][pushed' # pushed /\ ~crossed' =>
       \/ pushed'[2] = 0
       \/ pushed' = <<pushed[1], pushed[2] + 1>>]_allVars

\* A playing session is never silent: the file it was last given is played to
\* the end and again from the beginning, unless the last change crossed a
\* callback.
PlayedAgain ==
  \A f \in Files :
    pipeline[Sender] = "playing" /\ file.path = f
      ~> \/ pushed = <<f, 0>> \/ file.path # f \/ crossed
         \/ pipeline[Sender] # "playing" \/ fault
=============================================================================
