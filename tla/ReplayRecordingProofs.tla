------------------------ MODULE ReplayRecordingProofs ------------------------
(***************************************************************************)
(* Proofs about ReplayRecording for any number of games, ticks, faults and *)
(* switches: what a replay file holds, and which spool files are left.     *)
(***************************************************************************)
EXTENDS ReplayRecording, GameTicksProofs

AnySpool == [file : Nat, ticks : Seq(AnyTick)]
AnyFile == [there : BOOLEAN, whole : BOOLEAN, ticks : Seq(AnyTick), first : MaybeTick,
            last : MaybeTick, recorded : Nat, session : Seq(AnyTick)]

TickType ==
  /\ lastGameInfo \in MaybeTick /\ queue \in Seq(AnyTick)
  /\ tick \in MaybeTick /\ recorded \in Seq(AnyTick)
RecordingType ==
  /\ wpc \in WorkerStages
  /\ firstTick \in MaybeTick /\ lastTick \in MaybeTick /\ ticksRecorded \in Nat
  /\ bufferComplete \in BOOLEAN /\ saveAllTicks \in BOOLEAN
  /\ spool \in AnySpool /\ finished \in AnySpool /\ files \in [Ids -> AnyFile]

(* The stages of a tick in hand. *)
Taken == {"open", "append", "finish", "write", "fill", "upload", "reset"}
Ended == {"finish", "write", "fill", "upload", "reset"}
Saved == {"write", "fill", "upload", "reset"}

HandInv ==
  /\ wpc \in Taken => tick \in AnyTick /\ tick.id # NoId
  /\ wpc \in Ended => tick.ended

(* Between recordings, and in one: the first and the last tick and their    *)
(* number are those of the recording, and the spool, or what was made of it *)
(* at the end, has all of them, or there is none.                           *)
NoRecording ==
  /\ firstTick = NoTick /\ recorded = <<>> /\ ticksRecorded = 0 /\ bufferComplete = TRUE
  /\ spool = NoSpool /\ finished = NoSpool

Spooled(s) ==
  IF bufferComplete THEN s.file = firstTick.n /\ s.ticks = recorded ELSE s = NoSpool

InRecording ==
  /\ firstTick \in AnyTick /\ ticksRecorded = Len(recorded)
  /\ IF recorded = <<>> THEN wpc = "append" /\ firstTick = tick
     ELSE recorded[1] = firstTick /\ recorded[Len(recorded)] = lastTick
  /\ IF wpc \in Saved THEN Spooled(finished) /\ spool = NoSpool
     ELSE Spooled(spool) /\ finished = NoSpool

RecordingInv ==
  /\ wpc \in {"stopped", "failed"} => NoRecording
  /\ wpc \in {"top", "recv", "open"} => NoRecording \/ InRecording
  /\ wpc \in Taken \ {"open"} => InRecording

SpoolInv == NoStraySpool /\ (Alive => leaked = {})

RInv == TickType /\ RecordingType /\ HandInv /\ RecordingInv /\ SpoolInv /\ FilesAreFaithful

USE DEF recordingVars, diskVars, settingVars, historyVars, boundVars, workerVars, ControlsKept

-----------------------------------------------------------------------------
(* Ticks and files *)

LEMMA NoTickFacts ==
  /\ NoTick \notin AnyTick /\ \A t \in AnyTick : t # NoTick /\ t.n # 0
  /\ NoSpool \in AnySpool /\ NoTick \in MaybeTick
BY DEF AnyTick, NoTick, NoSpool, AnySpool, MaybeTick, NoId

LEMMA NoFileType == NoFile \in AnyFile /\ [NoFile EXCEPT !.there = TRUE] \in AnyFile
                    /\ ~NoFile.whole /\ ~[NoFile EXCEPT !.there = TRUE].whole
<1>1. NoTick \in MaybeTick /\ <<>> \in Seq(AnyTick) /\ 0 \in Nat
  BY NoTickFacts
<1>2. NoFile \in AnyFile /\ ~NoFile.whole
  BY <1>1 DEF AnyFile, NoFile
<1>3. ASSUME NEW f \in AnyFile, ~f.whole
      PROVE  [f EXCEPT !.there = TRUE] \in AnyFile /\ ~[f EXCEPT !.there = TRUE].whole
  BY <1>3 DEF AnyFile
<1> QED
  BY <1>2, <1>3

LEMMA AppendTick ==
  ASSUME NEW s \in Seq(AnyTick), NEW t \in AnyTick
  PROVE  /\ Append(s, t) \in Seq(AnyTick) /\ Append(s, t) # <<>>
         /\ Len(s) \in Nat /\ Len(Append(s, t)) = Len(s) + 1
         /\ Append(s, t)[Len(s) + 1] = t
         /\ (s # <<>> => Append(s, t)[1] = s[1]) /\ (s = <<>> => Append(s, t)[1] = t)
<1>1. Append(s, t)[Len(s) + 1] = t /\ \A i \in 1..Len(s) : Append(s, t)[i] = s[i]
  OBVIOUS
<1>2. s # <<>> => 1 \in 1..Len(s)
  OBVIOUS
<1>3. s = <<>> => Len(s) + 1 = 1
  OBVIOUS
<1> QED
  BY <1>1, <1>2, <1>3

LEMMA HeadTick ==
  ASSUME NEW s \in Seq(AnyTick), s # <<>>
  PROVE  Head(s) \in AnyTick /\ Tail(s) \in Seq(AnyTick)
OBVIOUS

-----------------------------------------------------------------------------
(* What several actions have in common *)

LEMMA FilesKept == ASSUME FilesAreFaithful, files' = files PROVE FilesAreFaithful'
BY DEF FilesAreFaithful, WholeFiles

(* Steps that leave the recording and the worker's place in it alone. *)
LEMMA RecordingKept ==
  ASSUME RInv, UNCHANGED <<wpc, tick, recorded, leaked>>, UNCHANGED recordingVars,
         UNCHANGED diskVars, TickType', saveAllTicks' \in BOOLEAN
  PROVE  RInv'
<1>1. RecordingType'
  BY DEF RInv, RecordingType
<1>2. HandInv'
  BY DEF RInv, HandInv
<1>3. NoRecording' <=> NoRecording
  BY DEF NoRecording
<1>4. InRecording' <=> InRecording
  BY DEF InRecording, Spooled
<1>5. RecordingInv'
  BY <1>3, <1>4 DEF RInv, RecordingInv
<1>6. SpoolInv'
  BY DEF RInv, SpoolInv, NoStraySpool, Alive
<1> QED
  BY <1>1, <1>2, <1>5, <1>6, FilesKept DEF RInv

(* The destructors leave nothing behind. *)
LEMMA RecordingDropped ==
  ASSUME RInv, Alive, ForgetRecording, DropSpools, recorded' = <<>>, leaked' = leaked
  PROVE  NoRecording' /\ SpoolInv'
<1>1. NoRecording'
  BY DEF NoRecording, ForgetRecording, DropSpools
<1>2. leaked = {} /\ spoolFiles = IF bufferComplete /\ firstTick # NoTick THEN {firstTick.n} ELSE {}
  BY DEF RInv, SpoolInv, NoStraySpool
<1>3. NoRecording \/ InRecording
  BY DEF RInv, RecordingInv, RecordingType, WorkerStages, Taken
<1>4. bufferComplete /\ firstTick # NoTick => firstTick.n \in {spool.file, finished.file}
  BY <1>3 DEF NoRecording, InRecording, Spooled
<1>5. spoolFiles' = {}
  BY <1>2, <1>4 DEF DropSpools, WithoutSpools
<1> QED
  BY <1>1, <1>2, <1>5 DEF SpoolInv, NoStraySpool, NoRecording

(* ... and neither does a recording that is given up or saved. *)
LEMMA RecordingForgotten ==
  ASSUME RInv, Alive, ForgetRecording, DropSpools, recorded' = <<>>, leaked' = leaked,
         files' = files, saveAllTicks' = saveAllTicks,
         wpc' \in {"top", "recv", "stopped", "failed"},
         TickType'
  PROVE  RInv'
<1>1. NoRecording' /\ SpoolInv'
  BY RecordingDropped
<1>2. RecordingType'
  <2>1. firstTick' \in MaybeTick /\ lastTick' \in MaybeTick /\ ticksRecorded' \in Nat
    BY NoTickFacts DEF ForgetRecording
  <2>2. spool' \in AnySpool /\ finished' \in AnySpool /\ bufferComplete' \in BOOLEAN
    BY NoTickFacts DEF ForgetRecording, DropSpools
  <2>3. wpc' \in WorkerStages
    BY DEF WorkerStages
  <2> QED
    BY <2>1, <2>2, <2>3 DEF RecordingType, RInv
<1>3. HandInv'
  BY DEF HandInv, Taken, Ended
<1>4. RecordingInv'
  BY <1>1 DEF RecordingInv, Taken
<1> QED
  BY <1>1, <1>2, <1>3, <1>4, FilesKept DEF RInv

(* The worker moves on within a recording, or between two. *)
LEMMA WorkerMoves ==
  ASSUME RInv, UNCHANGED <<recorded, leaked, saveAllTicks>>, UNCHANGED recordingVars,
         UNCHANGED spoolFiles, TickType', HandInv', wpc' \in WorkerStages,
         files' \in [Ids -> AnyFile],
         FilesAreFaithful', Alive, Alive',
         wpc' \in Taken \ {"open"} => InRecording, wpc' \in Saved <=> wpc \in Saved,
         recorded = <<>> /\ wpc = "append" => wpc' = "append" /\ tick' = tick
  PROVE  RInv'
<1>1. RecordingType'
  BY DEF RInv, RecordingType
<1>2. NoRecording' <=> NoRecording
  BY DEF NoRecording
<1>3. InRecording => InRecording'
  BY DEF InRecording, Spooled
<1>4. NoRecording \/ InRecording
  BY DEF RInv, RecordingInv, RecordingType, WorkerStages, Taken, Alive
<1>5. RecordingInv'
  BY <1>2, <1>3, <1>4 DEF RecordingInv, Alive
<1>6. SpoolInv'
  BY DEF RInv, SpoolInv, NoStraySpool
<1> QED
  BY <1>1, <1>5, <1>6 DEF RInv

-----------------------------------------------------------------------------
(* The game, the sampler and the user *)

LEMMA OutsideSteps ==
  ASSUME RInv, GInv, PlayHalo \/ ProduceTick \/ UserToggles \/ RequestShutdown \/ UNCHANGED vars
  PROVE  RInv'
<1>1. CASE PlayHalo
  <2>1. lastGameInfo' = lastGameInfo
    BY <1>1 DEF PlayHalo, StartGame, FinishGame, LeaveGame, SampleFails, ReconnectXemu, tickVars
  <2>2. TickType' /\ saveAllTicks' \in BOOLEAN
    BY <1>1, <2>1 DEF PlayHalo, RInv, TickType, RecordingType
  <2> QED
    BY <1>1, <2>2, RecordingKept DEF PlayHalo
<1>2. CASE ProduceTick
  <2>1. lastGameInfo' \in AnyTick
    BY <1>2, SampleTick DEF ProduceTick, RInv, TickType
  <2>2. queue' \in Seq(AnyTick)
    BY <1>2, <2>1, AppendTick DEF ProduceTick, RInv, TickType
  <2>3. TickType' /\ saveAllTicks' \in BOOLEAN
    BY <1>2, <2>1, <2>2 DEF ProduceTick, RInv, TickType, RecordingType, MaybeTick
  <2> QED
    BY <1>2, <2>3, RecordingKept DEF ProduceTick
<1>3. CASE UserToggles
  <2>1. TickType' /\ saveAllTicks' \in BOOLEAN
    BY <1>3 DEF UserToggles, gameVars, tickVars, RInv, TickType, RecordingType
  <2> QED
    BY <1>3, <2>1, RecordingKept DEF UserToggles
<1>4. CASE RequestShutdown
  <2>1. TickType' /\ saveAllTicks' \in BOOLEAN
    BY <1>4 DEF RequestShutdown, gameVars, tickVars, RInv, TickType, RecordingType
  <2> QED
    BY <1>4, <2>1, RecordingKept DEF RequestShutdown
<1>5. CASE UNCHANGED vars
  <2>1. TickType' /\ saveAllTicks' \in BOOLEAN
    BY <1>5 DEF vars, gameVars, tickVars, RInv, TickType, RecordingType
  <2> QED
    BY <1>5, <2>1, RecordingKept DEF vars
<1> QED
  BY <1>1, <1>2, <1>3, <1>4, <1>5

-----------------------------------------------------------------------------
(* The worker gives a recording up, or dies *)

LEMMA DeathSafe == ASSUME RInv, Die, Alive, leaked' = leaked PROVE RInv'
<1>1. TickType'
  BY NoTickFacts DEF Die, gameVars, tickVars, RInv, TickType
<1>2. ForgetRecording /\ DropSpools /\ recorded' = <<>> /\ files' = files
      /\ saveAllTicks' = saveAllTicks /\ wpc' \in {"top", "recv", "stopped", "failed"}
  BY DEF Die
<1> QED
  BY <1>1, <1>2, RecordingForgotten

LEMMA GivingUpSafe ==
  ASSUME RInv, Stop \/ TakeDiscardRequest \/ DeclineTick \/ ResetRecording
  PROVE  RInv'
<1>1. Alive
  BY DEF Stop, TakeDiscardRequest, DeclineTick, ResetRecording, Alive
<1>2. ForgetRecording /\ DropSpools /\ FollowRecording /\ UNCHANGED <<files, leaked, saveAllTicks>>
  BY DEF Stop, TakeDiscardRequest, DeclineTick, ResetRecording, GiveUp
<1>3. recorded' = <<>>
  BY <1>2 DEF ForgetRecording, FollowRecording
<1>4. wpc' \in {"top", "recv", "stopped", "failed"}
  BY DEF Stop, TakeDiscardRequest, DeclineTick, ResetRecording
<1>5. lastGameInfo' = lastGameInfo /\ tick' \in {tick, NoTick}
  BY DEF Stop, TakeDiscardRequest, DeclineTick, ResetRecording, gameVars, tickVars
<1>6. queue' \in Seq(AnyTick)
  <2>1. CASE DeclineTick
    BY <2>1, HeadTick DEF DeclineTick, RInv, TickType
  <2>2. CASE Stop \/ TakeDiscardRequest \/ ResetRecording
    <3>1. queue' \in {queue, <<>>}
      BY <2>2 DEF Stop, TakeDiscardRequest, ResetRecording
    <3>2. queue \in Seq(AnyTick) /\ <<>> \in Seq(AnyTick)
      BY DEF RInv, TickType
    <3> QED
      BY <3>1, <3>2
  <2> QED
    BY <2>1, <2>2
<1>7. TickType'
  BY <1>3, <1>5, <1>6, NoTickFacts DEF RInv, TickType
<1> QED
  BY <1>1, <1>2, <1>3, <1>4, <1>7, RecordingForgotten

LEMMA OpenFailsSafe == ASSUME RInv, OpenFails PROVE RInv'
<1>1. Alive /\ firstTick = NoTick /\ leaked = {} /\ NoRecording
  <2>1. firstTick = NoTick /\ wpc = "open"
    BY DEF OpenFails
  <2>2. NoRecording \/ firstTick \in AnyTick
    BY <2>1 DEF RInv, RecordingInv, InRecording
  <2> QED
    BY <2>1, <2>2, NoTickFacts DEF Alive, RInv, SpoolInv
<1>2. spoolFiles = {}
  BY <1>1 DEF RInv, SpoolInv, NoStraySpool
<1>3. NoRecording' /\ wpc' = "failed" /\ files' = files
  BY <1>1 DEF OpenFails, NoRecording
<1>4. spoolFiles' \ leaked' = {}
  BY <1>2 DEF OpenFails
<1>5. SpoolInv'
  BY <1>3, <1>4 DEF SpoolInv, NoStraySpool, Alive, NoRecording
<1>6. TickType'
  BY <1>3, NoTickFacts DEF OpenFails, gameVars, tickVars, RInv, TickType
<1>7. RecordingType'
  BY DEF OpenFails, RInv, RecordingType, WorkerStages
<1>8. HandInv' /\ RecordingInv'
  BY <1>3 DEF HandInv, RecordingInv, Taken, Ended
<1> QED
  BY <1>3, <1>5, <1>6, <1>7, <1>8, FilesKept DEF RInv

LEMMA FailingSafe ==
  ASSUME RInv, PushFails \/ FinishFails \/ WriteFails
  PROVE  RInv'
<1>1. Die /\ leaked' = leaked /\ Alive
  BY DEF PushFails, FinishFails, WriteFails, Fail, Buffering, Alive
<1> QED
  BY <1>1, DeathSafe

-----------------------------------------------------------------------------
(* The worker moves on *)

LEMMA MovingSafe ==
  ASSUME RInv,
         Listen \/ ReceiveTimeout \/ TakeTick \/ ContinueRecording
           \/ RequestUpload \/ RequestFails \/ SkipUpload
  PROVE  RInv'
<1> DEFINE Move == Listen \/ ReceiveTimeout \/ TakeTick \/ ContinueRecording
                    \/ RequestUpload \/ RequestFails \/ SkipUpload
<1>1. /\ UNCHANGED <<recorded, leaked, saveAllTicks>> /\ UNCHANGED recordingVars
      /\ UNCHANGED diskVars /\ UNCHANGED lastGameInfo
  BY DEF Listen, ReceiveTimeout, TakeTick, ContinueRecording, RequestUpload, RequestFails,
         SkipUpload, gameVars, tickVars
<1>2. TickType' /\ (wpc' = "open" => tick' \in AnyTick /\ tick'.id # NoId)
  <2>1. CASE TakeTick
    <3>1. Head(queue) \in AnyTick /\ queue' \in Seq(AnyTick)
      BY <2>1, HeadTick DEF TakeTick, RInv, TickType
    <3> QED
      BY <1>1, <2>1, <3>1 DEF TakeTick, HasGame, RInv, TickType, MaybeTick
  <2>2. CASE ~TakeTick
    <3>1. UNCHANGED <<tick, queue>> /\ wpc' # "open"
      BY <2>2 DEF Listen, ReceiveTimeout, ContinueRecording, RequestUpload, RequestFails, SkipUpload
    <3> QED
      BY <1>1, <3>1 DEF RInv, TickType
  <2> QED
    BY <2>1, <2>2
<1>3. /\ Alive /\ Alive' /\ wpc' \in WorkerStages /\ (wpc' \in Saved <=> wpc \in Saved)
      /\ wpc # "append"
  BY DEF Listen, ReceiveTimeout, TakeTick, ContinueRecording, RequestUpload, RequestFails,
         SkipUpload, Alive, WorkerStages, Saved
<1>4. wpc' \in Taken \ {"open"} =>
        /\ tick' = tick /\ wpc \in Taken
        /\ wpc' \in Ended <=> wpc \in Ended
        /\ wpc = "open" => firstTick # NoTick
  BY DEF Listen, ReceiveTimeout, TakeTick, ContinueRecording, RequestUpload, RequestFails,
         SkipUpload, Taken, Ended
<1>5. wpc' \in Taken \ {"open"} => InRecording
  BY <1>4 DEF RInv, RecordingInv, NoRecording
<1>6. HandInv'
  BY <1>2, <1>4 DEF HandInv, RInv, Ended, Taken
<1>7. files' \in [Ids -> AnyFile] /\ FilesAreFaithful'
  BY <1>1, FilesKept DEF RInv, RecordingType
<1> QED
  BY <1>1, <1>2, <1>3, <1>5, <1>6, <1>7, WorkerMoves

LEMMA CreatingSafe == ASSUME RInv, CreateFile PROVE RInv'
<1>1. tick \in AnyTick /\ tick.id \in Ids /\ InRecording
  BY DEF CreateFile, RInv, HandInv, RecordingInv, Taken, AnyTick
<1>2. TickType' /\ HandInv'
  BY DEF CreateFile, gameVars, tickVars, RInv, TickType, HandInv, Taken, Ended
<1>3. files' \in [Ids -> AnyFile]
  BY <1>1, NoFileType DEF CreateFile, RInv, RecordingType
<1>4. FilesAreFaithful'
  <2>1. WholeFiles' \subseteq WholeFiles
    <3> DEFINE new == [NoFile EXCEPT !.there = TRUE]
    <3>1. ~new.whole
      BY NoFileType
    <3>2. files' = [files EXCEPT ![tick.id] = new] /\ files \in [Ids -> AnyFile]
      BY DEF CreateFile, RInv, RecordingType
    <3> HIDE DEF new
    <3> QED
      BY <3>1, <3>2, <1>1 DEF WholeFiles
  <2> QED
    BY <2>1 DEF RInv, FilesAreFaithful
<1> QED
  BY <1>1, <1>2, <1>3, <1>4, WorkerMoves
     DEF CreateFile, Alive, WorkerStages, Saved, Taken

LEMMA FillingSafe == ASSUME RInv, FillFile PROVE RInv'
<1>1. tick \in AnyTick /\ tick.id \in Ids /\ InRecording /\ wpc = "fill"
  BY DEF FillFile, RInv, HandInv, RecordingInv, Taken, AnyTick
<1>2. TickType' /\ HandInv'
  BY DEF FillFile, gameVars, tickVars, RInv, TickType, HandInv, Taken, Ended
<1> DEFINE new == [there |-> TRUE, whole |-> TRUE, ticks |-> finished.ticks,
                   first |-> firstTick, last |-> lastTick, recorded |-> ticksRecorded,
                   session |-> recorded]
<1>3. new \in AnyFile
  <2>1. finished.ticks \in Seq(AnyTick)
    BY DEF RInv, RecordingType, AnySpool
  <2> QED
    BY <2>1 DEF RInv, RecordingType, TickType, AnyFile
<1>4. /\ new.ticks \in {<<>>, new.session} /\ new.recorded = Len(new.session)
      /\ new.first = new.session[1] /\ new.last = new.session[new.recorded]
  <2>1. recorded # <<>> /\ Spooled(finished)
    BY <1>1 DEF InRecording, Saved
  <2>2. finished.ticks \in {<<>>, recorded}
    BY <2>1 DEF Spooled, NoSpool
  <2> QED
    BY <1>1, <2>1, <2>2 DEF InRecording
<1>5. files' = [files EXCEPT ![tick.id] = new] /\ files \in [Ids -> AnyFile]
  BY DEF FillFile, RInv, RecordingType
<1> HIDE DEF new
<1>6. files' \in [Ids -> AnyFile]
  BY <1>3, <1>5
<1>7. WholeFiles' \subseteq WholeFiles \cup {new}
  BY <1>1, <1>5 DEF WholeFiles
<1>8. FilesAreFaithful'
  BY <1>4, <1>7 DEF RInv, FilesAreFaithful
<1> QED
  BY <1>1, <1>2, <1>6, <1>8, WorkerMoves
     DEF FillFile, Alive, WorkerStages, Saved, Taken

-----------------------------------------------------------------------------
(* A recording grows and ends *)

LEMMA OpeningSafe == ASSUME RInv, OpenRecording PROVE RInv'
<1>1. NoRecording /\ tick \in AnyTick /\ tick.id # NoId /\ tick.n # 0 /\ tick.n \in Nat
  <2>1. NoRecording \/ firstTick \in AnyTick
    BY DEF OpenRecording, RInv, RecordingInv, InRecording
  <2>2. tick \in AnyTick /\ tick.id # NoId
    BY DEF OpenRecording, RInv, HandInv, Taken
  <2> QED
    BY <2>1, <2>2, NoTickFacts DEF OpenRecording, AnyTick
<1>2. leaked = {} /\ spoolFiles = {} /\ leaked' = {}
  BY <1>1 DEF OpenRecording, RInv, SpoolInv, NoStraySpool, NoRecording, Alive
<1>3. TickType' /\ HandInv'
  BY <1>1 DEF OpenRecording, gameVars, tickVars, RInv, TickType, HandInv, Ended
<1>4. spool' = IF saveAllTicks THEN [file |-> tick.n, ticks |-> <<>>] ELSE NoSpool
  BY <1>1 DEF OpenRecording, NoRecording
<1>5. RecordingType'
  <2>1. spool' \in AnySpool
    BY <1>1, <1>4, NoTickFacts DEF AnySpool
  <2> QED
    BY <1>1, <2>1 DEF OpenRecording, RInv, RecordingType, WorkerStages, MaybeTick
<1>6. InRecording'
  <2>1. firstTick' = tick /\ tick' = tick /\ wpc' = "append" /\ bufferComplete' = saveAllTicks
        /\ UNCHANGED <<ticksRecorded, recorded, finished>>
    BY DEF OpenRecording
  <2>2. recorded = <<>> /\ ticksRecorded = 0 /\ finished = NoSpool
    BY <1>1 DEF NoRecording
  <2>3. Len(recorded) = 0
    BY <2>2
  <2>4. Spooled(spool)'
    BY <1>4, <2>1, <2>2 DEF Spooled
  <2> QED
    BY <1>1, <2>1, <2>2, <2>3, <2>4 DEF InRecording, Saved
<1>7. RecordingInv'
  BY <1>6 DEF OpenRecording, RecordingInv
<1>8. SpoolInv'
  BY <1>1, <1>2, NoTickFacts DEF OpenRecording, SpoolInv, NoStraySpool
<1> QED
  BY <1>3, <1>5, <1>7, <1>8, FilesKept DEF OpenRecording, RInv

(* What CountTick does for the recording, whatever becomes of the spool. *)
LEMMA CountingSafe ==
  ASSUME RInv, wpc = "append", CountTick
  PROVE  /\ InRecording /\ firstTick \in AnyTick /\ tick \in AnyTick /\ spool \in AnySpool
         /\ TickType' /\ HandInv' /\ FilesAreFaithful'
         /\ Alive' /\ leaked = {} /\ leaked' = {}
         /\ wpc' \in {"top", "finish"} /\ recorded' = Append(recorded, tick)
         /\ recorded' \in Seq(AnyTick) /\ recorded' # <<>>
         /\ ticksRecorded' = Len(recorded') /\ ticksRecorded' \in Nat
         /\ lastTick' = tick /\ recorded'[1] = firstTick /\ recorded'[Len(recorded')] = tick
<1>1. InRecording /\ tick \in AnyTick /\ tick.id # NoId /\ firstTick \in AnyTick /\ spool \in AnySpool
  BY DEF RInv, RecordingInv, RecordingType, HandInv, Taken, InRecording
<1>2. /\ recorded' = Append(recorded, tick) /\ recorded \in Seq(AnyTick)
      /\ ticksRecorded' = ticksRecorded + 1 /\ lastTick' = tick
  BY DEF CountTick, RInv, TickType
<1>3. /\ recorded' \in Seq(AnyTick) /\ recorded' # <<>> /\ Len(recorded) \in Nat
      /\ Len(recorded') = Len(recorded) + 1 /\ recorded'[Len(recorded')] = tick
      /\ recorded # <<>> => recorded'[1] = recorded[1]
      /\ recorded = <<>> => recorded'[1] = tick
  BY <1>1, <1>2, AppendTick
<1>4. recorded'[1] = firstTick /\ ticksRecorded' = Len(recorded')
  BY <1>1, <1>2, <1>3 DEF InRecording
<1>5. wpc' = (IF tick.ended THEN "finish" ELSE "top") /\ tick' = (IF tick.ended THEN tick ELSE NoTick)
  BY DEF CountTick
<1>6. TickType'
  BY <1>1, <1>3, <1>5, NoTickFacts DEF CountTick, gameVars, tickVars, RInv, TickType
<1>7. HandInv'
  BY <1>1, <1>5 DEF HandInv, Taken, Ended
<1>8. leaked = {} /\ leaked' = {}
  BY DEF CountTick, RInv, SpoolInv, Alive
<1>9. FilesAreFaithful'
  BY FilesKept DEF CountTick, RInv
<1> QED
  BY <1>1, <1>2, <1>3, <1>4, <1>5, <1>6, <1>7, <1>8, <1>9 DEF Alive

LEMMA PushingSafe == ASSUME RInv, PushTick PROVE RInv'
<1>1. wpc = "append" /\ saveAllTicks = TRUE /\ bufferComplete = TRUE
  BY DEF PushTick, Buffering, RInv, RecordingType
<1>2. InRecording /\ Spooled(spool) /\ finished = NoSpool /\ firstTick \in AnyTick
  BY <1>1 DEF RInv, RecordingInv, InRecording, Taken, Saved
<1>3. spool.file = firstTick.n /\ spool.ticks = recorded /\ spool # NoSpool
  BY <1>1, <1>2, NoTickFacts DEF Spooled, NoSpool
<1>4. /\ CountTick /\ spool' = [spool EXCEPT !.ticks = Append(@, tick)]
      /\ UNCHANGED <<bufferComplete, spoolFiles>>
  BY <1>3 DEF PushTick
<1>5. /\ tick \in AnyTick /\ spool \in AnySpool /\ TickType' /\ HandInv' /\ FilesAreFaithful'
      /\ Alive' /\ leaked = {} /\ leaked' = {}
      /\ wpc' \in {"top", "finish"} /\ recorded' = Append(recorded, tick)
      /\ recorded' \in Seq(AnyTick) /\ recorded' # <<>>
      /\ ticksRecorded' = Len(recorded') /\ ticksRecorded' \in Nat
      /\ lastTick' = tick /\ recorded'[1] = firstTick /\ recorded'[Len(recorded')] = tick
  BY <1>1, <1>4, CountingSafe
<1>6. spool' \in AnySpool /\ spool'.file = firstTick.n /\ spool'.ticks = recorded'
  BY <1>3, <1>4, <1>5 DEF AnySpool
<1>7. UNCHANGED <<firstTick, finished, files, saveAllTicks>>
  BY <1>4 DEF CountTick
<1>8. RecordingType'
  BY <1>4, <1>5, <1>6, <1>7 DEF RInv, RecordingType, WorkerStages, MaybeTick
<1>9. InRecording'
  BY <1>1, <1>2, <1>4, <1>5, <1>6, <1>7 DEF InRecording, Spooled, Saved
<1>10. RecordingInv'
  BY <1>5, <1>9 DEF RecordingInv
<1>11. SpoolInv'
  BY <1>4, <1>5, <1>7 DEF RInv, SpoolInv, NoStraySpool
<1> QED
  BY <1>5, <1>8, <1>10, <1>11 DEF RInv

LEMMA SkippingSafe == ASSUME RInv, SkipTick PROVE RInv'
<1>1. wpc = "append" /\ CountTick
  BY DEF SkipTick
<1>2. InRecording /\ Spooled(spool) /\ finished = NoSpool
  BY <1>1 DEF RInv, RecordingInv, InRecording, Taken, Saved
<1>3. /\ firstTick \in AnyTick /\ tick \in AnyTick
      /\ TickType' /\ HandInv' /\ FilesAreFaithful'
      /\ Alive' /\ leaked = {} /\ leaked' = {}
      /\ wpc' \in {"top", "finish"}
      /\ recorded' \in Seq(AnyTick) /\ recorded' # <<>>
      /\ ticksRecorded' = Len(recorded') /\ ticksRecorded' \in Nat
      /\ lastTick' = tick /\ recorded'[1] = firstTick /\ recorded'[Len(recorded')] = tick
  BY <1>1, CountingSafe
<1>4. UNCHANGED <<firstTick, finished, files, saveAllTicks>>
  BY <1>1 DEF CountTick
<1>5. bufferComplete' = FALSE /\ spool' = NoSpool /\ spoolFiles' = spoolFiles \ {spool.file}
  BY DEF SkipTick, NoLongerComplete
<1>6. RecordingType'
  BY <1>3, <1>4, <1>5, NoTickFacts DEF RInv, RecordingType, WorkerStages, MaybeTick
<1>7. InRecording'
  BY <1>2, <1>3, <1>4, <1>5 DEF InRecording, Spooled, Saved
<1>8. RecordingInv'
  BY <1>3, <1>7 DEF RecordingInv
<1>9. spoolFiles' = {}
  <2>1. spoolFiles = IF bufferComplete THEN {firstTick.n} ELSE {}
    BY <1>3, NoTickFacts DEF RInv, SpoolInv, NoStraySpool
  <2>2. bufferComplete => spool.file = firstTick.n
    BY <1>2 DEF Spooled
  <2> QED
    BY <1>5, <2>1, <2>2
<1>10. SpoolInv'
  BY <1>3, <1>5, <1>9 DEF SpoolInv, NoStraySpool
<1> QED
  BY <1>3, <1>6, <1>8, <1>10 DEF RInv

LEMMA FinishingSafe == ASSUME RInv, FinishSpool PROVE RInv'
<1>1. wpc = "finish" /\ wpc' = "write" /\ tick' = tick /\ spool' = NoSpool
      /\ UNCHANGED <<firstTick, lastTick, ticksRecorded, bufferComplete, recorded, files,
                     leaked, saveAllTicks, queue, lastGameInfo>>
  BY DEF FinishSpool, gameVars, tickVars
<1>2. InRecording /\ Spooled(spool) /\ finished = NoSpool /\ recorded # <<>>
  BY <1>1 DEF RInv, RecordingInv, InRecording, Taken, Saved
<1>3. finished' = (IF bufferComplete THEN spool ELSE NoSpool)
  BY <1>2 DEF FinishSpool
<1>4. Spooled(finished)'
  BY <1>1, <1>2, <1>3 DEF Spooled
<1>5. TickType' /\ HandInv'
  BY <1>1 DEF RInv, TickType, HandInv, Taken, Ended
<1>6. RecordingType'
  BY <1>1, <1>3, NoTickFacts DEF RInv, RecordingType, WorkerStages
<1>7. InRecording'
  BY <1>1, <1>2, <1>4 DEF InRecording, Saved
<1>8. RecordingInv'
  BY <1>1, <1>7 DEF RecordingInv
<1>9. spoolFiles' = spoolFiles
  <2>1. CASE bufferComplete
    BY <2>1 DEF FinishSpool
  <2>2. CASE ~bufferComplete
    <3>1. spoolFiles' = spoolFiles \ {spool.file} /\ spoolFiles = {}
      BY <1>1, <2>2 DEF FinishSpool, RInv, SpoolInv, NoStraySpool, Alive
    <3> QED
      BY <3>1
  <2> QED
    BY <2>1, <2>2
<1>10. SpoolInv'
  BY <1>1, <1>9 DEF RInv, SpoolInv, NoStraySpool, Alive
<1> QED
  BY <1>1, <1>5, <1>6, <1>8, <1>10, FilesKept DEF RInv

-----------------------------------------------------------------------------
LEMMA RecordingInit == Init => RInv /\ GInv
<1> SUFFICES ASSUME Init PROVE RInv /\ GInv
  OBVIOUS
<1>1. GInv
  BY GameInitSafe DEF Init
<1>2. TickType
  BY NoTickFacts DEF Init, GameInit, WorkerInit, TickType
<1>3. RecordingType
  BY NoTickFacts, NoFileType DEF Init, WorkerInit, RecordingType, WorkerStages
<1>4. HandInv /\ RecordingInv
  BY DEF Init, WorkerInit, HandInv, RecordingInv, NoRecording, Taken, Ended
<1>5. SpoolInv
  BY DEF Init, WorkerInit, SpoolInv, NoStraySpool
<1>6. FilesAreFaithful
  <2>1. WholeFiles = {}
    BY NoFileType DEF Init, WorkerInit, WholeFiles
  <2> QED
    BY <2>1 DEF FilesAreFaithful
<1> QED
  BY <1>1, <1>2, <1>3, <1>4, <1>5, <1>6 DEF RInv

(* Halo is played on as in GameTicks, whatever the worker does. *)
LEMMA GamePlays == Next \/ UNCHANGED vars => GameNext \/ UNCHANGED gameVars
BY DEF Next, vars, PlayHalo, ProduceTick, UserToggles, RequestShutdown, GameNext, Worker,
       Stop, TakeDiscardRequest, Listen, ReceiveTimeout, DeclineTick, TakeTick, OpenRecording,
       OpenFails, ContinueRecording, PushTick, SkipTick, PushFails, FinishSpool, FinishFails,
       CreateFile, FillFile, WriteFails, RequestUpload, RequestFails, SkipUpload,
       ResetRecording, CountTick, Fail, Die

HIDE DEF recordingVars, diskVars, settingVars, historyVars, boundVars, workerVars, ControlsKept

LEMMA RecordingStep == RInv /\ GInv /\ [Next]_vars => RInv' /\ GInv'
<1> SUFFICES ASSUME RInv, GInv, [Next]_vars PROVE RInv' /\ GInv'
  OBVIOUS
<1>1. GInv'
  BY GameStep, GamePlays
<1>2. CASE PlayHalo \/ ProduceTick \/ UserToggles \/ RequestShutdown \/ UNCHANGED vars
  <2>1. RInv'
    BY <1>2, OutsideSteps
  <2> QED
    BY <1>1, <2>1
<1>3. CASE Worker
  <2>1. CASE Stop \/ TakeDiscardRequest \/ DeclineTick \/ ResetRecording
    BY <1>1, <2>1, GivingUpSafe
  <2>2. CASE Listen \/ ReceiveTimeout \/ TakeTick \/ ContinueRecording
           \/ RequestUpload \/ RequestFails \/ SkipUpload
    BY <1>1, <2>2, MovingSafe
  <2>3. CASE PushFails \/ FinishFails \/ WriteFails
    BY <1>1, <2>3, FailingSafe
  <2>4. CASE OpenFails \/ OpenRecording \/ PushTick \/ SkipTick
    BY <1>1, <2>4, OpenFailsSafe, OpeningSafe, PushingSafe, SkippingSafe
  <2>5. CASE FinishSpool \/ CreateFile \/ FillFile
    BY <1>1, <2>5, FinishingSafe, CreatingSafe, FillingSafe
  <2> QED
    BY <1>3, <2>1, <2>2, <2>3, <2>4, <2>5 DEF Worker
<1> QED
  BY <1>2, <1>3 DEF Next

(* A replay file has all the ticks of its recording or none, and its summary *)
(* names the first, the last and the number of them, for any number of games *)
(* and ticks and however saving and recording were switched meanwhile        *)
(* (replay_worker, write_final_replay_file).                                 *)
THEOREM ReplaysAreFaithful == Spec => []FilesAreFaithful
<1>1. RInv => FilesAreFaithful
  BY DEF RInv
<1> QED
  BY <1>1, RecordingInit, RecordingStep, PTL DEF Spec

(* The only spool file on disk is that of the recording going on, whatever  *)
(* ended the recordings before it (TickSpool, FinishedTickSpool,            *)
(* reset_recording).                                                        *)
THEOREM SpoolsCleanedUp == Spec => []NoStraySpool
<1>1. RInv => NoStraySpool
  BY DEF RInv, SpoolInv
<1> QED
  BY <1>1, RecordingInit, RecordingStep, PTL DEF Spec

(* The replay worker and its switches only watch: whatever they do, Halo is  *)
(* played and its ticks are produced as in GameTicks (tick_once), so that    *)
(* what holds of the games there holds here.                                 *)
THEOREM RecorderOnlyWatches == Spec => GameSpec
<1>1. Init => GameInit
  BY DEF Init
<1>2. [Next]_vars => [GameNext]_gameVars
  BY GamePlays
<1> QED
  BY <1>1, <1>2, PTL DEF Spec, GameSpec

(* The ticks recorded carry ids that tell games apart, with the replay      *)
(* worker at work as without it (get_game_info, extract_events).            *)
THEOREM RecordedIdsApart == Spec => []IdTellsGamesApart
<1>1. GInv => IdTellsGamesApart
  BY DEF GInv
<1> QED
  BY <1>1, RecordingInit, RecordingStep, PTL DEF Spec

-----------------------------------------------------------------------------
(* Nothing discarded comes back: ticks arrive in the order of their numbers, *)
(* so that the one in hand and those waiting are new to every recording, and *)
(* a recording is given up or written to a file, never both.                 *)

Sessions == UNION {ElementsOf(f.session) : f \in WholeFiles}
Seen == discarded \cup Sessions \cup ElementsOf(recorded)
InHand == wpc \in {"open", "append"}

QueueInv ==
  /\ \A t \in ElementsOf(queue) : t.n <= lastGameInfo.n
  /\ \A i, j \in 1..Len(queue) : i < j => queue[i].n < queue[j].n
SeenInv ==
  \A s \in Seen : /\ s \in AnyTick /\ s.n <= lastGameInfo.n
                  /\ \A t \in ElementsOf(queue) : s.n < t.n
NextInv ==
  InHand => /\ tick.n <= lastGameInfo.n
            /\ \A s \in Seen : s.n < tick.n
            /\ \A t \in ElementsOf(queue) : tick.n < t.n
OrderInv == QueueInv /\ SeenInv /\ NextInv

ApartInv ==
  /\ discarded \cap Sessions = {} /\ discarded \cap ElementsOf(recorded) = {}
  /\ wpc \notin {"upload", "reset"} => Sessions \cap ElementsOf(recorded) = {}

LEMMA Elements ==
  ASSUME NEW s \in Seq(AnyTick)
  PROVE  /\ ElementsOf(s) \subseteq AnyTick
         /\ \A t \in AnyTick : ElementsOf(Append(s, t)) = ElementsOf(s) \cup {t}
         /\ ElementsOf(<<>>) = {}
<1>1. ElementsOf(s) \subseteq AnyTick /\ ElementsOf(<<>>) = {}
  BY DEF ElementsOf
<1>2. ASSUME NEW t \in AnyTick PROVE ElementsOf(Append(s, t)) = ElementsOf(s) \cup {t}
  <2>1. /\ Len(Append(s, t)) = Len(s) + 1 /\ Append(s, t)[Len(s) + 1] = t /\ Len(s) \in Nat
        /\ \A i \in 1..Len(s) : Append(s, t)[i] = s[i]
    OBVIOUS
  <2>2. 1..(Len(s) + 1) = 1..Len(s) \cup {Len(s) + 1}
    BY <2>1
  <2> QED
    BY <2>1, <2>2 DEF ElementsOf
<1> QED
  BY <1>1, <1>2

LEMMA TailElements ==
  ASSUME NEW s \in Seq(AnyTick), s # <<>>,
         \A i, j \in 1..Len(s) : i < j => s[i].n < s[j].n
  PROVE  /\ Head(s) \in ElementsOf(s) /\ ElementsOf(Tail(s)) \subseteq ElementsOf(s)
         /\ \A t \in ElementsOf(Tail(s)) : Head(s).n < t.n
         /\ \A i, j \in 1..Len(Tail(s)) : i < j => Tail(s)[i].n < Tail(s)[j].n
<1>1. /\ Len(s) \in Nat \ {0} /\ Head(s) = s[1] /\ Len(Tail(s)) = Len(s) - 1
      /\ \A i \in 1..(Len(s) - 1) : Tail(s)[i] = s[i + 1]
  OBVIOUS
<1>2. \A i \in 1..(Len(s) - 1) : i + 1 \in 1..Len(s) /\ 1 < i + 1
  BY <1>1
<1>3. 1 \in 1..Len(s)
  BY <1>1
<1>4. \A i, j \in 1..(Len(s) - 1) : i < j => i + 1 < j + 1
  OBVIOUS
<1> QED
  BY <1>1, <1>2, <1>3, <1>4 DEF ElementsOf

LEMMA SessionsKept == ASSUME files' = files PROVE Sessions' = Sessions
BY DEF Sessions, WholeFiles

LEMMA SessionsTyped == ASSUME RInv PROVE Sessions \subseteq AnyTick
<1>1. \A f \in WholeFiles : f.session \in Seq(AnyTick)
  BY DEF WholeFiles, RInv, RecordingType, AnyFile
<1> QED
  BY <1>1, Elements DEF Sessions

(* Steps that neither bring nor take a tick. *)
LEMMA OrderKept ==
  ASSUME OrderInv, Seen' \subseteq Seen, queue' \in {queue, <<>>},
         lastGameInfo' = lastGameInfo, InHand' => InHand /\ tick' = tick
  PROVE  OrderInv'
<1>1. ElementsOf(queue)' \subseteq ElementsOf(queue)
  BY DEF ElementsOf
<1>2. \A i, j \in 1..Len(queue') : i < j => queue'[i].n < queue'[j].n
  BY DEF OrderInv, QueueInv, SeenInv, NextInv
<1> QED
  BY <1>1, <1>2 DEF OrderInv, QueueInv, SeenInv, NextInv

(* Steps that take the next tick from the channel. *)
LEMMA OrderTaken ==
  ASSUME RInv, OrderInv, queue # <<>>, queue' = Tail(queue), Seen' \subseteq Seen,
         lastGameInfo' = lastGameInfo, InHand' => tick' = Head(queue)
  PROVE  OrderInv'
<1>1. /\ Head(queue) \in ElementsOf(queue) /\ ElementsOf(queue') \subseteq ElementsOf(queue)
      /\ \A t \in ElementsOf(queue') : Head(queue).n < t.n
      /\ \A i, j \in 1..Len(queue') : i < j => queue'[i].n < queue'[j].n
  BY TailElements DEF RInv, TickType, OrderInv, QueueInv, SeenInv, NextInv
<1>2. ElementsOf(queue)' = ElementsOf(queue')
  BY DEF ElementsOf
<1> HIDE DEF ElementsOf
<1> QED
  BY <1>1, <1>2 DEF OrderInv, QueueInv, SeenInv, NextInv

(* Steps that touch neither what was recorded nor the files. *)
LEMMA QuietOrder ==
  ASSUME OrderInv, ApartInv, UNCHANGED <<discarded, files, recorded, queue, lastGameInfo>>,
         InHand' => InHand /\ tick' = tick,
         wpc' \notin {"upload", "reset"} => wpc \notin {"upload", "reset"}
  PROVE  OrderInv' /\ ApartInv'
<1>1. Sessions' = Sessions
  BY SessionsKept
<1>2. Seen' = Seen
  BY <1>1 DEF Seen
<1>3. OrderInv'
  BY <1>2, OrderKept
<1> QED
  BY <1>1, <1>3 DEF ApartInv

(* The recording is gone, given up or not. *)
LEMMA DroppedOrder ==
  ASSUME OrderInv, ApartInv, OrderInv', recorded' = <<>>, files' = files,
         \/ discarded' = discarded
         \/ discarded' = discarded \cup ElementsOf(recorded) /\ wpc \in {"top", "recv"}
  PROVE  ApartInv'
<1>1. Sessions' = Sessions
  BY SessionsKept
<1>2. ElementsOf(recorded') = {}
  BY DEF ElementsOf
<1>3. ElementsOf(recorded)' = {}
  BY <1>2 DEF ElementsOf
<1> QED
  BY <1>1, <1>3 DEF ApartInv

LEMMA DroppedSeen ==
  ASSUME recorded' = <<>>, files' = files,
         discarded' \subseteq discarded \cup ElementsOf(recorded)
  PROVE  Seen' \subseteq Seen
<1>1. Sessions' = Sessions
  BY SessionsKept
<1>2. ElementsOf(recorded)' = {}
  BY DEF ElementsOf
<1> QED
  BY <1>1, <1>2 DEF Seen

LEMMA OutsideOrder ==
  ASSUME RInv, GInv, OrderInv, ApartInv,
         PlayHalo \/ ProduceTick \/ UserToggles \/ RequestShutdown \/ UNCHANGED vars
  PROVE  OrderInv' /\ ApartInv'
<1>1. CASE PlayHalo
  BY <1>1, QuietOrder DEF PlayHalo, StartGame, FinishGame, LeaveGame, SampleFails, ReconnectXemu,
     tickVars, workerVars, historyVars, diskVars, InHand
<1>2. CASE UserToggles \/ RequestShutdown \/ UNCHANGED vars
  BY <1>2, QuietOrder DEF UserToggles, RequestShutdown, vars,
     gameVars, tickVars, workerVars, historyVars, diskVars, InHand
<1>3. CASE ProduceTick
  <2>1. UNCHANGED <<discarded, files, recorded, wpc, tick>>
    BY <1>3 DEF ProduceTick, historyVars, diskVars
  <2>2. lastGameInfo' \in AnyTick /\ lastGameInfo'.n = lastGameInfo.n + 1
    BY <1>3, SampleTick DEF ProduceTick, RInv, TickType
  <2>3. Seen' = Seen /\ Sessions' = Sessions /\ InHand' = InHand
    BY <2>1, SessionsKept DEF Seen, InHand
  <2>4. lastGameInfo.n \in Nat /\ Seen \subseteq AnyTick
    BY DEF RInv, TickType, MaybeTick, AnyTick, NoTick, OrderInv, QueueInv, SeenInv, NextInv
  <2>5. ApartInv'
    BY <2>1, <2>3 DEF ApartInv
  <2>6. queue \in Seq(AnyTick) /\ ElementsOf(queue) \subseteq AnyTick
    BY Elements DEF RInv, TickType
  <2>7. InHand => tick.n \in Nat
    BY DEF RInv, HandInv, InHand, Taken, AnyTick
  <2>8. \A t \in AnyTick : t.n \in Nat
    BY DEF AnyTick
  <2>9. CASE queue' = queue
    <3>1. ElementsOf(queue)' = ElementsOf(queue)
      BY <2>9 DEF ElementsOf
    <3>2. OrderInv'
      BY <2>1, <2>2, <2>3, <2>4, <2>6, <2>7, <2>8, <2>9, <3>1 DEF OrderInv, QueueInv, SeenInv, NextInv
    <3> QED
      BY <2>5, <3>2
  <2>10. CASE queue' = Append(queue, lastGameInfo')
    <3>1. ElementsOf(queue') = ElementsOf(queue) \cup {lastGameInfo'}
      BY <2>2, <2>6, <2>10, Elements
    <3>2. ElementsOf(queue)' = ElementsOf(queue) \cup {lastGameInfo'}
      BY <3>1 DEF ElementsOf
    <3>3. /\ Len(queue') = Len(queue) + 1 /\ Len(queue) \in Nat
          /\ queue'[Len(queue) + 1] = lastGameInfo'
          /\ \A i \in 1..Len(queue) : queue'[i] = queue[i] /\ queue[i] \in ElementsOf(queue)
      BY <2>2, <2>6, <2>10 DEF ElementsOf
    <3>4. \A t \in ElementsOf(queue) : t.n \in Nat /\ t.n <= lastGameInfo.n
      BY <2>6, <2>8 DEF OrderInv, QueueInv, SeenInv, NextInv
    <3>5. ASSUME NEW i \in 1..Len(queue'), NEW j \in 1..Len(queue'), i < j
          PROVE  queue'[i].n < queue'[j].n
      <4>1. i \in 1..Len(queue)
        BY <3>3, <3>5
      <4>2. CASE j \in 1..Len(queue)
        BY <3>3, <3>5, <4>1, <4>2 DEF OrderInv, QueueInv, SeenInv, NextInv
      <4>3. CASE j = Len(queue) + 1
        BY <2>2, <2>4, <3>3, <3>4, <4>1, <4>3
      <4> QED
        BY <3>3, <4>2, <4>3
    <3>6. \A t \in ElementsOf(queue)' : t.n <= lastGameInfo'.n
      BY <2>2, <2>4, <3>2, <3>4
    <3>7. \A s \in Seen' : s \in AnyTick /\ s.n <= lastGameInfo'.n
                            /\ \A t \in ElementsOf(queue)' : s.n < t.n
      BY <2>2, <2>3, <2>4, <2>8, <3>2 DEF OrderInv, QueueInv, SeenInv, NextInv
    <3>8. InHand' => /\ tick'.n <= lastGameInfo'.n
                     /\ \A s \in Seen' : s.n < tick'.n
                     /\ \A t \in ElementsOf(queue)' : tick'.n < t.n
      BY <2>1, <2>2, <2>3, <2>4, <2>7, <3>2 DEF OrderInv, QueueInv, SeenInv, NextInv
    <3>9. \A i, j \in 1..Len(queue') : i < j => queue'[i].n < queue'[j].n
      BY <3>5
    <3>10. OrderInv'
      <4>1. QueueInv'
        BY <3>6, <3>9 DEF QueueInv
      <4>2. SeenInv'
        BY <3>7 DEF SeenInv
      <4>3. NextInv'
        BY <3>8 DEF NextInv
      <4> QED
        BY <4>1, <4>2, <4>3 DEF OrderInv
    <3> QED
      BY <2>5, <3>10
  <2> QED
    BY <1>3, <2>5, <2>9, <2>10 DEF ProduceTick
<1> QED
  BY <1>1, <1>2, <1>3

LEMMA WorkerQuiet ==
  ASSUME OrderInv, ApartInv,
         \/ Listen \/ ReceiveTimeout \/ ContinueRecording \/ OpenRecording \/ FinishSpool
         \/ RequestUpload \/ RequestFails \/ SkipUpload
  PROVE  OrderInv' /\ ApartInv'
<1>1. /\ UNCHANGED <<discarded, files, recorded, queue, lastGameInfo, tick>>
      /\ InHand' => InHand
      /\ wpc' \notin {"upload", "reset"} => wpc \notin {"upload", "reset"}
  BY DEF Listen, ReceiveTimeout, ContinueRecording, OpenRecording, FinishSpool, RequestUpload,
         RequestFails, SkipUpload, ControlsKept, gameVars, tickVars, historyVars, diskVars, InHand
<1> QED
  BY <1>1, QuietOrder

LEMMA WorkerDrops ==
  ASSUME RInv, OrderInv, ApartInv,
         \/ Stop \/ TakeDiscardRequest \/ DeclineTick \/ ResetRecording
         \/ PushFails \/ FinishFails \/ WriteFails \/ Die
  PROVE  OrderInv' /\ ApartInv'
<1>1. recorded' = <<>> /\ files' = files /\ lastGameInfo' = lastGameInfo /\ ~InHand'
  BY DEF Stop, TakeDiscardRequest, DeclineTick, ResetRecording, PushFails, FinishFails, WriteFails,
         Fail, Die, GiveUp, FollowRecording, ForgetRecording, ControlsKept, gameVars, tickVars, InHand
<1>2. \/ discarded' = discarded
      \/ discarded' = discarded \cup ElementsOf(recorded) /\ wpc \in {"top", "recv"}
  BY DEF Stop, TakeDiscardRequest, DeclineTick, ResetRecording, PushFails, FinishFails, WriteFails,
         Fail, Die, GiveUp
<1>3. Seen' \subseteq Seen
  BY <1>1, <1>2, DroppedSeen
<1>4. OrderInv'
  <2>1. CASE DeclineTick
    BY <1>1, <1>3, <2>1, OrderTaken DEF DeclineTick
  <2>2. CASE ~DeclineTick
    <3>1. queue' \in {queue, <<>>}
      BY <2>2 DEF Stop, TakeDiscardRequest, ResetRecording, PushFails, FinishFails, WriteFails, Fail, Die
    <3> QED
      BY <1>1, <1>3, <3>1, OrderKept
  <2> QED
    BY <2>1, <2>2
<1> QED
  BY <1>1, <1>2, <1>4, DroppedOrder

LEMMA OpenFailsOrder == ASSUME OrderInv, ApartInv, OpenFails PROVE OrderInv' /\ ApartInv'
<1>1. /\ UNCHANGED <<discarded, files, recorded, lastGameInfo>> /\ queue' = <<>> /\ ~InHand'
      /\ wpc = "open"
  BY DEF OpenFails, ControlsKept, gameVars, tickVars, InHand
<1>2. Sessions' = Sessions /\ Seen' = Seen
  BY <1>1, SessionsKept DEF Seen
<1>3. OrderInv'
  BY <1>1, <1>2, OrderKept
<1> QED
  BY <1>1, <1>2, <1>3 DEF ApartInv

LEMMA TakingOrder == ASSUME RInv, OrderInv, ApartInv, TakeTick PROVE OrderInv' /\ ApartInv'
<1>1. /\ UNCHANGED <<discarded, files, recorded, lastGameInfo>> /\ wpc = "recv"
      /\ queue # <<>> /\ queue' = Tail(queue) /\ (InHand' => tick' = Head(queue))
  BY DEF TakeTick, ControlsKept, gameVars, tickVars, historyVars, diskVars, InHand
<1>2. Sessions' = Sessions /\ Seen' = Seen
  BY <1>1, SessionsKept DEF Seen
<1>3. OrderInv'
  BY <1>1, <1>2, OrderTaken
<1> QED
  BY <1>1, <1>2, <1>3 DEF ApartInv

LEMMA CountingOrder ==
  ASSUME RInv, OrderInv, ApartInv, wpc = "append", CountTick PROVE OrderInv' /\ ApartInv'
<1>1. /\ UNCHANGED <<discarded, files, queue, lastGameInfo>> /\ ~InHand'
      /\ recorded' = Append(recorded, tick)
  BY DEF CountTick, ControlsKept, gameVars, tickVars, InHand
<1>2. tick \in AnyTick /\ recorded \in Seq(AnyTick)
  BY DEF RInv, HandInv, TickType, Taken
<1>3. ElementsOf(recorded') = ElementsOf(recorded) \cup {tick} /\ ElementsOf(queue) \subseteq AnyTick
  BY <1>1, <1>2, Elements DEF RInv, TickType
<1>4. ElementsOf(recorded)' = ElementsOf(recorded) \cup {tick} /\ ElementsOf(queue)' = ElementsOf(queue)
  BY <1>1, <1>3 DEF ElementsOf
<1>5. Sessions' = Sessions
  BY <1>1, SessionsKept
<1>6. Seen' = Seen \cup {tick}
  BY <1>1, <1>4, <1>5 DEF Seen
<1>7. InHand /\ tick \notin Seen
  <2>1. InHand /\ tick.n \in Nat
    BY <1>2 DEF InHand, AnyTick
  <2> QED
    BY <2>1 DEF OrderInv, QueueInv, SeenInv, NextInv
<1>8. ApartInv'
  BY <1>1, <1>4, <1>5, <1>7 DEF ApartInv, Seen
<1>9. OrderInv'
  BY <1>1, <1>2, <1>4, <1>6, <1>7 DEF OrderInv, QueueInv, SeenInv, NextInv
<1> QED
  BY <1>8, <1>9

LEMMA FileOrder ==
  ASSUME RInv, OrderInv, ApartInv, CreateFile \/ FillFile PROVE OrderInv' /\ ApartInv'
<1>1. /\ UNCHANGED <<discarded, recorded, queue, lastGameInfo>> /\ ~InHand'
      /\ wpc \in {"write", "fill"} /\ (CreateFile => wpc' = "fill") /\ (FillFile => wpc' = "upload")
  BY DEF CreateFile, FillFile, ControlsKept, gameVars, tickVars, historyVars, InHand
<1>2. files \in [Ids -> AnyFile]
  BY DEF RInv, RecordingType
<1>3. CreateFile => Sessions' \subseteq Sessions
  <2> SUFFICES ASSUME CreateFile PROVE Sessions' \subseteq Sessions
    OBVIOUS
  <2> DEFINE new == [NoFile EXCEPT !.there = TRUE]
  <2>1. ~new.whole /\ files' = [files EXCEPT ![tick.id] = new]
    BY NoFileType DEF CreateFile
  <2> HIDE DEF new
  <2>2. WholeFiles' \subseteq WholeFiles
    BY <1>2, <2>1 DEF WholeFiles
  <2> QED
    BY <2>2 DEF Sessions, ElementsOf
<1>4. FillFile => Sessions' \subseteq Sessions \cup ElementsOf(recorded)
  <2> SUFFICES ASSUME FillFile PROVE Sessions' \subseteq Sessions \cup ElementsOf(recorded)
    OBVIOUS
  <2> DEFINE new == [there |-> TRUE, whole |-> TRUE, ticks |-> finished.ticks,
                     first |-> firstTick, last |-> lastTick, recorded |-> ticksRecorded,
                     session |-> recorded]
  <2>1. new.session = recorded /\ files' = [files EXCEPT ![tick.id] = new]
    BY DEF FillFile
  <2> HIDE DEF new
  <2>2. WholeFiles' \subseteq WholeFiles \cup {new}
    BY <1>2, <2>1 DEF WholeFiles
  <2> QED
    BY <2>1, <2>2 DEF Sessions, ElementsOf
<1>5. ElementsOf(recorded)' = ElementsOf(recorded)
  BY <1>1 DEF ElementsOf
<1>6. Seen' \subseteq Seen
  BY <1>1, <1>3, <1>4, <1>5 DEF Seen
<1>7. OrderInv'
  BY <1>1, <1>6, OrderKept
<1>8. ApartInv'
  BY <1>1, <1>3, <1>4, <1>5 DEF ApartInv
<1> QED
  BY <1>7, <1>8

LEMMA OrderInit == Init => OrderInv /\ ApartInv
<1> SUFFICES ASSUME Init PROVE OrderInv /\ ApartInv
  OBVIOUS
<1>1. WholeFiles = {}
  BY NoFileType DEF Init, WorkerInit, WholeFiles
<1>2. ElementsOf(recorded) = {} /\ ElementsOf(queue) = {} /\ Len(queue) = 0
  BY DEF Init, WorkerInit, ElementsOf
<1>3. Sessions = {} /\ Seen = {} /\ ~InHand /\ discarded = {}
  BY <1>1, <1>2 DEF Sessions, Seen, InHand, Init, WorkerInit
<1> QED
  BY <1>2, <1>3 DEF OrderInv, QueueInv, SeenInv, NextInv, ApartInv

LEMMA OrderStep ==
  RInv /\ GInv /\ OrderInv /\ ApartInv /\ [Next]_vars => OrderInv' /\ ApartInv'
<1> SUFFICES ASSUME RInv, GInv, OrderInv, ApartInv, [Next]_vars PROVE OrderInv' /\ ApartInv'
  OBVIOUS
<1>1. CASE PlayHalo \/ ProduceTick \/ UserToggles \/ RequestShutdown \/ UNCHANGED vars
  BY <1>1, OutsideOrder
<1>2. CASE Worker
  <2>1. CASE Listen \/ ReceiveTimeout \/ ContinueRecording \/ OpenRecording \/ FinishSpool
               \/ RequestUpload \/ RequestFails \/ SkipUpload
    BY <2>1, WorkerQuiet
  <2>2. CASE Stop \/ TakeDiscardRequest \/ DeclineTick \/ ResetRecording
               \/ PushFails \/ FinishFails \/ WriteFails
    BY <2>2, WorkerDrops
  <2>3. CASE OpenFails \/ TakeTick
    BY <2>3, OpenFailsOrder, TakingOrder
  <2>4. CASE PushTick
    <3>1. wpc = "append" /\ (CountTick \/ Die)
      BY <2>4 DEF PushTick, Buffering
    <3> QED
      BY <3>1, CountingOrder, WorkerDrops
  <2>5. CASE SkipTick
    BY <2>5, CountingOrder DEF SkipTick
  <2>6. CASE CreateFile \/ FillFile
    BY <2>6, FileOrder
  <2> QED
    BY <1>2, <2>1, <2>2, <2>3, <2>4, <2>5, <2>6 DEF Worker
<1> QED
  BY <1>1, <1>2 DEF Next

(* No tick of a recording that was discarded, interrupted by saving being    *)
(* off or by a shutdown is in a replay file, for any number of recordings    *)
(* (replay_worker, reset_recording).                                         *)
THEOREM DiscardedIsGone == Spec => []DiscardedStaysOut
<1>1. RInv /\ ApartInv => DiscardedStaysOut
  <2> SUFFICES ASSUME RInv, ApartInv, NEW f \in WholeFiles
               PROVE  (ElementsOf(f.session) \cup ElementsOf(f.ticks)) \cap discarded = {}
    BY DEF DiscardedStaysOut
  <2>1. ElementsOf(f.session) \subseteq Sessions
    BY DEF Sessions
  <2>2. f.ticks \in {<<>>, f.session}
    BY DEF RInv, FilesAreFaithful
  <2>3. ElementsOf(<<>>) = {}
    BY DEF ElementsOf
  <2> QED
    BY <2>1, <2>2, <2>3 DEF ApartInv
<1> QED
  BY <1>1, RecordingInit, RecordingStep, OrderInit, OrderStep, PTL DEF Spec

-----------------------------------------------------------------------------
(* No replay file is written twice.  The id of a tick that ended a game is   *)
(* spent: the reader has forgotten it, no game on is scoring under it, and   *)
(* the game that claimed it is over as far as the loop goes.                 *)

EndedIds(s) == {t.id : t \in {u \in ElementsOf(s) : u.ended}}
InWork == IF wpc \in Taken /\ tick.ended THEN {tick.id} ELSE {}
OnDisk == {i \in Ids : files[i].there}
Distinct(s) ==
  \A j, k \in 1..Len(s) : j < k /\ s[j].ended /\ s[k].ended => s[j].id # s[k].id

(* The ids of the ends still waiting, of the one in hand and of the files    *)
(* are spent, and are all different.                                         *)
SpentInv ==
  /\ \A i \in EndedIds(queue) \cup InWork \cup OnDisk : i \in Ids /\ IsSpent(i)
  /\ Distinct(queue)
  /\ EndedIds(queue) \cap (InWork \cup OnDisk) = {}
  /\ wpc \notin {"fill", "upload", "reset"} => InWork \cap OnDisk = {}

FinalInv ==
  /\ \A i \in Ids : files[i].whole => files[i].there
  /\ wpc = "fill" => ~files[tick.id].whole
  /\ wpc \in {"upload", "reset"} => files[tick.id].whole
  /\ \A r \in requests : r.id \in Ids
  /\ RequestsMatchFiles

LEMMA EndedElements ==
  ASSUME NEW s \in Seq(AnyTick)
  PROVE  /\ EndedIds(<<>>) = {} /\ Distinct(<<>>)
         /\ \A t \in AnyTick : EndedIds(Append(s, t)) =
              EndedIds(s) \cup (IF t.ended THEN {t.id} ELSE {})
         /\ \A t \in AnyTick : Distinct(s) /\ (t.ended => t.id \notin EndedIds(s))
              => Distinct(Append(s, t))
<1>1. EndedIds(<<>>) = {} /\ Distinct(<<>>)
  BY DEF EndedIds, Distinct, ElementsOf
<1>2. ASSUME NEW t \in AnyTick
      PROVE  EndedIds(Append(s, t)) = EndedIds(s) \cup (IF t.ended THEN {t.id} ELSE {})
  <2>1. ElementsOf(Append(s, t)) = ElementsOf(s) \cup {t}
    BY Elements
  <2> QED
    BY <2>1 DEF EndedIds
<1>3. ASSUME NEW t \in AnyTick, Distinct(s), t.ended => t.id \notin EndedIds(s)
      PROVE  Distinct(Append(s, t))
  <2>1. /\ Len(Append(s, t)) = Len(s) + 1 /\ Append(s, t)[Len(s) + 1] = t /\ Len(s) \in Nat
        /\ \A i \in 1..Len(s) : Append(s, t)[i] = s[i]
    OBVIOUS
  <2>2. ASSUME NEW j \in 1..(Len(s) + 1), NEW k \in 1..(Len(s) + 1), j < k,
               Append(s, t)[j].ended, Append(s, t)[k].ended
        PROVE  Append(s, t)[j].id # Append(s, t)[k].id
    <3>1. j \in 1..Len(s) /\ Append(s, t)[j] = s[j]
      BY <2>1, <2>2
    <3>2. CASE k \in 1..Len(s)
      BY <1>3, <2>1, <2>2, <3>1, <3>2 DEF Distinct
    <3>3. CASE k = Len(s) + 1
      <4>1. s[j].id \in EndedIds(s)
        BY <2>2, <3>1 DEF EndedIds, ElementsOf
      <4> QED
        BY <1>3, <2>1, <2>2, <3>1, <3>3, <4>1
    <3> QED
      BY <2>1, <3>2, <3>3
  <2> QED
    BY <2>1, <2>2 DEF Distinct
<1> QED
  BY <1>1, <1>2, <1>3

LEMMA EndedTail ==
  ASSUME NEW s \in Seq(AnyTick), s # <<>>, Distinct(s)
  PROVE  /\ EndedIds(Tail(s)) \subseteq EndedIds(s) /\ Distinct(Tail(s))
         /\ Head(s).ended => Head(s).id \in EndedIds(s) \ EndedIds(Tail(s))
<1>1. /\ Len(s) \in Nat \ {0} /\ Head(s) = s[1] /\ Len(Tail(s)) = Len(s) - 1
      /\ \A i \in 1..(Len(s) - 1) : Tail(s)[i] = s[i + 1]
  OBVIOUS
<1>2. \A i \in 1..(Len(s) - 1) : i + 1 \in 1..Len(s) /\ 1 < i + 1
  BY <1>1
<1>3. 1 \in 1..Len(s)
  BY <1>1
<1>4. \A i, j \in 1..(Len(s) - 1) : i < j => i + 1 < j + 1
  OBVIOUS
<1>5. EndedIds(Tail(s)) \subseteq EndedIds(s)
  BY <1>1, <1>2 DEF EndedIds, ElementsOf
<1>6. Distinct(Tail(s))
  BY <1>1, <1>2, <1>4 DEF Distinct
<1>7. ASSUME Head(s).ended PROVE Head(s).id \in EndedIds(s) \ EndedIds(Tail(s))
  <2>1. Head(s).id \in EndedIds(s)
    BY <1>1, <1>3, <1>7 DEF EndedIds, ElementsOf
  <2>2. ASSUME Head(s).id \in EndedIds(Tail(s)) PROVE FALSE
    <3>1. PICK i \in 1..(Len(s) - 1) : s[i + 1].ended /\ s[i + 1].id = Head(s).id
      BY <1>1, <2>2 DEF EndedIds, ElementsOf
    <3> QED
      BY <1>1, <1>2, <1>3, <1>7, <3>1 DEF Distinct
  <2> QED
    BY <2>1, <2>2
<1> QED
  BY <1>5, <1>6, <1>7

(* Steps that end no game.                                                   *)
LEMMA SpentKept ==
  ASSUME GInv, SpentInv, GameNext \/ UNCHANGED gameVars, Distinct(queue)',
         EndedIds(queue)' \subseteq EndedIds(queue), InWork' \subseteq InWork,
         OnDisk' \subseteq OnDisk,
         wpc' \notin {"fill", "upload", "reset"} =>
           wpc \notin {"fill", "upload", "reset"} \/ InWork' = {}
  PROVE  SpentInv'
<1>1. \A i \in (EndedIds(queue) \cup InWork \cup OnDisk)' : i \in Ids /\ IsSpent(i)'
  BY SpentStays DEF SpentInv
<1> QED
  BY <1>1 DEF SpentInv

LEMMA FinalKept ==
  ASSUME FinalInv, files' = files, requests' = requests, wpc' # "fill",
         wpc' \in {"upload", "reset"} => wpc \in {"upload", "reset"} /\ tick' = tick
  PROVE  FinalInv'
BY DEF FinalInv, RequestsMatchFiles

LEMMA OutsideSpent ==
  ASSUME RInv, GInv, SpentInv, FinalInv,
         PlayHalo \/ ProduceTick \/ UserToggles \/ RequestShutdown \/ UNCHANGED vars
  PROVE  SpentInv' /\ FinalInv'
<1>1. GameNext \/ UNCHANGED gameVars
  BY GamePlays DEF Next
<1>2. UNCHANGED <<wpc, tick, files, requests>>
  BY DEF PlayHalo, ProduceTick, UserToggles, RequestShutdown, vars, workerVars, diskVars
<1>3. InWork' = InWork /\ OnDisk' = OnDisk
  BY <1>2 DEF InWork, OnDisk
<1>4. FinalInv'
  BY <1>2 DEF FinalInv, RequestsMatchFiles
<1>5. CASE queue' = queue
  <2>1. EndedIds(queue)' = EndedIds(queue) /\ Distinct(queue)' = Distinct(queue)
    BY <1>5 DEF EndedIds, ElementsOf, Distinct
  <2>2. Distinct(queue)'
    BY <2>1 DEF SpentInv
  <2>3. SpentInv'
    BY <1>1, <1>2, <1>3, <2>1, <2>2, SpentKept
  <2> QED
    BY <1>4, <2>3
<1>6. CASE ProduceTick /\ queue' = Append(queue, lastGameInfo')
  <2>1. PICK t \in AnyTick : t = lastGameInfo'
    BY <1>6, SampleTick DEF ProduceTick, RInv, TickType
  <2>2. queue \in Seq(AnyTick) /\ Distinct(queue)
    BY DEF RInv, TickType, SpentInv
  <2>3. EndedIds(queue') = EndedIds(queue) \cup (IF t.ended THEN {t.id} ELSE {})
    BY <1>6, <2>1, <2>2, EndedElements
  <2>4. EndedIds(queue)' = EndedIds(queue') /\ (Distinct(queue') => Distinct(queue)')
    BY DEF EndedIds, ElementsOf, Distinct
  <2>5. CASE ~t.ended
    <3>1. Distinct(queue')
      BY <1>6, <2>1, <2>2, <2>5, EndedElements
    <3>2. SpentInv'
      BY <1>1, <1>2, <1>3, <2>3, <2>4, <2>5, <3>1, SpentKept
    <3> QED
      BY <1>4, <3>2
  <2>6. CASE t.ended
    <3>1. PICK i \in Ids : i = t.id /\ IsSpent(i)' /\ ~IsSpent(i)
      BY <1>6, <2>1, <2>6, EndingSpends DEF ProduceTick
    <3>2. i \notin EndedIds(queue) \cup InWork \cup OnDisk
      BY <3>1 DEF SpentInv
    <3>3. Distinct(queue')
      BY <1>6, <2>1, <2>2, <3>1, <3>2, EndedElements
    <3>4. \A j \in EndedIds(queue) \cup InWork \cup OnDisk : j \in Ids /\ IsSpent(j)'
      BY <1>1, SpentStays DEF SpentInv
    <3>5. EndedIds(queue)' = EndedIds(queue) \cup {i}
      BY <2>3, <2>4, <2>6, <3>1
    <3>6. SpentInv'
      BY <1>2, <1>3, <2>4, <3>1, <3>2, <3>3, <3>4, <3>5 DEF SpentInv
    <3> QED
      BY <1>4, <3>6
  <2> QED
    BY <2>5, <2>6
<1> QED
  BY <1>5, <1>6 DEF PlayHalo, ProduceTick, UserToggles, RequestShutdown, vars, workerVars

(* The worker gives up, or puts a finished recording behind it.              *)
LEMMA DropsSpent ==
  ASSUME RInv, GInv, SpentInv, FinalInv,
         \/ Stop \/ TakeDiscardRequest \/ DeclineTick \/ ResetRecording \/ OpenFails
         \/ PushFails \/ FinishFails \/ WriteFails \/ Die
  PROVE  SpentInv' /\ FinalInv'
<1>1. UNCHANGED gameVars /\ UNCHANGED <<files, requests>>
      /\ wpc' \in {"top", "recv", "stopped", "failed"}
  BY DEF Stop, TakeDiscardRequest, DeclineTick, ResetRecording, OpenFails, PushFails, FinishFails,
         WriteFails, Fail, Die, ControlsKept
<1>2. InWork' = {} /\ OnDisk' = OnDisk
  BY <1>1 DEF InWork, OnDisk, Taken
<1>3. EndedIds(queue') \subseteq EndedIds(queue) /\ Distinct(queue')
  <2>1. queue \in Seq(AnyTick) /\ Distinct(queue)
    BY DEF RInv, TickType, SpentInv
  <2>2. CASE DeclineTick
    BY <2>1, <2>2, EndedTail DEF DeclineTick
  <2>3. CASE ~DeclineTick
    <3>1. queue' \in {queue, <<>>}
      BY <2>3 DEF Stop, TakeDiscardRequest, ResetRecording, OpenFails, PushFails, FinishFails,
                  WriteFails, Fail, Die
    <3> QED
      BY <2>1, <3>1, EndedElements
  <2> QED
    BY <2>2, <2>3
<1>4. EndedIds(queue)' \subseteq EndedIds(queue) /\ Distinct(queue)'
  BY <1>3 DEF EndedIds, ElementsOf, Distinct
<1>5. SpentInv'
  BY <1>1, <1>2, <1>4, SpentKept
<1>6. FinalInv'
  BY <1>1, FinalKept
<1> QED
  BY <1>5, <1>6

(* The worker moves on without touching the files.                           *)
LEMMA MovesSpent ==
  ASSUME RInv, GInv, SpentInv, FinalInv,
         \/ Listen \/ ReceiveTimeout \/ ContinueRecording \/ OpenRecording \/ FinishSpool
         \/ RequestUpload \/ RequestFails \/ SkipUpload
  PROVE  SpentInv' /\ FinalInv'
<1>1. /\ UNCHANGED gameVars /\ UNCHANGED <<queue, tick, files>>
      /\ wpc' \in Taken => wpc \in Taken
      /\ wpc' \in {"upload", "reset"} <=> wpc \in {"upload", "reset"}
      /\ wpc' # "fill" /\ wpc # "fill"
  BY DEF Listen, ReceiveTimeout, ContinueRecording, OpenRecording, FinishSpool, RequestUpload,
         RequestFails, SkipUpload, ControlsKept, diskVars, Taken
<1>2. InWork' \subseteq InWork /\ OnDisk' = OnDisk
  BY <1>1 DEF InWork, OnDisk
<1>3. EndedIds(queue)' = EndedIds(queue) /\ Distinct(queue)' = Distinct(queue)
  BY <1>1 DEF EndedIds, ElementsOf, Distinct
<1>4. Distinct(queue)'
  BY <1>3 DEF SpentInv
<1>5. SpentInv'
  BY <1>1, <1>2, <1>3, <1>4, SpentKept
<1>6. FinalInv'
  <2>1. CASE RequestUpload
    <3>1. requests' = requests \cup {[id |-> tick.id, content |-> files[tick.id]]}
          /\ wpc = "upload"
      BY <2>1 DEF RequestUpload
    <3>2. tick.id \in Ids /\ files[tick.id].whole
      BY <3>1 DEF RInv, HandInv, Taken, AnyTick, FinalInv
    <3>3. \A r \in requests' : r.id \in Ids /\ files[r.id].whole /\ r.content = files[r.id]
      BY <3>1, <3>2 DEF FinalInv, RequestsMatchFiles
    <3> QED
      BY <1>1, <3>3 DEF FinalInv, RequestsMatchFiles
  <2>2. CASE ~RequestUpload
    <3>1. requests' = requests
      BY <2>2 DEF Listen, ReceiveTimeout, ContinueRecording, OpenRecording, FinishSpool,
                  RequestFails, SkipUpload
    <3> QED
      BY <1>1, <3>1, FinalKept
  <2> QED
    BY <2>1, <2>2
<1> QED
  BY <1>5, <1>6

LEMMA CountsSpent ==
  ASSUME RInv, GInv, SpentInv, FinalInv, wpc = "append", CountTick
  PROVE  SpentInv' /\ FinalInv'
<1>1. /\ UNCHANGED gameVars /\ UNCHANGED <<queue, files, requests>>
      /\ (wpc' = "finish" /\ tick' = tick) \/ wpc' = "top"
  BY DEF CountTick, ControlsKept
<1>2. InWork' \subseteq InWork /\ OnDisk' = OnDisk
  BY <1>1 DEF InWork, OnDisk, Taken
<1>3. EndedIds(queue)' = EndedIds(queue) /\ Distinct(queue)' = Distinct(queue)
  BY <1>1 DEF EndedIds, ElementsOf, Distinct
<1>4. Distinct(queue)'
  BY <1>3 DEF SpentInv
<1>5. SpentInv'
  BY <1>1, <1>2, <1>3, <1>4, SpentKept
<1> QED
  BY <1>1, <1>5, FinalKept

(* A tick taken from the channel brings its id along.                        *)
LEMMA TakesSpent ==
  ASSUME RInv, GInv, SpentInv, FinalInv, TakeTick
  PROVE  SpentInv' /\ FinalInv'
<1>1. /\ UNCHANGED gameVars /\ UNCHANGED <<files, requests>>
      /\ queue # <<>> /\ queue' = Tail(queue)
      /\ (wpc' = "open" /\ tick' = Head(queue)) \/ wpc' = "top"
  BY DEF TakeTick, ControlsKept, diskVars
<1>2. /\ EndedIds(queue') \subseteq EndedIds(queue) /\ Distinct(queue')
      /\ Head(queue).ended => Head(queue).id \in EndedIds(queue) \ EndedIds(queue')
  BY <1>1, EndedTail DEF RInv, TickType, SpentInv
<1>3. EndedIds(queue)' = EndedIds(queue') /\ (Distinct(queue') => Distinct(queue)')
  BY DEF EndedIds, ElementsOf, Distinct
<1>4. OnDisk' = OnDisk /\ InWork' \subseteq EndedIds(queue) \ EndedIds(queue')
  BY <1>1, <1>2 DEF OnDisk, InWork, Taken
<1>5. \A i \in EndedIds(queue) \cup InWork \cup OnDisk : i \in Ids /\ IsSpent(i)'
  BY <1>1, SpentStays DEF SpentInv
<1>6. SpentInv'
  BY <1>2, <1>3, <1>4, <1>5 DEF SpentInv
<1>7. FinalInv'
  BY <1>1, FinalKept
<1> QED
  BY <1>6, <1>7

(* The file of the tick in hand is created, then filled; no other changes,   *)
(* and there was none of this id.                                            *)
LEMMA WritesSpent ==
  ASSUME RInv, GInv, SpentInv, FinalInv, CreateFile \/ FillFile
  PROVE  /\ SpentInv' /\ FinalInv'
         /\ \A i \in Ids : files[i].whole => files'[i] = files[i]
<1>1. /\ UNCHANGED gameVars /\ UNCHANGED <<queue, tick, requests>>
      /\ \/ wpc = "write" /\ wpc' = "fill"
         \/ wpc = "fill" /\ wpc' = "upload"
      /\ \A i \in Ids : i # tick.id => files'[i] = files[i]
  BY DEF CreateFile, FillFile, ControlsKept, RInv, RecordingType
<1>2. tick.id \in Ids /\ tick.ended /\ InWork = {tick.id} /\ InWork' = InWork
  <2>1. tick.id \in Ids /\ tick.ended
    BY <1>1 DEF RInv, HandInv, Taken, Ended, AnyTick
  <2> QED
    BY <1>1, <2>1 DEF InWork, Taken
<1>3. /\ files'[tick.id].there
      /\ CreateFile => ~files'[tick.id].whole /\ wpc' = "fill"
      /\ FillFile => files'[tick.id].whole /\ wpc' = "upload"
  <2> DEFINE created == [NoFile EXCEPT !.there = TRUE]
             filled == [there |-> TRUE, whole |-> TRUE, ticks |-> finished.ticks,
                        first |-> firstTick, last |-> lastTick, recorded |-> ticksRecorded,
                        session |-> recorded]
  <2>1. created.there /\ ~created.whole /\ filled.there /\ filled.whole
    BY DEF NoFile
  <2>2. CreateFile => files' = [files EXCEPT ![tick.id] = created] /\ wpc' = "fill"
    BY DEF CreateFile
  <2>3. FillFile => files' = [files EXCEPT ![tick.id] = filled] /\ wpc' = "upload"
    BY DEF FillFile
  <2> HIDE DEF created, filled
  <2> QED
    BY <1>2, <2>1, <2>2, <2>3 DEF RInv, RecordingType
<1>4. ~files[tick.id].whole
  BY <1>1, <1>2 DEF FinalInv, SpentInv, OnDisk
<1>5. OnDisk' \subseteq OnDisk \cup InWork
  BY <1>1, <1>2 DEF OnDisk
<1>6. EndedIds(queue)' = EndedIds(queue) /\ Distinct(queue)' = Distinct(queue)
  BY <1>1 DEF EndedIds, ElementsOf, Distinct
<1>7. \A i \in EndedIds(queue) \cup InWork \cup OnDisk : i \in Ids /\ IsSpent(i)'
  BY <1>1, SpentStays DEF SpentInv
<1>8. SpentInv'
  BY <1>1, <1>2, <1>5, <1>6, <1>7 DEF SpentInv
<1>9. \A i \in Ids : files[i].whole => files'[i] = files[i]
  BY <1>1, <1>4
<1>10. FinalInv'
  <2>1. \A i \in Ids : files'[i].whole => files'[i].there
    BY <1>1, <1>3 DEF FinalInv
  <2>2. \A r \in requests' : r.id \in Ids /\ files'[r.id].whole /\ r.content = files'[r.id]
    BY <1>1, <1>9 DEF FinalInv, RequestsMatchFiles
  <2>3. wpc' = "fill" => ~files'[tick'.id].whole
    BY <1>1, <1>3
  <2>4. wpc' \in {"upload", "reset"} => files'[tick'.id].whole
    BY <1>1, <1>3
  <2> QED
    BY <2>1, <2>2, <2>3, <2>4 DEF FinalInv, RequestsMatchFiles
<1> QED
  BY <1>8, <1>9, <1>10

LEMMA SpentInit == Init => SpentInv /\ FinalInv
<1> SUFFICES ASSUME Init PROVE SpentInv /\ FinalInv
  OBVIOUS
<1>1. queue = <<>> /\ wpc = "top" /\ requests = {} /\ \A i \in Ids : files[i] = NoFile
  BY DEF Init, WorkerInit
<1>2. EndedIds(queue) = {} /\ Distinct(queue) /\ InWork = {} /\ OnDisk = {}
  BY <1>1 DEF EndedIds, ElementsOf, Distinct, InWork, OnDisk, Taken, NoFile
<1>3. FinalInv
  BY <1>1, NoFileType DEF FinalInv, RequestsMatchFiles
<1> QED
  BY <1>2, <1>3 DEF SpentInv

LEMMA SpentStep ==
  RInv /\ GInv /\ SpentInv /\ FinalInv /\ [Next]_vars =>
    /\ SpentInv' /\ FinalInv'
    /\ \A i \in Ids : files[i].whole => files'[i] = files[i]
<1> SUFFICES ASSUME RInv, GInv, SpentInv, FinalInv, [Next]_vars
             PROVE  /\ SpentInv' /\ FinalInv'
                    /\ \A i \in Ids : files[i].whole => files'[i] = files[i]
  OBVIOUS
<1>1. CASE PlayHalo \/ ProduceTick \/ UserToggles \/ RequestShutdown \/ UNCHANGED vars
  <2>1. files' = files
    BY <1>1 DEF PlayHalo, ProduceTick, UserToggles, RequestShutdown, vars, workerVars, diskVars
  <2> QED
    BY <1>1, <2>1, OutsideSpent
<1>2. CASE CreateFile \/ FillFile
  BY <1>2, WritesSpent
<1>3. CASE Worker /\ ~(CreateFile \/ FillFile)
  <2>1. files' = files
    BY <1>3 DEF Worker, Stop, TakeDiscardRequest, Listen, ReceiveTimeout, DeclineTick, TakeTick,
         OpenRecording, OpenFails, ContinueRecording, PushTick, SkipTick, PushFails, FinishSpool,
         FinishFails, WriteFails, RequestUpload, RequestFails, SkipUpload, ResetRecording,
         CountTick, Fail, Die, diskVars
  <2>2. CASE \/ Stop \/ TakeDiscardRequest \/ DeclineTick \/ ResetRecording \/ OpenFails
             \/ PushFails \/ FinishFails \/ WriteFails
    BY <2>1, <2>2, DropsSpent
  <2>3. CASE \/ Listen \/ ReceiveTimeout \/ ContinueRecording \/ OpenRecording \/ FinishSpool
             \/ RequestUpload \/ RequestFails \/ SkipUpload
    BY <2>1, <2>3, MovesSpent
  <2>4. CASE TakeTick
    BY <2>1, <2>4, TakesSpent
  <2>5. CASE PushTick
    <3>1. wpc = "append" /\ (CountTick \/ Die)
      BY <2>5 DEF PushTick, Buffering
    <3> QED
      BY <2>1, <3>1, CountsSpent, DropsSpent
  <2>6. CASE SkipTick
    BY <2>1, <2>6, CountsSpent DEF SkipTick
  <2> QED
    BY <1>3, <2>2, <2>3, <2>4, <2>5, <2>6 DEF Worker
<1> QED
  BY <1>1, <1>2, <1>3 DEF Next

(* The upload asked of the relay is of a complete replay file, which still   *)
(* has the content that was measured and hashed whenever the relay gets to   *)
(* it (enqueue_replay_upload_request).                                       *)
THEOREM RequestsAreOfFiles == Spec => []RequestsMatchFiles
<1>1. FinalInv => RequestsMatchFiles
  BY DEF FinalInv
<1> QED
  BY <1>1, RecordingInit, RecordingStep, SpentInit, SpentStep, PTL DEF Spec

(* The file in hand has not been requested when it is complete: until then   *)
(* it was none of those that are.                                            *)
FreshInv == wpc = "upload" => \A r \in requests : r.id # tick.id

LEMMA FreshStep == RInv /\ FinalInv /\ FreshInv /\ [Next]_vars => FreshInv'
<1> SUFFICES ASSUME RInv, FinalInv, FreshInv, [Next]_vars, wpc' = "upload"
             PROVE  \A r \in requests' : r.id # tick'.id
  BY DEF FreshInv
<1>1. CASE FillFile
  <2>1. wpc = "fill" /\ requests' = requests /\ tick' = tick
    BY <1>1 DEF FillFile
  <2> QED
    BY <2>1 DEF FinalInv, RequestsMatchFiles
<1>2. CASE PlayHalo \/ ProduceTick \/ UserToggles \/ RequestShutdown \/ UNCHANGED vars
  <2>1. UNCHANGED <<wpc, requests, tick>>
    BY <1>2 DEF PlayHalo, ProduceTick, UserToggles, RequestShutdown, vars, workerVars
  <2> QED
    BY <2>1 DEF FreshInv
<1>3. CASE Worker /\ ~FillFile
  <2>1. wpc' # "upload"
    BY <1>3 DEF Worker, Stop, TakeDiscardRequest, Listen, ReceiveTimeout, DeclineTick, TakeTick,
         OpenRecording, OpenFails, ContinueRecording, PushTick, SkipTick, PushFails, FinishSpool,
         FinishFails, CreateFile, WriteFails, RequestUpload, RequestFails, SkipUpload,
         ResetRecording, CountTick, Fail, Die
  <2> QED
    BY <2>1
<1> QED
  BY <1>1, <1>2, <1>3 DEF Next

(* Each replay file is put to the relay once: every upload request is for a  *)
(* file that none was made for (replay_worker calls                          *)
(* enqueue_replay_upload_request after each write).                          *)
THEOREM RequestedOnce == Spec => [][RequestUpload => \A r \in requests : r.id # tick.id]_vars
<1>1. Init => FreshInv
  BY DEF Init, WorkerInit, FreshInv
<1>2. FreshInv => [RequestUpload => \A r \in requests : r.id # tick.id]_vars
  BY DEF FreshInv, RequestUpload
<1> QED
  BY <1>1, <1>2, FreshStep, RecordingInit, RecordingStep, SpentInit, SpentStep, PTL DEF Spec

(* A complete replay file is never written again, by however many games,     *)
(* reconnections and failed reads start times are guessed                    *)
(* (write_final_replay_file, replay_path).                                   *)
THEOREM FilesWrittenOnce == Spec => FilesAreFinal
<1>1. RInv /\ GInv /\ SpentInv /\ FinalInv /\ [Next]_vars
        => [\A i \in Ids : files[i].whole => files'[i] = files[i]]_vars
  BY SpentStep
<1> QED
  BY <1>1, RecordingInit, RecordingStep, SpentInit, SpentStep, PTL DEF Spec, FilesAreFinal

-----------------------------------------------------------------------------
(* A file mixes two games only when the end of the earlier was never seen.  *)
(* Ticks come in the order of the games, and while a tick of a game whose   *)
(* end was seen is kept, the tick that ended it is still to be processed,   *)
(* so that no later game gets into the same recording.                      *)

Hand == IF wpc \in Taken THEN {tick} ELSE {}
Pending == ElementsOf(queue) \cup Hand
OnTheWay == Pending \cup ElementsOf(recorded)
Held == ElementsOf(recorded) \cup Hand \cup {t \in ElementsOf(queue) : t.id # NoId}

LineInv ==
  /\ \A t \in OnTheWay : /\ t \in AnyTick /\ t.n <= lastGameInfo.n /\ t.game <= game
                         /\ t.ended => t.id # NoId
  /\ \A s, t \in OnTheWay : s.n <= t.n => s.game <= t.game
EndInv ==
  \A t \in Held : t.game \in closed =>
    \E e \in Pending : e.ended /\ e.game = t.game /\ t.n <= e.n
LastInv ==
  wpc \in Ended => /\ tick = lastTick /\ tick \in ElementsOf(recorded)
                   /\ \A s \in ElementsOf(recorded) : s.n <= tick.n
OneGame(f) ==
  /\ f.last.game \in Nat /\ f.last.game <= game
  /\ \A t \in ElementsOf(f.session) : /\ t.game \in Nat /\ t.game <= f.last.game
                                      /\ t.game # f.last.game => t.game \notin closed
MixInv == \A f \in WholeFiles : OneGame(f)
DeadInv == ~Alive => queue = <<>>
HoldInv == LineInv /\ EndInv /\ LastInv /\ MixInv /\ DeadInv

(* What is taken from the channel and what is left are all there was. *)
LEMMA HeadAndTail ==
  ASSUME NEW s \in Seq(AnyTick), s # <<>>
  PROVE  ElementsOf(s) = {Head(s)} \cup ElementsOf(Tail(s))
<1>1. /\ Len(s) \in Nat \ {0} /\ Head(s) = s[1] /\ Len(Tail(s)) = Len(s) - 1
      /\ \A i \in 1..(Len(s) - 1) : Tail(s)[i] = s[i + 1]
  OBVIOUS
<1>2. ASSUME NEW i \in 1..Len(s), i # 1 PROVE i - 1 \in 1..(Len(s) - 1) /\ Tail(s)[i - 1] = s[i]
  BY <1>1, <1>2
<1>3. ASSUME NEW i \in 1..(Len(s) - 1) PROVE i + 1 \in 1..Len(s) /\ Tail(s)[i] = s[i + 1]
  BY <1>1
<1>4. 1 \in 1..Len(s)
  BY <1>1
<1>5. ElementsOf(s) \subseteq {Head(s)} \cup ElementsOf(Tail(s))
  BY <1>1, <1>2 DEF ElementsOf
<1>6. {Head(s)} \cup ElementsOf(Tail(s)) \subseteq ElementsOf(s)
  BY <1>1, <1>3, <1>4 DEF ElementsOf
<1> QED
  BY <1>5, <1>6

(* Steps that leave the ticks where they are. *)
LEMMA QuietHold ==
  ASSUME GInv, HoldInv, UNCHANGED <<queue, recorded, lastGameInfo, closed, files>>,
         game' \in Nat, game <= game', Hand' = Hand, Alive' <=> Alive,
         wpc' \in Ended => wpc \in Ended /\ tick' = tick /\ lastTick' = lastTick
  PROVE  HoldInv'
<1>1. /\ ElementsOf(queue)' = ElementsOf(queue) /\ ElementsOf(recorded)' = ElementsOf(recorded)
      /\ WholeFiles' = WholeFiles
  BY DEF ElementsOf, WholeFiles
<1>2. Pending' = Pending /\ OnTheWay' = OnTheWay /\ Held' = Held
  BY <1>1 DEF Pending, OnTheWay, Held
<1>3. game \in Nat /\ \A t \in AnyTick : t.game \in Nat
  BY DEF GInv, MetaType, AnyTick
<1>4. LineInv'
  BY <1>2, <1>3 DEF HoldInv, LineInv
<1>5. EndInv'
  BY <1>2 DEF HoldInv, EndInv
<1>6. LastInv'
  BY <1>1 DEF HoldInv, LastInv
<1>7. ASSUME NEW f \in WholeFiles PROVE OneGame(f)'
  <2>1. OneGame(f)
    BY DEF HoldInv, MixInv
  <2>2. ElementsOf(f.session)' = ElementsOf(f.session)
    BY DEF ElementsOf
  <2> QED
    BY <1>3, <2>1, <2>2 DEF OneGame
<1>8. MixInv'
  BY <1>1, <1>7 DEF MixInv
<1> QED
  BY <1>4, <1>5, <1>6, <1>8 DEF HoldInv, DeadInv

LEMMA MixKept ==
  ASSUME HoldInv, UNCHANGED <<game, closed, files>>
  PROVE  MixInv'
<1>1. WholeFiles' = WholeFiles
  BY DEF WholeFiles
<1>2. ASSUME NEW f \in WholeFiles PROVE OneGame(f)'
  BY DEF HoldInv, MixInv, OneGame, ElementsOf
<1> QED
  BY <1>1, <1>2 DEF MixInv

(* The recording is gone, and with it ticks that came before those left. *)
LEMMA DropHold ==
  ASSUME HoldInv, UNCHANGED <<game, lastGameInfo, closed, files>>,
         recorded' = <<>>, wpc' \notin Taken, DeadInv',
         ElementsOf(queue') \subseteq ElementsOf(queue),
         \A e \in Pending \ ElementsOf(queue'), t \in ElementsOf(queue') : e.n < t.n
  PROVE  HoldInv'
<1>1. /\ ElementsOf(queue)' = ElementsOf(queue') /\ ElementsOf(recorded)' = {} /\ Hand' = {}
  BY DEF ElementsOf, Hand
<1>2. Pending' = ElementsOf(queue') /\ OnTheWay' = ElementsOf(queue')
      /\ Held' = {t \in ElementsOf(queue') : t.id # NoId}
  BY <1>1 DEF Pending, OnTheWay, Held
<1>3. ElementsOf(queue') \subseteq OnTheWay /\ Held' \subseteq Held
  BY <1>2 DEF Pending, OnTheWay, Held
<1>4. LineInv'
  BY <1>2, <1>3 DEF HoldInv, LineInv
<1>5. ASSUME NEW t \in Held', t.game \in closed
      PROVE  \E e \in Pending' : e.ended /\ e.game = t.game /\ t.n <= e.n
  <2>1. PICK e \in Pending : e.ended /\ e.game = t.game /\ t.n <= e.n
    BY <1>3, <1>5 DEF HoldInv, EndInv
  <2>2. t \in ElementsOf(queue') /\ t.n \in Nat /\ e.n \in Nat
    BY <1>2, <1>3 DEF HoldInv, LineInv, OnTheWay, AnyTick
  <2>3. e \in ElementsOf(queue')
    BY <2>1, <2>2
  <2> QED
    BY <1>2, <2>1, <2>3
<1>6. EndInv'
  BY <1>5 DEF EndInv
<1>7. LastInv'
  BY DEF LastInv, Ended, Taken
<1> QED
  BY <1>4, <1>6, <1>7, MixKept DEF HoldInv

LEMMA DropsHold ==
  ASSUME RInv, OrderInv, HoldInv,
         \/ Stop \/ TakeDiscardRequest \/ DeclineTick \/ ResetRecording \/ OpenFails
         \/ PushFails \/ FinishFails \/ WriteFails \/ Die
  PROVE  HoldInv'
<1>1. /\ UNCHANGED <<game, lastGameInfo, closed, files>> /\ wpc' \notin Taken
  BY DEF Stop, TakeDiscardRequest, DeclineTick, ResetRecording, OpenFails, PushFails, FinishFails,
         WriteFails, Fail, Die, ControlsKept, gameVars, tickVars, haloVars, Taken
<1>2. recorded' = <<>>
  <2>1. CASE OpenFails
    <3>1. firstTick = NoTick /\ wpc = "open" /\ recorded' = recorded
      BY <2>1 DEF OpenFails
    <3>2. NoRecording \/ firstTick \in AnyTick
      BY <3>1 DEF RInv, RecordingInv, InRecording
    <3> QED
      BY <3>1, <3>2, NoTickFacts DEF NoRecording
  <2>2. CASE ~OpenFails
    BY <2>2 DEF Stop, TakeDiscardRequest, DeclineTick, ResetRecording, PushFails, FinishFails,
         WriteFails, Fail, Die, GiveUp, FollowRecording, ForgetRecording
  <2> QED
    BY <2>1, <2>2
<1>3. ElementsOf(queue') \subseteq ElementsOf(queue)
      /\ \A e \in Pending \ ElementsOf(queue'), t \in ElementsOf(queue') : e.n < t.n
  <2>1. CASE DeclineTick
    <3>1. /\ queue \in Seq(AnyTick) /\ queue # <<>> /\ queue' = Tail(queue) /\ Hand = {}
      BY <2>1 DEF DeclineTick, RInv, TickType, Hand, Taken
    <3>2. /\ ElementsOf(queue') \subseteq ElementsOf(queue)
          /\ \A t \in ElementsOf(queue') : Head(queue).n < t.n
      BY <3>1, TailElements DEF OrderInv, QueueInv
    <3>3. ElementsOf(queue) = {Head(queue)} \cup ElementsOf(queue')
      BY <3>1, HeadAndTail
    <3> QED
      BY <3>1, <3>2, <3>3 DEF Pending
  <2>2. CASE TakeDiscardRequest
    BY <2>2 DEF TakeDiscardRequest, Pending, Hand, Taken
  <2>3. CASE ResetRecording
    <3>1. queue' = queue /\ wpc = "reset"
      BY <2>3 DEF ResetRecording
    <3>2. tick \in ElementsOf(recorded)
      BY <3>1 DEF HoldInv, LastInv, Ended
    <3>3. \A t \in ElementsOf(queue) : tick.n < t.n
      BY <3>2 DEF OrderInv, SeenInv, Seen
    <3> QED
      BY <3>1, <3>3 DEF Pending, Hand, Taken
  <2>4. CASE Stop \/ OpenFails \/ PushFails \/ FinishFails \/ WriteFails \/ Die
    <3>1. queue' = <<>>
      BY <2>4 DEF Stop, OpenFails, PushFails, FinishFails, WriteFails, Fail, Die
    <3>2. ElementsOf(queue') = {}
      BY <3>1 DEF ElementsOf
    <3> QED
      BY <3>2
  <2> QED
    BY <2>1, <2>2, <2>3, <2>4
<1>4. DeadInv'
  BY DEF Stop, TakeDiscardRequest, DeclineTick, ResetRecording, OpenFails, PushFails, FinishFails,
         WriteFails, Fail, Die, DeadInv, Alive
<1> QED
  BY <1>1, <1>2, <1>3, <1>4, DropHold

LEMMA TakesHold ==
  ASSUME RInv, HoldInv, TakeTick
  PROVE  HoldInv'
<1>1. /\ UNCHANGED <<game, lastGameInfo, closed, files, recorded>> /\ wpc = "recv"
      /\ queue \in Seq(AnyTick) /\ queue # <<>> /\ queue' = Tail(queue)
      /\ \/ Head(queue).id # NoId /\ wpc' = "open" /\ tick' = Head(queue)
         \/ Head(queue).id = NoId /\ wpc' = "top"
  BY DEF TakeTick, HasGame, ControlsKept, gameVars, tickVars, haloVars, historyVars, diskVars,
         RInv, TickType
<1>2. ElementsOf(queue) = {Head(queue)} \cup ElementsOf(queue') /\ Hand = {}
      /\ Hand' = IF Head(queue).id # NoId THEN {Head(queue)} ELSE {}
  BY <1>1, HeadAndTail DEF Hand, Taken
<1>3. ElementsOf(queue)' = ElementsOf(queue') /\ ElementsOf(recorded)' = ElementsOf(recorded)
  BY <1>1 DEF ElementsOf
<1>4. /\ OnTheWay' \subseteq OnTheWay /\ Held' \subseteq Held
      /\ \A e \in Pending : e.id # NoId => e \in Pending'
  BY <1>2, <1>3 DEF Pending, OnTheWay, Held
<1>5. \A e \in Pending : e.ended => e.id # NoId
  BY DEF HoldInv, LineInv, OnTheWay
<1>6. LineInv'
  BY <1>1, <1>4 DEF HoldInv, LineInv
<1>7. EndInv'
  BY <1>1, <1>4, <1>5 DEF HoldInv, EndInv
<1>8. LastInv'
  BY <1>1 DEF LastInv, Ended
<1>9. DeadInv'
  BY <1>1 DEF DeadInv, Alive
<1> QED
  BY <1>1, <1>6, <1>7, <1>8, <1>9, MixKept DEF HoldInv

LEMMA CountsHold ==
  ASSUME RInv, OrderInv, HoldInv, wpc = "append", CountTick
  PROVE  HoldInv'
<1>1. /\ UNCHANGED <<game, lastGameInfo, closed, files, queue>>
      /\ recorded' = Append(recorded, tick) /\ lastTick' = tick
      /\ \/ tick.ended /\ wpc' = "finish" /\ tick' = tick
         \/ ~tick.ended /\ wpc' = "top"
  BY DEF CountTick, ControlsKept, gameVars, tickVars, haloVars
<1>2. tick \in AnyTick /\ recorded \in Seq(AnyTick) /\ ElementsOf(recorded) \subseteq AnyTick
  BY Elements DEF RInv, HandInv, TickType, Taken
<1>3. ElementsOf(recorded)' = ElementsOf(recorded) \cup {tick}
      /\ ElementsOf(queue)' = ElementsOf(queue)
  <2>1. ElementsOf(recorded') = ElementsOf(recorded) \cup {tick}
    BY <1>1, <1>2, Elements
  <2> QED
    BY <1>1, <2>1 DEF ElementsOf
<1>4. Hand = {tick} /\ Hand' = IF tick.ended THEN {tick} ELSE {}
  BY <1>1 DEF Hand, Taken
<1>5. /\ OnTheWay' = OnTheWay /\ Held' = Held
      /\ \A e \in Pending : e.ended => e \in Pending'
  BY <1>3, <1>4 DEF Pending, OnTheWay, Held
<1>6. LineInv'
  BY <1>1, <1>5 DEF HoldInv, LineInv
<1>7. EndInv'
  BY <1>1, <1>5 DEF HoldInv, EndInv
<1>8. LastInv'
  <2>1. \A s \in ElementsOf(recorded) : s.n < tick.n
    BY DEF OrderInv, NextInv, InHand, Seen
  <2>2. \A s \in ElementsOf(recorded)' : s.n <= tick.n
    BY <1>2, <1>3, <2>1 DEF AnyTick
  <2> QED
    BY <1>1, <1>3, <2>2 DEF LastInv, Ended
<1>9. DeadInv'
  BY <1>1 DEF DeadInv, Alive
<1> QED
  BY <1>1, <1>6, <1>7, <1>8, <1>9, MixKept DEF HoldInv

(* The file is that of the game the tick in hand ended. *)
LEMMA RecordingIsOneGame ==
  ASSUME RInv, OrderInv, HoldInv, wpc \in Ended, game \in Nat
  PROVE  /\ lastTick.game \in Nat /\ lastTick.game <= game
         /\ \A t \in ElementsOf(recorded) :
              /\ t.game \in Nat /\ t.game <= lastTick.game
              /\ t.game # lastTick.game => t.game \notin closed
<1>1. /\ tick = lastTick /\ tick \in ElementsOf(recorded) /\ Hand = {tick}
      /\ \A s \in ElementsOf(recorded) : s.n <= tick.n
  BY DEF HoldInv, LastInv, Hand, Ended, Taken
<1>2. \A t \in OnTheWay : t.game \in Nat /\ t.n \in Nat /\ t.game <= game
  BY DEF HoldInv, LineInv, AnyTick
<1>3. tick \in OnTheWay /\ ElementsOf(recorded) \subseteq OnTheWay \cap Held
  BY <1>1 DEF OnTheWay, Held
<1>4. ASSUME NEW t \in ElementsOf(recorded)
      PROVE  t.game <= tick.game /\ (t.game # tick.game => t.game \notin closed)
  <2>1. t.game <= tick.game
    BY <1>1, <1>3 DEF HoldInv, LineInv
  <2>2. ASSUME t.game \in closed PROVE t.game = tick.game
    <3>1. PICK e \in Pending : e.game = t.game
      BY <1>3, <2>2 DEF HoldInv, EndInv
    <3>2. e \in OnTheWay /\ (e \in ElementsOf(queue) \/ e = tick)
      BY <1>1 DEF Pending, OnTheWay
    <3>3. e \in ElementsOf(queue) => tick.n < e.n
      BY <1>1 DEF OrderInv, SeenInv, Seen
    <3>4. tick.n <= e.n
      BY <1>2, <1>3, <3>2, <3>3
    <3>5. tick.game <= e.game
      BY <1>3, <3>2, <3>4 DEF HoldInv, LineInv
    <3> QED
      BY <1>2, <1>3, <2>1, <3>1, <3>5
  <2> QED
    BY <2>1, <2>2
<1> QED
  BY <1>1, <1>2, <1>3, <1>4


LEMMA WritesHold ==
  ASSUME RInv, GInv, OrderInv, HoldInv, CreateFile \/ FillFile
  PROVE  HoldInv'
<1>1. /\ UNCHANGED <<game, lastGameInfo, closed, queue, recorded, tick, lastTick>>
      /\ wpc \in Taken /\ wpc' \in Taken /\ wpc \in Ended
  BY DEF CreateFile, FillFile, ControlsKept, gameVars, tickVars, haloVars, historyVars,
         recordingVars, Taken, Ended
<1>2. /\ ElementsOf(queue)' = ElementsOf(queue) /\ ElementsOf(recorded)' = ElementsOf(recorded)
      /\ Hand' = Hand
  BY <1>1 DEF ElementsOf, Hand
<1>3. Pending' = Pending /\ OnTheWay' = OnTheWay /\ Held' = Held
  BY <1>2 DEF Pending, OnTheWay, Held
<1>4. LineInv' /\ EndInv' /\ LastInv' /\ DeadInv'
  BY <1>1, <1>2, <1>3 DEF HoldInv, LineInv, EndInv, LastInv, DeadInv, Alive, Taken
<1>5. ASSUME NEW f \in WholeFiles PROVE OneGame(f)'
  BY <1>1 DEF HoldInv, MixInv, OneGame, ElementsOf
<1>6. files \in [Ids -> AnyFile] /\ game \in Nat
  BY DEF RInv, RecordingType, GInv, MetaType
<1>7. CASE CreateFile
  <2> DEFINE new == [NoFile EXCEPT !.there = TRUE]
  <2>1. ~new.whole /\ files' = [files EXCEPT ![tick.id] = new]
    BY <1>7, NoFileType DEF CreateFile
  <2> HIDE DEF new
  <2>2. WholeFiles' \subseteq WholeFiles
    BY <1>6, <2>1 DEF WholeFiles
  <2> QED
    BY <1>4, <1>5, <2>2 DEF HoldInv, MixInv
<1>8. CASE FillFile
  <2> DEFINE new == [there |-> TRUE, whole |-> TRUE, ticks |-> finished.ticks,
                     first |-> firstTick, last |-> lastTick, recorded |-> ticksRecorded,
                     session |-> recorded]
  <2>1. new.session = recorded /\ new.last = lastTick /\ files' = [files EXCEPT ![tick.id] = new]
    BY <1>8 DEF FillFile
  <2> HIDE DEF new
  <2>2. WholeFiles' \subseteq WholeFiles \cup {new}
    BY <1>6, <2>1 DEF WholeFiles
  <2>3. ASSUME NEW f \in WholeFiles' PROVE OneGame(f)'
    <3>1. CASE f = new
      <4>1. OneGame(f)
        BY <1>1, <1>6, <2>1, <3>1, RecordingIsOneGame DEF OneGame
      <4> QED
        BY <1>1, <4>1 DEF OneGame, ElementsOf
    <3> QED
      BY <1>5, <2>2, <3>1
  <2>4. MixInv'
    BY <2>3 DEF MixInv
  <2> QED
    BY <1>4, <2>4 DEF HoldInv
<1> QED
  BY <1>7, <1>8

(* Without a worker nothing is waiting. *)
LEMMA DeadHold ==
  ASSUME RInv, HoldInv, ~Alive
  PROVE  Pending = {} /\ OnTheWay = {} /\ Held = {}
<1>1. recorded = <<>> /\ queue = <<>> /\ Hand = {}
  BY DEF Alive, RInv, RecordingInv, NoRecording, Hand, Taken, HoldInv, DeadInv
<1>2. ElementsOf(recorded) = {} /\ ElementsOf(queue) = {}
  BY <1>1 DEF ElementsOf
<1> QED
  BY <1>1, <1>2 DEF Pending, OnTheWay, Held

(* A new tick comes last; if it is the end of its game, it is there to tell. *)
LEMMA ProducesHold ==
  ASSUME RInv, GInv, HoldInv, ProduceTick
  PROVE  HoldInv'
<1> DEFINE new == lastGameInfo'
<1>1. /\ UNCHANGED <<game, wpc, tick, files, recorded, lastTick>>
      /\ queue' = IF Alive THEN Append(queue, new) ELSE queue
      /\ Sample
  BY DEF ProduceTick, Sample, haloVars, historyVars, recordingVars, diskVars
<1>2. /\ new \in AnyTick /\ new.n = lastGameInfo.n + 1 /\ new.game = game
      /\ new.ended => new.id # NoId
      /\ new.ended <=> EndsGame(lastGameInfo)
      /\ new.id # NoId => new.ended \/ stage = "scoring"
      /\ closed' = closed \/ (closed' = closed \cup {game} /\ new.ended)
  <2>1. /\ new.game = game
        /\ new.id # NoId /\ ~EndsGame(lastGameInfo) => stage = "scoring"
        /\ closed' = IF EndsGame(lastGameInfo) /\ lastGameInfo.game = game
                       THEN closed \cup {game} ELSE closed
    BY <1>1 DEF Sample, TickId
  <2>2. /\ new \in AnyTick /\ new.n = lastGameInfo.n + 1
        /\ new.ended => new.id # NoId
        /\ new.ended <=> EndsGame(lastGameInfo)
    BY <1>1, SampleTick DEF RInv, TickType
  <2>3. new.id # NoId => new.ended \/ stage = "scoring"
    BY <2>1, <2>2
  <2>4. closed' = closed \/ (closed' = closed \cup {game} /\ new.ended)
    BY <2>1, <2>2
  <2> HIDE DEF new
  <2> QED
    BY <2>1, <2>2, <2>3, <2>4
<1>3. new.id # NoId /\ new.game \in closed' => new.ended
  <2>1. stage = "scoring" => game \notin closed
    BY DEF GInv, OpenInv
  <2> QED
    BY <1>2, <2>1
<1>4. /\ lastGameInfo.n \in Nat /\ game \in Nat
      /\ \A t \in OnTheWay : t \in AnyTick /\ t.n \in Nat /\ t.game \in Nat
  BY DEF RInv, TickType, MaybeTick, AnyTick, NoTick, GInv, MetaType, HoldInv, LineInv
<1>5. ElementsOf(recorded)' = ElementsOf(recorded) /\ Hand' = Hand /\ Alive' = Alive
  BY <1>1 DEF ElementsOf, Hand, Alive
<1>6. /\ Alive => ElementsOf(queue)' = ElementsOf(queue) \cup {new}
      /\ ~Alive => ElementsOf(queue)' = ElementsOf(queue)
  <2>1. queue \in Seq(AnyTick)
    BY DEF RInv, TickType
  <2>2. Alive => ElementsOf(queue') = ElementsOf(queue) \cup {new}
    BY <1>1, <1>2, <2>1, Elements
  <2> QED
    BY <1>1, <2>2 DEF ElementsOf
<1>7. /\ Alive => /\ Pending' = Pending \cup {new} /\ OnTheWay' = OnTheWay \cup {new}
                  /\ Held' = Held \cup (IF new.id # NoId THEN {new} ELSE {})
      /\ ~Alive => Pending' = {} /\ OnTheWay' = {} /\ Held' = {}
  <2>1. CASE Alive
    BY <1>5, <1>6, <2>1 DEF Pending, OnTheWay, Held
  <2>2. CASE ~Alive
    <3>1. Pending' = Pending /\ OnTheWay' = OnTheWay /\ Held' = Held
      BY <1>5, <1>6, <2>2 DEF Pending, OnTheWay, Held
    <3> QED
      BY <2>2, <3>1, DeadHold
  <2> QED
    BY <2>1, <2>2
<1> HIDE DEF new
<1>8. LineInv'
  <2>1. \A t \in OnTheWay : t.n <= lastGameInfo.n /\ t.game <= game /\ (t.ended => t.id # NoId)
    BY DEF HoldInv, LineInv
  <2>2. \A t \in OnTheWay' : /\ t \in AnyTick /\ t.n <= new.n /\ t.game <= game
                             /\ t.ended => t.id # NoId
    BY <1>2, <1>4, <1>7, <2>1
  <2>3. ASSUME NEW s \in OnTheWay', NEW t \in OnTheWay', s.n <= t.n
        PROVE  s.game <= t.game
    <3>1. CASE t = new
      BY <1>2, <2>2, <3>1
    <3>2. CASE t \in OnTheWay
      <4>1. s # new
        BY <1>2, <1>4, <2>1, <2>3, <3>2
      <4>2. s \in OnTheWay
        BY <1>7, <4>1
      <4> QED
        BY <2>3, <3>2, <4>2 DEF HoldInv, LineInv
    <3> QED
      BY <1>7, <3>1, <3>2
  <2> QED
    BY <1>1, <2>2, <2>3 DEF LineInv, new
<1>9. EndInv'
  <2>1. ASSUME NEW t \in Held', t.game \in closed'
        PROVE  \E e \in Pending' : e.ended /\ e.game = t.game /\ t.n <= e.n
    <3>1. CASE t = new
      <4>1. new \notin OnTheWay /\ new.n \in Nat
        BY <1>2, <1>4 DEF HoldInv, LineInv
      <4>2. new \notin Held
        BY <4>1 DEF Held, OnTheWay, Pending
      <4>3. new.id # NoId /\ new \in Pending'
        BY <1>7, <2>1, <3>1, <4>2
      <4>4. new.ended
        BY <1>3, <2>1, <3>1, <4>3
      <4> QED
        BY <3>1, <4>1, <4>3, <4>4
    <3>2. CASE t # new
      <4>1. t \in Held /\ t \in OnTheWay /\ Alive
        BY <1>7, <2>1, <3>2 DEF Held, OnTheWay, Pending
      <4>2. CASE t.game \in closed
        BY <1>7, <4>1, <4>2 DEF HoldInv, EndInv
      <4>3. CASE t.game \notin closed
        <5>1. t.game = game /\ new.ended
          BY <1>2, <2>1, <4>3
        <5>2. t.n <= new.n
          BY <1>2, <1>4, <4>1 DEF HoldInv, LineInv
        <5> QED
          BY <1>2, <1>7, <4>1, <5>1, <5>2
      <4> QED
        BY <4>2, <4>3
    <3> QED
      BY <3>1, <3>2
  <2> QED
    BY <2>1 DEF EndInv
<1>10. LastInv' /\ DeadInv'
  BY <1>1, <1>5 DEF HoldInv, LastInv, DeadInv
<1>11. MixInv'
  <2>1. WholeFiles' = WholeFiles
    BY <1>1 DEF WholeFiles
  <2>2. ASSUME NEW f \in WholeFiles PROVE OneGame(f)'
    <3>1. OneGame(f)
      BY DEF HoldInv, MixInv
    <3>2. ElementsOf(f.session)' = ElementsOf(f.session)
      BY DEF ElementsOf
    <3>3. \A t \in ElementsOf(f.session) : t.game # f.last.game => t.game # game
      BY <1>4, <3>1 DEF OneGame
    <3> QED
      BY <1>1, <1>2, <3>1, <3>2, <3>3 DEF OneGame
  <2> QED
    BY <2>1, <2>2 DEF MixInv
<1> QED
  BY <1>8, <1>9, <1>10, <1>11 DEF HoldInv

LEMMA OutsideHold ==
  ASSUME RInv, GInv, HoldInv,
         PlayHalo \/ ProduceTick \/ UserToggles \/ RequestShutdown \/ UNCHANGED vars
  PROVE  HoldInv'
<1>1. game \in Nat
  BY DEF GInv, MetaType
<1>2. CASE PlayHalo \/ UserToggles \/ RequestShutdown \/ UNCHANGED vars
  <2>1. /\ UNCHANGED <<wpc, tick, queue, recorded, files, lastTick, lastGameInfo, closed>>
        /\ game' \in {game, game + 1}
    BY <1>2 DEF PlayHalo, StartGame, FinishGame, LeaveGame, SampleFails, ReconnectXemu, UserToggles,
       RequestShutdown, vars, gameVars, haloVars, tickVars, workerVars, historyVars, diskVars, recordingVars
  <2>2. Hand' = Hand /\ Alive' = Alive /\ game' \in Nat /\ game <= game'
    BY <1>1, <2>1 DEF Hand, Alive
  <2> QED
    BY <2>1, <2>2, QuietHold
<1>3. CASE ProduceTick
  BY <1>3, ProducesHold
<1> QED
  BY <1>2, <1>3

LEMMA WorkerQuietHold ==
  ASSUME RInv, GInv, HoldInv,
         \/ Listen \/ ReceiveTimeout \/ ContinueRecording \/ OpenRecording \/ FinishSpool
         \/ RequestUpload \/ RequestFails \/ SkipUpload
  PROVE  HoldInv'
<1>1. /\ UNCHANGED <<queue, recorded, files, lastTick, lastGameInfo, closed, tick, game>>
      /\ wpc' \in Taken <=> wpc \in Taken
      /\ wpc' \in Ended => wpc \in Ended
      /\ wpc \notin {"stopped", "failed"} /\ wpc' \notin {"stopped", "failed"}
  BY DEF Listen, ReceiveTimeout, ContinueRecording, OpenRecording, FinishSpool, RequestUpload,
         RequestFails, SkipUpload, ControlsKept, gameVars, haloVars, tickVars, historyVars,
         diskVars, recordingVars, Taken, Ended
<1>2. game \in Nat /\ Hand' = Hand /\ (Alive' <=> Alive)
  BY <1>1 DEF GInv, MetaType, Hand, Alive
<1> QED
  BY <1>1, <1>2, QuietHold

LEMMA HoldInit == Init => HoldInv
<1> SUFFICES ASSUME Init PROVE HoldInv
  OBVIOUS
<1>1. WholeFiles = {} /\ wpc = "top" /\ queue = <<>> /\ recorded = <<>>
  BY NoFileType DEF Init, WorkerInit, WholeFiles
<1>2. ElementsOf(queue) = {} /\ ElementsOf(recorded) = {} /\ Hand = {}
  BY <1>1 DEF ElementsOf, Hand, Taken
<1> QED
  BY <1>1, <1>2 DEF HoldInv, LineInv, EndInv, LastInv, MixInv, DeadInv, OnTheWay, Pending, Held, Ended

LEMMA HoldStep == RInv /\ GInv /\ OrderInv /\ HoldInv /\ [Next]_vars => HoldInv'
<1> SUFFICES ASSUME RInv, GInv, OrderInv, HoldInv, [Next]_vars PROVE HoldInv'
  OBVIOUS
<1>1. CASE PlayHalo \/ ProduceTick \/ UserToggles \/ RequestShutdown \/ UNCHANGED vars
  BY <1>1, OutsideHold
<1>2. CASE Worker
  <2>1. CASE \/ Stop \/ TakeDiscardRequest \/ DeclineTick \/ ResetRecording \/ OpenFails
             \/ PushFails \/ FinishFails \/ WriteFails
    BY <2>1, DropsHold
  <2>2. CASE \/ Listen \/ ReceiveTimeout \/ ContinueRecording \/ OpenRecording \/ FinishSpool
             \/ RequestUpload \/ RequestFails \/ SkipUpload
    BY <2>2, WorkerQuietHold
  <2>3. CASE TakeTick
    BY <2>3, TakesHold
  <2>4. CASE PushTick
    <3>1. wpc = "append" /\ (CountTick \/ Die)
      BY <2>4 DEF PushTick, Buffering
    <3> QED
      BY <3>1, CountsHold, DropsHold
  <2>5. CASE SkipTick
    BY <2>5, CountsHold DEF SkipTick
  <2>6. CASE CreateFile \/ FillFile
    BY <2>6, WritesHold
  <2> QED
    BY <1>2, <2>1, <2>2, <2>3, <2>4, <2>5, <2>6 DEF Worker
<1> QED
  BY <1>1, <1>2 DEF Next

(* A replay file holds the ticks of one game, with those of an earlier one   *)
(* only if the end of that one was never seen, however late the worker gets  *)
(* to the ticks that wait for it (replay_worker, extract_events).            *)
THEOREM FilesAreOfOneGame == Spec => []FilesHoldOneGame
<1>1. HoldInv => FilesHoldOneGame
  BY DEF HoldInv, MixInv, OneGame, FilesHoldOneGame
<1> QED
  BY <1>1, RecordingInit, RecordingStep, OrderInit, OrderStep, HoldInit, HoldStep, PTL DEF Spec
=============================================================================
