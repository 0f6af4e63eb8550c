--------------------------- MODULE ReplayRecording ---------------------------
(***************************************************************************)
(* The replay worker of src/xemu-tools-rs/src/replay.rs, fed by the ticks  *)
(* of GameTicks.                                                           *)
(*                                                                         *)
(* The worker takes ticks from an unbounded channel, keeps the first and   *)
(* the last one of a recording in memory and streams all of them to a      *)
(* temporary spool file.  The tick that ends the game makes it write the   *)
(* replay file, copy the spool in, and ask the relay to upload the result. *)
(* Meanwhile the user switches saving, the recording of all ticks and      *)
(* uploads on and off, asks for the recording to be discarded or for a     *)
(* shutdown; every read of such a flag is a step of its own, since it may  *)
(* change between two of them.  Any I/O error ends the worker.             *)
(*                                                                         *)
(* What is said of a file is said of its ticks and its summary.  Its other *)
(* tables (events, game_meta, spawns, items, settings) are those of the    *)
(* last tick, as tick_once filled them, and are left out here.             *)
(***************************************************************************)
EXTENDS GameTicks, Sequences

CONSTANTS
  RelayEnabled, (* config.ws_relay_enabled                                 *)
  MaxQueue,     (* bound: ticks waiting for the worker                     *)
  MaxFaults,    (* bound: I/O errors                                       *)
  MaxToggles    (* bound: what the user switches or discards               *)

ASSUME RecordingBounds ==
  /\ RelayEnabled \in BOOLEAN
  /\ MaxQueue \in Nat /\ MaxFaults \in Nat /\ MaxToggles \in Nat

VARIABLES
  wpc,            (* where the worker stands                               *)
  tick,           (* game_info: the message in hand                        *)
  queue,          (* the replay channel                                    *)
  firstTick, lastTick, ticksRecorded,
  bufferComplete, (* tick_buffer_complete                                  *)
  spool,          (* tick_spool: the ticks pushed, or NoSpool              *)
  finished,       (* finished_tick_spool                                   *)
  spoolFiles,     (* temporary spool files on disk, one per recording      *)
  files,          (* the replay file of each id                            *)
  requests,       (* upload requests put in the relay channel              *)
  saveReplays, saveAllTicks, replayUploads, discardRequested, shutdown,
  recorded,       (* history: the ticks of this recording                  *)
  discarded,      (* history: ticks of recordings given up                 *)
  declined,       (* history: games whose end came while saving was off    *)
  leaked,         (* history: spool files whose opening failed half way    *)
  faults, toggles (* how much of the bounds is used                        *)

recordingVars == <<firstTick, lastTick, ticksRecorded, bufferComplete, spool, finished>>
diskVars == <<spoolFiles, files>>
settingVars == <<saveReplays, saveAllTicks, replayUploads, discardRequested, shutdown>>
historyVars == <<recorded, discarded, declined, leaked>>
boundVars == <<faults, toggles>>
workerVars == <<wpc, tick, queue, recordingVars, diskVars, requests, settingVars,
                historyVars, boundVars>>
vars == <<gameVars, workerVars>>

(* A spool file is named here by the first tick of its recording. *)
NoSpool == [file |-> 0, ticks |-> <<>>]

(* What a reader finds in a replay file, but for the tables of the last     *)
(* tick; whole: it was written to its end.                                  *)
(* session is what the recording really was, to compare with.               *)
NoFile == [there |-> FALSE, whole |-> FALSE, ticks |-> <<>>, first |-> NoTick,
           last |-> NoTick, recorded |-> 0, session |-> <<>>]

WorkerStages == {"top", "recv", "open", "append", "finish", "write", "fill", "upload",
                 "reset", "stopped", "failed"}
Alive == wpc \notin {"stopped", "failed"}

WorkerInit ==
  /\ wpc = "top" /\ tick = NoTick /\ queue = <<>>
  /\ firstTick = NoTick /\ lastTick = NoTick /\ ticksRecorded = 0
  /\ bufferComplete = TRUE /\ spool = NoSpool /\ finished = NoSpool
  /\ spoolFiles = {} /\ files = [i \in Ids |-> NoFile] /\ requests = {}
  /\ saveReplays \in BOOLEAN /\ saveAllTicks \in BOOLEAN /\ replayUploads \in BOOLEAN
  /\ discardRequested = FALSE /\ shutdown = FALSE
  /\ recorded = <<>> /\ discarded = {} /\ declined = {} /\ leaked = {}
  /\ faults = 0 /\ toggles = 0

Init == GameInit /\ WorkerInit

-----------------------------------------------------------------------------
(* The main loop and the user *)

(* enqueue_pipeline_value: the channel is unbounded, and takes ticks until  *)
(* the worker is gone.                                                      *)
ProduceTick ==
  /\ ~shutdown /\ Len(queue) < MaxQueue /\ Sample
  /\ queue' = IF Alive THEN Append(queue, lastGameInfo') ELSE queue
  /\ UNCHANGED <<wpc, tick, recordingVars, diskVars, requests, settingVars,
                 historyVars, boundVars>>

PlayHalo ==
  /\ StartGame \/ FinishGame \/ LeaveGame \/ SampleFails \/ ReconnectXemu
  /\ UNCHANGED workerVars

(* ToggleReplaySaving, ToggleSaveAllTicks, ToggleReplayUploads, the discard *)
(* command.                                                                 *)
UserToggles ==
  /\ toggles < MaxToggles /\ ~shutdown
  /\ toggles' = toggles + 1
  /\ \/ saveReplays' = ~saveReplays /\ UNCHANGED <<saveAllTicks, replayUploads, discardRequested>>
     \/ saveAllTicks' = ~saveAllTicks /\ UNCHANGED <<saveReplays, replayUploads, discardRequested>>
     \/ replayUploads' = ~replayUploads /\ UNCHANGED <<saveReplays, saveAllTicks, discardRequested>>
     \/ discardRequested' = TRUE /\ UNCHANGED <<saveReplays, saveAllTicks, replayUploads>>
  /\ UNCHANGED <<gameVars, wpc, tick, queue, recordingVars, diskVars, requests,
                 shutdown, historyVars, faults>>

RequestShutdown ==
  /\ ~shutdown /\ shutdown' = TRUE
  /\ UNCHANGED <<gameVars, wpc, tick, queue, recordingVars, diskVars, requests, saveReplays,
                 saveAllTicks, replayUploads, discardRequested, historyVars, boundVars>>

-----------------------------------------------------------------------------
(* The replay worker *)

ElementsOf(s) == {s[i] : i \in 1..Len(s)}
ControlsKept == UNCHANGED <<gameVars, settingVars, toggles>>

(* Mutant: reset_recording does not forget the first tick. *)
ForgetAllButFirst ==
  /\ firstTick' = firstTick /\ lastTick' = NoTick /\ ticksRecorded' = 0
  /\ bufferComplete' = TRUE

(* Mutant: reset_recording does not start counting again. *)
KeepCount ==
  /\ firstTick' = NoTick /\ lastTick' = NoTick /\ ticksRecorded' = ticksRecorded
  /\ bufferComplete' = TRUE

(* reset_recording; the rest of what it does is DropSpools. *)
ForgetRecording ==
  /\ firstTick' = NoTick /\ lastTick' = NoTick /\ ticksRecorded' = 0
  /\ bufferComplete' = TRUE

(* Mutant: dropping a finished spool leaves its file. *)
RemoveUnfinished == spoolFiles \ {spool.file}

(* What the destructors of TickSpool and FinishedTickSpool leave on disk. *)
WithoutSpools == spoolFiles \ {spool.file, finished.file}

DropSpools ==
  /\ spool' = NoSpool /\ finished' = NoSpool
  /\ spoolFiles' = WithoutSpools

(* The history goes with the recording the worker believes it is in. *)
FollowRecording == recorded' = IF firstTick' = NoTick THEN <<>> ELSE recorded

(* The recording is given up: a discard, saving off, a shutdown. *)
GiveUp ==
  /\ ForgetRecording /\ DropSpools /\ FollowRecording
  /\ discarded' = discarded \cup ElementsOf(recorded)

(* An error returned through `?`: the worker's locals and its end of the    *)
(* channel are dropped.                                                     *)
Die ==
  /\ wpc' = "failed" /\ tick' = NoTick /\ queue' = <<>>
  /\ ForgetRecording /\ DropSpools
  /\ recorded' = <<>>
  /\ ControlsKept
  /\ UNCHANGED <<files, requests, discarded, declined>>

Fault == faults < MaxFaults /\ faults' = faults + 1

Fail == Fault /\ Die /\ UNCHANGED leaked

(* The checks of the shutdown flag; a channel without senders has the same  *)
(* effect, and main requests the shutdown when it lets go of them.          *)
Stop ==
  /\ shutdown
  /\ wpc = "top" \/ (wpc = "recv" /\ queue # <<>>)
  /\ wpc' = "stopped" /\ tick' = NoTick /\ queue' = <<>>
  /\ GiveUp /\ ControlsKept
  /\ UNCHANGED <<files, requests, declined, leaked, faults>>

TakeDiscardRequest ==
  /\ wpc = "top" /\ ~shutdown /\ discardRequested
  /\ discardRequested' = FALSE
  /\ GiveUp
  /\ UNCHANGED <<gameVars, wpc, tick, queue, files, requests, saveReplays, saveAllTicks,
                 replayUploads, shutdown, declined, leaked, boundVars>>

(* Mutant: the loop does not look at the shutdown flag. *)
ListenRegardless ==
  /\ wpc = "top" /\ ~discardRequested
  /\ wpc' = "recv"
  /\ ControlsKept
  /\ UNCHANGED <<tick, queue, recordingVars, diskVars, requests, historyVars, faults>>

Listen ==
  /\ wpc = "top" /\ ~shutdown /\ ~discardRequested
  /\ wpc' = "recv"
  /\ ControlsKept
  /\ UNCHANGED <<tick, queue, recordingVars, diskVars, requests, historyVars, faults>>

ReceiveTimeout ==
  /\ wpc = "recv" /\ queue = <<>>
  /\ wpc' = "top"
  /\ ControlsKept
  /\ UNCHANGED <<tick, queue, recordingVars, diskVars, requests, historyVars, faults>>

(* A tick while saving is off ends the recording it would belong to. *)
DeclineTick ==
  /\ wpc = "recv" /\ queue # <<>> /\ ~shutdown /\ ~saveReplays
  /\ queue' = Tail(queue) /\ wpc' = "top"
  /\ GiveUp
  /\ declined' = IF Head(queue).ended THEN declined \cup {Head(queue).game} ELSE declined
  /\ ControlsKept
  /\ UNCHANGED <<tick, files, requests, leaked, faults>>

(* Mutant: ticks that cannot score are skipped, the last one among them. *)
ScoringOnly(t) == CanScore(t)

(* Only a tick with a game_id belongs to a recording. *)
HasGame(t) == t.id # NoId

TakeTick ==
  /\ wpc = "recv" /\ queue # <<>> /\ ~shutdown /\ saveReplays
  /\ queue' = Tail(queue)
  /\ IF HasGame(Head(queue))
       THEN tick' = Head(queue) /\ wpc' = "open"
       ELSE UNCHANGED tick /\ wpc' = "top"
  /\ ControlsKept
  /\ UNCHANGED <<recordingVars, diskVars, requests, historyVars, faults>>

(* The first tick: it decides whether all ticks are kept. *)
OpenRecording ==
  /\ wpc = "open" /\ firstTick = NoTick
  /\ firstTick' = tick
  /\ bufferComplete' = saveAllTicks
  /\ IF saveAllTicks
       THEN /\ spool' = [file |-> tick.n, ticks |-> <<>>]
            /\ spoolFiles' = spoolFiles \cup {tick.n}
       ELSE UNCHANGED <<spool, spoolFiles>>
  /\ wpc' = "append"
  /\ ControlsKept
  /\ UNCHANGED <<tick, queue, lastTick, ticksRecorded, finished, files, requests,
                 historyVars, faults>>

(* The file may have been created when starting its compressor fails. *)
OpenFails ==
  /\ wpc = "open" /\ firstTick = NoTick /\ saveAllTicks
  /\ Fault
  /\ leaked' \in {leaked, leaked \cup {tick.n}}
  /\ wpc' = "failed" /\ tick' = NoTick /\ queue' = <<>>
  /\ spoolFiles' = spoolFiles \cup leaked'
  /\ ControlsKept
  /\ UNCHANGED <<recordingVars, files, requests, recorded, discarded, declined>>

ContinueRecording ==
  /\ wpc = "open" /\ firstTick # NoTick
  /\ wpc' = "append"
  /\ ControlsKept
  /\ UNCHANGED <<tick, queue, recordingVars, diskVars, requests, historyVars, faults>>

(* What every tick of a recording does, spooled or not. *)
CountTick ==
  /\ lastTick' = tick /\ ticksRecorded' = ticksRecorded + 1
  /\ recorded' = Append(recorded, tick)
  /\ IF tick.ended
       THEN wpc' = "finish" /\ UNCHANGED tick
       ELSE wpc' = "top" /\ tick' = NoTick
  /\ ControlsKept
  /\ UNCHANGED <<queue, firstTick, finished, files, requests, discarded, declined, leaked,
                 faults>>

Buffering == wpc = "append" /\ saveAllTicks /\ bufferComplete

(* Without a spool, "tick spool missing while tick buffering is enabled". *)
PushTick ==
  /\ Buffering
  /\ IF spool # NoSpool
       THEN /\ CountTick
            /\ spool' = [spool EXCEPT !.ticks = Append(@, tick)]
            /\ UNCHANGED <<bufferComplete, spoolFiles>>
       ELSE Die /\ UNCHANGED <<leaked, faults>>

PushFails == Buffering /\ Fail

NoLongerComplete == FALSE

(* Recording all ticks is off, or was at an earlier tick of this recording: *)
(* the ones spooled so far are of no use.                                   *)
SkipTick ==
  /\ wpc = "append" /\ ~(saveAllTicks /\ bufferComplete)
  /\ CountTick
  /\ bufferComplete' = NoLongerComplete
  /\ spool' = NoSpool /\ spoolFiles' = spoolFiles \ {spool.file}

(* The game ended: TickSpool::finish, or the spool is discarded; the replay *)
(* directory exists from here on.                                           *)
FinishSpool ==
  /\ wpc = "finish"
  /\ IF bufferComplete
       THEN finished' = spool /\ UNCHANGED spoolFiles
       ELSE UNCHANGED finished /\ spoolFiles' = spoolFiles \ {spool.file}
  /\ spool' = NoSpool
  /\ wpc' = "write"
  /\ ControlsKept
  /\ UNCHANGED <<tick, queue, firstTick, lastTick, ticksRecorded, bufferComplete, files,
                 requests, historyVars, faults>>

FinishFails == wpc = "finish" /\ Fail

(* write_final_replay_file: File::create truncates what was there... *)
CreateFile ==
  /\ wpc = "write"
  /\ files' = [files EXCEPT ![tick.id] = [NoFile EXCEPT !.there = TRUE]]
  /\ wpc' = "fill"
  /\ ControlsKept
  /\ UNCHANGED <<tick, queue, recordingVars, spoolFiles, requests, historyVars, faults>>

(* ...and the summary and the spool are written; the last tick's tables,   *)
(* written between them, are left out.                                     *)
FillFile ==
  /\ wpc = "fill"
  /\ files' = [files EXCEPT ![tick.id] =
                 [there |-> TRUE, whole |-> TRUE, ticks |-> finished.ticks,
                  first |-> firstTick, last |-> lastTick, recorded |-> ticksRecorded,
                  session |-> recorded]]
  /\ wpc' = "upload"
  /\ ControlsKept
  /\ UNCHANGED <<tick, queue, recordingVars, spoolFiles, requests, historyVars, faults>>

(* Mutant: a file that could not be written is uploaded all the same. *)
UploadAnyway ==
  /\ wpc \in {"write", "fill"} /\ Fault
  /\ wpc' = "upload"
  /\ ControlsKept
  /\ UNCHANGED <<tick, queue, recordingVars, diskVars, requests, historyVars>>

WriteFails == wpc \in {"write", "fill"} /\ Fail

(* enqueue_replay_upload_request measures and hashes the file it finds. *)
RequestUpload ==
  /\ wpc = "upload" /\ RelayEnabled /\ replayUploads
  /\ requests' = requests \cup {[id |-> tick.id, content |-> files[tick.id]]}
  /\ wpc' = "reset"
  /\ ControlsKept
  /\ UNCHANGED <<tick, queue, recordingVars, diskVars, historyVars, faults>>

(* An error there is reported; the worker goes on. *)
RequestFails ==
  /\ wpc = "upload" /\ RelayEnabled /\ replayUploads
  /\ Fault
  /\ wpc' = "reset"
  /\ ControlsKept
  /\ UNCHANGED <<tick, queue, recordingVars, diskVars, requests, historyVars>>

SkipUpload ==
  /\ wpc = "upload" /\ ~(RelayEnabled /\ replayUploads)
  /\ wpc' = "reset"
  /\ ControlsKept
  /\ UNCHANGED <<tick, queue, recordingVars, diskVars, requests, historyVars, faults>>

ResetRecording ==
  /\ wpc = "reset"
  /\ ForgetRecording /\ DropSpools /\ FollowRecording
  /\ wpc' = "top" /\ tick' = NoTick
  /\ ControlsKept
  /\ UNCHANGED <<queue, files, requests, discarded, declined, leaked, faults>>

-----------------------------------------------------------------------------
Worker ==
  \/ Stop \/ TakeDiscardRequest \/ Listen \/ ReceiveTimeout
  \/ DeclineTick \/ TakeTick
  \/ OpenRecording \/ OpenFails \/ ContinueRecording
  \/ PushTick \/ SkipTick \/ PushFails
  \/ FinishSpool \/ FinishFails \/ CreateFile \/ FillFile \/ WriteFails
  \/ RequestUpload \/ RequestFails \/ SkipUpload \/ ResetRecording

Next == PlayHalo \/ ProduceTick \/ UserToggles \/ RequestShutdown \/ Worker

Spec == Init /\ [][Next]_vars

(* The worker's thread keeps running; the disk answers. *)
FairSpec == Spec /\ WF_vars(Worker)

-----------------------------------------------------------------------------
(* Properties *)

Ticks == TickRecord \cup {NoTick}
SpoolState == [file : 0..MaxSamples, ticks : Seq(TickRecord)]
ReplayFile == [there : BOOLEAN, whole : BOOLEAN, ticks : Seq(TickRecord), first : Ticks,
               last : Ticks, recorded : Nat, session : Seq(TickRecord)]

TypeOK ==
  /\ GameTypeOK
  /\ wpc \in WorkerStages /\ tick \in Ticks /\ queue \in Seq(TickRecord)
  /\ firstTick \in Ticks /\ lastTick \in Ticks /\ ticksRecorded \in Nat
  /\ bufferComplete \in BOOLEAN /\ spool \in SpoolState /\ finished \in SpoolState
  /\ spoolFiles \subseteq 1..MaxSamples /\ files \in [Ids -> ReplayFile]
  /\ requests \subseteq [id : Ids, content : ReplayFile]
  /\ {saveReplays, saveAllTicks, replayUploads, discardRequested, shutdown} \subseteq BOOLEAN
  /\ recorded \in Seq(TickRecord) /\ discarded \subseteq TickRecord
  /\ declined \subseteq 0..MaxGames /\ leaked \subseteq 1..MaxSamples
  /\ faults \in 0..MaxFaults /\ toggles \in 0..MaxToggles

WholeFiles == {files[i] : i \in {j \in Ids : files[j].whole}}

(* A replay file has all ticks of its recording or none, however saving all *)
(* of them was switched while it was going on, and its summary names the    *)
(* recording's first and last tick and counts the ticks between them.       *)
FilesAreFaithful ==
  \A f \in WholeFiles :
    /\ f.ticks \in {<<>>, f.session}
    /\ f.recorded = Len(f.session)
    /\ f.first = f.session[1] /\ f.last = f.session[f.recorded]

(* The ticks and the summary of a replay file are of two games only when    *)
(* the end of the earlier one was never seen (everybody left it, or it was  *)
(* missed): the hole extract_events marks with a FIXME is the only way a    *)
(* recording outlives its game.  (The events in a tick come from the main   *)
(* loop's own list and are not spoken of here.)                             *)
FilesHoldOneGame ==
  \A f \in WholeFiles : \A t \in ElementsOf(f.session) :
    t.game # f.last.game => t.game \notin closed

(* No tick of a recording that was discarded, or interrupted because saving *)
(* was off, ever turns up in a replay file or its summary.  (What the later *)
(* ticks of the game list as its events so far goes back further; a discard *)
(* does not clear that list.)                                               *)
DiscardedStaysOut ==
  \A f \in WholeFiles : (ElementsOf(f.session) \cup ElementsOf(f.ticks)) \cap discarded = {}

(* The only spool file on disk is the one of the recording in progress: none *)
(* outlives a save, a discard, an error or the worker.  (One whose opening   *)
(* failed after the file was created is the exception.)                     *)
NoStraySpool ==
  spoolFiles \ leaked =
    IF bufferComplete /\ firstTick # NoTick THEN {firstTick.n} ELSE {}

(* What the relay is asked to upload is a finished file, and the digest in  *)
(* the request stays that of the file.                                      *)
RequestsMatchFiles ==
  \A r \in requests : files[r.id].whole /\ r.content = files[r.id]

(* No later recording overwrites a replay file. *)
FilesAreFinal ==
  [][\A i \in Ids : files[i].whole => files'[i] = files[i]]_vars

(* A game whose end was seen while the worker is up is saved in the end,    *)
(* unless saving was off when its last tick arrived.                        *)
EndedGamesSaved ==
  \A g \in Games :
    (g \in closed) ~> (g \in declined \/ shutdown \/ ~Alive \/ \E f \in WholeFiles : f.last.game = g)

(* A shutdown request ends the worker, whatever it is doing. *)
ShutdownStops == shutdown ~> ~Alive
=============================================================================
