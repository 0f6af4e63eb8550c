-------------------------- MODULE CommandLifecycle --------------------------
(***************************************************************************)
(* Commands, shutdown and restart: main.rs, the command records of         *)
(* runtime.rs, the dispatch of tui.rs and the worker of update.rs.         *)
(*                                                                         *)
(* The user's commands go from the TUI to the main thread, which executes  *)
(* them, refuses them while it connects to xemu and QMP, or passes them on *)
(* to the update worker.  Each has a record on the panel, whose phase the  *)
(* executing thread keeps up to date.  A shutdown, asked for by the user   *)
(* or by the update worker, makes every thread leave its loop; main joins  *)
(* them and starts the updated program if there is one.                    *)
(*                                                                         *)
(* What the replay worker and the two network threads do is in other       *)
(* modules: here they only live.                                           *)
(***************************************************************************)
EXTENDS Naturals, Sequences, SequencesExt

CONSTANTS
  RelayEnabled, (* config.ws_relay_enabled                                 *)
  UpdateChecks, (* config.update_checks_enabled                            *)
  MaxRecords,   (* MAX_COMMAND_RECORDS                                     *)
  MaxCommands   (* bound: commands the user gives                          *)

ASSUME CommandBounds ==
  /\ {RelayEnabled, UpdateChecks} \subseteq BOOLEAN
  /\ MaxRecords \in Nat \ {0} /\ MaxCommands \in Nat

VARIABLES
  mainPc,       (* where the main thread stands                            *)
  inHand,       (* main: the command being executed or refused             *)
  reconnecting, (* main: the ReconnectXemu command that connects again     *)
  toJoin,       (* main: the threads still to be joined                    *)
  exitCode,     (* main: how it ends                                       *)
  commandRx,    (* channel from the TUI to main                            *)
  updateRx,     (* channel from main to the update worker                  *)
  updatePc,     (* where the update worker stands                          *)
  updateInHand, (* update worker: the command being executed               *)
  updatePhase,  (* status.update.phase                                     *)
  tuiPc,        (* where the TUI stands                                    *)
  tuiHolds,     (* TUI: the command recorded and not yet sent              *)
  seenPhase,    (* TUI: the update phase in its snapshot                   *)
  installModal, (* TUI: the confirmation of an installation is open        *)
  threads,      (* life of the other threads                               *)
  issued,       (* kinds of the commands so far; the id is the index       *)
  phase,        (* phase of each command (history once its record is gone) *)
  records,      (* the ids on the panel, oldest first                      *)
  shutdown, restart, relaunched

mainVars == <<mainPc, inHand, reconnecting, toJoin, exitCode>>
updateVars == <<updatePc, updateInHand, updatePhase>>
tuiVars == <<tuiPc, tuiHolds, seenPhase, installModal>>
flagVars == <<shutdown, restart, relaunched>>
vars == <<mainVars, commandRx, updateRx, updateVars, tuiVars, threads, issued, phase, records,
          flagVars>>

None == 0
Commands == 1..Len(issued)

(* relay: reconnect, retry and cancel alike; other: what main does at once  *)
(* by itself, which may fail (settings, QMP reconnect) or not.              *)
Kinds == {"shutdown", "reconnect xemu", "check", "install", "relay", "other"}
ForUpdateWorker(c) == issued[c] \in {"check", "install"}

Final == {"succeeded", "failed"}
Phases == {"queued", "running"} \cup Final

UpdatePhases == {"disabled", "idle", "checking", "up to date", "available", "installing",
                 "installed", "error"}

(* Replay worker, local websocket server, relay client. *)
Workers == {"replay", "local_ws", "relay"}

Init ==
  /\ mainPc = "connect" /\ inHand = None /\ reconnecting = None
  /\ toJoin = <<>> /\ exitCode = "ok"
  /\ commandRx = <<>> /\ updateRx = <<>>
  /\ updatePc = (IF UpdateChecks THEN "first check" ELSE "top") /\ updateInHand = None
  /\ updatePhase = (IF UpdateChecks THEN "checking" ELSE "disabled")
  /\ tuiPc = "top" /\ tuiHolds = None /\ seenPhase = "idle" /\ installModal = FALSE
  /\ threads = [w \in Workers |-> "unborn"]
  /\ issued = <<>> /\ phase = <<>> /\ records = <<>>
  /\ shutdown = FALSE /\ restart = FALSE /\ relaunched = FALSE

-----------------------------------------------------------------------------
(* Commands and channels *)

(* start_command, finish_command, fail_command. *)
SetPhase(c, p) == phase' = [phase EXCEPT ![c] = p]

(* queue_command: the oldest record goes, finished or not. *)
Record(recs, c) ==
  IF Len(recs) = MaxRecords THEN Append(Tail(recs), c) ELSE Append(recs, c)

(* main_loop owns the receiver of the TUI's channel and the sender of the   *)
(* update worker's: they go when it returns.  If it was never entered they  *)
(* stay with main to its end.                                               *)
MainLoopEntered == threads["replay"] # "unborn"
MainHoldsChannels == mainPc # "exited" /\ (mainPc = "join" => ~MainLoopEntered)

(* The relay's command channel: with the relay disabled, its receiver stays *)
(* in main's scope.                                                         *)
RelayReceiverOpen == RelayEnabled => threads["relay"] = "running"

-----------------------------------------------------------------------------
(* The TUI *)

TuiOthers == UNCHANGED <<mainVars, updateRx, updateVars, threads, flagVars>>

TuiStops ==
  /\ tuiPc = "top" /\ shutdown
  /\ tuiPc' = "stopped" /\ TuiOthers
  /\ UNCHANGED <<tuiHolds, seenPhase, installModal, commandRx, issued, phase, records>>

(* One turn of the loop: draw from a new snapshot when it is time to, then  *)
(* wait for a key.  The first snapshot may be older than the update worker. *)
TuiDraws ==
  /\ tuiPc = "top" /\ ~shutdown
  /\ tuiPc' = "poll" /\ seenPhase' \in {seenPhase, updatePhase}
  /\ TuiOthers
  /\ UNCHANGED <<tuiHolds, installModal, commandRx, issued, phase, records>>

NoKey ==
  /\ tuiPc = "poll" /\ tuiPc' = "top"
  /\ TuiOthers
  /\ UNCHANGED <<tuiHolds, seenPhase, installModal, commandRx, issued, phase, records>>

(* dispatch_command, first half: the command is on the panel. *)
Dispatch(k) ==
  /\ tuiPc = "poll" /\ Len(issued) < MaxCommands
  /\ issued' = Append(issued, k) /\ phase' = Append(phase, "queued")
  /\ tuiHolds' = Len(issued) + 1 /\ records' = Record(records, Len(issued) + 1)
  /\ tuiPc' = "send"
  /\ TuiOthers /\ UNCHANGED <<seenPhase, commandRx>>

(* U: an available update is confirmed first; otherwise look for one,       *)
(* unless the last snapshot shows the worker at it.                         *)
KeyU ==
  /\ tuiPc = "poll" /\ ~installModal
  /\ \/ /\ seenPhase = "available"
        /\ installModal' = TRUE /\ tuiPc' = "top"
        /\ TuiOthers
        /\ UNCHANGED <<tuiHolds, seenPhase, commandRx, issued, phase, records>>
     \/ /\ seenPhase \notin {"available", "checking", "installing", "installed"}
        /\ Dispatch("check") /\ UNCHANGED installModal

(* In the confirmation only yes, no and Ctrl-C mean something. *)
KeyInModal ==
  /\ tuiPc = "poll" /\ installModal /\ installModal' = FALSE
  /\ \/ Dispatch("install")
     \/ /\ tuiPc' = "top" /\ TuiOthers
        /\ UNCHANGED <<tuiHolds, seenPhase, commandRx, issued, phase, records>>

KeyForMain ==
  /\ UNCHANGED installModal
  /\ \E k \in Kinds \ {"check", "install"} :
       (installModal => k = "shutdown") /\ Dispatch(k)

(* dispatch_command, second half; after a shutdown the TUI leaves. *)
SendCommand ==
  /\ tuiPc = "send"
  /\ IF MainHoldsChannels
       THEN /\ commandRx' = Append(commandRx, tuiHolds)
            /\ tuiPc' = IF issued[tuiHolds] = "shutdown" THEN "stopped" ELSE "top"
            /\ UNCHANGED phase
       ELSE SetPhase(tuiHolds, "failed") /\ tuiPc' = "top" /\ UNCHANGED commandRx
  /\ tuiHolds' = None
  /\ TuiOthers /\ UNCHANGED <<seenPhase, installModal, issued, records>>

(* The terminal fails: the thread ends, nothing else does. *)
TuiFails ==
  /\ tuiPc \in {"top", "poll"} /\ tuiPc' = "stopped"
  /\ TuiOthers
  /\ UNCHANGED <<tuiHolds, seenPhase, installModal, commandRx, issued, phase, records>>

-----------------------------------------------------------------------------
(* The main thread *)

MainOthers == UNCHANGED <<updateVars, tuiVars, issued, records, restart, relaunched>>

(* The next command is taken from the channel.  What the update worker      *)
(* handles goes there; anything else is started.                            *)
TakeCommand(next) ==
  /\ commandRx # <<>> /\ commandRx' = Tail(commandRx)
  /\ IF ForUpdateWorker(Head(commandRx))
       THEN /\ IF updatePc = "stopped"
                 THEN SetPhase(Head(commandRx), "failed") /\ UNCHANGED updateRx
                 ELSE updateRx' = Append(updateRx, Head(commandRx)) /\ UNCHANGED phase
            /\ UNCHANGED <<mainPc, inHand>>
       ELSE /\ inHand' = Head(commandRx) /\ SetPhase(Head(commandRx), "running")
            /\ mainPc' = next
            /\ UNCHANGED updateRx
  /\ UNCHANGED <<reconnecting, toJoin, exitCode, threads, shutdown>> /\ MainOthers

(* process_connect_commands, called again and again while connecting. *)
TakeWhileConnecting == mainPc = "connect" /\ TakeCommand("refuse")

(* Mutant: what cannot be done while connecting is passed over. *)
RefuseSilently ==
  /\ mainPc = "refuse" /\ mainPc' = "connect" /\ inHand' = None
  /\ IF issued[inHand] = "shutdown"
       THEN shutdown' = TRUE /\ SetPhase(inHand, "succeeded")
       ELSE UNCHANGED <<phase, shutdown>>
  /\ UNCHANGED <<reconnecting, toJoin, exitCode, commandRx, updateRx, threads>> /\ MainOthers

Refuse ==
  /\ mainPc = "refuse" /\ mainPc' = "connect" /\ inHand' = None
  /\ IF issued[inHand] = "shutdown"
       THEN shutdown' = TRUE /\ SetPhase(inHand, "succeeded")
       ELSE SetPhase(inHand, "failed") /\ UNCHANGED shutdown
  /\ UNCHANGED <<reconnecting, toJoin, exitCode, commandRx, updateRx, threads>> /\ MainOthers

(* The handle of a thread that was started. *)
Handle(w) == IF threads[w] # "unborn" THEN <<w>> ELSE <<>>

(* Mutant: main joins the replay and update workers only. *)
JoinSome == Handle("replay") \o <<"update", "tui">>

(* The order in which finish_background_workers joins what was started. *)
JoinOrder ==
  Handle("replay") \o <<"update">> \o Handle("local_ws") \o Handle("relay") \o <<"tui">>

(* finish_background_workers *)
FinishWorkers(code) ==
  /\ mainPc' = "join" /\ shutdown' = TRUE /\ exitCode' = code
  /\ toJoin' = JoinOrder

(* Mutant: a shutdown interrupts a reconnect without a word. *)
InterruptSilently ==
  /\ mainPc = "connect" /\ commandRx = <<>>
  /\ IF shutdown
       THEN FinishWorkers("ok") /\ reconnecting' = None
       ELSE mainPc' = "attach" /\ UNCHANGED <<toJoin, exitCode, shutdown, reconnecting>>
  /\ UNCHANGED <<inHand, commandRx, updateRx, threads, phase>> /\ MainOthers

(* Mutant: only a shutdown command ends the waiting, not the flag. *)
PollRegardless ==
  /\ mainPc = "connect" /\ commandRx = <<>> /\ mainPc' = "attach"
  /\ UNCHANGED <<toJoin, exitCode, shutdown, reconnecting, phase>>
  /\ UNCHANGED <<inHand, commandRx, updateRx, threads>> /\ MainOthers

(* Between two polls main looks for the process, connects and attaches. *)
PollConnection ==
  /\ mainPc = "connect" /\ commandRx = <<>>
  /\ IF shutdown
       THEN /\ FinishWorkers("ok")
            /\ reconnecting' = None
            /\ IF reconnecting # None THEN SetPhase(reconnecting, "failed") ELSE UNCHANGED phase
       ELSE mainPc' = "attach" /\ UNCHANGED <<toJoin, exitCode, shutdown, reconnecting, phase>>
  /\ UNCHANGED <<inHand, commandRx, updateRx, threads>> /\ MainOthers

NotYetConnected ==
  /\ mainPc = "attach" /\ mainPc' = "connect"
  /\ UNCHANGED <<inHand, reconnecting, toJoin, exitCode, commandRx, updateRx, threads, phase,
                 shutdown>>
  /\ MainOthers

(* The first time the workers start; later the ReconnectXemu command ends. *)
Connected ==
  /\ mainPc = "attach"
  /\ IF reconnecting = None
       THEN /\ mainPc' = "top" /\ UNCHANGED phase
            /\ threads' = [w \in Workers |->
                             IF w = "relay" /\ ~RelayEnabled THEN "unborn" ELSE "running"]
       ELSE mainPc' = "serve" /\ SetPhase(reconnecting, "succeeded") /\ UNCHANGED threads
  /\ reconnecting' = None
  /\ UNCHANGED <<inHand, toJoin, exitCode, commandRx, updateRx, shutdown>> /\ MainOthers

(* QMP refused for the sixth time, or the process cannot be read. *)
ConnectFails ==
  /\ mainPc = "attach"
  /\ IF reconnecting = None
       THEN FinishWorkers("error") /\ UNCHANGED phase
       ELSE /\ mainPc' = "serve" /\ SetPhase(reconnecting, "failed")
            /\ UNCHANGED <<toJoin, exitCode, shutdown>>
  /\ reconnecting' = None
  /\ UNCHANGED <<inHand, commandRx, updateRx, threads>> /\ MainOthers

(* main_loop: the shutdown flag, the commands, a tick, and again. *)
TopOfLoop ==
  /\ mainPc = "top"
  /\ IF shutdown
       THEN FinishWorkers("ok")
       ELSE mainPc' = "serve" /\ UNCHANGED <<toJoin, exitCode, shutdown>>
  /\ UNCHANGED <<inHand, reconnecting, commandRx, updateRx, threads, phase>> /\ MainOthers

Serve == mainPc = "serve" /\ TakeCommand("execute")

NoMoreCommands ==
  /\ mainPc = "serve" /\ commandRx = <<>>
  /\ IF shutdown
       THEN FinishWorkers("ok")
       ELSE mainPc' = "top" /\ UNCHANGED <<toJoin, exitCode, shutdown>>
  /\ UNCHANGED <<inHand, reconnecting, commandRx, updateRx, threads, phase>> /\ MainOthers

(* process_commands *)
ExecuteShutdown ==
  /\ mainPc = "execute" /\ issued[inHand] = "shutdown"
  /\ SetPhase(inHand, "succeeded") /\ inHand' = None
  /\ FinishWorkers("ok")
  /\ UNCHANGED <<reconnecting, commandRx, updateRx, threads>> /\ MainOthers

(* Mutant: the reconnect counts as done once it is under way. *)
FinishEarly ==
  /\ mainPc = "execute" /\ issued[inHand] = "reconnect xemu"
  /\ SetPhase(inHand, "succeeded")
  /\ mainPc' = "connect" /\ reconnecting' = inHand /\ inHand' = None
  /\ UNCHANGED <<toJoin, exitCode, commandRx, updateRx, threads, shutdown>> /\ MainOthers

ExecuteReconnect ==
  /\ mainPc = "execute" /\ issued[inHand] = "reconnect xemu"
  /\ mainPc' = "connect" /\ reconnecting' = inHand /\ inHand' = None
  /\ UNCHANGED <<toJoin, exitCode, commandRx, updateRx, threads, phase, shutdown>> /\ MainOthers

ExecuteRelayCommand ==
  /\ mainPc = "execute" /\ issued[inHand] = "relay"
  /\ SetPhase(inHand, IF RelayReceiverOpen THEN "succeeded" ELSE "failed")
  /\ mainPc' = "serve" /\ inHand' = None
  /\ UNCHANGED <<reconnecting, toJoin, exitCode, commandRx, updateRx, threads, shutdown>>
  /\ MainOthers

ExecuteOther ==
  /\ mainPc = "execute" /\ issued[inHand] = "other"
  /\ \E p \in Final : SetPhase(inHand, p)
  /\ mainPc' = "serve" /\ inHand' = None
  /\ UNCHANGED <<reconnecting, toJoin, exitCode, commandRx, updateRx, threads, shutdown>>
  /\ MainOthers

Stopped(t) ==
  CASE t = "update" -> updatePc = "stopped"
    [] t = "tui" -> tuiPc = "stopped"
    [] OTHER -> threads[t] = "stopped"

Join ==
  /\ mainPc = "join" /\ toJoin # <<>> /\ Stopped(Head(toJoin))
  /\ toJoin' = Tail(toJoin)
  /\ UNCHANGED <<mainPc, inHand, reconnecting, exitCode, commandRx, updateRx, threads, phase,
                 shutdown>>
  /\ MainOthers

(* The end of main: relaunch_if_requested is not reached after an error. *)
Exit ==
  /\ mainPc = "join" /\ toJoin = <<>>
  /\ mainPc' = "exited"
  /\ relaunched' = (exitCode = "ok" /\ restart)
  /\ UNCHANGED <<inHand, reconnecting, toJoin, exitCode, commandRx, updateRx, threads, phase,
                 updateVars, tuiVars, issued, records, shutdown, restart>>

-----------------------------------------------------------------------------
(* The update worker *)

UpdateOthers == UNCHANGED <<mainVars, commandRx, tuiVars, threads, issued, records, relaunched>>

(* The loop's condition, or a channel without sender. *)
UpdateStops ==
  /\ \/ updatePc = "top" /\ shutdown
     \/ updatePc = "recv" /\ updateRx = <<>> /\ ~MainHoldsChannels
  /\ updatePc' = "stopped" /\ updateRx' = <<>>
  /\ UpdateOthers /\ UNCHANGED <<updateInHand, updatePhase, phase, shutdown, restart>>

UpdateListens ==
  /\ updatePc = "top" /\ ~shutdown /\ updatePc' = "recv"
  /\ UpdateOthers /\ UNCHANGED <<updateRx, updateInHand, updatePhase, phase, shutdown, restart>>

UpdateTimeout ==
  /\ updatePc = "recv" /\ updateRx = <<>> /\ updatePc' = "top"
  /\ UpdateOthers /\ UNCHANGED <<updateRx, updateInHand, updatePhase, phase, shutdown, restart>>

UpdateTakes ==
  /\ updatePc = "recv" /\ updateRx # <<>>
  /\ updateRx' = Tail(updateRx) /\ updateInHand' = Head(updateRx)
  /\ SetPhase(Head(updateRx), "running")
  /\ IF issued[Head(updateRx)] = "install"
       THEN updatePc' = "install" /\ updatePhase' = "installing"
       ELSE updatePc' = "check" /\ updatePhase' = "checking"
  /\ UpdateOthers /\ UNCHANGED <<shutdown, restart>>

(* record_check_result, for the check at the start or for a command. *)
CheckEnds ==
  /\ updatePc \in {"first check", "check"} /\ updatePc' = "top"
  /\ \E p \in {"up to date", "available", "error"} :
       /\ updatePhase' = p
       /\ IF updateInHand = None
            THEN UNCHANGED phase
            ELSE SetPhase(updateInHand, IF p = "error" THEN "failed" ELSE "succeeded")
  /\ updateInHand' = None
  /\ UpdateOthers /\ UNCHANGED <<updateRx, shutdown, restart>>

(* install_latest_release *)
InstallEnds ==
  /\ updatePc = "install" /\ updateInHand' = None
  /\ \E p \in {"installed", "up to date", "error"} :
       /\ updatePhase' = p
       /\ updatePc' = IF p = "installed" THEN "restart" ELSE "top"
       /\ SetPhase(updateInHand, IF p = "error" THEN "failed" ELSE "succeeded")
  /\ UpdateOthers /\ UNCHANGED <<updateRx, shutdown, restart>>

(* Mutant: the worker goes on after an installation. *)
RestartAndGoOn ==
  /\ updatePc = "restart" /\ updatePc' = "recv"
  /\ restart' = TRUE /\ shutdown' = TRUE
  /\ UpdateOthers /\ UNCHANGED <<updateRx, updateInHand, updatePhase, phase>>

(* request_restart, and out of the loop. *)
RequestRestart ==
  /\ updatePc = "restart" /\ updatePc' = "stopped" /\ updateRx' = <<>>
  /\ restart' = TRUE /\ shutdown' = TRUE
  /\ UpdateOthers /\ UNCHANGED <<updateInHand, updatePhase, phase>>

-----------------------------------------------------------------------------
(* The other threads leave at a shutdown; each may also fail before.        *)
WorkerStops(w) ==
  /\ threads[w] = "running" /\ shutdown
  /\ threads' = [threads EXCEPT ![w] = "stopped"]
  /\ UNCHANGED <<mainVars, commandRx, updateRx, updateVars, tuiVars, issued, phase, records,
                 flagVars>>

WorkerFails(w) ==
  /\ threads[w] = "running" /\ ~shutdown
  /\ threads' = [threads EXCEPT ![w] = "stopped"]
  /\ UNCHANGED <<mainVars, commandRx, updateRx, updateVars, tuiVars, issued, phase, records,
                 flagVars>>

-----------------------------------------------------------------------------
Tui ==
  \/ TuiStops \/ TuiDraws \/ NoKey \/ KeyU \/ KeyInModal \/ KeyForMain \/ SendCommand

Main ==
  \/ TakeWhileConnecting \/ Refuse \/ PollConnection \/ NotYetConnected \/ Connected
  \/ ConnectFails \/ TopOfLoop \/ Serve \/ NoMoreCommands \/ ExecuteShutdown
  \/ ExecuteReconnect \/ ExecuteRelayCommand \/ ExecuteOther \/ Join \/ Exit

Updater ==
  \/ UpdateStops \/ UpdateListens \/ UpdateTimeout \/ UpdateTakes \/ CheckEnds
  \/ InstallEnds \/ RequestRestart

Next ==
  \/ Tui \/ TuiFails \/ Main \/ Updater
  \/ \E w \in Workers : WorkerStops(w) \/ WorkerFails(w)

Spec == Init /\ [][Next]_vars

(* The operating system runs every thread; a release check or a download    *)
(* ends, well or not; the workers look at the flag (their own modules).     *)
FairSpec ==
  /\ Spec /\ WF_vars(Tui) /\ WF_vars(Main) /\ WF_vars(Updater)
  /\ \A w \in Workers : WF_vars(WorkerStops(w))

-----------------------------------------------------------------------------
(* Properties *)

TypeOK ==
  /\ mainPc \in {"connect", "refuse", "attach", "top", "serve", "execute", "join", "exited"}
  /\ {inHand, reconnecting, updateInHand, tuiHolds} \subseteq Commands \cup {None}
  /\ toJoin \in Seq(Workers \cup {"update", "tui"}) /\ exitCode \in {"ok", "error"}
  /\ commandRx \in Seq(Commands) /\ updateRx \in Seq(Commands)
  /\ updatePc \in {"first check", "top", "recv", "check", "install", "restart", "stopped"}
  /\ {updatePhase, seenPhase} \subseteq UpdatePhases
  /\ tuiPc \in {"top", "poll", "send", "stopped"} /\ installModal \in BOOLEAN
  /\ threads \in [Workers -> {"unborn", "running", "stopped"}]
  /\ issued \in Seq(Kinds) /\ phase \in Seq(Phases) /\ Len(phase) = Len(issued)
  /\ records \in Seq(Commands) /\ Len(records) <= MaxRecords
  /\ {shutdown, restart, relaunched} \subseteq BOOLEAN

(* A command shown as running is in the hands of exactly the thread that    *)
(* will settle it; one shown as queued is on its way to one.  Only a        *)
(* shutdown leaves commands behind, and only queued ones.                   *)
NoCommandLost ==
  \A c \in Commands :
    /\ phase[c] = "running" <=> c \in {inHand, reconnecting, updateInHand}
    /\ phase[c] = "queued" =>
         c = tuiHolds \/ Contains(commandRx, c) \/ Contains(updateRx, c) \/ shutdown
    /\ Contains(commandRx, c) \/ Contains(updateRx, c) => phase[c] = "queued"

(* The panel keeps its promises (CommandContract): commands are executed in *)
(* the order they were given, one at a time but for what a reconnect lets   *)
(* in, none is turned away untried unless the program is stopping, and a    *)
(* settled command stays settled, whoever else held a copy of it.           *)
Contract == INSTANCE CommandContract WITH kind <- issued, state <- phase, stopping <- shutdown
ImplementsContract == Contract!Spec

(* When main ends or starts the new program, nothing else of this one is    *)
(* left: the port, the spool and the terminal are free.  What is started    *)
(* was installed.                                                           *)
RelaunchAlone ==
  mainPc = "exited" =>
    /\ updatePc = "stopped" /\ tuiPc = "stopped"
    /\ \A w \in Workers : threads[w] # "running"
    /\ relaunched => updatePhase = "installed"

(* Once an update is installed nothing is checked or installed over it,     *)
(* however many requests are waiting.                                       *)
InstalledIsFinal == [][updatePhase = "installed" => updatePhase' = "installed"]_vars

(* Every command is settled in the end, or the program is shutting down, or *)
(* it is the reconnect that waits for xemu to appear.                       *)
CommandsSettle ==
  \A c \in 1..MaxCommands :
    (c \in Commands)
      ~> (shutdown \/ reconnecting = c \/ (c \in Commands /\ phase[c] \in Final))

(* A shutdown gets through: out of a reconnect nested in a command, past    *)
(* every join.                                                              *)
ShutdownExits == shutdown ~> mainPc = "exited"

(* "installed; restarting" (update.rs:122): an update that was installed is *)
(* started when the program ends.                                           *)
InstalledRestarts == (mainPc = "exited" /\ updatePhase = "installed") => relaunched
=============================================================================
