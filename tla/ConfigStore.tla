---------------------------- MODULE ConfigStore ----------------------------
(***************************************************************************)
(* Settings: config.rs, the configuration kept by runtime.rs, the commands *)
(* of main.rs that change it and the settings view of the TUI.             *)
(*                                                                         *)
(* A setting lives in up to five places: the file, the environment that    *)
(* overrides it, the desired configuration (config), the one the program   *)
(* runs with (active_config) and, for the settings that take effect at     *)
(* once, an atomic flag (controls).  The main thread alone changes them,   *)
(* in several steps between which anything may fail or stop; the TUI       *)
(* decides from a snapshot; users edit the file.                           *)
(*                                                                         *)
(* Five settings stand for the thirteen: two of the three hot ones, and of *)
(* those that need a restart an ordinary one and the two with rules of     *)
(* their own, the relay room and the replay directory.                     *)
(***************************************************************************)
EXTENDS Naturals

CONSTANTS
  MaxCommands,  (* bound: commands about settings                          *)
  MaxEdits,     (* bound: changes of the file by somebody else             *)
  MaxFailures,  (* bound: saves that fail                                  *)
  MaxStarts     (* bound: times the program is started                     *)

ASSUME ConfigBounds == {MaxCommands, MaxEdits, MaxFailures, MaxStarts} \subseteq Nat

VARIABLES
  env,          (* the environment variables that are set                  *)
  relativeName, (* XEMU_TOOLS_CONFIG is set, to a path in a subdirectory   *)
  fileState,    (* the configuration file: none, whole or torn             *)
  file,         (* what it says                                            *)
  pc,           (* where the main thread stands with a command             *)
  request,      (* the command the TUI sent                                *)
  draft,        (* main: the clone being changed, or what was loaded       *)
  config, active_config, controls,
  source_path,  (* config.source_path is known                             *)
  seen,         (* TUI: config in its snapshot                             *)
  result,       (* how the last command ended                              *)
  before,       (* history: memory when the command in hand was taken      *)
  started,      (* history: the configuration the program started with     *)
  own,          (* history: the last to write the file was a whole save    *)
  commands, edits, failures, starts

diskVars == <<env, relativeName, fileState, file>>
memoryVars == <<config, active_config, controls, source_path>>
history == <<before, started, own>>
counters == <<commands, edits, failures, starts>>
vars == <<diskVars, pc, request, draft, memoryVars, seen, result, history, counters>>

(* ConfigKey::requires_restart: all but the hot ones. *)
Hot == {"save_replays", "replay_uploads"}
Keys == Hot \cup {"websocket_port", "relay_room", "replay_directory"}

(* A relative directory is that of a path below the working directory; each *)
(* resolution against a relative config path puts it one deeper (bound: 2). *)
RandomRooms == {"room 1", "room 2"}
Directories == {"relative", "deeper", "deepest", "absolute", "beside config"}
Values == [save_replays |-> {"true", "false"}, replay_uploads |-> {"true", "false"},
           websocket_port |-> {"9000", "9010"}, relay_room |-> {"arena"} \cup RandomRooms,
           replay_directory |-> Directories]

(* Config::default; a blank room is drawn anew by every load. *)
Default == [save_replays |-> "true", replay_uploads |-> "true", websocket_port |-> "9000",
            relay_room |-> "blank", replay_directory |-> "relative"]
NoSettings == [k \in Keys |-> "absent"]
Example == Default
Custom == [NoSettings EXCEPT !.save_replays = "false", !.relay_room = "arena",
                             !.replay_directory = "absolute"]
WrittenFiles == {NoSettings, Example, Custom}

Configs == {c \in [Keys -> UNION {Values[k] : k \in Keys}] : \A k \in Keys : c[k] \in Values[k]}

(* resolve_config_path *)
Resolved(d) ==
  IF d \in {"absolute", "beside config"} THEN d
  ELSE IF ~relativeName THEN "beside config"
  ELSE IF d = "relative" THEN "deeper" ELSE "deepest"

(* apply_file_config and apply_env_overrides over the defaults; room is the *)
(* name drawn if none is given.                                             *)
FromFile(f, k) ==
  IF f[k] = "absent" THEN Default[k]
  ELSE IF k = "replay_directory" THEN Resolved(f[k]) ELSE f[k]

Given(f, k) == IF env[k] # "absent" THEN env[k] ELSE FromFile(f, k)

LoadedWith(f, room) ==
  [k \in Keys |-> IF Given(f, k) = "blank" THEN room ELSE Given(f, k)]

(* Config::load, of a file that is there, or of none at all. *)
Loaded == {LoadedWith(IF fileState = "none" THEN NoSettings ELSE file, room) : room \in RandomRooms}
LoadFails == fileState = "torn" \/ (relativeName /\ fileState = "none")

(* Config::apply_value refuses what does not parse, and empty text. *)
Refused == "refused"
Inputs(k) == Values[k] \cup {Refused}

NoConfig == [k \in Keys |-> "absent"]
NoRequest == [type |-> "none"]
Setting(k, v) == [type |-> "set", key |-> k, value |-> v]
Toggle(k) == [type |-> "toggle", key |-> k]
Reload == [type |-> "reload"]

Flags(c) == [k \in Hot |-> c[k]]
Memory == <<config, active_config, controls>>

Init ==
  /\ env \in {NoSettings} \cup {[NoSettings EXCEPT ![k] = v] : k \in {"save_replays", "websocket_port"},
                                v \in {"false", "9010"}}
  /\ \A k \in Keys : env[k] \in Values[k] \cup {"absent"}
  /\ relativeName \in BOOLEAN
  /\ fileState \in {"none", "whole"}
  /\ file \in IF fileState = "none" THEN {NoSettings} ELSE WrittenFiles
  /\ pc = "off" /\ request = NoRequest /\ draft = NoConfig
  /\ config = NoConfig /\ active_config = NoConfig /\ controls = Flags(NoConfig)
  /\ source_path = FALSE /\ seen = NoConfig /\ result = "none"
  /\ before = Memory /\ started = NoConfig /\ own = FALSE
  /\ commands = 0 /\ edits = 0 /\ failures = 0 /\ starts = 0

-----------------------------------------------------------------------------
(* The program starts, or is killed, at any point; users edit the file.     *)

Start ==
  /\ pc = "off" /\ starts < MaxStarts /\ starts' = starts + 1
  /\ ~LoadFails
  /\ \E c \in Loaded :
       /\ config' = c /\ active_config' = c /\ controls' = Flags(c)
       /\ started' = c /\ seen' = c /\ before' = <<c, c, Flags(c)>>
  /\ source_path' = (fileState # "none")
  /\ pc' = "idle" /\ result' = "none"
  /\ UNCHANGED <<diskVars, request, draft, own, commands, edits, failures>>

Stop ==
  /\ pc # "off" /\ pc' = "off"
  /\ request' = NoRequest /\ draft' = NoConfig
  /\ UNCHANGED <<diskVars, memoryVars, seen, result, history, counters>>

EditFile ==
  /\ edits < MaxEdits /\ edits' = edits + 1
  /\ \/ fileState' = "whole" /\ file' \in WrittenFiles
     \/ fileState' = "none" /\ file' = NoSettings
  /\ own' = FALSE
  /\ UNCHANGED <<env, relativeName, pc, request, draft, memoryVars, seen, result, before,
                 started, commands, failures, starts>>

-----------------------------------------------------------------------------
(* The TUI *)

TuiObserves ==
  /\ pc # "off" /\ seen # config /\ seen' = config
  /\ UNCHANGED <<diskVars, pc, request, draft, memoryVars, result, history, counters>>

Send(r) ==
  /\ pc # "off" /\ request = NoRequest /\ commands < MaxCommands
  /\ request' = r /\ commands' = commands + 1
  /\ UNCHANGED <<diskVars, pc, draft, memoryVars, seen, result, history, edits, failures, starts>>

(* Enter on a setting: a flag is turned over from what the snapshot says,   *)
(* any other setting is typed.  The s, t and u keys leave it to the main    *)
(* thread, which turns over what is in force.                               *)
Not(v) == IF v = "true" THEN "false" ELSE "true"
SettingsKey ==
  \/ \E k \in Hot : Send(Setting(k, Not(seen[k]))) \/ Send(Toggle(k))
  \/ \E k \in Keys \ Hot : \E v \in Inputs(k) : Send(Setting(k, v))
  \/ Send(Reload)

-----------------------------------------------------------------------------
(* The main thread: update_config_value and reload_config                   *)

MainOthers == UNCHANGED <<env, relativeName, seen, started, commands, edits, starts>>

(* Mutant: the desired configuration itself is changed, then saved. *)
ApplyInPlace(c) == config' = c

(* The change is made in a clone. *)
ApplyToClone(c) == UNCHANGED config

Asked == IF request.type = "toggle" THEN Not(controls[request.key]) ELSE request.value

TakeSetting ==
  /\ pc = "idle" /\ request.type \in {"set", "toggle"}
  /\ IF Asked = Refused
       THEN /\ pc' = "idle" /\ result' = "failed" /\ request' = NoRequest
            /\ UNCHANGED <<draft, config>>
       ELSE /\ draft' = [config EXCEPT ![request.key] = Asked]
            /\ ApplyToClone(draft')
            /\ pc' = "save" /\ UNCHANGED <<result, request>>
  /\ before' = Memory
  /\ UNCHANGED <<fileState, file, active_config, controls, source_path, own, failures>> /\ MainOthers

(* Mutant: only the setting that changed is written. *)
WrittenKey(c) == [NoSettings EXCEPT ![request.key] = c[request.key]]

(* PersistedConfig::from: every setting, those of the environment included. *)
Persisted(c) == c

(* Config::save, at source_path or in the working directory. *)
Save ==
  /\ pc = "save" /\ pc' = (IF request.key \in Hot THEN "controls" ELSE "publish")
  /\ fileState' = "whole" /\ file' = Persisted(draft) /\ own' = TRUE
  /\ source_path' = TRUE
  /\ UNCHANGED <<request, draft, config, active_config, controls, result, before, failures>>
  /\ MainOthers

(* The file cannot be created, or is cut before it is filled: to nothing,   *)
(* which is a valid file, or in the middle.                                 *)
SaveFails ==
  /\ pc = "save" /\ failures < MaxFailures /\ failures' = failures + 1
  /\ \/ UNCHANGED <<fileState, file, own>>
     \/ fileState' = "whole" /\ file' = NoSettings /\ own' = FALSE
     \/ fileState' = "torn" /\ file' = NoSettings /\ own' = FALSE
  /\ pc' = "idle" /\ result' = "failed" /\ request' = NoRequest /\ draft' = NoConfig
  /\ UNCHANGED <<memoryVars, before>> /\ MainOthers

TakeReload ==
  /\ pc = "idle" /\ request.type = "reload" /\ before' = Memory
  /\ IF LoadFails
       THEN /\ pc' = "idle" /\ result' = "failed" /\ request' = NoRequest
            /\ UNCHANGED draft
       ELSE /\ draft' \in Loaded
            /\ pc' = "controls" /\ UNCHANGED <<result, request>>
  /\ UNCHANGED <<fileState, file, memoryVars, own, failures>> /\ MainOthers

ApplyControls ==
  /\ pc = "controls" /\ controls' = Flags(draft) /\ pc' = "active"
  /\ UNCHANGED <<fileState, file, request, draft, config, active_config, source_path, result,
                 before, own, failures>>
  /\ MainOthers

(* Mutant: a reload takes over every setting as active. *)
FollowedAll == IF request.type = "reload" THEN Keys ELSE {request.key}

(* The keys whose active value follows the desired one. *)
Followed == IF request.type = "reload" THEN Hot ELSE {request.key}

ApplyActive ==
  /\ pc = "active" /\ pc' = "publish"
  /\ active_config' = [k \in Keys |-> IF k \in Followed THEN draft[k] ELSE active_config[k]]
  /\ UNCHANGED <<fileState, file, request, draft, config, controls, source_path, result, before,
                 own, failures>>
  /\ MainOthers

(* A reload also takes over whether there was a file. *)
Publish ==
  /\ pc = "publish" /\ config' = draft
  /\ source_path' = IF request.type = "reload" THEN source_path \/ fileState # "none" ELSE TRUE
  /\ pc' = "idle" /\ result' = "done" /\ request' = NoRequest /\ draft' = NoConfig
  /\ UNCHANGED <<fileState, file, active_config, controls, before, own, failures>> /\ MainOthers

Next ==
  \/ Start \/ Stop \/ EditFile
  \/ TuiObserves \/ SettingsKey
  \/ TakeSetting \/ Save \/ SaveFails \/ TakeReload
  \/ ApplyControls \/ ApplyActive \/ Publish

Spec == Init /\ [][Next]_vars

-----------------------------------------------------------------------------
(* Properties *)

Stages == {"off", "idle", "save", "controls", "active", "publish"}

(* Types: the configurations are whole while the program runs, and a draft *)
(* exists exactly while a command is in hand.                               *)
TypeOK ==
  /\ pc \in Stages /\ result \in {"none", "done", "failed"}
  /\ pc # "off" => {config, active_config, started, seen} \subseteq Configs
  /\ pc \in Stages \ {"off", "idle"} => draft \in Configs /\ request # NoRequest
  /\ pc \in {"off", "idle"} => draft = NoConfig
  /\ pc = "controls" => request.type = "reload" \/ request.key \in Hot
  /\ pc = "active" => controls = Flags(draft)

(* Between commands the settings that take effect at once say the same in   *)
(* the desired configuration, the active one and the flags the threads      *)
(* read, and every other setting runs on the value the program started      *)
(* with: the "restart required" list of the settings view is exact.         *)
(* (update_config_value and reload_config write the three places in turn.)  *)
RunningInForce ==
  pc = "idle" =>
    /\ \A k \in Hot : active_config[k] = config[k] /\ controls[k] = config[k]
    /\ \A k \in Keys \ Hot : active_config[k] = started[k]

(* A whole save of ours, not edited since, gives back at the next start or  *)
(* reload every setting as desired, except those the environment overrides *)
(* and a replay directory that is written relative to the working directory *)
(* and read relative to the file.  (Config::save, PersistedConfig::from and *)
(* apply_file_config.)                                                      *)
SavedSurvivesRestart ==
  pc = "idle" /\ own /\ fileState = "whole" =>
    \A c \in Loaded, k \in Keys :
      \/ env[k] # "absent"
      \/ k = "replay_directory" /\ config[k] \notin {"absolute", "beside config"}
      \/ c[k] = config[k]

(* A command about settings that fails leaves the running program as it     *)
(* found it, wherever it failed; only the file may be worse.                *)
(* (update_config_value works on a clone and stores it last.)               *)
FailureChangesNothing == pc = "idle" /\ result = "failed" => Memory = before
=============================================================================
