-------------------------- MODULE ConfigStoreProofs --------------------------
(***************************************************************************)
(* Proofs about ConfigStore for any number of commands, edits, failures    *)
(* and starts.                                                             *)
(***************************************************************************)
EXTENDS ConfigStore, TLAPS

USE DEF diskVars, memoryVars, history, counters

-----------------------------------------------------------------------------
(* Values *)

(* What a setting may have in the file or the environment.                  *)
Given1(k) == Values[k] \cup {"absent"} \cup (IF k = "relay_room" THEN {"blank"} ELSE {})

LEMMA KeyValues ==
  /\ Keys = {"save_replays", "replay_uploads", "websocket_port", "relay_room", "replay_directory"}
  /\ Values["save_replays"] = {"true", "false"} /\ Values["replay_uploads"] = {"true", "false"}
  /\ Values["websocket_port"] = {"9000", "9010"}
  /\ Values["relay_room"] = {"arena", "room 1", "room 2"}
  /\ Values["replay_directory"] = Directories
BY DEF Keys, Hot, Values, RandomRooms

LEMMA NeverBlank ==
  ASSUME NEW k \in Keys, NEW v \in Values[k]
  PROVE  v # "absent" /\ v # "blank" /\ v # Refused
BY KeyValues DEF Directories, Refused

LEMMA DefaultGiven == \A k \in Keys : Default[k] \in Given1(k) \ {"absent"}
<1>1. /\ Default["save_replays"] = "true" /\ Default["replay_uploads"] = "true"
      /\ Default["websocket_port"] = "9000" /\ Default["relay_room"] = "blank"
      /\ Default["replay_directory"] = "relative"
  BY DEF Default
<1>2. \A k \in Keys : Default[k] \in Given1(k)
  BY <1>1, KeyValues DEF Given1, Directories
<1>3. \A k \in Keys : Default[k] # "absent"
  BY <1>1, KeyValues
<1> QED
  BY <1>2, <1>3

LEMMA ResolvedValue ==
  ASSUME NEW d \in Directories
  PROVE  /\ Resolved(d) \in Directories
         /\ d \in {"absolute", "beside config"} => Resolved(d) = d
BY DEF Resolved, Directories

LEMMA WrittenGiven == \A f \in WrittenFiles, k \in Keys : f[k] \in Given1(k)
<1>1. \A k \in Keys : NoSettings[k] \in Given1(k)
  BY DEF NoSettings, Given1
<1>2. \A k \in Keys : Example[k] \in Given1(k)
  BY DefaultGiven DEF Example
<1>3. \A k \in Keys : Custom[k] \in Given1(k)
  BY KeyValues DEF Custom, NoSettings, Given1, Directories
<1> QED
  BY <1>1, <1>2, <1>3 DEF WrittenFiles

-----------------------------------------------------------------------------
(* Loading *)

(* What the file and the environment give.                                  *)
DiskType ==
  /\ \A k \in Keys : env[k] \in Values[k] \cup {"absent"}
  /\ \A k \in Keys : file[k] \in Given1(k)
  /\ fileState \in {"none", "whole", "torn"} /\ relativeName \in BOOLEAN
  /\ own => fileState = "whole" /\ \A k \in Keys : file[k] \in Values[k]

LEMMA LoadedConfig ==
  ASSUME DiskType, NEW c \in Loaded
  PROVE  c \in Configs
<1>1. PICK f \in {NoSettings, file}, room \in RandomRooms : c = LoadedWith(f, room)
  BY DEF Loaded
<1>2. \A k \in Keys : f[k] \in Given1(k)
  BY <1>1 DEF DiskType, NoSettings, Given1
<1>3. ASSUME NEW k \in Keys
      PROVE  c[k] \in Values[k]
  <2>1. FromFile(f, k) \in Given1(k) \ {"absent"}
    <3>1. CASE f[k] = "absent"
      BY <3>1, DefaultGiven DEF FromFile
    <3>2. CASE f[k] # "absent" /\ k = "replay_directory"
      <4>1. f[k] \in Directories
        BY <1>2, <3>2, KeyValues DEF Given1
      <4>2. Resolved(f[k]) \in Values[k]
        BY <3>2, <4>1, ResolvedValue, KeyValues
      <4> QED
        BY <3>2, <4>2, NeverBlank DEF FromFile, Given1
    <3>3. CASE f[k] # "absent" /\ k # "replay_directory"
      BY <1>2, <3>3 DEF FromFile
    <3> QED
      BY <3>1, <3>2, <3>3
  <2>2. Given(f, k) \in Given1(k) \ {"absent"}
    BY <2>1 DEF Given, DiskType, Given1
  <2>3. c[k] = IF Given(f, k) = "blank" THEN room ELSE Given(f, k)
    BY <1>1 DEF LoadedWith
  <2> QED
    <3>1. CASE Given(f, k) = "blank"
      <4>1. "blank" \notin Values[k]
        BY NeverBlank
      <4>2. k = "relay_room"
        BY <2>2, <3>1, <4>1 DEF Given1
      <4>3. room \in Values["relay_room"]
        BY KeyValues DEF RandomRooms
      <4> QED
        BY <2>3, <3>1, <4>2, <4>3
    <3>2. CASE Given(f, k) # "blank"
      BY <2>2, <2>3, <3>2 DEF Given1
    <3> QED
      BY <3>1, <3>2
<1>4. c \in [Keys -> UNION {Values[k] : k \in Keys}]
  BY <1>1, <1>3 DEF LoadedWith
<1> QED
  BY <1>3, <1>4 DEF Configs

(* A whole file of ours gives its own value for every setting that the      *)
(* environment does not override.                                           *)
LEMMA LoadedOwn ==
  ASSUME DiskType, own, NEW c \in Loaded, NEW k \in Keys, env[k] = "absent"
  PROVE  c[k] = IF k = "replay_directory" THEN Resolved(file[k]) ELSE file[k]
<1>1. PICK room \in RandomRooms : c = LoadedWith(file, room)
  BY DEF Loaded, DiskType
<1>2. file[k] \in Values[k]
  BY DEF DiskType
<1>3. file[k] # "absent" /\ file[k] # "blank"
  BY <1>2, NeverBlank
<1>4. Given(file, k) = IF k = "replay_directory" THEN Resolved(file[k]) ELSE file[k]
  BY <1>3 DEF Given, FromFile
<1>5. Given(file, k) # "blank"
  BY <1>2, <1>3, <1>4, ResolvedValue, KeyValues DEF Directories
<1> QED
  BY <1>1, <1>4, <1>5 DEF LoadedWith

-----------------------------------------------------------------------------
(* The invariant *)

HasSetting ==
  \/ \E k \in Keys : \E v \in Inputs(k) : request = Setting(k, v)
  \/ \E k \in Hot : request = Toggle(k)

(* The configuration the program is in, or about to be in.                  *)
Current == IF pc \in {"controls", "active", "publish"} THEN draft ELSE config

(* Of the file, the memory and the command in hand.                         *)
MemoryType ==
  /\ pc \in Stages
  /\ pc # "off" => {config, active_config, started, seen} \subseteq Configs
  /\ pc \notin {"off", "idle"} => draft \in Configs
  /\ pc \in {"save", "controls", "active", "publish"} => request.type = "reload" \/ HasSetting
  /\ pc = "save" => HasSetting
  /\ request = NoRequest \/ request = Reload \/ HasSetting

(* While a command goes from place to place, the flags, the active and the  *)
(* desired configuration agree on a hot setting as far as it has come; no   *)
(* other setting moves from where it started.                               *)
Changed == IF request.type = "reload" THEN Keys ELSE {request.key}
PlacesInv ==
  /\ pc # "off" => \A k \in Keys \ Hot : active_config[k] = started[k]
  /\ pc \in {"idle", "save", "controls"} =>
       \A k \in Hot : active_config[k] = config[k] /\ controls[k] = config[k]
  /\ pc \in {"save", "controls", "active"} => \A k \in Keys \ Changed : draft[k] = config[k]
  /\ pc = "controls" => request.type = "reload" \/ request.key \in Hot
  /\ pc = "active" =>
       /\ request.type = "reload" \/ request.key \in Hot
       /\ \A k \in Hot : controls[k] = draft[k] /\ active_config[k] = config[k]
  /\ pc = "publish" => \A k \in Hot : active_config[k] = draft[k] /\ controls[k] = draft[k]

(* Up to the save nothing in memory has changed.                            *)
FailureInv ==
  /\ pc = "save" => Memory = before
  /\ FailureChangesNothing

(* The file of our own says what is in force, unless the environment or the *)
(* place of the file has a say in it.                                       *)
FileInv ==
  pc # "off" /\ own =>
    \A k \in Keys :
      \/ env[k] # "absent"
      \/ IF k = "replay_directory"
           THEN Current[k] \in {"absolute", "beside config"} => Resolved(file[k]) = Current[k]
           ELSE file[k] = Current[k]

IInv == DiskType /\ MemoryType /\ PlacesInv /\ FailureInv /\ FileInv

-----------------------------------------------------------------------------
(* Requests *)

LEMMA SettingRequest ==
  ASSUME HasSetting
  PROVE  /\ request.type \in {"set", "toggle"} /\ request.key \in Keys /\ request # NoRequest
         /\ Changed = {request.key}
         /\ Asked # Refused => Asked \in Values[request.key]
<1>1. ASSUME NEW k \in Keys, NEW v \in Inputs(k), request = Setting(k, v)
      PROVE  /\ request.type = "set" /\ request.key = k /\ request.value = v
  BY <1>1 DEF Setting
<1>2. ASSUME NEW k \in Hot, request = Toggle(k)
      PROVE  request.type = "toggle" /\ request.key = k
  BY <1>2 DEF Toggle
<1>3. \A k \in Hot : k \in Keys /\ Not(controls[k]) \in Values[k]
  BY KeyValues DEF Hot, Not
<1>4. CASE \E k \in Keys : \E v \in Inputs(k) : request = Setting(k, v)
  <2>1. PICK k \in Keys : \E v \in Inputs(k) : request = Setting(k, v)
    BY <1>4
  <2>2. PICK v \in Inputs(k) : request = Setting(k, v)
    BY <2>1
  <2>3. request.type = "set" /\ request.key = k /\ request.value = v
    BY <2>2, <1>1
  <2> QED
    BY <2>3 DEF NoRequest, Changed, Asked, Inputs
<1>5. CASE \E k \in Hot : request = Toggle(k)
  BY <1>2, <1>3, <1>5 DEF NoRequest, Changed, Asked
<1> QED
  BY <1>4, <1>5 DEF HasSetting

(* A command in hand is about a setting, or a reload.                       *)
LEMMA Commands ==
  ASSUME MemoryType, pc \in {"save", "controls", "active", "publish"}
  PROVE  /\ request # NoRequest
         /\ request.type # "reload" => HasSetting /\ Changed = {request.key}
         /\ request.type = "reload" => Changed = Keys
BY SettingRequest DEF MemoryType, NoRequest, Changed

LEMMA ConfigFacts ==
  /\ \A c \in Configs : \A k \in Keys : c[k] \in Values[k]
  /\ \A c \in Configs, k \in Keys : \A v \in Values[k] :
       /\ [c EXCEPT ![k] = v] \in Configs /\ [c EXCEPT ![k] = v][k] = v
       /\ \A other \in Keys \ {k} : [c EXCEPT ![k] = v][other] = c[other]
  /\ Hot \subseteq Keys /\ "replay_directory" \in Keys \ Hot
<1>1. \A c \in Configs : c \in [Keys -> UNION {Values[k] : k \in Keys}] /\ \A k \in Keys : c[k] \in Values[k]
  BY DEF Configs
<1>2. ASSUME NEW c \in Configs, NEW k \in Keys, NEW v \in Values[k]
      PROVE  /\ [c EXCEPT ![k] = v] \in Configs /\ [c EXCEPT ![k] = v][k] = v
             /\ \A other \in Keys \ {k} : [c EXCEPT ![k] = v][other] = c[other]
  <2>1. v \in UNION {Values[j] : j \in Keys}
    OBVIOUS
  <2>2. [c EXCEPT ![k] = v] \in [Keys -> UNION {Values[j] : j \in Keys}]
    BY <1>1, <2>1
  <2>3. [c EXCEPT ![k] = v][k] = v /\ \A other \in Keys \ {k} : [c EXCEPT ![k] = v][other] = c[other]
    BY <1>1
  <2>4. \A j \in Keys : [c EXCEPT ![k] = v][j] \in Values[j]
    BY <1>1, <2>3
  <2> QED
    BY <2>2, <2>3, <2>4 DEF Configs
<1>3. Hot \subseteq Keys /\ "replay_directory" \in Keys \ Hot
  BY DEF Keys, Hot
<1> QED
  BY <1>1, <1>2, <1>3

(* The flags are the hot settings of a configuration. *)
LEMMA FlagsOf == \A c : \A k \in Hot : Flags(c)[k] = c[k]
BY DEF Flags

-----------------------------------------------------------------------------
(* The steps *)

USE DEF MainOthers

LEMMA InitSafe == Init => IInv
<1> SUFFICES ASSUME Init PROVE IInv
  OBVIOUS
<1>1. DiskType
  <2>1. file \in {NoSettings} \cup WrittenFiles
    BY DEF Init
  <2>2. \A k \in Keys : file[k] \in Given1(k)
    BY <2>1, WrittenGiven DEF WrittenFiles
  <2> QED
    BY <2>2 DEF Init, DiskType
<1>2. MemoryType /\ PlacesInv /\ FailureInv /\ FileInv
  BY DEF Init, MemoryType, PlacesInv, FailureInv, FileInv, FailureChangesNothing, Stages
<1> QED
  BY <1>1, <1>2 DEF IInv

LEMMA StartSafe ==
  ASSUME IInv, Start
  PROVE  IInv'
<1>1. PICK c \in Loaded :
        /\ config' = c /\ active_config' = c /\ controls' = Flags(c)
        /\ started' = c /\ seen' = c /\ before' = <<c, c, Flags(c)>>
  BY DEF Start
<1>2. pc' = "idle" /\ result' = "none" /\ UNCHANGED <<diskVars, request, draft, own>>
  BY DEF Start
<1>3. DiskType'
  BY <1>2 DEF IInv, DiskType, Given1
<1>4. c \in Configs
  BY LoadedConfig DEF IInv
<1>5. MemoryType'
  BY <1>1, <1>2, <1>4 DEF IInv, MemoryType, HasSetting, Stages
<1>6. PlacesInv'
  BY <1>1, <1>2, FlagsOf DEF PlacesInv
<1>7. FailureInv'
  BY <1>2 DEF FailureInv, FailureChangesNothing
<1>8. FileInv'
  <2>1. ASSUME own, NEW k \in Keys, env[k] = "absent"
        PROVE  IF k = "replay_directory"
                 THEN c[k] \in {"absolute", "beside config"} => Resolved(file[k]) = c[k]
                 ELSE file[k] = c[k]
    BY <2>1, LoadedOwn DEF IInv
  <2> QED
    BY <1>1, <1>2, <2>1 DEF FileInv, Current, Resolved
<1> QED
  BY <1>3, <1>5, <1>6, <1>7, <1>8 DEF IInv

LEMMA StopSafe ==
  ASSUME IInv, Stop
  PROVE  IInv'
<1>1. pc' = "off" /\ request' = NoRequest /\ UNCHANGED <<diskVars, memoryVars, seen, result, history>>
  BY DEF Stop
<1>2. DiskType'
  BY <1>1 DEF IInv, DiskType, Given1
<1>3. MemoryType' /\ PlacesInv' /\ FailureInv' /\ FileInv'
  BY <1>1 DEF MemoryType, PlacesInv, FailureInv, FailureChangesNothing, FileInv, Stages
<1> QED
  BY <1>2, <1>3 DEF IInv

LEMMA EditFileSafe ==
  ASSUME IInv, EditFile
  PROVE  IInv'
<1>1. own' = FALSE
      /\ UNCHANGED <<env, relativeName, pc, request, draft, memoryVars, seen, result, before, started>>
  BY DEF EditFile
<1>2. file' \in WrittenFiles /\ fileState' \in {"none", "whole"}
  BY DEF EditFile, WrittenFiles
<1>3. DiskType'
  BY <1>1, <1>2, WrittenGiven DEF IInv, DiskType, Given1
<1>4. MemoryType'
  BY <1>1 DEF IInv, MemoryType, HasSetting
<1>5. PlacesInv'
  BY <1>1 DEF IInv, PlacesInv, Changed
<1>6. FailureInv' /\ FileInv'
  BY <1>1 DEF IInv, FailureInv, FailureChangesNothing, FileInv, Memory
<1> QED
  BY <1>3, <1>4, <1>5, <1>6 DEF IInv

LEMMA TuiSafe ==
  ASSUME IInv, TuiObserves
  PROVE  IInv'
<1>1. pc # "off" /\ seen' = config
      /\ UNCHANGED <<diskVars, pc, request, draft, memoryVars, result, history>>
  BY DEF TuiObserves
<1>2. DiskType'
  BY <1>1 DEF IInv, DiskType, Given1
<1>3. MemoryType'
  BY <1>1 DEF IInv, MemoryType, HasSetting
<1>4. PlacesInv' /\ FailureInv' /\ FileInv'
  BY <1>1 DEF IInv, PlacesInv, Changed, FailureInv, FailureChangesNothing, FileInv, Current, Memory,
              Resolved
<1> QED
  BY <1>2, <1>3, <1>4 DEF IInv

LEMMA SendSafe ==
  ASSUME IInv, SettingsKey
  PROVE  IInv'
<1>1. /\ pc # "off" /\ request = NoRequest
      /\ UNCHANGED <<diskVars, pc, draft, memoryVars, seen, result, history>>
      /\ request' = Reload \/ HasSetting'
  <2>1. ASSUME NEW k \in Hot, Send(Setting(k, Not(seen[k]))) \/ Send(Toggle(k))
        PROVE  HasSetting'
    <3>1. k \in Keys /\ Not(seen[k]) \in Inputs(k)
      BY KeyValues DEF Hot, Not, Inputs
    <3> QED
      BY <2>1, <3>1 DEF Send, HasSetting
  <2>2. ASSUME NEW k \in Keys \ Hot, NEW v \in Inputs(k), Send(Setting(k, v))
        PROVE  HasSetting'
    BY <2>2 DEF Send, HasSetting
  <2>3. \E r : Send(r)
    BY DEF SettingsKey
  <2> QED
    BY <2>1, <2>2, <2>3 DEF SettingsKey, Send
<1>2. pc = "idle"
  BY <1>1, Commands DEF IInv, MemoryType, Stages
<1>3. DiskType'
  BY <1>1 DEF IInv, DiskType, Given1
<1>4. MemoryType'
  BY <1>1, <1>2 DEF IInv, MemoryType
<1>5. PlacesInv' /\ FailureInv' /\ FileInv'
  BY <1>1, <1>2 DEF IInv, PlacesInv, FailureInv, FailureChangesNothing, FileInv, Current, Memory,
                    Resolved
<1> QED
  BY <1>3, <1>4, <1>5 DEF IInv

LEMMA TakeSettingSafe ==
  ASSUME IInv, TakeSetting
  PROVE  IInv'
<1>0. /\ pc = "idle" /\ before' = Memory
      /\ UNCHANGED <<diskVars, active_config, controls, source_path, own, seen, started, config>>
  BY DEF TakeSetting, ApplyToClone
<1>1. HasSetting /\ config \in Configs
  BY <1>0 DEF TakeSetting, IInv, MemoryType, NoRequest, Reload
<1>2. DiskType'
  BY <1>0 DEF IInv, DiskType, Given1
<1>3. CASE Asked = Refused
  <2>1. pc' = "idle" /\ request' = NoRequest /\ draft' = draft
    BY <1>3 DEF TakeSetting
  <2>2. MemoryType'
    BY <1>0, <2>1 DEF IInv, MemoryType
  <2>3. PlacesInv' /\ FileInv'
    BY <1>0, <2>1 DEF IInv, PlacesInv, FileInv, Current, Resolved
  <2>4. FailureInv'
    BY <1>0, <2>1 DEF FailureInv, FailureChangesNothing, Memory
  <2> QED
    BY <1>2, <2>2, <2>3, <2>4 DEF IInv
<1>4. CASE Asked # Refused
  <2>1. pc' = "save" /\ UNCHANGED <<result, request>> /\ draft' = [config EXCEPT ![request.key] = Asked]
    BY <1>4 DEF TakeSetting
  <2>2. request.key \in Keys /\ Asked \in Values[request.key]
    BY <1>1, <1>4, SettingRequest
  <2>3. draft' \in Configs /\ \A k \in Keys \ {request.key} : draft'[k] = config[k]
    <3>1. ASSUME NEW k \in Keys, NEW v \in Values[k]
          PROVE  /\ [config EXCEPT ![k] = v] \in Configs
                 /\ \A other \in Keys \ {k} : [config EXCEPT ![k] = v][other] = config[other]
      BY <1>1, ConfigFacts
    <3> QED
      BY <2>1, <2>2, <3>1
  <2>4. MemoryType'
    BY <1>0, <1>1, <2>1, <2>3 DEF IInv, MemoryType, HasSetting, Stages
  <2>5. PlacesInv'
    BY <1>0, <1>1, <2>1, <2>3, SettingRequest DEF IInv, PlacesInv, Changed
  <2>6. FailureInv' /\ FileInv'
    BY <1>0, <2>1 DEF IInv, FailureInv, FailureChangesNothing, FileInv, Current, Memory, Resolved
  <2> QED
    BY <1>2, <2>4, <2>5, <2>6 DEF IInv
<1> QED
  BY <1>3, <1>4

LEMMA SaveSafe ==
  ASSUME IInv, Save
  PROVE  IInv'
<1>0. /\ pc = "save" /\ pc' = IF request.key \in Hot THEN "controls" ELSE "publish"
      /\ fileState' = "whole" /\ file' = draft /\ own' = TRUE
      /\ UNCHANGED <<env, relativeName, request, draft, config, active_config, controls, result, before,
                     seen, started>>
  BY DEF Save, Persisted
<1>1. HasSetting /\ draft \in Configs /\ Changed = {request.key} /\ request.key \in Keys
  BY <1>0, SettingRequest DEF IInv, MemoryType
<1>2. DiskType'
  BY <1>0, <1>1, ConfigFacts DEF IInv, DiskType, Given1
<1>3. MemoryType'
  BY <1>0, <1>1 DEF IInv, MemoryType, HasSetting, Stages
<1>4. PlacesInv'
  BY <1>0, <1>1, ConfigFacts, SettingRequest DEF IInv, PlacesInv, Changed
<1>5. FailureInv'
  BY <1>0 DEF FailureInv, FailureChangesNothing
<1>6. FileInv'
  <2>1. \A d \in {"absolute", "beside config"} : Resolved(d)' = d
    BY DEF Resolved
  <2>2. Current' = draft
    BY <1>0 DEF Current
  <2> QED
    BY <1>0, <2>1, <2>2 DEF FileInv
<1> QED
  BY <1>2, <1>3, <1>4, <1>5, <1>6 DEF IInv

LEMMA SaveFailsSafe ==
  ASSUME IInv, SaveFails
  PROVE  IInv'
<1>0. /\ pc = "save" /\ pc' = "idle" /\ request' = NoRequest
      /\ UNCHANGED <<env, relativeName, memoryVars, before, seen, started>>
  BY DEF SaveFails
<1>1. \/ UNCHANGED <<fileState, file, own>>
      \/ fileState' \in {"whole", "torn"} /\ file' = NoSettings /\ own' = FALSE
  BY DEF SaveFails
<1>2. DiskType'
  <2>1. NoSettings \in WrittenFiles
    BY DEF WrittenFiles
  <2> QED
    BY <1>0, <1>1, <2>1, WrittenGiven DEF IInv, DiskType, Given1
<1>3. MemoryType'
  BY <1>0 DEF IInv, MemoryType, Stages
<1>4. PlacesInv' /\ FailureInv'
  BY <1>0 DEF IInv, PlacesInv, FailureInv, FailureChangesNothing, Memory
<1>5. FileInv'
  BY <1>0, <1>1 DEF IInv, FileInv, Current, Resolved
<1> QED
  BY <1>2, <1>3, <1>4, <1>5 DEF IInv

LEMMA TakeReloadSafe ==
  ASSUME IInv, TakeReload
  PROVE  IInv'
<1>0. /\ pc = "idle" /\ request.type = "reload" /\ before' = Memory
      /\ UNCHANGED <<diskVars, memoryVars, own, seen, started>>
  BY DEF TakeReload
<1>1. DiskType'
  BY <1>0 DEF IInv, DiskType, Given1
<1>2. CASE LoadFails
  <2>1. pc' = "idle" /\ request' = NoRequest /\ draft' = draft
    BY <1>2 DEF TakeReload
  <2>2. MemoryType' /\ PlacesInv' /\ FailureInv' /\ FileInv'
    BY <1>0, <2>1 DEF IInv, MemoryType, PlacesInv, FailureInv, FailureChangesNothing, Memory, FileInv,
                      Current, Resolved
  <2> QED
    BY <1>1, <2>2 DEF IInv
<1>3. CASE ~LoadFails
  <2>1. draft' \in Loaded /\ pc' = "controls" /\ UNCHANGED request
    BY <1>3 DEF TakeReload
  <2>2. draft' \in Configs
    BY <2>1, LoadedConfig DEF IInv
  <2>3. MemoryType'
    BY <1>0, <2>1, <2>2 DEF IInv, MemoryType, HasSetting, Stages
  <2>4. PlacesInv' /\ FailureInv'
    BY <1>0, <2>1, ConfigFacts DEF IInv, PlacesInv, FailureInv, FailureChangesNothing, Changed
  <2>5. FileInv'
    <3>1. ASSUME own, NEW k \in Keys, env[k] = "absent"
          PROVE  IF k = "replay_directory"
                   THEN draft'[k] \in {"absolute", "beside config"} => Resolved(file[k]) = draft'[k]
                   ELSE file[k] = draft'[k]
      BY <2>1, <3>1, LoadedOwn DEF IInv
    <3> QED
      BY <1>0, <2>1, <3>1 DEF FileInv, Current, Resolved
  <2> QED
    BY <1>1, <2>3, <2>4, <2>5 DEF IInv
<1> QED
  BY <1>2, <1>3

LEMMA ApplyControlsSafe ==
  ASSUME IInv, ApplyControls
  PROVE  IInv'
<1>0. /\ pc = "controls" /\ pc' = "active" /\ controls' = Flags(draft)
      /\ UNCHANGED <<diskVars, request, draft, config, active_config, result, before, own, seen, started>>
  BY DEF ApplyControls
<1>1. DiskType'
  BY <1>0 DEF IInv, DiskType, Given1
<1>2. MemoryType'
  BY <1>0 DEF IInv, MemoryType, HasSetting, Stages
<1>3. PlacesInv'
  BY <1>0, FlagsOf DEF IInv, PlacesInv, Changed
<1>4. FailureInv' /\ FileInv'
  BY <1>0 DEF IInv, FailureInv, FailureChangesNothing, FileInv, Current, Resolved
<1> QED
  BY <1>1, <1>2, <1>3, <1>4 DEF IInv

LEMMA ApplyActiveSafe ==
  ASSUME IInv, ApplyActive
  PROVE  IInv'
<1>0. /\ pc = "active" /\ pc' = "publish"
      /\ active_config' = [k \in Keys |-> IF k \in Followed THEN draft[k] ELSE active_config[k]]
      /\ UNCHANGED <<diskVars, request, draft, config, controls, result, before, own, seen, started>>
  BY DEF ApplyActive
<1>1. DiskType'
  BY <1>0 DEF IInv, DiskType, Given1
<1>2. /\ draft \in Configs /\ active_config \in Configs
      /\ request.type = "reload" \/ (HasSetting /\ request.key \in Hot /\ Changed = {request.key})
  BY <1>0, Commands DEF IInv, MemoryType, PlacesInv
<1>3. Followed \subseteq Hot
  BY <1>2 DEF Followed
<1>4. active_config' \in Configs
  BY <1>0, <1>2, ConfigFacts DEF Configs
<1>5. MemoryType'
  BY <1>0, <1>4 DEF IInv, MemoryType, HasSetting, Stages
<1>6. PlacesInv'
  <2>1. \A k \in Keys \ Hot : active_config'[k] = active_config[k]
    BY <1>0, <1>3
  <2>2. ASSUME NEW k \in Hot
        PROVE  active_config'[k] = draft[k]
    <3>1. k \in Keys /\ active_config[k] = config[k]
      BY <1>0, ConfigFacts DEF IInv, PlacesInv
    <3>2. CASE k \in Followed
      BY <1>0, <3>1, <3>2
    <3>3. CASE k \notin Followed
      <4>1. k \notin Changed
        BY <1>2, <3>3 DEF Followed
      <4>2. draft[k] = config[k]
        BY <1>0, <3>1, <4>1 DEF IInv, PlacesInv
      <4> QED
        BY <1>0, <3>1, <3>3, <4>2
    <3> QED
      BY <3>2, <3>3
  <2> QED
    BY <1>0, <2>1, <2>2 DEF IInv, PlacesInv
<1>7. FailureInv' /\ FileInv'
  BY <1>0 DEF IInv, FailureInv, FailureChangesNothing, FileInv, Current, Resolved
<1> QED
  BY <1>1, <1>5, <1>6, <1>7 DEF IInv

LEMMA PublishSafe ==
  ASSUME IInv, Publish
  PROVE  IInv'
<1>0. /\ pc = "publish" /\ pc' = "idle" /\ config' = draft /\ result' = "done" /\ request' = NoRequest
      /\ UNCHANGED <<diskVars, active_config, controls, before, own, seen, started>>
  BY DEF Publish
<1>1. DiskType'
  BY <1>0 DEF IInv, DiskType, Given1
<1>2. MemoryType'
  BY <1>0 DEF IInv, MemoryType, Stages
<1>3. PlacesInv'
  BY <1>0 DEF IInv, PlacesInv
<1>4. FailureInv' /\ FileInv'
  BY <1>0 DEF IInv, FailureInv, FailureChangesNothing, FileInv, Current, Resolved
<1> QED
  BY <1>1, <1>2, <1>3, <1>4 DEF IInv

LEMMA SafeStep ==
  ASSUME IInv, [Next]_vars
  PROVE  IInv'
<1>1. CASE UNCHANGED vars
  <2>1. DiskType'
    BY <1>1 DEF vars, IInv, DiskType, Given1
  <2>2. MemoryType'
    BY <1>1 DEF vars, IInv, MemoryType, HasSetting
  <2>3. PlacesInv'
    BY <1>1 DEF vars, IInv, PlacesInv, Changed
  <2>4. FailureInv'
    BY <1>1 DEF vars, IInv, FailureInv, FailureChangesNothing, Memory
  <2>5. FileInv'
    BY <1>1 DEF vars, IInv, FileInv, Current, Resolved
  <2> QED
    BY <2>1, <2>2, <2>3, <2>4, <2>5 DEF IInv
<1> QED
  BY <1>1, StartSafe, StopSafe, EditFileSafe, TuiSafe, SendSafe, TakeSettingSafe, SaveSafe,
     SaveFailsSafe, TakeReloadSafe, ApplyControlsSafe, ApplyActiveSafe, PublishSafe DEF Next

-----------------------------------------------------------------------------
(* The properties *)

(* Between commands the three places in memory agree on the settings that   *)
(* take effect at once, and no other setting has moved: for any sequence of *)
(* commands, failures, edits and restarts.                                  *)
THEOREM SettingsInForce == Spec => []RunningInForce
<1>1. IInv => RunningInForce
  BY ConfigFacts DEF IInv, PlacesInv, RunningInForce
<1> QED
  BY <1>1, InitSafe, SafeStep, PTL DEF Spec

(* A command that fails has changed nothing in memory.                      *)
THEOREM FailuresHarmless == Spec => []FailureChangesNothing
<1>1. IInv => FailureChangesNothing
  BY DEF IInv, FailureInv
<1> QED
  BY <1>1, InitSafe, SafeStep, PTL DEF Spec

(* What was saved comes back, apart from what the environment and a         *)
(* relative replay directory make of it.                                    *)
THEOREM SavesComeBack == Spec => []SavedSurvivesRestart
<1>1. IInv => SavedSurvivesRestart
  <2> SUFFICES ASSUME IInv, pc = "idle", own, NEW c \in Loaded, NEW k \in Keys, env[k] = "absent",
                      k = "replay_directory" => config[k] \in {"absolute", "beside config"}
               PROVE  c[k] = config[k]
    BY DEF SavedSurvivesRestart
  <2>1. c[k] = IF k = "replay_directory" THEN Resolved(file[k]) ELSE file[k]
    BY LoadedOwn DEF IInv
  <2> QED
    BY <2>1 DEF IInv, FileInv, Current
<1> QED
  BY <1>1, InitSafe, SafeStep, PTL DEF Spec

(* A draft exists exactly while a command is in hand, and the flags are set  *)
(* from it as a whole.                                                       *)
DraftInv ==
  /\ result \in {"none", "done", "failed"}
  /\ pc \in {"off", "idle"} => draft = NoConfig
  /\ pc = "active" => controls = Flags(draft)

LEMMA DraftStep ==
  ASSUME DraftInv, [Next]_vars
  PROVE  DraftInv'
<1>1. CASE Start \/ Stop \/ EditFile \/ TuiObserves \/ UNCHANGED vars
  BY <1>1 DEF DraftInv, Start, Stop, EditFile, TuiObserves, vars, Flags
<1>2. CASE SettingsKey
  <2>1. UNCHANGED <<pc, draft, controls, result>>
    BY <1>2 DEF SettingsKey, Send
  <2> QED
    BY <2>1 DEF DraftInv, Flags
<1>3. CASE TakeSetting \/ TakeReload
  BY <1>3 DEF DraftInv, TakeSetting, TakeReload
<1>4. CASE Save \/ SaveFails \/ ApplyActive \/ Publish
  BY <1>4 DEF DraftInv, Save, SaveFails, ApplyActive, Publish
<1>5. CASE ApplyControls
  BY <1>5 DEF DraftInv, ApplyControls, Flags
<1> QED
  BY <1>1, <1>2, <1>3, <1>4, <1>5 DEF Next

(* The configurations are whole whenever the program runs, a draft and a     *)
(* request are in hand together, and only what takes effect at once gets to  *)
(* the flags (update_config_value, reload_config).                           *)
THEOREM ConfigTypes == Spec => []TypeOK
<1>1. Init => DraftInv
  BY DEF Init, DraftInv
<1>2. IInv /\ DraftInv => TypeOK
  <2> SUFFICES ASSUME IInv, DraftInv PROVE TypeOK
    OBVIOUS
  <2>1. /\ MemoryType
        /\ pc = "controls" => request.type = "reload" \/ request.key \in Hot
    BY DEF IInv, PlacesInv
  <2>2. ASSUME pc \in Stages \ {"off", "idle"}
        PROVE  draft \in Configs /\ request # NoRequest
    <3>1. draft \in Configs /\ (request.type = "reload" \/ HasSetting)
      BY <2>1, <2>2 DEF MemoryType, Stages
    <3>2. HasSetting => request # NoRequest
      BY SettingRequest
    <3>3. request.type = "reload" => request # NoRequest
      BY DEF NoRequest
    <3> QED
      BY <3>1, <3>2, <3>3
  <2> QED
    BY <2>1, <2>2 DEF TypeOK, MemoryType, DraftInv
<1> QED
  BY <1>1, <1>2, InitSafe, SafeStep, DraftStep, PTL DEF Spec
=============================================================================
