# Verification of xemu-tools-rs

`src/xemu-tools-rs` attaches to a running xemu, samples the memory of Halo about thirty times a second,
records every game to a replay file, streams ticks to local websocket clients and to a relay server, and
uploads finished replays through that server. These TLA+ modules model its concurrent core, TLC checks
them on small instances, and TLAPS proves the central theorems for every instance.

Paths below are relative to `src/xemu-tools-rs/src/`.

## The system

One process, one thread per component, plus tokio tasks inside the two network threads. Components talk
through unbounded crossbeam channels, through one shared `RuntimeState` (a status snapshot behind a lock,
atomic flags and a few small queues), and through files.

| component | source | state it keeps | operations | interacts with |
|---|---|---|---|---|
| main loop, game ticks | `main.rs`, `halo.rs`, `events.rs` | last tick, game metadata (`start_time`), event list | sample and publish a tick, recover from a read error, run commands | feeds the replay, local websocket and relay channels; takes commands from the TUI |
| replay worker | `replay.rs` | first and last tick, count, tick spool, completeness flag | record a tick, discard, finish a spool, write the replay file, request its upload | replay channel in, relay channel out, files, hot settings, discard flag |
| relay client: uploads | `ws.rs` 273-932, send loop | `RelayState.replay_uploads`, outbound control channel, upload records of the panel | connect, send, receive, transfer, retry, cancel, flush, requeue, back off | relay channel in and (requeue) out, relay command channel, relay server, object store |
| relay client: live status and keys | `ws.rs` 934-1186 | last status, last terminal status per connection, producer key | send a status when due, once per end of game, add the key | relay server |
| local websocket server | `ws.rs` 45-271 | broadcast channel of 64 messages, client list | accept, forward, drop laggards, disconnect on request | local clients, TUI |
| commands and shutdown | `main.rs`, `runtime.rs`, `update.rs` | 32 command records, flags | queue, start, finish, fail; shut down, join, relaunch | TUI to main loop to relay or update worker |
| configuration | `config.rs`, `runtime.rs` 128-165 | desired and active configuration, flags, file | load, override from the environment, set, toggle, save, reload | main thread changes it, the TUI shows it, every worker reads the hot settings |
| pipeline metrics | `runtime.rs` 229-252, 481-563 | five atomic counters per channel | count an enqueue, a dequeue, a refusal; raise the high-water mark | written by all threads, read by the TUI |
| QMP and guest memory | `qmp.rs`, `memory.rs` | socket, translations, RAM base, copied segments | request, time out, reconnect, translate, copy, read | main loop |
| Halo decoding | `halo.rs` | caches of spawn points and items | decode a tick from guest memory | main loop, guest memory |
| event statistics | `events.rs` | counters per player | compare two ticks, count, reset | main loop |
| TUI and rendering | `tui.rs`, `tui/` | selection, modal, scroll | keys to commands | command channel |
| legacy Python tools | `../../*.py` | | | the predecessor; not developed further |

### What is hard here

* The relay client is two tasks over one map. The receive task is aborted whenever the connection ends:
  while it reads, while it transfers a file, while it waits to retry, or between two of its own updates.
  What it was doing must be recovered by the requeue of the next connection, never twice and never lost.
* The relay queue is shared by three producers and is flushed, filtered and refilled on each reconnect
  while they keep sending.
* The user retries and cancels uploads at any moment; the answers to what was cancelled still arrive.
* The replay worker reads hot settings several times for each tick, keeps a temporary file in step with
  them, and has an error return at almost every line.
* Where a game begins and ends is deduced from pairs of samples, some of which are missing.
* Shutdown is a flag that every thread has to look at, and main joins them all.
* A reconnect to xemu runs inside the handler of a command and handles commands itself.
* A setting lives in the file, in the environment, in two configurations and in a flag, which are written one
  after the other by code that may fail in between.
* QMP requests carry no id, and one that times out leaves its answer on the connection. What was translated
  and copied before an error must not be trusted after it.
* The statistics are differences of two samples taken at moments the program does not choose.
* The panel's counters are several atomics written by three threads without a lock.

### What makes each component right

* uploads: an accepted request is settled once, by one of five outcomes; until then it is somewhere; its
  retry budget is respected; a reconnect asks for it again; the panel counts it.
* replay worker: files are complete or absent, hold the ticks of one game, are never overwritten; spools are
  temporary; no discarded tick comes back; games that end are saved.
* game ticks: an id names one game; the end of a game is announced once, with its id.
* live status: the server is never left believing that a finished game is live.
* local server: counts match the clients; a laggard costs nobody else anything.
* commands: executed in the order given, one at a time, marked once; each worker is joined.
* configuration: what is shown is what is in force; a save comes back; a failure changes nothing.
* QMP and memory: an address is right, or the read fails; the game time is never read from a copy.
* statistics: what happened is counted, once, and nothing else; a tick is about one game.
* metrics: no high-water mark is lost; the counters agree with the queue.

## Modules

| module | models | uses |
|---|---|---|
| `UploadContract` | abstract: what becomes of an upload request | |
| `RelayUpload` | relay client: both tasks, connection, queue, commands, server, store | `UploadContract` (refined) |
| `RelayUploadMC` | instance for TLC: symmetry of request ids | `RelayUpload` |
| `RelayUploadProofs` | theorems about `RelayUpload` | `RelayUpload`, `TLAPS` |
| `GameTicks` | Halo, sampling, `game_id`, `game_ended_this_tick` | |
| `ReplayRecording` | the replay worker, fed by `GameTicks` | `GameTicks` |
| `LiveStatus` | what the relay is told of the game being played, fed by `GameTicks` | `GameTicks` |
| `CommandContract` | abstract: what the panel promises about commands | |
| `CommandLifecycle` | commands from the key to their end, update worker, shutdown, restart | `CommandContract` (refined) |
| `LocalWs` | the local websocket server and its clients | |
| `ConfigStore` | settings: file, environment, memory, flags, settings view | |
| `QmpMemory` | QMP connection, address translation, copied segments, the main loop around them | |
| `QmpMemoryMC` | instance for TLC: a small guest memory | `QmpMemory` |
| `PipelineMetrics` | the counters of the relay's channel, atomic access by atomic access | |
| `GameStats` | statistics and caches across consecutive samples | |
| `GameTicksProofs`, `CommandLifecycleProofs`, `ConfigStoreProofs` | theorems about the module in the name | that module, `TLAPS` |
| `ReplayRecordingProofs`, `LiveStatusProofs` | theorems about the module in the name | that module, `GameTicksProofs` |
| `PanelProofs` | theorems about what the panel counts: `LocalWs`, `PipelineMetrics` | both, `TLAPS` |
| `HaloReaderProofs` | theorems about what is read from xemu and made of it: `QmpMemory`, `GameStats` | both, `TLAPS` |

### RelayUpload

A step of the model ends where another thread can see its effect: at a lock, a channel operation or an
await. `pc` is the place of `run_relay_client` or, once connected, of `send_relay_loop` (`top`,
`commands`, `control`, `queue` are the parts of one turn of its loop); `outgoing` is the message whose
`write.send` is being awaited, and the loop stands still until it is done. `recvPc` is the place of the
task that reads from the connection. An abort acts at once if that task is at an await (`RecvAwaits`) and
at its next await otherwise (`aborted`, `Await`). `tracked` and `attempts` are `replay_uploads`; `phase`
and `pendingUploads` are what the panel shows. The control channel is open exactly while the send loop
runs (`ControlOpen`).

The websocket is `up`, `half` (the peer is gone and the client does not know: writes succeed and go
nowhere) or `down`. The server answers a presign request with a URL, a response that lacks one, an error
or BAD_KEY. The store may accept a file and its answer may still be lost (`StoreAccepts`, then `PutFails`).

`outcome`, `stored`, `announced` and `stalled` are history variables: no guard of the code reads them
(`EnqueueUpload` uses `outcome` to make each id fresh, as a new uuid is).

Left out: keys, the live status messages (see `LiveStatus`), counters and details of the panel, and the 32-record limit of
the panel's upload list. A tick stands for any other message in the queue. One assumption is about time: the
receive task aborted with one connection reaches an await before the next one is established, at least
100 ms later (`EnterSendLoop`). It has only locks to take in between.

### GameTicks and ReplayRecording

`GameTicks` has the emulator going through games (`StartGame`, `FinishGame`, `LeaveGame`) and `Sample`,
which stands for a `tick_once` that found the game time changed: it reads, computes the start time if
needed (`KnownStart`), compares with the last tick (`NewGame`, `EndsGame`) and publishes. Samples are
missed simply because Halo moves between two of them. Start times have a resolution of one second, so
the same one computed twice for a game may differ (`StartTimes`); two games never start in the same second.
`ReconnectXemu` replaces the reader and its `GameMeta` but not the last tick, as `main_loop` does.

`ReplayRecording` adds the replay worker. `wpc` is its place: at the top of the loop, waiting for a tick,
opening a recording, recording a tick, finishing the spool, creating and filling the file, requesting the
upload, resetting. Each read of a flag or a setting is a step of its own, and the user may change any of
them in between. Files are abstracted to what a reader finds: whether they are whole, their ticks, their
summary. `recorded`, `discarded`, `declined`, `leaked`, `closed` and `idGames` are history.

A replay file also has tables made of what its last tick carries: the events and the `game_meta` gathered so
far (`replay.rs:246-251`). They accumulate in the main loop (`main.rs:632-642`), where neither a discard nor a stop
that was not sampled resets them, and are not modelled: `FilesHoldOneGame` and
`DiscardedStaysOut` speak of the ticks of a file and of its summary.

### LiveStatus

One turn of `send_relay_loop` that takes a tick is one step (`SendTick`): it sends the status that is due
and then the tick. `lastStatus`, `lastId`, `lastHash` and `terminalSent` are the loop's locals of the same
purpose; they begin anew on each connection. A status that names no game is about the last one
(`StatusId`). A connection may end at any time, and the queue is flushed whenever it does or an attempt
fails (`FlushTicks`); the upload requests that share the queue are in `RelayUpload`. The ten seconds between
live statuses are a flag, `due`, set by `TenSecondsPass`. `sent` and `ended` are history.

### CommandLifecycle

Three threads: the TUI (`tuiPc`), which records a command and then sends it, deciding from a snapshot that
may be old (`seenPhase`); main (`mainPc`), which executes commands, and while it connects to xemu, at the
start or inside a ReconnectXemu command (`reconnecting`), refuses them; and the update worker (`updatePc`).
The other workers only live and die (`threads`). `phase` is the phase of each command as the panel shows it
for as long as its record is among `records`. Shutdown is a flag that the user's command, the update worker
and main itself set; main then joins the threads in the order of `finish_background_workers` and, unless it
failed, relaunches. Channels close when their owner goes out of scope: `main_loop` owns both ends that main
holds, so that a command sent during the joins is refused, or, if main never got that far, stays queued.

`CommandContract` knows only the kind and the mark of each command and whether the program is stopping. Its
steps say who may start a command and when (`Start`: in order, and only a reconnect lets another in), that what
comes inside a reconnect fails unless it is a shutdown (`Succeed`), and that a command is turned away untried
only while stopping (`Reject`).

### LocalWs

The forwarding thread broadcasts each tick; messages are numbered. Each client address has a task, which is
in its handshake, waits in `select!`, sends a message, or leaves. A receiver more than `Capacity` messages
behind gets an error instead of a message (tokio's broadcast channel, external). The server may end at any
time, by shutdown or by an error from `accept`, and takes all tasks with it.

### ConfigStore

`pc` is where the main thread stands with a command: `TakeSetting` or `TakeReload` takes it (`apply_value`
on a clone, or `Config::load`), `Save` or `SaveFails` writes the file, `ApplyControls` sets the flags,
`ApplyActive` changes `active_config`, `Publish` stores the desired configuration and ends the command. The
settings view decides from `seen`, a snapshot; the toggle keys let main turn over what the flag says. The
program may be killed between any two steps (`Stop`) and started again (`Start`), and somebody may edit the file
at any time. Values are few and named for what the code tells apart: a room that is blank is drawn by each
load, a relative replay directory is resolved against the directory of the file and may get deeper with each
save and load. `before`, `started` and `own` are history.

### QmpMemory

The guest memory is a set of addresses: low ones, which QMP translates one by one, and high ones, at an
offset from `Base`, whose host address is asked for once. The host address of a guest address is named like
it, so that `Right` is equality. The game time may be any of them; in Halo it is high and part of the segment of
the game state that `populate_cache` copies, and so it is in the instance for TLC. It is one address for the life of
a reader: `HaloGlobals` are read once, with QMP requests of their own, and a new reader starts with the translations
this has left (`GlobalsKnown`, `GlobalsBase`). A turn of the loop is a set of tasks (`todo`): the probe of the game
time, the segments `populate_cache` copies, the reads of a sample, in any order; the order is Halo's business. A read
that lacks a translation asks for it in two requests, `gva2gpa` and `gpa2hva` (`asking`); `Answered` takes the first
line on the connection, which is the late answer of an earlier request if there is one (`unread`).
`TimesOut` leaves the answer on the connection. `LinkBreaks` loses everything: xemu closes the connection and listens
again. Any failure leads to `error`, where `ClearTranslations` forgets everything and a new connection takes
the place of the old one (`Replace`) or fails to (`KeepOld`). xemu is started with `-qmp tcp:...,server,nowait` and
serves one client at a time, while the code drops the old connection only when it has the new one: `Replace` is
possible only once the old connection is gone. The same holds for the two commands that connect anew, ReconnectQmp and
ReconnectXemu. `missed` is the number of requests given up on the connection.

Left out: an xemu process that is started again, whose memory is elsewhere (only a full reconnect helps then), and
the host addresses that `get_game_info` looks up just to show them.

### PipelineMetrics

Each operation on the channel, each reading of its length and each atomic access is a step of a thread
(`pc`): `measure`, `count`, `store`, `load`, `swap`. `compare_exchange_weak` may fail for no reason, and a relaxed
load may return an older mark (`LoadHighWater`); `RaiseHighWater` is the loop around both. `highest` is history.

### GameStats

Halo ticks, starts and stops games; players join, kill, die, and leave their slot to another (`TakeOver`). `Sample` is
a `tick_once` that finds another game time: `TickRead` is what it reads, `MetaAfter` and `EventsAfter` are
`extract_events`, with its early returns, and `Missed` is the count of dropped ticks. `SampleFails` is a read that
fails, before or after spawn points have been cached; `NewReader` is a ReconnectXemu.

A tick lists the players in the order of their slots, without those who have no body and had none before
(`Listings`, the `continue` at `halo.rs:227-231`); which these are is left open. `extract_player_stat_events` looks at
the lengths of two lists (`Comparable`), compares them place by place, and counts under the slot of the newer entry
(`Counted`). `mistaken` are the slots that were compared with the entry of another one this way, since the statistics
were last begun; `left` says that a slot changed hands since the last tick. Two other history variables, `in_game` and
`made`, are the kills and multikills really made in each slot: in this game, and since the statistics were last begun.
Kills and multikills stand for all counters: one that is a difference, and one that is deduced from two values and a
time of 16 signed bits (`Signed`).

## Runs

| run | instance | shows |
|---|---|---|
| `relay_two` | 2 uploads, 1 retry, 1 tick in the queue, 2 faults, no commands; symmetric ids | `NoLostUpload`, `ReadyToResume` when uploads share queue, tasks and connection |
| `relay_live` | 1 upload, 2 retries (the program's number), 1 tick, 2 faults, 1 command or switch; `FairSpec` | `UploadedIsAnnounced`, `PendingCountAtRest`, the refinement of `UploadContract`, `EventuallySettled`, `ShutdownStops` |
| `replay_games` | 2 games, 3 start times, 5 samples, any settings, no switching | `FilesHoldOneGame`, `IdTellsGamesApart`, `FilesAreFinal` |
| `replay_switches` | 1 game, 3 samples, 2 switches or discards, 1 I/O error; `FairSpec` | `FilesAreFaithful`, `DiscardedStaysOut`, `NoStraySpool`, `RequestsMatchFiles`, `EndedGamesSaved`, `ShutdownStops` |
| `live_status` | 2 games, 3 start times, 4 samples, 2 ticks in the queue, 2 connections, 1 passage of ten seconds | `NoFinishedGameIsLive`, `EndedStaysEnded` |
| `commands` | 2 commands, 1 record on the panel; `FairSpec` | `NoCommandLost`, `RelaunchAlone`, the refinement of `CommandContract`, `InstalledIsFinal`, `CommandsSettle`, `ShutdownExits` |
| `commands_restart` | 2 commands | violates `InstalledRestarts`: see Findings |
| `local_ws` | 2 addresses, capacity 1, 3 messages, 3 clients, 2 requests; `FairSpec` | `GaplessStream`, `PanelMatchesTasks`, `EveryoneElseIsServed`, `DisconnectsHappen` |
| `config` | 5 settings, 2 commands, 1 edit, 1 failing save, 2 starts, any single override | `RunningInForce`, `SavedSurvivesRestart`, `FailureChangesNothing` |
| `qmp` | 2 low and 2 high addresses, the game time high and in one of 2 copied segments, 3 faults; `FairSpec` | `RightUntilTwoTimeouts`, `ProbeReadsLive`, `ProbingGoesOn` |
| `metrics` | 2 senders and the relay, 3 messages, 1 flush | `HighWaterExact`, `CountersBalance` |
| `stats` | 2 games, 2 players of whom one kills, 4 kills, deaths and changes of hands, 4 samples, 1 failure or reconnect; times of two bits | `DroppedExact`, `MultikillsReal`, `KillsExact`, `TicksOfOneGame` |

Bounds, and why they are enough. Two uploads are the fewest that can be confused with each other, and
uploads do not otherwise interact; two faults give a connection that breaks while what the last one lost
is being recovered. `MaxRetries` 2 is what the program uses. One tick is enough to put something in front of and
behind a request in the queue. Two games with five samples cover every pair of a seen or missed end with a
following game; two switches cover a setting turned off and on again within one recording, and one I/O
error ends the worker. Two connections are needed for what the first forgets, and two games for a status
that one leaves behind to meet the other. With two commands and room for one record, a record is dropped
while its command runs; a reconnect and what arrives during it are two commands, and a shutdown also comes
from the update worker. A client that has got a message falls behind a capacity of one with the third, and
three clients on two addresses reuse one. Two commands about settings let the second act on a snapshot, a file or
flags that the first has changed, and the second start loads what the first left. Three faults are two
late answers on a connection that cannot be replaced, and its end. Two senders race for the high-water mark
while the relay empties the queue, and the one flush resends what they sent. Four samples cover a game begun, two
ticks of it compared, and one of the next game; with two players, one is left out while the other stands in their
place, and kills of one of them are enough to see for whom they are counted. Time wraps within a game because
`TimeRange` is 4; two kills at one time make a multikill (`ChainTicks` 0), so that multikills of up to four need no
clock that goes on for long.
Where a theorem states the property as well (see Theorems), none of these bounds matters.
`CHECK_DEADLOCK` is off where threads end at a shutdown, or the bounds are used up.

Fairness. `RelayUpload`: both tasks run whenever they can (a tokio runtime of their own); a half-open
connection is found dead in the end (TCP); the server answers what it receives; Halo keeps ticking. Weak
fairness is enough for all of these. Strong fairness is assumed of one step, `ResendRetained`: the flush
loop runs until it finds the queue empty, and nothing in the code keeps the producers from refilling it each
time; it ends because a `try_recv` takes microseconds and ticks come thirty times a second.
`EventuallySettled` excludes a request that the server refused or ignored (`stalled`): the code marks it
failed, or nothing, and waits for a reconnect or a manual retry. `ReplayRecording`: the worker's thread runs.
`CommandLifecycle`: TUI, main and update worker run, a release check or a download ends in some way, and each
worker sees the flag (which their own modules show). `LocalWs`: tasks run, and `select!` picks at random among
ready branches, so that messages do not keep the control interval out for ever (strong fairness of `Kick`
and `LeaveAtShutdown`); nothing at all is assumed of clients. `QmpMemory`: the loop runs (weak fairness of its
steps and of its error path). Strong fairness is assumed of `Reconnect`, which is possible only when the old
connection is gone: a loop that asks again and again finds xemu listening in the end. Nothing is assumed to end a
connection that stands.

### Findings

* `commands_restart`. `main` returns the error of a failed first connection without `relaunch_if_requested`
  (`main.rs:51-54`). The update worker runs from the start, so that an installation can finish while that
  connection fails: the panel says "installed; restarting" (`update.rs:122`), the command succeeds, and the
  program ends without starting the new version.

### What else a reader of the code should know

No run is about these by itself; the models contain them, and the properties named are stated with them in view.

* A recording can hold two games when the end of the first was never seen, for example because everybody left for
  the main menu (`FilesHoldOneGame` states that this is the only way; see the FIXME at `events.rs:212`).
* Any I/O error ends the recording of replays until the program is restarted (stage `failed`).
* With the relay disabled, the receiver of the relay's commands is moved nowhere (`main.rs:64-78`) and lives as
  long as main; `try_send` succeeds, and a reconnect, retry or cancel is shown as succeeded. "relay worker is not
  available" (`main.rs:395`) appears only after the relay's thread has ended (`RelayReceiverOpen`).
* A save writes every setting of the desired configuration, the values that came from the environment
  included; they stay when the variable is gone. A setting that the environment overrides can be edited and is
  listed as waiting for a restart, which will not bring it into force.
* The file is written in place, without a temporary file and a rename: a save that is cut short leaves it torn,
  and then the next start fails, or empty, and then it loads as the defaults.
* A blank relay room is drawn at every load until a save writes it down.
* With `XEMU_TOOLS_CONFIG` naming a file in a subdirectory by a relative path, a relative replay directory gets
  one level deeper with each save and load (`Resolved`).
* A flag that is misspelt is refused by the settings view (`parse_bool`) and taken for false in the environment
  (`env_bool_override`); a port of 0 is refused by the view and accepted from the file and the environment.
* One QMP answer that comes more than 500 ms after its request ends the sampling until xemu closes the connection.
  `QmpClient::reconnect` connects before it drops the old connection (`qmp.rs:66-70`), and xemu serves one client at a time:
  the greeting does not come and the old connection is kept (`main.rs:347`). Out of step by one answer, it fails each
  translation, so that the loop is in its error path again in each round; the two reconnect commands meet the same
  refusal. `ProbingGoesOn` excludes this state (`OutOfStep`).
* `extract_player_stat_events` compares two lists of players by their length and then place by place
  (`events.rs:309-313`), while `get_game_info` leaves out a player without a body (`halo.rs:227-231`). If one of two
  players is left out in one tick, and the other in the next, the kills of one are compared with those of the other,
  and kills made long ago are counted and announced ("got a kill", `events.rs:322`) under whoever has more.
  `MultikillsReal` and `KillsExact` except the slots this happened to (`mistaken`).
* A connection that two answers were late on can give a wrong address (`RightUntilTwoTimeouts`): the line taken for an
  answer is then of the right form, and of another request.
* The first tick of a game is read before `clear_caches`, so that it carries the spawn points of the previous map, and
  its spawn events are matched against them (`TicksOfOneGame` speaks of the second tick on).
* When the number of players in the list changes, what happened in that interval is not counted; damage dealt by two
  players to one is capped for each of them separately.
* `queue_depth` is a plain store: at rest it may be an old length. No property claims it is exact.

## Theorems

Each theorem holds for every value of the constants that satisfies the assumptions of its module; the
history variables and bounds are those of the model. Every invariant was checked by TLC before it was proved.

`RelayUploadProofs`, for any finite set of requests and any `MaxRetries` in 0..254:

* `TypeCorrect`: `Spec => []TypeOK`, with `ShapeOK` as the strengthening (what the receive task holds is a
  request; the command being executed is at the head of its channel; an entry still tracked has not used
  up its budget).
* `NothingLost`: `Spec => []NoLostUpload`. The inductive invariant adds `PathsOnce`: a request travels with
  its path at most once over the queue and the flush buffer together, otherwise removing one copy would
  leave another and the upload could be tracked and queued at the same time.
* `ReconnectResumes`: `Spec => []ReadyToResume`, by way of `Requeueing`: during the requeue, what is tracked is
  in the snapshot or already queued. It uses that no other step tracks a request meanwhile.
* `UploadedOnlyAfterAnnouncing`: `Spec => []UploadedIsAnnounced`, by way of `TransferOK`, what the receive
  task has already achieved at each of its places.
* `PendingCountExact`: `Spec => []PendingCountAtRest`.
* `RelayImplementsContract`: `Spec => ImplementsContract`: each step is a step of `UploadContract` or
  leaves its variables alone. It needs `FreshUncharged` (nothing is charged before the first
  transfer), since sending a request again could reset its budget.

`GameTicksProofs`: `GameIdsApart`, by way of `OwnerInv` (a start time belongs to the game that was on when it was first
computed, and what goes by it came then or later) and `OpenInv` (the ids a later tick may still carry, that
of the reader and that of a last tick whose game is on, belong to no game whose end was seen). `GameTypes`: `GameTypeOK`.

`ReplayRecordingProofs`, which builds on it:

* `ReplaysAreFaithful` (`FilesAreFaithful`) and `SpoolsCleanedUp` (`NoStraySpool`) from `RInv`: at each place of the
  worker there is no recording, or its first and last tick and their number are those of what was recorded, and
  the spool, or what was made of it at the end, has all of them, or there is none (`RecordingInv`).
* `DiscardedIsGone` (`DiscardedStaysOut`) from `OrderInv` and `ApartInv`: ticks come in order, so that a recording is
  made of a run of them, and a recording is discarded or written, never both.
* `RequestsAreOfFiles` (`RequestsMatchFiles`) and `FilesWrittenOnce` (`FilesAreFinal`) from `SpentInv` and `FinalInv`:
  the ids of ended ticks, in the queue, in hand or on disk, are spent and all different, because an ended game
  does not come back (`GInv`).
* `FilesAreOfOneGame` (`FilesHoldOneGame`) from `HoldInv`: ticks are queued, taken and recorded in the order of the
  games (`LineInv`), and while a tick of a game whose end was seen is kept, the tick that ended it is still in the
  queue or in hand (`EndInv`). The recording is therefore written or given up before a tick of a later game gets in.
* `RequestedOnce`: each upload request is for a file that none was made for, so that a game is put to the relay once.
  What is in hand before the upload is not complete on disk, and only complete files were requested (`FinalInv`).
* `RecorderOnlyWatches`: `Spec => GameSpec`, each step is one of `GameTicks` or leaves the games and ticks alone;
  `IdTellsGamesApart` therefore holds here as well (`RecordedIdsApart`).

`CommandLifecycleProofs`, for any number of commands and records:

* `CommandsAccountedFor` (`NoCommandLost`) from `CInv`: where main stands when it has a command in hand (`Stations`),
  that main and the update worker leave only at a shutdown (`Leaving`), that both channels hold queued commands in the
  order they were given, each for its reader, those of the update worker older than those still to be forwarded
  (`Channels`), and where the command of each mark is (`Marks`).
* `PanelKeepsContract` (`ImplementsContract`): each step is one of `CommandContract` or a stutter. The order in the
  contract follows from the rising channels, "one at a time" from the marks.
* `InstalledStays` (`InstalledIsFinal`): after an installation the worker is about to restart or has stopped.
* `NothingLeftBehind` (`RelaunchAlone`) from `JoinInv`: from the moment the handles are gathered, a thread has
  stopped or is still to be joined.
* `CommandTypes` (`TypeOK`), from these invariants and `PanelType` (the records on the panel are commands given, and no
  more than `MaxRecords`).

`LiveStatusProofs`, on top of `GameTicksProofs`, for any number of games, waiting ticks, connections and timeouts:

* `FinishedGameTold` (`NoFinishedGameIsLive`) from `SInv`. The waiting ticks come in the order of their games, and one
  that cannot score is of an earlier game than any later one that can (`QueueInv`). The id in `lastId` is that of a
  game already seen, and all ticks to come are of it or of later games; once its end was told, those to come that are live are of
  later games only (`MemoryInv`: `SeenBefore`, `Past`). A live status sent or due after that is about a game that took over
  the id (`ToldInv`).
* `ExceptionIsUnseen`: the game whose id was taken over is one whose end nobody saw (by `IdTellsGamesApart`), so that
  the exception `NoFinishedGameIsLive` makes is no wider than the code's.
* `EndedNeverLive` (`EndedStaysEnded`) from `EndedInv`: an id reported as ended is spent, and neither a waiting tick nor
  the status to be repeated is live under it, on this connection or a later one.
* `RelayOnlyWatches`: `Spec => GameSpec` for this composition. `LiveTypes` (`TypeOK`).

`PanelProofs`:

* `PanelExact` (`PanelMatchesTasks`), `NoHoles` (`GaplessStream`) and `LocalWsTypes` (`TypeOK`), for any set of clients
  and any capacity. `Follows` is the strengthening: the message a task waits for is the one after the last it sent.
  `Positions` keeps it from running ahead of what was forwarded.
* `HighWaterIsExact` (`HighWaterExact`), for any finite set of senders, from `MarkInv`: a mark that is not yet the
  greatest depth is about to be raised by a thread that recorded that depth, and nobody raises it further.
  `CountersAgree` (`CountersBalance`): each thread between the queue and its counter accounts for one message.

`ConfigStoreProofs`: `SettingsInForce` (`RunningInForce`), `FailuresHarmless` (`FailureChangesNothing`) and `SavesComeBack`
(`SavedSurvivesRestart`). The invariant says at each place of a command which of the desired and active
configuration, the flags and the file have already been changed, and that what a save wrote loads, key by
key, as what was saved. `ConfigTypes` (`TypeOK`) adds that nothing is in hand between commands (`DraftInv`).

`HaloReaderProofs`:

* `AddressesRight` (`RightUntilTwoTimeouts`), for any sets of low and high addresses, any copied segments in them, the
  game time anywhere among them, and any number of faults, from `StepInv`. A
  connection is out of step by as many answers as were given up on it. By none, the physical address in hand is that of the
  address wanted. By one, the line taken for a host address is the answer to the request before it, which is of the other
  kind, so that it does not parse and the read fails. `ProbesReadLive` (`ProbeReadsLive`) from `LiveInv`: copies are made in
  the populate stage only and are gone when the next probe begins. `MemoryTypes` (`TypeOK` of `QmpMemory`).
* `DroppedCounted` (`DroppedExact`), inductive as it stands: a failed read leaves `last_game_time` alone, so that the next
  sample counts what it missed.
* `MultikillsWereMade` (`MultikillsReal`) and `KillsWereMade` (`KillsExact`), for any number of players, games, kills and
  samples, whichever players a tick lists, any `ChainTicks` and any width of the clock. `KillsExact` is not inductive: the
  sample to come counts a difference to a tick that may be of another game, or of a player who was not listed. `MadeInv`
  says, for each slot that is not mistaken, that what is counted together with what the next sample would add
  (`KillsToCome`, `ToCome`), if that slot then stands in the place it had, was made; each kill raises both sides, a new
  game or another player in the slot sets back only the left one. It needs `GameInv`: the score of a slot is made of kills
  of this game, and a multikill is reached by way of all smaller ones. `SteadyInv` is the equation for a game sampled
  without a break, between whose samples no slot changed hands (`left`). `Signed` only has to be a number: no width of the
  clock makes a multikill out of nothing.
* `TicksAreOfOneGame` (`TicksOfOneGame`) from `TickInv`: as long as no beginning was overlooked, the cache of spawn points is
  empty or of the game on, and the events kept are those of the last tick.

Only model-checked: the liveness properties, since TLAPS has no means for fairness here (`EventuallySettled`,
`EndedGamesSaved`, `CommandsSettle`, `EveryoneElseIsServed`, `DisconnectsHappen`, `ProbingGoesOn`, and the shutdowns:
`ShutdownStops` of `RelayUpload` and `ReplayRecording`, `ShutdownExits`). Every other property of the passing runs is
a theorem. Assumed: the bounds are naturals, the sets of clients, senders and requests are finite, named values differ (the
ASSUMEs of the modules, each evaluated in a run).

## Not modelled

* Producer keys of the relay client (BAD_KEY is answered by the server in `RelayUpload`; that a key outlives its
  connection is not modelled), and the 32-record limit of the panel's upload list.
* The other counters of `events.rs` (damage, ammunition, spawns): they are gathered by the same comparison of two
  ticks as kills.
* The tables of a replay file made from the events and the `game_meta` of its last tick (see `ReplayRecording`).
* A restart of the xemu process under a running program, other than by a full reconnect (see `QmpMemory`).
* Decoding of Halo's structures: reads at fixed offsets, without state but for the caches in `GameStats` and
  `QmpMemory`.
* Views, selection and scrolling of the TUI, and rendering: they change only what is drawn.
* Writing to guest memory: never used by the program.
* The legacy Python tools: the predecessor of this program.
* Pending uploads are kept in memory only: what is open at shutdown is not resumed by the next run, and nothing
  here claims it is.

What could come next: type correctness of `ReplayRecording` as a theorem, and a composition of replay worker, relay queue and relay
client from the last tick of a game to its settled upload.
