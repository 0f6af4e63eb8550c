----------------------------- MODULE GameStats -----------------------------
(***************************************************************************)
(* What is gathered from consecutive ticks: the loop of tick_once, the     *)
(* statistics of events.rs, and the caches of spawn points and items of    *)
(* HaloReader.                                                             *)
(*                                                                         *)
(* Everything is a difference of two samples of a game that goes on        *)
(* between them, at moments the program does not choose: ticks are missed, *)
(* reads fail, players join, leave and lose their bodies, games end unseen.*)
(*                                                                         *)
(* Halo keeps a slot for each player.  A tick lists the slots in order but *)
(* leaves out a player without a body.  Statistics go by slot, while two   *)
(* ticks are compared entry by entry.  Kills and multikills stand for all  *)
(* the counters.                                                           *)
(***************************************************************************)
EXTENDS Integers, Sequences

CONSTANTS
  MaxSlots,     (* slots for players in a game                             *)
  ChainTicks,   (* ticks within which a kill prolongs a multikill          *)
  TimeRange,    (* values of time_of_last_kill: 2^16 in the program        *)
  Killers,      (* bound: slots whose players make kills                   *)
  MaxTime, MaxGames, MaxSamples,            (* bounds                      *)
  MaxKills,     (* bound: kills, and ends of players who made some         *)
  MaxMisreads   (* bound: failed samples and reconnects                    *)

ASSUME StatsConstants ==
  /\ {MaxSlots, ChainTicks, TimeRange, MaxTime, MaxGames, MaxKills, MaxSamples,
      MaxMisreads} \subseteq Nat
  /\ Killers \subseteq 1..MaxSlots /\ MaxSlots > 0 /\ TimeRange > 0 /\ TimeRange % 2 = 0

VARIABLES
  game, running, game_time,  (* Halo: the game, if its engine runs, its clock *)
  scores,                    (* Halo: per slot: kills, multikill, last kill  *)
  in_game, made,             (* history: per slot, the kills and multikills  *)
                             (* of this game, and since meta was initialised *)
  fights,                    (* what MaxKills bounds                         *)
  left,                      (* history: a slot changed hands since the last *)
                             (* tick                                         *)
  meta,                      (* GameMeta.players, by slot                    *)
  spawns_cache,              (* the game whose map they were read from       *)
  last_game_time,
  last_game_info,            (* the last tick sent out                       *)
  events,                    (* the games its events are about               *)
  dropped_ticks_total,
  samples, misreads,
  baseline,                  (* history: since when ticks were counted       *)
  steady,                    (* history: since meta.players was initialised  *)
                             (* all ticks had the same game and players      *)
  base,                      (* history: kills before those it counts        *)
  mistaken,                  (* history: slots since then compared with the  *)
                             (* entry of another                             *)
  overlooked                 (* history: a game began and no stop was seen   *)

halo == <<game, running, game_time, scores, in_game, fights, left>>
reader == <<meta, spawns_cache>>
loop == <<last_game_time, last_game_info, events, dropped_ticks_total, samples, misreads>>
history == <<made, baseline, steady, base, mistaken, overlooked>>
statsVars == <<halo, reader, loop, history>>

NoTick == [time |-> -1, game |-> 0, running |-> FALSE, players |-> <<>>, spawns |-> 0,
           events |-> {}, first |-> FALSE]
NoTime == -1
Fresh == [kills |-> 0, multikill |-> 0, last |-> 0]
Amounts == 2..MaxKills
NoCounts == [k \in Amounts |-> 0]
Unscored == [kills |-> 0, multikills |-> NoCounts]
NoBaseline == [first |-> 0, ticks |-> 0, dropped |-> 0]

StatsInit ==
  /\ game = 0 /\ running = FALSE /\ game_time = 0 /\ scores = <<>>
  /\ in_game = [s \in 1..MaxSlots |-> Unscored] /\ made = in_game /\ fights = 0
  /\ left = FALSE
  /\ meta = <<>> /\ spawns_cache = 0
  /\ last_game_time = NoTime /\ last_game_info = NoTick /\ events = {}
  /\ dropped_ticks_total = 0 /\ samples = 0 /\ misreads = 0
  /\ baseline = NoBaseline /\ steady = FALSE /\ base = <<>> /\ mistaken = {} /\ overlooked = FALSE

-----------------------------------------------------------------------------
(* Halo (external) *)

Tick ==
  /\ game_time < MaxTime /\ game_time' = game_time + 1
  /\ UNCHANGED <<game, running, scores, in_game, fights, left, reader, loop, history>>

StartGame ==
  /\ ~running /\ game < MaxGames /\ game' = game + 1 /\ running' = TRUE
  /\ game_time' = 0
  /\ \E n \in 1..MaxSlots : scores' = [s \in 1..n |-> Fresh]
  /\ in_game' = [s \in 1..MaxSlots |-> Unscored]
  /\ overlooked' = (overlooked \/ last_game_info.running
                     \/ (last_game_info = NoTick /\ spawns_cache # 0))
  /\ UNCHANGED <<fights, left, reader, loop, made, baseline, steady, base, mistaken>>

StopGame ==
  /\ running /\ running' = FALSE /\ game_time' = 0 /\ scores' = <<>>
  /\ UNCHANGED <<game, in_game, fights, left, reader, loop, history>>

(* A player joins, in a slot of their own. *)
Join ==
  /\ running /\ Len(scores) < MaxSlots /\ scores' = Append(scores, Fresh)
  /\ UNCHANGED <<game, running, game_time, in_game, fights, left, reader, loop, history>>

(* get_game_info reads time_of_last_kill as a signed number. *)
Signed(t) ==
  LET low == t % TimeRange IN IF low < TimeRange \div 2 THEN low ELSE low - TimeRange

MayFight == fights < MaxKills /\ fights' = fights + 1

(* A kill that makes a multikill of this amount. *)
WithKill(stats, amount) ==
  [kills |-> stats.kills + 1,
   multikills |-> [k \in Amounts |-> stats.multikills[k] + (IF k = amount THEN 1 ELSE 0)]]

Amount(score) ==
  IF score.multikill > 0 /\ game_time - score.last <= ChainTicks THEN score.multikill + 1 ELSE 1

Kill(s) ==
  /\ running /\ MayFight
  /\ LET amount == Amount(scores[s])
     IN /\ scores' = [scores EXCEPT ![s] = [kills |-> @.kills + 1, multikill |-> amount,
                                            last |-> game_time]]
        /\ in_game' = [in_game EXCEPT ![s] = WithKill(@, amount)]
        /\ made' = [made EXCEPT ![s] = WithKill(@, amount)]
  /\ UNCHANGED <<game, running, game_time, left, reader, loop, baseline, steady, base, mistaken,
                 overlooked>>

(* A player who dies has no multikill. *)
Die(s) ==
  /\ running /\ scores[s].multikill > 0 /\ MayFight
  /\ scores' = [scores EXCEPT ![s].multikill = 0]
  /\ UNCHANGED <<game, running, game_time, in_game, left, reader, loop, history>>

(* A player who leaves is followed by another one in the same slot. *)
TakeOver(s) ==
  /\ running /\ scores[s] # Fresh /\ MayFight
  /\ scores' = [scores EXCEPT ![s] = Fresh] /\ left' = TRUE
  /\ UNCHANGED <<game, running, game_time, in_game, reader, loop, history>>

-----------------------------------------------------------------------------
(* HaloReader and GameMeta *)

(* get_spawns, get_items: read once, then from the cache.  The menu has no  *)
(* spawn points, and an empty list is not cached.                           *)
Spawns == IF spawns_cache # 0 THEN spawns_cache ELSE IF running THEN game ELSE 0

(* get_game_info: the slots in order, without players whose body, and the   *)
(* one before it, is gone.  Which these are is up to Halo.                  *)
Listings ==
  {listed \in UNION {[1..n -> DOMAIN scores] : n \in 0..Len(scores)} :
     \A p, q \in DOMAIN listed : p < q => listed[p] < listed[q]}

Entry(s) == [player_index |-> s, kills |-> scores[s].kills, multikill |-> scores[s].multikill,
             last |-> scores[s].last]

TickRead(listed) ==
  [time |-> game_time, game |-> game, running |-> running,
   players |-> [p \in DOMAIN listed |-> Entry(listed[p])], spawns |-> Spawns, events |-> {},
   first |-> ~last_game_info.running \/ last_game_info.game # game]

Order(players) == [p \in DOMAIN players |-> players[p].player_index]
Indices(players) == {players[p].player_index : p \in DOMAIN players}
Place(players, s) == CHOOSE p \in DOMAIN players : players[p].player_index = s

(* initialize_players *)
Initialised(indices) == [s \in indices |-> Unscored]

(* ensure_players *)
Ensured(stats, indices) ==
  [s \in DOMAIN stats \cup indices |-> IF s \in DOMAIN stats THEN stats[s] ELSE Unscored]

(* Mutant: a rise counts as one kill, whatever its size. *)
OneKill(old, new) == IF new > old THEN 1 ELSE 0

KillsGained(old, new) == IF new > old THEN new - old ELSE 0

(* Mutant: the amount that was counted already is counted again. *)
AmountsFromOld(old, new) ==
  {k \in Amounts : old.multikill <= k /\ k <= new.multikill}

(* extract_player_stat_events: the multikills between two samples. *)
AmountsReached(old, new) ==
  IF new.multikill > old.multikill
    THEN {k \in Amounts : old.multikill < k /\ k <= new.multikill}
  ELSE IF new.multikill > 1 /\ Signed(new.last) > Signed(old.last) THEN {new.multikill}
  ELSE {}

WithGains(stats, old, new) ==
  [kills |-> stats.kills + KillsGained(old.kills, new.kills),
   multikills |-> [k \in Amounts |-> stats.multikills[k]
                                       + (IF k \in AmountsReached(old, new) THEN 1 ELSE 0)]]

(* Entries are compared by their place and counted by the new one's index. *)
Counted(stats, old, new) ==
  [s \in DOMAIN stats |->
     IF s \in Indices(new) THEN WithGains(stats[s], old[Place(new, s)], new[Place(new, s)])
     ELSE stats[s]]

GameBegins(old, new) == ~old.running /\ new.running
GameGone(old, new) == old.running /\ ~new.running

Comparable(old, new) == old.running /\ new.running /\ Len(old.players) = Len(new.players)
Initialises(old, new) == GameBegins(old, new) \/ DOMAIN meta = {}

(* GameMeta::extract_events *)
MetaAfter(old, new) ==
  LET indices == Indices(new.players)
      known == IF Initialises(old, new) THEN Initialised(indices) ELSE Ensured(meta, indices)
  IN IF Comparable(old, new) THEN Counted(known, old.players, new.players) ELSE known

(* Slots whose player is compared with another. *)
Confused(old, new) ==
  {s \in Indices(new.players) :
     Comparable(old, new) /\ old.players[Place(new.players, s)].player_index # s}

(* Mutant: the events are kept when the engine stops. *)
KeepEvents(old, new) == events \cup IF new.running THEN {new.game} ELSE {}

(* Every tick of a game may bring events; none does while there is no game. *)
EventsAfter(old, new) ==
  IF GameGone(old, new) THEN {} ELSE events \cup IF new.running THEN {new.game} ELSE {}

-----------------------------------------------------------------------------
(* The loop *)

(* Mutant: a tick that could not be read counts as sampled. *)
ForgetFailed == last_game_time' = game_time

(* The error path of main_loop leaves last_game_time alone. *)
AfterFailure == UNCHANGED last_game_time

Missed == IF last_game_time # NoTime /\ game_time > last_game_time + 1
            THEN game_time - last_game_time - 1 ELSE 0

KillsOf(players) == [s \in Indices(players) |-> players[Place(players, s)].kills]

(* Between these ticks the players were the same. *)
Continues(old, new) ==
  Comparable(old, new) /\ old.game = new.game /\ Order(old.players) = Order(new.players) /\ ~left

(* tick_once: the game time has changed and everything can be read. *)
Sample ==
  /\ game_time # last_game_time /\ samples < MaxSamples /\ samples' = samples + 1
  /\ \E listed \in Listings :
       LET old == last_game_info
           new == TickRead(listed)
           extracts == old # NoTick /\ ~GameGone(old, new)
           anew == extracts /\ Initialises(old, new)
       IN /\ meta' = IF extracts THEN MetaAfter(old, new) ELSE meta
          /\ spawns_cache' = IF extracts /\ GameBegins(old, new) THEN 0 ELSE Spawns
          /\ events' = IF old = NoTick THEN events ELSE EventsAfter(old, new)
          /\ last_game_info' = [new EXCEPT !.events = events']
          /\ made' = IF anew THEN in_game ELSE made
          /\ mistaken' = (IF anew THEN {} ELSE mistaken)
                           \cup (IF extracts THEN Confused(old, new) ELSE {})
          /\ steady' = IF anew THEN Comparable(old, new) => Continues(old, new)
                       ELSE steady /\ Continues(old, new)
          /\ base' = IF anew THEN KillsOf(IF Comparable(old, new) THEN old.players ELSE new.players)
                     ELSE IF steady' THEN base ELSE <<>>
          /\ overlooked' = (overlooked /\ new.running)
  /\ dropped_ticks_total' = dropped_ticks_total + Missed
  /\ last_game_time' = game_time /\ left' = FALSE
  /\ baseline' = IF last_game_time = NoTime \/ game_time < last_game_time
                   THEN [first |-> game_time, ticks |-> 1, dropped |-> dropped_ticks_total]
                   ELSE [baseline EXCEPT !.ticks = @ + 1]
  /\ UNCHANGED <<game, running, game_time, scores, in_game, fights, misreads>>

(* A read fails in the middle: spawns may be cached already. *)
SampleFails ==
  /\ game_time # last_game_time /\ misreads < MaxMisreads /\ misreads' = misreads + 1
  /\ spawns_cache' \in {spawns_cache, Spawns} /\ AfterFailure
  /\ UNCHANGED <<halo, meta, last_game_info, events, dropped_ticks_total, samples, history>>

(* ReconnectXemu: a new reader; the loop keeps its last tick and its events. *)
NewReader ==
  /\ misreads < MaxMisreads /\ misreads' = misreads + 1
  /\ meta' = <<>> /\ spawns_cache' = 0 /\ last_game_time' = NoTime
  /\ UNCHANGED <<halo, last_game_info, events, dropped_ticks_total, samples, history>>

StatsNext ==
  \/ Tick \/ StartGame \/ StopGame \/ Join
  \/ \E s \in DOMAIN scores \cap Killers : Kill(s) \/ Die(s) \/ TakeOver(s)
  \/ Sample \/ SampleFails \/ NewReader

StatsSpec == StatsInit /\ [][StatsNext]_statsVars

-----------------------------------------------------------------------------
(* Properties *)

(* Since the first sample, and as long as the clock goes forward, every     *)
(* tick of the game is either sampled or counted as dropped: failed reads   *)
(* and slow rounds included.  (dropped_ticks_total in tick_once.)           *)
DroppedExact ==
  last_game_time # NoTime =>
    last_game_time - baseline.first
      = (baseline.ticks - 1) + (dropped_ticks_total - baseline.dropped)

(* The statistics of a slot never hold a multikill nobody made in it,       *)
(* however many kills fall between two samples, whatever samples are        *)
(* missing, fail or follow a reconnect, and whoever joins, leaves or is not *)
(* listed; except where players left out of the list made another one stand *)
(* in the place of this one: then what the other never made is counted.     *)
(* (extract_player_stat_events compares two values and a 16 bit time.)      *)
MultikillsReal ==
  \A s \in DOMAIN meta \ mistaken, k \in Amounts : meta[s].multikills[k] <= made[s].multikills[k]

(* Nor do they hold kills nobody made; and while the players in the list    *)
(* and the game stay the same none is missing, up to the last tick.         *)
(* (extract_player_stat_events, initialize_players, ensure_players.)        *)
KillsExact ==
  \A s \in DOMAIN meta \ mistaken :
    /\ meta[s].kills <= made[s].kills
    /\ steady => meta[s].kills = KillsOf(last_game_info.players)[s] - base[s]

(* What a tick carries besides its own readings is of its own game: its     *)
(* events, and its spawn points from the game's second tick on, unless a    *)
(* game began behind the program's back.  (events in tick_once, get_spawns  *)
(* and clear_caches, which comes after the first tick has been read.)       *)
TicksOfOneGame ==
  last_game_info.running /\ ~overlooked =>
    /\ last_game_info.events \subseteq {last_game_info.game}
    /\ last_game_info.first \/ last_game_info.spawns = last_game_info.game
=============================================================================
