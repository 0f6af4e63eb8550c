------------------------------ MODULE GameTicks ------------------------------
(***************************************************************************)
(* How the main loop turns what it reads of Halo into ticks: tick_once in  *)
(* main.rs, get_game_info in halo.rs and extract_events in events.rs.      *)
(*                                                                         *)
(* The emulator goes its own way; the loop samples it, misses samples, and *)
(* works out from two consecutive ones which game is on (game_id, derived  *)
(* from game_meta.start_time) and whether it ended on this very tick.      *)
(* Everything that records or publishes games relies on these two fields.  *)
(* Contents of a tick other than these are left out.                       *)
(***************************************************************************)
EXTENDS Naturals, FiniteSets

CONSTANTS
  MaxGames,     (* bound: games played                                     *)
  MaxIds,       (* bound: distinct start times, to the second              *)
  MaxSamples    (* bound: ticks produced                                   *)

ASSUME TickBounds == MaxGames \in Nat /\ MaxIds \in Nat /\ MaxSamples \in Nat

VARIABLES
  game,         (* Halo: the game on, or the last one (0: none yet)        *)
  stage,        (* Halo: no game engine, a game being played, its end      *)
  start,        (* GameMeta.start_time, as a game id                       *)
  lastGameInfo, (* last_game_info: the last tick produced                  *)
  owner,        (* clock: the game during which each second fell           *)
  closed,       (* history: games whose end was seen as such               *)
  idGames       (* history: the games whose ticks carried each id          *)

haloVars == <<game, stage>>
metaVars == <<start, owner>>
tickVars == <<lastGameInfo, closed, idGames>>
gameVars == <<haloVars, metaVars, tickVars>>

NoId == 0
Ids == 1..MaxIds
Games == 1..MaxGames
HaloStages == {"stopped", "scoring", "over"}

(* n: its place among the ticks; game: what Halo was really playing. *)
TickRecord == [n : 1..MaxSamples, game : 0..MaxGames, stage : HaloStages,
         id : Ids \cup {NoId}, ended : BOOLEAN]
NoTick == [n |-> 0, game |-> 0, stage |-> "stopped", id |-> NoId, ended |-> FALSE]

(* game_engine_running and game_engine_can_score of a tick. *)
Running(t) == t.stage # "stopped"
CanScore(t) == t.stage = "scoring"

GameInit ==
  /\ game = 0 /\ stage = "stopped"
  /\ start = NoId /\ owner = [i \in Ids |-> 0]
  /\ lastGameInfo = NoTick
  /\ closed = {} /\ idGames = [i \in Ids |-> {}]

-----------------------------------------------------------------------------
(* Halo (external): a game is played, then shows its result or is left.    *)

StartGame ==
  /\ stage = "stopped" /\ game < MaxGames
  /\ game' = game + 1 /\ stage' = "scoring"
  /\ UNCHANGED <<metaVars, tickVars>>

FinishGame ==
  /\ stage = "scoring" /\ stage' = "over"
  /\ UNCHANGED <<game, metaVars, tickVars>>

LeaveGame ==
  /\ stage # "stopped" /\ stage' = "stopped"
  /\ UNCHANGED <<game, metaVars, tickVars>>

-----------------------------------------------------------------------------
(* Start times are kept to the second: one computed twice for a game may or *)
(* may not come out the same, one computed for a later game never does.     *)
NextSecond(claimed) ==
  {i \in Ids : owner[i] = 0 /\ \A j \in Ids : (owner[j] = 0 /\ j < i) => j \in claimed}
StartTimes(claimed) == {i \in Ids : owner[i] = game} \cup claimed \cup NextSecond(claimed)

Claim(claimed) == owner' = [i \in Ids |-> IF i \in claimed THEN game ELSE owner[i]]

(* get_game_info: the start time is computed (back from the tick count) only *)
(* while none is known and a game is being played.                          *)
KnownStart == IF start = NoId /\ stage = "scoring" THEN StartTimes({}) ELSE {start}

(* extract_events: it is not called when the engine stopped, so that only a *)
(* game that goes from scoring to its result ends.                          *)
EndsGame(old) == CanScore(old) /\ stage = "over"

(* A new game starts its own time: the one of the tick, whose game_id was   *)
(* computed before.                                                         *)
NewGame(old) == old # NoTick /\ ~Running(old) /\ stage # "stopped"

(* Mutant: the start time of a game outlives it. *)
StartKept(old, known, now) == IF NewGame(old) THEN now ELSE known

StartAfter(old, known, now) ==
  IF EndsGame(old) THEN NoId ELSE IF NewGame(old) THEN now ELSE known

TickId(old, known) ==
  IF EndsGame(old) THEN old.id ELSE IF stage = "scoring" THEN known ELSE NoId

(* tick_once with a changed game time: read, extract, publish. *)
Sample ==
  /\ lastGameInfo.n < MaxSamples
  /\ \E known \in KnownStart :
     \E now \in IF NewGame(lastGameInfo) THEN StartTimes({known} \ {start}) ELSE {known} :
       LET old == lastGameInfo
           id == TickId(old, known)
       IN
         /\ start' = StartAfter(old, known, now)
         /\ Claim({known, now} \ {start, NoId})
         /\ lastGameInfo' = [n |-> old.n + 1, game |-> game, stage |-> stage,
                             id |-> id, ended |-> EndsGame(old)]
         /\ closed' = IF EndsGame(old) /\ old.game = game THEN closed \cup {game} ELSE closed
         /\ idGames' = [i \in Ids |-> IF i = id THEN idGames[i] \cup {game} ELSE idGames[i]]
  /\ UNCHANGED haloVars

(* A read fails after the start time was set: no tick, but it is kept. *)
SampleFails ==
  /\ start = NoId /\ stage = "scoring"
  /\ start' \in KnownStart
  /\ Claim({start'})
  /\ UNCHANGED <<haloVars, tickVars>>

(* ReconnectXemu puts a new reader, with a new GameMeta, in place. *)
ReconnectXemu ==
  /\ start # NoId /\ start' = NoId
  /\ UNCHANGED <<haloVars, owner, tickVars>>

GameNext ==
  \/ StartGame \/ FinishGame \/ LeaveGame
  \/ Sample \/ SampleFails \/ ReconnectXemu

GameSpec == GameInit /\ [][GameNext]_gameVars

-----------------------------------------------------------------------------
(* Properties *)

GameTypeOK ==
  /\ game \in 0..MaxGames /\ stage \in HaloStages
  /\ start \in Ids \cup {NoId} /\ owner \in [Ids -> 0..MaxGames]
  /\ lastGameInfo \in TickRecord \cup {NoTick}
  /\ closed \subseteq Games /\ idGames \in [Ids -> SUBSET (0..MaxGames)]
  /\ (CanScore(lastGameInfo) \/ lastGameInfo.ended) <=> lastGameInfo.id # NoId

(* Two games go by the same id only if the end of the earlier one was never *)
(* seen: consumers that tell games apart by game_id tell apart all those    *)
(* that ended as games do.                                                  *)
IdTellsGamesApart ==
  \A i \in Ids : \A g, h \in idGames[i] : g < h => g \notin closed
=============================================================================
