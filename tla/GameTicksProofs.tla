--------------------------- MODULE GameTicksProofs ---------------------------
(***************************************************************************)
(* Proofs about GameTicks for any number of games and samples: a game_id   *)
(* is shared by two games only if the end of the first was never seen.     *)
(***************************************************************************)
EXTENDS GameTicks, TLAPS

USE DEF haloVars, metaVars, tickVars, NoId

(* No game whose end was seen goes by this id. *)
Unfinished(i) == \A g \in idGames[i] : g \notin closed

MetaType ==
  /\ game \in Nat /\ stage \in HaloStages /\ (stage # "stopped" => game > 0)
  /\ start \in Ids \cup {NoId} /\ owner \in [Ids -> Nat]
  /\ idGames \in [Ids -> SUBSET Nat]
  /\ lastGameInfo.id \in Ids \cup {NoId} /\ lastGameInfo.stage \in HaloStages

(* A second belongs to the game on when it was first used, and whatever     *)
(* goes by it came then or later.                                           *)
OwnerInv ==
  /\ \A i \in Ids : owner[i] <= game
  /\ \A i \in Ids : \A g \in idGames[i] : g <= game /\ 0 < owner[i] /\ owner[i] <= g
  /\ \A g \in closed : g \in Nat /\ g <= game

(* The ids that a later tick may still carry - that of the reader, and that *)
(* of the last tick while its game is on - belong to no game that is over.  *)
(* The game on is over only until Halo leaves it, and the loop has seen it. *)
OpenInv ==
  /\ start # NoId => owner[start] > 0 /\ Unfinished(start)
  /\ CanScore(lastGameInfo) =>
       lastGameInfo.id # NoId /\ owner[lastGameInfo.id] > 0 /\ Unfinished(lastGameInfo.id)
  /\ game \in closed => stage = "stopped" \/ (stage = "over" /\ lastGameInfo.stage = "over")

GInv == MetaType /\ OwnerInv /\ OpenInv /\ IdTellsGamesApart

-----------------------------------------------------------------------------
LEMMA GameInitSafe == GameInit => GInv
<1> SUFFICES ASSUME GameInit PROVE GInv
  OBVIOUS
<1>1. MetaType
  BY DEF GameInit, MetaType, HaloStages, NoTick
<1>2. OwnerInv /\ OpenInv /\ IdTellsGamesApart
  BY DEF GameInit, OwnerInv, OpenInv, IdTellsGamesApart, Unfinished, CanScore, NoTick
<1> QED
  BY <1>1, <1>2 DEF GInv

(* A start time just computed is nobody else's. *)
LEMMA NewStart ==
  ASSUME GInv, NEW claimed \in SUBSET Ids,
         \A i \in claimed : owner[i] \in {0, game},
         NEW i \in StartTimes(claimed)
  PROVE  /\ i \in Ids /\ owner[i] \in {0, game}
         /\ \A g \in idGames[i] : g = game
<1>1. i \in Ids /\ owner[i] \in {0, game}
  BY DEF StartTimes, NextSecond
<1>2. ASSUME NEW g \in idGames[i]
      PROVE  g = game
  <2>1. g <= game /\ 0 < owner[i] /\ owner[i] <= g /\ g \in Nat /\ game \in Nat
    BY <1>1, <1>2 DEF GInv, OwnerInv, MetaType
  <2> QED
    BY <1>1, <2>1
<1> QED
  BY <1>1, <1>2

(* Seconds are claimed for the game on, as long as nobody had them.         *)
LEMMA ClaimSafe ==
  ASSUME GInv, NEW claimed \in SUBSET Ids, \A i \in claimed : owner[i] \in {0, game},
         Claim(claimed), claimed = {} \/ game > 0
  PROVE  /\ owner' \in [Ids -> Nat]
         /\ \A i \in Ids : owner'[i] <= game
         /\ \A i \in claimed : owner'[i] > 0
         /\ \A i \in Ids : owner[i] > 0 => owner'[i] = owner[i]
<1>1. game \in Nat /\ owner \in [Ids -> Nat] /\ \A i \in Ids : owner[i] <= game
  BY DEF GInv, MetaType, OwnerInv
<1>2. owner' = [i \in Ids |-> IF i \in claimed THEN game ELSE owner[i]]
  BY DEF Claim
<1> QED
  BY <1>1, <1>2

(* What the reader takes for the start of the game on.                      *)
LEMMA KnownSafe ==
  ASSUME GInv, NEW known \in KnownStart
  PROVE  /\ known \in Ids \cup {NoId}
         /\ known = NoId => stage # "scoring"
         /\ known # NoId => Unfinished(known)
         /\ known \in {start, NoId} \/ owner[known] \in {0, game}
<1>1. CASE start = NoId /\ stage = "scoring"
  <2>1. known \in StartTimes({})
    BY <1>1 DEF KnownStart
  <2>2. known \in Ids /\ owner[known] \in {0, game} /\ \A g \in idGames[known] : g = game
    BY <2>1, NewStart
  <2>3. game \notin closed
    BY <1>1 DEF GInv, OpenInv
  <2>4. 0 \notin Ids
    BY DEF Ids
  <2> QED
    BY <2>2, <2>3, <2>4 DEF Unfinished
<1>2. CASE ~(start = NoId /\ stage = "scoring")
  <2>1. known = start
    BY <1>2 DEF KnownStart
  <2> QED
    BY <1>2, <2>1 DEF GInv, MetaType, OpenInv
<1> QED
  BY <1>1, <1>2

-----------------------------------------------------------------------------
(* A tick *)

LEMMA SampleSafe ==
  ASSUME GInv, Sample
  PROVE  GInv'
<1> DEFINE old == lastGameInfo
<1>1. PICK known \in KnownStart :
        \E now \in IF NewGame(old) THEN StartTimes({known} \ {start}) ELSE {known} :
          /\ start' = StartAfter(old, known, now)
          /\ Claim({known, now} \ {start, NoId})
          /\ lastGameInfo' = [n |-> old.n + 1, game |-> game, stage |-> stage,
                              id |-> TickId(old, known), ended |-> EndsGame(old)]
          /\ closed' = IF EndsGame(old) /\ old.game = game THEN closed \cup {game} ELSE closed
          /\ idGames' = [i \in Ids |-> IF i = TickId(old, known) THEN idGames[i] \cup {game} ELSE idGames[i]]
  BY DEF Sample
<1>2. PICK now \in IF NewGame(old) THEN StartTimes({known} \ {start}) ELSE {known} :
        /\ start' = StartAfter(old, known, now)
        /\ Claim({known, now} \ {start, NoId})
        /\ lastGameInfo' = [n |-> old.n + 1, game |-> game, stage |-> stage,
                            id |-> TickId(old, known), ended |-> EndsGame(old)]
        /\ closed' = IF EndsGame(old) /\ old.game = game THEN closed \cup {game} ELSE closed
        /\ idGames' = [i \in Ids |-> IF i = TickId(old, known) THEN idGames[i] \cup {game} ELSE idGames[i]]
  BY <1>1
<1> DEFINE id == TickId(old, known)
           claimed == {known, now} \ {start, NoId}
<1>3. UNCHANGED haloVars
  BY DEF Sample
<1>4. /\ game \in Nat /\ stage \in HaloStages /\ owner \in [Ids -> Nat] /\ 0 \notin Ids
      /\ start \in Ids \cup {NoId} /\ idGames \in [Ids -> SUBSET Nat] /\ old.id \in Ids \cup {NoId}
  BY DEF GInv, MetaType, Ids

(* The start times. *)
<1>5. /\ known \in Ids \cup {NoId} /\ (known = NoId => stage # "scoring")
      /\ (known # NoId => Unfinished(known))
      /\ (known = start \/ owner[known] \in {0, game})
      /\ (known # start => known # NoId /\ stage = "scoring")
  BY <1>1, KnownSafe DEF KnownStart, StartTimes, NextSecond, Ids
<1>6. NewGame(old) =>
        /\ now \in Ids /\ owner[now] \in {0, game} /\ (\A g \in idGames[now] : g = game)
        /\ stage # "stopped" /\ game \notin closed
  <2> SUFFICES ASSUME NewGame(old)
               PROVE  /\ now \in Ids /\ owner[now] \in {0, game} /\ (\A g \in idGames[now] : g = game)
                      /\ stage # "stopped" /\ game \notin closed
    OBVIOUS
  <2>1. {known} \ {start} \in SUBSET Ids /\ \A i \in {known} \ {start} : owner[i] \in {0, game}
    BY <1>5
  <2>2. now \in StartTimes({known} \ {start})
    BY <1>2
  <2>3. stage # "stopped" /\ old.stage = "stopped"
    BY DEF NewGame, Running
  <2>4. game \notin closed
    BY <2>3 DEF GInv, OpenInv
  <2> QED
    BY <2>1, <2>2, <2>3, <2>4, NewStart
<1>7. ~NewGame(old) => now = known
  BY <1>2
<1>8. claimed \in SUBSET Ids /\ \A i \in claimed : owner[i] \in {0, game}
  BY <1>4, <1>5, <1>6, <1>7
<1>9. claimed = {} \/ game > 0
  BY <1>3, <1>5, <1>6, <1>7 DEF GInv, MetaType
<1>10. /\ owner' \in [Ids -> Nat] /\ \A i \in Ids : owner'[i] <= game
       /\ \A i \in claimed : owner'[i] > 0
       /\ \A i \in Ids : owner[i] > 0 => owner'[i] = owner[i]
  BY <1>2, <1>8, <1>9, ClaimSafe
<1>11. start # NoId => owner'[start] > 0
  BY <1>4, <1>10 DEF GInv, OpenInv
<1>12. (known # NoId => owner'[known] > 0) /\ (now # NoId => owner'[now] > 0)
  BY <1>10, <1>11

(* The id of the tick. *)
<1>13. EndsGame(old) => /\ id = old.id /\ stage = "over" /\ old.id # NoId
                        /\ owner'[old.id] > 0 /\ Unfinished(old.id)
  BY <1>4, <1>10 DEF EndsGame, TickId, GInv, OpenInv
<1>14. ~EndsGame(old) => id \in {known, NoId} /\ (id = NoId <=> stage # "scoring")
  BY <1>5 DEF TickId
<1>15. /\ id \in Ids \cup {NoId}
       /\ id # NoId => owner'[id] > 0 /\ Unfinished(id)
  BY <1>4, <1>5, <1>12, <1>13, <1>14
<1>16. stage = "scoring" => game \notin closed /\ ~EndsGame(old)
  BY DEF GInv, OpenInv, EndsGame
<1>17. /\ \A i \in Ids : idGames'[i] = IF i = id THEN idGames[i] \cup {game} ELSE idGames[i]
       /\ idGames' \in [Ids -> SUBSET Nat]
  BY <1>2, <1>4
<1>18. closed' \subseteq closed \cup {game} /\ (~EndsGame(old) => closed' = closed)
  BY <1>2
<1>19. lastGameInfo'.stage = stage /\ lastGameInfo'.id = id
  BY <1>2
<1> HIDE DEF id, claimed, old

<1>20. MetaType'
  <2>1. start' \in Ids \cup {NoId}
    BY <1>2, <1>5, <1>6 DEF StartAfter, old
  <2> QED
    BY <1>3, <1>4, <1>10, <1>15, <1>17, <1>19, <2>1 DEF GInv, MetaType
<1>21. OwnerInv'
  <2>1. ASSUME NEW i \in Ids, NEW g \in idGames'[i]
        PROVE  g <= game /\ 0 < owner'[i] /\ owner'[i] <= g
    <3>1. CASE g \in idGames[i]
      BY <1>4, <1>10, <3>1 DEF GInv, OwnerInv
    <3>2. CASE g \notin idGames[i]
      <4>1. i = id /\ g = game
        BY <1>17, <2>1, <3>2
      <4> QED
        BY <1>4, <1>10, <1>15, <4>1
    <3> QED
      BY <3>1, <3>2
  <2>2. \A g \in closed' : g \in Nat /\ g <= game
    BY <1>4, <1>18 DEF GInv, OwnerInv
  <2> QED
    BY <1>3, <1>10, <2>1, <2>2 DEF OwnerInv
<1>22. IdTellsGamesApart'
  <2> SUFFICES ASSUME NEW i \in Ids, NEW g \in idGames'[i], NEW h \in idGames'[i], g < h
               PROVE  g \notin closed'
    BY DEF IdTellsGamesApart
  <2>1. h <= game /\ g \in Nat /\ h \in Nat
    BY <1>3, <1>17, <1>21 DEF OwnerInv
  <2>2. g # game /\ g \in idGames[i]
    BY <1>4, <1>17, <2>1
  <2>3. g \notin closed
    <3>1. CASE h \in idGames[i]
      BY <2>2, <3>1 DEF GInv, IdTellsGamesApart
    <3>2. CASE h \notin idGames[i]
      <4>1. i = id
        BY <1>17, <3>2
      <4> QED
        BY <1>15, <2>2, <4>1, <1>4 DEF Unfinished
    <3> QED
      BY <3>1, <3>2
  <2> QED
    BY <1>18, <2>2, <2>3
<1>23. OpenInv'
  <2>1. ASSUME NEW i \in Ids, ~EndsGame(old), Unfinished(i), i = id => game \notin closed
        PROVE  Unfinished(i)'
    BY <1>17, <1>18, <2>1 DEF Unfinished
  <2>2. start' # NoId => owner'[start'] > 0 /\ Unfinished(start)'
    <3>1. CASE EndsGame(old)
      BY <1>2, <3>1 DEF StartAfter, old
    <3>2. CASE ~EndsGame(old) /\ NewGame(old)
      <4>1. start' = now
        BY <1>2, <3>2 DEF StartAfter, old
      <4>2. now \in Ids /\ Unfinished(now) /\ game \notin closed
        BY <1>6, <3>2 DEF Unfinished, old
      <4>3. Unfinished(now)'
        BY <2>1, <3>2, <4>2
      <4> QED
        BY <1>12, <4>1, <4>3 DEF Unfinished
    <3>3. CASE ~EndsGame(old) /\ ~NewGame(old)
      <4>1. start' = known
        BY <1>2, <3>3 DEF StartAfter, old
      <4>2. known # NoId => known \in Ids /\ Unfinished(known)
        BY <1>5
      <4>3. known # NoId /\ known = id => game \notin closed
        BY <1>14, <1>16, <3>3
      <4>4. known # NoId => Unfinished(known)'
        BY <2>1, <3>3, <4>2, <4>3
      <4> QED
        BY <1>12, <4>1, <4>4 DEF Unfinished
    <3> QED
      BY <3>1, <3>2, <3>3
  <2>3. CanScore(lastGameInfo)' =>
          /\ lastGameInfo'.id # NoId /\ owner'[lastGameInfo'.id] > 0
          /\ \A g \in idGames'[lastGameInfo'.id] : g \notin closed'
    <3> SUFFICES ASSUME stage = "scoring"
                 PROVE  id # NoId /\ owner'[id] > 0 /\ \A g \in idGames'[id] : g \notin closed'
      BY <1>19 DEF CanScore
    <3>1. id # NoId /\ id \in Ids
      BY <1>14, <1>15, <1>16
    <3>2. PICK i \in Ids : i = id
      BY <3>1
    <3>3. Unfinished(i)'
      BY <1>15, <1>16, <2>1, <3>1, <3>2
    <3> QED
      BY <1>15, <3>1, <3>2, <3>3 DEF Unfinished
  <2>4. game' \in closed' => stage' = "stopped" \/ (stage' = "over" /\ lastGameInfo'.stage = "over")
    BY <1>3, <1>4, <1>16, <1>18, <1>19 DEF HaloStages
  <2> QED
    BY <2>2, <2>3, <2>4 DEF OpenInv, Unfinished
<1> QED
  BY <1>20, <1>21, <1>22, <1>23 DEF GInv

-----------------------------------------------------------------------------
(* Ticks, and ids that are spent *)

(* A tick on its way: numbered from 1. *)
AnyTick == [n : Nat \ {0}, game : Nat, stage : HaloStages, id : Ids \cup {NoId}, ended : BOOLEAN]
MaybeTick == AnyTick \cup {NoTick}

(* What the game and its sampling give. *)
LEMMA SampleTick ==
  ASSUME GInv, lastGameInfo \in MaybeTick, Sample
  PROVE  /\ lastGameInfo' \in AnyTick /\ lastGameInfo'.n = lastGameInfo.n + 1
         /\ (lastGameInfo'.ended => lastGameInfo'.id # NoId)
         /\ lastGameInfo'.ended <=> EndsGame(lastGameInfo)
<1>1. MetaType'
  BY SampleSafe DEF GInv
<1>2. /\ lastGameInfo' = [n |-> lastGameInfo.n + 1, game |-> game, stage |-> stage,
                          id |-> lastGameInfo'.id, ended |-> EndsGame(lastGameInfo)]
      /\ EndsGame(lastGameInfo) => lastGameInfo'.id = lastGameInfo.id
  BY DEF Sample, TickId
<1>3. lastGameInfo.n \in Nat /\ game \in Nat /\ stage \in HaloStages
  BY DEF MaybeTick, AnyTick, NoTick, GInv, MetaType
<1>4. lastGameInfo'.id \in Ids \cup {NoId}
  BY <1>1 DEF MetaType
<1>5. EndsGame(lastGameInfo) \in BOOLEAN
  BY DEF EndsGame, CanScore
<1>6. EndsGame(lastGameInfo) => lastGameInfo.id # NoId
  BY DEF EndsGame, GInv, OpenInv
<1> QED
  BY <1>2, <1>3, <1>4, <1>5, <1>6 DEF AnyTick

(* The id of a tick that ended a game is spent: the reader has forgotten it, *)
(* no game on is scoring under it, and the game that claimed it is over as   *)
(* far as the loop goes.                                                     *)
IsSpent(i) ==
  /\ i # start /\ owner[i] > 0
  /\ CanScore(lastGameInfo) => i # lastGameInfo.id
  /\ owner[i] = game => stage = "stopped" \/ (stage = "over" /\ lastGameInfo.stage = "over")

(* Once spent, an id stays so; the one that is being ended was not yet.      *)
LEMMA SpentStays ==
  ASSUME GInv, NEW i \in Ids, IsSpent(i), GameNext \/ UNCHANGED gameVars
  PROVE  IsSpent(i)'
<1>0. /\ game \in Nat /\ owner \in [Ids -> Nat] /\ owner[i] <= game /\ stage \in HaloStages
      /\ i # NoId
  BY DEF GInv, MetaType, OwnerInv, Ids, NoId
<1>1. CASE StartGame \/ FinishGame \/ LeaveGame
  <2>1. /\ start' = start /\ owner' = owner /\ lastGameInfo' = lastGameInfo
        /\ \/ game' = game + 1
           \/ game' = game /\ stage' = "stopped"
           \/ game' = game /\ stage = "scoring"
    BY <1>1 DEF StartGame, FinishGame, LeaveGame, metaVars, tickVars
  <2> QED
    BY <1>0, <2>1 DEF IsSpent
<1>2. CASE Sample
  <2>1. PICK known \in KnownStart :
        \E now \in IF NewGame(lastGameInfo) THEN StartTimes({known} \ {start}) ELSE {known} :
          LET old == lastGameInfo
              id == TickId(old, known)
          IN  /\ start' = StartAfter(old, known, now)
              /\ Claim({known, now} \ {start, NoId})
              /\ lastGameInfo' = [n |-> old.n + 1, game |-> game, stage |-> stage,
                                  id |-> id, ended |-> EndsGame(old)]
    BY <1>2 DEF Sample
  <2>2. PICK now \in IF NewGame(lastGameInfo) THEN StartTimes({known} \ {start}) ELSE {known} :
          /\ start' = StartAfter(lastGameInfo, known, now)
          /\ Claim({known, now} \ {start, NoId})
          /\ lastGameInfo' = [n |-> lastGameInfo.n + 1, game |-> game, stage |-> stage,
                              id |-> TickId(lastGameInfo, known), ended |-> EndsGame(lastGameInfo)]
    BY <2>1
  <2>3. known # i
    BY <1>0 DEF KnownStart, StartTimes, NextSecond, IsSpent
  <2>4. now # i
    <3>1. CASE NewGame(lastGameInfo)
      <4>1. now = known \/ (now \in Ids /\ owner[now] \in {0, game})
        BY <2>2, <3>1 DEF StartTimes, NextSecond
      <4>2. stage # "stopped" /\ lastGameInfo.stage = "stopped"
        BY <3>1 DEF NewGame, Running
      <4> QED
        BY <1>0, <2>3, <4>1, <4>2 DEF IsSpent
    <3>2. CASE ~NewGame(lastGameInfo)
      BY <2>2, <2>3, <3>2
    <3> QED
      BY <3>1, <3>2
  <2>5. owner'[i] = owner[i]
    BY <2>2, <2>3, <2>4 DEF Claim
  <2>6. start' # i
    BY <1>0, <2>2, <2>3, <2>4 DEF StartAfter
  <2>7. CanScore(lastGameInfo') => lastGameInfo'.id # i
    BY <1>0, <2>2, <2>3 DEF CanScore, TickId, EndsGame
  <2>8. CanScore(lastGameInfo)' = CanScore(lastGameInfo')
    BY DEF CanScore
  <2>9. lastGameInfo'.stage = stage /\ UNCHANGED <<game, stage>>
    BY <1>2, <2>2 DEF Sample, haloVars
  <2> QED
    BY <1>0, <2>5, <2>6, <2>7, <2>8, <2>9 DEF IsSpent, CanScore
<1>3. CASE SampleFails
  <2>1. start' # i /\ owner'[i] = owner[i] /\ UNCHANGED <<game, stage, lastGameInfo>>
    BY <1>0, <1>3 DEF SampleFails, Claim, KnownStart, StartTimes, NextSecond, IsSpent, haloVars, tickVars
  <2> QED
    BY <2>1 DEF IsSpent, CanScore
<1>4. CASE ReconnectXemu
  BY <1>0, <1>4 DEF ReconnectXemu, IsSpent, CanScore, haloVars, tickVars
<1>5. CASE UNCHANGED gameVars
  BY <1>5 DEF gameVars, haloVars, metaVars, tickVars, IsSpent, CanScore
<1> QED
  BY <1>1, <1>2, <1>3, <1>4, <1>5 DEF GameNext

LEMMA EndingSpends ==
  ASSUME GInv, Sample, lastGameInfo'.ended
  PROVE  \E i \in Ids : i = lastGameInfo'.id /\ IsSpent(i)' /\ ~IsSpent(i)
<1>1. EndsGame(lastGameInfo)
  BY DEF Sample
<1>2. CanScore(lastGameInfo) /\ stage = "over" /\ ~NewGame(lastGameInfo)
  BY <1>1 DEF EndsGame, CanScore, NewGame, Running
<1>3. /\ start' = NoId /\ owner' = owner /\ lastGameInfo'.id = lastGameInfo.id
      /\ lastGameInfo'.stage = stage /\ UNCHANGED <<game, stage>>
  <2>1. KnownStart = {start}
    BY <1>2 DEF KnownStart
  <2>2. owner \in [Ids -> Nat]
    BY DEF GInv, MetaType
  <2> QED
    BY <1>1, <1>2, <2>1, <2>2 DEF Sample, StartAfter, Claim, TickId, haloVars
<1>4. PICK i \in Ids : i = lastGameInfo.id /\ i # NoId /\ owner[i] > 0
  BY <1>2 DEF GInv, MetaType, OpenInv
<1>5. IsSpent(i)' /\ ~IsSpent(i)
  BY <1>2, <1>3, <1>4 DEF IsSpent, CanScore
<1> QED
  BY <1>3, <1>4, <1>5

-----------------------------------------------------------------------------
(* Every step *)

LEMMA GameStep ==
  ASSUME GInv, [GameNext]_gameVars
  PROVE  GInv'
<1> USE DEF GInv, MetaType, OwnerInv, OpenInv, IdTellsGamesApart, Unfinished
<1>1. CASE StartGame
  <2>1. game' = game + 1 /\ stage' = "scoring" /\ stage = "stopped" /\ game \in Nat
        /\ UNCHANGED <<metaVars, tickVars>>
    BY <1>1 DEF StartGame
  <2>2. game' \notin closed
    BY <2>1
  <2>3. MetaType'
    BY <2>1 DEF HaloStages
  <2>4. OwnerInv'
    BY <2>1
  <2>5. OpenInv'
    BY <2>1, <2>2 DEF CanScore
  <2>6. IdTellsGamesApart'
    BY <2>1
  <2> QED
    BY <2>3, <2>4, <2>5, <2>6
<1>2. CASE FinishGame \/ LeaveGame
  <2>1. /\ stage # "stopped" /\ stage' \in {"over", "stopped"} /\ UNCHANGED <<game, metaVars, tickVars>>
        /\ stage' = "over" => stage = "scoring"
    BY <1>2 DEF FinishGame, LeaveGame
  <2>2. MetaType'
    BY <2>1 DEF HaloStages
  <2>3. OwnerInv' /\ IdTellsGamesApart'
    BY <2>1
  <2>4. OpenInv'
    BY <2>1 DEF CanScore
  <2> QED
    BY <2>2, <2>3, <2>4
<1>3. CASE SampleFails
  <2>1. PICK known \in KnownStart : start' = known /\ Claim({known})
    BY <1>3 DEF SampleFails
  <2>2. start = NoId /\ stage = "scoring" /\ UNCHANGED <<haloVars, tickVars>>
    BY <1>3 DEF SampleFails
  <2>3. /\ known \in Ids /\ Unfinished(known) /\ owner[known] \in {0, game} /\ game > 0
    <3> HIDE DEF GInv, Unfinished
    <3>1. known \in Ids \cup {NoId} /\ known # NoId
      BY <2>2, KnownSafe
    <3>2. Unfinished(known)
      BY <3>1, KnownSafe
    <3>3. known \in StartTimes({})
      BY <2>2 DEF KnownStart
    <3> QED
      BY <2>2, <3>1, <3>2, <3>3 DEF StartTimes, NextSecond, GInv
  <2>4. /\ owner' \in [Ids -> Nat] /\ \A i \in Ids : owner'[i] <= game
        /\ owner'[known] > 0
        /\ \A i \in Ids : owner[i] > 0 => owner'[i] = owner[i]
    <3> HIDE DEF GInv
    <3>1. {known} \in SUBSET Ids /\ \A i \in {known} : owner[i] \in {0, game}
      BY <2>3
    <3> QED
      BY <2>1, <2>3, <3>1, ClaimSafe
  <2>5. MetaType'
    BY <2>1, <2>2, <2>3, <2>4
  <2>6. OwnerInv' /\ IdTellsGamesApart'
    BY <2>1, <2>2, <2>3, <2>4
  <2>7. OpenInv'
    BY <2>1, <2>2, <2>3, <2>4 DEF CanScore, Ids
  <2> QED
    BY <2>5, <2>6, <2>7
<1>4. CASE ReconnectXemu
  BY <1>4 DEF ReconnectXemu, CanScore
<1>5. CASE UNCHANGED gameVars
  BY <1>5 DEF gameVars, CanScore
<1> HIDE DEF GInv
<1> QED
  BY <1>1, <1>2, <1>3, <1>4, <1>5, SampleSafe DEF GameNext

(* Two games are published under one game_id only if the end of the first   *)
(* was never seen, for any number of games, seconds and samples, and        *)
(* wherever reads fail and readers are replaced (get_game_info,             *)
(* extract_events).                                                         *)
THEOREM GameIdsApart == GameSpec => []IdTellsGamesApart
<1>1. GInv => IdTellsGamesApart
  BY DEF GInv
<1> QED
  BY <1>1, GameInitSafe, GameStep, PTL DEF GameSpec

LEMMA GameTypeStep ==
  ASSUME GInv, GameTypeOK, [GameNext]_gameVars
  PROVE  GameTypeOK'
<1>1. GInv'
  BY GameStep
<1>2. MaxGames \in Nat /\ MaxSamples \in Nat
  BY TickBounds
<1>3. game' \in 0..MaxGames
  BY <1>1, <1>2 DEF GameTypeOK, GameNext, StartGame, FinishGame, LeaveGame, Sample, SampleFails,
                    ReconnectXemu, gameVars, Games
<1>4. /\ stage' \in HaloStages /\ start' \in Ids \cup {NoId}
      /\ owner' \in [Ids -> Nat] /\ \A i \in Ids : owner'[i] <= game'
      /\ idGames' \in [Ids -> SUBSET Nat] /\ \A i \in Ids : \A g \in idGames'[i] : g <= game'
      /\ \A g \in closed' : g \in Nat /\ g <= game'
  BY <1>1 DEF GInv, MetaType, OwnerInv
<1>5. owner' \in [Ids -> 0..MaxGames] /\ idGames' \in [Ids -> SUBSET (0..MaxGames)]
  <2>1. \A i \in Ids : owner'[i] \in 0..MaxGames /\ idGames'[i] \in SUBSET (0..MaxGames)
    BY <1>2, <1>3, <1>4
  <2> QED
    BY <1>4, <2>1
<1>6. closed' \subseteq Games
  <2>1. \A g \in closed' : g \in closed \/ g > 0
    BY DEF GameNext, StartGame, FinishGame, LeaveGame, Sample, SampleFails, ReconnectXemu,
           gameVars, EndsGame, GInv, MetaType
  <2> QED
    BY <1>2, <1>3, <1>4, <2>1 DEF GameTypeOK, Games
<1>7. /\ lastGameInfo' \in TickRecord \cup {NoTick}
      /\ (CanScore(lastGameInfo') \/ lastGameInfo'.ended) <=> lastGameInfo'.id # NoId
  <2>1. CASE Sample
    <3>1. lastGameInfo \in MaybeTick
      BY <1>2 DEF GameTypeOK, TickRecord, MaybeTick, AnyTick
    <3>2. /\ lastGameInfo' \in AnyTick /\ lastGameInfo'.n = lastGameInfo.n + 1
          /\ lastGameInfo'.ended => lastGameInfo'.id # NoId
          /\ lastGameInfo'.ended <=> EndsGame(lastGameInfo)
      BY <2>1, <3>1, SampleTick
    <3>3. lastGameInfo.n < MaxSamples /\ lastGameInfo'.game = game /\ game' = game
          /\ lastGameInfo'.stage = stage
      BY <2>1 DEF Sample
    <3>4. PICK known \in KnownStart : lastGameInfo'.id = TickId(lastGameInfo, known)
      BY <2>1 DEF Sample
    <3>5. known = NoId => stage # "scoring"
      BY KnownSafe
    <3>6. (CanScore(lastGameInfo') \/ lastGameInfo'.ended) <=> lastGameInfo'.id # NoId
      BY <3>2, <3>3, <3>4, <3>5 DEF TickId, EndsGame, CanScore
    <3>7. lastGameInfo'.n \in 1..MaxSamples
      BY <1>2, <3>1, <3>2, <3>3 DEF MaybeTick, AnyTick, NoTick
    <3>8. lastGameInfo'.game \in 0..MaxGames
      BY <1>3, <3>3
    <3> QED
      BY <3>2, <3>6, <3>7, <3>8 DEF AnyTick, TickRecord
  <2>2. CASE ~Sample
    <3>1. lastGameInfo' = lastGameInfo
      BY <2>2 DEF GameNext, StartGame, FinishGame, LeaveGame, SampleFails, ReconnectXemu, gameVars
    <3> QED
      BY <3>1 DEF GameTypeOK, CanScore
  <2> QED
    BY <2>1, <2>2
<1> QED
  BY <1>3, <1>4, <1>5, <1>6, <1>7 DEF GameTypeOK, CanScore

LEMMA GameTypeInit == GameInit => GameTypeOK
BY TickBounds DEF GameInit, GameTypeOK, HaloStages, NoTick, CanScore, Games

(* The variables of GameTicks keep their types, among them what consumers of *)
(* ticks rely on: a tick names its game exactly when the game is being       *)
(* scored or has just ended (tick_once, which sets game_id).                 *)
THEOREM GameTypes == GameSpec => []GameTypeOK
BY GameInitSafe, GameStep, GameTypeInit, GameTypeStep, PTL DEF GameSpec
=============================================================================
