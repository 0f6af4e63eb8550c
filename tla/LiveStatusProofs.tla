--------------------------- MODULE LiveStatusProofs ---------------------------
(***************************************************************************)
(* Proofs about LiveStatus for any number of games, ticks, connections and *)
(* timeouts: the relay server is not left believing that a game is on, and *)
(* is not told so of one whose end it knows.                               *)
(***************************************************************************)
EXTENDS LiveStatus, GameTicksProofs

LiveType ==
  /\ lastGameInfo \in MaybeTick /\ queue \in Seq(AnyTick)
  /\ lastStatus \in LiveStatuses \cup {NoStatus} /\ lastId \in StatusIds \cup {NoId}
  /\ terminalSent \in {NoId, lastId}
  /\ sent \in Seq(SentStatuses) /\ ended \subseteq Ids

(* The ticks that wait are those of the games so far, in their order; one   *)
(* that cannot score and a later one that can are of different games.  What *)
(* ended a game has an id of which no later tick is live.                   *)
Waiting(t) ==
  /\ t.game <= game /\ (stage = "scoring" /\ ~CanScore(t) => t.game < game)
  /\ t.id # NoId => t.game \in idGames[t.id]
  /\ CanScore(t) \/ t.ended => t.id # NoId
  /\ t.ended => IsSpent(t.id) /\ ~CanScore(t)
Before(s, t) ==
  /\ s.game <= t.game
  /\ ~CanScore(s) /\ CanScore(t) => s.game < t.game
  /\ s.ended /\ CanScore(t) => t.id # s.id
QueueInv ==
  /\ \A j \in 1..Len(queue) : Waiting(queue[j])
  /\ \A j, k \in 1..Len(queue) : j < k => Before(queue[j], queue[k])

(* The game remembered has been seen, and all ticks to come are of it or of *)
(* later ones.  If the server was told that it is over, those of them that  *)
(* are live are of later ones.                                              *)
SeenBefore(i) == \E g \in idGames[i] : g <= game /\ \A j \in 1..Len(queue) : g <= queue[j].game
Past(i) ==
  \E g \in idGames[i] : /\ g <= game /\ (stage = "scoring" => g < game)
                        /\ \A j \in 1..Len(queue) : CanScore(queue[j]) => g < queue[j].game
TwoGames(i) == i \in Ids /\ \E g, h \in idGames[i] : g < h

LastSent == sent[Len(sent)]

MemoryInv ==
  /\ lastId \in Ids => SeenBefore(lastId)
  /\ terminalSent \in Ids => Past(terminalSent)
  /\ terminalSent # NoId => sent # <<>>
  /\ Terminal(lastStatus) => terminalSent # NoId
  /\ Live(lastStatus) => lastStatus.id = lastId /\ lastId \in Ids

(* A live status after that is due to a game that shares the id.            *)
ToldInv ==
  terminalSent # NoId =>
    /\ Live(LastSent) => TwoGames(terminalSent)
    /\ Live(lastStatus) => TwoGames(terminalSent)

EndedInv ==
  \A i \in ended : /\ IsSpent(i)
                   /\ \A j \in 1..Len(queue) : CanScore(queue[j]) => queue[j].id # i
                   /\ Live(lastStatus) => lastStatus.id # i

SInv == LiveType /\ QueueInv /\ MemoryInv /\ ToldInv /\ EndedInv

USE DEF memoryVars, relayVars, haloVars, metaVars, tickVars

-----------------------------------------------------------------------------
(* Ticks and ids *)

LEMMA IdFacts == NoId \notin Ids /\ TerminalId \notin Ids /\ TerminalId # NoId /\ NoId \notin StatusIds
BY TickBounds DEF Ids, TerminalId, StatusIds, NoId

(* The game goes on, and no tick is taken back.                              *)
LEMMA GameGrows ==
  ASSUME GInv, GameNext \/ UNCHANGED gameVars
  PROVE  /\ game \in Nat /\ game' \in Nat /\ game <= game'
         /\ stage' = "scoring" => stage = "scoring" \/ game < game'
         /\ \A i \in Ids : idGames[i] \subseteq idGames'[i] /\ idGames'[i] \subseteq Nat
<1>1. GInv'
  BY GameStep
<1>2. idGames \in [Ids -> SUBSET Nat] /\ idGames' \in [Ids -> SUBSET Nat] /\ game \in Nat /\ game' \in Nat
  BY <1>1 DEF GInv, MetaType
<1>3. game <= game' /\ (stage' = "scoring" => stage = "scoring" \/ game < game')
  BY <1>2 DEF GameNext, StartGame, FinishGame, LeaveGame, Sample, SampleFails, ReconnectXemu, gameVars
<1>4. \A i \in Ids : idGames[i] \subseteq idGames'[i]
  BY <1>2 DEF GameNext, StartGame, FinishGame, LeaveGame, Sample, SampleFails, ReconnectXemu, gameVars
<1> QED
  BY <1>2, <1>3, <1>4

(* What a new tick is.                                                       *)
LEMMA NewTick ==
  ASSUME GInv, lastGameInfo \in MaybeTick, Sample
  PROVE  /\ lastGameInfo' \in AnyTick
         /\ lastGameInfo'.game = game /\ lastGameInfo'.stage = stage
         /\ UNCHANGED <<game, stage>>
         /\ CanScore(lastGameInfo') \/ lastGameInfo'.ended => lastGameInfo'.id # NoId
         /\ lastGameInfo'.ended => ~CanScore(lastGameInfo')
         /\ lastGameInfo'.id # NoId => game \in idGames'[lastGameInfo'.id]
         /\ lastGameInfo'.ended => IsSpent(lastGameInfo.id)'
<1>1. /\ lastGameInfo' \in AnyTick
      /\ lastGameInfo'.ended => lastGameInfo'.id # NoId
      /\ lastGameInfo'.ended <=> EndsGame(lastGameInfo)
  BY SampleTick
<1>2. PICK known \in KnownStart : lastGameInfo'.id = TickId(lastGameInfo, known)
  BY DEF Sample
<1>3. /\ lastGameInfo'.game = game /\ lastGameInfo'.stage = stage
      /\ UNCHANGED <<game, stage>>
      /\ idGames' = [i \in Ids |-> IF i = lastGameInfo'.id THEN idGames[i] \cup {game} ELSE idGames[i]]
  BY DEF Sample, haloVars
<1>4. CanScore(lastGameInfo') => ~EndsGame(lastGameInfo) /\ lastGameInfo'.id # NoId
  BY <1>2, <1>3, KnownSafe DEF CanScore, EndsGame, TickId
<1>5. ASSUME lastGameInfo'.ended PROVE IsSpent(lastGameInfo.id)'
  <2>1. PICK i \in Ids : i = lastGameInfo'.id /\ IsSpent(i)'
    BY <1>5, EndingSpends
  <2> QED
    BY <2>1 DEF IsSpent, CanScore
<1>6. lastGameInfo'.id # NoId => game \in idGames'[lastGameInfo'.id]
  BY <1>1, <1>3 DEF AnyTick
<1> QED
  BY <1>1, <1>3, <1>4, <1>5, <1>6

(* What the ticks that wait are like does not depend on what comes.          *)
LEMMA WaitingStays ==
  ASSUME GInv, NEW t \in AnyTick, Waiting(t), GameNext \/ UNCHANGED gameVars
  PROVE  Waiting(t)'
<1>1. /\ game \in Nat /\ game' \in Nat /\ game <= game'
      /\ stage' = "scoring" => stage = "scoring" \/ game < game'
      /\ \A i \in Ids : idGames[i] \subseteq idGames'[i]
  BY GameGrows
<1>2. t.game \in Nat /\ t.id \in Ids \cup {NoId}
  BY DEF AnyTick
<1>3. t.ended => t.id \in Ids /\ IsSpent(t.id)
  BY <1>2 DEF Waiting
<1>4. t.ended => IsSpent(t.id)'
  BY <1>3, SpentStays
<1>5. t.game <= game' /\ (stage' = "scoring" /\ ~CanScore(t) => t.game < game')
  BY <1>1, <1>2 DEF Waiting
<1>6. t.id # NoId => t.game \in idGames'[t.id]
  BY <1>1, <1>2 DEF Waiting
<1> QED
  BY <1>4, <1>5, <1>6 DEF Waiting, CanScore

-----------------------------------------------------------------------------
(* The queue *)

LEMMA TailTicks ==
  ASSUME NEW q \in Seq(AnyTick), q # <<>>
  PROVE  /\ Len(q) \in Nat \ {0} /\ 1 \in 1..Len(q) /\ Head(q) = q[1] /\ Head(q) \in AnyTick
         /\ Tail(q) \in Seq(AnyTick) /\ Len(Tail(q)) = Len(q) - 1
         /\ \A j \in 1..Len(Tail(q)) : j + 1 \in 1..Len(q) /\ Tail(q)[j] = q[j + 1]
OBVIOUS

LEMMA MoreTicks ==
  ASSUME NEW q \in Seq(AnyTick), NEW t \in AnyTick
  PROVE  /\ Append(q, t) \in Seq(AnyTick) /\ Len(q) \in Nat /\ Len(Append(q, t)) = Len(q) + 1
         /\ Append(q, t)[Len(q) + 1] = t
         /\ \A j \in 1..Len(Append(q, t)) : j \in 1..Len(q) \/ j = Len(q) + 1
         /\ \A j \in 1..Len(q) : Append(q, t)[j] = q[j]
OBVIOUS

(* Steps that leave the queue alone.                                         *)
LEMMA QueueStays ==
  ASSUME GInv, LiveType, QueueInv, queue' = queue, GameNext \/ UNCHANGED gameVars
  PROVE  QueueInv'
<1>1. \A j \in 1..Len(queue) : queue[j] \in AnyTick
  BY DEF LiveType
<1>2. \A j \in 1..Len(queue) : Waiting(queue[j])'
  BY <1>1, WaitingStays DEF QueueInv
<1>3. \A j, k \in 1..Len(queue) : j < k => Before(queue[j], queue[k])'
  BY DEF QueueInv, Before, CanScore
<1> QED
  BY <1>2, <1>3 DEF QueueInv

(* Steps that take the tick at its head, or throw it away.                   *)
LEMMA QueueShrinks ==
  ASSUME LiveType, QueueInv, queue # <<>>, queue' \in {Tail(queue), <<>>}, UNCHANGED gameVars
  PROVE  QueueInv'
<1> DEFINE n == Len(queue')
<1>2. \A j \in 1..n : j + 1 \in 1..Len(queue) /\ queue'[j] = queue[j + 1]
  BY TailTicks DEF LiveType
<1>3. \A j \in 1..n : Waiting(queue'[j])
  BY <1>2 DEF QueueInv
<1>4. \A j, k \in 1..n : j < k => Before(queue'[j], queue'[k])
  <2>1. Len(queue) \in Nat /\ n \in Nat
    BY TailTicks DEF LiveType
  <2>2. \A j, k \in 1..n : j < k => j + 1 < k + 1
    BY <2>1
  <2> QED
    BY <1>2, <2>2 DEF QueueInv
<1>5. \A j \in 1..n : Waiting(queue[j])'
  BY <1>3 DEF Waiting, CanScore, IsSpent, gameVars
<1>6. \A j, k \in 1..n : j < k => Before(queue[j], queue[k])'
  BY <1>4 DEF Before, CanScore
<1> QED
  BY <1>5, <1>6 DEF QueueInv

LEMMA QueueGrows ==
  ASSUME GInv, LiveType, QueueInv, Sample, queue' = Append(queue, lastGameInfo')
  PROVE  QueueInv'
<1> DEFINE new == lastGameInfo'
<1>1. /\ new \in AnyTick /\ new.game = game /\ new.stage = stage /\ UNCHANGED <<game, stage>>
      /\ CanScore(new) \/ new.ended => new.id # NoId
      /\ new.ended => ~CanScore(new)
      /\ new.id # NoId => game \in idGames'[new.id]
      /\ new.ended => IsSpent(lastGameInfo.id)'
  BY NewTick DEF LiveType
<1>0. game \in Nat /\ GameNext
  BY DEF GameNext, GInv, MetaType
<1>2. CanScore(new) <=> stage = "scoring"
  BY <1>1 DEF CanScore
<1> DEFINE n == Len(queue)
<1>3. /\ queue \in Seq(AnyTick) /\ n \in Nat /\ Len(queue') = n + 1 /\ queue'[n + 1] = new
      /\ \A j \in 1..Len(queue') : j \in 1..n \/ j = n + 1
      /\ \A j \in 1..n : queue'[j] = queue[j] /\ queue[j] \in AnyTick
  BY <1>1, MoreTicks DEF LiveType
<1> HIDE DEF new, n
<1>4. ASSUME NEW t \in AnyTick, t = new PROVE Waiting(t)'
  <2>1. CanScore(t)' <=> stage = "scoring"
    BY <1>1, <1>4 DEF CanScore
  <2>2. t.ended => IsSpent(t.id)'
    BY <1>1, <1>4 DEF IsSpent, CanScore, new
  <2> QED
    BY <1>0, <1>1, <1>2, <1>4, <2>1, <2>2 DEF Waiting
<1>5. ASSUME NEW t \in AnyTick, Waiting(t) PROVE Waiting(t)'
  BY <1>0, <1>5, WaitingStays
<1>6. ASSUME NEW s \in AnyTick, Waiting(s) PROVE Before(s, new)
  <2>1. s.ended /\ CanScore(new) => new.id # s.id
    <3>1. Waiting(s)'
      BY <1>5, <1>6
    <3> QED
      BY <3>1, <1>1 DEF Waiting, IsSpent, CanScore, new
  <2>2. s.game \in Nat
    BY <1>6 DEF AnyTick
  <2> QED
    BY <1>0, <1>1, <1>2, <1>6, <2>1, <2>2 DEF Before, Waiting
<1>7. ASSUME NEW j \in 1..Len(queue') PROVE Waiting(queue[j])'
  <2>1. PICK t \in AnyTick : t = queue'[j] /\ (Waiting(t) \/ t = new)
    BY <1>1, <1>3, <1>7 DEF QueueInv, n
  <2>2. Waiting(t)'
    BY <1>4, <1>5, <2>1
  <2> QED
    BY <2>1, <2>2 DEF Waiting, CanScore, IsSpent
<1>8. ASSUME NEW j \in 1..Len(queue'), NEW k \in 1..Len(queue'), j < k
      PROVE  Before(queue'[j], queue'[k])
  <2>1. j \in 1..n /\ queue'[j] = queue[j] /\ Waiting(queue[j]) /\ queue[j] \in AnyTick
    BY <1>3, <1>8 DEF QueueInv, n
  <2>2. CASE k \in 1..n
    BY <1>3, <1>8, <2>1, <2>2 DEF QueueInv, n
  <2>3. CASE k = n + 1
    BY <1>3, <1>6, <2>1, <2>3
  <2> QED
    BY <1>3, <2>2, <2>3
<1>9. \A j, k \in 1..Len(queue') : j < k => Before(queue[j], queue[k])'
  BY <1>8 DEF Before, CanScore
<1> QED
  BY <1>7, <1>9 DEF QueueInv

(* Every step keeps ticks that were waiting, at most with a new one.         *)
Arrived(t) == t = lastGameInfo' /\ t.game = game /\ t.stage = stage
TicksKept ==
  \A j \in 1..Len(queue') :
    (\E k \in 1..Len(queue) : queue'[j] = queue[k]) \/ Arrived(queue'[j])

LEMMA QueueStep ==
  ASSUME GInv, LiveType, QueueInv,
         \/ queue' = queue /\ (GameNext \/ UNCHANGED gameVars)
         \/ queue' \in {Tail(queue), <<>>} /\ queue # <<>> /\ UNCHANGED gameVars
         \/ queue' = Append(queue, lastGameInfo') /\ Sample
  PROVE  QueueInv' /\ TicksKept /\ queue' \in Seq(AnyTick) /\ lastGameInfo' \in MaybeTick
<1>1. CASE queue' = queue /\ (GameNext \/ UNCHANGED gameVars)
  <2>1. lastGameInfo' \in MaybeTick
    <3>1. Sample \/ lastGameInfo' = lastGameInfo
      BY <1>1 DEF GameNext, StartGame, FinishGame, LeaveGame, SampleFails, ReconnectXemu, gameVars
    <3> QED
      BY <3>1, SampleTick DEF LiveType, MaybeTick
  <2>2. TicksKept
    BY <1>1 DEF TicksKept
  <2> QED
    BY <1>1, <2>1, <2>2, QueueStays DEF LiveType
<1>2. CASE queue' \in {Tail(queue), <<>>} /\ queue # <<>> /\ UNCHANGED gameVars
  <2>1. queue \in Seq(AnyTick)
    BY DEF LiveType
  <2>2. TicksKept /\ queue' \in Seq(AnyTick)
    <3>1. CASE queue' = Tail(queue)
      BY <1>2, <2>1, <3>1, TailTicks DEF TicksKept
    <3>2. CASE queue' = <<>>
      BY <3>2 DEF TicksKept
    <3> QED
      BY <1>2, <3>1, <3>2
  <2>3. lastGameInfo' \in MaybeTick
    BY <1>2 DEF gameVars, LiveType
  <2> QED
    BY <1>2, <2>2, <2>3, QueueShrinks
<1>3. CASE queue' = Append(queue, lastGameInfo') /\ Sample
  <2>1. lastGameInfo' \in AnyTick /\ Arrived(lastGameInfo')
    BY <1>3, NewTick DEF LiveType, Arrived
  <2>2. queue \in Seq(AnyTick)
    BY DEF LiveType
  <2>3. queue' \in Seq(AnyTick)
        /\ \A j \in 1..Len(queue') : (j \in 1..Len(queue) /\ queue'[j] = queue[j]) \/ queue'[j] = lastGameInfo'
    BY <1>3, <2>1, <2>2, MoreTicks
  <2>4. TicksKept
    BY <2>1, <2>3 DEF TicksKept
  <2> QED
    BY <1>3, <2>1, <2>3, <2>4, QueueGrows DEF MaybeTick
<1> QED
  BY <1>1, <1>2, <1>3

(* What was seen stays seen, and what is past stays past.                    *)
LEMMA GamesStay ==
  ASSUME GInv, GameNext \/ UNCHANGED gameVars, TicksKept, NEW i \in Ids
  PROVE  /\ SeenBefore(i) => SeenBefore(i)'
         /\ Past(i) => Past(i)'
         /\ TwoGames(i) => TwoGames(i)'
<1>1. /\ game \in Nat /\ game' \in Nat /\ game <= game'
      /\ stage' = "scoring" => stage = "scoring" \/ game < game'
      /\ idGames[i] \subseteq idGames'[i] /\ idGames'[i] \subseteq Nat
  BY GameGrows
<1>2. ASSUME SeenBefore(i) PROVE SeenBefore(i)'
  <2>1. PICK g \in idGames[i] : g <= game /\ \A j \in 1..Len(queue) : g <= queue[j].game
    BY <1>2 DEF SeenBefore
  <2>2. \A j \in 1..Len(queue') : g <= queue'[j].game
    BY <2>1 DEF TicksKept, Arrived
  <2>3. g \in idGames'[i] /\ g <= game'
    BY <1>1, <2>1
  <2> QED
    BY <2>2, <2>3 DEF SeenBefore
<1>3. ASSUME Past(i) PROVE Past(i)'
  <2>1. PICK g \in idGames[i] :
          /\ g <= game /\ (stage = "scoring" => g < game)
          /\ \A j \in 1..Len(queue) : CanScore(queue[j]) => g < queue[j].game
    BY <1>3 DEF Past
  <2>2. \A j \in 1..Len(queue') : CanScore(queue'[j]) => g < queue'[j].game
    BY <2>1 DEF TicksKept, Arrived, CanScore
  <2>3. g \in idGames'[i] /\ g <= game' /\ (stage' = "scoring" => g < game')
    BY <1>1, <2>1
  <2> QED
    BY <2>2, <2>3 DEF Past, CanScore
<1>4. TwoGames(i) => TwoGames(i)'
  BY <1>1 DEF TwoGames
<1> QED
  BY <1>2, <1>3, <1>4

(* What was reported as ended is not live in any tick to come.               *)
LEMMA EndedStays ==
  ASSUME GInv, GameNext \/ UNCHANGED gameVars, TicksKept, NEW i \in Ids, IsSpent(i),
         \A j \in 1..Len(queue) : CanScore(queue[j]) => queue[j].id # i
  PROVE  IsSpent(i)' /\ \A j \in 1..Len(queue') : CanScore(queue'[j]) => queue'[j].id # i
<1>1. IsSpent(i)'
  BY SpentStays
<1>2. \A j \in 1..Len(queue') : CanScore(queue'[j]) => queue'[j].id # i
  BY <1>1 DEF TicksKept, Arrived, IsSpent, CanScore
<1> QED
  BY <1>1, <1>2

(* Steps of anyone but send_relay_loop.                                      *)
LEMMA MemoryStays ==
  ASSUME GInv, SInv, QueueInv', TicksKept, queue' \in Seq(AnyTick), lastGameInfo' \in MaybeTick,
         GameNext \/ UNCHANGED gameVars,
         UNCHANGED <<lastStatus, lastId, terminalSent, sent, ended>>
  PROVE  SInv'
<1>1. LiveType'
  BY DEF SInv, LiveType
<1>2. MemoryInv'
  <2>1. (lastId \in Ids => SeenBefore(lastId)') /\ (terminalSent \in Ids => Past(terminalSent)')
    BY GamesStay DEF SInv, MemoryInv
  <2> QED
    BY <2>1 DEF SInv, MemoryInv, SeenBefore, Past
<1>3. ToldInv'
  <2>1. TwoGames(terminalSent) => TwoGames(terminalSent)'
    BY GamesStay DEF TwoGames
  <2> QED
    BY <2>1 DEF SInv, ToldInv, LastSent
<1>4. EndedInv'
  <2> SUFFICES ASSUME NEW i \in ended
               PROVE  /\ IsSpent(i)'
                      /\ \A j \in 1..Len(queue') : CanScore(queue'[j]) => queue'[j].id # i
                      /\ Live(lastStatus) => lastStatus.id # i
    BY DEF EndedInv, CanScore, Live
  <2>1. /\ i \in Ids /\ IsSpent(i)
        /\ \A j \in 1..Len(queue) : CanScore(queue[j]) => queue[j].id # i
        /\ Live(lastStatus) => lastStatus.id # i
    BY DEF SInv, EndedInv, LiveType
  <2> QED
    BY <2>1, EndedStays
<1> QED
  BY <1>1, <1>2, <1>3, <1>4 DEF SInv

-----------------------------------------------------------------------------
(* A tick taken from the queue *)

LEMMA Messages ==
  ASSUME GInv, SInv, NEW t \in AnyTick, Waiting(t)
  PROVE  /\ MessageOf(t) \in LiveStatuses /\ MessageOf(t).id = t.id
         /\ StatusId(MessageOf(t)) \in StatusIds /\ StatusId(MessageOf(t)) # NoId
         /\ Live(MessageOf(t)) => CanScore(t) /\ t.id \in Ids /\ StatusId(MessageOf(t)) = t.id
         /\ Terminal(MessageOf(t)) => ~CanScore(t)
         /\ Terminal(MessageOf(t)) <=> ~Live(MessageOf(t))
         /\ MessageOf(t).status = "ended" <=> t.ended
<1>1. t.id \in Ids \cup {NoId} /\ t.ended \in BOOLEAN
  BY DEF AnyTick
<1>2. /\ t.ended => StatusOf(t) = "ended"
      /\ ~t.ended /\ CanScore(t) => StatusOf(t) = "live"
      /\ ~t.ended /\ ~CanScore(t) => StatusOf(t) \in {"postgame", "stale"}
  BY DEF StatusOf
<1>3. MessageOf(t) = [status |-> StatusOf(t), id |-> t.id]
  BY DEF MessageOf
<1>4. MessageOf(t) \in LiveStatuses /\ MessageOf(t).id = t.id /\ MessageOf(t).status = StatusOf(t)
  BY <1>1, <1>2, <1>3 DEF LiveStatuses, Statuses
<1>5. StatusId(MessageOf(t)) \in StatusIds
  BY <1>1, <1>4 DEF SInv, LiveType, StatusId, StatusIds
<1>6. StatusId(MessageOf(t)) # NoId
  BY <1>5, IdFacts
<1>7. (CanScore(t) \/ t.ended => t.id # NoId) /\ (t.ended => ~CanScore(t))
  BY DEF Waiting
<1>8. t.id # NoId => StatusId(MessageOf(t)) = t.id
  BY <1>4 DEF StatusId
<1> QED
  BY <1>1, <1>2, <1>4, <1>5, <1>6, <1>7, <1>8 DEF Live, Terminal

(* What is remembered and sent after it. *)
LEMMA SendOutcome ==
  ASSUME GInv, SInv, SendTick, NEW t \in AnyTick, t = Head(queue), Waiting(t),
         NEW s, s = MessageOf(t), NEW i, i = StatusId(s)
  PROVE  /\ lastStatus' = s /\ lastId' = i /\ terminalSent' \in {NoId, i}
         /\ Terminal(s) => terminalSent' = i
         /\ Live(s) /\ terminalSent' = i => terminalSent = i
         /\ \/ sent' = sent /\ ended' = ended /\ (terminalSent' = i => terminalSent = i)
            \/ /\ sent' = Append(sent, [status |-> s.status, id |-> s.id, about |-> i])
               /\ ended' = IF t.ended THEN ended \cup {t.id} ELSE ended
<1>1. /\ i # NoId
      /\ Terminal(s) <=> ~Live(s)
      /\ s.status = "ended" <=> t.ended
      /\ s.id = t.id
  BY Messages
<1>2. PICK hash \in {NoHash, t.game} :
        IF Due(s, hash)
          THEN /\ SendStatus(s, i)
               /\ terminalSent' = IF Terminal(s) THEN i ELSE Kept(s, terminalSent)
          ELSE /\ terminalSent' = Kept(s, terminalSent) /\ UNCHANGED <<sent, ended>>
  BY DEF SendTick
<1>3. lastStatus' = s /\ lastId' = i
  BY DEF SendTick, Remember
<1>4. Kept(s, terminalSent) = IF i # lastId THEN NoId ELSE terminalSent
  BY DEF Kept, AnotherGame, NoId
<1>5. terminalSent \in {NoId, lastId}
  BY DEF SInv, LiveType
<1>6. CASE Due(s, hash)
  <2>1. terminalSent' = IF Terminal(s) THEN i ELSE Kept(s, terminalSent)
    BY <1>2, <1>6
  <2>2. /\ sent' = Append(sent, [status |-> s.status, id |-> s.id, about |-> i])
        /\ ended' = IF t.ended THEN ended \cup {t.id} ELSE ended
    BY <1>1, <1>2, <1>6 DEF SendStatus
  <2> QED
    BY <1>1, <1>3, <1>4, <1>5, <2>1, <2>2
<1>7. CASE ~Due(s, hash)
  <2>1. terminalSent' = Kept(s, terminalSent) /\ sent' = sent /\ ended' = ended
    BY <1>2, <1>7
  <2>2. Terminal(s) => Kept(s, terminalSent) = i
    BY <1>7 DEF Due, TerminalDue
  <2> QED
    BY <1>1, <1>3, <1>4, <1>5, <2>1, <2>2
<1> QED
  BY <1>6, <1>7

LEMMA SentGrows ==
  ASSUME NEW q \in Seq(SentStatuses), NEW s \in LiveStatuses, NEW i \in StatusIds
  PROVE  LET m == [status |-> s.status, id |-> s.id, about |-> i]
             r == Append(q, m)
         IN  r \in Seq(SentStatuses) /\ r # <<>> /\ r[Len(r)] = m /\ r # q
<1> DEFINE m == [status |-> s.status, id |-> s.id, about |-> i]
<1>1. m \in SentStatuses
  BY DEF LiveStatuses, SentStatuses
<1> HIDE DEF m
<1>2. Append(q, m) \in Seq(SentStatuses) /\ Append(q, m)[Len(Append(q, m))] = m
      /\ Len(Append(q, m)) = Len(q) + 1 /\ Len(q) \in Nat
  BY <1>1
<1> QED
  BY <1>2 DEF m

LEMMA SendTickStep == ASSUME GInv, SInv, SendTick PROVE SInv'
<1>1. /\ UNCHANGED gameVars /\ queue # <<>> /\ queue' = Tail(queue) /\ queue \in Seq(AnyTick)
      /\ queue' \in {Tail(queue), <<>>}
  BY DEF SendTick, SInv, LiveType
<1>2. QueueInv' /\ TicksKept /\ queue' \in Seq(AnyTick) /\ lastGameInfo' \in MaybeTick
  BY <1>1, QueueStep DEF SInv
<1>3. PICK t \in AnyTick : t = Head(queue)
  BY <1>1, TailTicks
<1>4. /\ 1 \in 1..Len(queue) /\ t = queue[1] /\ Waiting(t)
      /\ \A j \in 1..Len(queue') : queue'[j] \in AnyTick /\ Before(t, queue'[j])
  <2>1. /\ 1 \in 1..Len(queue) /\ t = queue[1]
        /\ \A j \in 1..Len(queue') : j + 1 \in 1..Len(queue) /\ queue'[j] = queue[j + 1] /\ 1 < j + 1
    BY <1>1, <1>3, TailTicks
  <2>2. \A j \in 1..Len(queue') : queue'[j] \in AnyTick
    BY <1>2
  <2> QED
    BY <2>1, <2>2 DEF SInv, QueueInv
<1>5. PICK s : s = MessageOf(t)
  OBVIOUS
<1>6. PICK i : i = StatusId(s)
  OBVIOUS
<1>7. /\ s \in LiveStatuses /\ s.id = t.id /\ i \in StatusIds /\ i # NoId
      /\ Live(s) => CanScore(t) /\ t.id \in Ids /\ i = t.id
      /\ Terminal(s) => ~CanScore(t)
      /\ Terminal(s) <=> ~Live(s)
  BY <1>4, <1>5, <1>6, Messages
<1>8. /\ lastStatus' = s /\ lastId' = i /\ terminalSent' \in {NoId, i}
      /\ Terminal(s) => terminalSent' = i
      /\ Live(s) /\ terminalSent' = i => terminalSent = i
      /\ \/ sent' = sent /\ ended' = ended /\ (terminalSent' = i => terminalSent = i)
         \/ /\ sent' = Append(sent, [status |-> s.status, id |-> s.id, about |-> i])
            /\ ended' = IF t.ended THEN ended \cup {t.id} ELSE ended
  BY <1>3, <1>4, <1>5, <1>6, SendOutcome
<1>9. \/ sent' = sent
      \/ sent' \in Seq(SentStatuses) /\ sent' # <<>> /\ sent'[Len(sent')].status = s.status
  BY <1>7, <1>8, SentGrows DEF SInv, LiveType
<1>10. LiveType'
  <2>1. ended' \subseteq Ids
    BY <1>4, <1>8 DEF SInv, LiveType, Waiting, AnyTick
  <2> QED
    BY <1>2, <1>7, <1>8, <1>9, <2>1 DEF SInv, LiveType
<1>11. t.game \in Nat /\ game \in Nat /\ UNCHANGED <<game, stage, idGames>>
  BY <1>1 DEF GInv, MetaType, AnyTick, gameVars

(* The game of this tick. *)
<1>12. i \in Ids => \E g \in idGames[i] : g <= t.game
  <2>1. CASE t.id # NoId
    <3>1. i = t.id
      BY <1>6, <1>7, <2>1 DEF StatusId
    <3> QED
      BY <1>4, <1>11, <2>1, <3>1 DEF Waiting
  <2>2. CASE t.id = NoId /\ i \in Ids
    <3>1. i = lastId
      BY <1>6, <1>7, <2>2, IdFacts DEF StatusId
    <3> QED
      BY <1>4, <2>2, <3>1 DEF SInv, MemoryInv, SeenBefore
  <2> QED
    BY <2>1, <2>2
<1>13. i \in Ids => SeenBefore(i)' /\ (Terminal(s) => Past(i)')
  <2> SUFFICES ASSUME i \in Ids PROVE SeenBefore(i)' /\ (Terminal(s) => Past(i)')
    OBVIOUS
  <2>1. PICK g \in idGames[i] : g <= t.game
    BY <1>12
  <2>2. g \in Nat /\ g \in idGames'[i] /\ \A j \in 1..Len(queue') : queue'[j].game \in Nat
    BY <1>4, <1>11, <2>1 DEF GInv, MetaType, AnyTick
  <2>3. g <= game' /\ \A j \in 1..Len(queue') : g <= queue'[j].game
    BY <1>4, <1>11, <2>1, <2>2 DEF Waiting, Before
  <2>4. SeenBefore(i)'
    BY <2>2, <2>3 DEF SeenBefore
  <2>5. ASSUME Terminal(s) PROVE Past(i)'
    <3>1. stage' = "scoring" => g < game'
      BY <1>4, <1>7, <1>11, <2>1, <2>2, <2>5 DEF Waiting
    <3>2. \A j \in 1..Len(queue') : CanScore(queue'[j]) => g < queue'[j].game
      BY <1>4, <1>7, <1>11, <2>1, <2>2, <2>5 DEF Before
    <3> QED
      BY <2>2, <2>3, <3>1, <3>2 DEF Past, CanScore
  <2> QED
    BY <2>4, <2>5
<1>14. terminalSent = i /\ Live(s) => TwoGames(i)
  <2> SUFFICES ASSUME terminalSent = i, Live(s) PROVE TwoGames(i)
    OBVIOUS
  <2>1. i \in Ids /\ i = t.id /\ CanScore(t)
    BY <1>7
  <2>2. PICK g \in idGames[i] : g < t.game
    BY <1>4, <2>1 DEF SInv, MemoryInv, Past
  <2>3. t.game \in idGames[i]
    BY <1>4, <1>7, <2>1 DEF Waiting
  <2> QED
    BY <2>1, <2>2, <2>3 DEF TwoGames
<1>15. (terminalSent = i => Past(i) \/ i \notin Ids) /\ (Past(i) /\ i \in Ids => Past(i)')
       /\ (TwoGames(i) => TwoGames(i)')
  BY <1>1, <1>2, GamesStay DEF SInv, MemoryInv, TwoGames

<1>16. MemoryInv'
  <2>1. terminalSent' \in Ids => Past(i)'
    BY <1>7, <1>8, <1>13, <1>15, IdFacts
  <2>2. lastId' \in Ids => SeenBefore(i)'
    BY <1>8, <1>13
  <2>3. terminalSent' # NoId => sent' # <<>>
    BY <1>8, <1>9 DEF SInv, MemoryInv
  <2>4. Terminal(lastStatus') => terminalSent' # NoId
    BY <1>7, <1>8
  <2>5. Live(lastStatus') => lastStatus'.id = lastId' /\ lastId' \in Ids
    BY <1>7, <1>8
  <2>6. lastId' \in Ids => SeenBefore(lastId)'
    BY <1>8, <2>2 DEF SeenBefore
  <2>7. terminalSent' \in Ids => Past(terminalSent)'
    BY <1>8, <2>1, IdFacts DEF Past
  <2> QED
    BY <2>3, <2>4, <2>5, <2>6, <2>7 DEF MemoryInv, Terminal, Live
<1>17. ToldInv'
  <2> SUFFICES ASSUME terminalSent' = i
               PROVE  /\ Live(sent'[Len(sent')]) => TwoGames(i)'
                      /\ Live(s) => TwoGames(i)'
    BY <1>8 DEF ToldInv, LastSent, TwoGames, Live
  <2>1. Live(s) => TwoGames(i)'
    BY <1>8, <1>14, <1>15
  <2>2. CASE sent' = sent /\ terminalSent = i
    BY <1>7, <1>15, <2>1, <2>2 DEF SInv, ToldInv, LastSent
  <2>3. CASE sent' # <<>> /\ sent'[Len(sent')].status = s.status
    BY <2>1, <2>3 DEF Live
  <2> QED
    BY <1>8, <1>9, <2>1, <2>2, <2>3
<1>18. EndedInv'
  <2>1. ASSUME NEW k \in ended
        PROVE  /\ k \in Ids /\ IsSpent(k)'
               /\ \A j \in 1..Len(queue') : CanScore(queue'[j]) => queue'[j].id # k
               /\ CanScore(t) => t.id # k
    <3>1. /\ k \in Ids /\ IsSpent(k)
          /\ \A j \in 1..Len(queue) : CanScore(queue[j]) => queue[j].id # k
      BY DEF SInv, EndedInv, LiveType
    <3> QED
      BY <1>1, <1>2, <1>4, <3>1, EndedStays
  <2>2. ASSUME t.ended
        PROVE  /\ IsSpent(t.id)' /\ ~CanScore(t)
               /\ \A j \in 1..Len(queue') : CanScore(queue'[j]) => queue'[j].id # t.id
    <3>1. IsSpent(t.id) /\ ~CanScore(t)
      BY <1>4, <2>2 DEF Waiting
    <3>2. IsSpent(t.id)'
      BY <1>1, <3>1 DEF IsSpent, gameVars, CanScore
    <3> QED
      BY <1>4, <2>2, <3>1, <3>2 DEF Before
  <2>3. ASSUME NEW k \in ended'
        PROVE  /\ IsSpent(k)'
               /\ \A j \in 1..Len(queue') : CanScore(queue'[j]) => queue'[j].id # k
               /\ Live(s) => s.id # k
    <3>1. k \in ended \/ (t.ended /\ k = t.id)
      BY <1>8
    <3> QED
      BY <1>7, <2>1, <2>2, <3>1
  <2> QED
    BY <1>8, <2>3 DEF EndedInv, CanScore, Live
<1> QED
  BY <1>2, <1>10, <1>16, <1>17, <1>18 DEF SInv

-----------------------------------------------------------------------------
(* The other steps *)

LEMMA LiveInit == Init => GInv /\ SInv
<1> SUFFICES ASSUME Init PROVE GInv /\ SInv
  OBVIOUS
<1>1. GInv
  BY GameInitSafe DEF Init
<1>2. /\ lastGameInfo = NoTick /\ queue = <<>> /\ lastStatus = NoStatus /\ lastId = NoId
      /\ terminalSent = NoId /\ sent = <<>> /\ ended = {}
  BY DEF Init, GameInit
<1>3. ~Terminal(lastStatus) /\ ~Live(lastStatus)
  BY <1>2 DEF Terminal, Live, NoStatus
<1>4. LiveType /\ QueueInv
  BY <1>2 DEF LiveType, MaybeTick, QueueInv
<1>5. MemoryInv /\ ToldInv /\ EndedInv
  BY <1>2, <1>3, IdFacts DEF MemoryInv, ToldInv, EndedInv
<1> QED
  BY <1>1, <1>4, <1>5 DEF SInv

(* A new connection remembers nothing, and forgets no id reported as ended.  *)
LEMMA ConnectStep == ASSUME GInv, SInv, Connect PROVE SInv'
<1>1. /\ UNCHANGED gameVars /\ queue' = queue /\ ended' = ended
      /\ lastStatus' = NoStatus /\ lastId' = NoId /\ terminalSent' = NoId /\ sent' = <<>>
  BY DEF Connect, ForgetConnection
<1>2. QueueInv' /\ TicksKept /\ queue' \in Seq(AnyTick) /\ lastGameInfo' \in MaybeTick
  BY <1>1, QueueStep DEF SInv
<1>3. ~Terminal(lastStatus') /\ ~Live(lastStatus')
  BY <1>1 DEF Terminal, Live, NoStatus
<1>4. LiveType'
  BY <1>1, <1>2 DEF SInv, LiveType
<1>5. MemoryInv' /\ ToldInv'
  BY <1>1, <1>3, IdFacts DEF MemoryInv, ToldInv, Terminal, Live
<1>6. EndedInv'
  <2> SUFFICES ASSUME NEW i \in ended
               PROVE  /\ IsSpent(i)'
                      /\ \A j \in 1..Len(queue') : CanScore(queue'[j]) => queue'[j].id # i
    BY <1>1, <1>3 DEF EndedInv, CanScore, Live
  <2>1. /\ i \in Ids /\ IsSpent(i)
        /\ \A j \in 1..Len(queue) : CanScore(queue[j]) => queue[j].id # i
    BY DEF SInv, EndedInv, LiveType
  <2> QED
    BY <1>1, <1>2, <2>1, EndedStays
<1> QED
  BY <1>2, <1>4, <1>5, <1>6 DEF SInv

(* Ten seconds without a tick: the last status, which is live, is repeated.  *)
LEMMA RepeatStep == ASSUME GInv, SInv, RepeatStatus PROVE SInv'
<1>1. /\ UNCHANGED gameVars /\ queue' = queue /\ lastStatus' = lastStatus /\ lastId' = lastId
      /\ terminalSent' = terminalSent /\ lastStatus # NoStatus /\ ~Terminal(lastStatus)
      /\ SendStatus(lastStatus, lastId)
  BY DEF RepeatStatus
<1>2. lastStatus \in LiveStatuses /\ Live(lastStatus)
  BY <1>1 DEF SInv, LiveType, LiveStatuses, Statuses, Terminal, Live
<1>3. lastId \in Ids /\ lastId \in StatusIds
  BY <1>2 DEF SInv, MemoryInv, StatusIds
<1>4. ended' = ended /\ sent' = Append(sent, [status |-> lastStatus.status, id |-> lastStatus.id, about |-> lastId])
  BY <1>1, <1>2 DEF SendStatus, Live
<1>5. sent' \in Seq(SentStatuses) /\ sent' # <<>>
  BY <1>2, <1>3, <1>4, SentGrows DEF SInv, LiveType
<1>6. QueueInv' /\ TicksKept /\ queue' \in Seq(AnyTick) /\ lastGameInfo' \in MaybeTick
  BY <1>1, QueueStep DEF SInv
<1>7. LiveType'
  BY <1>1, <1>4, <1>5, <1>6 DEF SInv, LiveType
<1>8. MemoryInv'
  <2>1. (lastId \in Ids => SeenBefore(lastId)') /\ (terminalSent \in Ids => Past(terminalSent)')
    BY <1>1, <1>6, GamesStay DEF SInv, MemoryInv
  <2> QED
    BY <1>1, <1>5, <2>1 DEF SInv, MemoryInv, SeenBefore, Past
<1>9. ToldInv'
  <2>1. terminalSent # NoId => TwoGames(terminalSent)
    BY <1>2 DEF SInv, ToldInv
  <2>2. TwoGames(terminalSent) => TwoGames(terminalSent)'
    BY <1>1, <1>6, GamesStay DEF TwoGames
  <2> QED
    BY <1>1, <2>1, <2>2 DEF ToldInv, TwoGames
<1>10. EndedInv'
  <2> SUFFICES ASSUME NEW i \in ended
               PROVE  /\ IsSpent(i)'
                      /\ \A j \in 1..Len(queue') : CanScore(queue'[j]) => queue'[j].id # i
                      /\ Live(lastStatus) => lastStatus.id # i
    BY <1>1, <1>4 DEF EndedInv, CanScore, Live
  <2>1. /\ i \in Ids /\ IsSpent(i)
        /\ \A j \in 1..Len(queue) : CanScore(queue[j]) => queue[j].id # i
        /\ Live(lastStatus) => lastStatus.id # i
    BY DEF SInv, EndedInv, LiveType
  <2> QED
    BY <1>1, <1>6, <2>1, EndedStays
<1> QED
  BY <1>6, <1>7, <1>8, <1>9, <1>10 DEF SInv

(* Halo is played on as in GameTicks, whatever the relay client does.        *)
LEMMA GamePlays == Next \/ UNCHANGED vars => GameNext \/ UNCHANGED gameVars
BY DEF Next, PlayHalo, ProduceTick, Connect, FlushTicks, TenSecondsPass, SendTick, RepeatStatus,
       GameNext, vars

LEMMA LiveStep == GInv /\ SInv /\ [Next]_vars => GInv' /\ SInv'
<1> SUFFICES ASSUME GInv, SInv, [Next]_vars PROVE GInv' /\ SInv'
  OBVIOUS
<1>1. GameNext \/ UNCHANGED gameVars
  BY GamePlays
<1>2. GInv'
  BY <1>1, GameStep
<1>3. LiveType /\ QueueInv
  BY DEF SInv
<1>4. CASE PlayHalo \/ TenSecondsPass \/ UNCHANGED vars
  <2>1. queue' = queue /\ UNCHANGED <<lastStatus, lastId, terminalSent, sent, ended>>
    BY <1>4 DEF PlayHalo, TenSecondsPass, vars
  <2>2. QueueInv' /\ TicksKept /\ queue' \in Seq(AnyTick) /\ lastGameInfo' \in MaybeTick
    BY <1>1, <1>3, <2>1, QueueStep
  <2> QED
    BY <1>1, <1>2, <2>1, <2>2, MemoryStays
<1>5. CASE ProduceTick
  <2>1. /\ queue' = Append(queue, lastGameInfo') /\ Sample
        /\ UNCHANGED <<lastStatus, lastId, terminalSent, sent, ended>>
    BY <1>5 DEF ProduceTick
  <2>2. QueueInv' /\ TicksKept /\ queue' \in Seq(AnyTick) /\ lastGameInfo' \in MaybeTick
    BY <1>1, <1>3, <2>1, QueueStep
  <2> QED
    BY <1>1, <1>2, <2>1, <2>2, MemoryStays
<1>6. CASE FlushTicks
  <2>1. /\ UNCHANGED gameVars
        /\ \/ queue' = queue
           \/ queue' \in {Tail(queue), <<>>} /\ queue # <<>>
        /\ UNCHANGED <<lastStatus, lastId, terminalSent, sent, ended>>
    BY <1>6 DEF FlushTicks
  <2>2. QueueInv' /\ TicksKept /\ queue' \in Seq(AnyTick) /\ lastGameInfo' \in MaybeTick
    BY <1>1, <1>3, <2>1, QueueStep
  <2> QED
    BY <1>1, <1>2, <2>1, <2>2, MemoryStays
<1>7. CASE Connect
  BY <1>2, <1>7, ConnectStep
<1>8. CASE SendTick
  BY <1>2, <1>8, SendTickStep
<1>9. CASE RepeatStatus
  BY <1>2, <1>9, RepeatStep
<1>10. SInv'
  BY <1>4, <1>5, <1>6, <1>7, <1>8, <1>9 DEF Next
<1> QED
  BY <1>2, <1>10

LEMMA LiveSafe == Spec => [](GInv /\ SInv)
BY LiveInit, LiveStep, PTL DEF Spec

-----------------------------------------------------------------------------
(* send_relay_loop of ws.rs: once a tick that is not live was dealt with,    *)
(* the last status the server got on this connection is not a live one,      *)
(* whichever ticks were flushed or never produced; except when two games     *)
(* share the id, the first having been left unseen.                          *)
THEOREM FinishedGameTold == Spec => []NoFinishedGameIsLive
<1>1. SInv => NoFinishedGameIsLive
  <2> SUFFICES ASSUME SInv, Terminal(lastStatus)
               PROVE  /\ sent # <<>>
                      /\ Live(sent[Len(sent)]) => \E g, h \in idGames[lastId] : g < h
    BY DEF NoFinishedGameIsLive
  <2>1. terminalSent # NoId /\ terminalSent = lastId /\ sent # <<>>
    BY DEF SInv, LiveType, MemoryInv
  <2>2. Live(sent[Len(sent)]) => TwoGames(lastId)
    BY <2>1 DEF SInv, ToldInv, LastSent
  <2> QED
    BY <2>1, <2>2 DEF TwoGames
<1> QED
  BY <1>1, LiveSafe, PTL

(* The exception needs a game whose end the program never saw: when the      *)
(* server is left with a live status, an earlier game of the id was left     *)
(* for the menu between two ticks (build_live_status_message goes by the     *)
(* game_id alone).                                                           *)
THEOREM ExceptionIsUnseen ==
  Spec => [](Terminal(lastStatus) /\ Live(LastSent) =>
               \E g, h \in idGames[lastId] : g < h /\ g \notin closed)
<1>1. GInv /\ SInv => (Terminal(lastStatus) /\ Live(LastSent) =>
                         \E g, h \in idGames[lastId] : g < h /\ g \notin closed)
  <2> SUFFICES ASSUME GInv, SInv, Terminal(lastStatus), Live(LastSent)
               PROVE  \E g, h \in idGames[lastId] : g < h /\ g \notin closed
    OBVIOUS
  <2>1. TwoGames(lastId)
    BY DEF SInv, LiveType, MemoryInv, ToldInv
  <2> QED
    BY <2>1 DEF GInv, IdTellsGamesApart, TwoGames
<1> QED
  BY <1>1, LiveSafe, PTL

(* The relay client only watches: through reconnects, flushes and repeated   *)
(* statuses, the games and their ticks are those of GameTicks (tick_once).   *)
THEOREM RelayOnlyWatches == Spec => GameSpec
<1>1. Init => GameInit
  BY DEF Init
<1>2. [Next]_vars => [GameNext]_gameVars
  BY GamePlays
<1> QED
  BY <1>1, <1>2, PTL DEF Spec, GameSpec

(* send_live_status of ws.rs: no live status is sent about a game_id that    *)
(* was reported as ended, by a tick still in the queue, by the repetition    *)
(* after ten seconds, or on a later connection.                              *)
THEOREM EndedNeverLive == Spec => EndedStaysEnded
<1>1. GInv /\ SInv /\ [Next]_vars =>
        [sent' # sent /\ sent' # <<>> =>
           LET s == sent'[Len(sent')] IN Live(s) => s.id \notin ended]_vars
  <2> SUFFICES ASSUME GInv, SInv, Next, sent' # sent, sent' # <<>>,
                      Live(sent'[Len(sent')])
               PROVE  sent'[Len(sent')].id \notin ended
    BY DEF vars
  <2>1. SendTick \/ RepeatStatus
    BY DEF Next, PlayHalo, ProduceTick, Connect, ForgetConnection, FlushTicks, TenSecondsPass
  <2>2. CASE SendTick
    <3>1. queue \in Seq(AnyTick) /\ queue # <<>>
      BY <2>2 DEF SInv, LiveType, SendTick
    <3>2. PICK t \in AnyTick : t = Head(queue) /\ 1 \in 1..Len(queue) /\ t = queue[1]
      BY <3>1, TailTicks
    <3>3. Waiting(t)
      BY <3>2 DEF SInv, QueueInv
    <3>4. PICK s, i : s = MessageOf(t) /\ i = StatusId(s)
      OBVIOUS
    <3>5. /\ s \in LiveStatuses /\ i \in StatusIds /\ s.id = t.id
          /\ Live(s) => CanScore(t)
      BY <3>3, <3>4, Messages
    <3>6. sent' = Append(sent, [status |-> s.status, id |-> s.id, about |-> i])
      BY <2>2, <3>2, <3>3, <3>4, SendOutcome
    <3>7. sent'[Len(sent')] = [status |-> s.status, id |-> s.id, about |-> i]
      BY <3>5, <3>6, SentGrows DEF SInv, LiveType
    <3>8. CanScore(t) /\ sent'[Len(sent')].id = t.id
      BY <3>5, <3>7 DEF Live
    <3> QED
      BY <3>2, <3>8 DEF SInv, EndedInv
  <2>3. CASE RepeatStatus
    <3>1. /\ lastStatus # NoStatus /\ ~Terminal(lastStatus)
          /\ sent' = Append(sent, [status |-> lastStatus.status, id |-> lastStatus.id, about |-> lastId])
      BY <2>3 DEF RepeatStatus, SendStatus
    <3>2. lastStatus \in LiveStatuses /\ Live(lastStatus)
      BY <3>1 DEF SInv, LiveType, LiveStatuses, Statuses, Terminal, Live
    <3>3. lastId \in StatusIds
      BY <3>2 DEF SInv, MemoryInv, StatusIds
    <3>4. sent'[Len(sent')] = [status |-> lastStatus.status, id |-> lastStatus.id, about |-> lastId]
      BY <3>1, <3>2, <3>3, SentGrows DEF SInv, LiveType
    <3> QED
      BY <3>2, <3>4 DEF SInv, EndedInv
  <2> QED
    BY <2>1, <2>2, <2>3
<1> QED
  BY <1>1, LiveSafe, PTL DEF Spec, EndedStaysEnded

-----------------------------------------------------------------------------
LEMMA LiveTypeStep ==
  ASSUME GInv, SInv, TypeOK, [Next]_vars
  PROVE  TypeOK'
<1>1. SInv' /\ GameTypeOK'
  <2>1. [GameNext]_gameVars
    BY DEF Next, PlayHalo, ProduceTick, Connect, FlushTicks, TenSecondsPass, SendTick, RepeatStatus,
           GameNext, vars
  <2> QED
    BY <2>1, LiveStep, GameTypeStep DEF TypeOK
<1>2. /\ lastStatus' \in LiveStatuses \cup {NoStatus} /\ lastId' \in StatusIds \cup {NoId}
      /\ terminalSent' \in {lastId', NoId} /\ sent' \in Seq(SentStatuses) /\ ended' \subseteq Ids
  BY <1>1 DEF SInv, LiveType
<1>3. queue' \in Seq(TickRecord)
  <2>1. CASE ProduceTick
    <3>1. lastGameInfo' \in AnyTick
      BY <2>1, NewTick DEF ProduceTick, SInv, LiveType
    <3>2. lastGameInfo' # NoTick
      BY <3>1 DEF AnyTick, NoTick
    <3>3. lastGameInfo' \in TickRecord
      BY <1>1, <3>2 DEF GameTypeOK
    <3> QED
      BY <2>1, <3>3 DEF ProduceTick, TypeOK
  <2>2. CASE ~ProduceTick
    <3>1. queue' \in {queue, <<>>} \/ (queue # <<>> /\ queue' = Tail(queue))
      BY <2>2 DEF Next, PlayHalo, Connect, FlushTicks, TenSecondsPass, SendTick, RepeatStatus, vars
    <3>2. queue \in Seq(TickRecord)
      BY DEF TypeOK
    <3>3. CASE queue # <<>> /\ queue' = Tail(queue)
      BY <3>2, <3>3
    <3>4. CASE queue' = <<>>
      BY <3>4
    <3> QED
      BY <3>1, <3>2, <3>3, <3>4
  <2> QED
    BY <2>1, <2>2
<1>4. lastHash' \in 0..MaxGames
  <2>1. CASE SendTick
    <3>1. Head(queue) \in TickRecord
      BY <2>1 DEF SendTick, TypeOK
    <3>2. Head(queue).game \in 0..MaxGames
      BY <3>1 DEF TickRecord
    <3>3. Kept(MessageOf(Head(queue)), lastHash) \in 0..MaxGames
      BY TickBounds DEF Kept, TypeOK
    <3> QED
      BY <2>1, <3>2, <3>3 DEF SendTick, NoHash
  <2>2. CASE ~SendTick
    BY <2>2, TickBounds DEF Next, PlayHalo, ProduceTick, Connect, ForgetConnection, FlushTicks,
       TenSecondsPass, RepeatStatus, vars, NoHash, TypeOK
  <2> QED
    BY <2>1, <2>2
<1>5. /\ connected' \in BOOLEAN /\ due' \in BOOLEAN
      /\ connections' \in 0..MaxConnections /\ timeouts' \in 0..MaxTimeouts
  <2>1. MaxConnections \in Nat /\ MaxTimeouts \in Nat
    BY LiveBounds
  <2>2. CASE SendTick \/ RepeatStatus
    BY <2>2 DEF SendTick, RepeatStatus, SendStatus, TypeOK
  <2>3. CASE Connect
    BY <2>1, <2>3 DEF Connect, ForgetConnection, TypeOK
  <2>4. CASE TenSecondsPass
    BY <2>1, <2>4 DEF TenSecondsPass, TypeOK
  <2>5. CASE PlayHalo \/ ProduceTick \/ FlushTicks \/ UNCHANGED vars
    BY <2>5 DEF PlayHalo, ProduceTick, FlushTicks, vars, TypeOK
  <2> QED
    BY <2>2, <2>3, <2>4, <2>5 DEF Next
<1> QED
  BY <1>1, <1>2, <1>3, <1>4, <1>5 DEF TypeOK

(* The variables of LiveStatus keep their types: the id remembered for a     *)
(* terminal status is that of the last status, or none (send_relay_loop).    *)
THEOREM LiveTypes == Spec => []TypeOK
<1>1. ASSUME Init PROVE TypeOK
  <2>1. GameTypeOK /\ MaxGames \in Nat /\ MaxConnections \in Nat /\ MaxTimeouts \in Nat
    BY <1>1, GameTypeInit, TickBounds, LiveBounds DEF Init
  <2>2. queue = <<>> /\ sent = <<>>
    BY <1>1 DEF Init
  <2>3. queue \in Seq(TickRecord) /\ sent \in Seq(SentStatuses)
    BY <2>2
  <2>4. /\ connected = FALSE /\ due = TRUE /\ lastHash = 0 /\ connections = 0 /\ timeouts = 0
        /\ lastStatus = NoStatus /\ lastId = NoId /\ terminalSent = NoId /\ ended = {}
    BY <1>1 DEF Init, NoHash
  <2>5. lastHash \in 0..MaxGames /\ connections \in 0..MaxConnections /\ timeouts \in 0..MaxTimeouts
    BY <2>1, <2>4
  <2> QED
    BY <2>1, <2>3, <2>4, <2>5 DEF TypeOK
<1> QED
  BY <1>1, LiveInit, LiveStep, LiveTypeStep, PTL DEF Spec
=============================================================================
