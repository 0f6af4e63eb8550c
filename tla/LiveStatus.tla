----------------------------- MODULE LiveStatus -----------------------------
(***************************************************************************)
(* What the relay server is told about the game being played: the ticks    *)
(* part of send_relay_loop and build_live_status_message in ws.rs, fed by  *)
(* the ticks of GameTicks.                                                 *)
(*                                                                         *)
(* Each tick taken from the relay queue goes to the server as such; a live *)
(* status goes first when one is due: every ten seconds while a game is    *)
(* live, when its spawns change, and once at its end.  What was sent is    *)
(* remembered for the duration of a connection only, and the ticks waiting *)
(* when a connection ends are thrown away, the one that ends the game      *)
(* possibly among them.                                                    *)
(*                                                                         *)
(* Upload requests, which share the queue, are in RelayUpload.             *)
(***************************************************************************)
EXTENDS GameTicks, Sequences

CONSTANTS
  MaxQueue,       (* bound: ticks waiting for the relay                    *)
  MaxConnections, (* bound: connections established                        *)
  MaxTimeouts     (* bound: times that ten seconds pass                    *)

ASSUME LiveBounds == {MaxQueue, MaxConnections, MaxTimeouts} \subseteq Nat

VARIABLES
  connected,      (* send_relay_loop is running                            *)
  queue,          (* ticks in the relay channel                            *)
  lastStatus,     (* last_live_status                                      *)
  lastId,         (* last_live_status_game_id                              *)
  lastHash,       (* last_live_status_spawn_parameters_hash                *)
  terminalSent,   (* terminal_status_sent_for_game_id                      *)
  due,            (* ten seconds since last_live_status_sent_at            *)
  sent,           (* history: statuses sent on this connection, and the    *)
                  (* game each was about                                   *)
  ended,          (* history: the ids ever reported as ended               *)
  connections, timeouts (* how much of the bounds is used                  *)

memoryVars == <<lastStatus, lastId, lastHash, terminalSent, due>>
relayVars == <<connected, queue, memoryVars, sent, ended, connections, timeouts>>
vars == <<gameVars, relayVars>>

(* The id "__terminal__"; NoId stands for none. *)
TerminalId == MaxIds + 1
StatusIds == Ids \cup {TerminalId}

NoHash == 0

Statuses == {"live", "ended", "postgame", "stale"}
LiveStatuses == [status : Statuses, id : Ids \cup {NoId}]
SentStatuses == [status : Statuses, id : Ids \cup {NoId}, about : StatusIds]
NoStatus == [status |-> "none", id |-> NoId]

(* game_status *)
StatusOf(t) ==
  IF t.ended THEN "ended" ELSE IF CanScore(t) THEN "live"
  ELSE IF Running(t) THEN "postgame" ELSE "stale"

Terminal(s) == s.status \in {"ended", "postgame", "stale"}
Live(s) == s.status = "live"

(* build_live_status_message *)
MessageOf(t) == [status |-> StatusOf(t), id |-> t.id]

ForgetConnection ==
  /\ lastStatus' = NoStatus /\ lastId' = NoId /\ lastHash' = NoHash
  /\ terminalSent' = NoId /\ due' = TRUE /\ sent' = <<>>

Init ==
  /\ GameInit
  /\ connected = FALSE /\ queue = <<>>
  /\ lastStatus = NoStatus /\ lastId = NoId /\ lastHash = NoHash
  /\ terminalSent = NoId /\ due = TRUE /\ sent = <<>>
  /\ ended = {} /\ connections = 0 /\ timeouts = 0

-----------------------------------------------------------------------------
PlayHalo ==
  /\ StartGame \/ FinishGame \/ LeaveGame \/ SampleFails \/ ReconnectXemu
  /\ UNCHANGED relayVars

(* tick_once; the channel is unbounded. *)
ProduceTick ==
  /\ Len(queue) < MaxQueue /\ Sample
  /\ queue' = Append(queue, lastGameInfo')
  /\ UNCHANGED <<connected, memoryVars, sent, ended, connections, timeouts>>

(* A new connection: the locals of send_relay_loop begin anew. *)
Connect ==
  /\ ~connected /\ connections < MaxConnections
  /\ connected' = TRUE /\ connections' = connections + 1
  /\ ForgetConnection
  /\ UNCHANGED <<gameVars, queue, ended, timeouts>>

(* The connection ends, wherever the loop is, or an attempt fails; in both  *)
(* cases flush_stale_relay_messages follows, and what is produced from then *)
(* on waits for the next connection.                                        *)
FlushTicks ==
  /\ connected \/ queue # <<>>
  /\ connected' = FALSE /\ queue' = <<>>
  /\ UNCHANGED <<gameVars, memoryVars, sent, ended, connections, timeouts>>

TenSecondsPass ==
  /\ ~due /\ timeouts < MaxTimeouts
  /\ due' = TRUE /\ timeouts' = timeouts + 1
  /\ UNCHANGED <<gameVars, connected, queue, lastStatus, lastId, lastHash, terminalSent,
                 sent, ended, connections>>

-----------------------------------------------------------------------------
(* send_relay_loop: a tick from the queue *)

(* The game a status is about: live ones always name it (GameTypeOK), of    *)
(* the others only "ended" does, and those that do not are about the last.  *)
StatusId(s) == IF s.id # NoId THEN s.id ELSE IF lastId # NoId THEN lastId ELSE TerminalId

AnotherGame(s) == StatusId(s) # lastId

(* What is remembered of the game is forgotten when another one comes.      *)
Kept(s, kept) == IF AnotherGame(s) THEN 0 ELSE kept

(* Mutant: terminal statuses keep to the ten seconds as well. *)
TerminalInTime(s) == Terminal(s) /\ due /\ Kept(s, terminalSent) # StatusId(s)

TerminalDue(s) == Terminal(s) /\ Kept(s, terminalSent) # StatusId(s)

SpawnsChanged(s, hash) == hash # NoHash /\ hash # Kept(s, lastHash)

Due(s, hash) ==
  TerminalDue(s) \/ (Live(s) /\ SpawnsChanged(s, hash)) \/ (due /\ ~Terminal(s))

(* send_live_status *)
SendStatus(s, about) ==
  /\ sent' = Append(sent, [status |-> s.status, id |-> s.id, about |-> about])
  /\ ended' = IF s.status = "ended" THEN ended \cup {s.id} ELSE ended
  /\ due' = FALSE

(* Mutant: what is repeated is the last status worth repeating. *)
RememberLive(s) == IF Live(s) THEN s ELSE lastStatus

Remember(s) == s

(* The tick itself follows its status.  The hash of a tick is that of its   *)
(* map and its spawns, when it is known.                                    *)
SendTick ==
  /\ connected /\ queue # <<>>
  /\ queue' = Tail(queue)
  /\ LET s == MessageOf(Head(queue)) IN
       /\ lastStatus' = Remember(s)
       /\ lastId' = StatusId(s)
       /\ \E hash \in {NoHash, Head(queue).game} :
            IF Due(s, hash)
              THEN /\ SendStatus(s, StatusId(s))
                   /\ terminalSent' = IF Terminal(s) THEN StatusId(s) ELSE Kept(s, terminalSent)
                   /\ lastHash' = IF hash # NoHash THEN hash ELSE Kept(s, lastHash)
              ELSE /\ terminalSent' = Kept(s, terminalSent) /\ lastHash' = Kept(s, lastHash)
                   /\ UNCHANGED <<sent, ended, due>>
  /\ UNCHANGED <<gameVars, connected, connections, timeouts>>

(* The queue is empty: a live game is reported again after ten seconds.     *)
RepeatStatus ==
  /\ connected /\ queue = <<>> /\ due
  /\ lastStatus # NoStatus /\ ~Terminal(lastStatus)
  /\ SendStatus(lastStatus, lastId)
  /\ \E hash \in {NoHash, lastHash} : lastHash' = hash
  /\ UNCHANGED <<gameVars, connected, queue, lastStatus, lastId, terminalSent, connections,
                 timeouts>>

-----------------------------------------------------------------------------
Next ==
  \/ PlayHalo \/ ProduceTick \/ Connect \/ FlushTicks \/ TenSecondsPass
  \/ SendTick \/ RepeatStatus

Spec == Init /\ [][Next]_vars

-----------------------------------------------------------------------------
(* Properties *)

TypeOK ==
  /\ GameTypeOK
  /\ connected \in BOOLEAN /\ queue \in Seq(TickRecord)
  /\ lastStatus \in LiveStatuses \cup {NoStatus}
  /\ lastId \in StatusIds \cup {NoId} /\ terminalSent \in {lastId, NoId}
  /\ lastHash \in 0..MaxGames /\ due \in BOOLEAN
  /\ sent \in Seq(SentStatuses) /\ ended \subseteq Ids
  /\ connections \in 0..MaxConnections /\ timeouts \in 0..MaxTimeouts

(* Once the loop has dealt with a tick of a game that is not live, the last *)
(* status sent on the connection does not say that one is, whatever ticks   *)
(* were missed or flushed.  The one exception is a game of which a single   *)
(* tick was seen, with the id of the game before it, left for the menu.     *)
NoFinishedGameIsLive ==
  connected /\ lastStatus # NoStatus /\ Terminal(lastStatus) =>
    /\ sent # <<>>
    /\ Live(sent[Len(sent)]) => \E g, h \in idGames[lastId] : g < h

(* A live status is never sent for a game already reported as ended, not by *)
(* a repetition, and not after a reconnect.                                 *)
EndedStaysEnded ==
  [][sent' # sent /\ sent' # <<>> =>
       LET s == sent'[Len(sent')] IN Live(s) => s.id \notin ended]_vars
=============================================================================
