----------------------------- MODULE RelayUpload -----------------------------
(***************************************************************************)
(* Replay uploads through the relay client of src/xemu-tools-rs/src/ws.rs. *)
(*                                                                         *)
(* The replay worker puts a presign request for each saved replay file in  *)
(* the relay queue.  The relay task (run_relay_client, with the send loop  *)
(* of each connection) takes it from there, tracks it in                   *)
(* RelayState.replay_uploads and writes it to the websocket.  The receive  *)
(* task that run_relay_client spawns for the connection gets the presigned *)
(* URL, sends the file with HTTP and either forgets the upload or retries  *)
(* it, talking back to the send loop through the connection's outbound     *)
(* control channel.  Connections break at any point; the reconnect path    *)
(* flushes the queue of stale ticks and queues tracked uploads again.      *)
(*                                                                         *)
(* A step ends where another thread can observe it: at a lock, a channel   *)
(* operation or an await.  Ticks stand for everything else that shares the *)
(* queue.  Keys, live status messages and counters of the status panel     *)
(* other than pending_uploads are left out.                                *)
(***************************************************************************)
EXTENDS Naturals, Sequences, FiniteSets

CONSTANTS
  Requests,     (* request ids: a fresh uuid for each saved replay         *)
  NoRequest,    (* no id: what a tick carries                              *)
  MaxRetries,   (* RelayState.max_replay_upload_retries, 2 in the program  *)
  MaxTicks,     (* bound: ticks waiting in the relay queue                 *)
  MaxFaults,    (* bound: failed connects and broken connections           *)
  MaxCommands   (* bound: commands the user issues                         *)

ASSUME RetriesAssumption == MaxRetries \in 0..254
ASSUME NoRequestAssumption == NoRequest \notin Requests
ASSUME BoundsAssumption == MaxTicks \in Nat /\ MaxFaults \in Nat /\ MaxCommands \in Nat
ASSUME RequestsAssumption == IsFiniteSet(Requests)

VARIABLES
  pc,             (* where run_relay_client / send_relay_loop stands       *)
  outgoing,       (* the message whose write.send is being awaited         *)
  retained,       (* flush_stale_relay_messages: presign requests kept     *)
  pendingRequeue, (* requeue_pending_replay_uploads: snapshot to send      *)
  recvPc,         (* where the connection's receive task stands            *)
  recvId,         (* the request it is handling                            *)
  aborted,        (* recv_task.abort() was called, next await ends it      *)
  queue,          (* relay channel: payloads from main, replay, requeue    *)
  commands,       (* relay command channel                                 *)
  control,        (* outbound control channel of this connection           *)
  tracked,        (* keys of RelayState.replay_uploads                     *)
  attempts,       (* PendingReplayUpload.attempts                          *)
  phase,          (* ReplayUploadStatus.phase, "none" without a record     *)
  pendingUploads, (* status.relay.pending_uploads                          *)
  enabled,        (* controls.replay_uploads                               *)
  shutdown,       (* shutdown_requested                                    *)
  link,           (* the websocket: up, half open, down                    *)
  inbox,          (* server messages not yet read                          *)
  awaiting,       (* presign requests the server has not answered          *)
  outcome,        (* history: what closed each request                     *)
  stored,         (* history: files the object store holds                 *)
  announced,      (* history: "uploaded" put in an open control channel    *)
  stalled,        (* history: last request refused or dropped unanswered   *)
  faults, issued  (* how much of the bounds is used                        *)

flushVars == <<retained, pendingRequeue>>
taskVars == <<pc, outgoing, flushVars>>
recvVars == <<recvPc, recvId, aborted>>
uploadVars == <<tracked, attempts>>
statusVars == <<phase, pendingUploads>>
flagVars == <<enabled, shutdown>>
linkVars == <<link, inbox, awaiting>>
ghostVars == <<outcome, stored, announced, stalled>>
boundVars == <<faults, issued>>
vars == <<taskVars, recvVars, queue, commands, control, uploadVars, statusVars,
          flagVars, linkVars, ghostVars, boundVars>>

-----------------------------------------------------------------------------
(* Payloads, messages and phases *)

Ids == Requests \cup {NoRequest}

(* What travels in the relay queue.  Only the request the replay worker    *)
(* builds carries _local_file_path; the payload kept for retries does not. *)
Tick == [id |-> NoRequest, path |-> FALSE]
Payload == [id : Requests, path : BOOLEAN] \cup {Tick}
FirstRequest(r) == [id |-> r, path |-> TRUE]
StoredPayload(r) == [id |-> r, path |-> FALSE]
IsPresignRequest(p) == p.id # NoRequest

(* What the client writes: presign requests, "uploaded" messages, ticks. *)
Msg(type, r) == [type |-> type, id |-> r]
ControlMessage == [type : {"request", "uploaded"}, id : Requests]
TickMessage == Msg("tick", NoRequest)
NoMessage == Msg("none", NoRequest)

(* What the server answers to a presign request: a URL, a response without *)
(* presigned_request, an error, or BAD_KEY, which names no request (the id *)
(* tells here which request was eaten).                                    *)
Answers == {"response", "malformed", "error", "bad_key"}
Answer == [type : Answers, id : Requests]

Command == [type : {"reconnect"}, id : {NoRequest}]
             \cup [type : {"retry", "cancel"}, id : Requests]

Phases == {"none", "WaitingForUrl", "Uploading", "Retrying", "Uploaded",
           "Failed", "Cancelled"}
Outcomes == {"new", "open", "uploaded", "failed", "cancelled", "skipped"}

(* Stages of the send loop; the control channel is open exactly there. *)
LoopStages == {"top", "commands", "retrying", "cancelling", "control", "queue"}
Stages == LoopStages \cup {"connect", "welcome", "exit", "offline", "flush", "resend",
                           "requeue", "backoff", "stopped"}

(* The receive task awaits a message, the HTTP exchange or a retry delay;  *)
(* the other values are points between two locks where abort cannot act.   *)
RecvAwaits == {"reading", "putting", "stored", "sleeping"}
RecvStages == RecvAwaits \cup
  {"absent", "found", "foundBad", "announce", "forget", "failing",
   "markRetrying", "publishUploaded", "publishFailed"}

ControlOpen == pc \in LoopStages
InLoop(stage) == pc = stage /\ outgoing = NoMessage
IdsOf(s) == {s[i].id : i \in 1..Len(s)} \ {NoRequest}
TicksQueued == Cardinality({i \in 1..Len(queue) : queue[i] = Tick})

Init ==
  /\ pc = "connect" /\ outgoing = NoMessage
  /\ retained = <<>> /\ pendingRequeue = {}
  /\ recvPc = "absent" /\ recvId = NoRequest /\ aborted = FALSE
  /\ queue = <<>> /\ commands = <<>> /\ control = <<>>
  /\ tracked = {} /\ attempts = [r \in Requests |-> 0]
  /\ phase = [r \in Requests |-> "none"] /\ pendingUploads = 0
  /\ enabled \in BOOLEAN /\ shutdown = FALSE
  /\ link = "down" /\ inbox = <<>> /\ awaiting = [r \in Requests |-> 0]
  /\ outcome = [r \in Requests |-> "new"]
  /\ stored = {} /\ announced = {} /\ stalled = {}
  /\ faults = 0 /\ issued = 0

-----------------------------------------------------------------------------
(* The rest of the program: replay worker, main loop, user *)

(* What no step out here changes. *)
EnvStep == UNCHANGED <<taskVars, recvVars, control, uploadVars, statusVars,
                       stored, announced, stalled>>

(* enqueue_replay_upload_request, called for a saved file while uploads are *)
(* enabled; the channel accepts until run_relay_client drops its receiver.  *)
EnqueueUpload(r) ==
  /\ outcome[r] = "new" /\ enabled /\ pc # "stopped"
  /\ queue' = Append(queue, FirstRequest(r))
  /\ outcome' = [outcome EXCEPT ![r] = "open"]
  /\ EnvStep
  /\ UNCHANGED <<flagVars, linkVars, boundVars, commands>>

EnqueueTick ==
  /\ pc # "stopped" /\ ~shutdown /\ TicksQueued < MaxTicks
  /\ queue' = Append(queue, Tick)
  /\ EnvStep
  /\ UNCHANGED <<flagVars, linkVars, boundVars, commands, outcome>>

(* ReconnectRelay, RetryUpload and CancelUpload reach the relay command     *)
(* channel; the last two name an upload the panel lists.                    *)
IssueCommand(c) ==
  /\ pc # "stopped" /\ ~shutdown /\ issued < MaxCommands
  /\ c.type # "reconnect" => phase[c.id] # "none"
  /\ commands' = Append(commands, c)
  /\ issued' = issued + 1
  /\ EnvStep
  /\ UNCHANGED <<flagVars, linkVars, queue, outcome, faults>>

(* ToggleReplayUploads is a hot setting: the relay reads it at each request. *)
ToggleUploads ==
  /\ ~shutdown /\ issued < MaxCommands
  /\ enabled' = ~enabled
  /\ issued' = issued + 1
  /\ EnvStep
  /\ UNCHANGED <<linkVars, queue, commands, shutdown, outcome, faults>>

RequestShutdown ==
  /\ ~shutdown /\ shutdown' = TRUE
  /\ EnvStep
  /\ UNCHANGED <<linkVars, boundVars, queue, commands, enabled, outcome>>

-----------------------------------------------------------------------------
(* The network and the relay server (external) *)

(* The peer is gone: what it had not answered is lost, what it had sent may  *)
(* be.  The write side goes on accepting until the link is known to be down. *)
LinkBreaks ==
  /\ link = "up" /\ faults < MaxFaults
  /\ link' = "half" /\ faults' = faults + 1
  /\ inbox' \in {inbox, <<>>}
  /\ awaiting' = [r \in Requests |-> 0]
  /\ EnvStep
  /\ UNCHANGED <<flagVars, queue, commands, outcome, issued>>

LinkDrops ==
  /\ link = "half" /\ link' = "down"
  /\ EnvStep
  /\ UNCHANGED <<flagVars, boundVars, queue, commands, inbox, awaiting,
                 outcome>>

ServerAnswers(r, kind) ==
  /\ link = "up" /\ awaiting[r] > 0
  /\ awaiting' = [awaiting EXCEPT ![r] = @ - 1]
  /\ inbox' = Append(inbox, [type |-> kind, id |-> r])
  /\ EnvStep
  /\ UNCHANGED <<flagVars, boundVars, queue, commands, link, outcome>>

-----------------------------------------------------------------------------
(* The relay task: run_relay_client *)

(* What no step of the relay task changes, and a step that only moves on. *)
RelayStep == UNCHANGED <<flagVars, stored, announced, issued>>

GoTo(stage) ==
  /\ pc' = stage
  /\ UNCHANGED <<outgoing, flushVars, recvVars, queue, commands, control,
                 uploadVars, statusVars, linkVars, outcome, stalled, faults>>
  /\ RelayStep

(* The upload leaves replay_uploads, if it was there. *)
Untrack(r, how) ==
  /\ tracked' = tracked \ {r}
  /\ outcome' = IF r \in tracked THEN [outcome EXCEPT ![r] = how] ELSE outcome

Connected ==
  /\ pc = "connect" /\ pc' = "welcome"
  /\ link' = "up" /\ inbox' = <<>>
  /\ awaiting' = [r \in Requests |-> 0] /\ control' = <<>>
  /\ RelayStep
  /\ UNCHANGED <<flushVars, recvVars, uploadVars, statusVars, outgoing, queue,
                 commands, outcome, stalled, faults>>

ConnectFails ==
  /\ pc = "connect" /\ faults < MaxFaults
  /\ pc' = "offline" /\ faults' = faults + 1
  /\ RelayStep
  /\ UNCHANGED <<flushVars, recvVars, uploadVars, statusVars, linkVars,
                 outgoing, queue, commands, control, outcome, stalled>>

(* The first message, or the end of the stream: either way the receive task *)
(* is spawned and the send loop entered.  A receive task aborted with the   *)
(* last connection has met an await since: the retry delay is 100 ms or 5 s. *)
EnterSendLoop ==
  /\ pc = "welcome" /\ recvPc = "absent"
  /\ pc' = "top" /\ recvPc' = "reading"
  /\ RelayStep
  /\ UNCHANGED <<flushVars, uploadVars, statusVars, linkVars, outgoing,
                 recvId, aborted, queue, commands, control, outcome, stalled, faults>>

(* The shutdown checks outside the send loop.  What the task owned is freed *)
(* when it ends: nothing below reads it again.                              *)
StopAtShutdown ==
  /\ shutdown /\ pc \in {"connect", "welcome", "offline", "backoff"}
  /\ GoTo("stopped")

(* send_relay_loop has returned and dropped the control channel; the receive *)
(* task ends now if it is at an await, else at the next one.                 *)
AbortReceiveTask ==
  /\ pc = "exit" /\ pc' = "offline"
  /\ IF recvPc \in RecvAwaits \cup {"absent"}
       THEN recvPc' = "absent" /\ recvId' = NoRequest /\ UNCHANGED aborted
       ELSE aborted' = TRUE /\ UNCHANGED <<recvPc, recvId>>
  /\ link' = "down" /\ inbox' = <<>> /\ awaiting' = [r \in Requests |-> 0]
  /\ RelayStep
  /\ UNCHANGED <<flushVars, uploadVars, statusVars, outgoing, queue, commands,
                 control, outcome, stalled, faults>>

BeginFlush ==
  /\ pc = "offline" /\ ~shutdown
  /\ GoTo("flush")

(* Mutant: the flush takes presign requests for stale messages too. *)
KeepNothing(kept, p) == kept

(* Presign requests survive the flush, everything else is stale. *)
KeepRequest(kept, p) == IF IsPresignRequest(p) THEN Append(kept, p) ELSE kept

(* flush_stale_relay_messages, one try_recv at a time: producers may still *)
(* be sending.                                                             *)
FlushOne ==
  /\ pc = "flush" /\ queue # <<>>
  /\ queue' = Tail(queue)
  /\ retained' = KeepRequest(retained, Head(queue))
  /\ RelayStep
  /\ UNCHANGED <<recvVars, uploadVars, statusVars, linkVars, pc, outgoing,
                 pendingRequeue, commands, control, outcome, stalled, faults>>

(* Mutant: only what the flush kept is sent again after a reconnect. *)
NothingToRequeue == {}

(* requeue_pending_replay_uploads: the tracked uploads the flush did not find. *)
ToRequeue == tracked \ IdsOf(retained)

(* The queue is empty: send back what was kept, snapshot the other uploads. *)
ResendRetained ==
  /\ pc = "flush" /\ queue = <<>>
  /\ pc' = "requeue"
  /\ queue' = retained /\ retained' = <<>>
  /\ pendingRequeue' = ToRequeue
  /\ RelayStep
  /\ UNCHANGED <<recvVars, uploadVars, statusVars, linkVars, outgoing,
                 commands, control, outcome, stalled, faults>>

RequeueOne(r) ==
  /\ pc = "requeue" /\ r \in pendingRequeue
  /\ queue' = Append(queue, StoredPayload(r))
  /\ pendingRequeue' = pendingRequeue \ {r}
  /\ RelayStep
  /\ UNCHANGED <<recvVars, uploadVars, statusVars, linkVars, pc, outgoing,
                 retained, commands, control, outcome, stalled, faults>>

StartBackoff ==
  /\ pc = "requeue" /\ pendingRequeue = {}
  /\ pc' = "backoff"
  /\ pendingUploads' = Cardinality(tracked)
  /\ RelayStep
  /\ UNCHANGED <<flushVars, recvVars, uploadVars, linkVars, outgoing, queue,
                 commands, control, phase, outcome, stalled, faults>>

BackoffElapsed ==
  /\ pc = "backoff" /\ GoTo("connect")

-----------------------------------------------------------------------------
(* The relay task: send_relay_loop *)

(* Mutant: the loop does not look at the shutdown flag before going on. *)
LoopBeginsRegardless == InLoop("top") /\ GoTo("commands")

(* One iteration of the loop goes top, commands, control, queue. *)
LoopBegins ==
  /\ InLoop("top") /\ ~shutdown
  /\ GoTo("commands")

LeaveLoop ==
  /\ pc' = "exit" /\ outgoing' = NoMessage /\ control' = <<>>
  /\ RelayStep
  /\ UNCHANGED <<flushVars, recvVars, uploadVars, statusVars, linkVars, queue,
                 outcome, stalled, faults>>

LoopShutdown ==
  /\ InLoop("top") /\ shutdown
  /\ LeaveLoop /\ UNCHANGED commands

ReconnectNow ==
  /\ InLoop("commands") /\ commands # <<>> /\ Head(commands).type = "reconnect"
  /\ commands' = Tail(commands)
  /\ LeaveLoop

(* RetryUpload: the lookup, then the status and the write. *)
RetryUpload ==
  /\ InLoop("commands") /\ commands # <<>> /\ Head(commands).type = "retry"
  /\ \/ /\ Head(commands).id \in tracked
        /\ pc' = "retrying"
        /\ UNCHANGED <<commands, phase>>
     \/ /\ Head(commands).id \notin tracked
        /\ commands' = Tail(commands)
        /\ phase' = [phase EXCEPT ![Head(commands).id] = "Failed"]
        /\ UNCHANGED pc
  /\ RelayStep
  /\ UNCHANGED <<flushVars, recvVars, uploadVars, linkVars, outgoing, queue,
                 control, pendingUploads, outcome, stalled, faults>>

SendRetry ==
  /\ InLoop("retrying")
  /\ LET r == Head(commands).id IN
       /\ phase' = [phase EXCEPT ![r] = "WaitingForUrl"]
       /\ outgoing' = Msg("request", r)
  /\ commands' = Tail(commands) /\ pc' = "commands"
  /\ RelayStep
  /\ UNCHANGED <<flushVars, recvVars, uploadVars, linkVars, queue, control,
                 pendingUploads, outcome, stalled, faults>>

(* CancelUpload: the entry goes first, the panel is told in a second step. *)
CancelUpload ==
  /\ InLoop("commands") /\ commands # <<>> /\ Head(commands).type = "cancel"
  /\ Untrack(Head(commands).id, "cancelled")
  /\ pc' = "cancelling"
  /\ RelayStep
  /\ UNCHANGED <<flushVars, recvVars, statusVars, linkVars, outgoing, queue,
                 commands, control, attempts, stalled, faults>>

PublishCancel ==
  /\ InLoop("cancelling")
  /\ pendingUploads' = Cardinality(tracked)
  /\ phase' = [phase EXCEPT ![Head(commands).id] = "Cancelled"]
  /\ commands' = Tail(commands) /\ pc' = "commands"
  /\ RelayStep
  /\ UNCHANGED <<flushVars, recvVars, uploadVars, linkVars, outgoing, queue,
                 control, outcome, stalled, faults>>

CommandsDrained ==
  /\ InLoop("commands") /\ commands = <<>>
  /\ GoTo("control")

SendControl ==
  /\ InLoop("control") /\ control # <<>>
  /\ outgoing' = Head(control) /\ control' = Tail(control)
  /\ RelayStep
  /\ UNCHANGED <<flushVars, recvVars, uploadVars, statusVars, linkVars, pc,
                 queue, commands, outcome, stalled, faults>>

ControlDrained ==
  /\ InLoop("control") /\ control = <<>>
  /\ GoTo("queue")

(* Mutant: every presign request is entered in replay_uploads as new. *)
TracksAnything(p) == IsPresignRequest(p)

(* Only a payload with a local path (and an id) is entered. *)
TracksPath(p) == p.path

(* send_replay_upload_presign_request: a payload with its path is tracked    *)
(* before the write, so that a failed write leaves it tracked; one without   *)
(* is written again as it is, tracked or not.  Nothing else can name the     *)
(* request between the insertion and the status update: it was never sent.   *)
SendRequest ==
  /\ InLoop("queue") /\ queue # <<>> /\ IsPresignRequest(Head(queue)) /\ enabled
  /\ LET r == Head(queue).id IN
       /\ IF TracksPath(Head(queue))
            THEN /\ tracked' = tracked \cup {r}
                 /\ attempts' = [attempts EXCEPT ![r] = 0]
                 /\ pendingUploads' = Cardinality(tracked \cup {r})
                 /\ phase' = [phase EXCEPT ![r] = "WaitingForUrl"]
            ELSE UNCHANGED <<uploadVars, statusVars>>
       /\ outgoing' = Msg("request", r)
  /\ queue' = Tail(queue) /\ pc' = "top"
  /\ RelayStep
  /\ UNCHANGED <<flushVars, recvVars, linkVars, commands, control, outcome,
                 stalled, faults>>

(* Uploads are disabled: the request is taken and dropped.  A first request *)
(* is lost with its path; a tracked one waits for the next reconnect.       *)
SkipRequest ==
  /\ InLoop("queue") /\ queue # <<>> /\ IsPresignRequest(Head(queue)) /\ ~enabled
  /\ LET r == Head(queue).id IN
       IF Head(queue).path
         THEN outcome' = [outcome EXCEPT ![r] = "skipped"] /\ UNCHANGED stalled
         ELSE stalled' = stalled \cup {r} /\ UNCHANGED outcome
  /\ queue' = Tail(queue) /\ pc' = "top"
  /\ RelayStep
  /\ UNCHANGED <<flushVars, recvVars, uploadVars, statusVars, linkVars,
                 outgoing, commands, control, faults>>

SendTick ==
  /\ InLoop("queue") /\ queue # <<>> /\ ~IsPresignRequest(Head(queue))
  /\ outgoing' = TickMessage
  /\ queue' = Tail(queue) /\ pc' = "top"
  /\ RelayStep
  /\ UNCHANGED <<flushVars, recvVars, uploadVars, statusVars, linkVars,
                 commands, control, outcome, stalled, faults>>

(* try_recv found nothing: sleep 10 ms and go round. *)
QueueEmpty ==
  /\ InLoop("queue") /\ queue = <<>>
  /\ GoTo("top")

(* write.send(..).await returns Ok: on a half open link nobody gets it. *)
WriteDone ==
  /\ outgoing # NoMessage /\ link \in {"up", "half"}
  /\ outgoing' = NoMessage
  /\ IF outgoing.type = "request"
       THEN /\ stalled' = stalled \ {outgoing.id}
            /\ awaiting' = IF link = "up"
                 THEN [awaiting EXCEPT ![outgoing.id] = @ + 1] ELSE awaiting
       ELSE UNCHANGED <<stalled, awaiting>>
  /\ RelayStep
  /\ UNCHANGED <<flushVars, recvVars, uploadVars, statusVars, pc, queue,
                 commands, control, link, inbox, outcome, faults>>

WriteFails ==
  /\ outgoing # NoMessage /\ link = "down"
  /\ LeaveLoop /\ UNCHANGED commands

-----------------------------------------------------------------------------
(* The receive task: handle_relay_message and its callees *)

(* Where the task goes when it reaches an await. *)
Await(stage, r) ==
  IF aborted
    THEN recvPc' = "absent" /\ recvId' = NoRequest /\ aborted' = FALSE
    ELSE recvPc' = stage /\ recvId' = r /\ UNCHANGED aborted

RecvStep ==
  UNCHANGED <<taskVars, queue, commands, enabled, shutdown, link, awaiting,
              boundVars>>

(* read.next() yields an error or the end of the stream. *)
ReceiveEnds ==
  /\ recvPc = "reading" /\ link # "up"
  /\ recvPc' = "absent" /\ UNCHANGED <<recvId, aborted>>
  /\ RecvStep
  /\ UNCHANGED <<control, uploadVars, statusVars, inbox, ghostVars>>

(* A presign response, well formed or not: look the upload up. *)
ReadResponse ==
  /\ recvPc = "reading" /\ inbox # <<>>
  /\ Head(inbox).type \in {"response", "malformed"}
  /\ inbox' = Tail(inbox)
  /\ IF Head(inbox).id \in tracked
       THEN /\ recvPc' = IF Head(inbox).type = "response" THEN "found" ELSE "foundBad"
            /\ recvId' = Head(inbox).id
       ELSE UNCHANGED <<recvPc, recvId>>
  /\ RecvStep
  /\ UNCHANGED <<aborted, control, uploadVars, statusVars, ghostVars>>

(* The panel says Uploading before the response is known to be usable. *)
BeginUpload ==
  /\ recvPc \in {"found", "foundBad"}
  /\ phase' = [phase EXCEPT ![recvId] = "Uploading"]
  /\ IF recvPc = "found"
       THEN Await("putting", recvId) /\ UNCHANGED stalled
       ELSE Await("reading", NoRequest) /\ stalled' = stalled \cup {recvId}
  /\ RecvStep
  /\ UNCHANGED <<control, uploadVars, pendingUploads, inbox, outcome, stored,
                 announced>>

(* replay_upload_presign_error: the panel says Failed, the entry stays. *)
ReadPresignError ==
  /\ recvPc = "reading" /\ inbox # <<>> /\ Head(inbox).type = "error"
  /\ inbox' = Tail(inbox)
  /\ phase' = [phase EXCEPT ![Head(inbox).id] = "Failed"]
  /\ stalled' = stalled \cup {Head(inbox).id}
  /\ RecvStep
  /\ UNCHANGED <<recvPc, recvId, aborted, control, uploadVars, pendingUploads,
                 outcome, stored, announced>>

(* BAD_KEY: the next messages carry the key, the one refused is not resent. *)
ReadBadKey ==
  /\ recvPc = "reading" /\ inbox # <<>> /\ Head(inbox).type = "bad_key"
  /\ inbox' = Tail(inbox)
  /\ stalled' = stalled \cup {Head(inbox).id}
  /\ RecvStep
  /\ UNCHANGED <<recvPc, recvId, aborted, control, uploadVars, statusVars,
                 outcome, stored, announced>>

(* upload_replay_file (external store): it may hold the file before the  *)
(* answer arrives, and the answer may still be lost.                     *)
StoreAccepts ==
  /\ recvPc = "putting" /\ recvPc' = "stored"
  /\ stored' = stored \cup {recvId}
  /\ RecvStep
  /\ UNCHANGED <<recvId, aborted, control, uploadVars, statusVars, inbox, outcome,
                 announced, stalled>>

PutSucceeds ==
  /\ recvPc = "stored" /\ recvPc' = "announce"
  /\ RecvStep
  /\ UNCHANGED <<recvId, aborted, control, uploadVars, statusVars, inbox, ghostVars>>

PutFails ==
  /\ recvPc \in {"putting", "stored"} /\ recvPc' = "failing"
  /\ RecvStep
  /\ UNCHANGED <<recvId, aborted, control, uploadVars, statusVars, inbox, ghostVars>>

(* Mutant: the error of a closed control channel is ignored. *)
AnnounceUnchecked ==
  /\ recvPc = "announce" /\ recvPc' = "forget"
  /\ IF ControlOpen
       THEN /\ control' = Append(control, Msg("uploaded", recvId))
            /\ announced' = announced \cup {recvId}
       ELSE UNCHANGED <<control, announced>>
  /\ RecvStep
  /\ UNCHANGED <<recvId, aborted, uploadVars, statusVars, inbox, outcome, stored,
                 stalled>>

(* The "uploaded" message goes first; if the send loop is gone the handler *)
(* returns there and the upload stays tracked.                             *)
Announce ==
  /\ recvPc = "announce"
  /\ IF ControlOpen
       THEN /\ control' = Append(control, Msg("uploaded", recvId))
            /\ announced' = announced \cup {recvId}
            /\ recvPc' = "forget" /\ UNCHANGED <<recvId, aborted>>
       ELSE /\ Await("reading", NoRequest)
            /\ UNCHANGED <<control, announced>>
  /\ RecvStep
  /\ UNCHANGED <<uploadVars, statusVars, inbox, outcome, stored, stalled>>

ForgetUploaded ==
  /\ recvPc = "forget" /\ recvPc' = "publishUploaded"
  /\ Untrack(recvId, "uploaded")
  /\ RecvStep
  /\ UNCHANGED <<recvId, aborted, control, attempts, statusVars, inbox, stored,
                 announced, stalled>>

RetriesLeft(n) == n <= MaxRetries

(* The failure is charged under the lock, if the entry is still there. *)
ChargeAttempt ==
  /\ recvPc = "failing"
  /\ IF recvId \in tracked
       THEN attempts' = [attempts EXCEPT ![recvId] = @ + 1]
       ELSE UNCHANGED attempts
  /\ IF recvId \in tracked /\ RetriesLeft(attempts[recvId] + 1)
       THEN recvPc' = "markRetrying" /\ UNCHANGED <<tracked, outcome>>
       ELSE recvPc' = "publishFailed" /\ Untrack(recvId, "failed")
  /\ RecvStep
  /\ UNCHANGED <<recvId, aborted, control, statusVars, inbox, stored, announced,
                 stalled>>

(* The panel says Retrying and the delay before the next attempt starts. *)
MarkRetrying ==
  /\ recvPc = "markRetrying"
  /\ phase' = [phase EXCEPT ![recvId] = "Retrying"]
  /\ Await("sleeping", recvId)
  /\ RecvStep
  /\ UNCHANGED <<control, uploadVars, pendingUploads, inbox, ghostVars>>

Resend ==
  /\ recvPc = "sleeping"
  /\ control' = IF ControlOpen THEN Append(control, Msg("request", recvId)) ELSE control
  /\ Await("reading", NoRequest)
  /\ RecvStep
  /\ UNCHANGED <<uploadVars, statusVars, inbox, ghostVars>>

(* Mutant: the panel's phase is updated, its count of uploads is not. *)
PublishPhaseOnly ==
  /\ recvPc \in {"publishUploaded", "publishFailed"}
  /\ phase' = [phase EXCEPT ![recvId] =
                 IF recvPc = "publishUploaded" THEN "Uploaded" ELSE "Failed"]
  /\ Await("reading", NoRequest)
  /\ RecvStep
  /\ UNCHANGED <<control, uploadVars, pendingUploads, inbox, ghostVars>>

(* The upload is settled: tell the panel. *)
PublishOutcome ==
  /\ recvPc \in {"publishUploaded", "publishFailed"}
  /\ pendingUploads' = Cardinality(tracked)
  /\ phase' = [phase EXCEPT ![recvId] =
                 IF recvPc = "publishUploaded" THEN "Uploaded" ELSE "Failed"]
  /\ Await("reading", NoRequest)
  /\ RecvStep
  /\ UNCHANGED <<control, uploadVars, inbox, ghostVars>>

-----------------------------------------------------------------------------
Environment ==
  \/ \E r \in Requests : EnqueueUpload(r)
  \/ EnqueueTick
  \/ \E c \in Command : IssueCommand(c)
  \/ ToggleUploads
  \/ RequestShutdown
  \/ LinkBreaks
  \/ LinkDrops
  \/ \E r \in Requests, kind \in Answers : ServerAnswers(r, kind)

RelayTask ==
  \/ Connected \/ ConnectFails \/ EnterSendLoop \/ StopAtShutdown
  \/ AbortReceiveTask \/ BeginFlush \/ FlushOne \/ ResendRetained
  \/ \E r \in Requests : RequeueOne(r)
  \/ StartBackoff \/ BackoffElapsed
  \/ LoopBegins \/ LoopShutdown \/ ReconnectNow \/ RetryUpload \/ SendRetry
  \/ CancelUpload \/ PublishCancel \/ CommandsDrained
  \/ SendControl \/ ControlDrained
  \/ SendRequest \/ SkipRequest \/ SendTick \/ QueueEmpty
  \/ WriteDone \/ WriteFails

ReceiveTask ==
  \/ ReceiveEnds \/ ReadResponse \/ BeginUpload \/ ReadPresignError \/ ReadBadKey
  \/ StoreAccepts \/ PutSucceeds \/ PutFails
  \/ Announce \/ ForgetUploaded \/ ChargeAttempt \/ MarkRetrying \/ Resend
  \/ PublishOutcome

Next == Environment \/ RelayTask \/ ReceiveTask

Spec == Init /\ [][Next]_vars

(* Each task keeps running; sockets, timers and the store give an answer in *)
(* the end; the server answers what it receives; Halo keeps ticking.  The   *)
(* flush empties the queue much faster than 30 ticks a second fill it, so   *)
(* that one try_recv finds it empty.                                        *)
Fairness ==
  /\ WF_vars(RelayTask)
  /\ SF_vars(ResendRetained)
  /\ WF_vars(ReceiveTask)
  /\ WF_vars(LinkDrops)
  /\ WF_vars(EnqueueTick)
  /\ \A r \in Requests : WF_vars(\E kind \in Answers : ServerAnswers(r, kind))

FairSpec == Spec /\ Fairness

-----------------------------------------------------------------------------
(* Properties *)

FirstIn(q, r) == \E i \in 1..Len(q) : q[i] = FirstRequest(r)
FirstRequestWaits(r) == FirstIn(queue, r) \/ FirstIn(retained, r)
UniquePaths(q) == \A i, j \in 1..Len(q) : q[i].path /\ q[i] = q[j] => i = j

TypeOK ==
  /\ pc \in Stages /\ outgoing \in ControlMessage \cup {TickMessage, NoMessage}
  /\ retained \in Seq(Payload) /\ pendingRequeue \subseteq Requests
  /\ recvPc \in RecvStages /\ recvId \in Ids /\ aborted \in BOOLEAN
  /\ queue \in Seq(Payload) /\ commands \in Seq(Command) /\ control \in Seq(ControlMessage)
  /\ tracked \subseteq Requests /\ attempts \in [Requests -> 0..(MaxRetries + 1)]
  /\ phase \in [Requests -> Phases] /\ pendingUploads \in Nat
  /\ enabled \in BOOLEAN /\ shutdown \in BOOLEAN
  /\ link \in {"up", "half", "down"} /\ inbox \in Seq(Answer)
  /\ awaiting \in [Requests -> Nat]
  /\ outcome \in [Requests -> Outcomes]
  /\ stored \subseteq Requests /\ announced \subseteq Requests /\ stalled \subseteq Requests
  /\ faults \in 0..MaxFaults /\ issued \in 0..MaxCommands

(* What the type invariant needs to be inductive: the receive task has a     *)
(* request in hand when it says so, a command stays at the head of its       *)
(* channel until it is done, only three stages await a write.                *)
ShapeOK ==
  /\ recvPc \notin {"absent", "reading"} => recvId \in Requests
  /\ outgoing # NoMessage => pc \in {"top", "commands", "control"}
  /\ pc = "retrying" => commands # <<>> /\ Head(commands).type = "retry"
  /\ pc = "cancelling" => commands # <<>> /\ Head(commands).type = "cancel"
  /\ \A r \in tracked : attempts[r] <= MaxRetries

(* A request travels with its path once: no two such payloads of one id.     *)
PathsOnce ==
  /\ UniquePaths(queue) /\ UniquePaths(retained)
  /\ \A r \in Requests : ~(FirstIn(queue, r) /\ FirstIn(retained, r))

(* While the snapshot is being sent, what is not queued yet is in it.        *)
Requeueing == pc = "requeue" => tracked \subseteq pendingRequeue \cup IdsOf(queue)

(* What the receive task has already done for the request in its hands.      *)
TransferOK ==
  /\ recvPc \in {"stored", "announce", "forget"} => recvId \in stored
  /\ recvPc = "forget" => recvId \in announced
  /\ recvPc \notin {"absent", "reading"} => outcome[recvId] # "new"

(* Nothing is charged to a request before its first transfer. *)
FreshUncharged ==
  \A r \in Requests :
    outcome[r] = "new" \/ FirstRequestWaits(r) => attempts[r] = 0

(* No accepted upload is lost and none is held twice: a request is open in   *)
(* exactly one place, either still in the relay queue (or in the hands of    *)
(* the reconnect flush) with its path, or in replay_uploads.  The flush of   *)
(* stale messages, the reconnect and the two tasks must not break this.      *)
NoLostUpload ==
  \A r \in Requests :
    /\ (outcome[r] = "open") <=> (r \in tracked \/ FirstRequestWaits(r))
    /\ ~(r \in tracked /\ FirstRequestWaits(r))

(* Whenever the client is about to have a fresh connection, every tracked    *)
(* upload has a request waiting in the relay queue: whatever the last        *)
(* connection took with it (a request in flight, a retry delay, a URL not    *)
(* used yet) is asked for again.                                             *)
ReadyToResume ==
  pc \in {"backoff", "connect", "welcome"} => tracked \subseteq IdsOf(queue)

(* An upload forgotten as uploaded is in the store, and its "uploaded"       *)
(* message was accepted by a live send loop before it was forgotten.         *)
UploadedIsAnnounced ==
  \A r \in Requests : outcome[r] = "uploaded" => r \in stored \cap announced

(* When neither task is between a removal and its report, the panel's        *)
(* pending_uploads is the number of tracked uploads.                         *)
PendingCountAtRest ==
  (pc # "cancelling" /\ recvPc \notin {"publishUploaded", "publishFailed"})
    => pendingUploads = Cardinality(tracked)

(* Once the replay worker's request is accepted, the upload is settled in    *)
(* the end, unless the server refused or ignored its last request, uploads   *)
(* were switched off over it, or the program shuts down: broken connections, *)
(* failed transfers and retry delays never leave it waiting for ever.        *)
EventuallySettled ==
  \A r \in Requests :
    (outcome[r] = "open") ~> (outcome[r] # "open" \/ r \in stalled \/ shutdown)

(* A shutdown request ends the relay task whatever it is doing. *)
ShutdownStops == shutdown ~> (pc = "stopped")

(* The inductive invariant of the proofs. *)
IInv ==
  /\ TypeOK /\ ShapeOK
  /\ NoLostUpload /\ PathsOnce /\ FreshUncharged
  /\ ReadyToResume /\ Requeueing
  /\ UploadedIsAnnounced /\ TransferOK
  /\ PendingCountAtRest

Contract == INSTANCE UploadContract
ImplementsContract == Contract!ContractSpec
=============================================================================
