-------------------------- MODULE RelayUploadProofs --------------------------
(***************************************************************************)
(* Proofs about RelayUpload for every set of requests, retry budget and    *)
(* bound.  The invariant IInv is shown inductive in two layers: types and  *)
(* shape first, then what keeps an upload from being lost.                 *)
(***************************************************************************)
EXTENDS RelayUpload, FiniteSetTheorems, TLAPS

USE DEF flushVars, taskVars, recvVars, uploadVars, statusVars, flagVars,
        linkVars, ghostVars, boundVars, EnvStep, RelayStep, RecvStep

-----------------------------------------------------------------------------
(* Types and shape *)

(* The number of tracked uploads is a number: the tracked ids are among    *)
(* finitely many requests.                                                 *)
LEMMA TrackedCount ==
  ASSUME NEW S, S \subseteq Requests
  PROVE  Cardinality(S) \in Nat
BY RequestsAssumption, FS_Subset, FS_CardinalityType

LEMMA TypeInit == Init => TypeOK /\ ShapeOK
<1> SUFFICES ASSUME Init PROVE TypeOK /\ ShapeOK
  OBVIOUS
<1>1. pc \in Stages /\ outgoing \in ControlMessage \cup {TickMessage, NoMessage}
  BY DEF Init, Stages
<1>2. recvPc \in RecvStages /\ recvId \in Ids /\ aborted \in BOOLEAN
  BY DEF Init, RecvStages, Ids
<1>3. /\ retained \in Seq(Payload) /\ queue \in Seq(Payload) /\ inbox \in Seq(Answer)
      /\ commands \in Seq(Command) /\ control \in Seq(ControlMessage)
  BY DEF Init
<1>4. /\ attempts \in [Requests -> 0..(MaxRetries + 1)]
      /\ awaiting \in [Requests -> Nat]
  BY RetriesAssumption DEF Init
<1>5. phase \in [Requests -> Phases] /\ outcome \in [Requests -> Outcomes]
  BY DEF Init, Phases, Outcomes
<1>6. faults \in 0..MaxFaults /\ issued \in 0..MaxCommands
  BY BoundsAssumption DEF Init
<1>7. TypeOK
  BY <1>1, <1>2, <1>3, <1>4, <1>5, <1>6 DEF Init, TypeOK
<1>8. ShapeOK
  BY DEF Init, ShapeOK
<1> QED
  BY <1>7, <1>8

LEMMA EnvironmentType ==
  ASSUME TypeOK, ShapeOK, Environment
  PROVE  TypeOK' /\ ShapeOK'
<1> USE RetriesAssumption, BoundsAssumption DEF TypeOK, ShapeOK
<1>1. ASSUME NEW r \in Requests, EnqueueUpload(r)
      PROVE  TypeOK' /\ ShapeOK'
  <2>1. queue' \in Seq(Payload)
    BY <1>1 DEF EnqueueUpload, FirstRequest, Payload
  <2>2. outcome' \in [Requests -> Outcomes]
    BY <1>1 DEF EnqueueUpload, Outcomes
  <2> QED
    BY <1>1, <2>1, <2>2 DEF EnqueueUpload
<1>2. CASE EnqueueTick
  BY <1>2 DEF EnqueueTick, Payload
<1>3. ASSUME NEW c \in Command, IssueCommand(c)
      PROVE  TypeOK' /\ ShapeOK'
  <2>1. commands' \in Seq(Command) /\ issued' \in 0..MaxCommands
    BY <1>3 DEF IssueCommand
  <2>2. commands # <<>> => commands' # <<>> /\ Head(commands') = Head(commands)
    BY <1>3 DEF IssueCommand
  <2> QED
    BY <1>3, <2>1, <2>2 DEF IssueCommand
<1>4. CASE ToggleUploads
  BY <1>4 DEF ToggleUploads
<1>5. CASE RequestShutdown
  BY <1>5 DEF RequestShutdown
<1>6. CASE LinkBreaks
  <2>1. inbox' \in Seq(Answer)
    <3>1. CASE inbox' = inbox
      BY <3>1
    <3>2. CASE inbox' = <<>>
      BY <3>2
    <3> QED
      BY <1>6, <3>1, <3>2 DEF LinkBreaks
  <2>2. faults' \in 0..MaxFaults /\ awaiting' \in [Requests -> Nat]
    BY <1>6 DEF LinkBreaks
  <2> QED
    BY <1>6, <2>1, <2>2 DEF LinkBreaks
<1>7. CASE LinkDrops
  BY <1>7 DEF LinkDrops
<1>8. ASSUME NEW r \in Requests, NEW kind \in Answers, ServerAnswers(r, kind)
      PROVE  TypeOK' /\ ShapeOK'
  BY <1>8 DEF ServerAnswers, Answer
<1> QED
  BY <1>1, <1>2, <1>3, <1>4, <1>5, <1>6, <1>7, <1>8 DEF Environment

(* Leaving the send loop and moving between stages keep every type.  *)
LEMMA GoToType ==
  ASSUME TypeOK, ShapeOK, NEW stage \in Stages \ {"retrying", "cancelling"},
         GoTo(stage), outgoing = NoMessage \/ stage \in {"top", "commands", "control"}
  PROVE  TypeOK' /\ ShapeOK'
BY DEF GoTo, TypeOK, ShapeOK

LEMMA LeaveLoopType ==
  ASSUME TypeOK, ShapeOK, LeaveLoop, commands' \in Seq(Command)
  PROVE  TypeOK' /\ ShapeOK'
<1>1. control' \in Seq(ControlMessage)
  BY DEF LeaveLoop
<1>2. TypeOK'
  BY <1>1 DEF LeaveLoop, TypeOK, Stages, LoopStages
<1>3. ShapeOK'
  BY DEF LeaveLoop, ShapeOK
<1> QED
  BY <1>2, <1>3

LEMMA HeadCommand ==
  ASSUME TypeOK, commands # <<>>
  PROVE  /\ commands' = Tail(commands) => commands' \in Seq(Command)
         /\ Head(commands).type \in {"retry", "cancel"} => Head(commands).id \in Requests
<1>1. Head(commands) \in Command /\ Tail(commands) \in Seq(Command)
  BY DEF TypeOK
<1> QED
  BY <1>1 DEF Command

(* Outside the send loop no write is awaited. *)
LEMMA ConnectionType ==
  ASSUME TypeOK, ShapeOK,
         \/ Connected \/ ConnectFails \/ EnterSendLoop \/ StopAtShutdown
         \/ AbortReceiveTask \/ BeginFlush \/ FlushOne \/ ResendRetained
         \/ \E r \in Requests : RequeueOne(r)
         \/ StartBackoff \/ BackoffElapsed
  PROVE  TypeOK' /\ ShapeOK'
<1> USE RetriesAssumption, BoundsAssumption DEF Stages, LoopStages
<1>1. CASE Connected
  <2>1. inbox' \in Seq(Answer) /\ control' \in Seq(ControlMessage)
    BY <1>1 DEF Connected
  <2> QED
    BY <1>1, <2>1 DEF Connected, TypeOK, ShapeOK
<1>2. CASE ConnectFails
  BY <1>2 DEF ConnectFails, TypeOK, ShapeOK
<1>3. CASE EnterSendLoop
  BY <1>3 DEF EnterSendLoop, TypeOK, ShapeOK, RecvStages, RecvAwaits
<1>4. CASE StopAtShutdown
  BY <1>4, GoToType DEF StopAtShutdown, ShapeOK
<1>5. CASE AbortReceiveTask
  <2>1. inbox' \in Seq(Answer)
    BY <1>5 DEF AbortReceiveTask
  <2>2. recvPc' \in RecvStages /\ recvId' \in Ids /\ aborted' \in BOOLEAN
    BY <1>5 DEF AbortReceiveTask, TypeOK, RecvStages, RecvAwaits, Ids
  <2>3. recvPc' \notin {"absent", "reading"} => recvId' \in Requests
    BY <1>5 DEF AbortReceiveTask, ShapeOK
  <2> QED
    BY <1>5, <2>1, <2>2, <2>3 DEF AbortReceiveTask, TypeOK, ShapeOK
<1>6. CASE BeginFlush
  BY <1>6, GoToType DEF BeginFlush, ShapeOK
<1>7. CASE FlushOne
  <2>1. queue' \in Seq(Payload) /\ retained' \in Seq(Payload)
    BY <1>7 DEF FlushOne, KeepRequest, TypeOK
  <2> QED
    BY <1>7, <2>1 DEF FlushOne, TypeOK, ShapeOK
<1>8. CASE ResendRetained
  <2>1. retained' \in Seq(Payload) /\ queue' \in Seq(Payload)
    BY <1>8 DEF ResendRetained, TypeOK
  <2> QED
    BY <1>8, <2>1 DEF ResendRetained, ToRequeue, TypeOK, ShapeOK
<1>9. ASSUME NEW r \in Requests, RequeueOne(r)
      PROVE  TypeOK' /\ ShapeOK'
  <2>1. queue' \in Seq(Payload)
    BY <1>9 DEF RequeueOne, StoredPayload, Payload, TypeOK
  <2> QED
    BY <1>9, <2>1 DEF RequeueOne, TypeOK, ShapeOK
<1>10. CASE StartBackoff
  <2>1. pendingUploads' \in Nat
    BY <1>10, TrackedCount DEF StartBackoff, TypeOK
  <2> QED
    BY <1>10, <2>1 DEF StartBackoff, TypeOK, ShapeOK
<1>11. CASE BackoffElapsed
  BY <1>11, GoToType DEF BackoffElapsed, ShapeOK
<1> QED
  BY <1>1, <1>2, <1>3, <1>4, <1>5, <1>6, <1>7, <1>8, <1>9, <1>10, <1>11

LEMMA SendLoopType ==
  ASSUME TypeOK, ShapeOK,
         \/ LoopBegins \/ LoopShutdown \/ ReconnectNow \/ RetryUpload \/ SendRetry
         \/ CancelUpload \/ PublishCancel \/ CommandsDrained
         \/ SendControl \/ ControlDrained
         \/ SendRequest \/ SkipRequest \/ SendTick \/ QueueEmpty
         \/ WriteDone \/ WriteFails
  PROVE  TypeOK' /\ ShapeOK'
<1> USE DEF Stages, LoopStages, InLoop
<1>1. CASE LoopBegins
  BY <1>1, GoToType DEF LoopBegins
<1>2. CASE LoopShutdown
  BY <1>2, LeaveLoopType DEF LoopShutdown, TypeOK
<1>3. CASE ReconnectNow
  BY <1>3, LeaveLoopType, HeadCommand DEF ReconnectNow
<1>4. CASE RetryUpload
  <2>1. commands' \in Seq(Command) /\ phase' \in [Requests -> Phases]
    BY <1>4, HeadCommand DEF RetryUpload, TypeOK, Phases
  <2> QED
    BY <1>4, <2>1 DEF RetryUpload, TypeOK, ShapeOK
<1>5. CASE SendRetry
  <2>1. Head(commands).id \in Requests /\ commands' \in Seq(Command)
    BY <1>5, HeadCommand DEF SendRetry, ShapeOK
  <2>2. outgoing' \in ControlMessage
    BY <1>5, <2>1 DEF SendRetry, ControlMessage, Msg
  <2>3. phase' \in [Requests -> Phases]
    BY <1>5, <2>1 DEF SendRetry, TypeOK, Phases
  <2> QED
    BY <1>5, <2>1, <2>2, <2>3 DEF SendRetry, TypeOK, ShapeOK
<1>6. CASE CancelUpload
  <2>1. Head(commands).id \in Requests
    BY <1>6, HeadCommand DEF CancelUpload
  <2>2. outcome' \in [Requests -> Outcomes]
    BY <1>6, <2>1 DEF CancelUpload, Untrack, TypeOK, Outcomes
  <2> QED
    BY <1>6, <2>1, <2>2 DEF CancelUpload, Untrack, TypeOK, ShapeOK
<1>7. CASE PublishCancel
  <2>1. Head(commands).id \in Requests /\ commands' \in Seq(Command)
    BY <1>7, HeadCommand DEF PublishCancel, ShapeOK
  <2>2. phase' \in [Requests -> Phases]
    BY <1>7, <2>1 DEF PublishCancel, TypeOK, Phases
  <2>3. pendingUploads' \in Nat
    BY <1>7, TrackedCount DEF PublishCancel, TypeOK
  <2> QED
    BY <1>7, <2>1, <2>2, <2>3 DEF PublishCancel, TypeOK, ShapeOK
<1>8. CASE CommandsDrained
  BY <1>8, GoToType DEF CommandsDrained
<1>9. CASE SendControl
  <2>1. outgoing' \in ControlMessage /\ control' \in Seq(ControlMessage)
    BY <1>9 DEF SendControl, TypeOK
  <2> QED
    BY <1>9, <2>1 DEF SendControl, TypeOK, ShapeOK
<1>10. CASE ControlDrained
  BY <1>10, GoToType DEF ControlDrained
<1>11. CASE SendRequest
  <2>1. Head(queue) \in Payload /\ queue' \in Seq(Payload)
    BY <1>11 DEF SendRequest, TypeOK
  <2>2. Head(queue).id \in Requests
    BY <1>11, <2>1 DEF SendRequest, IsPresignRequest, Payload, Tick
  <2>3. outgoing' \in ControlMessage
    BY <1>11, <2>2 DEF SendRequest, ControlMessage, Msg
  <2>4. phase' \in [Requests -> Phases] /\ pendingUploads' \in Nat
    <3>1. Cardinality(tracked \cup {Head(queue).id}) \in Nat
      BY <2>2, TrackedCount DEF TypeOK
    <3> QED
      BY <1>11, <2>2, <3>1 DEF SendRequest, TypeOK, Phases
  <2>5. CASE TracksPath(Head(queue))
    <3>1. PICK q \in Requests : /\ tracked' = tracked \cup {q}
                              /\ attempts' = [attempts EXCEPT ![q] = 0]
      BY <1>11, <2>2, <2>5 DEF SendRequest
    <3>2. 0 \in 0..(MaxRetries + 1) /\ 0 <= MaxRetries
      BY RetriesAssumption
    <3>3. tracked' \subseteq Requests /\ attempts' \in [Requests -> 0..(MaxRetries + 1)]
      BY <3>1, <3>2 DEF TypeOK
    <3>4. \A r \in tracked' : attempts'[r] <= MaxRetries
      BY <3>1, <3>2 DEF TypeOK, ShapeOK
    <3> QED
      BY <1>11, <2>1, <2>3, <2>4, <3>3, <3>4 DEF SendRequest, TypeOK, ShapeOK
  <2>6. CASE ~TracksPath(Head(queue))
    BY <1>11, <2>1, <2>3, <2>6 DEF SendRequest, TypeOK, ShapeOK
  <2> QED
    BY <2>5, <2>6
<1>12. CASE SkipRequest
  <2>1. Head(queue) \in Payload /\ queue' \in Seq(Payload)
    BY <1>12 DEF SkipRequest, TypeOK
  <2>2. Head(queue).id \in Requests
    BY <1>12, <2>1 DEF SkipRequest, IsPresignRequest, Payload, Tick
  <2>3. outcome' \in [Requests -> Outcomes] /\ stalled' \subseteq Requests
    BY <1>12, <2>2 DEF SkipRequest, TypeOK, Outcomes
  <2> QED
    BY <1>12, <2>1, <2>3 DEF SkipRequest, TypeOK, ShapeOK
<1>13. CASE SendTick
  <2>1. queue' \in Seq(Payload)
    BY <1>13 DEF SendTick, TypeOK
  <2> QED
    BY <1>13, <2>1 DEF SendTick, TypeOK, ShapeOK
<1>14. CASE QueueEmpty
  BY <1>14, GoToType DEF QueueEmpty
<1>15. CASE WriteDone
  <2>1. outgoing.type = "request" => outgoing.id \in Requests
    BY DEF TypeOK, ControlMessage, TickMessage, NoMessage, Msg
  <2>2. stalled' \subseteq Requests
    BY <1>15 DEF WriteDone, TypeOK
  <2>3. awaiting' \in [Requests -> Nat]
    <3>1. CASE outgoing.type = "request" /\ link = "up"
      <4>1. PICK q \in Requests : awaiting' = [awaiting EXCEPT ![q] = @ + 1]
        BY <1>15, <2>1, <3>1 DEF WriteDone
      <4> QED
        BY <4>1 DEF TypeOK
    <3>2. CASE ~(outgoing.type = "request" /\ link = "up")
      BY <1>15, <3>2 DEF WriteDone, TypeOK
    <3> QED
      BY <3>1, <3>2
  <2> QED
    BY <1>15, <2>2, <2>3 DEF WriteDone, TypeOK, ShapeOK
<1>16. CASE WriteFails
  BY <1>16, LeaveLoopType DEF WriteFails, TypeOK
<1> QED
  BY <1>1, <1>2, <1>3, <1>4, <1>5, <1>6, <1>7, <1>8, <1>9, <1>10, <1>11, <1>12,
     <1>13, <1>14, <1>15, <1>16

(* Reaching an await leaves the receive task in a legal stage. *)
LEMMA AwaitType ==
  ASSUME TypeOK, NEW stage \in RecvStages, NEW r \in Ids, Await(stage, r),
         stage \notin {"absent", "reading"} => r \in Requests
  PROVE  /\ recvPc' \in RecvStages /\ recvId' \in Ids /\ aborted' \in BOOLEAN
         /\ recvPc' \notin {"absent", "reading"} => recvId' \in Requests
BY DEF Await, TypeOK, RecvStages, RecvAwaits, Ids

LEMMA HeadAnswer ==
  ASSUME TypeOK, inbox # <<>>
  PROVE  Head(inbox).id \in Requests /\ Tail(inbox) \in Seq(Answer)
<1>1. Head(inbox) \in Answer
  BY DEF TypeOK
<1> QED
  BY <1>1 DEF Answer, TypeOK

LEMMA ReceiveType ==
  ASSUME TypeOK, ShapeOK, ReceiveTask
  PROVE  TypeOK' /\ ShapeOK'
<1>0. "reading" \in RecvStages /\ NoRequest \in Ids /\ Requests \subseteq Ids
  BY DEF RecvStages, RecvAwaits, Ids
<1>1. CASE ReceiveEnds
  BY <1>1 DEF ReceiveEnds, TypeOK, ShapeOK, RecvStages
<1>2. CASE ReadResponse
  BY <1>2, HeadAnswer, <1>0 DEF ReadResponse, TypeOK, ShapeOK, RecvStages
<1>3. CASE BeginUpload
  <2>1. recvId \in Requests
    BY <1>3 DEF BeginUpload, ShapeOK
  <2>2. /\ recvPc' \in RecvStages /\ recvId' \in Ids /\ aborted' \in BOOLEAN
        /\ recvPc' \notin {"absent", "reading"} => recvId' \in Requests
    BY <1>3, <2>1, <1>0, AwaitType DEF BeginUpload, RecvStages, RecvAwaits
  <2>3. phase' \in [Requests -> Phases] /\ stalled' \subseteq Requests
    BY <1>3, <2>1 DEF BeginUpload, TypeOK, Phases
  <2> QED
    BY <1>3, <2>2, <2>3 DEF BeginUpload, TypeOK, ShapeOK
<1>4. CASE ReadPresignError
  <2>1. phase' \in [Requests -> Phases] /\ stalled' \subseteq Requests
    BY <1>4, HeadAnswer DEF ReadPresignError, TypeOK, Phases
  <2> QED
    BY <1>4, <2>1, HeadAnswer DEF ReadPresignError, TypeOK, ShapeOK
<1>5. CASE ReadBadKey
  BY <1>5, HeadAnswer DEF ReadBadKey, TypeOK, ShapeOK
<1>6. CASE StoreAccepts
  BY <1>6 DEF StoreAccepts, TypeOK, ShapeOK, RecvStages, RecvAwaits
<1>7. CASE PutSucceeds
  BY <1>7 DEF PutSucceeds, TypeOK, ShapeOK, RecvStages
<1>8. CASE PutFails
  BY <1>8 DEF PutFails, TypeOK, ShapeOK, RecvStages
<1>9. CASE Announce
  <2>1. recvId \in Requests
    BY <1>9 DEF Announce, ShapeOK
  <2>2. control' \in Seq(ControlMessage) /\ announced' \subseteq Requests
    <3>1. Msg("uploaded", recvId) \in ControlMessage
      BY <2>1 DEF ControlMessage, Msg
    <3>2. Append(control, Msg("uploaded", recvId)) \in Seq(ControlMessage)
      BY <3>1 DEF TypeOK
    <3> QED
      BY <1>9, <2>1, <3>2 DEF Announce, TypeOK
  <2>3. /\ recvPc' \in RecvStages /\ recvId' \in Ids /\ aborted' \in BOOLEAN
        /\ recvPc' \notin {"absent", "reading"} => recvId' \in Requests
    <3>1. CASE ControlOpen
      BY <1>9, <3>1, <2>1 DEF Announce, TypeOK, RecvStages
    <3>2. CASE ~ControlOpen
      BY <1>9, <3>2, <1>0, AwaitType DEF Announce
    <3> QED
      BY <3>1, <3>2
  <2> QED
    BY <1>9, <2>2, <2>3 DEF Announce, TypeOK, ShapeOK
<1>10. CASE ForgetUploaded
  <2>1. recvId \in Requests
    BY <1>10 DEF ForgetUploaded, ShapeOK
  <2>2. outcome' \in [Requests -> Outcomes]
    BY <1>10, <2>1 DEF ForgetUploaded, Untrack, TypeOK, Outcomes
  <2> QED
    BY <1>10, <2>1, <2>2 DEF ForgetUploaded, Untrack, TypeOK, ShapeOK, RecvStages
<1>11. CASE ChargeAttempt
  <2>1. recvId \in Requests
    BY <1>11 DEF ChargeAttempt, ShapeOK
  <2>2. outcome' \in [Requests -> Outcomes]
    BY <1>11, <2>1 DEF ChargeAttempt, Untrack, TypeOK, Outcomes
  <2>3. attempts' \in [Requests -> 0..(MaxRetries + 1)]
    <3>1. CASE recvId \in tracked
      <4>1. attempts[recvId] + 1 \in 0..(MaxRetries + 1)
        BY <2>1, <3>1, RetriesAssumption DEF TypeOK, ShapeOK
      <4>2. attempts' = [attempts EXCEPT ![recvId] = attempts[recvId] + 1]
        BY <1>11, <3>1 DEF ChargeAttempt
      <4> QED
        BY <4>1, <4>2 DEF TypeOK
    <3>2. CASE recvId \notin tracked
      BY <1>11, <3>2 DEF ChargeAttempt, TypeOK
    <3> QED
      BY <3>1, <3>2
  <2>4. tracked' \subseteq tracked /\ recvPc' \in RecvStages
    BY <1>11 DEF ChargeAttempt, Untrack, RecvStages
  <2>5. ASSUME NEW r \in tracked'
        PROVE  attempts'[r] <= MaxRetries
    BY <1>11, <2>1, RetriesAssumption
       DEF ChargeAttempt, Untrack, RetriesLeft, TypeOK, ShapeOK
  <2> QED
    BY <1>11, <2>1, <2>2, <2>3, <2>4, <2>5 DEF ChargeAttempt, TypeOK, ShapeOK
<1>12. CASE MarkRetrying
  <2>1. recvId \in Requests
    BY <1>12 DEF MarkRetrying, ShapeOK
  <2>2. /\ recvPc' \in RecvStages /\ recvId' \in Ids /\ aborted' \in BOOLEAN
        /\ recvPc' \notin {"absent", "reading"} => recvId' \in Requests
    BY <1>12, <2>1, <1>0, AwaitType DEF MarkRetrying, RecvStages, RecvAwaits
  <2>3. phase' \in [Requests -> Phases]
    BY <1>12, <2>1 DEF MarkRetrying, TypeOK, Phases
  <2> QED
    BY <1>12, <2>2, <2>3 DEF MarkRetrying, TypeOK, ShapeOK
<1>13. CASE Resend
  <2>1. recvId \in Requests
    BY <1>13 DEF Resend, ShapeOK
  <2>2. control' \in Seq(ControlMessage)
    <3>1. Msg("request", recvId) \in ControlMessage
      BY <2>1 DEF ControlMessage, Msg
    <3>2. Append(control, Msg("request", recvId)) \in Seq(ControlMessage)
      BY <3>1 DEF TypeOK
    <3> QED
      BY <1>13, <3>2 DEF Resend, TypeOK
  <2>3. /\ recvPc' \in RecvStages /\ recvId' \in Ids /\ aborted' \in BOOLEAN
        /\ recvPc' \notin {"absent", "reading"} => recvId' \in Requests
    BY <1>13, <1>0, AwaitType DEF Resend
  <2> QED
    BY <1>13, <2>2, <2>3 DEF Resend, TypeOK, ShapeOK
<1>14. CASE PublishOutcome
  <2>1. recvId \in Requests
    BY <1>14 DEF PublishOutcome, ShapeOK
  <2>2. pendingUploads' \in Nat /\ phase' \in [Requests -> Phases]
    BY <1>14, <2>1, TrackedCount DEF PublishOutcome, TypeOK, Phases
  <2>3. /\ recvPc' \in RecvStages /\ recvId' \in Ids /\ aborted' \in BOOLEAN
        /\ recvPc' \notin {"absent", "reading"} => recvId' \in Requests
    BY <1>14, <1>0, AwaitType DEF PublishOutcome
  <2> QED
    BY <1>14, <2>2, <2>3 DEF PublishOutcome, TypeOK, ShapeOK
<1> QED
  BY <1>1, <1>2, <1>3, <1>4, <1>5, <1>6, <1>7, <1>8, <1>9, <1>10, <1>11, <1>12,
     <1>13, <1>14 DEF ReceiveTask

LEMMA TypeStep ==
  ASSUME TypeOK, ShapeOK, [Next]_vars
  PROVE  TypeOK' /\ ShapeOK'
<1>1. CASE Environment
  BY <1>1, EnvironmentType
<1>2. CASE RelayTask
  BY <1>2, ConnectionType, SendLoopType DEF RelayTask
<1>3. CASE ReceiveTask
  BY <1>3, ReceiveType
<1>4. CASE UNCHANGED vars
  BY <1>4 DEF vars, TypeOK, ShapeOK
<1> QED
  BY <1>1, <1>2, <1>3, <1>4 DEF Next

(* Every variable keeps its type, for any number of requests, retries and    *)
(* faults.                                                                   *)
THEOREM TypeCorrect == Spec => []TypeOK
<1>1. TypeOK /\ ShapeOK /\ [Next]_vars => TypeOK' /\ ShapeOK'
  BY TypeStep
<1> QED
  BY TypeInit, <1>1, PTL DEF Spec

-----------------------------------------------------------------------------
(* Sequences of payloads *)

(* Payloads with a path, in a queue grown by one.  *)
LEMMA AppendPayload ==
  ASSUME NEW q \in Seq(Payload), NEW p \in Payload
  PROVE  /\ \A r \in Requests :
              FirstIn(Append(q, p), r) <=> FirstIn(q, r) \/ p = FirstRequest(r)
         /\ UniquePaths(q) /\ (p.path => ~FirstIn(q, p.id)) => UniquePaths(Append(q, p))
         /\ IdsOf(q) \subseteq IdsOf(Append(q, p))
         /\ p.id # NoRequest => p.id \in IdsOf(Append(q, p))
<1> DEFINE s == Append(q, p)
<1>1. /\ Len(s) = Len(q) + 1 /\ s[Len(q) + 1] = p /\ Len(q) \in Nat
      /\ \A i \in 1..Len(q) : s[i] = q[i]
  OBVIOUS
<1> HIDE DEF s
<1>2. ASSUME NEW r \in Requests
      PROVE  FirstIn(s, r) <=> FirstIn(q, r) \/ p = FirstRequest(r)
  BY <1>1 DEF FirstIn
<1>3. ASSUME UniquePaths(q), p.path => ~FirstIn(q, p.id)
      PROVE  UniquePaths(s)
  <2>1. p.path => p = FirstRequest(p.id)
    BY DEF Payload, Tick, FirstRequest
  <2>2. \A i \in 1..Len(q) : p.path => q[i] # p
    BY <1>3, <2>1 DEF FirstIn
  <2> QED
    BY <1>1, <1>3, <2>2 DEF UniquePaths
<1>4. IdsOf(q) \subseteq IdsOf(s) /\ (p.id # NoRequest => p.id \in IdsOf(s))
  BY <1>1 DEF IdsOf
<1> QED
  BY <1>2, <1>3, <1>4 DEF s

(* Payloads with a path, in a queue that lost its head. *)
LEMMA TailPayload ==
  ASSUME NEW q \in Seq(Payload), q # <<>>
  PROVE  /\ \A r \in Requests :
              FirstIn(q, r) <=> FirstIn(Tail(q), r) \/ Head(q) = FirstRequest(r)
         /\ UniquePaths(q) => UniquePaths(Tail(q))
         /\ \A r \in Requests :
              UniquePaths(q) /\ Head(q) = FirstRequest(r) => ~FirstIn(Tail(q), r)
<1> DEFINE t == Tail(q)
<1>1. /\ Len(q) \in Nat \ {0} /\ Len(t) = Len(q) - 1 /\ Head(q) = q[1]
      /\ \A i \in 1..Len(t) : t[i] = q[i + 1]
  OBVIOUS
<1> HIDE DEF t
<1>2. \A i \in 1..Len(t) : i + 1 \in 1..Len(q) /\ i + 1 # 1
  BY <1>1
<1>3. \A j \in 1..Len(q) : j # 1 => j - 1 \in 1..Len(t) /\ t[j - 1] = q[j]
  BY <1>1
<1>4. ASSUME NEW r \in Requests
      PROVE  FirstIn(q, r) <=> FirstIn(t, r) \/ Head(q) = FirstRequest(r)
  <2>1. FirstIn(q, r) => FirstIn(t, r) \/ Head(q) = FirstRequest(r)
    BY <1>1, <1>3 DEF FirstIn
  <2>2. FirstIn(t, r) => FirstIn(q, r)
    BY <1>1, <1>2 DEF FirstIn
  <2>3. Head(q) = FirstRequest(r) => FirstIn(q, r)
    BY <1>1 DEF FirstIn
  <2> QED
    BY <2>1, <2>2, <2>3
<1>5. UniquePaths(q) => UniquePaths(t)
  BY <1>1, <1>2 DEF UniquePaths
<1>6. ASSUME NEW r \in Requests, UniquePaths(q), Head(q) = FirstRequest(r)
      PROVE  ~FirstIn(t, r)
  <2>1. q[1].path /\ 1 \in 1..Len(q)
    BY <1>1, <1>6 DEF FirstRequest
  <2>2. ASSUME NEW i \in 1..Len(t), t[i] = FirstRequest(r)
        PROVE  FALSE
    <3>1. q[i + 1] = q[1]
      BY <1>1, <1>6, <2>2
    <3> QED
      BY <1>2, <1>6, <2>1, <3>1 DEF UniquePaths
  <2> QED
    BY <2>2 DEF FirstIn
<1> QED
  BY <1>4, <1>5, <1>6 DEF t

-----------------------------------------------------------------------------
(* No accepted upload is lost *)

LossInv == NoLostUpload /\ PathsOnce /\ FreshUncharged

(* What a payload at the head of the queue can be. *)
LEMMA HeadPayload ==
  ASSUME TypeOK, queue # <<>>
  PROVE  /\ Head(queue) \in Payload /\ Tail(queue) \in Seq(Payload)
         /\ IsPresignRequest(Head(queue)) => Head(queue).id \in Requests
         /\ Head(queue).path => Head(queue) = FirstRequest(Head(queue).id)
         /\ \A r \in Requests : ~Head(queue).path => Head(queue) # FirstRequest(r)
         /\ ~IsPresignRequest(Head(queue)) => ~Head(queue).path
<1>1. Head(queue) \in Payload /\ Tail(queue) \in Seq(Payload)
  BY DEF TypeOK
<1> QED
  BY <1>1, NoRequestAssumption DEF Payload, Tick, FirstRequest, IsPresignRequest

(* Taking a payload without a path off or putting one on the queue.  *)
LEMMA PathlessSteps ==
  ASSUME TypeOK, LossInv, UNCHANGED <<retained, tracked, outcome, attempts>>,
         \/ queue # <<>> /\ ~Head(queue).path /\ queue' = Tail(queue)
         \/ \E p \in Payload : ~p.path /\ queue' = Append(queue, p)
  PROVE  LossInv'
<1>1. /\ \A r \in Requests : FirstIn(queue', r) <=> FirstIn(queue, r)
      /\ UniquePaths(queue')
  <2>1. CASE queue # <<>> /\ ~Head(queue).path /\ queue' = Tail(queue)
    BY <2>1, HeadPayload, TailPayload DEF TypeOK, LossInv, PathsOnce
  <2>2. ASSUME NEW p \in Payload, ~p.path, queue' = Append(queue, p)
        PROVE  /\ \A r \in Requests : FirstIn(queue', r) <=> FirstIn(queue, r)
               /\ UniquePaths(queue')
    <3>1. \A r \in Requests : p # FirstRequest(r)
      BY <2>2 DEF FirstRequest
    <3> QED
      BY <2>2, <3>1, AppendPayload DEF TypeOK, LossInv, PathsOnce
  <2> QED
    BY <2>1, <2>2
<1>2. \A r \in Requests : FirstRequestWaits(r)' <=> FirstRequestWaits(r)
  BY <1>1 DEF FirstRequestWaits, FirstIn
<1>3. PathsOnce'
  BY <1>1 DEF LossInv, PathsOnce, FirstIn, UniquePaths
<1> QED
  BY <1>2, <1>3 DEF LossInv, NoLostUpload, FreshUncharged

(* Closing an upload that is tracked, or charging it a failure.  *)
LEMMA TrackedSteps ==
  ASSUME TypeOK, LossInv, UNCHANGED <<queue, retained>>, NEW r \in Requests,
         NEW how \in Outcomes \ {"new", "open"},
         Untrack(r, how) \/ UNCHANGED <<tracked, outcome>>,
         \/ UNCHANGED attempts
         \/ r \in tracked /\ attempts' = [attempts EXCEPT ![r] = @ + 1]
  PROVE  LossInv'
<1>1. \A q \in Requests : FirstRequestWaits(q)' <=> FirstRequestWaits(q)
  BY DEF FirstRequestWaits, FirstIn
<1>2. PathsOnce'
  BY DEF LossInv, PathsOnce, FirstIn, UniquePaths
<1>3. NoLostUpload'
  BY <1>1 DEF LossInv, NoLostUpload, Untrack, TypeOK
<1>4. FreshUncharged'
  <2> SUFFICES ASSUME NEW q \in Requests, outcome'[q] = "new" \/ FirstRequestWaits(q)'
               PROVE  attempts'[q] = 0
    BY DEF FreshUncharged
  <2>1. outcome[q] = "new" \/ FirstRequestWaits(q)
    BY <1>1 DEF Untrack, TypeOK
  <2>2. q \notin tracked
    BY <2>1 DEF LossInv, NoLostUpload
  <2> QED
    BY <2>1, <2>2 DEF LossInv, FreshUncharged, TypeOK
<1> QED
  BY <1>2, <1>3, <1>4 DEF LossInv

LEMMA EnqueueUploadLoss ==
  ASSUME TypeOK, LossInv, NEW r \in Requests, EnqueueUpload(r)
  PROVE  LossInv'
<1>1. FirstRequest(r) \in Payload /\ FirstRequest(r).path /\ FirstRequest(r).id = r
  BY DEF FirstRequest, Payload
<1>2. ~FirstRequestWaits(r) /\ r \notin tracked /\ attempts[r] = 0
  BY DEF EnqueueUpload, LossInv, NoLostUpload, FreshUncharged
<1>3. /\ \A q \in Requests : FirstIn(queue', q) <=> FirstIn(queue, q) \/ q = r
      /\ UniquePaths(queue')
  <2>1. \A q \in Requests : FirstRequest(r) = FirstRequest(q) <=> q = r
    BY DEF FirstRequest
  <2> QED
    BY <1>1, <1>2, <2>1, AppendPayload
       DEF EnqueueUpload, TypeOK, LossInv, PathsOnce, FirstRequestWaits
<1>4. \A q \in Requests : FirstRequestWaits(q)' <=> FirstRequestWaits(q) \/ q = r
  BY <1>3 DEF EnqueueUpload, FirstRequestWaits, FirstIn
<1>5. PathsOnce'
  BY <1>2, <1>3 DEF EnqueueUpload, LossInv, PathsOnce, FirstRequestWaits, FirstIn,
                    UniquePaths
<1>6. NoLostUpload'
  BY <1>2, <1>4 DEF EnqueueUpload, LossInv, NoLostUpload, TypeOK
<1>7. FreshUncharged'
  BY <1>2, <1>4 DEF EnqueueUpload, LossInv, FreshUncharged, TypeOK
<1> QED
  BY <1>5, <1>6, <1>7 DEF LossInv

LEMMA FlushLoss ==
  ASSUME TypeOK, LossInv, FlushOne \/ ResendRetained
  PROVE  LossInv'
<1>1. /\ \A r \in Requests : FirstRequestWaits(r)' <=> FirstRequestWaits(r)
      /\ PathsOnce'
  <2>1. CASE FlushOne /\ IsPresignRequest(Head(queue))
    <3>1. /\ Head(queue) \in Payload /\ queue # <<>>
          /\ queue' = Tail(queue) /\ retained' = Append(retained, Head(queue))
      BY <2>1, HeadPayload DEF FlushOne, KeepRequest
    <3>2. Head(queue).path => ~FirstIn(retained, Head(queue).id)
      BY <2>1, <3>1, HeadPayload, TailPayload DEF LossInv, PathsOnce, TypeOK
    <3>3. UniquePaths(queue') /\ UniquePaths(retained')
      BY <3>1, <3>2, TailPayload, AppendPayload DEF LossInv, PathsOnce, TypeOK
    <3>4. \A r \in Requests :
            /\ FirstIn(queue, r) <=> FirstIn(queue', r) \/ Head(queue) = FirstRequest(r)
            /\ FirstIn(retained', r) <=> FirstIn(retained, r) \/ Head(queue) = FirstRequest(r)
            /\ Head(queue) = FirstRequest(r) => ~FirstIn(queue', r)
      BY <3>1, TailPayload, AppendPayload DEF LossInv, PathsOnce, TypeOK
    <3>5. \A r \in Requests : ~(FirstIn(queue', r) /\ FirstIn(retained', r))
      BY <3>4 DEF LossInv, PathsOnce
    <3> QED
      BY <3>3, <3>4, <3>5 DEF FirstRequestWaits, PathsOnce, FirstIn, UniquePaths
  <2>2. CASE FlushOne /\ ~IsPresignRequest(Head(queue))
    <3>1. /\ queue # <<>> /\ queue' = Tail(queue) /\ retained' = retained
          /\ ~Head(queue).path
      BY <2>2, HeadPayload DEF FlushOne, KeepRequest
    <3>2. /\ \A r \in Requests : FirstIn(queue', r) <=> FirstIn(queue, r)
          /\ UniquePaths(queue')
      BY <3>1, HeadPayload, TailPayload DEF TypeOK, LossInv, PathsOnce
    <3> QED
      BY <3>1, <3>2 DEF LossInv, FirstRequestWaits, PathsOnce, FirstIn, UniquePaths
  <2>3. CASE ResendRetained
    <3>1. \A r \in Requests : ~FirstIn(<<>>, r)
      BY DEF FirstIn
    <3>2. UniquePaths(<<>>)
      BY DEF UniquePaths
    <3>3. queue = <<>> /\ queue' = retained /\ retained' = <<>>
      BY <2>3 DEF ResendRetained
    <3>4. UniquePaths(queue') /\ UniquePaths(retained')
      BY <3>2, <3>3 DEF LossInv, PathsOnce
    <3>5. \A r \in Requests :
            /\ ~FirstIn(retained', r) /\ ~FirstIn(queue, r)
            /\ FirstIn(queue', r) <=> FirstIn(retained, r)
      BY <3>1, <3>3
    <3> QED
      BY <3>4, <3>5 DEF FirstRequestWaits, PathsOnce, FirstIn, UniquePaths
  <2> QED
    BY <2>1, <2>2, <2>3
<1>2. UNCHANGED <<tracked, outcome, attempts>>
  BY DEF FlushOne, ResendRetained
<1> QED
  BY <1>1, <1>2 DEF LossInv, NoLostUpload, FreshUncharged

(* Taking a first request off the queue: it is tracked, or skipped. *)
LEMMA TakeFirstLoss ==
  ASSUME TypeOK, LossInv, SendRequest \/ SkipRequest, Head(queue).path
  PROVE  LossInv'
<1> DEFINE r == Head(queue).id
<1>1. /\ queue # <<>> /\ queue' = Tail(queue) /\ retained' = retained
      /\ r \in Requests /\ Head(queue) = FirstRequest(r)
  BY HeadPayload DEF SendRequest, SkipRequest
<1>2. \/ /\ tracked' = tracked \cup {r} /\ attempts' = [attempts EXCEPT ![r] = 0]
         /\ outcome' = outcome
      \/ /\ outcome' = [outcome EXCEPT ![r] = "skipped"] /\ UNCHANGED <<tracked, attempts>>
  BY DEF SendRequest, SkipRequest, TracksPath
<1> HIDE DEF r
<1>3. \A q \in Requests : Head(queue) = FirstRequest(q) <=> q = r
  BY <1>1 DEF FirstRequest
<1>4. /\ \A q \in Requests : FirstIn(queue, q) <=> FirstIn(queue', q) \/ q = r
      /\ UniquePaths(queue') /\ ~FirstIn(queue', r)
  BY <1>1, <1>3, TailPayload DEF TypeOK, LossInv, PathsOnce
<1>5. /\ outcome[r] = "open" /\ r \notin tracked /\ attempts[r] = 0
      /\ ~FirstIn(retained, r)
  BY <1>1, <1>4 DEF LossInv, NoLostUpload, PathsOnce, FreshUncharged, FirstRequestWaits
<1>6. \A q \in Requests : FirstRequestWaits(q)' <=> FirstRequestWaits(q) /\ q # r
  BY <1>1, <1>4, <1>5 DEF FirstRequestWaits, FirstIn
<1>7. PathsOnce'
  BY <1>1, <1>4, <1>5 DEF LossInv, PathsOnce, FirstIn, UniquePaths
<1>8. NoLostUpload' /\ FreshUncharged'
  BY <1>1, <1>2, <1>5, <1>6 DEF LossInv, NoLostUpload, FreshUncharged, TypeOK
<1> QED
  BY <1>7, <1>8 DEF LossInv

LEMMA LossFrame ==
  ASSUME LossInv, UNCHANGED <<queue, retained, tracked, outcome, attempts>>
  PROVE  LossInv'
BY DEF LossInv, NoLostUpload, PathsOnce, FreshUncharged, FirstRequestWaits, FirstIn,
       UniquePaths

LEMMA LossStep ==
  ASSUME TypeOK, ShapeOK, LossInv, [Next]_vars
  PROVE  LossInv'
<1>1. CASE Environment
  <2>1. CASE \E r \in Requests : EnqueueUpload(r)
    BY <2>1, EnqueueUploadLoss
  <2>2. CASE EnqueueTick
    BY <2>2, PathlessSteps DEF EnqueueTick, Payload, Tick
  <2>3. CASE \/ ToggleUploads \/ RequestShutdown \/ LinkBreaks \/ LinkDrops
             \/ \E c \in Command : IssueCommand(c)
             \/ \E r \in Requests, kind \in Answers : ServerAnswers(r, kind)
    <3>1. UNCHANGED <<queue, retained, tracked, outcome, attempts>>
      BY <2>3 DEF ToggleUploads, RequestShutdown, LinkBreaks, LinkDrops, IssueCommand,
                  ServerAnswers
    <3> QED
      BY <3>1, LossFrame
  <2> QED
    BY <1>1, <2>1, <2>2, <2>3 DEF Environment
<1>2. CASE RelayTask
  <2>1. CASE FlushOne \/ ResendRetained
    BY <2>1, FlushLoss
  <2>2. CASE \E r \in Requests : RequeueOne(r)
    <3>1. PICK r \in Requests : RequeueOne(r)
      BY <2>2
    <3>2. StoredPayload(r) \in Payload /\ ~StoredPayload(r).path
      BY DEF StoredPayload, Payload
    <3>3. UNCHANGED <<retained, tracked, outcome, attempts>>
      BY <3>1 DEF RequeueOne
    <3> QED
      BY <3>1, <3>2, <3>3, PathlessSteps DEF RequeueOne
  <2>3. CASE CancelUpload
    <3>1. Head(commands).id \in Requests
      BY <2>3, HeadCommand DEF CancelUpload
    <3> QED
      BY <2>3, <3>1, TrackedSteps DEF CancelUpload, Outcomes
  <2>4. CASE (SendRequest \/ SkipRequest) /\ Head(queue).path
    BY <2>4, TakeFirstLoss
  <2>5. CASE (SendRequest \/ SkipRequest \/ SendTick) /\ ~Head(queue).path
    <3>1. /\ queue # <<>> /\ queue' = Tail(queue)
          /\ UNCHANGED <<retained, tracked, outcome, attempts>>
      BY <2>5 DEF SendRequest, SkipRequest, SendTick, TracksPath
    <3> QED
      BY <2>5, <3>1, PathlessSteps
  <2>6. CASE SendTick
    <3>1. ~Head(queue).path
      BY <2>6, HeadPayload DEF SendTick
    <3> QED
      BY <2>5, <2>6, <3>1
  <2>7. CASE \/ Connected \/ ConnectFails \/ EnterSendLoop \/ StopAtShutdown
             \/ AbortReceiveTask \/ BeginFlush \/ StartBackoff \/ BackoffElapsed
             \/ LoopBegins \/ LoopShutdown \/ ReconnectNow \/ RetryUpload \/ SendRetry
             \/ PublishCancel \/ CommandsDrained \/ SendControl \/ ControlDrained
             \/ QueueEmpty \/ WriteDone \/ WriteFails
    <3>1. UNCHANGED <<queue, retained, tracked, outcome, attempts>>
      BY <2>7 DEF Connected, ConnectFails, EnterSendLoop, StopAtShutdown,
                  AbortReceiveTask, BeginFlush, StartBackoff, BackoffElapsed,
                  LoopBegins, LoopShutdown, ReconnectNow, RetryUpload, SendRetry,
                  PublishCancel, CommandsDrained, SendControl, ControlDrained,
                  QueueEmpty, WriteDone, WriteFails, GoTo, LeaveLoop
    <3> QED
      BY <3>1, LossFrame
  <2> QED
    BY <1>2, <2>1, <2>2, <2>3, <2>4, <2>5, <2>6, <2>7 DEF RelayTask
<1>3. CASE ReceiveTask
  <2>1. CASE ForgetUploaded
    BY <2>1, TrackedSteps DEF ForgetUploaded, ShapeOK, Outcomes
  <2>2. CASE ChargeAttempt
    BY <2>2, TrackedSteps DEF ChargeAttempt, ShapeOK, Outcomes
  <2>3. CASE \/ ReceiveEnds \/ ReadResponse \/ BeginUpload \/ ReadPresignError
             \/ ReadBadKey \/ StoreAccepts \/ PutSucceeds \/ PutFails \/ Announce
             \/ MarkRetrying \/ Resend \/ PublishOutcome
    <3>1. UNCHANGED <<queue, retained, tracked, outcome, attempts>>
      BY <2>3 DEF ReceiveEnds, ReadResponse, BeginUpload, ReadPresignError, ReadBadKey,
                  StoreAccepts, PutSucceeds, PutFails, Announce, MarkRetrying, Resend,
                  PublishOutcome
    <3> QED
      BY <3>1, LossFrame
  <2> QED
    BY <1>3, <2>1, <2>2, <2>3 DEF ReceiveTask
<1>4. CASE UNCHANGED vars
  BY <1>4, LossFrame DEF vars
<1> QED
  BY <1>1, <1>2, <1>3, <1>4 DEF Next

LEMMA LossInit == Init => LossInv
<1> SUFFICES ASSUME Init PROVE LossInv
  OBVIOUS
<1>1. \A r \in Requests : ~FirstIn(queue, r) /\ ~FirstIn(retained, r)
  BY DEF Init, FirstIn
<1>2. PathsOnce
  BY <1>1 DEF Init, PathsOnce, UniquePaths
<1> QED
  BY <1>1, <1>2 DEF Init, LossInv, NoLostUpload, FreshUncharged, FirstRequestWaits

(* No accepted upload is ever lost or held twice: broken connections, the    *)
(* flush of stale messages, retries and cancellations leave each open        *)
(* request in exactly one place.                                             *)
THEOREM NothingLost == Spec => []NoLostUpload
<1>1. Init => TypeOK /\ ShapeOK /\ LossInv
  BY TypeInit, LossInit
<1>2. TypeOK /\ ShapeOK /\ LossInv /\ [Next]_vars => (TypeOK /\ ShapeOK /\ LossInv)'
  BY TypeStep, LossStep
<1>3. LossInv => NoLostUpload
  BY DEF LossInv
<1> QED
  BY <1>1, <1>2, <1>3, PTL DEF Spec

-----------------------------------------------------------------------------
(* A reconnect resumes every tracked upload *)

ResumeInv == ReadyToResume /\ Requeueing

(* Nobody but the reconnect path and the send loop takes from the queue or *)
(* adds to replay_uploads.                                                 *)
LEMMA ResumeFrame ==
  ASSUME ResumeInv, UNCHANGED <<pc, pendingRequeue>>, tracked' \subseteq tracked,
         IdsOf(queue) \subseteq IdsOf(queue')
  PROVE  ResumeInv'
BY DEF ResumeInv, ReadyToResume, Requeueing, IdsOf

LEMMA ResumeAppend ==
  ASSUME TypeOK, NEW p \in Payload, queue' = Append(queue, p)
  PROVE  IdsOf(queue) \subseteq IdsOf(queue') /\ (p.id # NoRequest => p.id \in IdsOf(queue'))
BY AppendPayload DEF TypeOK

LEMMA ResumeStep ==
  ASSUME TypeOK, ResumeInv, [Next]_vars
  PROVE  ResumeInv'
<1>1. CASE Environment
  <2>1. CASE \E r \in Requests : EnqueueUpload(r)
    BY <2>1, ResumeAppend, ResumeFrame DEF EnqueueUpload, FirstRequest, Payload
  <2>2. CASE EnqueueTick
    BY <2>2, ResumeAppend, ResumeFrame DEF EnqueueTick, Payload
  <2>3. CASE \/ ToggleUploads \/ RequestShutdown \/ LinkBreaks \/ LinkDrops
             \/ \E c \in Command : IssueCommand(c)
             \/ \E r \in Requests, kind \in Answers : ServerAnswers(r, kind)
    <3>1. UNCHANGED <<pc, pendingRequeue, tracked, queue>>
      BY <2>3 DEF ToggleUploads, RequestShutdown, LinkBreaks, LinkDrops, IssueCommand,
                  ServerAnswers
    <3> QED
      BY <3>1, ResumeFrame
  <2> QED
    BY <1>1, <2>1, <2>2, <2>3 DEF Environment
<1>2. CASE RelayTask
  <2>1. CASE Connected \/ BackoffElapsed
    BY <2>1 DEF Connected, BackoffElapsed, GoTo, ResumeInv, ReadyToResume, Requeueing, IdsOf
  <2>2. CASE ResendRetained
    <3>1. pc' = "requeue" /\ queue' = retained /\ pendingRequeue' = tracked \ IdsOf(retained)
          /\ tracked' = tracked
      BY <2>2 DEF ResendRetained, ToRequeue
    <3> QED
      BY <3>1 DEF ResumeInv, ReadyToResume, Requeueing, IdsOf
  <2>3. CASE \E r \in Requests : RequeueOne(r)
    <3>1. PICK r \in Requests : RequeueOne(r)
      BY <2>3
    <3>2. StoredPayload(r) \in Payload /\ StoredPayload(r).id = r /\ r # NoRequest
      BY NoRequestAssumption DEF StoredPayload, Payload
    <3>3. IdsOf(queue) \subseteq IdsOf(queue') /\ r \in IdsOf(queue')
      BY <3>1, <3>2, ResumeAppend DEF RequeueOne
    <3>4. /\ pc = "requeue" /\ pc' = "requeue" /\ tracked' = tracked
          /\ pendingRequeue' = pendingRequeue \ {r}
      BY <3>1 DEF RequeueOne
    <3>5. tracked' \subseteq pendingRequeue' \cup IdsOf(queue')
      BY <3>3, <3>4 DEF ResumeInv, Requeueing
    <3> QED
      BY <3>4, <3>5 DEF ResumeInv, ReadyToResume, Requeueing, IdsOf
  <2>4. CASE StartBackoff
    BY <2>4 DEF StartBackoff, ResumeInv, ReadyToResume, Requeueing, IdsOf
  <2>5. CASE WriteDone
    BY <2>5, ResumeFrame DEF WriteDone
  <2>6. CASE \/ ConnectFails \/ EnterSendLoop \/ StopAtShutdown \/ AbortReceiveTask
             \/ BeginFlush \/ FlushOne \/ LoopBegins \/ LoopShutdown \/ ReconnectNow
             \/ RetryUpload \/ SendRetry \/ CancelUpload \/ PublishCancel
             \/ CommandsDrained \/ SendControl \/ ControlDrained
             \/ SendRequest \/ SkipRequest \/ SendTick \/ QueueEmpty \/ WriteFails
    <3>1. pc' \notin {"requeue", "backoff", "connect", "welcome"}
      BY <2>6 DEF ConnectFails, EnterSendLoop, StopAtShutdown, AbortReceiveTask,
                  BeginFlush, FlushOne, LoopBegins, LoopShutdown, ReconnectNow,
                  RetryUpload, SendRetry, CancelUpload, PublishCancel, CommandsDrained,
                  SendControl, ControlDrained, SendRequest, SkipRequest, SendTick,
                  QueueEmpty, WriteFails, GoTo, LeaveLoop, InLoop
    <3> QED
      BY <3>1 DEF ResumeInv, ReadyToResume, Requeueing
  <2> QED
    BY <1>2, <2>1, <2>2, <2>3, <2>4, <2>5, <2>6 DEF RelayTask
<1>3. CASE ReceiveTask
  <2>1. UNCHANGED <<pc, pendingRequeue, queue>> /\ tracked' \subseteq tracked
    BY <1>3 DEF ReceiveTask, ReceiveEnds, ReadResponse, BeginUpload, ReadPresignError,
                ReadBadKey, StoreAccepts, PutSucceeds, PutFails, Announce,
                ForgetUploaded, ChargeAttempt, Untrack, MarkRetrying, Resend,
                PublishOutcome
  <2> QED
    BY <2>1, ResumeFrame
<1>4. CASE UNCHANGED vars
  BY <1>4, ResumeFrame DEF vars
<1> QED
  BY <1>1, <1>2, <1>3, <1>4 DEF Next

(* Before every connection each tracked upload waits in the relay queue to   *)
(* be asked for again, whatever the last connection was doing.               *)
THEOREM ReconnectResumes == Spec => []ReadyToResume
<1>1. Init => TypeOK /\ ShapeOK /\ ResumeInv
  BY TypeInit DEF Init, ResumeInv, ReadyToResume, Requeueing
<1>2. TypeOK /\ ShapeOK /\ ResumeInv /\ [Next]_vars => (TypeOK /\ ShapeOK /\ ResumeInv)'
  BY TypeStep, ResumeStep
<1>3. ResumeInv => ReadyToResume
  BY DEF ResumeInv
<1> QED
  BY <1>1, <1>2, <1>3, PTL DEF Spec

-----------------------------------------------------------------------------
(* What the receive task has done before it forgets an upload *)

TransferInv == UploadedIsAnnounced /\ TransferOK

(* Outcomes never go back to new, and no other task claims an upload.  *)
LEMMA TransferFrame ==
  ASSUME TypeOK, ShapeOK, TransferInv, stored \subseteq stored', announced \subseteq announced',
         \/ UNCHANGED <<recvPc, recvId>>
         \/ recvPc' \in {"absent", "reading"}
         \/ /\ recvId' = recvId /\ recvPc \notin {"absent", "reading"}
            /\ recvPc' \notin {"stored", "announce", "forget"},
         \A r \in Requests :
            outcome'[r] \in {outcome[r], "open", "cancelled", "failed", "skipped"}
  PROVE  TransferInv'
<1>1. UploadedIsAnnounced'
  BY DEF TransferInv, UploadedIsAnnounced
<1>2. TransferOK'
  BY DEF TransferInv, TransferOK, ShapeOK
<1> QED
  BY <1>1, <1>2 DEF TransferInv

LEMMA TransferStep ==
  ASSUME TypeOK, ShapeOK, LossInv, TransferInv, [Next]_vars
  PROVE  TransferInv'
<1>1. CASE Environment
  BY <1>1, TransferFrame
     DEF Environment, EnqueueUpload, EnqueueTick, IssueCommand, ToggleUploads,
         RequestShutdown, LinkBreaks, LinkDrops, ServerAnswers, TypeOK
<1>2. CASE RelayTask
  <2>1. CASE CancelUpload
    <3>1. Head(commands).id \in Requests
      BY <2>1, HeadCommand DEF CancelUpload
    <3> QED
      BY <2>1, <3>1, TransferFrame DEF CancelUpload, Untrack, TypeOK
  <2>2. CASE SkipRequest
    BY <2>2, TransferFrame DEF SkipRequest, TypeOK
  <2>3. CASE EnterSendLoop \/ AbortReceiveTask
    BY <2>3, TransferFrame DEF EnterSendLoop, AbortReceiveTask
  <2>4. CASE \/ Connected \/ ConnectFails \/ StopAtShutdown \/ BeginFlush \/ FlushOne
             \/ ResendRetained \/ (\E r \in Requests : RequeueOne(r))
             \/ StartBackoff \/ BackoffElapsed
             \/ LoopBegins \/ LoopShutdown \/ ReconnectNow \/ RetryUpload \/ SendRetry
             \/ PublishCancel \/ CommandsDrained \/ SendControl \/ ControlDrained
             \/ SendRequest \/ SendTick \/ QueueEmpty \/ WriteDone \/ WriteFails
    <3>1. UNCHANGED <<recvPc, recvId, outcome, stored, announced>>
      BY <2>4 DEF Connected, ConnectFails, StopAtShutdown, BeginFlush, FlushOne,
                  ResendRetained, RequeueOne, StartBackoff, BackoffElapsed, LoopBegins,
                  LoopShutdown, ReconnectNow, RetryUpload, SendRetry, PublishCancel,
                  CommandsDrained, SendControl, ControlDrained, SendRequest, SendTick,
                  QueueEmpty, WriteDone, WriteFails, GoTo, LeaveLoop
    <3> QED
      BY <3>1, TransferFrame
  <2> QED
    BY <1>2, <2>1, <2>2, <2>3, <2>4 DEF RelayTask
<1>3. CASE ReceiveTask
  <2>1. CASE ReadResponse
    <3>1. Head(inbox).id \in Requests
      BY <2>1, HeadAnswer DEF ReadResponse
    <3>2. Head(inbox).id \in tracked => outcome[Head(inbox).id] # "new"
      BY <3>1 DEF LossInv, NoLostUpload
    <3> QED
      BY <2>1, <3>1, <3>2 DEF ReadResponse, TransferInv, TransferOK, UploadedIsAnnounced
  <2>2. CASE StoreAccepts
    BY <2>2 DEF StoreAccepts, TransferInv, TransferOK, UploadedIsAnnounced
  <2>3. CASE PutSucceeds
    BY <2>3 DEF PutSucceeds, TransferInv, TransferOK, UploadedIsAnnounced
  <2>4. CASE Announce
    <3>1. CASE ControlOpen
      BY <2>4, <3>1 DEF Announce, TransferInv, TransferOK, UploadedIsAnnounced
    <3>2. CASE ~ControlOpen
      BY <2>4, <3>2, TransferFrame DEF Announce, Await
    <3> QED
      BY <3>1, <3>2
  <2>5. CASE ForgetUploaded
    <3>1. recvId \in Requests /\ recvId \in stored \cap announced
      BY <2>5 DEF ForgetUploaded, ShapeOK, TransferInv, TransferOK
    <3> QED
      BY <2>5, <3>1
         DEF ForgetUploaded, Untrack, TransferInv, TransferOK, UploadedIsAnnounced, TypeOK
  <2>6. CASE ChargeAttempt
    BY <2>6, TransferFrame DEF ChargeAttempt, Untrack, TypeOK
  <2>7. CASE \/ ReceiveEnds \/ BeginUpload \/ ReadPresignError \/ ReadBadKey \/ PutFails
             \/ MarkRetrying \/ Resend \/ PublishOutcome
    BY <2>7, TransferFrame
       DEF ReceiveEnds, BeginUpload, ReadPresignError, ReadBadKey, PutFails,
           MarkRetrying, Resend, PublishOutcome, Await
  <2> QED
    BY <1>3, <2>1, <2>2, <2>3, <2>4, <2>5, <2>6, <2>7 DEF ReceiveTask
<1>4. CASE UNCHANGED vars
  BY <1>4, TransferFrame DEF vars
<1> QED
  BY <1>1, <1>2, <1>3, <1>4 DEF Next

LEMMA TransferInit == Init => TransferInv
BY DEF Init, TransferInv, UploadedIsAnnounced, TransferOK

LEMMA SafeInit == Init => TypeOK /\ ShapeOK /\ LossInv /\ TransferInv
BY TypeInit, LossInit, TransferInit

LEMMA SafeStep ==
  TypeOK /\ ShapeOK /\ LossInv /\ TransferInv /\ [Next]_vars
    => (TypeOK /\ ShapeOK /\ LossInv /\ TransferInv)'
BY TypeStep, LossStep, TransferStep

(* A forgotten upload is in the store, and the send loop of a live           *)
(* connection had taken its "uploaded" message first.                        *)
THEOREM UploadedOnlyAfterAnnouncing == Spec => []UploadedIsAnnounced
<1>1. TransferInv => UploadedIsAnnounced
  BY DEF TransferInv
<1> QED
  BY SafeInit, SafeStep, <1>1, PTL DEF Spec

-----------------------------------------------------------------------------
(* The panel's count of pending uploads *)

LEMMA PendingStep ==
  ASSUME TypeOK, ShapeOK, PendingCountAtRest, [Next]_vars
  PROVE  PendingCountAtRest'
<1> USE DEF PendingCountAtRest
<1>1. CASE Environment
  BY <1>1 DEF Environment, EnqueueUpload, EnqueueTick, IssueCommand, ToggleUploads,
              RequestShutdown, LinkBreaks, LinkDrops, ServerAnswers
<1>2. CASE RelayTask
  <2>1. CASE CancelUpload
    BY <2>1 DEF CancelUpload
  <2>2. CASE SendRequest
    BY <2>2 DEF SendRequest, InLoop
  <2>3. CASE PublishCancel \/ StartBackoff
    BY <2>3 DEF PublishCancel, StartBackoff
  <2>4. CASE AbortReceiveTask
    BY <2>4 DEF AbortReceiveTask, RecvAwaits
  <2>5. CASE LoopShutdown \/ ReconnectNow \/ WriteFails
    BY <2>5 DEF LoopShutdown, ReconnectNow, WriteFails, InLoop, LeaveLoop, ShapeOK
  <2>6. CASE \/ Connected \/ ConnectFails \/ EnterSendLoop \/ StopAtShutdown
             \/ BeginFlush \/ FlushOne \/ ResendRetained
             \/ (\E r \in Requests : RequeueOne(r)) \/ BackoffElapsed
             \/ LoopBegins \/ RetryUpload \/ SendRetry \/ CommandsDrained \/ SendControl
             \/ ControlDrained \/ SkipRequest \/ SendTick \/ QueueEmpty \/ WriteDone
    <3>1. UNCHANGED <<tracked, pendingUploads>>
      BY <2>6 DEF Connected, ConnectFails, EnterSendLoop, StopAtShutdown, BeginFlush,
                  FlushOne, ResendRetained, RequeueOne, BackoffElapsed, LoopBegins,
                  RetryUpload, SendRetry, CommandsDrained, SendControl, ControlDrained,
                  SkipRequest, SendTick, QueueEmpty, WriteDone, GoTo
    <3>2. /\ recvPc' = recvPc \/ recvPc = "absent"
          /\ pc = "cancelling" => pc' = "cancelling"
      BY <2>6 DEF Connected, ConnectFails, EnterSendLoop, StopAtShutdown, BeginFlush,
                  FlushOne, ResendRetained, RequeueOne, BackoffElapsed, LoopBegins,
                  RetryUpload, SendRetry, CommandsDrained, SendControl, ControlDrained,
                  SkipRequest, SendTick, QueueEmpty, WriteDone, GoTo, InLoop
    <3> QED
      BY <3>1, <3>2
  <2> QED
    BY <1>2, <2>1, <2>2, <2>3, <2>4, <2>5, <2>6 DEF RelayTask
<1>3. CASE ReceiveTask
  <2>1. CASE ForgetUploaded
    BY <2>1 DEF ForgetUploaded
  <2>2. CASE ChargeAttempt
    BY <2>2 DEF ChargeAttempt
  <2>3. CASE PublishOutcome
    BY <2>3 DEF PublishOutcome
  <2>4. CASE \/ ReceiveEnds \/ ReadResponse \/ BeginUpload \/ ReadPresignError
             \/ ReadBadKey \/ StoreAccepts \/ PutSucceeds \/ PutFails \/ Announce
             \/ MarkRetrying \/ Resend
    BY <2>4 DEF ReceiveEnds, ReadResponse, BeginUpload, ReadPresignError, ReadBadKey,
                StoreAccepts, PutSucceeds, PutFails, Announce, MarkRetrying, Resend
  <2> QED
    BY <1>3, <2>1, <2>2, <2>3, <2>4 DEF ReceiveTask
<1>4. CASE UNCHANGED vars
  BY <1>4 DEF vars
<1> QED
  BY <1>1, <1>2, <1>3, <1>4 DEF Next

(* Between a removal and its report the count lags; at rest it is exact.     *)
THEOREM PendingCountExact == Spec => []PendingCountAtRest
<1>1. Init => PendingCountAtRest
  BY FS_EmptySet DEF Init, PendingCountAtRest
<1>2. TypeOK /\ ShapeOK /\ PendingCountAtRest /\ [Next]_vars
        => (TypeOK /\ ShapeOK /\ PendingCountAtRest)'
  BY TypeStep, PendingStep
<1> QED
  BY TypeInit, <1>1, <1>2, PTL DEF Spec

-----------------------------------------------------------------------------
(* RelayUpload implements UploadContract *)

LEMMA ContractInitially == Init => Contract!ContractInit
BY DEF Init, Contract!ContractInit

LEMMA ContractStutter ==
  ASSUME UNCHANGED <<outcome, attempts, stored>>
  PROVE  [Contract!ContractNext]_(Contract!contractVars)
BY DEF Contract!contractVars

(* The steps that take an upload out of replay_uploads, or charge it. *)
LEMMA ContractUntrack ==
  ASSUME TypeOK, ShapeOK, LossInv, TransferInv,
         CancelUpload \/ ForgetUploaded \/ ChargeAttempt
  PROVE  [Contract!ContractNext]_(Contract!contractVars)
<1>1. CASE CancelUpload
  <2>1. Head(commands).id \in Requests
    BY <1>1, HeadCommand DEF CancelUpload
  <2>2. CASE Head(commands).id \in tracked
    <3>1. Contract!Revoke(Head(commands).id)
      BY <1>1, <2>1, <2>2
         DEF CancelUpload, Untrack, LossInv, NoLostUpload, Contract!Revoke, Contract!Close
    <3> QED
      BY <2>1, <3>1 DEF Contract!ContractNext
  <2>3. CASE Head(commands).id \notin tracked
    BY <1>1, <2>3, ContractStutter DEF CancelUpload, Untrack
  <2> QED
    BY <2>2, <2>3
<1>2. CASE ForgetUploaded
  <2>1. recvId \in Requests /\ recvId \in stored
    BY <1>2 DEF ForgetUploaded, ShapeOK, TransferInv, TransferOK
  <2>2. CASE recvId \in tracked
    <3>1. Contract!Complete(recvId)
      BY <1>2, <2>1, <2>2
         DEF ForgetUploaded, Untrack, LossInv, NoLostUpload, Contract!Complete,
             Contract!Close
    <3> QED
      BY <2>1, <3>1 DEF Contract!ContractNext
  <2>3. CASE recvId \notin tracked
    BY <1>2, <2>3, ContractStutter DEF ForgetUploaded, Untrack
  <2> QED
    BY <2>2, <2>3
<1>3. CASE ChargeAttempt
  <2>1. recvId \in Requests
    BY <1>3 DEF ChargeAttempt, ShapeOK
  <2>2. CASE recvId \in tracked
    <3>1. /\ outcome[recvId] = "open" /\ attempts[recvId] \in 0..MaxRetries
          /\ attempts' = [attempts EXCEPT ![recvId] = @ + 1] /\ stored' = stored
      BY <1>3, <2>1, <2>2, RetriesAssumption
         DEF ChargeAttempt, LossInv, NoLostUpload, TypeOK, ShapeOK
    <3>2. CASE RetriesLeft(attempts[recvId] + 1)
      <4>1. Contract!ChargeFailure(recvId)
        BY <1>3, <2>2, <3>1, <3>2, RetriesAssumption
           DEF ChargeAttempt, RetriesLeft, Contract!ChargeFailure
      <4> QED
        BY <2>1, <4>1 DEF Contract!ContractNext
    <3>3. CASE ~RetriesLeft(attempts[recvId] + 1)
      <4>1. Contract!Abandon(recvId)
        BY <1>3, <2>2, <3>1, <3>3, RetriesAssumption
           DEF ChargeAttempt, RetriesLeft, Untrack, Contract!Abandon, Contract!Close
      <4> QED
        BY <2>1, <4>1 DEF Contract!ContractNext
    <3> QED
      BY <3>2, <3>3
  <2>3. CASE recvId \notin tracked
    BY <1>3, <2>3, ContractStutter DEF ChargeAttempt, Untrack
  <2> QED
    BY <2>2, <2>3
<1> QED
  BY <1>1, <1>2, <1>3

(* The steps that take a first request off the queue.  *)
LEMMA ContractTake ==
  ASSUME TypeOK, LossInv, SendRequest \/ SkipRequest
  PROVE  [Contract!ContractNext]_(Contract!contractVars)
<1> DEFINE r == Head(queue).id
<1>1. /\ queue # <<>> /\ r \in Requests
      /\ Head(queue).path => Head(queue) = FirstRequest(r)
  BY HeadPayload DEF SendRequest, SkipRequest
<1>2. Head(queue).path => /\ FirstIn(queue, r) /\ outcome[r] = "open" /\ attempts[r] = 0
  <2>1. Head(queue).path => FirstIn(queue, r)
    BY <1>1, TailPayload DEF TypeOK
  <2> QED
    BY <1>1, <2>1 DEF LossInv, NoLostUpload, FreshUncharged, FirstRequestWaits
<1>3. CASE SendRequest
  <2>1. attempts' = attempts
    BY <1>1, <1>2, <1>3 DEF SendRequest, TracksPath, TypeOK
  <2> QED
    BY <1>3, <2>1, ContractStutter DEF SendRequest
<1>4. CASE SkipRequest /\ Head(queue).path
  <2>1. Contract!Skip(r)
    BY <1>2, <1>4 DEF SkipRequest, Contract!Skip, Contract!Close
  <2> QED
    BY <1>1, <2>1 DEF Contract!ContractNext
<1>5. CASE SkipRequest /\ ~Head(queue).path
  BY <1>5, ContractStutter DEF SkipRequest
<1> QED
  BY <1>3, <1>4, <1>5

LEMMA ContractStep ==
  ASSUME TypeOK, ShapeOK, LossInv, TransferInv, [Next]_vars
  PROVE  [Contract!ContractNext]_(Contract!contractVars)
<1>1. CASE \E r \in Requests : EnqueueUpload(r)
  <2>1. PICK r \in Requests : EnqueueUpload(r)
    BY <1>1
  <2>2. Contract!Accept(r)
    BY <2>1 DEF EnqueueUpload, Contract!Accept
  <2> QED
    BY <2>2 DEF Contract!ContractNext
<1>2. CASE StoreAccepts
  <2>1. recvId \in Requests /\ outcome[recvId] # "new"
    BY <1>2 DEF StoreAccepts, ShapeOK, TransferInv, TransferOK
  <2>2. Contract!StoreFile(recvId)
    BY <1>2, <2>1 DEF StoreAccepts, Contract!StoreFile
  <2> QED
    BY <2>1, <2>2 DEF Contract!ContractNext
<1>3. CASE CancelUpload \/ ForgetUploaded \/ ChargeAttempt
  BY <1>3, ContractUntrack
<1>4. CASE SendRequest \/ SkipRequest
  BY <1>4, ContractTake
<1>5. CASE \/ EnqueueTick \/ (\E c \in Command : IssueCommand(c)) \/ ToggleUploads
           \/ RequestShutdown \/ LinkBreaks \/ LinkDrops
           \/ (\E r \in Requests, kind \in Answers : ServerAnswers(r, kind))
  <2>1. UNCHANGED <<outcome, attempts, stored>>
    BY <1>5 DEF EnqueueTick, IssueCommand, ToggleUploads, RequestShutdown, LinkBreaks,
                LinkDrops, ServerAnswers
  <2> QED
    BY <2>1, ContractStutter
<1>6. CASE \/ Connected \/ ConnectFails \/ EnterSendLoop \/ StopAtShutdown
           \/ AbortReceiveTask \/ BeginFlush \/ FlushOne \/ ResendRetained
           \/ (\E r \in Requests : RequeueOne(r)) \/ StartBackoff \/ BackoffElapsed
           \/ LoopBegins \/ LoopShutdown \/ ReconnectNow \/ RetryUpload \/ SendRetry
           \/ PublishCancel \/ CommandsDrained \/ SendControl \/ ControlDrained
           \/ SendTick \/ QueueEmpty \/ WriteDone \/ WriteFails
  <2>1. UNCHANGED <<outcome, attempts, stored>>
    BY <1>6 DEF Connected, ConnectFails, EnterSendLoop, StopAtShutdown,
                AbortReceiveTask, BeginFlush, FlushOne, ResendRetained, RequeueOne,
                StartBackoff, BackoffElapsed, LoopBegins, LoopShutdown, ReconnectNow,
                RetryUpload, SendRetry, PublishCancel, CommandsDrained, SendControl,
                ControlDrained, SendTick, QueueEmpty, WriteDone, WriteFails, GoTo,
                LeaveLoop
  <2> QED
    BY <2>1, ContractStutter
<1>7. CASE \/ ReceiveEnds \/ ReadResponse \/ BeginUpload \/ ReadPresignError
           \/ ReadBadKey \/ PutSucceeds \/ PutFails \/ Announce \/ MarkRetrying
           \/ Resend \/ PublishOutcome
  <2>1. UNCHANGED <<outcome, attempts, stored>>
    BY <1>7 DEF ReceiveEnds, ReadResponse, BeginUpload, ReadPresignError, ReadBadKey,
                PutSucceeds, PutFails, Announce, MarkRetrying, Resend, PublishOutcome
  <2> QED
    BY <2>1, ContractStutter
<1>8. CASE UNCHANGED vars
  BY <1>8, ContractStutter DEF vars
<1> QED
  BY <1>1, <1>2, <1>3, <1>4, <1>5, <1>6, <1>7, <1>8
     DEF Next, Environment, RelayTask, ReceiveTask

(* Each accepted upload stays open until one thing closes it for good, and   *)
(* neither a reconnect nor a manual retry gives back a failure already       *)
(* charged to its retry budget.                                              *)
THEOREM RelayImplementsContract == Spec => ImplementsContract
<1>1. TypeOK /\ ShapeOK /\ LossInv /\ TransferInv /\ [Next]_vars
        => [Contract!ContractNext]_(Contract!contractVars)
  BY ContractStep
<1> QED
  BY SafeInit, SafeStep, ContractInitially, <1>1, PTL
     DEF Spec, ImplementsContract, Contract!ContractSpec
=============================================================================
