-------------------------- MODULE PipelineMetrics --------------------------
(***************************************************************************)
(* The counters of a pipeline edge (runtime.rs, PipelineEdgeMetrics), on   *)
(* the edge with most threads: the queue of the relay.  Main and the       *)
(* replay worker send; the relay task receives, and in a flush throws away *)
(* the ticks and sends the upload requests again.                          *)
(*                                                                         *)
(* Each operation on the queue, each length read and each relaxed atomic   *)
(* access is a step.                                                       *)
(***************************************************************************)
EXTENDS Naturals, Sequences, FiniteSets

CONSTANTS
  Producers,    (* threads that only send                                  *)
  Relay,        (* the thread that receives                                *)
  MaxSends,     (* bound: messages sent by the producers                   *)
  MaxFlushes    (* bound: flushes                                          *)

Threads == Producers \cup {Relay}

ASSUME MetricsConstants ==
  /\ Relay \notin Producers /\ IsFiniteSet(Producers) /\ {MaxSends, MaxFlushes} \subseteq Nat

VARIABLES
  queue, open,  (* the channel; open while its receiver lives              *)
  retained,     (* relay: requests put aside by a flush                    *)
  flushing,     (* relay: no, emptying, resending                          *)
  pc,           (* where a thread stands in record_enqueue/record_dequeue  *)
  operation,    (* what it did: enqueue, refused or dequeue                *)
  depth,        (* the length it read                                      *)
  loaded,       (* the high-water mark it loaded                           *)
  enqueued, dequeued, send_failures, dropped, queue_depth, high_water,
  highest,      (* history: the greatest depth that was recorded           *)
  sends, flushes

channel == <<queue, open>>
flush == <<retained, flushing, flushes>>
locals == <<operation, depth, loaded>>
counts == <<enqueued, dequeued, send_failures>>
marks == <<queue_depth, high_water, highest>>
edgeVars == <<channel, flush, pc, locals, counts, dropped, marks, sends>>

Messages == {"tick", "request"}

EdgeInit ==
  /\ queue = <<>> /\ open = TRUE /\ retained = 0 /\ flushing = "no"
  /\ pc = [t \in Threads |-> "ready"]
  /\ operation = [t \in Threads |-> "none"]
  /\ depth = [t \in Threads |-> 0] /\ loaded = [t \in Threads |-> 0]
  /\ enqueued = 0 /\ dequeued = 0 /\ send_failures = 0 /\ dropped = 0
  /\ queue_depth = 0 /\ high_water = 0 /\ highest = 0
  /\ sends = 0 /\ flushes = 0

-----------------------------------------------------------------------------
(* The channel *)

Did(t, op) ==
  /\ pc' = [pc EXCEPT ![t] = "measure"] /\ operation' = [operation EXCEPT ![t] = op]
  /\ UNCHANGED <<depth, loaded, counts, marks>>

(* try_send on an unbounded channel fails only without a receiver. *)
Put(t, message) ==
  IF open THEN queue' = Append(queue, message) /\ Did(t, "enqueue")
          ELSE UNCHANGED queue /\ Did(t, "refused")

(* enqueue_pipeline_value, enqueue_replay_upload_request *)
Send(t) ==
  /\ t \in Producers /\ pc[t] = "ready" /\ sends < MaxSends
  /\ \E message \in Messages : Put(t, message)
  /\ sends' = sends + 1
  /\ UNCHANGED <<open, flush, dropped>>

(* send_relay_loop *)
Take ==
  /\ pc[Relay] = "ready" /\ flushing = "no" /\ open /\ queue # <<>>
  /\ queue' = Tail(queue) /\ Did(Relay, "dequeue")
  /\ UNCHANGED <<open, flush, dropped, sends>>

BeginFlush ==
  /\ pc[Relay] = "ready" /\ flushing = "no" /\ flushing' = "emptying"
  /\ open /\ flushes < MaxFlushes /\ flushes' = flushes + 1
  /\ UNCHANGED <<channel, retained, pc, locals, counts, dropped, marks, sends>>

(* flush_stale_relay_messages: ticks are counted, and added to dropped at   *)
(* the end; the model adds them one by one.                                 *)
FlushOne ==
  /\ pc[Relay] = "ready" /\ flushing = "emptying" /\ queue # <<>>
  /\ queue' = Tail(queue) /\ Did(Relay, "dequeue")
  /\ IF Head(queue) = "request"
       THEN retained' = retained + 1 /\ UNCHANGED dropped
       ELSE dropped' = dropped + 1 /\ UNCHANGED retained
  /\ UNCHANGED <<open, flushing, flushes, sends>>

FlushEmpty ==
  /\ pc[Relay] = "ready" /\ flushing = "emptying" /\ queue = <<>>
  /\ flushing' = "resending"
  /\ UNCHANGED <<channel, retained, flushes, pc, locals, counts, dropped, marks, sends>>

Resend ==
  /\ pc[Relay] = "ready" /\ flushing = "resending" /\ retained > 0
  /\ Put(Relay, "request") /\ retained' = retained - 1
  /\ UNCHANGED <<open, flushing, flushes, dropped, sends>>

FlushDone ==
  /\ pc[Relay] = "ready" /\ flushing = "resending" /\ retained = 0 /\ flushing' = "no"
  /\ UNCHANGED <<channel, retained, flushes, pc, locals, counts, dropped, marks, sends>>

(* The relay task ends and takes the receiver, and what is queued, with it. *)
RelayEnds ==
  /\ pc[Relay] = "ready" /\ flushing = "no" /\ open /\ open' = FALSE /\ queue' = <<>>
  /\ UNCHANGED <<flush, pc, locals, counts, dropped, marks, sends>>

-----------------------------------------------------------------------------
(* record_enqueue, record_dequeue, record_depth *)

Goto(t, step) == pc' = [pc EXCEPT ![t] = step]

Return(t) ==
  /\ Goto(t, "ready") /\ operation' = [operation EXCEPT ![t] = "none"]
  /\ depth' = [depth EXCEPT ![t] = 0] /\ loaded' = [loaded EXCEPT ![t] = 0]

(* The thread has seen a mark: it tries to raise it, or is done. *)
Compare(t, mark) ==
  IF depth[t] > mark
    THEN /\ Goto(t, "swap") /\ loaded' = [loaded EXCEPT ![t] = mark]
         /\ UNCHANGED <<operation, depth>>
    ELSE Return(t)

Measure(t) ==
  /\ pc[t] = "measure" /\ depth' = [depth EXCEPT ![t] = Len(queue)] /\ Goto(t, "count")
  /\ UNCHANGED <<channel, flush, operation, loaded, counts, dropped, marks, sends>>

(* Mutant: a request that is resent is not counted as enqueued again. *)
AddOnce(t) ==
  /\ enqueued' = enqueued + (IF operation[t] = "enqueue" /\ t # Relay THEN 1 ELSE 0)
  /\ dequeued' = dequeued + (IF operation[t] = "dequeue" THEN 1 ELSE 0)
  /\ send_failures' = send_failures + (IF operation[t] = "refused" THEN 1 ELSE 0)

Add(t) ==
  /\ enqueued' = enqueued + (IF operation[t] = "enqueue" THEN 1 ELSE 0)
  /\ dequeued' = dequeued + (IF operation[t] = "dequeue" THEN 1 ELSE 0)
  /\ send_failures' = send_failures + (IF operation[t] = "refused" THEN 1 ELSE 0)

Count(t) ==
  /\ pc[t] = "count" /\ Add(t) /\ Goto(t, "store")
  /\ UNCHANGED <<channel, flush, locals, dropped, marks, sends>>

StoreDepth(t) ==
  /\ pc[t] = "store" /\ Goto(t, "load")
  /\ queue_depth' = depth[t]
  /\ highest' = IF depth[t] > highest THEN depth[t] ELSE highest
  /\ UNCHANGED <<channel, flush, locals, counts, dropped, high_water, sends>>

(* A relaxed load may give an earlier mark. *)
LoadHighWater(t) ==
  /\ pc[t] = "load" /\ \E mark \in 0..high_water : Compare(t, mark)
  /\ UNCHANGED <<channel, flush, counts, dropped, marks, sends>>

(* Mutant: the mark is stored without a comparison. *)
Overwrite(t) == high_water' = depth[t] /\ Return(t)

(* compare_exchange_weak: if the mark has moved, or for no reason at all,   *)
(* it fails and gives the present one.                                      *)
CompareExchange(t) ==
  \/ high_water = loaded[t] /\ high_water' = depth[t] /\ Return(t)
  \/ Compare(t, high_water) /\ UNCHANGED high_water

RaiseHighWater(t) ==
  /\ pc[t] = "swap" /\ CompareExchange(t)
  /\ UNCHANGED <<channel, flush, counts, dropped, queue_depth, highest, sends>>

RecordStep(t) ==
  \/ Measure(t) \/ Count(t) \/ StoreDepth(t) \/ LoadHighWater(t) \/ RaiseHighWater(t)

EdgeNext ==
  \/ \E t \in Threads : Send(t) \/ RecordStep(t)
  \/ Take \/ BeginFlush \/ FlushOne \/ FlushEmpty \/ Resend \/ FlushDone \/ RelayEnds

EdgeSpec == EdgeInit /\ [][EdgeNext]_edgeVars

-----------------------------------------------------------------------------
(* Properties *)

Steps == {"ready", "measure", "count", "store", "load", "swap"}

(* Types. *)
EdgeTypeOK ==
  /\ queue \in Seq(Messages) /\ open \in BOOLEAN
  /\ retained \in Nat /\ flushing \in {"no", "emptying", "resending"}
  /\ pc \in [Threads -> Steps]
  /\ operation \in [Threads -> {"none", "enqueue", "refused", "dequeue"}]
  /\ depth \in [Threads -> Nat] /\ loaded \in [Threads -> Nat]
  /\ {enqueued, dequeued, send_failures, dropped, queue_depth, high_water, highest} \subseteq Nat
  /\ {sends, flushes} \subseteq Nat

AtRest == \A t \in Threads : pc[t] = "ready"

(* When no thread is recording, the high-water mark is the greatest depth  *)
(* that any of them recorded, however their loads and exchanges met: none   *)
(* is lost and none invented.  (record_depth.)                              *)
HighWaterExact == AtRest => high_water = highest

(* Threads that have changed the queue and not counted it yet. *)
Uncounted(op) == {t \in Threads : pc[t] \in {"measure", "count"} /\ operation[t] = op}

(* While the receiver lives, what was taken in is what was given out and    *)
(* what is still queued, give or take the threads between the queue and the *)
(* counter: the panel's counters agree with the queue whenever it is quiet, *)
(* through flushes that resend.  (Each try_send and receive, with its       *)
(* record_pipeline_enqueue or record_pipeline_dequeue.)                     *)
CountersBalance ==
  open =>
  enqueued + Cardinality(Uncounted("enqueue"))
    = dequeued + Cardinality(Uncounted("dequeue")) + Len(queue)
=============================================================================
