------------------------------ MODULE PanelProofs ------------------------------
(***************************************************************************)
(* Proofs about what the threads keep for the panel to show.               *)
(*                                                                         *)
(* First LocalWs, for any number of clients, any capacity and any bounds:  *)
(* the types, the panel, and the stream each client gets.  Then            *)
(* PipelineMetrics, for any number of threads that send: the high-water    *)
(* mark is exact however the atomic accesses meet, and the counters agree  *)
(* with the queue.                                                         *)
(***************************************************************************)
EXTENDS LocalWs, PipelineMetrics, FiniteSetTheorems, TLAPS

(* What is produced waits or has been forwarded, and a receiver is at most  *)
(* one message ahead: a message that is being sent has been forwarded.      *)
Positions ==
  /\ produced = waiting + forwarded
  /\ \A a \in Addresses : next[a] <= forwarded + 1 /\ (task[a] = "send" => next[a] <= forwarded)

(* A client's next message follows the last one it got.                     *)
Follows ==
  \A a \in Addresses :
    received[a] # <<>> => received[a][Len(received[a])] + 1 = next[a]

(* GaplessStream says nothing of the message to come, and the panel's count *)
(* is a number only if there are finitely many clients.                     *)
StreamInv == GaplessStream /\ Follows
PanelInv == PanelMatchesTasks /\ (serverPc = "ended" => \A a \in Addresses : task[a] = "none")

USE DEF panelVars, boundVars, TaskOthers

-----------------------------------------------------------------------------
(* Counting clients *)

LEMMA ClientsCounted ==
  ASSUME NEW S, S \subseteq Addresses
  PROVE  IsFiniteSet(S) /\ Cardinality(S) \in 0..Cardinality(Addresses)
BY LocalWsBounds, FS_Subset, FS_CardinalityType

LEMMA OneMore ==
  ASSUME NEW S, S \subseteq Addresses, NEW a \in Addresses \ S
  PROVE  Cardinality(S \cup {a}) = Cardinality(S) + 1
BY ClientsCounted, FS_AddElement

-----------------------------------------------------------------------------
(* Types *)

(* A stream of messages grows at its end. *)
LEMMA AppendMessage ==
  ASSUME NEW s \in Seq(1..MaxMessages), NEW m \in 1..MaxMessages
  PROVE  /\ Append(s, m) \in Seq(1..MaxMessages) /\ Append(s, m) # <<>>
         /\ Len(s) \in Nat
         /\ Len(Append(s, m)) = Len(s) + 1
         /\ Append(s, m)[Len(s) + 1] = m
         /\ \A i \in 1..Len(s) : Append(s, m)[i] = s[i]
OBVIOUS

TypeInv == TypeOK /\ Positions /\ \A a \in Addresses : Subscribed(a) => next[a] > 0

LEMMA TypeInit == Init => TypeInv
<1> SUFFICES ASSUME Init PROVE TypeInv
  OBVIOUS
<1>1. {waiting, forwarded, produced} \subseteq 0..MaxMessages /\ accepts \in 0..MaxAccepts /\ asks \in 0..MaxRequests
  BY LocalWsBounds DEF Init
<1>2. clientCount \in 0..Cardinality(Addresses)
  BY ClientsCounted, FS_EmptySet DEF Init
<1>3. received \in [Addresses -> Seq(1..MaxMessages)]
  BY DEF Init
<1>4. task \in [Addresses -> TaskStages] /\ next \in [Addresses -> 0..MaxMessages + 1]
  BY LocalWsBounds DEF Init, TaskStages
<1>5. TypeOK
  BY <1>1, <1>2, <1>3, <1>4 DEF Init, TypeOK
<1>6. Positions /\ \A a \in Addresses : Subscribed(a) => next[a] > 0
  BY DEF Init, Positions, Subscribed
<1> QED
  BY <1>5, <1>6 DEF TypeInv

(* The tasks: what a client does, and what its task does of its own accord. *)
LEMMA TypeTask ==
  ASSUME TypeInv, NEW a \in Addresses, Task(a) \/ Peer(a)
  PROVE  TypeInv'
<1> USE DEF TypeInv, TypeOK, Positions, Subscribed, TaskStages
<1>1. CASE LeaveAtShutdown(a) \/ Kick(a) \/ DropLaggard(a)
  BY <1>1 DEF LeaveAtShutdown, Kick, TakeRequest, DropLaggard
<1>2. CASE Receive(a)
  BY <1>2 DEF Receive
<1>3. CASE Leave(a)
  <2>1. clientCount' \in 0..Cardinality(Addresses)
    BY <1>3, ClientsCounted DEF Leave
  <2>2. task' \in [Addresses -> TaskStages] /\ clients' \subseteq Addresses
    BY <1>3 DEF Leave
  <2>3. TypeOK'
    BY <1>3, <2>1, <2>2 DEF Leave
  <2>4. \A b \in Addresses : task'[b] = task[b] \/ task'[b] = "none"
    BY <1>3 DEF Leave
  <2>5. Positions'
    <3> HIDE DEF TypeOK
    <3> QED
      BY <1>3, <2>4 DEF Leave
  <2>6. \A b \in Addresses : Subscribed(b)' => next'[b] > 0
    BY <1>3, <2>4 DEF Leave
  <2> QED
    BY <2>3, <2>5, <2>6
<1>4. CASE HandshakeDone(a) \/ HandshakeFails(a) \/ SendFails(a)
  BY <1>4 DEF HandshakeDone, HandshakeFails, SendFails
<1>5. CASE Sent(a)
  <2>1. next[a] \in 1..MaxMessages /\ next[a] + 1 \in 0..MaxMessages + 1 /\ next[a] + 1 <= forwarded + 1
    <3>1. task[a] = "send"
      BY <1>5 DEF Sent
    <3>2. next[a] > 0 /\ next[a] <= forwarded /\ forwarded \in 0..MaxMessages /\ next[a] \in 0..MaxMessages + 1
      BY <3>1
    <3> QED
      BY <3>2, LocalWsBounds
  <2>2. received' \in [Addresses -> Seq(1..MaxMessages)]
    BY <1>5, <2>1, AppendMessage DEF Sent
  <2>3. next' \in [Addresses -> 0..MaxMessages + 1] /\ task' \in [Addresses -> TaskStages]
    BY <1>5, <2>1 DEF Sent
  <2>4. Positions'
    BY <1>5, <2>1 DEF Sent
  <2>5. \A b \in Addresses : Subscribed(b)' => next'[b] > 0
    BY <1>5, <2>1 DEF Sent
  <2> QED
    BY <1>5, <2>2, <2>3, <2>4, <2>5 DEF Sent
<1> QED
  BY <1>1, <1>2, <1>3, <1>4, <1>5 DEF Task, Peer

LEMMA TypeStep ==
  ASSUME TypeInv, PanelInv, [Next]_vars
  PROVE  TypeInv'
<1>0. {waiting, forwarded, produced} \subseteq Nat /\ \A b \in Addresses : next[b] \in Nat
  BY LocalWsBounds DEF TypeInv, TypeOK
<1> USE DEF TypeInv, TypeOK, Positions, Subscribed, TaskStages
<1>1. CASE Produce
  BY <1>1, LocalWsBounds DEF Produce
<1>2. CASE RequestShutdown
  BY <1>2 DEF RequestShutdown
<1>3. CASE Forward
  <2>1. forwarded' \in 0..MaxMessages /\ waiting' \in 0..MaxMessages /\ forwarded' = forwarded + 1
    BY <1>3, LocalWsBounds DEF Forward
  <2>2. TypeOK'
    BY <1>3, <2>1 DEF Forward
  <2>3. Positions'
    <3> HIDE DEF TypeOK
    <3> QED
      BY <1>0, <1>3, <2>1 DEF Forward
  <2>4. \A b \in Addresses : Subscribed(b)' => next'[b] > 0
    BY <1>3 DEF Forward
  <2> QED
    BY <2>2, <2>3, <2>4
<1>4. CASE ServerEnds
  BY <1>4 DEF ServerEnds
<1>5. ASSUME NEW a \in Addresses, RequestDisconnect(a)
      PROVE  TypeInv'
  BY <1>5, LocalWsBounds DEF RequestDisconnect
<1>6. ASSUME NEW a \in Addresses, Accept(a)
      PROVE  TypeInv'
  <2>1. clientCount' \in 0..Cardinality(Addresses) /\ clients' \subseteq Addresses
    <3>1. clientCount + 1 = Cardinality(clients \cup {a}) /\ clients \cup {a} \subseteq Addresses
      BY <1>6, OneMore DEF Accept, PanelInv, PanelMatchesTasks
    <3> QED
      BY <1>6, <3>1, ClientsCounted DEF Accept
  <2>2. forwarded + 1 \in 1..MaxMessages + 1 /\ accepts' \in 0..MaxAccepts
    BY <1>6, LocalWsBounds DEF Accept
  <2>3. received' \in [Addresses -> Seq(1..MaxMessages)] /\ task' \in [Addresses -> TaskStages]
        /\ next' \in [Addresses -> 0..MaxMessages + 1]
    BY <1>6, <2>2 DEF Accept
  <2>4. Positions'
    BY <1>6, <2>2 DEF Accept
  <2>5. \A b \in Addresses : Subscribed(b)' => next'[b] > 0
    BY <1>6, <2>2 DEF Accept
  <2> QED
    BY <1>6, <2>1, <2>2, <2>3, <2>4, <2>5 DEF Accept
<1>7. CASE UNCHANGED vars
  BY <1>7 DEF vars
<1> QED
  BY <1>1, <1>2, <1>3, <1>4, <1>5, <1>6, <1>7, TypeTask DEF Next

-----------------------------------------------------------------------------
(* The panel *)

LEMMA PanelStep ==
  ASSUME TypeInv, PanelInv, [Next]_vars
  PROVE  PanelInv'
<1> USE DEF PanelInv, PanelMatchesTasks
<1>0. task \in [Addresses -> TaskStages] /\ clients \subseteq Addresses /\ serverPc \in {"running", "ended"}
  BY DEF TypeInv, TypeOK
<1>1. CASE UNCHANGED <<serverPc, task, clients, clientCount>>
  BY <1>1
<1>2. CASE ServerEnds
  BY <1>2 DEF ServerEnds
<1>3. ASSUME NEW a \in Addresses, Accept(a)
      PROVE  PanelInv'
  <2>1. clients \cup {a} = {b \in Addresses : task'[b] # "none"}
    BY <1>0, <1>3 DEF Accept
  <2>2. clientCount' = Cardinality(clients')
    BY <1>0, <1>3, OneMore DEF Accept
  <2> QED
    BY <1>3, <2>1, <2>2 DEF Accept
<1>4. ASSUME NEW a \in Addresses, Leave(a)
      PROVE  PanelInv'
  <2>1. serverPc = "running" => clients \ {a} = {b \in Addresses : task'[b] # "none"}
    BY <1>0, <1>4 DEF Leave
  <2>2. serverPc = "running"
    BY <1>0, <1>4 DEF Leave
  <2> QED
    BY <1>4, <2>1, <2>2 DEF Leave
<1>5. ASSUME NEW a \in Addresses, Task(a) \/ Peer(a), ~Leave(a)
      PROVE  PanelInv'
  <2>1. /\ UNCHANGED <<serverPc, clients, clientCount>>
        /\ task[a] # "none" /\ task'[a] # "none"
        /\ \A b \in Addresses \ {a} : task'[b] = task[b]
    BY <1>0, <1>5 DEF Task, Peer, LeaveAtShutdown, Kick, Receive, DropLaggard,
                      HandshakeDone, HandshakeFails, Sent, SendFails
  <2> QED
    BY <2>1
<1> QED
  BY <1>1, <1>2, <1>3, <1>4, <1>5
     DEF Next, vars, Produce, RequestShutdown, Forward, RequestDisconnect

-----------------------------------------------------------------------------
(* The streams *)

LEMMA StreamStep ==
  ASSUME TypeInv, StreamInv, [Next]_vars
  PROVE  StreamInv'
<1> USE DEF StreamInv
<1>0. /\ received \in [Addresses -> Seq(1..MaxMessages)]
      /\ next \in [Addresses -> 0..MaxMessages + 1] /\ MaxMessages \in Nat
  BY LocalWsBounds DEF TypeInv, TypeOK
<1>1. CASE UNCHANGED <<received, next>>
  BY <1>1 DEF GaplessStream, Follows
<1>2. ASSUME NEW a \in Addresses, Accept(a)
      PROVE  StreamInv'
  BY <1>0, <1>2 DEF Accept, GaplessStream, Follows
<1>3. ASSUME NEW a \in Addresses, Sent(a)
      PROVE  StreamInv'
  <2>1. next[a] \in 1..MaxMessages
    <3>1. task[a] = "send"
      BY <1>3 DEF Sent
    <3>2. next[a] > 0 /\ next[a] <= forwarded /\ forwarded \in 0..MaxMessages
      BY <3>1 DEF TypeInv, TypeOK, Positions, Subscribed
    <3> QED
      BY <1>0, <3>2
  <2>2. /\ received'[a] = Append(received[a], next[a]) /\ next'[a] = next[a] + 1
        /\ \A b \in Addresses \ {a} : received'[b] = received[b] /\ next'[b] = next[b]
    BY <1>0, <1>3 DEF Sent
  <2>grown. /\ Len(received[a]) \in Nat /\ Len(received'[a]) = Len(received[a]) + 1
            /\ received'[a][Len(received[a]) + 1] = next[a]
            /\ \A i \in 1..Len(received[a]) : received'[a][i] = received[a][i]
    BY <1>0, <2>1, <2>2, AppendMessage
  <2>3. Follows'
    BY <1>0, <2>1, <2>2, <2>grown DEF Follows
  <2>4. ASSUME NEW b \in Addresses, NEW i \in 1..Len(received'[b]) - 1
        PROVE  received'[b][i + 1] = received'[b][i] + 1
    <3>1. CASE b # a
      BY <2>2, <2>4, <3>1 DEF GaplessStream
    <3>2. CASE b = a /\ i < Len(received[a])
      <4>1. i \in 1..Len(received[a]) - 1 /\ i + 1 \in 1..Len(received[a]) /\ i \in 1..Len(received[a])
        BY <2>grown, <2>4, <3>2
      <4> QED
        BY <2>grown, <3>2, <4>1 DEF GaplessStream
    <3>3. CASE b = a /\ i >= Len(received[a])
      <4>1. i = Len(received[a]) /\ i \in 1..Len(received[a])
        BY <2>grown, <2>4, <3>3
      <4>2. received[a] # <<>>
        BY <1>0, <4>1
      <4> QED
        BY <2>2, <2>grown, <3>3, <4>1, <4>2 DEF Follows
    <3> QED
      BY <2>grown, <2>4, <3>1, <3>2, <3>3
  <2> QED
    BY <2>3, <2>4 DEF GaplessStream
<1> QED
  BY <1>1, <1>2, <1>3
     DEF Next, vars, Produce, RequestShutdown, Forward, ServerEnds, RequestDisconnect, Task, Peer,
         LeaveAtShutdown, Kick, Receive, DropLaggard, Leave, HandshakeDone, HandshakeFails,
         SendFails

-----------------------------------------------------------------------------
(* The invariant *)

LEMMA SafeInit == Init => TypeInv /\ PanelInv /\ StreamInv
<1> SUFFICES ASSUME Init PROVE PanelInv /\ StreamInv
  BY TypeInit
<1>1. PanelInv
  BY FS_EmptySet DEF Init, PanelInv, PanelMatchesTasks
<1>2. StreamInv
  BY DEF Init, StreamInv, GaplessStream, Follows
<1> QED
  BY <1>1, <1>2

LEMMA SafeStep == TypeInv /\ PanelInv /\ StreamInv /\ [Next]_vars => (TypeInv /\ PanelInv /\ StreamInv)'
BY TypeStep, PanelStep, StreamStep

(* The panel lists exactly the clients that have a task, and counts them,   *)
(* for any number of clients (run_local_ws_server, handle_client).          *)
THEOREM PanelExact == Spec => []PanelMatchesTasks
<1>1. TypeInv /\ PanelInv /\ StreamInv => PanelMatchesTasks
  BY DEF PanelInv
<1> QED
  BY <1>1, SafeInit, SafeStep, PTL DEF Spec

(* No client gets a stream with a hole in it, whatever the capacity of the  *)
(* broadcast channel (handle_client).                                       *)
THEOREM NoHoles == Spec => []GaplessStream
<1>1. TypeInv /\ PanelInv /\ StreamInv => GaplessStream
  BY DEF StreamInv
<1> QED
  BY <1>1, SafeInit, SafeStep, PTL DEF Spec

(* The state of the server keeps its types: in particular the count of      *)
(* clients never leaves the number of addresses.                            *)
THEOREM LocalWsTypes == Spec => []TypeOK
<1>1. TypeInv /\ PanelInv /\ StreamInv => TypeOK
  BY DEF TypeInv
<1> QED
  BY <1>1, SafeInit, SafeStep, PTL DEF Spec

-----------------------------------------------------------------------------
(* PipelineMetrics: the marks                                              *)

(* A mark that is not yet the greatest depth is about to be raised by a     *)
(* thread that recorded that depth; nobody raises it any higher.            *)
Raising(t) == pc[t] \in {"load", "swap"}

MarkInv ==
  /\ high_water <= highest
  /\ \A t \in Threads : Raising(t) => depth[t] <= highest
  /\ \A t \in Threads : pc[t] = "swap" => loaded[t] < depth[t]
  /\ highest <= high_water \/ \E t \in Threads : Raising(t) /\ depth[t] = highest

-----------------------------------------------------------------------------
(* Types *)

LEMMA EdgeTypeInit == EdgeInit => EdgeTypeOK
BY MetricsConstants DEF EdgeInit, EdgeTypeOK, Steps

(* What a thread does when it has changed the queue. *)
LEMMA DidType ==
  ASSUME EdgeTypeOK, NEW t \in Threads, NEW op \in {"enqueue", "refused", "dequeue"}, Did(t, op)
  PROVE  /\ pc' \in [Threads -> Steps]
         /\ operation' \in [Threads -> {"none", "enqueue", "refused", "dequeue"}]
BY DEF EdgeTypeOK, Did, Steps

LEMMA PutType ==
  ASSUME EdgeTypeOK, NEW t \in Threads, NEW message \in Messages, Put(t, message)
  PROVE  /\ queue' \in Seq(Messages) /\ pc' \in [Threads -> Steps]
         /\ operation' \in [Threads -> {"none", "enqueue", "refused", "dequeue"}]
         /\ UNCHANGED <<depth, loaded, counts, marks>>
<1>1. queue \in Seq(Messages)
  BY DEF EdgeTypeOK
<1>2. CASE open
  BY <1>1, <1>2, DidType DEF Put, Did
<1>3. CASE ~open
  BY <1>1, <1>3, DidType DEF Put, Did
<1> QED
  BY <1>2, <1>3

LEMMA CompareType ==
  ASSUME EdgeTypeOK, NEW t \in Threads, NEW mark \in Nat, Compare(t, mark)
  PROVE  /\ pc' \in [Threads -> Steps]
         /\ operation' \in [Threads -> {"none", "enqueue", "refused", "dequeue"}]
         /\ depth' \in [Threads -> Nat] /\ loaded' \in [Threads -> Nat]
<1>0. /\ pc \in [Threads -> Steps] /\ depth \in [Threads -> Nat] /\ loaded \in [Threads -> Nat]
      /\ operation \in [Threads -> {"none", "enqueue", "refused", "dequeue"}]
  BY DEF EdgeTypeOK
<1>1. CASE depth[t] > mark
  BY <1>0, <1>1 DEF Compare, Goto, Steps
<1>2. CASE ~(depth[t] > mark)
  BY <1>0, <1>2 DEF Compare, Goto, Return, Steps
<1> QED
  BY <1>1, <1>2

LEMMA RecordType ==
  ASSUME EdgeTypeOK, NEW t \in Threads, RecordStep(t)
  PROVE  EdgeTypeOK'
<1> USE DEF channel, flush, locals, counts, marks, EdgeTypeOK, Steps
<1>1. CASE Measure(t)
  BY <1>1 DEF Measure, Goto
<1>2. CASE Count(t)
  BY <1>2 DEF Count, Add, Goto
<1>3. CASE StoreDepth(t)
  BY <1>3 DEF StoreDepth, Goto
<1>4. CASE LoadHighWater(t)
  <2>1. PICK mark \in 0..high_water : Compare(t, mark)
    BY <1>4 DEF LoadHighWater
  <2>2. mark \in Nat
    OBVIOUS
  <2> QED
    BY <1>4, <2>1, <2>2, CompareType DEF LoadHighWater
<1>5. CASE RaiseHighWater(t)
  <2>1. CASE high_water = loaded[t] /\ high_water' = depth[t] /\ Return(t)
    <3>1. high_water' \in Nat
      BY <2>1
    <3>2. /\ pc' \in [Threads -> Steps] /\ loaded' \in [Threads -> Nat] /\ depth' \in [Threads -> Nat]
          /\ operation' \in [Threads -> {"none", "enqueue", "refused", "dequeue"}]
      BY <2>1 DEF Return, Goto
    <3> QED
      BY <1>5, <3>1, <3>2 DEF RaiseHighWater
  <2>2. CASE Compare(t, high_water) /\ UNCHANGED high_water
    BY <1>5, <2>2, CompareType DEF RaiseHighWater
  <2> QED
    BY <1>5, <2>1, <2>2 DEF RaiseHighWater, CompareExchange
<1> QED
  BY <1>1, <1>2, <1>3, <1>4, <1>5 DEF RecordStep

LEMMA EdgeTypeStep ==
  ASSUME EdgeTypeOK, [EdgeNext]_edgeVars
  PROVE  EdgeTypeOK'
<1> USE DEF channel, flush, locals, counts, marks
<1>1. Relay \in Threads /\ Producers \subseteq Threads
  BY DEF Threads
<1>2. ASSUME NEW t \in Threads, Send(t)
      PROVE  EdgeTypeOK'
  <2>1. PICK message \in Messages : Put(t, message)
    BY <1>2 DEF Send
  <2>2. sends' \in Nat
    BY <1>2 DEF Send, EdgeTypeOK
  <2> QED
    BY <1>2, <2>1, <2>2, PutType DEF Send, EdgeTypeOK
<1>3. CASE Take
  <2>1. queue' \in Seq(Messages)
    BY <1>3 DEF Take, EdgeTypeOK
  <2> QED
    BY <1>1, <1>3, <2>1, DidType DEF Take, Did, EdgeTypeOK
<1>4. CASE BeginFlush
  BY <1>4 DEF BeginFlush, EdgeTypeOK
<1>5. CASE FlushOne
  <2>1. queue' \in Seq(Messages) /\ retained' \in Nat /\ dropped' \in Nat
    BY <1>5 DEF FlushOne, EdgeTypeOK
  <2> QED
    BY <1>1, <1>5, <2>1, DidType DEF FlushOne, Did, EdgeTypeOK
<1>6. CASE FlushEmpty
  BY <1>6 DEF FlushEmpty, EdgeTypeOK
<1>7. CASE Resend
  <2>1. retained' \in Nat
    BY <1>7 DEF Resend, EdgeTypeOK
  <2>2. "request" \in Messages
    BY DEF Messages
  <2> QED
    <3>1. Put(Relay, "request")
      BY <1>7 DEF Resend
    <3> QED
      BY <1>1, <1>7, <2>1, <2>2, <3>1, PutType DEF Resend, EdgeTypeOK
<1>8. CASE FlushDone
  BY <1>8 DEF FlushDone, EdgeTypeOK
<1>9. CASE RelayEnds
  <2>1. queue' = <<>> /\ open' = FALSE /\ <<>> \in Seq(Messages)
    BY <1>9 DEF RelayEnds
  <2> QED
    BY <1>9, <2>1 DEF RelayEnds, EdgeTypeOK
<1>10. CASE UNCHANGED edgeVars
  BY <1>10 DEF edgeVars, EdgeTypeOK
<1> QED
  BY <1>2, <1>3, <1>4, <1>5, <1>6, <1>7, <1>8, <1>9, <1>10, RecordType DEF EdgeNext

-----------------------------------------------------------------------------
(* The high-water mark *)

(* A thread that changes the queue is not raising the mark.                 *)
LEMMA MarkFrame ==
  ASSUME EdgeTypeOK, MarkInv, UNCHANGED <<depth, loaded, high_water, highest>>,
         \A t \in Threads : pc'[t] = pc[t] \/ ({pc[t], pc'[t]} \cap {"load", "swap"} = {})
  PROVE  MarkInv'
BY DEF MarkInv, Raising

LEMMA MarkCompare ==
  ASSUME EdgeTypeOK, MarkInv, NEW t \in Threads, Raising(t),
         NEW mark \in 0..high_water, Compare(t, mark), UNCHANGED <<high_water, highest>>
  PROVE  MarkInv'
<1>0. /\ pc \in [Threads -> Steps] /\ depth \in [Threads -> Nat] /\ loaded \in [Threads -> Nat]
      /\ high_water \in Nat /\ highest \in Nat
  BY DEF EdgeTypeOK
<1>1. CASE depth[t] > mark
  <2>1. /\ pc' = [pc EXCEPT ![t] = "swap"] /\ loaded' = [loaded EXCEPT ![t] = mark]
        /\ depth' = depth
    BY <1>1 DEF Compare, Goto
  <2> QED
    BY <1>0, <1>1, <2>1 DEF MarkInv, Raising
<1>2. CASE ~(depth[t] > mark)
  <2>1. /\ pc' = [pc EXCEPT ![t] = "ready"] /\ loaded' = [loaded EXCEPT ![t] = 0]
        /\ depth' = [depth EXCEPT ![t] = 0]
    BY <1>2 DEF Compare, Return, Goto
  <2>2. depth[t] <= high_water
    BY <1>0, <1>2
  <2>3. highest <= high_water \/ \E u \in Threads \ {t} : Raising(u) /\ depth[u] = highest
    BY <1>0, <2>2 DEF MarkInv
  <2> QED
    BY <1>0, <2>1, <2>3 DEF MarkInv, Raising
<1> QED
  BY <1>1, <1>2

LEMMA MarkStep ==
  ASSUME EdgeTypeOK, MarkInv, [EdgeNext]_edgeVars
  PROVE  MarkInv'
<1> USE DEF channel, flush, locals, counts, marks
<1>0. /\ pc \in [Threads -> Steps] /\ depth \in [Threads -> Nat] /\ loaded \in [Threads -> Nat]
      /\ high_water \in Nat /\ highest \in Nat /\ Relay \in Threads /\ Producers \subseteq Threads
  BY DEF EdgeTypeOK, Threads
<1>1. ASSUME NEW t \in Threads, pc[t] = "ready", UNCHANGED <<depth, loaded, high_water, highest>>,
             pc' = [pc EXCEPT ![t] = "measure"]
      PROVE  MarkInv'
  BY <1>0, <1>1, MarkFrame
<1>2. ASSUME NEW t \in Threads, Send(t)
      PROVE  MarkInv'
  BY <1>1, <1>2 DEF Send, Put, Did
<1>3. CASE Take \/ FlushOne \/ Resend
  BY <1>0, <1>1, <1>3 DEF Take, FlushOne, Resend, Put, Did
<1>4. CASE BeginFlush \/ FlushEmpty \/ FlushDone \/ RelayEnds \/ UNCHANGED edgeVars
  BY <1>4, MarkFrame DEF BeginFlush, FlushEmpty, FlushDone, RelayEnds, edgeVars
<1>5. ASSUME NEW t \in Threads, Measure(t)
      PROVE  MarkInv'
  BY <1>0, <1>5 DEF Measure, Goto, MarkInv, Raising
<1>6. ASSUME NEW t \in Threads, Count(t)
      PROVE  MarkInv'
  BY <1>0, <1>6 DEF Count, Goto, MarkInv, Raising
<1>7. ASSUME NEW t \in Threads, StoreDepth(t)
      PROVE  MarkInv'
  BY <1>0, <1>7 DEF StoreDepth, Goto, MarkInv, Raising
<1>8. ASSUME NEW t \in Threads, LoadHighWater(t)
      PROVE  MarkInv'
  BY <1>8, MarkCompare DEF LoadHighWater, Raising
<1>9. ASSUME NEW t \in Threads, RaiseHighWater(t)
      PROVE  MarkInv'
  <2>1. CASE high_water = loaded[t] /\ high_water' = depth[t] /\ Return(t)
    BY <1>0, <1>9, <2>1 DEF RaiseHighWater, Return, Goto, MarkInv, Raising
  <2>2. CASE Compare(t, high_water) /\ UNCHANGED high_water
    BY <1>0, <1>9, <2>2, MarkCompare DEF RaiseHighWater, Raising
  <2> QED
    BY <1>9, <2>1, <2>2 DEF RaiseHighWater, CompareExchange
<1> QED
  BY <1>2, <1>3, <1>4, <1>5, <1>6, <1>7, <1>8, <1>9 DEF EdgeNext, RecordStep

(* When every thread is at rest the high-water mark is the greatest depth   *)
(* recorded, for any number of threads and any interleaving of relaxed      *)
(* loads and exchanges that may fail (PipelineEdgeMetrics::record_depth).   *)
THEOREM HighWaterIsExact == EdgeSpec => []HighWaterExact
<1>1. EdgeInit => MarkInv
  BY DEF EdgeInit, MarkInv, Raising
<1>2. EdgeTypeOK /\ MarkInv => HighWaterExact
  BY DEF EdgeTypeOK, MarkInv, Raising, HighWaterExact, AtRest
<1> QED
  BY <1>1, <1>2, EdgeTypeInit, EdgeTypeStep, MarkStep, PTL DEF EdgeSpec

-----------------------------------------------------------------------------
(* The counters *)

(* A thread about to count has changed the queue one way or the other, and  *)
(* the threads are finitely many.                                           *)
CountInv ==
  /\ CountersBalance
  /\ \A t \in Threads : pc[t] \in {"measure", "count"} => operation[t] # "none"

LEMMA UncountedNumber ==
  ASSUME NEW op
  PROVE  IsFiniteSet(Uncounted(op)) /\ Cardinality(Uncounted(op)) \in Nat
<1>1. IsFiniteSet(Threads)
  BY MetricsConstants, FS_AddElement DEF Threads
<1>2. Uncounted(op) \subseteq Threads
  BY DEF Uncounted
<1> QED
  BY <1>1, <1>2, FS_Subset, FS_CardinalityType

(* Changing the queue adds the thread to those that have to count.          *)
LEMMA DidUncounted ==
  ASSUME EdgeTypeOK, NEW t \in Threads, NEW op, pc[t] = "ready", Did(t, op)
  PROVE  /\ Cardinality(Uncounted(op)') = Cardinality(Uncounted(op)) + 1
         /\ \A other : other # op => Uncounted(other)' = Uncounted(other)
<1>0. pc \in [Threads -> Steps] /\ operation \in [Threads -> {"none", "enqueue", "refused", "dequeue"}]
  BY DEF EdgeTypeOK
<1>1. Uncounted(op)' = Uncounted(op) \cup {t} /\ t \notin Uncounted(op)
  BY <1>0 DEF Did, Uncounted
<1>2. ASSUME NEW other, other # op
      PROVE  Uncounted(other)' = Uncounted(other)
  BY <1>0, <1>2 DEF Did, Uncounted
<1> QED
  BY <1>1, <1>2, UncountedNumber, FS_AddElement

(* Nothing else that a thread does changes which threads have to count.     *)
LEMMA UncountedFrame ==
  ASSUME \A t \in Threads :
           (pc'[t] \in {"measure", "count"}) = (pc[t] \in {"measure", "count"})
             /\ (pc[t] \in {"measure", "count"} => operation'[t] = operation[t])
  PROVE  \A op : Uncounted(op)' = Uncounted(op)
BY DEF Uncounted

LEMMA CountStep ==
  ASSUME EdgeTypeOK, CountInv, [EdgeNext]_edgeVars
  PROVE  CountInv'
<1> USE DEF channel, flush, locals, counts, marks
<1>0. /\ pc \in [Threads -> Steps] /\ operation \in [Threads -> {"none", "enqueue", "refused", "dequeue"}]
      /\ Relay \in Threads /\ Producers \subseteq Threads /\ queue \in Seq(Messages)
      /\ enqueued \in Nat /\ dequeued \in Nat
  BY DEF EdgeTypeOK, Threads
<1>n. \A op : Cardinality(Uncounted(op)) \in Nat
  BY UncountedNumber
<1>1. ASSUME NEW t \in Threads, NEW message \in Messages, pc[t] = "ready", Put(t, message),
             open' = open
      PROVE  CountInv'
  <2>1. CASE open
    <3>1. Did(t, "enqueue") /\ queue' = Append(queue, message)
      BY <1>1, <2>1 DEF Put
    <3>2. Len(queue') = Len(queue) + 1 /\ Len(queue) \in Nat
      BY <1>0, <3>1
    <3>3. /\ Cardinality(Uncounted("enqueue")') = Cardinality(Uncounted("enqueue")) + 1
          /\ Uncounted("dequeue")' = Uncounted("dequeue")
      BY <1>1, <3>1, DidUncounted
    <3>4. UNCHANGED <<enqueued, dequeued>>
      BY <3>1 DEF Did
    <3>5. CountersBalance'
      BY <1>0, <1>1, <1>n, <2>1, <3>2, <3>3, <3>4 DEF CountInv, CountersBalance
    <3> QED
      BY <1>0, <3>1, <3>5 DEF CountInv, Did
  <2>2. CASE ~open
    BY <1>0, <1>1, <2>2 DEF Put, Did, CountInv, CountersBalance
  <2> QED
    BY <2>1, <2>2
<1>2. ASSUME NEW t \in Threads, Send(t)
      PROVE  CountInv'
  BY <1>1, <1>2 DEF Send
<1>3. CASE Resend
  <2>1. "request" \in Messages
    BY DEF Messages
  <2> QED
    BY <1>0, <1>1, <1>3, <2>1 DEF Resend
<1>4. CASE Take \/ FlushOne
  <2>1. /\ pc[Relay] = "ready" /\ queue # <<>> /\ queue' = Tail(queue) /\ Did(Relay, "dequeue")
        /\ open' = open
    BY <1>4 DEF Take, FlushOne
  <2>2. Len(queue') = Len(queue) - 1 /\ Len(queue) \in Nat
    BY <1>0, <2>1
  <2>3. /\ Cardinality(Uncounted("dequeue")') = Cardinality(Uncounted("dequeue")) + 1
        /\ Uncounted("enqueue")' = Uncounted("enqueue")
    BY <1>0, <2>1, DidUncounted
  <2>4. UNCHANGED <<enqueued, dequeued>>
    BY <2>1 DEF Did
  <2>5. CountersBalance'
    BY <1>0, <1>n, <2>1, <2>2, <2>3, <2>4 DEF CountInv, CountersBalance
  <2> QED
    BY <1>0, <2>1, <2>5 DEF CountInv, Did
<1>5. CASE BeginFlush \/ FlushEmpty \/ FlushDone \/ UNCHANGED edgeVars
  <2>1. UNCHANGED <<pc, operation, queue, open, enqueued, dequeued>>
    BY <1>5 DEF BeginFlush, FlushEmpty, FlushDone, edgeVars
  <2> QED
    BY <2>1 DEF CountInv, CountersBalance, Uncounted
<1>6. CASE RelayEnds
  BY <1>6 DEF RelayEnds, CountInv, CountersBalance
<1>7. ASSUME NEW t \in Threads, Measure(t) \/ StoreDepth(t) \/ LoadHighWater(t) \/ RaiseHighWater(t)
      PROVE  CountInv'
  <2>1. /\ UNCHANGED <<queue, open, enqueued, dequeued>>
        /\ \A u \in Threads :
             /\ (pc'[u] \in {"measure", "count"}) = (pc[u] \in {"measure", "count"})
             /\ pc[u] \in {"measure", "count"} => operation'[u] = operation[u]
    BY <1>0, <1>7 DEF Measure, StoreDepth, LoadHighWater, RaiseHighWater, CompareExchange, Compare,
                      Return, Goto
  <2>2. \A op : Uncounted(op)' = Uncounted(op)
    BY <2>1, UncountedFrame
  <2> QED
    BY <2>1, <2>2 DEF CountInv, CountersBalance
<1>8. ASSUME NEW t \in Threads, Count(t)
      PROVE  CountInv'
  <2>0. /\ pc[t] = "count" /\ pc' = [pc EXCEPT ![t] = "store"] /\ Add(t)
        /\ UNCHANGED <<queue, open, operation>>
    BY <1>8 DEF Count, Goto
  <2>1. \A op : Uncounted(op)' = Uncounted(op) \ {t}
    BY <1>0, <2>0 DEF Uncounted
  <2>2. \A op : t \in Uncounted(op) <=> operation[t] = op
    BY <2>0 DEF Uncounted
  <2>3. ASSUME NEW op, operation[t] = op
        PROVE  Cardinality(Uncounted(op)) = Cardinality(Uncounted(op)') + 1
    <3>1. t \in Uncounted(op) /\ Uncounted(op)' = Uncounted(op) \ {t}
      BY <2>1, <2>2, <2>3
    <3>2. Cardinality(Uncounted(op) \ {t}) = Cardinality(Uncounted(op)) - 1
      BY <3>1, UncountedNumber, FS_RemoveElement
    <3> QED
      BY <1>n, <3>1, <3>2
  <2>4. ASSUME NEW op, operation[t] # op
        PROVE  Uncounted(op)' = Uncounted(op)
    BY <2>1, <2>2, <2>4
  <2>5. CountersBalance'
    <3>1. CASE operation[t] = "enqueue"
      <4>1. /\ Cardinality(Uncounted("enqueue")) = Cardinality(Uncounted("enqueue")') + 1
            /\ Uncounted("dequeue")' = Uncounted("dequeue")
        BY <2>3, <2>4, <3>1
      <4>2. Cardinality(Uncounted("enqueue")') \in Nat
        <5>1. IsFiniteSet(Uncounted("enqueue") \ {t})
          BY UncountedNumber, FS_RemoveElement
        <5> QED
          BY <2>1, <5>1, FS_CardinalityType
      <4>3. enqueued' = enqueued + 1 /\ dequeued' = dequeued
        BY <1>0, <2>0, <3>1 DEF Add
      <4>4. Len(queue) \in Nat
        BY <1>0
      <4> QED
        BY <1>0, <1>n, <2>0, <4>1, <4>2, <4>3, <4>4 DEF CountInv, CountersBalance
    <3>2. CASE operation[t] = "dequeue"
      <4>1. /\ Cardinality(Uncounted("dequeue")) = Cardinality(Uncounted("dequeue")') + 1
            /\ Uncounted("enqueue")' = Uncounted("enqueue")
        BY <2>3, <2>4, <3>2
      <4>2. Cardinality(Uncounted("dequeue")') \in Nat
        <5>1. IsFiniteSet(Uncounted("dequeue") \ {t})
          BY UncountedNumber, FS_RemoveElement
        <5> QED
          BY <2>1, <5>1, FS_CardinalityType
      <4>3. dequeued' = dequeued + 1 /\ enqueued' = enqueued
        BY <1>0, <2>0, <3>2 DEF Add
      <4>4. Len(queue) \in Nat
        BY <1>0
      <4> QED
        BY <1>0, <1>n, <2>0, <4>1, <4>2, <4>3, <4>4 DEF CountInv, CountersBalance
    <3>3. CASE operation[t] \notin {"enqueue", "dequeue"}
      BY <1>0, <1>n, <2>0, <2>4, <3>3 DEF CountInv, CountersBalance, Add
    <3> QED
      BY <3>1, <3>2, <3>3
  <2> QED
    BY <1>0, <2>0, <2>5 DEF CountInv
<1> QED
  BY <1>2, <1>3, <1>4, <1>5, <1>6, <1>7, <1>8 DEF EdgeNext, RecordStep

(* The counters of the panel agree with the queue as long as the relay      *)
(* lives, for any number of threads and any interleaving of their steps     *)
(* (record_pipeline_enqueue, record_pipeline_dequeue).                      *)
THEOREM CountersAgree == EdgeSpec => []CountersBalance
<1>1. EdgeInit => CountInv
  <2> SUFFICES ASSUME EdgeInit PROVE CountInv
    OBVIOUS
  <2>1. \A op : Uncounted(op) = {}
    BY DEF EdgeInit, Uncounted
  <2>2. Cardinality(Uncounted("enqueue")) = 0 /\ Cardinality(Uncounted("dequeue")) = 0
    BY <2>1, FS_EmptySet
  <2> QED
    BY <2>2 DEF EdgeInit, CountInv, CountersBalance
<1>2. CountInv => CountersBalance
  BY DEF CountInv
<1> QED
  BY <1>1, <1>2, EdgeTypeInit, EdgeTypeStep, CountStep, PTL DEF EdgeSpec
=============================================================================
