------------------------------- MODULE LocalWs -------------------------------
(***************************************************************************)
(* The local websocket server: run_local_ws_server in ws.rs.               *)
(*                                                                         *)
(* A thread forwards every tick from its channel to a broadcast channel of *)
(* fixed capacity.  The server accepts clients, and a task per client      *)
(* sends it what is broadcast from then on.  A task that falls behind by   *)
(* more than the capacity loses messages and drops its client.  The panel  *)
(* lists the clients; the user may ask for one to be disconnected, by its  *)
(* address.                                                                *)
(*                                                                         *)
(* Messages are numbered in the order of forwarding.  The listener could   *)
(* be bound.  An address is used again only after the panel has let go of  *)
(* it.                                                                     *)
(***************************************************************************)
EXTENDS Naturals, Sequences, FiniteSets

CONSTANTS
  Addresses,    (* of clients                                              *)
  Capacity,     (* of the broadcast channel (64)                           *)
  MaxMessages,  (* bound: ticks produced                                   *)
  MaxAccepts,   (* bound: clients accepted                                 *)
  MaxRequests   (* bound: disconnections asked for                         *)

ASSUME LocalWsBounds ==
  /\ IsFiniteSet(Addresses) /\ Capacity \in Nat \ {0}
  /\ {MaxMessages, MaxAccepts, MaxRequests} \subseteq Nat

VARIABLES
  serverPc,     (* the accept loop                                         *)
  waiting,      (* ticks in the channel from the main loop                 *)
  forwarded,    (* messages broadcast so far                               *)
  task,         (* where the task of each address stands                   *)
  next,         (* the next message of each receiver (0: never had one)    *)
  clients,      (* status.local_ws.clients                                 *)
  clientCount,  (* status.local_ws.client_count                            *)
  requests,     (* client_disconnect_requests                              *)
  shutdown,
  received,     (* history: what each client got in this connection        *)
  produced, accepts, asks (* how much of the bounds is used                *)

panelVars == <<clients, clientCount>>
boundVars == <<produced, accepts, asks>>
vars == <<serverPc, waiting, forwarded, task, next, panelVars, requests, shutdown,
          received, boundVars>>

(* accept_async; the select of the loop; ws.send; past the loop.            *)
TaskStages == {"none", "handshake", "select", "send", "leave"}
Subscribed(a) == task[a] \notin {"none", "leave"}

Init ==
  /\ serverPc = "running" /\ waiting = 0 /\ forwarded = 0
  /\ task = [a \in Addresses |-> "none"] /\ next = [a \in Addresses |-> 0]
  /\ clients = {} /\ clientCount = 0 /\ requests = {} /\ shutdown = FALSE
  /\ received = [a \in Addresses |-> <<>>]
  /\ produced = 0 /\ accepts = 0 /\ asks = 0

-----------------------------------------------------------------------------
(* Around the server *)

(* tick_once; the channel is unbounded. *)
Produce ==
  /\ produced < MaxMessages /\ ~shutdown
  /\ produced' = produced + 1 /\ waiting' = waiting + 1
  /\ UNCHANGED <<serverPc, forwarded, task, next, panelVars, requests, shutdown, received,
                 accepts, asks>>

(* DisconnectClient, for an address that is or was on the panel when the    *)
(* user chose it.                                                           *)
RequestDisconnect(a) ==
  /\ asks < MaxRequests /\ next[a] > 0
  /\ asks' = asks + 1
  /\ requests' = requests \cup {a}
  /\ UNCHANGED <<serverPc, waiting, forwarded, task, next, panelVars, shutdown, received,
                 produced, accepts>>

RequestShutdown ==
  /\ ~shutdown /\ shutdown' = TRUE
  /\ UNCHANGED <<serverPc, waiting, forwarded, task, next, panelVars, requests, received, boundVars>>

-----------------------------------------------------------------------------
(* Mutant: the channel waits for its slowest receiver. *)
ForwardInStep ==
  /\ waiting > 0
  /\ \A a \in Addresses : Subscribed(a) => forwarded + 1 - next[a] < Capacity
  /\ waiting' = waiting - 1 /\ forwarded' = forwarded + 1
  /\ UNCHANGED <<serverPc, task, next, panelVars, requests, shutdown, received, boundVars>>

(* The forwarding thread: a broadcast never waits for a receiver. *)
Forward ==
  /\ waiting > 0
  /\ waiting' = waiting - 1 /\ forwarded' = forwarded + 1
  /\ UNCHANGED <<serverPc, task, next, panelVars, requests, shutdown, received, boundVars>>

-----------------------------------------------------------------------------
(* The accept loop *)

Accept(a) ==
  /\ serverPc = "running" /\ accepts < MaxAccepts
  /\ task[a] = "none" /\ a \notin clients
  /\ accepts' = accepts + 1
  /\ clients' = clients \cup {a} /\ clientCount' = clientCount + 1
  /\ task' = [task EXCEPT ![a] = "handshake"]
  /\ next' = [next EXCEPT ![a] = forwarded + 1]
  /\ received' = [received EXCEPT ![a] = <<>>]
  /\ UNCHANGED <<serverPc, waiting, forwarded, requests, shutdown, produced, asks>>

(* The function returns, at a shutdown or because accept failed: the tokio  *)
(* runtime goes, and with it all tasks, wherever they are.  The panel keeps *)
(* what it had.                                                             *)
ServerEnds ==
  /\ serverPc = "running"
  /\ serverPc' = "ended"
  /\ task' = [a \in Addresses |-> "none"]
  /\ UNCHANGED <<waiting, forwarded, next, panelVars, requests, shutdown, received, boundVars>>

-----------------------------------------------------------------------------
(* The task of a client *)

TaskOthers == UNCHANGED <<serverPc, waiting, forwarded, shutdown, boundVars>>

HandshakeDone(a) ==
  /\ task[a] = "handshake" /\ task' = [task EXCEPT ![a] = "select"]
  /\ UNCHANGED <<next, panelVars, requests, received>> /\ TaskOthers

(* Mutant: a client that never becomes a websocket is not taken off. *)
HandshakeForgets(a) ==
  /\ task[a] = "handshake" /\ task' = [task EXCEPT ![a] = "none"]
  /\ UNCHANGED <<next, panelVars, requests, received>> /\ TaskOthers

HandshakeFails(a) ==
  /\ task[a] = "handshake" /\ task' = [task EXCEPT ![a] = "leave"]
  /\ UNCHANGED <<next, panelVars, requests, received>> /\ TaskOthers

(* control_interval ticks: the flag first, then the requests. *)
LeaveAtShutdown(a) ==
  /\ task[a] = "select" /\ shutdown
  /\ task' = [task EXCEPT ![a] = "leave"]
  /\ UNCHANGED <<next, panelVars, requests, received>> /\ TaskOthers

(* Mutant: taking one request takes them all. *)
ClearRequests(a) == {}

(* take_client_disconnect_request *)
TakeRequest(a) == requests \ {a}

Kick(a) ==
  /\ task[a] = "select" /\ ~shutdown /\ a \in requests
  /\ requests' = TakeRequest(a)
  /\ task' = [task EXCEPT ![a] = "leave"]
  /\ UNCHANGED <<next, panelVars, received>> /\ TaskOthers

(* The channel keeps the last Capacity messages. *)
Behind(a) == forwarded + 1 - next[a] > Capacity

Receive(a) ==
  /\ task[a] = "select" /\ next[a] <= forwarded /\ ~Behind(a)
  /\ task' = [task EXCEPT ![a] = "send"]
  /\ UNCHANGED <<next, panelVars, requests, received>> /\ TaskOthers

(* Mutant: a laggard goes on with the oldest message there is. *)
CatchUp(a) ==
  /\ task[a] = "select" /\ Behind(a)
  /\ next' = [next EXCEPT ![a] = forwarded + 1 - Capacity]
  /\ UNCHANGED <<task, panelVars, requests, received>> /\ TaskOthers

(* RecvError::Lagged *)
DropLaggard(a) ==
  /\ task[a] = "select" /\ Behind(a)
  /\ task' = [task EXCEPT ![a] = "leave"]
  /\ UNCHANGED <<next, panelVars, requests, received>> /\ TaskOthers

(* While ws.send waits for a slow client, the task sees nothing else.       *)
Sent(a) ==
  /\ task[a] = "send" /\ task' = [task EXCEPT ![a] = "select"]
  /\ received' = [received EXCEPT ![a] = Append(@, next[a])]
  /\ next' = [next EXCEPT ![a] = @ + 1]
  /\ UNCHANGED <<panelVars, requests>> /\ TaskOthers

SendFails(a) ==
  /\ task[a] = "send" /\ task' = [task EXCEPT ![a] = "leave"]
  /\ UNCHANGED <<next, panelVars, requests, received>> /\ TaskOthers

Leave(a) ==
  /\ task[a] = "leave" /\ task' = [task EXCEPT ![a] = "none"]
  /\ clients' = clients \ {a} /\ clientCount' = Cardinality(clients')
  /\ UNCHANGED <<next, requests, received>> /\ TaskOthers

-----------------------------------------------------------------------------
(* What a task does of its own accord; the rest is up to its client.        *)
Task(a) ==
  LeaveAtShutdown(a) \/ Kick(a) \/ Receive(a) \/ DropLaggard(a) \/ Leave(a)

Peer(a) == HandshakeDone(a) \/ HandshakeFails(a) \/ Sent(a) \/ SendFails(a)

Next ==
  \/ Produce \/ RequestShutdown \/ Forward \/ ServerEnds
  \/ \E a \in Addresses : RequestDisconnect(a) \/ Accept(a) \/ Task(a) \/ Peer(a)

Spec == Init /\ [][Next]_vars

(* The runtime runs every task, and select! chooses at random among the     *)
(* branches that are ready, so that messages cannot keep the control        *)
(* interval out for ever.  Of a client nothing is assumed.                  *)
FairSpec ==
  /\ Spec /\ WF_vars(Forward)
  /\ \A a \in Addresses :
       WF_vars(Task(a)) /\ SF_vars(Kick(a)) /\ SF_vars(LeaveAtShutdown(a))

-----------------------------------------------------------------------------
(* Properties *)

TypeOK ==
  /\ serverPc \in {"running", "ended"}
  /\ {waiting, forwarded, produced} \subseteq 0..MaxMessages
  /\ task \in [Addresses -> TaskStages] /\ next \in [Addresses -> 0..MaxMessages + 1]
  /\ clients \subseteq Addresses /\ clientCount \in 0..Cardinality(Addresses)
  /\ requests \subseteq Addresses /\ shutdown \in BOOLEAN
  /\ received \in [Addresses -> Seq(1..MaxMessages)]
  /\ accepts \in 0..MaxAccepts /\ asks \in 0..MaxRequests

(* A client gets a run of consecutive messages: one that cannot keep up is  *)
(* dropped, never given a stream with a hole in it.                         *)
GaplessStream ==
  \A a \in Addresses : \A i \in 1..Len(received[a]) - 1 :
    received[a][i + 1] = received[a][i] + 1

(* While the server runs, the panel lists the clients that have a task, and *)
(* counts them, however each of them came to an end.                        *)
PanelMatchesTasks ==
  serverPc = "running" =>
    /\ clients = {a \in Addresses : task[a] # "none"}
    /\ clientCount = Cardinality(clients)

(* A slow client delays nobody: what is produced is broadcast, and a client *)
(* that is not held up by its own connection gets it, unless it lags.       *)
EveryoneElseIsServed ==
  \A a \in Addresses : \A m \in 1..MaxMessages :
    (task[a] = "select" /\ next[a] = m /\ produced >= m) ~> (task[a] # "select" \/ next[a] > m)

(* A client the user wants to go is gone in the end, unless it is itself    *)
(* holding up its handshake or a message.                                   *)
DisconnectsHappen ==
  \A a \in Addresses :
    (a \in requests /\ task[a] = "select")
      ~> (task[a] \in {"none", "handshake", "send"} \/ serverPc = "ended")
=============================================================================
