-------------------------- MODULE CommandContract --------------------------
(***************************************************************************)
(* What the panel promises the user about the commands: each waits its     *)
(* turn, is executed by one executor, and is then marked for good.         *)
(*                                                                         *)
(* There are two executors: the update worker for checks and               *)
(* installations, the main thread for everything else.  CommandLifecycle   *)
(* implements this with a TUI, two channels and the threads that read      *)
(* them.                                                                   *)
(***************************************************************************)
EXTENDS Naturals, Sequences

CONSTANT Kinds   (* of commands *)

VARIABLES
  kind,      (* kinds of the commands so far; the id is the index           *)
  state,     (* queued, running, succeeded or failed                        *)
  stopping   (* the program is shutting down                                *)

vars == <<kind, state, stopping>>

Commands == 1..Len(kind)
Executor(c) == IF kind[c] \in {"check", "install"} THEN "update" ELSE "main"
Rivals(c) == {d \in Commands \ {c} : Executor(d) = Executor(c)}
Running(S) == {d \in S : state[d] = "running"}
Becomes(c, s) == state' = [state EXCEPT ![c] = s]

Init == kind = <<>> /\ state = <<>> /\ stopping = FALSE

(* The user gives a command. *)
Issue(k) ==
  /\ kind' = Append(kind, k) /\ state' = Append(state, "queued")
  /\ UNCHANGED stopping

(* An executor starts its commands in the order they were given, one at a   *)
(* time; only a reconnect to xemu lets others in while it goes on.          *)
Start(c) ==
  /\ state[c] = "queued"
  /\ \A d \in Rivals(c) : d < c => state[d] # "queued"
  /\ \A d \in Running(Rivals(c)) : kind[d] = "reconnect xemu"
  /\ Becomes(c, "running") /\ UNCHANGED <<kind, stopping>>

(* Whatever goes on inside a reconnect to xemu is refused, except a         *)
(* shutdown, which is always carried out.                                   *)
Succeed(c) ==
  /\ state[c] = "running"
  /\ Running(Rivals(c)) = {} \/ kind[c] = "shutdown"
  /\ Becomes(c, "succeeded") /\ UNCHANGED kind
  /\ stopping' = (stopping \/ kind[c] = "shutdown")

Fail(c) ==
  /\ state[c] = "running" /\ kind[c] # "shutdown"
  /\ Becomes(c, "failed") /\ UNCHANGED kind
  /\ stopping' \in {stopping, TRUE}

(* A command is turned away untried only when there is no one to try it.    *)
Reject(c) ==
  /\ state[c] = "queued" /\ stopping
  /\ Becomes(c, "failed") /\ UNCHANGED <<kind, stopping>>

(* An update was installed, or xemu could not be reached.                   *)
Stop == ~stopping /\ stopping' = TRUE /\ UNCHANGED <<kind, state>>

Next ==
  \/ \E k \in Kinds : Issue(k)
  \/ \E c \in Commands : Start(c) \/ Succeed(c) \/ Fail(c) \/ Reject(c)
  \/ Stop

Spec == Init /\ [][Next]_vars
=============================================================================
