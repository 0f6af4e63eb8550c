--------------------------- MODULE UploadContract ---------------------------
(***************************************************************************)
(* What the relay client promises the rest of the program about one replay *)
(* upload request, with no connection, queue or task in sight.  A request  *)
(* accepted from the replay worker stays open until exactly one thing      *)
(* closes it for good, and every transfer that fails while it is open is   *)
(* charged to one retry budget that nothing refills.                       *)
(*                                                                         *)
(* RelayUpload, the module translated from ws.rs, implements this one.     *)
(***************************************************************************)
EXTENDS Naturals

CONSTANTS
  Requests,     (* request ids, one fresh uuid per saved replay file       *)
  MaxRetries    (* RelayState.max_replay_upload_retries                    *)

VARIABLES
  outcome,      (* what has become of each request                         *)
  attempts,     (* failed transfers charged to each request                *)
  stored        (* requests whose file the object store holds              *)

contractVars == <<outcome, attempts, stored>>

Settled == {"uploaded", "failed", "cancelled", "skipped"}

ContractInit ==
  /\ outcome = [r \in Requests |-> "new"]
  /\ attempts = [r \in Requests |-> 0]
  /\ stored = {}

Close(r, how) ==
  /\ outcome[r] = "open"
  /\ outcome' = [outcome EXCEPT ![r] = how]

(* The replay worker hands over a request it never handed over before. *)
Accept(r) ==
  /\ outcome[r] = "new"
  /\ outcome' = [outcome EXCEPT ![r] = "open"]
  /\ UNCHANGED <<attempts, stored>>

(* A transfer may reach the store even while the request is being closed. *)
StoreFile(r) ==
  /\ outcome[r] # "new"
  /\ stored' = stored \cup {r}
  /\ UNCHANGED <<outcome, attempts>>

ChargeFailure(r) ==
  /\ outcome[r] = "open"
  /\ attempts[r] < MaxRetries
  /\ attempts' = [attempts EXCEPT ![r] = @ + 1]
  /\ UNCHANGED <<outcome, stored>>

(* Only the failure after the last allowed retry gives the request up. *)
Abandon(r) ==
  /\ Close(r, "failed")
  /\ attempts[r] = MaxRetries
  /\ attempts' = [attempts EXCEPT ![r] = @ + 1]
  /\ UNCHANGED stored

(* Success is only claimed for a file the store holds. *)
Complete(r) ==
  /\ Close(r, "uploaded")
  /\ r \in stored
  /\ UNCHANGED <<attempts, stored>>

Revoke(r) ==
  /\ Close(r, "cancelled")
  /\ UNCHANGED <<attempts, stored>>

(* Uploads were switched off before the first transfer was asked for. *)
Skip(r) ==
  /\ Close(r, "skipped")
  /\ attempts[r] = 0
  /\ UNCHANGED <<attempts, stored>>

ContractNext ==
  \E r \in Requests :
    \/ Accept(r)
    \/ StoreFile(r)
    \/ ChargeFailure(r)
    \/ Abandon(r)
    \/ Complete(r)
    \/ Revoke(r)
    \/ Skip(r)

ContractSpec == ContractInit /\ [][ContractNext]_contractVars
=============================================================================
