------------------------------- MODULE RunRow -------------------------------
(***************************************************************************)
(* One row of the workflow_runs table and the conditional updates the code *)
(* applies to it.  The status machine is WorkflowRun.mark_* of             *)
(* workflow_entities.py; the owner and lease columns are the ones          *)
(* repository_postgres/_runs.py keeps beside it.                           *)
(*                                                                         *)
(* The lease is kept as its age, the ticks since the last grant:           *)
(* worker_lease_expires_at is that grant plus WORKER_LEASE_DURATION, so    *)
(* "expired for at least the grace period" is an age of Lease + Grace.     *)
(***************************************************************************)
EXTENDS Integers

CONSTANT NoOwner      \* worker_owner_token IS NULL

Statuses == {"pending", "running", "succeeded", "failed", "cancelled"}

(* WorkflowRunStatus.is_terminal *)
Terminal == {"succeeded", "failed", "cancelled"}

(* The statuses that hold a slot of the workspace's run quota. *)
Active == {"pending", "running"}

(* The preconditions of WorkflowRun.mark_*: any other status raises        *)
(* ValueError and the row stays as it was.                                 *)
CanStart(row)   == row.status = "pending"
CanSucceed(row) == row.status = "running"
CanFail(row)    == row.status \in {"pending", "running"}
CanCancel(row)  == row.status \notin Terminal

(* The row as created: pending, nobody's.                                  *)
NewRow == [status |-> "pending", owner |-> NoOwner, age |-> 0]

(* A mutation: a status the enumeration does not have. *)
StartMisnamed(row) == [row EXCEPT !.status = "started"]

(* mark_run_started: started by hand, without an owner or a lease.         *)
Start(row) == [row EXCEPT !.status = "running"]

(* claim_worker_run: started, and leased to the worker with this token.    *)
Claim(token) == [status |-> "running", owner |-> token, age |-> 0]

(* _update_run with a terminal status also clears the token and the lease. *)
End(status) == [status |-> status, owner |-> NoOwner, age |-> 0]

(* _renew_on_connection: the UPDATE's WHERE clause, and its SET.           *)
Holds(row, token) == row.status = "running" /\ row.owner = token
Renew(row)        == [row EXCEPT !.age = 0]
=============================================================================
