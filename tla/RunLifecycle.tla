---------------------------- MODULE RunLifecycle ----------------------------
(***************************************************************************)
(* What the run machinery promises about a run, whatever the broker, the   *)
(* workers, the API and the reconcilers do: it is executed by at most one  *)
(* worker, who begins at the very step that takes the run from pending to  *)
(* running, and its outcome, once there, stays.                            *)
(***************************************************************************)
EXTENDS FiniteSets

CONSTANTS Runs, Workers

VARIABLES
  status,      \* the public status of each run
  executors    \* the workers that execute each run

vars == <<status, executors>>

Outcomes == {"succeeded", "failed", "cancelled"}

Init ==
  /\ status = [r \in Runs |-> "pending"]
  /\ executors = [r \in Runs |-> {}]

(* A worker takes the run. *)
Begin(r, w) ==
  /\ status[r] = "pending"
  /\ status' = [status EXCEPT ![r] = "running"]
  /\ executors' = [executors EXCEPT ![r] = {w}]

(* Someone starts the run by hand; nobody executes it. *)
BeginByHand(r) ==
  /\ status[r] = "pending"
  /\ status' = [status EXCEPT ![r] = "running"]
  /\ UNCHANGED executors

(* Some runs end, together; a run that never ran does not succeed. *)
Conclude(ended, outcome) ==
  /\ ended # {}
  /\ \A r \in ended : status[r] \in {"pending", "running"}
  /\ outcome = "succeeded" => \A r \in ended : status[r] = "running"
  /\ status' = [r \in Runs |-> IF r \in ended THEN outcome ELSE status[r]]

(* The worker is done with the run, or gone. *)
Leave(r, w) ==
  /\ w \in executors[r]
  /\ executors' = [executors EXCEPT ![r] = @ \ {w}]

Next ==
  \/ \E r \in Runs : \E w \in Workers : Begin(r, w)
  \/ \E r \in Runs : BeginByHand(r)
  \/ \E ended \in SUBSET Runs : \E outcome \in Outcomes :
       Conclude(ended, outcome) /\ UNCHANGED executors
  \/ \E r \in Runs : \E w \in Workers : Leave(r, w) /\ UNCHANGED status
  \/ \E r \in Runs : \E w \in Workers : \E outcome \in Outcomes :
       Conclude({r}, outcome) /\ Leave(r, w)

Spec == Init /\ [][Next]_vars
=============================================================================
