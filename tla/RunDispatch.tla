---------------------------- MODULE RunDispatch ----------------------------
(***************************************************************************)
(* How a created run reaches a worker: the trigger handler that commits    *)
(* and then publishes it, the broker, the backend's pending-run            *)
(* reconcilers and the Celery workers that load and claim it.              *)
(*                                                                         *)
(* Publishing is best effort and happens outside the transaction, so the   *)
(* row records that a run wants to be dispatched and, once the broker took *)
(* the message, that its enqueue is confirmed; the reconciler republishes  *)
(* what is old enough and was never confirmed.  Redis and Celery are not   *)
(* part of the repository; they are modelled as a multiset of messages     *)
(* that are delivered at least once, in any order.                         *)
(*                                                                         *)
(* The lease protocol after the claim is WorkerOwnership's; here a worker  *)
(* executes until it finishes or stops, and a claimed run nobody executes  *)
(* may be recovered.                                                       *)
(***************************************************************************)
EXTENDS RunRow, FiniteSets

CONSTANTS
  Runs, Workers,
  Reconcilers,     \* backend processes, one reconciler task in each
  MinAge,          \* claim_stale_pending_runs: min_age
  RetryInterval,   \* claim_stale_pending_runs: retry_interval
  PublishTime,     \* longest publish: the broker's socket timeouts
  MaxCopies,       \* bound: copies of one run's message in the queue
  MaxFaults,       \* bound: outages, crashes and lost replies in a behaviour
  NoRun

ASSUME PublishFitsRetry ==
  MinAge \in Nat /\ RetryInterval \in Nat /\ PublishTime \in 0 .. RetryInterval - 1
ASSUME NoRunIsNoRun == NoRun \notin Runs
ASSUME BoundsAreNat == MaxCopies \in Nat /\ MaxFaults \in Nat

VARIABLES
  rows,        \* workflow_runs: status, the dispatch columns and two ages
  archived,    \* whether the workflow has been archived
  queue,       \* copies of each run's message waiting at the broker
  brokerUp,
  creator,     \* the request or task that created each run
  rec,         \* each reconciler: what it does and to which run
  wk,          \* each worker: what it does with which message
  faults       \* faults so far

vars == <<rows, archived, queue, brokerUp, creator, rec, wk, faults>>

-----------------------------------------------------------------------------
Absent == [status |-> "absent", scoped |-> TRUE, owned |-> FALSE, requested |-> FALSE,
           confirmed |-> FALSE, age |-> 0, since |-> RetryInterval]

(* _create_run_locked: since is the age of last_enqueue_attempt_at, full   *)
(* while that is NULL; scoped is whether the workflow has a workspace.     *)
Created(requested, scoped) ==
  [Absent EXCEPT !.status = "pending", !.requested = requested, !.scoped = scoped]

Idle == [pc |-> "idle", run |-> NoRun]

Init ==
  /\ rows = [r \in Runs |-> Absent]
  /\ archived = FALSE
  /\ queue = [r \in Runs |-> 0]
  /\ brokerUp = TRUE
  /\ creator = [r \in Runs |-> "none"]
  /\ rec = [c \in Reconcilers |-> Idle]
  /\ wk = [w \in Workers |-> Idle]
  /\ faults = 0

Fault     == faults < MaxFaults /\ faults' = faults + 1
NoFault   == UNCHANGED faults
Put(r)    == queue[r] < MaxCopies /\ queue' = [queue EXCEPT ![r] = @ + 1]
SetStatus(r, s) == rows' = [rows EXCEPT ![r].status = s]

-----------------------------------------------------------------------------
(* The process that creates the run.                                       *)

(* handle_webhook_trigger, dispatch_manual_runs, _create_cron_run_once and *)
(* dispatch_listener_event commit a run that asks to be dispatched.        *)
CreateTriggered(r) ==
  /\ rows[r].status = "absent" /\ ~archived
  /\ \E scoped \in BOOLEAN : rows' = [rows EXCEPT ![r] = Created(TRUE, scoped)]
  /\ creator' = [creator EXCEPT ![r] = "publishing"]
  /\ UNCHANGED <<archived, queue, brokerUp, rec, wk, faults>>

(* create_run of the run API: pending until someone marks it by hand.      *)
CreateIdle(r) ==
  /\ rows[r].status = "absent" /\ ~archived
  /\ rows' = [rows EXCEPT ![r] = Created(FALSE, TRUE)]
  /\ UNCHANGED <<archived, queue, brokerUp, creator, rec, wk, faults>>

(* A mutation: the publisher's return value is not looked at. *)
PublishUnchecked(r) ==
  /\ creator[r] = "publishing"
  /\ (brokerUp /\ Put(r)) \/ (~brokerUp /\ UNCHANGED queue)
  /\ creator' = [creator EXCEPT ![r] = "confirming"]
  /\ UNCHANGED <<rows, archived, brokerUp, rec, wk, faults>>

(* _enqueue_run_for_execution: true once apply_async returned; a failure   *)
(* is logged and leaves the run to the reconciler.  A publish whose reply  *)
(* is lost has put its message all the same.                               *)
Publish(r) ==
  /\ creator[r] = "publishing"
  /\ \/ brokerUp /\ Put(r) /\ NoFault
        /\ creator' = [creator EXCEPT ![r] = "confirming"]
     \/ ~brokerUp /\ UNCHANGED queue /\ NoFault
        /\ creator' = [creator EXCEPT ![r] = "gone"]
     \/ brokerUp /\ Put(r) /\ Fault
        /\ creator' = [creator EXCEPT ![r] = "gone"]
  /\ UNCHANGED <<rows, archived, brokerUp, rec, wk>>

(* _enqueue_run_and_confirm: mark_run_enqueued, whose failure is logged.   *)
Confirm(r) ==
  /\ creator[r] = "confirming"
  /\ creator' = [creator EXCEPT ![r] = "gone"]
  /\ \/ rows' = [rows EXCEPT ![r].confirmed = TRUE] /\ NoFault
     \/ UNCHANGED rows /\ Fault
  /\ UNCHANGED <<archived, queue, brokerUp, rec, wk>>

(* The creating process dies, or an exception ends its batch after this    *)
(* run was committed.                                                      *)
CreatorStops(r) ==
  /\ creator[r] \in {"publishing", "confirming"}
  /\ creator' = [creator EXCEPT ![r] = "gone"]
  /\ Fault
  /\ UNCHANGED <<rows, archived, queue, brokerUp, rec, wk>>

-----------------------------------------------------------------------------
(* reconcile_pending_runs of one backend process, one run at a time.       *)

(* A mutation: the attempt is not stamped before publishing. *)
ClaimStaleUnstamped(c, r) ==
  /\ rec[c].pc = "idle"
  /\ rows[r].status = "pending" /\ rows[r].requested /\ ~rows[r].confirmed
  /\ rows[r].age >= MinAge /\ rows[r].since >= RetryInterval
  /\ rec' = [rec EXCEPT ![c] = [pc |-> "publishing", run |-> r]]
  /\ UNCHANGED <<rows, archived, queue, brokerUp, creator, wk, faults>>

(* claim_stale_pending_runs(limit=1) stamps last_enqueue_attempt_at.       *)
ClaimStale(c, r) ==
  /\ rec[c].pc = "idle"
  /\ rows[r].status = "pending" /\ rows[r].requested /\ ~rows[r].confirmed
  /\ rows[r].age >= MinAge /\ rows[r].since >= RetryInterval
  /\ rows' = [rows EXCEPT ![r].since = 0]
  /\ rec' = [rec EXCEPT ![c] = [pc |-> "publishing", run |-> r]]
  /\ UNCHANGED <<archived, queue, brokerUp, creator, wk, faults>>

Republish(c) ==
  LET r == rec[c].run IN
  /\ rec[c].pc = "publishing"
  /\ \/ brokerUp /\ Put(r) /\ NoFault
        /\ rec' = [rec EXCEPT ![c].pc = "confirming"]
     \/ ~brokerUp /\ UNCHANGED queue /\ NoFault
        /\ rec' = [rec EXCEPT ![c] = Idle]
     \/ brokerUp /\ Put(r) /\ Fault
        /\ rec' = [rec EXCEPT ![c] = Idle]
  /\ UNCHANGED <<rows, archived, brokerUp, creator, wk>>

(* mark_run_enqueued; an exception ends the pass.                          *)
ConfirmRepublished(c) ==
  /\ rec[c].pc = "confirming"
  /\ rec' = [rec EXCEPT ![c] = Idle]
  /\ \/ rows' = [rows EXCEPT ![rec[c].run].confirmed = TRUE] /\ NoFault
     \/ UNCHANGED rows /\ Fault
  /\ UNCHANGED <<archived, queue, brokerUp, creator, wk>>

(* The backend process restarts in the middle of a pass.                   *)
ReconcilerRestarts(c) ==
  /\ rec[c].pc # "idle"
  /\ rec' = [rec EXCEPT ![c] = Idle]
  /\ Fault
  /\ UNCHANGED <<rows, archived, queue, brokerUp, creator, wk>>

-----------------------------------------------------------------------------
(* A worker and the message it holds.  Messages are acknowledged late:     *)
(* becoming idle without Put is the acknowledgement.                       *)

Goto(w, pc) == wk' = [wk EXCEPT ![w].pc = pc]
Done(w)     == wk' = [wk EXCEPT ![w] = Idle]

Deliver(w, r) ==
  /\ wk[w].pc = "idle" /\ brokerUp /\ queue[r] > 0
  /\ queue' = [queue EXCEPT ![r] = @ - 1]
  /\ wk' = [wk EXCEPT ![w] = [pc |-> "delivered", run |-> r]]
  /\ UNCHANGED <<rows, archived, brokerUp, creator, rec, faults>>

(* _load_and_validate_run: no workspace header, no longer pending, or the  *)
(* workflow is archived, or fit to be claimed.                             *)
LoadRun(w) ==
  LET r == wk[w].run IN
  /\ wk[w].pc = "delivered"
  /\ IF ~rows[r].scoped \/ rows[r].status # "pending" THEN Done(w)
     ELSE Goto(w, IF archived THEN "rejecting" ELSE "loaded")
  /\ UNCHANGED <<rows, archived, queue, brokerUp, creator, rec, faults>>

(* A mutation: the workflow's state is written as the run's. *)
RejectRunMislabelled(w) ==
  /\ wk[w].pc = "rejecting"
  /\ SetStatus(wk[w].run, "archived")
  /\ Done(w)
  /\ UNCHANGED <<archived, queue, brokerUp, creator, rec, faults>>

(* mark_run_cancelled for an archived workflow; ValueError when the run    *)
(* has ended meanwhile.                                                    *)
RejectRun(w) ==
  LET r == wk[w].run IN
  /\ wk[w].pc = "rejecting"
  /\ IF CanCancel(rows[r]) THEN SetStatus(r, "cancelled") ELSE UNCHANGED rows
  /\ Done(w)
  /\ UNCHANGED <<archived, queue, brokerUp, creator, rec, faults>>

(* A mutation: the claim trusts the status read when the run was loaded. *)
ClaimRunUnlocked(w) ==
  /\ wk[w].pc = "loaded"
  /\ rows' = [rows EXCEPT ![wk[w].run].status = "running", ![wk[w].run].owned = TRUE]
  /\ Goto(w, "executing")
  /\ UNCHANGED <<archived, queue, brokerUp, creator, rec, faults>>

(* claim_worker_run: under the row lock, only a pending run is taken.      *)
ClaimRun(w) ==
  LET r == wk[w].run IN
  /\ wk[w].pc = "loaded"
  /\ IF CanStart(rows[r])
     THEN /\ rows' = [rows EXCEPT ![r].status = "running", ![r].owned = TRUE]
          /\ Goto(w, "executing")
     ELSE UNCHANGED rows /\ Done(w)
  /\ UNCHANGED <<archived, queue, brokerUp, creator, rec, faults>>

(* A mutation: the failed task is acknowledged and not retried. *)
RetryTaskDropped(w) ==
  /\ wk[w].pc \in {"delivered", "loaded", "rejecting"}
  /\ Done(w)
  /\ Fault
  /\ UNCHANGED <<rows, archived, queue, brokerUp, creator, rec>>

(* execute_run: an OperationalError before or in the claim is retried with *)
(* a new message; the claim may have committed although its reply is lost. *)
RetryTask(w) ==
  LET r == wk[w].run IN
  /\ wk[w].pc \in {"delivered", "loaded", "rejecting"}
  /\ \/ UNCHANGED rows
     \/ /\ wk[w].pc = "loaded" /\ CanStart(rows[r])
        /\ rows' = [rows EXCEPT ![r].status = "running", ![r].owned = TRUE]
  /\ brokerUp /\ Put(r)
  /\ Done(w)
  /\ Fault
  /\ UNCHANGED <<archived, brokerUp, creator, rec>>

(* The outcome is committed, unless the run was ended by someone else.     *)
FinishRun(w) ==
  LET r == wk[w].run IN
  /\ wk[w].pc = "executing"
  /\ IF rows[r].status = "running"
     THEN \E s \in {"succeeded", "failed"} : SetStatus(r, s)
     ELSE UNCHANGED rows
  /\ Done(w)
  /\ UNCHANGED <<archived, queue, brokerUp, creator, rec, faults>>

(* The worker process dies, or its task is cancelled when it loses its     *)
(* lease: the unacknowledged message is delivered again.                   *)
WorkerStops(w) ==
  /\ wk[w].pc # "idle"
  /\ Put(wk[w].run)
  /\ Done(w)
  /\ Fault
  /\ UNCHANGED <<rows, archived, brokerUp, creator, rec>>

(* The broker's visibility timeout: a message still held by a worker is    *)
(* delivered again.                                                        *)
Redeliver(w) ==
  /\ wk[w].pc # "idle" /\ brokerUp
  /\ Put(wk[w].run)
  /\ Fault
  /\ UNCHANGED <<rows, archived, brokerUp, creator, rec, wk>>

-----------------------------------------------------------------------------
(* Everything else that touches a run.                                     *)

ExecutedBy(r) == {w \in Workers : wk[w].pc = "executing" /\ wk[w].run = r}

(* fail_orphaned_worker_runs, when the claiming worker has stopped.        *)
RecoverOrphan(r) ==
  /\ rows[r].status = "running" /\ rows[r].owned /\ ExecutedBy(r) = {}
  /\ SetStatus(r, "failed")
  /\ UNCHANGED <<archived, queue, brokerUp, creator, rec, wk, faults>>

(* The run API: start, succeed, fail or cancel a run by hand.              *)
MarkByHand(r) ==
  /\ rows[r].status \in Active
  /\ \/ CanStart(rows[r])   /\ SetStatus(r, "running")
     \/ CanSucceed(rows[r]) /\ SetStatus(r, "succeeded")
     \/ CanFail(rows[r])    /\ SetStatus(r, "failed")
     \/ CanCancel(rows[r])  /\ SetStatus(r, "cancelled")
  /\ UNCHANGED <<archived, queue, brokerUp, creator, rec, wk, faults>>

(* update_workflow: archived, or taken back from the archive. *)
ArchiveWorkflow ==
  /\ archived' = ~archived
  /\ UNCHANGED <<rows, queue, brokerUp, creator, rec, wk, faults>>

BrokerFails ==
  /\ brokerUp /\ brokerUp' = FALSE /\ Fault
  /\ UNCHANGED <<rows, archived, queue, creator, rec, wk>>

BrokerRecovers ==
  /\ ~brokerUp /\ brokerUp' = TRUE
  /\ UNCHANGED <<rows, archived, queue, creator, rec, wk, faults>>

(* Time passes for the two ages the reconciler looks at, except past the   *)
(* end of a publish.                                                       *)
Older(row) ==
  IF row.status # "pending" THEN row
  ELSE [row EXCEPT !.age = IF @ < MinAge THEN @ + 1 ELSE @,
                   !.since = IF @ < RetryInterval THEN @ + 1 ELSE @]

Tick ==
  /\ \A c \in Reconcilers :
       rec[c].pc = "publishing" => rows[rec[c].run].since < PublishTime
  /\ rows' = [r \in Runs |-> Older(rows[r])]
  /\ rows' # rows
  /\ UNCHANGED <<archived, queue, brokerUp, creator, rec, wk, faults>>

-----------------------------------------------------------------------------
CreatorStep(r)    == CreateTriggered(r) \/ CreateIdle(r) \/ Publish(r)
                     \/ Confirm(r) \/ CreatorStops(r)
ReconcilerStep(c) == (\E r \in Runs : ClaimStale(c, r)) \/ Republish(c)
                     \/ ConfirmRepublished(c) \/ ReconcilerRestarts(c)
WorkerStep(w)     == (\E r \in Runs : Deliver(w, r)) \/ LoadRun(w) \/ RejectRun(w)
                     \/ ClaimRun(w) \/ RetryTask(w) \/ FinishRun(w)
                     \/ WorkerStops(w) \/ Redeliver(w)

Next ==
  \/ \E r \in Runs : CreatorStep(r) \/ RecoverOrphan(r) \/ MarkByHand(r)
  \/ \E c \in Reconcilers : ReconcilerStep(c)
  \/ \E w \in Workers : WorkerStep(w)
  \/ ArchiveWorkflow \/ BrokerFails \/ BrokerRecovers \/ Tick

Spec == Init /\ [][Next]_vars

(* Request handlers run on, backends keep reconciling, workers keep taking *)
(* messages and their executions end, outages end, clocks run.  The bound  *)
(* on faults is part of the assumption: they do not go on for ever.        *)
Fairness ==
  /\ WF_vars(Tick) /\ WF_vars(BrokerRecovers)
  /\ \A r \in Runs : WF_vars(Publish(r) \/ Confirm(r))
  /\ \A c \in Reconcilers :
       /\ WF_vars(\E r \in Runs : ClaimStale(c, r))
       /\ WF_vars(Republish(c) \/ ConfirmRepublished(c))
  /\ \A w \in Workers :
       /\ WF_vars(\E r \in Runs : Deliver(w, r))
       /\ WF_vars(LoadRun(w) \/ RejectRun(w) \/ ClaimRun(w) \/ FinishRun(w))

FairSpec == Spec /\ Fairness

-----------------------------------------------------------------------------
(* Properties.                                                             *)

TypeOK ==
  /\ rows \in [Runs -> [status : Statuses \cup {"absent"}, scoped : BOOLEAN, owned : BOOLEAN,
                        requested : BOOLEAN, confirmed : BOOLEAN,
                        age : 0 .. MinAge, since : 0 .. RetryInterval]]
  /\ archived \in BOOLEAN /\ brokerUp \in BOOLEAN
  /\ queue \in [Runs -> 0 .. MaxCopies]
  /\ creator \in [Runs -> {"none", "publishing", "confirming", "gone"}]
  /\ rec \in [Reconcilers -> [pc : {"idle", "publishing", "confirming"},
                              run : Runs \cup {NoRun}]]
  /\ wk \in [Workers -> [pc : {"idle", "delivered", "loaded", "rejecting", "executing"},
                         run : Runs \cup {NoRun}]]
  /\ faults \in 0 .. MaxFaults

(* A pending run of a workspace that the reconciler will not look at       *)
(* again, because its enqueue is confirmed, still has a message at the     *)
(* broker or in the hands of a worker.                                     *)
ConfirmedIsQueued ==
  \A r \in Runs :
    rows[r].scoped /\ rows[r].status = "pending" /\ rows[r].confirmed
    => queue[r] > 0 \/ \E w \in Workers : wk[w].run = r

(* Two backend processes never republish the same run at the same time.    *)
OneRepublisher ==
  \A c1, c2 \in Reconcilers :
    rec[c1].pc = "publishing" /\ rec[c2] = rec[c1] => c1 = c2

(* Whatever is published twice, delivered twice or retried, the run is     *)
(* executed by one worker and keeps its outcome: the lifecycle's promise.  *)
Lifecycle ==
  INSTANCE RunLifecycle WITH
    status    <- [r \in Runs |-> IF rows[r].status = "absent" THEN "pending"
                                 ELSE rows[r].status],
    executors <- [r \in Runs |-> ExecutedBy(r)]

KeepsLifecycle == Lifecycle!Spec

(* A run that a trigger created in a workspace is eventually started or    *)
(* ended: no crash or outage around its publication leaves it pending for  *)
(* ever.                                                                   *)
TriggeredRunLeavesPending ==
  \A r \in Runs :
    rows[r].scoped /\ rows[r].status = "pending" /\ rows[r].requested
    ~> rows[r].status # "pending"
=============================================================================
