-------------------------- MODULE WorkerOwnership --------------------------
(***************************************************************************)
(* The ownership protocol between Celery workers, their heartbeat threads, *)
(* the run API and the backend's reconciler, over the workflow_runs rows.  *)
(*                                                                         *)
(* A worker loads a run, claims it under the row lock with a fresh token,  *)
(* executes it, commits the result while it still owns the row and then    *)
(* closes the run's history record.  Beside it a heartbeat thread renews   *)
(* the lease; a refused renewal, or too long without a successful one,     *)
(* cancels the task and finally kills the process.  The reconciler fails   *)
(* a run whose lease has been expired for the grace period.                *)
(*                                                                         *)
(* Time is in ticks.  A timer that the code bounds makes Tick wait for the *)
(* step it bounds, so every delay up to the bound is explored and none     *)
(* beyond it.  Delivery of messages is abstracted here: an idle worker may *)
(* be handed any run at any time, so duplicates are included.              *)
(***************************************************************************)
EXTENDS RunRow, FiniteSets

CONSTANTS
  Runs,        \* ids of workflow_runs rows
  Workers,     \* Celery pool processes, each executing one task at a time
  Tokens,      \* owner tokens: uuid4().hex
  Interval,    \* WORKER_HEARTBEAT_INTERVAL_SECONDS
  Lease,       \* WORKER_LEASE_DURATION
  Grace,       \* WORKER_RECOVERY_GRACE
  Shutdown,    \* WORKER_LEASE_LOSS_SHUTDOWN_SECONDS
  DbCall,      \* longest time from sending a statement to having its outcome
  NoRun        \* a worker without a task

ASSUME TimesAreNat ==
  /\ Interval \in Nat /\ Grace \in Nat /\ Shutdown \in Nat /\ DbCall \in Nat
  /\ Lease \in Nat \ {0}

(* What the four constants of run_ownership.py must satisfy together: the  *)
(* grace period covers the claim's or renewal's reply, one more interval,  *)
(* one more failing attempt and the bounded shutdown.                      *)
ASSUME GraceCoversShutdown == Interval + 2 * DbCall + Shutdown <= Grace

ASSUME NoOwnerIsNoToken == NoOwner \notin Tokens
ASSUME NoRunIsNoRun == NoRun \notin Runs

VARIABLES
  rows,     \* workflow_runs
  history,  \* execution_history.status of each run
  wk,       \* each worker's task: where it is, on which run, with which token
  hb        \* each worker's heartbeat thread and its timers

vars == <<rows, history, wk, hb>>

-----------------------------------------------------------------------------
(* Between the claim's reply and the end of the with block. *)
Executing == {"starting", "executing", "failing", "completing", "recording"}

IdleTask    == [pc |-> "idle", run |-> NoRun, token |-> NoOwner]
NoHeartbeat == [st |-> "off", t |-> 0, since |-> 0]
Calling     == {"calling", "renewed", "denied"}

Works(w, r) == wk[w].run = r /\ wk[w].pc \in Executing

(* uuid4: a token that no row and no worker has. *)
Fresh(token) ==
  /\ \A r \in Runs : rows[r].owner # token
  /\ \A w \in Workers : wk[w].token # token

Init ==
  /\ rows = [r \in Runs |-> NewRow]
  /\ history = [r \in Runs |-> "none"]
  /\ wk = [w \in Workers |-> IdleTask]
  /\ hb = [w \in Workers |-> NoHeartbeat]

Goto(w, pc) == wk' = [wk EXCEPT ![w].pc = pc]

(* The task is over, whatever the reason, and its heartbeat with it. *)
Leave(w) ==
  /\ wk' = [wk EXCEPT ![w] = IdleTask]
  /\ hb' = [hb EXCEPT ![w] = NoHeartbeat]

(* A conditional UPDATE of one row as its caller sees it: it is applied    *)
(* when ok holds, the caller learns so, and otherwise gets ValueError; a   *)
(* database error leaves the caller without an answer, applied or not.     *)
Applied(r, ok, row)    == ok /\ rows' = [rows EXCEPT ![r] = row]
Refused(ok)            == ~ok /\ UNCHANGED rows
Unanswered(r, ok, row) == Applied(r, ok, row) \/ UNCHANGED rows

-----------------------------------------------------------------------------
(* The worker's task: execute_run_async and what it calls.                 *)

(* _load_and_validate_run found the run pending and its workflow active.   *)
(* Every other outcome but the next one leaves the worker idle.            *)
LoadRun(w, r) ==
  /\ wk[w].pc = "idle"
  /\ rows[r].status = "pending"
  /\ \E token \in Tokens :
       /\ Fresh(token)
       /\ wk' = [wk EXCEPT ![w] = [pc |-> "loaded", run |-> r, token |-> token]]
  /\ UNCHANGED <<rows, history, hb>>

(* It found the run pending and its workflow archived or unavailable.      *)
LoadArchived(w, r) ==
  /\ wk[w].pc = "idle"
  /\ rows[r].status = "pending"
  /\ wk' = [wk EXCEPT ![w] = [pc |-> "rejecting", run |-> r, token |-> NoOwner]]
  /\ UNCHANGED <<rows, history, hb>>

(* A mutation: the cancellation does not look at the status it finds. *)
RejectRunUnchecked(w) ==
  LET r == wk[w].run IN
  /\ wk[w].pc = "rejecting"
  /\ rows' = [rows EXCEPT ![r] = End("cancelled")]
  /\ Leave(w)
  /\ UNCHANGED history

(* mark_run_cancelled, in a transaction after the one that read the row.   *)
RejectRun(w) ==
  LET r == wk[w].run IN
  /\ wk[w].pc = "rejecting"
  /\ \/ Unanswered(r, CanCancel(rows[r]), End("cancelled"))
     \/ Refused(CanCancel(rows[r]))
  /\ Leave(w)
  /\ UNCHANGED history

(* A mutation: the claim trusts the status read when the run was loaded. *)
ClaimRunUnlocked(w) ==
  LET r == wk[w].run IN
  /\ wk[w].pc = "loaded"
  /\ rows' = [rows EXCEPT ![r] = Claim(wk[w].token)]
  /\ Goto(w, "claimed")
  /\ UNCHANGED <<history, hb>>

(* claim_worker_run under the row lock: the row changes here, the worker   *)
(* hears of it up to DbCall later.                                         *)
ClaimRun(w) ==
  LET r == wk[w].run IN
  /\ wk[w].pc = "loaded"
  /\ CanStart(rows[r])
  /\ rows' = [rows EXCEPT ![r] = Claim(wk[w].token)]
  /\ Goto(w, "claimed")
  /\ UNCHANGED <<history, hb>>

(* claim_worker_run returned None, or the database failed before commit.   *)
ClaimRefused(w) ==
  /\ wk[w].pc = "loaded"
  /\ Leave(w)
  /\ UNCHANGED <<rows, history>>

(* The claim committed but its reply was lost: execute_run retries the     *)
(* task later, and the row stays with a token nobody uses.                 *)
ClaimUnanswered(w) ==
  /\ wk[w].pc = "claimed"
  /\ Leave(w)
  /\ UNCHANGED <<rows, history>>

(* The claim's reply arrives and worker_run_heartbeat starts its thread.   *)
StartHeartbeat(w) ==
  /\ wk[w].pc = "claimed"
  /\ Goto(w, "starting")
  /\ hb' = [hb EXCEPT ![w] = [st |-> "waiting", t |-> 0, since |-> 0]]
  /\ UNCHANGED <<rows, history>>

(* _start_history_record: a RunHistoryError is logged and ignored.         *)
StartHistory(w) ==
  LET r == wk[w].run IN
  /\ wk[w].pc = "starting"
  /\ history' \in {history, [history EXCEPT ![r] = "running"]}
  /\ Goto(w, "executing")
  /\ UNCHANGED <<rows, hb>>

(* Anything up to the commit raises: the graph, a node, the database.      *)
ExecutionRaises(w) ==
  /\ wk[w].pc \in {"starting", "executing"}
  /\ Goto(w, "failing")
  /\ UNCHANGED <<rows, history, hb>>

(* A mutation: the result is written whoever owns the row, ended or not. *)
CommitUnfenced(w) ==
  LET r == wk[w].run IN
  /\ wk[w].pc = "executing"
  /\ rows' = [rows EXCEPT ![r] = End("succeeded")]
  /\ Goto(w, "completing")
  /\ UNCHANGED <<history, hb>>

(* A mutation: a refused commit is not noticed. *)
CommitUnnoticed(w) ==
  LET r  == wk[w].run
      ok == rows[r].owner = wk[w].token /\ CanSucceed(rows[r])
  IN
  /\ wk[w].pc = "executing"
  /\ \/ Applied(r, ok, End("succeeded"))
     \/ Refused(ok)
  /\ Goto(w, "completing")
  /\ UNCHANGED <<history, hb>>

(* mark_worker_run_succeeded: the owner's token is checked under the row   *)
(* lock; refused or unanswered, the exception goes to the failure handler. *)
CommitSucceeded(w) ==
  LET r  == wk[w].run
      ok == rows[r].owner = wk[w].token /\ CanSucceed(rows[r])
  IN
  /\ wk[w].pc = "executing"
  /\ \/ Applied(r, ok, End("succeeded")) /\ Goto(w, "completing")
     \/ Refused(ok) /\ Goto(w, "failing")
     \/ Unanswered(r, ok, End("succeeded")) /\ Goto(w, "failing")
  /\ UNCHANGED <<history, hb>>

(* _mark_history_completed: a RunHistoryError is ignored, any other error  *)
(* reaches the failure handler although the run has succeeded.             *)
CompleteHistory(w) ==
  LET r == wk[w].run IN
  /\ wk[w].pc = "completing"
  /\ history' \in {history, [history EXCEPT ![r] = "completed"]}
  /\ Leave(w) \/ (Goto(w, "failing") /\ UNCHANGED hb)
  /\ UNCHANGED rows

(* mark_worker_run_failed in _handle_execution_failure, which swallows     *)
(* whatever this call raises.                                              *)
CommitFailed(w) ==
  LET r  == wk[w].run
      ok == rows[r].owner = wk[w].token /\ CanFail(rows[r])
  IN
  /\ wk[w].pc = "failing"
  /\ Unanswered(r, ok, End("failed"))
  /\ Goto(w, "recording")
  /\ UNCHANGED <<history, hb>>

(* The rest of _handle_execution_failure, done whether or not the run was  *)
(* marked; a run without a history record raises, which is swallowed too.  *)
RecordFailure(w) ==
  LET r == wk[w].run IN
  /\ wk[w].pc = "recording"
  /\ \/ history[r] # "none" /\ history' = [history EXCEPT ![r] = "error"]
     \/ UNCHANGED history
  /\ Leave(w)
  /\ UNCHANGED rows

(* The process dies and is replaced by a fresh one.                        *)
Crash(w) ==
  /\ wk[w].pc # "idle"
  /\ Leave(w)
  /\ UNCHANGED <<rows, history>>

-----------------------------------------------------------------------------
(* The heartbeat thread of worker_run_heartbeat.                           *)

(* stop.wait(interval) timed out: renew_worker_run_lease is called.        *)
HeartbeatDue(w) ==
  /\ hb[w].st = "waiting"
  /\ hb[w].t = Interval
  /\ hb' = [hb EXCEPT ![w].st = "calling", ![w].t = 0]
  /\ UNCHANGED <<rows, history, wk>>

(* _renew_on_connection at the server: one conditional UPDATE.             *)
RenewLease(w) ==
  LET r == wk[w].run IN
  /\ hb[w].st = "calling"
  /\ IF Holds(rows[r], wk[w].token)
     THEN /\ rows' = [rows EXCEPT ![r] = Renew(rows[r])]
          /\ hb' = [hb EXCEPT ![w].st = "renewed"]
     ELSE /\ hb' = [hb EXCEPT ![w].st = "denied"]
          /\ UNCHANGED rows
  /\ UNCHANGED <<history, wk>>

(* The call returned true: last_renewed is the time of the reply.          *)
RenewalReturns(w) ==
  /\ hb[w].st = "renewed"
  /\ hb' = [hb EXCEPT ![w] = [st |-> "waiting", t |-> 0, since |-> 0]]
  /\ UNCHANGED <<rows, history, wk>>

(* _signal_lease_loss: the task is cancelled, the shutdown timer starts.   *)
SignalLeaseLoss(w) == hb' = [hb EXCEPT ![w].st = "losing", ![w].t = 0]

(* A mutation: any answer of renew_worker_run_lease counts as a renewal. *)
RenewalDeniedIgnored(w) ==
  /\ hb[w].st = "denied"
  /\ hb' = [hb EXCEPT ![w] = [st |-> "waiting", t |-> 0, since |-> 0]]
  /\ UNCHANGED <<rows, history, wk>>

(* The call returned false.                                                *)
RenewalDenied(w) ==
  /\ hb[w].st = "denied"
  /\ SignalLeaseLoss(w)
  /\ UNCHANGED <<rows, history, wk>>

(* A mutation: database errors are waited out without a limit. *)
RenewalRaisesUnlimited(w) ==
  /\ hb[w].st \in Calling
  /\ hb' = [hb EXCEPT ![w].st = "waiting", ![w].t = 0]
  /\ UNCHANGED <<rows, history, wk>>

(* The call raised, whatever the server did: wait for the next attempt     *)
(* unless the lease has run out by this process's own clock.               *)
RenewalRaises(w) ==
  /\ hb[w].st \in Calling
  /\ IF hb[w].since >= Lease
     THEN SignalLeaseLoss(w)
     ELSE hb' = [hb EXCEPT ![w].st = "waiting", ![w].t = 0]
  /\ UNCHANGED <<rows, history, wk>>

(* CancelledError reaches the task at one of its awaits.  It is not an     *)
(* Exception, so neither the run nor its history is marked.                *)
CancelTask(w) ==
  /\ hb[w].st = "losing"
  /\ Leave(w)
  /\ UNCHANGED <<rows, history>>

(* The task did not stop in time: _terminate_unresponsive_worker.          *)
TerminateWorker(w) ==
  /\ hb[w].st = "losing"
  /\ hb[w].t = Shutdown
  /\ Leave(w)
  /\ UNCHANGED <<rows, history>>

-----------------------------------------------------------------------------
(* The run API of routers/runs.py: no token is asked for.                  *)
ApiStart(r)   == CanStart(rows[r])
                 /\ rows' = [rows EXCEPT ![r] = Start(rows[r])]
                 /\ UNCHANGED <<history, wk, hb>>
ApiSucceed(r) == CanSucceed(rows[r])
                 /\ rows' = [rows EXCEPT ![r] = End("succeeded")]
                 /\ UNCHANGED <<history, wk, hb>>
ApiFail(r)    == CanFail(rows[r])
                 /\ rows' = [rows EXCEPT ![r] = End("failed")]
                 /\ UNCHANGED <<history, wk, hb>>
ApiCancel(r)  == CanCancel(rows[r])
                 /\ rows' = [rows EXCEPT ![r] = End("cancelled")]
                 /\ UNCHANGED <<history, wk, hb>>

(* A mutation: IS NULL for IS NOT NULL. *)
OrphanedUnowned(r) ==
  /\ rows[r].status = "running"
  /\ rows[r].owner = NoOwner
  /\ rows[r].age >= Lease + Grace

(* fail_orphaned_worker_runs: one transaction over the rows it could lock. *)
Orphaned(r) ==
  /\ rows[r].status = "running"
  /\ rows[r].owner # NoOwner
  /\ rows[r].age >= Lease + Grace

FailOrphaned(batch) ==
  /\ batch # {}
  /\ \A r \in batch : Orphaned(r)
  /\ rows' = [r \in Runs |-> IF r \in batch THEN End("failed") ELSE rows[r]]
  /\ UNCHANGED <<history, wk, hb>>

-----------------------------------------------------------------------------
(* One tick passes for every clock, unless a step is due before it.        *)
Due(w) ==
  \/ wk[w].pc = "claimed" /\ hb[w].t = DbCall
  \/ hb[w].st = "waiting" /\ hb[w].t = Interval
  \/ hb[w].st \in Calling /\ hb[w].t = DbCall
  \/ hb[w].st = "losing"  /\ hb[w].t = Shutdown

(* Past Lease + Grace the age of a lease makes no difference any more.     *)
Older(row) == IF row.owner = NoOwner \/ row.age = Lease + Grace
              THEN row ELSE [row EXCEPT !.age = @ + 1]

Elapse(w) == [st |-> hb[w].st,
              t |-> IF hb[w].st = "off" /\ wk[w].pc # "claimed" THEN 0 ELSE hb[w].t + 1,
              since |-> IF hb[w].st = "off" THEN 0 ELSE hb[w].since + 1]

Tick ==
  /\ \A w \in Workers : ~Due(w)
  /\ rows' = [r \in Runs |-> Older(rows[r])]
  /\ hb' = [w \in Workers |-> Elapse(w)]
  /\ UNCHANGED <<history, wk>>

-----------------------------------------------------------------------------
TaskStep(w) ==
  \/ \E r \in Runs : LoadRun(w, r) \/ LoadArchived(w, r)
  \/ RejectRun(w) \/ ClaimRun(w) \/ ClaimRefused(w) \/ ClaimUnanswered(w)
  \/ StartHeartbeat(w) \/ StartHistory(w) \/ ExecutionRaises(w)
  \/ CommitSucceeded(w) \/ CompleteHistory(w) \/ CommitFailed(w)
  \/ RecordFailure(w) \/ Crash(w)

HeartbeatStep(w) ==
  \/ HeartbeatDue(w) \/ RenewLease(w) \/ RenewalReturns(w) \/ RenewalDenied(w)
  \/ RenewalRaises(w) \/ CancelTask(w) \/ TerminateWorker(w)

ApiStep(r) == ApiStart(r) \/ ApiSucceed(r) \/ ApiFail(r) \/ ApiCancel(r)

Reconcile == \E batch \in SUBSET Runs : FailOrphaned(batch)

Next ==
  \/ \E w \in Workers : TaskStep(w) \/ HeartbeatStep(w)
  \/ \E r \in Runs : ApiStep(r)
  \/ Reconcile
  \/ Tick

Spec == Init /\ [][Next]_vars

(* What the deployment's scheduling gives: clocks run; the heartbeat       *)
(* thread is scheduled, its calls return or time out and os._exit works;   *)
(* the backend keeps reconciling.  Nothing is assumed of the task: a node  *)
(* may block for ever and need not notice that it was cancelled.           *)
HeartbeatThread(w) ==
  \/ HeartbeatDue(w) \/ RenewLease(w) \/ RenewalReturns(w) \/ RenewalDenied(w)
  \/ RenewalRaises(w) \/ TerminateWorker(w)

Fairness ==
  /\ WF_vars(Tick)
  /\ WF_vars(Reconcile)
  /\ \A w \in Workers : WF_vars(HeartbeatThread(w))
  /\ \A w \in Workers : WF_vars(StartHeartbeat(w) \/ ClaimUnanswered(w))

FairSpec == Spec /\ Fairness

-----------------------------------------------------------------------------
(* Properties.                                                             *)

PCs == Executing \cup {"idle", "loaded", "rejecting", "claimed"}

Row == [status : Statuses, owner : Tokens \cup {NoOwner}, age : 0 .. Lease + Grace]

TypeOK ==
  /\ rows \in [Runs -> Row]
  /\ history \in [Runs -> {"none", "running", "completed", "error"}]
  /\ wk \in [Workers -> [pc : PCs, run : Runs \cup {NoRun},
                         token : Tokens \cup {NoOwner}]]
  /\ hb \in [Workers -> [st : Calling \cup {"off", "waiting", "losing"},
                         t : Nat, since : Nat]]

(* A run has one executor: two deliveries of its message, handled by two   *)
(* workers at once, never both get past the claim.                         *)
OneExecutor ==
  \A r \in Runs : \A w1, w2 \in Workers :
    Works(w1, r) /\ Works(w2, r) => w1 = w2

(* The reconciler never fails a run that a live worker still executes as   *)
(* its owner: before the grace period is over that worker has stopped.     *)
LiveOwnerNotOrphaned ==
  \A w \in Workers : \A r \in Runs :
    Works(w, r) /\ rows[r].owner = wk[w].token => ~Orphaned(r)

(* A history record marked completed belongs to a run that has succeeded,  *)
(* whatever the API or the reconciler did to the run meanwhile.            *)
HistoryAgrees ==
  \A r \in Runs : history[r] = "completed" => rows[r].status = "succeeded"

(* The outcome of a run never changes, whoever reports late.               *)
OutcomeIsFinal ==
  [][\A r \in Runs : rows[r].status \in Terminal => rows'[r] = rows[r]]_vars

(* Seen from outside, a run goes through the promised lifecycle: one       *)
(* executor, from the claim on, and an outcome that stays.                 *)
Engaged(r) == {w \in Workers : wk[w].run = r /\ wk[w].pc \in Executing \cup {"claimed"}}

Lifecycle ==
  INSTANCE RunLifecycle WITH
    status    <- [r \in Runs |-> rows[r].status],
    executors <- [r \in Runs |-> Engaged(r)]

KeepsLifecycle == Lifecycle!Spec

(* A claimed run whose worker is gone is failed by the reconciler.         *)
OrphanRecovered ==
  \A r \in Runs :
    (/\ rows[r].status = "running" /\ rows[r].owner # NoOwner
     /\ \A w \in Workers : wk[w].token # rows[r].owner)
    ~> rows[r].status \in Terminal

(* A worker that no longer holds its run stops working on it, even if the  *)
(* node ignores the cancellation and the database never answers again.     *)
LossStopsWork ==
  \A w \in Workers : \A r \in Runs : \A token \in Tokens :
    (Works(w, r) /\ wk[w].token = token /\ ~Holds(rows[r], token))
    ~> wk[w].token # token

(* docs/deployment.md: no execution once the run's quota slot is free.     *)
NoExecutionAfterRelease ==
  \A w \in Workers : \A r \in Runs :
    wk[w].run = r /\ wk[w].pc = "executing" => rows[r].status \in Active
=============================================================================
