----------------------- MODULE WorkerOwnership_proofs -----------------------
(***************************************************************************)
(* Proofs about WorkerOwnership, for every set of runs, workers and tokens *)
(* and every choice of the time constants that GraceCoversShutdown allows. *)
(***************************************************************************)
EXTENDS WorkerOwnership, TLAPS

(* A task has a run and, once loaded, a token; only a task between the     *)
(* claim's reply and its end has a heartbeat.                              *)
TaskOK ==
  \A w \in Workers :
    /\ wk[w].pc = "idle" => wk[w].run = NoRun
    /\ wk[w].pc # "idle" => wk[w].run \in Runs
    /\ wk[w].pc \in {"idle", "rejecting"} => wk[w].token = NoOwner
    /\ wk[w].pc \in Executing \cup {"loaded", "claimed"} => wk[w].token \in Tokens
    /\ hb[w].st = "off" <=> wk[w].pc \notin Executing

TypeInv == TypeOK /\ TaskOK

USE DEF Executing, Calling, PCs, Statuses, Terminal, IdleTask, NoHeartbeat

(* What the updates of a row return. *)
LEMMA RowUpdates ==
  ASSUME NEW row \in Row
  PROVE  /\ \A s \in Statuses : End(s) \in Row
         /\ \A k \in Tokens : Claim(k) \in Row
         /\ Start(row) \in Row
         /\ Renew(row) \in Row
         /\ Older(row) \in Row
<1> USE TimesAreNat DEF Row
<1>1. \A s \in Statuses : End(s) \in Row
  BY DEF End
<1>2. \A k \in Tokens : Claim(k) \in Row
  BY DEF Claim
<1>3. Start(row) \in Row
  BY DEF Start
<1>4. Renew(row) \in Row
  BY DEF Renew
<1>5. Older(row) \in Row
  BY DEF Older
<1> QED
  BY <1>1, <1>2, <1>3, <1>4, <1>5

(* A conditional UPDATE keeps the rows well typed. *)
LEMMA UpdateKeepsRows ==
  ASSUME rows \in [Runs -> Row], NEW r \in Runs, NEW row \in Row,
         rows' = [rows EXCEPT ![r] = row] \/ UNCHANGED rows
  PROVE  rows' \in [Runs -> Row]
OBVIOUS

LEMMA TypeInvInit == Init => TypeInv
BY TimesAreNat DEF Init, TypeInv, TypeOK, TaskOK, NewRow, Row

(* A heartbeat that runs enters another state and counts from zero. *)
LEMMA BeatTypes ==
  ASSUME TypeInv, NEW w \in Workers, hb[w].st # "off", UNCHANGED <<rows, history, wk>>,
         NEW st \in Calling \cup {"waiting", "losing"},
         hb' = [hb EXCEPT ![w].st = st, ![w].t = 0]
  PROVE  TypeInv'
<1> DEFINE Beat == [st : Calling \cup {"off", "waiting", "losing"}, t : Nat, since : Nat]
           entered == [hb[w] EXCEPT !.st = st]
           reset == [entered EXCEPT !.t = 0]
<1>1. entered \in Beat /\ entered.st = st
  BY DEF TypeInv, TypeOK
<1>2. hb' = [hb EXCEPT ![w] = reset]
  BY DEF TypeInv, TypeOK
<1> HIDE DEF entered
<1>3. reset \in Beat /\ reset.st = st
  BY <1>1
<1> HIDE DEF reset
<1>4. hb \in [Workers -> Beat]
  BY DEF TypeInv, TypeOK
<1>5. hb' \in [Workers -> Beat]
  BY <1>2, <1>3, <1>4
<1>6. \A v \in Workers : hb'[v].st = "off" <=> hb[v].st = "off"
  BY <1>2, <1>3, <1>4
<1> QED
  BY <1>5, <1>6 DEF TypeInv, TypeOK, TaskOK

LEMMA TypeInvNext == TypeInv /\ [Next]_vars => TypeInv'
<1> SUFFICES ASSUME TypeInv, [Next]_vars PROVE TypeInv'
  OBVIOUS
<1> USE TimesAreNat DEF TypeInv, TypeOK, TaskOK, Goto, Leave
<1>1. ASSUME NEW w \in Workers, NEW r \in Runs, LoadRun(w, r) PROVE TypeInv'
  BY <1>1 DEF LoadRun
<1>2. ASSUME NEW w \in Workers, NEW r \in Runs, LoadArchived(w, r) PROVE TypeInv'
  BY <1>2 DEF LoadArchived
<1>3. ASSUME NEW w \in Workers, RejectRun(w) PROVE TypeInv'
  <2>1. rows' \in [Runs -> Row]
    BY <1>3, RowUpdates, UpdateKeepsRows DEF RejectRun, Unanswered, Applied, Refused
  <2> QED
    BY <1>3, <2>1 DEF RejectRun
<1>4. ASSUME NEW w \in Workers, ClaimRun(w) PROVE TypeInv'
  <2>1. rows' \in [Runs -> Row]
    BY <1>4, RowUpdates, UpdateKeepsRows DEF ClaimRun
  <2> QED
    BY <1>4, <2>1 DEF ClaimRun
<1>5. ASSUME NEW w \in Workers, ClaimRefused(w) PROVE TypeInv'
  BY <1>5 DEF ClaimRefused
<1>6. ASSUME NEW w \in Workers, ClaimUnanswered(w) PROVE TypeInv'
  BY <1>6 DEF ClaimUnanswered
<1>7. ASSUME NEW w \in Workers, StartHeartbeat(w) PROVE TypeInv'
  BY <1>7 DEF StartHeartbeat
<1>8. ASSUME NEW w \in Workers, StartHistory(w) PROVE TypeInv'
  <2>1. history' \in [Runs -> {"none", "running", "completed", "error"}]
    BY <1>8 DEF StartHistory
  <2> QED
    BY <1>8, <2>1 DEF StartHistory
<1>9. ASSUME NEW w \in Workers, ExecutionRaises(w) PROVE TypeInv'
  BY <1>9 DEF ExecutionRaises
<1>10. ASSUME NEW w \in Workers, CommitSucceeded(w) PROVE TypeInv'
  <2>1. rows' \in [Runs -> Row]
    BY <1>10, RowUpdates, UpdateKeepsRows
    DEF CommitSucceeded, Unanswered, Applied, Refused
  <2>2. Goto(w, "completing") \/ Goto(w, "failing")
    BY <1>10 DEF CommitSucceeded
  <2>3. UNCHANGED <<history, hb>> /\ wk[w].pc = "executing"
    BY <1>10 DEF CommitSucceeded
  <2>4. CASE Goto(w, "completing")
    BY <2>1, <2>3, <2>4
  <2>5. CASE Goto(w, "failing")
    BY <2>1, <2>3, <2>5
  <2> QED
    BY <2>2, <2>4, <2>5
<1>11. ASSUME NEW w \in Workers, CompleteHistory(w) PROVE TypeInv'
  <2>1. history' \in [Runs -> {"none", "running", "completed", "error"}]
    BY <1>11 DEF CompleteHistory
  <2>2. wk[w].pc = "completing" /\ UNCHANGED rows
    BY <1>11 DEF CompleteHistory
  <2>3. CASE Leave(w)
    BY <2>1, <2>2, <2>3
  <2>4. CASE Goto(w, "failing") /\ UNCHANGED hb
    BY <2>1, <2>2, <2>4
  <2> QED
    BY <1>11, <2>3, <2>4 DEF CompleteHistory
<1>12. ASSUME NEW w \in Workers, CommitFailed(w) PROVE TypeInv'
  <2>1. rows' \in [Runs -> Row]
    BY <1>12, RowUpdates, UpdateKeepsRows DEF CommitFailed, Unanswered, Applied
  <2> QED
    BY <1>12, <2>1 DEF CommitFailed
<1>13. ASSUME NEW w \in Workers, RecordFailure(w) PROVE TypeInv'
  BY <1>13 DEF RecordFailure
<1>14. ASSUME NEW w \in Workers, Crash(w) PROVE TypeInv'
  BY <1>14 DEF Crash
<1>15. ASSUME NEW w \in Workers, HeartbeatDue(w) PROVE TypeInv'
  <2>1. "calling" \in Calling \cup {"waiting", "losing"}
    OBVIOUS
  <2> QED
    BY ONLY TypeInv, <1>15, <2>1, BeatTypes DEF HeartbeatDue
<1>16. ASSUME NEW w \in Workers, RenewLease(w) PROVE TypeInv'
  <2>1. wk[w].run \in Runs
    BY <1>16 DEF RenewLease
  <2>2. rows' \in [Runs -> Row]
    BY <1>16, <2>1, RowUpdates, UpdateKeepsRows DEF RenewLease
  <2>3. UNCHANGED <<history, wk>> /\ hb[w].st = "calling"
    BY <1>16 DEF RenewLease
  <2>4. CASE hb' = [hb EXCEPT ![w].st = "renewed"]
    BY <2>2, <2>3, <2>4
  <2>5. CASE hb' = [hb EXCEPT ![w].st = "denied"]
    BY <2>2, <2>3, <2>5
  <2> QED
    BY <1>16, <2>4, <2>5 DEF RenewLease
<1>17. ASSUME NEW w \in Workers, RenewalReturns(w) PROVE TypeInv'
  BY <1>17 DEF RenewalReturns
<1>18. ASSUME NEW w \in Workers, RenewalDenied(w) PROVE TypeInv'
  BY ONLY TypeInv, <1>18, BeatTypes DEF RenewalDenied, SignalLeaseLoss
<1>19. ASSUME NEW w \in Workers, RenewalRaises(w) PROVE TypeInv'
  <2>1. UNCHANGED <<rows, history, wk>> /\ hb[w].st # "off"
    BY <1>19 DEF RenewalRaises
  <2>2. \E st \in {"waiting", "losing"} : hb' = [hb EXCEPT ![w].st = st, ![w].t = 0]
    BY ONLY <1>19 DEF RenewalRaises, SignalLeaseLoss
  <2> QED
    BY ONLY TypeInv, w \in Workers, <2>1, <2>2, BeatTypes
<1>20. ASSUME NEW w \in Workers, CancelTask(w) PROVE TypeInv'
  BY <1>20 DEF CancelTask
<1>21. ASSUME NEW w \in Workers, TerminateWorker(w) PROVE TypeInv'
  BY <1>21 DEF TerminateWorker
<1>22. ASSUME NEW r \in Runs, ApiStep(r) PROVE TypeInv'
  <2>1. rows' \in [Runs -> Row]
    BY <1>22, RowUpdates, UpdateKeepsRows
    DEF ApiStep, ApiStart, ApiSucceed, ApiFail, ApiCancel
  <2>2. UNCHANGED <<history, wk, hb>>
    BY <1>22 DEF ApiStep, ApiStart, ApiSucceed, ApiFail, ApiCancel
  <2> QED
    BY <2>1, <2>2
<1>23. ASSUME NEW batch \in SUBSET Runs, FailOrphaned(batch) PROVE TypeInv'
  BY <1>23, RowUpdates DEF FailOrphaned
<1>24. CASE Tick
  BY <1>24, RowUpdates DEF Tick, Elapse
<1>25. CASE UNCHANGED vars
  BY <1>25 DEF vars
<1> QED
  BY <1>1, <1>2, <1>3, <1>4, <1>5, <1>6, <1>7, <1>8, <1>9, <1>10, <1>11, <1>12,
     <1>13, <1>14, <1>15, <1>16, <1>17, <1>18, <1>19, <1>20, <1>21, <1>22, <1>23,
     <1>24, <1>25
  DEF Next, TaskStep, HeartbeatStep, Reconcile

(* Type correctness of the protocol. *)
THEOREM TypeCorrect == Spec => []TypeOK
<1>1. TypeInv => TypeOK
  BY DEF TypeInv
<1> QED
  BY TypeInvInit, TypeInvNext, <1>1, PTL DEF Spec

-----------------------------------------------------------------------------
(* What one step can do to one row: nothing, or one of the updates of      *)
(* RunRow under its precondition; only Tick makes a lease older.           *)
Updated(r) ==
  \/ rows'[r] = rows[r]
  \/ CanStart(rows[r]) /\ rows'[r] = Start(rows[r])
  \/ CanStart(rows[r]) /\ \E k \in Tokens : rows'[r] = Claim(k)
  \/ CanCancel(rows[r]) /\ \E s \in Terminal : rows'[r] = End(s)
  \/ rows[r].status = "running" /\ rows'[r] = Renew(rows[r])

LEMMA RowSteps ==
  ASSUME TypeInv, [Next]_vars, ~Tick
  PROVE  \A r \in Runs : Updated(r)
<1> SUFFICES ASSUME NEW r \in Runs PROVE Updated(r)
  OBVIOUS
<1>1. rows \in [Runs -> Row] /\ \A w \in Workers : wk[w].pc # "idle" => wk[w].run \in Runs
  BY DEF TypeInv, TypeOK, TaskOK
<1>2. ASSUME UNCHANGED rows PROVE Updated(r)
  BY <1>2 DEF Updated
<1>3. ASSUME NEW q \in Runs, NEW s \in Terminal,
             \/ CanCancel(rows[q]) /\ rows' = [rows EXCEPT ![q] = End(s)]
             \/ UNCHANGED rows
      PROVE Updated(r)
  BY <1>1, <1>3 DEF Updated
<1>4. ASSUME NEW w \in Workers, TaskStep(w) PROVE Updated(r)
  <2>1. ASSUME RejectRun(w) PROVE Updated(r)
    BY <2>1, <1>1, <1>3 DEF RejectRun, Unanswered, Applied, Refused
  <2>2. ASSUME ClaimRun(w) PROVE Updated(r)
    <3>1. wk[w].token \in Tokens
      BY <2>2 DEF ClaimRun, TypeInv, TaskOK
    <3> QED
      BY <2>2, <3>1, <1>1 DEF ClaimRun, Updated
  <2>3. ASSUME CommitSucceeded(w) PROVE Updated(r)
    <3>1. CanSucceed(rows[wk[w].run]) => CanCancel(rows[wk[w].run])
      BY DEF CanSucceed, CanCancel
    <3> QED
      BY <2>3, <3>1, <1>1, <1>3 DEF CommitSucceeded, Unanswered, Applied, Refused
  <2>4. ASSUME CommitFailed(w) PROVE Updated(r)
    <3>1. CanFail(rows[wk[w].run]) => CanCancel(rows[wk[w].run])
      BY DEF CanFail, CanCancel
    <3> QED
      BY <2>4, <3>1, <1>1, <1>3 DEF CommitFailed, Unanswered, Applied
  <2> QED
    BY <1>4, <1>2, <2>1, <2>2, <2>3, <2>4
    DEF TaskStep, LoadRun, LoadArchived, ClaimRefused, ClaimUnanswered,
        StartHeartbeat, StartHistory, ExecutionRaises, CompleteHistory,
        RecordFailure, Crash
<1>5. ASSUME NEW w \in Workers, HeartbeatStep(w) PROVE Updated(r)
  <2>1. ASSUME RenewLease(w) PROVE Updated(r)
    <3>1. wk[w].run \in Runs
      BY <2>1 DEF RenewLease, TypeInv, TypeOK, TaskOK
    <3>2. CASE Holds(rows[wk[w].run], wk[w].token)
      BY <2>1, <3>1, <3>2, <1>1 DEF RenewLease, Holds, Updated
    <3>3. CASE ~Holds(rows[wk[w].run], wk[w].token)
      BY <2>1, <3>3, <1>2 DEF RenewLease
    <3> QED
      BY <3>2, <3>3
  <2> QED
    BY <1>5, <1>2, <2>1
    DEF HeartbeatStep, HeartbeatDue, RenewalReturns, RenewalDenied, RenewalRaises,
        CancelTask, TerminateWorker
<1>6. ASSUME NEW q \in Runs, ApiStep(q) PROVE Updated(r)
  <2>1. CASE ApiStart(q)
    BY <2>1, <1>1 DEF ApiStart, Updated
  <2>2. CASE ApiSucceed(q) \/ ApiFail(q) \/ ApiCancel(q)
    <3>1. CanSucceed(rows[q]) \/ CanFail(rows[q]) => CanCancel(rows[q])
      BY DEF CanSucceed, CanFail, CanCancel
    <3> QED
      BY <2>2, <3>1, <1>3 DEF ApiSucceed, ApiFail, ApiCancel
  <2> QED
    BY <1>6, <2>1, <2>2 DEF ApiStep
<1>7. ASSUME NEW batch \in SUBSET Runs, FailOrphaned(batch) PROVE Updated(r)
  <2>1. r \in batch => CanCancel(rows[r])
    BY <1>7 DEF FailOrphaned, Orphaned, CanCancel
  <2> QED
    BY <1>7, <2>1, <1>1 DEF FailOrphaned, Updated
<1> QED
  BY <1>2, <1>4, <1>5, <1>6, <1>7 DEF Next, Reconcile, vars

-----------------------------------------------------------------------------
(* An owned row is running: a row that has ended has no lease to age.      *)
OwnedIsRunning == \A r \in Runs : rows[r].owner # NoOwner => rows[r].status = "running"

LEMMA OwnedInit == Init => OwnedIsRunning
BY DEF Init, OwnedIsRunning, NewRow

LEMMA OlderKeeps ==
  ASSUME NEW row \in Row
  PROVE  /\ Older(row).status = row.status
         /\ Older(row).owner = row.owner
         /\ row.owner = NoOwner => Older(row) = row
         /\ Older(row).age <= row.age + 1
BY TimesAreNat DEF Row, Older

LEMMA OwnedNext == TypeInv /\ OwnedIsRunning /\ [Next]_vars => OwnedIsRunning'
<1> SUFFICES ASSUME TypeInv, OwnedIsRunning, [Next]_vars, NEW r \in Runs
             PROVE  rows'[r].owner # NoOwner => rows'[r].status = "running"
  BY DEF OwnedIsRunning
<1>1. rows[r] \in Row /\ (rows[r].owner # NoOwner => rows[r].status = "running")
  BY DEF TypeInv, TypeOK, OwnedIsRunning
<1>2. CASE Tick
  BY <1>1, <1>2, OlderKeeps DEF Tick
<1>3. CASE ~Tick
  <2>1. Updated(r)
    BY <1>3, RowSteps
  <2>2. ASSUME CanStart(rows[r]), rows'[r] = Start(rows[r])
        PROVE  rows'[r].status = "running"
    BY <2>2, <1>1 DEF Start, Row
  <2>3. ASSUME NEW k \in Tokens, rows'[r] = Claim(k) PROVE rows'[r].status = "running"
    BY <2>3 DEF Claim
  <2>4. ASSUME NEW s \in Terminal, rows'[r] = End(s) PROVE rows'[r].owner = NoOwner
    BY <2>4 DEF End
  <2>5. ASSUME rows[r].status = "running", rows'[r] = Renew(rows[r])
        PROVE  rows'[r].status = "running"
    BY <2>5, <1>1 DEF Renew, Row
  <2> QED
    BY <2>1, <2>2, <2>3, <2>4, <2>5, <1>1 DEF Updated
<1> QED
  BY <1>2, <1>3

(* No step changes a row that has ended. *)
LEMMA OutcomeStep ==
  ASSUME TypeInv, OwnedIsRunning, [Next]_vars, NEW r \in Runs, rows[r].status \in Terminal
  PROVE  rows'[r] = rows[r]
<1>1. rows[r] \in Row /\ rows[r].owner = NoOwner
  BY DEF TypeInv, TypeOK, OwnedIsRunning
<1>2. CASE Tick
  BY <1>1, <1>2, OlderKeeps DEF Tick
<1>3. CASE ~Tick
  <2>1. Updated(r)
    BY <1>3, RowSteps
  <2> QED
    BY <2>1 DEF Updated, CanStart, CanCancel
<1> QED
  BY <1>2, <1>3

(* No worker, no API call and no reconciler changes the outcome of a run.  *)
THEOREM OutcomeFinal == Spec => OutcomeIsFinal
<1>1. TypeInv /\ OwnedIsRunning /\ [Next]_vars
      => [\A r \in Runs : rows[r].status \in Terminal => rows'[r] = rows[r]]_vars
  BY OutcomeStep
<1> QED
  BY TypeInvInit, TypeInvNext, OwnedInit, OwnedNext, <1>1, PTL DEF Spec, OutcomeIsFinal

-----------------------------------------------------------------------------
(* The timing argument.  While a worker's token is on the row, the lease   *)
(* is at most DbCall older than the worker believes (the reply took that   *)
(* long), what the worker believes is bounded by Lease plus one interval   *)
(* and one attempt, and the shutdown is bounded after that.                *)
Mine(w) == rows[wk[w].run].owner = wk[w].token
Age(w)  == rows[wk[w].run].age

TimerOK(w) ==
  /\ wk[w].pc # "claimed" /\ hb[w].st = "off" => hb[w].t = 0
  /\ wk[w].pc = "claimed" => hb[w].t <= DbCall /\ (Mine(w) => Age(w) <= hb[w].t)
  /\ hb[w].st = "waiting" => hb[w].t <= Interval /\ hb[w].since <= Lease - 1 + hb[w].t
  /\ hb[w].st \in Calling => /\ hb[w].t <= DbCall
                             /\ hb[w].since <= Lease - 1 + Interval + hb[w].t
  /\ hb[w].st = "renewed" => (Mine(w) => Age(w) <= hb[w].t)
  /\ hb[w].st = "losing" => /\ hb[w].t <= Shutdown
                            /\ hb[w].since <= Lease - 1 + Interval + DbCall + hb[w].t
  /\ hb[w].st # "off" => (Mine(w) => Age(w) <= hb[w].since + DbCall)

TimerInv == \A w \in Workers : TimerOK(w)

(* The invariant carries the claim: a live owner's lease is young enough.  *)
LEMMA TimerImpliesLive == TypeInv /\ TimerInv => LiveOwnerNotOrphaned
<1> SUFFICES ASSUME TypeInv, TimerInv, NEW w \in Workers, NEW r \in Runs,
                    Works(w, r), rows[r].owner = wk[w].token
             PROVE  rows[r].age < Lease + Grace
  BY TimesAreNat DEF LiveOwnerNotOrphaned, Orphaned, TypeInv, TypeOK, Row
<1>1. Mine(w) /\ Age(w) = rows[r].age /\ hb[w].st # "off" /\ TimerOK(w)
  BY DEF Works, Mine, Age, TypeInv, TaskOK, TimerInv
<1>2. /\ hb[w].st \in Calling \cup {"waiting", "losing"}
      /\ hb[w].t \in Nat /\ hb[w].since \in Nat /\ Age(w) \in Nat
  BY <1>1, TimesAreNat DEF TypeInv, TypeOK, Row
<1>3. hb[w].since <= Lease - 1 + Interval + DbCall + Shutdown
  BY <1>1, <1>2, TimesAreNat DEF TimerOK
<1>4. Age(w) <= hb[w].since + DbCall
  BY <1>1 DEF TimerOK
<1> QED
  BY <1>1, <1>2, <1>3, <1>4, TimesAreNat, GraceCoversShutdown

LEMMA TimerInit == Init => TimerInv
BY TimesAreNat DEF Init, TimerInv, TimerOK

(* A step other than Tick never makes the lease of a token older. *)
LEMMA AgeStep ==
  ASSUME TypeInv, [Next]_vars, ~Tick, NEW r \in Runs, NEW k \in Tokens, rows'[r].owner = k
  PROVE  (rows[r].owner = k /\ rows'[r].age <= rows[r].age) \/ rows'[r].age = 0
<1>1. rows[r] \in Row /\ rows[r].age \in Nat /\ k # NoOwner
  BY TimesAreNat, NoOwnerIsNoToken DEF TypeInv, TypeOK, Row
<1>2. Updated(r)
  BY RowSteps
<1>3. CASE rows'[r] = rows[r]
  BY <1>1, <1>3
<1>4. CASE rows'[r] = Start(rows[r])
  BY <1>1, <1>4 DEF Start, Row
<1>5. CASE \E j \in Tokens : rows'[r] = Claim(j)
  BY <1>5 DEF Claim
<1>6. CASE \E s \in Terminal : rows'[r] = End(s)
  BY <1>6 DEF End
<1>7. CASE rows'[r] = Renew(rows[r])
  BY <1>1, <1>7 DEF Renew, Row
<1> QED
  BY <1>2, <1>3, <1>4, <1>5, <1>6, <1>7 DEF Updated

(* Such a step keeps TimerOK of a worker whose task and heartbeat it       *)
(* leaves alone, apart from the place the task is at.                      *)
LEMMA SameHeartbeat ==
  ASSUME TypeInv, TypeInv', [Next]_vars, ~Tick, NEW v \in Workers, TimerOK(v),
         hb'[v] = hb[v], wk'[v].run = wk[v].run, wk'[v].token = wk[v].token,
         wk'[v].pc = "claimed" <=> wk[v].pc = "claimed"
  PROVE  TimerOK(v)'
<1>1. CASE wk[v].pc = "claimed" \/ hb[v].st # "off"
  <2>1. wk[v].run \in Runs /\ wk[v].token \in Tokens
    BY <1>1 DEF TypeInv, TypeOK, TaskOK
  <2>2. /\ Age(v) \in Nat /\ hb[v].t \in Nat /\ hb[v].since \in Nat
    BY <2>1, TimesAreNat DEF TypeInv, TypeOK, Row, Age
  <2>3. Mine(v)' => (Mine(v) /\ Age(v)' <= Age(v)) \/ Age(v)' = 0
    BY <2>1, AgeStep DEF Mine, Age
  <2>4. Age(v)' \in Nat
    BY <2>1, TimesAreNat DEF TypeInv, TypeOK, Row, Age
  <2> QED
    BY <2>2, <2>3, <2>4, TimesAreNat DEF TimerOK
<1>2. CASE wk[v].pc # "claimed" /\ hb[v].st = "off"
  BY <1>2 DEF TimerOK
<1> QED
  BY <1>1, <1>2

LEMMA LeaveOK ==
  ASSUME TypeInv, NEW w \in Workers, Leave(w)
  PROVE  TimerOK(w)'
BY DEF TypeInv, TypeOK, Leave, TimerOK

LEMMA TimerNext == TypeInv /\ TypeInv' /\ TimerInv /\ [Next]_vars => TimerInv'
<1> SUFFICES ASSUME TypeInv, TypeInv', TimerInv, [Next]_vars, NEW v \in Workers
             PROVE  TimerOK(v)'
  BY DEF TimerInv
<1>1. /\ TimerOK(v)
      /\ \A w \in Workers : wk[w] \in [pc : PCs, run : Runs \cup {NoRun},
                                       token : Tokens \cup {NoOwner}]
      /\ wk \in [Workers -> [pc : PCs, run : Runs \cup {NoRun},
                             token : Tokens \cup {NoOwner}]]
      /\ hb \in [Workers -> [st : Calling \cup {"off", "waiting", "losing"},
                             t : Nat, since : Nat]]
  BY DEF TimerInv, TypeInv, TypeOK
<1>2. ASSUME wk'[v] = wk[v], hb'[v] = hb[v], ~Tick PROVE TimerOK(v)'
  BY <1>1, <1>2, SameHeartbeat
<1>3. ASSUME NEW pc, Goto(v, pc), wk[v].pc # "claimed", pc # "claimed", UNCHANGED hb, ~Tick
      PROVE  TimerOK(v)'
  <2>1. wk'[v].run = wk[v].run /\ wk'[v].token = wk[v].token /\ wk'[v].pc = pc
    BY <1>1, <1>3 DEF Goto
  <2> QED
    BY <2>1, <1>1, <1>3, SameHeartbeat
<1>4. CASE Tick
  <2>1. /\ ~Due(v) /\ UNCHANGED wk /\ hb'[v] = Elapse(v)
        /\ \A r \in Runs : rows'[r] = Older(rows[r])
    BY <1>4 DEF Tick
  <2>2. CASE wk[v].pc # "claimed" /\ hb[v].st = "off"
    BY <2>1, <2>2 DEF TimerOK, Elapse
  <2>3. CASE wk[v].pc = "claimed" \/ hb[v].st # "off"
    <3>1. wk[v].run \in Runs /\ wk[v].token \in Tokens /\ rows[wk[v].run] \in Row
      BY <2>3 DEF TypeInv, TypeOK, TaskOK
    <3>2. Mine(v)' => Mine(v) /\ Age(v)' <= Age(v) + 1
      BY <2>1, <3>1, OlderKeeps DEF Mine, Age
    <3>3. /\ Age(v) \in Nat /\ Age(v)' \in Nat
          /\ hb[v].t \in Nat /\ hb[v].since \in Nat
          /\ hb'[v].t = hb[v].t + 1 /\ hb'[v].st = hb[v].st
          /\ hb[v].st # "off" => hb'[v].since = hb[v].since + 1
      BY <2>1, <2>3, <3>1, TimesAreNat DEF TypeInv, TypeOK, Row, Age, Elapse
    <3>4. wk[v].pc = "claimed" => hb[v].st = "off"
      BY DEF TypeInv, TaskOK
    <3>5. wk'[v] = wk[v] /\ hb[v].st \in Calling \cup {"off", "waiting", "losing"}
      BY <2>1, <1>1
    <3>6. TimerOK(v)
      BY <1>1
    <3>7. ~Due(v)
      BY <2>1
    <3>8. CASE wk[v].pc = "claimed"
      <4>1. hb[v].t < DbCall
        BY <3>3, <3>4, <3>8, <3>6, <3>7, TimesAreNat DEF TimerOK, Due
      <4> QED
        BY <4>1, <3>2, <3>3, <3>4, <3>5, <3>8, <3>6, TimesAreNat DEF TimerOK
    <3>9. CASE hb[v].st = "waiting"
      <4>1. hb[v].t < Interval
        BY <3>3, <3>4, <3>9, <3>6, <3>7, TimesAreNat DEF TimerOK, Due
      <4> QED
        BY <4>1, <3>2, <3>3, <3>4, <3>5, <3>9, <3>6, TimesAreNat DEF TimerOK
    <3>10. CASE hb[v].st \in Calling
      <4>1. hb[v].t < DbCall
        BY <3>3, <3>4, <3>10, <3>6, <3>7, TimesAreNat DEF TimerOK, Due
      <4> QED
        BY <4>1, <3>2, <3>3, <3>4, <3>5, <3>10, <3>6, TimesAreNat DEF TimerOK
    <3>11. CASE hb[v].st = "losing"
      <4>1. hb[v].t < Shutdown
        BY <3>3, <3>4, <3>11, <3>6, <3>7, TimesAreNat DEF TimerOK, Due
      <4> QED
        BY <4>1, <3>2, <3>3, <3>4, <3>5, <3>11, <3>6, TimesAreNat DEF TimerOK
    <3> QED
      BY <2>3, <3>5, <3>8, <3>9, <3>10, <3>11
  <2> QED
    BY <2>2, <2>3
<1>5. ASSUME NEW w \in Workers, TaskStep(w), ~Tick PROVE TimerOK(v)'
  <2>1. CASE v # w
    <3>1. wk'[v] = wk[v] /\ hb'[v] = hb[v]
      BY <1>1, <1>5, <2>1
      DEF TaskStep, LoadRun, LoadArchived, RejectRun, ClaimRun, ClaimRefused,
          ClaimUnanswered, StartHeartbeat, StartHistory, ExecutionRaises,
          CommitSucceeded, CompleteHistory, CommitFailed, RecordFailure, Crash,
          Goto, Leave
    <3> QED
      BY <3>1, <1>2, <1>5
  <2>2. CASE v = w
    <3>1. ASSUME NEW r \in Runs, LoadRun(w, r) \/ LoadArchived(w, r) PROVE TimerOK(v)'
      <4>1. hb[v].st = "off" /\ wk'[v].pc # "claimed" /\ hb'[v] = hb[v] /\ wk[v].pc = "idle"
        BY <3>1, <2>2, <1>1 DEF LoadRun, LoadArchived, TypeInv, TaskOK
      <4> QED
        BY <4>1, <1>1 DEF TimerOK
    <3>2. ASSUME ClaimRun(w) PROVE TimerOK(v)'
      <4>1. wk[v].run \in Runs /\ hb[v].st = "off" /\ wk[v].pc = "loaded"
        BY <3>2, <2>2 DEF ClaimRun, TypeInv, TypeOK, TaskOK
      <4>2. hb[v].t = 0 /\ hb'[v] = hb[v] /\ wk'[v].run = wk[v].run
        BY <4>1, <3>2, <2>2, <1>1 DEF ClaimRun, TimerOK, Goto
      <4>3. Age(v)' = 0
        BY <4>1, <4>2, <3>2, <2>2 DEF ClaimRun, Claim, Age, TypeInv, TypeOK
      <4> QED
        BY <4>1, <4>2, <4>3, TimesAreNat DEF TimerOK
    <3>3. ASSUME StartHeartbeat(w) PROVE TimerOK(v)'
      <4>1. /\ hb'[v] = [st |-> "waiting", t |-> 0, since |-> 0]
            /\ wk'[v].run = wk[v].run /\ wk'[v].token = wk[v].token
            /\ wk'[v].pc = "starting" /\ UNCHANGED rows /\ wk[v].pc = "claimed"
        BY <3>3, <2>2, <1>1 DEF StartHeartbeat, Goto
      <4>2. Mine(v)' => Age(v)' <= DbCall
        <5>1. wk[v].run \in Runs /\ hb[v].t \in Nat
          BY <4>1 DEF TypeInv, TypeOK, TaskOK
        <5>2. Age(v) \in Nat
          BY <5>1, TimesAreNat DEF TypeInv, TypeOK, Row, Age
        <5> QED
          BY <4>1, <5>1, <5>2, <1>1, TimesAreNat DEF TimerOK, Mine, Age
      <4> QED
        BY <4>1, <4>2, TimesAreNat DEF TimerOK
    <3>4. ASSUME Leave(w) PROVE TimerOK(v)'
      BY <3>4, <2>2, LeaveOK
    <3>5. ASSUME \/ StartHistory(w) \/ ExecutionRaises(w) \/ CommitSucceeded(w)
                 \/ CommitFailed(w) \/ (CompleteHistory(w) /\ ~Leave(w))
          PROVE  TimerOK(v)'
      <4>1. /\ wk[v].pc # "claimed" /\ UNCHANGED hb
            /\ \/ Goto(v, "executing") \/ Goto(v, "failing")
               \/ Goto(v, "completing") \/ Goto(v, "recording")
        BY <3>5, <2>2
        DEF StartHistory, ExecutionRaises, CommitSucceeded, CommitFailed, CompleteHistory
      <4> QED
        BY <4>1, <1>3, <1>5
    <3> QED
      BY <1>5, <3>1, <3>2, <3>3, <3>4, <3>5
      DEF TaskStep, RejectRun, ClaimRefused, ClaimUnanswered, RecordFailure, Crash
  <2> QED
    BY <2>1, <2>2
<1>6. ASSUME NEW w \in Workers, HeartbeatStep(w), ~Tick PROVE TimerOK(v)'
  <2>1. CASE v # w
    <3>1. wk'[v] = wk[v] /\ hb'[v] = hb[v]
      BY <1>1, <1>6, <2>1
      DEF HeartbeatStep, HeartbeatDue, RenewLease, RenewalReturns, RenewalDenied,
          RenewalRaises, SignalLeaseLoss, CancelTask, TerminateWorker, Leave
    <3> QED
      BY <3>1, <1>2, <1>6
  <2>2. CASE v = w
    <3>1. ASSUME CancelTask(w) \/ TerminateWorker(w) PROVE TimerOK(v)'
      BY <3>1, <2>2, LeaveOK DEF CancelTask, TerminateWorker
    <3>2. ASSUME hb[v].st \in Calling \cup {"waiting"}
          PROVE  /\ wk[v].run \in Runs /\ wk[v].pc # "claimed"
                 /\ Age(v) \in Nat /\ hb[v].t \in Nat /\ hb[v].since \in Nat
      <4>1. wk[v].run \in Runs /\ wk[v].pc # "claimed"
        BY <3>2 DEF TypeInv, TypeOK, TaskOK
      <4> QED
        BY <4>1, <1>1, TimesAreNat DEF TypeInv, TypeOK, Row, Age
    <3>3. ASSUME HeartbeatDue(w) PROVE TimerOK(v)'
      <4>1. /\ hb[v].st = "waiting" /\ hb[v].t = Interval /\ UNCHANGED <<rows, wk>>
            /\ hb'[v].st = "calling" /\ hb'[v].t = 0 /\ hb'[v].since = hb[v].since
        BY <3>3, <2>2, <1>1 DEF HeartbeatDue
      <4> QED
        BY <4>1, <3>2, <1>1, TimesAreNat DEF TimerOK, Mine, Age
    <3>4. ASSUME RenewLease(w) PROVE TimerOK(v)'
      <4>1. /\ hb[v].st = "calling" /\ hb'[v].t = hb[v].t /\ hb'[v].since = hb[v].since
            /\ UNCHANGED wk
            /\ hb'[v].st \in {"renewed", "denied"}
        BY <3>4, <2>2, <1>1 DEF RenewLease
      <4>2. CASE Holds(rows[wk[v].run], wk[v].token)
        <5>1. hb'[v].st = "renewed" /\ Age(v)' = 0
          BY <3>4, <2>2, <1>1, <4>1, <4>2, <3>2
          DEF RenewLease, Renew, Age, TypeInv, TypeOK, Row
        <5> QED
          BY <4>1, <5>1, <3>2, <1>1, TimesAreNat DEF TimerOK
      <4>3. CASE ~Holds(rows[wk[v].run], wk[v].token)
        <5>1. hb'[v].st = "denied" /\ UNCHANGED rows
          BY <3>4, <2>2, <1>1, <4>3 DEF RenewLease
        <5> QED
          BY <4>1, <5>1, <3>2, <1>1, TimesAreNat DEF TimerOK, Mine, Age
      <4> QED
        BY <4>2, <4>3
    <3>5. ASSUME RenewalReturns(w) PROVE TimerOK(v)'
      <4>1. /\ hb[v].st = "renewed" /\ UNCHANGED <<rows, wk>>
            /\ hb'[v] = [st |-> "waiting", t |-> 0, since |-> 0]
        BY <3>5, <2>2, <1>1 DEF RenewalReturns
      <4> QED
        BY <4>1, <3>2, <1>1, TimesAreNat DEF TimerOK, Mine, Age
    <3>6. ASSUME hb[v].st \in Calling, SignalLeaseLoss(v), UNCHANGED <<rows, wk>>
          PROVE  TimerOK(v)'
      <4>1. hb'[v].st = "losing" /\ hb'[v].t = 0 /\ hb'[v].since = hb[v].since
        BY <3>6, <1>1 DEF SignalLeaseLoss
      <4> QED
        BY <4>1, <3>6, <3>2, <1>1, TimesAreNat DEF TimerOK, Mine, Age
    <3>7. ASSUME RenewalRaises(w), ~SignalLeaseLoss(w) PROVE TimerOK(v)'
      <4>1. /\ hb[v].st \in Calling /\ UNCHANGED <<rows, wk>> /\ ~(hb[v].since >= Lease)
            /\ hb'[v].st = "waiting" /\ hb'[v].t = 0 /\ hb'[v].since = hb[v].since
        BY <3>7, <2>2, <1>1 DEF RenewalRaises
      <4> QED
        BY <4>1, <3>2, <1>1, TimesAreNat DEF TimerOK, Mine, Age
    <3> QED
      BY <1>6, <2>2, <3>1, <3>3, <3>4, <3>5, <3>6, <3>7
      DEF HeartbeatStep, RenewalDenied, RenewalRaises
  <2> QED
    BY <2>1, <2>2
<1>7. ASSUME UNCHANGED <<wk, hb>>, ~Tick PROVE TimerOK(v)'
  BY <1>2, <1>7
<1> QED
  BY <1>4, <1>5, <1>6, <1>7
  DEF Next, Reconcile, FailOrphaned, ApiStep, ApiStart, ApiSucceed, ApiFail,
      ApiCancel, vars

(* No run of a live owner is failed by the reconciler, for every choice of *)
(* the times that leaves the grace period longer than the bounded steps.   *)
THEOREM LiveOwnerSafe == Spec => []LiveOwnerNotOrphaned
BY TypeInvInit, TypeInvNext, TimerInit, TimerNext, TimerImpliesLive, PTL DEF Spec

-----------------------------------------------------------------------------
(* One executor.  Whoever is engaged with a run has seen it leave pending, *)
(* and only a pending run is claimed, so nobody else is engaged then.      *)
EngagedPCs == Executing \cup {"claimed"}

EngagedInv ==
  /\ \A w \in Workers :
       wk[w].pc \in EngagedPCs => rows[wk[w].run].status # "pending"
  /\ \A w1, w2 \in Workers :
       /\ wk[w1].pc \in EngagedPCs /\ wk[w2].pc \in EngagedPCs
       /\ wk[w1].run = wk[w2].run
       => w1 = w2

LEMMA EngagedImpliesOne == EngagedInv => OneExecutor
BY DEF EngagedInv, EngagedPCs, OneExecutor, Works

LEMMA EngagedInit == Init => EngagedInv
BY DEF Init, EngagedInv, EngagedPCs

(* A run never becomes pending again. *)
LEMMA PendingStep ==
  ASSUME TypeInv, [Next]_vars, NEW r \in Runs, rows[r].status # "pending"
  PROVE  rows'[r].status # "pending"
<1>1. rows[r] \in Row
  BY DEF TypeInv, TypeOK
<1>2. CASE Tick
  BY <1>1, <1>2, OlderKeeps DEF Tick
<1>3. CASE ~Tick
  <2>1. Updated(r)
    BY <1>3, RowSteps
  <2>2. ASSUME NEW s \in Terminal, rows'[r] = End(s) PROVE rows'[r].status # "pending"
    BY <2>2 DEF End
  <2>3. ASSUME rows'[r] = Renew(rows[r]) PROVE rows'[r].status # "pending"
    BY <2>3, <1>1 DEF Renew, Row
  <2> QED
    BY <2>1, <2>2, <2>3 DEF Updated, CanStart
<1> QED
  BY <1>2, <1>3

(* Only ClaimRun makes a worker engaged. *)
LEMMA EngagedStep ==
  ASSUME TypeInv, [Next]_vars, NEW v \in Workers, wk'[v].pc \in EngagedPCs
  PROVE  \/ wk[v].pc \in EngagedPCs /\ wk'[v].run = wk[v].run
         \/ ClaimRun(v)
<1> USE DEF EngagedPCs
<1>1. wk \in [Workers -> [pc : PCs, run : Runs \cup {NoRun}, token : Tokens \cup {NoOwner}]]
  BY DEF TypeInv, TypeOK
<1>2. ASSUME UNCHANGED wk PROVE wk[v].pc \in EngagedPCs /\ wk'[v].run = wk[v].run
  BY <1>2
<1>3. ASSUME NEW w \in Workers, NEW pc, Goto(w, pc), wk[w].pc \in EngagedPCs
      PROVE  wk[v].pc \in EngagedPCs /\ wk'[v].run = wk[v].run
  BY <1>1, <1>3 DEF Goto
<1>4. ASSUME NEW w \in Workers, Leave(w)
      PROVE  wk[v].pc \in EngagedPCs /\ wk'[v].run = wk[v].run
  BY <1>1, <1>4 DEF Leave
<1>5. ASSUME NEW w \in Workers, NEW r \in Runs, LoadRun(w, r) \/ LoadArchived(w, r)
      PROVE  wk[v].pc \in EngagedPCs /\ wk'[v].run = wk[v].run
  BY <1>1, <1>5 DEF LoadRun, LoadArchived
<1>6. ASSUME NEW w \in Workers, ClaimRun(w), w # v
      PROVE  wk[v].pc \in EngagedPCs /\ wk'[v].run = wk[v].run
  BY <1>1, <1>6 DEF ClaimRun, Goto
<1>7. ASSUME NEW w \in Workers,
             \/ StartHeartbeat(w) \/ StartHistory(w) \/ ExecutionRaises(w)
             \/ CommitSucceeded(w) \/ CommitFailed(w) \/ (CompleteHistory(w) /\ ~Leave(w))
      PROVE  wk[v].pc \in EngagedPCs /\ wk'[v].run = wk[v].run
  <2>1. /\ wk[w].pc \in EngagedPCs
        /\ \E pc \in EngagedPCs : Goto(w, pc)
    BY <1>7
    DEF StartHeartbeat, StartHistory, ExecutionRaises, CommitSucceeded, CommitFailed,
        CompleteHistory
  <2> QED
    BY <2>1, <1>3
<1>8. ASSUME NEW w \in Workers, TaskStep(w)
      PROVE  \/ wk[v].pc \in EngagedPCs /\ wk'[v].run = wk[v].run
             \/ ClaimRun(v)
  BY <1>8, <1>4, <1>5, <1>6, <1>7
  DEF TaskStep, RejectRun, ClaimRefused, ClaimUnanswered, RecordFailure, Crash
<1>9. ASSUME NEW w \in Workers, HeartbeatStep(w)
      PROVE  wk[v].pc \in EngagedPCs /\ wk'[v].run = wk[v].run
  BY <1>9, <1>2, <1>4
  DEF HeartbeatStep, HeartbeatDue, RenewLease, RenewalReturns, RenewalDenied,
      RenewalRaises, CancelTask, TerminateWorker
<1> QED
  BY <1>2, <1>8, <1>9
  DEF Next, Reconcile, FailOrphaned, ApiStep, ApiStart, ApiSucceed, ApiFail,
      ApiCancel, Tick, vars

LEMMA EngagedNext == TypeInv /\ EngagedInv /\ [Next]_vars => EngagedInv'
<1> SUFFICES ASSUME TypeInv, EngagedInv, [Next]_vars PROVE EngagedInv'
  OBVIOUS
<1>1. ASSUME NEW w \in Workers, ClaimRun(w)
      PROVE  /\ wk[w].run \in Runs /\ rows[wk[w].run].status = "pending"
             /\ wk'[w].run = wk[w].run
             /\ rows'[wk[w].run].status # "pending"
             /\ \A v \in Workers \ {w} : wk'[v] = wk[v]
  BY <1>1 DEF ClaimRun, CanStart, Claim, Goto, TypeInv, TypeOK, TaskOK
<1>2. ASSUME NEW w \in Workers, wk'[w].pc \in EngagedPCs
      PROVE  rows'[wk'[w].run].status # "pending"
  <2>1. CASE wk[w].pc \in EngagedPCs /\ wk'[w].run = wk[w].run
    <3>1. wk[w].run \in Runs
      BY <2>1 DEF EngagedPCs, TypeInv, TaskOK
    <3> QED
      BY <2>1, <3>1, PendingStep DEF EngagedInv
  <2> QED
    BY <1>1, <1>2, <2>1, EngagedStep
<1>3. ASSUME NEW w1 \in Workers, NEW w2 \in Workers, w1 # w2,
             wk'[w1].pc \in EngagedPCs, wk'[w2].pc \in EngagedPCs,
             wk'[w1].run = wk'[w2].run
      PROVE  FALSE
  <2>1. CASE ClaimRun(w1)
    BY <2>1, <1>1, <1>3 DEF EngagedInv
  <2>2. CASE ClaimRun(w2)
    BY <2>2, <1>1, <1>3 DEF EngagedInv
  <2>3. CASE ~ClaimRun(w1) /\ ~ClaimRun(w2)
    BY <2>3, <1>3, EngagedStep DEF EngagedInv
  <2> QED
    BY <2>1, <2>2, <2>3
<1> QED
  BY <1>2, <1>3 DEF EngagedInv

(* However often a run's message is delivered, one worker executes it.     *)
THEOREM OneExecutorSafe == Spec => []OneExecutor
BY TypeInvInit, TypeInvNext, EngagedInit, EngagedNext, EngagedImpliesOne, PTL DEF Spec

-----------------------------------------------------------------------------
(* A lost run is given up in bounded time.  The heartbeat's clock, since,  *)
(* never shows more than MaxStale, and once the worker's row is not its    *)
(* own any more nothing sets that clock back.                              *)
MaxStale == Lease - 1 + Interval + DbCall + Shutdown

(* w executes a run that is no longer its own, and the server has granted  *)
(* no renewal whose reply is still under way.                              *)
Lost(w) ==
  /\ wk[w].pc \in Executing
  /\ ~Holds(rows[wk[w].run], wk[w].token)
  /\ hb[w].st # "renewed"

(* No worker executes for longer than MaxStale after its last successful   *)
(* renewal: by then worker_run_heartbeat has cancelled the task or ended   *)
(* the process, even if the database never answers.                        *)
THEOREM StaleIsBounded ==
  Spec => [](\A w \in Workers : wk[w].pc \in Executing => hb[w].since <= MaxStale)
<1> DEFINE Bounded == \A w \in Workers : wk[w].pc \in Executing => hb[w].since <= MaxStale
<1>1. TypeInv /\ TimerInv => Bounded
  <2> SUFFICES ASSUME TypeInv, TimerInv, NEW w \in Workers, wk[w].pc \in Executing
               PROVE  hb[w].since <= MaxStale
    OBVIOUS
  <2>1. /\ hb[w].st \in Calling \cup {"waiting", "losing"}
        /\ hb[w].t \in Nat /\ hb[w].since \in Nat
    BY DEF TypeInv, TypeOK, TaskOK
  <2>2. TimerOK(w)
    BY DEF TimerInv
  <2> QED BY <2>1, <2>2, TimesAreNat DEF TimerOK, MaxStale
<1> QED
  BY TypeInvInit, TypeInvNext, TimerInit, TimerNext, <1>1, PTL DEF Spec

(* A row that is not the worker's stays so: the run has left pending, and  *)
(* no other update writes a token.                                         *)
LEMMA LostRowStep ==
  ASSUME TypeInv, EngagedInv, [Next]_vars, NEW w \in Workers, wk[w].pc \in Executing,
         ~Holds(rows[wk[w].run], wk[w].token)
  PROVE  ~Holds(rows'[wk[w].run], wk[w].token)
<1> DEFINE r == wk[w].run
           k == wk[w].token
<1>1. /\ r \in Runs /\ k \in Tokens /\ rows[r] \in Row /\ rows[r].status # "pending"
      /\ ~Holds(rows[r], k)
  BY DEF TypeInv, TypeOK, TaskOK, EngagedInv, EngagedPCs
<1> HIDE DEF r, k
<1>2. CASE Tick
  <2>1. rows'[r] = Older(rows[r])
    BY <1>1, <1>2 DEF Tick
  <2> QED BY <1>1, <2>1, OlderKeeps DEF Holds, r, k
<1>3. CASE ~Tick
  <2>1. Updated(r)
    BY <1>1, <1>3, RowSteps
  <2>2. ASSUME NEW s \in Terminal, rows'[r] = End(s) PROVE ~Holds(rows'[r], k)
    BY <2>2 DEF End, Holds
  <2>3. ASSUME rows'[r] = Renew(rows[r]) PROVE ~Holds(rows'[r], k)
    BY <1>1, <2>3 DEF Renew, Row, Holds
  <2>4. ~Holds(rows'[r], k)
    BY <1>1, <2>1, <2>2, <2>3 DEF Updated, CanStart
  <2> QED BY <2>4 DEF r, k
<1> QED BY <1>2, <1>3

(* The part of one step that is the worker's: it ends, or goes on with the *)
(* same run under a clock that only time moves.                            *)
GoesOn(w) ==
  /\ wk'[w].pc \in Executing /\ wk'[w].run = wk[w].run /\ wk'[w].token = wk[w].token
  /\ hb'[w].st # "renewed"
  /\ hb'[w].since = IF Tick THEN hb[w].since + 1 ELSE hb[w].since

LEMMA LostWorkerStep ==
  ASSUME TypeInv, [Next]_vars, NEW w \in Workers, Lost(w)
  PROVE  wk'[w] = IdleTask \/ GoesOn(w)
<1>1. /\ wk[w].pc \in Executing /\ hb[w].st \in (Calling \ {"renewed"}) \cup {"waiting", "losing"}
      /\ ~Holds(rows[wk[w].run], wk[w].token)
      /\ wk \in [Workers -> [pc : PCs, run : Runs \cup {NoRun}, token : Tokens \cup {NoOwner}]]
      /\ hb \in [Workers -> [st : Calling \cup {"off", "waiting", "losing"},
                             t : Nat, since : Nat]]
  BY DEF Lost, TypeInv, TypeOK, TaskOK
<1>2. CASE Tick
  <2>1. wk' = wk /\ hb'[w] = Elapse(w)
    BY <1>2 DEF Tick
  <2>2. hb'[w].st = hb[w].st /\ hb'[w].since = hb[w].since + 1
    BY <1>1, <2>1 DEF Elapse
  <2> QED BY <1>1, <1>2, <2>1, <2>2 DEF GoesOn
<1>3. ASSUME ~Tick, wk'[w] = wk[w], hb'[w] = hb[w] PROVE GoesOn(w)
  BY <1>1, <1>3 DEF GoesOn
<1>4. ASSUME NEW v \in Workers, TaskStep(v), ~Tick
      PROVE  wk'[w] = IdleTask \/ GoesOn(w)
  <2>1. CASE v # w
    <3>1. wk'[w] = wk[w] /\ hb'[w] = hb[w]
      BY <1>1, <1>4, <2>1
      DEF TaskStep, LoadRun, LoadArchived, RejectRun, ClaimRun, ClaimRefused,
          ClaimUnanswered, StartHeartbeat, StartHistory, ExecutionRaises,
          CommitSucceeded, CompleteHistory, CommitFailed, RecordFailure, Crash,
          Goto, Leave
    <3> QED BY <3>1, <1>3, <1>4
  <2>2. CASE v = w
    <3>1. ASSUME Leave(w) PROVE wk'[w] = IdleTask
      BY <1>1, <3>1 DEF Leave
    <3>2. ASSUME NEW pc \in Executing, Goto(w, pc), UNCHANGED hb PROVE GoesOn(w)
      BY <1>1, <1>4, <3>2 DEF Goto, GoesOn
    <3>3. \/ Leave(w)
          \/ \E pc \in Executing : Goto(w, pc) /\ UNCHANGED hb
      BY <1>1, <1>4, <2>2
      DEF TaskStep, LoadRun, LoadArchived, RejectRun, ClaimRun, ClaimRefused,
          ClaimUnanswered, StartHeartbeat, StartHistory, ExecutionRaises,
          CommitSucceeded, CompleteHistory, CommitFailed, RecordFailure, Crash
    <3> QED BY <3>1, <3>2, <3>3
  <2> QED BY <2>1, <2>2
<1>5. ASSUME NEW v \in Workers, HeartbeatStep(v), ~Tick
      PROVE  wk'[w] = IdleTask \/ GoesOn(w)
  <2>1. CASE v # w
    <3>1. wk'[w] = wk[w] /\ hb'[w] = hb[w]
      BY <1>1, <1>5, <2>1
      DEF HeartbeatStep, HeartbeatDue, RenewLease, RenewalReturns, RenewalDenied,
          RenewalRaises, SignalLeaseLoss, CancelTask, TerminateWorker, Leave
    <3> QED BY <3>1, <1>3, <1>5
  <2>2. CASE v = w
    <3>1. ASSUME Leave(w) PROVE wk'[w] = IdleTask
      BY <1>1, <3>1 DEF Leave
    <3>2. ASSUME UNCHANGED wk, hb'[w].st # "renewed", hb'[w].since = hb[w].since
          PROVE  GoesOn(w)
      BY <1>1, <1>5, <3>2 DEF GoesOn
    <3>3. ASSUME NEW st \in {"calling", "waiting", "losing"}, UNCHANGED wk,
                 hb' = [hb EXCEPT ![w].st = st, ![w].t = 0]
          PROVE  GoesOn(w)
      <4>1. hb'[w].st = st /\ hb'[w].since = hb[w].since
        BY <1>1, <3>3
      <4> QED BY <3>2, <3>3, <4>1
    <3>4. CASE RenewLease(w)
      <4>1. hb' = [hb EXCEPT ![w].st = "denied"] /\ UNCHANGED wk
        BY <1>1, <3>4 DEF RenewLease
      <4>2. hb'[w].st = "denied" /\ hb'[w].since = hb[w].since
        BY <1>1, <4>1
      <4> QED BY <3>2, <4>1, <4>2
    <3>5. CASE HeartbeatDue(w) \/ RenewalDenied(w) \/ RenewalRaises(w)
      BY <3>3, <3>5 DEF HeartbeatDue, RenewalDenied, RenewalRaises, SignalLeaseLoss
    <3>6. CASE CancelTask(w) \/ TerminateWorker(w)
      BY <3>1, <3>6 DEF CancelTask, TerminateWorker
    <3> QED BY <1>1, <1>5, <2>2, <3>4, <3>5, <3>6 DEF HeartbeatStep, RenewalReturns
  <2> QED BY <2>1, <2>2
<1>6. ASSUME UNCHANGED <<wk, hb>>, ~Tick PROVE GoesOn(w)
  BY <1>3, <1>6
<1> QED
  BY <1>2, <1>4, <1>5, <1>6
  DEF Next, Reconcile, FailOrphaned, ApiStep, ApiStart, ApiSucceed, ApiFail,
      ApiCancel, vars

(* From the loss of its run a worker's clock runs towards MaxStale: the    *)
(* run stays lost, no renewal sets the clock back, and each tick advances  *)
(* it.  With StaleIsBounded the worker has left within MaxStale ticks,     *)
(* whether or not the task notices its cancellation.                       *)
THEOREM LossIsFinal ==
  Spec => [][\A w \in Workers :
               Lost(w) =>
                 \/ wk'[w] = IdleTask
                 \/ /\ Lost(w)' /\ wk'[w].run = wk[w].run /\ wk'[w].token = wk[w].token
                    /\ hb'[w].since = IF Tick THEN hb[w].since + 1 ELSE hb[w].since]_vars
<1> DEFINE Step == \A w \in Workers :
                     Lost(w) =>
                       \/ wk'[w] = IdleTask
                       \/ /\ Lost(w)' /\ wk'[w].run = wk[w].run /\ wk'[w].token = wk[w].token
                          /\ hb'[w].since = IF Tick THEN hb[w].since + 1 ELSE hb[w].since
<1>1. TypeInv /\ EngagedInv /\ [Next]_vars => [Step]_vars
  <2> SUFFICES ASSUME TypeInv, EngagedInv, [Next]_vars, NEW w \in Workers, Lost(w),
                      wk'[w] # IdleTask
               PROVE  /\ Lost(w)' /\ wk'[w].run = wk[w].run /\ wk'[w].token = wk[w].token
                      /\ hb'[w].since = IF Tick THEN hb[w].since + 1 ELSE hb[w].since
    OBVIOUS
  <2>1. GoesOn(w)
    BY LostWorkerStep
  <2>2. ~Holds(rows'[wk[w].run], wk[w].token)
    BY LostRowStep DEF Lost
  <2> QED BY <2>1, <2>2 DEF GoesOn, Lost
<1> QED
  BY TypeInvInit, TypeInvNext, EngagedInit, EngagedNext, <1>1, PTL DEF Spec

-----------------------------------------------------------------------------
(* The history record.  A worker that goes on to complete it has just seen *)
(* its commit succeed, and nobody changes that outcome before it does.     *)
HistoryInv ==
  /\ HistoryAgrees
  /\ \A w \in Workers :
       wk[w].pc = "completing" => rows[wk[w].run].status = "succeeded"

LEMMA HistoryInit == Init => HistoryInv
BY DEF Init, HistoryInv, HistoryAgrees

(* Only CompleteHistory marks a record completed. *)
LEMMA HistoryStep ==
  ASSUME TypeInv, [Next]_vars, NEW r \in Runs, history'[r] = "completed"
  PROVE  \/ history[r] = "completed"
         \/ \E w \in Workers : wk[w].pc = "completing" /\ wk[w].run = r
<1>1. history \in [Runs -> {"none", "running", "completed", "error"}]
  BY DEF TypeInv, TypeOK
<1>2. CASE UNCHANGED history
  BY <1>2
<1>3. ASSUME NEW w \in Workers, StartHistory(w) \/ RecordFailure(w)
      PROVE  history[r] = "completed"
  BY <1>1, <1>3 DEF StartHistory, RecordFailure
<1>4. ASSUME NEW w \in Workers, CompleteHistory(w), history[r] # "completed"
      PROVE  wk[w].pc = "completing" /\ wk[w].run = r
  BY <1>1, <1>4 DEF CompleteHistory
<1> QED
  BY <1>2, <1>3, <1>4
  DEF Next, TaskStep, HeartbeatStep, LoadRun, LoadArchived, RejectRun, ClaimRun,
      ClaimRefused, ClaimUnanswered, StartHeartbeat, ExecutionRaises,
      CommitSucceeded, CommitFailed, Crash, HeartbeatDue, RenewLease,
      RenewalReturns, RenewalDenied, RenewalRaises, CancelTask, TerminateWorker,
      Reconcile, FailOrphaned, ApiStep, ApiStart, ApiSucceed, ApiFail, ApiCancel,
      Tick, vars

(* Only a commit that was applied makes a worker go on to complete.        *)
LEMMA CompletingStep ==
  ASSUME TypeInv, [Next]_vars, NEW v \in Workers, wk'[v].pc = "completing"
  PROVE  /\ wk'[v].run = wk[v].run
         /\ \/ wk[v].pc = "completing"
            \/ rows'[wk[v].run].status = "succeeded"
<1>1. wk'[v].run = wk[v].run /\ wk[v].pc \in EngagedPCs
  <2>1. ~ClaimRun(v)
    BY DEF ClaimRun, Goto, TypeInv, TypeOK
  <2> QED
    BY <2>1, EngagedStep DEF EngagedPCs
<1>2. wk \in [Workers -> [pc : PCs, run : Runs \cup {NoRun}, token : Tokens \cup {NoOwner}]]
      /\ wk[v].run \in Runs /\ rows \in [Runs -> Row]
  BY <1>1 DEF EngagedPCs, TypeInv, TypeOK, TaskOK
<1>3. CASE wk'[v] = wk[v]
  BY <1>3, <1>1
<1>4. ASSUME NEW w \in Workers, NEW pc, Goto(w, pc), pc # "completing"
      PROVE  wk'[v] = wk[v]
  BY <1>2, <1>4 DEF Goto
<1>5. ASSUME NEW w \in Workers, Leave(w) PROVE wk'[v] = wk[v]
  BY <1>2, <1>5 DEF Leave
<1>6. ASSUME NEW w \in Workers, NEW r \in Runs, LoadRun(w, r) \/ LoadArchived(w, r)
      PROVE  wk'[v] = wk[v]
  BY <1>2, <1>6 DEF LoadRun, LoadArchived
<1>7. ASSUME NEW w \in Workers, CommitSucceeded(w)
      PROVE  wk'[v] = wk[v] \/ rows'[wk[v].run].status = "succeeded"
  <2>1. CASE w = v /\ Goto(w, "completing")
    BY <1>2, <1>7, <2>1 DEF CommitSucceeded, Applied, End, Goto
  <2>2. CASE w # v
    BY <1>2, <1>7, <2>2 DEF CommitSucceeded, Goto
  <2> QED
    BY <1>4, <1>7, <2>1, <2>2 DEF CommitSucceeded
<1>8. ASSUME NEW w \in Workers, TaskStep(w)
      PROVE  wk'[v] = wk[v] \/ rows'[wk[v].run].status = "succeeded"
  BY <1>8, <1>4, <1>5, <1>6, <1>7
  DEF TaskStep, RejectRun, ClaimRun, ClaimRefused, ClaimUnanswered, StartHeartbeat,
      StartHistory, ExecutionRaises, CompleteHistory, CommitFailed, RecordFailure,
      Crash
<1>9. ASSUME NEW w \in Workers, HeartbeatStep(w) PROVE wk'[v] = wk[v]
  BY <1>9, <1>5
  DEF HeartbeatStep, HeartbeatDue, RenewLease, RenewalReturns, RenewalDenied,
      RenewalRaises, CancelTask, TerminateWorker
<1> QED
  BY <1>1, <1>3, <1>8, <1>9
  DEF Next, Reconcile, FailOrphaned, ApiStep, ApiStart, ApiSucceed, ApiFail,
      ApiCancel, Tick, vars

LEMMA HistoryNext ==
  TypeInv /\ OwnedIsRunning /\ HistoryInv /\ [Next]_vars => HistoryInv'
<1> SUFFICES ASSUME TypeInv, OwnedIsRunning, HistoryInv, [Next]_vars PROVE HistoryInv'
  OBVIOUS
<1>1. ASSUME NEW r \in Runs, rows[r].status = "succeeded"
      PROVE  rows'[r].status = "succeeded"
  BY <1>1, OutcomeStep
<1>2. ASSUME NEW r \in Runs, history'[r] = "completed"
      PROVE  rows'[r].status = "succeeded"
  BY <1>1, <1>2, HistoryStep DEF HistoryInv, HistoryAgrees
<1>3. ASSUME NEW w \in Workers, wk'[w].pc = "completing"
      PROVE  rows'[wk'[w].run].status = "succeeded"
  <2>1. CASE wk[w].pc = "completing"
    <3>1. wk[w].run \in Runs
      BY <2>1 DEF TypeInv, TaskOK
    <3> QED
      BY <1>1, <1>3, <2>1, <3>1, CompletingStep DEF HistoryInv
  <2> QED
    BY <1>3, <2>1, CompletingStep
<1> QED
  BY <1>2, <1>3 DEF HistoryInv, HistoryAgrees

(* A history record that says completed belongs to a run that succeeded.   *)
THEOREM HistoryAgreesAlways == Spec => []HistoryAgrees
<1>1. HistoryInv => HistoryAgrees
  BY DEF HistoryInv
<1> QED
  BY TypeInvInit, TypeInvNext, OwnedInit, OwnedNext, HistoryInit, HistoryNext, <1>1,
     PTL DEF Spec

-----------------------------------------------------------------------------
(* The refinement.  A step that leaves everybody's engagement alone ends   *)
(* some runs, starts one by hand, or changes no status; a claim begins a   *)
(* run that nobody is engaged with; a task that ends changes no row.       *)
St == [r \in Runs |-> rows[r].status]
En == [r \in Runs |-> Engaged(r)]

LifecycleStep == [Lifecycle!Next]_(Lifecycle!vars)

LEMMA SameStatus ==
  ASSUME UNCHANGED St, UNCHANGED En
  PROVE  LifecycleStep
BY DEF St, En, LifecycleStep, Lifecycle!vars

(* Some runs end with the same outcome, and nobody's engagement changes.   *)
LEMMA ConcludeStep ==
  ASSUME rows \in [Runs -> Row], UNCHANGED En,
         NEW ended \in SUBSET Runs, NEW s \in Terminal,
         \A r \in ended : CanCancel(rows[r]),
         s = "succeeded" => \A r \in ended : CanSucceed(rows[r]),
         rows' = [r \in Runs |-> IF r \in ended THEN End(s) ELSE rows[r]]
  PROVE  LifecycleStep
<1>1. CASE ended = {}
  <2>1. UNCHANGED St
    BY <1>1 DEF St
  <2> QED
    BY <2>1, SameStatus
<1>2. CASE ended # {}
  <2>1. \A r \in ended : St[r] \in {"pending", "running"}
    BY DEF St, CanCancel, Row
  <2>2. s = "succeeded" => \A r \in ended : St[r] = "running"
    BY DEF St, CanSucceed
  <2>3. St' = [r \in Runs |-> IF r \in ended THEN s ELSE St[r]]
    BY DEF St, End
  <2>4. Lifecycle!Conclude(ended, s) /\ UNCHANGED En
    BY <1>2, <2>1, <2>2, <2>3 DEF St, Lifecycle!Conclude
  <2> QED
    BY <2>4 DEF LifecycleStep, Lifecycle!Next, Lifecycle!Outcomes, En
<1> QED
  BY <1>1, <1>2

(* One conditional UPDATE that ends a run, applied or not.                 *)
LEMMA EndStep ==
  ASSUME rows \in [Runs -> Row], UNCHANGED En,
         NEW q \in Runs, NEW s \in Terminal,
         \/ /\ CanCancel(rows[q])
            /\ s = "succeeded" => CanSucceed(rows[q])
            /\ rows' = [rows EXCEPT ![q] = End(s)]
         \/ UNCHANGED rows
  PROVE  LifecycleStep
<1>1. CASE UNCHANGED rows
  <2>1. UNCHANGED St
    BY <1>1 DEF St
  <2> QED
    BY <2>1, SameStatus
<1>2. CASE /\ CanCancel(rows[q])
           /\ s = "succeeded" => CanSucceed(rows[q])
           /\ rows' = [rows EXCEPT ![q] = End(s)]
  <2>1. rows' = [r \in Runs |-> IF r \in {q} THEN End(s) ELSE rows[r]]
    BY <1>2
  <2> QED
    BY <1>2, <2>1, ConcludeStep
<1> QED
  BY <1>1, <1>2

(* A task that ends: its worker is no longer engaged, nobody else changes. *)
LEMMA LeaveStep ==
  ASSUME TypeInv, EngagedInv, NEW w \in Workers, Leave(w), UNCHANGED rows
  PROVE  LifecycleStep
<1> USE DEF EngagedPCs
<1>1. /\ wk \in [Workers -> [pc : PCs, run : Runs \cup {NoRun},
                             token : Tokens \cup {NoOwner}]]
      /\ wk' = [wk EXCEPT ![w] = IdleTask]
  BY DEF TypeInv, TypeOK, Leave
<1>2. UNCHANGED St
  BY DEF St
<1>3. CASE wk[w].pc \notin EngagedPCs
  <2>1. UNCHANGED En
    BY <1>1, <1>3 DEF En, Engaged
  <2> QED
    BY <1>2, <2>1, SameStatus
<1>4. CASE wk[w].pc \in EngagedPCs
  <2>1. wk[w].run \in Runs /\ w \in Engaged(wk[w].run)
    BY <1>4 DEF TypeInv, TaskOK, Engaged
  <2>2. En' = [En EXCEPT ![wk[w].run] = @ \ {w}]
    <3>1. \A r \in Runs : Engaged(r)' = IF r = wk[w].run THEN Engaged(r) \ {w}
                                        ELSE Engaged(r)
      BY <1>1, <1>4, <2>1 DEF Engaged
    <3> QED
      BY <3>1 DEF En
  <2>3. Lifecycle!Leave(wk[w].run, w) /\ UNCHANGED St
    BY <1>2, <2>1, <2>2 DEF En, Lifecycle!Leave
  <2> QED
    BY <2>1, <2>3 DEF LifecycleStep, Lifecycle!Next, St
<1> QED
  BY <1>3, <1>4

(* A claim: the run was pending, so nobody was engaged with it.            *)
LEMMA ClaimStep ==
  ASSUME TypeInv, EngagedInv, NEW w \in Workers, ClaimRun(w)
  PROVE  LifecycleStep
<1> USE DEF EngagedPCs
<1> DEFINE r == wk[w].run
<1>1. /\ wk \in [Workers -> [pc : PCs, run : Runs \cup {NoRun},
                             token : Tokens \cup {NoOwner}]]
      /\ wk' = [wk EXCEPT ![w].pc = "claimed"]
      /\ wk[w].pc = "loaded" /\ rows \in [Runs -> Row] /\ r \in Runs
      /\ rows[r].status = "pending"
      /\ rows' = [rows EXCEPT ![r] = Claim(wk[w].token)]
  BY DEF TypeInv, TypeOK, TaskOK, ClaimRun, Goto, CanStart
<1>2. Engaged(r) = {}
  BY <1>1 DEF EngagedInv, Engaged
<1>3. En' = [En EXCEPT ![r] = {w}]
  <2>1. Engaged(r)' = {w}
    BY <1>1, <1>2 DEF Engaged
  <2>2. \A q \in Runs \ {r} : Engaged(q)' = Engaged(q)
    BY <1>1 DEF Engaged
  <2> QED
    BY <2>1, <2>2, <1>1 DEF En
<1>4. St[r] = "pending" /\ St' = [St EXCEPT ![r] = "running"]
  BY <1>1 DEF St, Claim
<1>5. Lifecycle!Begin(r, w)
  BY <1>3, <1>4 DEF St, En, Lifecycle!Begin
<1> QED
  BY <1>1, <1>5 DEF LifecycleStep, Lifecycle!Next

(* What keeps every worker engaged with what it was engaged with.          *)
LEMMA SameEngaged ==
  ASSUME \A w \in Workers :
           /\ wk'[w].pc \in EngagedPCs <=> wk[w].pc \in EngagedPCs
           /\ wk[w].pc \in EngagedPCs => wk'[w].run = wk[w].run
  PROVE  UNCHANGED En
<1>1. \A r \in Runs : Engaged(r)' = Engaged(r)
  BY DEF EngagedPCs, Engaged
<1> QED
  BY <1>1 DEF En

LEMMA GotoEngaged ==
  ASSUME TypeInv, NEW w \in Workers, NEW pc \in EngagedPCs, wk[w].pc \in EngagedPCs,
         Goto(w, pc)
  PROVE  UNCHANGED En
BY SameEngaged DEF Goto, TypeInv, TypeOK

LEMMA RefinementInit == Init => Lifecycle!Init
BY DEF Init, Lifecycle!Init, Engaged, NewRow

LEMMA RefinementNext == TypeInv /\ EngagedInv /\ [Next]_vars => LifecycleStep
<1> SUFFICES ASSUME TypeInv, EngagedInv, [Next]_vars PROVE LifecycleStep
  OBVIOUS
<1> USE DEF EngagedPCs
<1>1. /\ rows \in [Runs -> Row]
      /\ \A w \in Workers : wk[w].pc # "idle" => wk[w].run \in Runs
      /\ wk \in [Workers -> [pc : PCs, run : Runs \cup {NoRun},
                             token : Tokens \cup {NoOwner}]]
  BY DEF TypeInv, TypeOK, TaskOK
<1>2. ASSUME UNCHANGED wk PROVE UNCHANGED En
  BY <1>2, SameEngaged
<1>3. ASSUME UNCHANGED <<rows, wk>> PROVE LifecycleStep
  BY <1>2, <1>3, SameStatus DEF St
<1>4. ASSUME NEW w \in Workers, TaskStep(w) PROVE LifecycleStep
  <2>1. ASSUME NEW r \in Runs, LoadRun(w, r) \/ LoadArchived(w, r) PROVE LifecycleStep
    <3>1. UNCHANGED En
      BY <1>1, <2>1, SameEngaged DEF LoadRun, LoadArchived
    <3> QED
      BY <2>1, <3>1, SameStatus DEF LoadRun, LoadArchived, St
  <2>2. ASSUME RejectRun(w) PROVE LifecycleStep
    <3>1. UNCHANGED En
      BY <1>1, <2>2, SameEngaged DEF RejectRun, Leave
    <3> QED
      BY <1>1, <2>2, <3>1, EndStep DEF RejectRun, Unanswered, Applied, Refused
  <2>3. ASSUME ClaimRefused(w) \/ ClaimUnanswered(w) \/ RecordFailure(w) \/ Crash(w)
        PROVE  LifecycleStep
    BY <2>3, LeaveStep DEF ClaimRefused, ClaimUnanswered, RecordFailure, Crash
  <2>4. ASSUME StartHeartbeat(w) \/ StartHistory(w) \/ ExecutionRaises(w)
        PROVE  LifecycleStep
    <3>1. /\ wk[w].pc \in EngagedPCs /\ UNCHANGED rows
          /\ \E pc \in EngagedPCs : Goto(w, pc)
      BY <2>4 DEF StartHeartbeat, StartHistory, ExecutionRaises
    <3> QED
      BY <3>1, GotoEngaged, SameStatus DEF St
  <2>5. ASSUME CommitSucceeded(w) PROVE LifecycleStep
    <3>1. UNCHANGED En
      BY <2>5, GotoEngaged DEF CommitSucceeded
    <3>2. CanSucceed(rows[wk[w].run]) => CanCancel(rows[wk[w].run])
      BY DEF CanSucceed, CanCancel
    <3> QED
      BY <1>1, <2>5, <3>1, <3>2, EndStep
      DEF CommitSucceeded, Unanswered, Applied, Refused
  <2>6. ASSUME CompleteHistory(w) PROVE LifecycleStep
    <3>1. CASE Leave(w)
      BY <2>6, <3>1, LeaveStep DEF CompleteHistory
    <3>2. CASE Goto(w, "failing")
      <4>1. UNCHANGED En
        BY <2>6, <3>2, GotoEngaged DEF CompleteHistory
      <4> QED
        BY <2>6, <4>1, SameStatus DEF CompleteHistory, St
    <3> QED
      BY <2>6, <3>1, <3>2 DEF CompleteHistory
  <2>7. ASSUME CommitFailed(w) PROVE LifecycleStep
    <3>1. UNCHANGED En
      BY <2>7, GotoEngaged DEF CommitFailed
    <3>2. CanFail(rows[wk[w].run]) => CanCancel(rows[wk[w].run])
      BY DEF CanFail, CanCancel
    <3> QED
      BY <1>1, <2>7, <3>1, <3>2, EndStep DEF CommitFailed, Unanswered, Applied
  <2> QED
    BY <1>4, <2>1, <2>2, <2>3, <2>4, <2>5, <2>6, <2>7, ClaimStep DEF TaskStep
<1>5. ASSUME NEW w \in Workers, HeartbeatStep(w) PROVE LifecycleStep
  <2>1. ASSUME RenewLease(w) PROVE LifecycleStep
    <3>1. UNCHANGED En
      BY <1>2, <2>1 DEF RenewLease
    <3>2. UNCHANGED St
      BY <1>1, <2>1 DEF RenewLease, Renew, St, Row
    <3> QED
      BY <3>1, <3>2, SameStatus
  <2>2. ASSUME CancelTask(w) \/ TerminateWorker(w) PROVE LifecycleStep
    BY <2>2, LeaveStep DEF CancelTask, TerminateWorker
  <2> QED
    BY <1>3, <1>5, <2>1, <2>2
    DEF HeartbeatStep, HeartbeatDue, RenewalReturns, RenewalDenied, RenewalRaises
<1>6. ASSUME NEW q \in Runs, ApiStep(q) PROVE LifecycleStep
  <2>1. UNCHANGED En
    BY <1>2, <1>6 DEF ApiStep, ApiStart, ApiSucceed, ApiFail, ApiCancel
  <2>2. CASE ApiStart(q)
    <3>1. St[q] = "pending" /\ St' = [St EXCEPT ![q] = "running"]
      BY <1>1, <2>2 DEF ApiStart, CanStart, Start, St, Row
    <3>2. Lifecycle!BeginByHand(q)
      BY <2>1, <3>1 DEF St, En, Lifecycle!BeginByHand
    <3> QED
      BY <3>2 DEF LifecycleStep, Lifecycle!Next
  <2>3. CASE ApiSucceed(q) \/ ApiFail(q) \/ ApiCancel(q)
    <3>1. CanSucceed(rows[q]) \/ CanFail(rows[q]) => CanCancel(rows[q])
      BY DEF CanSucceed, CanFail, CanCancel
    <3> QED
      BY <1>1, <2>1, <2>3, <3>1, EndStep DEF ApiSucceed, ApiFail, ApiCancel
  <2> QED
    BY <1>6, <2>2, <2>3 DEF ApiStep
<1>7. ASSUME NEW batch \in SUBSET Runs, FailOrphaned(batch) PROVE LifecycleStep
  <2>1. UNCHANGED En
    BY <1>2, <1>7 DEF FailOrphaned
  <2>2. \A r \in batch : CanCancel(rows[r])
    BY <1>7 DEF FailOrphaned, Orphaned, CanCancel
  <2> QED
    BY <1>1, <1>7, <2>1, <2>2, ConcludeStep DEF FailOrphaned
<1>8. CASE Tick
  <2>1. UNCHANGED En
    BY <1>2, <1>8 DEF Tick
  <2>2. UNCHANGED St
    BY <1>1, <1>8, OlderKeeps DEF Tick, St
  <2> QED
    BY <2>1, <2>2, SameStatus
<1> QED
  BY <1>3, <1>4, <1>5, <1>6, <1>7, <1>8 DEF Next, Reconcile, vars

(* The protocol implements the lifecycle promised of a run.                *)
THEOREM ImplementsLifecycle == Spec => KeepsLifecycle
<1>1. TypeInv /\ EngagedInv /\ [Next]_vars => [Lifecycle!Next]_(Lifecycle!vars)
  BY RefinementNext DEF LifecycleStep
<1> QED
  BY TypeInvInit, TypeInvNext, EngagedInit, EngagedNext, RefinementInit, <1>1,
     PTL DEF Spec, KeepsLifecycle, Lifecycle!Spec
=============================================================================
