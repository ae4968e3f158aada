--------------------------- MODULE ListenerLease ---------------------------
(***************************************************************************)
(* One listener subscription and the runtimes that share it: the lease on  *)
(* its row, the supervisors' passes, the adapters they start and stop, and *)
(* the status changes of users and of the supervisors themselves.          *)
(*                                                                         *)
(* The row keeps status, owner and lease twice: in columns and inside a    *)
(* payload.  claim_listener_subscription locks the row; every other writer *)
(* reads the payload without a lock and writes it back whole, so between   *)
(* its two steps other processes may commit.  Within a process the         *)
(* repository's asyncio lock lets one call run at a time.                  *)
(*                                                                         *)
(* lease_expires_at is kept as what is left of it, in half leases: 2 is    *)
(* more than half, 1 at most half, 0 expired.  Tick ages every copy, so    *)
(* time needs no bound.                                                    *)
(***************************************************************************)
EXTENDS Naturals, FiniteSets

CONSTANTS
  Runtimes,    \* backend processes, each with its supervisor and its API
  Nobody,      \* assigned_runtime is None
  MaxEdits,    \* bound: pauses, resumes, disablings and credential changes
  MaxFaults,   \* bound: failing database calls and processes that die
  MaxTrouble   \* bound: edits and faults together

ASSUME NobodyIsNoRuntime == Nobody \notin Runtimes
ASSUME BoundsAreNat == MaxEdits \in Nat /\ MaxFaults \in Nat /\ MaxTrouble \in Nat

VARIABLES
  cols,     \* the row's columns status, assigned_runtime, lease_expires_at
  pay,      \* the same three inside the row's payload
  call,     \* call[p]: the read-modify-write under way in p, with its copy
  sup,      \* sup[p]: where p's supervisor stands in its pass
  seen,     \* seen[p]: the payload p's pass has listed
  task,     \* task[p]: p's adapter task for the subscription
  resolves, \* the subscription's credentials can be resolved
  passed,   \* the runtimes that have ended a pass since the last tick
  edits, faults

vars == <<cols, pay, call, sup, seen, task, resolves, passed, edits, faults>>

Statuses == {"active", "blocked", "paused", "disabled"}
Lease == [status : Statuses, owner : Runtimes \cup {Nobody}, left : 0 .. 2]
Free(s) == [status |-> s, owner |-> Nobody, left |-> 0]

(* A call that has read the payload and not yet written it.                *)
Kinds == {"release", "dispatch", "status"}
Calls == [kind : Kinds, by : {"supervisor", "adapter", "api"}, copy : Lease,
          old : BOOLEAN]   \* under way at the last tick already
NoCall == [kind |-> "none", by |-> "nobody", copy |-> Free("active"), old |-> FALSE]

Places == {"idle", "listed", "promote", "reclaim", "block", "unbuild",
           "stale", "waiting", "dead", "gone"}

(* none; running; told to stop; in the finally of _run_adapter; or done    *)
(* with an exception and still in _tasks.                                  *)
Tasks == {"none", "up", "stopping", "releasing", "ended"}

TypeOK ==
  /\ cols \in Lease /\ pay \in Lease
  /\ call \in [Runtimes -> Calls \cup {NoCall}]
  /\ sup \in [Runtimes -> Places]
  /\ seen \in [Runtimes -> Lease]
  /\ task \in [Runtimes -> Tasks]
  /\ resolves \in BOOLEAN /\ passed \in SUBSET Runtimes
  /\ edits \in 0 .. MaxEdits /\ faults \in 0 .. MaxFaults

Init ==
  /\ \E s \in {"active", "paused"} : cols = Free(s) /\ pay = Free(s)
  /\ call = [p \in Runtimes |-> NoCall]
  /\ sup = [p \in Runtimes |-> "idle"]
  /\ seen = [p \in Runtimes |-> Free("active")]
  /\ task = [p \in Runtimes |-> "none"]
  /\ resolves \in BOOLEAN /\ passed = {}
  /\ edits = 0 /\ faults = 0

-----------------------------------------------------------------------------
(* Helpers.                                                                *)

Idle(p) == call[p] = NoCall      \* p's repository lock is free
Has(p) == task[p] # "none"       \* the subscription is in p's _tasks

Go(p, place) ==
  /\ sup' = [sup EXCEPT ![p] = place]
  /\ seen' = [seen EXCEPT ![p] = Free("active")]
  /\ passed' = IF place = "idle" THEN passed \cup {p} ELSE passed

Stay == UNCHANGED <<sup, seen, passed>>

Begin(p, kind, by, copy) ==
  call' = [call EXCEPT ![p] = [kind |-> kind, by |-> by, copy |-> copy, old |-> FALSE]]

(* A mutation: a lease that has expired is not taken over.                 *)
ClaimableUnowned(p) ==
  /\ pay.status = "active" /\ cols.status = "active"
  /\ pay.owner \in {Nobody, p} /\ cols.owner \in {Nobody, p}

(* claim_listener_subscription under the row lock: the payload decides,    *)
(* then the UPDATE's conditions on the columns.                            *)
Claimable(p) ==
  /\ pay.status = "active" /\ cols.status = "active"
  /\ pay.owner \in {Nobody, p} \/ pay.left = 0
  /\ cols.owner \in {Nobody, p} \/ cols.left = 0

(* A mutation: the lease is set to more than its length.                   *)
HeldLonger(p) == [status |-> "active", owner |-> p, left |-> 3]

Held(p) == [status |-> "active", owner |-> p, left |-> 2]

Take(p) == cols' = Held(p) /\ pay' = Held(p)

Trouble == edits + faults < MaxTrouble
Fault == Trouble /\ faults < MaxFaults /\ faults' = faults + 1

UnchangedRow == UNCHANGED <<cols, pay>>
UnchangedEnv == UNCHANGED <<resolves, edits, faults>>

-----------------------------------------------------------------------------
(* A supervisor's pass (run_once).                                         *)

List(p) ==
  /\ sup[p] = "idle" /\ Idle(p)
  /\ sup' = [sup EXCEPT ![p] = "listed"]
  /\ seen' = [seen EXCEPT ![p] = pay]
  /\ UNCHANGED <<call, task, passed>> /\ UnchangedRow /\ UnchangedEnv

(* A mutation: a lease of its own is left alone until it has expired.      *)
StillHeld(p) == Has(p) /\ seen[p].owner = p /\ seen[p].left > 0

(* Its own lease has more than half to go: no renewal.                     *)
StillFresh(p) == Has(p) /\ seen[p].owner = p /\ seen[p].left = 2

Keep(p) ==
  /\ sup[p] = "listed" /\ seen[p].status = "active" /\ StillFresh(p)
  /\ Go(p, "idle")
  /\ UNCHANGED <<call, task>> /\ UnchangedRow /\ UnchangedEnv

Wants(p) ==
  /\ Idle(p)
  /\ \/ sup[p] = "listed" /\ seen[p].status = "active" /\ ~StillFresh(p)
     \/ sup[p] = "reclaim"

Renew(p) ==
  /\ Wants(p) /\ Claimable(p) /\ Has(p)
  /\ Take(p) /\ Go(p, "idle")
  /\ UNCHANGED <<call, task>> /\ UnchangedEnv

(* The factory and create_task follow the claim without an await.          *)
ClaimAndStart(p) ==
  /\ Wants(p) /\ Claimable(p) /\ ~Has(p)
  /\ resolves \/ sup[p] = "reclaim"     \* there the adapter is built already
  /\ Take(p) /\ Go(p, "idle")
  /\ task' = [task EXCEPT ![p] = "up"]
  /\ UNCHANGED call /\ UnchangedEnv

(* The factory raises: for want of a credential, or otherwise.             *)
ClaimUnbuilt(p) ==
  /\ Wants(p) /\ Claimable(p) /\ ~Has(p) /\ sup[p] = "listed"
  /\ Take(p)
  /\ \/ ~resolves /\ Go(p, "block") /\ UNCHANGED faults
     \/ resolves /\ Go(p, "unbuild") /\ Fault
  /\ UNCHANGED <<call, task, resolves, edits>>

ClaimRefused(p) ==
  /\ Wants(p) /\ ~Claimable(p)
  /\ Go(p, "stale")
  /\ UNCHANGED <<call, task>> /\ UnchangedRow /\ UnchangedEnv

(* A mutation: what is not active counts among the pass's subscriptions.   *)
PassOverKept(p) ==
  /\ sup[p] = "listed" /\ seen[p].status # "active"
  /\ Go(p, "idle")
  /\ UNCHANGED <<call, task>> /\ UnchangedRow /\ UnchangedEnv

(* Paused or disabled, or blocked and its adapter cannot be built.         *)
PassOver(p) ==
  /\ sup[p] = "listed" /\ seen[p].status # "active"
  /\ IF seen[p].status = "blocked" /\ resolves THEN Fault ELSE UNCHANGED faults
  /\ Go(p, "stale")
  /\ UNCHANGED <<call, task, resolves, edits>> /\ UnchangedRow

(* The adapter of a blocked subscription can be built again, or fails on   *)
(* another credential than the one recorded in last_error.                 *)
RecoverBlocked(p) ==
  /\ sup[p] = "listed" /\ seen[p].status = "blocked"
  /\ Go(p, IF resolves THEN "promote" ELSE "block")
  /\ UNCHANGED <<call, task>> /\ UnchangedRow /\ UnchangedEnv

(* update_listener_subscription_status reads whatever the payload now is   *)
(* and sets the status the supervisor decided on.                          *)
SupervisorReads(p) ==
  /\ sup[p] \in {"promote", "block"} /\ Idle(p)
  /\ Begin(p, "status", "supervisor",
           Free(IF sup[p] = "promote" THEN "active" ELSE "blocked"))
  /\ UNCHANGED task /\ Stay /\ UnchangedRow /\ UnchangedEnv

Unbuild(p) ==
  /\ sup[p] = "unbuild" /\ Idle(p)
  /\ IF pay.owner = p
       THEN Begin(p, "release", "supervisor", pay) /\ Stay
       ELSE Go(p, "stale") /\ UNCHANGED call
  /\ UNCHANGED task /\ UnchangedRow /\ UnchangedEnv

(* Nothing to stop, or the task has ended.                                 *)
EndPass(p) ==
  /\ sup[p] \in {"stale", "waiting"} /\ ~Has(p)
  /\ Go(p, "idle")
  /\ UNCHANGED <<call, task>> /\ UnchangedRow /\ UnchangedEnv

(* A mutation: the stop event is not set.                                  *)
StopAdapterUntold(p) ==
  /\ sup[p] = "stale" /\ task[p] \in {"up", "stopping", "releasing"}
  /\ Go(p, "waiting")
  /\ UNCHANGED <<call, task>> /\ UnchangedRow /\ UnchangedEnv

(* The subscription is not among the pass's active ones: stop its adapter  *)
(* and wait for the task, however long its poll takes.                     *)
StopAdapter(p) ==
  /\ sup[p] = "stale" /\ task[p] \in {"up", "stopping", "releasing"}
  /\ Go(p, "waiting")
  /\ task' = [task EXCEPT ![p] = IF @ = "up" THEN "stopping" ELSE @]
  /\ UNCHANGED call /\ UnchangedRow /\ UnchangedEnv

(* Awaiting a task that ended with an exception raises it: serve ends.     *)
AwaitRaises(p) ==
  /\ sup[p] \in {"stale", "waiting"} /\ task[p] = "ended"
  /\ Go(p, "dead")
  /\ UNCHANGED <<call, task>> /\ UnchangedRow /\ UnchangedEnv

-----------------------------------------------------------------------------
(* The adapter task (_run_adapter) and the events it dispatches.           *)

(* It returns when told to stop; of its own only when it fails.            *)
AdapterReturns(p) ==
  /\ call[p].by # "adapter"
  /\ \/ task[p] = "stopping" /\ UNCHANGED faults
     \/ task[p] = "up" /\ Fault
  /\ task' = [task EXCEPT ![p] = "releasing"]
  /\ UNCHANGED <<call, resolves, edits>> /\ Stay /\ UnchangedRow

BeginRelease(p) ==
  /\ task[p] = "releasing" /\ Idle(p)
  /\ IF pay.owner = p
       THEN Begin(p, "release", "adapter", pay) /\ UNCHANGED task
       ELSE task' = [task EXCEPT ![p] = "none"] /\ UNCHANGED call
  /\ Stay /\ UnchangedRow /\ UnchangedEnv

BeginDispatch(p) ==
  /\ task[p] \in {"up", "stopping"} /\ Idle(p) /\ pay.status = "active"
  /\ Begin(p, "dispatch", "adapter", pay)
  /\ UNCHANGED task /\ Stay /\ UnchangedRow /\ UnchangedEnv

-----------------------------------------------------------------------------
(* The second half of a call: the UPDATE, and what its caller does next.   *)

(* A mutation: a change of status is written into the payload only.        *)
WrittenPayload(c) ==
  CASE c.kind = "release" -> cols' = Free(cols.status) /\ pay' = Free(c.copy.status)
    [] OTHER              -> pay' = c.copy /\ UNCHANGED cols

Written(c) ==
  CASE c.kind = "release"  -> cols' = Free(cols.status) /\ pay' = Free(c.copy.status)
    [] c.kind = "dispatch" -> pay' = c.copy /\ UNCHANGED cols
    [] c.kind = "status"   -> cols' = c.copy /\ pay' = c.copy

Afterwards(p) ==
  LET c == call[p] IN
  /\ IF c.by = "supervisor"
       THEN Go(p, IF sup[p] = "promote" THEN "reclaim" ELSE "stale")
       ELSE Stay
  /\ task' = IF c.by = "adapter" /\ c.kind = "release"
               THEN [task EXCEPT ![p] = "none"] ELSE task

Write(p) ==
  /\ ~Idle(p)
  /\ Written(call[p])
  /\ Afterwards(p)
  /\ call' = [call EXCEPT ![p] = NoCall]
  /\ UnchangedEnv

-----------------------------------------------------------------------------
(* Users: pause, resume, and the archiving of the workflow or a new        *)
(* version, which disable what is not disabled yet.                        *)

Edit == Trouble /\ edits < MaxEdits /\ edits' = edits + 1

ApiReads(p, s) ==
  /\ sup[p] # "gone" /\ Idle(p) /\ Edit
  /\ s = "disabled" => cols.status # "disabled"
  /\ Begin(p, "status", "api", Free(s))
  /\ UNCHANGED <<task, resolves, faults>> /\ Stay /\ UnchangedRow

Pause(p) == ApiReads(p, "paused")
Resume(p) == ApiReads(p, "active")
Disable(p) == ApiReads(p, "disabled")

(* A credential of the subscription is deleted, or entered again.          *)
ChangeCredential ==
  /\ Edit
  /\ resolves' = ~resolves
  /\ UNCHANGED <<call, task, faults>> /\ Stay /\ UnchangedRow

-----------------------------------------------------------------------------
(* Faults and time.                                                        *)

(* A database call of the pass raises: nothing in run_once or serve        *)
(* catches it, and _run_supervisor only logs it.                           *)
PassRaises(p) ==
  /\ sup[p] \in {"idle", "listed", "promote", "reclaim", "block", "unbuild"} /\ Fault
  /\ Idle(p) \/ call[p].by = "supervisor"
  /\ Go(p, "dead")
  /\ call' = [call EXCEPT ![p] = NoCall]
  /\ UNCHANGED <<task, resolves, edits>> /\ UnchangedRow

(* The release in the finally raises: the task is not popped.  It happens  *)
(* once per runtime at most, and needs no bound.                           *)
ReleaseRaises(p) ==
  /\ task[p] = "releasing"
  /\ Idle(p) \/ call[p].by = "adapter"
  /\ task' = [task EXCEPT ![p] = "ended"]
  /\ call' = [call EXCEPT ![p] = NoCall]
  /\ Stay /\ UnchangedRow /\ UnchangedEnv

Crash(p) ==
  /\ sup[p] # "gone" /\ Fault
  /\ Go(p, "gone")
  /\ call' = [call EXCEPT ![p] = NoCall]
  /\ task' = [task EXCEPT ![p] = "none"]
  /\ UNCHANGED <<resolves, edits>> /\ UnchangedRow

Aged(l) == [l EXCEPT !.left = IF @ = 0 THEN 0 ELSE @ - 1]

(* No call lasts over two ticks, and every supervisor ends a pass in each  *)
(* half lease, unless it waits for its adapter to stop.                    *)
Timely ==
  \A p \in Runtimes :
    ~call[p].old /\ (p \in passed \/ sup[p] \in {"waiting", "dead", "gone"})

Tick ==
  /\ IF Timely THEN UNCHANGED faults ELSE Fault
  /\ cols' = Aged(cols) /\ pay' = Aged(pay)
  /\ seen' = [p \in Runtimes |-> Aged(seen[p])]
  /\ call' = [p \in Runtimes |-> [call[p] EXCEPT !.copy = Aged(@), !.old = ~Idle(p)]]
  /\ passed' = {}
  /\ UNCHANGED <<sup, task, resolves, edits>>

PassStep(p) ==
  \/ List(p) \/ Keep(p) \/ Renew(p) \/ ClaimAndStart(p) \/ ClaimUnbuilt(p)
  \/ ClaimRefused(p) \/ PassOver(p) \/ RecoverBlocked(p) \/ SupervisorReads(p)
  \/ Unbuild(p) \/ EndPass(p) \/ StopAdapter(p) \/ AwaitRaises(p)

Next ==
  \/ \E p \in Runtimes :
       \/ PassStep(p)
       \/ AdapterReturns(p) \/ BeginRelease(p) \/ BeginDispatch(p) \/ Write(p)
       \/ Pause(p) \/ Resume(p) \/ Disable(p)
       \/ PassRaises(p) \/ ReleaseRaises(p) \/ Crash(p)
  \/ ChangeCredential
  \/ Tick

Spec == Init /\ [][Next]_vars

(* The event loops go on; the repository's lock is first come first        *)
(* served; an adapter told to stop returns; and building an adapter whose  *)
(* credentials resolve does not fail every time.                           *)
Fairness ==
  /\ WF_vars(Tick)
  /\ \A p \in Runtimes :
       /\ WF_vars(Write(p)) /\ SF_vars(PassStep(p)) /\ SF_vars(BeginRelease(p))
       /\ SF_vars(task[p] = "stopping" /\ AdapterReturns(p))

FairSpec == Spec /\ Fairness

-----------------------------------------------------------------------------
(* Properties.                                                             *)

Serving == {p \in Runtimes : task[p] \in {"up", "stopping"}}

(* A supervisor has died, or keeps a task that has ended: from then on     *)
(* nothing restarts it.                                                    *)
Broken == \E p \in Runtimes : sup[p] = "dead" \/ task[p] = "ended"

(* While nobody edits and nothing fails or comes late, renewing in the     *)
(* second half of a lease keeps the subscription with one runtime, however *)
(* the claims, releases and dispatches of two runtimes interleave.         *)
OneAdapter == edits = 0 /\ faults = 0 => Cardinality(Serving) <= 1

(* The unlocked read-modify-writes of release and dispatch can leave an    *)
(* old "active" in the payload beside a newer column, never the reverse:   *)
(* a pass that skips a subscription on its payload is right to.            *)
InactiveIsReal == pay.status # "active" => cols.status = pay.status

(* Two adapters can serve one subscription, after a pass that came late or *)
(* a claim that another's unlocked release, dispatch or recovery undid.    *)
(* They do not stay: one of the two is refused its renewal and stops.      *)
OverlapEnds == Cardinality(Serving) > 1 ~> Cardinality(Serving) < 2 \/ Broken

(* A pause or a disabling reaches every running adapter, also when a       *)
(* concurrent release or dispatch has overwritten it in the payload.       *)
StopReachesAdapters ==
  cols.status \in {"paused", "disabled"}
    ~> Serving = {} \/ cols.status \in {"active", "blocked"} \/ Broken

(* An active subscription is served, whichever runtime died or lost its    *)
(* adapter: another takes the lease over, or the same one starts again.    *)
ActiveIsServed ==
  (cols.status = "active" /\ resolves)
    ~> (Serving # {} \/ cols.status # "active" \/ ~resolves \/ Broken)
=============================================================================
