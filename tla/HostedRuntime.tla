--------------------------- MODULE HostedRuntime ----------------------------
(***************************************************************************)
(* The invocations of a hosted app (internal.py, PostgresAppRuntimeService)*)
(* beside its control plane: a visitor's request resolves the release in   *)
(* one transaction and accepts a run in another, under an advisory lock    *)
(* of its idempotency scope; the process that accepted the run executes it *)
(* in a task of its own; the task, or a poll after the timeout, settles    *)
(* the run and releases its concurrency lease.                             *)
(*                                                                         *)
(* One backend process serves everything, as in the local and single-node  *)
(* deployments this execution is for; its requests are concurrent, and it  *)
(* may crash and come back.                                                *)
(***************************************************************************)
EXTENDS HostedApps, FiniteSets

CONSTANTS
  Calls,         \* a visitor's requests, each at one thing at a time
  Keys,          \* idempotency keys of one visitor
  Handles,       \* run handles
  NoHandle,
  Limit,         \* the bindings' max_concurrency
  Timeout,       \* ticks until a run times out and its lease expires
  Ttl,           \* ticks until a handle and its idempotency record expire
  MaxFaults    \* bound: crashes and tasks that die

VARIABLES
  run,           \* hosted_app_runtime_runs, with its lease and its
                 \* idempotency record
  call,          \* what each request is doing
  tasks,         \* runs a task of the process executes
  faults         \* crashes and dead tasks so far

runtimeVars == <<run, call, tasks, faults>>
vars == <<controlVars, runtimeVars>>

(* A binding's timeout_seconds is at most an hour (models.py:121), the     *)
(* handle's lifetime.                                                      *)
ASSUME RuntimeAssumption ==
  /\ Timeout \in Nat \ {0} /\ Ttl \in Nat /\ Timeout <= Ttl
  /\ Limit \in Nat
  /\ Keys # {} /\ IsFiniteSet(Handles) /\ NoHandle \notin Handles

-----------------------------------------------------------------------------
Status == {"none", "accepted", "completed", "failed"}

(* left and ttl count down to timeout_at and expires_at; leased is a lease *)
(* that is not released; started is a history variable: executions begun.  *)
Run == [status : Status, release : Releases \cup {NoRelease}, generation : Nat,
        key : Keys, left : 0 .. Timeout, ttl : 0 .. Ttl, leased : BOOLEAN,
        started : Nat]

Call == [step : {"idle", "resolved", "locked", "counted", "accepted"},
         release : Releases \cup {NoRelease}, generation : Nat, key : Keys,
         handle : Handles \cup {NoHandle}]

AnyKey == CHOOSE k \in Keys : TRUE
NoRun  == [status |-> "none", release |-> NoRelease, generation |-> 0, key |-> AnyKey,
           left |-> 0, ttl |-> 0, leased |-> FALSE, started |-> 0]
NoCall == [step |-> "idle", release |-> NoRelease, generation |-> 0, key |-> AnyKey,
           handle |-> NoHandle]

Init ==
  /\ ControlInit
  /\ run = [h \in Handles |-> NoRun]
  /\ call = [c \in Calls |-> NoCall]
  /\ tasks = {}
  /\ faults = 0

Become(c, state) == call' = [call EXCEPT ![c] = state]
Answer(c) == Become(c, NoCall)

-----------------------------------------------------------------------------
(* accept_runtime_run.                                                     *)

(* _resolve_descriptor.                                                    *)
Resolve(c) ==
  /\ call[c].step = "idle" /\ Begin
  /\ Resolvable
  /\ Become(c, [step |-> "resolved", release |-> app.active,
                generation |-> runtime.generation, key |-> AnyKey, handle |-> NoHandle])
  /\ UNCHANGED <<rowVars, requestVars, switchVars, run, tasks, faults>>

(* The idempotency scope: release, binding, visitor and key.               *)
SameScope(a, b) == a.release = b.release /\ a.key = b.key

(* A mutation: there is no such lock. *)
ScopeUnlocked(scope) == scope.step = "resolved"

(* The lock of the scope, held to the end of the transaction.              *)
ScopeFree(scope) ==
  \A c \in Calls : call[c].step \in {"locked", "counted"} => ~SameScope(call[c], scope)

(* accept, up to the answer of an invocation that is already known.        *)
Lookup(c, k) ==
  LET scope == [call[c] EXCEPT !.key = k] IN
  /\ call[c].step = "resolved"
  /\ ScopeFree(scope)
  /\ IF \E h \in Handles : run[h].ttl > 0 /\ SameScope(run[h], scope)
     THEN Answer(c)
     ELSE Become(c, [scope EXCEPT !.step = "locked"])
  /\ UNCHANGED <<controlVars, run, tasks, faults>>

(* The binding of a release: the draft's keeps its id, while those of a    *)
(* manifest are made anew for every release.                               *)
OfTheDraft == {r \in Releases : releases[r].grants.deployment = 0}
SameBinding(r, s) == r = s \/ {r, s} \subseteq OfTheDraft

Live(h) == run[h].leased /\ run[h].left > 0
Leases(r) == {h \in Handles : Live(h) /\ SameBinding(run[h].release, r)}

(* A mutation: there is no such lock. *)
LimitUnlocked(r) == r \in Releases

(* The lock of the limit, held to the end of the transaction.              *)
LimitFree(r) ==
  \A c \in Calls : call[c].step = "counted" => ~SameBinding(call[c].release, r)

(* _reserve_limits counts the leases ...                                   *)
Count(c) ==
  /\ call[c].step = "locked"
  /\ LimitFree(call[c].release)
  /\ IF Cardinality(Leases(call[c].release)) >= Limit
     THEN Answer(c)
     ELSE Become(c, [call[c] EXCEPT !.step = "counted"])
  /\ UNCHANGED <<controlVars, run, tasks, faults>>

NewRun(c) ==
  [status |-> "accepted", release |-> call[c].release, generation |-> call[c].generation,
   key |-> call[c].key, left |-> Timeout, ttl |-> Ttl, leased |-> TRUE, started |-> 0]

(* ... expired ones are released, and the lease, the run and its           *)
(* idempotency record are committed together.                              *)
Accept(c) ==
  /\ call[c].step = "counted"
  /\ \E h \in Handles :
       /\ run[h] = NoRun
       /\ run' = [g \in Handles |->
            IF g = h THEN NewRun(c)
            ELSE IF run[g].left = 0 /\ SameBinding(run[g].release, call[c].release)
                 THEN [run[g] EXCEPT !.leased = FALSE]
            ELSE run[g]]
       /\ Become(c, [call[c] EXCEPT !.step = "accepted", !.handle = h])
  /\ UNCHANGED <<controlVars, tasks, faults>>

(* _schedule_local_runtime_run, only for a newly accepted run.             *)
Schedule(c) ==
  LET h == call[c].handle IN
  /\ call[c].step = "accepted"
  /\ tasks' = tasks \cup {h}
  /\ run' = [run EXCEPT ![h].started = @ + 1]
  /\ Answer(c)
  /\ UNCHANGED <<controlVars, faults>>

-----------------------------------------------------------------------------
(* A mutation: the lease is kept. *)
SettledLeased(r, status) == [r EXCEPT !.status = status]

(* _mark_failed or complete's update, and _release_concurrency.            *)
Settled(r, status) == [r EXCEPT !.status = status, !.leased = FALSE]

(* A mutation: a late result overwrites a run that is settled. *)
CompletedLate(r, ok) == Settled(r, IF ok THEN "completed" ELSE "failed")

(* complete: only a run that is not settled, by its timeout first.         *)
Completed(r, ok) ==
  IF r.status = "accepted"
  THEN Settled(r, IF ok /\ r.left > 0 THEN "completed" ELSE "failed")
  ELSE r

(* _execute_local_runtime_run ends: with a result, an error or a timeout.  *)
Finish(h, ok) ==
  /\ h \in tasks
  /\ tasks' = tasks \ {h}
  /\ run' = [run EXCEPT ![h] = Completed(@, ok)]
  /\ UNCHANGED <<controlVars, call, faults>>

(* complete itself fails, twice: the run stays accepted.                   *)
TaskDies(h) ==
  /\ faults < MaxFaults
  /\ h \in tasks
  /\ tasks' = tasks \ {h}
  /\ faults' = faults + 1
  /\ UNCHANGED <<controlVars, run, call>>

(* get_runtime_run, after it resolved the host: _settle_timeout.           *)
Poll(c, h) ==
  /\ call[c].step = "resolved"
  /\ run' = IF /\ run[h].generation = call[c].generation
               /\ run[h].ttl > 0
               /\ run[h].left = 0
               /\ run[h].status = "accepted"
            THEN [run EXCEPT ![h] = Settled(@, "failed")]
            ELSE run
  /\ Answer(c)
  /\ UNCHANGED <<controlVars, tasks, faults>>

-----------------------------------------------------------------------------
(* A mutation: a countdown does not stop. *)
DownBelow(n) == n - 1

Down(n) == IF n = 0 THEN 0 ELSE n - 1

(* Time passes, but not within an acceptance, whose times are all reckoned *)
(* from the instant it began: from a later one it would count fewer leases *)
(* and find fewer runs.                                                    *)
Tick ==
  /\ \E h \in Handles : run[h].ttl > 0
  /\ \A c \in Calls : call[c].step \notin {"locked", "counted"}
  /\ run' = [h \in Handles |-> [run[h] EXCEPT !.left = Down(@), !.ttl = Down(@)]]
  /\ UNCHANGED <<controlVars, call, tasks, faults>>

Restart ==
  /\ faults < MaxFaults
  /\ faults' = faults + 1
  /\ DropRequests
  /\ call' = [c \in Calls |-> NoCall]
  /\ tasks' = {}
  /\ UNCHANGED run

-----------------------------------------------------------------------------
Invoke(c) ==
  \/ Resolve(c)
  \/ \E k \in Keys : Lookup(c, k)
  \/ Count(c) \/ Accept(c) \/ Schedule(c)
  \/ \E h \in Handles : Poll(c, h)
Execute(h) == (\E ok \in BOOLEAN : Finish(h, ok)) \/ TaskDies(h)

Next ==
  \/ ControlNext /\ UNCHANGED runtimeVars
  \/ \E c \in Calls : Invoke(c)
  \/ \E h \in Handles : Execute(h)
  \/ Tick
  \/ Restart

Spec == Init /\ [][Next]_vars

-----------------------------------------------------------------------------
(* Properties.                                                             *)

TypeOK ==
  /\ ControlTypeOK
  /\ run \in [Handles -> Run]
  /\ call \in [Calls -> Call]
  /\ tasks \subseteq Handles
  /\ faults \in Nat

(* A retried invocation gets the run it already has, whoever retries when, *)
(* and a run is executed at most once (docs/hosted_apps.md:93).            *)
OncePerKey ==
  /\ \A g, h \in Handles :
       g # h /\ run[g].ttl > 0 /\ run[h].ttl > 0 => ~SameScope(run[g], run[h])
  /\ \A h \in Handles : run[h].started <= 1

(* A binding never has more unsettled runs within their timeout than its   *)
(* limit.                                                                  *)
Unsettled(h) == run[h].status = "accepted" /\ run[h].left > 0
WithinLimit ==
  \A r \in Releases :
    Cardinality({h \in Handles : Unsettled(h) /\ SameBinding(run[h].release, r)}) <= Limit

(* A lease is in force exactly while its run is unsettled and within its   *)
(* timeout: neither a crash nor a late result leaks or frees a slot.       *)
LeaseFollowsRun == \A h \in Handles : Live(h) <=> Unsettled(h)

(* What a visitor was told of a settled run stays true: neither the task   *)
(* that ends after the timeout nor a poll changes it.                      *)
SettledIsFinal ==
  [][\A h \in Handles :
       run[h].status \in {"completed", "failed"} => run'[h].status = run[h].status]_vars
=============================================================================
