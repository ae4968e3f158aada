---------------------------- MODULE CronDispatch ----------------------------
(***************************************************************************)
(* The cron dispatchers of one workflow's schedule: every backend process, *)
(* scheduler and Celery worker that polls keeps its own copy of the        *)
(* schedule, refreshes it from the cron_triggers row at the start of a     *)
(* pass, plans from the copy and creates the run in a transaction that     *)
(* locks the row and checks the plan against it again.  Beside them the    *)
(* schedule is configured, deleted and archived through any process.       *)
(*                                                                         *)
(* A process runs one of these operations at a time (self._lock); what is  *)
(* done in memory and what one transaction does is atomic, everything      *)
(* between may interleave with other processes.  Publishing the runs is    *)
(* RunDispatch's, their execution WorkerOwnership's.                       *)
(***************************************************************************)
EXTENDS CronSchedule, Sequences, FiniteSets

CONSTANTS
  Processes,
  Configs,      \* schedules: [period, zone, start, end, overlap]
  ApiTimes,     \* values of now passed to POST /triggers/cron/dispatch
  MaxTime,      \* bound: the last instant
  MaxRuns,      \* bound: runs created
  MaxRows,      \* bound: times the row is inserted
  NoRow,        \* cron_triggers has no row of the workflow
  NoState       \* a process without a CronTriggerState of the workflow

ASSUME ConfigsAreSchedules == \A c \in Configs : IsSchedule(c) /\ c.overlap \in BOOLEAN
ASSUME TimesAreNat ==
  /\ ApiTimes \subseteq Nat /\ MaxTime \in Nat /\ MaxRuns \in Nat /\ MaxRows \in Nat
ASSUME NoneIsNone ==
  /\ NoRow \notin Configs /\ NoRow \notin [config : Configs, last : {None} \cup Nat]
  /\ NoState \notin [config : Configs, last : {None} \cup Nat, next : {None} \cup Nat]

VARIABLES
  now,
  archived,     \* workflows.is_archived
  row,          \* the cron_triggers row, numbered by its insertion
  rowsMade,     \* insertions so far
  runs,         \* cron runs in the order of their creation
  local,        \* each process's CronTriggerState
  task          \* what each process is doing

vars == <<now, archived, row, rowsMade, runs, local, task>>

-----------------------------------------------------------------------------
Idle    == [pc |-> "idle", at |-> None, config |-> NoRow]
Become(p, t) == task' = [task EXCEPT ![p] = t]

Init ==
  /\ now = 0
  /\ archived = FALSE
  /\ row = NoRow
  /\ rowsMade = 0
  /\ runs = <<>>
  /\ local = [p \in Processes |-> NoState]
  /\ task = [p \in Processes |-> Idle]

(* Non-terminal cron runs of the workflow. *)
NoActiveRun == \A i \in DOMAIN runs : ~runs[i].active

-----------------------------------------------------------------------------
(* dispatch_due_cron_runs                                                  *)

(* The reference time is taken before the lock and the refresh.            *)
BeginPass(p) ==
  /\ task[p].pc = "idle"
  /\ \E ref \in {now} \cup ApiTimes : Become(p, [Idle EXCEPT !.pc = "begun", !.at = ref])
  /\ UNCHANGED <<now, archived, row, rowsMade, runs, local>>

(* A mutation: only a changed configuration is taken over. *)
RefreshedIfReconfigured(p) ==
  CASE row = NoRow \/ archived   -> NoState
    [] OTHER -> IF local[p] = NoState THEN NewState(row.config, row.last)
                ELSE IF local[p].config = row.config THEN local[p]
                ELSE UpdateConfig(local[p], row.config, row.last)

(* _refresh_cron_triggers: the copy follows the row where they differ.     *)
Refreshed(p) ==
  CASE row = NoRow \/ archived   -> NoState
    [] OTHER -> IF local[p] = NoState THEN NewState(row.config, row.last)
                ELSE IF local[p].config = row.config /\ local[p].last = row.last
                     THEN local[p]
                ELSE UpdateConfig(local[p], row.config, row.last)

(* The refresh, which also takes over the active runs, and                 *)
(* collect_due_cron_dispatches on the refreshed copy.                      *)
Plan(p) ==
  /\ task[p].pc = "begun"
  /\ IF Refreshed(p) = NoState
     THEN /\ local' = [local EXCEPT ![p] = NoState]
          /\ Become(p, Idle)
     ELSE LET s == EnsureNext(Refreshed(p), task[p].at) IN
          /\ local' = [local EXCEPT ![p] = s]
          /\ IF IsDue(s, task[p].at) /\ (s.config.overlap \/ NoActiveRun)
             THEN Become(p, [Idle EXCEPT !.pc = "planned", !.at = s.next])
             ELSE Become(p, Idle)
  /\ UNCHANGED <<now, archived, row, rowsMade, runs>>

(* _get_workflow_locked, in a transaction of its own.                      *)
CheckWorkflow(p) ==
  /\ task[p].pc = "planned"
  /\ IF archived
     THEN /\ local' = [local EXCEPT ![p] = NoState]
          /\ Become(p, Idle)
     ELSE /\ task' = [task EXCEPT ![p].pc = "checked"]
          /\ UNCHANGED local
  /\ UNCHANGED <<now, archived, row, rowsMade, runs>>

(* The pass ends without a run: no version, unhealthy credentials, quota   *)
(* exceeded, the row locked by someone else, or a database error.          *)
SkipPlan(p) ==
  /\ task[p].pc \in {"begun", "planned", "checked"}
  /\ Become(p, Idle)
  /\ UNCHANGED <<now, archived, row, rowsMade, runs, local>>

(* Mutations: one of the checks under the row lock is missing. *)
AcceptsAgain(p) ==
  row # NoRow /\ row.config = local[p].config /\ (row.config.overlap \/ NoActiveRun)
AcceptsStale(p) ==
  row # NoRow /\ row.last < task[p].at /\ (row.config.overlap \/ NoActiveRun)
AcceptsOverlap(p) ==
  row # NoRow /\ row.config = local[p].config /\ row.last < task[p].at

(* _create_cron_run_once: what it checks under the row lock.               *)
Accepts(p) ==
  /\ row # NoRow
  /\ row.config = local[p].config
  /\ row.last = None \/ row.last < task[p].at
  /\ row.config.overlap \/ NoActiveRun

(* A mutation: the run does not say which occurrence it is for. *)
NewRunUnscheduled(p) == [at |-> None, of |-> rowsMade, config |-> row.config,
                         active |-> TRUE]

NewRun(p) == [at |-> task[p].at, of |-> rowsMade, config |-> row.config, active |-> TRUE]

(* The transaction, then the copy's schedule advances, unless the reply to *)
(* the commit was lost.                                                    *)
CreateRun(p) ==
  /\ task[p].pc = "checked"
  /\ IF Accepts(p)
     THEN /\ Len(runs) < MaxRuns
          /\ runs' = Append(runs, NewRun(p))
          /\ row' = [row EXCEPT !.last = task[p].at]
          /\ local' \in {local, [local EXCEPT ![p] = Consume(@)]}
     ELSE UNCHANGED <<row, runs, local>>
  /\ Become(p, Idle)
  /\ UNCHANGED <<now, archived, rowsMade>>

-----------------------------------------------------------------------------
(* configure_cron_trigger: the workflow is read in one transaction ...     *)
BeginConfigure(p, c) ==
  /\ task[p].pc = "idle" /\ ~archived
  /\ Become(p, [Idle EXCEPT !.pc = "configuring", !.config = c])
  /\ UNCHANGED <<now, archived, row, rowsMade, runs, local>>

(* ... the copy is changed, and the row written in another one.            *)
Configure(p) ==
  LET c == task[p].config IN
  /\ task[p].pc = "configuring"
  /\ local' = [local EXCEPT ![p] = IF @ = NoState THEN NewState(c, None)
                                   ELSE UpdateConfig(@, c, None)]
  /\ \/ /\ row = NoRow /\ rowsMade < MaxRows
        /\ row' = [config |-> c, last |-> None]
        /\ rowsMade' = rowsMade + 1
     \/ /\ row # NoRow
        /\ row' = [row EXCEPT !.config = c]
        /\ UNCHANGED rowsMade
     \/ UNCHANGED <<row, rowsMade>>
  /\ Become(p, Idle)
  /\ UNCHANGED <<now, archived, runs>>

(* delete_cron_trigger.  Were the commit's reply lost, this process would  *)
(* keep its copy, as every other process does.                             *)
DeleteTrigger(p) ==
  /\ task[p].pc = "idle"
  /\ row' = NoRow
  /\ local' = [local EXCEPT ![p] = NoState]
  /\ UNCHANGED <<now, archived, rowsMade, runs, task>>

(* update_workflow with is_archived: the row goes in the same transaction. *)
ArchiveWorkflow(p) ==
  /\ task[p].pc = "idle" /\ ~archived
  /\ archived' = TRUE
  /\ row' = NoRow
  /\ local' = [local EXCEPT ![p] = NoState]
  /\ UNCHANGED <<now, rowsMade, runs, task>>

UnarchiveWorkflow ==
  /\ archived
  /\ archived' = FALSE
  /\ UNCHANGED <<now, row, rowsMade, runs, local, task>>

(* A process dies and comes back; it hydrates what it would refresh.       *)
Restart(p) ==
  /\ local' = [local EXCEPT ![p] = NoState]
  /\ Become(p, Idle)
  /\ UNCHANGED <<now, archived, row, rowsMade, runs>>

(* A run reaches a terminal status. *)
EndRun(i) ==
  /\ runs[i].active
  /\ runs' = [runs EXCEPT ![i].active = FALSE]
  /\ UNCHANGED <<now, archived, row, rowsMade, local, task>>

Tick ==
  /\ now < MaxTime
  /\ now' = now + 1
  /\ UNCHANGED <<archived, row, rowsMade, runs, local, task>>

-----------------------------------------------------------------------------
Dispatch(p)  == BeginPass(p) \/ Plan(p) \/ CheckWorkflow(p) \/ SkipPlan(p) \/ CreateRun(p)
Operate(p)   == (\E c \in Configs : BeginConfigure(p, c)) \/ Configure(p)
                \/ DeleteTrigger(p) \/ ArchiveWorkflow(p) \/ Restart(p)

Next ==
  \/ \E p \in Processes : Dispatch(p) \/ Operate(p)
  \/ UnarchiveWorkflow
  \/ \E i \in DOMAIN runs : EndRun(i)
  \/ Tick

Spec == Init /\ [][Next]_vars

(* Every process polls for ever, its lock is first come first served and   *)
(* its passes go on; what makes a pass skip a plan (a lock, a quota, an    *)
(* error) does not happen every time; runs end.                            *)
Fairness ==
  /\ WF_vars(Tick)
  /\ \A p \in Processes :
       /\ WF_vars(Configure(p))
       /\ SF_vars(BeginPass(p)) /\ SF_vars(Plan(p))
       /\ SF_vars(CheckWorkflow(p)) /\ SF_vars(CreateRun(p))
  /\ \A i \in 1 .. MaxRuns : WF_vars(i \in DOMAIN runs /\ EndRun(i))

FairSpec == Spec /\ Fairness

-----------------------------------------------------------------------------
(* Properties.                                                             *)

Times == {None} \cup Nat

TypeOK ==
  /\ now \in 0 .. MaxTime /\ archived \in BOOLEAN /\ rowsMade \in 0 .. MaxRows
  /\ row = NoRow \/ row \in [config : Configs, last : Times]
  /\ runs \in Seq([at : Nat, of : 1 .. MaxRows, config : Configs, active : BOOLEAN])
  /\ \A p \in Processes :
       /\ local[p] = NoState \/ local[p] \in [config : Configs, last : Times, next : Times]
       /\ task[p] \in [pc : {"idle", "begun", "planned", "checked", "configuring"},
                       at : Times, config : Configs \cup {NoRow}]

(* However many dispatchers poll, and however stale their copies are, an   *)
(* occurrence of a schedule gets one run, and none after a later one.      *)
OneRunPerOccurrence ==
  \A i, j \in DOMAIN runs :
    i < j /\ runs[i].of = runs[j].of
    => runs[i].at \div Minute < runs[j].at \div Minute

(* A run's time is an occurrence of the schedule as it was configured when *)
(* the run was created, whatever its dispatcher planned from: a wall-clock *)
(* time of its expression, within its window, that the clock shows at that *)
(* instant or skips and would have shown then.                             *)
RunsAreOccurrences ==
  \A i \in DOMAIN runs :
    LET c == runs[i].config
        u == runs[i].at
    IN \E l \in {u, u + c.zone.shift} :
         /\ l = Local(c, u) \/ u = Instant(c, l, FALSE)
         /\ Matches(c, l)
         /\ c.start # None => l >= Local(c, c.start)
         /\ c.end # None => l <= Local(c, c.end)

(* A plan that was made from the row as it is now is for a later time than *)
(* the last dispatch: _create_cron_run_once does not refuse it as stale,   *)
(* as it would on this pass and on every other one.  It does when the last *)
(* dispatch was in the second pass of an hour that the row's zone repeats. *)
PlansGoOn ==
  \A p \in Processes :
    /\ task[p].pc \in {"planned", "checked"} /\ row # NoRow
    /\ local[p].config = row.config /\ local[p].last = row.last
    => \/ row.last = None \/ row.last < task[p].at
       \/ SecondReading(row.config, row.last)

(* A schedule without overlap gets no run while another is active.         *)
NoOverlap ==
  [][\A p \in Processes :
       Len(runs') > Len(runs) /\ ~row.config.overlap => NoActiveRun]_vars

(* The repository's tests: an archived workflow keeps no schedule and gets *)
(* none, here also when another process archives it while configure_cron   *)
(* is between its check and its write.                                     *)
ArchivedHasNoSchedule == archived => row = NoRow

(* No copy, however stale or ahead of the row, keeps a due occurrence from *)
(* being dispatched: the row advances, or the schedule is changed.         *)
DueIsDispatched ==
  \A c \in Configs : \A t \in 0 .. MaxTime :
    (row = [config |-> c, last |-> t] /\ ~archived /\ Len(runs) < MaxRuns
       /\ NextAfter(c, t, FALSE) # None /\ NextAfter(c, t, FALSE) <= now)
    ~> (row # [config |-> c, last |-> t] \/ archived)
=============================================================================
