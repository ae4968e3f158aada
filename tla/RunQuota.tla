------------------------------ MODULE RunQuota ------------------------------
(***************************************************************************)
(* The run quota of one workspace.  Whoever creates a run, in a            *)
(* transaction of its own or in the one that also advances a cron          *)
(* schedule, takes the workspace's advisory lock, counts the committed     *)
(* runs that hold a slot and inserts.  The lock goes with the transaction. *)
(* The creators are the processes, as each creates one run at a time       *)
(* (self._lock); each run of a manual batch has its own transaction.       *)
(*                                                                         *)
(* Transactions are READ COMMITTED: the count's snapshot is taken when the *)
(* lock has been granted.  A workspace keeps the quota it was created      *)
(* with: no operation changes it.                                          *)
(***************************************************************************)
EXTENDS Integers

CONSTANTS
  Creators,
  Limit,        \* WorkspaceQuotas.max_concurrent_runs, at least 1
  NoCreator

ASSUME LimitIsPositive == Limit \in Nat \ {0}
ASSUME NoCreatorIsNone == NoCreator \notin Creators

VARIABLES
  active,       \* committed runs of the workspace that are pending or running
  holder,       \* whose transaction holds the advisory lock
  creating      \* how far each creator's transaction is

quotaVars == <<active, holder, creating>>

QuotaInit ==
  /\ active = 0
  /\ holder = NoCreator
  /\ creating = [c \in Creators |-> "idle"]

Proceed(c, pc) == creating' = [creating EXCEPT ![c] = pc]

(* The transaction ends, and with it its lock. *)
EndTransaction(c) ==
  /\ Proceed(c, "idle")
  /\ holder' = IF holder = c THEN NoCreator ELSE holder

-----------------------------------------------------------------------------
(* _create_run_locked up to the lock: version, quota and payload are read  *)
(* before, on other connections.                                           *)
BeginRun(c) ==
  /\ creating[c] = "idle"
  /\ Proceed(c, "waiting")
  /\ UNCHANGED <<active, holder>>

(* A mutation: a lock that does not exclude, as pg_advisory_xact_lock      *)
(* would not with a key of the transaction's own.                          *)
TakeQuotaLockShared(c) ==
  /\ creating[c] = "waiting"
  /\ holder' = c
  /\ Proceed(c, "locked")
  /\ UNCHANGED active

(* pg_advisory_xact_lock. *)
TakeQuotaLock(c) ==
  /\ creating[c] = "waiting" /\ holder = NoCreator
  /\ holder' = c
  /\ Proceed(c, "locked")
  /\ UNCHANGED active

(* ensure_concurrent_run_capacity on what was counted; its exception rolls *)
(* the transaction back.                                                   *)
CountRuns(c) ==
  /\ creating[c] = "locked"
  /\ IF active < Limit
     THEN Proceed(c, "counted") /\ UNCHANGED holder
     ELSE EndTransaction(c)
  /\ UNCHANGED active

(* The INSERT, whatever the caller's transaction does beside it, and the   *)
(* COMMIT, which is what shows the row to others.                          *)
CommitRun(c) ==
  /\ creating[c] = "counted"
  /\ active' = active + 1
  /\ EndTransaction(c)

(* An error before or in the COMMIT, or the end of the process. *)
RollBack(c) ==
  /\ creating[c] # "idle"
  /\ EndTransaction(c)
  /\ UNCHANGED active

(* A run gets a terminal status, however it ends: its slot is free. *)
FreeSlot ==
  /\ active > 0
  /\ active' = active - 1
  /\ UNCHANGED <<holder, creating>>

QuotaNext ==
  \/ \E c \in Creators : \/ BeginRun(c) \/ TakeQuotaLock(c) \/ CountRuns(c)
                         \/ CommitRun(c) \/ RollBack(c)
  \/ FreeSlot

QuotaSpec == QuotaInit /\ [][QuotaNext]_quotaVars

-----------------------------------------------------------------------------
(* The state of the creators' transactions is well typed. *)
QuotaTypeOK ==
  /\ active \in Nat
  /\ holder \in Creators \cup {NoCreator}
  /\ creating \in [Creators -> {"idle", "waiting", "locked", "counted"}]

(* However many creators count at the same time, the workspace never has   *)
(* more active runs than its quota: no two of them get the last slot.      *)
WithinQuota == active <= Limit
=============================================================================
