--------------------------- MODULE RunQuota_proofs ---------------------------
(***************************************************************************)
(* Proofs about RunQuota, for any number of creators and every quota.      *)
(***************************************************************************)
EXTENDS RunQuota, TLAPS

USE LimitIsPositive, NoCreatorIsNone

(* Who has counted holds the lock, and then there is a free slot until its *)
(* transaction ends: runs may end meanwhile, none can be added.            *)
SlotInv ==
  /\ QuotaTypeOK /\ WithinQuota
  /\ \A c \in Creators : creating[c] \in {"locked", "counted"} => holder = c
  /\ \A c \in Creators : creating[c] = "counted" => active < Limit

LEMMA SlotInit == QuotaInit => SlotInv
BY DEF QuotaInit, SlotInv, QuotaTypeOK, WithinQuota

LEMMA SlotNext == SlotInv /\ [QuotaNext]_quotaVars => SlotInv'
<1> SUFFICES ASSUME SlotInv, [QuotaNext]_quotaVars PROVE SlotInv'
  OBVIOUS
<1> USE DEF SlotInv, QuotaTypeOK, WithinQuota, Proceed
<1>1. ASSUME NEW c \in Creators, BeginRun(c) PROVE SlotInv'
  BY <1>1 DEF BeginRun
<1>2. ASSUME NEW c \in Creators, TakeQuotaLock(c) PROVE SlotInv'
  BY <1>2 DEF TakeQuotaLock
<1>3. ASSUME NEW c \in Creators, CountRuns(c) PROVE SlotInv'
  BY <1>3 DEF CountRuns, EndTransaction
<1>4. ASSUME NEW c \in Creators, CommitRun(c) PROVE SlotInv'
  <2>1. holder = c /\ active < Limit
    BY <1>4 DEF CommitRun
  <2>2. \A d \in Creators \ {c} : creating[d] \notin {"locked", "counted"}
    BY <2>1
  <2> QED BY <1>4, <2>1, <2>2 DEF CommitRun, EndTransaction
<1>5. ASSUME NEW c \in Creators, RollBack(c) PROVE SlotInv'
  BY <1>5 DEF RollBack, EndTransaction
<1>6. CASE FreeSlot
  BY <1>6 DEF FreeSlot
<1>7. CASE UNCHANGED quotaVars
  BY <1>7 DEF quotaVars
<1> QED BY <1>1, <1>2, <1>3, <1>4, <1>5, <1>6, <1>7 DEF QuotaNext

LEMMA SlotAlways == QuotaSpec => []SlotInv
BY SlotInit, SlotNext, PTL DEF QuotaSpec

(* The count, the lock and every creator's place in its transaction are of *)
(* their types.                                                            *)
THEOREM QuotaTypeCorrect == QuotaSpec => []QuotaTypeOK
<1>1. SlotInv => QuotaTypeOK
  BY DEF SlotInv
<1> QED BY <1>1, SlotAlways, PTL

(* _ensure_run_capacity_locked keeps the quota for any number of processes *)
(* that create runs, as the count and the insertion are under one lock.    *)
THEOREM WithinQuotaAlways == QuotaSpec => []WithinQuota
<1>1. SlotInv => WithinQuota
  BY DEF SlotInv
<1> QED BY <1>1, SlotAlways, PTL
=============================================================================
