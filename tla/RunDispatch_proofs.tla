------------------------ MODULE RunDispatch_proofs --------------------------
(***************************************************************************)
(* Proofs about RunDispatch, for every set of runs, workers and            *)
(* reconcilers, any number of copies and faults, and all times that        *)
(* satisfy PublishFitsRetry.                                               *)
(***************************************************************************)
EXTENDS RunDispatch, TLAPS

USE PublishFitsRetry, NoRunIsNoRun, BoundsAreNat

-----------------------------------------------------------------------------
(* Type correctness.  Only who is busy has a run.                          *)
Row == [status : Statuses \cup {"absent"}, scoped : BOOLEAN, owned : BOOLEAN,
        requested : BOOLEAN, confirmed : BOOLEAN,
        age : 0 .. MinAge, since : 0 .. RetryInterval]
RecPCs == {"idle", "publishing", "confirming"}
WkPCs  == {"idle", "delivered", "loaded", "rejecting", "executing"}

BusyHasRun ==
  /\ \A c \in Reconcilers : rec[c].pc = "idle" <=> rec[c].run = NoRun
  /\ \A w \in Workers : wk[w].pc = "idle" <=> wk[w].run = NoRun

TypeInv == TypeOK /\ BusyHasRun

(* The types again, each by itself. *)
LEMMA Types ==
  ASSUME TypeInv
  PROVE  /\ rows \in [Runs -> Row]
         /\ queue \in [Runs -> 0 .. MaxCopies]
         /\ creator \in [Runs -> {"none", "publishing", "confirming", "gone"}]
         /\ rec \in [Reconcilers -> [pc : RecPCs, run : Runs \cup {NoRun}]]
         /\ wk \in [Workers -> [pc : WkPCs, run : Runs \cup {NoRun}]]
         /\ \A c \in Reconcilers : rec[c].pc # "idle" => rec[c].run \in Runs
         /\ \A w \in Workers : wk[w].pc # "idle" => wk[w].run \in Runs
BY DEF TypeInv, TypeOK, BusyHasRun, Row, RecPCs, WkPCs

(* What is created, and a row with its enqueue confirmed. *)
LEMMA RowTypes ==
  /\ Absent \in Row
  /\ \A requested, scoped \in BOOLEAN :
       Created(requested, scoped) \in Row /\ Created(requested, scoped).confirmed = FALSE
  /\ \A row \in Row : [row EXCEPT !.confirmed = TRUE] \in Row
<1>1. Absent \in Row /\ Absent.confirmed = FALSE
  BY DEF Absent, Row
<1>2. ASSUME NEW requested \in BOOLEAN, NEW scoped \in BOOLEAN
      PROVE  Created(requested, scoped) \in Row /\ Created(requested, scoped).confirmed = FALSE
  <2> DEFINE pending == [Absent EXCEPT !.status = "pending"]
             asked   == [pending EXCEPT !.requested = requested]
  <2>1. pending \in Row /\ pending.confirmed = FALSE
    BY <1>1 DEF Row, Statuses
  <2>2. Created(requested, scoped) = [asked EXCEPT !.scoped = scoped]
    BY DEF Created
  <2> HIDE DEF pending
  <2>3. asked \in Row /\ asked.confirmed = FALSE
    BY <1>2, <2>1 DEF Row
  <2> HIDE DEF asked
  <2> QED BY <1>2, <2>2, <2>3 DEF Row
<1>3. \A row \in Row : [row EXCEPT !.confirmed = TRUE] \in Row
  BY DEF Row
<1> QED BY <1>1, <1>2, <1>3

LEMMA TypeInit == Init => TypeInv
<1> SUFFICES ASSUME Init PROVE TypeInv
  OBVIOUS
<1>1. rows \in [Runs -> Row]
  BY RowTypes DEF Init
<1>2. /\ archived = FALSE /\ brokerUp = TRUE /\ faults = 0
      /\ queue = [r \in Runs |-> 0] /\ creator = [r \in Runs |-> "none"]
      /\ \A c \in Reconcilers : rec[c] = [pc |-> "idle", run |-> NoRun]
      /\ \A w \in Workers : wk[w] = [pc |-> "idle", run |-> NoRun]
      /\ rec = [c \in Reconcilers |-> rec[c]] /\ wk = [w \in Workers |-> wk[w]]
  BY DEF Init, Idle
<1>3. /\ queue \in [Runs -> 0 .. MaxCopies]
      /\ creator \in [Runs -> {"none", "publishing", "confirming", "gone"}]
      /\ rec \in [Reconcilers -> [pc : RecPCs, run : Runs \cup {NoRun}]]
      /\ wk \in [Workers -> [pc : WkPCs, run : Runs \cup {NoRun}]]
  BY <1>2 DEF RecPCs, WkPCs
<1>4. BusyHasRun
  BY <1>2 DEF BusyHasRun
<1>5. archived \in BOOLEAN /\ brokerUp \in BOOLEAN
  BY <1>2, Zenon
<1>6. faults \in 0 .. MaxFaults
  BY <1>2
<1> QED BY ONLY <1>1, <1>3, <1>4, <1>5, <1>6 DEF TypeInv, TypeOK, Row, RecPCs, WkPCs

(* What the small steps on a row, the queue and a task return. *)
LEMMA PartTypes ==
  ASSUME TypeInv
  PROVE  /\ \A r \in Runs : \A s \in Statuses : SetStatus(r, s) => rows' \in [Runs -> Row]
         /\ \A r \in Runs : Put(r) => queue' \in [Runs -> 0 .. MaxCopies]
         /\ Fault \/ NoFault => faults' \in 0 .. MaxFaults
         /\ \A w \in Workers : Done(w) =>
              /\ wk' \in [Workers -> [pc : WkPCs, run : Runs \cup {NoRun}]]
              /\ \A v \in Workers : wk'[v].pc = "idle" <=> wk'[v].run = NoRun
         /\ \A w \in Workers : \A pc \in WkPCs \ {"idle"} :
              wk[w].pc # "idle" /\ Goto(w, pc) =>
                /\ wk' \in [Workers -> [pc : WkPCs, run : Runs \cup {NoRun}]]
                /\ \A v \in Workers : wk'[v].pc = "idle" <=> wk'[v].run = NoRun
<1>1. \A r \in Runs : \A s \in Statuses : SetStatus(r, s) => rows' \in [Runs -> Row]
  BY Types DEF SetStatus, Row
<1>2. \A r \in Runs : Put(r) => queue' \in [Runs -> 0 .. MaxCopies]
  BY Types DEF Put
<1>3. Fault \/ NoFault => faults' \in 0 .. MaxFaults
  BY DEF Fault, NoFault, TypeInv, TypeOK
<1>4. \A w \in Workers : Done(w) =>
        /\ wk' \in [Workers -> [pc : WkPCs, run : Runs \cup {NoRun}]]
        /\ \A v \in Workers : wk'[v].pc = "idle" <=> wk'[v].run = NoRun
  BY Types DEF Done, Idle, WkPCs, TypeInv, BusyHasRun
<1>5. \A w \in Workers : \A pc \in WkPCs \ {"idle"} :
        wk[w].pc # "idle" /\ Goto(w, pc) =>
          /\ wk' \in [Workers -> [pc : WkPCs, run : Runs \cup {NoRun}]]
          /\ \A v \in Workers : wk'[v].pc = "idle" <=> wk'[v].run = NoRun
  BY Types DEF Goto, WkPCs, TypeInv, BusyHasRun
<1> QED BY <1>1, <1>2, <1>3, <1>4, <1>5

LEMMA OlderRow ==
  ASSUME NEW row \in Row
  PROVE  /\ Older(row) \in Row
         /\ Older(row).status = row.status /\ Older(row).scoped = row.scoped
         /\ Older(row).confirmed = row.confirmed
         /\ Older(row).since <= row.since + 1
<1>1. CASE row.status # "pending"
  BY <1>1 DEF Older, Row
<1>2. CASE row.status = "pending"
  <2> DEFINE age == IF row.age < MinAge THEN row.age + 1 ELSE row.age
             since == IF row.since < RetryInterval THEN row.since + 1 ELSE row.since
             aged == [row EXCEPT !.age = age]
  <2>1. /\ age \in 0 .. MinAge /\ since \in 0 .. RetryInterval
        /\ since <= row.since + 1
    BY DEF Row
  <2>2. Older(row) = [aged EXCEPT !.since = since]
    BY <1>2 DEF Older
  <2> HIDE DEF age, since
  <2>3. aged \in Row /\ aged.status = row.status /\ aged.scoped = row.scoped
        /\ aged.confirmed = row.confirmed
    BY <2>1 DEF Row
  <2> HIDE DEF aged
  <2> QED BY <2>1, <2>2, <2>3 DEF Row
<1> QED BY <1>1, <1>2

LEMMA TypeNext == TypeInv /\ [Next]_vars => TypeInv'
<1> SUFFICES ASSUME TypeInv, [Next]_vars PROVE TypeInv'
  OBVIOUS
<1> USE Types
<1> DEFINE Wk == [Workers -> [pc : WkPCs, run : Runs \cup {NoRun}]]
<1>0. ASSUME /\ rows' \in [Runs -> Row]
             /\ archived' \in BOOLEAN /\ brokerUp' \in BOOLEAN
             /\ queue' \in [Runs -> 0 .. MaxCopies]
             /\ creator' \in [Runs -> {"none", "publishing", "confirming", "gone"}]
             /\ rec' \in [Reconcilers -> [pc : RecPCs, run : Runs \cup {NoRun}]]
             /\ wk' \in Wk
             /\ faults' \in 0 .. MaxFaults
             /\ \A c \in Reconcilers : rec'[c].pc = "idle" <=> rec'[c].run = NoRun
             /\ \A w \in Workers : wk'[w].pc = "idle" <=> wk'[w].run = NoRun
      PROVE  TypeInv'
  BY <1>0 DEF TypeInv, TypeOK, BusyHasRun, Row, RecPCs, WkPCs
<1>1. /\ archived \in BOOLEAN /\ brokerUp \in BOOLEAN /\ faults \in 0 .. MaxFaults
      /\ \A c \in Reconcilers : rec[c].pc = "idle" <=> rec[c].run = NoRun
      /\ \A w \in Workers : wk[w].pc = "idle" <=> wk[w].run = NoRun
  BY DEF TypeInv, TypeOK, BusyHasRun
<1>2. ASSUME NEW r \in Runs, CreatorStep(r) PROVE TypeInv'
  <2>1. CASE CreateTriggered(r) \/ CreateIdle(r)
    <3>1. PICK requested \in BOOLEAN, scoped \in BOOLEAN :
            rows' = [rows EXCEPT ![r] = Created(requested, scoped)]
      BY <2>1, Zenon DEF CreateTriggered, CreateIdle
    <3>2. rows' \in [Runs -> Row]
      BY <3>1, RowTypes
    <3> QED BY <1>0, <1>1, <2>1, <3>2 DEF CreateTriggered, CreateIdle
  <2>2. CASE Publish(r)
    BY <1>0, <1>1, <2>2, PartTypes DEF Publish
  <2>3. CASE Confirm(r)
    <3>1. rows' \in [Runs -> Row]
      BY <2>3, RowTypes DEF Confirm
    <3> QED BY <1>0, <1>1, <2>3, <3>1, PartTypes DEF Confirm
  <2>4. CASE CreatorStops(r)
    BY <1>0, <1>1, <2>4, PartTypes DEF CreatorStops
  <2> QED BY <1>2, <2>1, <2>2, <2>3, <2>4 DEF CreatorStep
<1>3. ASSUME NEW c \in Reconcilers, ReconcilerStep(c) PROVE TypeInv'
  <2>1. ASSUME NEW r \in Runs, ClaimStale(c, r) PROVE TypeInv'
    <3>1. rows' \in [Runs -> Row]
      BY <2>1 DEF ClaimStale, Row
    <3> QED BY <1>0, <1>1, <2>1, <3>1 DEF ClaimStale, RecPCs
  <2>2. CASE Republish(c)
    <3>1. /\ rec' \in [Reconcilers -> [pc : RecPCs, run : Runs \cup {NoRun}]]
          /\ \A d \in Reconcilers : rec'[d].pc = "idle" <=> rec'[d].run = NoRun
      <4>1. rec[c] = [pc |-> "publishing", run |-> rec[c].run] /\ rec[c].run \in Runs
        BY <2>2 DEF Republish
      <4>2. PICK task \in [pc : RecPCs, run : Runs \cup {NoRun}] :
              /\ rec' = [rec EXCEPT ![c] = task]
              /\ task.pc = "idle" <=> task.run = NoRun
        <5>1. \/ rec' = [rec EXCEPT ![c] = [rec[c] EXCEPT !.pc = "confirming"]]
              \/ rec' = [rec EXCEPT ![c] = Idle]
          BY <2>2, Zenon DEF Republish
        <5> QED BY <4>1, <5>1 DEF RecPCs, Idle
      <4> QED BY <1>1, <4>2
    <3>2. queue' \in [Runs -> 0 .. MaxCopies] /\ faults' \in 0 .. MaxFaults
      BY <2>2, PartTypes DEF Republish
    <3> QED BY <1>0, <1>1, <2>2, <3>1, <3>2 DEF Republish
  <2>3. CASE ConfirmRepublished(c)
    <3>1. rows' \in [Runs -> Row]
      BY <2>3, RowTypes DEF ConfirmRepublished
    <3> QED BY <1>0, <1>1, <2>3, <3>1, PartTypes DEF ConfirmRepublished, RecPCs, Idle
  <2>4. CASE ReconcilerRestarts(c)
    BY <1>0, <1>1, <2>4, PartTypes DEF ReconcilerRestarts, RecPCs, Idle
  <2> QED BY <1>3, <2>1, <2>2, <2>3, <2>4 DEF ReconcilerStep
<1>4. ASSUME NEW w \in Workers, WorkerStep(w) PROVE TypeInv'
  <2>1. ASSUME NEW r \in Runs, Deliver(w, r) PROVE TypeInv'
    <3>1. queue' \in [Runs -> 0 .. MaxCopies]
      BY <2>1 DEF Deliver
    <3>2. wk' \in Wk /\ \A v \in Workers : wk'[v].pc = "idle" <=> wk'[v].run = NoRun
      BY <1>1, <2>1 DEF Deliver, WkPCs
    <3> QED BY <1>0, <1>1, <2>1, <3>1, <3>2 DEF Deliver
  <2>2. CASE LoadRun(w)
    <3>1. wk' \in Wk /\ \A v \in Workers : wk'[v].pc = "idle" <=> wk'[v].run = NoRun
      BY <2>2, PartTypes DEF LoadRun, WkPCs
    <3> QED BY <1>0, <1>1, <2>2, <3>1 DEF LoadRun
  <2>3. CASE RejectRun(w)
    <3>1. rows' \in [Runs -> Row]
      BY <2>3, PartTypes DEF RejectRun, Statuses
    <3> QED BY <1>0, <1>1, <2>3, <3>1, PartTypes DEF RejectRun
  <2>4. CASE ClaimRun(w)
    <3>1. rows' \in [Runs -> Row]
      BY <2>4 DEF ClaimRun, Row, Statuses
    <3>2. wk' \in Wk /\ \A v \in Workers : wk'[v].pc = "idle" <=> wk'[v].run = NoRun
      BY <2>4, PartTypes DEF ClaimRun, WkPCs
    <3> QED BY <1>0, <1>1, <2>4, <3>1, <3>2 DEF ClaimRun
  <2>5. CASE RetryTask(w)
    <3>1. rows' \in [Runs -> Row]
      BY <2>5 DEF RetryTask, Row, Statuses
    <3> QED BY <1>0, <1>1, <2>5, <3>1, PartTypes DEF RetryTask
  <2>6. CASE FinishRun(w)
    <3>1. rows' \in [Runs -> Row]
      BY <2>6, PartTypes DEF FinishRun, Statuses
    <3> QED BY <1>0, <1>1, <2>6, <3>1, PartTypes DEF FinishRun
  <2>7. CASE WorkerStops(w) \/ Redeliver(w)
    BY <1>0, <1>1, <2>7, PartTypes DEF WorkerStops, Redeliver
  <2> QED BY <1>4, <2>1, <2>2, <2>3, <2>4, <2>5, <2>6, <2>7 DEF WorkerStep
<1>5. ASSUME NEW r \in Runs, RecoverOrphan(r) \/ MarkByHand(r) PROVE TypeInv'
  BY <1>0, <1>1, <1>5, PartTypes DEF RecoverOrphan, MarkByHand, Statuses
<1>6. CASE ArchiveWorkflow \/ BrokerFails \/ BrokerRecovers
  BY <1>0, <1>1, <1>6, PartTypes DEF ArchiveWorkflow, BrokerFails, BrokerRecovers
<1>7. CASE Tick
  <2>1. \A r \in Runs : Older(rows[r]) \in Row
    BY OlderRow
  <2> QED BY <1>0, <1>1, <1>7, <2>1 DEF Tick
<1>8. CASE UNCHANGED vars
  BY <1>0, <1>1, <1>8 DEF vars
<1> QED BY <1>2, <1>3, <1>4, <1>5, <1>6, <1>7, <1>8 DEF Next

(* The states of RunDispatch have their types. *)
THEOREM TypeCorrect == Spec => []TypeOK
<1>1. TypeInv => TypeOK
  BY DEF TypeInv
<1> QED BY TypeInit, TypeNext, <1>1, PTL DEF Spec

-----------------------------------------------------------------------------
(* A run that does not exist yet has nobody who knows it.                  *)
AbsentInv ==
  \A r \in Runs : rows[r].status = "absent" =>
    /\ creator[r] = "none" /\ ~rows[r].confirmed
    /\ \A c \in Reconcilers : rec[c].run # r

(* Who executes a run has found it pending, which it never is again.       *)
EngagedInv ==
  /\ \A w \in Workers : wk[w].pc = "executing" =>
       rows[wk[w].run].status \notin {"absent", "pending"}
  /\ \A v, w \in Workers :
       wk[v].pc = "executing" /\ wk[w].pc = "executing" /\ wk[v].run = wk[w].run => v = w

(* What a step may do to a run: end or start it, create it, or keep its    *)
(* status and confirm it at most on behalf of someone who published it.    *)
Published(r) ==
  \/ rows[r].confirmed
  \/ creator[r] = "confirming"
  \/ \E c \in Reconcilers : rec[c].pc = "confirming" /\ rec[c].run = r

RowStep(r) ==
  \/ rows'[r].status \notin {"absent", "pending"}
  \/ /\ rows[r].status = "absent" /\ rows'[r].status = "pending" /\ ~rows'[r].confirmed
     /\ UNCHANGED rec /\ creator'[r] \in {creator[r], "publishing"}
  \/ /\ rows'[r].status = rows[r].status /\ rows'[r].scoped = rows[r].scoped
     /\ rows'[r].confirmed => Published(r)

RowSteps == \A r \in Runs : RowStep(r)

LEMMA UnchangedRows == ASSUME UNCHANGED rows PROVE RowSteps
BY DEF RowSteps, RowStep, Published

LEMMA MarkedRow ==
  ASSUME TypeInv, NEW r \in Runs, NEW s \in Statuses \ {"pending"}, SetStatus(r, s)
  PROVE  RowSteps
BY Types DEF SetStatus, RowSteps, RowStep, Published, Row, Statuses

LEMMA ClaimedRow ==
  ASSUME TypeInv, NEW r \in Runs,
         rows' = [rows EXCEPT ![r].status = "running", ![r].owned = TRUE]
  PROVE  rows'[r].status = "running" /\ RowSteps
<1> DEFINE running == [rows EXCEPT ![r].status = "running"]
<1>1. rows' = [running EXCEPT ![r].owned = TRUE]
  OBVIOUS
<1>2. /\ running \in [Runs -> Row] /\ running[r].status = "running"
      /\ \A q \in Runs : q # r => running[q] = rows[q]
  BY Types DEF Row, Statuses
<1> HIDE DEF running
<1>3. rows'[r].status = "running" /\ \A q \in Runs : q # r => rows'[q] = rows[q]
  BY <1>1, <1>2 DEF Row
<1> QED BY <1>3 DEF RowSteps, RowStep, Published

LEMMA StepsOfRows == ASSUME TypeInv, [Next]_vars PROVE RowSteps
<1> USE Types
<1>1. ASSUME NEW r \in Runs, CreatorStep(r) PROVE RowSteps
  <2>1. CASE CreateTriggered(r) \/ CreateIdle(r)
    <3>1. PICK requested \in BOOLEAN, scoped \in BOOLEAN :
            rows' = [rows EXCEPT ![r] = Created(requested, scoped)]
      BY <2>1, Zenon DEF CreateTriggered, CreateIdle
    <3>2. /\ rows[r].status = "absent" /\ UNCHANGED rec
          /\ creator'[r] \in {creator[r], "publishing"}
      BY <2>1 DEF CreateTriggered, CreateIdle
    <3> DEFINE row == Created(requested, scoped)
    <3>3. row.status = "pending" /\ ~row.confirmed /\ rows' = [rows EXCEPT ![r] = row]
      BY <3>1, RowTypes DEF Created, Absent
    <3> HIDE DEF row
    <3> QED BY <3>2, <3>3 DEF RowSteps, RowStep, Published
  <2>2. CASE Confirm(r)
    BY <2>2 DEF Confirm, RowSteps, RowStep, Published, Row
  <2> QED BY <1>1, <2>1, <2>2, UnchangedRows DEF CreatorStep, Publish, CreatorStops
<1>2. ASSUME NEW c \in Reconcilers, ReconcilerStep(c) PROVE RowSteps
  <2>1. ASSUME NEW r \in Runs, ClaimStale(c, r) PROVE RowSteps
    BY <2>1 DEF ClaimStale, RowSteps, RowStep, Published, Row
  <2>2. CASE ConfirmRepublished(c)
    BY <2>2 DEF ConfirmRepublished, RowSteps, RowStep, Published, Row
  <2> QED BY <1>2, <2>1, <2>2, UnchangedRows
          DEF ReconcilerStep, Republish, ReconcilerRestarts
<1>3. ASSUME NEW w \in Workers, WorkerStep(w) PROVE RowSteps
  <2>1. ASSUME wk[w].pc # "idle",
               \E s \in Statuses \ {"pending"} : SetStatus(wk[w].run, s)
        PROVE  RowSteps
    BY <2>1, MarkedRow
  <2>2. CASE RejectRun(w)
    BY <2>1, <2>2, UnchangedRows DEF RejectRun, Statuses
  <2>3. CASE ClaimRun(w)
    BY <2>3, UnchangedRows, ClaimedRow DEF ClaimRun
  <2>4. CASE RetryTask(w)
    BY <2>4, UnchangedRows, ClaimedRow DEF RetryTask
  <2>5. CASE FinishRun(w)
    BY <2>1, <2>5, UnchangedRows DEF FinishRun, Statuses
  <2> QED BY <1>3, <2>2, <2>3, <2>4, <2>5, UnchangedRows
          DEF WorkerStep, Deliver, LoadRun, WorkerStops, Redeliver
<1>4. ASSUME NEW r \in Runs, RecoverOrphan(r) \/ MarkByHand(r) PROVE RowSteps
  BY <1>4, MarkedRow DEF RecoverOrphan, MarkByHand, Statuses
<1>5. CASE Tick
  BY <1>5, OlderRow DEF Tick, RowSteps, RowStep, Published
<1>6. CASE ArchiveWorkflow \/ BrokerFails \/ BrokerRecovers \/ UNCHANGED vars
  BY <1>6, UnchangedRows DEF ArchiveWorkflow, BrokerFails, BrokerRecovers, vars
<1> QED BY <1>1, <1>2, <1>3, <1>4, <1>5, <1>6 DEF Next

LEMMA AbsentInit == Init => AbsentInv
BY DEF Init, AbsentInv, Absent, Idle

LEMMA AbsentNext == ASSUME TypeInv, AbsentInv, [Next]_vars PROVE AbsentInv'
<1>0. ASSUME \A r \in Runs : rows[r].status = "absent" /\ rows'[r].status = "absent" =>
               /\ creator'[r] = creator[r]
               /\ \A c \in Reconcilers : rec'[c].run \in {rec[c].run, NoRun}
      PROVE  AbsentInv'
  BY <1>0, StepsOfRows DEF AbsentInv, RowSteps, RowStep, Published, TypeInv, BusyHasRun
<1>1. ASSUME NEW r \in Runs, CreatorStep(r) PROVE AbsentInv'
  <2>1. /\ \A q \in Runs : q # r => creator'[q] = creator[q]
        /\ UNCHANGED rec
    BY <1>1, Types DEF CreatorStep, CreateTriggered, CreateIdle, Publish, Confirm,
                       CreatorStops
  <2>2. rows[r].status = "absent" /\ rows'[r].status = "absent" => creator'[r] = creator[r]
    <3>1. CASE CreateTriggered(r) \/ CreateIdle(r)
      <4>1. PICK requested \in BOOLEAN, scoped \in BOOLEAN :
              rows' = [rows EXCEPT ![r] = Created(requested, scoped)]
        BY <3>1, Zenon DEF CreateTriggered, CreateIdle
      <4>2. Created(requested, scoped).status = "pending"
        BY DEF Created, Absent
      <4> QED BY <4>1, <4>2, Types
    <3>2. CASE Publish(r) \/ Confirm(r) \/ CreatorStops(r)
      BY <3>2 DEF Publish, Confirm, CreatorStops, AbsentInv
    <3> QED BY <1>1, <3>1, <3>2 DEF CreatorStep
  <2> QED BY <1>0, <2>1, <2>2
<1>2. ASSUME NEW c \in Reconcilers, ReconcilerStep(c) PROVE AbsentInv'
  <2>1. /\ \A d \in Reconcilers : d # c => rec'[d] = rec[d]
        /\ UNCHANGED creator
        /\ \/ rec'[c].run \in {rec[c].run, NoRun}
           \/ \E r \in Runs : rec'[c].run = r /\ rows[r].status = "pending"
    BY <1>2, Types
    DEF ReconcilerStep, ClaimStale, Republish, ConfirmRepublished, ReconcilerRestarts, Idle
  <2>2. \A r \in Runs : rows'[r].status = "absent" =>
          rows[r].status = "absent" /\ (rows'[r].confirmed => Published(r))
    BY StepsOfRows DEF RowSteps, RowStep
  <2>3. \A r \in Runs : rows[r].status = "absent" =>
          ~Published(r) /\ \A d \in Reconcilers : rec'[d].run # r
    BY <2>1, Types DEF AbsentInv, Published, TypeInv, BusyHasRun
  <2> QED BY <2>1, <2>2, <2>3 DEF AbsentInv
<1>3. CASE UNCHANGED <<creator, rec>>
  BY <1>0, <1>3
<1> QED BY <1>1, <1>2, <1>3
        DEF Next, WorkerStep, Deliver, LoadRun, RejectRun, ClaimRun, RetryTask, FinishRun,
            WorkerStops, Redeliver, RecoverOrphan, MarkByHand, Tick, ArchiveWorkflow,
            BrokerFails, BrokerRecovers, vars

LEMMA EngagedInit == Init => EngagedInv
BY DEF Init, EngagedInv, Idle

LEMMA EngagedNext == ASSUME TypeInv, EngagedInv, [Next]_vars PROVE EngagedInv'
<1> USE Types DEF EngagedInv
<1>0. ASSUME \A w \in Workers : wk'[w].pc = "executing" => wk'[w] = wk[w]
      PROVE  EngagedInv'
  BY <1>0, StepsOfRows DEF RowSteps, RowStep, Published
<1>1. ASSUME NEW w \in Workers, WorkerStep(w) PROVE EngagedInv'
  <2>1. CASE ClaimRun(w)
    <3> DEFINE r == wk[w].run
    <3>1. CASE ~CanStart(rows[r])
      BY <1>0, <2>1, <3>1 DEF ClaimRun, Done, Idle
    <3>2. CASE CanStart(rows[r])
      <4>1. /\ wk'[w].pc = "executing" /\ wk'[w].run = r /\ r \in Runs
            /\ rows'[r].status = "running" /\ rows[r].status = "pending"
        BY <2>1, <3>2 DEF ClaimRun, Goto, CanStart, Row
      <4>2. \A v \in Workers : v # w => wk'[v] = wk[v]
        BY <2>1, <3>2 DEF ClaimRun, Goto
      <4> HIDE DEF r
      <4> QED BY <4>1, <4>2, StepsOfRows DEF RowSteps, RowStep, Published
    <3> QED BY <3>1, <3>2
  <2>2. CASE Done(w) \/ UNCHANGED wk
    BY <1>0, <2>2 DEF Done, Idle
  <2>3. CASE \E r \in Runs : Deliver(w, r)
    BY <1>0, <2>3 DEF Deliver
  <2>4. CASE Goto(w, "rejecting") \/ Goto(w, "loaded")
    BY <1>0, <2>4 DEF Goto
  <2> QED BY <1>1, <2>1, <2>2, <2>3, <2>4
          DEF WorkerStep, LoadRun, RejectRun, RetryTask, FinishRun, WorkerStops, Redeliver
<1> QED BY <1>0, <1>1
        DEF Next, CreatorStep, CreateTriggered, CreateIdle, Publish, Confirm, CreatorStops,
            ReconcilerStep, ClaimStale, Republish, ConfirmRepublished, ReconcilerRestarts,
            RecoverOrphan, MarkByHand, Tick, ArchiveWorkflow, BrokerFails, BrokerRecovers,
            vars

-----------------------------------------------------------------------------
(* What was published has a message, until its run has left pending.       *)
Message(r) == queue[r] > 0 \/ \E w \in Workers : wk[w].run = r

QueuedInv ==
  \A r \in Runs :
    rows[r].scoped /\ rows[r].status = "pending" /\ Published(r) => Message(r)

(* A message is only dropped when its run is unscoped or not pending.      *)
MessagesKept ==
  \A r \in Runs :
    Message(r) => Message(r)' \/ ~rows[r].scoped \/ rows'[r].status # "pending"

LEMMA PutMessage ==
  ASSUME TypeInv, NEW r \in Runs, Put(r)
  PROVE  queue'[r] > 0 /\ \A q \in Runs : queue[q] > 0 => queue'[q] > 0
BY Types DEF Put

LEMMA DoneMessage ==
  ASSUME TypeInv, NEW w \in Workers, wk[w].pc # "idle", Done(w),
         \A q \in Runs : queue[q] > 0 => queue'[q] > 0,
         LET r == wk[w].run IN
           queue'[r] > 0 \/ ~rows[r].scoped \/ rows'[r].status # "pending"
  PROVE  MessagesKept
<1>1. \A v \in Workers : v # w => wk'[v] = wk[v]
  BY DEF Done
<1> QED BY <1>1, Types DEF MessagesKept, Message

LEMMA SameMessages ==
  ASSUME TypeInv, \A q \in Runs : queue[q] > 0 => queue'[q] > 0,
         \A w \in Workers : wk'[w].run = wk[w].run
  PROVE  MessagesKept
BY Types DEF MessagesKept, Message

LEMMA WorkerKeeps ==
  ASSUME TypeInv, EngagedInv, NEW w \in Workers, WorkerStep(w)
  PROVE  MessagesKept
<1> USE Types
<1>1. ASSUME UNCHANGED queue PROVE \A q \in Runs : queue[q] > 0 => queue'[q] > 0
  BY <1>1
<1>2. ASSUME NEW pc, Goto(w, pc) PROVE \A v \in Workers : wk'[v].run = wk[v].run
  BY <1>2 DEF Goto
<1>3. ASSUME NEW r \in Runs, Deliver(w, r) PROVE MessagesKept
  <2>1. /\ wk[w].run = NoRun /\ wk'[w].run = r
        /\ \A v \in Workers : v # w => wk'[v] = wk[v]
        /\ \A q \in Runs : q # r => queue'[q] = queue[q]
    BY <1>3 DEF Deliver, TypeInv, BusyHasRun
  <2> QED BY <2>1 DEF MessagesKept, Message
<1>4. CASE LoadRun(w)
  <2>1. UNCHANGED <<rows, queue>> /\ wk[w].pc # "idle"
    BY <1>4 DEF LoadRun
  <2>2. CASE ~rows[wk[w].run].scoped \/ rows[wk[w].run].status # "pending"
    BY <1>1, <1>4, <2>1, <2>2, DoneMessage DEF LoadRun
  <2>3. CASE ~(~rows[wk[w].run].scoped \/ rows[wk[w].run].status # "pending")
    BY <1>1, <1>2, <1>4, <2>1, <2>3, SameMessages DEF LoadRun
  <2> QED BY <2>2, <2>3
<1>5. CASE RejectRun(w)
  <2>1. rows'[wk[w].run].status # "pending"
    BY <1>5 DEF RejectRun, SetStatus, CanCancel, Terminal, Row
  <2> QED BY <1>1, <1>5, <2>1, DoneMessage DEF RejectRun
<1>6. CASE ClaimRun(w)
  <2>1. CASE CanStart(rows[wk[w].run])
    BY <1>1, <1>2, <1>6, <2>1, SameMessages DEF ClaimRun
  <2>2. CASE ~CanStart(rows[wk[w].run])
    BY <1>1, <1>6, <2>2, DoneMessage DEF ClaimRun, CanStart
  <2> QED BY <2>1, <2>2
<1>7. CASE RetryTask(w) \/ WorkerStops(w)
  BY <1>7, PutMessage, DoneMessage DEF RetryTask, WorkerStops
<1>8. CASE FinishRun(w)
  <2>1. rows'[wk[w].run].status # "pending"
    BY <1>8 DEF FinishRun, SetStatus, EngagedInv, Row
  <2> QED BY <1>1, <1>8, <2>1, DoneMessage DEF FinishRun
<1>9. CASE Redeliver(w)
  BY <1>9, PutMessage, SameMessages DEF Redeliver
<1> QED BY <1>3, <1>4, <1>5, <1>6, <1>7, <1>8, <1>9 DEF WorkerStep

LEMMA MessagesStay == ASSUME TypeInv, EngagedInv, [Next]_vars PROVE MessagesKept
<1>1. ASSUME UNCHANGED wk, UNCHANGED queue \/ \E r \in Runs : Put(r)
      PROVE  MessagesKept
  BY <1>1, PutMessage, SameMessages, Types
<1>2. ASSUME NEW r \in Runs, CreatorStep(r) PROVE MessagesKept
  BY <1>1, <1>2 DEF CreatorStep, CreateTriggered, CreateIdle, Publish, Confirm, CreatorStops
<1>3. ASSUME NEW c \in Reconcilers, ReconcilerStep(c) PROVE MessagesKept
  BY <1>1, <1>3, Types
  DEF ReconcilerStep, ClaimStale, Republish, ConfirmRepublished, ReconcilerRestarts
<1> QED BY <1>1, <1>2, <1>3, WorkerKeeps
        DEF Next, RecoverOrphan, MarkByHand, Tick, ArchiveWorkflow, BrokerFails,
            BrokerRecovers, vars

(* Who is about to confirm has just put a message.                         *)
LEMMA PublishedIsPut ==
  ASSUME TypeInv, [Next]_vars, NEW r \in Runs, Published(r)', ~Published(r)
  PROVE  queue'[r] > 0 \/ rows'[r].status # "pending"
<1>1. ASSUME NEW q \in Runs, CreatorStep(q), creator'[r] = "confirming", creator[r] # "confirming"
      PROVE  queue'[r] > 0
  <2>1. Publish(q) /\ q = r /\ Put(r)
    BY <1>1, Types
    DEF CreatorStep, CreateTriggered, CreateIdle, Publish, Confirm, CreatorStops
  <2> QED BY <2>1, PutMessage
<1>2. ASSUME NEW c \in Reconcilers, ReconcilerStep(c),
             NEW d \in Reconcilers, rec'[d].pc = "confirming", rec'[d].run = r,
             ~(rec[d].pc = "confirming" /\ rec[d].run = r)
      PROVE  queue'[r] > 0
  <2>1. Republish(c) /\ c = d /\ rec[c].run = r /\ Put(r)
    BY <1>2, Types
    DEF ReconcilerStep, ClaimStale, Republish, ConfirmRepublished, ReconcilerRestarts, Idle
  <2> QED BY <2>1, PutMessage
<1>3. creator'[r] = "confirming" /\ creator[r] # "confirming" =>
        \E q \in Runs : CreatorStep(q)
  BY Types
  DEF Next, ReconcilerStep, ClaimStale, Republish, ConfirmRepublished, ReconcilerRestarts,
      WorkerStep, Deliver, LoadRun, RejectRun, ClaimRun, RetryTask, FinishRun, WorkerStops,
      Redeliver, RecoverOrphan, MarkByHand, Tick, ArchiveWorkflow, BrokerFails,
      BrokerRecovers, vars
<1>4. ~UNCHANGED rec => \E c \in Reconcilers : ReconcilerStep(c)
  BY DEF Next, CreatorStep, CreateTriggered, CreateIdle, Publish, Confirm, CreatorStops,
      WorkerStep, Deliver, LoadRun, RejectRun, ClaimRun, RetryTask, FinishRun, WorkerStops,
      Redeliver, RecoverOrphan, MarkByHand, Tick, ArchiveWorkflow, BrokerFails,
      BrokerRecovers, vars
<1>5. rows'[r].confirmed => rows'[r].status # "pending"
  BY StepsOfRows DEF RowSteps, RowStep, Published
<1> QED BY <1>1, <1>2, <1>3, <1>4, <1>5 DEF Published

LEMMA QueuedInit == Init => QueuedInv
BY DEF Init, QueuedInv, Absent

LEMMA QueuedNext ==
  ASSUME TypeInv, AbsentInv, EngagedInv, QueuedInv, [Next]_vars
  PROVE  QueuedInv'
<1> SUFFICES ASSUME NEW r \in Runs, rows'[r].scoped, rows'[r].status = "pending", Published(r)'
             PROVE  Message(r)'
  BY DEF QueuedInv
<1>1. CASE ~Published(r)
  BY <1>1, PublishedIsPut DEF Message
<1>2. CASE Published(r)
  <2>1. rows[r].status # "absent"
    BY <1>2 DEF AbsentInv, Published
  <2>2. rows[r].status = "pending" /\ rows[r].scoped
    BY <2>1, StepsOfRows DEF RowSteps, RowStep
  <2> QED BY <1>2, <2>2, MessagesStay DEF QueuedInv, MessagesKept
<1> QED BY <1>1, <1>2

-----------------------------------------------------------------------------
(* A run that is being republished has been stamped less than the retry    *)
(* interval ago, so that nobody else takes it.                             *)
SpacedInv ==
  /\ \A c \in Reconcilers : rec[c].pc = "publishing" =>
       rows[rec[c].run].since <= PublishTime
  /\ OneRepublisher

LEMMA SpacedInit == Init => SpacedInv
BY DEF Init, SpacedInv, OneRepublisher, Idle

(* Only the clock makes an attempt older, and only a claim of the          *)
(* reconciler or the creation of a run touches it otherwise.               *)
LEMMA SinceKept ==
  ASSUME TypeInv, [Next]_vars, NEW r \in Runs, rows[r].status # "absent",
         ~Tick
  PROVE  rows'[r].since = rows[r].since \/ rows'[r].since = 0
<1> USE Types
<1>1. ASSUME NEW q \in Runs, CreatorStep(q) PROVE rows'[r].since = rows[r].since
  <2>1. CASE CreateTriggered(q) \/ CreateIdle(q)
    <3>1. q # r
      BY <2>1 DEF CreateTriggered, CreateIdle
    <3> QED BY <2>1, <3>1 DEF CreateTriggered, CreateIdle
  <2> QED BY <1>1, <2>1 DEF CreatorStep, Publish, Confirm, CreatorStops, Row
<1>2. ASSUME NEW c \in Reconcilers, ReconcilerStep(c)
      PROVE  rows'[r].since = rows[r].since \/ rows'[r].since = 0
  BY <1>2 DEF ReconcilerStep, ClaimStale, Republish, ConfirmRepublished,
              ReconcilerRestarts, Row
<1>3. ASSUME NEW q \in Runs, NEW s, SetStatus(q, s) PROVE rows'[r].since = rows[r].since
  BY <1>3 DEF SetStatus, Row
<1>4. ASSUME NEW q \in Runs, rows' = [rows EXCEPT ![q].status = "running", ![q].owned = TRUE]
      PROVE  rows'[r].since = rows[r].since
  <2> DEFINE running == [rows EXCEPT ![q].status = "running"]
  <2>1. rows' = [running EXCEPT ![q].owned = TRUE]
    BY <1>4
  <2>2. running \in [Runs -> Row] /\ running[r].since = rows[r].since
    BY DEF Row, Statuses
  <2> HIDE DEF running
  <2> QED BY <2>1, <2>2 DEF Row
<1>5. ASSUME NEW w \in Workers, WorkerStep(w) PROVE rows'[r].since = rows[r].since
  BY <1>3, <1>4, <1>5
  DEF WorkerStep, Deliver, LoadRun, RejectRun, ClaimRun, RetryTask, FinishRun, WorkerStops,
      Redeliver
<1>6. ASSUME NEW q \in Runs, RecoverOrphan(q) \/ MarkByHand(q)
      PROVE  rows'[r].since = rows[r].since
  BY <1>3, <1>6 DEF RecoverOrphan, MarkByHand
<1> QED BY <1>1, <1>2, <1>5, <1>6
        DEF Next, ArchiveWorkflow, BrokerFails, BrokerRecovers, vars

LEMMA SpacedNext ==
  ASSUME TypeInv, AbsentInv, SpacedInv, [Next]_vars PROVE SpacedInv'
<1> USE Types
<1>0. \A c \in Reconcilers : rec[c].pc = "publishing" =>
        rec[c].run \in Runs /\ rows[rec[c].run].status # "absent"
  BY DEF AbsentInv
<1>1. CASE Tick
  <2>1. \A c \in Reconcilers : rec[c].pc = "publishing" =>
          rows'[rec[c].run].since <= PublishTime
    BY <1>1, OlderRow DEF Tick, Row
  <2> QED BY <1>1, <2>1 DEF Tick, SpacedInv, OneRepublisher
<1>2. ASSUME ~Tick, \A c \in Reconcilers : rec'[c].pc = "publishing" => rec'[c] = rec[c]
      PROVE  SpacedInv'
  BY <1>0, <1>2, SinceKept DEF SpacedInv, OneRepublisher
<1>3. ASSUME NEW c \in Reconcilers, NEW r \in Runs, ClaimStale(c, r) PROVE SpacedInv'
  <2>1. /\ rec'[c] = [pc |-> "publishing", run |-> r]
        /\ \A d \in Reconcilers : d # c => rec'[d] = rec[d]
        /\ rows'[r].since = 0
        /\ \A q \in Runs : q # r => rows'[q] = rows[q]
        /\ rows[r].since >= RetryInterval
    BY <1>3 DEF ClaimStale, Row
  <2>2. \A d \in Reconcilers : rec[d].pc = "publishing" => rec[d].run # r
    BY <2>1 DEF SpacedInv, Row
  <2> QED BY <2>1, <2>2 DEF SpacedInv, OneRepublisher
<1>4. ASSUME NEW c \in Reconcilers,
             Republish(c) \/ ConfirmRepublished(c) \/ ReconcilerRestarts(c)
      PROVE  \A d \in Reconcilers : rec'[d].pc = "publishing" => rec'[d] = rec[d]
  BY <1>4 DEF Republish, ConfirmRepublished, ReconcilerRestarts, Idle
<1>5. \/ UNCHANGED rec
      \/ \E c \in Reconcilers : ReconcilerStep(c)
  BY DEF Next, CreatorStep, CreateTriggered, CreateIdle, Publish, Confirm, CreatorStops,
      WorkerStep, Deliver, LoadRun, RejectRun, ClaimRun, RetryTask, FinishRun, WorkerStops,
      Redeliver, RecoverOrphan, MarkByHand, Tick, ArchiveWorkflow, BrokerFails,
      BrokerRecovers, vars
<1> QED BY <1>1, <1>2, <1>3, <1>4, <1>5 DEF ReconcilerStep

-----------------------------------------------------------------------------
Inv == TypeInv /\ AbsentInv /\ EngagedInv /\ QueuedInv /\ SpacedInv

LEMMA InvAlways == Spec => []Inv
<1>1. Init => Inv
  BY TypeInit, AbsentInit, EngagedInit, QueuedInit, SpacedInit DEF Inv
<1>2. Inv /\ [Next]_vars => Inv'
  BY TypeNext, AbsentNext, EngagedNext, QueuedNext, SpacedNext DEF Inv
<1> QED BY <1>1, <1>2, PTL DEF Spec

(* The broker or a worker has the message of every confirmed pending run:  *)
(* what the reconciler will not look at again is not stranded.             *)
THEOREM ConfirmedIsQueuedAlways == Spec => []ConfirmedIsQueued
<1>1. Inv => ConfirmedIsQueued
  BY DEF Inv, QueuedInv, Published, Message, ConfirmedIsQueued
<1> QED BY <1>1, InvAlways, PTL

(* Stamping the attempt under the row lock keeps two backend processes     *)
(* from republishing a run at the same time.                               *)
THEOREM OneRepublisherAlways == Spec => []OneRepublisher
<1>1. Inv => OneRepublisher
  BY DEF Inv, SpacedInv
<1> QED BY <1>1, InvAlways, PTL

-----------------------------------------------------------------------------
(* The refinement of RunLifecycle.                                         *)
St == [r \in Runs |-> IF rows[r].status = "absent" THEN "pending" ELSE rows[r].status]
Ex == [r \in Runs |-> ExecutedBy(r)]

LifecycleStep == [Lifecycle!Next]_(Lifecycle!vars)

LEMMA LifecycleVars == Lifecycle!vars = <<St, Ex>>
BY DEF Lifecycle!vars, St, Ex

LEMMA Stutters == ASSUME UNCHANGED <<St, Ex>> PROVE LifecycleStep
BY LifecycleVars DEF LifecycleStep, St, Ex, Lifecycle!vars

LEMMA SameExecutors ==
  ASSUME \A w \in Workers :
           /\ wk'[w].pc = "executing" <=> wk[w].pc = "executing"
           /\ wk[w].pc = "executing" => wk'[w].run = wk[w].run
  PROVE  UNCHANGED Ex
<1>1. \A r \in Runs : ExecutedBy(r)' = ExecutedBy(r)
  BY DEF ExecutedBy
<1> QED BY <1>1 DEF Ex

(* A run that is marked while nobody begins or leaves.                     *)
LEMMA MarkStep ==
  ASSUME TypeInv, NEW r \in Runs, NEW s \in Statuses \ {"pending"}, SetStatus(r, s),
         UNCHANGED Ex,
         rows[r].status \notin Terminal,
         s = "running" => CanStart(rows[r]),
         s = "succeeded" => CanSucceed(rows[r])
  PROVE  LifecycleStep
<1>1. /\ St' = [St EXCEPT ![r] = s]
      /\ St[r] \in {"pending", "running"}
      /\ s = "running" => St[r] = "pending"
      /\ s = "succeeded" => St[r] = "running"
  <2>1. /\ rows \in [Runs -> Row] /\ rows' = [rows EXCEPT ![r].status = s]
    BY Types DEF SetStatus
  <2>2. \A q \in Runs : rows'[q].status = IF q = r THEN s ELSE rows[q].status
    BY <2>1 DEF Row
  <2>3. \A q \in Runs : St'[q] = IF q = r THEN s ELSE St[q]
    BY <2>2 DEF St, Statuses
  <2>4. St' = [q \in Runs |-> St'[q]] /\ St = [q \in Runs |-> St[q]]
    BY DEF St
  <2>5. St' = [St EXCEPT ![r] = s]
    BY ONLY <2>3, <2>4
  <2>6. rows[r].status \in Statuses \cup {"absent"}
    BY <2>1 DEF Row
  <2>7. St[r] = IF rows[r].status = "absent" THEN "pending" ELSE rows[r].status
    BY DEF St
  <2> QED BY <2>5, <2>6, <2>7 DEF Statuses, Terminal, CanStart, CanSucceed
<1>2. CASE s = "running"
  <2>1. Lifecycle!BeginByHand(r)
    BY <1>1, <1>2 DEF Lifecycle!BeginByHand, St, Ex
  <2> QED BY <2>1 DEF LifecycleStep, Lifecycle!Next
<1>3. CASE s # "running"
  <2>1. s \in Lifecycle!Outcomes
    BY <1>3 DEF Statuses, Lifecycle!Outcomes
  <2>2. St' = [q \in Runs |-> IF q \in {r} THEN s ELSE St[q]]
    BY <1>1 DEF St
  <2>3. Lifecycle!Conclude({r}, s)
    BY <1>1, <2>2 DEF Lifecycle!Conclude, St
  <2> QED BY <2>1, <2>3 DEF LifecycleStep, Lifecycle!Next, Ex
<1> QED BY <1>2, <1>3

(* A task that ends: its worker leaves the run it executed, if any.        *)
LEMMA LeaveStep ==
  ASSUME TypeInv, NEW w \in Workers, Done(w), UNCHANGED St
  PROVE  LifecycleStep
<1>1. /\ wk'[w].pc = "idle"
      /\ \A v \in Workers : v # w => wk'[v] = wk[v]
  BY Types DEF Done, Idle
<1>2. CASE wk[w].pc # "executing"
  <2>1. UNCHANGED Ex
    BY <1>1, <1>2, SameExecutors
  <2> QED BY <2>1, Stutters
<1>3. CASE wk[w].pc = "executing"
  <2> DEFINE r == wk[w].run
  <2>1. r \in Runs /\ w \in Ex[r]
    BY <1>3, Types DEF Ex, ExecutedBy
  <2>2. \A q \in Runs : ExecutedBy(q)' = IF q = r THEN ExecutedBy(q) \ {w} ELSE ExecutedBy(q)
    BY <1>1, <1>3 DEF ExecutedBy
  <2> HIDE DEF r
  <2>3. Ex' = [Ex EXCEPT ![r] = @ \ {w}]
    BY <2>1, <2>2 DEF Ex
  <2>4. Lifecycle!Leave(r, w)
    BY <2>1, <2>3 DEF Lifecycle!Leave, Ex
  <2> QED BY <2>1, <2>4 DEF LifecycleStep, Lifecycle!Next, St
<1> QED BY <1>2, <1>3

(* The outcome of an execution, reported by the worker that leaves it.     *)
LEMMA FinishStep ==
  ASSUME TypeInv, NEW w \in Workers, FinishRun(w)
  PROVE  LifecycleStep
<1> DEFINE r == wk[w].run
<1>1. CASE rows[r].status # "running"
  BY <1>1, LeaveStep DEF FinishRun, St
<1>2. CASE rows[r].status = "running"
  <2>1. PICK s \in {"succeeded", "failed"} : SetStatus(r, s)
    BY <1>2 DEF FinishRun
  <2>2. r \in Runs /\ wk[w].pc = "executing" /\ w \in Ex[r] /\ Done(w)
    BY Types DEF FinishRun, Ex, ExecutedBy
  <2>3. /\ wk'[w].pc = "idle"
        /\ \A v \in Workers : v # w => wk'[v] = wk[v]
    BY <2>2, Types DEF Done, Idle
  <2>4. \A q \in Runs : ExecutedBy(q)' = IF q = r THEN ExecutedBy(q) \ {w} ELSE ExecutedBy(q)
    BY <2>2, <2>3 DEF ExecutedBy
  <2>5. St' = [q \in Runs |-> IF q \in {r} THEN s ELSE St[q]] /\ St[r] = "running"
    BY <1>2, <2>1, <2>2, Types DEF SetStatus, St, Row
  <2> HIDE DEF r
  <2>6. Ex' = [Ex EXCEPT ![r] = @ \ {w}]
    BY <2>2, <2>4 DEF Ex
  <2>7. Lifecycle!Leave(r, w) /\ Lifecycle!Conclude({r}, s) /\ s \in Lifecycle!Outcomes
    BY <2>1, <2>2, <2>5, <2>6
    DEF Lifecycle!Leave, Lifecycle!Conclude, Lifecycle!Outcomes, St, Ex
  <2> QED BY <2>2, <2>7 DEF LifecycleStep, Lifecycle!Next
<1> QED BY <1>1, <1>2

(* The status of a run that becomes running, by a claim.                   *)
LEMMA RunningSt ==
  ASSUME TypeInv, NEW r \in Runs, CanStart(rows[r]),
         rows' = [rows EXCEPT ![r].status = "running", ![r].owned = TRUE]
  PROVE  St[r] = "pending" /\ St' = [St EXCEPT ![r] = "running"]
<1> DEFINE running == [rows EXCEPT ![r].status = "running"]
<1>1. rows' = [running EXCEPT ![r].owned = TRUE]
  OBVIOUS
<1>2. /\ running \in [Runs -> Row] /\ running[r].status = "running"
      /\ \A q \in Runs : q # r => running[q] = rows[q]
  BY Types DEF Row, Statuses
<1> HIDE DEF running
<1>3. rows'[r].status = "running" /\ \A q \in Runs : q # r => rows'[q] = rows[q]
  BY <1>1, <1>2 DEF Row
<1>4. St = [q \in Runs |-> St[q]] /\ St[r] = "pending"
  BY DEF St, CanStart
<1>5. St'[r] = "running" /\ \A q \in Runs : q # r => St'[q] = St[q]
  BY ONLY r \in Runs, <1>3 DEF St
<1>6. St' = [q \in Runs |-> St'[q]]
  BY DEF St
<1> QED BY ONLY r \in Runs, <1>4, <1>5, <1>6

(* A claim: the run was pending, so nobody executes it.                    *)
LEMMA ClaimStep ==
  ASSUME TypeInv, EngagedInv, NEW w \in Workers, ClaimRun(w)
  PROVE  LifecycleStep
<1> DEFINE r == wk[w].run
<1>1. r \in Runs /\ wk[w].pc = "loaded"
  BY Types DEF ClaimRun
<1>2. CASE ~CanStart(rows[r])
  BY <1>2, LeaveStep DEF ClaimRun, St
<1>3. CASE CanStart(rows[r])
  <2>1. /\ rows' = [rows EXCEPT ![r].status = "running", ![r].owned = TRUE]
        /\ wk'[w].pc = "executing" /\ wk'[w].run = r
        /\ \A v \in Workers : v # w => wk'[v] = wk[v]
    BY <1>3, Types DEF ClaimRun, Goto
  <2>2. \A q \in Runs : ExecutedBy(q)' = IF q = r THEN {w} ELSE ExecutedBy(q)
    BY <1>1, <1>3, <2>1 DEF ExecutedBy, EngagedInv, CanStart
  <2>3. St[r] = "pending" /\ St' = [St EXCEPT ![r] = "running"]
    BY <1>1, <1>3, <2>1, RunningSt
  <2> HIDE DEF r
  <2>4. Ex' = [Ex EXCEPT ![r] = {w}]
    BY <1>1, <2>2 DEF Ex
  <2>5. Lifecycle!Begin(r, w)
    BY <2>3, <2>4 DEF Lifecycle!Begin, St, Ex
  <2> QED BY <1>1, <2>5 DEF LifecycleStep, Lifecycle!Next
<1> QED BY <1>2, <1>3

(* A claim whose reply is lost: the run is running and nobody executes it. *)
LEMMA RetryStep ==
  ASSUME TypeInv, NEW w \in Workers, RetryTask(w)
  PROVE  LifecycleStep
<1>1. PICK r \in Runs : r = wk[w].run
  BY Types DEF RetryTask
<1>2. wk[w].pc # "executing" /\ Done(w)
  BY DEF RetryTask
<1>3. UNCHANGED Ex
  BY <1>2, Types, SameExecutors DEF Done, Idle
<1>4. CASE UNCHANGED rows
  BY <1>2, <1>4, LeaveStep DEF St
<1>5. CASE CanStart(rows[r]) /\ rows' = [rows EXCEPT ![r].status = "running", ![r].owned = TRUE]
  <2>1. Lifecycle!BeginByHand(r)
    BY <1>3, <1>5, RunningSt DEF Lifecycle!BeginByHand, St, Ex
  <2> QED BY <2>1 DEF LifecycleStep, Lifecycle!Next
<1> QED BY <1>1, <1>4, <1>5 DEF RetryTask

LEMMA RefinementInit == Init => Lifecycle!Init
<1> SUFFICES ASSUME Init PROVE Lifecycle!Init
  OBVIOUS
<1>1. \A r \in Runs : rows[r].status = "absent" /\ ExecutedBy(r) = {}
  BY DEF Init, Absent, Idle, ExecutedBy
<1> QED BY <1>1 DEF Lifecycle!Init

LEMMA RefinementNext == ASSUME TypeInv, EngagedInv, [Next]_vars PROVE LifecycleStep
<1> USE Types
<1>0. ASSUME UNCHANGED <<rows, wk>> PROVE LifecycleStep
  BY <1>0, SameExecutors, Stutters DEF St
<1>1. ASSUME UNCHANGED wk PROVE UNCHANGED Ex
  BY <1>1, SameExecutors
<1>2. ASSUME NEW r \in Runs, CreatorStep(r) PROVE LifecycleStep
  <2>1. UNCHANGED wk
    BY <1>2 DEF CreatorStep, CreateTriggered, CreateIdle, Publish, Confirm, CreatorStops
  <2>2. CASE CreateTriggered(r) \/ CreateIdle(r)
    <3>1. PICK requested \in BOOLEAN, scoped \in BOOLEAN :
            rows' = [rows EXCEPT ![r] = Created(requested, scoped)]
      BY <2>2, Zenon DEF CreateTriggered, CreateIdle
    <3> DEFINE row == Created(requested, scoped)
    <3>2. /\ rows' = [rows EXCEPT ![r] = row] /\ row.status = "pending"
          /\ rows[r].status = "absent"
      BY <2>2, <3>1 DEF Created, Absent, CreateTriggered, CreateIdle
    <3> HIDE DEF row
    <3>3. UNCHANGED St
      BY <3>2 DEF St
    <3> QED BY <1>1, <2>1, <3>3, Stutters
  <2>3. CASE Confirm(r)
    <3>1. UNCHANGED St
      BY <2>3 DEF Confirm, St, Row
    <3> QED BY <1>1, <2>1, <3>1, Stutters
  <2> QED BY <1>0, <1>2, <2>1, <2>2, <2>3 DEF CreatorStep, Publish, CreatorStops
<1>3. ASSUME NEW c \in Reconcilers, ReconcilerStep(c) PROVE LifecycleStep
  <2>1. UNCHANGED wk
    BY <1>3
    DEF ReconcilerStep, ClaimStale, Republish, ConfirmRepublished, ReconcilerRestarts
  <2>2. ASSUME NEW r \in Runs, ClaimStale(c, r) PROVE UNCHANGED St
    BY <2>2 DEF ClaimStale, St, Row
  <2>3. ASSUME ConfirmRepublished(c) PROVE UNCHANGED St
    BY <2>3 DEF ConfirmRepublished, St, Row
  <2>4. UNCHANGED St
    BY <1>3, <2>2, <2>3 DEF ReconcilerStep, Republish, ReconcilerRestarts, St
  <2> QED BY <1>1, <2>1, <2>4, Stutters
<1>4. ASSUME NEW w \in Workers, WorkerStep(w) PROVE LifecycleStep
  <2>1. ASSUME NEW r \in Runs, Deliver(w, r) PROVE LifecycleStep
    <3>1. UNCHANGED Ex
      BY <2>1, SameExecutors DEF Deliver
    <3> QED BY <2>1, <3>1, Stutters DEF Deliver, St
  <2>2. CASE LoadRun(w)
    <3>1. UNCHANGED Ex
      BY <2>2, SameExecutors DEF LoadRun, Done, Goto, Idle
    <3> QED BY <2>2, <3>1, Stutters DEF LoadRun, St
  <2>3. CASE RejectRun(w)
    <3>1. UNCHANGED Ex
      BY <2>3, SameExecutors DEF RejectRun, Done, Idle
    <3>2. CASE CanCancel(rows[wk[w].run])
      BY <2>3, <3>1, <3>2, MarkStep DEF RejectRun, Statuses, CanCancel
    <3>3. CASE ~CanCancel(rows[wk[w].run])
      BY <2>3, <3>1, <3>3, Stutters DEF RejectRun, St
    <3> QED BY <3>2, <3>3
  <2>4. CASE WorkerStops(w)
    BY <2>4, LeaveStep DEF WorkerStops, St
  <2>5. CASE Redeliver(w)
    BY <1>0, <2>5 DEF Redeliver
  <2> QED BY <1>4, <2>1, <2>2, <2>3, <2>4, <2>5, ClaimStep, RetryStep, FinishStep
          DEF WorkerStep
<1>5. ASSUME NEW r \in Runs, RecoverOrphan(r) \/ MarkByHand(r) PROVE LifecycleStep
  <2>1. UNCHANGED Ex
    BY <1>1, <1>5 DEF RecoverOrphan, MarkByHand
  <2> QED BY <1>5, <2>1, MarkStep
          DEF RecoverOrphan, MarkByHand, Statuses, Active, Terminal
<1>6. CASE Tick
  <2>1. UNCHANGED St
    BY <1>6, OlderRow DEF Tick, St
  <2> QED BY <1>1, <1>6, <2>1, Stutters DEF Tick
<1> QED BY <1>0, <1>2, <1>3, <1>4, <1>5, <1>6
        DEF Next, ArchiveWorkflow, BrokerFails, BrokerRecovers, vars

(* However often a run is published and delivered, and whoever marks it,   *)
(* the dispatch protocol implements the lifecycle promised of a run.       *)
THEOREM ImplementsLifecycle == Spec => KeepsLifecycle
<1>1. Inv /\ [Next]_vars => [Lifecycle!Next]_(Lifecycle!vars)
  BY RefinementNext DEF LifecycleStep, Inv
<1> QED BY RefinementInit, <1>1, InvAlways, PTL DEF Spec, KeepsLifecycle, Lifecycle!Spec

(* What a step of the lifecycle keeps: a run is taken once, when it leaves *)
(* pending for good, by one worker, and its outcome stays.                 *)
Promise ==
  \A r \in Runs :
    /\ St[r] # "pending" => St'[r] # "pending"
    /\ St[r] \in Terminal => St'[r] = St[r]
    /\ \/ Ex'[r] \subseteq Ex[r]
       \/ /\ St[r] = "pending" /\ St'[r] = "running"
          /\ \E w \in Workers : Ex'[r] = {w}

LEMMA LifecyclePromises == LifecycleStep => Promise
<1> SUFFICES ASSUME LifecycleStep, NEW r \in Runs
             PROVE  /\ St[r] # "pending" => St'[r] # "pending"
                    /\ St[r] \in Terminal => St'[r] = St[r]
                    /\ \/ Ex'[r] \subseteq Ex[r]
                       \/ /\ St[r] = "pending" /\ St'[r] = "running"
                          /\ \E w \in Workers : Ex'[r] = {w}
  BY DEF Promise
<1> DEFINE Kept == /\ St[r] # "pending" => St'[r] # "pending"
                   /\ St[r] \in Terminal => St'[r] = St[r]
           Shrinks == Ex'[r] \subseteq Ex[r]
<1>1. DOMAIN St = Runs /\ DOMAIN Ex = Runs
  BY DEF St, Ex
<1>2. ASSUME UNCHANGED St PROVE Kept
  BY <1>2
<1>3. ASSUME UNCHANGED Ex PROVE Shrinks
  BY <1>3
<1>4. ASSUME NEW ended \in SUBSET Runs, NEW s \in Lifecycle!Outcomes,
             Lifecycle!Conclude(ended, s)
      PROVE  Kept
  <2>1. St' = [q \in Runs |-> IF q \in ended THEN s ELSE St[q]]
    BY <1>4 DEF Lifecycle!Conclude, St
  <2>2. r \in ended => St[r] \in {"pending", "running"}
    BY <1>4 DEF Lifecycle!Conclude, St
  <2> QED BY <2>1, <2>2 DEF Lifecycle!Outcomes, Terminal
<1>5. ASSUME NEW q \in Runs, NEW w \in Workers, Lifecycle!Leave(q, w) PROVE Shrinks
  <2>1. Ex' = [Ex EXCEPT ![q] = @ \ {w}]
    BY <1>5 DEF Lifecycle!Leave, Ex
  <2> QED BY <1>1, <2>1
<1>6. ASSUME NEW q \in Runs, NEW w \in Workers, Lifecycle!Begin(q, w)
      PROVE  /\ Kept
             /\ Shrinks \/ (St[r] = "pending" /\ St'[r] = "running" /\ Ex'[r] = {w})
  <2>1. /\ St[q] = "pending" /\ St' = [St EXCEPT ![q] = "running"]
        /\ Ex' = [Ex EXCEPT ![q] = {w}]
    BY <1>6 DEF Lifecycle!Begin, St, Ex
  <2> QED BY <1>1, <2>1 DEF Terminal
<1>7. ASSUME NEW q \in Runs, Lifecycle!BeginByHand(q) PROVE Kept /\ Shrinks
  <2>1. St[q] = "pending" /\ St' = [St EXCEPT ![q] = "running"] /\ UNCHANGED Ex
    BY <1>7 DEF Lifecycle!BeginByHand, St, Ex
  <2> QED BY <1>1, <2>1 DEF Terminal
<1>8. CASE UNCHANGED Lifecycle!vars
  <2>1. UNCHANGED St /\ UNCHANGED Ex
    BY <1>8 DEF Lifecycle!vars, St, Ex
  <2> QED BY <1>2, <1>3, <2>1
<1>9. CASE Lifecycle!Next
  <2>1. \/ \E q \in Runs, w \in Workers : Lifecycle!Begin(q, w)
        \/ \E q \in Runs : Lifecycle!BeginByHand(q)
        \/ \E ended \in SUBSET Runs, s \in Lifecycle!Outcomes :
              Lifecycle!Conclude(ended, s) /\ UNCHANGED Ex
        \/ \E q \in Runs, w \in Workers : Lifecycle!Leave(q, w) /\ UNCHANGED St
        \/ \E q \in Runs, w \in Workers, s \in Lifecycle!Outcomes :
              Lifecycle!Conclude({q}, s) /\ Lifecycle!Leave(q, w)
    BY <1>9 DEF Lifecycle!Next, St, Ex
  <2>2. \A q \in Runs : {q} \in SUBSET Runs
    OBVIOUS
  <2> HIDE DEF Kept, Shrinks
  <2>3. /\ Kept
        /\ \/ Shrinks
           \/ \E w \in Workers : St[r] = "pending" /\ St'[r] = "running" /\ Ex'[r] = {w}
    BY <1>2, <1>3, <1>4, <1>5, <1>6, <1>7, <2>1, <2>2
  <2> QED BY <2>3 DEF Kept, Shrinks
<1> QED BY <1>8, <1>9 DEF LifecycleStep

(* However often it is published, delivered and retried, a run is executed *)
(* once: a worker joins its executors only at the step that takes it from  *)
(* pending to running, and it is never pending again.  It follows from the *)
(* refinement alone.                                                       *)
THEOREM ExecutedOnce == Spec => [][Promise]_vars
<1>1. Inv /\ [Next]_vars => [Promise]_vars
  BY RefinementNext, LifecyclePromises DEF Inv
<1> QED BY <1>1, InvAlways, PTL DEF Spec
=============================================================================
