------------------------ MODULE ListenerLease_proofs ------------------------
(***************************************************************************)
(* Proofs about ListenerLease, for every set of runtimes and any number of *)
(* edits and faults.                                                       *)
(***************************************************************************)
EXTENDS ListenerLease, FiniteSetTheorems, TLAPS

USE NobodyIsNoRuntime, BoundsAreNat

-----------------------------------------------------------------------------
(* Type correctness.                                                       *)

(* What the operators on a row, a call and a supervisor return. *)
LEMMA LeaseValues ==
  /\ \A s \in Statuses : Free(s) \in Lease
  /\ \A p \in Runtimes : Held(p) \in Lease
  /\ \A l \in Lease : Aged(l) \in Lease
BY DEF Lease, Free, Held, Aged, Statuses

LEMMA GoTypes ==
  ASSUME TypeOK, NEW p \in Runtimes, NEW place \in Places, Go(p, place)
  PROVE  /\ sup' \in [Runtimes -> Places]
         /\ seen' \in [Runtimes -> Lease]
         /\ passed' \in SUBSET Runtimes
<1>1. Free("active") \in Lease
  BY LeaseValues DEF Statuses
<1> QED
  BY <1>1 DEF TypeOK, Go

LEMMA BeginTypes ==
  ASSUME TypeOK, NEW p \in Runtimes, NEW kind \in Kinds,
         NEW by \in {"supervisor", "adapter", "api"}, NEW copy \in Lease,
         Begin(p, kind, by, copy)
  PROVE  call' \in [Runtimes -> Calls \cup {NoCall}]
<1>1. [kind |-> kind, by |-> by, copy |-> copy, old |-> FALSE] \in Calls
  BY DEF Calls
<1> QED
  BY <1>1 DEF TypeOK, Begin

(* The parts of the state that most steps leave alone. *)
LEMMA EnvTypes ==
  ASSUME TypeOK
  PROVE  /\ UnchangedRow => cols' \in Lease /\ pay' \in Lease
         /\ UnchangedEnv => /\ resolves' \in BOOLEAN
                            /\ edits' \in 0 .. MaxEdits /\ faults' \in 0 .. MaxFaults
         /\ Stay => /\ sup' \in [Runtimes -> Places] /\ seen' \in [Runtimes -> Lease]
                    /\ passed' \in SUBSET Runtimes
         /\ Fault => faults' \in 0 .. MaxFaults
         /\ Edit => edits' \in 0 .. MaxEdits
         /\ \A p \in Runtimes : Take(p) => cols' \in Lease /\ pay' \in Lease
BY LeaseValues
   DEF TypeOK, UnchangedRow, UnchangedEnv, Stay, Fault, Edit, Take

(* A step of a pass other than a read of SupervisorReads and Unbuild. *)
LEMMA PassTypes ==
  ASSUME TypeOK, NEW p \in Runtimes, PassStep(p)
  PROVE  TypeOK'
<1> USE EnvTypes, GoTypes DEF Places
<1>1. CASE List(p)
  BY <1>1 DEF TypeOK, List
<1>2. CASE Keep(p)
  BY <1>2 DEF TypeOK, Keep
<1>3. CASE Renew(p)
  BY <1>3 DEF TypeOK, Renew
<1>4. CASE ClaimAndStart(p)
  BY <1>4 DEF TypeOK, ClaimAndStart, Tasks
<1>5. CASE ClaimUnbuilt(p)
  BY <1>5 DEF TypeOK, ClaimUnbuilt
<1>6. CASE ClaimRefused(p)
  BY <1>6 DEF TypeOK, ClaimRefused
<1>7. CASE PassOver(p)
  BY <1>7 DEF TypeOK, PassOver
<1>8. CASE RecoverBlocked(p)
  BY <1>8 DEF TypeOK, RecoverBlocked
<1>9. CASE SupervisorReads(p)
  <2> DEFINE s == IF sup[p] = "promote" THEN "active" ELSE "blocked"
  <2>1. Free(s) \in Lease
    BY LeaseValues DEF Statuses
  <2>2. call' \in [Runtimes -> Calls \cup {NoCall}]
    BY <1>9, <2>1, BeginTypes DEF SupervisorReads, Kinds
  <2> QED
    BY <1>9, <2>2 DEF TypeOK, SupervisorReads
<1>10. CASE Unbuild(p)
  <2>1. CASE pay.owner = p
    <3>1. call' \in [Runtimes -> Calls \cup {NoCall}]
      BY <1>10, <2>1, BeginTypes DEF TypeOK, Unbuild, Kinds
    <3> QED
      BY <1>10, <2>1, <3>1 DEF TypeOK, Unbuild
  <2>2. CASE pay.owner # p
    BY <1>10, <2>2 DEF TypeOK, Unbuild
  <2> QED
    BY <2>1, <2>2
<1>11. CASE EndPass(p)
  BY <1>11 DEF TypeOK, EndPass
<1>12. CASE StopAdapter(p)
  BY <1>12 DEF TypeOK, StopAdapter, Tasks
<1>13. CASE AwaitRaises(p)
  BY <1>13 DEF TypeOK, AwaitRaises
<1> QED
  BY <1>1, <1>2, <1>3, <1>4, <1>5, <1>6, <1>7, <1>8, <1>9, <1>10, <1>11, <1>12, <1>13
     DEF PassStep

LEMMA WriteTypes ==
  ASSUME TypeOK, NEW p \in Runtimes, Write(p)
  PROVE  TypeOK'
<1> USE EnvTypes
<1>1. call[p] \in Calls
  BY DEF TypeOK, Write, Idle
<1>2. call[p].copy \in Lease /\ call[p].copy.status \in Statuses
  BY <1>1 DEF Calls, Lease
<1>3. Free(call[p].copy.status) \in Lease
  BY <1>2, LeaseValues
<1>4. cols' \in Lease /\ pay' \in Lease
  <2>3. Free(cols.status) \in Lease
    BY LeaseValues DEF TypeOK, Lease
  <2>4. CASE call[p].kind = "release"
    BY <1>3, <2>3, <2>4 DEF Write, Written
  <2>5. CASE call[p].kind = "dispatch"
    BY <1>2, <2>5 DEF TypeOK, Write, Written
  <2>6. CASE call[p].kind = "status"
    BY <1>2, <2>6 DEF Write, Written
  <2> QED
    BY <1>1, <2>4, <2>5, <2>6 DEF Calls, Kinds
<1>5. /\ sup' \in [Runtimes -> Places] /\ seen' \in [Runtimes -> Lease]
      /\ passed' \in SUBSET Runtimes
  BY GoTypes DEF Write, Afterwards, Places
<1>6. task' \in [Runtimes -> Tasks]
  BY DEF TypeOK, Write, Afterwards, Tasks
<1>7. call' \in [Runtimes -> Calls \cup {NoCall}]
  BY DEF TypeOK, Write
<1> QED
  BY <1>4, <1>5, <1>6, <1>7 DEF TypeOK, Write

LEMMA AdapterTypes ==
  ASSUME TypeOK, NEW p \in Runtimes,
         AdapterReturns(p) \/ BeginRelease(p) \/ BeginDispatch(p)
  PROVE  TypeOK'
<1> USE EnvTypes
<1>1. CASE AdapterReturns(p)
  BY <1>1 DEF TypeOK, AdapterReturns, Tasks
<1>2. CASE BeginRelease(p)
  <2>1. call' \in [Runtimes -> Calls \cup {NoCall}]
    BY <1>2, BeginTypes DEF TypeOK, BeginRelease, Kinds
  <2> QED
    BY <1>2, <2>1 DEF TypeOK, BeginRelease, Tasks
<1>3. CASE BeginDispatch(p)
  <2>1. call' \in [Runtimes -> Calls \cup {NoCall}]
    BY <1>3, BeginTypes DEF TypeOK, BeginDispatch, Kinds
  <2> QED
    BY <1>3, <2>1 DEF TypeOK, BeginDispatch
<1> QED
  BY <1>1, <1>2, <1>3

LEMMA ApiTypes ==
  ASSUME TypeOK, NEW p \in Runtimes, NEW s \in Statuses, ApiReads(p, s)
  PROVE  TypeOK'
<1>1. call' \in [Runtimes -> Calls \cup {NoCall}]
  BY LeaseValues, BeginTypes DEF ApiReads, Kinds
<1> QED
  BY <1>1, EnvTypes DEF TypeOK, ApiReads

LEMMA FaultTypes ==
  ASSUME TypeOK, NEW p \in Runtimes, PassRaises(p) \/ ReleaseRaises(p) \/ Crash(p)
  PROVE  TypeOK'
BY EnvTypes, GoTypes DEF TypeOK, PassRaises, ReleaseRaises, Crash, Places, Tasks

LEMMA TickTypes ==
  ASSUME TypeOK, Tick
  PROVE  TypeOK'
<1>1. cols' \in Lease /\ pay' \in Lease /\ seen' \in [Runtimes -> Lease]
  BY LeaseValues DEF TypeOK, Tick
<1>2. ASSUME NEW q \in Runtimes
      PROVE  [call[q] EXCEPT !.copy = Aged(@), !.old = ~Idle(q)] \in Calls \cup {NoCall}
  <2>1. CASE call[q] = NoCall
    <3>1. Aged(NoCall.copy) = NoCall.copy
      BY DEF Aged, Free, NoCall
    <3>2. [NoCall EXCEPT !.copy = Aged(NoCall.copy)] = NoCall
      BY <3>1 DEF NoCall
    <3>3. [[NoCall EXCEPT !.copy = Aged(NoCall.copy)] EXCEPT !.old = FALSE] = NoCall
      BY <3>2 DEF NoCall
    <3> QED
      BY <2>1, <3>3 DEF Idle
  <2>2. CASE call[q] \in Calls
    <3>1. Aged(call[q].copy) \in Lease
      BY <2>2, LeaseValues DEF Calls
    <3>2. [call[q] EXCEPT !.copy = Aged(call[q].copy)] \in Calls
      BY <2>2, <3>1 DEF Calls
    <3> DEFINE older == [call[q] EXCEPT !.copy = Aged(call[q].copy)]
    <3>3. [older EXCEPT !.old = ~Idle(q)] \in Calls
      BY <3>2 DEF Calls, Idle
    <3> QED
      BY <3>3
  <2> QED
    BY <2>1, <2>2 DEF TypeOK
<1>3. call' \in [Runtimes -> Calls \cup {NoCall}]
  BY <1>2 DEF Tick
<1> QED
  BY <1>1, <1>3, EnvTypes DEF TypeOK, Tick

LEMMA TypeInit == Init => TypeOK
BY LeaseValues DEF Init, TypeOK, Statuses, Places, Tasks

LEMMA TypeStep == TypeOK /\ [Next]_vars => TypeOK'
<1> SUFFICES ASSUME TypeOK, [Next]_vars PROVE TypeOK'
  OBVIOUS
<1>1. ASSUME NEW p \in Runtimes, Pause(p) \/ Resume(p) \/ Disable(p) PROVE TypeOK'
  BY <1>1, ApiTypes DEF Pause, Resume, Disable, Statuses
<1>2. CASE ChangeCredential
  BY <1>2, EnvTypes DEF TypeOK, ChangeCredential
<1>3. CASE UNCHANGED vars
  BY <1>3 DEF TypeOK, vars
<1> QED
  BY <1>1, <1>2, <1>3, PassTypes, WriteTypes, AdapterTypes, FaultTypes, TickTypes DEF Next

(* The state of the lease protocol is well typed. *)
THEOREM TypeCorrect == Spec => []TypeOK
<1> QED
  BY TypeInit, TypeStep, PTL DEF Spec

-----------------------------------------------------------------------------
(* What the payload and the columns have to do with each other.  An owner  *)
(* in the payload means that the payload is active, so the copies that     *)
(* release and dispatch write back are active too.                         *)
CopyIsActive ==
  /\ pay.owner # Nobody => pay.status = "active"
  /\ \A p \in Runtimes :
       /\ call[p].kind \in {"release", "dispatch"} => call[p].copy.status = "active"
       /\ call[p].kind = "status" => call[p].copy.owner = Nobody

CopyInv == TypeOK /\ CopyIsActive /\ InactiveIsReal

LEMMA NoCallFields == NoCall.kind = "none" /\ NoCall.by = "nobody"
BY DEF NoCall

(* Steps that write neither the row nor a call. *)
LEMMA CopyUntouched ==
  ASSUME CopyInv, UnchangedRow, TypeOK', call' = call
  PROVE  CopyInv'
BY DEF CopyInv, CopyIsActive, InactiveIsReal, UnchangedRow

(* A claim makes both active. *)
LEMMA CopyTaken ==
  ASSUME CopyInv, NEW p \in Runtimes, Take(p), TypeOK', call' = call
  PROVE  CopyInv'
BY DEF CopyInv, CopyIsActive, InactiveIsReal, Take, Held

(* A call that begins copies an active payload, or changes the status. *)
LEMMA CopyBegun ==
  ASSUME CopyInv, UnchangedRow, TypeOK', NEW p \in Runtimes,
         \/ call' = [call EXCEPT ![p] = NoCall]
         \/ \E by \in {"supervisor", "adapter", "api"}, s \in Statuses :
              Begin(p, "status", by, Free(s))
         \/ /\ pay.status = "active"
            /\ \E by \in {"supervisor", "adapter", "api"}, kind \in {"release", "dispatch"} :
                 Begin(p, kind, by, pay)
  PROVE  CopyInv'
BY NoCallFields
   DEF CopyInv, CopyIsActive, InactiveIsReal, TypeOK, UnchangedRow, Begin, Free

LEMMA CopyWritten ==
  ASSUME CopyInv, TypeOK', NEW p \in Runtimes, Write(p)
  PROVE  CopyInv'
<1> DEFINE c == call[p]
<1>1. c \in Calls /\ c.copy \in Lease
  BY DEF CopyInv, TypeOK, Write, Idle, Calls
<1>2. \A q \in Runtimes :
        /\ call'[q].kind \in {"release", "dispatch"} => call'[q].copy.status = "active"
        /\ call'[q].kind = "status" => call'[q].copy.owner = Nobody
  BY NoCallFields DEF CopyInv, CopyIsActive, TypeOK, Write
<1>3. CASE c.kind = "release"
  <2>1. pay' = Free(c.copy.status) /\ c.copy.status = "active"
    BY <1>3 DEF CopyInv, CopyIsActive, Write, Written
  <2> QED
    BY <1>2, <2>1 DEF CopyInv, CopyIsActive, InactiveIsReal, Free
<1>4. CASE c.kind = "dispatch"
  <2>1. pay' = c.copy /\ c.copy.status = "active"
    BY <1>4 DEF CopyInv, CopyIsActive, Write, Written
  <2> QED
    BY <1>2, <2>1 DEF CopyInv, CopyIsActive, InactiveIsReal
<1>5. CASE c.kind = "status"
  <2>1. pay' = c.copy /\ cols' = c.copy
    BY <1>5 DEF Write, Written
  <2>2. c.copy.owner = Nobody
    BY <1>5 DEF CopyInv, CopyIsActive
  <2> QED
    BY <1>2, <2>1, <2>2 DEF CopyInv, CopyIsActive, InactiveIsReal
<1> QED
  BY <1>1, <1>3, <1>4, <1>5 DEF Calls, Kinds

LEMMA CopyInit == Init => CopyInv
BY TypeInit, NoCallFields DEF Init, CopyInv, CopyIsActive, InactiveIsReal, Free

LEMMA CopyStep == CopyInv /\ [Next]_vars => CopyInv'
<1> SUFFICES ASSUME CopyInv, [Next]_vars PROVE CopyInv'
  OBVIOUS
<1> USE TypeStep DEF CopyInv
<1>1. ASSUME NEW p \in Runtimes, PassStep(p) PROVE CopyInv'
  <2>0. TypeOK'
    BY <1>1, PassTypes
  <2>1. CASE Renew(p) \/ ClaimAndStart(p) \/ ClaimUnbuilt(p)
    BY <2>0, <2>1, CopyTaken DEF Renew, ClaimAndStart, ClaimUnbuilt
  <2>2. CASE SupervisorReads(p)
    BY <2>0, <2>2, CopyBegun DEF SupervisorReads, Statuses
  <2>3. CASE Unbuild(p)
    BY <2>0, <2>3, CopyBegun, CopyUntouched DEF Unbuild, CopyIsActive
  <2>4. CASE List(p) \/ Keep(p) \/ ClaimRefused(p) \/ PassOver(p) \/ RecoverBlocked(p)
             \/ EndPass(p) \/ StopAdapter(p) \/ AwaitRaises(p)
    BY <2>0, <2>4, CopyUntouched
       DEF List, Keep, ClaimRefused, PassOver, RecoverBlocked, EndPass, StopAdapter, AwaitRaises
  <2> QED
    BY <1>1, <2>1, <2>2, <2>3, <2>4 DEF PassStep
<1>2. ASSUME NEW p \in Runtimes, AdapterReturns(p) \/ BeginRelease(p) \/ BeginDispatch(p)
      PROVE  CopyInv'
  <2>0. TypeOK'
    BY <1>2, AdapterTypes
  <2>1. CASE AdapterReturns(p)
    BY <2>0, <2>1, CopyUntouched DEF AdapterReturns
  <2>2. CASE BeginRelease(p)
    BY <2>0, <2>2, CopyBegun, CopyUntouched DEF BeginRelease, CopyIsActive
  <2>3. CASE BeginDispatch(p)
    BY <2>0, <2>3, CopyBegun DEF BeginDispatch
  <2> QED
    BY <1>2, <2>1, <2>2, <2>3
<1>3. ASSUME NEW p \in Runtimes, Write(p) PROVE CopyInv'
  BY <1>3, WriteTypes, CopyWritten
<1>4. ASSUME NEW p \in Runtimes, Pause(p) \/ Resume(p) \/ Disable(p) PROVE CopyInv'
  <2>1. ASSUME NEW s \in Statuses, ApiReads(p, s) PROVE CopyInv'
    BY <2>1, ApiTypes, CopyBegun DEF ApiReads
  <2> QED
    BY <1>4, <2>1 DEF Pause, Resume, Disable, Statuses
<1>5. ASSUME NEW p \in Runtimes, PassRaises(p) \/ ReleaseRaises(p) \/ Crash(p)
      PROVE  CopyInv'
  BY <1>5, FaultTypes, CopyBegun DEF PassRaises, ReleaseRaises, Crash
<1>6. CASE ChangeCredential
  BY <1>6, CopyUntouched DEF ChangeCredential
<1>7. CASE Tick
  <2>1. cols'.status = cols.status /\ pay'.status = pay.status /\ pay'.owner = pay.owner
    BY <1>7 DEF Tick, Aged, TypeOK, Lease
  <2>2. ASSUME NEW p \in Runtimes
        PROVE  /\ call'[p].kind = call[p].kind
               /\ call'[p].copy.status = call[p].copy.status
               /\ call'[p].copy.owner = call[p].copy.owner
    <3>1. call[p].copy \in Lease
      BY LeaseValues DEF TypeOK, Calls, NoCall, Statuses
    <3>2. call'[p] = [call[p] EXCEPT !.copy = Aged(@), !.old = ~Idle(p)]
      BY <1>7 DEF Tick
    <3> QED
      BY <3>1, <3>2 DEF TypeOK, Calls, NoCall, Aged, Lease
  <2> QED
    BY <1>7, <2>1, <2>2, TickTypes DEF CopyIsActive, InactiveIsReal
<1>8. CASE UNCHANGED vars
  BY <1>8 DEF vars, TypeOK, CopyIsActive, InactiveIsReal
<1> QED
  BY <1>1, <1>2, <1>3, <1>4, <1>5, <1>6, <1>7, <1>8 DEF Next

(* For any number of runtimes, edits and faults: a payload that says       *)
(* "not active" agrees with the column, so a supervisor that passes the    *)
(* subscription over leaves no active one unserved.                        *)
THEOREM InactiveIsRealAlways == Spec => []InactiveIsReal
<1>1. CopyInv => InactiveIsReal
  BY DEF CopyInv
<1> QED
  BY <1>1, CopyInit, CopyStep, PTL DEF Spec

-----------------------------------------------------------------------------
(* One adapter, as long as nobody edits and nothing fails.  Then whoever   *)
(* has an adapter owns the subscription in the columns and in the payload, *)
(* its lease has not expired, and has more than half to go once its pass   *)
(* has ended in this half lease: it is never refused and never stops.      *)
Quiet == edits = 0 /\ faults = 0

(* p's listing is not newer than the columns. *)
SeesOwn(p) ==
  sup[p] = "listed" =>
    seen[p].status = "active" /\ (seen[p].owner = p => seen[p].left <= cols.left)

Owns(p) ==
  /\ cols.owner = p /\ pay.owner = p
  /\ cols.status = "active"
  /\ 1 <= cols.left /\ pay.left <= cols.left
  /\ p \in passed => cols.left = 2
  /\ sup[p] \in {"idle", "listed"} /\ SeesOwn(p)

(* Without its credentials nobody starts an adapter; with them nobody      *)
(* blocks the subscription.                                                *)
QuietAt(p) ==
  /\ sup[p] \in {"idle", "listed", "stale", "block"}
  /\ task[p] \in {"none", "up"}
  /\ call[p].kind \in {"none", "dispatch", "status"}
  /\ ~resolves => task[p] = "none"
  /\ resolves => /\ seen[p].status # "blocked" /\ sup[p] # "block"
                 /\ call[p].kind # "status"
  /\ call[p].kind = "dispatch" =>
       /\ call[p].by = "adapter" /\ task[p] = "up"
       /\ call[p].copy.owner = p /\ call[p].copy.left <= cols.left
  /\ task[p] = "up" => Owns(p)

QuietInv ==
  Quiet =>
    /\ resolves => cols.status # "blocked" /\ pay.status # "blocked"
    /\ \A p \in Runtimes : QuietAt(p)

LEMMA QuietEnv ==
  ASSUME TypeOK, Quiet'
  PROVE  /\ ~Fault /\ ~Edit
         /\ UnchangedEnv => Quiet
         /\ faults' = faults /\ edits' = edits => Quiet
BY DEF TypeOK, Quiet, UnchangedEnv, Fault, Edit

(* Nobody claims what another runtime's adapter serves. *)
LEMMA ServedIsTaken ==
  ASSUME CopyInv, QuietInv, Quiet, NEW p \in Runtimes, NEW q \in Runtimes, task[q] = "up", p # q
  PROVE  ~Claimable(p)
BY DEF CopyInv, TypeOK, QuietInv, QuietAt, Owns, Claimable, Lease

LEMMA OwnIsClaimable ==
  ASSUME CopyInv, QuietInv, Quiet, NEW p \in Runtimes, task[p] = "up"
  PROVE  Claimable(p)
BY DEF CopyInv, CopyIsActive, TypeOK, QuietInv, QuietAt, Owns, Claimable, Lease

(* A claim, with or without a new adapter. *)
LEMMA QuietTaken ==
  ASSUME CopyInv, TypeOK', QuietInv, Quiet, NEW p \in Runtimes,
         Claimable(p), Take(p), Go(p, "idle"), call' = call, resolves' = resolves,
         \/ task' = task
         \/ resolves /\ task' = [task EXCEPT ![p] = "up"]
  PROVE  QuietInv'
<1>1. ASSUME NEW q \in Runtimes, q # p PROVE QuietAt(q)'
  <2>1. task[q] = "none"
    BY <1>1, ServedIsTaken DEF QuietInv, QuietAt
  <2> QED
    BY <1>1, <2>1 DEF QuietInv, QuietAt, CopyInv, TypeOK, Go
<1>2. QuietAt(p)'
  <2>1. Owns(p)'
    BY DEF Owns, SeesOwn, Go, Take, Held, CopyInv, TypeOK
  <2>2. call[p].kind = "dispatch" => call[p].copy.left <= 2
    BY DEF CopyInv, TypeOK, Calls, NoCall, Lease
  <2> QED
    BY <2>1, <2>2 DEF QuietInv, QuietAt, CopyInv, TypeOK, Go, Free, Take, Held
<1>3. (resolves => cols.status # "blocked" /\ pay.status # "blocked")'
  BY DEF Take, Held
<1> QED
  BY <1>1, <1>2, <1>3 DEF QuietInv

(* A step that only moves p's supervisor. *)
LEMMA QuietMoved ==
  ASSUME CopyInv, TypeOK', QuietInv, Quiet, NEW p \in Runtimes, NEW place \in Places,
         Go(p, place), UnchangedRow, task' = task, call' = call, resolves' = resolves,
         \/ place = "idle" /\ (task[p] = "up" => cols.left = 2)
         \/ place = "stale" /\ task[p] = "none"
         \/ place = "block" /\ ~resolves
  PROVE  QuietInv'
<1>1. ASSUME NEW q \in Runtimes PROVE QuietAt(q)'
  BY DEF QuietInv, QuietAt, Owns, SeesOwn, CopyInv, TypeOK, Go, Free, UnchangedRow
<1> QED
  BY <1>1 DEF QuietInv, UnchangedRow

LEMMA QuietPass ==
  ASSUME CopyInv, TypeOK', QuietInv, Quiet', NEW p \in Runtimes, PassStep(p)
  PROVE  QuietInv'
<1> USE QuietEnv DEF CopyInv
<1>0. Quiet /\ resolves' = resolves
  BY DEF PassStep, List, Keep, Renew, ClaimAndStart, ClaimUnbuilt, ClaimRefused, PassOver,
     RecoverBlocked, SupervisorReads, Unbuild, EndPass, StopAdapter, AwaitRaises, UnchangedEnv
<1>1. CASE List(p)
  <2>1. ASSUME NEW q \in Runtimes PROVE QuietAt(q)'
    BY <1>0, <1>1 DEF List, QuietInv, QuietAt, Owns, SeesOwn, TypeOK, CopyIsActive,
       UnchangedRow, UnchangedEnv
  <2> QED
    BY <1>0, <1>1, <2>1 DEF List, QuietInv, UnchangedRow, UnchangedEnv
<1>2. CASE Keep(p)
  <2>1. task[p] = "up" => cols.left = 2
    BY <1>0, <1>2 DEF Keep, StillFresh, QuietInv, QuietAt, Owns, SeesOwn, TypeOK, Lease
  <2> QED
    BY <1>0, <1>2, <2>1, QuietMoved DEF Keep, Places, UnchangedEnv
<1>3. CASE Renew(p)
  BY <1>0, <1>3, QuietTaken DEF Renew, UnchangedEnv
<1>4. CASE ClaimAndStart(p)
  <2>1. resolves
    BY <1>0, <1>4 DEF ClaimAndStart, QuietInv, QuietAt
  <2> QED
    BY <1>0, <1>4, <2>1, QuietTaken DEF ClaimAndStart, UnchangedEnv
<1>5. CASE ClaimUnbuilt(p)
  <2>1. ~resolves /\ Go(p, "block")
    BY <1>0, <1>5 DEF ClaimUnbuilt
  <2>2. ASSUME NEW q \in Runtimes PROVE QuietAt(q)'
    BY <1>0, <1>5, <2>1 DEF ClaimUnbuilt, QuietInv, QuietAt, TypeOK, Go, Take, Held
  <2> QED
    BY <1>0, <2>1, <2>2 DEF QuietInv
<1>6. CASE ClaimRefused(p)
  <2>1. task[p] = "none"
    BY <1>0, <1>6, OwnIsClaimable DEF ClaimRefused, QuietInv, QuietAt
  <2> QED
    BY <1>0, <1>6, <2>1, QuietMoved DEF ClaimRefused, Places, UnchangedEnv
<1>7. CASE PassOver(p)
  <2>1. task[p] = "none"
    BY <1>0, <1>7 DEF PassOver, QuietInv, QuietAt, Owns, SeesOwn
  <2> QED
    BY <1>0, <1>7, <2>1, QuietMoved DEF PassOver, Places
<1>8. CASE RecoverBlocked(p)
  <2>1. ~resolves
    BY <1>0, <1>8 DEF RecoverBlocked, QuietInv, QuietAt
  <2> QED
    BY <1>0, <1>8, <2>1, QuietMoved DEF RecoverBlocked, Places, UnchangedEnv
<1>9. CASE SupervisorReads(p)
  <2>1. ~resolves
    BY <1>0, <1>9 DEF SupervisorReads, QuietInv, QuietAt
  <2>2. ASSUME NEW q \in Runtimes PROVE QuietAt(q)'
    BY <1>0, <1>9, <2>1 DEF SupervisorReads, Begin, QuietInv, QuietAt, TypeOK, Stay,
       UnchangedRow, UnchangedEnv
  <2> QED
    BY <1>0, <2>1, <2>2 DEF QuietInv
<1>10. CASE Unbuild(p)
  BY <1>0, <1>10 DEF Unbuild, QuietInv, QuietAt
<1>11. CASE EndPass(p)
  <2>1. task[p] = "none"
    BY <1>11 DEF EndPass, Has
  <2> QED
    BY <1>0, <1>11, <2>1, QuietMoved DEF EndPass, Places, UnchangedEnv
<1>12. CASE StopAdapter(p)
  BY <1>0, <1>12 DEF StopAdapter, QuietInv, QuietAt, Owns
<1>13. CASE AwaitRaises(p)
  BY <1>0, <1>13 DEF AwaitRaises, QuietInv, QuietAt
<1> QED
  BY <1>1, <1>2, <1>3, <1>4, <1>5, <1>6, <1>7, <1>8, <1>9, <1>10, <1>11, <1>12, <1>13
     DEF PassStep

LEMMA QuietAdapter ==
  ASSUME CopyInv, TypeOK', QuietInv, Quiet', NEW p \in Runtimes,
         AdapterReturns(p) \/ BeginRelease(p) \/ BeginDispatch(p)
  PROVE  QuietInv'
<1> USE QuietEnv DEF CopyInv
<1>0. Quiet /\ resolves' = resolves
  BY DEF AdapterReturns, BeginRelease, BeginDispatch, UnchangedEnv, TypeOK
<1>1. BeginDispatch(p)
  BY <1>0 DEF AdapterReturns, BeginRelease, QuietInv, QuietAt
<1>2. ASSUME NEW q \in Runtimes PROVE QuietAt(q)'
  BY <1>0, <1>1 DEF BeginDispatch, Begin, QuietInv, QuietAt, Owns, SeesOwn, TypeOK, Stay,
     UnchangedRow, UnchangedEnv
<1> QED
  BY <1>0, <1>1, <1>2 DEF BeginDispatch, QuietInv, UnchangedRow

LEMMA QuietWrite ==
  ASSUME CopyInv, TypeOK', QuietInv, Quiet', NEW p \in Runtimes, Write(p)
  PROVE  QuietInv'
<1> USE QuietEnv, NoCallFields DEF CopyInv
<1>0. Quiet /\ resolves' = resolves
  BY DEF Write, UnchangedEnv
<1>1. call[p].kind \in {"dispatch", "status"}
  BY <1>0 DEF QuietInv, QuietAt, TypeOK, Write, Idle, Calls, Kinds
<1>2. CASE call[p].kind = "dispatch"
  <2>1. call[p].copy.status = "active"
    BY <1>2 DEF CopyIsActive
  <2>2. cols' = cols /\ pay' = call[p].copy /\ task[p] = "up" /\ pay'.owner = p
        /\ pay'.left <= cols.left
    BY <1>0, <1>2 DEF Write, Written, QuietInv, QuietAt
  <2>3. ASSUME NEW q \in Runtimes, task[q] = "up" PROVE q = p
    BY <1>0, <2>2, <2>3 DEF QuietInv, QuietAt, Owns
  <2>4. task' = task /\ Stay
    BY <1>0, <1>2 DEF Write, Afterwards, QuietInv, QuietAt
  <2>5. ASSUME NEW q \in Runtimes PROVE QuietAt(q)'
    BY <1>0, <2>2, <2>3, <2>4, <2>5
       DEF Write, QuietInv, QuietAt, Owns, SeesOwn, TypeOK, Stay
  <2> QED
    BY <1>0, <2>1, <2>2, <2>5 DEF QuietInv
<1>3. CASE call[p].kind = "status"
  <2>1. ~resolves
    BY <1>0, <1>3 DEF QuietInv, QuietAt
  <2>2. \A q \in Runtimes : task'[q] = "none"
    BY <1>0, <1>3, <2>1 DEF Write, Afterwards, QuietInv, QuietAt
  <2>3. sup' \in [Runtimes -> Places] /\ \A q \in Runtimes : sup'[q] \in {sup[q], "stale"}
    BY <1>0, <1>3, <2>1 DEF Write, Afterwards, QuietInv, QuietAt, Go, Stay, TypeOK
  <2>4. ASSUME NEW q \in Runtimes PROVE QuietAt(q)'
    <3>1. call'[q].kind \in {"none", "dispatch", "status"} /\ call'[q].kind # "dispatch"
      BY <1>0, <1>3, <2>1 DEF Write, QuietInv, QuietAt, TypeOK
    <3> QED
      BY <1>0, <2>1, <2>2, <2>3, <3>1 DEF QuietInv, QuietAt
  <2> QED
    BY <1>0, <2>1, <2>4 DEF QuietInv
<1> QED
  BY <1>1, <1>2, <1>3

LEMMA QuietTick ==
  ASSUME CopyInv, TypeOK', QuietInv, Quiet', Tick
  PROVE  QuietInv'
<1> USE DEF CopyInv
<1>1. Quiet /\ Timely /\ resolves' = resolves /\ sup' = sup /\ task' = task /\ passed' = {}
  BY QuietEnv DEF Tick
<1>2. ASSUME NEW l \in Lease
      PROVE  /\ Aged(l).status = l.status /\ Aged(l).owner = l.owner
             /\ Aged(l).left = IF l.left = 0 THEN 0 ELSE l.left - 1
             /\ l.left \in 0 .. 2
  BY DEF Aged, Lease
<1>3. cols' = Aged(cols) /\ pay' = Aged(pay) /\ cols \in Lease /\ pay \in Lease
  BY DEF Tick, TypeOK
<1>4. ASSUME NEW q \in Runtimes PROVE QuietAt(q)'
  <2>1. seen[q] \in Lease /\ seen'[q] = Aged(seen[q])
    BY DEF TypeOK, Tick
  <2>2. call[q].copy \in Lease
    BY LeaseValues DEF TypeOK, Calls, NoCall, Statuses
  <2>3. /\ call'[q].kind = call[q].kind /\ call'[q].by = call[q].by
        /\ call'[q].copy = Aged(call[q].copy)
    <3>1. call'[q] = [call[q] EXCEPT !.copy = Aged(@), !.old = ~Idle(q)]
      BY DEF Tick
    <3> QED
      BY <3>1 DEF TypeOK, Calls, NoCall
  <2>4. QuietAt(q)
    BY <1>1 DEF QuietInv
  <2>5. task[q] = "up" => Owns(q)'
    <3> SUFFICES ASSUME task[q] = "up" PROVE Owns(q)'
      OBVIOUS
    <3>1. Owns(q)
      BY <2>4 DEF QuietAt
    <3>2. q \in passed
      BY <1>1, <3>1 DEF Timely, Owns
    <3>3. cols.left = 2
      BY <3>1, <3>2 DEF Owns
    <3>4. cols'.left = 1 /\ pay'.left <= 1 /\ seen'[q].left <= 1
      BY <1>2, <1>3, <2>1, <3>3
    <3> QED
      BY <1>1, <1>2, <1>3, <2>1, <3>1, <3>4 DEF Owns, SeesOwn
  <2>6. call'[q].kind = "dispatch" => call'[q].copy.left <= cols'.left
    BY <1>2, <1>3, <2>2, <2>3, <2>4 DEF QuietAt
  <2>7. call'[q].copy.owner = call[q].copy.owner /\ seen'[q].status = seen[q].status
    BY <1>2, <2>1, <2>2, <2>3
  <2> QED
    BY <1>1, <2>3, <2>4, <2>5, <2>6, <2>7 DEF QuietAt
<1> QED
  BY <1>1, <1>2, <1>3, <1>4 DEF QuietInv

LEMMA QuietInit == Init => QuietInv
BY NoCallFields DEF Init, QuietInv, QuietAt, Free

LEMMA QuietStep == CopyInv /\ QuietInv /\ [Next]_vars => QuietInv'
<1> SUFFICES ASSUME CopyInv, QuietInv, [Next]_vars, Quiet' PROVE QuietInv'
  BY DEF QuietInv
<1>0. TypeOK /\ TypeOK'
  BY TypeStep DEF CopyInv
<1>1. ASSUME NEW p \in Runtimes,
             \/ Pause(p) \/ Resume(p) \/ Disable(p)
             \/ PassRaises(p) \/ Crash(p)
      PROVE  FALSE
  BY <1>0, <1>1, QuietEnv DEF Pause, Resume, Disable, ApiReads, PassRaises, Crash
<1>2. ~ChangeCredential
  BY <1>0, QuietEnv DEF ChangeCredential
<1>3. ASSUME NEW p \in Runtimes, ReleaseRaises(p) PROVE FALSE
  BY <1>0, <1>3, QuietEnv DEF ReleaseRaises, QuietInv, QuietAt
<1>4. CASE UNCHANGED vars
  BY <1>4 DEF vars, Quiet, QuietInv, QuietAt, Owns, SeesOwn
<1> QED
  BY <1>0, <1>1, <1>2, <1>3, <1>4, QuietPass, QuietAdapter, QuietWrite, QuietTick DEF Next

(* For any number of runtimes: as long as users and faults stay away the   *)
(* lease keeps every subscription with one adapter, across all renewals    *)
(* and all writes of stale payloads.                                       *)
THEOREM OneAdapterAlways == Spec => []OneAdapter
<1>1. CopyInv /\ QuietInv => OneAdapter
  <2> SUFFICES ASSUME CopyInv, QuietInv, Quiet PROVE Cardinality(Serving) <= 1
    BY DEF OneAdapter, Quiet
  <2>1. \A p \in Runtimes : task[p] \in {"up", "stopping"} => cols.owner = p
    BY DEF QuietInv, QuietAt, Owns
  <2>2. Serving \subseteq {cols.owner}
    BY <2>1 DEF Serving
  <2>3. IsFiniteSet({cols.owner}) /\ Cardinality({cols.owner}) = 1
    BY FS_Singleton
  <2> QED
    BY <2>2, <2>3, FS_Subset
<1> QED
  BY <1>1, CopyInit, CopyStep, QuietInit, QuietStep, PTL DEF Spec
=============================================================================
