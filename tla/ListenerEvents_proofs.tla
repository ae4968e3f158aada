----------------------- MODULE ListenerEvents_proofs -----------------------
(***************************************************************************)
(* Proofs about ListenerEvents, for every number of adapters, updates and  *)
(* faults, every batch size and every dedupe window.                       *)
(***************************************************************************)
EXTENDS ListenerEvents, TLAPS

(* An adapter between its two transactions has a dedupe record of the      *)
(* update it dispatches.                                                   *)
RecordHeld ==
  \A a \in Adapters :
    /\ ad[a].next = 0 => ad[a].last = -1
    /\ ad[a].pc = "creating" =>
         /\ ad[a].next <= ad[a].last
         /\ ad[a].attempt \in DOMAIN attempts
         /\ attempts[ad[a].attempt].event = ad[a].next

TypeInv == TypeOK /\ RecordHeld

USE ListenerAssumption

(* What the operators on an adapter return. *)
LEMMA AdapterUpdates ==
  ASSUME TypeOK, NEW a \in Adapters
  PROVE  /\ NewAdapter \in Adapter
         /\ Left(a, "idle") \in Adapter
         /\ Left(a, "backoff") \in Adapter
         /\ ad[a].next <= ad[a].last => Passed(a) \in Adapter
<1>1. ad[a] \in Adapter
  BY DEF TypeOK
<1>2. NewAdapter \in Adapter
  BY DEF Adapter, NewAdapter
<1>3. Left(a, "idle") \in Adapter /\ Left(a, "backoff") \in Adapter
  BY <1>1 DEF Adapter, Left
<1>4. ASSUME ad[a].next <= ad[a].last PROVE Passed(a) \in Adapter
  <2> DEFINE s == [ad[a] EXCEPT !.pc = "dispatching"]
             t == [s EXCEPT !.next = ad[a].next + 1]
  <2>1. s \in Adapter
    BY <1>1 DEF Adapter
  <2>2. ad[a].next + 1 \in 0 .. MaxEvents + 1
    BY <1>1, <1>4 DEF Adapter
  <2>3. t \in Adapter
    BY <2>1, <2>2 DEF Adapter
  <2>4. [t EXCEPT !.attempt = 0] \in Adapter
    BY <2>3 DEF Adapter
  <2> QED
    BY <2>4 DEF Passed
<1> QED
  BY <1>2, <1>3, <1>4

(* Every step keeps the earlier dedupe records' updates and instants, and  *)
(* the sequence of records well typed.                                     *)
LEMMA RecordKept ==
  ASSUME TypeInv, NEW a \in Adapters, Record(a), HasNext(a), ad[a].next \notin Irrelevant
  PROVE  /\ attempts' \in Seq(DedupeRecord)
         /\ expires' \in [Events -> 0 .. MaxTime + Window]
         /\ Len(attempts') = Len(attempts) + 1
         /\ attempts'[Len(attempts) + 1].event = ad[a].next
         /\ attempts'[Len(attempts) + 1].at = now
         /\ \A i \in DOMAIN attempts : i \in DOMAIN attempts' /\ attempts'[i] = attempts[i]
<1>1. ad[a].next \in Events \ Irrelevant
  BY DEF TypeInv, TypeOK, RecordHeld, Adapter, HasNext, Events
<1>2. [event |-> ad[a].next, at |-> now, result |-> "open"] \in DedupeRecord
  BY <1>1 DEF TypeInv, TypeOK, DedupeRecord
<1>3. now + Window \in 0 .. MaxTime + Window
  BY DEF TypeInv, TypeOK
<1> QED
  BY <1>1, <1>2, <1>3 DEF TypeInv, TypeOK, Record

LEMMA UnansweredKept ==
  ASSUME TypeInv, NEW a \in Adapters, ReserveUnanswered(a)
  PROVE  /\ attempts' \in Seq(DedupeRecord)
         /\ expires' \in [Events -> 0 .. MaxTime + Window]
         /\ Len(attempts') = Len(attempts) + 1
         /\ attempts'[Len(attempts) + 1].event = ad[a].next
         /\ attempts'[Len(attempts) + 1].at = now
         /\ \A i \in DOMAIN attempts : i \in DOMAIN attempts' /\ attempts'[i] = attempts[i]
<1>1. ad[a].next \in Events \ Irrelevant
  BY DEF TypeInv, TypeOK, RecordHeld, Adapter, ReserveUnanswered, HasNext, Events
<1>2. [event |-> ad[a].next, at |-> now, result |-> "failed"] \in DedupeRecord
  BY <1>1 DEF TypeInv, TypeOK, DedupeRecord
<1>3. now + Window \in 0 .. MaxTime + Window
  BY DEF TypeInv, TypeOK
<1> QED
  BY <1>1, <1>2, <1>3 DEF TypeInv, TypeOK, ReserveUnanswered

LEMMA ResultKept ==
  ASSUME TypeInv, NEW a \in Adapters, ad[a].pc = "creating",
         NEW result \in {"run", "failed"}, Attempt(a, result)
  PROVE  /\ attempts' \in Seq(DedupeRecord)
         /\ Len(attempts') = Len(attempts)
         /\ DOMAIN attempts' = DOMAIN attempts
         /\ \A i \in DOMAIN attempts :
              attempts'[i].event = attempts[i].event /\ attempts'[i].at = attempts[i].at
<1>1. ad[a].attempt \in DOMAIN attempts
  BY DEF TypeInv, RecordHeld
<1>2. \A i \in DOMAIN attempts : attempts[i] \in DedupeRecord
  BY DEF TypeInv, TypeOK
<1>3. [attempts[ad[a].attempt] EXCEPT !.result = result] \in DedupeRecord
  BY <1>1, <1>2 DEF DedupeRecord
<1>4. attempts' = [attempts EXCEPT ![ad[a].attempt] =
                     [attempts[ad[a].attempt] EXCEPT !.result = result]]
  BY DEF Attempt
<1>5. attempts \in Seq(DedupeRecord)
  BY DEF TypeInv, TypeOK
<1>6. attempts' \in Seq(DedupeRecord) /\ Len(attempts') = Len(attempts) /\ DOMAIN attempts' = DOMAIN attempts
  BY <1>1, <1>3, <1>4, <1>5
<1>7. ASSUME NEW i \in DOMAIN attempts
      PROVE  attempts'[i].event = attempts[i].event /\ attempts'[i].at = attempts[i].at
  <2>1. CASE i = ad[a].attempt
    BY <1>1, <1>2, <1>4, <2>1 DEF DedupeRecord
  <2>2. CASE i # ad[a].attempt
    BY <1>4, <2>2
  <2> QED
    BY <2>1, <2>2
<1> QED
  BY <1>6, <1>7

(* The history of a step: records are added and get results, their updates *)
(* and instants stay.                                                      *)
HistoryGrows ==
  /\ attempts' \in Seq(DedupeRecord)
  /\ expires' \in [Events -> 0 .. MaxTime + Window]
  /\ ignored \subseteq ignored' /\ ignored' \subseteq Events \ Irrelevant
  /\ \A i \in DOMAIN attempts :
       /\ i \in DOMAIN attempts'
       /\ attempts'[i].event = attempts[i].event /\ attempts'[i].at = attempts[i].at

LEMMA HistoryStep == TypeInv /\ [Next]_vars => HistoryGrows
<1> SUFFICES ASSUME TypeInv, [Next]_vars PROVE HistoryGrows
  OBVIOUS
<1>0. /\ attempts \in Seq(DedupeRecord) /\ expires \in [Events -> 0 .. MaxTime + Window]
      /\ ignored \subseteq Events \ Irrelevant
  BY DEF TypeInv, TypeOK
<1>1. ASSUME UNCHANGED <<expires, attempts, ignored>> PROVE HistoryGrows
  BY <1>0, <1>1 DEF HistoryGrows
<1>2. ASSUME NEW a \in Adapters, Reserve(a) PROVE HistoryGrows
  <2>1. HasNext(a) /\ ad[a].next \notin Irrelevant
    BY <1>2 DEF Reserve
  <2>2. CASE Record(a)
    BY <1>0, <2>1, <2>2, RecordKept DEF HistoryGrows, Record
  <2>3. CASE Unrecorded(a)
    <3>1. ad[a].next \in Events \ Irrelevant
      BY <2>1 DEF TypeInv, TypeOK, RecordHeld, Adapter, HasNext, Events
    <3> QED
      BY <1>0, <2>3, <3>1 DEF HistoryGrows, Unrecorded
  <2> QED
    BY <1>2, <2>2, <2>3 DEF Reserve
<1>3. ASSUME NEW a \in Adapters, ReserveUnanswered(a) PROVE HistoryGrows
  BY <1>0, <1>3, UnansweredKept DEF HistoryGrows, ReserveUnanswered
<1>4. ASSUME NEW a \in Adapters, CreateRun(a) PROVE HistoryGrows
  BY <1>0, <1>4, ResultKept DEF HistoryGrows, CreateRun
<1>5. ASSUME NEW a \in Adapters, CreateRaises(a) PROVE HistoryGrows
  BY <1>0, <1>5, ResultKept DEF HistoryGrows, CreateRaises
<1>6. ASSUME NEW a \in Adapters, Crash(a) PROVE HistoryGrows
  <2>1. CASE ad[a].pc = "creating"
    BY <1>0, <1>6, <2>1, ResultKept DEF HistoryGrows, Crash
  <2>2. CASE ad[a].pc # "creating"
    BY <1>1, <1>6, <2>2 DEF Crash
  <2> QED
    BY <2>1, <2>2
<1>7. ASSUME NEW a \in Adapters,
             \/ Start(a) \/ StopAdapter(a) \/ Exit(a) \/ GetCursor(a) \/ GetUpdates(a)
             \/ PassOver(a) \/ AfterBackoff(a) \/ PollRaises(a)
             \/ SaveCursor(a) \/ SaveCursorUnanswered(a)
      PROVE  UNCHANGED <<expires, attempts, ignored>>
  BY <1>7 DEF Start, StopAdapter, Exit, GetCursor, GetUpdates, PassOver, AfterBackoff,
              PollRaises, SaveCursor, SaveCursorUnanswered, stored
<1>8. ASSUME Arrive \/ Tick \/ Pause \/ Resume \/ UNCHANGED vars
      PROVE  UNCHANGED <<expires, attempts, ignored>>
  BY <1>8 DEF Arrive, Tick, Pause, Resume, vars, stored
<1> QED
  BY <1>1, <1>2, <1>3, <1>4, <1>5, <1>6, <1>7, <1>8 DEF Next, Forward

LEMMA TypeInvInit == Init => TypeInv
<1> SUFFICES ASSUME Init PROVE TypeInv
  OBVIOUS
<1>1. NewAdapter \in Adapter
  BY DEF Adapter, NewAdapter
<1>2. ad \in [Adapters -> Adapter]
  BY <1>1 DEF Init
<1>3. TypeOK
  BY <1>2 DEF Init, TypeOK, Events
<1> QED
  BY <1>3 DEF Init, TypeInv, RecordHeld, NewAdapter

(* An adapter takes a new state and the others keep theirs. *)
LEMMA AdapterStep ==
  ASSUME TypeInv, HistoryGrows, NEW a \in Adapters, NEW s \in Adapter, Becomes(a, s),
         s.next = 0 => s.last = -1,
         s.pc = "creating" =>
           /\ s.next <= s.last
           /\ s.attempt \in DOMAIN attempts' /\ attempts'[s.attempt].event = s.next
  PROVE  ad' \in [Adapters -> Adapter] /\ RecordHeld'
<1>1. ad' \in [Adapters -> Adapter]
  BY DEF TypeInv, TypeOK, Becomes
<1>2. ad \in [Adapters -> Adapter]
  BY DEF TypeInv, TypeOK
<1>3. ASSUME NEW b \in Adapters, b # a
      PROVE  ad'[b] = ad[b]
  BY <1>2, <1>3 DEF Becomes
<1>4. ad'[a] = s
  BY <1>2 DEF Becomes
<1>5. ASSUME NEW b \in Adapters
      PROVE  /\ ad'[b].next = 0 => ad'[b].last = -1
             /\ ad'[b].pc = "creating" =>
                  /\ ad'[b].next <= ad'[b].last
                  /\ ad'[b].attempt \in DOMAIN attempts'
                  /\ attempts'[ad'[b].attempt].event = ad'[b].next
  <2>1. CASE b = a
    BY <1>4, <2>1
  <2>2. CASE b # a
    BY <1>3, <2>2 DEF TypeInv, RecordHeld, HistoryGrows
  <2> QED
    BY <2>1, <2>2
<1> QED
  BY <1>1, <1>5 DEF RecordHeld

LEMMA TypeInvNext == TypeInv /\ [Next]_vars => TypeInv'
<1> SUFFICES ASSUME TypeInv, [Next]_vars PROVE TypeInv'
  OBVIOUS
<1>0. HistoryGrows
  BY HistoryStep
<1>a. /\ now \in 1 .. MaxTime /\ active \in BOOLEAN /\ arrived \in 0 .. MaxEvents
      /\ confirmed \in 1 .. MaxEvents + 1 /\ cursor \in 0 .. MaxEvents + 1
      /\ faults \in 0 .. MaxFaults /\ ad \in [Adapters -> Adapter]
  BY DEF TypeInv, TypeOK
<1>b. ASSUME /\ now' \in 1 .. MaxTime /\ active' \in BOOLEAN /\ arrived' \in 0 .. MaxEvents
             /\ confirmed' \in 1 .. MaxEvents + 1 /\ cursor' \in 0 .. MaxEvents + 1
             /\ faults' \in 0 .. MaxFaults,
             ad' \in [Adapters -> Adapter] /\ RecordHeld'
      PROVE  TypeInv'
  BY <1>0, <1>b DEF TypeInv, TypeOK, HistoryGrows
<1>1. ASSUME Arrive \/ Tick \/ Pause \/ Resume \/ UNCHANGED vars PROVE TypeInv'
  <2>1. UNCHANGED <<attempts, ad>>
    BY <1>1 DEF Arrive, Tick, Pause, Resume, vars, stored
  <2>2. ad' \in [Adapters -> Adapter] /\ RecordHeld'
    BY <1>a, <2>1 DEF TypeInv, RecordHeld
  <2>3. CASE Arrive
    BY <1>a, <1>b, <2>2, <2>3 DEF Arrive, stored
  <2>4. CASE Tick
    BY <1>a, <1>b, <2>2, <2>4 DEF Tick, platform, stored
  <2>5. CASE Pause
    <3>1. faults' \in 0 .. MaxFaults
      BY <1>a, <2>5 DEF Pause, Fault
    <3>2. active' \in BOOLEAN
      BY <2>5 DEF Pause
    <3> QED
      BY <1>a, <1>b, <2>2, <2>5, <3>1, <3>2 DEF Pause, platform, stored
  <2>6. CASE Resume
    BY <1>a, <1>b, <2>2, <2>6 DEF Resume, platform, stored
  <2>7. CASE UNCHANGED vars
    BY <1>a, <1>b, <2>2, <2>7 DEF vars
  <2> QED
    BY <1>1, <2>3, <2>4, <2>5, <2>6, <2>7
<1>2. ASSUME NEW a \in Adapters,
             \/ Start(a) \/ StopAdapter(a) \/ Exit(a) \/ GetCursor(a) \/ GetUpdates(a)
             \/ PassOver(a) \/ AfterBackoff(a) \/ PollRaises(a) \/ Reserve(a)
             \/ ReserveUnanswered(a) \/ CreateRun(a) \/ CreateRaises(a)
             \/ SaveCursor(a) \/ SaveCursorUnanswered(a) \/ Crash(a)
      PROVE  TypeInv'
  <2> DEFINE Sound(t) ==
               /\ t \in Adapter
               /\ t.next = 0 => t.last = -1
               /\ t.pc = "creating" =>
                    /\ t.next <= t.last
                    /\ t.attempt \in DOMAIN attempts' /\ attempts'[t.attempt].event = t.next
  <2>0. ad[a] \in Adapter /\ (ad[a].next = 0 => ad[a].last = -1)
    BY <1>a DEF TypeInv, RecordHeld
  <2>a. Sound(NewAdapter) /\ Sound(Left(a, "idle")) /\ Sound(Left(a, "backoff"))
    BY AdapterUpdates DEF TypeInv, NewAdapter, Left
  <2>b. ASSUME ad[a].next <= ad[a].last PROVE Sound(Passed(a))
    <3>1. Passed(a) \in Adapter
      BY <2>b, AdapterUpdates DEF TypeInv
    <3>2. Passed(a).pc = "dispatching" /\ Passed(a).next = ad[a].next + 1
      BY <2>0 DEF Passed, Adapter
    <3> QED
      BY <2>0, <3>1, <3>2 DEF Adapter
  <2>c. ASSUME NEW t, Becomes(a, t), Sound(t)
        PROVE  ad' \in [Adapters -> Adapter] /\ RecordHeld'
    BY <1>0, <2>c, AdapterStep
  <2>1. CASE Start(a)
    <3> DEFINE t == [NewAdapter EXCEPT !.pc = "idle"]
    <3>1. NewAdapter \in Adapter /\ NewAdapter.next = 0 /\ NewAdapter.last = -1
      BY <2>a DEF NewAdapter
    <3>2. t \in Adapter /\ t.pc = "idle" /\ t.next = 0 /\ t.last = -1
      BY <3>1 DEF Adapter
    <3> QED
      BY <1>a, <1>b, <2>1, <2>c, <3>2 DEF Start, platform, stored
  <2>2. CASE StopAdapter(a)
    <3> DEFINE t == [ad[a] EXCEPT !.stop = TRUE]
    <3>1. t \in Adapter /\ t.next = ad[a].next /\ t.last = ad[a].last /\ t.pc = ad[a].pc
          /\ t.attempt = ad[a].attempt
      BY <2>0 DEF Adapter
    <3>2. Sound(t)
      BY <1>0, <2>0, <3>1 DEF TypeInv, RecordHeld, HistoryGrows
    <3>3. Becomes(a, t)
      BY <2>2 DEF StopAdapter
    <3>4. ad' \in [Adapters -> Adapter] /\ RecordHeld'
      BY <2>c, <3>2, <3>3
    <3>5. faults' \in 0 .. MaxFaults
      BY <1>a, <2>2 DEF StopAdapter, Fault
    <3> QED
      BY <1>a, <1>b, <2>2, <3>4, <3>5 DEF StopAdapter, platform, stored
  <2>3. CASE Exit(a)
    BY <1>a, <1>b, <2>3, <2>a, <2>c DEF Exit, platform, stored
  <2>4. CASE GetCursor(a)
    <3> DEFINE s == [ad[a] EXCEPT !.pc = "polling"]
               m == IF cursor # 0 THEN cursor ELSE ad[a].offset
               t == [s EXCEPT !.offset = m]
    <3>1. s \in Adapter /\ s.pc = "polling" /\ s.next = ad[a].next /\ s.last = ad[a].last
      BY <2>0 DEF Adapter
    <3>2. m \in 0 .. MaxEvents + 1
      BY <1>a, <2>0 DEF Adapter
    <3>3. Sound(t)
      BY <2>0, <3>1, <3>2 DEF Adapter
    <3>4. Becomes(a, t)
      BY <2>4 DEF GetCursor
    <3> QED
      BY <1>a, <1>b, <2>4, <2>c, <3>3, <3>4 DEF GetCursor, platform, stored
  <2>5. CASE GetUpdates(a)
    <3> DEFINE first == Larger(confirmed, ad[a].offset)
    <3>1. first \in 1 .. MaxEvents + 1 /\ ad[a].offset \in 0 .. MaxEvents + 1 /\ ad[a].last \in -1 .. MaxEvents
      BY <1>a, <2>0 DEF Larger, Adapter
    <3>2. PICK k \in 0 .. MaxEvents + 1, l \in -1 .. MaxEvents :
            /\ k = 0 => l = -1
            /\ Becomes(a, [ad[a] EXCEPT !.pc = "dispatching", !.next = k, !.last = l])
      <4>1. CASE arrived - first + 1 > 0
        <5>1. PICK n \in 1 .. Smaller(Limit, arrived - first + 1) :
                Becomes(a, [ad[a] EXCEPT !.pc = "dispatching", !.next = first, !.last = first + n - 1])
          BY <2>5, <4>1 DEF GetUpdates
        <5>2. n <= arrived - first + 1
          BY <1>a, <3>1, <4>1, <5>1 DEF Smaller
        <5>3. first + n - 1 \in -1 .. MaxEvents
          BY <1>a, <3>1, <5>1, <5>2
        <5>4. first \in 0 .. MaxEvents + 1 /\ first # 0
          BY <3>1
        <5> USE <5>4
        <5> WITNESS first \in 0 .. MaxEvents + 1, first + n - 1 \in -1 .. MaxEvents
        <5> QED
          BY <5>1, <5>4
      <4>2. CASE ~(arrived - first + 1 > 0)
        <5>1. Becomes(a, [ad[a] EXCEPT !.pc = "dispatching", !.next = ad[a].offset, !.last = ad[a].offset - 1])
          BY <2>5, <4>2 DEF GetUpdates
        <5>2. /\ ad[a].offset \in 0 .. MaxEvents + 1 /\ ad[a].offset - 1 \in -1 .. MaxEvents
              /\ ad[a].offset = 0 => ad[a].offset - 1 = -1
          BY <3>1
        <5> USE <5>2
        <5> WITNESS ad[a].offset \in 0 .. MaxEvents + 1, ad[a].offset - 1 \in -1 .. MaxEvents
        <5> QED
          BY <5>1, <5>2
      <4> QED
        BY <4>1, <4>2
    <3> DEFINE s == [ad[a] EXCEPT !.pc = "dispatching"]
               u == [s EXCEPT !.next = k]
               t == [u EXCEPT !.last = l]
    <3>3. s \in Adapter /\ s.pc = "dispatching"
      BY <2>0 DEF Adapter
    <3>4. u \in Adapter /\ u.pc = "dispatching" /\ u.next = k
      BY <3>2, <3>3 DEF Adapter
    <3>5. Sound(t)
      BY <3>2, <3>4 DEF Adapter
    <3>6. confirmed' = first
      BY <2>5 DEF GetUpdates
    <3> QED
      BY <1>a, <1>b, <2>5, <2>c, <3>1, <3>2, <3>5, <3>6 DEF GetUpdates, stored
  <2>6. CASE PassOver(a)
    BY <1>a, <1>b, <2>6, <2>b, <2>c DEF PassOver, HasNext, platform, stored
  <2>7. CASE AfterBackoff(a)
    BY <1>a, <1>b, <2>7, <2>a, <2>c DEF AfterBackoff, platform, stored
  <2>8. CASE PollRaises(a)
    BY <1>a, <1>b, <2>8, <2>a, <2>c DEF PollRaises, platform, stored, Fault
  <2>9. CASE Reserve(a)
    <3>0. ad[a].next <= ad[a].last /\ ad[a].next \notin Irrelevant
      BY <2>9 DEF Reserve, HasNext
    <3>1. CASE Unrecorded(a)
      BY <1>a, <1>b, <2>9, <2>b, <2>c, <3>0, <3>1 DEF Reserve, Unrecorded, platform
    <3>2. CASE Record(a)
      <4> DEFINE s == [ad[a] EXCEPT !.pc = "creating"]
                 t == [s EXCEPT !.attempt = Len(attempts) + 1]
      <4>1. CASE Becomes(a, t)
        <5>1. Len(attempts) \in Nat /\ attempts \in Seq(DedupeRecord)
          BY DEF TypeInv, TypeOK
        <5>2. s \in Adapter /\ s.next = ad[a].next /\ s.last = ad[a].last
          BY <2>0 DEF Adapter
        <5> HIDE DEF s
        <5>3. t \in Adapter
          BY ONLY <5>1, <5>2 DEF Adapter
        <5>4. t.next = ad[a].next /\ t.last = ad[a].last /\ t.attempt = Len(attempts) + 1
          BY <5>2 DEF Adapter
        <5>7. /\ attempts' \in Seq(DedupeRecord) /\ Len(attempts') = Len(attempts) + 1
              /\ attempts'[Len(attempts) + 1].event = ad[a].next
          BY <2>9, <3>2, RecordKept DEF Reserve
        <5>5. Len(attempts) + 1 \in DOMAIN attempts'
          BY <5>1, <5>7
        <5>6. Sound(t)
          BY <2>0, <3>0, <5>3, <5>4, <5>5, <5>7
        <5> QED
          BY <1>a, <1>b, <2>9, <2>c, <4>1, <5>6 DEF Reserve, platform
      <4>2. CASE Unrecorded(a)
        BY <3>1, <4>2
      <4> QED
        BY <2>9, <4>1, <4>2 DEF Reserve
    <3> QED
      BY <2>9, <3>1, <3>2 DEF Reserve
  <2>10. CASE ReserveUnanswered(a)
    BY <1>a, <1>b, <2>10, <2>a, <2>c DEF ReserveUnanswered, platform, Fault
  <2>11. CASE CreateRun(a)
    <3>1. ad[a].next <= ad[a].last
      BY <2>11 DEF CreateRun, TypeInv, RecordHeld
    <3> QED
      BY <1>a, <1>b, <2>11, <2>b, <2>c, <3>1 DEF CreateRun, platform
  <2>12. CASE CreateRaises(a)
    BY <1>a, <1>b, <2>12, <2>a, <2>c DEF CreateRaises, platform, Fault
  <2>13. CASE SaveCursor(a)
    <3> DEFINE t == [Left(a, "idle") EXCEPT !.offset = ad[a].next]
    <3>1. t \in Adapter /\ t.pc = "idle" /\ t.next = 0 /\ t.last = -1
      BY <2>0 DEF Left, Adapter
    <3>2. cursor' \in 0 .. MaxEvents + 1
      BY <1>a, <2>0, <2>13 DEF SaveCursor, Adapter
    <3> QED
      BY <1>a, <1>b, <2>13, <2>c, <3>1, <3>2 DEF SaveCursor, platform
  <2>14. CASE SaveCursorUnanswered(a)
    <3>1. cursor' \in 0 .. MaxEvents + 1
      BY <1>a, <2>0, <2>14 DEF SaveCursorUnanswered, Adapter
    <3> QED
      BY <1>a, <1>b, <2>14, <2>a, <2>c, <3>1 DEF SaveCursorUnanswered, platform, Fault
  <2>15. CASE Crash(a)
    BY <1>a, <1>b, <2>15, <2>a, <2>c DEF Crash, platform, Fault
  <2> QED
    BY <1>2, <2>1, <2>2, <2>3, <2>4, <2>5, <2>6, <2>7, <2>8, <2>9, <2>10, <2>11, <2>12, <2>13, <2>14, <2>15
<1> QED
  BY <1>1, <1>2 DEF Next, Forward

(* Type correctness of every reachable state. *)
THEOREM TypeCorrect == Spec => []TypeOK
<1>1. Spec => []TypeInv
  BY TypeInvInit, TypeInvNext, PTL DEF Spec
<1> QED
  BY <1>1, PTL DEF TypeInv

-----------------------------------------------------------------------------
(* A dedupe record lives until its update's newest expires_at: the later   *)
(* record of an update can only be made when the earlier have expired.     *)
RecordsCovered ==
  /\ \A i \in DOMAIN attempts :
       attempts[i].at <= now /\ attempts[i].at + Window <= expires[attempts[i].event]
  /\ \A e \in Events : expires[e] > 0 => Attempted(e)

Dedupe == RecordsCovered /\ OncePerWindow

(* A record is appended by a step that found none alive. *)
LEMMA NewRecord ==
  ASSUME TypeInv, Dedupe, NEW a \in Adapters, ~Duplicate(a), now' = now,
         ad[a].next \in Events,
         expires' = [expires EXCEPT ![ad[a].next] = now + Window],
         attempts' \in Seq(DedupeRecord),
         Len(attempts') = Len(attempts) + 1,
         attempts'[Len(attempts) + 1].event = ad[a].next,
         attempts'[Len(attempts) + 1].at = now,
         \A i \in DOMAIN attempts : i \in DOMAIN attempts' /\ attempts'[i] = attempts[i]
  PROVE  Dedupe'
<1> DEFINE n == Len(attempts) + 1
           e == ad[a].next
<1>1. /\ attempts \in Seq(DedupeRecord) /\ expires \in [Events -> Int] /\ now \in Int
      /\ Window \in Int /\ \A i \in DOMAIN attempts : attempts[i] \in DedupeRecord
      /\ \A i \in DOMAIN attempts' : attempts'[i] \in DedupeRecord
  BY DEF TypeInv, TypeOK
<1>2. DOMAIN attempts' = DOMAIN attempts \cup {n} /\ n \notin DOMAIN attempts
      /\ \A i \in DOMAIN attempts : i < n
  BY <1>1
<1>3. expires[e] <= now
  BY <1>1 DEF Duplicate
<1>4. ASSUME NEW i \in DOMAIN attempts'
      PROVE  attempts'[i].at <= now' /\ attempts'[i].at + Window <= expires'[attempts'[i].event]
  <2>1. CASE i = n
    BY <1>1, <2>1
  <2>2. CASE i # n
    <3>1. i \in DOMAIN attempts /\ attempts'[i] = attempts[i]
      BY <1>2, <2>2
    <3>2. attempts[i].event \in Events /\ attempts[i].at \in Int
      BY ONLY <1>1, <3>1 DEF DedupeRecord
    <3> QED
      BY <1>1, <3>1, <3>2 DEF Dedupe, RecordsCovered
  <2> QED
    BY <2>1, <2>2
<1>5. ASSUME NEW d \in Events, expires'[d] > 0 PROVE Attempted(d)'
  <2>1. CASE d = e
    BY <1>2, <2>1 DEF Attempted
  <2>2. CASE d # e
    BY <1>1, <1>2, <1>5, <2>2 DEF Dedupe, RecordsCovered, Attempted
  <2> QED
    BY <2>1, <2>2
<1>6. ASSUME NEW i \in DOMAIN attempts', NEW j \in DOMAIN attempts', i < j,
             attempts'[i].event = attempts'[j].event
      PROVE  attempts'[j].at - attempts'[i].at >= Window
  <2>1. i \in DOMAIN attempts /\ attempts'[i] = attempts[i]
    BY <1>1, <1>2, <1>6
  <2>2. attempts[i].at \in Int
    BY <1>1, <2>1 DEF DedupeRecord
  <2>3. CASE j = n
    BY <1>1, <1>3, <1>6, <2>1, <2>2, <2>3 DEF Dedupe, RecordsCovered
  <2>4. CASE j # n
    BY <1>2, <1>6, <2>1, <2>4 DEF Dedupe, OncePerWindow
  <2> QED
    BY <2>3, <2>4
<1> QED
  BY <1>4, <1>5, <1>6 DEF Dedupe, RecordsCovered, OncePerWindow

(* The next of a batch that is not used up is an update. *)
LEMMA NextIsEvent ==
  ASSUME TypeInv, NEW a \in Adapters, HasNext(a)
  PROVE  ad[a].next \in Events
<1>1. /\ ad[a] \in Adapter /\ ad[a].pc = "dispatching" /\ ad[a].next <= ad[a].last
  BY DEF TypeInv, TypeOK, HasNext
<1>2. ad[a].next \in 0 .. MaxEvents + 1 /\ ad[a].last \in -1 .. MaxEvents
  BY <1>1 DEF Adapter
<1> QED
  BY <1>1, <1>2 DEF TypeInv, TypeOK, RecordHeld, Events

LEMMA DedupeNext == TypeInv /\ Dedupe /\ [Next]_vars => Dedupe'
<1> SUFFICES ASSUME TypeInv, Dedupe, [Next]_vars PROVE Dedupe'
  OBVIOUS
<1>1. ASSUME UNCHANGED <<now, expires, attempts>> PROVE Dedupe'
  BY <1>1 DEF Dedupe, RecordsCovered, OncePerWindow, Attempted
<1>2. CASE Tick
  <2>1. now' = now + 1 /\ UNCHANGED <<expires, attempts>>
    BY <1>2 DEF Tick, stored
  <2>2. now \in Int /\ \A i \in DOMAIN attempts : attempts[i] \in DedupeRecord
    BY DEF TypeInv, TypeOK
  <2>3. \A i \in DOMAIN attempts : attempts[i].at \in Int
    BY <2>2 DEF DedupeRecord
  <2> QED
    BY <2>1, <2>2, <2>3 DEF Dedupe, RecordsCovered, OncePerWindow, Attempted
<1>3. ASSUME NEW a \in Adapters, Reserve(a) PROVE Dedupe'
  <2>1. ad[a].next \in Events
    BY <1>3, NextIsEvent DEF Reserve
  <2>2. CASE active /\ ~Duplicate(a)
    <3>1. Record(a) /\ HasNext(a) /\ ad[a].next \notin Irrelevant /\ now' = now
      BY <1>3, <2>2 DEF Reserve
    <3> QED
      BY <2>1, <2>2, <3>1, RecordKept, NewRecord DEF Record
  <2>3. CASE ~(active /\ ~Duplicate(a))
    BY <1>1, <1>3, <2>3 DEF Reserve, Unrecorded
  <2> QED
    BY <2>2, <2>3
<1>4. ASSUME NEW a \in Adapters, ReserveUnanswered(a) PROVE Dedupe'
  <2>1. ad[a].next \in Events
    BY <1>4, NextIsEvent DEF ReserveUnanswered
  <2>2. now' = now /\ ~Duplicate(a) /\ expires' = [expires EXCEPT ![ad[a].next] = now + Window]
    BY <1>4 DEF ReserveUnanswered
  <2> QED
    BY <1>4, <2>1, <2>2, UnansweredKept, NewRecord
<1>5. ASSUME NEW a \in Adapters, NEW result \in {"run", "failed"},
             ad[a].pc = "creating", Attempt(a, result), UNCHANGED <<now, expires>>
      PROVE  Dedupe'
  <2>1. /\ DOMAIN attempts' = DOMAIN attempts
        /\ \A i \in DOMAIN attempts :
             attempts'[i].event = attempts[i].event /\ attempts'[i].at = attempts[i].at
    BY <1>5, ResultKept
  <2> QED
    BY <1>5, <2>1 DEF Dedupe, RecordsCovered, OncePerWindow, Attempted
<1>6. ASSUME NEW a \in Adapters, CreateRun(a) \/ CreateRaises(a) PROVE Dedupe'
  BY <1>5, <1>6 DEF CreateRun, CreateRaises
<1>7. ASSUME NEW a \in Adapters, Crash(a) PROVE Dedupe'
  BY <1>1, <1>5, <1>7 DEF Crash
<1>8. ASSUME NEW a \in Adapters,
             \/ Start(a) \/ StopAdapter(a) \/ Exit(a) \/ GetCursor(a) \/ GetUpdates(a)
             \/ PassOver(a) \/ AfterBackoff(a) \/ PollRaises(a)
             \/ SaveCursor(a) \/ SaveCursorUnanswered(a)
      PROVE  UNCHANGED <<now, expires, attempts>>
  BY <1>8 DEF Start, StopAdapter, Exit, GetCursor, GetUpdates, PassOver, AfterBackoff,
              PollRaises, SaveCursor, SaveCursorUnanswered, stored
<1>9. ASSUME Arrive \/ Pause \/ Resume \/ UNCHANGED vars
      PROVE  UNCHANGED <<now, expires, attempts>>
  BY <1>9 DEF Arrive, Pause, Resume, vars, stored
<1> QED
  BY <1>1, <1>2, <1>3, <1>4, <1>6, <1>7, <1>8, <1>9 DEF Next, Forward

(* OncePerWindow: a dedupe window never has two runs of one update. *)
THEOREM OncePerWindowAlways == Spec => []OncePerWindow
<1>1. Init => Dedupe
  BY DEF Init, Dedupe, RecordsCovered, OncePerWindow
<1>2. Spec => [](TypeInv /\ Dedupe)
  BY <1>1, TypeInvInit, TypeInvNext, DedupeNext, PTL DEF Spec
<1> QED
  BY <1>2, PTL DEF Dedupe

-----------------------------------------------------------------------------
(* Nothing is put behind before it is dispatched.  The invariant follows   *)
(* the offset through every place that keeps one.                          *)
Behind ==
  \A e \in Events :
    /\ e < confirmed \/ e < cursor => Handled(e)
    /\ \A a \in Adapters : e < ad[a].offset \/ e < ad[a].next => Handled(e)

LEMMA HandledStays ==
  ASSUME TypeInv, HistoryGrows, NEW e \in Events, Handled(e)
  PROVE  Handled(e)'
BY DEF HistoryGrows, Handled, Attempted

LEMMA BehindNext == TypeInv /\ Dedupe /\ Behind /\ [Next]_vars => Behind'
<1> SUFFICES ASSUME TypeInv, Dedupe, Behind, [Next]_vars PROVE Behind'
  OBVIOUS
<1>0. HistoryGrows
  BY HistoryStep
<1>a. ad \in [Adapters -> Adapter]
  BY DEF TypeInv, TypeOK
<1>b. \A e \in Events : Handled(e) => Handled(e)'
  BY <1>0, HandledStays
<1>1. ASSUME UNCHANGED <<confirmed, cursor, ad>> PROVE Behind'
  BY <1>b, <1>1 DEF Behind
<1>2. ASSUME NEW a \in Adapters,
             \/ Start(a) \/ StopAdapter(a) \/ Exit(a) \/ GetCursor(a) \/ GetUpdates(a)
             \/ PassOver(a) \/ AfterBackoff(a) \/ PollRaises(a) \/ Reserve(a)
             \/ ReserveUnanswered(a) \/ CreateRun(a) \/ CreateRaises(a)
             \/ SaveCursor(a) \/ SaveCursorUnanswered(a) \/ Crash(a)
      PROVE  Behind'
  <2> DEFINE Good(n) == \A e \in Events : e < n => Handled(e)'
  <2>0. ad[a] \in Adapter
    BY <1>a
  <2>a. Good(0) /\ Good(confirmed) /\ Good(cursor) /\ Good(ad[a].offset) /\ Good(ad[a].next)
    BY <1>b DEF Behind, Events
  <2>b. ASSUME NEW t, Becomes(a, t), Good(t.offset), Good(t.next), Good(confirmed'), Good(cursor')
        PROVE  Behind'
    <3>1. ad'[a] = t /\ \A b \in Adapters : b # a => ad'[b] = ad[b]
      BY <1>a, <2>b DEF Becomes
    <3>2. ASSUME NEW e \in Events, NEW b \in Adapters, e < ad'[b].offset \/ e < ad'[b].next
          PROVE  Handled(e)'
      <4>1. CASE b = a
        BY <2>b, <3>1, <3>2, <4>1
      <4>2. CASE b # a
        BY <1>b, <3>1, <3>2, <4>2 DEF Behind
      <4> QED
        BY <4>1, <4>2
    <3> QED
      BY <2>b, <3>2 DEF Behind
  <2>c. Good(NewAdapter.offset) /\ Good(NewAdapter.next)
    BY <2>a DEF NewAdapter
  <2>d. ASSUME NEW pc PROVE Good(Left(a, pc).offset) /\ Good(Left(a, pc).next)
    BY <2>a DEF Left
  <2>e. ASSUME ad[a].next <= ad[a].last, \A e \in Events : e = ad[a].next => Handled(e)'
        PROVE  Good(Passed(a).offset) /\ Good(Passed(a).next)
    <3>1. Passed(a).offset = ad[a].offset /\ Passed(a).next = ad[a].next + 1
      BY <2>0 DEF Passed, Adapter
    <3>2. ASSUME NEW e \in Events, e < ad[a].next + 1 PROVE Handled(e)'
      <4>1. e < ad[a].next \/ e = ad[a].next
        BY <2>0, <3>2 DEF Adapter, Events
      <4> QED
        BY <2>a, <2>e, <4>1
    <3> QED
      BY <2>a, <3>1, <3>2
  <2>1. CASE Start(a)
    <3> DEFINE t == [NewAdapter EXCEPT !.pc = "idle"]
    <3>1. t.offset = NewAdapter.offset /\ t.next = NewAdapter.next
      BY DEF NewAdapter
    <3> QED
      BY <2>1, <2>a, <2>b, <2>c, <3>1 DEF Start, platform, stored
  <2>2. CASE StopAdapter(a)
    <3> DEFINE t == [ad[a] EXCEPT !.stop = TRUE]
    <3>1. t.offset = ad[a].offset /\ t.next = ad[a].next
      BY <2>0 DEF Adapter
    <3>2. Becomes(a, t)
      BY <2>2 DEF StopAdapter
    <3> QED
      BY <2>2, <2>a, <2>b, <3>1, <3>2 DEF StopAdapter, platform, stored
  <2>3. CASE Exit(a)
    BY <2>3, <2>a, <2>b, <2>c DEF Exit, platform, stored
  <2>4. CASE GetCursor(a)
    <3> DEFINE m == IF cursor # 0 THEN cursor ELSE ad[a].offset
               t == [ad[a] EXCEPT !.pc = "polling", !.offset = m]
    <3>1. t.offset = m /\ t.next = ad[a].next
      BY <2>0 DEF Adapter
    <3>2. Becomes(a, t)
      BY <2>4 DEF GetCursor
    <3> QED
      BY <2>4, <2>a, <2>b, <3>1, <3>2 DEF GetCursor, platform, stored
  <2>5. CASE GetUpdates(a)
    <3> DEFINE first == Larger(confirmed, ad[a].offset)
    <3>1. PICK k, l : /\ k = first \/ k = ad[a].offset
                      /\ Becomes(a, [ad[a] EXCEPT !.pc = "dispatching", !.next = k, !.last = l])
      BY <2>5 DEF GetUpdates
    <3> DEFINE t == [ad[a] EXCEPT !.pc = "dispatching", !.next = k, !.last = l]
    <3>2. t.offset = ad[a].offset /\ t.next = k
      BY <2>0 DEF Adapter
    <3>3. Good(first) /\ Good(k)
      BY <2>a, <3>1 DEF Larger
    <3>4. confirmed' = first /\ cursor' = cursor
      BY <2>5 DEF GetUpdates, stored
    <3> QED
      BY <2>a, <2>b, <3>1, <3>2, <3>3, <3>4
  <2>6. CASE PassOver(a)
    <3>1. ad[a].next \in Irrelevant /\ Becomes(a, Passed(a)) /\ ad[a].next <= ad[a].last
          /\ UNCHANGED <<confirmed, cursor>>
      BY <2>6 DEF PassOver, HasNext, platform, stored
    <3>2. \A e \in Events : e = ad[a].next => Handled(e)'
      BY <1>b, <3>1 DEF Handled
    <3> QED
      BY <2>a, <2>b, <2>e, <3>1, <3>2
  <2>7. CASE AfterBackoff(a)
    BY <2>7, <2>a, <2>b, <2>d DEF AfterBackoff, platform, stored
  <2>8. CASE PollRaises(a)
    BY <2>8, <2>a, <2>b, <2>d DEF PollRaises, platform, stored
  <2>9. CASE Reserve(a)
    <3>0. /\ ad[a].next <= ad[a].last /\ ad[a].next \notin Irrelevant
          /\ UNCHANGED <<confirmed, cursor>>
      BY <2>9 DEF Reserve, HasNext, platform
    <3>1. CASE active /\ ~Duplicate(a)
      <4> DEFINE t == [ad[a] EXCEPT !.pc = "creating", !.attempt = Len(attempts) + 1]
      <4>1. Becomes(a, t)
        BY <2>9, <3>1 DEF Reserve
      <4>2. t.offset = ad[a].offset /\ t.next = ad[a].next
        BY <2>0 DEF Adapter
      <4> QED
        BY <2>a, <2>b, <3>0, <4>1, <4>2
    <3>2. CASE ~(active /\ ~Duplicate(a))
      <4>1. Unrecorded(a) /\ Becomes(a, Passed(a))
        BY <2>9, <3>2 DEF Reserve, Unrecorded
      <4>2. ASSUME NEW e \in Events, e = ad[a].next PROVE Handled(e)'
        <5>1. CASE ~active
          BY <4>1, <4>2, <5>1 DEF Unrecorded, Handled
        <5>2. CASE Duplicate(a)
          <6>1. expires[e] > 0
            BY <4>2, <5>2 DEF Duplicate, TypeInv, TypeOK
          <6>2. Handled(e)
            BY <4>2, <6>1 DEF Dedupe, RecordsCovered, Handled
          <6> QED
            BY <1>b, <4>2, <6>2
        <5> QED
          BY <3>2, <5>1, <5>2
      <4> QED
        BY <2>a, <2>b, <2>e, <3>0, <4>1, <4>2
    <3> QED
      BY <3>1, <3>2
  <2>10. CASE ReserveUnanswered(a)
    BY <2>10, <2>a, <2>b, <2>d DEF ReserveUnanswered, platform
  <2>11. CASE CreateRun(a)
    <3>1. /\ ad[a].next <= ad[a].last /\ ad[a].attempt \in DOMAIN attempts
          /\ attempts[ad[a].attempt].event = ad[a].next
      BY <2>11 DEF CreateRun, TypeInv, RecordHeld
    <3>2. \A e \in Events : e = ad[a].next => Handled(e)'
      BY <1>b, <3>1 DEF Handled, Attempted
    <3> QED
      BY <2>11, <2>a, <2>b, <2>e, <3>1, <3>2 DEF CreateRun, platform
  <2>12. CASE CreateRaises(a)
    BY <2>12, <2>a, <2>b, <2>d DEF CreateRaises, platform
  <2>13. CASE SaveCursor(a)
    <3> DEFINE t == [Left(a, "idle") EXCEPT !.offset = ad[a].next]
    <3>1. t.offset = ad[a].next /\ t.next = 0
      BY DEF Left
    <3>2. cursor' = cursor \/ cursor' = ad[a].next
      BY <2>13 DEF SaveCursor
    <3>3. Becomes(a, t) /\ confirmed' = confirmed
      BY <2>13 DEF SaveCursor, platform
    <3> QED
      BY <2>a, <2>b, <3>1, <3>2, <3>3
  <2>14. CASE SaveCursorUnanswered(a)
    BY <2>14, <2>a, <2>b, <2>d DEF SaveCursorUnanswered, platform
  <2>15. CASE Crash(a)
    BY <2>15, <2>a, <2>b, <2>c DEF Crash, platform
  <2> QED
    BY <1>2, <2>1, <2>2, <2>3, <2>4, <2>5, <2>6, <2>7, <2>8, <2>9, <2>10, <2>11, <2>12, <2>13, <2>14, <2>15
<1>3. ASSUME Arrive \/ Tick \/ Pause \/ Resume \/ UNCHANGED vars
      PROVE  UNCHANGED <<confirmed, cursor, ad>>
  BY <1>3 DEF Arrive, Tick, Pause, Resume, vars, platform, stored
<1> QED
  BY <1>1, <1>2, <1>3 DEF Next, Forward

(* DropsOnlyHandled: neither the stored cursor nor the platform leaves an  *)
(* update behind that was not dispatched.                                  *)
THEOREM DropsOnlyHandledAlways == Spec => []DropsOnlyHandled
<1>1. Init => Dedupe /\ Behind
  BY DEF Init, Dedupe, RecordsCovered, OncePerWindow, Behind, NewAdapter, Events
<1>2. Behind => DropsOnlyHandled
  BY DEF Behind, DropsOnlyHandled
<1>3. Spec => [](TypeInv /\ Dedupe /\ Behind)
  BY <1>1, TypeInvInit, TypeInvNext, DedupeNext, BehindNext, PTL DEF Spec
<1> QED
  BY <1>2, <1>3, PTL
=============================================================================
