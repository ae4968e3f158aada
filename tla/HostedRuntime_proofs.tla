------------------------ MODULE HostedRuntime_proofs ------------------------
(***************************************************************************)
(* Theorems about the hosted apps, for any number of requests, keys,       *)
(* handles and releases, any limit and any timeout: types, a run of its    *)
(* own for every key, the concurrency limit, leases that follow the runs,  *)
(* results that stay, and (from HostedApps_proofs) releases that grant     *)
(* what was reviewed.                                                      *)
(***************************************************************************)
EXTENDS HostedRuntime, HostedApps_proofs, FiniteSetTheorems

-----------------------------------------------------------------------------
(* The control plane's part of a step.                                     *)

LEMMA ControlSteps ==
  ASSUME [Next]_vars
  PROVE  \/ ControlNext
         \/ DropRequests
         \/ Begin /\ UNCHANGED <<rowVars, requestVars, switchVars>>
         \/ UNCHANGED controlVars
BY DEF Next, vars, Invoke, Resolve, Lookup, Count, Accept, Schedule, Poll, Execute, Finish,
       TaskDies, Tick, Restart

LEMMA ControlInvariants ==
  ASSUME ControlTypeOK, ReviewInv, MadeInv, [Next]_vars
  PROVE  ControlTypeOK' /\ ReviewInv' /\ MadeInv' /\ Immutable
BY ControlSteps, ControlTypes, OtherTypes, ControlReview, OtherReview, ControlMade, OtherMade

-----------------------------------------------------------------------------
(* Types.  The handle of an accepted call is one of the handles.           *)

RuntimeTypeOK ==
  /\ run \in [Handles -> Run]
  /\ call \in [Calls -> Call]
  /\ tasks \subseteq Handles
  /\ faults \in Nat
  /\ \A c \in Calls : call[c].step = "accepted" => call[c].handle \in Handles

LEMMA NoneTypes == NoRun \in Run /\ NoCall \in Call
<1>1. AnyKey \in Keys
  BY RuntimeAssumption DEF AnyKey
<1> QED BY <1>1, RuntimeAssumption DEF NoRun, NoCall, Run, Call, Status

LEMMA RuntimeInit == ASSUME Init PROVE RuntimeTypeOK
BY NoneTypes DEF Init, RuntimeTypeOK, NoCall

(* What one tick makes of a run.                                           *)
Later(r) == [status |-> r.status, release |-> r.release, generation |-> r.generation,
             key |-> r.key, left |-> Down(r.left), ttl |-> Down(r.ttl),
             leased |-> r.leased, started |-> r.started]

LEMMA TickLater ==
  ASSUME RuntimeTypeOK, Tick
  PROVE  \A h \in Handles : run'[h] = Later(run[h]) /\ Later(run[h]) \in Run
<1> SUFFICES ASSUME NEW h \in Handles
             PROVE  run'[h] = Later(run[h]) /\ Later(run[h]) \in Run
  OBVIOUS
<1>1. run[h] \in Run
  BY DEF RuntimeTypeOK
<1> DEFINE left == [run[h] EXCEPT !.left = Down(@)]
<1>2. left = [status |-> run[h].status, release |-> run[h].release,
              generation |-> run[h].generation, key |-> run[h].key,
              left |-> Down(run[h].left), ttl |-> run[h].ttl, leased |-> run[h].leased,
              started |-> run[h].started]
  BY <1>1 DEF Run
<1>3. run'[h] = [left EXCEPT !.ttl = Down(@)]
  BY <1>1 DEF Tick, Run
<1> HIDE DEF left
<1>4. run'[h] = Later(run[h])
  BY <1>2, <1>3 DEF Later
<1>5. Down(run[h].left) \in 0 .. Timeout /\ Down(run[h].ttl) \in 0 .. Ttl
  BY <1>1, RuntimeAssumption DEF Down, Run
<1> QED BY <1>1, <1>4, <1>5 DEF Later, Run

(* Settling a run.                                                         *)
LEMMA SettledRun ==
  ASSUME NEW r \in Run, NEW status \in {"completed", "failed"}
  PROVE  Settled(r, status) =
           [status |-> status, release |-> r.release, generation |-> r.generation,
            key |-> r.key, left |-> r.left, ttl |-> r.ttl, leased |-> FALSE,
            started |-> r.started]
<1> DEFINE told == [r EXCEPT !.status = status]
<1>1. told = [status |-> status, release |-> r.release, generation |-> r.generation,
              key |-> r.key, left |-> r.left, ttl |-> r.ttl, leased |-> r.leased,
              started |-> r.started]
  BY DEF Run
<1>2. Settled(r, status) = [told EXCEPT !.leased = FALSE]
  BY <1>1 DEF Settled
<1> HIDE DEF told
<1> QED BY <1>1, <1>2

LEMMA SettledType ==
  ASSUME NEW r \in Run, NEW status \in {"completed", "failed"}
  PROVE  Settled(r, status) \in Run
<1> DEFINE settled == [status |-> status, release |-> r.release, generation |-> r.generation,
                       key |-> r.key, left |-> r.left, ttl |-> r.ttl, leased |-> FALSE,
                       started |-> r.started]
<1>1. settled \in Run
  BY DEF Run, Status
<1> HIDE DEF settled
<1>2. Settled(r, status) = settled
  BY SettledRun DEF settled
<1> QED BY <1>1, <1>2

(* The end of a task, and a poll, settle one run or none; a settled run is *)
(* not among them.                                                         *)
Settles(h) ==
  /\ run[h].status = "accepted"
  /\ \E status \in {"completed", "failed"} :
       run' = [run EXCEPT ![h] = Settled(run[h], status)]

LEMMA FinishSettles ==
  ASSUME RuntimeTypeOK, NEW h \in Handles, NEW ok \in BOOLEAN, Finish(h, ok)
  PROVE  UNCHANGED run \/ Settles(h)
<1>1. run \in [Handles -> Run]
  BY DEF RuntimeTypeOK
<1>2. run' = [run EXCEPT ![h] = Completed(run[h], ok)]
  BY <1>1 DEF Finish
<1>3. \/ Completed(run[h], ok) = run[h]
      \/ run[h].status = "accepted"
         /\ \E status \in {"completed", "failed"} :
              Completed(run[h], ok) = Settled(run[h], status)
  <2>1. CASE run[h].status # "accepted"
    BY <2>1 DEF Completed
  <2>2. CASE run[h].status = "accepted"
    <3> DEFINE result == IF ok /\ run[h].left > 0 THEN "completed" ELSE "failed"
    <3>1. result \in {"completed", "failed"}
      OBVIOUS
    <3>2. Completed(run[h], ok) = Settled(run[h], result)
      BY <2>2, Zenon DEF Completed
    <3> HIDE DEF result
    <3> QED BY <2>2, <3>1, <3>2
  <2> QED BY <2>1, <2>2
<1> QED BY <1>1, <1>2, <1>3 DEF Settles

LEMMA PollSettles ==
  ASSUME RuntimeTypeOK, NEW c \in Calls, NEW h \in Handles, Poll(c, h)
  PROVE  UNCHANGED run \/ Settles(h)
BY DEF Poll, Settles, RuntimeTypeOK

(* How a step changes the calls and the runs.                              *)
RunSteps ==
  \/ UNCHANGED <<run, call>>
  \/ \E c \in Calls : Resolve(c) \/ (\E k \in Keys : Lookup(c, k)) \/ Count(c)
                      \/ Accept(c) \/ Schedule(c)
  \/ \E c \in Calls : Answer(c) /\ UNCHANGED run
  \/ \E c \in Calls, h \in Handles : Answer(c) /\ Settles(h)
  \/ \E h \in Handles : Settles(h) /\ UNCHANGED call
  \/ Tick
  \/ UNCHANGED run /\ call' = [c \in Calls |-> NoCall]

LEMMA StepsOfRuns == ASSUME RuntimeTypeOK, [Next]_vars PROVE RunSteps
<1>1. ASSUME NEW c \in Calls, Invoke(c) PROVE RunSteps
  <2>1. ASSUME NEW h \in Handles, Poll(c, h) PROVE RunSteps
    <3>1. Answer(c)
      BY <2>1 DEF Poll
    <3> QED BY <2>1, <3>1, PollSettles DEF RunSteps
  <2> QED BY <1>1, <2>1 DEF Invoke, RunSteps
<1>2. ASSUME NEW h \in Handles, Execute(h) PROVE RunSteps
  <2>1. ASSUME NEW ok \in BOOLEAN, Finish(h, ok) PROVE RunSteps
    <3>1. UNCHANGED call
      BY <2>1 DEF Finish
    <3> QED BY <2>1, <3>1, FinishSettles DEF RunSteps
  <2>2. CASE TaskDies(h)
    BY <2>2 DEF TaskDies, RunSteps
  <2> QED BY <1>2, <2>1, <2>2 DEF Execute
<1>3. CASE UNCHANGED runtimeVars \/ UNCHANGED vars
  BY <1>3 DEF runtimeVars, vars, RunSteps
<1>4. CASE Restart
  BY <1>4 DEF Restart, RunSteps
<1>5. CASE Tick
  BY <1>5 DEF RunSteps
<1> QED BY <1>1, <1>2, <1>3, <1>4, <1>5 DEF Next

LEMMA CallTypes ==
  ASSUME ControlTypeOK, RuntimeTypeOK, [Next]_vars
  PROVE  /\ call' \in [Calls -> Call]
         /\ \A c \in Calls : call'[c].step = "accepted" => call'[c].handle \in Handles
<1> DEFINE Typed == /\ call' \in [Calls -> Call]
                    /\ \A c \in Calls : call'[c].step = "accepted"
                                          => call'[c].handle \in Handles
<1> USE DEF RuntimeTypeOK
<1>1. ASSUME NEW c \in Calls, NEW state \in Call, Become(c, state),
             state.step = "accepted" => state.handle \in Handles
      PROVE  Typed
  BY <1>1 DEF Become
<1>2. ASSUME NEW c \in Calls, Answer(c) PROVE Typed
  BY <1>1, <1>2, NoneTypes DEF Answer, NoCall
<1>3. ASSUME NEW c \in Calls, Resolve(c) PROVE Typed
  <2>1. [step |-> "resolved", release |-> app.active, generation |-> runtime.generation,
         key |-> AnyKey, handle |-> NoHandle] \in Call
    BY NoneTypes DEF Call, NoCall, ControlTypeOK, App
  <2> QED BY <1>1, <1>3, <2>1 DEF Resolve
<1>4. ASSUME NEW c \in Calls, NEW k \in Keys, Lookup(c, k) PROVE Typed
  <2> DEFINE scope == [call[c] EXCEPT !.key = k]
  <2>1. [scope EXCEPT !.step = "locked"] \in Call
    <3>1. scope \in Call
      BY DEF Call
    <3> QED BY <3>1 DEF Call
  <2>2. [scope EXCEPT !.step = "locked"].step = "locked"
    <3>1. scope \in Call
      BY DEF Call
    <3> QED BY <3>1 DEF Call
  <2>3. Answer(c) \/ Become(c, [scope EXCEPT !.step = "locked"])
    BY <1>4 DEF Lookup
  <2> HIDE DEF scope
  <2> QED BY <1>1, <1>2, <2>1, <2>2, <2>3
<1>5. ASSUME NEW c \in Calls, Count(c) PROVE Typed
  <2>1. [call[c] EXCEPT !.step = "counted"] \in Call
        /\ [call[c] EXCEPT !.step = "counted"].step = "counted"
    BY DEF Call
  <2> QED BY <1>1, <1>2, <1>5, <2>1 DEF Count
<1>6. ASSUME NEW c \in Calls, Accept(c) PROVE Typed
  <2>1. PICK h \in Handles : Become(c, [call[c] EXCEPT !.step = "accepted", !.handle = h])
    BY <1>6 DEF Accept
  <2> DEFINE accepted == [call[c] EXCEPT !.step = "accepted"]
  <2>2. accepted \in Call
    BY DEF Call
  <2>3. [call[c] EXCEPT !.step = "accepted", !.handle = h] = [accepted EXCEPT !.handle = h]
    BY DEF Call
  <2> HIDE DEF accepted
  <2>4. [accepted EXCEPT !.handle = h] \in Call /\ [accepted EXCEPT !.handle = h].handle = h
    BY <2>2 DEF Call
  <2> QED BY <1>1, <2>1, <2>3, <2>4
<1>7. ASSUME NEW c \in Calls, Schedule(c) PROVE Typed
  BY <1>2, <1>7 DEF Schedule
<1>8. ASSUME UNCHANGED call PROVE Typed
  BY <1>8
<1>9. ASSUME call' = [c \in Calls |-> NoCall] PROVE Typed
  BY <1>9, NoneTypes DEF NoCall
<1>10. Tick => UNCHANGED call
  BY DEF Tick
<1> HIDE DEF Typed
<1>11. ASSUME NEW c \in Calls,
             Resolve(c) \/ (\E k \in Keys : Lookup(c, k)) \/ Count(c) \/ Accept(c)
               \/ Schedule(c) \/ Answer(c)
       PROVE Typed
  BY <1>2, <1>3, <1>4, <1>5, <1>6, <1>7, <1>11
<1>12. RunSteps
  BY StepsOfRuns
<1>13. Typed
  BY <1>8, <1>9, <1>10, <1>11, <1>12 DEF RunSteps
<1> QED BY <1>13 DEF Typed

LEMMA RunTypes ==
  ASSUME ControlTypeOK, RuntimeTypeOK, [Next]_vars PROVE run' \in [Handles -> Run]
<1> USE DEF RuntimeTypeOK
<1>1. ASSUME NEW h \in Handles, Settles(h) PROVE run' \in [Handles -> Run]
  BY <1>1, SettledType DEF Settles
<1>2. ASSUME NEW c \in Calls, Accept(c) PROVE run' \in [Handles -> Run]
  <2>1. NewRun(c) \in Run
    BY RuntimeAssumption DEF NewRun, Run, Call, Status
  <2>2. PICK h \in Handles : run' = [g \in Handles |->
            IF g = h THEN NewRun(c)
            ELSE IF run[g].left = 0 /\ SameBinding(run[g].release, call[c].release)
                 THEN [run[g] EXCEPT !.leased = FALSE]
            ELSE run[g]]
    BY <1>2 DEF Accept
  <2>3. \A g \in Handles : [run[g] EXCEPT !.leased = FALSE] \in Run
    <3>1. \A old \in Run : [old EXCEPT !.leased = FALSE] \in Run
      BY ONLY TRUE DEF Run
    <3> QED BY <3>1
  <2> QED BY <2>1, <2>2, <2>3
<1>3. ASSUME NEW c \in Calls, Schedule(c) PROVE run' \in [Handles -> Run]
  <2> DEFINE h == call[c].handle
             begun1 == [run[h] EXCEPT !.started = @ + 1]
  <2>1. h \in Handles /\ run' = [run EXCEPT ![h] = begun1]
    BY <1>3 DEF Schedule
  <2>2. begun1 \in Run
    BY <2>1 DEF Run
  <2> HIDE DEF begun1, h
  <2> QED BY <2>1, <2>2
<1>4. CASE Tick
  <2>1. run' \in [Handles -> Run]
    BY <1>4, TickLater DEF Tick
  <2> QED BY <2>1
<1> QED BY <1>1, <1>2, <1>3, <1>4, StepsOfRuns DEF RunSteps, Resolve, Lookup, Count

LEMMA RuntimeTypes ==
  ASSUME ControlTypeOK, RuntimeTypeOK, [Next]_vars PROVE RuntimeTypeOK'
<1>1. tasks' \subseteq Handles /\ faults' \in Nat
  <2> USE DEF RuntimeTypeOK
  <2>1. ASSUME NEW c \in Calls, Invoke(c) PROVE tasks' \subseteq Handles /\ faults' \in Nat
    <3>1. CASE Schedule(c)
      BY <3>1 DEF Schedule
    <3>2. CASE ~Schedule(c)
      <4>1. UNCHANGED <<tasks, faults>>
        BY <2>1, <3>2 DEF Invoke, Resolve, Lookup, Count, Accept, Poll
      <4> QED BY <4>1
    <3> QED BY <3>1, <3>2
  <2>2. ASSUME NEW h \in Handles, Execute(h)
        PROVE  tasks' \subseteq Handles /\ faults' \in Nat
    <3>1. tasks' = tasks \ {h} /\ (faults' = faults \/ faults' = faults + 1)
      BY <2>2 DEF Execute, Finish, TaskDies
    <3> QED BY <3>1
  <2>3. CASE Restart
    BY <2>3 DEF Restart
  <2>4. CASE Tick \/ UNCHANGED runtimeVars \/ UNCHANGED vars
    <3>1. UNCHANGED <<tasks, faults>>
      BY <2>4 DEF Tick, runtimeVars, vars
    <3> QED BY <3>1
  <2> QED BY <2>1, <2>2, <2>3, <2>4 DEF Next
<1> QED BY <1>1, RunTypes, CallTypes DEF RuntimeTypeOK

-----------------------------------------------------------------------------
(* What a step does to the runs and the calls.  All but four are calm:     *)
(* they begin no acceptance and no execution.                              *)
InScope(c)  == call[c].step \in {"locked", "counted"}
Others(c)   == \A d \in Calls : d # c => call'[d] = call[d]

(* A run that is not the step's own; its lease may end.                    *)
Keeps(h) ==
  /\ run'[h].release = run[h].release /\ run'[h].key = run[h].key
  /\ run'[h].started = run[h].started
  /\ run'[h].ttl > 0 => run[h].ttl > 0
  /\ run'[h].status = "none" <=> run[h].status = "none"
  /\ run[h].status \in {"completed", "failed"} => run'[h].status = run[h].status
  /\ Live(h)' => Live(h)
  /\ (Live(h) <=> Unsettled(h)) => (Live(h)' <=> Unsettled(h)')

Calm ==
  /\ \A h \in Handles : Keeps(h)
  /\ \A c \in Calls : \/ call'[c] = call[c]
                      \/ call'[c] = NoCall
                      \/ call'[c].step = "resolved" /\ call'[c].release = app.active
                         /\ app.active # NoRelease

(* Lookup, Count, Accept and Schedule, when they go on.                    *)
Locks(c) ==
  /\ UNCHANGED run /\ Others(c)
  /\ call[c].step = "resolved" /\ call'[c].step = "locked"
  /\ call'[c].release = call[c].release
  /\ \A h \in Handles : run[h].ttl > 0 => ~SameScope(run[h], call'[c])
  /\ \A d \in Calls : InScope(d) => ~SameScope(call[d], call'[c])

Counts(c) ==
  /\ UNCHANGED run /\ Others(c)
  /\ call[c].step = "locked" /\ call'[c].step = "counted"
  /\ call'[c].release = call[c].release /\ call'[c].key = call[c].key
  /\ LimitFree(call[c].release)
  /\ ~(Cardinality(Leases(call[c].release)) >= Limit)

Accepts(c) ==
  /\ Others(c)
  /\ call[c].step = "counted" /\ call'[c].step = "accepted"
  /\ call'[c].release = call[c].release
  /\ call'[c].handle \in Handles
  /\ run[call'[c].handle] = NoRun /\ run'[call'[c].handle] = NewRun(c)
  /\ \A h \in Handles : h # call'[c].handle => Keeps(h)

Starts(c) ==
  /\ Others(c)
  /\ call[c].step = "accepted" /\ call[c].handle \in Handles
  /\ call'[c] = NoCall
  /\ run'[call[c].handle] = [run[call[c].handle] EXCEPT !.started = @ + 1]
  /\ \A h \in Handles : h # call[c].handle => run'[h] = run[h]

LEMMA SameKeeps == ASSUME NEW h \in Handles, run'[h] = run[h] PROVE Keeps(h)
BY DEF Keeps, Live, Unsettled

LEMMA SettlesKeep ==
  ASSUME RuntimeTypeOK, NEW h \in Handles, Settles(h)
  PROVE  \A g \in Handles : Keeps(g)
<1>1. PICK status \in {"completed", "failed"} :
        run' = [run EXCEPT ![h] = Settled(run[h], status)]
  BY DEF Settles
<1>2. \A g \in Handles : g # h => run'[g] = run[g]
  BY <1>1 DEF RuntimeTypeOK
<1>3. run'[h] = [status |-> status, release |-> run[h].release,
                 generation |-> run[h].generation, key |-> run[h].key,
                 left |-> run[h].left, ttl |-> run[h].ttl, leased |-> FALSE,
                 started |-> run[h].started]
  BY <1>1, SettledRun DEF RuntimeTypeOK
<1>4. Keeps(h)
  BY <1>3 DEF Settles, Keeps, Live, Unsettled
<1> QED BY <1>2, <1>4, SameKeeps

LEMMA TickKeeps == ASSUME RuntimeTypeOK, Tick PROVE \A g \in Handles : Keeps(g)
<1> SUFFICES ASSUME NEW h \in Handles PROVE Keeps(h)
  OBVIOUS
<1>1. run'[h] = Later(run[h])
  BY TickLater
<1>2. run[h].left \in Nat /\ run[h].ttl \in Nat
  BY RuntimeAssumption DEF RuntimeTypeOK, Run
<1>3. /\ Down(run[h].left) > 0 => run[h].left > 0
      /\ Down(run[h].ttl) > 0 => run[h].ttl > 0
  BY <1>2 DEF Down
<1> QED BY <1>1, <1>2, <1>3 DEF Keeps, Live, Unsettled, Later

LEMMA AcceptAccepts == ASSUME RuntimeTypeOK, NEW c \in Calls, Accept(c) PROVE Accepts(c)
<1>1. PICK h \in Handles :
       /\ run[h] = NoRun
       /\ run' = [g \in Handles |->
            IF g = h THEN NewRun(c)
            ELSE IF run[g].left = 0 /\ SameBinding(run[g].release, call[c].release)
                 THEN [run[g] EXCEPT !.leased = FALSE]
            ELSE run[g]]
       /\ Become(c, [call[c] EXCEPT !.step = "accepted", !.handle = h])
  BY DEF Accept
<1>2. ASSUME NEW g \in Handles, g # h PROVE Keeps(g)
  <2>1. CASE run[g].left = 0 /\ SameBinding(run[g].release, call[c].release)
    <3>1. run'[g] = [run[g] EXCEPT !.leased = FALSE]
      BY <1>1, <1>2, <2>1
    <3>2. run[g] \in Run
      BY DEF RuntimeTypeOK
    <3> QED BY <2>1, <3>1, <3>2 DEF Keeps, Live, Unsettled, Run
  <2>2. CASE run'[g] = run[g]
    BY <2>2, SameKeeps
  <2> QED BY <1>1, <1>2, <2>1, <2>2
<1> DEFINE step == [call[c] EXCEPT !.step = "accepted"]
<1>3. step.step = "accepted" /\ step.release = call[c].release /\ step \in Call
  BY DEF RuntimeTypeOK, Call
<1>4. call' = [call EXCEPT ![c] = [step EXCEPT !.handle = h]]
  BY <1>1 DEF Become, RuntimeTypeOK, Call
<1> HIDE DEF step
<1>5. /\ call'[c].step = "accepted" /\ call'[c].release = call[c].release
      /\ call'[c].handle = h
      /\ Others(c)
  BY <1>3, <1>4 DEF Others, RuntimeTypeOK, Call
<1> QED BY <1>1, <1>2, <1>5 DEF Accept, Accepts

LEMMA LookupLocks ==
  ASSUME RuntimeTypeOK, NEW c \in Calls, NEW k \in Keys, Lookup(c, k)
  PROVE  Locks(c) \/ (Answer(c) /\ UNCHANGED run)
<1> DEFINE scope == [call[c] EXCEPT !.key = k]
<1>1. /\ call[c].step = "resolved" /\ ScopeFree(scope) /\ UNCHANGED run
      /\ \/ Answer(c)
         \/ /\ \A h \in Handles : run[h].ttl > 0 => ~SameScope(run[h], scope)
            /\ Become(c, [scope EXCEPT !.step = "locked"])
  BY DEF Lookup
<1>2. scope.release = call[c].release /\ scope \in Call
  BY DEF RuntimeTypeOK, Call
<1> HIDE DEF scope
<1>3. CASE /\ \A h \in Handles : run[h].ttl > 0 => ~SameScope(run[h], scope)
           /\ Become(c, [scope EXCEPT !.step = "locked"])
  <2>1. /\ call'[c].step = "locked" /\ call'[c].release = call[c].release
        /\ call'[c].key = scope.key /\ call'[c].release = scope.release
        /\ Others(c)
    BY <1>2, <1>3 DEF Become, Others, RuntimeTypeOK, Call
  <2> QED BY <1>1, <1>3, <2>1 DEF Locks, ScopeFree, SameScope, InScope
<1> QED BY <1>1, <1>3

LEMMA KindsOfStep ==
  ASSUME RuntimeTypeOK, [Next]_vars
  PROVE  Calm \/ \E c \in Calls : Locks(c) \/ Counts(c) \/ Accepts(c) \/ Starts(c)
<1> DEFINE Kinds == Calm \/ \E c \in Calls : Locks(c) \/ Counts(c) \/ Accepts(c) \/ Starts(c)
<1>1. ASSUME NEW c \in Calls, Answer(c), \A h \in Handles : Keeps(h) PROVE Kinds
  BY <1>1 DEF Answer, Become, Calm, RuntimeTypeOK
<1>2. ASSUME UNCHANGED run PROVE \A h \in Handles : Keeps(h)
  BY <1>2, SameKeeps
<1>3. ASSUME NEW c \in Calls, Resolve(c) PROVE Kinds
  <2>1. UNCHANGED run /\ app.active # NoRelease
    BY <1>3 DEF Resolve, Resolvable, Published
  <2> QED BY <1>2, <1>3, <2>1 DEF Resolve, Become, Calm, RuntimeTypeOK
<1>4. ASSUME NEW c \in Calls, NEW k \in Keys, Lookup(c, k) PROVE Kinds
  BY <1>1, <1>2, <1>4, LookupLocks
<1>5. ASSUME NEW c \in Calls, Count(c) PROVE Kinds
  <2>1. UNCHANGED run /\ call[c].step = "locked" /\ LimitFree(call[c].release)
    BY <1>5 DEF Count
  <2>2. CASE Answer(c)
    BY <1>1, <1>2, <2>1, <2>2
  <2>3. CASE ~(Cardinality(Leases(call[c].release)) >= Limit)
             /\ Become(c, [call[c] EXCEPT !.step = "counted"])
    <3>1. /\ call'[c].step = "counted" /\ call'[c].release = call[c].release
          /\ call'[c].key = call[c].key /\ Others(c)
      BY <2>3 DEF Become, Others, RuntimeTypeOK, Call
    <3> QED BY <2>1, <2>3, <3>1 DEF Counts
  <2> QED BY <1>5, <2>2, <2>3 DEF Count
<1>6. ASSUME NEW c \in Calls, Schedule(c) PROVE Kinds
  <2>1. Starts(c)
    BY <1>6 DEF Schedule, Answer, Become, Others, Starts, RuntimeTypeOK
  <2> QED BY <2>1
<1>7. ASSUME NEW c \in Calls, NEW h \in Handles, Answer(c), Settles(h) PROVE Kinds
  BY <1>1, <1>7, SettlesKeep
<1>8. ASSUME UNCHANGED call, \A h \in Handles : Keeps(h) PROVE Kinds
  BY <1>8 DEF Calm
<1>9. ASSUME call' = [c \in Calls |-> NoCall], UNCHANGED run PROVE Kinds
  BY <1>2, <1>9 DEF Calm
<1>10. ASSUME Tick PROVE Kinds
  <2>1. UNCHANGED call
    BY <1>10 DEF Tick
  <2> QED BY <1>8, <1>10, <2>1, TickKeeps
<1>11. ASSUME NEW c \in Calls, Accept(c) PROVE Kinds
  BY <1>11, AcceptAccepts
<1>12. RunSteps
  BY StepsOfRuns
<1>13. ASSUME NEW h \in Handles, Settles(h), UNCHANGED call PROVE Kinds
  BY <1>8, <1>13, SettlesKeep
<1>14. ASSUME UNCHANGED <<run, call>> PROVE Kinds
  BY <1>2, <1>8, <1>14
<1> HIDE DEF Kinds
<1>15. Kinds
  <2>1. CASE \E c \in Calls : Resolve(c) \/ (\E k \in Keys : Lookup(c, k)) \/ Count(c)
                            \/ Accept(c) \/ Schedule(c)
    BY <1>3, <1>4, <1>5, <1>6, <1>11, <2>1
  <2>2. CASE \E c \in Calls : Answer(c) /\ UNCHANGED run
    BY <1>1, <1>2, <2>2
  <2>3. CASE \E c \in Calls, h \in Handles : Answer(c) /\ Settles(h)
    BY <1>7, <2>3
  <2>4. CASE \E h \in Handles : Settles(h) /\ UNCHANGED call
    BY <1>13, <2>4
  <2> QED BY <1>9, <1>10, <1>12, <1>14, <2>1, <2>2, <2>3, <2>4 DEF RunSteps
<1> QED BY <1>15 DEF Kinds

-----------------------------------------------------------------------------
(* One run for a key: neither is there an unexpired run in the scope of an *)
(* acceptance, nor another acceptance in it.                               *)
KeyInv ==
  /\ \A g, h \in Handles :
       g # h /\ run[g].ttl > 0 /\ run[h].ttl > 0 => ~SameScope(run[g], run[h])
  /\ \A c \in Calls, h \in Handles :
       InScope(c) /\ run[h].ttl > 0 => ~SameScope(run[h], call[c])
  /\ \A c, d \in Calls : c # d /\ InScope(c) /\ InScope(d) => ~SameScope(call[c], call[d])

LEMMA KeyStep == ASSUME RuntimeTypeOK, [Next]_vars, KeyInv PROVE KeyInv'
<1>1. CASE Calm
  <2>1. \A h \in Handles : /\ run'[h].release = run[h].release /\ run'[h].key = run[h].key
                           /\ run'[h].ttl > 0 => run[h].ttl > 0
    BY <1>1 DEF Calm, Keeps
  <2>2. \A c \in Calls : InScope(c)' => InScope(c) /\ call'[c] = call[c]
    BY <1>1 DEF Calm, InScope, NoCall
  <2> QED BY <2>1, <2>2 DEF KeyInv, SameScope
<1>2. ASSUME NEW c \in Calls, Locks(c) PROVE KeyInv'
  <2>1. /\ \A h \in Handles : run[h].ttl > 0 => ~SameScope(run[h], call'[c])
        /\ \A d \in Calls : InScope(d) => ~SameScope(call[d], call'[c])
        /\ \A d \in Calls : d # c => call'[d] = call[d]
        /\ UNCHANGED run
    BY <1>2 DEF Locks, Others
  <2>2. \A d \in Calls : d # c => (InScope(d)' <=> InScope(d))
    BY <2>1 DEF InScope
  <2> QED BY <2>1, <2>2 DEF KeyInv, SameScope
<1>3. ASSUME NEW c \in Calls, Counts(c) PROVE KeyInv'
  <2>1. /\ UNCHANGED run
        /\ \A d \in Calls : /\ InScope(d)' => InScope(d)
                            /\ call'[d].release = call[d].release
                            /\ call'[d].key = call[d].key
    BY <1>3 DEF Counts, Others, InScope
  <2> QED BY <2>1 DEF KeyInv, SameScope
<1>4. ASSUME NEW c \in Calls, Accepts(c) PROVE KeyInv'
  <2> DEFINE h == call'[c].handle
  <2>1. /\ InScope(c) /\ ~InScope(c)'
        /\ \A d \in Calls : d # c => call'[d] = call[d] /\ (InScope(d)' <=> InScope(d))
    BY <1>4 DEF Accepts, Others, InScope
  <2>2. /\ h \in Handles
        /\ run'[h].release = call[c].release /\ run'[h].key = call[c].key
        /\ \A g \in Handles : g # h =>
             /\ run'[g].release = run[g].release /\ run'[g].key = run[g].key
             /\ run'[g].ttl > 0 => run[g].ttl > 0
    BY <1>4 DEF Accepts, NewRun, Keeps
  <2> HIDE DEF h
  <2> QED BY <2>1, <2>2 DEF KeyInv, SameScope
<1>5. ASSUME NEW c \in Calls, Starts(c) PROVE KeyInv'
  <2>1. \A h \in Handles : /\ run'[h].release = run[h].release /\ run'[h].key = run[h].key
                           /\ run'[h].ttl > 0 => run[h].ttl > 0
    BY <1>5 DEF Starts, RuntimeTypeOK, Run
  <2>2. \A d \in Calls : InScope(d)' => InScope(d) /\ call'[d] = call[d]
    BY <1>5 DEF Starts, Others, InScope, NoCall
  <2> QED BY <2>1, <2>2 DEF KeyInv, SameScope
<1> QED BY <1>1, <1>2, <1>3, <1>4, <1>5, KindsOfStep

(* One execution of a run: every accepted call has a run of its own that   *)
(* is not begun.                                                           *)
Accepted(c) == call[c].step = "accepted"

StartedInv ==
  /\ \A h \in Handles : run[h].started <= 1
  /\ \A c \in Calls : Accepted(c) =>
       run[call[c].handle].status # "none" /\ run[call[c].handle].started = 0
  /\ \A c, d \in Calls : c # d /\ Accepted(c) /\ Accepted(d) => call[c].handle # call[d].handle

LEMMA StartedStep ==
  ASSUME RuntimeTypeOK, [Next]_vars, StartedInv PROVE StartedInv'
<1>0. \A c \in Calls : Accepted(c) => call[c].handle \in Handles
  BY DEF RuntimeTypeOK, Accepted
<1>1. CASE Calm
  <2>1. \A h \in Handles : /\ run'[h].started = run[h].started
                           /\ run[h].status # "none" => run'[h].status # "none"
    BY <1>1 DEF Calm, Keeps
  <2>2. \A c \in Calls : Accepted(c)' => Accepted(c) /\ call'[c] = call[c]
    BY <1>1 DEF Calm, Accepted, NoCall
  <2> QED BY <1>0, <2>1, <2>2 DEF StartedInv
<1>2. ASSUME NEW c \in Calls, Locks(c) \/ Counts(c) PROVE StartedInv'
  <2>1. /\ UNCHANGED run
        /\ \A d \in Calls : Accepted(d)' => Accepted(d) /\ call'[d] = call[d]
    BY <1>2 DEF Locks, Counts, Others, Accepted
  <2> QED BY <1>0, <2>1 DEF StartedInv
<1>3. ASSUME NEW c \in Calls, Accepts(c) PROVE StartedInv'
  <2> DEFINE h == call'[c].handle
  <2>1. /\ h \in Handles /\ run[h].status = "none"
        /\ run'[h].status = "accepted" /\ run'[h].started = 0
    BY <1>3 DEF Accepts, NewRun, NoRun
  <2>2. \A g \in Handles : g # h =>
          /\ run'[g].started = run[g].started
          /\ run[g].status # "none" => run'[g].status # "none"
    BY <1>3 DEF Accepts, Keeps
  <2>3. \A d \in Calls : d # c => call'[d] = call[d] /\ (Accepted(d)' <=> Accepted(d))
    BY <1>3 DEF Accepts, Others, Accepted
  <2>4. \A d \in Calls : d # c /\ Accepted(d) => call[d].handle # h
    BY <2>1 DEF StartedInv
  <2>5. \A g \in Handles : run'[g].started <= 1
    BY <2>1, <2>2 DEF StartedInv
  <2>6. \A d \in Calls : Accepted(d)' =>
          run'[call'[d].handle].status # "none" /\ run'[call'[d].handle].started = 0
    BY <1>0, <2>1, <2>2, <2>3, <2>4 DEF StartedInv
  <2>7. \A d \in Calls : d # c /\ Accepted(d)' => call'[d].handle # call'[c].handle
    BY <2>3, <2>4
  <2> HIDE DEF h
  <2> QED BY <2>3, <2>5, <2>6, <2>7 DEF StartedInv
<1>4. ASSUME NEW c \in Calls, Starts(c) PROVE StartedInv'
  <2> DEFINE h == call[c].handle
  <2>1. /\ Accepted(c) /\ ~Accepted(c)'
        /\ \A d \in Calls : d # c => call'[d] = call[d] /\ (Accepted(d)' <=> Accepted(d))
    BY <1>4 DEF Starts, Others, Accepted, NoCall
  <2>2. /\ h \in Handles /\ run[h].started = 0 /\ run[h] \in Run
        /\ \A g \in Handles : g # h => run'[g] = run[g]
    BY <1>4, <2>1 DEF Starts, StartedInv, RuntimeTypeOK
  <2>3. run'[h].started = 1 /\ run'[h].status = run[h].status
    BY <1>4, <2>2 DEF Starts, Run
  <2>4. \A d \in Calls : Accepted(d)' => call'[d].handle # h
    BY <2>1 DEF StartedInv
  <2>5. \A g \in Handles : run'[g].started <= 1
    BY <2>2, <2>3 DEF StartedInv
  <2> HIDE DEF h
  <2>6. \A d \in Calls : Accepted(d)' =>
          run'[call'[d].handle].status # "none" /\ run'[call'[d].handle].started = 0
    BY <1>0, <2>1, <2>2, <2>4 DEF StartedInv
  <2>7. \A d, e \in Calls : d # e /\ Accepted(d)' /\ Accepted(e)'
                              => call'[d].handle # call'[e].handle
    BY <2>1 DEF StartedInv
  <2> QED BY <2>5, <2>6, <2>7 DEF StartedInv
<1> QED BY <1>1, <1>2, <1>3, <1>4, KindsOfStep

(* A lease follows its run.                                                *)
LEMMA LeaseStep ==
  ASSUME RuntimeTypeOK, [Next]_vars, LeaseFollowsRun PROVE LeaseFollowsRun'
<1>1. CASE Calm
  BY <1>1 DEF Calm, Keeps, LeaseFollowsRun
<1>2. ASSUME NEW c \in Calls, Locks(c) \/ Counts(c) PROVE LeaseFollowsRun'
  BY <1>2 DEF Locks, Counts, LeaseFollowsRun, Live, Unsettled
<1>3. ASSUME NEW c \in Calls, Accepts(c) PROVE LeaseFollowsRun'
  <2>0. PICK h \in Handles : h = call'[c].handle
    BY <1>3 DEF Accepts
  <2>1. Live(h)' <=> Unsettled(h)'
    BY <1>3, <2>0, RuntimeAssumption DEF Accepts, NewRun, Live, Unsettled
  <2>2. \A g \in Handles : g # h => (Live(g)' <=> Unsettled(g)')
    BY <1>3, <2>0 DEF Accepts, Keeps, LeaseFollowsRun
  <2> QED BY <2>1, <2>2 DEF LeaseFollowsRun
<1>4. ASSUME NEW c \in Calls, Starts(c) PROVE LeaseFollowsRun'
  <2>1. \A h \in Handles : /\ run'[h].status = run[h].status
                           /\ run'[h].left = run[h].left
                           /\ run'[h].leased = run[h].leased
    BY <1>4 DEF Starts, RuntimeTypeOK, Run
  <2> QED BY <2>1 DEF LeaseFollowsRun, Live, Unsettled
<1> QED BY <1>1, <1>2, <1>3, <1>4, KindsOfStep

-----------------------------------------------------------------------------
(* The limit.  What is delivered or executed was released, so that the     *)
(* bindings it counts against never change.                                *)
ReleasedInv ==
  /\ \A c \in Calls : call[c].step # "idle" =>
       call[c].release \in Releases /\ releases[call[c].release].made
  /\ \A h \in Handles : run[h].status # "none" =>
       run[h].release \in Releases /\ releases[run[h].release].made

LEMMA ReleasedStep ==
  ASSUME ControlTypeOK, RuntimeTypeOK, MadeInv, Immutable, ReleasedInv, [Next]_vars
  PROVE  ReleasedInv'
<1>1. \A r \in Releases : releases[r].made => releases'[r].made
  BY DEF Immutable
<1>2. CASE Calm
  <2>1. ASSUME NEW c \in Calls, call'[c].step # "idle"
        PROVE  call'[c].release \in Releases /\ releases'[call'[c].release].made
    <3>1. CASE call'[c] = call[c]
      BY <1>1, <2>1, <3>1 DEF ReleasedInv
    <3>2. CASE call'[c].release = app.active /\ app.active # NoRelease
      BY <1>1, <3>2 DEF MadeInv, Made, ControlTypeOK, App
    <3> QED BY <1>2, <2>1, <3>1, <3>2 DEF Calm, NoCall
  <2>2. \A h \in Handles : /\ run'[h].status # "none" => run[h].status # "none"
                           /\ run'[h].release = run[h].release
    BY <1>2 DEF Calm, Keeps
  <2> QED BY <1>1, <2>1, <2>2 DEF ReleasedInv
<1>3. ASSUME NEW c \in Calls, Locks(c) \/ Counts(c) PROVE ReleasedInv'
  <2>1. /\ UNCHANGED run
        /\ \A d \in Calls : /\ call'[d].step # "idle" => call[d].step # "idle"
                            /\ call'[d].release = call[d].release
    BY <1>3 DEF Locks, Counts, Others
  <2> QED BY <1>1, <2>1 DEF ReleasedInv
<1>4. ASSUME NEW c \in Calls, Accepts(c) PROVE ReleasedInv'
  <2>1. \A d \in Calls : /\ call'[d].step # "idle" => call[d].step # "idle"
                         /\ call'[d].release = call[d].release
    BY <1>4 DEF Accepts, Others
  <2>2. \A h \in Handles :
          IF h = call'[c].handle THEN run'[h].release = call[c].release
          ELSE /\ run'[h].status # "none" => run[h].status # "none"
               /\ run'[h].release = run[h].release
    BY <1>4 DEF Accepts, Keeps, NewRun
  <2>3. call[c].release \in Releases /\ releases'[call[c].release].made
    BY <1>1, <1>4 DEF Accepts, ReleasedInv
  <2> QED BY <1>1, <2>1, <2>2, <2>3 DEF ReleasedInv
<1>5. ASSUME NEW c \in Calls, Starts(c) PROVE ReleasedInv'
  <2>1. \A h \in Handles : run'[h].status = run[h].status /\ run'[h].release = run[h].release
    BY <1>5 DEF Starts, RuntimeTypeOK, Run
  <2>2. \A d \in Calls : call'[d].step # "idle" => call'[d] = call[d]
    BY <1>5 DEF Starts, Others, NoCall
  <2> QED BY <1>1, <2>1, <2>2 DEF ReleasedInv
<1> QED BY <1>2, <1>3, <1>4, <1>5, KindsOfStep

LEMMA DraftKept ==
  ASSUME Immutable
  PROVE  \A r \in Releases : releases[r].made => (r \in OfTheDraft' <=> r \in OfTheDraft)
BY DEF OfTheDraft, Immutable

LEMMA SubCardinality ==
  ASSUME NEW S, NEW T, S \subseteq T, IsFiniteSet(T)
  PROVE  /\ IsFiniteSet(S) /\ Cardinality(S) <= Cardinality(T)
         /\ Cardinality(S) \in Nat /\ Cardinality(T) \in Nat
BY FS_Subset, FS_CardinalityType

LEMMA AddedCardinality ==
  ASSUME NEW S, NEW x, IsFiniteSet(S)
  PROVE  IsFiniteSet(S \cup {x}) /\ Cardinality(S \cup {x}) <= Cardinality(S) + 1
<1>1. Cardinality(S) \in Nat
  BY FS_CardinalityType
<1>2. /\ IsFiniteSet(S \cup {x})
      /\ Cardinality(S \cup {x}) = IF x \in S THEN Cardinality(S) ELSE Cardinality(S) + 1
  BY FS_AddElement
<1> QED BY ONLY <1>1, <1>2

LimitInv ==
  /\ \A r \in Releases : Cardinality(Leases(r)) <= Limit
  /\ \A c \in Calls : call[c].step = "counted" =>
       ~(Cardinality(Leases(call[c].release)) >= Limit)
  /\ \A c, d \in Calls :
       c # d /\ call[c].step = "counted" /\ call[d].step = "counted"
         => ~SameBinding(call[c].release, call[d].release)

(* Without new leases, no binding has more of them than some binding had.  *)
LEMMA LeasesShrink ==
  ASSUME MadeInv, Immutable, ReleasedInv, LeaseFollowsRun, NEW S \in SUBSET Handles,
         \A h \in S : run'[h].release = run[h].release /\ (Live(h)' => Live(h)),
         NEW r \in Releases
  PROVE  /\ releases[r].made => Leases(r)' \cap S \subseteq Leases(r)
         /\ \E s \in Releases : Leases(r)' \cap S \subseteq Leases(s)
<1>1. ASSUME NEW h \in Leases(r)' \cap S
      PROVE  /\ Live(h) /\ h \in Handles
             /\ run[h].release \in Releases /\ releases[run[h].release].made
             /\ run[h].release = r \/ {run[h].release, r} \subseteq OfTheDraft'
  <2>1. /\ h \in Handles /\ run'[h].release = run[h].release /\ Live(h)
        /\ run'[h].release = r \/ {run'[h].release, r} \subseteq OfTheDraft'
    BY <1>1 DEF Leases, SameBinding
  <2>2. run[h].status # "none"
    BY <2>1 DEF LeaseFollowsRun, Unsettled
  <2> QED BY <2>1, <2>2 DEF ReleasedInv
<1>2. ASSUME releases[r].made PROVE Leases(r)' \cap S \subseteq Leases(r)
  <2> SUFFICES ASSUME NEW h \in Leases(r)' \cap S PROVE h \in Leases(r)
    OBVIOUS
  <2> QED BY <1>1, <1>2, DraftKept DEF Leases, SameBinding
<1>3. CASE Leases(r)' \cap S = {}
  BY <1>2, <1>3
<1>4. CASE Leases(r)' \cap S # {}
  <2>1. PICK h \in Leases(r)' \cap S : TRUE
    BY <1>4
  <2>2. PICK s \in Releases : s = run[h].release
    BY <1>1, <2>1
  <2>3. releases[s].made /\ (s = r \/ {s, r} \subseteq OfTheDraft')
    BY <1>1, <2>1, <2>2
  <2>4. ASSUME NEW g \in Leases(r)' \cap S PROVE g \in Leases(s)
    <3>1. /\ Live(g) /\ g \in Handles
          /\ run[g].release \in Releases /\ releases[run[g].release].made
          /\ run[g].release = r \/ {run[g].release, r} \subseteq OfTheDraft'
      BY <1>1, <2>4
    <3>2. run[g].release = s \/ {run[g].release, s} \subseteq OfTheDraft'
      BY <2>3, <3>1
    <3>3. run[g].release = s \/ {run[g].release, s} \subseteq OfTheDraft
      BY <2>3, <3>1, <3>2, DraftKept
    <3> QED BY <3>1, <3>3 DEF Leases, SameBinding
  <2> QED BY <1>2, <2>4
<1> QED BY <1>3, <1>4

LEMMA LeasesFinite ==
  ASSUME NEW r
  PROVE  /\ IsFiniteSet(Leases(r)) /\ Cardinality(Leases(r)) \in Nat
         /\ Leases(r) \subseteq Handles
BY RuntimeAssumption, SubCardinality DEF Leases

(* A step that takes no lease and does not end a count.                    *)
LEMMA LimitShrinks ==
  ASSUME MadeInv, Immutable, ReleasedInv, LeaseFollowsRun, LimitInv,
         \A h \in Handles : run'[h].release = run[h].release /\ (Live(h)' => Live(h)),
         \A c \in Calls : call'[c].step = "counted" =>
           call[c].step = "counted" /\ call'[c].release = call[c].release
  PROVE  LimitInv'
<1>1. ASSUME NEW r \in Releases
      PROVE  /\ releases[r].made => Cardinality(Leases(r)') <= Cardinality(Leases(r))
             /\ Cardinality(Leases(r)') <= Limit /\ Cardinality(Leases(r)') \in Nat
  <2>1. Leases(r)' \cap Handles = Leases(r)'
    BY DEF Leases
  <2>2. /\ releases[r].made => Leases(r)' \subseteq Leases(r)
        /\ \E s \in Releases : Leases(r)' \subseteq Leases(s)
    BY <2>1, LeasesShrink
  <2>3. PICK s \in Releases : Leases(r)' \subseteq Leases(s)
    BY <2>2
  <2>4. /\ Cardinality(Leases(r)') <= Cardinality(Leases(s))
        /\ Cardinality(Leases(r)') \in Nat /\ Cardinality(Leases(s)) \in Nat
        /\ Cardinality(Leases(s)) <= Limit
    BY <2>3, LeasesFinite, SubCardinality DEF LimitInv
  <2>5. releases[r].made => Cardinality(Leases(r)') <= Cardinality(Leases(r))
    BY <2>2, LeasesFinite, SubCardinality
  <2> QED BY <2>4, <2>5, RuntimeAssumption
<1>2. ASSUME NEW c \in Calls, call'[c].step = "counted"
      PROVE  /\ call[c].step = "counted" /\ call'[c].release = call[c].release
             /\ call[c].release \in Releases /\ releases[call[c].release].made
  BY <1>2 DEF ReleasedInv
<1>3. ASSUME NEW c \in Calls, call'[c].step = "counted"
      PROVE  ~(Cardinality(Leases(call[c].release)) >= Limit)'
  <2>1. PICK r \in Releases : r = call[c].release
    BY <1>2, <1>3
  <2>2. r = call'[c].release /\ releases[r].made
    BY <1>2, <1>3, <2>1
  <2>3. Cardinality(Leases(r)') <= Cardinality(Leases(r)) /\ Cardinality(Leases(r)') \in Nat
    BY <1>1, <2>2
  <2>4. ~(Cardinality(Leases(r)) >= Limit) /\ Cardinality(Leases(r)) \in Nat
    BY <1>2, <1>3, <2>1, LeasesFinite DEF LimitInv
  <2>5. ~(Cardinality(Leases(r)') >= Limit)
    BY <2>3, <2>4, RuntimeAssumption
  <2> QED BY <2>2, <2>5
<1>4. ASSUME NEW c \in Calls, NEW d \in Calls, c # d, call'[c].step = "counted",
             call'[d].step = "counted"
      PROVE  ~SameBinding(call[c].release, call[d].release)'
  <2>1. ~SameBinding(call[c].release, call[d].release)
    BY <1>2, <1>4 DEF LimitInv
  <2>2. /\ call'[c].release = call[c].release /\ call'[d].release = call[d].release
        /\ call[c].release \in OfTheDraft' <=> call[c].release \in OfTheDraft
        /\ call[d].release \in OfTheDraft' <=> call[d].release \in OfTheDraft
    BY <1>2, <1>4, DraftKept
  <2> QED BY <2>1, <2>2 DEF SameBinding
<1> QED BY <1>1, <1>3, <1>4 DEF LimitInv

LEMMA CountsLimit ==
  ASSUME MadeInv, Immutable, ReleasedInv, LeaseFollowsRun, LimitInv,
         NEW c \in Calls, Counts(c)
  PROVE  LimitInv'
<1>1. ASSUME NEW r \in Releases
      PROVE  /\ releases[r].made => Leases(r)' \subseteq Leases(r)
             /\ \E s \in Releases : Leases(r)' \subseteq Leases(s)
  <2>1. \A h \in Handles : run'[h].release = run[h].release /\ (Live(h)' => Live(h))
    BY DEF Counts, Live
  <2>2. Leases(r)' \cap Handles = Leases(r)'
    BY DEF Leases
  <2> QED BY <2>1, <2>2, LeasesShrink
<1>2. \A d \in Calls : /\ call'[d].release = call[d].release
                       /\ d # c => call'[d].step = call[d].step
  BY DEF Counts, Others
<1>3. ASSUME NEW d \in Calls, call'[d].step = "counted"
      PROVE  /\ call[d].release \in Releases /\ releases[call[d].release].made
             /\ ~(Cardinality(Leases(call[d].release)) >= Limit)
  BY <1>2, <1>3 DEF Counts, ReleasedInv, LimitInv
<1>4. ASSUME NEW r \in Releases PROVE Cardinality(Leases(r)') <= Limit
  <2>1. PICK s \in Releases : Leases(r)' \subseteq Leases(s)
    BY <1>1
  <2> QED BY <2>1, LeasesFinite, SubCardinality, RuntimeAssumption DEF LimitInv
<1>5. ASSUME NEW d \in Calls, call'[d].step = "counted"
      PROVE  ~(Cardinality(Leases(call[d].release)) >= Limit)'
  <2>1. PICK r \in Releases : r = call[d].release
    BY <1>3, <1>5
  <2>2. r = call'[d].release /\ releases[r].made
        /\ ~(Cardinality(Leases(r)) >= Limit)
    BY <1>2, <1>3, <1>5, <2>1
  <2>3. Leases(r)' \subseteq Leases(r)
    BY <1>1, <2>2
  <2>4. ~(Cardinality(Leases(r)') >= Limit)
    BY <2>2, <2>3, LeasesFinite, SubCardinality, RuntimeAssumption
  <2> QED BY <2>2, <2>4
<1>6. ASSUME NEW d \in Calls, NEW e \in Calls, d # e, call'[d].step = "counted",
             call'[e].step = "counted"
      PROVE  ~SameBinding(call[d].release, call[e].release)'
  <2>1. ~SameBinding(call[d].release, call[e].release)
    <3>1. CASE d = c
      BY <1>2, <1>6, <3>1 DEF Counts, LimitFree, SameBinding
    <3>2. CASE e = c
      BY <1>2, <1>6, <3>2 DEF Counts, LimitFree, SameBinding
    <3>3. CASE d # c /\ e # c
      BY <1>2, <1>6, <3>3 DEF LimitInv
    <3> QED BY <3>1, <3>2, <3>3
  <2>2. /\ call'[d].release = call[d].release /\ call'[e].release = call[e].release
        /\ call[d].release \in OfTheDraft' <=> call[d].release \in OfTheDraft
        /\ call[e].release \in OfTheDraft' <=> call[e].release \in OfTheDraft
    BY <1>2, <1>3, <1>6, DraftKept
  <2> QED BY <2>1, <2>2 DEF SameBinding
<1> QED BY <1>4, <1>5, <1>6 DEF LimitInv

(* The new lease is the last its binding had room for, and no other call   *)
(* has counted the binding's leases.                                       *)
LEMMA AcceptsLimit ==
  ASSUME MadeInv, Immutable, ReleasedInv, LeaseFollowsRun, LimitInv,
         NEW c \in Calls, Accepts(c)
  PROVE  LimitInv'
<1> USE DEF SameBinding
<1>0. PICK h \in Handles, own \in Releases :
        /\ h = call'[c].handle /\ own = call[c].release /\ releases[own].made
        /\ run'[h].release = own
        /\ \A g \in Handles : g # h => Keeps(g)
        /\ ~(Cardinality(Leases(own)) >= Limit)
  BY DEF Accepts, ReleasedInv, NewRun, LimitInv
<1> DEFINE S == Handles \ {h}
<1>1. ASSUME NEW r \in Releases
      PROVE  /\ releases[r].made => Leases(r)' \cap S \subseteq Leases(r)
             /\ \E s \in Releases : Leases(r)' \cap S \subseteq Leases(s)
  <2>1. \A g \in S : run'[g].release = run[g].release /\ (Live(g)' => Live(g))
    BY <1>0 DEF Keeps
  <2> HIDE DEF S
  <2>2. S \in SUBSET Handles
    BY DEF S
  <2> QED BY <2>1, <2>2, LeasesShrink
<1>2. \A r \in Releases : h \notin Leases(r)' => Leases(r)' \cap S = Leases(r)'
  BY DEF Leases
<1>3. ASSUME NEW r \in Releases, h \in Leases(r)' PROVE Cardinality(Leases(r)') <= Limit
  <2>1. own = r \/ {own, r} \subseteq OfTheDraft'
    BY <1>0, <1>3 DEF Leases
  <2>2. Leases(r)' \subseteq Leases(own)' \cup {h}
    BY <1>0, <2>1 DEF Leases
  <2>3. Leases(r)' \subseteq Leases(own) \cup {h}
    BY <1>0, <1>1, <2>2 DEF Leases
  <2>4. /\ IsFiniteSet(Leases(own) \cup {h})
        /\ Cardinality(Leases(own) \cup {h}) <= Cardinality(Leases(own)) + 1
    <3> HIDE DEF S
    <3>1. IsFiniteSet(Leases(own))
      BY LeasesFinite
    <3> QED BY ONLY <3>1, AddedCardinality
  <2> QED BY <1>0, <2>3, <2>4, LeasesFinite, SubCardinality, RuntimeAssumption
<1>4. ASSUME NEW r \in Releases PROVE Cardinality(Leases(r)') <= Limit
  <2>1. CASE h \in Leases(r)'
    BY <1>3, <2>1
  <2>2. CASE h \notin Leases(r)'
    <3>1. PICK s \in Releases : Leases(r)' \subseteq Leases(s)
      BY <1>1, <1>2, <2>2
    <3> QED BY <3>1, LeasesFinite, SubCardinality, RuntimeAssumption DEF LimitInv
  <2> QED BY <2>1, <2>2
<1>5. ASSUME NEW d \in Calls, call'[d].step = "counted"
      PROVE  /\ d # c /\ call'[d] = call[d]
             /\ call[d].release \in Releases /\ releases[call[d].release].made
             /\ ~(Cardinality(Leases(call[d].release)) >= Limit)
             /\ ~SameBinding(own, call[d].release)
  BY <1>0, <1>5 DEF Accepts, Others, ReleasedInv, LimitInv
<1>6. ASSUME NEW d \in Calls, call'[d].step = "counted"
      PROVE  ~(Cardinality(Leases(call[d].release)) >= Limit)'
  <2>1. PICK r \in Releases : r = call[d].release
    BY <1>5, <1>6
  <2>2. /\ r = call'[d].release /\ releases[r].made
        /\ ~(Cardinality(Leases(r)) >= Limit) /\ ~SameBinding(own, r)
    BY <1>5, <1>6, <2>1
  <2>3. h \notin Leases(r)'
    BY <1>0, <2>2, DraftKept DEF Leases
  <2>4. Leases(r)' \subseteq Leases(r)
    BY <1>1, <1>2, <2>2, <2>3
  <2>5. ~(Cardinality(Leases(r)') >= Limit)
    BY <2>2, <2>4, LeasesFinite, SubCardinality, RuntimeAssumption
  <2> QED BY <2>2, <2>5
<1>7. ASSUME NEW d \in Calls, NEW e \in Calls, d # e, call'[d].step = "counted",
             call'[e].step = "counted"
      PROVE  ~SameBinding(call[d].release, call[e].release)'
  <2>1. ~SameBinding(call[d].release, call[e].release)
    BY <1>5, <1>7 DEF LimitInv
  <2>2. /\ call'[d].release = call[d].release /\ call'[e].release = call[e].release
        /\ call[d].release \in OfTheDraft' <=> call[d].release \in OfTheDraft
        /\ call[e].release \in OfTheDraft' <=> call[e].release \in OfTheDraft
    BY <1>5, <1>7, DraftKept
  <2> QED BY <2>1, <2>2
<1> QED BY <1>4, <1>6, <1>7 DEF LimitInv

LEMMA LimitStep ==
  ASSUME RuntimeTypeOK, MadeInv, Immutable, ReleasedInv, LeaseFollowsRun, LimitInv,
         [Next]_vars
  PROVE  LimitInv'
<1>1. CASE Calm
  <2>1. \A h \in Handles : run'[h].release = run[h].release /\ (Live(h)' => Live(h))
    BY <1>1 DEF Calm, Keeps
  <2>2. \A c \in Calls : call'[c].step = "counted" =>
          call[c].step = "counted" /\ call'[c].release = call[c].release
    BY <1>1 DEF Calm, NoCall
  <2> QED BY <2>1, <2>2, LimitShrinks
<1>2. ASSUME NEW c \in Calls, Locks(c) PROVE LimitInv'
  <2>1. \A h \in Handles : run'[h].release = run[h].release /\ (Live(h)' => Live(h))
    BY <1>2 DEF Locks, Live
  <2>2. \A d \in Calls : call'[d].step = "counted" =>
          call[d].step = "counted" /\ call'[d].release = call[d].release
    BY <1>2 DEF Locks, Others
  <2> QED BY <2>1, <2>2, LimitShrinks
<1>3. ASSUME NEW c \in Calls, Starts(c) PROVE LimitInv'
  <2>1. \A h \in Handles : run'[h].release = run[h].release /\ run'[h].left = run[h].left
                           /\ run'[h].leased = run[h].leased
    BY <1>3 DEF Starts, RuntimeTypeOK, Run
  <2>2. \A h \in Handles : run'[h].release = run[h].release /\ (Live(h)' => Live(h))
    BY <2>1 DEF Live
  <2>3. \A d \in Calls : call'[d].step = "counted" =>
          call[d].step = "counted" /\ call'[d].release = call[d].release
    BY <1>3 DEF Starts, Others, NoCall
  <2> QED BY <2>2, <2>3, LimitShrinks
<1> QED BY <1>1, <1>2, <1>3, CountsLimit, AcceptsLimit, KindsOfStep

-----------------------------------------------------------------------------
(* The theorems.                                                           *)

Inv ==
  /\ ControlTypeOK /\ ReviewInv /\ MadeInv
  /\ RuntimeTypeOK /\ KeyInv /\ StartedInv /\ LeaseFollowsRun
  /\ ReleasedInv /\ LimitInv

LEMMA InvInit == Init => Inv
<1> SUFFICES ASSUME Init PROVE Inv
  OBVIOUS
<1>1. ControlTypeOK /\ ReviewInv /\ MadeInv /\ RuntimeTypeOK
  BY ControlInitType, ReviewInit, MadeInit, RuntimeInit DEF Init
<1>2. /\ \A h \in Handles : /\ run[h].ttl = 0 /\ run[h].started = 0 /\ run[h].left = 0
                            /\ run[h].status = "none" /\ run[h].leased = FALSE
      /\ \A c \in Calls : call[c].step = "idle"
  BY DEF Init, NoRun, NoCall
<1>3. KeyInv /\ StartedInv /\ LeaseFollowsRun /\ ReleasedInv
  BY <1>2 DEF KeyInv, StartedInv, LeaseFollowsRun, ReleasedInv, InScope, Accepted, Live,
              Unsettled
<1>4. \A r \in Releases : Leases(r) = {}
  BY <1>2 DEF Leases, Live
<1>5. LimitInv
  BY <1>2, <1>4, FS_EmptySet, RuntimeAssumption DEF LimitInv
<1> QED BY <1>1, <1>3, <1>5 DEF Inv

LEMMA InvNext == Inv /\ [Next]_vars => Inv'
BY ControlInvariants, RuntimeTypes, KeyStep, StartedStep, LeaseStep, ReleasedStep, LimitStep
   DEF Inv

LEMMA InvAlways == Spec => []Inv
BY InvInit, InvNext, PTL DEF Spec

(* The columns, the counters and the countdowns keep their ranges.         *)
THEOREM TypeCorrect == Spec => []TypeOK
<1>1. Inv => TypeOK
  BY DEF Inv, RuntimeTypeOK, TypeOK
<1> QED BY <1>1, InvAlways, PTL

(* A release grants what its administrator reviewed, in what the revision  *)
(* covers: the deployment, the collections and the stored bindings.  The   *)
(* bindings of a manifest, which publish_app resolves again, are not in it.*)
THEOREM ReleasedAsReviewedAlways == Spec => []ReleasedAsReviewed
<1>1. Inv => ReleasedAsReviewed
  BY ReviewImplies DEF Inv
<1> QED BY <1>1, InvAlways, PTL

(* An app with nothing to review delivers what its draft says, in what the *)
(* revision covers.                                                        *)
THEOREM NothingToReviewAlways == Spec => []NothingToReview
<1>1. Inv => NothingToReview
  BY ReviewImplies DEF Inv
<1> QED BY <1>1, InvAlways, PTL

(* However invocations are retried, a key has one run, executed once.      *)
THEOREM OncePerKeyAlways == Spec => []OncePerKey
<1>1. Inv => OncePerKey
  BY DEF Inv, KeyInv, StartedInv, OncePerKey
<1> QED BY <1>1, InvAlways, PTL

(* However many acceptances race, the limit holds.                         *)
THEOREM WithinLimitAlways == Spec => []WithinLimit
<1>1. ASSUME Inv PROVE WithinLimit
  <2>1. \A r \in Releases :
          {h \in Handles : Unsettled(h) /\ SameBinding(run[h].release, r)} = Leases(r)
    BY <1>1 DEF Inv, LeaseFollowsRun, Leases
  <2> QED BY <1>1, <2>1 DEF Inv, LimitInv, WithinLimit
<1> QED BY <1>1, InvAlways, PTL

(* A slot is taken exactly as long as a run may use it.                    *)
THEOREM LeaseFollowsRunAlways == Spec => []LeaseFollowsRun
<1>1. Inv => LeaseFollowsRun
  BY DEF Inv
<1> QED BY <1>1, InvAlways, PTL

(* What is settled stays settled.                                          *)
THEOREM SettledIsFinalAlways == Spec => SettledIsFinal
<1>1. ASSUME Inv, [Next]_vars, NEW h \in Handles,
             run[h].status \in {"completed", "failed"}
      PROVE  run'[h].status = run[h].status
  <2>1. RuntimeTypeOK
    BY <1>1 DEF Inv
  <2>2. CASE Calm
    BY <1>1, <2>2 DEF Calm, Keeps
  <2>3. ASSUME NEW c \in Calls, Locks(c) \/ Counts(c) PROVE run'[h].status = run[h].status
    BY <2>3 DEF Locks, Counts
  <2>4. ASSUME NEW c \in Calls, Accepts(c) PROVE run'[h].status = run[h].status
    BY <1>1, <2>4 DEF Accepts, NoRun, Keeps
  <2>5. ASSUME NEW c \in Calls, Starts(c) PROVE run'[h].status = run[h].status
    BY <2>1, <2>5 DEF Starts, RuntimeTypeOK, Run
  <2> QED BY <1>1, <2>1, <2>2, <2>3, <2>4, <2>5, KindsOfStep
<1>2. Inv /\ [Next]_vars =>
        [\A h \in Handles :
           run[h].status \in {"completed", "failed"} => run'[h].status = run[h].status]_vars
  BY <1>1
<1> QED BY <1>2, InvAlways, PTL DEF Spec, SettledIsFinal

(* An app that was withdrawn is brought back by a publish, by restoring a  *)
(* published app, or by an update that overwrites a newer row.             *)
THEOREM WithdrawnStaysWithdrawnAlways == Spec => WithdrawnStaysWithdrawn
<1>1. ASSUME Inv, [Next]_vars, ~Published, Published' PROVE BroughtBack
  <2>1. app' # app
    BY <1>1 DEF Published
  <2>2. ControlNext
    BY <1>1, <2>1, ControlSteps DEF DropRequests, controlVars, rowVars
  <2> QED BY <1>1, <2>2, ControlWithdrawn DEF Inv
<1>2. Inv /\ [Next]_vars => [~Published /\ Published' => BroughtBack]_controlVars
  BY <1>1
<1> QED BY <1>2, InvAlways, PTL DEF Spec, WithdrawnStaysWithdrawn, BroughtBack
=============================================================================
