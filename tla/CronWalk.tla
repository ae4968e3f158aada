------------------------------ MODULE CronWalk ------------------------------
(***************************************************************************)
(* One undisturbed dispatcher walking along a schedule: it starts at some  *)
(* instant, and each occurrence it dispatches becomes the reference of the *)
(* next.  The runs of this module check CronSchedule's arithmetic against  *)
(* what the occurrences of a schedule are.                                 *)
(***************************************************************************)
EXTENDS CronSchedule

CONSTANTS
  Schedules,   \* schedules: [period, zone, start, end, overlap]
  WalkTime     \* bound: baselines and occurrences up to here

ASSUME SchedulesAreSchedules == \A c \in Schedules : IsSchedule(c)
ASSUME WalkTimeIsNat == WalkTime \in Nat

VARIABLES
  walked,      \* the dispatcher's CronTriggerState
  clock

walkVars == <<walked, clock>>

(* A process learns of a schedule that was never dispatched. *)
WalkInit ==
  /\ clock \in 0 .. WalkTime
  /\ \E c \in Schedules : walked = EnsureNext(NewState(c, None), clock)

Wait ==
  /\ clock < WalkTime
  /\ clock' = clock + 1
  /\ UNCHANGED walked

(* peek_due and consume_due of one pass, between which                     *)
(* _create_cron_run_once refuses what is not after the last dispatch.      *)
Fire ==
  /\ IsDue(walked, clock)
  /\ walked.last = None \/ walked.last < walked.next
  /\ walked' = Consume(walked)
  /\ UNCHANGED clock

WalkNext == Wait \/ Fire

WalkSpec == WalkInit /\ [][WalkNext]_walkVars

-----------------------------------------------------------------------------
(* What an occurrence is, without reference to the walk: an instant within *)
(* the window, by the schedule's own clock, where that clock first shows a *)
(* time of the expression.                                                 *)
Occurs(c, u) ==
  /\ Local(c, u) % c.period = 0 /\ ~SecondReading(c, u)
  /\ c.start # None => Local(c, u) >= Local(c, c.start)
  /\ c.end # None => Local(c, u) <= Local(c, c.end)

(* Schedules whose skipped times, if there are any, the clock shows again  *)
(* as occurrences.  next_after reads a skipped time with the offset before *)
(* the change, which can also put it behind an end_at in that hour, unless *)
(* the first skipped one is where the change is.                           *)
Regular(c) ==
  \/ c.zone.shift <= 0
  \/ /\ c.zone.shift % c.period = 0
     /\ c.end = None \/ c.zone.at % c.period = 0

(* The dispatcher's copy is a schedule with whole times: nothing that      *)
(* evaluate, consume or next_after computes leaves them.                   *)
WalkTypeOK ==
  /\ clock \in 0 .. WalkTime
  /\ walked \in [config : Schedules, last : {None} \cup 0 .. WalkTime,
                 next : {None} \cup Nat]

(* What follows an occurrence is the first one after it, also across a     *)
(* change of the clocks: the walk skips nothing and repeats nothing, other *)
(* than where it turns back.                                               *)
NextIsFirst ==
  LET c == walked.config IN
  Regular(c) /\ walked.last # None /\ ~TurnsBack(c, walked.last) =>
    LET later == {u \in walked.last + 1 .. WalkTime : Occurs(c, u)} IN
    IF later = {} THEN walked.next = None \/ walked.next > WalkTime
    ELSE walked.next \in later /\ \A u \in later : walked.next <= u

(* Across a change of the clocks a dispatched schedule goes forward, so    *)
(* _create_cron_run_once's comparison with last_dispatched_at does not     *)
(* block it, but in one case: the very first dispatch was in the second    *)
(* pass of the repeated hour and the expression fires again in that pass.  *)
(* Every later occurrence is a first reading.                              *)
ScheduleAdvances ==
  walked.last # None /\ walked.next # None =>
    /\ ~SecondReading(walked.config, walked.next)
    /\ walked.next > walked.last <=> ~TurnsBack(walked.config, walked.last)

(* next_after's docstring: "the next occurrence after the reference", here *)
(* after an occurrence that was dispatched.                                *)
NextIsAfter == walked.last # None /\ walked.next # None => walked.next > walked.last
=============================================================================
