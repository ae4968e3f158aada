---------------------------- MODULE CronSchedule ----------------------------
(***************************************************************************)
(* When a cron schedule fires: CronOccurrence and CronTriggerState of      *)
(* triggers/cron.py.                                                       *)
(*                                                                         *)
(* Instants are natural numbers of ticks in UTC, Minute ticks to a minute. *)
(* A cron expression is abstracted to one that fires in the first minute   *)
(* of every period of local wall-clock time.  croniter is not part of the  *)
(* repository: match accepts any time within the minute of an occurrence,  *)
(* get_next returns the start of the next one.                             *)
(*                                                                         *)
(* A schedule's time zone has at most one offset change: at the instant    *)
(* zone.at its clocks go forward (zone.shift > 0) or back (< 0).           *)
(***************************************************************************)
EXTENDS Integers

CONSTANT Minute

ASSUME MinuteIsPositive == Minute \in Nat \ {0}

None == -1     \* a datetime that is None

UTC == [at |-> 0, shift |-> 0]

(* CronTriggerConfig, with times that a datetime can have on both sides of *)
(* the change.                                                             *)
IsSchedule(c) ==
  /\ c.period \in Nat \ {0}
  /\ c.zone.at \in Nat /\ c.zone.shift \in Int /\ c.zone.at + c.zone.shift \in Nat
  /\ c.start \in Nat \cup {None} /\ c.end \in Nat \cup {None}

(* _local_naive: the schedule's wall clock at an instant, and the fold     *)
(* that astimezone sets and replace(tzinfo=None) keeps: the clock shows    *)
(* this time for the second time.                                          *)
Local(c, u) == IF u < c.zone.at THEN u ELSE u + c.zone.shift
SecondReading(c, u) == u >= c.zone.at /\ Local(c, u) < c.zone.at

(* replace(tzinfo=...): a repeated wall-clock time is its second instant   *)
(* with fold=1, else its first; a skipped one, which only get_next returns *)
(* and with fold=0, is read with the offset before the change.             *)
Instant(c, l, fold) ==
  IF ~fold /\ l < c.zone.at + (IF c.zone.shift > 0 THEN c.zone.shift ELSE 0) THEN l
  ELSE l - c.zone.shift

Matches(c, l) == l % c.period < Minute

(* A mutation: the search starts after the minute of the reference. *)
FollowingMinute(c, l) == ((l + Minute) \div c.period + 1) * c.period

Following(c, l) == (l \div c.period + 1) * c.period

(* A mutation: the occurrence at the reference itself is always accepted. *)
NextAfterInclusive(c, ref, inclusive) ==
  IF Matches(c, Local(c, ref)) THEN ref
  ELSE Instant(c, Following(c, Local(c, ref)), FALSE)

(* CronOccurrence.next_after: before the window the reference becomes the  *)
(* window's start, inclusive; past its end there is no occurrence.  Wall   *)
(* clocks are compared without their fold.  A reference that matches is    *)
(* returned with its fold; what get_next returns has fold=0.               *)
NextAfter(c, ref, inclusive) ==
  LET early == c.start # None /\ Local(c, ref) < Local(c, c.start)
      from  == IF early THEN c.start ELSE ref
      match == (inclusive \/ early) /\ Matches(c, Local(c, from))
      candidate == IF match THEN Local(c, from) ELSE Following(c, Local(c, from))
      fold  == match /\ SecondReading(c, from)
  IN IF c.end # None /\ candidate > Local(c, c.end) THEN None
     ELSE Instant(c, candidate, fold)

(* The hour is repeated, this is its second pass, and the expression fires *)
(* again before its end: get_next's time is read in the first pass.        *)
TurnsBack(c, u) == SecondReading(c, u) /\ Following(c, Local(c, u)) < c.zone.at

-----------------------------------------------------------------------------
(* CronTriggerState, the schedule as one process knows it.                 *)

NewState(c, last) == [config |-> c, last |-> last, next |-> None]

(* update_config: None keeps the last dispatch this process knows of.      *)
UpdateConfig(s, c, last) == NewState(c, IF last # None THEN last ELSE s.last)

(* A mutation: the occurrence of the last dispatch is found again. *)
EnsureNextAgain(s, now) ==
  IF s.next # None THEN s
  ELSE [s EXCEPT !.next =
          NextAfter(s.config, IF s.last # None THEN s.last
                              ELSE IF s.config.start # None THEN s.config.start ELSE now,
                    TRUE)]

(* _ensure_next: after the last dispatch, else from start_at or now on.    *)
EnsureNext(s, now) ==
  IF s.next # None THEN s
  ELSE [s EXCEPT !.next =
          IF s.last # None THEN NextAfter(s.config, s.last, FALSE)
          ELSE NextAfter(s.config, IF s.config.start # None THEN s.config.start ELSE now,
                         TRUE)]

(* peek_due, once the next time is known.                                  *)
IsDue(s, now) == s.next # None /\ s.next <= now

(* consume_due *)
Consume(s) == [s EXCEPT !.last = s.next, !.next = NextAfter(s.config, s.next, FALSE)]
=============================================================================
