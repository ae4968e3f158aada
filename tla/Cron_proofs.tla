---------------------------- MODULE Cron_proofs ----------------------------
(***************************************************************************)
(* Proofs about cron schedules: the arithmetic of CronSchedule, CronWalk   *)
(* for every set of schedules and every change of the clocks, and          *)
(* CronDispatch for every set of processes and of schedules, any number of *)
(* runs and rows and every length of a minute.                             *)
(***************************************************************************)
EXTENDS CronDispatch, CronWalk, SequenceTheorems, TLAPS

-----------------------------------------------------------------------------
(* Arithmetic of whole numbers.                                            *)
LEMMA DivMod ==
  ASSUME NEW l \in Int, NEW p \in Nat \ {0}
  PROVE  /\ l \div p \in Int /\ l % p \in Nat /\ l % p < p
         /\ l = p * (l \div p) + (l % p)
         /\ l \in Nat => l \div p \in Nat
OBVIOUS

LEMMA Multiple ==
  ASSUME NEW k \in Int, NEW p \in Nat \ {0}
  PROVE  k * p \in Int /\ (k * p) % p = 0 /\ (k \in Nat => k * p \in Nat)
OBVIOUS

LEMMA NextMultiple ==
  ASSUME NEW l \in Nat, NEW p \in Nat \ {0}
  PROVE  /\ (l \div p + 1) * p \in Nat /\ (l \div p + 1) * p > l
         /\ ((l \div p + 1) * p) % p = 0
<1>1. l \div p + 1 \in Nat
  BY DivMod
<1>2. (l \div p + 1) * p > l
  <2> DEFINE q == l \div p
             r == l % p
  <2>1. q \in Nat /\ r \in Nat /\ r < p /\ l = p * q + r
    BY DivMod
  <2> HIDE DEF q, r
  <2>2. (q + 1) * p = p * q + p /\ p * q \in Nat
    BY ONLY <2>1, p \in Nat \ {0}
  <2>3. (q + 1) * p > l
    BY ONLY <2>1, <2>2, p \in Nat \ {0}
  <2> QED BY <2>3 DEF q
<1> QED BY ONLY <1>1, <1>2, Multiple, p \in Nat \ {0}

(* What a multiple is, once and for all. *)
LEMMA IsMultiple ==
  ASSUME NEW a \in Int, NEW p \in Nat \ {0}, a % p = 0
  PROVE  \E k \in Int : a = p * k
<1> DEFINE q == a \div p
<1>1. q \in Int /\ a = p * q + (a % p)
  BY DivMod
<1> HIDE DEF q
<1>2. a = p * q
  BY ONLY <1>1, a % p = 0, p \in Nat \ {0}, a \in Int
<1> QED BY <1>1, <1>2

LEMMA FirstMultiple ==
  ASSUME NEW l \in Nat, NEW p \in Nat \ {0}, NEW v \in Nat, v > l, v % p = 0
  PROVE  (l \div p + 1) * p <= v
<1>1. PICK k \in Int : v = p * k
  BY IsMultiple
<1> DEFINE q == l \div p
           r == l % p
<1>2. q \in Nat /\ r \in Nat /\ r < p /\ l = p * q + r
  BY DivMod
<1> HIDE DEF q, r
<1>3. q + 1 <= k
  <2>1. ASSUME k <= q PROVE p * k <= p * q
    BY ONLY <2>1, <1>2, k \in Int, p \in Nat \ {0}
  <2>2. p * q \in Nat /\ p * k \in Int
    BY ONLY <1>2, k \in Int, p \in Nat \ {0}
  <2> QED BY ONLY <1>1, <1>2, <2>1, <2>2, v > l, k \in Int, p \in Nat \ {0}
<1>4. (q + 1) * p <= p * k
  BY ONLY <1>2, <1>3, k \in Int, p \in Nat \ {0}
<1> QED BY <1>1, <1>4 DEF q

LEMMA MultiplesAdd ==
  ASSUME NEW a \in Int, NEW b \in Int, NEW p \in Nat \ {0}, a % p = 0, b % p = 0
  PROVE  (a + b) % p = 0 /\ (a - b) % p = 0
<1>1. PICK x \in Int : a = p * x
  BY IsMultiple
<1>2. PICK y \in Int : b = p * y
  BY IsMultiple
<1>3. /\ x + y \in Int /\ a + b = (x + y) * p
      /\ x - y \in Int /\ a - b = (x - y) * p
  BY ONLY <1>1, <1>2, x \in Int, y \in Int, p \in Nat \ {0}
<1> QED BY ONLY <1>3, Multiple, p \in Nat \ {0}

LEMMA MultipleOfMultiple ==
  ASSUME NEW a \in Int, NEW p \in Nat \ {0}, NEW m \in Nat \ {0}, a % p = 0, p % m = 0
  PROVE  a % m = 0
<1>1. PICK x \in Int : a = p * x
  BY IsMultiple
<1>2. PICK y \in Int : p = m * y
  BY IsMultiple
<1>3. y * x \in Int /\ a = (y * x) * m
  BY <1>1, <1>2
<1> QED BY ONLY <1>3, Multiple, m \in Nat \ {0}

LEMMA LaterMinute ==
  ASSUME NEW a \in Nat, NEW b \in Nat, NEW m \in Nat \ {0}, a % m = 0, b % m = 0, a < b
  PROVE  a \div m < b \div m
BY DivMod

-----------------------------------------------------------------------------
USE MinuteIsPositive

(* Schedules.                                                              *)
LEMMA LocalTimes ==
  ASSUME NEW c, IsSchedule(c), NEW u \in Nat
  PROVE  Local(c, u) \in Nat /\ \A fold \in BOOLEAN : Instant(c, u, fold) \in Int
BY DEF IsSchedule, Local, Instant

(* The fold that astimezone sets leads back to the instant.                *)
LEMMA LocalAndBack ==
  ASSUME NEW c, IsSchedule(c), NEW u \in Nat
  PROVE  Instant(c, Local(c, u), SecondReading(c, u)) = u
BY DEF IsSchedule, Local, Instant, SecondReading

(* Without a fold a wall-clock time is read as the first instant of what   *)
(* the clock shows then: of itself, or of a later time if it was skipped.  *)
LEMMA InstantFirst ==
  ASSUME NEW c, IsSchedule(c), NEW l \in Nat
  PROVE  /\ Instant(c, l, FALSE) \in Nat /\ ~SecondReading(c, Instant(c, l, FALSE))
         /\ Local(c, Instant(c, l, FALSE)) >= l
         /\ \/ Local(c, Instant(c, l, FALSE)) = l
            \/ /\ c.zone.shift > 0 /\ c.zone.at <= l /\ l < c.zone.at + c.zone.shift
               /\ Instant(c, l, FALSE) = l /\ Local(c, l) = l + c.zone.shift
BY DEF IsSchedule, Local, Instant, SecondReading

LEMMA LaterInstant ==
  ASSUME NEW c, IsSchedule(c), NEW u \in Nat, ~SecondReading(c, u),
         NEW l \in Nat, l > Local(c, u)
  PROVE  Instant(c, l, FALSE) > u
BY DEF IsSchedule, Local, Instant, SecondReading

(* From a second reading the same holds unless the walk turns back there.  *)
LEMMA TurningBack ==
  ASSUME NEW c, IsSchedule(c), NEW u \in Nat, NEW f \in Nat,
         f = Following(c, Local(c, u)), f > Local(c, u)
  PROVE  Instant(c, f, FALSE) > u <=> ~TurnsBack(c, u)
<1>1. TurnsBack(c, u) <=> SecondReading(c, u) /\ f < c.zone.at
  BY DEF TurnsBack
<1>2. CASE SecondReading(c, u)
  BY <1>1, <1>2 DEF IsSchedule, Local, Instant, SecondReading
<1>3. CASE ~SecondReading(c, u)
  BY <1>1, <1>3, LaterInstant
<1> QED BY <1>2, <1>3

LEMMA LaterLocal ==
  ASSUME NEW c, IsSchedule(c), NEW u \in Nat,
         NEW v \in Nat, ~SecondReading(c, v), u < v
  PROVE  Local(c, u) < Local(c, v)
BY DEF IsSchedule, Local, SecondReading

OnPeriod(c, t) == t % c.period = 0

LEMMA FollowingIsFirst ==
  ASSUME NEW c, IsSchedule(c), NEW l \in Nat
  PROVE  /\ Following(c, l) \in Nat /\ Following(c, l) > l
         /\ Matches(c, Following(c, l)) /\ OnPeriod(c, Following(c, l))
         /\ \A v \in Nat : v > l /\ OnPeriod(c, v) => Following(c, l) <= v
<1>1. c.period \in Nat \ {0}
  BY DEF IsSchedule
<1>2. /\ Following(c, l) \in Nat /\ Following(c, l) > l
      /\ Following(c, l) % c.period = 0
  BY <1>1, NextMultiple DEF Following
<1>3. \A v \in Nat : v > l /\ OnPeriod(c, v) => Following(c, l) <= v
  BY <1>1, FirstMultiple DEF Following, OnPeriod
<1>4. Matches(c, Following(c, l))
  BY <1>2 DEF Matches
<1> QED BY <1>2, <1>3, <1>4 DEF OnPeriod

(* next_after without a reference of its own, from a time in the window.   *)
LEMMA NextOfLater ==
  ASSUME NEW c, IsSchedule(c), NEW u \in Nat,
         c.start # None => Local(c, u) >= Local(c, c.start)
  PROVE  LET f == Following(c, Local(c, u)) IN
         NextAfter(c, u, FALSE)
           = IF c.end # None /\ f > Local(c, c.end) THEN None ELSE Instant(c, f, FALSE)
<1>1. Local(c, u) \in Nat /\ (c.start # None => Local(c, c.start) \in Nat)
  BY LocalTimes DEF IsSchedule
<1>2. ~(c.start # None /\ Local(c, u) < Local(c, c.start))
  BY <1>1
<1> DEFINE early == c.start # None /\ Local(c, u) < Local(c, c.start)
           from  == IF early THEN c.start ELSE u
           match == (FALSE \/ early) /\ Matches(c, Local(c, from))
           candidate == IF match THEN Local(c, from) ELSE Following(c, Local(c, from))
           fold  == match /\ SecondReading(c, from)
<1>3. NextAfter(c, u, FALSE) = IF c.end # None /\ candidate > Local(c, c.end) THEN None
                               ELSE Instant(c, candidate, fold)
  BY Zenon DEF NextAfter
<1>4. from = u /\ match = FALSE
  BY <1>2, Zenon
<1>5. candidate = Following(c, Local(c, u)) /\ fold = FALSE
  BY <1>4, Zenon
<1> QED BY <1>3, <1>5, Zenon

(* What next_after returns: a wall-clock time of the expression in the     *)
(* window, after its reference or at it.  It is the reference or start_at  *)
(* itself, or get_next's time, read without a fold.                        *)
Fires(c, l) ==
  /\ Matches(c, l)
  /\ c.start # None => l >= Local(c, c.start)
  /\ c.end # None => l <= Local(c, c.end)

Names(c, t, l) ==
  /\ l = Local(c, t) \/ t = Instant(c, l, FALSE)
  /\ Fires(c, l)

LEMMA NextReads ==
  ASSUME NEW c, IsSchedule(c), NEW ref \in Nat,
         NEW inclusive \in BOOLEAN, NextAfter(c, ref, inclusive) # None
  PROVE  LET t == NextAfter(c, ref, inclusive) IN
         /\ t \in Nat
         /\ \E l \in Nat :
              /\ Names(c, t, l)
              /\ \/ OnPeriod(c, l) /\ t = Instant(c, l, FALSE)
                 \/ c.start # None /\ t = c.start /\ l = Local(c, t)
                 \/ inclusive /\ t = ref /\ l = Local(c, t)
              /\ ~inclusive => l > Local(c, ref)
<1> DEFINE early == c.start # None /\ Local(c, ref) < Local(c, c.start)
           from  == IF early THEN c.start ELSE ref
           match == (inclusive \/ early) /\ Matches(c, Local(c, from))
           candidate == IF match THEN Local(c, from) ELSE Following(c, Local(c, from))
           fold  == match /\ SecondReading(c, from)
           t == NextAfter(c, ref, inclusive)
<1>1. Local(c, ref) \in Nat /\ c.start \in Nat \cup {None}
      /\ (c.start # None => Local(c, c.start) \in Nat)
  BY LocalTimes DEF IsSchedule
<1>2. /\ from \in Nat /\ Local(c, from) >= Local(c, ref)
      /\ c.start # None => Local(c, from) >= Local(c, c.start)
      /\ early => from = c.start /\ Local(c, from) > Local(c, ref) /\ c.start # None
      /\ ~early => from = ref
  BY <1>1
<1>3. t = IF c.end # None /\ candidate > Local(c, c.end) THEN None
          ELSE Instant(c, candidate, fold)
  BY Zenon DEF NextAfter
<1> HIDE DEF from, early
<1>4. /\ match => /\ candidate = Local(c, from) /\ fold = SecondReading(c, from)
                  /\ inclusive \/ early
                  /\ Matches(c, Local(c, from))
      /\ ~match => candidate = Following(c, Local(c, from)) /\ fold = FALSE
  <2>1. CASE match = TRUE
    <3>1. candidate = Local(c, from) /\ (inclusive \/ early) /\ Matches(c, Local(c, from))
      BY <2>1, Zenon
    <3>2. fold = SecondReading(c, from)
      BY <2>1, Zenon DEF SecondReading
    <3> QED BY <2>1, <3>1, <3>2, Zenon
  <2>2. CASE match = FALSE
    <3>1. candidate = Following(c, Local(c, from)) /\ fold = FALSE
      BY <2>2, Zenon
    <3> QED BY <2>2, <3>1, Zenon
  <2>3. match \in BOOLEAN
    BY Zenon
  <2> QED BY <2>1, <2>2, <2>3, Zenon
<1>5. Local(c, from) \in Nat
  BY <1>2, LocalTimes
<1>6. /\ Following(c, Local(c, from)) \in Nat
      /\ Following(c, Local(c, from)) > Local(c, from)
      /\ Matches(c, Following(c, Local(c, from))) /\ OnPeriod(c, Following(c, Local(c, from)))
  BY <1>5, FollowingIsFirst
<1>7. Instant(c, Local(c, from), SecondReading(c, from)) = from
  BY <1>2, LocalAndBack
<1> HIDE DEF t, fold, candidate, match
<1>8. candidate \in Nat /\ candidate >= Local(c, from) /\ Matches(c, candidate)
  BY ONLY <1>4, <1>5, <1>6
<1>9. c.end # None => Local(c, c.end) \in Nat
  BY LocalTimes DEF IsSchedule
<1>10. t # None
  BY DEF t
<1>11. /\ t = Instant(c, candidate, fold)
       /\ c.end # None => candidate <= Local(c, c.end)
  BY ONLY <1>3, <1>8, <1>9, <1>10
<1>12. Fires(c, candidate)
  BY ONLY <1>1, <1>2, <1>5, <1>8, <1>11 DEF Fires
<1>13. CASE match
  <2>1. t = from /\ candidate = Local(c, from)
    BY <1>4, <1>7, <1>11, <1>13
  <2>2. Names(c, t, candidate)
    BY <1>12, <2>1, Zenon DEF Names
  <2>3. \/ c.start # None /\ t = c.start /\ candidate = Local(c, t)
        \/ inclusive /\ t = ref /\ candidate = Local(c, t)
    BY <1>2, <1>4, <1>13, <2>1, Zenon
  <2>4. ~inclusive => candidate > Local(c, ref)
    BY <1>2, <1>4, <1>13, <2>1
  <2> QED BY <1>2, <1>8, <2>1, <2>2, <2>3, <2>4 DEF t
<1>14. CASE ~match
  <2>1. candidate = Following(c, Local(c, from)) /\ t = Instant(c, candidate, FALSE)
    BY <1>4, <1>11, <1>14
  <2>2. t \in Nat /\ OnPeriod(c, candidate)
    BY <1>6, <1>8, <2>1, InstantFirst
  <2>3. Names(c, t, candidate)
    BY <1>12, <2>1, Zenon DEF Names
  <2>4. candidate > Local(c, ref)
    BY ONLY <1>1, <1>2, <1>5, <1>6, <2>1
  <2> QED BY <1>8, <2>1, <2>2, <2>3, <2>4 DEF t
<1> QED BY <1>13, <1>14

-----------------------------------------------------------------------------
(* CronWalk.                                                               *)

InWindow(c, u) == c.start # None => Local(c, u) >= Local(c, c.start)

(* A time that the dispatcher's copy holds.                                *)
Reading(c, u) == u \in Nat /\ InWindow(c, u)

LEMMA NextIsReading ==
  ASSUME NEW c \in Schedules, NEW ref \in Nat, NEW inclusive \in BOOLEAN
  PROVE  LET n == NextAfter(c, ref, inclusive) IN n # None => Reading(c, n)
<1> DEFINE n == NextAfter(c, ref, inclusive)
<1> SUFFICES ASSUME n # None PROVE Reading(c, n)
  OBVIOUS
<1>0. IsSchedule(c)
  BY SchedulesAreSchedules
<1>1. n \in Nat /\ \E l \in Nat : Names(c, n, l)
  BY <1>0, NextReads
<1> HIDE DEF n
<1>2. PICK l \in Nat : Names(c, n, l)
  BY <1>1
<1>3. Local(c, n) \in Nat /\ Local(c, n) >= l
  <2>1. Local(c, n) \in Nat
    BY <1>0, <1>1, LocalTimes
  <2>2. l = Local(c, n) \/ n = Instant(c, l, FALSE)
    BY <1>2, Zenon DEF Names
  <2>3. Local(c, Instant(c, l, FALSE)) >= l
    BY <1>0, InstantFirst
  <2>4. CASE l = Local(c, n)
    BY <2>1, <2>4
  <2>5. CASE n = Instant(c, l, FALSE)
    BY <2>1, <2>3, <2>5, Zenon
  <2> QED BY <2>2, <2>4, <2>5
<1>4. InWindow(c, n)
  <2>1. c.start # None => Local(c, c.start) \in Nat
    BY <1>0, LocalTimes DEF IsSchedule
  <2> QED BY <1>2, <1>3, <2>1 DEF Names, Fires, InWindow
<1> QED BY <1>1, <1>4 DEF Reading

(* The dispatcher has consumed and will consume times in the window, and   *)
(* what it will consume is what next_after makes of what it has consumed.  *)
WalkInv ==
  /\ WalkTypeOK
  /\ walked.next # None => Reading(walked.config, walked.next)
  /\ walked.last # None =>
       /\ Reading(walked.config, walked.last)
       /\ walked.next = NextAfter(walked.config, walked.last, FALSE)

LEMMA WalkInvInit == WalkInit => WalkInv
<1> SUFFICES ASSUME WalkInit PROVE WalkInv
  OBVIOUS
<1>1. PICK c \in Schedules : walked = EnsureNext(NewState(c, None), clock)
  BY DEF WalkInit
<1> DEFINE from == IF c.start # None THEN c.start ELSE clock
           n == NextAfter(c, from, TRUE)
<1>2. clock \in 0 .. WalkTime /\ clock \in Nat
  BY WalkTimeIsNat DEF WalkInit
<1>3. from \in Nat
  BY <1>2, SchedulesAreSchedules DEF IsSchedule
<1>4. walked = [NewState(c, None) EXCEPT !.next = n]
  BY <1>1 DEF EnsureNext, NewState
<1> HIDE DEF from
<1>5. n # None => Reading(c, n)
  BY <1>3, NextIsReading
<1> HIDE DEF n
<1>6. walked.config = c /\ walked.last = None /\ walked.next = n
      /\ walked = [config |-> c, last |-> None, next |-> n]
  BY <1>4 DEF NewState
<1>7. n \in {None} \cup Nat
  BY <1>5 DEF Reading
<1>8. WalkTypeOK
  BY <1>2, <1>6, <1>7 DEF WalkTypeOK
<1> QED BY <1>5, <1>6, <1>8 DEF WalkInv

LEMMA WalkInvNext == WalkInv /\ [WalkNext]_walkVars => WalkInv'
<1> SUFFICES ASSUME WalkInv, [WalkNext]_walkVars PROVE WalkInv'
  OBVIOUS
<1>1. CASE Wait
  <2>1. walked' = walked /\ clock' \in 0 .. WalkTime
    BY <1>1, WalkTimeIsNat DEF Wait, WalkInv, WalkTypeOK
  <2>2. WalkTypeOK'
    BY <2>1 DEF WalkInv, WalkTypeOK
  <2> QED BY <2>1, <2>2 DEF WalkInv
<1>2. CASE Fire
  <2> DEFINE c == walked.config
             t == walked.next
             n == NextAfter(c, t, FALSE)
  <2>1. c \in Schedules /\ t # None /\ t <= clock /\ t \in Nat /\ clock \in 0 .. WalkTime
    BY <1>2 DEF Fire, IsDue, WalkInv, WalkTypeOK
  <2>2. Reading(c, t)
    BY <2>1 DEF WalkInv
  <2>3. walked' = [config |-> c, last |-> t, next |-> n] /\ clock' = clock
    <3> DEFINE half == [walked EXCEPT !.last = t]
    <3>1. half = [config |-> c, last |-> t, next |-> t]
      BY DEF WalkInv, WalkTypeOK
    <3>2. walked' = [half EXCEPT !.next = n] /\ clock' = clock
      BY <1>2 DEF Fire, Consume
    <3> HIDE DEF half, c, t, n
    <3> QED BY <3>1, <3>2
  <2>4. n # None => Reading(c, n)
    BY <2>1, NextIsReading
  <2> HIDE DEF c, t, n
  <2>5. n \in {None} \cup Nat
    BY <2>4 DEF Reading
  <2>6. walked'.config = c /\ walked'.last = t /\ walked'.next = n
    BY <2>3
  <2>7. WalkTypeOK'
    BY <2>1, <2>3, <2>5, WalkTimeIsNat DEF WalkTypeOK
  <2>8. n = NextAfter(c, t, FALSE)
    BY DEF n
  <2> QED BY <2>2, <2>4, <2>6, <2>7, <2>8 DEF WalkInv
<1>3. CASE UNCHANGED walkVars
  <2>1. walked' = walked /\ clock' = clock
    BY <1>3 DEF walkVars
  <2>2. WalkTypeOK'
    BY <2>1 DEF WalkInv, WalkTypeOK
  <2> QED BY <2>1, <2>2 DEF WalkInv
<1> QED BY <1>1, <1>2, <1>3 DEF WalkNext

LEMMA WalkInvAlways == WalkSpec => []WalkInv
BY WalkInvInit, WalkInvNext, PTL DEF WalkSpec

(* Type correctness of a walking dispatcher's copy: _ensure_next,          *)
(* consume_due and next_after leave it a schedule with whole times.        *)
THEOREM WalkTypeCorrect == WalkSpec => []WalkTypeOK
<1>1. WalkInv => WalkTypeOK
  BY DEF WalkInv
<1> QED BY <1>1, WalkInvAlways, PTL

(* A dispatched schedule goes forward in every zone, but from a first      *)
(* dispatch in the second pass of a repeated hour; get_next's time, which  *)
(* all later ones are, has no fold and is never in such a pass.            *)
THEOREM ScheduleAdvancesAlways == WalkSpec => []ScheduleAdvances
<1>1. ASSUME WalkInv PROVE ScheduleAdvances
  <2> SUFFICES ASSUME walked.last # None, walked.next # None
               PROVE  /\ ~SecondReading(walked.config, walked.next)
                      /\ walked.next > walked.last
                           <=> ~TurnsBack(walked.config, walked.last)
    BY DEF ScheduleAdvances
  <2> DEFINE c == walked.config
             u == walked.last
             l == Local(c, u)
             f == Following(c, l)
  <2>1. c \in Schedules /\ Reading(c, u) /\ walked.next = NextAfter(c, u, FALSE)
    BY <1>1 DEF WalkInv, WalkTypeOK
  <2> HIDE DEF c, u
  <2>2. u \in Nat /\ IsSchedule(c) /\ (c.start # None => l >= Local(c, c.start))
    BY <2>1, SchedulesAreSchedules DEF Reading, InWindow
  <2>3. NextAfter(c, u, FALSE) = None \/ NextAfter(c, u, FALSE) = Instant(c, f, FALSE)
    BY <2>2, NextOfLater
  <2>4. l \in Nat /\ f \in Nat /\ f > l
    BY <2>2, LocalTimes, FollowingIsFirst
  <2>5. walked.next = Instant(c, f, FALSE)
    BY <2>1, <2>3
  <2>6. ~SecondReading(c, Instant(c, f, FALSE))
    BY <2>2, <2>4, InstantFirst
  <2>7. Instant(c, f, FALSE) > u <=> ~TurnsBack(c, u)
    BY <2>2, <2>4, TurningBack
  <2> QED BY <2>5, <2>6, <2>7, Zenon DEF c, u
<1> QED BY <1>1, WalkInvAlways, PTL

(* The wall-clock time f that follows that of u: an occurrence of the      *)
(* schedule as soon as it is within the window's end ...                   *)
LEMMA FollowingOccurs ==
  ASSUME NEW c, IsSchedule(c), Regular(c), NEW u \in Nat,
         InWindow(c, u), NEW f, f = Following(c, Local(c, u)),
         c.end # None => f <= Local(c, c.end)
  PROVE  Occurs(c, Instant(c, f, FALSE))
<1> DEFINE l == Local(c, u)
           n == Instant(c, f, FALSE)
           p == c.period
           at == c.zone.at
           d == c.zone.shift
<1>0. p \in Nat \ {0} /\ at \in Nat /\ d \in Int /\ at + d \in Nat
  BY DEF IsSchedule
<1>1. l \in Nat /\ f \in Nat /\ f > l /\ f % p = 0
  BY LocalTimes, FollowingIsFirst DEF OnPeriod
<1>2. n \in Nat /\ ~SecondReading(c, n) /\ Local(c, n) \in Nat /\ Local(c, n) >= f
  BY <1>1, LocalTimes, InstantFirst
<1>3. \/ Local(c, n) = f
      \/ d > 0 /\ at <= f /\ f < at + d /\ Local(c, n) = f + d
  BY <1>1, InstantFirst
<1> SUFFICES Occurs(c, n)
  OBVIOUS
<1> HIDE DEF n
<1>4. c.start # None => Local(c, c.start) \in Nat /\ l >= Local(c, c.start)
  BY LocalTimes DEF IsSchedule, InWindow
<1>5. c.start # None => Local(c, n) >= Local(c, c.start)
  BY ONLY <1>1, <1>2, <1>4
<1>6. CASE Local(c, n) = f
  <2>1. Local(c, n) % c.period = 0 /\ ~SecondReading(c, n)
    BY <1>1, <1>2, <1>6, Zenon
  <2>2. c.end # None => Local(c, n) <= Local(c, c.end)
    BY <1>6, Zenon
  <2> QED BY <1>5, <2>1, <2>2, Zenon DEF Occurs
<1>7. CASE d > 0 /\ at <= f /\ f < at + d /\ Local(c, n) = f + d
  <2>1. d \in Nat /\ d % p = 0 /\ (c.end = None \/ at % p = 0)
    BY <1>0, <1>7 DEF Regular
  <2>2. Local(c, n) % p = 0
    <3>1. f \in Int /\ d \in Int /\ f % p = 0
      BY <1>1, <2>1
    <3>2. (f + d) % p = 0
      <4> HIDE DEF d, p
      <4> QED BY ONLY <1>0, <2>1, <3>1, MultiplesAdd
    <3> QED BY <1>7, <3>2
  <2>3. ASSUME c.end # None PROVE Local(c, n) <= Local(c, c.end)
    <3>1. u < at /\ l = u
      BY <1>0, <1>1, <1>7 DEF Local
    <3>2. f <= at
      <4>1. at % p = 0 /\ at > l
        BY <2>1, <2>3, <3>1
      <4> QED BY <1>0, <1>1, <4>1, FollowingIsFirst DEF OnPeriod
    <3>3. f = at /\ c.end \in Nat /\ at <= Local(c, c.end)
      BY <1>0, <1>1, <1>7, <2>3, <3>2 DEF IsSchedule
    <3>4. Local(c, c.end) = c.end + d
      BY <1>0, <3>3 DEF Local
    <3>5. c.end >= at
      BY <1>0, <3>3 DEF Local
    <3> QED BY ONLY <1>0, <1>7, <3>3, <3>4, <3>5
  <2> QED BY <1>2, <1>5, <2>2, <2>3, Zenon DEF Occurs
<1> QED BY <1>3, <1>6, <1>7

(* ... and no occurrence between them.                                     *)
LEMMA NoneBetween ==
  ASSUME NEW c, IsSchedule(c), Regular(c), NEW u \in Nat,
         NEW f, f = Following(c, Local(c, u)),
         NEW v \in Nat, v > u, Occurs(c, v)
  PROVE  Instant(c, f, FALSE) <= v /\ f <= Local(c, v)
<1> DEFINE l == Local(c, u)
           m == Local(c, v)
           p == c.period
           at == c.zone.at
           d == c.zone.shift
<1>0. p \in Nat \ {0} /\ at \in Nat /\ d \in Int /\ at + d \in Nat
  BY DEF IsSchedule
<1>1. l \in Nat /\ f \in Nat /\ f > l /\ f % p = 0
  BY LocalTimes, FollowingIsFirst DEF OnPeriod
<1>2. m \in Nat /\ m % p = 0 /\ ~SecondReading(c, v)
  BY LocalTimes DEF Occurs
<1>3. m > l
  BY <1>1, <1>2, LaterLocal
<1>4. f <= m
  BY <1>1, <1>2, <1>3, FollowingIsFirst DEF OnPeriod
<1>5. CASE d <= 0 \/ f < at \/ f >= at + d
  BY <1>0, <1>1, <1>2, <1>4, <1>5 DEF Local, Instant, SecondReading
<1>6. CASE d > 0 /\ at <= f /\ f < at + d
  <2>1. u < at /\ l = u /\ Instant(c, f, FALSE) = f
    BY <1>0, <1>1, <1>6 DEF Local, Instant
  <2>2. v >= at /\ m = v + d
    BY <1>0, <1>1, <1>2, <1>4, <1>6 DEF Local
  <2>3. d \in Nat /\ d % p = 0
    BY <1>0, <1>6 DEF Regular
  <2>4. v % p = 0
    <3>1. v = m - d
      BY <1>0, <1>2, <2>2, <2>3
    <3>2. (m - d) % p = 0
      <4> HIDE DEF m, d, p
      <4>1. m \in Int /\ d \in Int /\ p \in Nat \ {0} /\ m % p = 0 /\ d % p = 0
        BY ONLY <1>0, <1>2, <2>3
      <4> QED BY ONLY <4>1, MultiplesAdd
    <3> QED BY <3>1, <3>2
  <2>5. f <= v
    BY <1>1, <2>1, <2>4, FollowingIsFirst DEF OnPeriod
  <2> QED BY <1>4, <2>1, <2>5
<1>7. (d <= 0 \/ f < at \/ f >= at + d) \/ (d > 0 /\ at <= f /\ f < at + d)
  BY ONLY <1>0, <1>1
<1> QED BY <1>5, <1>6, <1>7

(* A dispatcher that is alone skips and repeats no occurrence of a regular *)
(* schedule, in every zone: next_after of an occurrence is the next one,   *)
(* other than where the first dispatch was in the second pass of a         *)
(* repeated hour and the expression fires there again.                     *)
THEOREM NextIsFirstAlways == WalkSpec => []NextIsFirst
<1>1. ASSUME WalkInv PROVE NextIsFirst
  <2> DEFINE c == walked.config
             u == walked.last
             l == Local(c, u)
             f == Following(c, l)
             n == Instant(c, f, FALSE)
             later == {v \in u + 1 .. WalkTime : Occurs(c, v)}
  <2> SUFFICES ASSUME Regular(c), u # None, ~TurnsBack(c, u)
               PROVE  IF later = {} THEN walked.next = None \/ walked.next > WalkTime
                      ELSE walked.next \in later /\ \A v \in later : walked.next <= v
    BY DEF NextIsFirst
  <2>1. c \in Schedules /\ Reading(c, u) /\ walked.next = NextAfter(c, u, FALSE)
    BY <1>1 DEF WalkInv, WalkTypeOK
  <2> HIDE DEF c, u
  <2>2. u \in Nat /\ IsSchedule(c) /\ InWindow(c, u)
    BY <2>1, SchedulesAreSchedules DEF Reading
  <2>3. walked.next = IF c.end # None /\ f > Local(c, c.end) THEN None ELSE n
    BY <2>1, <2>2, NextOfLater DEF InWindow
  <2>4. l \in Nat /\ f \in Nat /\ f > l /\ n \in Nat
    BY <2>2, LocalTimes, FollowingIsFirst, InstantFirst
  <2>5. n > u
    BY <2>2, <2>4, TurningBack
  <2>6. c.end # None => Local(c, c.end) \in Nat
    BY <2>2, LocalTimes DEF IsSchedule
  <2>7. (c.end # None => f <= Local(c, c.end)) => Occurs(c, n)
    BY <2>2, FollowingOccurs
  <2>8. \A v \in later : /\ v \in Nat /\ v > u /\ v <= WalkTime /\ n <= v /\ f <= Local(c, v)
                         /\ c.end # None => Local(c, v) <= Local(c, c.end)
    <3> TAKE v \in later
    <3>1. v \in Nat /\ v > u /\ v <= WalkTime /\ Occurs(c, v)
      BY <2>2
    <3>2. n <= v /\ f <= Local(c, v)
      BY <2>2, <3>1, NoneBetween
    <3> QED BY <3>1, <3>2 DEF Occurs
  <2> HIDE DEF n, f, l
  <2>9. CASE later = {}
    <3>1. ASSUME c.end # None => f <= Local(c, c.end), n <= WalkTime PROVE FALSE
      <4>1. Occurs(c, n) /\ n \in u + 1 .. WalkTime
        BY <2>2, <2>4, <2>5, <2>7, <3>1, WalkTimeIsNat
      <4> QED BY <2>9, <4>1
    <3> QED BY <2>3, <2>4, <2>6, <2>9, <3>1, WalkTimeIsNat
  <2>10. CASE later # {}
    <3>1. PICK v \in later : TRUE
      BY <2>10
    <3>2. Local(c, v) \in Nat
      BY <2>2, <2>8, LocalTimes
    <3>3. c.end # None => f <= Local(c, c.end)
      BY <2>4, <2>6, <2>8, <3>1, <3>2
    <3>4. walked.next = n /\ Occurs(c, n)
      BY <2>3, <2>4, <2>6, <2>7, <3>3
    <3>5. n \in u + 1 .. WalkTime
      BY <2>2, <2>4, <2>5, <2>8, <3>1, WalkTimeIsNat
    <3> QED BY <2>8, <2>10, <3>4, <3>5
  <2> QED BY <2>9, <2>10
<1> QED BY <1>1, WalkInvAlways, PTL

-----------------------------------------------------------------------------
(* CronDispatch.                                                           *)

USE ConfigsAreSchedules, TimesAreNat, NoneIsNone

(* Schedules whose times are whole minutes and that have a start.          *)
Whole(c) ==
  /\ c.start # None /\ c.start % Minute = 0 /\ c.period % Minute = 0
  /\ c.zone.shift % Minute = 0

(* A time that a copy holds: an occurrence as RunsAreOccurrences has it,   *)
(* in the second pass of a repeated hour only if it is start_at, at the    *)
(* start of a minute if the schedule has those.                            *)
Due(c, t) ==
  /\ t \in Nat
  /\ \E l \in Nat : Names(c, t, l)
  /\ c.start # None /\ SecondReading(c, t) => t = c.start
  /\ Whole(c) => t % Minute = 0

(* What next_after returns, from the start of a schedule that has one.     *)
LEMMA NextDue ==
  ASSUME NEW c \in Configs, NEW ref \in Nat, NEW inclusive \in BOOLEAN,
         inclusive /\ c.start # None => ref = c.start,
         NextAfter(c, ref, inclusive) # None
  PROVE  Due(c, NextAfter(c, ref, inclusive))
<1> DEFINE n == NextAfter(c, ref, inclusive)
<1>0. IsSchedule(c) /\ Minute \in Nat \ {0}
  OBVIOUS
<1>1. /\ n \in Nat
      /\ \E l \in Nat :
           /\ Names(c, n, l)
           /\ \/ OnPeriod(c, l) /\ n = Instant(c, l, FALSE)
              \/ c.start # None /\ n = c.start /\ l = Local(c, n)
              \/ inclusive /\ n = ref /\ l = Local(c, n)
           /\ ~inclusive => l > Local(c, ref)
  BY <1>0, NextReads, Zenon
<1> HIDE DEF n
<1>2. PICK l \in Nat :
        /\ Names(c, n, l)
        /\ \/ OnPeriod(c, l) /\ n = Instant(c, l, FALSE)
           \/ c.start # None /\ n = c.start
           \/ inclusive /\ n = ref
  BY <1>1
<1>3. c.start # None => \/ OnPeriod(c, l) /\ n = Instant(c, l, FALSE)
                        \/ n = c.start
  BY <1>2, Zenon
<1>4. c.start # None /\ SecondReading(c, n) => n = c.start
  <2>1. ~SecondReading(c, Instant(c, l, FALSE))
    BY <1>0, InstantFirst
  <2> QED BY <1>3, <2>1, Zenon
<1>5. ASSUME Whole(c), OnPeriod(c, l), n = Instant(c, l, FALSE) PROVE n % Minute = 0
  <2> DEFINE d == c.zone.shift
  <2>1. /\ c.period \in Nat \ {0} /\ d \in Int
        /\ c.period % Minute = 0 /\ d % Minute = 0
    BY <1>0, <1>5 DEF Whole, IsSchedule
  <2>2. l % Minute = 0
    BY ONLY <1>0, <1>5, <2>1, l \in Nat, MultipleOfMultiple DEF OnPeriod
  <2>3. (l - d) % Minute = 0
    <3>1. l \in Int
      OBVIOUS
    <3> HIDE DEF d
    <3> QED BY ONLY <1>0, <2>1, <2>2, <3>1, MultiplesAdd
  <2>4. n = l \/ n = l - d
    BY <1>5, Zenon DEF Instant
  <2> QED BY <2>2, <2>3, <2>4, Zenon
<1>6. Whole(c) => n % Minute = 0
  BY <1>3, <1>5, Zenon DEF Whole
<1>7. Due(c, n)
  BY <1>1, <1>2, <1>4, <1>6, Zenon DEF Due
<1> QED BY <1>7 DEF n

-----------------------------------------------------------------------------
(* A process's copy of the schedule.                                       *)
State == [config : Configs, last : Times, next : Times]

Sound(s) == s \in State /\ (s.next # None => Due(s.config, s.next))

LEMMA DueIsTime ==
  ASSUME NEW c \in Configs, NEW t, Due(c, t)
  PROVE  t \in Nat
BY DEF Due

LEMMA NewStateSound ==
  ASSUME NEW c \in Configs, NEW last \in Times
  PROVE  /\ Sound(NewState(c, last))
         /\ \A s \in State : Sound(UpdateConfig(s, c, last))
BY DEF NewState, UpdateConfig, Sound, State, Times

LEMMA EnsureNextSound ==
  ASSUME NEW s, Sound(s), NEW ref \in Nat
  PROVE  Sound(EnsureNext(s, ref))
<1> DEFINE c == s.config
           n == IF s.last # None THEN NextAfter(c, s.last, FALSE)
                ELSE NextAfter(c, IF c.start # None THEN c.start ELSE ref, TRUE)
<1>1. CASE s.next # None
  BY <1>1 DEF EnsureNext
<1>2. CASE s.next = None
  <2>1. EnsureNext(s, ref) = [s EXCEPT !.next = n]
    BY <1>2 DEF EnsureNext
  <2>2. c \in Configs /\ s.last \in Times /\ s \in State
    BY DEF Sound, State
  <2>3. n # None => Due(c, n)
    <3>1. CASE s.last # None
      BY <2>2, <3>1, NextDue DEF Times
    <3>2. CASE s.last = None
      <4> DEFINE from == IF c.start # None THEN c.start ELSE ref
      <4>1. from \in Nat /\ (c.start # None => from = c.start)
        BY <2>2 DEF IsSchedule
      <4>2. n = NextAfter(c, from, TRUE)
        BY <3>2
      <4> HIDE DEF from
      <4> QED BY <2>2, <4>1, <4>2, NextDue
    <3> QED BY <3>1, <3>2
  <2> HIDE DEF n
  <2>4. n \in Times
    BY <2>3 DEF Due, Times
  <2> QED BY <2>1, <2>2, <2>3, <2>4 DEF Sound, State
<1> QED BY <1>1, <1>2

LEMMA ConsumeSound ==
  ASSUME NEW s, Sound(s), s.next # None
  PROVE  Sound(Consume(s))
<1> DEFINE n == NextAfter(s.config, s.next, FALSE)
           t == [s EXCEPT !.last = s.next]
<1>1. s \in State /\ s.config \in Configs /\ s.next \in Nat
  BY DEF Sound, State, Times
<1>2. n # None => Due(s.config, n)
  BY <1>1, NextDue
<1>3. Consume(s) = [t EXCEPT !.next = n]
  BY DEF Consume
<1>4. t \in State /\ t.config = s.config
  BY <1>1 DEF State, Times
<1> HIDE DEF n, t
<1>5. n \in Times
  BY <1>2 DEF Due, Times
<1> QED BY <1>2, <1>3, <1>4, <1>5 DEF Sound, State

-----------------------------------------------------------------------------
(* The invariant.                                                          *)
RunRecord == [at : Nat, of : 1 .. MaxRows, config : Configs, active : BOOLEAN]

TaskOK(t, s) ==
  /\ t \in [pc : {"idle", "begun", "planned", "checked", "configuring"},
            at : Times, config : Configs \cup {NoRow}]
  /\ t.pc = "begun" => t.at # None
  /\ t.pc \in {"planned", "checked"} => s # NoState /\ s.next = t.at /\ t.at # None
  /\ t.pc = "configuring" => t.config \in Configs

(* What a process plans to dispatch is the next time of its own copy.      *)
ProcessInv ==
  \A p \in Processes :
    /\ local[p] = NoState \/ Sound(local[p])
    /\ TaskOK(task[p], local[p])

ScalarOK ==
  /\ now \in 0 .. MaxTime /\ archived \in BOOLEAN /\ rowsMade \in 0 .. MaxRows
  /\ row = NoRow \/ row \in [config : Configs, last : Times]
  /\ row # NoRow => rowsMade > 0
  /\ runs \in Seq(RunRecord)

(* The row remembers the latest run of its insertion, and runs of one      *)
(* insertion are created in the order of their times.                      *)
RunsInv ==
  /\ \A i \in DOMAIN runs :
       /\ Due(runs[i].config, runs[i].at)
       /\ runs[i].of <= rowsMade
       /\ row # NoRow /\ runs[i].of = rowsMade => runs[i].at <= row.last
  /\ \A i, j \in DOMAIN runs :
       i < j /\ runs[i].of = runs[j].of => runs[i].at < runs[j].at

Inv ==
  /\ ScalarOK /\ ProcessInv /\ RunsInv
  /\ local = [p \in Processes |-> local[p]] /\ task = [p \in Processes |-> task[p]]

LEMMA InvInit == Init => Inv
<1> SUFFICES ASSUME Init PROVE Inv
  OBVIOUS
<1>1. ScalarOK
  <2>1. archived \in BOOLEAN
    BY Zenon DEF Init
  <2>2. now \in 0 .. MaxTime /\ rowsMade \in 0 .. MaxRows
    BY DEF Init
  <2>3. runs \in Seq(RunRecord) /\ row = NoRow
    BY DEF Init
  <2> QED BY ONLY <2>1, <2>2, <2>3 DEF ScalarOK
<1>2. ProcessInv
  BY DEF Init, ProcessInv, TaskOK, Idle, Times
<1>3. RunsInv
  BY DEF Init, RunsInv
<1> QED BY <1>1, <1>2, <1>3 DEF Init, Inv

LEMMA InvIsTyped == Inv => TypeOK
BY DEF Inv, ScalarOK, ProcessInv, TaskOK, Sound, State, RunRecord, TypeOK

(* One process takes a step. *)
LEMMA ProcessStep ==
  ASSUME Inv, NEW p \in Processes, NEW s, NEW t,
         local' = [local EXCEPT ![p] = s], task' = [task EXCEPT ![p] = t],
         s = NoState \/ Sound(s), TaskOK(t, s)
  PROVE  /\ ProcessInv'
         /\ local' = [q \in Processes |-> local'[q]]
         /\ task' = [q \in Processes |-> task'[q]]
<1>1. \A q \in Processes : /\ local'[q] = IF q = p THEN s ELSE local[q]
                           /\ task'[q] = IF q = p THEN t ELSE task[q]
  BY DEF Inv
<1>2. ProcessInv'
  BY <1>1 DEF Inv, ProcessInv
<1>3. local' = [q \in Processes |-> local'[q]] /\ task' = [q \in Processes |-> task'[q]]
  BY DEF Inv
<1> QED BY <1>2, <1>3

(* The steps that change neither the row nor the runs.                     *)
LEMMA SameRows ==
  ASSUME Inv, UNCHANGED <<archived, row, rowsMade, runs>>, now' \in 0 .. MaxTime,
         ProcessInv',
         local' = [q \in Processes |-> local'[q]], task' = [q \in Processes |-> task'[q]]
  PROVE  Inv'
BY DEF Inv, ScalarOK, RunsInv

LEMMA IdleOK == \A s : TaskOK(Idle, s)
BY DEF TaskOK, Idle, Times

LEMMA IdleBut ==
  ASSUME NEW pc, NEW at
  PROVE  [Idle EXCEPT !.pc = pc, !.at = at] = [pc |-> pc, at |-> at, config |-> NoRow]
<1> DEFINE half == [Idle EXCEPT !.pc = pc]
<1>1. half = [pc |-> pc, at |-> None, config |-> NoRow]
  BY DEF Idle
<1> HIDE DEF half
<1>2. [half EXCEPT !.at = at] = [pc |-> pc, at |-> at, config |-> NoRow]
  BY <1>1
<1> QED BY <1>2 DEF half

LEMMA RefreshedSound ==
  ASSUME Inv, NEW p \in Processes
  PROVE  Refreshed(p) = NoState \/ Sound(Refreshed(p))
<1>1. CASE row = NoRow \/ archived
  BY <1>1, Zenon DEF Refreshed
<1>2. CASE ~(row = NoRow \/ archived)
  <2>1. row.config \in Configs /\ row.last \in Times
    BY <1>2 DEF Inv, ScalarOK
  <2>2. \/ Refreshed(p) = NewState(row.config, row.last)
        \/ Refreshed(p) = local[p]
        \/ local[p] # NoState /\ Refreshed(p) = UpdateConfig(local[p], row.config, row.last)
    BY <1>2, Zenon DEF Refreshed
  <2> QED BY <2>1, <2>2, NewStateSound DEF Inv, ProcessInv, Sound
<1> QED BY <1>1, <1>2

LEMMA BeginPassInv == ASSUME Inv, NEW p \in Processes, BeginPass(p) PROVE Inv'
<1>1. PICK ref \in {now} \cup ApiTimes : Become(p, [Idle EXCEPT !.pc = "begun", !.at = ref])
  BY DEF BeginPass
<1>2. [Idle EXCEPT !.pc = "begun", !.at = ref] = [pc |-> "begun", at |-> ref, config |-> NoRow]
  BY IdleBut
<1>3. ref \in Nat
  BY DEF Inv, ScalarOK
<1>4. TaskOK([pc |-> "begun", at |-> ref, config |-> NoRow], local[p])
  <2>1. ref # None /\ ref \in Times
    BY <1>3 DEF None, Times
  <2> QED BY ONLY <2>1 DEF TaskOK
<1>5. local' = [local EXCEPT ![p] = local[p]]
  BY DEF BeginPass, Inv
<1>6. now' \in 0 .. MaxTime
  BY DEF BeginPass, Inv, ScalarOK
<1>7. local[p] = NoState \/ Sound(local[p])
  BY DEF Inv, ProcessInv
<1> QED BY <1>1, <1>2, <1>4, <1>5, <1>6, <1>7, ProcessStep, SameRows DEF BeginPass, Become

LEMMA PlanInv == ASSUME Inv, NEW p \in Processes, Plan(p) PROVE Inv'
<1>0. now' \in 0 .. MaxTime /\ task[p].at \in Nat
  BY DEF Plan, Inv, ScalarOK, ProcessInv, TaskOK, Times
<1>1. CASE Refreshed(p) = NoState
  BY <1>0, <1>1, IdleOK, ProcessStep, SameRows DEF Plan, Become
<1>2. CASE Refreshed(p) # NoState
  <2> DEFINE s == EnsureNext(Refreshed(p), task[p].at)
             planned == [Idle EXCEPT !.pc = "planned", !.at = s.next]
  <2>1. Sound(s)
    BY <1>0, <1>2, RefreshedSound, EnsureNextSound
  <2>2. /\ local' = [local EXCEPT ![p] = s]
        /\ Become(p, Idle) \/ (IsDue(s, task[p].at) /\ Become(p, planned))
    BY <1>2, Zenon DEF Plan
  <2>3. planned = [pc |-> "planned", at |-> s.next, config |-> NoRow]
    BY IdleBut
  <2>4. s # NoState
    BY <2>1 DEF Sound, State, Times
  <2>5. UNCHANGED <<archived, row, rowsMade, runs>>
    BY DEF Plan
  <2> HIDE DEF s, planned
  <2>6. IsDue(s, task[p].at) => TaskOK(planned, s)
    BY <2>1, <2>3, <2>4 DEF IsDue, TaskOK, Sound, State
  <2> QED BY <1>0, <2>1, <2>2, <2>5, <2>6, IdleOK, ProcessStep, SameRows DEF Become
<1> QED BY <1>1, <1>2

LEMMA CheckInv == ASSUME Inv, NEW p \in Processes, CheckWorkflow(p) \/ SkipPlan(p) PROVE Inv'
<1>0. /\ now' \in 0 .. MaxTime /\ UNCHANGED <<archived, row, rowsMade, runs>>
      /\ local[p] = NoState \/ Sound(local[p])
      /\ TaskOK(task[p], local[p])
      /\ local = [local EXCEPT ![p] = local[p]]
  BY DEF CheckWorkflow, SkipPlan, Inv, ScalarOK, ProcessInv
<1>1. CASE Become(p, Idle) /\ local' \in {local, [local EXCEPT ![p] = NoState]}
  BY <1>0, <1>1, IdleOK, ProcessStep, SameRows DEF Become
<1>2. CASE /\ task[p].pc = "planned" /\ UNCHANGED local
           /\ task' = [task EXCEPT ![p].pc = "checked"]
  <2>1. TaskOK([task[p] EXCEPT !.pc = "checked"], local[p])
    BY <1>0, <1>2 DEF TaskOK
  <2> QED BY <1>0, <1>2, <2>1, ProcessStep, SameRows
<1> QED BY <1>1, <1>2 DEF CheckWorkflow, SkipPlan

LEMMA RunsAreRecords ==
  ASSUME Inv
  PROVE  \A i \in DOMAIN runs : runs[i] \in RunRecord
<1>1. runs \in Seq(RunRecord)
  BY DEF Inv, ScalarOK
<1> QED BY ONLY <1>1, ElementOfSeq

(* The steps that keep the runs: the row is deleted, inserted again or     *)
(* keeps its last dispatch.                                                *)
LEMMA SameRuns ==
  ASSUME Inv, UNCHANGED <<now, runs>>, archived' \in BOOLEAN,
         \/ row' = NoRow /\ rowsMade' = rowsMade
         \/ /\ row # NoRow /\ row' \in [config : Configs, last : Times]
            /\ row'.last = row.last /\ rowsMade' = rowsMade
         \/ /\ row' \in [config : Configs, last : Times]
            /\ rowsMade' = rowsMade + 1 /\ rowsMade < MaxRows,
         ProcessInv',
         local' = [q \in Processes |-> local'[q]], task' = [q \in Processes |-> task'[q]]
  PROVE  Inv'
<1>1. ScalarOK'
  <2>1. archived' \in BOOLEAN
    OBVIOUS
  <2>2. now' \in 0 .. MaxTime /\ runs' \in Seq(RunRecord)
    BY DEF Inv, ScalarOK
  <2>3. /\ rowsMade' \in 0 .. MaxRows
        /\ row' = NoRow \/ row' \in [config : Configs, last : Times]
        /\ row' # NoRow => rowsMade' > 0
    BY DEF Inv, ScalarOK
  <2> QED BY ONLY <2>1, <2>2, <2>3 DEF ScalarOK
<1>2. RunsInv'
  <2>1. rowsMade \in Nat /\ \A i \in DOMAIN runs : runs[i].of \in Nat
    BY RunsAreRecords DEF Inv, ScalarOK, RunRecord
  <2>2. \A i \in DOMAIN runs : runs[i].of <= rowsMade'
    BY <2>1 DEF Inv, RunsInv
  <2>3. \A i \in DOMAIN runs :
          row' # NoRow /\ runs[i].of = rowsMade' => runs[i].at <= row'.last
    BY <2>1 DEF Inv, RunsInv
  <2> QED BY <2>2, <2>3 DEF Inv, RunsInv
<1> QED BY <1>1, <1>2 DEF Inv

LEMMA CreateRunInv == ASSUME Inv, NEW p \in Processes, CreateRun(p) PROVE Inv'
<1>1. CASE ~Accepts(p)
  <2>1. /\ UNCHANGED <<archived, row, rowsMade, runs>> /\ now' \in 0 .. MaxTime
        /\ local' = [local EXCEPT ![p] = local[p]]
        /\ task' = [task EXCEPT ![p] = Idle]
        /\ local[p] = NoState \/ Sound(local[p])
    BY <1>1 DEF CreateRun, Become, Inv, ScalarOK, ProcessInv
  <2> QED BY <2>1, IdleOK, ProcessStep, SameRows
<1>2. CASE Accepts(p)
  <2> DEFINE t == task[p].at
             r == NewRun(p)
  <2>1. /\ local[p] # NoState /\ Sound(local[p]) /\ local[p].next = t
        /\ t \in Nat /\ Due(row.config, t)
    <3>1. local[p] # NoState /\ Sound(local[p]) /\ local[p].next = t /\ t # None
      BY DEF CreateRun, Inv, ProcessInv, TaskOK
    <3>2. Due(row.config, t)
      BY <1>2, <3>1 DEF Accepts, Sound
    <3> QED BY <3>1, <3>2 DEF Due
  <2>2. /\ row # NoRow /\ row \in [config : Configs, last : Times]
        /\ row.last = None \/ row.last < t
        /\ rowsMade \in 1 .. MaxRows
    BY <1>2 DEF Accepts, Inv, ScalarOK
  <2>3. r \in RunRecord /\ r.at = t /\ r.of = rowsMade /\ r.config = row.config
    BY <2>1, <2>2 DEF NewRun, RunRecord
  <2>4. /\ UNCHANGED <<now, archived, rowsMade>>
        /\ runs' = Append(runs, r)
        /\ row' = [row EXCEPT !.last = t]
    BY <1>2 DEF CreateRun
  <2>5. \E s : /\ s = NoState \/ Sound(s)
               /\ local' = [local EXCEPT ![p] = s] /\ task' = [task EXCEPT ![p] = Idle]
    <3>1. \/ local' = [local EXCEPT ![p] = local[p]]
          \/ local' = [local EXCEPT ![p] = Consume(local[p])]
      BY <1>2 DEF CreateRun, Inv
    <3>2. Sound(Consume(local[p]))
      BY <2>1, ConsumeSound DEF None
    <3> QED BY <2>1, <3>1, <3>2 DEF CreateRun, Become
  <2>6. /\ ProcessInv'
        /\ local' = [q \in Processes |-> local'[q]]
        /\ task' = [q \in Processes |-> task'[q]]
    BY <2>5, IdleOK, ProcessStep
  <2>7. row' \in [config : Configs, last : Times] /\ row'.last = t
    BY <2>1, <2>2, <2>4 DEF Times
  <2> HIDE DEF r, t
  <2>8. /\ runs \in Seq(RunRecord) /\ runs' \in Seq(RunRecord)
        /\ Len(runs) \in Nat /\ Len(runs') = Len(runs) + 1
        /\ DOMAIN runs = 1 .. Len(runs) /\ DOMAIN runs' = 1 .. Len(runs) + 1
        /\ \A i \in DOMAIN runs : runs[i] \in RunRecord /\ runs'[i] = runs[i]
        /\ runs'[Len(runs) + 1] = r
    BY <2>3, <2>4, AppendProperties, LenProperties DEF Inv, ScalarOK
  <2>9. ScalarOK'
    <3>1. archived' \in BOOLEAN
      BY <2>4, Zenon DEF Inv, ScalarOK
    <3>2. now' \in 0 .. MaxTime /\ rowsMade' \in 0 .. MaxRows /\ rowsMade' > 0
      BY <2>2, <2>4 DEF Inv, ScalarOK
    <3> QED BY ONLY <2>7, <2>8, <3>1, <3>2, Zenon DEF ScalarOK
  <2>10. \A i \in DOMAIN runs : /\ runs[i].at \in Nat /\ runs[i].of \in Nat
                                /\ runs[i].of <= rowsMade
                                /\ Due(runs[i].config, runs[i].at)
                                /\ runs[i].of = rowsMade => runs[i].at < t
    <3>1. \A i \in DOMAIN runs : runs[i].at \in Nat /\ runs[i].of \in Nat
      BY ONLY <2>8 DEF RunRecord
    <3>2. \A i \in DOMAIN runs : runs[i].of = rowsMade => runs[i].at <= row.last
      BY <2>2 DEF Inv, RunsInv
    <3>3. row.last \in Nat \/ row.last = -1
      BY <2>2 DEF Times, None
    <3>4. \A i \in DOMAIN runs : runs[i].of = rowsMade => runs[i].at < t
      BY <2>1, <2>2, <3>1, <3>2, <3>3 DEF None, t
    <3> QED BY <3>1, <3>4 DEF Inv, RunsInv
  <2>11. RunsInv'
    <3>1. ASSUME NEW i \in DOMAIN runs'
          PROVE  /\ Due(runs'[i].config, runs'[i].at)
                 /\ runs'[i].of <= rowsMade'
                 /\ runs'[i].of = rowsMade' => runs'[i].at <= row'.last
      <4>1. CASE i \in DOMAIN runs
        BY <2>1, <2>4, <2>7, <2>8, <2>10, <4>1 DEF t
      <4>2. CASE i = Len(runs) + 1
        <5>1. runs'[i].at = t /\ runs'[i].of = rowsMade /\ runs'[i].config = row.config
          BY ONLY <2>3, <2>8, <4>2
        <5>2. t \in Nat /\ Due(row.config, t)
          BY ONLY <2>1 DEF t
        <5>3. rowsMade' = rowsMade /\ rowsMade \in Nat /\ row'.last = t
          BY <2>2, <2>4, <2>7
        <5> QED BY ONLY <5>1, <5>2, <5>3
      <4> QED BY <2>8, <4>1, <4>2
    <3>2. ASSUME NEW i \in DOMAIN runs', NEW j \in DOMAIN runs',
                 i < j, runs'[i].of = runs'[j].of
          PROVE  runs'[i].at < runs'[j].at
      <4>1. CASE j \in DOMAIN runs
        <5>1. i \in DOMAIN runs /\ runs'[i] = runs[i] /\ runs'[j] = runs[j]
          BY ONLY <2>8, <3>2, <4>1
        <5>2. runs[i].of = runs[j].of => runs[i].at < runs[j].at
          BY <3>2, <4>1, <5>1 DEF Inv, RunsInv
        <5> QED BY ONLY <3>2, <5>1, <5>2
      <4>2. CASE j = Len(runs) + 1
        BY <2>3, <2>8, <2>10, <3>2, <4>2
      <4> QED BY <2>8, <4>1, <4>2
    <3> QED BY <3>1, <3>2 DEF RunsInv
  <2> QED BY <2>6, <2>9, <2>11 DEF Inv
<1> QED BY <1>1, <1>2

LEMMA ConfigureInv ==
  ASSUME Inv, NEW p \in Processes,
         (\E c \in Configs : BeginConfigure(p, c)) \/ Configure(p)
  PROVE  Inv'
<1>1. ASSUME NEW c \in Configs, BeginConfigure(p, c) PROVE Inv'
  <2>1. [Idle EXCEPT !.pc = "configuring", !.config = c]
          = [pc |-> "configuring", at |-> None, config |-> c]
    <3> DEFINE half == [Idle EXCEPT !.pc = "configuring"]
    <3>1. half = [pc |-> "configuring", at |-> None, config |-> NoRow]
      BY DEF Idle
    <3> HIDE DEF half
    <3>2. [half EXCEPT !.config = c] = [pc |-> "configuring", at |-> None, config |-> c]
      BY <3>1
    <3> QED BY <3>2 DEF half
  <2>2. TaskOK([pc |-> "configuring", at |-> None, config |-> c], local[p])
    BY DEF TaskOK, Times
  <2>3. /\ now' \in 0 .. MaxTime /\ UNCHANGED <<archived, row, rowsMade, runs>>
        /\ local[p] = NoState \/ Sound(local[p])
        /\ local' = [local EXCEPT ![p] = local[p]]
    BY <1>1 DEF BeginConfigure, Inv, ScalarOK, ProcessInv
  <2> QED BY <1>1, <2>1, <2>2, <2>3, ProcessStep, SameRows DEF BeginConfigure, Become
<1>2. ASSUME Configure(p) PROVE Inv'
  <2> DEFINE c == task[p].config
             s == IF local[p] = NoState THEN NewState(c, None)
                  ELSE UpdateConfig(local[p], c, None)
  <2>1. c \in Configs
    BY <1>2 DEF Configure, Inv, ProcessInv, TaskOK
  <2>2. Sound(s)
    BY <2>1, NewStateSound DEF Inv, ProcessInv, Sound, Times
  <2>3. /\ local' = [local EXCEPT ![p] = s] /\ task' = [task EXCEPT ![p] = Idle]
        /\ UNCHANGED <<now, archived, runs>>
    BY <1>2 DEF Configure, Become
  <2>4. archived' \in BOOLEAN
    BY <2>3, Zenon DEF Inv, ScalarOK
  <2>5. \/ row' = NoRow /\ rowsMade' = rowsMade
        \/ /\ row # NoRow /\ row' \in [config : Configs, last : Times]
           /\ row'.last = row.last /\ rowsMade' = rowsMade
        \/ /\ row' \in [config : Configs, last : Times]
           /\ rowsMade' = rowsMade + 1 /\ rowsMade < MaxRows
    BY <1>2, <2>1 DEF Configure, Inv, ScalarOK, Times
  <2> HIDE DEF s
  <2>6. /\ ProcessInv'
        /\ local' = [q \in Processes |-> local'[q]]
        /\ task' = [q \in Processes |-> task'[q]]
    BY <2>2, <2>3, IdleOK, ProcessStep
  <2> QED BY <2>3, <2>4, <2>5, <2>6, SameRuns
<1> QED BY <1>1, <1>2

LEMMA DropInv ==
  ASSUME Inv, NEW p \in Processes, DeleteTrigger(p) \/ ArchiveWorkflow(p) \/ Restart(p)
  PROVE  Inv'
<1>1. CASE DeleteTrigger(p) \/ ArchiveWorkflow(p)
  <2>1. archived' \in BOOLEAN
    BY <1>1, Zenon DEF DeleteTrigger, ArchiveWorkflow, Inv, ScalarOK
  <2>2. /\ row' = NoRow /\ UNCHANGED <<now, rowsMade, runs>>
        /\ local' = [local EXCEPT ![p] = NoState]
        /\ task' = [task EXCEPT ![p] = task[p]]
        /\ task[p].pc = "idle"
    BY <1>1 DEF DeleteTrigger, ArchiveWorkflow, Inv
  <2>3. TaskOK(task[p], NoState)
    BY <2>2 DEF Inv, ProcessInv, TaskOK
  <2> QED BY <2>1, <2>2, <2>3, ProcessStep, SameRuns
<1>2. CASE Restart(p)
  BY <1>2, IdleOK, ProcessStep, SameRows DEF Restart, Become, Inv, ScalarOK
<1> QED BY <1>1, <1>2

LEMMA EnvironmentInv ==
  ASSUME Inv, UnarchiveWorkflow \/ Tick \/ (\E i \in DOMAIN runs : EndRun(i))
              \/ UNCHANGED vars
  PROVE  Inv'
<1>1. /\ ProcessInv' /\ UNCHANGED <<row, rowsMade, local, task>>
      /\ local' = [q \in Processes |-> local'[q]] /\ task' = [q \in Processes |-> task'[q]]
  BY DEF UnarchiveWorkflow, Tick, EndRun, vars, Inv, ProcessInv
<1>2. archived' \in BOOLEAN
  BY Zenon DEF UnarchiveWorkflow, Tick, EndRun, vars, Inv, ScalarOK
<1>3. now' \in 0 .. MaxTime
  BY DEF UnarchiveWorkflow, Tick, EndRun, vars, Inv, ScalarOK
<1>4. CASE UNCHANGED runs
  <2>1. ScalarOK'
    BY <1>1, <1>2, <1>3, <1>4 DEF Inv, ScalarOK
  <2>2. RunsInv'
    BY <1>1, <1>4 DEF Inv, RunsInv
  <2> QED BY <1>1, <2>1, <2>2 DEF Inv
<1>5. ASSUME NEW i \in DOMAIN runs, EndRun(i) PROVE Inv'
  <2> DEFINE r == [runs[i] EXCEPT !.active = FALSE]
  <2>1. runs \in Seq(RunRecord)
    BY DEF Inv, ScalarOK
  <2>2. r \in RunRecord /\ r.at = runs[i].at /\ r.of = runs[i].of
          /\ r.config = runs[i].config
    BY RunsAreRecords DEF RunRecord
  <2>3. runs' = [runs EXCEPT ![i] = r]
    BY <1>5 DEF EndRun
  <2> HIDE DEF r
  <2>4. /\ runs' \in Seq(RunRecord) /\ DOMAIN runs' = DOMAIN runs
        /\ \A j \in DOMAIN runs : /\ runs'[j].at = runs[j].at /\ runs'[j].of = runs[j].of
                                  /\ runs'[j].config = runs[j].config
    BY <2>1, <2>2, <2>3, ExceptSeq
  <2>5. ScalarOK'
    BY <1>1, <1>2, <1>3, <2>4 DEF Inv, ScalarOK
  <2>6. RunsInv'
    BY <1>1, <2>4 DEF Inv, RunsInv
  <2> QED BY <1>1, <2>5, <2>6 DEF Inv
<1> QED BY <1>4, <1>5 DEF UnarchiveWorkflow, Tick, vars

LEMMA InvNext == Inv /\ [Next]_vars => Inv'
<1> SUFFICES ASSUME Inv, [Next]_vars PROVE Inv'
  OBVIOUS
<1>1. ASSUME NEW p \in Processes, Dispatch(p) PROVE Inv'
  BY <1>1, BeginPassInv, PlanInv, CheckInv, CreateRunInv DEF Dispatch
<1>2. ASSUME NEW p \in Processes, Operate(p) PROVE Inv'
  BY <1>2, ConfigureInv, DropInv DEF Operate
<1> QED BY <1>1, <1>2, EnvironmentInv DEF Next

-----------------------------------------------------------------------------
(* Theorems.                                                               *)

LEMMA InvAlways == Spec => []Inv
BY InvInit, InvNext, PTL DEF Spec

(* Type correctness: every process's copy and plan, the row and the runs.  *)
THEOREM TypeCorrect == Spec => []TypeOK
BY InvAlways, InvIsTyped, PTL

(* Whatever stale copy a dispatcher planned from, the run it creates in    *)
(* _create_cron_run_once is for an occurrence of the schedule in the row,  *)
(* in every zone.                                                          *)
THEOREM RunsAreOccurrencesAlways == Spec => []RunsAreOccurrences
<1>1. ASSUME Inv PROVE RunsAreOccurrences
  <2> SUFFICES ASSUME NEW i \in DOMAIN runs
               PROVE  LET c == runs[i].config IN
                      \E l \in {runs[i].at, runs[i].at + c.zone.shift} :
                        /\ l = Local(c, runs[i].at) \/ runs[i].at = Instant(c, l, FALSE)
                        /\ Matches(c, l)
                        /\ c.start # None => l >= Local(c, c.start)
                        /\ c.end # None => l <= Local(c, c.end)
    BY DEF RunsAreOccurrences
  <2> DEFINE c == runs[i].config
             t == runs[i].at
  <2>1. c \in Configs
    BY <1>1, RunsAreRecords DEF RunRecord
  <2>2. Due(c, t)
    BY <1>1 DEF Inv, RunsInv
  <2> HIDE DEF c, t
  <2>3. t \in Nat /\ \E l \in Nat : Names(c, t, l)
    BY <2>2 DEF Due
  <2>4. PICK l \in Nat : Names(c, t, l)
    BY <2>3
  <2>5. l = t \/ l = t + c.zone.shift
    <3>1. c.zone.shift \in Int
      BY <2>1 DEF IsSchedule
    <3> QED BY <2>3, <2>4, <3>1 DEF Names, Local, Instant
  <2>6. \E k \in {t, t + c.zone.shift} :
          /\ k = Local(c, t) \/ t = Instant(c, k, FALSE)
          /\ Matches(c, k)
          /\ c.start # None => k >= Local(c, c.start)
          /\ c.end # None => k <= Local(c, c.end)
    BY <2>4, <2>5, Zenon DEF Names, Fires
  <2> QED BY <2>6 DEF c, t
<1> QED BY <1>1, InvAlways, PTL

(* Where every schedule has a start and its times are whole minutes, an    *)
(* occurrence gets one run however many dispatchers poll: the row lock     *)
(* orders them, and last_dispatched_at refuses what is not later.          *)
THEOREM OneRunPerOccurrenceAlways ==
  ASSUME \A c \in Configs : Whole(c)
  PROVE  Spec => []OneRunPerOccurrence
<1>1. ASSUME Inv PROVE OneRunPerOccurrence
  <2> SUFFICES ASSUME NEW i \in DOMAIN runs, NEW j \in DOMAIN runs,
                      i < j, runs[i].of = runs[j].of
               PROVE  runs[i].at \div Minute < runs[j].at \div Minute
    BY DEF OneRunPerOccurrence
  <2> DEFINE a == runs[i].at
             b == runs[j].at
  <2>1. a \in Nat /\ b \in Nat /\ a < b
    BY <1>1 DEF Inv, RunsInv, Due
  <2>2. runs[i].config \in Configs /\ runs[j].config \in Configs
    BY <1>1, RunsAreRecords DEF RunRecord
  <2>3. Due(runs[i].config, a) /\ Due(runs[j].config, b)
    BY <1>1 DEF Inv, RunsInv
  <2> HIDE DEF a, b
  <2>4. a % Minute = 0 /\ b % Minute = 0
    BY ONLY <2>2, <2>3, \A c \in Configs : Whole(c) DEF Due
  <2>5. Minute \in Nat \ {0}
    OBVIOUS
  <2>6. a \div Minute < b \div Minute
    BY ONLY <2>1, <2>4, <2>5, LaterMinute
  <2> QED BY <2>6 DEF a, b
<1> QED BY <1>1, InvAlways, PTL

(* An hour that the clocks repeat is dispatched in its first pass: of a    *)
(* schedule with a start_at, only a run for start_at itself, which         *)
(* next_after returns with its fold, is in the second one.                 *)
THEOREM SecondPassOnlyStarts ==
  Spec => [](\A i \in DOMAIN runs :
               LET c == runs[i].config IN
               c.start # None /\ SecondReading(c, runs[i].at) => runs[i].at = c.start)
<1>1. Inv => \A i \in DOMAIN runs :
               LET c == runs[i].config IN
               c.start # None /\ SecondReading(c, runs[i].at) => runs[i].at = c.start
  BY DEF Inv, RunsInv, Due
<1> QED BY <1>1, InvAlways, PTL

(* The check of active runs is made under the row lock and on the row's    *)
(* configuration, so no other dispatcher's run comes between.              *)
THEOREM NoOverlapAlways == Spec => NoOverlap
<1> DEFINE Step == \A p \in Processes :
                     Len(runs') > Len(runs) /\ ~row.config.overlap => NoActiveRun
<1>1. Inv /\ [Next]_vars => [Step]_vars
  <2> SUFFICES ASSUME Inv, Next, Len(runs') > Len(runs), ~row.config.overlap
               PROVE  NoActiveRun
    OBVIOUS
  <2>1. runs \in Seq(RunRecord) /\ Len(runs) \in Nat
    BY DEF Inv, ScalarOK
  <2>2. runs' # runs
    BY <2>1
  <2>3. CASE \E p \in Processes : CreateRun(p)
    BY <2>2, <2>3 DEF CreateRun, Accepts
  <2>4. CASE \E i \in DOMAIN runs : EndRun(i)
    BY <2>1, <2>4 DEF EndRun
  <2> QED BY <2>2, <2>3, <2>4 DEF Next, Dispatch, Operate, BeginPass, Plan, CheckWorkflow,
        SkipPlan, BeginConfigure, Configure, DeleteTrigger, ArchiveWorkflow, Restart,
        UnarchiveWorkflow, Tick
<1> QED BY <1>1, InvAlways, PTL DEF Spec, NoOverlap

-----------------------------------------------------------------------------
(* No copy keeps a due occurrence from being planned.                      *)

(* The next time of a copy is what follows its last one.                   *)
Chained(s) ==
  s.last # None /\ s.next # None => s.next = NextAfter(s.config, s.last, FALSE)

ChainInv == \A p \in Processes : local[p] # NoState => Chained(local[p])

LEMMA UnplannedChained ==
  ASSUME NEW c, NEW last, NEW s
  PROVE  Chained(NewState(c, last)) /\ Chained(UpdateConfig(s, c, last))
BY DEF Chained, NewState, UpdateConfig

LEMMA EnsureNextChained ==
  ASSUME NEW s, Sound(s), Chained(s), NEW ref
  PROVE  /\ Chained(EnsureNext(s, ref))
         /\ s.last # None => EnsureNext(s, ref).next = NextAfter(s.config, s.last, FALSE)
<1> DEFINE c == s.config
           n == IF s.last # None THEN NextAfter(c, s.last, FALSE)
                ELSE NextAfter(c, IF c.start # None THEN c.start ELSE ref, TRUE)
<1>1. CASE s.next # None
  BY <1>1 DEF EnsureNext, Chained
<1>2. CASE s.next = None
  <2>1. EnsureNext(s, ref) = [s EXCEPT !.next = n]
    BY <1>2 DEF EnsureNext
  <2>2. s \in State
    BY DEF Sound
  <2>3. s.last # None => n = NextAfter(c, s.last, FALSE)
    OBVIOUS
  <2> HIDE DEF n
  <2>4. /\ EnsureNext(s, ref).config = s.config /\ EnsureNext(s, ref).last = s.last
        /\ EnsureNext(s, ref).next = n
    BY <2>1, <2>2 DEF State
  <2> QED BY <2>3, <2>4 DEF Chained
<1> QED BY <1>1, <1>2

LEMMA ConsumeChained ==
  ASSUME NEW s, Sound(s)
  PROVE  Chained(Consume(s))
<1> DEFINE n == NextAfter(s.config, s.next, FALSE)
           half == [s EXCEPT !.last = s.next]
<1>1. s \in State
  BY DEF Sound
<1>2. Consume(s) = [half EXCEPT !.next = n]
  BY DEF Consume
<1>3. half.config = s.config /\ half.last = s.next /\ half \in State
  BY <1>1 DEF State
<1>4. n = NextAfter(s.config, s.next, FALSE)
  OBVIOUS
<1> HIDE DEF n, half
<1>5. Consume(s).config = s.config /\ Consume(s).last = s.next /\ Consume(s).next = n
  BY <1>2, <1>3 DEF State
<1> QED BY <1>4, <1>5 DEF Chained

(* A refreshed copy is the row's: its configuration, and its last dispatch *)
(* once the row has one.                                                   *)
LEMMA RefreshedFollows ==
  ASSUME Inv, ChainInv, NEW p \in Processes, Refreshed(p) # NoState
  PROVE  /\ Sound(Refreshed(p)) /\ Chained(Refreshed(p))
         /\ Refreshed(p).config = row.config
         /\ row.last # None => Refreshed(p).last = row.last
<1>1. row # NoRow /\ ~archived
  BY Zenon DEF Refreshed
<1>2. \/ Refreshed(p) = NewState(row.config, row.last)
      \/ /\ local[p] # NoState /\ Refreshed(p) = local[p]
         /\ local[p].config = row.config /\ local[p].last = row.last
      \/ Refreshed(p) = UpdateConfig(local[p], row.config, row.last)
  BY <1>1, Zenon DEF Refreshed
<1>3. Sound(Refreshed(p))
  BY RefreshedSound
<1>4. Chained(Refreshed(p))
  BY <1>2, UnplannedChained DEF ChainInv
<1>5. /\ NewState(row.config, row.last).config = row.config
      /\ NewState(row.config, row.last).last = row.last
      /\ UpdateConfig(local[p], row.config, row.last).config = row.config
      /\ row.last # None => UpdateConfig(local[p], row.config, row.last).last = row.last
  BY DEF NewState, UpdateConfig
<1> QED BY <1>2, <1>3, <1>4, <1>5

LEMMA ChainNext ==
  ASSUME Inv, ChainInv, [Next]_vars
  PROVE  ChainInv'
<1>1. ASSUME NEW p \in Processes, NEW s, local' = [local EXCEPT ![p] = s],
             s # NoState => Chained(s)
      PROVE  ChainInv'
  <2>1. \A q \in Processes : local'[q] = s \/ local'[q] = local[q]
    BY <1>1
  <2>2. ASSUME NEW q \in Processes, local'[q] # NoState PROVE Chained(local'[q])
    BY <1>1, <2>1, <2>2 DEF ChainInv
  <2> QED BY <2>2 DEF ChainInv
<1>2. ASSUME UNCHANGED local PROVE ChainInv'
  BY <1>2 DEF ChainInv
<1>3. ASSUME NEW p \in Processes, Plan(p) PROVE ChainInv'
  <2> DEFINE s == EnsureNext(Refreshed(p), task[p].at)
  <2>1. CASE Refreshed(p) = NoState
    <3>1. local' = [local EXCEPT ![p] = NoState]
      BY <1>3, <2>1, Zenon DEF Plan
    <3> QED BY <1>1, <3>1
  <2>2. CASE Refreshed(p) # NoState
    <3>1. local' = [local EXCEPT ![p] = s]
      BY <1>3, <2>2, Zenon DEF Plan
    <3>2. Chained(s)
      BY <2>2, RefreshedFollows, EnsureNextChained
    <3> HIDE DEF s
    <3> QED BY <1>1, <3>1, <3>2
  <2> QED BY <2>1, <2>2
<1>4. ASSUME NEW p \in Processes, CreateRun(p) PROVE ChainInv'
  <2>1. /\ local[p] # NoState /\ Sound(local[p])
        /\ UNCHANGED local \/ local' = [local EXCEPT ![p] = Consume(local[p])]
    BY <1>4 DEF CreateRun, Inv, ProcessInv, TaskOK
  <2>2. Chained(Consume(local[p]))
    BY <2>1, ConsumeChained
  <2> QED BY <1>1, <1>2, <2>1, <2>2
<1>5. ASSUME NEW p \in Processes, Configure(p) PROVE ChainInv'
  <2> DEFINE c == task[p].config
             s == IF local[p] = NoState THEN NewState(c, None)
                  ELSE UpdateConfig(local[p], c, None)
  <2>1. local' = [local EXCEPT ![p] = s]
    BY <1>5 DEF Configure
  <2>2. Chained(s)
    BY UnplannedChained
  <2> HIDE DEF s
  <2> QED BY <1>1, <2>1, <2>2
<1>6. ASSUME NEW p \in Processes, local' = [local EXCEPT ![p] = NoState] PROVE ChainInv'
  BY <1>1, <1>6
<1> QED
  <2>1. ASSUME NEW p \in Processes, Dispatch(p) PROVE ChainInv'
    BY <1>2, <1>3, <1>4, <1>6, <2>1 DEF Dispatch, BeginPass, SkipPlan, CheckWorkflow
  <2>2. ASSUME NEW p \in Processes, Operate(p) PROVE ChainInv'
    BY <1>2, <1>5, <1>6, <2>2
    DEF Operate, BeginConfigure, DeleteTrigger, ArchiveWorkflow, Restart
  <2>3. CASE UnarchiveWorkflow \/ Tick \/ (\E i \in DOMAIN runs : EndRun(i)) \/ UNCHANGED vars
    BY <1>2, <2>3 DEF UnarchiveWorkflow, Tick, EndRun, vars
  <2> QED BY <2>1, <2>2, <2>3 DEF Next

LEMMA ChainAlways == Spec => []ChainInv
<1>1. Inv /\ ChainInv /\ [Next]_vars => ChainInv'
  BY ChainNext
<1>2. Init => ChainInv
  BY DEF Init, ChainInv
<1> QED BY <1>1, <1>2, InvAlways, PTL DEF Spec

(* What DueIsDispatched rests on: whatever copy a dispatcher holds, stale  *)
(* or ahead of the row, its pass refreshes it so that the occurrence that  *)
(* follows the row's last dispatch is planned once it is due and no active *)
(* run forbids it.  No copy stays on a time that the row has passed.       *)
THEOREM DueIsPlanned ==
  Spec => [][\A p \in Processes :
               LET next == NextAfter(row.config, row.last, FALSE) IN
               /\ Plan(p) /\ row # NoRow /\ ~archived /\ row.last # None
               /\ row.config.overlap \/ NoActiveRun
               /\ next # None /\ next <= task[p].at
               => task'[p].pc = "planned" /\ task'[p].at = next]_vars
<1> DEFINE Step == \A p \in Processes :
                     LET next == NextAfter(row.config, row.last, FALSE) IN
                     /\ Plan(p) /\ row # NoRow /\ ~archived /\ row.last # None
                     /\ row.config.overlap \/ NoActiveRun
                     /\ next # None /\ next <= task[p].at
                     => task'[p].pc = "planned" /\ task'[p].at = next
<1>1. Inv /\ ChainInv /\ [Next]_vars => [Step]_vars
  <2> DEFINE n == NextAfter(row.config, row.last, FALSE)
  <2> SUFFICES ASSUME Inv, ChainInv, NEW p \in Processes,
                      Plan(p), row # NoRow, ~archived, row.last # None,
                      row.config.overlap \/ NoActiveRun, n # None, n <= task[p].at
               PROVE  task'[p].pc = "planned" /\ task'[p].at = n
    OBVIOUS
  <2> DEFINE old == Refreshed(p)
             s == EnsureNext(old, task[p].at)
             planned == [Idle EXCEPT !.pc = "planned", !.at = s.next]
  <2>1. old # NoState
    <3>1. local[p] # NoState => Sound(local[p])
      BY DEF Inv, ProcessInv
    <3>2. row.config \in Configs /\ row.last \in Times
      BY DEF Inv, ScalarOK
    <3>3. \/ old = NewState(row.config, row.last)
          \/ local[p] # NoState /\ old = local[p]
          \/ local[p] # NoState /\ old = UpdateConfig(local[p], row.config, row.last)
      BY Zenon DEF Refreshed
    <3>4. Sound(old)
      BY <3>1, <3>2, <3>3, NewStateSound DEF Sound
    <3> QED BY <3>4 DEF Sound, State, Times
  <2>2. Sound(old) /\ Chained(old) /\ old.config = row.config /\ old.last = row.last
    BY <2>1, RefreshedFollows
  <2>3. s.next = n /\ s.config = row.config
    <3>1. s.next = n
      BY <2>2, EnsureNextChained
    <3>2. s.config = old.config
      <4>1. old \in State
        BY <2>2 DEF Sound
      <4> QED BY <4>1 DEF EnsureNext, State
    <3> QED BY <2>2, <3>1, <3>2
  <2>4. planned = [pc |-> "planned", at |-> s.next, config |-> NoRow]
    BY IdleBut
  <2>5. IF IsDue(s, task[p].at) /\ (s.config.overlap \/ NoActiveRun)
        THEN Become(p, planned) ELSE Become(p, Idle)
    BY <2>1, Zenon DEF Plan
  <2> HIDE DEF s, planned, n
  <2>6. IsDue(s, task[p].at)
    BY <2>3 DEF IsDue
  <2>7. Become(p, planned)
    BY <2>3, <2>5, <2>6, Zenon
  <2>8. task'[p] = planned
    BY <2>7 DEF Become, Inv
  <2> QED BY <2>3, <2>4, <2>8
<1> QED BY <1>1, InvAlways, ChainAlways, PTL DEF Spec

-----------------------------------------------------------------------------
(* Schedules go on.                                                        *)

LEMMA NextIsLater ==
  ASSUME NEW c \in Configs, NEW u \in Nat, ~SecondReading(c, u),
         NextAfter(c, u, FALSE) # None
  PROVE  NextAfter(c, u, FALSE) > u
<1> DEFINE t == NextAfter(c, u, FALSE)
<1>1. IsSchedule(c)
  OBVIOUS
<1>2. t \in Nat /\ \E l \in Nat :
        /\ t = Instant(c, l, FALSE) \/ l = Local(c, t)
        /\ l > Local(c, u)
  BY <1>1, NextReads
<1> SUFFICES t > u
  OBVIOUS
<1> HIDE DEF t
<1>3. PICK l \in Nat : (t = Instant(c, l, FALSE) \/ l = Local(c, t)) /\ l > Local(c, u)
  BY <1>2
<1>4. CASE t = Instant(c, l, FALSE)
  <2>1. Instant(c, l, FALSE) > u
    BY <1>1, <1>3, LaterInstant
  <2> QED BY <1>4, <2>1, Zenon
<1>5. CASE l = Local(c, t)
  <2>1. t < u => Local(c, t) < Local(c, u)
    BY <1>1, <1>2, LaterLocal
  <2>2. Local(c, t) \in Nat /\ Local(c, u) \in Nat
    BY <1>1, <1>2, LocalTimes
  <2>3. t \in Nat /\ t # u
    BY <1>2, <1>3, <1>5, <2>2
  <2> QED BY ONLY <1>3, <1>5, <2>1, <2>2, <2>3, u \in Nat
<1> QED BY <1>3, <1>4, <1>5

(* A plan made from the row as it is now is for a later time than the last *)
(* dispatch, whatever the zones are, and however copies and rows are       *)
(* refreshed, configured and created again: only a last dispatch that lies *)
(* in the second pass of an hour that the row's zone repeats makes the     *)
(* comparison with last_dispatched_at refuse a schedule on every pass.     *)
THEOREM PlansGoOnAlways == Spec => []PlansGoOn
<1>1. ASSUME Inv, ChainInv PROVE PlansGoOn
  <2> SUFFICES ASSUME NEW p \in Processes, task[p].pc \in {"planned", "checked"},
                      row # NoRow, local[p].config = row.config,
                      local[p].last = row.last, row.last # None,
                      ~SecondReading(row.config, row.last)
               PROVE  row.last < task[p].at
    BY DEF PlansGoOn
  <2>1. /\ local[p] # NoState /\ local[p].next = task[p].at /\ task[p].at # None
        /\ local[p] \in State /\ Chained(local[p])
    BY <1>1 DEF Inv, ProcessInv, TaskOK, Sound, ChainInv
  <2>2. task[p].at = NextAfter(row.config, row.last, FALSE)
    BY <2>1 DEF Chained
  <2>3. row.config \in Configs /\ row.last \in Nat
    BY <2>1 DEF State, Times
  <2> QED BY <2>1, <2>2, <2>3, NextIsLater
<1> QED BY <1>1, InvAlways, ChainAlways, PTL
=============================================================================
