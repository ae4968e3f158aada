--------------------------- MODULE MCCronDispatch ---------------------------
(* CronDispatch on small instances; a minute is two ticks long.            *)
EXTENDS CronDispatch, TLC

Schedule(period, start, end, overlap) ==
  [period |-> period, zone |-> UTC, start |-> start, end |-> end, overlap |-> overlap]

(* Schedules with a start: one that protects against overlap, ends and     *)
(* has its clocks skip an occurrence; one that allows overlap and starts   *)
(* in the second pass of an hour that is repeated.                         *)
Windowed == {[Schedule(2, 0, 2, FALSE) EXCEPT !.zone = [at |-> 2, shift |-> 2]],
             [Schedule(2, 4, None, TRUE) EXCEPT !.zone = [at |-> 4, shift |-> -4]]}
Started  == {Schedule(4, 0, None, FALSE), Schedule(2, 0, None, TRUE)}
Guarded  == {Schedule(4, 0, None, FALSE)}

(* A schedule without a start that allows overlap. *)
Open == {Schedule(4, None, None, TRUE)}

Symmetry == Permutations(Processes)
=============================================================================
