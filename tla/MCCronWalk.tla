----------------------------- MODULE MCCronWalk -----------------------------
(* CronWalk on small instances; a minute is two ticks long.                *)
EXTENDS CronWalk

(* Clocks that never change, and ones that go forward or back by an hour   *)
(* that is shorter or longer than the period, at an occurrence or not.     *)
Zones == {UTC} \cup [at : {12, 14}, shift : {4, -4}]

Periods == {2, 4, 6, 8}

Windows == {<<None, None>>, <<0, None>>, <<6, None>>, <<4, 20>>, <<None, 14>>,
            <<14, None>>}

Zoned ==
  {[period |-> p, zone |-> z, start |-> w[1], end |-> w[2], overlap |-> FALSE] :
     p \in Periods, z \in Zones, w \in Windows}
=============================================================================
