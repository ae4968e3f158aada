------------------------------- MODULE MCCron -------------------------------
(***************************************************************************)
(* The cron schedules in one run, on both sides of CronSchedule, and the   *)
(* quota their runs share with all others: a behaviour is one of           *)
(* CronDispatch, where many dispatchers share a few schedules, one of      *)
(* CronWalk, where one dispatcher walks along many, or one of RunQuota,    *)
(* whose refusals CronDispatch has as a way to skip a plan.  The three do  *)
(* not interact: the variables of the others stay as they are.             *)
(***************************************************************************)
EXTENDS MCCronDispatch, MCCronWalk, RunQuota

VARIABLE part

cronVars == <<vars, walkVars, quotaVars, part>>

(* A dispatcher that has a schedule and never looks at it.                 *)
NoWalk == clock = 0 /\ walked = NewState(CHOOSE c \in Schedules : TRUE, None)

CronInit ==
  /\ Init /\ QuotaInit
  /\ \/ part \in {"dispatch", "quota"} /\ NoWalk
     \/ part = "walk" /\ WalkInit

(* A walk ends at its bound; a dispatcher never stops.                     *)
WalkOver == clock = WalkTime /\ UNCHANGED walkVars

CronNext ==
  /\ UNCHANGED part
  /\ \/ part = "dispatch" /\ Next /\ UNCHANGED <<walkVars, quotaVars>>
     \/ part = "walk" /\ (WalkNext \/ WalkOver) /\ UNCHANGED <<vars, quotaVars>>
     \/ part = "quota" /\ QuotaNext /\ UNCHANGED <<vars, walkVars>>

CronSpec == CronInit /\ [][CronNext]_cronVars
=============================================================================
