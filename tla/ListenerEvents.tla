--------------------------- MODULE ListenerEvents ---------------------------
(***************************************************************************)
(* The path of a Telegram update to a workflow run: an adapter polls       *)
(* getUpdates from the stored cursor, dispatches the batch one update at a *)
(* time and stores the cursor.  A dispatch is two transactions: one writes *)
(* the dedupe record, the next creates the run.  Anything may fail in      *)
(* between; two adapters may serve the subscription for a while (its lease *)
(* moved to another process before the first one noticed).                 *)
(*                                                                         *)
(* The platform numbers updates from 1 and drops the ones below the offset *)
(* of a poll; which adapters run is the supervisor's business and free     *)
(* here.  Publishing the run is RunDispatch's.                             *)
(***************************************************************************)
EXTENDS Integers, Sequences, FiniteSets

CONSTANTS
  Adapters,
  Irrelevant,   \* updates that normalize_telegram_update rejects
  Limit,        \* max_batch_size
  Window,       \* dedupe_window_seconds, in ticks
  MaxEvents,    \* bound: updates the platform receives
  MaxTime,      \* bound: the last instant
  MaxFaults     \* bound: errors, lost replies, crashes, pauses, stops

Events == 1 .. MaxEvents

ASSUME ListenerAssumption ==
  /\ MaxEvents \in Nat /\ MaxFaults \in Nat /\ MaxTime \in Nat \ {0}
  /\ Limit \in Nat \ {0} /\ Window \in Nat \ {0}
  /\ Irrelevant \subseteq Events

VARIABLES
  now,
  active,       \* the subscription's status is ACTIVE
  arrived,      \* updates 1..arrived have reached the platform
  confirmed,    \* updates below it are dropped by the platform
  cursor,       \* listener_cursors: the stored telegram_offset, 0 without a row
  expires,      \* listener_dedupe: expires_at of each update's key, 0 without a row
  attempts,     \* history: the dedupe records in the order of their commit
  ignored,      \* history: updates dispatched while the subscription was not active
  ad,           \* adapters
  faults

vars == <<now, active, arrived, confirmed, cursor, expires, attempts, ignored, ad, faults>>
platform == <<arrived, confirmed>>
stored   == <<cursor, expires, attempts, ignored>>

-----------------------------------------------------------------------------
(* An adapter that has not polled yet: offset is None.  [next, last] is    *)
(* what is left of its batch, attempt the dedupe record it has just made.  *)
NewAdapter == [pc |-> "off", stop |-> FALSE, offset |-> 0, next |-> 0, last |-> -1, attempt |-> 0]
Becomes(a, s)  == ad' = [ad EXCEPT ![a] = s]
Left(a, pc)    == [pc |-> pc, stop |-> ad[a].stop, offset |-> ad[a].offset,
                   next |-> 0, last |-> -1, attempt |-> 0]
HasNext(a)     == ad[a].pc = "dispatching" /\ ad[a].next <= ad[a].last
Passed(a)      == [ad[a] EXCEPT !.pc = "dispatching", !.next = @ + 1, !.attempt = 0]
Fault          == faults < MaxFaults /\ faults' = faults + 1
Larger(m, n)   == IF m < n THEN n ELSE m
Smaller(m, n)  == IF m < n THEN m ELSE n

Init ==
  /\ now = 1
  /\ active = TRUE
  /\ arrived = 0 /\ confirmed = 1
  /\ cursor = 0
  /\ expires = [e \in Events |-> 0]
  /\ attempts = <<>>
  /\ ignored = {}
  /\ ad = [a \in Adapters |-> NewAdapter]
  /\ faults = 0

-----------------------------------------------------------------------------
(* The platform and the clock *)
Arrive ==
  /\ arrived < MaxEvents
  /\ arrived' = arrived + 1
  /\ UNCHANGED <<now, active, confirmed, stored, ad, faults>>

Tick ==
  /\ now < MaxTime
  /\ now' = now + 1
  /\ UNCHANGED <<active, platform, stored, ad, faults>>

(* The supervisor and the listener API, as far as an adapter notices.      *)
Start(a) ==
  /\ ad[a].pc = "off" /\ active
  /\ Becomes(a, [NewAdapter EXCEPT !.pc = "idle"])
  /\ UNCHANGED <<now, active, platform, stored, faults>>

StopAdapter(a) ==
  /\ ad[a].pc # "off" /\ ~ad[a].stop
  /\ IF active THEN Fault ELSE UNCHANGED faults
  /\ Becomes(a, [ad[a] EXCEPT !.stop = TRUE])
  /\ UNCHANGED <<now, active, platform, stored>>

(* A mutation: _run_adapter does not take the ended task out of _tasks. *)
ExitKept(a) ==
  /\ ad[a].pc \in {"idle", "backoff"} /\ ad[a].stop
  /\ UNCHANGED vars

(* run's loop condition, tested between polls and after a backoff.         *)
Exit(a) ==
  /\ ad[a].pc \in {"idle", "backoff"} /\ ad[a].stop
  /\ Becomes(a, NewAdapter)
  /\ UNCHANGED <<now, active, platform, stored, faults>>

Pause ==
  /\ active /\ Fault
  /\ active' = FALSE
  /\ UNCHANGED <<now, platform, stored, ad>>

Resume ==
  /\ ~active
  /\ active' = TRUE
  /\ UNCHANGED <<now, platform, stored, ad, faults>>

-----------------------------------------------------------------------------
(* TelegramPollingAdapter *)

(* get_listener_cursor: a stored offset replaces the adapter's own.        *)
GetCursor(a) ==
  /\ ad[a].pc = "idle" /\ ~ad[a].stop
  /\ Becomes(a, [ad[a] EXCEPT !.pc = "polling", !.offset = IF cursor # 0 THEN cursor ELSE @])
  /\ UNCHANGED <<now, active, platform, stored, faults>>

(* getUpdates: a batch of what the platform still has.  An empty answer    *)
(* leaves next_offset where it was.                                        *)
GetUpdates(a) ==
  /\ ad[a].pc = "polling"
  /\ LET first     == Larger(confirmed, ad[a].offset)
         available == arrived - first + 1
     IN /\ confirmed' = first
        /\ IF available > 0
           THEN \E n \in 1 .. Smaller(Limit, available) :
                  Becomes(a, [ad[a] EXCEPT !.pc = "dispatching", !.next = first,
                                           !.last = first + n - 1])
           ELSE Becomes(a, [ad[a] EXCEPT !.pc = "dispatching", !.next = ad[a].offset,
                                         !.last = ad[a].offset - 1])
  /\ UNCHANGED <<now, active, arrived, stored, faults>>

(* An update that normalizes to None only moves next_offset.               *)
PassOver(a) ==
  /\ HasNext(a) /\ ad[a].next \in Irrelevant
  /\ Becomes(a, Passed(a))
  /\ UNCHANGED <<now, active, platform, stored, faults>>

(* The first transaction of dispatch_listener_event.  Records that have    *)
(* expired are deleted by it: they count as absent.                        *)
Record(a) ==
  /\ expires' = [expires EXCEPT ![ad[a].next] = now + Window]
  /\ attempts' = Append(attempts, [event |-> ad[a].next, at |-> now, result |-> "open"])
  /\ UNCHANGED ignored

Unrecorded(a) ==
  /\ ignored' = IF active THEN ignored ELSE ignored \cup {ad[a].next}
  /\ Becomes(a, Passed(a))
  /\ UNCHANGED <<expires, attempts>>

Duplicate(a) == expires[ad[a].next] > now

(* A mutation: the dedupe record is written without looking for one. *)
ReserveUnchecked(a) ==
  /\ HasNext(a) /\ ad[a].next \notin Irrelevant
  /\ IF active
     THEN Record(a) /\ Becomes(a, [ad[a] EXCEPT !.pc = "creating", !.attempt = Len(attempts) + 1])
     ELSE Unrecorded(a)
  /\ UNCHANGED <<now, active, platform, cursor, faults>>

Reserve(a) ==
  /\ HasNext(a) /\ ad[a].next \notin Irrelevant
  /\ IF active /\ ~Duplicate(a)
     THEN Record(a) /\ Becomes(a, [ad[a] EXCEPT !.pc = "creating", !.attempt = Len(attempts) + 1])
     ELSE Unrecorded(a)
  /\ UNCHANGED <<now, active, platform, cursor, faults>>

(* It commits and the reply is lost: to the adapter the dispatch raised.   *)
ReserveUnanswered(a) ==
  /\ HasNext(a) /\ ad[a].next \notin Irrelevant
  /\ active /\ ~Duplicate(a) /\ Fault
  /\ expires' = [expires EXCEPT ![ad[a].next] = now + Window]
  /\ attempts' = Append(attempts, [event |-> ad[a].next, at |-> now, result |-> "failed"])
  /\ Becomes(a, Left(a, "backoff"))
  /\ UNCHANGED <<now, active, platform, cursor, ignored>>

Attempt(a, result) == attempts' = [attempts EXCEPT ![ad[a].attempt].result = result]

(* The second transaction, _create_run_locked.                             *)
CreateRun(a) ==
  /\ ad[a].pc = "creating"
  /\ Attempt(a, "run")
  /\ Becomes(a, Passed(a))
  /\ UNCHANGED <<now, active, platform, cursor, expires, ignored, faults>>

(* It raises: the quota is full, the database fails, or only the reply or  *)
(* the enqueue confirmation is lost and the run exists.                    *)
CreateRaises(a) ==
  /\ ad[a].pc = "creating" /\ Fault
  /\ \E result \in {"run", "failed"} : Attempt(a, result)
  /\ Becomes(a, Left(a, "backoff"))
  /\ UNCHANGED <<now, active, platform, cursor, expires, ignored>>

(* A mutation: a failed dispatch is logged and the loop goes on. *)
PollRaisesOnward(a) ==
  /\ ad[a].pc \in {"polling", "dispatching"} /\ Fault
  /\ IF HasNext(a) THEN Becomes(a, Passed(a)) ELSE Becomes(a, Left(a, "backoff"))
  /\ UNCHANGED <<now, active, platform, stored>>

(* Anything else of poll_once raises before it has an effect; run catches  *)
(* it and waits, with the offset from before the poll.                     *)
PollRaises(a) ==
  /\ ad[a].pc \in {"polling", "dispatching"} /\ Fault
  /\ Becomes(a, Left(a, "backoff"))
  /\ UNCHANGED <<now, active, platform, stored>>

AfterBackoff(a) ==
  /\ ad[a].pc = "backoff" /\ ~ad[a].stop
  /\ Becomes(a, Left(a, "idle"))
  /\ UNCHANGED <<now, active, platform, stored, faults>>

Saving(a) == ad[a].pc = "dispatching" /\ ad[a].next > ad[a].last

(* A mutation: the last update's id is stored. *)
SaveCursorLast(a) ==
  /\ Saving(a)
  /\ cursor' = ad[a].last
  /\ Becomes(a, [Left(a, "idle") EXCEPT !.offset = ad[a].next])
  /\ UNCHANGED <<now, active, platform, expires, attempts, ignored, faults>>

(* save_listener_cursor overwrites whatever is stored; a next_offset of    *)
(* None is not stored.                                                     *)
SaveCursor(a) ==
  /\ Saving(a)
  /\ cursor' = IF ad[a].next = 0 THEN cursor ELSE ad[a].next
  /\ Becomes(a, [Left(a, "idle") EXCEPT !.offset = ad[a].next])
  /\ UNCHANGED <<now, active, platform, expires, attempts, ignored, faults>>

SaveCursorUnanswered(a) ==
  /\ Saving(a) /\ ad[a].next # 0 /\ Fault
  /\ cursor' = ad[a].next
  /\ Becomes(a, Left(a, "backoff"))
  /\ UNCHANGED <<now, active, platform, expires, attempts, ignored>>

(* The process dies, or get_listener_cursor, which run does not guard,     *)
(* raises and ends the adapter's task.                                     *)
Crash(a) ==
  /\ ad[a].pc # "off" /\ Fault
  /\ IF ad[a].pc = "creating" THEN Attempt(a, "failed") ELSE UNCHANGED attempts
  /\ Becomes(a, NewAdapter)
  /\ UNCHANGED <<now, active, platform, cursor, expires, ignored>>

-----------------------------------------------------------------------------
Forward(a) ==
  \/ GetCursor(a) \/ GetUpdates(a) \/ PassOver(a) \/ Reserve(a)
  \/ CreateRun(a) \/ SaveCursor(a) \/ AfterBackoff(a) \/ Exit(a)

Next ==
  \/ Arrive \/ Tick \/ Pause \/ Resume
  \/ \E a \in Adapters :
       \/ Start(a) \/ StopAdapter(a) \/ Forward(a)
       \/ ReserveUnanswered(a) \/ CreateRaises(a) \/ PollRaises(a)
       \/ SaveCursorUnanswered(a) \/ Crash(a)

Spec == Init /\ [][Next]_vars

(* An adapter's coroutine is resumed; an HTTP request and a query end or   *)
(* raise.  A supervisor starts an adapter for an active subscription: it   *)
(* polls, provided that serve has not ended with an exception and that     *)
(* release_listener_subscription, before the pops of _run_adapter, has not *)
(* raised.  Both belong to the supervisor and are not faults of this       *)
(* module.                                                                 *)
FairSpec ==
  Spec /\ \A a \in Adapters : WF_vars(Start(a)) /\ WF_vars(Forward(a))

-----------------------------------------------------------------------------
(* Properties.                                                             *)

DedupeRecord == [event : Events \ Irrelevant, at : 1 .. MaxTime, result : {"open", "run", "failed"}]

Adapter ==
  [pc : {"off", "idle", "polling", "dispatching", "creating", "backoff"}, stop : BOOLEAN,
   offset : 0 .. MaxEvents + 1, next : 0 .. MaxEvents + 1, last : -1 .. MaxEvents, attempt : Nat]

TypeOK ==
  /\ now \in 1 .. MaxTime /\ active \in BOOLEAN
  /\ arrived \in 0 .. MaxEvents
  /\ confirmed \in 1 .. MaxEvents + 1 /\ cursor \in 0 .. MaxEvents + 1
  /\ expires \in [Events -> 0 .. MaxTime + Window]
  /\ attempts \in Seq(DedupeRecord)
  /\ ignored \subseteq Events \ Irrelevant
  /\ ad \in [Adapters -> Adapter]
  /\ faults \in 0 .. MaxFaults

Attempted(e) == \E i \in DOMAIN attempts : attempts[i].event = e
Handled(e)   == e \in Irrelevant \cup ignored \/ Attempted(e)

(* Two adapters, or one before and after a crash, that hold the same       *)
(* update start runs for it at least a dedupe window apart: whatever is    *)
(* polled twice, no window of time has two runs of one update.             *)
OncePerWindow ==
  \A i, j \in DOMAIN attempts :
    i < j /\ attempts[i].event = attempts[j].event
    => attempts[j].at - attempts[i].at >= Window

(* What the stored cursor or a poll has put behind it, so that no poll     *)
(* will ever return it, has been dispatched: errors, crashes, lost         *)
(* replies, a second adapter and a cursor stored backwards lose no update  *)
(* before its dispatch.                                                    *)
DropsOnlyHandled ==
  \A e \in Events : e < confirmed \/ e < cursor => Handled(e)

(* While the subscription stays active, every update is dispatched.        *)
EventDispatched ==
  <>[]active => \A e \in Events : e <= arrived ~> Handled(e)

(* An update that the platform has dropped and no adapter still holds, and *)
(* that was dispatched to an active subscription, has got its run:         *)
(* at-least-once delivery.                                                 *)
AtLeastOnce ==
  \A e \in Events \ (Irrelevant \cup ignored) :
    /\ e < confirmed
    /\ \A a \in Adapters : ~(ad[a].next <= e /\ e <= ad[a].last)
    => \E i \in DOMAIN attempts : attempts[i].event = e /\ attempts[i].result # "failed"
=============================================================================
