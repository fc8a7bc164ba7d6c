--------------------------- MODULE DaemonSchedule ---------------------------
(***************************************************************************)
(* When the daemon runs which cycle (optimizer/src/cli.js: runDaemon,      *)
(* runDaemonCycle, fullCycleCompleted).  Time passes in units; a cycle and *)
(* a late timer take as many of them as the bounds allow.  The wall clock  *)
(* is taken to advance steadily.                                           *)
(* A definition X_Y is no part of the model: it is X with a plausible bug. *)
(***************************************************************************)
EXTENDS Naturals

CONSTANTS
  FAST_INTERVAL,  \* the sleep between two cycles
  FULL_INTERVAL,  \* how old the last full cycle may become
  MaxCycle,       \* bound: the longest cycle
  MaxLate,        \* bound: how late a timer may fire
  Null            \* no full cycle has completed

VARIABLES
  activity,     \* running a cycle, or sleeping
  mode,         \* of the current or last cycle
  sinceFull,    \* now() - lastFull, counted up to FULL_INTERVAL
  elapsed,      \* time spent in the cycle or the sleep
  sinceAttempt, \* time since a full cycle last ended, however it ended
  owed          \* the last full cycle did not complete

scheduleVars == <<activity, mode, sinceFull, elapsed, sinceAttempt, owed>>

ASSUME DaemonAssumption ==
  /\ FAST_INTERVAL \in Nat /\ FULL_INTERVAL \in Nat \ {0}
  /\ MaxCycle \in Nat /\ MaxLate \in Nat
  /\ Null \notin Nat

MaxSleep == FAST_INTERVAL + MaxLate
MaxGap == FULL_INTERVAL + MaxSleep + 2 * MaxCycle

\* Beyond FULL_INTERVAL the daemon does not tell the ages apart.
Older(age) == IF age \in 0..(FULL_INTERVAL - 1) THEN age + 1 ELSE age

ScheduleTypeOK ==
  /\ activity \in {"cycle", "sleep"}
  /\ mode \in {"full", "fast"}
  /\ sinceFull \in 0..FULL_INTERVAL \cup {Null}
  /\ elapsed \in Nat
  /\ sinceAttempt \in Nat
  /\ owed \in BOOLEAN

\* The daemon starts with a full cycle.
ScheduleInit ==
  /\ activity = "cycle" /\ mode = "full"
  /\ sinceFull = Null
  /\ elapsed = 0 /\ sinceAttempt = 0
  /\ owed = FALSE

Tick ==
  /\ elapsed < IF activity = "cycle" THEN MaxCycle ELSE MaxSleep
  /\ elapsed' = elapsed + 1
  /\ sinceFull' = Older(sinceFull)
  /\ sinceAttempt' = sinceAttempt + 1
  /\ UNCHANGED <<activity, mode, owed>>

(***************************************************************************)
(* The cycle returns, or throws and becomes 'cycle_error'; 'completed' is  *)
(* fullCycleCompleted: neither that, nor 'skipped_locked', nor             *)
(* 'remote_state_unknown'.                                                 *)
(***************************************************************************)
EndCycle_AnyCycleCounts(completed) ==     \* forgets mode === 'full'
  /\ activity = "cycle"
  /\ activity' = "sleep" /\ elapsed' = 0
  /\ sinceFull' = IF completed THEN 0 ELSE sinceFull
  /\ sinceAttempt' = IF mode = "full" THEN 0 ELSE sinceAttempt
  /\ owed' = IF mode = "full" THEN ~completed ELSE owed
  /\ UNCHANGED mode

EndCycle_SkippedCounts(completed) ==      \* does not look at the result
  /\ activity = "cycle"
  /\ activity' = "sleep" /\ elapsed' = 0
  /\ sinceFull' = IF mode = "full" THEN 0 ELSE sinceFull
  /\ sinceAttempt' = IF mode = "full" THEN 0 ELSE sinceAttempt
  /\ owed' = IF mode = "full" THEN ~completed ELSE owed
  /\ UNCHANGED mode

EndCycle(completed) ==
  /\ activity = "cycle"
  /\ activity' = "sleep" /\ elapsed' = 0
  /\ sinceFull' = IF mode = "full" /\ completed THEN 0 ELSE sinceFull
  /\ sinceAttempt' = IF mode = "full" THEN 0 ELSE sinceAttempt
  /\ owed' = IF mode = "full" THEN ~completed ELSE owed
  /\ UNCHANGED mode

Wake_FastIsDue ==       \* compares with the wrong interval
  /\ activity = "sleep" /\ elapsed >= FAST_INTERVAL
  /\ activity' = "cycle" /\ elapsed' = 0
  /\ mode' = IF sinceFull = Null \/ sinceFull >= FAST_INTERVAL
             THEN "full" ELSE "fast"
  /\ UNCHANGED <<sinceFull, sinceAttempt, owed>>

Wake ==
  /\ activity = "sleep" /\ elapsed >= FAST_INTERVAL
  /\ activity' = "cycle" /\ elapsed' = 0
  /\ mode' = IF sinceFull = Null \/ sinceFull >= FULL_INTERVAL
             THEN "full" ELSE "fast"
  /\ UNCHANGED <<sinceFull, sinceAttempt, owed>>

ScheduleNext == Tick \/ (\E completed \in BOOLEAN : EndCycle(completed)) \/ Wake

ScheduleSpec == ScheduleInit /\ [][ScheduleNext]_scheduleVars

----------------------------------------------------------------------------
(***************************************************************************)
(* However long the fast cycles in between take and whichever of them      *)
(* fail, a full cycle ends at least every FULL_INTERVAL plus one sleep and *)
(* two cycles: full cycles are neither starved by fast ones nor put off    *)
(* again by one that did not complete.                                     *)
(***************************************************************************)
FullCadence == sinceAttempt < MaxGap

(***************************************************************************)
(* A full cycle that was skipped, failed or found the remote state unknown *)
(* is tried again at the very next wake-up: no fast cycle comes before a   *)
(* full one has completed.                                                 *)
(***************************************************************************)
FailedFullIsRetried == owed /\ activity = "cycle" => mode = "full"

(***************************************************************************)
(* A full cycle, three times as expensive as a fast one, never starts      *)
(* before the last completed one is FULL_INTERVAL old.                     *)
(***************************************************************************)
FullNotEarly ==
  activity = "cycle" /\ mode = "full" /\ sinceFull # Null
    => sinceFull >= FULL_INTERVAL

(***************************************************************************)
(* The three together: full cycles come neither too late, nor too early,   *)
(* nor behind a fast one when the last has failed.                         *)
(***************************************************************************)
FullCyclesOnTime == FullCadence /\ FailedFullIsRetried /\ FullNotEarly
=============================================================================
