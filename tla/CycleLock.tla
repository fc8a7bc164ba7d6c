----------------------------- MODULE CycleLock -----------------------------
(***************************************************************************)
(* The lock file optimizer.lock that keeps the daemon and the operator's   *)
(* one-shot runs apart (optimizer/src/cli.js: acquireLock, release and     *)
(* runLockedCycle).  One action is one file-system call: processes         *)
(* interleave between any two of them, and may be killed between any two.  *)
(* A definition X_Y is no part of the model: it is X with a plausible bug. *)
(***************************************************************************)
EXTENDS Naturals

CONSTANTS
  Process,     \* processes that use one data directory
  Null,        \* no file
  MayOutlast,  \* a cycle may run for longer than LOCK_STALE_MS
  MaxFaults    \* bound: kills and failed writes

VARIABLES
  pc,      \* the call each process makes next
  file,    \* the directory entry optimizer.lock
  old,     \* its mtime is more than LOCK_STALE_MS ago
  written, \* its owner's token is in it
  aged,    \* some lock file has become old
  faults   \* kills and failed writes so far

vars == <<pc, file, old, written, aged, faults>>

ASSUME CycleLockAssumption ==
  /\ Null \notin Process
  /\ MayOutlast \in BOOLEAN
  /\ MaxFaults \in Nat

\* From the creation of the file to the end of release.
Holding == {"write", "cycle", "check", "unlink"}
Pc == Holding \cup {"idle", "open", "stat", "rm", "reopen"}

(***************************************************************************)
(* A lock file is known by the process that created it: a process creates  *)
(* one only where there is none, so the directory never holds a file of a  *)
(* process beside a newer one of the same process.                         *)
(***************************************************************************)
TypeOK ==
  /\ pc \in [Process -> Pc]
  /\ file \in Process \cup {Null}
  /\ old \in BOOLEAN /\ written \in BOOLEAN /\ aged \in BOOLEAN
  /\ faults \in 0..MaxFaults

Init ==
  /\ pc = [p \in Process |-> "idle"]
  /\ file = Null
  /\ old = FALSE /\ written = FALSE /\ aged = FALSE
  /\ faults = 0

Goto(p, next) == pc' = [pc EXCEPT ![p] = next]

----------------------------------------------------------------------------
(* runLockedCycle and acquireLock.                                         *)

Start(p) ==
  /\ pc[p] = "idle"
  /\ Goto(p, "open")
  /\ UNCHANGED <<file, old, written, aged, faults>>

\* open(file, 'wx'): the first attempt goes on to stat, the second gives up.
TryOpen_NotExclusive(p) ==           \* opens with 'w'
  /\ pc[p] \in {"open", "reopen"}
  /\ file' = p /\ old' = FALSE /\ written' = FALSE
  /\ Goto(p, "write")
  /\ UNCHANGED <<aged, faults>>

TryOpen(p) ==
  /\ pc[p] \in {"open", "reopen"}
  /\ IF file = Null
     THEN /\ file' = p /\ old' = FALSE /\ written' = FALSE
          /\ Goto(p, "write")
     ELSE /\ Goto(p, IF pc[p] = "open" THEN "stat" ELSE "idle")
          /\ UNCHANGED <<file, old, written>>
  /\ UNCHANGED <<aged, faults>>

\* writeFile and sync act on the open handle, wherever its file went.
WriteToken(p) ==
  /\ pc[p] = "write"
  /\ IF file = p THEN written' = TRUE /\ old' = FALSE
                 ELSE UNCHANGED <<written, old>>
  /\ Goto(p, "cycle")
  /\ UNCHANGED <<file, aged, faults>>

\* stat: 'skipped_locked', or the file is stale, or it is gone (ENOENT).
Stat_NoStaleness(p) ==               \* never takes a lock for stale
  /\ pc[p] = "stat"
  /\ Goto(p, IF file = Null THEN "reopen" ELSE "idle")
  /\ UNCHANGED <<file, old, written, aged, faults>>

Stat(p) ==
  /\ pc[p] = "stat"
  /\ Goto(p, IF file = Null THEN "reopen" ELSE IF old THEN "rm" ELSE "idle")
  /\ UNCHANGED <<file, old, written, aged, faults>>

\* rm(file, {force: true}) removes whatever bears the name by now.
RemoveStale(p) ==
  /\ pc[p] = "rm"
  /\ file' = Null /\ old' = FALSE /\ written' = FALSE
  /\ Goto(p, "reopen")
  /\ UNCHANGED <<aged, faults>>

----------------------------------------------------------------------------
(* The end of the cycle, and release().                                    *)

FinishCycle(p) ==
  /\ pc[p] = "cycle"
  /\ Goto(p, "check")
  /\ UNCHANGED <<file, old, written, aged, faults>>

\* readLockToken: null when the file is missing or not JSON (yet).
CheckToken_NeverOwn(p) ==            \* never matches the token
  /\ pc[p] = "check"
  /\ Goto(p, "idle")
  /\ UNCHANGED <<file, old, written, aged, faults>>

CheckToken(p) ==
  /\ pc[p] = "check"
  /\ Goto(p, IF file = p /\ written THEN "unlink" ELSE "idle")
  /\ UNCHANGED <<file, old, written, aged, faults>>

Unlink(p) ==
  /\ pc[p] = "unlink"
  /\ file' = Null /\ old' = FALSE /\ written' = FALSE
  /\ Goto(p, "idle")
  /\ UNCHANGED <<aged, faults>>

----------------------------------------------------------------------------
(* The environment: kills, failed writes, and time.                        *)

\* A kill, or the exception of a failed writeFile, leaves the file behind.
Kill(p) ==
  /\ faults < MaxFaults
  /\ pc[p] # "idle"
  /\ faults' = faults + 1
  /\ Goto(p, "idle")
  /\ UNCHANGED <<file, old, written, aged>>

\* Unless cycles may outlast it, only a file left behind becomes old.
GrowOld ==
  /\ file # Null /\ ~old
  /\ MayOutlast \/ pc[file] \notin Holding
  /\ old' = TRUE /\ aged' = TRUE
  /\ UNCHANGED <<pc, file, written, faults>>

Step(p) ==
  \/ Start(p) \/ TryOpen(p) \/ WriteToken(p) \/ Stat(p) \/ RemoveStale(p)
  \/ FinishCycle(p) \/ CheckToken(p) \/ Unlink(p)

Next == (\E p \in Process : Step(p) \/ Kill(p)) \/ GrowOld

Spec == Init /\ [][Next]_vars

(***************************************************************************)
(* The daemon starts a cycle again and again, a process that is not killed *)
(* keeps running, and time passes.                                         *)
(***************************************************************************)
FairSpec == Spec /\ (\A p \in Process : WF_vars(Step(p))) /\ WF_vars(GrowOld)

----------------------------------------------------------------------------
(***************************************************************************)
(* As long as no lock file has become old, at most one process is between  *)
(* creating the file and removing it, whoever was killed in between.       *)
(***************************************************************************)
MutualExclusion ==
  ~aged => \A p, q \in Process :
             pc[p] \in Holding /\ pc[q] \in Holding => p = q

(***************************************************************************)
(* Processes that end by themselves leave no lock behind: with nothing     *)
(* killed and nothing old, a file in the directory belongs to a process    *)
(* that is about to run, running, or releasing.                            *)
(***************************************************************************)
ReleasesCleanly ==
  ~aged /\ faults = 0 /\ file # Null => pc[file] \in Holding

(***************************************************************************)
(* A lock that a killed process left behind does not block the optimizer   *)
(* for ever: it is eventually removed.                                     *)
(***************************************************************************)
StaleLockRecovered ==
  \A p \in Process :
    (file = p /\ pc[p] \notin Holding) ~> ~(file = p /\ pc[p] \notin Holding)

(***************************************************************************)
(* A filesystem lock prevents overlapping cycles                           *)
(* (docs/operations/nas-optimizer.md:143).                                 *)
(***************************************************************************)
CyclesDoNotOverlap ==
  \A p, q \in Process : pc[p] = "cycle" /\ pc[q] = "cycle" => p = q
=============================================================================
