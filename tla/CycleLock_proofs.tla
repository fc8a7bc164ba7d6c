-------------------------- MODULE CycleLock_proofs --------------------------
(***************************************************************************)
(* The lock of CycleLock for any set of processes and any number of kills. *)
(*                                                                         *)
(* MutualExclusion is not inductive: it must be known that a process past  *)
(* its open() still finds its own file, that its token is in it by the     *)
(* time it compares tokens, and that nobody is about to remove a stale     *)
(* file when no file has become old.                                       *)
(***************************************************************************)
EXTENDS CycleLock, TLAPS

HeldIsOnDisk ==
  \A p \in Process : /\ pc[p] \in Holding => file = p
                     /\ pc[p] \in Holding \ {"write"} => written

NobodyRecovers == ~old /\ \A p \in Process : pc[p] # "rm"

IndInv ==
  /\ TypeOK
  /\ ~aged => HeldIsOnDisk /\ NobodyRecovers
  /\ ReleasesCleanly

(***************************************************************************)
(* No process holds, and there is no file, before the first acquireLock.   *)
(***************************************************************************)
LEMMA InitIndInv == Init => IndInv
<1> SUFFICES ASSUME Init PROVE IndInv
  OBVIOUS
<1>1. TypeOK
  <2>1. pc \in [Process -> Pc] /\ file \in Process \cup {Null}
    BY DEF Init, Pc
  <2>2. faults \in 0..MaxFaults
    BY CycleLockAssumption DEF Init
  <2>3. old \in BOOLEAN /\ written \in BOOLEAN /\ aged \in BOOLEAN
    BY Zenon DEF Init
  <2> QED
    BY <2>1, <2>2, <2>3 DEF TypeOK
<1>2. HeldIsOnDisk /\ NobodyRecovers
  BY DEF Init, HeldIsOnDisk, NobodyRecovers, Holding
<1>3. ReleasesCleanly
  BY DEF Init, ReleasesCleanly
<1> QED
  BY <1>1, <1>2, <1>3 DEF IndInv

(***************************************************************************)
(* Every file-system call of every process preserves the invariant.        *)
(***************************************************************************)
LEMMA NextIndInv == IndInv /\ [Next]_vars => IndInv'
<1> SUFFICES ASSUME IndInv, [Next]_vars PROVE IndInv'
  OBVIOUS
<1> USE CycleLockAssumption
    DEF IndInv, TypeOK, Pc, Holding, HeldIsOnDisk, NobodyRecovers,
        ReleasesCleanly, Goto
<1>1. ASSUME NEW p \in Process, Start(p) PROVE IndInv'
  BY <1>1 DEF Start
<1>2. ASSUME NEW p \in Process, TryOpen(p) PROVE IndInv'
  <2>1. CASE file = Null
    BY <1>2, <2>1 DEF TryOpen
  <2>2. CASE file # Null
    BY <1>2, <2>2 DEF TryOpen
  <2> QED
    BY <2>1, <2>2
<1>3. ASSUME NEW p \in Process, WriteToken(p) PROVE IndInv'
  BY <1>3 DEF WriteToken
<1>4. ASSUME NEW p \in Process, Stat(p) PROVE IndInv'
  BY <1>4 DEF Stat
<1>5. ASSUME NEW p \in Process, RemoveStale(p) PROVE IndInv'
  <2>1. aged
    BY <1>5 DEF RemoveStale
  <2> QED
    BY <1>5, <2>1 DEF RemoveStale
<1>6. ASSUME NEW p \in Process, FinishCycle(p) PROVE IndInv'
  BY <1>6 DEF FinishCycle
<1>7. ASSUME NEW p \in Process, CheckToken(p) PROVE IndInv'
  BY <1>7 DEF CheckToken
<1>8. ASSUME NEW p \in Process, Unlink(p) PROVE IndInv'
  BY <1>8 DEF Unlink
<1>9. ASSUME NEW p \in Process, Kill(p) PROVE IndInv'
  BY <1>9 DEF Kill
<1>10. ASSUME GrowOld PROVE IndInv'
  BY <1>10 DEF GrowOld
<1>11. ASSUME UNCHANGED vars PROVE IndInv'
  BY <1>11 DEF vars
<1> QED
  BY <1>1, <1>2, <1>3, <1>4, <1>5, <1>6, <1>7, <1>8, <1>9, <1>10, <1>11
  DEF Next, Step

(***************************************************************************)
(* The invariant holds in every reachable state.                           *)
(***************************************************************************)
LEMMA Invariance == Spec => []IndInv
  BY InitIndInv, NextIndInv, PTL DEF Spec

(***************************************************************************)
(* The types of the lock's state are what TypeOK says.                     *)
(***************************************************************************)
THEOREM LockTypeCorrect == Spec => []TypeOK
<1>1. IndInv => TypeOK
  BY DEF IndInv
<1> QED
  BY <1>1, Invariance, PTL

(***************************************************************************)
(* With any number of daemons, one-shot runs and kills, cycles exclude     *)
(* each other until a lock file has gone two hours without being removed.  *)
(***************************************************************************)
THEOREM LockExcludes == Spec => []MutualExclusion
<1>1. IndInv => MutualExclusion
  BY DEF IndInv, HeldIsOnDisk, MutualExclusion
<1> QED
  BY <1>1, Invariance, PTL

(***************************************************************************)
(* Without kills and old files no cycle leaves its lock behind: what       *)
(* release() compares is always its own token.                             *)
(***************************************************************************)
THEOREM LockReleased == Spec => []ReleasesCleanly
<1>1. IndInv => ReleasesCleanly
  BY DEF IndInv
<1> QED
  BY <1>1, Invariance, PTL
=============================================================================
