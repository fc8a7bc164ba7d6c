------------------------ MODULE NasDecisions_proofs ------------------------
(***************************************************************************)
(* Two decisions of the NAS, for all intervals, bounds and measurements:   *)
(* when a cycle runs (DaemonSchedule) and which pool it proposes           *)
(* (PoolSelection).                                                        *)
(*                                                                         *)
(* The bound on the time between full cycles follows the daemon around its *)
(* loop: how old the last attempt may be in each of the four combinations of*)
(* activity and mode.  The step from one loop to the next is the wake-up: it*)
(* chooses a fast cycle only if the last completed full cycle, and so the  *)
(* last attempt, is younger than FULL_INTERVAL.                            *)
(*                                                                         *)
(* The selection is proved along its own loop.  Sorting is a total order,  *)
(* so 'scored' lists every candidate once; after each of its elements the  *)
(* selection is in order, within its limits, and has a reason for everybody*)
(* passed over (Selection).  The loop is a recursive function, and the     *)
(* induction over it is an argument about the least counterexample (Least).*)
(***************************************************************************)
EXTENDS DaemonSchedule, PoolSelection, FiniteSetTheorems, SequenceTheorems,
        WellFoundedInduction, TLAPS

(***************************************************************************)
(* When a cycle runs.                                                      *)
(***************************************************************************)
InTime == elapsed <= IF activity = "cycle" THEN MaxCycle ELSE MaxSleep

AttemptAge ==
  /\ activity = "cycle" /\ mode = "fast" => sinceAttempt < FULL_INTERVAL + elapsed
  /\ activity = "sleep" /\ mode = "fast"
       => sinceAttempt < FULL_INTERVAL + MaxCycle + elapsed
  /\ activity = "cycle" /\ mode = "full"
       => sinceAttempt < FULL_INTERVAL + MaxCycle + MaxSleep + elapsed
  /\ activity = "sleep" /\ mode = "full" => sinceAttempt = elapsed

Recent == sinceFull # Null /\ sinceFull < FULL_INTERVAL

RecentWasAttempted == Recent => sinceAttempt <= sinceFull

Modes ==
  /\ mode = "fast" => sinceFull # Null /\ ~owed
  /\ activity = "cycle" /\ mode = "full" => ~Recent
  /\ owed => ~Recent

ScheduleInv == ScheduleTypeOK /\ InTime /\ AttemptAge /\ RecentWasAttempted /\ Modes

(***************************************************************************)
(* The daemon's first cycle is full and nothing is owed yet.               *)
(***************************************************************************)
LEMMA ScheduleInvInit == ScheduleInit => ScheduleInv
<1> SUFFICES ASSUME ScheduleInit PROVE ScheduleInv
  OBVIOUS
<1>1. owed \in BOOLEAN
  BY Zenon DEF ScheduleInit
<1> QED
  BY <1>1, DaemonAssumption
  DEF ScheduleInit, ScheduleInv, ScheduleTypeOK, InTime, AttemptAge,
      RecentWasAttempted, Modes, Recent, MaxSleep

(***************************************************************************)
(* Time passing, a cycle ending and a wake-up preserve the invariant.      *)
(***************************************************************************)
LEMMA ScheduleInvNext == ScheduleInv /\ [ScheduleNext]_scheduleVars => ScheduleInv'
<1> SUFFICES ASSUME ScheduleInv, [ScheduleNext]_scheduleVars PROVE ScheduleInv'
  OBVIOUS
<1> USE DaemonAssumption
    DEF ScheduleInv, ScheduleTypeOK, InTime, AttemptAge, RecentWasAttempted, Modes,
        Recent, MaxSleep
<1>1. CASE Tick
  <2>1. sinceFull' \in 0..FULL_INTERVAL \cup {Null}
    BY <1>1 DEF Tick, Older
  <2>2. InTime'
    BY <1>1 DEF Tick
  <2>3. AttemptAge'
    BY <1>1 DEF Tick
  <2>4. Recent' => Recent /\ sinceFull' = sinceFull + 1
    BY <1>1 DEF Tick, Older
  <2> QED
    BY <1>1, <2>1, <2>2, <2>3, <2>4 DEF Tick, Older
<1>2. ASSUME NEW completed \in BOOLEAN, EndCycle(completed) PROVE ScheduleInv'
  <2>1. CASE mode = "full" /\ completed
    <3>1. sinceFull' = 0 /\ ~owed' /\ owed' \in BOOLEAN
      BY <1>2, <2>1, Zenon DEF EndCycle
    <3>2. activity' = "sleep" /\ mode' = mode /\ elapsed' = 0 /\ sinceAttempt' = 0
      BY <1>2, <2>1 DEF EndCycle
    <3> QED
      BY <2>1, <3>1, <3>2
  <2>2. CASE mode = "full" /\ ~completed
    <3>1. sinceFull' = sinceFull /\ owed' /\ owed' \in BOOLEAN
      BY <1>2, <2>2, Zenon DEF EndCycle
    <3>2. activity = "cycle" /\ activity' = "sleep" /\ mode' = mode
      BY <1>2 DEF EndCycle
    <3>3. elapsed' = 0 /\ sinceAttempt' = 0
      BY <1>2, <2>2 DEF EndCycle
    <3> QED
      BY <2>2, <3>1, <3>2, <3>3
  <2>3. CASE mode = "fast"
    BY <1>2, <2>3 DEF EndCycle
  <2> QED
    BY <2>1, <2>2, <2>3
<1>3. CASE Wake
  <2>1. CASE Recent
    BY <1>3, <2>1 DEF Wake
  <2>2. CASE ~Recent
    BY <1>3, <2>2 DEF Wake
  <2> QED
    BY <2>1, <2>2
<1>4. CASE UNCHANGED scheduleVars
  BY <1>4 DEF scheduleVars
<1> QED
  BY <1>1, <1>2, <1>3, <1>4 DEF ScheduleNext

(***************************************************************************)
(* The invariant holds in every reachable state.                           *)
(***************************************************************************)
LEMMA ScheduleInvHolds == ScheduleSpec => []ScheduleInv
  BY ScheduleInvInit, ScheduleInvNext, PTL DEF ScheduleSpec

(***************************************************************************)
(* For every choice of intervals, cycle lengths and timer delays a full    *)
(* cycle ends at least every FULL_INTERVAL + one sleep + two cycles.       *)
(***************************************************************************)
THEOREM FullCycleCadence == ScheduleSpec => []FullCadence
<1>1. ScheduleInv => FullCadence
  BY DaemonAssumption
  DEF ScheduleInv, ScheduleTypeOK, InTime, AttemptAge, FullCadence, MaxGap, MaxSleep
<1> QED
  BY <1>1, ScheduleInvHolds, PTL

(***************************************************************************)
(* A full cycle that did not complete is always the next one to run.       *)
(***************************************************************************)
THEOREM FullCycleRetried == ScheduleSpec => []FailedFullIsRetried
<1>1. ScheduleInv => FailedFullIsRetried
  BY DEF ScheduleInv, ScheduleTypeOK, Modes, FailedFullIsRetried
<1> QED
  BY <1>1, ScheduleInvHolds, PTL

(***************************************************************************)
(* No full cycle runs while the last completed one is recent.              *)
(***************************************************************************)
THEOREM FullCycleNotEarly == ScheduleSpec => []FullNotEarly
<1>1. ScheduleInv => FullNotEarly
  BY DaemonAssumption DEF ScheduleInv, ScheduleTypeOK, Modes, Recent, FullNotEarly
<1> QED
  BY <1>1, ScheduleInvHolds, PTL

(***************************************************************************)
(* Full cycles are on time: the three facts above together.                *)
(***************************************************************************)
THEOREM ScheduleKeepsTime == ScheduleSpec => []FullCyclesOnTime
<1>1. FullCadence /\ FailedFullIsRetried /\ FullNotEarly => FullCyclesOnTime
  BY DEF FullCyclesOnTime
<1> QED
  BY <1>1, FullCycleCadence, FullCycleRetried, FullCycleNotEarly, PTL

----------------------------------------------------------------------------
(***************************************************************************)
(* Which pool is proposed: the order of the candidates.                    *)
(***************************************************************************)

(***************************************************************************)
(* The least number of a set: how a statement about every step of a        *)
(* selection is proved, from its first counterexample.                     *)
(***************************************************************************)
LEMMA Least ==
  ASSUME NEW T \in SUBSET Nat, T # {}
  PROVE  \E n \in T : \A m \in T : n <= m
<1>. DEFINE R == OpToRel(<, Nat)
<1>1. IsWellFoundedOn(R, Nat)
  BY NatLessThanWellFounded
<1>2. \A x, y \in Nat : <<x, y>> \in R <=> x < y
  BY DEF OpToRel
<1>. HIDE DEF R
<1>3. PICK n \in T : \A y \in T : <<y, n>> \notin R
  BY <1>1, WFMin
<1>4. n \in Nat /\ \A m \in T : m \in Nat /\ ~(m < n)
  BY <1>2, <1>3
<1>. QED
  BY <1>4

(***************************************************************************)
(* The indices of a list are as many as its length.                        *)
(***************************************************************************)
LEMMA IndexCount ==
  ASSUME NEW n \in Nat
  PROVE  IsFiniteSet(1..n) /\ Cardinality(1..n) = n
<1>1. 1 \in Int /\ n \in Int
  OBVIOUS
<1>2. /\ IsFiniteSet(1..n)
      /\ Cardinality(1..n) = IF 1 > n THEN 0 ELSE n - 1 + 1
  BY ONLY <1>1, FS_Interval
<1>. QED
  BY <1>2

(***************************************************************************)
(* Scores of finitely many addresses, and lists of them in the order that  *)
(* scoreCandidates sorts into.                                             *)
(***************************************************************************)
IsScores(score) ==
  /\ DOMAIN score \subseteq Address
  /\ score \in [DOMAIN score -> Int]

InOrder(score, current, list) ==
  /\ list \in Seq(DOMAIN score)
  /\ \A i, j \in 1..Len(list) : i < j => Before(score, current, list[i], list[j])

Named(list, I) == {list[i] : i \in I}

Ahead(score, current, a) == {b \in DOMAIN score : Before(score, current, b, a)}

(***************************************************************************)
(* The comparison of scoreCandidates is a strict total order, because no   *)
(* two addresses have the same name.                                       *)
(***************************************************************************)
LEMMA BeforeIsOrder ==
  ASSUME NEW score, IsScores(score), NEW current
  PROVE  /\ \A a \in DOMAIN score : ~Before(score, current, a, a)
         /\ \A a, b, c \in DOMAIN score :
              Before(score, current, a, b) /\ Before(score, current, b, c)
                => Before(score, current, a, c)
         /\ \A a, b \in DOMAIN score :
              a # b => Before(score, current, a, b) \/ Before(score, current, b, a)
<1>1. \A a \in DOMAIN score : score[a] \in Int /\ Rank[a] \in Nat
  BY PoolSelectionAssumption DEF IsScores
<1>2. \A a, b \in DOMAIN score : Rank[a] = Rank[b] => a = b
  BY PoolSelectionAssumption DEF IsScores, IsInjective
<1>3. \A a \in DOMAIN score : ~Before(score, current, a, a)
  BY <1>1 DEF Before
<1>4. ASSUME NEW a \in DOMAIN score, NEW b \in DOMAIN score, NEW c \in DOMAIN score,
             Before(score, current, a, b), Before(score, current, b, c)
      PROVE  Before(score, current, a, c)
  BY <1>1, <1>4 DEF Before
<1>5. ASSUME NEW a \in DOMAIN score, NEW b \in DOMAIN score, a # b
      PROVE  Before(score, current, a, b) \/ Before(score, current, b, a)
  BY <1>1, <1>2, <1>5 DEF Before
<1>. QED
  BY <1>3, <1>4, <1>5

(***************************************************************************)
(* How many are ahead of an address gives its place: a number below that   *)
(* of all, and a smaller one for whoever comes before.                     *)
(***************************************************************************)
LEMMA PlacesAreOrdered ==
  ASSUME NEW score, IsScores(score), NEW current
  PROVE  /\ IsFiniteSet(DOMAIN score)
         /\ \A a \in DOMAIN score :
              Cardinality(Ahead(score, current, a)) \in
                0..(Cardinality(DOMAIN score) - 1)
         /\ \A a, b \in DOMAIN score :
              Before(score, current, a, b)
                => Cardinality(Ahead(score, current, a))
                     < Cardinality(Ahead(score, current, b))
<1>. DEFINE D == DOMAIN score
<1>1. IsFiniteSet(D)
  BY PoolSelectionAssumption, FS_Subset DEF IsScores
<1>2. \A S \in SUBSET D : IsFiniteSet(S) /\ Cardinality(S) \in Nat
  BY <1>1, FS_Subset, FS_CardinalityType
<1>3. ASSUME NEW a \in D
      PROVE  Cardinality(Ahead(score, current, a)) \in 0..(Cardinality(D) - 1)
  <2>1. Ahead(score, current, a) \subseteq D \ {a}
    BY BeforeIsOrder DEF Ahead
  <2>2. IsFiniteSet(D \ {a}) /\ Cardinality(D \ {a}) = Cardinality(D) - 1
    BY <1>1, FS_RemoveElement
  <2>3. Cardinality(Ahead(score, current, a)) <= Cardinality(D \ {a})
    BY <2>1, <2>2, FS_Subset
  <2>4. Cardinality(Ahead(score, current, a)) \in Nat /\ Cardinality(D) \in Nat
    BY <1>2 DEF Ahead
  <2>. QED
    BY <2>2, <2>3, <2>4
<1>4. ASSUME NEW a \in D, NEW b \in D, Before(score, current, a, b)
      PROVE  Cardinality(Ahead(score, current, a))
               < Cardinality(Ahead(score, current, b))
  <2>. DEFINE A == Ahead(score, current, a)
              B == Ahead(score, current, b)
  <2>1. A \in SUBSET D /\ B \in SUBSET D
    BY DEF Ahead
  <2>2. a \notin A /\ A \cup {a} \subseteq B
    BY <1>4, BeforeIsOrder DEF Ahead
  <2>. HIDE DEF A, B
  <2>3. Cardinality(A \cup {a}) = Cardinality(A) + 1 /\ IsFiniteSet(A \cup {a})
    BY <1>2, <2>1, <2>2, FS_AddElement
  <2>4. Cardinality(A \cup {a}) <= Cardinality(B)
    BY <1>2, <2>1, <2>2, FS_Subset
  <2>5. Cardinality(A) \in Nat /\ Cardinality(B) \in Nat
    BY <1>2, <2>1
  <2>6. Cardinality(A) < Cardinality(B)
    BY <2>3, <2>4, <2>5
  <2>. QED
    BY <2>6 DEF A, B
<1>. QED
  BY <1>1, <1>3, <1>4

(***************************************************************************)
(* 'scored' lists every candidate once, in that order.                     *)
(***************************************************************************)
LEMMA ScoredIsInOrder ==
  ASSUME NEW score, IsScores(score), NEW current
  PROVE  /\ InOrder(score, current, Scored(score, current))
         /\ Len(Scored(score, current)) = Cardinality(DOMAIN score)
         /\ \A a \in DOMAIN score :
              \E i \in 1..Len(Scored(score, current)) : Scored(score, current)[i] = a
         /\ \A i \in 1..Len(Scored(score, current)) :
              Cardinality(Ahead(score, current, Scored(score, current)[i])) = i - 1
<1>. DEFINE D == DOMAIN score
            n == Cardinality(D)
            place(a) == Cardinality(Ahead(score, current, a))
            f == [a \in D |-> place(a)]
            L == Scored(score, current)
<1>1. IsFiniteSet(D) /\ n \in Nat
  BY PlacesAreOrdered, FS_CardinalityType
<1>2. \A a \in D : place(a) \in 0..(n - 1)
  BY PlacesAreOrdered
<1>3. \A a, b \in D : Before(score, current, a, b) => place(a) < place(b)
  BY PlacesAreOrdered
<1>4. \A a, b \in D : place(a) = place(b) => a = b
  <2>. SUFFICES ASSUME NEW a \in D, NEW b \in D, place(a) = place(b), a # b
                PROVE  FALSE
    OBVIOUS
  <2>1. place(a) < place(b) \/ place(b) < place(a)
    BY <1>3, BeforeIsOrder
  <2>2. place(a) \in Int /\ place(b) \in Int
    BY <1>1, <1>2
  <2>. QED
    BY <2>1, <2>2
<1>5. L = [i \in 1..n |-> CHOOSE a \in D : place(a) = i - 1]
  BY DEF Scored, Ahead
<1>. HIDE DEF L, n, place
<1>6. f \in Injection(D, 0..(n - 1))
  BY <1>2, <1>4 DEF Injection, IsInjective
<1>7. IsFiniteSet(0..(n - 1)) /\ Cardinality(0..(n - 1)) = n
  BY <1>1, FS_Interval
<1>8. f \in Surjection(D, 0..(n - 1))
  BY <1>6, <1>7, FS_Injection DEF n
<1>9. \A i \in 1..n : \E a \in D : place(a) = i - 1
  <2>. SUFFICES ASSUME NEW i \in 1..n PROVE \E a \in D : f[a] = i - 1
    OBVIOUS
  <2>1. i - 1 \in 0..(n - 1)
    BY <1>1
  <2>. QED
    BY <1>8, <2>1 DEF Surjection
<1>10. \A i \in 1..n : L[i] \in D /\ place(L[i]) = i - 1
  BY <1>5, <1>9
<1>11. L \in Seq(D) /\ Len(L) = n
  <2>1. L \in [1..n -> D]
    BY <1>5, <1>10
  <2>. QED
    BY <1>1, <2>1
<1>12. ASSUME NEW i \in 1..n, NEW j \in 1..n, i < j
       PROVE  Before(score, current, L[i], L[j])
  <2>1. L[i] \in D /\ L[j] \in D /\ place(L[i]) = i - 1 /\ place(L[j]) = j - 1
    BY <1>10
  <2>2. L[i] # L[j] /\ ~(place(L[j]) < place(L[i]))
    BY <1>1, <1>12, <2>1
  <2>. QED
    BY <1>3, <2>1, <2>2, BeforeIsOrder
<1>13. ASSUME NEW a \in D PROVE \E i \in 1..n : L[i] = a
  <2>. DEFINE i == place(a) + 1
  <2>1. i \in 1..n /\ place(a) = i - 1
    BY <1>1, <1>2
  <2>2. L[i] \in D /\ place(L[i]) = place(a)
    BY <1>10, <2>1
  <2>3. L[i] = a
    BY <1>4, <2>2
  <2>. QED
    BY <2>1, <2>3
<1>. QED
  BY <1>10, <1>11, <1>12, <1>13 DEF InOrder, L, n, place

(***************************************************************************)
(* A list in order names nobody twice, so that its places number what it   *)
(* holds.                                                                  *)
(***************************************************************************)
LEMMA InOrderIsInjective ==
  ASSUME NEW score, IsScores(score), NEW current,
         NEW list, InOrder(score, current, list)
  PROVE  /\ Len(list) \in Nat
         /\ list \in [1..Len(list) -> DOMAIN score]
         /\ DOMAIN list = 1..Len(list)
         /\ \A i, j \in 1..Len(list) : list[i] = list[j] => i = j
<1>1. /\ Len(list) \in Nat
      /\ list \in [1..Len(list) -> DOMAIN score]
      /\ DOMAIN list = 1..Len(list)
  BY LenProperties DEF InOrder
<1>2. ASSUME NEW i \in 1..Len(list), NEW j \in 1..Len(list), list[i] = list[j], i # j
      PROVE  FALSE
  <2>1. i < j \/ j < i
    BY <1>1, <1>2
  <2>2. Before(score, current, list[i], list[j]) \/ Before(score, current, list[j], list[i])
    BY <2>1 DEF InOrder
  <2>3. list[i] \in DOMAIN score /\ list[j] = list[i]
    BY <1>1, <1>2
  <2>. QED
    BY <2>2, <2>3, BeforeIsOrder
<1>. QED
  BY <1>1, <1>2

(***************************************************************************)
(* Counting places of such a list is counting addresses.                   *)
(***************************************************************************)
LEMMA PlacesCount ==
  ASSUME NEW score, IsScores(score), NEW current,
         NEW list, InOrder(score, current, list),
         NEW I \in SUBSET (1..Len(list))
  PROVE  /\ IsFiniteSet(I) /\ IsFiniteSet(Named(list, I))
         /\ Cardinality(I) \in Nat
         /\ Cardinality(Named(list, I)) = Cardinality(I)
<1>1. /\ Len(list) \in Nat
      /\ list \in [1..Len(list) -> DOMAIN score]
      /\ \A i, j \in 1..Len(list) : list[i] = list[j] => i = j
  BY InOrderIsInjective
<1>2. IsFiniteSet(I)
  BY <1>1, IndexCount, FS_Subset
<1>. DEFINE f == [i \in I |-> list[i]]
            T == Named(list, I)
<1>3. f \in Bijection(I, T)
  <2>1. f \in [I -> T] /\ \A i, j \in I : f[i] = f[j] => i = j
    BY <1>1 DEF Named
  <2>2. \A t \in T : \E i \in I : f[i] = t
    BY DEF Named
  <2>. QED
    BY <2>1, <2>2 DEF Bijection, Injection, Surjection, IsInjective
<1>4. ExistsBijection(I, T)
  BY <1>3 DEF ExistsBijection
<1>. QED
  BY <1>2, <1>4, FS_Bijection, FS_CardinalityType

(***************************************************************************)
(* There is one way to put a set of addresses in order.                    *)
(***************************************************************************)
LEMMA OneOrder ==
  ASSUME NEW score, IsScores(score), NEW current,
         NEW list, InOrder(score, current, list), Range(list) = DOMAIN score
  PROVE  list = Scored(score, current)
<1>. DEFINE D == DOMAIN score
            L == Scored(score, current)
<1>1. /\ Len(list) \in Nat
      /\ list \in [1..Len(list) -> D]
      /\ DOMAIN list = 1..Len(list)
      /\ \A i, j \in 1..Len(list) : list[i] = list[j] => i = j
  BY InOrderIsInjective
<1>2. D = Named(list, 1..Len(list))
  BY <1>1 DEF Range, Named
<1>3. \A I \in SUBSET (1..Len(list)) : Cardinality(Named(list, I)) = Cardinality(I)
  BY PlacesCount
<1>4. Cardinality(D) = Len(list)
  BY <1>1, <1>2, <1>3, IndexCount
<1>5. ASSUME NEW i \in 1..Len(list)
      PROVE  Cardinality(Ahead(score, current, list[i])) = i - 1
  <2>1. \A j \in 1..Len(list) : Before(score, current, list[j], list[i]) <=> j \in 1..(i - 1)
    <3>. SUFFICES ASSUME NEW j \in 1..Len(list)
                  PROVE  Before(score, current, list[j], list[i]) <=> j < i
      BY <1>1
    <3>1. CASE j < i
      BY <3>1 DEF InOrder
    <3>2. CASE j = i
      BY <1>1, <3>2, BeforeIsOrder
    <3>3. CASE i < j
      <4>1. Before(score, current, list[i], list[j])
        BY <3>3 DEF InOrder
      <4>2. list[i] \in D /\ list[j] \in D
        BY <1>1
      <4>3. ~Before(score, current, list[j], list[i])
        BY <4>1, <4>2, BeforeIsOrder
      <4>. QED
        BY <1>1, <3>3, <4>3
    <3>. QED
      BY <1>1, <3>1, <3>2, <3>3
  <2>2. Ahead(score, current, list[i]) = Named(list, 1..(i - 1))
    <3>1. \A j \in 1..(i - 1) : j \in 1..Len(list)
      BY <1>1
    <3>. QED
      BY <1>2, <2>1, <3>1 DEF Ahead, Named
  <2>3. 1..(i - 1) \subseteq 1..Len(list) /\ i - 1 \in Nat
    BY <1>1
  <2>4. Cardinality(1..(i - 1)) = i - 1
    BY <2>3, IndexCount
  <2>. QED
    BY <1>3, <2>2, <2>3, <2>4
<1>6. \A i \in 1..Len(list) : L[i] = list[i]
  <2>. SUFFICES ASSUME NEW i \in 1..Len(list) PROVE L[i] = list[i]
    OBVIOUS
  <2>1. L[i] \in D /\ Cardinality(Ahead(score, current, L[i])) = i - 1
    <3>1. InOrder(score, current, L) /\ Len(L) = Len(list)
      BY <1>4, ScoredIsInOrder
    <3>2. L[i] \in D
      BY <3>1, InOrderIsInjective
    <3>. QED
      BY <3>1, <3>2, ScoredIsInOrder
  <2>2. Cardinality(Ahead(score, current, list[i])) = i - 1 /\ list[i] \in D
    BY <1>1, <1>5
  <2>3. L[i] # list[i] => \/ Before(score, current, L[i], list[i])
                          \/ Before(score, current, list[i], L[i])
    BY <2>1, <2>2, BeforeIsOrder
  <2>4. ~(i - 1 < i - 1)
    BY <1>1
  <2>. QED
    BY <2>1, <2>2, <2>3, <2>4, PlacesAreOrdered
<1>7. L \in Seq(D) /\ Len(L) = Len(list) /\ list \in Seq(D)
  BY <1>4, ScoredIsInOrder DEF InOrder
<1>. QED
  BY <1>6, <1>7, SeqEqual

(***************************************************************************)
(* Comparing is not affected by leaving out other candidates.              *)
(***************************************************************************)
LEMMA InOrderOfFewer ==
  ASSUME NEW score, IsScores(score), NEW current,
         NEW list, InOrder(score, current, list)
  PROVE  /\ IsScores(Restrict(score, Range(list)))
         /\ DOMAIN Restrict(score, Range(list)) = Range(list)
         /\ InOrder(Restrict(score, Range(list)), current, list)
<1>. DEFINE R == Range(list)
            r == Restrict(score, R)
<1>1. /\ Len(list) \in Nat
      /\ list \in [1..Len(list) -> DOMAIN score]
      /\ DOMAIN list = 1..Len(list)
  BY InOrderIsInjective
<1>2. R \subseteq DOMAIN score /\ \A i \in 1..Len(list) : list[i] \in R
  BY <1>1 DEF Range
<1>3. DOMAIN r = R /\ \A a \in R : r[a] = score[a]
  BY DEF Restrict
<1>4. IsScores(r)
  BY <1>2, <1>3 DEF IsScores, Restrict
<1>5. list \in Seq(R)
  <2>1. list \in [1..Len(list) -> R]
    BY <1>1, <1>2
  <2>. QED
    BY <1>1, <2>1
<1>. HIDE DEF r, R
<1>6. \A a, b \in R : Before(score, current, a, b) => Before(r, current, a, b)
  BY <1>3 DEF Before
<1>7. InOrder(r, current, list)
  BY <1>2, <1>3, <1>5, <1>6 DEF InOrder
<1>. QED
  BY <1>3, <1>4, <1>7 DEF r, R

----------------------------------------------------------------------------
(***************************************************************************)
(* The loop of selectPool.                                                 *)
(***************************************************************************)

(***************************************************************************)
(* What selectPool has selected after each element of the list.            *)
(***************************************************************************)
Steps(list, f, n) ==
  f = [m \in 0..n |-> IF m = 0 THEN <<>> ELSE Taken(f[m - 1], list[m])]

(***************************************************************************)
(* The loop of selectPool runs to the end of every list: a shortest list   *)
(* that it does not get through would be one element longer than one that  *)
(* it does.                                                                *)
(***************************************************************************)
LEMMA StepsExist ==
  ASSUME NEW list, Len(list) \in Nat
  PROVE  \E f : Steps(list, f, Len(list))
<1>. DEFINE T == {n \in Nat : ~\E f : Steps(list, f, n)}
<1>1. ASSUME T # {} PROVE FALSE
  <2>1. PICK n \in T : \A m \in T : n <= m
    BY <1>1, Least
  <2>2. n \in Nat /\ ~\E f : Steps(list, f, n)
    OBVIOUS
  <2>3. n # 0
    <3>. SUFFICES ASSUME n = 0 PROVE FALSE
      OBVIOUS
    <3>. DEFINE f == [m \in 0..0 |-> <<>>]
    <3>1. Steps(list, f, 0)
      BY DEF Steps
    <3>. QED
      BY <2>2, <3>1
  <2>4. n - 1 \in Nat /\ n - 1 \notin T
    BY <2>1, <2>2, <2>3
  <2>5. PICK f : Steps(list, f, n - 1)
    BY <2>4
  <2>. DEFINE g == [m \in 0..n |-> IF m = n THEN Taken(f[n - 1], list[n]) ELSE f[m]]
  <2>6. \A m \in 0..n : g[m] = IF m = 0 THEN <<>> ELSE Taken(g[m - 1], list[m])
    <3>. SUFFICES ASSUME NEW m \in 0..n
                  PROVE  g[m] = IF m = 0 THEN <<>> ELSE Taken(g[m - 1], list[m])
      OBVIOUS
    <3>1. CASE m = n
      <4>1. n - 1 \in 0..n /\ n - 1 # n
        BY <2>2, <2>4
      <4>2. g[n - 1] = f[n - 1]
        BY <4>1
      <4>. QED
        BY <2>2, <2>3, <3>1, <4>2
    <3>2. CASE m # n
      <4>1. m \in 0..(n - 1) /\ g[m] = f[m]
        BY <2>2, <3>2
      <4>2. f[m] = IF m = 0 THEN <<>> ELSE Taken(f[m - 1], list[m])
        BY <2>5, <4>1 DEF Steps
      <4>3. m # 0 => m - 1 \in 0..n /\ m - 1 # n
        BY <2>2, <4>1
      <4>4. m # 0 => g[m - 1] = f[m - 1]
        BY <4>3
      <4>. QED
        BY <4>1, <4>2, <4>4
    <3>. QED
      BY <3>1, <3>2
  <2>7. g = [m \in 0..n |-> g[m]]
    OBVIOUS
  <2>. HIDE DEF g
  <2>8. Steps(list, g, n)
    BY <2>6, <2>7 DEF Steps
  <2>. QED
    BY <2>2, <2>8
<1>. QED
  BY <1>1

LEMMA SelectPoolIsStepwise ==
  ASSUME NEW list, Len(list) \in Nat
  PROVE  \E f : /\ f[0] = <<>>
                /\ \A m \in 1..Len(list) : f[m] = Taken(f[m - 1], list[m])
                /\ SelectPool(list) = f[Len(list)]
<1>. DEFINE f == CHOOSE g : Steps(list, g, Len(list))
<1>1. SelectPool(list) = f[Len(list)]
  BY DEF SelectPool, Steps
<1>2. Steps(list, f, Len(list))
  BY StepsExist
<1>. HIDE DEF f
<1>3. f[0] = <<>>
  BY <1>2 DEF Steps
<1>4. \A m \in 1..Len(list) : f[m] = Taken(f[m - 1], list[m])
  BY <1>2 DEF Steps
<1>. QED
  BY <1>1, <1>3, <1>4

(***************************************************************************)
(* The addresses of one /24 in a list, and in one that is an address       *)
(* longer.                                                                 *)
(***************************************************************************)
LEMMA SameNetOfAppend ==
  ASSUME NEW S, NEW s \in Seq(S), NEW b \in S, NEW a
  PROVE  /\ SameNet(s, a) \in Nat
         /\ SameNet(Append(s, b), a)
              = IF Net(b) = Net(a) THEN SameNet(s, a) + 1 ELSE SameNet(s, a)
<1>. DEFINE n == Len(s)
            I == {i \in 1..n : Net(s[i]) = Net(a)}
            J == {i \in DOMAIN Append(s, b) : Net(Append(s, b)[i]) = Net(a)}
<1>1. n \in Nat /\ DOMAIN s = 1..n
  BY LenProperties
<1>2. /\ DOMAIN Append(s, b) = 1..(n + 1)
      /\ \A i \in 1..n : Append(s, b)[i] = s[i]
      /\ Append(s, b)[n + 1] = b
  OBVIOUS
<1>3. I \subseteq 1..n /\ n + 1 \notin I
  BY <1>1
<1>4. IsFiniteSet(I) /\ Cardinality(I) \in Nat
  BY <1>1, <1>3, IndexCount, FS_Subset, FS_CardinalityType
<1>5. SameNet(s, a) = Cardinality(I)
  BY <1>1 DEF SameNet
<1>6. SameNet(Append(s, b), a) = Cardinality(J)
  BY DEF SameNet
<1>7. J = IF Net(b) = Net(a) THEN I \cup {n + 1} ELSE I
  <2>1. \A i \in 1..(n + 1) : i \in 1..n \/ i = n + 1
    BY <1>1
  <2>2. n + 1 \in 1..(n + 1) /\ \A i \in 1..n : i \in 1..(n + 1) /\ i # n + 1
    BY <1>1
  <2>. HIDE DEF n
  <2>. QED
    BY <1>2, <2>1, <2>2
<1>. HIDE DEF I, J, n
<1>8. Cardinality(I \cup {n + 1}) = Cardinality(I) + 1
  BY <1>3, <1>4, FS_AddElement
<1>. QED
  BY <1>4, <1>5, <1>6, <1>7, <1>8

InNet(S, a) == {b \in S : Net(b) = Net(a)}

LEMMA SameNetOfInOrder ==
  ASSUME NEW score, IsScores(score), NEW current,
         NEW list, InOrder(score, current, list)
  PROVE  /\ IsFiniteSet(Range(list)) /\ Cardinality(Range(list)) = Len(list)
         /\ \A a : SameNet(list, a) = Cardinality(InNet(Range(list), a))
<1>1. /\ Len(list) \in Nat
      /\ list \in [1..Len(list) -> DOMAIN score]
      /\ DOMAIN list = 1..Len(list)
  BY InOrderIsInjective
<1>2. Range(list) = Named(list, 1..Len(list))
  BY <1>1 DEF Range, Named
<1>3. \A I \in SUBSET (1..Len(list)) :
        /\ IsFiniteSet(Named(list, I))
        /\ Cardinality(Named(list, I)) = Cardinality(I)
  BY PlacesCount
<1>4. ASSUME NEW a
      PROVE  SameNet(list, a) = Cardinality(InNet(Range(list), a))
  <2>. DEFINE I == {i \in 1..Len(list) : Net(list[i]) = Net(a)}
              B == InNet(Range(list), a)
  <2>1. SameNet(list, a) = Cardinality(I)
    BY <1>1 DEF SameNet
  <2>2. I \in SUBSET (1..Len(list))
    OBVIOUS
  <2>3. B = Named(list, I)
    BY <1>2 DEF Named, InNet
  <2>. HIDE DEF I, B
  <2>4. SameNet(list, a) = Cardinality(B)
    BY <1>3, <2>1, <2>2, <2>3
  <2>. QED
    BY <2>4 DEF B
<1>. QED
  BY <1>1, <1>2, <1>3, <1>4, IndexCount

(***************************************************************************)
(* What is true of the selection after the first n elements of the list.   *)
(***************************************************************************)
LeftOutRightly(score, current, s, a) ==
  LET ahead == {b \in Range(s) : Before(score, current, b, a)}
  IN \/ Cardinality(ahead) = PoolSize
     \/ Cardinality(InNet(ahead, a)) = MaxPer24

NetsApart(s) ==
  \A i \in 1..Len(s) : SameNet(SubSeq(s, 1, i - 1), s[i]) < MaxPer24

Selection(score, current, list, n, s) ==
  /\ InOrder(score, current, s)
  /\ \A i \in 1..Len(s) : \E k \in 1..n : s[i] = list[k]
  /\ Len(s) <= PoolSize
  /\ \A a \in DOMAIN score : SameNet(s, a) <= MaxPer24
  /\ NetsApart(s)
  /\ \A k \in 1..n :
       list[k] \in Range(s) \/ LeftOutRightly(score, current, s, list[k])

LEMMA Limits ==
  /\ PoolSize \in Nat /\ MinPool \in Nat /\ MaxPoolEntries \in Nat
  /\ MinPool > 1 /\ MaxPoolEntries >= PoolSize
  /\ MaxPer24 \in {1, 2}
  BY PoolSelectionAssumption

LEMMA SelectionStarts ==
  ASSUME NEW score, IsScores(score), NEW current, NEW list
  PROVE  Selection(score, current, list, 0, <<>>)
<1>. DEFINE s == <<>>
<1>1. s \in Seq(DOMAIN score) /\ Len(s) = 0
  BY EmptySeq
<1>2. InOrder(score, current, s)
  BY <1>1 DEF InOrder
<1>3. \A a : SameNet(s, a) = 0
  <2>. SUFFICES ASSUME NEW a PROVE SameNet(s, a) = 0
    OBVIOUS
  <2>1. {i \in DOMAIN s : Net(s[i]) = Net(a)} = {}
    OBVIOUS
  <2>. QED
    BY <2>1, FS_EmptySet DEF SameNet
<1>4. NetsApart(s)
  BY <1>1 DEF NetsApart
<1>5. 1..0 = {}
  OBVIOUS
<1>. HIDE DEF s
<1>6. Selection(score, current, list, 0, s)
  BY <1>1, <1>2, <1>3, <1>4, <1>5, Limits DEF Selection
<1>. QED
  BY <1>6 DEF s

(***************************************************************************)
(* The loop takes the next of the list: it comes after everybody selected  *)
(* so far, and leaves nobody's reason to be left out in doubt.             *)
(***************************************************************************)
LEMMA SelectionTakes ==
  ASSUME NEW score, IsScores(score), NEW current,
         NEW list, InOrder(score, current, list),
         NEW n \in 1..Len(list), NEW s,
         Selection(score, current, list, n - 1, s),
         Len(s) < PoolSize, SameNet(s, list[n]) < MaxPer24
  PROVE  Selection(score, current, list, n, Append(s, list[n]))
<1>. DEFINE D == DOMAIN score
            t == Append(s, list[n])
            a == list[n]
<1>1. /\ Len(list) \in Nat
      /\ list \in [1..Len(list) -> D]
      /\ \A i, j \in 1..Len(list) : i < j => Before(score, current, list[i], list[j])
  BY InOrderIsInjective DEF InOrder
<1>2. a \in D
  BY <1>1
<1>3. /\ InOrder(score, current, s) /\ s \in Seq(D)
      /\ \A i \in 1..Len(s) : \E k \in 1..(n - 1) : s[i] = list[k]
      /\ \A c \in D : SameNet(s, c) <= MaxPer24
      /\ NetsApart(s)
      /\ \A k \in 1..(n - 1) :
           list[k] \in Range(s) \/ LeftOutRightly(score, current, s, list[k])
  BY DEF Selection, InOrder
<1>4. Len(s) \in Nat /\ DOMAIN s = 1..Len(s) /\ s \in [1..Len(s) -> D]
  BY <1>3, InOrderIsInjective
<1>5. \A i \in 1..Len(s) : Before(score, current, s[i], a)
  BY <1>1, <1>3
<1>6. /\ t \in Seq(D) /\ Len(t) = Len(s) + 1
      /\ \A i \in 1..Len(s) : t[i] = s[i]
      /\ t[Len(s) + 1] = a
  BY <1>2, <1>3, <1>4
<1>7. /\ DOMAIN t = 1..(Len(s) + 1)
      /\ \A i \in 1..(Len(s) + 1) : i \in 1..Len(s) \/ i = Len(s) + 1
      /\ Len(s) + 1 \in 1..(Len(s) + 1)
      /\ 1..Len(s) \subseteq 1..(Len(s) + 1)
  BY <1>4, <1>6, LenProperties
<1>8. Range(t) = Range(s) \cup {a}
  BY <1>4, <1>6, <1>7 DEF Range
<1>. HIDE DEF t
<1>9. InOrder(score, current, t)
  <2>. SUFFICES ASSUME NEW i \in 1..Len(t), NEW j \in 1..Len(t), i < j
                PROVE  Before(score, current, t[i], t[j])
    BY <1>6 DEF InOrder
  <2>1. CASE j = Len(s) + 1
    <3>1. i \in 1..Len(s)
      BY <1>4, <1>6, <2>1
    <3>. QED
      BY <1>5, <1>6, <2>1, <3>1
  <2>2. CASE j \in 1..Len(s)
    <3>1. i \in 1..Len(s)
      BY <1>4, <1>6, <2>2
    <3>. QED
      BY <1>3, <1>6, <2>2, <3>1 DEF InOrder
  <2>. QED
    BY <1>6, <1>7, <2>1, <2>2
<1>10. \A i \in 1..Len(t) : \E k \in 1..n : t[i] = list[k]
  <2>1. n \in 1..n /\ 1..(n - 1) \subseteq 1..n
    BY <1>1
  <2>. QED
    BY <1>3, <1>6, <1>7, <2>1
<1>11. Len(t) <= PoolSize
  BY <1>4, <1>6, Limits
<1>12. \A c \in D : SameNet(t, c) <= MaxPer24
  <2>. SUFFICES ASSUME NEW c \in D PROVE SameNet(t, c) <= MaxPer24
    OBVIOUS
  <2>1. /\ SameNet(s, c) \in Nat
        /\ SameNet(t, c) = IF Net(a) = Net(c) THEN SameNet(s, c) + 1 ELSE SameNet(s, c)
    BY <1>2, <1>3, SameNetOfAppend DEF t
  <2>2. Net(a) = Net(c) => SameNet(s, c) = SameNet(s, a)
    BY DEF SameNet
  <2>. QED
    BY <1>3, <2>1, <2>2, Limits
<1>13. NetsApart(t)
  <2>. SUFFICES ASSUME NEW i \in 1..Len(t)
                PROVE  SameNet(SubSeq(t, 1, i - 1), t[i]) < MaxPer24
    BY DEF NetsApart
  <2>1. SubSeq(t, 1, i - 1) = SubSeq(s, 1, i - 1)
    <3>1. i - 1 \in Nat /\ i - 1 <= Len(s)
      BY <1>4, <1>6
    <3>2. /\ SubSeq(t, 1, i - 1) \in Seq(D) /\ Len(SubSeq(t, 1, i - 1)) = i - 1
          /\ \A j \in 1..(i - 1) : SubSeq(t, 1, i - 1)[j] = t[j]
      BY <1>4, <1>6, <3>1
    <3>3. /\ SubSeq(s, 1, i - 1) \in Seq(D) /\ Len(SubSeq(s, 1, i - 1)) = i - 1
          /\ \A j \in 1..(i - 1) : SubSeq(s, 1, i - 1)[j] = s[j]
      BY <1>3, <1>4, <3>1
    <3>4. \A j \in 1..(i - 1) : t[j] = s[j]
      BY <1>4, <1>6, <3>1
    <3>. QED
      BY <3>2, <3>3, <3>4, SeqEqual
  <2>2. CASE i = Len(s) + 1
    <3>1. SubSeq(s, 1, i - 1) = s
      BY <1>3, <1>4, <2>2, SubSeqFull
    <3>. QED
      BY <1>6, <2>1, <2>2, <3>1
  <2>3. CASE i \in 1..Len(s)
    BY <1>3, <1>6, <2>1, <2>3 DEF NetsApart
  <2>. QED
    BY <1>6, <1>7, <2>2, <2>3
<1>14. ASSUME NEW k \in 1..n
       PROVE  list[k] \in Range(t) \/ LeftOutRightly(score, current, t, list[k])
  <2>1. CASE k = n
    BY <1>8, <2>1
  <2>2. CASE k # n
    <3>1. k \in 1..(n - 1)
      BY <1>1, <2>2
    <3>2. Before(score, current, list[k], a) /\ list[k] \in D
      BY <1>1, <3>1
    <3>3. ~Before(score, current, a, list[k])
      BY <1>2, <3>2, BeforeIsOrder
    <3>4. {b \in Range(t) : Before(score, current, b, list[k])}
            = {b \in Range(s) : Before(score, current, b, list[k])}
      BY <1>8, <3>3
    <3>5. LeftOutRightly(score, current, s, list[k])
            => LeftOutRightly(score, current, t, list[k])
      BY <3>4 DEF LeftOutRightly
    <3>. QED
      BY <1>3, <1>8, <3>1, <3>5
  <2>. QED
    BY <2>1, <2>2
<1>15. Selection(score, current, list, n, t)
  BY <1>9, <1>10, <1>11, <1>12, <1>13, <1>14 DEF Selection
<1>. QED
  BY <1>15 DEF t

(***************************************************************************)
(* The loop passes the next of the list over: the pool is full, or its /24 *)
(* has its share, and those who are there come before it.                  *)
(***************************************************************************)
LEMMA SelectionPasses ==
  ASSUME NEW score, IsScores(score), NEW current,
         NEW list, InOrder(score, current, list),
         NEW n \in 1..Len(list), NEW s,
         Selection(score, current, list, n - 1, s),
         ~(Len(s) < PoolSize /\ SameNet(s, list[n]) < MaxPer24)
  PROVE  Selection(score, current, list, n, s)
<1>. DEFINE D == DOMAIN score
            a == list[n]
<1>1. /\ Len(list) \in Nat
      /\ list \in [1..Len(list) -> D]
      /\ \A i, j \in 1..Len(list) : i < j => Before(score, current, list[i], list[j])
  BY InOrderIsInjective DEF InOrder
<1>2. a \in D
  BY <1>1
<1>3. /\ InOrder(score, current, s) /\ s \in Seq(D)
      /\ \A i \in 1..Len(s) : \E k \in 1..(n - 1) : s[i] = list[k]
      /\ Len(s) <= PoolSize
      /\ \A c \in D : SameNet(s, c) <= MaxPer24
      /\ NetsApart(s)
      /\ \A k \in 1..(n - 1) :
           list[k] \in Range(s) \/ LeftOutRightly(score, current, s, list[k])
  BY DEF Selection, InOrder
<1>4. Len(s) \in Nat /\ DOMAIN s = 1..Len(s) /\ s \in [1..Len(s) -> D]
  BY <1>3, InOrderIsInjective
<1>5. \A i \in 1..Len(s) : Before(score, current, s[i], a)
  BY <1>1, <1>3
<1>6. {b \in Range(s) : Before(score, current, b, a)} = Range(s)
  BY <1>4, <1>5 DEF Range
<1>7. /\ Cardinality(Range(s)) = Len(s)
      /\ SameNet(s, a) = Cardinality(InNet(Range(s), a))
  BY <1>3, SameNetOfInOrder
<1>8. SameNet(s, a) \in Nat
  BY <1>2, <1>3, SameNetOfAppend
<1>9. Len(s) = PoolSize \/ SameNet(s, a) = MaxPer24
  <2>1. SameNet(s, a) <= MaxPer24
    BY <1>2, <1>3
  <2>2. Len(s) < PoolSize /\ SameNet(s, a) < MaxPer24 => FALSE
    OBVIOUS
  <2>3. Len(s) <= PoolSize
    BY <1>3
  <2>4. MaxPer24 \in Nat /\ PoolSize \in Nat
    BY Limits
  <2>. DEFINE l == Len(s)
              k == SameNet(s, a)
  <2>5. l \in Nat /\ k \in Nat
    BY <1>4, <1>8
  <2>. HIDE DEF l, k
  <2>6. (l < PoolSize /\ k < MaxPer24 => FALSE) /\ l <= PoolSize /\ k <= MaxPer24
    BY <2>1, <2>2, <2>3 DEF l, k
  <2>7. l = PoolSize \/ k = MaxPer24
    BY ONLY <2>4, <2>5, <2>6
  <2>. QED
    BY <2>7 DEF l, k
<1>10. LeftOutRightly(score, current, s, a)
  BY <1>6, <1>7, <1>9 DEF LeftOutRightly
<1>11. \A k \in 1..n : k \in 1..(n - 1) \/ k = n
  BY <1>1
<1>12. 1..(n - 1) \subseteq 1..n
  BY <1>1
<1>. QED
  BY <1>3, <1>10, <1>11, <1>12 DEF Selection

(***************************************************************************)
(* So the proposed pool is the selection from the whole list.              *)
(***************************************************************************)
LEMMA SelectPoolSelects ==
  ASSUME NEW score, IsScores(score), NEW current,
         NEW list, InOrder(score, current, list)
  PROVE  Selection(score, current, list, Len(list), SelectPool(list))
<1>1. Len(list) \in Nat
  BY InOrderIsInjective
<1>2. PICK f : /\ f[0] = <<>>
               /\ \A m \in 1..Len(list) : f[m] = Taken(f[m - 1], list[m])
               /\ SelectPool(list) = f[Len(list)]
  BY <1>1, SelectPoolIsStepwise
<1>. DEFINE T == {n \in 0..Len(list) : ~Selection(score, current, list, n, f[n])}
<1>3. ASSUME T # {} PROVE FALSE
  <2>1. PICK n \in T : \A m \in T : n <= m
    <3>1. T \in SUBSET Nat
      BY <1>1
    <3>. QED
      BY <1>3, <3>1, Least
  <2>2. n \in 0..Len(list) /\ ~Selection(score, current, list, n, f[n])
    OBVIOUS
  <2>3. n # 0
    BY <1>2, <2>2, SelectionStarts
  <2>4. n \in 1..Len(list) /\ n - 1 \in 0..Len(list) /\ ~(n <= n - 1)
    BY <1>1, <2>2, <2>3
  <2>5. Selection(score, current, list, n - 1, f[n - 1])
    BY <2>1, <2>4
  <2>6. f[n] = Taken(f[n - 1], list[n])
    BY <1>2, <2>4
  <2>7. CASE Len(f[n - 1]) < PoolSize /\ SameNet(f[n - 1], list[n]) < MaxPer24
    <3>1. f[n] = Append(f[n - 1], list[n])
      BY <2>6, <2>7 DEF Taken
    <3>. QED
      BY <2>2, <2>4, <2>5, <2>7, <3>1, SelectionTakes
  <2>8. CASE ~(Len(f[n - 1]) < PoolSize /\ SameNet(f[n - 1], list[n]) < MaxPer24)
    <3>1. f[n] = f[n - 1]
      BY <2>6, <2>8 DEF Taken
    <3>. QED
      BY <2>2, <2>4, <2>5, <2>8, <3>1, SelectionPasses
  <2>. QED
    BY <2>7, <2>8
<1>4. Len(list) \in 0..Len(list)
  BY <1>1
<1>. QED
  BY <1>2, <1>3, <1>4

----------------------------------------------------------------------------
(***************************************************************************)
(* Scores.                                                                 *)
(***************************************************************************)

(***************************************************************************)
(* A better value has the better percentile, and equal values the same.    *)
(***************************************************************************)
LEMMA PercentileOrder ==
  ASSUME NEW E, IsFiniteSet(E), NEW m \in [E -> Int], NEW a \in E, NEW b \in E
  PROVE  /\ PercentileScore(m, a) \in Int
         /\ m[a] >= m[b] => PercentileScore(m, a) >= PercentileScore(m, b)
         /\ m[a] > m[b] => PercentileScore(m, a) > PercentileScore(m, b)
<1>. DEFINE Below(c) == {d \in E : m[d] < m[c]}
            Equal(c) == {d \in E : m[d] = m[c]}
<1>1. \A S \in SUBSET E : IsFiniteSet(S) /\ Cardinality(S) \in Nat
  BY FS_Subset, FS_CardinalityType
<1>2. \A c \in E : PercentileScore(m, c)
                     = 2 * Cardinality(Below(c)) + Cardinality(Equal(c)) - 1
  BY DEF PercentileScore
<1>3. \A c \in E : /\ Below(c) \in SUBSET E /\ Equal(c) \in SUBSET E
                   /\ Cardinality(Below(c)) \in Nat /\ Cardinality(Equal(c)) \in Nat
  BY <1>1
<1>4. m[a] \in Int /\ m[b] \in Int
  OBVIOUS
<1>5. CASE m[a] = m[b]
  <2>1. Below(a) = Below(b) /\ Equal(a) = Equal(b)
    BY <1>5
  <2>2. PercentileScore(m, a) = PercentileScore(m, b)
    BY <1>2, <2>1
  <2>. HIDE DEF Below, Equal
  <2>3. PercentileScore(m, a) \in Int
    BY <1>2, <1>3
  <2>. QED
    BY <1>4, <1>5, <2>2, <2>3
<1>6. CASE m[a] > m[b]
  <2>1. Below(b) \cup Equal(b) \subseteq Below(a) /\ Below(b) \cap Equal(b) = {}
    BY <1>6
  <2>2. a \in Equal(a) /\ b \in Equal(b)
    OBVIOUS
  <2>. DEFINE la == Cardinality(Below(a))
              lb == Cardinality(Below(b))
              ea == Cardinality(Equal(a))
              eb == Cardinality(Equal(b))
  <2>. HIDE DEF Below, Equal
  <2>3. Cardinality(Below(b) \cup Equal(b)) = lb + eb - Cardinality({})
    BY <1>1, <1>3, <2>1, FS_Union
  <2>4. Cardinality({}) = 0
    BY FS_EmptySet
  <2>5. Cardinality(Below(b) \cup Equal(b)) <= la
    BY <1>1, <1>3, <2>1, FS_Subset
  <2>6. ea # 0 /\ eb # 0
    <3>1. /\ IsFiniteSet(Equal(a)) /\ Equal(a) # {}
          /\ IsFiniteSet(Equal(b)) /\ Equal(b) # {}
      BY <1>1, <1>3, <2>2
    <3>. QED
      BY ONLY <3>1, FS_EmptySet
  <2>7. la \in Nat /\ lb \in Nat /\ ea \in Nat /\ eb \in Nat
    BY <1>3
  <2>8. /\ PercentileScore(m, a) = 2 * la + ea - 1
        /\ PercentileScore(m, b) = 2 * lb + eb - 1
    BY <1>2
  <2>. HIDE DEF la, lb, ea, eb
  <2>9. lb + eb <= la
    BY <2>3, <2>4, <2>5, <2>7
  <2>10. /\ 2 * la + ea - 1 > 2 * lb + eb - 1 /\ 2 * la + ea - 1 >= 2 * lb + eb - 1
         /\ 2 * la + ea - 1 \in Int
    BY ONLY <2>6, <2>7, <2>9
  <2>. QED
    BY <2>8, <2>10
<1>7. CASE m[a] < m[b]
  <2>1. PercentileScore(m, a) \in Int
    <3>. HIDE DEF Below, Equal
    <3>. QED
      BY <1>2, <1>3
  <2>. QED
    BY <1>4, <1>7, <2>1
<1>. QED
  BY <1>4, <1>5, <1>6, <1>7

(***************************************************************************)
(* Of two candidates, one that is at least as good in all measurements and *)
(* better in one scores higher.                                            *)
(***************************************************************************)
Dominates(s, t) ==
  /\ s # t
  /\ s.successes >= t.successes
  /\ s.ttfb <= t.ttfb
  /\ s.total <= t.total
  /\ s.throughput >= t.throughput

LEMMA ScoreOrder ==
  ASSUME NEW E, IsFiniteSet(E), NEW e \in [E -> Summaries],
         NEW a \in E, NEW b \in E
  PROVE  /\ Score(e, a) \in Int
         /\ Dominates(e[a], e[b]) => Score(e, a) > Score(e, b)
<1>. DEFINE m1 == [c \in DOMAIN e |-> e[c].successes]
            m2 == [c \in DOMAIN e |-> -e[c].ttfb]
            m3 == [c \in DOMAIN e |-> -e[c].total]
            m4 == [c \in DOMAIN e |-> e[c].throughput]
            p(m, c) == PercentileScore(m, c)
<1>1. \A c \in E : e[c] \in [successes : 0..3, ttfb : Nat, total : Nat, throughput : Nat]
  BY PoolSelectionAssumption
<1>2. \A c \in E : /\ e[c].successes \in Int /\ -e[c].ttfb \in Int
                   /\ -e[c].total \in Int /\ e[c].throughput \in Int
  BY <1>1
<1>3. /\ m1 \in [E -> Int] /\ m2 \in [E -> Int]
      /\ m3 \in [E -> Int] /\ m4 \in [E -> Int]
  BY <1>2
<1>4. /\ m1[a] = e[a].successes /\ m1[b] = e[b].successes
      /\ m2[a] = -e[a].ttfb /\ m2[b] = -e[b].ttfb
      /\ m3[a] = -e[a].total /\ m3[b] = -e[b].total
      /\ m4[a] = e[a].throughput /\ m4[b] = e[b].throughput
  OBVIOUS
<1>5. \A c \in E :
        Score(e, c) = IF Cardinality(E) <= 1 THEN 20
                      ELSE 9 * p(m1, c) + 5 * p(m2, c) + 3 * p(m3, c) + 3 * p(m4, c)
  BY DEF Score
<1>. HIDE DEF m1, m2, m3, m4
<1>6. /\ p(m1, a) \in Int /\ p(m2, a) \in Int /\ p(m3, a) \in Int /\ p(m4, a) \in Int
      /\ p(m1, b) \in Int /\ p(m2, b) \in Int /\ p(m3, b) \in Int /\ p(m4, b) \in Int
  BY <1>3, PercentileOrder
<1>7. Score(e, a) \in Int
  <2>. HIDE DEF p
  <2>. QED
    BY <1>5, <1>6
<1>8. ASSUME Dominates(e[a], e[b]) PROVE Score(e, a) > Score(e, b)
  <2>1. a # b
    BY <1>8 DEF Dominates
  <2>2. Cardinality({a, b}) = 2 /\ Cardinality({a, b}) <= Cardinality(E)
    <3>1. IsFiniteSet({a}) /\ Cardinality({a}) = 1
      BY FS_Singleton
    <3>2. Cardinality({a} \cup {b}) = Cardinality({a}) + 1
      BY <2>1, <3>1, FS_AddElement
    <3>3. {a, b} = {a} \cup {b} /\ {a, b} \in SUBSET E
      OBVIOUS
    <3>4. Cardinality({a, b}) <= Cardinality(E)
      BY <3>3, FS_Subset
    <3>. QED
      BY <3>1, <3>2, <3>3, <3>4
  <2>3. Cardinality(E) \in Nat
    BY FS_CardinalityType
  <2>4. ~(Cardinality(E) <= 1)
    BY <2>2, <2>3
  <2>5. /\ m1[a] >= m1[b] /\ m2[a] >= m2[b] /\ m3[a] >= m3[b] /\ m4[a] >= m4[b]
    BY <1>1, <1>4, <1>8 DEF Dominates
  <2>6. m1[a] > m1[b] \/ m2[a] > m2[b] \/ m3[a] > m3[b] \/ m4[a] > m4[b]
    BY <1>1, <1>4, <1>8 DEF Dominates
  <2>7. /\ p(m1, a) >= p(m1, b) /\ p(m2, a) >= p(m2, b)
        /\ p(m3, a) >= p(m3, b) /\ p(m4, a) >= p(m4, b)
    BY <1>3, <2>5, PercentileOrder
  <2>8. \/ p(m1, a) > p(m1, b) \/ p(m2, a) > p(m2, b)
        \/ p(m3, a) > p(m3, b) \/ p(m4, a) > p(m4, b)
    BY <1>3, <2>6, PercentileOrder
  <2>. HIDE DEF p
  <2>. QED
    BY <1>5, <1>6, <2>4, <2>7, <2>8
<1>. QED
  BY <1>7, <1>8

(***************************************************************************)
(* A cycle's scores are scores of addresses.                               *)
(***************************************************************************)
LEMMA ScoresAreScores ==
  ASSUME NEW D \in SUBSET Address, NEW s \in [D -> Summaries]
  PROVE  /\ IsScores(ScoresOf(s)) /\ DOMAIN ScoresOf(s) \subseteq D
         /\ IsFiniteSet(DOMAIN ScoresOf(s))
         /\ \A a, b \in DOMAIN ScoresOf(s) :
              Dominates(s[a], s[b]) => ScoresOf(s)[a] > ScoresOf(s)[b]
<1>. DEFINE E == {a \in D : Eligible(s[a])}
            e == EligibleOf(s)
<1>1. e \in [E -> Summaries] /\ \A a \in E : e[a] = s[a]
  BY DEF EligibleOf, Restrict
<1>2. E \subseteq D /\ IsFiniteSet(E)
  BY PoolSelectionAssumption, FS_Subset
<1>. HIDE DEF e, E
<1>3. ScoresOf(s) = [a \in E |-> Score(e, a)]
  BY <1>1 DEF ScoresOf, e
<1>4. \A a, b \in E : /\ Score(e, a) \in Int
                      /\ Dominates(e[a], e[b]) => Score(e, a) > Score(e, b)
  BY <1>1, <1>2, ScoreOrder
<1>. QED
  BY <1>1, <1>2, <1>3, <1>4 DEF IsScores

----------------------------------------------------------------------------
(***************************************************************************)
(* Cycles.                                                                 *)
(***************************************************************************)

(***************************************************************************)
(* While a cycle decides, what it proposes is what selectPool makes of the *)
(* scores of measured addresses that the NAS may sample, against the       *)
(* current pool.                                                           *)
(***************************************************************************)
SelectionInv ==
  /\ pc \in {"build", "decide"}
  /\ pc = "build" => summary = <<>> /\ proposed = <<>>
  /\ pc = "decide" =>
       /\ DOMAIN summary \subseteq Allowed
       /\ summary \in [DOMAIN summary -> Summaries]
       /\ proposed = SelectPool(Scored(ScoresOf(summary), Range(pool)))

LEMMA SelectionInvInductive ==
  /\ SelectionInit => SelectionInv
  /\ SelectionInv /\ [SelectionNext]_selectionVars => SelectionInv'
<1>1. SelectionInit => SelectionInv
  BY DEF SelectionInit, SelectionInv
<1>2. ASSUME SelectionInv, [SelectionNext]_selectionVars PROVE SelectionInv'
  <2>1. CASE Propose
    <3>1. PICK extra \in SUBSET Allowed :
            \E measured \in [((Range(pool) \cup Seeds) \cap Allowed) \cup extra
                               -> Summaries] :
              /\ summary' = measured
              /\ proposed' = SelectPool(Scored(ScoresOf(measured), Range(pool)))
      BY <2>1 DEF Propose
    <3>. DEFINE K == ((Range(pool) \cup Seeds) \cap Allowed) \cup extra
    <3>2. K \subseteq Allowed
      OBVIOUS
    <3>. HIDE DEF K
    <3>3. /\ summary' \in [K -> Summaries]
          /\ proposed' = SelectPool(Scored(ScoresOf(summary'), Range(pool)))
      BY <3>1 DEF K
    <3>4. DOMAIN summary' = K
      BY <3>3
    <3>5. pc' = "decide" /\ pool' = pool
      BY <2>1 DEF Propose
    <3>. QED
      BY <3>2, <3>3, <3>4, <3>5 DEF SelectionInv
  <2>2. CASE Promote
    BY <2>2 DEF Promote, SelectionInv
  <2>3. CASE KeepPool
    BY <2>3 DEF KeepPool, SelectionInv
  <2>4. CASE UNCHANGED selectionVars
    BY <1>2, <2>4 DEF selectionVars, SelectionInv
  <2>. QED
    BY <1>2, <2>1, <2>2, <2>3, <2>4 DEF SelectionNext
<1>. QED
  BY <1>1, <1>2

LEMMA SelectionInvHolds == SelectionSpec => []SelectionInv
<1>1. SelectionInit => SelectionInv
  BY SelectionInvInductive
<1>2. SelectionInv /\ [SelectionNext]_selectionVars => SelectionInv'
  BY SelectionInvInductive
<1>. QED
  BY <1>1, <1>2, PTL DEF SelectionSpec

LEMMA ProposalIsSelected ==
  ASSUME SelectionInv, pc = "decide"
  PROVE  /\ IsScores(ScoresOf(summary))
         /\ DOMAIN ScoresOf(summary) \subseteq DOMAIN summary
         /\ DOMAIN summary \subseteq Allowed
         /\ InOrder(ScoresOf(summary), Range(pool),
                    Scored(ScoresOf(summary), Range(pool)))
         /\ Selection(ScoresOf(summary), Range(pool),
                      Scored(ScoresOf(summary), Range(pool)),
                      Len(Scored(ScoresOf(summary), Range(pool))), proposed)
<1>1. /\ DOMAIN summary \in SUBSET Address
      /\ DOMAIN summary \subseteq Allowed
      /\ summary \in [DOMAIN summary -> Summaries]
      /\ proposed = SelectPool(Scored(ScoresOf(summary), Range(pool)))
  BY PoolSelectionAssumption DEF SelectionInv
<1>2. IsScores(ScoresOf(summary)) /\ DOMAIN ScoresOf(summary) \subseteq DOMAIN summary
  BY <1>1, ScoresAreScores
<1>3. InOrder(ScoresOf(summary), Range(pool), Scored(ScoresOf(summary), Range(pool)))
  BY <1>2, ScoredIsInOrder
<1>. QED
  BY <1>1, <1>2, <1>3, SelectPoolSelects

(***************************************************************************)
(* A proposal of any cycle passes the validation of the Worker.            *)
(***************************************************************************)
THEOREM ProposalsAreAccepted == SelectionSpec => []ProposalIsAccepted
<1>1. SelectionInv => ProposalIsAccepted
  <2>. SUFFICES ASSUME SelectionInv, proposed # <<>>
                PROVE  ValidatePoolEntries(proposed)
    BY DEF ProposalIsAccepted
  <2>. DEFINE score == ScoresOf(summary)
  <2>1. pc = "decide"
    BY DEF SelectionInv
  <2>2. /\ IsScores(score) /\ DOMAIN score \subseteq Allowed
        /\ InOrder(score, Range(pool), proposed)
        /\ Len(proposed) <= PoolSize /\ NetsApart(proposed)
    BY <2>1, ProposalIsSelected DEF Selection
  <2>3. /\ Len(proposed) \in Nat
        /\ proposed \in [1..Len(proposed) -> DOMAIN score]
        /\ DOMAIN proposed = 1..Len(proposed)
        /\ \A i, j \in 1..Len(proposed) : proposed[i] = proposed[j] => i = j
    BY <2>2, InOrderIsInjective
  <2>4. proposed \in Seq(DOMAIN score)
    BY <2>2 DEF InOrder
  <2>5. Len(proposed) \in 1..MaxPoolEntries
    BY <2>2, <2>3, <2>4, Limits, EmptySeq
  <2>6. Range(proposed) \subseteq WorkerAllowed
    BY <2>2, <2>3, PoolSelectionAssumption DEF Range
  <2>7. ASSUME NEW i \in 1..Len(proposed)
        PROVE  LET before == SubSeq(proposed, 1, i - 1)
               IN proposed[i] \notin Range(before) /\ SameNet(before, proposed[i]) < 2
    <3>. DEFINE before == SubSeq(proposed, 1, i - 1)
    <3>1. i - 1 \in Nat /\ i - 1 <= Len(proposed)
      BY <2>3
    <3>2. /\ before \in Seq(DOMAIN score) /\ Len(before) = i - 1
          /\ \A j \in 1..(i - 1) : before[j] = proposed[j]
      BY <2>3, <2>4, <3>1
    <3>3. DOMAIN before = 1..(i - 1)
      BY <3>2, LenProperties
    <3>4. \A j \in 1..(i - 1) : j \in 1..Len(proposed) /\ j # i
      BY <2>3
    <3>5. proposed[i] \notin Range(before)
      BY <2>3, <3>2, <3>3, <3>4 DEF Range
    <3>6. SameNet(before, proposed[i]) < MaxPer24
      BY <2>2 DEF NetsApart
    <3>7. SameNet(before, proposed[i]) \in Nat
      <4>1. proposed[i] \in DOMAIN score
        BY <2>3
      <4>. QED
        BY <3>2, <4>1, SameNetOfAppend
    <3>8. SameNet(before, proposed[i]) < 2
      BY <3>6, <3>7, Limits
    <3>. QED
      BY <3>5, <3>8
  <2>. QED
    BY <2>3, <2>5, <2>6, <2>7 DEF ValidatePoolEntries
<1>. QED
  BY <1>1, SelectionInvHolds, PTL

(***************************************************************************)
(* An eligible address outside the proposal is preceded by a full pool or  *)
(* by the share of its /24.                                                *)
(***************************************************************************)
THEOREM GreedyLeavesOutNoBetter == SelectionSpec => []NoBetterLeftOut
<1>1. SelectionInv => NoBetterLeftOut
  <2>. DEFINE score == ScoresOf(summary)
              list == Scored(score, Range(pool))
  <2>. SUFFICES ASSUME SelectionInv, pc = "decide",
                       NEW a \in DOMAIN score \ Range(proposed)
                PROVE  LeftOutRightly(score, Range(pool), proposed, a)
    BY DEF NoBetterLeftOut, LeftOutRightly, InNet
  <2>1. /\ IsScores(score)
        /\ Selection(score, Range(pool), list, Len(list), proposed)
    BY ProposalIsSelected
  <2>2. PICK k \in 1..Len(list) : list[k] = a
    BY <2>1, ScoredIsInOrder
  <2>. QED
    BY <2>1, <2>2 DEF Selection
<1>. QED
  BY <1>1, SelectionInvHolds, PTL

(***************************************************************************)
(* Whoever is at least as good in every measurement and better in one      *)
(* scores higher, whatever field both are measured in.                     *)
(***************************************************************************)
THEOREM ScoresFollowMeasurements == SelectionSpec => []BetterScoresHigher
<1>1. SelectionInv => BetterScoresHigher
  <2>. DEFINE score == ScoresOf(summary)
  <2>. SUFFICES ASSUME SelectionInv, NEW a \in DOMAIN score, NEW b \in DOMAIN score,
                       Dominates(summary[a], summary[b])
                PROVE  score[a] > score[b]
    BY DEF BetterScoresHigher, Dominates
  <2>1. DOMAIN score \subseteq DOMAIN summary
    BY DEF ScoresOf, EligibleOf, Restrict
  <2>2. pc = "decide"
    <3>1. DOMAIN summary # {}
      BY <2>1
    <3>2. summary # <<>>
      BY <3>1
    <3>. QED
      BY <3>2 DEF SelectionInv
  <2>3. DOMAIN summary \in SUBSET Address /\ summary \in [DOMAIN summary -> Summaries]
    BY <2>2, PoolSelectionAssumption DEF SelectionInv
  <2>. QED
    BY <2>3, ScoresAreScores
<1>. QED
  BY <1>1, SelectionInvHolds, PTL

LEMMA MedianIsNumber ==
  ASSUME NEW score, IsScores(score), NEW current,
         NEW list, InOrder(score, current, list), Len(list) > 1
  PROVE  MedianScore(score, list) \in Int
<1>. DEFINE n == Len(list)
<1>1. n \in Nat /\ n > 1 /\ list \in [1..n -> DOMAIN score]
  BY InOrderIsInjective
<1>2. MedianScore(score, list) = score[list[(n + 1) \div 2]] + score[list[n \div 2 + 1]]
  BY DEF MedianScore
<1>. HIDE DEF n
<1>3. (n + 1) \div 2 \in 1..n /\ n \div 2 + 1 \in 1..n
  BY <1>1
<1>4. score[list[(n + 1) \div 2]] \in Int /\ score[list[n \div 2 + 1]] \in Int
  BY <1>1, <1>3 DEF IsScores
<1>. QED
  BY <1>2, <1>4

(***************************************************************************)
(* A promotion replaces the pool by other addresses: a proposal of the same*)
(* ones is the current pool in score order, and no gain over itself.       *)
(***************************************************************************)
THEOREM PromotionsChangePool == SelectionSpec => PromotionChangesPool
<1>1. ASSUME SelectionInv, ProposalIsAccepted, Promote, Range(pool') = Range(pool)
      PROVE  FALSE
  <2>. DEFINE score == ScoresOf(summary)
              current == Restrict(score, DOMAIN score \cap Range(pool))
  <2>1. /\ pc = "decide" /\ ShouldPromote(score, CurrentScored(score), proposed)
        /\ pool' = IF ValidatePoolEntries(proposed) THEN proposed ELSE pool
    BY <1>1 DEF Promote
  <2>2. /\ IsScores(score) /\ InOrder(score, Range(pool), proposed)
    BY <1>1, <2>1, ProposalIsSelected DEF Selection
  <2>3. Len(proposed) \in Nat /\ Len(proposed) >= MinPool /\ Len(proposed) > 1
    BY <2>1, <2>2, InOrderIsInjective, Limits DEF ShouldPromote
  <2>4. pool' = proposed
    <3>1. proposed # <<>>
      BY <2>3
    <3>. QED
      BY <1>1, <2>1, <3>1 DEF ProposalIsAccepted
  <2>5. Range(pool) = Range(proposed)
    BY <1>1, <2>4
  <2>6. Range(proposed) \subseteq DOMAIN score
    BY <2>2, InOrderIsInjective DEF Range
  <2>7. current = Restrict(score, Range(proposed))
    <3>1. DOMAIN score \cap Range(pool) = Range(proposed)
      BY <2>5, <2>6
    <3>. QED
      BY <3>1
  <2>8. proposed = Scored(current, Range(pool))
    <3>1. /\ IsScores(current) /\ DOMAIN current = Range(proposed)
          /\ InOrder(current, Range(pool), proposed)
      BY <2>2, <2>7, InOrderOfFewer
    <3>. QED
      BY <3>1, OneOrder
  <2>9. CurrentScored(score) = proposed
    BY <2>8 DEF CurrentScored
  <2>. DEFINE c == MedianScore(score, proposed)
  <2>10. c \in Int
    BY <2>2, <2>3, MedianIsNumber
  <2>11. c > 0 /\ 100 * (c - c) >= 15 * c
    BY <2>1, <2>3, <2>9 DEF ShouldPromote
  <2>. HIDE DEF c
  <2>. QED
    BY <2>10, <2>11
<1>2. SelectionInv /\ ProposalIsAccepted /\ [SelectionNext]_selectionVars
        => [Promote => Range(pool') # Range(pool)]_selectionVars
  BY <1>1
<1>. QED
  BY <1>2, SelectionInvHolds, ProposalsAreAccepted, PTL
     DEF SelectionSpec, PromotionChangesPool
============================================================================
