--------------------------- MODULE MCNasDecisions ---------------------------
(***************************************************************************)
(* Three decisions of the NAS that share no state, for TLC: when a cycle   *)
(* runs, which candidates it samples and which pool it proposes.  A        *)
(* behaviour takes steps of one of them only, so that their state spaces   *)
(* add up instead of multiplying.                                          *)
(***************************************************************************)
EXTENDS DaemonSchedule, PoolSelection, CidrSampling, TLC

CONSTANTS a1, a2, a3, b1, b2, x

MCAddress == {a1, a2, a3, b1, b2, x}
MCAllowed == {a1, a2, a3, b1, b2}
MCNet(a) == IF a \in {a1, a2, a3} THEN "a" ELSE "b"
MCRank == (a1 :> 1) @@ (b1 :> 2) @@ (a2 :> 3) @@ (b2 :> 4) @@ (a3 :> 5)
            @@ (x :> 6)

Measured(successes, ttfb, total, throughput) ==
  [successes |-> successes, ttfb |-> ttfb, total |-> total,
   throughput |-> throughput]

\* Two that are better in different respects, one that is worse than both,
\* and one that is too slow.
MCSummaries ==
  {Measured(3, 900, 200, 5), Measured(2, 100, 300, 5),
   Measured(2, 1500, 1600, 1), Measured(3, 1501, 1600, 1)}

\* One range or two, which may overlap, with any prefix.
MCCidrLists ==
  LET cidr == [base : {2, 7}, prefix : 0..W]
  IN {<<c>> : c \in cidr} \cup {<<c, d>> : c \in cidr, d \in cidr}

Init == ScheduleInit /\ SelectionInit /\ CidrInit

Next ==
  \/ SelectionInit /\ CidrInit /\ ScheduleNext
       /\ UNCHANGED <<selectionVars, cidrVars>>
  \/ ScheduleInit /\ CidrInit /\ SelectionNext
       /\ UNCHANGED <<scheduleVars, cidrVars>>
  \/ ScheduleInit /\ SelectionInit /\ CidrNext
       /\ UNCHANGED <<scheduleVars, selectionVars>>

Spec == Init /\ [][Next]_<<scheduleVars, selectionVars, cidrVars>>
=============================================================================
