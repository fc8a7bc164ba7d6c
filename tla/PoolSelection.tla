--------------------------- MODULE PoolSelection ---------------------------
(***************************************************************************)
(* How a cycle chooses the pool it proposes: the candidates, their scores, *)
(* the diversity rule and the promotion gate of the NAS                    *)
(* (optimizer/src/candidates.js, score.js, run.js), and the validation of  *)
(* the Worker that the proposal must pass (src/src/ops/pool-store.js).     *)
(*                                                                         *)
(* Scores are kept as integers: within one cycle every score is the same   *)
(* positive fraction of them, so order and ratios are the code's; the      *)
(* tolerances of 1e-12 against rounding have no counterpart.  Addresses    *)
(* are canonical.                                                          *)
(* A definition X_Y is no part of the model: it is X with a plausible bug. *)
(***************************************************************************)
EXTENDS Integers, Sequences, FiniteSets, Functions

CONSTANTS
  Address, Net(_),  \* addresses and their /24
  Rank,             \* their order under localeCompare
  Allowed,          \* inside the CIDRs the NAS samples
  WorkerAllowed,    \* inside the CIDRs the Worker accepts
  Seeds,            \* configured addresses
  CandidateTarget,  \* addresses sampled beside winners and seeds
  Summaries,        \* what summarizeCandidate may return
  PoolSize, MaxPer24, MinPool,  \* 8, 2 and 4 in the code
  MaxPoolEntries                \* 16 in the code

VARIABLES
  pc,
  pool,      \* current.json's entries
  summary,   \* the measured candidates
  proposed   \* the selected pool, best first

selectionVars == <<pc, pool, summary, proposed>>

ASSUME PoolSelectionAssumption ==
  /\ IsFiniteSet(Address) /\ Rank \in [Address -> Nat] /\ IsInjective(Rank)
  /\ Seeds \subseteq Address /\ Allowed \subseteq WorkerAllowed
  /\ WorkerAllowed \subseteq Address
  /\ Summaries \subseteq
       [successes : 0..3, ttfb : Nat, total : Nat, throughput : Nat]
  /\ {PoolSize, MinPool, MaxPoolEntries, CandidateTarget} \subseteq Nat
  /\ MinPool > 1 /\ PoolSize >= MinPool /\ MaxPoolEntries >= PoolSize
  /\ MaxPer24 \in {1, 2}

MaxTtfb == 1500

SelectionInit ==
  /\ pc = "build"
  /\ pool = <<>>
  /\ summary = <<>>
  /\ proposed = <<>>

----------------------------------------------------------------------------
(* scoreCandidates, over a set of measured addresses.                      *)

Eligible(s) == s.successes >= 2 /\ s.ttfb <= MaxTtfb

\* Twice the mean position, worst first, of the values equal to a's.
PercentileScore(m, a) ==
  2 * Cardinality({b \in DOMAIN m : m[b] < m[a]})
    + Cardinality({b \in DOMAIN m : m[b] = m[a]}) - 1

Score_SlowIsGood(s, a) ==          \* higherIsBetter for the TTFB too
  IF Cardinality(DOMAIN s) <= 1 THEN 20
  ELSE   9 * PercentileScore([b \in DOMAIN s |-> s[b].successes], a)
       + 5 * PercentileScore([b \in DOMAIN s |-> s[b].ttfb], a)
       + 3 * PercentileScore([b \in DOMAIN s |-> -s[b].total], a)
       + 3 * PercentileScore([b \in DOMAIN s |-> s[b].throughput], a)

\* 45, 25, 15 and 15 percent; a single candidate scores full marks.
Score(s, a) ==
  IF Cardinality(DOMAIN s) <= 1 THEN 20
  ELSE   9 * PercentileScore([b \in DOMAIN s |-> s[b].successes], a)
       + 5 * PercentileScore([b \in DOMAIN s |-> -s[b].ttfb], a)
       + 3 * PercentileScore([b \in DOMAIN s |-> -s[b].total], a)
       + 3 * PercentileScore([b \in DOMAIN s |-> s[b].throughput], a)

EligibleOf(s) == Restrict(s, {a \in DOMAIN s : Eligible(s[a])})

ScoresOf(s) == LET e == EligibleOf(s) IN [a \in DOMAIN e |-> Score(e, a)]

\* Better scores first, then addresses of the current pool, then by name.
Before(score, current, a, b) ==
  \/ score[a] > score[b]
  \/ score[a] = score[b] /\ a \in current /\ b \notin current
  \/ /\ score[a] = score[b] /\ (a \in current <=> b \in current)
     /\ Rank[a] < Rank[b]

Scored(score, current) ==
  LET place(a) == Cardinality({b \in DOMAIN score :
                                 Before(score, current, b, a)})
  IN [i \in 1..Cardinality(DOMAIN score) |->
        CHOOSE a \in DOMAIN score : place(a) = i - 1]

----------------------------------------------------------------------------
(* selectPool and shouldPromote.                                           *)

SameNet(list, a) == Cardinality({i \in DOMAIN list : Net(list[i]) = Net(a)})

SelectPool_StopsAtFullNet(list) ==  \* 'break' where the code says 'continue'
  LET full == {i \in DOMAIN list : SameNet(SubSeq(list, 1, i - 1), list[i])
                                     >= MaxPer24}
      end == IF full = {} THEN Len(list)
             ELSE (CHOOSE i \in full : \A j \in full : i <= j) - 1
  IN SubSeq(list, 1, IF end < PoolSize THEN end ELSE PoolSize)

SelectPool_NoDiversity(list) ==
  SubSeq(list, 1, IF Len(list) < PoolSize THEN Len(list) ELSE PoolSize)

Taken(selected, a) ==
  IF Len(selected) < PoolSize /\ SameNet(selected, a) < MaxPer24
  THEN Append(selected, a) ELSE selected

SelectPool(list) ==
  LET selected[n \in 0..Len(list)] ==
        IF n = 0 THEN <<>> ELSE Taken(selected[n - 1], list[n])
  IN selected[Len(list)]

\* Twice the median of the scores of a list that is in score order.
MedianScore(score, list) ==
  LET n == Len(list)
  IN score[list[(n + 1) \div 2]] + score[list[n \div 2 + 1]]

ShouldPromote_AnyGain(score, current, list) ==   \* no hysteresis
  /\ Len(list) >= MinPool
  /\ Len(current) >= MinPool
       => MedianScore(score, list) >= MedianScore(score, current)

ShouldPromote(score, current, list) ==
  /\ Len(list) >= MinPool
  /\ Len(current) >= MinPool =>
       LET c == MedianScore(score, current)
           p == MedianScore(score, list)
       IN c > 0 /\ 100 * (p - c) >= 15 * c

\* The members of the current pool that are still eligible, in score order.
CurrentScored(score) ==
  Scored(Restrict(score, DOMAIN score \cap Range(pool)), Range(pool))

----------------------------------------------------------------------------
(* validatePoolEntries of the Worker.                                      *)

ValidatePoolEntries(list) ==
  /\ Len(list) \in 1..MaxPoolEntries
  /\ Range(list) \subseteq WorkerAllowed
  /\ \A i \in DOMAIN list :
       LET before == SubSeq(list, 1, i - 1)
       IN list[i] \notin Range(before) /\ SameNet(before, list[i]) < 2

----------------------------------------------------------------------------
(***************************************************************************)
(* buildCandidateSet keeps the winners and the seeds that are allowed and  *)
(* adds at most CandidateTarget sampled ones; three rounds of probes give  *)
(* every candidate a summary; the pool is proposed.  (The quantifier over  *)
(* one element has TLC sort the candidates once.)                          *)
(***************************************************************************)
Propose ==
  /\ pc = "build"
  /\ LET kept == (Range(pool) \cup Seeds) \cap Allowed
     IN \E extra \in SUBSET (Allowed \ kept) :
          /\ Cardinality(extra) <= CandidateTarget
          /\ \E measured \in [kept \cup extra -> Summaries] :
               \E scored \in {Scored(ScoresOf(measured), Range(pool))} :
                 summary' = measured /\ proposed' = SelectPool(scored)
  /\ pc' = "decide"
  /\ UNCHANGED pool

\* The publish succeeds, or is refused by the validation.
Promote ==
  /\ pc = "decide"
  /\ LET score == ScoresOf(summary)
     IN ShouldPromote(score, CurrentScored(score), proposed)
  /\ pool' = IF ValidatePoolEntries(proposed) THEN proposed ELSE pool
  /\ pc' = "build" /\ summary' = <<>> /\ proposed' = <<>>

\* No promotion, or a dry run, an override, or a failure.
KeepPool ==
  /\ pc = "decide"
  /\ pc' = "build" /\ summary' = <<>> /\ proposed' = <<>>
  /\ UNCHANGED pool

SelectionNext == Propose \/ Promote \/ KeepPool

SelectionSpec == SelectionInit /\ [][SelectionNext]_selectionVars

----------------------------------------------------------------------------
(***************************************************************************)
(* Whatever was measured, a proposal that has any entries passes the       *)
(* Worker's validation: the two programs agree on size, duplicates and     *)
(* diversity.                                                              *)
(***************************************************************************)
ProposalIsAccepted == proposed # <<>> => ValidatePoolEntries(proposed)

(***************************************************************************)
(* The greedy selection leaves out no better address: an eligible one that *)
(* is not proposed is preceded by a full pool, or by two selected          *)
(* addresses of its own /24.                                               *)
(***************************************************************************)
NoBetterLeftOut ==
  LET score == ScoresOf(summary)
  IN pc = "decide" =>
       \A a \in DOMAIN score \ Range(proposed) :
         LET ahead == {b \in Range(proposed) :
                         Before(score, Range(pool), b, a)}
         IN \/ Cardinality(ahead) = PoolSize
            \/ Cardinality({b \in ahead : Net(b) = Net(a)}) = MaxPer24

(***************************************************************************)
(* An address that is at least as good in every measurement, and better in *)
(* one, always scores strictly higher, although each score is relative to  *)
(* the whole field.                                                        *)
(***************************************************************************)
BetterScoresHigher ==
  LET score == ScoresOf(summary)
  IN \A a, b \in DOMAIN score :
       /\ summary[a] # summary[b]
       /\ summary[a].successes >= summary[b].successes
       /\ summary[a].ttfb <= summary[b].ttfb
       /\ summary[a].total <= summary[b].total
       /\ summary[a].throughput >= summary[b].throughput
       => score[a] > score[b]

(***************************************************************************)
(* A publish always changes the pool: the same addresses are never         *)
(* promoted over themselves in another order.                              *)
(***************************************************************************)
PromotionChangesPool ==
  [][ Promote => Range(pool') # Range(pool) ]_selectionVars
=============================================================================
