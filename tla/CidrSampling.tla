---------------------------- MODULE CidrSampling ----------------------------
(***************************************************************************)
(* How addresses are drawn from CIDR ranges (optimizer/src/candidates.js)  *)
(* and how the Worker checks them later (src/src/ops/cidr.js), in          *)
(* unsigned integers of W bits with JavaScript's shifts: the distance of a *)
(* shift is taken modulo W.  Both programs are given the same ranges.      *)
(* A definition X_Y is no part of the model: it is X with a plausible bug. *)
(***************************************************************************)
EXTENDS Integers, FiniteSets, SequencesExt, Bitwise

CONSTANTS
  W,            \* 32 in the code
  CidrLists,    \* sequences of [base, prefix]
  Offered,      \* addresses of the current pool and of the seeds
  Targets,      \* how many more candidates are wanted
  SampleSlack,  \* 16 in the code
  ScanSlack     \* 64 in the code

VARIABLES
  cidrs,     \* the ranges, or <<>> before they are read
  kept,      \* the current winners and seeds that are in them
  target,    \* the additional candidates asked for
  drawn,     \* addresses drawn at random
  candidates \* the finished set

cidrVars == <<cidrs, kept, target, drawn, candidates>>

ASSUME CidrAssumption == W \in Nat \ {0, 1} /\ ScanSlack \in Nat

Word == 2 ^ W
ShiftLeft(n, distance) == (n * 2 ^ (distance % W)) % Word

MaskForPrefix_NoGuard(prefix) == ShiftLeft(Word - 1, W - prefix)

MaskForPrefix(prefix) ==
  IF prefix = 0 THEN 0 ELSE ShiftLeft(Word - 1, W - prefix)

\* The Worker's parseIPv4Cidr and isIPv4InCidrs.
WorkerAccepts(address) ==
  \E i \in DOMAIN cidrs :
    LET mask == MaskForPrefix(cidrs[i].prefix)
    IN address & mask = cidrs[i].base & mask

\* The NAS's parseCidr: the first usable address and how many there are.
UsableRange(cidr) ==
  LET network == cidr.base & MaskForPrefix(cidr.prefix)
      lastRaw == network + 2 ^ (W - cidr.prefix) - 1
      wide == cidr.prefix <= W - 2
      first == IF wide THEN (network + 1) % Word ELSE network
      last == IF wide THEN (lastRaw - 1) % Word ELSE lastRaw % Word
  IN [first |-> first, usable |-> Max({0, last - first + 1})]

\* The first addresses of a range.
FirstOf(cidr, n) ==
  LET range == UsableRange(cidr)
  IN [i \in 1..Min({n, range.usable}) |-> (range.first + i - 1) % Word]

Contained == UNION {ToSet(FirstOf(cidrs[i], Word)) : i \in DOMAIN cidrs}

\* What sampleIpv4Cidrs is asked for, and what it settles for.
Wanted ==
  LET usable == FoldSeq(LAMBDA c, n : UsableRange(c).usable + n, 0, cidrs)
      desired == Cardinality(kept) + target
  IN Min({usable, Max({3 * target, 2 * desired, target + SampleSlack})})

\* After the draws, each range is scanned from its start until the sample is
\* complete.
Scan(sample) ==
  LET wanted == Wanted
      scanned == FlattenSeq([i \in DOMAIN cidrs |->
                               FirstOf(cidrs[i], 4 * wanted + ScanSlack)])
      new == {i \in DOMAIN scanned :
                scanned[i] \notin sample \cup {scanned[j] : j \in 1..(i - 1)}}
  IN sample \cup {scanned[i] : i \in {j \in new :
        Cardinality(sample) + Cardinality(new \cap 1..j) <= wanted}}

CidrInit ==
  cidrs = <<>> /\ kept = {} /\ target = 0 /\ drawn = {} /\ candidates = {}

\* buildCandidateSet keeps what it may and wants 'n' more.
KeepAllowed(list, offered, n) ==
  /\ cidrs = <<>>
  /\ cidrs' = list
  /\ kept' = offered \cap Contained'
  /\ target' = n
  /\ UNCHANGED <<drawn, candidates>>

\* One try of the random phase that hits something new.
DrawOne ==
  /\ cidrs # <<>> /\ candidates = {} /\ target > 0
  /\ Cardinality(drawn) < Wanted
  /\ \E a \in Contained \ drawn : drawn' = drawn \cup {a}
  /\ UNCHANGED <<cidrs, kept, target, candidates>>

\* The draws are enough, or the tries are used up; the sample is taken over
\* until the set is complete.
FillUp ==
  /\ cidrs # <<>> /\ candidates = {} /\ target > 0
  /\ LET fresh == Scan(drawn) \ kept
     IN \E taken \in kSubset(Min({target, Cardinality(fresh)}), fresh) :
          candidates' = kept \cup taken
  /\ UNCHANGED <<cidrs, kept, target, drawn>>

CidrNext ==
  \/ \E list \in CidrLists, offered \in Offered, n \in Targets :
       KeepAllowed(list, offered, n)
  \/ DrawOne
  \/ FillUp

----------------------------------------------------------------------------
\* Host addresses of a range, without the network's own and the broadcast
\* address when there is room for them, in ordinary arithmetic.
Hosts(cidr) ==
  LET size == 2 ^ (W - cidr.prefix)
  IN {a \in 0..(Word - 1) :
        /\ a \div size = cidr.base \div size
        /\ size > 2 => a % size \notin {0, size - 1}}

(***************************************************************************)
(* Whatever was drawn, at /0, at full length and for overlapping ranges:   *)
(* the candidates are hosts of the ranges, the Worker will accept them,    *)
(* and there are as many as asked for unless the ranges have no more.      *)
(***************************************************************************)
CandidatesAreUsable ==
  LET hosts == UNION {Hosts(cidrs[i]) : i \in DOMAIN cidrs}
  IN /\ kept \subseteq hosts
     /\ candidates # {} =>
          /\ candidates \subseteq hosts
          /\ \A a \in candidates : WorkerAccepts(a)
          /\ Cardinality(candidates)
               = Min({Cardinality(kept) + target, Cardinality(hosts)})
=============================================================================
