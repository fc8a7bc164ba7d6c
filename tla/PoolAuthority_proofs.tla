------------------------ MODULE PoolAuthority_proofs ------------------------
(***************************************************************************)
(* Theorems about PoolAuthority, for every set of revisions, pools and     *)
(* texts.  IndInv is the inductive invariant: a revision that was ever     *)
(* stored keeps the snapshot it was stored with, which is what makes a     *)
(* rollback restore the very text its publish had written.                 *)
(***************************************************************************)
EXTENDS PoolAuthority, TLAPS

SnapshotsNeverRewritten ==
  \A r \in Revision : pools[r] \in {Null, SnapshotOf(r)}

OverrideClaimsObject == manual_add_txt # Null => manual_add_initialized

UndoNeedsPool == previous # Null => current # Null /\ pools[previous] # Null

IndInv ==
  /\ TypeOK
  /\ SnapshotsNeverRewritten
  /\ UndoNeedsPool
  /\ OverrideClaimsObject
  /\ ServedTextIsCurrentPool
  /\ StatusNamesInstalledPools

----------------------------------------------------------------------------
(* A snapshot is a well-typed record and never reads as an absent key.     *)
LEMMA SnapshotType ==
  ASSUME NEW r \in Revision
  PROVE  /\ SnapshotOf(r) \in Snapshot
         /\ SnapshotOf(r) # Null
         /\ SnapshotOf(r).entries = PoolOf[r]
         /\ PoolOf[r] \in Pool
         /\ FormatAddTxt(PoolOf[r]) \in AddText
BY PoolAuthorityAssumption DEF SnapshotOf, Snapshot, AddText

(* A recorded mutation is well typed and is not an absent status.          *)
LEMMA MutationType ==
  ASSUME NEW kind \in {"publish", "rollback", "reset_empty"},
         NEW r \in Revision \cup {Null}, NEW q \in Revision \cup {Null}
  PROVE  /\ MutationOf(kind, r, q) \in Mutation
         /\ MutationOf(kind, r, q) # Null
         /\ MutationOf(kind, r, q).mutation = kind
         /\ MutationOf(kind, r, q).revision = r
         /\ MutationOf(kind, r, q).previous = q
BY PoolAuthorityAssumption DEF MutationOf, Mutation

(* The initial storage, with no key stored, satisfies the invariant.       *)
LEMMA InitIndInv == Init => IndInv
BY DEF Init, IndInv, TypeOK, SnapshotsNeverRewritten, UndoNeedsPool,
       OverrideClaimsObject, ServedTextIsCurrentPool,
       StatusNamesInstalledPools

(* Adopting a legacy text leaves the administrator's keys well typed and   *)
(* marks the object as claimed whenever it stores an override.             *)
LEMMA AdoptLegacyType ==
  ASSUME TypeOK, OverrideClaimsObject, NEW legacy \in LegacyText,
         AdoptLegacy(legacy)
  PROVE  /\ manual_add_txt' \in AddText \cup {Null}
         /\ manual_add_initialized' \in BOOLEAN
         /\ OverrideClaimsObject'
BY DEF TypeOK, OverrideClaimsObject, LegacyText, AdoptLegacy, manualVars

(* A publish preserves the invariant.                                      *)
LEMMA PublishIndInv ==
  ASSUME IndInv, NEW expected \in Revision \cup {Null}, NEW r \in Revision,
         NEW legacy \in LegacyText,
         PublishAuthoritativePool(expected, r, legacy)
  PROVE  IndInv'
<1> USE PoolAuthorityAssumption
<1>1. /\ pools' = [pools EXCEPT ![r] = SnapshotOf(r)]
      /\ previous' = current /\ current' = r
      /\ add_txt' = FormatAddTxt(PoolOf[r])
      /\ status' = MutationOf("publish", r, current)
      /\ AdoptLegacy(legacy)
  BY DEF PublishAuthoritativePool
<1>2. TypeOK'
  BY <1>1, SnapshotType, MutationType, AdoptLegacyType DEF IndInv, TypeOK
<1>3. SnapshotsNeverRewritten'
  BY <1>1 DEF IndInv, TypeOK, SnapshotsNeverRewritten, SnapshotOf
<1>4. UndoNeedsPool'
  BY <1>1, SnapshotType
     DEF IndInv, TypeOK, UndoNeedsPool, ServedTextIsCurrentPool
<1>5. OverrideClaimsObject'
  BY <1>1, AdoptLegacyType DEF IndInv
<1>6. ServedTextIsCurrentPool'
  BY <1>1 DEF IndInv, TypeOK, ServedTextIsCurrentPool, SnapshotOf
<1>7. StatusNamesInstalledPools'
  BY <1>1, MutationType DEF IndInv, TypeOK, StatusNamesInstalledPools
<1>8. QED BY <1>2, <1>3, <1>4, <1>5, <1>6, <1>7 DEF IndInv

(* A rollback preserves the invariant: the snapshot it finds under         *)
(* 'previous' is the one that was published.                               *)
LEMMA RollbackIndInv ==
  ASSUME IndInv, NEW expected \in Revision \cup {Null},
         RollbackAuthoritativePool(expected)
  PROVE  IndInv'
<1> USE PoolAuthorityAssumption
<1>1. /\ previous # Null /\ pools[previous] # Null
      /\ current # Null
  BY DEF RollbackAuthoritativePool, RollbackReply, Ok
<1>2. /\ previous' = current /\ current' = previous /\ pools' = pools
      /\ add_txt' = FormatAddTxt(pools[previous].entries)
      /\ status' = MutationOf("rollback", previous, current)
      /\ UNCHANGED <<manual_add_txt, manual_add_initialized>>
  BY DEF RollbackAuthoritativePool, manualVars
<1>3. /\ previous \in Revision /\ current \in Revision
      /\ pools[previous] = SnapshotOf(previous)
      /\ pools[previous].entries = PoolOf[previous]
      /\ pools[current] # Null
  BY <1>1, SnapshotType
     DEF IndInv, TypeOK, SnapshotsNeverRewritten, ServedTextIsCurrentPool
<1>4. TypeOK'
  BY <1>2, <1>3, SnapshotType, MutationType DEF IndInv, TypeOK
<1>5. /\ SnapshotsNeverRewritten' /\ UndoNeedsPool' /\ OverrideClaimsObject'
  BY <1>1, <1>2, <1>3
     DEF IndInv, SnapshotsNeverRewritten, UndoNeedsPool, OverrideClaimsObject
<1>6. ServedTextIsCurrentPool'
  BY <1>1, <1>2, <1>3 DEF ServedTextIsCurrentPool
<1>7. StatusNamesInstalledPools'
  BY <1>1, <1>2, <1>3, MutationType DEF StatusNamesInstalledPools
<1>8. QED BY <1>4, <1>5, <1>6, <1>7 DEF IndInv

(* A reset preserves the invariant: it runs only without an undo target.   *)
LEMMA ResetIndInv ==
  ASSUME IndInv, NEW expected \in Revision \cup {Null},
         ResetAuthoritativePoolToEmpty(expected)
  PROVE  IndInv'
<1> USE PoolAuthorityAssumption
<1>1. /\ current' = Null /\ previous' = Null /\ add_txt' = Blank
      /\ status' = MutationOf("reset_empty", Null, current)
      /\ UNCHANGED <<pools, manual_add_txt, manual_add_initialized>>
  BY DEF ResetAuthoritativePoolToEmpty, manualVars
<1>2. TypeOK'
  BY <1>1, MutationType DEF IndInv, TypeOK
<1>3. /\ SnapshotsNeverRewritten' /\ UndoNeedsPool' /\ OverrideClaimsObject'
      /\ ServedTextIsCurrentPool'
  BY <1>1 DEF IndInv, SnapshotsNeverRewritten, UndoNeedsPool,
              OverrideClaimsObject, ServedTextIsCurrentPool
<1>4. StatusNamesInstalledPools'
  BY <1>1, MutationType DEF IndInv, TypeOK, StatusNamesInstalledPools
<1>5. QED BY <1>2, <1>3, <1>4 DEF IndInv

(* Saving or clearing the override preserves the invariant.                *)
LEMMA SetManualIndInv ==
  ASSUME IndInv, NEW text \in AddText \cup {Blank},
         SetManualAuthoritativeAddTxt(text)
  PROVE  IndInv'
<1>1. UNCHANGED poolVars /\ manual_add_initialized' = TRUE
      /\ manual_add_txt' \in AddText \cup {Null}
  BY PoolAuthorityAssumption DEF SetManualAuthoritativeAddTxt
<1>2. QED
  BY <1>1 DEF poolVars, IndInv, TypeOK, SnapshotsNeverRewritten, UndoNeedsPool,
     OverrideClaimsObject, ServedTextIsCurrentPool, StatusNamesInstalledPools

(* Every operation of the authority preserves the invariant.               *)
LEMMA NextIndInv == IndInv /\ [Next]_vars => IndInv'
<1>1. ASSUME IndInv, Next PROVE IndInv'
  BY <1>1, PublishIndInv, RollbackIndInv, ResetIndInv, SetManualIndInv DEF Next
<1>2. ASSUME IndInv, UNCHANGED vars PROVE IndInv'
  BY <1>2 DEF vars, IndInv, TypeOK, SnapshotsNeverRewritten, UndoNeedsPool,
     OverrideClaimsObject, ServedTextIsCurrentPool, StatusNamesInstalledPools
<1>3. QED BY <1>1, <1>2

(* The invariant holds in every reachable state.                           *)
LEMMA Invariance == Spec => []IndInv
BY InitIndInv, NextIndInv, PTL DEF Spec

----------------------------------------------------------------------------
(* Every stored key keeps its type: revisions, snapshots and texts are     *)
(* never confused with one another or with an absent key.                  *)
THEOREM TypeCorrect == Spec => []TypeOK
<1>1. IndInv => TypeOK BY DEF IndInv
<1>2. QED BY <1>1, Invariance, PTL

(* The rollback's 500 branch is dead: whenever there is a revision to go   *)
(* back to, its snapshot is stored and there is a current pool to leave.   *)
THEOREM RollbackNeverStranded == Spec => []RollbackTargetStored
<1>1. IndInv => RollbackTargetStored
  BY DEF IndInv, UndoNeedsPool, RollbackTargetStored, RollbackReply, Ok
<1>2. QED BY <1>1, Invariance, PTL

(* The optimizer's text is always the materialisation of the pool that     *)
(* 'current' names, also after rollbacks, which recompute it.              *)
THEOREM ServedText == Spec => []ServedTextIsCurrentPool
<1>1. IndInv => ServedTextIsCurrentPool BY DEF IndInv
<1>2. QED BY <1>1, Invariance, PTL

(* The status a client is shown names the pools that are installed.        *)
THEOREM StatusIsCurrent == Spec => []StatusNamesInstalledPools
<1>1. IndInv => StatusNamesInstalledPools BY DEF IndInv
<1>2. QED BY <1>1, Invariance, PTL

----------------------------------------------------------------------------
(* Action properties.                                                      *)

(* Once initialised, the object never looks uninitialised again, so no     *)
(* reader returns to the legacy KV text after a clear or a reset.          *)
THEOREM InitializedForever == Spec => InitializedIsForever
<1>1. ASSUME IndInv, Next, Initialized PROVE Initialized'
  <2>1. ASSUME NEW expected \in Revision \cup {Null}, NEW r \in Revision,
               NEW legacy \in LegacyText,
               PublishAuthoritativePool(expected, r, legacy)
        PROVE  Initialized'
    BY <2>1, PoolAuthorityAssumption
       DEF PublishAuthoritativePool, Initialized
  <2>2. ASSUME NEW expected \in Revision \cup {Null},
               RollbackAuthoritativePool(expected)
        PROVE  Initialized'
    BY <2>2 DEF RollbackAuthoritativePool, RollbackReply, Ok, Initialized
  <2>3. ASSUME NEW expected \in Revision \cup {Null},
               ResetAuthoritativePoolToEmpty(expected)
        PROVE  Initialized'
    BY <2>3, PoolAuthorityAssumption
       DEF ResetAuthoritativePoolToEmpty, Initialized
  <2>4. ASSUME NEW text \in AddText \cup {Blank},
               SetManualAuthoritativeAddTxt(text)
        PROVE  Initialized'
    BY <2>4 DEF SetManualAuthoritativeAddTxt, Initialized
  <2>5. QED BY <1>1, <2>1, <2>2, <2>3, <2>4 DEF Next
<1>2. IndInv /\ [Next]_vars => [Initialized => Initialized']_vars
  BY <1>1
<1>3. QED BY <1>2, Invariance, PTL DEF Spec, InitializedIsForever

(* A stored override hides every pool mutation from the readers.           *)
THEOREM OverrideShield == Spec => OverrideShieldsReaders
<1>1. ASSUME IndInv, Next, manual_add_txt # Null,
             ~ \E text \in AddText \cup {Blank} :
                 SetManualAuthoritativeAddTxt(text)
      PROVE  UNCHANGED <<ReadAuthoritativeAddTxt, Source>>
  <2>1. manual_add_txt' = manual_add_txt
    BY <1>1 DEF Next, PublishAuthoritativePool, RollbackAuthoritativePool,
       ResetAuthoritativePoolToEmpty, AdoptLegacy, manualVars
  <2>2. QED BY <1>1, <2>1 DEF ReadAuthoritativeAddTxt, Source
<1>2. IndInv /\ [Next]_vars =>
        [ /\ manual_add_txt # Null
          /\ ~ \E text \in AddText \cup {Blank} :
                 SetManualAuthoritativeAddTxt(text)
          => UNCHANGED <<ReadAuthoritativeAddTxt, Source>> ]_vars
  BY <1>1
<1>3. QED BY <1>2, Invariance, PTL DEF Spec, OverrideShieldsReaders

(* A publish never brings back a text the administrator has cleared.       *)
THEOREM ClearIsFinal == Spec => ClearedOverrideStaysCleared
<1>1. ASSUME Next, manual_add_initialized, manual_add_txt = Null,
             manual_add_txt' # Null
      PROVE  \E text \in AddText : SetManualAuthoritativeAddTxt(text)
  <2>1. \E text \in AddText \cup {Blank} : SetManualAuthoritativeAddTxt(text)
    BY <1>1 DEF Next, PublishAuthoritativePool, RollbackAuthoritativePool,
       ResetAuthoritativePoolToEmpty, AdoptLegacy, manualVars
  <2>2. ~ SetManualAuthoritativeAddTxt(Blank)
    BY <1>1 DEF SetManualAuthoritativeAddTxt
  <2>3. QED BY <2>1, <2>2
<1>2. [Next]_vars =>
        [ manual_add_initialized /\ manual_add_txt = Null
          /\ manual_add_txt' # Null
          => \E text \in AddText : SetManualAuthoritativeAddTxt(text) ]_vars
  BY <1>1
<1>3. QED BY <1>2, PTL DEF Spec, ClearedOverrideStaysCleared

----------------------------------------------------------------------------
(* The storage implements the register.                                    *)

(* What a reader is told is determined by the register's own variables.    *)
AnswerDerived ==
  ReadAuthoritativeAddState =
    Register!AnswerFor(InstalledPool(current), manual_add_txt,
                       manual_add_initialized, add_txt # Null)

(* What readers are told is a function of the register's state.            *)
LEMMA AnswerIsDerived == IndInv => AnswerDerived
<1> SUFFICES ASSUME IndInv PROVE AnswerDerived
  OBVIOUS
<1> USE PoolAuthorityAssumption
<1>1. Initialized = (manual_add_initialized \/ add_txt # Null)
  BY DEF IndInv, TypeOK, OverrideClaimsObject, ServedTextIsCurrentPool,
     Initialized, AddText
<1>2. Source = IF manual_add_txt # Null THEN "manual"
               ELSE IF add_txt # Null THEN "optimizer" ELSE "none"
  BY DEF IndInv, TypeOK, ServedTextIsCurrentPool, Source, AddText
<1>3. add_txt = IF InstalledPool(current) # Null
                THEN FormatAddTxt(InstalledPool(current))
                ELSE IF add_txt # Null THEN Blank ELSE Null
  BY SnapshotType
     DEF IndInv, TypeOK, ServedTextIsCurrentPool, InstalledPool
<1>4. QED
  BY <1>1, <1>2, <1>3
     DEF AnswerDerived, ReadAuthoritativeAddState, ReadAuthoritativeAddTxt,
         Register!AnswerFor

(* The empty storage is the empty register.                                *)
LEMMA InitImplements == Init => Register!Init
<1>1. ASSUME Init PROVE Register!Init
  <2>1. /\ InstalledPool(current) = Null /\ InstalledPool(previous) = Null
        /\ manual_add_txt = Null /\ manual_add_initialized = FALSE
        /\ (add_txt # Null) = FALSE
    BY <1>1 DEF Init, InstalledPool
  <2>2. ReadAuthoritativeAddState =
          Register!AnswerFor(Null, Null, FALSE, FALSE)
    BY <1>1, <2>1, InitIndInv, AnswerIsDerived DEF AnswerDerived
  <2>3. QED BY <2>1, <2>2 DEF Register!Init
<1>2. QED BY <1>1

(* The answer after a step is again the one the register would give.       *)
LEMMA AnswerFollows == IndInv' => Register!Answers
<1>1. IndInv' => AnswerDerived'
  BY AnswerIsDerived, PTL
<1>2. QED BY <1>1 DEF AnswerDerived, Register!Answers

(* Publishing a revision installs its pool and makes the one it replaces   *)
(* the undo target; rewriting a stored snapshot changes neither.           *)
LEMMA PublishImplements ==
  ASSUME IndInv, NEW expected \in Revision \cup {Null}, NEW r \in Revision,
         NEW legacy \in LegacyText,
         PublishAuthoritativePool(expected, r, legacy)
  PROVE  Register!Publish(PoolOf[r], legacy)
<1> USE PoolAuthorityAssumption
<1>1. /\ pools' = [pools EXCEPT ![r] = SnapshotOf(r)]
      /\ previous' = current /\ current' = r
      /\ add_txt' = FormatAddTxt(PoolOf[r])
      /\ AdoptLegacy(legacy)
  BY DEF PublishAuthoritativePool
<1>2. InstalledPool(current)' = PoolOf[r]
  BY <1>1, SnapshotType DEF IndInv, TypeOK, InstalledPool
<1>3. InstalledPool(previous)' = InstalledPool(current)
  BY <1>1, SnapshotType
     DEF IndInv, TypeOK, ServedTextIsCurrentPool, InstalledPool
<1>4. (add_txt # Null)' = TRUE
  BY <1>1, SnapshotType
<1>5. CASE current = Null /\ legacy \notin {Null, Blank}
           /\ ~manual_add_initialized
  <2>1. /\ manual_add_initialized' = TRUE /\ manual_add_txt' = legacy
        /\ InstalledPool(current) = Null /\ legacy \in AddText
    BY <1>1, <1>5
       DEF AdoptLegacy, IndInv, OverrideClaimsObject, InstalledPool, LegacyText
  <2>2. QED
    BY <1>2, <1>3, <1>4, <1>5, <2>1, PublishIndInv, AnswerFollows
       DEF Register!Publish
<1>6. CASE ~(current = Null /\ legacy \notin {Null, Blank}
             /\ ~manual_add_initialized)
  <2>1. UNCHANGED <<manual_add_txt, manual_add_initialized>>
    BY <1>1, <1>6 DEF AdoptLegacy, manualVars
  <2>2. QED
    BY <1>2, <1>3, <1>4, <2>1, PublishIndInv, AnswerFollows
       DEF Register!Publish
<1>7. QED BY <1>5, <1>6

(* A rollback swaps the live pool and the undo target.                     *)
LEMMA RollbackImplements ==
  ASSUME IndInv, NEW expected \in Revision \cup {Null},
         RollbackAuthoritativePool(expected)
  PROVE  Register!Rollback
<1> USE PoolAuthorityAssumption
<1>1. /\ previous # Null /\ pools[previous] # Null /\ current # Null
      /\ previous' = current /\ current' = previous /\ pools' = pools
      /\ add_txt' = FormatAddTxt(pools[previous].entries)
      /\ UNCHANGED <<manual_add_txt, manual_add_initialized>>
  BY DEF RollbackAuthoritativePool, RollbackReply, Ok, manualVars
<1>2. /\ InstalledPool(current) # Null /\ InstalledPool(previous) # Null
      /\ InstalledPool(current)' = InstalledPool(previous)
      /\ InstalledPool(previous)' = InstalledPool(current)
  BY <1>1, SnapshotType
     DEF IndInv, TypeOK, SnapshotsNeverRewritten, ServedTextIsCurrentPool,
         InstalledPool
<1>3. (add_txt # Null)' = (add_txt # Null)
  BY <1>1, SnapshotType
     DEF IndInv, TypeOK, SnapshotsNeverRewritten, ServedTextIsCurrentPool
<1>4. QED
  BY <1>1, <1>2, <1>3, RollbackIndInv, AnswerFollows DEF Register!Rollback

(* A reset empties a register that has nothing to undo.                    *)
LEMMA ResetImplements ==
  ASSUME IndInv, NEW expected \in Revision \cup {Null},
         ResetAuthoritativePoolToEmpty(expected)
  PROVE  Register!ResetToEmpty
<1> USE PoolAuthorityAssumption
<1>1. /\ previous = Null /\ current # Null
      /\ current' = Null /\ previous' = Null /\ add_txt' = Blank
      /\ UNCHANGED <<pools, manual_add_txt, manual_add_initialized>>
  BY DEF ResetAuthoritativePoolToEmpty, ResetReply, Ok, manualVars
<1>2. /\ InstalledPool(current) # Null /\ InstalledPool(previous) = Null
      /\ InstalledPool(current)' = Null /\ InstalledPool(previous)' = Null
  BY <1>1, SnapshotType
     DEF IndInv, TypeOK, ServedTextIsCurrentPool, InstalledPool
<1>3. (add_txt # Null)' = (add_txt # Null)
  BY <1>1, SnapshotType DEF IndInv, TypeOK, ServedTextIsCurrentPool
<1>4. QED
  BY <1>1, <1>2, <1>3, ResetIndInv, AnswerFollows DEF Register!ResetToEmpty

(* A manual save touches the override alone.                               *)
LEMMA SetManualImplements ==
  ASSUME IndInv, NEW text \in AddText \cup {Blank},
         SetManualAuthoritativeAddTxt(text)
  PROVE  Register!SetOverride(text)
<1>1. /\ UNCHANGED <<current, previous, pools, add_txt>>
      /\ manual_add_initialized' = TRUE
      /\ manual_add_txt' = IF text = Blank THEN Null ELSE text
  BY DEF SetManualAuthoritativeAddTxt, poolVars
<1>2. /\ InstalledPool(current)' = InstalledPool(current)
      /\ InstalledPool(previous)' = InstalledPool(previous)
      /\ (add_txt # Null)' = (add_txt # Null)
  BY <1>1 DEF InstalledPool
<1>3. QED
  BY <1>1, <1>2, SetManualIndInv, AnswerFollows DEF Register!SetOverride

(* Every operation of the authority is a register step or a stutter.       *)
LEMMA NextImplements == IndInv /\ [Next]_vars => [Register!Next]_(Register!vars)
<1>1. ASSUME IndInv, NEW expected \in Revision \cup {Null},
             NEW r \in Revision, NEW legacy \in LegacyText,
             PublishAuthoritativePool(expected, r, legacy)
      PROVE  Register!Next
  <2>1. PoolOf[r] \in Pool
    BY SnapshotType
  <2>2. Register!Publish(PoolOf[r], legacy)
    BY <1>1, PublishImplements
  <2>3. QED BY <2>1, <2>2 DEF Register!Next, LegacyText
<1>2. ASSUME IndInv, NEW expected \in Revision \cup {Null},
             RollbackAuthoritativePool(expected)
      PROVE  Register!Next
  BY <1>2, RollbackImplements DEF Register!Next
<1>3. ASSUME IndInv, NEW expected \in Revision \cup {Null},
             ResetAuthoritativePoolToEmpty(expected)
      PROVE  Register!Next
  BY <1>3, ResetImplements DEF Register!Next
<1>4. ASSUME IndInv, NEW text \in AddText \cup {Blank},
             SetManualAuthoritativeAddTxt(text)
      PROVE  Register!Next
  BY <1>4, SetManualImplements DEF Register!Next
<1>5. ASSUME UNCHANGED vars PROVE UNCHANGED Register!vars
  BY <1>5 DEF vars, Register!vars, InstalledPool, ReadAuthoritativeAddState,
     ReadAuthoritativeAddTxt, Initialized, Source
<1>6. QED BY <1>1, <1>2, <1>3, <1>4, <1>5 DEF Next

(* Readers are answered as by one pool with one level of undo beneath an   *)
(* override, for every interleaving of the authority's operations.         *)
THEOREM Refinement == Spec => ImplementsRegister
<1>1. Init => Register!Init
  BY InitImplements
<1>2. IndInv /\ [Next]_vars => [Register!Next]_(Register!vars)
  BY NextImplements
<1>3. QED
  BY <1>1, <1>2, Invariance, PTL DEF Spec, ImplementsRegister, Register!Spec
=============================================================================
