--------------------- MODULE OptimizerCoordinator_proofs ---------------------
(***************************************************************************)
(* Theorems about OptimizerCoordinator, for every set of revisions, pools, *)
(* texts and call slots, with and without failing KV operations.  The      *)
(* storage invariant is that of PoolAuthority_proofs; IndInv adds what     *)
(* each await of a call relies on: until the object is initialised nothing *)
(* has been mirrored and a pending first publish holds the legacy text; a  *)
(* mirror names no snapshot it has not put; and a call that runs alone     *)
(* finds KV as its own puts have left it.                                  *)
(***************************************************************************)
EXTENDS OptimizerCoordinator, TLAPS

Storage == INSTANCE PoolAuthority_proofs

Busy(c) == call[c].pc # "idle"

CallState == [pc : {"idle", "get", "commit"} \cup MirrorPc,
              expected : Revision \cup {Null}, revision : Revision \cup {Null},
              text : Authority!AddText \cup {Null}, view : View \cup {Null}]

KvState == [add : Authority!AddText \cup {Null}, pools : SUBSET Revision,
            previous : Revision \cup {Null}, current : Revision \cup {Null},
            status : Authority!Mutation \cup {Null}]

UntouchedUntilInitialized ==
  ~Authority!Initialized =>
    /\ status = Null /\ previous = Null /\ lastSave = Never
    /\ kv.add = legacy0 /\ kv.current = Null /\ kv.previous = Null
    /\ kv.status = Null
    /\ \A c \in Call : /\ call[c].pc \in {"idle", "get", "commit"}
                       /\ call[c].pc = "commit" => call[c].text = legacy0

SaveClaimsObject == lastSave # Never => manual_add_initialized

LegacyAdopted ==
  legacy0 # Null /\ lastSave = Never /\ Authority!Initialized
    => manual_add_txt = legacy0

LocalsOfCall ==
  \A c \in Call :
    /\ call[c].pc \in {"idle", "get", "commit"} => call[c].view = Null
    /\ call[c].pc \in {"get", "commit"} => call[c].revision \in Revision
    /\ call[c].pc \in {"pool", "previous", "current", "effective", "status"}
         => call[c].view # Null
    /\ call[c].pc = "pool" => call[c].view.current # Null

SnapshotBeforePointer ==
  \A c \in Call :
    call[c].pc \in {"previous", "current"} /\ call[c].view.current # Null
      => call[c].view.current \in kv.pools

ReadingHoldsLists ==
  reading # {} =>
    /\ EffectiveText \in reading
    /\ \A c \in Call : call[c].pc = "add" => call[c].text \in reading

BusyAlone ==
  ~overlapped => \A c, d \in Call : Busy(c) /\ Busy(d) => c = d

FirstPublishAlone ==
  ~overlapped =>
    \A c \in Call : call[c].pc \in {"get", "commit"} => ~Authority!Initialized

\* What KV holds while one mirror runs alone, put by put.
MirroredSoFar(c) ==
  /\ Busy(c) /\ call[c].view = Null /\ ~degraded =>
       kv.previous = previous /\ kv.current = current /\ kv.status = status
  /\ call[c].view # Null =>
       /\ call[c].view = Seen
       /\ call[c].pc \in {"current", "effective", "add", "status"}
            => kv.previous = previous
       /\ call[c].pc \in {"effective", "add", "status"} => kv.current = current
       /\ call[c].pc = "status" => kv.add = EffectiveText
  /\ call[c].pc = "add" => call[c].text = EffectiveText

MirrorExact ==
  ~overlapped =>
    /\ \A c \in Call : MirroredSoFar(c)
    /\ ~degraded /\ (\A c \in Call : ~Busy(c)) =>
         /\ kv.add = EffectiveText /\ kv.current = current
         /\ kv.previous = previous /\ kv.status = status

IndInv ==
  /\ TypeOK
  /\ Storage!IndInv
  /\ UntouchedUntilInitialized
  /\ SaveClaimsObject /\ AdminHasLastWord
  /\ LegacyAdopted
  /\ LocalsOfCall /\ SnapshotBeforePointer /\ MirroredCurrentResolves
  /\ ReadingHoldsLists /\ ReadsAreLinearizable
  /\ BusyAlone /\ FirstPublishAlone /\ OverrideIsExplicit
  /\ MirrorExact

----------------------------------------------------------------------------
(* The storage facts that the lemmas below use.                            *)

(* The assumption of the storage's own theorems is part of this module's.  *)
LEMMA StorageAssumption == Storage!PoolAuthorityAssumption
BY CoordinatorAssumption
   DEF CoordinatorAssumption, Authority!PoolAuthorityAssumption,
       Storage!PoolAuthorityAssumption, Authority!AddText, Storage!AddText,
       Authority!Snapshot, Storage!Snapshot, Authority!Mutation,
       Storage!Mutation

(* An empty storage satisfies the storage invariant.                       *)
LEMMA StorageInit == Authority!Init => Storage!IndInv
BY StorageAssumption, Storage!InitIndInv DEF Authority!Init, Storage!Init

(* What the storage invariant says in the coordinator's own terms.         *)
LEMMA StorageFacts ==
  Storage!IndInv =>
    /\ Authority!TypeOK
    /\ manual_add_txt # Null => manual_add_initialized
    /\ current = Null => add_txt \in {Null, Blank}
BY DEF Storage!IndInv, Storage!TypeOK, Authority!TypeOK,
   Storage!OverrideClaimsObject, Storage!ServedTextIsCurrentPool,
   Authority!Snapshot, Storage!Snapshot, Authority!Mutation,
   Storage!Mutation, Authority!AddText, Storage!AddText

(* A step that leaves the storage alone keeps its invariant.               *)
LEMMA StorageUnchanged ==
  ASSUME Storage!IndInv, UNCHANGED authority
  PROVE  Storage!IndInv'
BY DEF authority, Storage!IndInv, Storage!TypeOK,
   Storage!SnapshotsNeverRewritten, Storage!UndoNeedsPool,
   Storage!OverrideClaimsObject, Storage!ServedTextIsCurrentPool,
   Storage!StatusNamesInstalledPools

(* A publish initialises the object; it stores a legacy text only in an    *)
(* object that nobody has claimed.                                         *)
LEMMA PublishStep ==
  ASSUME Storage!IndInv, NEW expected \in Revision \cup {Null},
         NEW r \in Revision, NEW legacy \in Authority!AddText \cup {Null},
         Authority!PublishAuthoritativePool(expected, r, legacy)
  PROVE  /\ Storage!IndInv' /\ Authority!Initialized' /\ status' # Null
         /\ current' # Null
         /\ manual_add_initialized \/ legacy = Null \/ current # Null
              => UNCHANGED <<manual_add_txt, manual_add_initialized>>
         /\ ~Authority!Initialized /\ legacy # Null => manual_add_txt' = legacy
<1>1. Storage!PublishAuthoritativePool(expected, r, legacy)
  BY DEF Authority!PublishAuthoritativePool, Storage!PublishAuthoritativePool,
     Authority!PublishReply, Storage!PublishReply, Authority!Ok, Storage!Ok,
     Authority!AdoptLegacy, Storage!AdoptLegacy, Authority!manualVars,
     Storage!manualVars, Authority!SnapshotOf, Storage!SnapshotOf,
     Authority!MutationOf, Storage!MutationOf
<1>2. legacy \in Storage!LegacyText
  BY DEF Storage!LegacyText, Storage!AddText, Authority!AddText
<1>3. Storage!IndInv'
  BY <1>1, <1>2, StorageAssumption, Storage!PublishIndInv
<1>4. current' = r /\ status' = Authority!MutationOf("publish", r, current)
      /\ Authority!AdoptLegacy(legacy)
  BY DEF Authority!PublishAuthoritativePool
<1>5. current' # Null /\ Authority!Initialized'
  BY <1>4, CoordinatorAssumption
     DEF Authority!PoolAuthorityAssumption, Authority!Initialized
<1>6. current \in Revision \cup {Null}
  BY StorageFacts DEF Authority!TypeOK
<1>7. status' # Null
  BY <1>4, <1>6, CoordinatorAssumption
     DEF Authority!PoolAuthorityAssumption, Authority!MutationOf,
         Authority!Mutation
<1>8. manual_add_initialized \/ legacy = Null \/ current # Null
        => UNCHANGED <<manual_add_txt, manual_add_initialized>>
  BY <1>4 DEF Authority!AdoptLegacy, Authority!manualVars
<1>9. ~Authority!Initialized /\ legacy # Null => manual_add_txt' = legacy
  BY <1>4, CoordinatorAssumption
     DEF Authority!AdoptLegacy, Authority!Initialized,
         Authority!PoolAuthorityAssumption
<1>10. QED BY <1>3, <1>5, <1>7, <1>8, <1>9

(* A rollback needs an initialised object and leaves the override alone.   *)
LEMMA RollbackStep ==
  ASSUME Storage!IndInv, NEW expected \in Revision,
         Authority!RollbackAuthoritativePool(expected)
  PROVE  /\ Storage!IndInv' /\ Authority!Initialized /\ Authority!Initialized'
         /\ status' # Null
         /\ UNCHANGED <<manual_add_txt, manual_add_initialized>>
<1>1. Storage!RollbackAuthoritativePool(expected)
  BY DEF Authority!RollbackAuthoritativePool,
     Storage!RollbackAuthoritativePool, Authority!RollbackReply,
     Storage!RollbackReply, Authority!Ok, Storage!Ok, Authority!manualVars,
     Storage!manualVars, Authority!MutationOf, Storage!MutationOf
<1>2. Storage!IndInv'
  BY <1>1, StorageAssumption, Storage!RollbackIndInv
<1>3. /\ expected = current /\ expected # Null /\ previous # Null
      /\ current' = previous
      /\ status' = Authority!MutationOf("rollback", previous, current)
      /\ UNCHANGED <<manual_add_txt, manual_add_initialized>>
  BY DEF Authority!RollbackAuthoritativePool, Authority!RollbackReply,
     Authority!Ok, Authority!manualVars
<1>4. status' # Null
  BY <1>3, StorageFacts, CoordinatorAssumption
     DEF Authority!PoolAuthorityAssumption, Authority!MutationOf,
         Authority!Mutation, Authority!TypeOK
<1>5. QED BY <1>2, <1>3, <1>4 DEF Authority!Initialized

(* So does a reset; the blank text it stores still marks the object.       *)
LEMMA ResetStep ==
  ASSUME Storage!IndInv, NEW expected \in Revision,
         Authority!ResetAuthoritativePoolToEmpty(expected)
  PROVE  /\ Storage!IndInv' /\ Authority!Initialized /\ Authority!Initialized'
         /\ status' # Null
         /\ UNCHANGED <<manual_add_txt, manual_add_initialized>>
<1>1. Storage!ResetAuthoritativePoolToEmpty(expected)
  BY DEF Authority!ResetAuthoritativePoolToEmpty,
     Storage!ResetAuthoritativePoolToEmpty, Authority!ResetReply,
     Storage!ResetReply, Authority!Ok, Storage!Ok, Authority!manualVars,
     Storage!manualVars, Authority!MutationOf, Storage!MutationOf
<1>2. Storage!IndInv'
  BY <1>1, StorageAssumption, Storage!ResetIndInv
<1>3. /\ expected = current /\ expected # Null /\ add_txt' = Blank
      /\ status' = Authority!MutationOf("reset_empty", Null, current)
      /\ UNCHANGED <<manual_add_txt, manual_add_initialized>>
  BY DEF Authority!ResetAuthoritativePoolToEmpty, Authority!ResetReply,
     Authority!Ok, Authority!manualVars
<1>4. status' # Null /\ Blank # Null
  BY <1>3, StorageFacts, CoordinatorAssumption
     DEF Authority!PoolAuthorityAssumption, Authority!MutationOf,
         Authority!Mutation, Authority!TypeOK
<1>5. QED BY <1>2, <1>3, <1>4 DEF Authority!Initialized

(* A manual save claims the object and touches the override alone.         *)
LEMMA SetManualStep ==
  ASSUME Storage!IndInv, NEW text \in ManualText \cup {Blank},
         Authority!SetManualAuthoritativeAddTxt(text)
  PROVE  /\ Storage!IndInv' /\ manual_add_initialized'
         /\ manual_add_txt' = Stored(text)
         /\ UNCHANGED <<current, previous, pools, add_txt, status>>
<1>1. Storage!SetManualAuthoritativeAddTxt(text)
  BY DEF Authority!SetManualAuthoritativeAddTxt, Authority!poolVars,
     Storage!SetManualAuthoritativeAddTxt, Storage!poolVars
<1>2. text \in Storage!AddText \cup {Blank}
  BY DEF Storage!AddText
<1>3. QED
  BY <1>1, <1>2, StorageAssumption, Storage!SetManualIndInv
     DEF Authority!SetManualAuthoritativeAddTxt, Authority!poolVars, Stored

----------------------------------------------------------------------------
(* Facts that every step of a call shares.                                 *)

(* The text a reader of an initialised object is given.                    *)
LEMMA EffectiveTextType ==
  ASSUME TypeOK PROVE EffectiveText \in Authority!AddText \cup {Null}
BY DEF TypeOK, Authority!TypeOK, EffectiveText, Stored,
   Authority!ReadAuthoritativeAddTxt

(* An initialised object's readers do not depend on KV.                    *)
LEMMA EffectiveTextInitialized ==
  Authority!Initialized =>
    EffectiveText = Stored(Authority!ReadAuthoritativeAddTxt)
BY DEF EffectiveText

(* The initial state.                                                      *)
LEMMA InitIndInv == Init => IndInv
<1> SUFFICES ASSUME Init PROVE IndInv
  OBVIOUS
<1> USE DEF Init, Idle, Waiting
<1>1. Storage!IndInv /\ ~Authority!Initialized /\ status = Null
      /\ previous = Null /\ current = Null /\ manual_add_txt = Null
  BY StorageInit DEF Authority!Init, Authority!Initialized
<1>2. TypeOK
  BY <1>1, StorageFacts DEF TypeOK, Authority!AddText
<1>3. EffectiveText = kv.add
  BY <1>1 DEF EffectiveText
<1>4. /\ UntouchedUntilInitialized /\ SaveClaimsObject /\ AdminHasLastWord
      /\ LegacyAdopted /\ LocalsOfCall /\ SnapshotBeforePointer
      /\ MirroredCurrentResolves /\ ReadingHoldsLists /\ ReadsAreLinearizable
      /\ BusyAlone /\ FirstPublishAlone /\ OverrideIsExplicit
  BY <1>1 DEF UntouchedUntilInitialized, SaveClaimsObject, AdminHasLastWord,
     LegacyAdopted, LocalsOfCall, SnapshotBeforePointer,
     MirroredCurrentResolves, ReadingHoldsLists, ReadsAreLinearizable,
     BusyAlone, FirstPublishAlone, OverrideIsExplicit, Busy
<1>5. MirrorExact
  BY <1>1, <1>3 DEF MirrorExact, MirroredSoFar, Busy
<1>6. QED BY <1>1, <1>2, <1>4, <1>5 DEF IndInv

(* Two calls in flight after a step have overlapped by then.               *)
LEMMA BusyAloneStep ==
  ASSUME TypeOK, CallsOverlap
  PROVE  BusyAlone' /\ (overlapped => overlapped')
BY DEF CallsOverlap, BusyAlone, Busy, TypeOK

(* A pool mutation and the start of its mirror.  The hypotheses on the     *)
(* override are what each of the three mutations has to show for itself.   *)
LEMMA MutationStep ==
  ASSUME IndInv, NEW c \in Call, call[c].pc \in {"idle", "commit"},
         Storage!IndInv', Authority!Initialized', status' # Null,
         StartMirror(c), UNCHANGED <<kv, history, degraded>>,
         ReaderObserves, CallsOverlap,
         LegacyAdopted', OverrideIsExplicit', SaveClaimsObject',
         AdminHasLastWord'
  PROVE  IndInv'
<1> USE DEF history
<1> DEFINE pc0 == IF current' = Null THEN "previous" ELSE "pool"
           rec == Waiting(pc0, Null, Seen')
<1>0. Authority!TypeOK' /\ status' \in Authority!Mutation
  <2>1. Authority!TypeOK'
    BY StorageFacts, PTL
  <2>2. QED BY <2>1 DEF Authority!TypeOK
<1>1. /\ Seen' \in View /\ Seen' # Null
      /\ Seen'.current = current' /\ Seen'.previous = previous'
      /\ Seen'.status = status'
  BY <1>0, CoordinatorAssumption
     DEF Seen, View, Authority!TypeOK, CoordinatorAssumption
<1>2. call' = [call EXCEPT ![c] = rec]
  BY DEF StartMirror
<1>3. /\ \A d \in Call \ {c} : call'[d] = call[d]
      /\ call'[c].pc = pc0 /\ call'[c].view = Seen'
  BY <1>2 DEF IndInv, TypeOK, Waiting
<1>15. rec \in CallState
  BY <1>1 DEF CallState, MirrorPc, Waiting
<1>14. EffectiveText' \in Authority!AddText \cup {Null}
  BY <1>0 DEF EffectiveText, Stored, Authority!TypeOK,
     Authority!ReadAuthoritativeAddTxt
<1>4. TypeOK'
  <2> HIDE DEF rec
  <2>1. reading' \in SUBSET (Authority!AddText \cup {Null})
    BY <1>14 DEF IndInv, TypeOK, ReaderObserves
  <2>2. overlapped' \in BOOLEAN /\ degraded' \in BOOLEAN
    BY DEF IndInv, TypeOK, CallsOverlap
  <2>3. QED BY <1>0, <1>2, <1>15, <2>1, <2>2 DEF IndInv, TypeOK, CallState
<1>5. UntouchedUntilInitialized'
  BY DEF UntouchedUntilInitialized
<1>6. LocalsOfCall'
  BY <1>1, <1>3 DEF IndInv, LocalsOfCall
<1>7. SnapshotBeforePointer' /\ MirroredCurrentResolves'
  BY <1>1, <1>3 DEF IndInv, SnapshotBeforePointer, MirroredCurrentResolves
<1>8. ReadingHoldsLists' /\ ReadsAreLinearizable'
  BY <1>3 DEF IndInv, ReadingHoldsLists, ReadsAreLinearizable, ReaderObserves
<1>9. BusyAlone'
  BY BusyAloneStep DEF IndInv
<1>10. ~overlapped' => \A d \in Call \ {c} : call'[d].pc = "idle"
  BY <1>3, <1>9 DEF BusyAlone, Busy
<1>11. FirstPublishAlone'
  BY <1>3, <1>10 DEF FirstPublishAlone
<1>12. MirrorExact'
  BY <1>1, <1>3, <1>6, <1>10
     DEF MirrorExact, MirroredSoFar, Busy, LocalsOfCall
<1>13. QED
  BY <1>4, <1>5, <1>6, <1>7, <1>8, <1>9, <1>11, <1>12 DEF IndInv

(* A call that has not begun to mirror waits, is refused or fails: nothing *)
(* but its own state changes.                                              *)
LEMMA QuietStep ==
  ASSUME IndInv, NEW c \in Call, call[c].pc \in {"idle", "get", "commit"},
         NEW rec \in CallState, call' = [call EXCEPT ![c] = rec],
         rec.pc \in {"idle", "get", "commit"}, rec.view = Null,
         rec.pc = "commit" => rec.text = kv.add,
         rec.pc \in {"get", "commit"} => rec.revision \in Revision,
         rec.pc \in {"get", "commit"} /\ ~overlapped => ~Authority!Initialized,
         UNCHANGED <<authority, kv, history, degraded>>,
         ReaderObserves, CallsOverlap
  PROVE  IndInv'
<1>1. /\ \A d \in Call \ {c} : call'[d] = call[d]
      /\ call'[c] = rec
  BY DEF IndInv, TypeOK
<1>2. /\ Storage!IndInv' /\ Authority!TypeOK'
      /\ Authority!Initialized' = Authority!Initialized
      /\ EffectiveText' = EffectiveText
  <2>1. Storage!IndInv'
    BY StorageUnchanged DEF IndInv
  <2>2. Authority!TypeOK'
    BY <2>1, StorageFacts, PTL
  <2>3. QED
    BY <2>1, <2>2 DEF authority, Authority!Initialized, EffectiveText,
       Authority!ReadAuthoritativeAddTxt
<1>3. TypeOK'
  <2>1. reading' \in SUBSET (Authority!AddText \cup {Null})
    BY <1>2, EffectiveTextType DEF IndInv, TypeOK, ReaderObserves
  <2>2. overlapped' \in BOOLEAN
    BY DEF IndInv, TypeOK, CallsOverlap
  <2>3. QED
    BY <1>2, <2>1, <2>2 DEF IndInv, TypeOK, CallState, history
<1>4. UntouchedUntilInitialized'
  BY <1>1, <1>2 DEF IndInv, UntouchedUntilInitialized, authority, history
<1>5. SaveClaimsObject' /\ AdminHasLastWord' /\ LegacyAdopted'
  BY <1>2 DEF IndInv, SaveClaimsObject, AdminHasLastWord, LegacyAdopted,
     authority, history
<1>6. LocalsOfCall' /\ SnapshotBeforePointer' /\ MirroredCurrentResolves'
  BY <1>1 DEF IndInv, LocalsOfCall, SnapshotBeforePointer,
     MirroredCurrentResolves
<1>7. ReadingHoldsLists' /\ ReadsAreLinearizable'
  BY <1>1, <1>2 DEF IndInv, ReadingHoldsLists, ReadsAreLinearizable,
     ReaderObserves
<1>8. BusyAlone' /\ (overlapped => overlapped')
  BY BusyAloneStep DEF IndInv
<1>9. FirstPublishAlone' /\ OverrideIsExplicit'
  BY <1>1, <1>2, <1>8 DEF IndInv, FirstPublishAlone, OverrideIsExplicit,
     authority, history
<1>10. MirrorExact'
  <2> SUFFICES ASSUME ~overlapped' PROVE MirrorExact'
    BY DEF MirrorExact
  <2>1. ~overlapped
    BY <1>8
  <2>2. \A d \in Call \ {c} : MirroredSoFar(d)'
    BY <1>1, <1>2, <2>1
       DEF IndInv, MirrorExact, MirroredSoFar, Busy, authority, Seen
  <2>3. call[c].pc # "idle" => kv.add = EffectiveText
    BY <2>1 DEF IndInv, FirstPublishAlone, EffectiveText
  <2>4. rec.pc # "idle" => \A d \in Call \ {c} : ~Busy(d)
    BY <1>1, <1>8 DEF BusyAlone, Busy
  <2>5. call[c].pc # "idle" => \A d \in Call \ {c} : ~Busy(d)
    BY <2>1 DEF IndInv, BusyAlone, Busy
  <2>6. ~degraded /\ (\A d \in Call \ {c} : ~Busy(d)) =>
          /\ kv.add = EffectiveText /\ kv.current = current
          /\ kv.previous = previous /\ kv.status = status
    BY <2>1, <2>3 DEF IndInv, MirrorExact, MirroredSoFar, Busy, LocalsOfCall
  <2>7. MirroredSoFar(c)'
    BY <1>1, <1>2, <2>4, <2>6
       DEF MirroredSoFar, Busy, authority
  <2>8. (~degraded /\ (\A d \in Call : ~Busy(d)) =>
           /\ kv.add = EffectiveText /\ kv.current = current
           /\ kv.previous = previous /\ kv.status = status)'
    BY <1>1, <1>2, <2>6 DEF Busy, authority
  <2>9. QED BY <2>2, <2>7, <2>8 DEF MirrorExact
<1>11. QED
  BY <1>2, <1>3, <1>4, <1>5, <1>6, <1>7, <1>8, <1>9, <1>10 DEF IndInv

----------------------------------------------------------------------------
(* The steps of a call.                                                    *)

(* An ended call.                                                          *)
LEMMA FinishStep ==
  ASSUME IndInv, NEW c \in Call, call[c].pc \in {"idle", "get", "commit"},
         Finish(c), UNCHANGED <<authority, kv, history, degraded>>,
         ReaderObserves, CallsOverlap
  PROVE  IndInv'
<1>1. Idle \in CallState /\ Idle.pc = "idle" /\ Idle.view = Null
  BY DEF Idle, Waiting, CallState
<1>2. QED BY <1>1, QuietStep DEF Finish

(* A publish commits: what it adopts as the override, if anything, is the  *)
(* text that was in KV before the object existed.                          *)
LEMMA CommitPublishIndInv ==
  ASSUME IndInv, NEW c \in Call, NEW expected \in Revision \cup {Null},
         NEW r \in Revision, NEW legacy \in Authority!AddText \cup {Null},
         \/ call[c].pc = "commit" /\ legacy = call[c].text
         \/ /\ call[c].pc = "idle" /\ legacy = Null
            /\ Authority!Initialized,
         CommitPublish(c, expected, r, legacy),
         UNCHANGED <<kv, history, degraded>>, ReaderObserves, CallsOverlap
  PROVE  IndInv'
<1>1. ASSUME Authority!PublishAuthoritativePool(expected, r, legacy),
             StartMirror(c)
      PROVE  IndInv'
  <2>1. /\ Storage!IndInv' /\ Authority!Initialized' /\ status' # Null
        /\ manual_add_initialized \/ legacy = Null
             => UNCHANGED <<manual_add_txt, manual_add_initialized>>
        /\ ~Authority!Initialized /\ legacy # Null => manual_add_txt' = legacy
    BY <1>1, PublishStep DEF IndInv
  <2>2. /\ ~Authority!Initialized => legacy = legacy0 /\ lastSave = Never
        /\ ~overlapped /\ legacy # Null => ~Authority!Initialized
    BY DEF IndInv, UntouchedUntilInitialized, FirstPublishAlone
  <2>3. manual_add_txt # Null => manual_add_initialized
    BY StorageFacts DEF IndInv
  <2>4. UNCHANGED <<legacy0, lastSave>> /\ (overlapped => overlapped')
    BY BusyAloneStep DEF history, IndInv
  <2>5. LegacyAdopted'
    BY <2>1, <2>2, <2>3, <2>4 DEF IndInv, LegacyAdopted
  <2>6. SaveClaimsObject' /\ AdminHasLastWord'
    BY <2>1, <2>4 DEF IndInv, SaveClaimsObject, AdminHasLastWord
  <2>7. OverrideIsExplicit'
    BY <2>1, <2>2, <2>4 DEF IndInv, OverrideIsExplicit
  <2>8. QED BY <1>1, <2>1, <2>5, <2>6, <2>7, MutationStep
<1>2. ASSUME Finish(c), UNCHANGED authority PROVE IndInv'
  BY <1>2, FinishStep
<1>3. QED BY <1>1, <1>2 DEF CommitPublish

(* A publish that finds the object initialised commits at once; the first  *)
(* one waits for the legacy text.                                          *)
LEMMA PublishPoolIndInv ==
  ASSUME IndInv, NEW c \in Call, NEW expected \in Revision \cup {Null},
         NEW r \in Revision, PublishPool(c, expected, r),
         ReaderObserves, CallsOverlap
  PROVE  IndInv'
<1>1. CASE current = Null /\ ~Authority!Initialized
  <2> DEFINE rec == WaitingForLegacy(expected, r)
  <2>1. rec \in CallState /\ rec.pc = "get" /\ rec.view = Null
        /\ rec.revision = r
    BY DEF WaitingForLegacy, CallState
  <2>2. call' = [call EXCEPT ![c] = rec] /\ UNCHANGED authority
    BY <1>1 DEF PublishPool
  <2>3. QED BY <1>1, <2>1, <2>2, QuietStep DEF PublishPool
<1>2. CASE ~(current = Null /\ ~Authority!Initialized)
  <2>1. Authority!Initialized
    BY <1>2 DEF Authority!Initialized
  <2>2. QED BY <1>2, <2>1, CommitPublishIndInv DEF PublishPool
<1>3. QED BY <1>1, <1>2

(* The legacy text arrives, or KV fails.                                   *)
LEMMA LegacyGetIndInv ==
  ASSUME IndInv, NEW c \in Call, LegacyGet(c), ReaderObserves, CallsOverlap
  PROVE  IndInv'
<1>1. ASSUME call' = [call EXCEPT ![c].pc = "commit", ![c].text = kv.add]
      PROVE  IndInv'
  <2> DEFINE rec == [call[c] EXCEPT !.pc = "commit", !.text = kv.add]
  <2>1. call[c] \in CallState /\ kv.add \in Authority!AddText \cup {Null}
    BY DEF IndInv, TypeOK, CallState
  <2>2. /\ rec \in CallState /\ rec.pc = "commit" /\ rec.text = kv.add
        /\ rec.view = call[c].view /\ rec.revision = call[c].revision
    BY <2>1 DEF CallState
  <2>3. call' = [call EXCEPT ![c] = rec]
    BY <1>1 DEF IndInv, TypeOK
  <2>4. rec.view = Null /\ rec.revision \in Revision
        /\ (~overlapped => ~Authority!Initialized)
    BY <2>2 DEF IndInv, LocalsOfCall, FirstPublishAlone, LegacyGet
  <2>5. QED
    <3> HIDE DEF rec
    <3>1. QED BY <2>2, <2>3, <2>4, QuietStep DEF LegacyGet
<1>2. QED BY <1>1, FinishStep DEF LegacyGet

(* The first publish commits with the text it has read.                    *)
LEMMA LegacyCommitIndInv ==
  ASSUME IndInv, NEW c \in Call, LegacyCommit(c), ReaderObserves, CallsOverlap
  PROVE  IndInv'
<1>1. /\ call[c].expected \in Revision \cup {Null}
      /\ call[c].text \in Authority!AddText \cup {Null}
      /\ call[c].revision \in Revision
  BY DEF IndInv, TypeOK, LocalsOfCall, LegacyCommit
<1>2. QED BY <1>1, CommitPublishIndInv DEF LegacyCommit

(* Rollbacks and resets leave the override alone.                          *)
LEMMA UndoIndInv ==
  ASSUME IndInv, NEW c \in Call, NEW expected \in Revision,
         RollbackPool(c, expected) \/ ResetPoolToEmpty(c, expected),
         ReaderObserves, CallsOverlap
  PROVE  IndInv'
<1>1. /\ Storage!IndInv' /\ Authority!Initialized /\ Authority!Initialized'
      /\ status' # Null
      /\ UNCHANGED <<manual_add_txt, manual_add_initialized>>
  BY RollbackStep, ResetStep DEF RollbackPool, ResetPoolToEmpty, IndInv
<1>2. UNCHANGED <<legacy0, lastSave>> /\ (overlapped => overlapped')
  BY BusyAloneStep DEF history, IndInv, RollbackPool, ResetPoolToEmpty
<1>3. LegacyAdopted' /\ SaveClaimsObject' /\ AdminHasLastWord'
      /\ OverrideIsExplicit'
  BY <1>1, <1>2 DEF IndInv, LegacyAdopted, SaveClaimsObject,
     AdminHasLastWord, OverrideIsExplicit
<1>4. QED BY <1>1, <1>3, MutationStep DEF RollbackPool, ResetPoolToEmpty

(* The administrator's save becomes the override and is what the mirror    *)
(* will put.                                                               *)
LEMMA SetManualAddTxtIndInv ==
  ASSUME IndInv, NEW c \in Call, NEW text \in ManualText \cup {Blank},
         SetManualAddTxt(c, text), ReaderObserves, CallsOverlap
  PROVE  IndInv'
<1> USE DEF SetManualAddTxt
<1>1. /\ Storage!IndInv' /\ manual_add_initialized'
      /\ manual_add_txt' = Stored(text)
      /\ UNCHANGED <<current, previous, pools, add_txt, status>>
  BY SetManualStep DEF IndInv
<1>2. Authority!Initialized' /\ Authority!TypeOK'
  <2>1. Authority!TypeOK'
    BY <1>1, StorageFacts, PTL
  <2>2. QED BY <1>1, <2>1 DEF Authority!Initialized
<1>3. /\ EffectiveText' = Stored(Authority!ReadAuthoritativeAddTxt)'
      /\ EffectiveText' \in Authority!AddText \cup {Null}
  BY <1>2 DEF EffectiveText, Stored, Authority!TypeOK,
     Authority!ReadAuthoritativeAddTxt
<1> DEFINE rec == Waiting("add", EffectiveText', Null)
<1>4. rec \in CallState /\ rec.pc = "add" /\ rec.text = EffectiveText'
      /\ rec.view = Null
  BY <1>3 DEF Waiting, CallState, MirrorPc
<1>5. call' = [call EXCEPT ![c] = rec]
  BY <1>3
<1> HIDE DEF rec
<1>6. /\ \A d \in Call \ {c} : call'[d] = call[d]
      /\ call'[c] = rec
  BY <1>5 DEF IndInv, TypeOK
<1>7. text \in Authority!AddText \cup {Blank} /\ text # Never
  BY CoordinatorAssumption DEF Authority!AddText, CoordinatorAssumption
<1>8. BusyAlone' /\ (overlapped => overlapped')
  BY BusyAloneStep DEF IndInv
<1>9. TypeOK'
  <2>1. reading' \in SUBSET (Authority!AddText \cup {Null})
    BY <1>3 DEF IndInv, TypeOK, ReaderObserves
  <2>2. overlapped' \in BOOLEAN
    BY DEF IndInv, TypeOK, CallsOverlap
  <2>3. QED
    BY <1>2, <1>4, <1>5, <1>7, <2>1, <2>2 DEF IndInv, TypeOK, CallState
<1>10. UntouchedUntilInitialized' /\ SaveClaimsObject' /\ AdminHasLastWord'
       /\ LegacyAdopted' /\ OverrideIsExplicit'
  BY <1>1, <1>2, <1>7
     DEF UntouchedUntilInitialized, SaveClaimsObject, AdminHasLastWord,
         LegacyAdopted, OverrideIsExplicit, Stored
<1>11. LocalsOfCall' /\ SnapshotBeforePointer' /\ MirroredCurrentResolves'
  BY <1>4, <1>6 DEF IndInv, LocalsOfCall, SnapshotBeforePointer,
     MirroredCurrentResolves
<1>12. ReadingHoldsLists' /\ ReadsAreLinearizable'
  BY <1>4, <1>6 DEF IndInv, ReadingHoldsLists, ReadsAreLinearizable,
     ReaderObserves
<1>13. ~overlapped' => \A d \in Call \ {c} : call'[d].pc = "idle"
  BY <1>4, <1>6, <1>8 DEF BusyAlone, Busy
<1>14. FirstPublishAlone'
  BY <1>4, <1>6, <1>13 DEF FirstPublishAlone
<1>15. MirrorExact'
  <2> SUFFICES ASSUME ~overlapped' PROVE MirrorExact'
    BY DEF MirrorExact
  <2>1. \A d \in Call : ~Busy(d)
    BY <1>6, <1>13 DEF Busy
  <2>2. ~degraded => kv.previous = previous /\ kv.current = current
                     /\ kv.status = status
    BY <1>8, <2>1 DEF IndInv, MirrorExact
  <2>3. QED
    BY <1>1, <1>4, <1>6, <1>13, <2>2, <1>11
       DEF MirrorExact, MirroredSoFar, Busy, LocalsOfCall
<1>16. QED
  BY <1>1, <1>8, <1>9, <1>10, <1>11, <1>12, <1>14, <1>15 DEF IndInv

(* The mirror reads the text in force and will put that.                   *)
LEMMA MirrorReadAddIndInv ==
  ASSUME IndInv, NEW c \in Call, MirrorReadAdd(c), ReaderObserves,
         CallsOverlap
  PROVE  IndInv'
<1> USE DEF MirrorReadAdd
<1>1. /\ Storage!IndInv' /\ Authority!Initialized /\ Authority!Initialized'
      /\ EffectiveText' = EffectiveText /\ Authority!TypeOK'
  <2>1. Storage!IndInv'
    BY StorageUnchanged DEF IndInv
  <2>2. Authority!TypeOK'
    BY <2>1, StorageFacts, PTL
  <2>3. Authority!Initialized
    BY DEF IndInv, UntouchedUntilInitialized
  <2>4. QED
    BY <2>1, <2>2, <2>3 DEF authority, Authority!Initialized, EffectiveText,
       Authority!ReadAuthoritativeAddTxt
<1>2. EffectiveText = Stored(Authority!ReadAuthoritativeAddTxt)
  BY <1>1 DEF EffectiveText
<1> DEFINE rec == [call[c] EXCEPT !.pc = "add", !.text = EffectiveText]
<1>3. /\ \A d \in Call \ {c} : call'[d] = call[d]
      /\ call'[c] = rec /\ call[c] \in CallState
  BY <1>2 DEF IndInv, TypeOK, CallState
<1>4. /\ rec.pc = "add" /\ rec.text = EffectiveText
      /\ rec.view = call[c].view /\ rec \in CallState
  BY <1>3, EffectiveTextType DEF CallState, MirrorPc, IndInv
<1>13. call[c].pc = "effective" /\ UNCHANGED <<authority, kv, history, degraded>>
  OBVIOUS
<1> HIDE DEF rec, MirrorReadAdd
<1>5. BusyAlone' /\ (overlapped => overlapped')
  BY BusyAloneStep DEF IndInv
<1>6. TypeOK'
  <2>1. reading' \in SUBSET (Authority!AddText \cup {Null})
    BY <1>1, EffectiveTextType DEF IndInv, TypeOK, ReaderObserves
  <2>2. overlapped' \in BOOLEAN
    BY DEF IndInv, TypeOK, CallsOverlap
  <2>3. call' \in [Call -> CallState]
    <3>1. call' = [call EXCEPT ![c] = rec]
      BY <1>2 DEF IndInv, TypeOK, MirrorReadAdd, rec
    <3>2. QED BY <1>4, <3>1 DEF IndInv, TypeOK, CallState
  <2>4. QED
    BY <1>1, <1>13, <2>1, <2>2, <2>3 DEF IndInv, TypeOK, CallState, history
<1>7. UntouchedUntilInitialized' /\ SaveClaimsObject' /\ AdminHasLastWord'
      /\ LegacyAdopted' /\ OverrideIsExplicit'
  BY <1>1, <1>5, <1>13
     DEF IndInv, UntouchedUntilInitialized, SaveClaimsObject,
         AdminHasLastWord, LegacyAdopted, OverrideIsExplicit, authority,
         history
<1>8. LocalsOfCall' /\ SnapshotBeforePointer' /\ MirroredCurrentResolves'
  BY <1>3, <1>4, <1>13 DEF IndInv, LocalsOfCall, SnapshotBeforePointer,
     MirroredCurrentResolves
<1>9. ReadingHoldsLists' /\ ReadsAreLinearizable'
  BY <1>1, <1>3, <1>4, <1>13 DEF IndInv, ReadingHoldsLists, ReadsAreLinearizable,
     ReaderObserves
<1>10. FirstPublishAlone'
  BY <1>13, <1>1, <1>3, <1>4, <1>5 DEF IndInv, FirstPublishAlone
<1>11. MirrorExact'
  BY <1>13, <1>1, <1>3, <1>4, <1>5
     DEF IndInv, MirrorExact, MirroredSoFar, Busy, Seen, authority
<1>12. QED
  BY <1>1, <1>5, <1>6, <1>7, <1>8, <1>9, <1>10, <1>11 DEF IndInv

(* What the put of each stage changes in KV.                               *)
LEMMA PutEffect ==
  ASSUME IndInv, NEW c \in Call, Putting(c)
  PROVE  /\ KvPut(c) \in KvState
         /\ KvPut(c).add = IF call[c].pc = "add" THEN call[c].text ELSE kv.add
         /\ KvPut(c).pools = IF call[c].pc = "pool"
                             THEN kv.pools \cup {call[c].view.current}
                             ELSE kv.pools
         /\ KvPut(c).previous = IF call[c].pc = "previous"
                                THEN call[c].view.previous ELSE kv.previous
         /\ KvPut(c).current = IF call[c].pc = "current"
                               THEN call[c].view.current ELSE kv.current
         /\ KvPut(c).status = IF call[c].pc = "status"
                              THEN call[c].view.status ELSE kv.status
<1> USE DEF KvState
<1>1. kv \in KvState /\ call[c].text \in Authority!AddText \cup {Null}
  BY DEF IndInv, TypeOK
<1>2. call[c].pc \in {"pool", "previous", "current", "add", "status"}
  BY DEF Putting, MirrorPc
<1>3. call[c].pc # "add" => call[c].view \in View
  BY <1>2 DEF IndInv, TypeOK, LocalsOfCall
<1>4. call[c].pc = "pool" => call[c].view.current \in Revision
  BY <1>3 DEF IndInv, LocalsOfCall, View
<1>5. CASE call[c].pc = "pool"
  BY <1>1, <1>4, <1>5 DEF KvPut
<1>6. CASE call[c].pc = "previous"
  BY <1>1, <1>3, <1>6 DEF KvPut, View
<1>7. CASE call[c].pc = "current"
  BY <1>1, <1>3, <1>7 DEF KvPut, View
<1>8. CASE call[c].pc = "add"
  BY <1>1, <1>8 DEF KvPut
<1>9. CASE call[c].pc = "status"
  BY <1>1, <1>3, <1>9 DEF KvPut, View
<1>10. QED BY <1>2, <1>5, <1>6, <1>7, <1>8, <1>9

(* Only a mirror puts, so the object is initialised, and no reader that    *)
(* waits for KV finds a list that was never in force.                      *)
LEMMA PutShared ==
  ASSUME IndInv, NEW c \in Call, Putting(c), kv' \in {kv, KvPut(c)},
         UNCHANGED <<authority, history>>, ReaderObserves, CallsOverlap
  PROVE  /\ Storage!IndInv' /\ Authority!Initialized
         /\ Authority!Initialized' /\ EffectiveText' = EffectiveText
         /\ SaveClaimsObject' /\ AdminHasLastWord' /\ LegacyAdopted'
         /\ OverrideIsExplicit' /\ BusyAlone' /\ (overlapped => overlapped')
         /\ UntouchedUntilInitialized' /\ MirroredCurrentResolves'
         /\ ReadsAreLinearizable'
         /\ kv.pools \subseteq kv'.pools
         /\ reading' \subseteq reading \cup {EffectiveText}
         /\ reading \subseteq reading'
<1>1. Storage!IndInv'
  BY StorageUnchanged DEF IndInv
<1>2. Authority!Initialized
  BY DEF IndInv, UntouchedUntilInitialized, Putting, MirrorPc
<1>3. Authority!Initialized' /\ EffectiveText' = EffectiveText
  BY <1>2 DEF authority, Authority!Initialized, EffectiveText,
     Authority!ReadAuthoritativeAddTxt
<1>4. BusyAlone' /\ (overlapped => overlapped')
  BY BusyAloneStep DEF IndInv
<1>5. SaveClaimsObject' /\ AdminHasLastWord' /\ LegacyAdopted'
      /\ OverrideIsExplicit' /\ UntouchedUntilInitialized'
  BY <1>2, <1>3, <1>4
     DEF IndInv, SaveClaimsObject, AdminHasLastWord, LegacyAdopted,
         OverrideIsExplicit, UntouchedUntilInitialized, authority, history
<1>6. /\ reading' \subseteq reading \cup {EffectiveText}
      /\ reading \subseteq reading' /\ (reading = {} => reading' = {})
  BY <1>3 DEF ReaderObserves
<1>7. kv.pools \subseteq kv'.pools /\ MirroredCurrentResolves'
  BY PutEffect DEF IndInv, MirroredCurrentResolves, SnapshotBeforePointer
<1>8. ReadsAreLinearizable'
  BY <1>6, PutEffect DEF IndInv, ReadsAreLinearizable, ReadingHoldsLists
<1>9. QED
  BY <1>1, <1>2, <1>3, <1>4, <1>5, <1>6, <1>7, <1>8

(* The types after a put, whatever the call waits for then.                *)
LEMMA PutTypeOK ==
  ASSUME IndInv, NEW c \in Call, Putting(c), kv' \in {kv, KvPut(c)},
         UNCHANGED <<authority, history>>, ReaderObserves, CallsOverlap,
         degraded' \in BOOLEAN, call' \in [Call -> CallState]
  PROVE  TypeOK'
<1>1. Authority!TypeOK'
  <2>1. Storage!IndInv'
    BY PutShared
  <2>2. QED BY <2>1, StorageFacts, PTL
<1>2. kv' \in KvState
  BY PutEffect DEF IndInv, TypeOK, KvState
<1>3. reading' \in SUBSET (Authority!AddText \cup {Null})
  BY PutShared, EffectiveTextType DEF IndInv, TypeOK
<1>4. overlapped' \in BOOLEAN
  BY DEF IndInv, TypeOK, CallsOverlap
<1>5. QED
  BY <1>1, <1>2, <1>3, <1>4 DEF IndInv, TypeOK, CallState, KvState, history

(* A failed put ends the mirror and is recorded as degraded.               *)
LEMMA MirrorFailsIndInv ==
  ASSUME IndInv, NEW c \in Call, MirrorFails(c), ReaderObserves, CallsOverlap
  PROVE  IndInv'
<1> USE DEF MirrorFails
<1>1. /\ \A d \in Call \ {c} : call'[d] = call[d]
      /\ call'[c] = Idle /\ Idle \in CallState
      /\ call' \in [Call -> CallState]
      /\ Idle.pc = "idle" /\ Idle.view = Null
  BY DEF IndInv, TypeOK, Finish, Idle, Waiting, CallState
<1>2. TypeOK'
  BY <1>1, PutTypeOK
<1>3. LocalsOfCall' /\ SnapshotBeforePointer'
  BY <1>1, PutShared DEF IndInv, LocalsOfCall, SnapshotBeforePointer
<1>4. ReadingHoldsLists'
  BY <1>1, PutShared DEF IndInv, ReadingHoldsLists, ReaderObserves
<1>5. FirstPublishAlone'
  BY <1>1, PutShared DEF IndInv, FirstPublishAlone
<1>6. MirrorExact'
  <2> SUFFICES ASSUME ~overlapped' PROVE MirrorExact'
    BY DEF MirrorExact
  <2>1. \A d \in Call \ {c} : call[d].pc = "idle"
    BY PutShared DEF IndInv, BusyAlone, Busy, Putting, MirrorPc
  <2>2. QED
    BY <1>1, <1>3, <2>1 DEF MirrorExact, MirroredSoFar, Busy, LocalsOfCall
<1>7. QED
  BY <1>2, <1>3, <1>4, <1>5, <1>6, PutShared DEF IndInv

(* A put leads to the next one with the same text and view, or ends the    *)
(* call.                                                                   *)
LEMMA PutAdvances ==
  ASSUME IndInv, NEW c \in Call, MirrorPut(c)
  PROVE  /\ \A d \in Call \ {c} : call'[d] = call[d]
         /\ call' \in [Call -> CallState]
         /\ call'[c].pc = NextPc(c)
         /\ NextPc(c) # "idle" => /\ call'[c].view = call[c].view
                                  /\ call'[c].text = call[c].text
         /\ NextPc(c) = "idle" => call'[c].view = Null
<1>1. call[c] \in CallState /\ call \in [Call -> CallState]
  BY DEF IndInv, TypeOK, CallState
<1>2. NextPc(c) \in {"previous", "current", "effective", "status", "idle"}
  BY DEF MirrorPut, Putting, MirrorPc, NextPc
<1>3. CASE NextPc(c) = "idle"
  <2>1. Idle \in CallState /\ Idle.pc = "idle" /\ Idle.view = Null
    BY DEF Idle, Waiting, CallState
  <2>2. QED BY <1>1, <1>3, <2>1 DEF MirrorPut, Finish
<1>4. CASE NextPc(c) # "idle"
  <2> DEFINE n == NextPc(c)
             rec == [call[c] EXCEPT !.pc = n]
  <2> HIDE DEF n
  <2>1. n \in {"previous", "current", "effective", "status"}
    BY <1>2, <1>4 DEF n
  <2>2. /\ rec \in CallState /\ rec.pc = n /\ rec.view = call[c].view
        /\ rec.text = call[c].text
    BY <1>1, <2>1 DEF CallState, MirrorPc
  <2>3. call' = [call EXCEPT ![c] = rec]
    BY <1>1, <1>4 DEF MirrorPut, n
  <2> HIDE DEF rec
  <2>4. QED BY <1>1, <1>4, <2>2, <2>3 DEF n
<1>5. QED BY <1>3, <1>4

(* A put: the call that runs alone leaves in KV what its view holds.       *)
LEMMA MirrorPutIndInv ==
  ASSUME IndInv, NEW c \in Call, MirrorPut(c), ReaderObserves, CallsOverlap
  PROVE  IndInv'
<1>1. /\ Putting(c) /\ kv' = KvPut(c) /\ UNCHANGED <<authority, history>>
      /\ degraded' = (degraded /\ call[c].pc # "status")
  BY DEF MirrorPut
<1>2. call[c].pc \in {"pool", "previous", "current", "add", "status"}
  BY <1>1 DEF Putting, MirrorPc
<1>3. TypeOK'
  BY <1>1, PutAdvances, PutTypeOK DEF IndInv, TypeOK
<1>4. /\ call[c].pc = "pool" => NextPc(c) = "previous"
      /\ call[c].pc = "previous" => NextPc(c) = "current"
      /\ call[c].pc = "current" => NextPc(c) = "effective"
      /\ call[c].pc = "add" =>
           NextPc(c) = IF call[c].view = Null THEN "idle" ELSE "status"
      /\ call[c].pc = "status" => NextPc(c) = "idle"
  BY DEF NextPc
<1>5. LocalsOfCall'
  BY <1>2, <1>4, PutAdvances DEF IndInv, LocalsOfCall
<1>6. SnapshotBeforePointer'
  <2>1. call[c].pc = "pool" => call[c].view.current \in kv'.pools
    BY <1>1, PutEffect
  <2>2. kv.pools \subseteq kv'.pools
    BY <1>1, PutShared
  <2>3. QED
    BY <1>2, <1>4, <2>1, <2>2, PutAdvances DEF IndInv, SnapshotBeforePointer
<1>7. ReadingHoldsLists'
  <2>1. /\ EffectiveText' = EffectiveText /\ reading \subseteq reading'
        /\ reading' # {} => reading # {}
    BY <1>1, PutShared DEF ReaderObserves
  <2>2. NextPc(c) # "add"
    BY <1>2, <1>4
  <2>3. QED
    BY <2>1, <2>2, PutAdvances DEF IndInv, ReadingHoldsLists
<1>8. FirstPublishAlone'
  BY <1>1, <1>2, <1>4, PutAdvances, PutShared DEF IndInv, FirstPublishAlone
<1>9. MirrorExact'
  <2> SUFFICES ASSUME ~overlapped' PROVE MirrorExact'
    BY DEF MirrorExact
  <2>1. /\ ~overlapped
        /\ \A d \in Call \ {c} : call'[d] = call[d] /\ call[d].pc = "idle"
    BY <1>1, <1>2, PutShared, PutAdvances DEF IndInv, BusyAlone, Busy
  <2>2. \A d \in Call \ {c} : MirroredSoFar(d)'
    BY <2>1, <1>5 DEF MirroredSoFar, Busy, LocalsOfCall
  <2>3. MirroredSoFar(c) /\ Busy(c) /\ LocalsOfCall
    BY <1>2, <2>1 DEF IndInv, MirrorExact, Busy
  <2>4. UNCHANGED <<current, previous, status, EffectiveText>>
        /\ Seen' = Seen /\ Seen.current = current
        /\ Seen.previous = previous /\ Seen.status = status
    BY <1>1, PutShared DEF authority, Seen
  <2>5. MirroredSoFar(c)'
    <3>1. call'[c].view = Null => call'[c].pc = "idle"
      BY <1>2, <1>4, <2>3, PutAdvances DEF LocalsOfCall
    <3>2. call'[c].pc # "add"
      BY <1>2, <1>4, PutAdvances
    <3>3. call'[c].view # Null => call[c].view = Seen /\ call'[c].view = Seen
      BY <1>2, <1>4, <2>3, PutAdvances DEF MirroredSoFar
    <3>4. call'[c].view # Null =>
            /\ call'[c].pc \in {"current", "effective", "status"}
                 => kv'.previous = previous
            /\ call'[c].pc \in {"effective", "status"}
                 => kv'.current = current
            /\ call'[c].pc = "status" => kv'.add = EffectiveText
      <4> HAVE call'[c].view # Null
      <4>1. /\ call'[c].pc = NextPc(c) /\ call[c].view = Seen
            /\ call[c].view # Null
        BY <3>3, PutAdvances DEF LocalsOfCall
      <4>2. /\ call[c].pc = "previous" => kv'.previous = previous
            /\ call[c].pc # "previous" => kv'.previous = kv.previous
            /\ call[c].pc = "current" => kv'.current = current
            /\ call[c].pc # "current" => kv'.current = kv.current
            /\ call[c].pc = "add" => kv'.add = EffectiveText
        BY <1>1, <2>3, <2>4, <4>1, PutEffect DEF MirroredSoFar
      <4>3. /\ call[c].pc \in {"current", "add"} => kv.previous = previous
            /\ call[c].pc = "add" => kv.current = current
        BY <2>3, <4>1 DEF MirroredSoFar
      <4>4. QED BY <1>2, <1>4, <4>1, <4>2, <4>3
    <3>5. QED
      BY <2>4, <3>1, <3>2, <3>3, <3>4 DEF MirroredSoFar, Busy
  <2>6. NextPc(c) = "idle" /\ ~degraded' =>
          /\ kv'.add = EffectiveText /\ kv'.current = current
          /\ kv'.previous = previous /\ kv'.status = status
    <3>1. CASE call[c].pc = "add"
      BY <1>1, <1>4, <2>3, <2>4, <3>1, PutEffect DEF MirroredSoFar
    <3>2. CASE call[c].pc = "status"
      BY <1>1, <1>4, <2>3, <2>4, <3>2, PutEffect
         DEF MirroredSoFar, LocalsOfCall
    <3>3. QED BY <1>2, <1>4, <3>1, <3>2
  <2>7. (~degraded /\ (\A d \in Call : ~Busy(d)) =>
           /\ kv.add = EffectiveText /\ kv.current = current
           /\ kv.previous = previous /\ kv.status = status)'
    BY <2>4, <2>6, PutAdvances DEF Busy
  <2>8. QED BY <2>2, <2>5, <2>7 DEF MirrorExact
<1>10. QED
  BY <1>1, <1>3, <1>5, <1>6, <1>7, <1>8, <1>9, PutShared DEF IndInv

(* A reader's steps.                                                       *)
LEMMA ReaderIndInv ==
  ASSUME IndInv, ReadAddState \/ ReadLegacyKv PROVE IndInv'
<1>1. UNCHANGED <<authority, kv, call, history, degraded, overlapped>>
      /\ reading' \in {{}, {EffectiveText}}
  BY DEF ReadAddState, ReadLegacyKv
<1>2. Storage!IndInv'
  BY <1>1, StorageUnchanged DEF IndInv
<1>3. Authority!TypeOK'
  BY <1>2, StorageFacts, PTL
<1>4. Authority!Initialized' = Authority!Initialized
      /\ EffectiveText' = EffectiveText
  BY <1>1 DEF authority, Authority!Initialized, EffectiveText,
     Authority!ReadAuthoritativeAddTxt
<1>5. TypeOK'
  BY <1>1, <1>3, EffectiveTextType DEF IndInv, TypeOK, history
<1>6. ReadingHoldsLists' /\ ReadsAreLinearizable'
  <2>1. CASE ReadAddState
    <3>1. \A d \in Call : call[d].pc # "add"
      BY <2>1 DEF ReadAddState, IndInv, UntouchedUntilInitialized
    <3>2. EffectiveText = kv.add
      BY <2>1 DEF ReadAddState, EffectiveText
    <3>3. QED
      BY <1>1, <1>4, <2>1, <3>1, <3>2
         DEF ReadAddState, ReadingHoldsLists, ReadsAreLinearizable
  <2>2. CASE ReadLegacyKv
    BY <2>2 DEF ReadLegacyKv, ReadingHoldsLists, ReadsAreLinearizable
  <2>3. QED BY <2>1, <2>2
<1>7. /\ UntouchedUntilInitialized' /\ SaveClaimsObject' /\ AdminHasLastWord'
      /\ LegacyAdopted' /\ LocalsOfCall' /\ SnapshotBeforePointer'
      /\ MirroredCurrentResolves' /\ BusyAlone' /\ FirstPublishAlone'
      /\ OverrideIsExplicit'
  BY <1>1, <1>4 DEF IndInv, UntouchedUntilInitialized, SaveClaimsObject,
     AdminHasLastWord, LegacyAdopted, LocalsOfCall, SnapshotBeforePointer,
     MirroredCurrentResolves, BusyAlone, FirstPublishAlone,
     OverrideIsExplicit, Busy, authority, history
<1>8. MirrorExact'
  BY <1>1, <1>4 DEF IndInv, MirrorExact, MirroredSoFar, Busy, Seen, authority
<1>9. QED BY <1>2, <1>5, <1>6, <1>7, <1>8 DEF IndInv

(* A step that changes nothing.                                            *)
LEMMA StutterIndInv == ASSUME IndInv, UNCHANGED vars PROVE IndInv'
<1>1. UNCHANGED <<authority, kv, call, history, degraded, overlapped, reading>>
  BY DEF vars
<1>2. Storage!IndInv'
  BY <1>1, StorageUnchanged DEF IndInv
<1>3. Authority!TypeOK'
  BY <1>2, StorageFacts, PTL
<1>4. Authority!Initialized' = Authority!Initialized
      /\ EffectiveText' = EffectiveText
  BY <1>1 DEF authority, Authority!Initialized, EffectiveText,
     Authority!ReadAuthoritativeAddTxt
<1>5. TypeOK'
  BY <1>1, <1>3 DEF IndInv, TypeOK, history
<1>6. /\ UntouchedUntilInitialized' /\ SaveClaimsObject' /\ AdminHasLastWord'
      /\ LegacyAdopted' /\ LocalsOfCall' /\ SnapshotBeforePointer'
      /\ MirroredCurrentResolves' /\ BusyAlone' /\ FirstPublishAlone'
      /\ OverrideIsExplicit' /\ ReadingHoldsLists' /\ ReadsAreLinearizable'
  BY <1>1, <1>4 DEF IndInv, UntouchedUntilInitialized, SaveClaimsObject,
     AdminHasLastWord, LegacyAdopted, LocalsOfCall, SnapshotBeforePointer,
     MirroredCurrentResolves, BusyAlone, FirstPublishAlone,
     OverrideIsExplicit, Busy, ReadingHoldsLists, ReadsAreLinearizable,
     authority, history
<1>7. MirrorExact'
  BY <1>1, <1>4 DEF IndInv, MirrorExact, MirroredSoFar, Busy, Seen, authority
<1>8. QED BY <1>2, <1>5, <1>6, <1>7 DEF IndInv

(* Every step preserves the invariant.                                     *)
LEMMA NextIndInv == IndInv /\ [Next]_vars => IndInv'
<1>1. ASSUME IndInv, NEW c \in Call, CallStep(c), ReaderObserves, CallsOverlap
      PROVE  IndInv'
  BY <1>1, PublishPoolIndInv, LegacyGetIndInv, LegacyCommitIndInv, UndoIndInv,
     SetManualAddTxtIndInv, MirrorPutIndInv, MirrorReadAddIndInv,
     MirrorFailsIndInv DEF CallStep
<1>2. QED BY <1>1, ReaderIndInv, StutterIndInv DEF Next

(* The invariant holds in every reachable state.                           *)
LEMMA Invariance == Spec => []IndInv
BY InitIndInv, NextIndInv, PTL DEF Spec

----------------------------------------------------------------------------
(* The text and the revisions that calls carry from one await to the next, *)
(* and what KV holds, keep their types.                                    *)
THEOREM TypeCorrect == Spec => []TypeOK
<1>1. IndInv => TypeOK BY DEF IndInv
<1>2. QED BY <1>1, Invariance, PTL

(* However first publishes interleave, the text the operator had saved     *)
(* before the object existed is the override once a pool is installed.     *)
THEOREM LegacyTextSurvives == Spec => []LegacyOverrideSurvives
<1>1. IndInv => LegacyOverrideSurvives
  BY DEF IndInv, LegacyAdopted, LegacyOverrideSurvives, Authority!Initialized
<1>2. QED BY <1>1, Invariance, PTL

(* The administrator's last save is the override, also when a first        *)
(* publish commits afterwards with a text it had read before.              *)
THEOREM LastSaveWins == Spec => []AdminHasLastWord
<1>1. IndInv => AdminHasLastWord BY DEF IndInv
<1>2. QED BY <1>1, Invariance, PTL

(* Calls that do not overlap never turn a mirrored pool into an override.  *)
THEOREM OverridesAreSaved == Spec => []OverrideIsExplicit
<1>1. IndInv => OverrideIsExplicit BY DEF IndInv
<1>2. QED BY <1>1, Invariance, PTL

(* A request that goes on to read KV finds a list that was in force while  *)
(* it waited, for any number of calls and any failures.                    *)
THEOREM ReadsLinearizable == Spec => []ReadsAreLinearizable
<1>1. IndInv => ReadsAreLinearizable BY DEF IndInv
<1>2. QED BY <1>1, Invariance, PTL

(* KV never names a current revision without its snapshot.                 *)
THEOREM MirrorResolves == Spec => []MirroredCurrentResolves
<1>1. IndInv => MirroredCurrentResolves BY DEF IndInv
<1>2. QED BY <1>1, Invariance, PTL

(* Calls that never overlapped leave KV as the object is, once the last    *)
(* failure has been healed by a complete mirror.                           *)
THEOREM MirrorQuiescent == Spec => []QuiescentMirror
<1>1. IndInv => QuiescentMirror
  BY DEF IndInv, MirrorExact, QuiescentMirror, Busy
<1>2. QED BY <1>1, Invariance, PTL
=============================================================================
