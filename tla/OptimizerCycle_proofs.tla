------------------------ MODULE OptimizerCycle_proofs ------------------------
(***************************************************************************)
(* Theorems about OptimizerCycle, for every set of revisions, pools and    *)
(* texts and every bound on the requests in flight, with and without       *)
(* another publisher.  IndInv ties what the NAS believes to what it has    *)
(* sent and to what the authority holds: which request is still awaited,   *)
(* which revision the reply or the locals of the cycle name, and, while    *)
(* nothing is lost and nobody else publishes, how far the files and the    *)
(* authority have moved apart at each step of the cycle.                   *)
(***************************************************************************)
EXTENDS OptimizerCycle, TLAPS

Storage == INSTANCE PoolAuthority_proofs

Nas == [pc : {"idle", "measure", "waiting", "verify", "persist", "undo"}
               \cup WritePc,
        state : Files, source : {"none", "optimizer", "manual"},
        entries : Pool \cup {Null}, published : Revision \cup {Null},
        replaced : Revision \cup {Null}, undoing : BOOLEAN]

\* The publish has been answered and its revision is known.
Published ==
  nas.undoing \/ nas.pc \in {"verify", "undo", "persist"} \cup WritePc
PublishOk == reply # Null /\ reply.ok /\ ~nas.undoing

LocalsOfCycle ==
  /\ nas.pc = "idle" => nas = Idle
  /\ nas.pc \in {"measure", "verify", "undo"} => ~nas.undoing
  /\ Published => nas.published \in mine /\ PoolOf[nas.published] = nas.entries
  /\ PublishOk => reply.revision \in mine /\ PoolOf[reply.revision] = nas.entries

OneConversation ==
  nas.pc # "waiting" \/ reply # Null =>
    /\ nas.pc # "waiting" => reply = Null
    /\ \A m \in net : ~m.awaited

AwaitedRequest ==
  \A m \in net : m.awaited =>
    IF nas.undoing
    THEN /\ m.op = IF nas.replaced = Null THEN "reset" ELSE "rollback"
         /\ m.expected = nas.published
    ELSE /\ m.op = "publish" /\ m.expected = nas.state.current
         /\ m.entries = nas.entries /\ m.entries \in Pool

OwnRevisions ==
  /\ {disk.current, nas.state.current} \subseteq mine \cup {Null}
  /\ \A m \in net : m.expected \in mine \cup {Null}

WasVerified(entries) ==
  entries # Null => \E r \in verified : PoolOf[r] = entries

FilesVerified ==
  /\ WasVerified(disk.lastGood) /\ WasVerified(nas.state.lastGood)
  /\ nas.pc \in WritePc \cup {"persist"} /\ ~nas.undoing
       => nas.published \in verified

PredecessorKnown ==
  baseline /\ ~meddled /\ ~late =>
    /\ current # Null
    /\ Published => nas.replaced # Null
    /\ PublishOk => reply.previous # Null

\* The distance between the files and the authority, step by step.
Synced == disk.current = current /\ disk.previous = previous

BeforePublish ==
  \/ nas.pc \in {"idle", "measure"}
  \/ nas.pc = "waiting" /\ ~nas.undoing /\ ~PublishOk
BeforeUndo ==
  \/ Published /\ ~nas.undoing
  \/ nas.pc = "waiting" /\ nas.undoing /\ reply = Null

InStep ==
  /\ \A m \in net : m.awaited
  /\ BeforePublish =>
       Synced /\ (nas.pc # "idle" => nas.state.current = current)
  /\ PublishOk =>
       /\ current = reply.revision
       /\ previous = reply.previous /\ previous = nas.state.current
  /\ BeforeUndo =>
       /\ current = nas.published
       /\ previous = nas.replaced /\ previous = nas.state.current
  /\ nas.undoing /\ reply # Null => reply.ok
  /\ nas.undoing /\ ~BeforeUndo =>
       /\ nas.replaced = nas.state.current
       /\ current = Target.current /\ previous = Target.previous
  /\ nas.pc \in {"write_previous", "write_last_good", "persist"} =>
       disk.current = Target.current
  /\ nas.pc \in {"write_last_good", "persist"} =>
       disk.previous = Target.previous

CalmInStep == ~faulted /\ ~meddled => InStep

IndInv ==
  /\ TypeOK
  /\ Storage!IndInv
  /\ LocalsOfCycle
  /\ OneConversation
  /\ AwaitedRequest
  /\ OwnRevisions
  /\ FilesVerified
  /\ PredecessorKnown
  /\ CalmInStep

----------------------------------------------------------------------------
(* The storage facts that the lemmas below use.                            *)

(* The assumption of the storage's own theorems is part of this module's.  *)
LEMMA StorageAssumption == Storage!PoolAuthorityAssumption
BY CycleAssumption
   DEF CycleAssumption, Authority!PoolAuthorityAssumption,
       Storage!PoolAuthorityAssumption, Authority!AddText, Storage!AddText,
       Authority!Snapshot, Storage!Snapshot, Authority!Mutation,
       Storage!Mutation

(* An empty storage satisfies the storage invariant.                       *)
LEMMA StorageInit == Authority!Init => Storage!IndInv
BY StorageAssumption, Storage!InitIndInv DEF Authority!Init, Storage!Init

(* What the storage invariant says in the cycle's own terms.               *)
LEMMA StorageFacts ==
  Storage!IndInv =>
    /\ Authority!TypeOK
    /\ previous # Null => current # Null /\ pools[previous] # Null
BY DEF Storage!IndInv, Storage!TypeOK, Authority!TypeOK,
   Storage!UndoNeedsPool, Authority!Snapshot, Storage!Snapshot,
   Authority!Mutation, Storage!Mutation, Authority!AddText, Storage!AddText

(* A step that leaves the storage alone keeps its invariant.               *)
LEMMA StorageUnchanged ==
  ASSUME Storage!IndInv, UNCHANGED authority
  PROVE  Storage!IndInv' /\ Authority!TypeOK'
<1>1. Storage!IndInv'
  BY DEF authority, Storage!IndInv, Storage!TypeOK,
     Storage!SnapshotsNeverRewritten, Storage!UndoNeedsPool,
     Storage!OverrideClaimsObject, Storage!ServedTextIsCurrentPool,
     Storage!StatusNamesInstalledPools
<1>2. QED BY <1>1, StorageFacts, PTL

(* A publish keeps the storage invariant and installs the revision above   *)
(* the one it expected.                                                    *)
LEMMA PublishStep ==
  ASSUME Storage!IndInv, NEW expected \in Revision \cup {Null},
         NEW r \in Revision, NEW legacy \in LegacyInKv,
         Authority!PublishAuthoritativePool(expected, r, legacy)
  PROVE  /\ Storage!IndInv' /\ Authority!TypeOK'
         /\ expected = current /\ current' = r /\ previous' = current
<1>1. Storage!PublishAuthoritativePool(expected, r, legacy)
  BY DEF Authority!PublishAuthoritativePool, Storage!PublishAuthoritativePool,
     Authority!PublishReply, Storage!PublishReply, Authority!Ok, Storage!Ok,
     Authority!AdoptLegacy, Storage!AdoptLegacy, Authority!manualVars,
     Storage!manualVars, Authority!SnapshotOf, Storage!SnapshotOf,
     Authority!MutationOf, Storage!MutationOf
<1>2. legacy \in Storage!LegacyText
  BY DEF LegacyInKv, Storage!LegacyText, Storage!AddText
<1>3. Storage!IndInv'
  BY <1>1, <1>2, StorageAssumption, Storage!PublishIndInv
<1>4. Authority!TypeOK'
  BY <1>3, StorageFacts, PTL
<1>5. expected = current /\ current' = r /\ previous' = current
  BY DEF Authority!PublishAuthoritativePool, Authority!PublishReply,
     Authority!Ok
<1>6. QED BY <1>3, <1>4, <1>5

(* So does a rollback, which swaps the two revisions.                      *)
LEMMA RollbackStep ==
  ASSUME Storage!IndInv, NEW expected \in Revision \cup {Null},
         Authority!RollbackAuthoritativePool(expected)
  PROVE  /\ Storage!IndInv' /\ Authority!TypeOK'
         /\ expected = current /\ expected # Null /\ previous # Null
         /\ current' = previous /\ previous' = current
<1>1. Storage!RollbackAuthoritativePool(expected)
  BY DEF Authority!RollbackAuthoritativePool,
     Storage!RollbackAuthoritativePool, Authority!RollbackReply,
     Storage!RollbackReply, Authority!Ok, Storage!Ok, Authority!manualVars,
     Storage!manualVars, Authority!MutationOf, Storage!MutationOf
<1>2. Storage!IndInv'
  BY <1>1, StorageAssumption, Storage!RollbackIndInv
<1>3. Authority!TypeOK'
  BY <1>2, StorageFacts, PTL
<1>4. QED
  BY <1>2, <1>3 DEF Authority!RollbackAuthoritativePool,
     Authority!RollbackReply, Authority!Ok

(* So does a reset, which is only granted when there is nothing to undo.   *)
LEMMA ResetStep ==
  ASSUME Storage!IndInv, NEW expected \in Revision \cup {Null},
         Authority!ResetAuthoritativePoolToEmpty(expected)
  PROVE  /\ Storage!IndInv' /\ Authority!TypeOK'
         /\ expected = current /\ expected # Null /\ previous = Null
         /\ current' = Null /\ previous' = Null
<1>1. Storage!ResetAuthoritativePoolToEmpty(expected)
  BY DEF Authority!ResetAuthoritativePoolToEmpty,
     Storage!ResetAuthoritativePoolToEmpty, Authority!ResetReply,
     Storage!ResetReply, Authority!Ok, Storage!Ok, Authority!manualVars,
     Storage!manualVars, Authority!MutationOf, Storage!MutationOf
<1>2. Storage!IndInv'
  BY <1>1, StorageAssumption, Storage!ResetIndInv
<1>3. Authority!TypeOK'
  BY <1>2, StorageFacts, PTL
<1>4. QED
  BY <1>2, <1>3 DEF Authority!ResetAuthoritativePoolToEmpty,
     Authority!ResetReply, Authority!Ok

(* A manual save touches neither revision.                                 *)
LEMMA SetManualStep ==
  ASSUME Storage!IndInv, NEW text \in ManualText \cup {Blank},
         Authority!SetManualAuthoritativeAddTxt(text)
  PROVE  /\ Storage!IndInv' /\ Authority!TypeOK'
         /\ UNCHANGED <<current, previous, pools>>
<1>1. Storage!SetManualAuthoritativeAddTxt(text)
  BY DEF Authority!SetManualAuthoritativeAddTxt, Authority!poolVars,
     Storage!SetManualAuthoritativeAddTxt, Storage!poolVars
<1>2. text \in Storage!AddText \cup {Blank}
  BY DEF Storage!AddText
<1>3. Storage!IndInv'
  BY <1>1, <1>2, StorageAssumption, Storage!SetManualIndInv
<1>4. Authority!TypeOK'
  BY <1>3, StorageFacts, PTL
<1>5. QED
  BY <1>3, <1>4 DEF Authority!SetManualAuthoritativeAddTxt, Authority!poolVars

----------------------------------------------------------------------------
(* Steps that end a cycle.                                                 *)

(* The locals of a NAS that runs no cycle.                                 *)
LEMMA IdleFacts ==
  /\ Idle \in Nas /\ Idle.pc = "idle" /\ Idle.undoing = FALSE
  /\ Idle.state = Empty /\ Empty \in Files /\ Empty.current = Null
  /\ Empty.previous = Null /\ Empty.lastGood = Null
BY DEF Idle, Empty, Nas, Files

(* The initial state.                                                      *)
LEMMA InitIndInv == Init => IndInv
<1> SUFFICES ASSUME Init PROVE IndInv
  OBVIOUS
<1> USE DEF Init
<1>1. Storage!IndInv /\ Authority!TypeOK /\ current = Null /\ previous = Null
  BY StorageInit, StorageFacts DEF Authority!Init
<1>2. TypeOK
  BY <1>1, IdleFacts DEF TypeOK, Nas
<1>3. ~Published /\ ~PublishOk
  BY IdleFacts DEF Published, PublishOk, WritePc
<1>4. LocalsOfCycle /\ OneConversation /\ AwaitedRequest /\ OwnRevisions
  BY <1>3, IdleFacts DEF LocalsOfCycle, OneConversation, AwaitedRequest,
     OwnRevisions
<1>5. FilesVerified /\ PredecessorKnown
  BY <1>3, IdleFacts DEF FilesVerified, WasVerified, PredecessorKnown, WritePc
<1>6. CalmInStep
  BY <1>1, <1>3, IdleFacts DEF CalmInStep, InStep, BeforeUndo, Synced
<1>7. QED BY <1>1, <1>2, <1>4, <1>5, <1>6 DEF IndInv

(* A cycle that ends, for whatever reason, leaves requests behind that     *)
(* nobody waits for; unless something failed, there are none, and the      *)
(* files agree with the authority.                                         *)
LEMMA EndOfCycle ==
  ASSUME IndInv, nas' = Idle, reply' = Null, net' \subseteq Request,
         \A m \in net' : ~m.awaited /\ m.expected \in mine \cup {Null},
         UNCHANGED <<authority, disk, mine, verified, baseline, late, meddled>>,
         faulted' \in BOOLEAN,
         ~faulted' /\ ~meddled => net' = {} /\ Synced
  PROVE  IndInv'
<1>1. Storage!IndInv' /\ Authority!TypeOK'
  BY StorageUnchanged DEF IndInv
<1>2. TypeOK'
  BY <1>1, IdleFacts DEF IndInv, TypeOK, Nas
<1>3. ~Published' /\ ~PublishOk'
  BY IdleFacts DEF Published, PublishOk, WritePc
<1>4. LocalsOfCycle' /\ OneConversation' /\ AwaitedRequest' /\ OwnRevisions'
  BY <1>3, IdleFacts DEF IndInv, LocalsOfCycle, OneConversation,
     AwaitedRequest, OwnRevisions
<1>5. FilesVerified' /\ PredecessorKnown'
  BY <1>3, IdleFacts DEF IndInv, FilesVerified, WasVerified,
     PredecessorKnown, WritePc, authority
<1>6. CalmInStep'
  BY <1>3, IdleFacts DEF CalmInStep, InStep, BeforeUndo, Synced, authority
<1>7. QED BY <1>1, <1>2, <1>4, <1>5, <1>6 DEF IndInv

(* A cycle that publishes nothing, or that was refused before it did.      *)
LEMMA QuietEndIndInv ==
  ASSUME IndInv, nas' = Idle, reply' = Null,
         UNCHANGED <<authority, disk, net, history>>,
         \A m \in net : ~m.awaited,
         CalmInStep /\ ~faulted /\ ~meddled => Synced
  PROVE  IndInv'
<1>1. net = {} \/ faulted \/ meddled
  BY DEF IndInv, CalmInStep, InStep
<1>2. net \subseteq Request /\ faulted \in BOOLEAN
  BY DEF IndInv, TypeOK
<1>3. QED BY <1>1, <1>2, EndOfCycle DEF IndInv, OwnRevisions, history

(* Skipping the publish.                                                   *)
LEMMA SkipPublishIndInv == ASSUME IndInv, SkipPublish PROVE IndInv'
<1>1. reply = Null /\ \A m \in net : ~m.awaited
  BY DEF SkipPublish, IndInv, OneConversation
<1>2. CalmInStep /\ ~faulted /\ ~meddled => Synced
  BY DEF SkipPublish, CalmInStep, InStep, BeforePublish
<1>3. QED BY <1>1, <1>2, QuietEndIndInv DEF SkipPublish

(* The end of a cycle whose files have all been written.                   *)
LEMMA PersistIndInv == ASSUME IndInv, Persist PROVE IndInv'
<1>1. reply = Null /\ \A m \in net : ~m.awaited
  BY DEF Persist, IndInv, OneConversation
<1>2. CalmInStep /\ ~faulted /\ ~meddled => Synced
  <2> SUFFICES ASSUME InStep PROVE Synced
    BY DEF CalmInStep
  <2>1. disk.current = Target.current /\ disk.previous = Target.previous
    BY DEF Persist, InStep
  <2>2. CASE nas.undoing
    BY <2>1, <2>2 DEF Persist, InStep, BeforeUndo, Synced
  <2>3. CASE ~nas.undoing
    <3>1. current = nas.published /\ previous = nas.state.current
      BY <2>3 DEF Persist, InStep, BeforeUndo, Published
    <3>2. QED BY <2>1, <2>3, <3>1 DEF Target, Synced
  <2>4. QED BY <2>2, <2>3
<1>3. QED BY <1>1, <1>2, QuietEndIndInv DEF Persist

(* Requests that the client has given up on.                               *)
LEMMA Abandoned ==
  ASSUME IndInv,
         net' \in {{m \in net : ~m.awaited},
                   {[m EXCEPT !.awaited = FALSE] : m \in net}}
  PROVE  /\ net' \subseteq Request
         /\ \A m \in net' : ~m.awaited /\ m.expected \in mine \cup {Null}
<1>1. net \subseteq Request /\ \A m \in net : m.expected \in mine \cup {Null}
  BY DEF IndInv, TypeOK, OwnRevisions
<1>2. CASE net' = {m \in net : ~m.awaited}
  BY <1>1, <1>2
<1>3. CASE net' = {[m EXCEPT !.awaited = FALSE] : m \in net}
  <2>1. ASSUME NEW m \in net
        PROVE  LET n == [m EXCEPT !.awaited = FALSE]
               IN  n \in Request /\ ~n.awaited /\ n.expected = m.expected
    BY <1>1 DEF Request
  <2>2. QED BY <1>1, <1>3, <2>1
<1>4. QED BY <1>2, <1>3

(* Time-outs and crashes.                                                  *)
LEMMA AbandonIndInv == ASSUME IndInv, Timeout \/ Crash PROVE IndInv'
BY Abandoned, EndOfCycle DEF Timeout, Crash

----------------------------------------------------------------------------
(* Steps of the cycle that go on.  Each of them keeps the types, changes   *)
(* the locals and little else.                                             *)

(* The parts of the invariant that do not mention the locals.              *)
LEMMA LocalStep ==
  ASSUME IndInv, UNCHANGED <<authority, late, meddled>>,
         nas' \in Nas, disk' \in Files, net' \subseteq Request,
         \A m, n \in net' : m.awaited /\ n.awaited => m = n,
         reply' \in Reply \cup {Null}, mine' = mine, verified' \subseteq Revision,
         {baseline', faulted'} \subseteq BOOLEAN
  PROVE  Storage!IndInv' /\ TypeOK'
BY StorageUnchanged DEF IndInv, TypeOK, Nas

(* The start of a cycle: the files are synchronised with the remote.       *)
LEMMA StartCycleIndInv == ASSUME IndInv, StartCycle PROVE IndInv'
<1> USE DEF StartCycle
<1>1. Authority!Source \in {"none", "optimizer", "manual"}
  BY DEF Authority!Source
<1> DEFINE src == Authority!Source
<1> HIDE DEF src
<1>2. disk \in Files /\ src \in {"none", "optimizer", "manual"}
  BY <1>1 DEF IndInv, TypeOK, src
<1>3. nas' = [Idle EXCEPT !.pc = "measure", !.state = disk, !.source = src]
  BY DEF src
<1>4. nas' \in Nas /\ nas'.pc = "measure" /\ nas'.state = disk /\ ~nas'.undoing
  BY <1>2, <1>3, IdleFacts DEF Nas
<1>5. reply = Null /\ \A m \in net : ~m.awaited
  BY DEF IndInv, OneConversation
<1>6. Storage!IndInv' /\ TypeOK'
  BY <1>4, LocalStep DEF IndInv, TypeOK
<1>7. ~Published' /\ ~PublishOk'
  BY <1>4, <1>5 DEF Published, PublishOk, WritePc
<1>8. LocalsOfCycle' /\ OneConversation' /\ AwaitedRequest'
  BY <1>4, <1>5, <1>7 DEF LocalsOfCycle, OneConversation, AwaitedRequest
<1>9. OwnRevisions' /\ FilesVerified'
  BY <1>4 DEF IndInv, OwnRevisions, FilesVerified, WasVerified, WritePc
<1>10. PredecessorKnown'
  BY <1>7 DEF IndInv, PredecessorKnown, authority
<1>11. CalmInStep'
  BY <1>4, <1>7
     DEF IndInv, CalmInStep, InStep, BeforePublish, BeforeUndo, Synced,
         authority
<1>12. QED BY <1>6, <1>8, <1>9, <1>10, <1>11 DEF IndInv

(* A sent request is the only one that is awaited.                         *)
LEMMA SendStep ==
  ASSUME IndInv, nas.pc # "waiting", NEW op \in {"publish", "rollback", "reset"},
         NEW entries \in Pool \cup {Null}, Send(op, entries)
  PROVE  LET m0 == [op |-> op, entries |-> entries, awaited |-> TRUE,
                    expected |-> IF op = "publish" THEN nas.state.current
                                                   ELSE nas.published]
         IN  /\ net' = net \cup {m0} /\ m0 \in Request
             /\ m0.expected = IF op = "publish" THEN nas.state.current
                                                ELSE nas.published
             /\ net' \subseteq Request /\ \A m \in net : ~m.awaited
             /\ \A m, n \in net' : m.awaited /\ n.awaited => m = n
<1>1. \A m \in net : ~m.awaited
  BY DEF IndInv, OneConversation
<1>2. /\ nas.state.current \in Revision \cup {Null}
      /\ nas.published \in Revision \cup {Null} /\ net \subseteq Request
  BY DEF IndInv, TypeOK, Files
<1> DEFINE e == IF op = "publish" THEN nas.state.current ELSE nas.published
           m1 == [op |-> op, entries |-> entries, awaited |-> TRUE,
                  expected |-> e]
<1>3. net' = net \cup {m1}
  BY DEF Send
<1>4. e \in Revision \cup {Null}
  BY <1>2
<1> HIDE DEF e
<1>5. m1 \in Request /\ m1.expected = e
  BY <1>4 DEF Request
<1> HIDE DEF m1
<1>6. /\ net' = net \cup {m1} /\ m1 \in Request /\ m1.expected = e
      /\ net' \subseteq Request /\ \A m \in net : ~m.awaited
      /\ \A m, n \in net' : m.awaited /\ n.awaited => m = n
  BY <1>1, <1>2, <1>3, <1>5
<1>7. QED BY <1>6 DEF m1, e

(* The publish request names the revision the cycle started from.          *)
LEMMA SendPublishIndInv == ASSUME IndInv, SendPublish PROVE IndInv'
<1>1. PICK p \in Pool :
        /\ nas' = [nas EXCEPT !.pc = "waiting", !.entries = p]
        /\ Send("publish", p)
  BY DEF SendPublish
<1>2. /\ nas.pc = "measure" /\ UNCHANGED <<authority, disk, reply, history>>
      /\ ~nas.undoing /\ reply = Null /\ nas \in Nas /\ p # Null
  BY CycleAssumption
     DEF SendPublish, IndInv, LocalsOfCycle, OneConversation, TypeOK, Nas,
         Authority!PoolAuthorityAssumption
<1>3. /\ nas' \in Nas /\ nas'.pc = "waiting" /\ nas'.entries = p
      /\ nas'.state = nas.state /\ nas'.undoing = FALSE
  BY <1>1, <1>2 DEF Nas
<1> DEFINE m0 == [op |-> "publish", entries |-> p, awaited |-> TRUE,
                  expected |-> nas.state.current]
<1>4. /\ net' = net \cup {m0} /\ net' \subseteq Request
      /\ \A m \in net : ~m.awaited
      /\ \A m, n \in net' : m.awaited /\ n.awaited => m = n
  BY <1>1, <1>2, SendStep
<1>5. /\ m0.op = "publish" /\ m0.expected = nas.state.current
      /\ m0.entries = p /\ m0.awaited
  OBVIOUS
<1> HIDE DEF m0
<1>6. Storage!IndInv' /\ TypeOK'
  BY <1>2, <1>3, <1>4, LocalStep DEF IndInv, TypeOK, history
<1>7. ~Published' /\ ~PublishOk'
  BY <1>2, <1>3 DEF Published, PublishOk, WritePc
<1>8. LocalsOfCycle' /\ OneConversation' /\ AwaitedRequest'
  BY <1>2, <1>3, <1>4, <1>5, <1>7
     DEF LocalsOfCycle, OneConversation, AwaitedRequest
<1>9. OwnRevisions' /\ FilesVerified'
  BY <1>2, <1>3, <1>4, <1>5
     DEF IndInv, OwnRevisions, FilesVerified, WasVerified, WritePc, history
<1>10. PredecessorKnown'
  BY <1>2, <1>7 DEF IndInv, PredecessorKnown, authority, history
<1>11. CalmInStep'
  BY <1>2, <1>3, <1>4, <1>5, <1>7
     DEF IndInv, CalmInStep, InStep, BeforePublish, BeforeUndo, Synced,
         authority, history
<1>12. QED BY <1>6, <1>8, <1>9, <1>10, <1>11 DEF IndInv

(* The undo request names the revision the cycle has published, and is a   *)
(* reset exactly when that revision replaced none.                         *)
LEMMA SendUndoIndInv == ASSUME IndInv, SendUndo PROVE IndInv'
<1> DEFINE op == IF nas.replaced = Null THEN "reset" ELSE "rollback"
<1>1. /\ nas.pc = "undo" /\ UNCHANGED <<authority, disk, reply, history>>
      /\ ~nas.undoing /\ reply = Null /\ nas \in Nas
      /\ op \in {"publish", "rollback", "reset"} /\ op # "publish"
      /\ nas' = [nas EXCEPT !.pc = "waiting", !.undoing = TRUE]
      /\ Send(op, Null)
  BY DEF SendUndo, IndInv, LocalsOfCycle, OneConversation, TypeOK, Nas
<1>2. /\ nas' \in Nas /\ nas'.pc = "waiting" /\ nas'.undoing = TRUE
      /\ nas'.state = nas.state /\ nas'.published = nas.published
      /\ nas'.replaced = nas.replaced /\ nas'.entries = nas.entries
  BY <1>1 DEF Nas
<1> DEFINE m0 == [op |-> op, entries |-> Null, awaited |-> TRUE,
                  expected |-> nas.published]
<1>3. m0.op = op /\ m0.expected = nas.published /\ m0.awaited
  OBVIOUS
<1> HIDE DEF op
<1>4. /\ net' = net \cup {m0} /\ net' \subseteq Request
      /\ \A m \in net : ~m.awaited
      /\ \A m, n \in net' : m.awaited /\ n.awaited => m = n
  BY <1>1, SendStep
<1> HIDE DEF m0
<1>5. Storage!IndInv' /\ TypeOK'
  BY <1>1, <1>2, <1>4, LocalStep DEF IndInv, TypeOK, history
<1>6. Published /\ ~PublishOk /\ Published' /\ ~PublishOk'
  BY <1>1, <1>2 DEF Published, PublishOk
<1>7. LocalsOfCycle' /\ OneConversation'
  BY <1>1, <1>2, <1>6 DEF IndInv, LocalsOfCycle, OneConversation, history
<1>8. AwaitedRequest'
  BY <1>2, <1>3, <1>4 DEF AwaitedRequest, op
<1>9. OwnRevisions' /\ FilesVerified'
  BY <1>1, <1>2, <1>3, <1>4, <1>6
     DEF IndInv, OwnRevisions, FilesVerified, WasVerified, WritePc,
         LocalsOfCycle, history
<1>10. PredecessorKnown'
  BY <1>1, <1>2, <1>6 DEF IndInv, PredecessorKnown, authority, history
<1>11. CalmInStep'
  BY <1>1, <1>2, <1>3, <1>4, <1>6
     DEF IndInv, CalmInStep, InStep, BeforePublish, BeforeUndo, Synced,
         authority, history
<1>12. QED BY <1>5, <1>7, <1>8, <1>9, <1>10, <1>11 DEF IndInv

(* The published revision becomes known to the cycle.                      *)
LEMMA PublishAnsweredIndInv == ASSUME IndInv, PublishAnswered PROVE IndInv'
<1>1. /\ nas.pc = "waiting" /\ ~nas.undoing /\ reply # Null
      /\ \A m \in net : ~m.awaited
      /\ UNCHANGED <<authority, disk, net, history>> /\ reply' = Null
  BY DEF PublishAnswered, Take, IndInv, OneConversation
<1>2. CASE reply.ok /\ nas' = [nas EXCEPT !.pc = "verify",
             !.published = reply.revision, !.replaced = reply.previous]
  <2>1. PublishOk /\ reply.revision \in Revision \cup {Null}
        /\ reply.previous \in Revision \cup {Null} /\ nas \in Nas
    BY <1>1, <1>2 DEF PublishOk, IndInv, TypeOK, Reply, Conflict, Done, Nas
  <2>2. /\ nas' \in Nas /\ nas'.pc = "verify" /\ nas'.undoing = FALSE
        /\ nas'.published = reply.revision /\ nas'.replaced = reply.previous
        /\ nas'.state = nas.state /\ nas'.entries = nas.entries
    BY <1>1, <1>2, <2>1 DEF Nas
  <2>3. Storage!IndInv' /\ TypeOK'
    BY <1>1, <2>2, LocalStep DEF IndInv, TypeOK, history
  <2>4. Published' /\ ~PublishOk'
    BY <1>1, <2>2 DEF Published, PublishOk
  <2>5. LocalsOfCycle' /\ OneConversation' /\ AwaitedRequest'
    BY <1>1, <2>1, <2>2, <2>4
       DEF IndInv, LocalsOfCycle, OneConversation, AwaitedRequest, history
  <2>6. OwnRevisions' /\ FilesVerified' /\ PredecessorKnown'
    BY <1>1, <2>1, <2>2, <2>4
       DEF IndInv, OwnRevisions, FilesVerified, WasVerified, WritePc,
           PredecessorKnown, authority, history
  <2>7. CalmInStep'
    BY <1>1, <2>1, <2>2, <2>4
       DEF IndInv, CalmInStep, InStep, BeforePublish, BeforeUndo,
           authority, history
  <2>8. QED BY <2>3, <2>5, <2>6, <2>7 DEF IndInv
<1>3. CASE ~reply.ok /\ nas' = Idle
  <2>1. CalmInStep /\ ~faulted /\ ~meddled => Synced
    BY <1>1, <1>3 DEF CalmInStep, InStep, BeforePublish, PublishOk
  <2>2. QED BY <1>1, <1>3, <2>1, QuietEndIndInv
<1>4. QED BY <1>2, <1>3 DEF PublishAnswered, Take

(* Once the authority has taken the publish back, the files are rewritten. *)
LEMMA UndoAnsweredIndInv == ASSUME IndInv, UndoAnswered PROVE IndInv'
<1>1. /\ nas.pc = "waiting" /\ nas.undoing /\ reply # Null
      /\ \A m \in net : ~m.awaited /\ nas \in Nas
      /\ UNCHANGED <<authority, disk, net, history>> /\ reply' = Null
  BY DEF UndoAnswered, Take, IndInv, OneConversation, TypeOK, Nas
<1>2. CASE nas' = [nas EXCEPT !.pc = "write_current"]
  <2>1. /\ nas' \in Nas /\ nas'.pc = "write_current" /\ nas'.undoing
        /\ nas'.published = nas.published /\ nas'.replaced = nas.replaced
        /\ nas'.state = nas.state /\ nas'.entries = nas.entries
        /\ nas \in Nas
    BY <1>1, <1>2 DEF IndInv, TypeOK, Nas, WritePc
  <2>2. Storage!IndInv' /\ TypeOK'
    BY <1>1, <2>1, LocalStep DEF IndInv, TypeOK, history
  <2>3. Published /\ Published' /\ ~PublishOk'
    BY <1>1, <2>1 DEF Published, PublishOk
  <2>4. LocalsOfCycle' /\ OneConversation' /\ AwaitedRequest'
    BY <1>1, <2>1, <2>3
       DEF IndInv, LocalsOfCycle, OneConversation, AwaitedRequest, history
  <2>5. OwnRevisions' /\ FilesVerified' /\ PredecessorKnown'
    BY <1>1, <2>1, <2>3
       DEF IndInv, OwnRevisions, FilesVerified, WasVerified, WritePc,
           PredecessorKnown, authority, history
  <2>6. Target'.current = Target.current /\ Target'.previous = Target.previous
    BY <1>1, <2>1 DEF Target
  <2>7. CalmInStep'
    BY <1>1, <2>1, <2>3, <2>6
       DEF IndInv, CalmInStep, InStep, BeforePublish, BeforeUndo, authority,
           history
  <2>8. QED BY <2>2, <2>4, <2>5, <2>7 DEF IndInv
<1>3. CASE ~reply.ok /\ nas' = Idle
  <2>1. CalmInStep /\ ~faulted /\ ~meddled => Synced
    BY <1>1, <1>3 DEF CalmInStep, InStep
  <2>2. QED BY <1>1, <1>3, <2>1, QuietEndIndInv
<1>4. QED BY <1>2, <1>3 DEF UndoAnswered, Take

(* A step that moves a cycle on after its publish, and may only add the    *)
(* published revision to the verified ones: nothing but the files' stage   *)
(* remains to be shown.                                                    *)
LEMMA AfterPublishStep ==
  ASSUME IndInv, nas.pc # "waiting", Published, Published',
         nas' \in Nas, nas'.pc \notin {"idle", "waiting"},
         nas'.pc \in {"measure", "verify", "undo"} => ~nas.undoing,
         nas'.undoing = nas.undoing, nas'.published = nas.published,
         nas'.replaced = nas.replaced, nas'.state = nas.state,
         nas'.entries = nas.entries,
         UNCHANGED <<authority, net, reply, mine, baseline, late, meddled>>,
         disk' \in Files, disk'.current \in mine \cup {Null},
         verified \subseteq verified', verified' \subseteq Revision,
         WasVerified(disk'.lastGood),
         nas'.pc \in WritePc \cup {"persist"} /\ ~nas.undoing
           => nas.published \in verified',
         faulted' \in BOOLEAN, CalmInStep'
  PROVE  IndInv'
<1>1. reply = Null /\ (\A m \in net : ~m.awaited) /\ ~PublishOk /\ ~PublishOk'
  BY DEF IndInv, OneConversation, PublishOk
<1>2. Storage!IndInv' /\ TypeOK'
  BY LocalStep DEF IndInv, TypeOK
<1>3. LocalsOfCycle' /\ OneConversation' /\ AwaitedRequest'
  BY <1>1 DEF IndInv, LocalsOfCycle, OneConversation, AwaitedRequest
<1>4. OwnRevisions'
  BY DEF IndInv, OwnRevisions
<1>5. FilesVerified'
  BY DEF IndInv, FilesVerified, WasVerified
<1>6. PredecessorKnown'
  BY <1>1 DEF IndInv, PredecessorKnown, authority
<1>7. QED BY <1>2, <1>3, <1>4, <1>5, <1>6 DEF IndInv

(* Verification succeeds, or the publish is to be taken back.              *)
LEMMA VerifyIndInv == ASSUME IndInv, Verify PROVE IndInv'
<1>1. /\ nas.pc = "verify" /\ ~nas.undoing /\ nas \in Nas
      /\ UNCHANGED <<authority, disk, net, reply, mine, baseline, faulted,
                     late, meddled>>
      /\ Published /\ nas.published \in mine
  BY DEF Verify, IndInv, LocalsOfCycle, TypeOK, Nas, Published
<1>2. disk \in Files /\ disk.current \in mine \cup {Null}
      /\ WasVerified(disk.lastGood) /\ mine \subseteq Revision
      /\ verified \subseteq Revision /\ faulted \in BOOLEAN
  BY DEF IndInv, TypeOK, OwnRevisions, FilesVerified
<1>3. CASE /\ Authority!Source \in {"optimizer", "manual"}
           /\ nas' = [nas EXCEPT !.pc = "write_current",
                                 !.source = Authority!Source]
           /\ verified' = verified \cup {nas.published}
  <2> DEFINE src == Authority!Source
  <2>1. /\ src \in {"optimizer", "manual"}
        /\ nas' = [nas EXCEPT !.pc = "write_current", !.source = src]
    BY <1>3
  <2> HIDE DEF src
  <2>2. /\ nas' \in Nas /\ nas'.pc = "write_current" /\ nas'.undoing = FALSE
        /\ nas'.published = nas.published /\ nas'.replaced = nas.replaced
        /\ nas'.state = nas.state /\ nas'.entries = nas.entries
    BY <1>1, <2>1 DEF Nas, WritePc
  <2>3. Published' /\ ~PublishOk'
    BY <1>1, <2>2 DEF Published, PublishOk, WritePc, IndInv, OneConversation
  <2>4. CalmInStep'
    BY <1>1, <2>2, <2>3
       DEF IndInv, CalmInStep, InStep, BeforePublish, BeforeUndo, authority
  <2>5. WasVerified(disk.lastGood)'
    BY <1>1, <1>2, <1>3 DEF WasVerified
  <2>6. QED
    BY <1>1, <1>2, <1>3, <2>2, <2>3, <2>4, <2>5, AfterPublishStep
       DEF WasVerified
<1>4. CASE nas' = [nas EXCEPT !.pc = "undo"] /\ verified' = verified
  <2>1. /\ nas' \in Nas /\ nas'.pc = "undo" /\ nas'.undoing = FALSE
        /\ nas'.published = nas.published /\ nas'.replaced = nas.replaced
        /\ nas'.state = nas.state /\ nas'.entries = nas.entries
    BY <1>1, <1>4 DEF Nas
  <2>2. Published' /\ ~PublishOk'
    BY <1>1, <2>1 DEF Published, PublishOk, IndInv, OneConversation
  <2>3. CalmInStep'
    BY <1>1, <2>1, <2>2
       DEF IndInv, CalmInStep, InStep, BeforePublish, BeforeUndo, authority
  <2>4. QED
    BY <1>1, <1>2, <1>4, <2>1, <2>2, <2>3, AfterPublishStep
       DEF WasVerified, WritePc
<1>5. QED BY <1>3, <1>4 DEF Verify

(* What the files are to hold is well typed, the NAS's own and verified.   *)
LEMMA TargetFacts ==
  ASSUME IndInv, nas.pc \in WritePc \cup {"persist"}
  PROVE  /\ Target \in Files /\ Target.current \in mine \cup {Null}
         /\ WasVerified(Target.lastGood)
         /\ ~nas.undoing =>
              Target.current = nas.published /\ Target.previous = nas.state.current
<1>1. /\ nas \in Nas /\ nas.published \in mine /\ mine \subseteq Revision
      /\ PoolOf[nas.published] = nas.entries
      /\ nas.state.current \in mine \cup {Null}
      /\ WasVerified(nas.state.lastGood)
      /\ ~nas.undoing => nas.published \in verified
  BY DEF IndInv, TypeOK, Nas, LocalsOfCycle, Published, OwnRevisions,
     FilesVerified
<1>2. CASE ~nas.undoing
  <2> DEFINE good == IF nas.source = "manual" THEN nas.state.lastGood
                                              ELSE nas.entries
  <2>1. WasVerified(good) /\ good \in Pool \cup {Null}
    BY <1>1, <1>2 DEF WasVerified, Nas, Files
  <2>2. Target = [current |-> nas.published, previous |-> nas.state.current,
                  lastGood |-> good]
    BY <1>2 DEF Target
  <2> HIDE DEF good
  <2>3. QED BY <1>1, <1>2, <2>1, <2>2 DEF Files, Nas
<1>3. CASE nas.undoing
  <2> DEFINE a == IF nas.replaced = Null THEN Null ELSE nas.state.current
             b == IF nas.replaced = Null THEN Null ELSE nas.published
  <2>1. /\ a \in mine \cup {Null} /\ a \in Revision \cup {Null}
        /\ b \in Revision \cup {Null} /\ nas.state.lastGood \in Pool \cup {Null}
    BY <1>1 DEF Nas, Files
  <2>2. Target = [current |-> a, previous |-> b,
                  lastGood |-> nas.state.lastGood]
    BY <1>3 DEF Target
  <2> HIDE DEF a, b
  <2>3. QED BY <1>1, <1>3, <2>1, <2>2 DEF Files, Nas
<1>4. QED BY <1>2, <1>3

(* A file is replaced.                                                     *)
LEMMA WriteFileIndInv == ASSUME IndInv, WriteFile PROVE IndInv'
<1>1. /\ nas.pc \in WritePc /\ nas \in Nas /\ disk \in Files
      /\ UNCHANGED <<authority, net, reply, history>> /\ Published
      /\ disk.current \in mine \cup {Null} /\ WasVerified(disk.lastGood)
      /\ verified \subseteq Revision /\ faulted \in BOOLEAN
  BY DEF WriteFile, WritePc, Published, IndInv, TypeOK, Nas, OwnRevisions,
     FilesVerified
<1>2. PICK next \in {"write_previous", "write_last_good", "persist"} :
        /\ nas' = [nas EXCEPT !.pc = next]
        /\ next = "write_previous" => nas.pc = "write_current"
        /\ next = "write_last_good" => nas.pc = "write_previous"
        /\ next = "persist" => nas.pc = "write_last_good"
  BY DEF WriteFile
<1>3. /\ nas' \in Nas /\ nas'.pc = next /\ nas'.undoing = nas.undoing
      /\ nas'.published = nas.published /\ nas'.replaced = nas.replaced
      /\ nas'.state = nas.state /\ nas'.entries = nas.entries
      /\ nas'.source = nas.source
  BY <1>1, <1>2 DEF Nas, WritePc
<1>4. Published' /\ ~PublishOk' /\ Target' = Target
  BY <1>1, <1>3
     DEF Published, PublishOk, WritePc, IndInv, OneConversation, Target
<1>5. /\ disk' \in Files /\ disk'.current \in mine \cup {Null}
      /\ WasVerified(disk'.lastGood)
      /\ disk'.current = IF next = "write_previous" THEN Target.current
                                                    ELSE disk.current
      /\ disk'.previous = IF next = "write_last_good" THEN Target.previous
                                                      ELSE disk.previous
  <2>1. /\ Target.current \in Revision \cup {Null}
        /\ Target.previous \in Revision \cup {Null}
        /\ Target.lastGood \in Pool \cup {Null}
        /\ Target.current \in mine \cup {Null}
        /\ WasVerified(Target.lastGood)
    BY <1>1, TargetFacts DEF Files
  <2>2. \/ /\ next = "write_previous"
           /\ disk' = [disk EXCEPT !.current = Target.current]
        \/ /\ next = "write_last_good"
           /\ disk' = [disk EXCEPT !.previous = Target.previous]
        \/ /\ next = "persist"
           /\ disk' = [disk EXCEPT !.lastGood = Target.lastGood]
    BY <1>2 DEF WriteFile
  <2>3. QED BY <1>1, <2>1, <2>2 DEF Files
<1>6. CalmInStep'
  <2> SUFFICES ASSUME ~faulted, ~meddled PROVE InStep'
    BY <1>1 DEF CalmInStep, history
  <2>1. InStep /\ reply = Null
    BY <1>1 DEF IndInv, CalmInStep, OneConversation, WritePc
  <2>2. nas'.pc \notin {"idle", "measure", "waiting"} /\ nas.pc # "waiting"
    BY <1>1, <1>2, <1>3 DEF WritePc
  <2>3. ~BeforePublish' /\ (BeforeUndo' <=> BeforeUndo)
    BY <1>1, <1>3, <1>4, <2>2 DEF BeforePublish, BeforeUndo
  <2>4. /\ (nas.pc \in {"write_previous", "write_last_good", "persist"} =>
              disk.current = Target.current)'
        /\ (nas.pc \in {"write_last_good", "persist"} =>
              disk.previous = Target.previous)'
    BY <1>2, <1>3, <1>4, <1>5, <2>1 DEF InStep
  <2>5. QED
    BY <1>1, <1>3, <1>4, <2>1, <2>3, <2>4 DEF InStep, authority
<1>7. QED
  BY <1>1, <1>2, <1>3, <1>4, <1>5, <1>6, AfterPublishStep
     DEF history, IndInv, FilesVerified, WritePc

(* A local write that fails: the publish is to be taken back, or the undo  *)
(* is given up halfway.                                                    *)
LEMMA LocalWriteFailsIndInv == ASSUME IndInv, LocalWriteFails PROVE IndInv'
<1>1. /\ nas.pc \in WritePc \cup {"persist"} /\ nas \in Nas
      /\ UNCHANGED <<authority, disk, net, reply, mine, verified, baseline,
                     late, meddled>>
      /\ nas.pc # "waiting" /\ Published
      /\ disk \in Files /\ disk.current \in mine \cup {Null}
      /\ WasVerified(disk.lastGood) /\ verified \subseteq Revision
      /\ faulted' \in BOOLEAN
  BY DEF LocalWriteFails, WritePc, Published, IndInv, TypeOK, Nas,
     OwnRevisions, FilesVerified
<1>2. reply = Null /\ (\A m \in net : ~m.awaited) /\ net \subseteq Request
  BY <1>1 DEF IndInv, OneConversation, TypeOK
<1>3. CASE nas.undoing
  <2>1. nas' = Idle /\ faulted' = TRUE
    BY <1>3 DEF LocalWriteFails
  <2>2. QED BY <1>1, <1>2, <2>1, EndOfCycle DEF IndInv, OwnRevisions
<1>4. CASE ~nas.undoing
  <2>1. nas' = [nas EXCEPT !.pc = "undo"] /\ faulted' = faulted
    BY <1>1, <1>4 DEF LocalWriteFails, IndInv, TypeOK
  <2>2. /\ nas' \in Nas /\ nas'.pc = "undo" /\ nas'.undoing = FALSE
        /\ nas'.published = nas.published /\ nas'.replaced = nas.replaced
        /\ nas'.state = nas.state /\ nas'.entries = nas.entries
    BY <1>1, <1>4, <2>1 DEF Nas
  <2>3. Published' /\ ~PublishOk'
    BY <1>1, <1>2, <2>2 DEF Published, PublishOk
  <2>4. CalmInStep'
    BY <1>1, <1>2, <1>4, <2>1, <2>2, <2>3
       DEF IndInv, CalmInStep, InStep, BeforePublish, BeforeUndo, authority
  <2>5. QED
    BY <1>1, <1>4, <2>1, <2>2, <2>3, <2>4, AfterPublishStep
       DEF WasVerified, WritePc
<1>5. QED BY <1>3, <1>4

----------------------------------------------------------------------------
(* Steps of the Worker, the operator and the administrator.                *)

(* A mutation's answer names the revisions it leaves.                      *)
LEMMA DoneFacts ==
  ASSUME NEW r \in Revision \cup {Null}, NEW p \in Revision \cup {Null}
  PROVE  /\ Done(r, p) \in Reply /\ Done(r, p).ok
         /\ Done(r, p).revision = r /\ Done(r, p).previous = p
<1>1. Done(r, p) \in Reply
  BY DEF Reply
<1>2. QED BY <1>1 DEF Done

(* An answer reaches the NAS only when it still waits for it.              *)
LEMMA AnswerFacts ==
  ASSUME IndInv, NEW m \in net, NEW result \in Reply, Answer(m, result),
         nas' = nas
  PROVE  /\ net' \subseteq net /\ late' \in BOOLEAN
         /\ reply' \in Reply \cup {Null} /\ result # Null
         /\ m.awaited => /\ nas.pc = "waiting" /\ reply = Null
                         /\ reply' = result /\ \A n \in net' : ~n.awaited
                         /\ late' = late
         /\ ~m.awaited => reply' = reply /\ late'
         /\ OneConversation' /\ AwaitedRequest'
<1>1. m.awaited => nas.pc = "waiting" /\ reply = Null
  BY DEF IndInv, OneConversation
<1>2. /\ \A n \in net : m.awaited /\ n.awaited => m = n
      /\ late \in BOOLEAN /\ net' = net \ {m} /\ result # Null
      /\ m.awaited \in BOOLEAN
  BY CycleAssumption DEF Answer, IndInv, TypeOK, Request
<1>3. /\ m.awaited => /\ reply' = result /\ \A n \in net' : ~n.awaited
                      /\ late' = late
      /\ ~m.awaited => reply' = reply /\ late'
      /\ late' \in BOOLEAN
  BY <1>2 DEF Answer
<1>4. reply' \in Reply \cup {Null}
  BY <1>2, <1>3 DEF IndInv, TypeOK
<1>5. OneConversation' /\ AwaitedRequest'
  BY <1>1, <1>2, <1>3 DEF IndInv, OneConversation, AwaitedRequest
<1>6. QED BY <1>1, <1>2, <1>3, <1>4, <1>5

(* A request is executed: what remains to be shown of the authority's step *)
(* is what it answers, that it erases no pool, and that a calm cycle is in *)
(* step with it.                                                           *)
LEMMA AnswerStep ==
  ASSUME IndInv, NEW m \in net, NEW result \in Reply, Answer(m, result),
         Storage!IndInv', Authority!TypeOK',
         UNCHANGED <<disk, nas, verified, baseline, faulted, meddled>>,
         mine \subseteq mine', mine' \subseteq Revision,
         m.awaited /\ ~nas.undoing /\ result.ok =>
           /\ result.revision \in mine'
           /\ PoolOf[result.revision] = nas.entries,
         PredecessorKnown', CalmInStep'
  PROVE  IndInv'
<1>1. TypeOK'
  BY AnswerFacts DEF IndInv, TypeOK
<1>2. OneConversation' /\ AwaitedRequest'
  BY AnswerFacts
<1>3. PublishOk' =>
        reply'.revision \in mine' /\ PoolOf[reply'.revision] = nas.entries
  <2>1. CASE m.awaited
    BY <2>1, AnswerFacts DEF PublishOk
  <2>2. CASE ~m.awaited
    BY <2>2, AnswerFacts DEF PublishOk, IndInv, LocalsOfCycle
  <2>3. QED BY <2>1, <2>2
<1>4. LocalsOfCycle'
  BY <1>3 DEF IndInv, LocalsOfCycle, Published
<1>5. OwnRevisions' /\ FilesVerified'
  BY AnswerFacts DEF IndInv, OwnRevisions, FilesVerified, WasVerified
<1>6. QED BY <1>1, <1>2, <1>4, <1>5 DEF IndInv

(* A publish is executed.                                                  *)
LEMMA ExecutePublishIndInv ==
  ASSUME IndInv, NEW m \in net, ExecutePublish(m) PROVE IndInv'
<1>1. PICK r \in Revision, legacy \in LegacyInKv :
        /\ Fresh(r) /\ PoolOf[r] = m.entries
        /\ Authority!PublishAuthoritativePool(m.expected, r, legacy)
        /\ Answer(m, Done(current', previous'))
        /\ mine' = mine \cup {r}
  BY DEF ExecutePublish
<1>2. /\ m.op = "publish" /\ m \in Request
      /\ UNCHANGED <<disk, nas, verified, baseline, faulted, meddled>>
      /\ mine \subseteq Revision /\ current \in Revision \cup {Null}
  BY DEF ExecutePublish, IndInv, TypeOK, Authority!TypeOK
<1>3. /\ Storage!IndInv' /\ Authority!TypeOK' /\ m.expected = current
      /\ current' = r /\ previous' = current
  BY <1>1, <1>2, PublishStep DEF IndInv, Request
<1> DEFINE result == Done(current', previous')
<1>4. /\ result \in Reply /\ result.ok /\ result.revision = r
      /\ result.previous = current
  BY <1>2, <1>3, DoneFacts
<1>5. Answer(m, result)
  BY <1>1
<1> HIDE DEF result
<1>6. m.awaited => /\ ~nas.undoing /\ m.expected = nas.state.current
                   /\ m.entries = nas.entries
  BY <1>2 DEF IndInv, AwaitedRequest
<1>7. PredecessorKnown'
  <2> SUFFICES ASSUME baseline, ~meddled, ~late' PROVE PredecessorKnown'
    BY <1>2 DEF PredecessorKnown
  <2>1. m.awaited /\ late' = late /\ reply' = result /\ nas.pc = "waiting"
    BY <1>2, <1>4, <1>5, AnswerFacts
  <2>2. current # Null /\ r # Null /\ ~Published'
    BY <1>2, <1>6, <2>1, CycleAssumption
       DEF IndInv, PredecessorKnown, Published, WritePc,
           Authority!PoolAuthorityAssumption
  <2>3. QED BY <1>3, <1>4, <2>1, <2>2 DEF PredecessorKnown
<1>8. CalmInStep'
  <2> SUFFICES ASSUME ~faulted, ~meddled PROVE InStep'
    BY <1>2 DEF CalmInStep
  <2>1. InStep /\ m.awaited
    BY DEF IndInv, CalmInStep, InStep
  <2>2. /\ nas.pc = "waiting" /\ reply = Null /\ reply' = result
        /\ result # Null /\ net' \subseteq net /\ ~nas.undoing
    BY <1>2, <1>4, <1>5, <1>6, <2>1, AnswerFacts
  <2>3. BeforePublish /\ PublishOk' /\ ~BeforePublish' /\ ~BeforeUndo'
    BY <1>2, <1>4, <2>2
       DEF BeforePublish, BeforeUndo, PublishOk, Published, WritePc
  <2>4. current = nas.state.current
    BY <2>1, <2>2, <2>3 DEF InStep
  <2>5. QED
    BY <1>2, <1>3, <1>4, <2>1, <2>2, <2>3, <2>4 DEF InStep
<1>9. QED
  BY <1>1, <1>2, <1>3, <1>4, <1>5, <1>6, <1>7, <1>8, AnswerStep

(* A rollback or a reset is executed: one that is awaited takes back the   *)
(* very publish of this cycle.                                             *)
LEMMA ExecuteUndoIndInv ==
  ASSUME IndInv, NEW m \in net, ExecuteUndo(m) PROVE IndInv'
<1>1. /\ UNCHANGED <<disk, nas, mine, verified, baseline, faulted, meddled>>
      /\ Answer(m, Done(current', current)) /\ m.op # "publish"
      /\ m \in Request /\ mine \subseteq Revision
      /\ current \in Revision \cup {Null}
  BY DEF ExecuteUndo, IndInv, TypeOK, Authority!TypeOK
<1>2. /\ Storage!IndInv' /\ Authority!TypeOK' /\ m.expected = current
      /\ current # Null
      /\ \/ /\ m.op = "rollback" /\ previous # Null
            /\ current' = previous /\ previous' = current
         \/ /\ m.op = "reset" /\ previous = Null
            /\ current' = Null /\ previous' = Null
  BY <1>1, RollbackStep, ResetStep DEF ExecuteUndo, IndInv, Request
<1> DEFINE result == Done(current', current)
<1>3. result \in Reply /\ result.ok
  BY <1>1, <1>2, DoneFacts DEF Authority!TypeOK
<1>4. Answer(m, result)
  BY <1>1
<1> HIDE DEF result
<1>5. m.awaited =>
        /\ nas.undoing /\ m.expected = nas.published
        /\ m.op = IF nas.replaced = Null THEN "reset" ELSE "rollback"
  BY <1>1 DEF IndInv, AwaitedRequest
<1>6. PredecessorKnown'
  <2> SUFFICES ASSUME baseline, ~meddled, ~late' PROVE PredecessorKnown'
    BY <1>1 DEF PredecessorKnown
  <2>1. m.awaited /\ late' = late
    BY <1>1, <1>3, <1>4, AnswerFacts
  <2>2. nas.undoing /\ nas.replaced # Null
    BY <1>5, <2>1 DEF IndInv, PredecessorKnown, Published
  <2>3. current' # Null
    BY <1>2, <1>5, <2>1, <2>2
  <2>4. QED BY <1>1, <2>2, <2>3 DEF PredecessorKnown, PublishOk
<1>7. CalmInStep'
  <2> SUFFICES ASSUME ~faulted, ~meddled PROVE InStep'
    BY <1>1 DEF CalmInStep
  <2>1. InStep /\ m.awaited
    BY DEF IndInv, CalmInStep, InStep
  <2>2. /\ nas.pc = "waiting" /\ reply = Null /\ reply' = result
        /\ result # Null /\ net' \subseteq net /\ nas.undoing
    BY <1>1, <1>3, <1>4, <1>5, <2>1, AnswerFacts
  <2>3. /\ current = nas.published /\ previous = nas.replaced
        /\ previous = nas.state.current
    BY <2>1, <2>2 DEF InStep, BeforeUndo
  <2>4. ~PublishOk' /\ ~BeforePublish' /\ ~BeforeUndo'
    BY <1>1, <2>2 DEF BeforePublish, BeforeUndo, PublishOk, Published, WritePc
  <2>5. /\ Target' = Target
        /\ Target.current = IF nas.replaced = Null THEN Null
                                                   ELSE nas.state.current
        /\ Target.previous = IF nas.replaced = Null THEN Null
                                                    ELSE nas.published
    BY <1>1, <2>2 DEF Target
  <2>6. current' = Target.current /\ previous' = Target.previous
    BY <1>2, <1>5, <2>1, <2>3, <2>5
  <2>7. QED
    BY <1>1, <1>3, <2>1, <2>2, <2>3, <2>4, <2>5, <2>6 DEF InStep
<1>8. QED
  BY <1>1, <1>2, <1>3, <1>4, <1>5, <1>6, <1>7, AnswerStep

(* A request is refused; in a calm cycle never an undo.                    *)
LEMMA ExecuteRefusedIndInv ==
  ASSUME IndInv, NEW m \in net, ExecuteRefused(m) PROVE IndInv'
<1>1. /\ UNCHANGED <<authority, disk, nas, mine, verified, baseline, faulted,
                     meddled>>
      /\ Answer(m, Conflict) /\ Refused(m) /\ mine \subseteq Revision
  BY DEF ExecuteRefused, IndInv, TypeOK
<1>2. Storage!IndInv' /\ Authority!TypeOK'
  BY <1>1, StorageUnchanged DEF IndInv
<1>3. Conflict \in Reply /\ ~Conflict.ok
  BY DEF Reply, Conflict
<1>4. PredecessorKnown'
  BY <1>1, <1>3, AnswerFacts
     DEF IndInv, PredecessorKnown, PublishOk, Published, authority
<1>5. CalmInStep'
  <2> SUFFICES ASSUME ~faulted, ~meddled PROVE InStep'
    BY <1>1 DEF CalmInStep
  <2>1. InStep /\ m.awaited
    BY DEF IndInv, CalmInStep, InStep
  <2>2. /\ nas.pc = "waiting" /\ reply = Null /\ reply' = Conflict
        /\ net' \subseteq net
    BY <1>1, <1>3, <2>1, AnswerFacts
  <2>3. ~nas.undoing
    <3> SUFFICES ASSUME nas.undoing PROVE FALSE
      OBVIOUS
    <3>1. /\ current = nas.published /\ previous = nas.replaced
          /\ nas.published \in mine
      BY <2>1, <2>2 DEF IndInv, InStep, BeforeUndo, LocalsOfCycle, Published
    <3>2. /\ m.op = IF nas.replaced = Null THEN "reset" ELSE "rollback"
          /\ m.expected = current
      BY <2>1, <3>1 DEF IndInv, AwaitedRequest
    <3>3. current # Null /\ (previous # Null => pools[previous] # Null)
      BY <1>1, <3>1, StorageFacts, CycleAssumption
         DEF IndInv, CycleAssumption, Authority!PoolAuthorityAssumption
    <3>4. ~Refused(m)
      BY <3>1, <3>2, <3>3
         DEF Refused, Authority!RollbackReply, Authority!ResetReply,
             Authority!Ok
    <3>5. QED BY <1>1, <3>4
  <2>4. /\ ~PublishOk' /\ BeforePublish /\ ~BeforeUndo'
    BY <1>1, <1>3, <2>2, <2>3
       DEF BeforePublish, BeforeUndo, PublishOk, Published, WritePc
  <2>5. QED
    BY <1>1, <1>3, <2>1, <2>2, <2>3, <2>4 DEF InStep, Synced, authority
<1>6. QED
  BY <1>1, <1>2, <1>3, <1>4, <1>5, AnswerStep

(* The operator's mutations concern the NAS no more than its next cycle.   *)
LEMMA OperatorMutatesIndInv ==
  ASSUME IndInv, OperatorMutates PROVE IndInv'
<1>1. /\ UNCHANGED <<disk, nas, net, reply, mine, verified, baseline,
                     faulted, late>>
      /\ meddled' = TRUE
  BY DEF OperatorMutates
<1>2. Storage!IndInv' /\ Authority!TypeOK'
  <2>1. current \in Revision \cup {Null}
    BY DEF IndInv, TypeOK, Authority!TypeOK
  <2>2. QED
    BY <2>1, PublishStep, RollbackStep, ResetStep DEF OperatorMutates, IndInv
<1>3. TypeOK'
  BY <1>1, <1>2 DEF IndInv, TypeOK
<1>4. LocalsOfCycle' /\ OneConversation' /\ AwaitedRequest' /\ OwnRevisions'
      /\ FilesVerified'
  BY <1>1 DEF IndInv, LocalsOfCycle, OneConversation, AwaitedRequest,
     OwnRevisions, FilesVerified, WasVerified, Published, PublishOk
<1>5. PredecessorKnown' /\ CalmInStep'
  BY <1>1 DEF PredecessorKnown, CalmInStep
<1>6. QED BY <1>2, <1>3, <1>4, <1>5 DEF IndInv

(* Steps that change neither the revisions nor anything of the cycle.      *)
LEMMA SameRevisions ==
  ASSUME IndInv, Storage!IndInv', Authority!TypeOK',
         UNCHANGED <<current, previous, disk, nas, net, reply, history>>
  PROVE  IndInv'
<1>1. TypeOK'
  BY DEF IndInv, TypeOK, history
<1>2. LocalsOfCycle' /\ OneConversation' /\ AwaitedRequest' /\ OwnRevisions'
      /\ FilesVerified' /\ PredecessorKnown'
  BY DEF IndInv, LocalsOfCycle, OneConversation, AwaitedRequest,
     OwnRevisions, FilesVerified, WasVerified, Published, PublishOk,
     PredecessorKnown, history
<1>3. CalmInStep'
  BY DEF IndInv, CalmInStep, InStep, BeforePublish, BeforeUndo, Published,
     PublishOk, Synced, Target, history
<1>4. QED BY <1>1, <1>2, <1>3 DEF IndInv

(* Every step preserves the invariant.                                     *)
LEMMA NextIndInv == IndInv /\ [Next]_vars => IndInv'
<1>1. ASSUME IndInv, Cycle PROVE IndInv'
  BY <1>1, StartCycleIndInv, SkipPublishIndInv, SendPublishIndInv,
     PublishAnsweredIndInv, VerifyIndInv, WriteFileIndInv, PersistIndInv,
     LocalWriteFailsIndInv, SendUndoIndInv, UndoAnsweredIndInv,
     AbandonIndInv DEF Cycle
<1>2. ASSUME IndInv, NEW m \in net, Execute(m) PROVE IndInv'
  BY <1>2, ExecutePublishIndInv, ExecuteUndoIndInv, ExecuteRefusedIndInv
     DEF Execute
<1>3. ASSUME IndInv, AdminSaves PROVE IndInv'
  BY <1>3, SetManualStep, SameRevisions DEF AdminSaves, IndInv
<1>4. ASSUME IndInv, UNCHANGED vars PROVE IndInv'
  <2>1. UNCHANGED <<authority, disk, nas, net, reply, history>>
    BY <1>4 DEF vars
  <2>2. QED
    BY <1>4, <2>1, StorageUnchanged, SameRevisions DEF IndInv, authority
<1>5. QED
  BY <1>1, <1>2, <1>3, <1>4, AbandonIndInv, OperatorMutatesIndInv DEF Next

(* The invariant holds in every reachable state.                           *)
LEMMA Invariance == Spec => []IndInv
BY InitIndInv, NextIndInv, PTL DEF Spec

----------------------------------------------------------------------------
(* Files, requests, replies and the locals of the cycle keep their types,  *)
(* and at most one request is awaited.                                     *)
THEOREM TypeCorrect == Spec => []TypeOK
<1>1. IndInv => TypeOK BY DEF IndInv
<1>2. QED BY <1>1, Invariance, PTL

(* last-good-add.txt only ever holds a verified pool, wherever the cycle   *)
(* stops and however often it is restarted.                                *)
THEOREM LastGoodVerified == Spec => []LastGoodWasVerified
<1>1. IndInv => LastGoodWasVerified
  BY DEF IndInv, FilesVerified, WasVerified, LastGoodWasVerified
<1>2. QED BY <1>1, Invariance, PTL

(* A NAS at rest to which nothing has happened knows the remote state,     *)
(* after any number of failed verifications, failed writes and undos.      *)
THEOREM RestIsSynced == Spec => []SyncedAtRest
<1>1. IndInv => SyncedAtRest
  BY DEF IndInv, CalmInStep, InStep, BeforePublish, Synced, SyncedAtRest
<1>2. QED BY <1>1, Invariance, PTL

(* Once a cycle has begun with a pool in force there is always one, unless *)
(* the operator or a late request removes it.                              *)
THEOREM KnownGoodKept == Spec => []KnownGoodSurvives
<1>1. IndInv => KnownGoodSurvives
  BY DEF IndInv, PredecessorKnown, KnownGoodSurvives
<1>2. QED BY <1>1, Invariance, PTL

(* Whatever is lost, late or crashed, a request of the NAS only ever takes *)
(* a revision of its own, or none, out of force.                           *)
THEOREM ForeignPoolsKept == Spec => ForeignPoolNeverReplaced
<1>1. ASSUME IndInv, NEW m \in net, Execute(m), current' # current
      PROVE  current \in mine \cup {Null}
  <2>1. m.expected \in mine \cup {Null} /\ m \in Request
    BY <1>1 DEF IndInv, OwnRevisions, TypeOK
  <2>2. CASE ExecutePublish(m)
    BY <2>1, <2>2 DEF ExecutePublish, Authority!PublishAuthoritativePool,
       Authority!PublishReply, Authority!Ok
  <2>3. CASE ExecuteUndo(m)
    BY <1>1, <2>1, <2>3, RollbackStep, ResetStep
       DEF ExecuteUndo, IndInv, Request
  <2>4. CASE ExecuteRefused(m)
    BY <1>1, <2>4 DEF ExecuteRefused, authority
  <2>5. QED BY <1>1, <2>2, <2>3, <2>4 DEF Execute
<1>2. IndInv /\ [Next]_vars =>
        [ (\E m \in net : Execute(m)) /\ current' # current
          => current \in mine \cup {Null} ]_vars
  BY <1>1
<1>3. QED BY <1>2, Invariance, PTL DEF Spec, ForeignPoolNeverReplaced
=============================================================================
