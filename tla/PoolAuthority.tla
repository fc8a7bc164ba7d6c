--------------------------- MODULE PoolAuthority ---------------------------
(***************************************************************************)
(* The transactional storage of the optimizer's Durable Object and the     *)
(* operations on it (src/src/ops/pool-authority-core.js).                  *)
(*                                                                         *)
(* Every operation runs inside storage.transactionSync, so each of them is *)
(* one atomic step here.  A key that is not stored reads as Null.  An      *)
(* action is the branch that mutates; the early returns are the operators  *)
(* ...Reply, whose value is the HTTP status the operation answers with.    *)
(* A definition X_Y is no part of the model: it is X with a plausible bug, *)
(* kept to show that the properties below would notice it.                 *)
(***************************************************************************)
CONSTANTS
  Revision,     \* the revision strings a snapshot may carry
  Pool,         \* validated, canonical entry lists
  PoolOf,       \* the entries whose checksum a revision string ends with
  ManualText,   \* the non-blank texts an administrator may save
  FormatAddTxt(_), \* the ADD text an entry list is materialised to
  Blank,        \* an empty or whitespace-only text
  Null          \* undefined / null

AddText == {FormatAddTxt(p) : p \in Pool} \cup ManualText

VARIABLES
  current,          \* 'current': the authoritative revision
  previous,         \* 'previous': the revision a rollback returns to
  pools,            \* 'pool:<revision>': the stored snapshots
  add_txt,          \* 'add_txt': the optimizer's text
  manual_add_txt,   \* 'manual_add_txt': the administrator's override
  manual_add_initialized,
  status            \* 'status': the last pool mutation

vars == <<current, previous, pools, add_txt, manual_add_txt,
          manual_add_initialized, status>>
poolVars == <<current, previous, pools, add_txt, status>>
manualVars == <<manual_add_txt, manual_add_initialized>>

(***************************************************************************)
(* A snapshot is stored under its revision.  The revision and the checksum *)
(* are derived from the entries when the request is built, so the entries  *)
(* determine both.  A status keeps what identifies the mutation.           *)
(***************************************************************************)
Snapshot == [revision : Revision, entries : Pool]
SnapshotOf(r) == [revision |-> r, entries |-> PoolOf[r]]

Mutation == [mutation : {"publish", "rollback", "reset_empty"},
             revision : Revision \cup {Null},
             previous : Revision \cup {Null}]
MutationOf(kind, r, prev) ==
  [mutation |-> kind, revision |-> r, previous |-> prev]

(***************************************************************************)
(* A pool has at least one entry, so its text is never blank, and labels   *)
(* hold no control characters, so two pools never share a text.            *)
(***************************************************************************)
ASSUME PoolAuthorityAssumption ==
  /\ PoolOf \in [Revision -> Pool]
  /\ Null \notin Revision \cup Pool \cup AddText \cup Snapshot \cup Mutation
  /\ Blank \notin AddText \cup {Null}
  /\ \A p, q \in Pool : FormatAddTxt(p) = FormatAddTxt(q) => p = q

\* What the KV binding may hold under ADD.txt when a publish looks at it.
LegacyText == AddText \cup {Blank, Null}

TypeOK ==
  /\ current \in Revision \cup {Null}
  /\ previous \in Revision \cup {Null}
  /\ pools \in [Revision -> Snapshot \cup {Null}]
  /\ add_txt \in AddText \cup {Blank, Null}
  /\ manual_add_txt \in AddText \cup {Null}
  /\ manual_add_initialized \in BOOLEAN
  /\ status \in Mutation \cup {Null}

Init ==
  /\ current = Null
  /\ previous = Null
  /\ pools = [r \in Revision |-> Null]
  /\ add_txt = Null
  /\ manual_add_txt = Null
  /\ manual_add_initialized = FALSE
  /\ status = Null

----------------------------------------------------------------------------
(* Early returns: Ok, or the status of the refusal, in the code's order.   *)

Ok == 200

PublishReply(expected) == IF expected # current THEN 409 ELSE Ok

RollbackReply(expected) ==
  IF expected = Null THEN 400
  ELSE IF expected # current THEN 409
  ELSE IF previous = Null THEN 409
  ELSE IF pools[previous] = Null THEN 500
  ELSE Ok

ResetReply(expected) ==
  IF expected = Null THEN 400
  ELSE IF expected # current \/ previous # Null THEN 409
  ELSE Ok

----------------------------------------------------------------------------
(***************************************************************************)
(* The first publish adopts a text that was saved in KV before the object  *)
(* existed as the administrator's override, unless the administrator has   *)
(* already spoken to the object.                                           *)
(***************************************************************************)
AdoptLegacy_OverClear(legacy) ==     \* forgets !manualInitialized
  IF current = Null /\ legacy \notin {Null, Blank}
  THEN /\ manual_add_initialized' = TRUE
       /\ manual_add_txt' = IF manual_add_txt = Null THEN legacy
                                                     ELSE manual_add_txt
  ELSE UNCHANGED manualVars

AdoptLegacy_Overwrites(legacy) ==    \* forgets both guards on stored text
  IF current = Null /\ legacy \notin {Null, Blank}
  THEN manual_add_initialized' = TRUE /\ manual_add_txt' = legacy
  ELSE UNCHANGED manualVars

AdoptLegacy(legacy) ==
  IF current = Null /\ legacy \notin {Null, Blank} /\ ~manual_add_initialized
  THEN /\ manual_add_initialized' = TRUE
       /\ manual_add_txt' = IF manual_add_txt = Null THEN legacy
                                                     ELSE manual_add_txt
  ELSE UNCHANGED manualVars

PublishAuthoritativePool_NoSnapshot(expected, r, legacy) ==
  /\ PublishReply(expected) = Ok
  /\ AdoptLegacy(legacy)
  /\ previous' = current
  /\ current' = r
  /\ add_txt' = FormatAddTxt(PoolOf[r])
  /\ status' = MutationOf("publish", r, current)
  /\ UNCHANGED pools

PublishAuthoritativePool_DropsPrevious(expected, r, legacy) ==
  /\ PublishReply(expected) = Ok
  /\ AdoptLegacy(legacy)
  /\ pools' = [pools EXCEPT ![r] = SnapshotOf(r)]
  /\ previous' = Null
  /\ current' = r
  /\ add_txt' = FormatAddTxt(PoolOf[r])
  /\ status' = MutationOf("publish", r, Null)

PublishAuthoritativePool(expected, r, legacy) ==
  /\ PublishReply(expected) = Ok
  /\ AdoptLegacy(legacy)
  /\ pools' = [pools EXCEPT ![r] = SnapshotOf(r)]
  /\ previous' = current
  /\ current' = r
  /\ add_txt' = FormatAddTxt(PoolOf[r])
  /\ status' = MutationOf("publish", r, current)

RollbackAuthoritativePool_StaleText(expected) ==
  /\ RollbackReply(expected) = Ok
  /\ previous' = current
  /\ current' = previous
  /\ status' = MutationOf("rollback", previous, current)
  /\ UNCHANGED <<pools, add_txt, manualVars>>

RollbackAuthoritativePool_KeepsUndo(expected) ==
  /\ RollbackReply(expected) = Ok
  /\ current' = previous
  /\ add_txt' = FormatAddTxt(pools[previous].entries)
  /\ status' = MutationOf("rollback", previous, previous)
  /\ UNCHANGED <<previous, pools, manualVars>>

RollbackAuthoritativePool(expected) ==
  /\ RollbackReply(expected) = Ok
  /\ previous' = current
  /\ current' = previous
  /\ add_txt' = FormatAddTxt(pools[previous].entries)
  /\ status' = MutationOf("rollback", previous, current)
  /\ UNCHANGED <<pools, manualVars>>

ResetAuthoritativePoolToEmpty(expected) ==
  /\ ResetReply(expected) = Ok
  /\ current' = Null
  /\ previous' = Null
  /\ add_txt' = Blank
  /\ status' = MutationOf("reset_empty", Null, current)
  /\ UNCHANGED <<pools, manualVars>>

SetManualAuthoritativeAddTxt_NoTrim(text) ==
  /\ manual_add_initialized' = TRUE
  /\ manual_add_txt' = text
  /\ UNCHANGED poolVars

SetManualAuthoritativeAddTxt(text) ==
  /\ manual_add_initialized' = TRUE
  /\ manual_add_txt' = IF text = Blank THEN Null ELSE text
  /\ UNCHANGED poolVars

----------------------------------------------------------------------------
(* Readers.                                                                *)

Initialized ==
  \/ manual_add_initialized
  \/ current # Null
  \/ manual_add_txt # Null
  \/ add_txt # Null

Source ==
  IF manual_add_txt # Null THEN "manual"
  ELSE IF add_txt # Null \/ current # Null THEN "optimizer"
  ELSE "none"

ReadAuthoritativeAddTxt ==
  IF manual_add_txt # Null THEN manual_add_txt ELSE add_txt

ReadAuthoritativeAddState ==
  [initialized |-> Initialized, source |-> Source,
   add_txt |-> ReadAuthoritativeAddTxt]

----------------------------------------------------------------------------
Next ==
  \/ \E expected \in Revision \cup {Null}, r \in Revision,
        legacy \in LegacyText :
       PublishAuthoritativePool(expected, r, legacy)
  \/ \E expected \in Revision \cup {Null} :
       \/ RollbackAuthoritativePool(expected)
       \/ ResetAuthoritativePoolToEmpty(expected)
  \/ \E text \in AddText \cup {Blank} : SetManualAuthoritativeAddTxt(text)

Spec == Init /\ [][Next]_vars

----------------------------------------------------------------------------
(***************************************************************************)
(* A rollback that passes its revision checks always finds the snapshot it *)
(* returns to: the 500 branch is dead, and an undo target never outlives   *)
(* the pool it belongs to.                                                 *)
(***************************************************************************)
RollbackTargetStored ==
  /\ previous # Null => current # Null /\ pools[previous] # Null
  /\ \A expected \in Revision \cup {Null} : RollbackReply(expected) # 500

(***************************************************************************)
(* After any sequence of publishes, rollbacks and resets the optimizer's   *)
(* text is the materialisation of the snapshot 'current' names; without a  *)
(* current pool it is absent or blank.                                     *)
(***************************************************************************)
ServedTextIsCurrentPool ==
  IF current = Null
  THEN add_txt \in {Null, Blank}
  ELSE /\ pools[current] = SnapshotOf(current)
       /\ add_txt = FormatAddTxt(PoolOf[current])

(***************************************************************************)
(* The status the optimizer reports names the pools that are installed:    *)
(* its revision is 'current', and unless the pool was emptied its          *)
(* predecessor is the revision a rollback would return to.                 *)
(***************************************************************************)
StatusNamesInstalledPools ==
  IF status = Null
  THEN current = Null /\ add_txt = Null
  ELSE /\ status.revision = current
       /\ status.mutation # "reset_empty" => status.previous = previous
       /\ status.mutation = "reset_empty" <=> current = Null

(***************************************************************************)
(* Once the object has been initialised it stays initialised, whatever is  *)
(* cleared afterwards: a reader that must ignore the legacy KV text never  *)
(* falls back to it again (pool-authority-core.js:118-120).                *)
(***************************************************************************)
InitializedIsForever == [][Initialized => Initialized']_vars

(***************************************************************************)
(* While an override is stored, no publish, rollback or reset changes the  *)
(* text that readers are given; only the administrator does.               *)
(***************************************************************************)
OverrideShieldsReaders ==
  [][ /\ manual_add_txt # Null
      /\ ~ \E text \in AddText \cup {Blank} :
             SetManualAuthoritativeAddTxt(text)
      => UNCHANGED <<ReadAuthoritativeAddTxt, Source>> ]_vars

(***************************************************************************)
(* Once the administrator has saved or cleared the override, a publish     *)
(* that carries an older KV text does not bring that text back.            *)
(***************************************************************************)
ClearedOverrideStaysCleared ==
  [][ manual_add_initialized /\ manual_add_txt = Null /\ manual_add_txt' # Null
      => \E text \in AddText : SetManualAuthoritativeAddTxt(text) ]_vars

----------------------------------------------------------------------------
(***************************************************************************)
(* The storage implements the register: a revision stands for the pool its *)
(* snapshot holds.                                                         *)
(***************************************************************************)
InstalledPool(r) == IF r = Null THEN Null ELSE pools[r].entries

Register == INSTANCE PoolRegister WITH
  live <- InstalledPool(current),
  undo <- InstalledPool(previous),
  override <- manual_add_txt,
  claimed <- manual_add_initialized,
  published <- add_txt # Null,
  answer <- ReadAuthoritativeAddState

(***************************************************************************)
(* Whatever the order of publishes, rollbacks, resets and manual saves,    *)
(* readers are answered as by one pool with one level of undo beneath an   *)
(* override: no key is left behind by one operation that another reads.    *)
(***************************************************************************)
ImplementsRegister == Register!Spec
=============================================================================
