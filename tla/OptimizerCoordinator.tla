------------------------ MODULE OptimizerCoordinator ------------------------
(***************************************************************************)
(* The Durable Object around PoolAuthority and its copy in Workers KV      *)
(* (src/src/ops/optimizer-coordinator.js), with the readers of that copy.  *)
(*                                                                         *)
(* A call runs without interruption from one await of KV to the next;      *)
(* between two of its steps any other call may run.  KV is a linearizable  *)
(* map here: a put or a get takes effect at one moment between its start   *)
(* and the moment the call resumes.  The binding is present and has        *)
(* delete().  An RPC is executed at most once.                             *)
(* A definition X_Y is no part of the model: it is X with a plausible bug. *)
(***************************************************************************)
CONSTANTS
  Revision, Pool, PoolOf, ManualText, FormatAddTxt(_), Blank, Null,
  Call,        \* slots for the RPCs in flight
  KvMayFail,   \* whether KV operations may throw
  Never        \* no manual save has been made

VARIABLES
  current, previous, pools, add_txt, manual_add_txt, manual_add_initialized,
  status,      \* the storage, see PoolAuthority
  kv,          \* the mirror: ADD.txt and optimizer:{pool:*,previous,current,status}
  call,        \* what each RPC in flight is waiting for
  reading,     \* lists in force since a request that waits for KV began, or {}
  legacy0,     \* ADD.txt as it was before the object existed
  lastSave,    \* the administrator's last save
  degraded,    \* some mirror failed and no full mirror has succeeded since
  overlapped   \* two RPCs have been in flight at once

Authority == INSTANCE PoolAuthority

authority == <<current, previous, pools, add_txt, manual_add_txt,
               manual_add_initialized, status>>
history == <<legacy0, lastSave>>
vars == <<authority, kv, call, reading, history, degraded, overlapped>>

\* What mirror() keeps of the status it has read.
View == [current : Revision \cup {Null}, previous : Revision \cup {Null},
         status : Authority!Mutation]
Seen == [current |-> current, previous |-> previous, status |-> status]

ASSUME CoordinatorAssumption ==
  /\ Authority!PoolAuthorityAssumption
  /\ KvMayFail \in BOOLEAN
  /\ Never \notin Authority!AddText \cup {Blank, Null}
  /\ Null \notin View

\* put() of a blank text is delete(); readers treat both as no list.
Stored(text) == IF text = Blank THEN Null ELSE text

\* The list a request is given: pool-store.js readOptimizerAddState decides
\* between the object's text and the legacy text in KV.
EffectiveText ==
  IF Authority!Initialized THEN Stored(Authority!ReadAuthoritativeAddTxt)
                           ELSE kv.add

Waiting(at, text, view) ==
  [pc |-> at, expected |-> Null, revision |-> Null, text |-> text,
   view |-> view]
WaitingForLegacy(expected, r) ==
  [pc |-> "get", expected |-> expected, revision |-> r, text |-> Null,
   view |-> Null]
Idle == Waiting("idle", Null, Null)
MirrorPc == {"pool", "previous", "current", "effective", "add", "status"}

TypeOK ==
  /\ Authority!TypeOK
  /\ kv \in [add : Authority!AddText \cup {Null}, pools : SUBSET Revision,
             previous : Revision \cup {Null}, current : Revision \cup {Null},
             status : Authority!Mutation \cup {Null}]
  /\ call \in [Call -> [pc : {"idle", "get", "commit"} \cup MirrorPc,
                        expected : Revision \cup {Null},
                        revision : Revision \cup {Null},
                        text : Authority!AddText \cup {Null},
                        view : View \cup {Null}]]
  /\ reading \in SUBSET (Authority!AddText \cup {Null})
  /\ legacy0 \in Authority!AddText \cup {Null}
  /\ lastSave \in Authority!AddText \cup {Blank, Never}
  /\ degraded \in BOOLEAN /\ overlapped \in BOOLEAN

Init ==
  /\ Authority!Init
  /\ legacy0 \in ManualText \cup {Null}
  /\ kv = [add |-> legacy0, pools |-> {}, previous |-> Null,
           current |-> Null, status |-> Null]
  /\ call = [c \in Call |-> Idle]
  /\ reading = {}
  /\ lastSave = Never
  /\ degraded = FALSE /\ overlapped = FALSE

----------------------------------------------------------------------------
(***************************************************************************)
(* Synchronous parts of the RPCs.  mirror() reads the status once, in the  *)
(* same turn as the transaction, and starts with the snapshot's put; after *)
(* a reset there is no snapshot and it starts with optimizer:previous.     *)
(***************************************************************************)
StartMirror_SkipsSnapshot(c) ==    \* takes the snapshot to be in KV already
  call' = [call EXCEPT ![c] = Waiting("previous", Null, Seen')]

StartMirror(c) ==
  call' = [call EXCEPT ![c] =
    Waiting(IF current' = Null THEN "previous" ELSE "pool", Null, Seen')]

Finish(c) == call' = [call EXCEPT ![c] = Idle]

CommitPublish(c, expected, r, legacy) ==
  \/ /\ Authority!PublishAuthoritativePool(expected, r, legacy)
     /\ StartMirror(c)
  \/ /\ Authority!PublishReply(expected) # Authority!Ok
     /\ Finish(c)
     /\ UNCHANGED authority

\* A revision is a timestamp and a checksum: no two requests share one.
Fresh(r) ==
  /\ pools[r] = Null
  /\ \A c \in Call : call[c].revision # r

PublishPool_AlwaysReadsKv(c, expected, r) ==   \* forgets !initialized
  /\ call[c].pc = "idle"
  /\ Fresh(r)
  /\ IF current = Null
     THEN /\ call' = [call EXCEPT ![c] = WaitingForLegacy(expected, r)]
          /\ UNCHANGED authority
     ELSE CommitPublish(c, expected, r, Null)
  /\ UNCHANGED <<kv, history, degraded>>

PublishPool(c, expected, r) ==
  /\ call[c].pc = "idle"
  /\ Fresh(r)
  /\ IF current = Null /\ ~Authority!Initialized
     THEN /\ call' = [call EXCEPT ![c] = WaitingForLegacy(expected, r)]
          /\ UNCHANGED authority
     ELSE CommitPublish(c, expected, r, Null)
  /\ UNCHANGED <<kv, history, degraded>>

\* await KV.get('ADD.txt'): the value, or an exception that ends the RPC.
LegacyGet(c) ==
  /\ call[c].pc = "get"
  /\ \/ call' = [call EXCEPT ![c].pc = "commit", ![c].text = kv.add]
     \/ KvMayFail /\ Finish(c)
  /\ UNCHANGED <<authority, kv, history, degraded>>

LegacyCommit_DropsText(c) ==       \* does not pass the text on
  /\ call[c].pc = "commit"
  /\ CommitPublish(c, call[c].expected, call[c].revision, Null)
  /\ UNCHANGED <<kv, history, degraded>>

LegacyCommit(c) ==
  /\ call[c].pc = "commit"
  /\ CommitPublish(c, call[c].expected, call[c].revision, call[c].text)
  /\ UNCHANGED <<kv, history, degraded>>

RollbackPool(c, expected) ==
  /\ call[c].pc = "idle"
  /\ Authority!RollbackAuthoritativePool(expected)
  /\ StartMirror(c)
  /\ UNCHANGED <<kv, history, degraded>>

ResetPoolToEmpty(c, expected) ==
  /\ call[c].pc = "idle"
  /\ Authority!ResetAuthoritativePoolToEmpty(expected)
  /\ StartMirror(c)
  /\ UNCHANGED <<kv, history, degraded>>

\* The save and the read of the text to mirror happen in one turn.
SetManualAddTxt(c, text) ==
  /\ call[c].pc = "idle"
  /\ Authority!SetManualAuthoritativeAddTxt(text)
  /\ lastSave' = text
  /\ call' = [call EXCEPT ![c] =
       Waiting("add", Stored(Authority!ReadAuthoritativeAddTxt)', Null)]
  /\ UNCHANGED <<kv, legacy0, degraded>>

----------------------------------------------------------------------------
(* The mirror's puts, in their order.                                      *)

KvPut_KeepsCurrent(c) ==           \* no delete of optimizer:current
  LET v == call[c].view
  IN CASE call[c].pc = "pool"     -> [kv EXCEPT !.pools = @ \cup {v.current}]
       [] call[c].pc = "previous" -> [kv EXCEPT !.previous = v.previous]
       [] call[c].pc = "current"  -> IF v.current = Null THEN kv
                                     ELSE [kv EXCEPT !.current = v.current]
       [] call[c].pc = "add"      -> [kv EXCEPT !.add = call[c].text]
       [] call[c].pc = "status"   -> [kv EXCEPT !.status = v.status]

KvPut(c) ==
  LET v == call[c].view
  IN CASE call[c].pc = "pool"     -> [kv EXCEPT !.pools = @ \cup {v.current}]
       [] call[c].pc = "previous" -> [kv EXCEPT !.previous = v.previous]
       [] call[c].pc = "current"  -> [kv EXCEPT !.current = v.current]
       [] call[c].pc = "add"      -> [kv EXCEPT !.add = call[c].text]
       [] call[c].pc = "status"   -> [kv EXCEPT !.status = v.status]

NextPc(c) ==
  CASE call[c].pc = "pool"     -> "previous"
    [] call[c].pc = "previous" -> "current"
    [] call[c].pc = "current"  -> "effective"
    [] call[c].pc = "add"      -> IF call[c].view = Null THEN "idle"
                                                         ELSE "status"
    [] call[c].pc = "status"   -> "idle"

Putting(c) == call[c].pc \in MirrorPc \ {"effective"}

MirrorPut(c) ==
  /\ Putting(c)
  /\ kv' = KvPut(c)
  /\ IF NextPc(c) = "idle" THEN Finish(c)
     ELSE call' = [call EXCEPT ![c].pc = NextPc(c)]
  /\ degraded' = (degraded /\ call[c].pc # "status")
  /\ UNCHANGED <<authority, history>>

MirrorReadAdd_PoolText(c) ==       \* mirrors the pool, not the override
  /\ call[c].pc = "effective"
  /\ call' = [call EXCEPT ![c].pc = "add", ![c].text = Stored(add_txt)]
  /\ UNCHANGED <<authority, kv, history, degraded>>

\* After optimizer:current the effective text is read again.
MirrorReadAdd(c) ==
  /\ call[c].pc = "effective"
  /\ call' = [call EXCEPT ![c].pc = "add",
                          ![c].text = Stored(Authority!ReadAuthoritativeAddTxt)]
  /\ UNCHANGED <<authority, kv, history, degraded>>

\* A put throws, whether it took effect or not: the mirror is 'degraded'.
MirrorFails(c) ==
  /\ KvMayFail
  /\ Putting(c)
  /\ kv' \in {kv, KvPut(c)}
  /\ Finish(c)
  /\ degraded' = TRUE
  /\ UNCHANGED <<authority, history>>

----------------------------------------------------------------------------
(***************************************************************************)
(* A subscription (sub.js) or admin GET (admin.js) asks the object first.  *)
(* An initialised object answers in the same turn; otherwise the request   *)
(* goes on to await the legacy text in KV.  'reading' collects the lists   *)
(* that were in force meanwhile.                                           *)
(***************************************************************************)
ReadAddState ==
  /\ reading = {}
  /\ ~Authority!Initialized
  /\ reading' = {EffectiveText}
  /\ UNCHANGED <<authority, kv, call, history, degraded, overlapped>>

ReadLegacyKv ==
  /\ reading # {}
  /\ reading' = {}
  /\ UNCHANGED <<authority, kv, call, history, degraded, overlapped>>

ReaderObserves ==
  reading' = IF reading = {} THEN {} ELSE reading \cup {EffectiveText'}

CallsOverlap ==
  overlapped' = (overlapped \/ \E c, d \in Call :
                   c # d /\ call'[c].pc # "idle" /\ call'[d].pc # "idle")

CallStep(c) ==
  \/ \E expected \in Revision \cup {Null}, r \in Revision :
       PublishPool(c, expected, r)
  \/ LegacyGet(c)
  \/ LegacyCommit(c)
  \/ \E expected \in Revision : RollbackPool(c, expected)
  \/ \E expected \in Revision : ResetPoolToEmpty(c, expected)
  \/ \E text \in ManualText \cup {Blank} : SetManualAddTxt(c, text)
  \/ MirrorPut(c)
  \/ MirrorReadAdd(c)
  \/ MirrorFails(c)

Next ==
  \/ \E c \in Call : CallStep(c) /\ ReaderObserves /\ CallsOverlap
  \/ ReadAddState
  \/ ReadLegacyKv

Spec == Init /\ [][Next]_vars

----------------------------------------------------------------------------
(***************************************************************************)
(* A text the operator had saved before the object existed becomes the     *)
(* override with the first publish, however first publishes interleave:    *)
(* until the administrator saves again it keeps its priority.              *)
(***************************************************************************)
LegacyOverrideSurvives ==
  legacy0 # Null /\ lastSave = Never /\ add_txt # Null
    => manual_add_txt = legacy0

(***************************************************************************)
(* The administrator has the last word: after a save or a clear, the       *)
(* override is what was saved, even when a first publish that had read the *)
(* old text before the save commits after it.                              *)
(***************************************************************************)
AdminHasLastWord == lastSave # Never => manual_add_txt = Stored(lastSave)

(***************************************************************************)
(* An override is something a person saved: the administrator's last save  *)
(* or the text that was in KV before the object existed, never a pool the  *)
(* optimizer itself wrote to KV, whichever mirrors failed.  (A first       *)
(* publish that overlaps another one, mirrored and reset meanwhile, does   *)
(* adopt that one's pool.)                                                 *)
(***************************************************************************)
OverrideIsExplicit ==
  ~overlapped => manual_add_txt \in {Null, legacy0, lastSave}

(***************************************************************************)
(* Address-list reads are linearizable: whenever a request may read KV, it *)
(* finds a list that was in force at some moment since it began, although  *)
(* the object may have been initialised, reset or overridden meanwhile.    *)
(***************************************************************************)
ReadsAreLinearizable == reading # {} => kv.add \in reading

(***************************************************************************)
(* KV never names a current revision whose snapshot it does not hold,      *)
(* whichever put of whichever mirror failed.                               *)
(***************************************************************************)
MirroredCurrentResolves == kv.current # Null => kv.current \in kv.pools

(***************************************************************************)
(* With no RPC in flight, none that ever overlapped another, and the last  *)
(* failure healed by a later complete mirror, KV holds what the object     *)
(* holds.                                                                  *)
(***************************************************************************)
QuiescentMirror ==
  (\A c \in Call : call[c].pc = "idle") /\ ~degraded /\ ~overlapped
  /\ Authority!Initialized
    => kv.add = EffectiveText /\ kv.current = current
       /\ kv.previous = previous /\ kv.status = status

(***************************************************************************)
(* The runbook's check of a rollback: when no RPC is in flight and nothing *)
(* failed, optimizer:current in KV names the revision the rollback         *)
(* restored (docs/operations/edge-operations.md:99).                       *)
(***************************************************************************)
RollbackReachesMirror ==
  (\A c \in Call : call[c].pc = "idle") /\ ~degraded
  /\ status # Null /\ status.mutation = "rollback"
    => kv.current = current
=============================================================================
