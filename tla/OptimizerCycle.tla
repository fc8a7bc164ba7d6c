--------------------------- MODULE OptimizerCycle ---------------------------
(***************************************************************************)
(* One NAS running optimizer cycles (optimizer/src/run.js, state.js,       *)
(* api.js) against the authority of PoolAuthority, beside an operator who  *)
(* uses the same machine API and an administrator who saves and clears the *)
(* manual override.                                                        *)
(*                                                                         *)
(* A mutation request may be executed, lost, or executed after the client  *)
(* has given up on it; its reply may be lost.  The NAS may crash between   *)
(* any two steps and restarts from its files.  A cycle is serialised by    *)
(* the lock (CycleLock), so its files change under no other hand.          *)
(* A definition X_Y is no part of the model: it is X with a plausible bug. *)
(***************************************************************************)
EXTENDS Naturals, FiniteSets

CONSTANTS
  Revision, Pool, PoolOf, ManualText, FormatAddTxt(_), Blank, Null,
  Operator,       \* another publisher holds the machine token
  MaxInFlight     \* bound: requests not executed yet

VARIABLES
  current, previous, pools, add_txt, manual_add_txt, manual_add_initialized,
  status,     \* the authority, see PoolAuthority
  disk,       \* current.json, previous.json, last-good-add.txt
  nas,        \* the running cycle
  net,        \* mutation requests not executed yet
  reply,      \* the reply the NAS is waiting for, once it exists
  mine,       \* revisions published for the NAS
  verified,   \* revisions that passed the post-publish verification
  baseline,   \* some cycle has started with a pool in force
  faulted,    \* a crash, a timeout, or a failed write while undoing
  late,       \* a request was executed after its client gave up on it
  meddled     \* the operator has changed the pool

Authority == INSTANCE PoolAuthority

authority == <<current, previous, pools, add_txt, manual_add_txt,
               manual_add_initialized, status>>
history == <<mine, verified, baseline, faulted, late, meddled>>
vars == <<authority, disk, nas, net, reply, history>>

Files == [current : Revision \cup {Null}, previous : Revision \cup {Null},
          lastGood : Pool \cup {Null}]
Empty == [current |-> Null, previous |-> Null, lastGood |-> Null]

\* The cycle's local variables; published is {revision, previous}.
Idle == [pc |-> "idle", state |-> Empty, source |-> "none", entries |-> Null,
         published |-> Null, replaced |-> Null, undoing |-> FALSE]
WritePc == {"write_current", "write_previous", "write_last_good"}

Request == [op : {"publish", "rollback", "reset"},
            expected : Revision \cup {Null}, entries : Pool \cup {Null},
            awaited : BOOLEAN]
Conflict == [ok |-> FALSE, revision |-> Null, previous |-> Null]
Done(r, p) == [ok |-> TRUE, revision |-> r, previous |-> p]
Reply == {Conflict} \cup {Done(r, p) : r, p \in Revision \cup {Null}}

ASSUME CycleAssumption ==
  /\ Authority!PoolAuthorityAssumption
  /\ Operator \in BOOLEAN
  /\ MaxInFlight \in Nat \ {0}
  /\ Null \notin Reply

TypeOK ==
  /\ Authority!TypeOK
  /\ disk \in Files
  /\ nas \in [pc : {"idle", "measure", "waiting", "verify", "persist", "undo"}
                     \cup WritePc,
              state : Files, source : {"none", "optimizer", "manual"},
              entries : Pool \cup {Null}, published : Revision \cup {Null},
              replaced : Revision \cup {Null}, undoing : BOOLEAN]
  /\ net \subseteq Request
  /\ \A m, n \in net : m.awaited /\ n.awaited => m = n
  /\ reply \in Reply \cup {Null}
  /\ mine \subseteq Revision /\ verified \subseteq Revision
  /\ {baseline, faulted, late, meddled} \subseteq BOOLEAN

Init ==
  /\ Authority!Init
  /\ disk = Empty
  /\ nas = Idle
  /\ net = {}
  /\ reply = Null
  /\ mine = {} /\ verified = {}
  /\ baseline = FALSE /\ faulted = FALSE /\ late = FALSE /\ meddled = FALSE

----------------------------------------------------------------------------
(* The cycle up to the publish request.                                    *)

StartCycle_NoSyncCheck ==      \* takes whatever the remote has for its own
  /\ nas.pc = "idle"
  /\ nas' = [Idle EXCEPT !.pc = "measure",
                         !.state = [disk EXCEPT !.current = current],
                         !.source = Authority!Source]
  /\ baseline' = (baseline \/ current # Null)
  /\ UNCHANGED <<authority, disk, net, reply, mine, verified, faulted, late,
                 meddled>>

\* loadState and getStatus; a failure of either, or a remote revision that
\* is not the local one ('remote_state_unknown'), ends the cycle unchanged.
StartCycle ==
  /\ nas.pc = "idle"
  /\ disk.current = current
  /\ nas' = [Idle EXCEPT !.pc = "measure", !.state = disk,
                         !.source = Authority!Source]
  /\ baseline' = (baseline \/ current # Null)
  /\ UNCHANGED <<authority, disk, net, reply, mine, verified, faulted, late,
                 meddled>>

\* 'dry_run', 'manual_override_active' and 'no_change' write no state file.
SkipPublish ==
  /\ nas.pc = "measure"
  /\ nas' = Idle
  /\ UNCHANGED <<authority, disk, net, reply, history>>

Send(op, entries) ==
  /\ Cardinality(net) < MaxInFlight
  /\ net' = net \cup {[op |-> op, entries |-> entries, awaited |-> TRUE,
                       expected |-> IF op = "publish" THEN nas.state.current
                                                      ELSE nas.published]}

\* The override is the one the status showed when the cycle began.
SendPublish ==
  /\ nas.pc = "measure"
  /\ ~(nas.source = "manual" /\ nas.state.current # Null)
  /\ \E p \in Pool :
       /\ nas' = [nas EXCEPT !.pc = "waiting", !.entries = p]
       /\ Send("publish", p)
  /\ UNCHANGED <<authority, disk, reply, history>>

----------------------------------------------------------------------------
(* The Worker executes a request, at most once, at any time.               *)

Answer(m, result) ==
  /\ net' = net \ {m}
  /\ late' = (late \/ ~m.awaited)
  /\ reply' = IF m.awaited THEN result ELSE reply

Fresh(r) == pools[r] = Null

\* The first publish may find a text in KV that predates the object.
LegacyInKv == IF Authority!Initialized THEN {Null} ELSE ManualText \cup {Null}

ExecutePublish(m) ==
  /\ m.op = "publish"
  /\ \E r \in Revision, legacy \in LegacyInKv :
       /\ Fresh(r) /\ PoolOf[r] = m.entries
       /\ Authority!PublishAuthoritativePool(m.expected, r, legacy)
       /\ Answer(m, Done(current', previous'))
       /\ mine' = mine \cup {r}
  /\ UNCHANGED <<disk, nas, verified, baseline, faulted, meddled>>

ExecuteUndo(m) ==
  /\ \/ m.op = "rollback" /\ Authority!RollbackAuthoritativePool(m.expected)
     \/ m.op = "reset" /\ Authority!ResetAuthoritativePoolToEmpty(m.expected)
  /\ Answer(m, Done(current', current))
  /\ UNCHANGED <<disk, nas, mine, verified, baseline, faulted, meddled>>

Refused(m) ==
  \/ m.op = "publish" /\ Authority!PublishReply(m.expected) # Authority!Ok
  \/ m.op = "rollback" /\ Authority!RollbackReply(m.expected) # Authority!Ok
  \/ m.op = "reset" /\ Authority!ResetReply(m.expected) # Authority!Ok

ExecuteRefused(m) ==
  /\ Refused(m)
  /\ Answer(m, Conflict)
  /\ UNCHANGED <<authority, disk, nas, mine, verified, baseline, faulted,
                 meddled>>

Execute(m) == ExecutePublish(m) \/ ExecuteUndo(m) \/ ExecuteRefused(m)

----------------------------------------------------------------------------
(* The cycle after the publish request.                                    *)

Take(next) ==
  /\ reply' = Null
  /\ nas' = next
  /\ UNCHANGED <<authority, disk, net, history>>

PublishAnswered_SkipsVerify ==
  /\ nas.pc = "waiting" /\ ~nas.undoing /\ reply # Null
  /\ \/ /\ reply.ok
        /\ Take([nas EXCEPT !.pc = "write_current", !.published = reply.revision,
                            !.replaced = reply.previous])
     \/ ~reply.ok /\ Take(Idle)

PublishAnswered ==
  /\ nas.pc = "waiting" /\ ~nas.undoing /\ reply # Null
  /\ \/ /\ reply.ok
        /\ Take([nas EXCEPT !.pc = "verify", !.published = reply.revision,
                            !.replaced = reply.previous])
     \/ ~reply.ok /\ Take(Idle)               \* 'revision_conflict'

\* getStatus, verifyProbe and the effective source; the probe or either
\* request may fail.  nas.source becomes the source that was observed.
Verify ==
  /\ nas.pc = "verify"
  /\ \/ /\ current = nas.published
        /\ Authority!Source \in {"optimizer", "manual"}
        /\ nas' = [nas EXCEPT !.pc = "write_current",
                              !.source = Authority!Source]
        /\ verified' = verified \cup {nas.published}
     \/ /\ nas' = [nas EXCEPT !.pc = "undo"]
        /\ UNCHANGED verified
  /\ UNCHANGED <<authority, disk, net, reply, mine, baseline, faulted, late,
                 meddled>>

Target_UndoKeepsPrevious ==   \* a rollback restores both files
  IF ~nas.undoing
  THEN [current |-> nas.published, previous |-> nas.state.current,
        lastGood |-> IF nas.source = "manual" THEN nas.state.lastGood
                                              ELSE nas.entries]
  ELSE nas.state

\* What writeOptimizerState is given: after a verified publish, after a
\* clear of the first publish, and after a rollback.
Target ==
  IF ~nas.undoing
  THEN [current |-> nas.published, previous |-> nas.state.current,
        lastGood |-> IF nas.source = "manual" THEN nas.state.lastGood
                                              ELSE nas.entries]
  ELSE [current |-> IF nas.replaced = Null THEN Null ELSE nas.state.current,
        previous |-> IF nas.replaced = Null THEN Null ELSE nas.published,
        lastGood |-> nas.state.lastGood]

\* The files are replaced one after the other, each of them atomically.
WriteFile ==
  /\ \/ /\ nas.pc = "write_current"
        /\ disk' = [disk EXCEPT !.current = Target.current]
        /\ nas' = [nas EXCEPT !.pc = "write_previous"]
     \/ /\ nas.pc = "write_previous"
        /\ disk' = [disk EXCEPT !.previous = Target.previous]
        /\ nas' = [nas EXCEPT !.pc = "write_last_good"]
     \/ /\ nas.pc = "write_last_good"
        /\ disk' = [disk EXCEPT !.lastGood = Target.lastGood]
        /\ nas' = [nas EXCEPT !.pc = "persist"]
  /\ UNCHANGED <<authority, net, reply, history>>

\* candidates.json, the run file, the history line and the pruning.
Persist ==
  /\ nas.pc = "persist"
  /\ nas' = Idle
  /\ UNCHANGED <<authority, disk, net, reply, history>>

\* Any local write throws: a verified publish is taken back, an undo gives up.
LocalWriteFails ==
  /\ nas.pc \in WritePc \cup {"persist"}
  /\ nas' = IF nas.undoing THEN Idle ELSE [nas EXCEPT !.pc = "undo"]
  /\ faulted' = (faulted \/ nas.undoing)
  /\ UNCHANGED <<authority, disk, net, reply, mine, verified, baseline, late,
                 meddled>>

\* A publish without predecessor is cleared, any other is rolled back.
SendUndo ==
  /\ nas.pc = "undo"
  /\ Send(IF nas.replaced = Null THEN "reset" ELSE "rollback", Null)
  /\ nas' = [nas EXCEPT !.pc = "waiting", !.undoing = TRUE]
  /\ UNCHANGED <<authority, disk, reply, history>>

UndoAnswered ==
  /\ nas.pc = "waiting" /\ nas.undoing /\ reply # Null
  /\ \/ reply.ok /\ Take([nas EXCEPT !.pc = "write_current"])
     \/ ~reply.ok /\ Take(Idle)      \* 'clear_conflict', 'rollback_conflict'

\* The client aborts: the request, if not executed yet, may still be.
Timeout ==
  /\ nas.pc = "waiting"
  /\ nas' = Idle
  /\ reply' = Null
  /\ net' \in {{m \in net : ~m.awaited}, {[m EXCEPT !.awaited = FALSE] : m \in net}}
  /\ faulted' = TRUE
  /\ UNCHANGED <<authority, disk, mine, verified, baseline, late, meddled>>

Crash ==
  /\ nas.pc # "idle"
  /\ nas' = Idle
  /\ reply' = Null
  /\ net' \in {{m \in net : ~m.awaited}, {[m EXCEPT !.awaited = FALSE] : m \in net}}
  /\ faulted' = TRUE
  /\ UNCHANGED <<authority, disk, mine, verified, baseline, late, meddled>>

----------------------------------------------------------------------------
(* The operator and the administrator.                                     *)

OperatorMutates ==
  /\ Operator
  /\ \/ \E r \in Revision, legacy \in LegacyInKv :
          Fresh(r) /\ Authority!PublishAuthoritativePool(current, r, legacy)
     \/ Authority!RollbackAuthoritativePool(current)
     \/ Authority!ResetAuthoritativePoolToEmpty(current)
  /\ meddled' = TRUE
  /\ UNCHANGED <<disk, nas, net, reply, mine, verified, baseline, faulted, late>>

AdminSaves ==
  /\ \E text \in ManualText \cup {Blank} :
       Authority!SetManualAuthoritativeAddTxt(text)
  /\ UNCHANGED <<disk, nas, net, reply, history>>

Cycle ==
  \/ StartCycle \/ SkipPublish \/ SendPublish
  \/ PublishAnswered \/ Verify \/ WriteFile \/ Persist \/ LocalWriteFails
  \/ SendUndo \/ UndoAnswered \/ Timeout

Next ==
  \/ Cycle
  \/ Crash
  \/ \E m \in net : Execute(m)
  \/ OperatorMutates
  \/ AdminSaves

Spec == Init /\ [][Next]_vars

----------------------------------------------------------------------------
(***************************************************************************)
(* The NAS never takes a pool out of force that somebody else put there:   *)
(* whatever is lost, late or crashed, a publish, rollback or reset of its  *)
(* own only ever replaces its own pool or no pool.                         *)
(***************************************************************************)
ForeignPoolNeverReplaced ==
  [][ (\E m \in net : Execute(m)) /\ current' # current
      => current \in mine \cup {Null} ]_vars

(***************************************************************************)
(* At rest the NAS knows the remote state, whatever verification or write  *)
(* failed, as long as no message was lost, nothing crashed, no undo failed *)
(* halfway and nobody else published: the files name the installed pool,   *)
(* and the one below it.                                                   *)
(***************************************************************************)
SyncedAtRest ==
  nas.pc = "idle" /\ net = {} /\ ~faulted /\ ~meddled
    => disk.current = current /\ disk.previous = previous

(***************************************************************************)
(* last-good-add.txt only ever holds a pool that passed verification, even *)
(* when the cycle stops between two files.                                 *)
(***************************************************************************)
LastGoodWasVerified ==
  disk.lastGood # Null => \E r \in verified : PoolOf[r] = disk.lastGood

(***************************************************************************)
(* A failing optimizer does not erase the pool it started from: once a     *)
(* cycle has begun with a pool in force there is always one, unless the    *)
(* operator removes it.  (A reset that is executed after its client gave   *)
(* up on it can come in the middle of the next cycle and does break this.) *)
(***************************************************************************)
KnownGoodSurvives == baseline /\ ~meddled /\ ~late => current # Null

(***************************************************************************)
(* Optimizer failure cannot erase the last-known-good pool: a pool that    *)
(* passed verification is never cleared by the NAS (design document,       *)
(* invariant 10).                                                          *)
(***************************************************************************)
VerifiedPoolNotErased ==
  [][ (\E m \in net : ExecuteUndo(m)) /\ current \in verified
      => current' # Null ]_vars
=============================================================================
