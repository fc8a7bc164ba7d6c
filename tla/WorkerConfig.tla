---------------------------- MODULE WorkerConfig ----------------------------
(***************************************************************************)
(* What the Worker's requests keep in KV beside the pools: the settings    *)
(* with their defaults and the request log (src/src/config.js), and the    *)
(* login sessions (controllers/auth.js), as the administrator's requests   *)
(* (controllers/admin.js) and the subscriptions (controllers/sub.js) read  *)
(* and write them.  Every get, put and delete of KV is one step; it is     *)
(* taken to be atomic, which favours the program.                          *)
(*                                                                         *)
(* A value is named by the request that wrote it.  Usage figures fetched   *)
(* for a reply and the contents of a log entry are left out.               *)
(* A definition X_Y is no part of the model: it is X with a plausible bug. *)
(***************************************************************************)
EXTENDS Naturals, Sequences, SequencesExt

CONSTANTS
  MaxRequests, \* bound: requests, numbered as they arrive
  MaxLog,      \* entries that fit into the log's 4 MB
  Missing, Default

Request == 1..MaxRequests

ASSUME WorkerConfigAssumption ==
  /\ Missing \notin Request /\ Default \notin Request /\ Missing # Default
  /\ MaxRequests \in Nat /\ MaxLog \in Nat \ {0}

Key == {"config", "tg", "cf"}
SaveOf == [saveConfig |-> "config", saveTg |-> "tg", saveCf |-> "cf"]
Kind == {"sub", "login", "logout", "init", "saveConfig", "saveTg", "saveCf"}

VARIABLES
  kv,       \* the settings
  session,  \* the administrator's session key is in KV
  log,      \* log.json
  req,      \* for each request its kind, its place, and what it has read
  saved,    \* the administrator's last write of each key ...
  raced,    \* ... and whether another request was about to put defaults then
  logged,   \* requests whose entry was written ...
  logRaced, \* ... those of them that overlapped another writer of the log
  dropped   \* entries shifted out of a full log

kvVars == <<kv, session, log, req, saved, raced, logged, logRaced, dropped>>

Idle == [kind |-> "none", pc |-> "idle", reset |-> FALSE, read |-> <<>>]

ConfigInit ==
  /\ kv = [k \in Key |-> Missing]
  /\ session = FALSE
  /\ log = <<>>
  /\ req = [r \in Request |-> Idle]
  /\ saved = [k \in Key |-> Missing] /\ raced = [k \in Key |-> FALSE]
  /\ logged = {} /\ logRaced = {} /\ dropped = {}

Stands(r, pc) == req[r].pc = pc
\* A request that is over is forgotten.
Goto(r, pc) ==
  req' = [req EXCEPT ![r] = IF pc = "done" THEN [Idle EXCEPT !.pc = pc]
                            ELSE [@ EXCEPT !.pc = pc]]

\* A subscription's token and a login's password are taken to be right.
RequestArrives(r, kind) ==
  /\ Stands(r, "idle") /\ \A q \in 1..(r - 1) : ~Stands(q, "idle")
  /\ req' = [req EXCEPT ![r].kind = kind,
               ![r].pc = CASE kind = "sub" -> "getConfig"
                           [] kind \in {"login", "logout"} -> kind
                           [] OTHER -> "checkAuth"]
  /\ UNCHANGED <<kv, session, log, saved, raced, logged, logRaced, dropped>>

HandleLogin(r) ==
  /\ Stands(r, "login")
  /\ session' = TRUE /\ Goto(r, "done")
  /\ UNCHANGED <<kv, log, saved, raced, logged, logRaced, dropped>>

HandleLogout(r) ==
  /\ Stands(r, "logout")
  /\ session' = FALSE /\ Goto(r, "done")
  /\ UNCHANGED <<kv, log, saved, raced, logged, logRaced, dropped>>

CheckAuth(r) ==
  /\ Stands(r, "checkAuth")
  /\ Goto(r, IF session THEN "getConfig" ELSE "done")
  /\ UNCHANGED <<kv, session, log, saved, raced, logged, logRaced, dropped>>

----------------------------------------------------------------------------
(* readConfig: each of the three settings is read, and put if it is         *)
(* missing; 'reset' puts config.json in any case.                           *)

AfterConfig(kind) ==
  CASE kind = "sub" -> "getLog"
    [] kind = "init" -> "reset"
    [] OTHER -> "save"

NextGet(r) ==
  CASE req[r].pc \in {"getConfig", "putConfig"} -> "getTg"
    [] req[r].pc \in {"getTg", "putTg"} -> "getCf"
    [] OTHER -> IF req[r].reset THEN "done" ELSE AfterConfig(req[r].kind)

GetKey == [getConfig |-> "config", getTg |-> "tg", getCf |-> "cf"]
PutKey == [putConfig |-> "config", putTg |-> "tg", putCf |-> "cf"]
PutOf == [config |-> "putConfig", tg |-> "putTg", cf |-> "putCf"]

GetSetting_ResetsAll(r) ==       \* the reset puts every default
  /\ req[r].pc \in DOMAIN GetKey
  /\ LET k == GetKey[req[r].pc]
         defaults == kv[k] = Missing \/ req[r].reset
     IN Goto(r, IF defaults THEN PutOf[k] ELSE NextGet(r))
  /\ UNCHANGED <<kv, session, log, saved, raced, logged, logRaced, dropped>>

GetSetting(r) ==
  /\ req[r].pc \in DOMAIN GetKey
  /\ LET k == GetKey[req[r].pc]
         defaults == kv[k] = Missing \/ (k = "config" /\ req[r].reset)
     IN Goto(r, IF defaults THEN PutOf[k] ELSE NextGet(r))
  /\ UNCHANGED <<kv, session, log, saved, raced, logged, logRaced, dropped>>

\* Someone else is about to put defaults into k.
AboutToReset(r, k) == \E q \in Request \ {r} : req[q].pc = PutOf[k]

Write(r, k, value) ==
  /\ kv' = [kv EXCEPT ![k] = value]
  /\ saved' = [saved EXCEPT ![k] = value]
  /\ raced' = [raced EXCEPT ![k] = AboutToReset(r, k)]

PutDefault(r) ==
  /\ req[r].pc \in DOMAIN PutKey
  /\ LET k == PutKey[req[r].pc]
     IN IF k = "config" /\ req[r].reset THEN Write(r, k, Default)
        ELSE kv' = [kv EXCEPT ![k] = Default] /\ UNCHANGED <<saved, raced>>
  /\ Goto(r, NextGet(r))
  /\ UNCHANGED <<session, log, logged, logRaced, dropped>>

\* /admin/init reads the configuration once more, to reset it, unless the
\* request is of foreign origin.
StartReset(r, trusted) ==
  /\ Stands(r, "reset")
  /\ IF trusted
     THEN req' = [req EXCEPT ![r].pc = "getConfig", ![r].reset = TRUE]
     ELSE Goto(r, "done")
  /\ UNCHANGED <<kv, session, log, saved, raced, logged, logRaced, dropped>>

\* A request of foreign origin, or with an incomplete body, saves nothing.
Save(r, acceptable) ==
  /\ Stands(r, "save")
  /\ IF acceptable THEN Write(r, SaveOf[req[r].kind], r)
                   ELSE UNCHANGED <<kv, saved, raced>>
  /\ Goto(r, "done")
  /\ UNCHANGED <<session, log, logged, logRaced, dropped>>

----------------------------------------------------------------------------
(* logRequest, which runs behind a subscription's reply.                    *)

GetLog(r) ==
  /\ Stands(r, "getLog")
  /\ req' = [req EXCEPT ![r].pc = IF log = <<>> THEN "putLog" ELSE "notify",
                        ![r].read = Append(log, r)]
  /\ UNCHANGED <<kv, session, log, saved, raced, logged, logRaced, dropped>>

\* The Telegram message, if there is an older entry; its failure is ignored.
Notify_FailureReplaces(r, ok) ==    \* the failure reaches the outer catch
  /\ Stands(r, "notify")
  /\ req' = [req EXCEPT ![r].pc = "putLog",
                        ![r].read = IF ok THEN @ ELSE <<r>>]
  /\ UNCHANGED <<kv, session, log, saved, raced, logged, logRaced, dropped>>

Notify(r, ok) ==
  /\ Stands(r, "notify")
  /\ Goto(r, "putLog")
  /\ UNCHANGED <<kv, session, log, saved, raced, logged, logRaced, dropped>>

\* Entries beyond the limit are shifted out, oldest first.
PutLog(r) ==
  /\ Stands(r, "putLog")
  /\ LET all == req[r].read
         excess == IF Len(all) > MaxLog THEN Len(all) - MaxLog ELSE 0
     IN /\ log' = SubSeq(all, excess + 1, Len(all))
        /\ dropped' = dropped \cup ToSet(SubSeq(all, 1, excess))
  /\ Goto(r, "done")
  /\ logged' = logged \cup {r}
  /\ logRaced' = logRaced \cup
       (IF \E q \in Request \ {r} : req[q].pc \in {"notify", "putLog"}
        THEN {r} ELSE {})
  /\ UNCHANGED <<kv, session, saved, raced>>

ConfigNext ==
  \E r \in Request :
    \/ \E kind \in Kind : RequestArrives(r, kind)
    \/ HandleLogin(r) \/ HandleLogout(r) \/ CheckAuth(r)
    \/ GetSetting(r) \/ PutDefault(r)
    \/ \E trusted \in BOOLEAN : StartReset(r, trusted)
    \/ \E acceptable \in BOOLEAN : Save(r, acceptable)
    \/ GetLog(r) \/ PutLog(r)
    \/ \E ok \in BOOLEAN : Notify(r, ok)

ConfigSpec == ConfigInit /\ [][ConfigNext]_kvVars

----------------------------------------------------------------------------
\* The administrator's last save, or reset, of a setting is what KV holds.
SettingsSurvive ==
  \A k \in Key : saved[k] # Missing /\ ~raced[k] => kv[k] = saved[k]

\* A logged request stays in the log until the limit drops it, and once.
LogSurvives ==
  /\ logged \ (logRaced \cup dropped) \subseteq ToSet(log)
  /\ IsInjective(log)

(***************************************************************************)
(* No request undoes another's write to KV: the defaults that every        *)
(* request puts where it found nothing replace no save of the              *)
(* administrator, a reset replaces config.json and neither of the other    *)
(* settings, and log entries do not displace each other.  The exceptions   *)
(* are the real races of a read and a later write: defaults that were      *)
(* about to be put when the save came, and overlapping writers of the log. *)
(***************************************************************************)
KvWritesSurvive == SettingsSurvive /\ LogSurvives
=============================================================================
