------------------------ MODULE WorkerParts_proofs ------------------------
(***************************************************************************)
(* What MCWorker checks of the parts of the Worker that share no state,    *)
(* for every number of chunks, requests, queries, sends and bytes: the     *)
(* HTTP tunnel, the settings and the log in KV, the Shadowsocks sender,    *)
(* the DNS relay and the stream decoders.                                  *)
(***************************************************************************)
EXTENDS ShadowsocksSender, DnsRelay, HttpTunnel, WorkerConfig,
        StreamDecoders, SequenceTheorems, FiniteSetTheorems,
        WellFoundedInduction, TLAPS

----------------------------------------------------------------------------
(* HttpTunnel.                                                             *)

Carrying == {"open", "half"}

HttpTypeOK ==
  /\ remote \in Link \cup {NoRemote}
  /\ link \in [Link -> {"none", "dialing", "open", "half", "closed"}]
  /\ lock \in BOOLEAN /\ cancelled \in BOOLEAN /\ adopted \in BOOLEAN

NotStarted == route = "none" => \A s \in Link : link[s] = "none"

\* A session has one socket at a time, and start() knows it.
OnlyRemoteCarries == \A s \in Link : link[s] \in Carrying => s = remote

\* The proxy is dialled when nothing is left of the direct connection.
ProxyAfterDirect ==
  link["proxy"] # "none" => link["direct"] \in {"none", "closed"}
DirectDialsFirst == link["direct"] = "dialing" => copy = "dial"

\* cancel() takes the reader away.
LockedIsListening == lock => ~cancelled

HttpInv ==
  /\ HttpTypeOK /\ NotStarted /\ OnlyRemoteCarries /\ ProxyAfterDirect
  /\ DirectDialsFirst /\ LockedIsListening /\ TunnelReleasesSockets

(* Closing the session's socket closes all that is open.                   *)
LEMMA CloseClosesAll ==
  HttpInv =>
    /\ Close(link, remote) \in [Link -> {"none", "dialing", "open", "half", "closed"}]
    /\ \A s \in Link :
         /\ Close(link, remote)[s] \notin Carrying
         /\ link[s] \notin Carrying => Close(link, remote)[s] = link[s]
         /\ link[s] \in Carrying => Close(link, remote)[s] = "closed"
  BY HttpAssumption
     DEF HttpInv, HttpTypeOK, OnlyRemoteCarries, Close, Carrying, Link

(* Every step of the tunnel keeps its invariant.                           *)
LEMMA HttpInductive == HttpInv /\ [HttpNext]_httpVars => HttpInv'
<1> SUFFICES ASSUME HttpInv, [HttpNext]_httpVars PROVE HttpInv'
  OBVIOUS
<1> USE DEF HttpInv, HttpTypeOK, NotStarted, OnlyRemoteCarries,
            ProxyAfterDirect, DirectDialsFirst, LockedIsListening,
            TunnelReleasesSockets, Link, Carrying
<1>1. ASSUME NEW r \in Route, HttpStarts(r) PROVE HttpInv'
  <2>1. /\ route' # "none" /\ copy' = "dial"
        /\ link' = [link EXCEPT ![IF r = "upstream" THEN "proxy" ELSE "direct"]
                                  = "dialing"]
        /\ UNCHANGED <<lock, cancelled, remote, adopted>>
        /\ \A s \in Link : link[s] = "none"
    BY <1>1 DEF HttpStarts, Route
  <2>2. CASE r = "upstream"
    BY <2>1, <2>2
  <2>3. CASE r # "upstream"
    BY <2>1, <2>3
  <2> QED
    BY <2>2, <2>3
<1>2. ASSUME NEW s \in Link, DialSucceeds(s) PROVE HttpInv'
  BY <1>2, HttpAssumption DEF DialSucceeds, Adopt
<1>3. ASSUME NEW s \in Link, DialFails(s) PROVE HttpInv'
  BY <1>3, HttpAssumption DEF DialFails
<1>4. CASE \/ ClientSendsChunk \/ ClientEndsBody \/ ReadChunk \/ ReadRejects
           \/ \E ok \in BOOLEAN : WriteReturns(ok)
           \/ \E s \in Link : RemoteAnswers(s) \/ ClosedHandler(s)
  BY <1>4 DEF ClientSendsChunk, ClientEndsBody, ReadChunk, ReadRejects,
              WriteReturns, RemoteAnswers, ClosedHandler
<1>5. CASE ReadEnd
  BY <1>5, HttpAssumption DEF ReadEnd
<1>6. CASE Catch
  BY <1>6, CloseClosesAll, HttpAssumption DEF Catch
<1>7. CASE Cancel
  BY <1>7, CloseClosesAll, HttpAssumption DEF Cancel
<1>8. ASSUME NEW s \in Link, RemoteCloses(s) PROVE HttpInv'
  BY <1>8 DEF RemoteCloses
<1>9. ASSUME NEW s \in Link, RelayEnds(s) PROVE HttpInv'
  BY <1>9 DEF RelayEnds
<1>10. CASE RetrySucceeds
  BY <1>10, HttpAssumption DEF RetrySucceeds, Adopt
<1>11. CASE RetryFails
  BY <1>11 DEF RetryFails
<1>12. CASE UNCHANGED httpVars
  BY <1>12 DEF httpVars
<1> QED
  BY <1>1, <1>2, <1>3, <1>4, <1>5, <1>6, <1>7, <1>8, <1>9, <1>10, <1>11, <1>12
     DEF HttpNext, HttpStep, DialEnds

(***************************************************************************)
(* However long the body is and however often the ends go away: when       *)
(* start() has ended, no socket of the session is left open, except one    *)
(* closed for writing while the client listens, or one that a retry opened *)
(* afterwards.                                                             *)
(***************************************************************************)
THEOREM SocketsReleased == HttpSpec => []TunnelReleasesSockets
<1>1. HttpInit => HttpInv
  BY HttpAssumption
     DEF HttpInit, HttpInv, HttpTypeOK, NotStarted, OnlyRemoteCarries,
         ProxyAfterDirect, DirectDialsFirst, LockedIsListening,
         TunnelReleasesSockets, Link, Carrying
<1>2. HttpInv => TunnelReleasesSockets
  BY DEF HttpInv
<1> QED
  BY <1>1, <1>2, HttpInductive, PTL DEF HttpSpec

----------------------------------------------------------------------------
(* WorkerConfig.                                                           *)

Places == {"idle", "login", "logout", "checkAuth", "getConfig", "getTg",
           "getCf", "putConfig", "putTg", "putCf", "reset", "save", "getLog",
           "notify", "putLog", "done"}
Puts == {"putConfig", "putTg", "putCf"}
Reading == {"notify", "putLog"}
Value == Request \cup {Missing, Default}
RequestState == [kind : Kind \cup {"none"}, pc : Places, reset : BOOLEAN,
                 read : Seq(Request)]

ConfigTypeOK ==
  /\ kv \in [Key -> Value] /\ saved \in [Key -> Value]
  /\ raced \in [Key -> BOOLEAN]
  /\ req \in [Request -> RequestState]
  /\ log \in Seq(Request)
  /\ logged \subseteq Request

\* Who has no session, or is no administrator, saves nothing.
PlaceOfKind ==
  \A r \in Request :
    /\ req[r].pc \in {"checkAuth", "getConfig", "getTg", "getCf", "putConfig",
                      "putTg", "putCf", "reset"}
         => req[r].kind \notin {"none", "login", "logout"}
    /\ req[r].pc = "save" => req[r].kind \in {"saveConfig", "saveTg", "saveCf"}

\* Nobody is about to put defaults over an undisturbed save.
SaveStands ==
  \A k \in Key : saved[k] # Missing /\ ~raced[k] =>
    /\ kv[k] = saved[k]
    /\ \A q \in Request : req[q].pc = PutOf[k] => k = "config" /\ req[q].reset

Surviving == logged \ (logRaced \cup dropped)

\* What a writer of the log has read is still all that there is.
WriterKnowsLog ==
  \A r \in Request : req[r].pc \in Reading =>
    /\ r \notin logged
    /\ IsInjective(req[r].read) /\ r \in ToSet(req[r].read)
    /\ ToSet(req[r].read) \subseteq logged \cup {r}
    /\ Surviving \subseteq ToSet(req[r].read)

LogHolds ==
  /\ IsInjective(log) /\ ToSet(log) \subseteq logged
  /\ Surviving \subseteq ToSet(log)
  /\ \A r \in logged : req[r].pc = "done"

ConfigInv ==
  /\ ConfigTypeOK /\ PlaceOfKind /\ SaveStands /\ WriterKnowsLog /\ LogHolds

(* Cutting a sequence in two loses no element ...                          *)
LEMMA CutSet ==
  ASSUME NEW S, NEW s \in Seq(S), NEW e \in 0..Len(s)
  PROVE  ToSet(s) = ToSet(SubSeq(s, 1, e)) \cup ToSet(SubSeq(s, e + 1, Len(s)))
<1> DEFINE x == SubSeq(s, 1, e)
           y == SubSeq(s, e + 1, Len(s))
<1>1. /\ Len(s) \in Nat /\ DOMAIN s = 1..Len(s)
      /\ DOMAIN x = 1..e /\ \A i \in 1..e : x[i] = s[i]
      /\ DOMAIN y = 1..(Len(s) - e)
      /\ \A i \in 1..(Len(s) - e) : y[i] = s[e + i]
  OBVIOUS
<1> HIDE DEF x, y
<1>2. ASSUME NEW v \in ToSet(s) PROVE v \in ToSet(x) \cup ToSet(y)
  <2>1. PICK i \in 1..Len(s) : v = s[i]
    BY <1>1, <1>2 DEF ToSet
  <2>2. CASE i <= e
    BY <1>1, <2>1, <2>2 DEF ToSet
  <2>3. CASE i > e
    <3>1. i - e \in 1..(Len(s) - e) /\ y[i - e] = s[i]
      BY <1>1, <2>3
    <3> QED
      BY <1>1, <2>1, <3>1 DEF ToSet
  <2> QED
    BY <1>1, <2>2, <2>3
<1>3. ToSet(x) \subseteq ToSet(s)
  BY <1>1 DEF ToSet
<1>4. ToSet(y) \subseteq ToSet(s)
  <2>1. \A i \in 1..(Len(s) - e) : e + i \in 1..Len(s)
    BY <1>1
  <2> QED
    BY <1>1, <2>1 DEF ToSet
<1> QED
  BY <1>2, <1>3, <1>4 DEF x, y

(* ... and repeats none.                                                   *)
LEMMA CutInjective ==
  ASSUME NEW S, NEW s \in Seq(S), NEW e \in 0..Len(s), IsInjective(s)
  PROVE  IsInjective(SubSeq(s, e + 1, Len(s)))
<1> DEFINE y == SubSeq(s, e + 1, Len(s))
<1>1. /\ Len(s) \in Nat /\ DOMAIN s = 1..Len(s)
      /\ DOMAIN y = 1..(Len(s) - e)
      /\ \A i \in 1..(Len(s) - e) : y[i] = s[e + i]
  OBVIOUS
<1> HIDE DEF y
<1>2. ASSUME NEW i \in DOMAIN y, NEW j \in DOMAIN y, y[i] = y[j] PROVE i = j
  <2>1. e + i \in DOMAIN s /\ e + j \in DOMAIN s /\ s[e + i] = s[e + j]
    BY <1>1, <1>2
  <2>2. e + i = e + j
    BY <2>1 DEF IsInjective
  <2> QED
    BY <1>1, <2>2
<1>3. IsInjective(y)
  BY <1>2 DEF IsInjective
<1> QED
  BY <1>3 DEF y

(* An appended element is the only one to come, and repeats none that was  *)
(* not there.                                                              *)
LEMMA AppendSet ==
  ASSUME NEW S, NEW s \in Seq(S), NEW v \in S
  PROVE  /\ Append(s, v) \in Seq(S)
         /\ ToSet(Append(s, v)) = ToSet(s) \cup {v}
         /\ IsInjective(s) /\ v \notin ToSet(s) => IsInjective(Append(s, v))
<1> DEFINE t == Append(s, v)
<1>1. /\ Len(s) \in Nat /\ DOMAIN s = 1..Len(s) /\ t \in Seq(S)
      /\ DOMAIN t = 1..(Len(s) + 1)
      /\ \A i \in 1..Len(s) : t[i] = s[i]
      /\ t[Len(s) + 1] = v
  OBVIOUS
<1> HIDE DEF t
<1>2. ToSet(t) = ToSet(s) \cup {v}
  <2>1. ASSUME NEW w \in ToSet(t) PROVE w \in ToSet(s) \cup {v}
    <3>1. PICK i \in 1..(Len(s) + 1) : w = t[i]
      BY <1>1, <2>1 DEF ToSet
    <3>2. i \in 1..Len(s) \/ i = Len(s) + 1
      BY <1>1
    <3> QED
      BY <1>1, <3>1, <3>2 DEF ToSet
  <2>2. ASSUME NEW w \in ToSet(s) PROVE w \in ToSet(t)
    <3>1. PICK i \in 1..Len(s) : w = s[i]
      BY <1>1, <2>2 DEF ToSet
    <3>2. i \in DOMAIN t /\ t[i] = w
      BY <1>1, <3>1
    <3> QED
      BY <3>2 DEF ToSet
  <2>3. v \in ToSet(t)
    <3>1. Len(s) + 1 \in DOMAIN t
      BY <1>1
    <3> QED
      BY <1>1, <3>1 DEF ToSet
  <2> QED
    BY <2>1, <2>2, <2>3
<1>3. ASSUME IsInjective(s), v \notin ToSet(s) PROVE IsInjective(t)
  <2>1. \A i \in 1..Len(s) : s[i] # v
    BY <1>1, <1>3 DEF ToSet
  <2>2. \A i, j \in 1..Len(s) : s[i] = s[j] => i = j
    BY <1>1, <1>3 DEF IsInjective
  <2>3. ASSUME NEW i \in 1..(Len(s) + 1), NEW j \in 1..(Len(s) + 1), t[i] = t[j]
        PROVE  i = j
    <3>1. /\ i \in 1..Len(s) \/ i = Len(s) + 1
          /\ j \in 1..Len(s) \/ j = Len(s) + 1
      BY <1>1
    <3> QED
      BY <1>1, <2>1, <2>2, <2>3, <3>1
  <2> QED
    BY <1>1, <2>3 DEF IsInjective
<1> QED
  BY <1>1, <1>2, <1>3 DEF t

(* What Goto does to a request.                                            *)
LEMMA GotoEffect ==
  ASSUME req \in [Request -> RequestState], NEW r \in Request,
         NEW pc \in Places, Goto(r, pc)
  PROVE  /\ req' \in [Request -> RequestState]
         /\ req'[r].pc = pc
         /\ pc # "done" => /\ req'[r].kind = req[r].kind
                           /\ req'[r].reset = req[r].reset
                           /\ req'[r].read = req[r].read
         /\ \A q \in Request \ {r} : req'[q] = req[q]
<1>1. CASE pc = "done"
  <2> DEFINE rec == [Idle EXCEPT !.pc = pc]
  <2>1. req' = [req EXCEPT ![r] = rec]
    BY <1>1 DEF Goto
  <2>2. rec \in RequestState /\ rec.pc = pc
    <3>1. <<>> \in Seq(Request)
      OBVIOUS
    <3>2. Idle \in RequestState
      BY <3>1 DEF Idle, RequestState, Places
    <3> QED
      BY <3>2 DEF RequestState
  <2> HIDE DEF rec
  <2> QED
    BY <1>1, <2>1, <2>2
<1>2. CASE pc # "done"
  <2> DEFINE rec == [req[r] EXCEPT !.pc = pc]
  <2>1. req' = [req EXCEPT ![r] = rec]
    BY <1>2 DEF Goto
  <2>2. /\ rec \in RequestState /\ rec.pc = pc /\ rec.kind = req[r].kind
        /\ rec.reset = req[r].reset /\ rec.read = req[r].read
    BY DEF RequestState
  <2> HIDE DEF rec
  <2> QED
    BY <1>2, <2>1, <2>2
<1> QED
  BY <1>1, <1>2

(* A step that leaves KV's settings alone, and sends nobody to put a       *)
(* default.                                                                *)
LEMMA SaveStandsFrame ==
  ASSUME SaveStands, UNCHANGED <<kv, saved, raced>>,
         \A q \in Request : req'[q].pc \in Puts => req'[q] = req[q]
  PROVE  SaveStands'
<1>1. \A k \in Key : PutOf[k] \in Puts
  BY DEF Key, PutOf, Puts
<1> QED
  BY <1>1 DEF SaveStands

(* A step that leaves the log alone, and makes nobody a writer of it.      *)
LEMMA LogFrame ==
  ASSUME WriterKnowsLog, LogHolds,
         UNCHANGED <<log, logged, logRaced, dropped>>,
         \A q \in Request : req'[q].pc \in Reading =>
           req[q].pc \in Reading /\ req'[q].read = req[q].read,
         \A q \in Request : req[q].pc = "done" => req'[q].pc = "done",
         logged \subseteq Request
  PROVE  WriterKnowsLog' /\ LogHolds'
<1>1. Surviving' = Surviving
  BY DEF Surviving
<1> QED
  BY <1>1 DEF WriterKnowsLog, LogHolds

(* Goto, to a place where nothing is put and no log is written.            *)
LEMMA GotoFrame ==
  ASSUME ConfigInv, NEW r \in Request, NEW pc \in Places \ Puts, Goto(r, pc),
         req[r].pc # "done", pc \in Reading => req[r].pc \in Reading
  PROVE  /\ UNCHANGED <<kv, saved, raced>> => SaveStands'
         /\ UNCHANGED <<log, logged, logRaced, dropped>>
              => WriterKnowsLog' /\ LogHolds'
<1>1. /\ req' \in [Request -> RequestState]
      /\ req'[r].pc = pc
      /\ pc # "done" => req'[r].read = req[r].read
      /\ \A q \in Request \ {r} : req'[q] = req[q]
  BY GotoEffect DEF ConfigInv, ConfigTypeOK
<1>2. \A q \in Request : req'[q].pc \in Puts => req'[q] = req[q]
  BY <1>1
<1>3. \A q \in Request : req'[q].pc \in Reading =>
        req[q].pc \in Reading /\ req'[q].read = req[q].read
  BY <1>1 DEF Reading
<1>4. \A q \in Request : req[q].pc = "done" => req'[q].pc = "done"
  BY <1>1
<1> QED
  BY <1>2, <1>3, <1>4, SaveStandsFrame, LogFrame DEF ConfigInv, ConfigTypeOK

\* Where a request may go after a get or a put.
LEMMA NextGetPlaces ==
  ASSUME ConfigInv, NEW r \in Request, req[r].pc \in DOMAIN GetKey \cup DOMAIN PutKey
  PROVE  /\ NextGet(r) \in {"getTg", "getCf", "reset", "getLog", "done", "save"}
         /\ NextGet(r) = "save"
              => req[r].kind \in {"saveConfig", "saveTg", "saveCf"}
<1>1. req[r].kind \in {"sub", "init", "saveConfig", "saveTg", "saveCf"}
  BY DEF ConfigInv, ConfigTypeOK, PlaceOfKind, RequestState, Kind, GetKey,
         PutKey
<1> QED
  BY <1>1 DEF NextGet, AfterConfig, Places, Puts, Reading

(* What PlaceOfKind asks of the one request that moved.                    *)
LEMMA PlaceFrame ==
  ASSUME ConfigInv, NEW r \in Request, req' \in [Request -> RequestState],
         \A q \in Request \ {r} : req'[q] = req[q],
         req'[r].pc \in {"getConfig", "getTg", "getCf", "putConfig", "putTg",
                         "putCf", "checkAuth", "reset"}
           => req'[r].kind \notin {"none", "login", "logout"},
         req'[r].pc = "save"
           => req'[r].kind \in {"saveConfig", "saveTg", "saveCf"}
  PROVE  PlaceOfKind'
  BY DEF ConfigInv, PlaceOfKind

(* A request arrives, logs in or out, or is checked.                       *)
LEMMA ArrivesStep ==
  ASSUME ConfigInv, NEW r \in Request, NEW kind \in Kind,
         RequestArrives(r, kind)
  PROVE  ConfigInv'
<1> DEFINE p == CASE kind = "sub" -> "getConfig"
                  [] kind \in {"login", "logout"} -> kind
                  [] OTHER -> "checkAuth"
           rec == [req[r] EXCEPT !.kind = kind, !.pc = p]
<1>1. /\ p \in {"getConfig", "login", "logout", "checkAuth"}
      /\ p \in {"getConfig", "checkAuth"} => kind \notin {"none", "login", "logout"}
  BY DEF Kind
<1>2. req' = [req EXCEPT ![r] = rec]
  BY DEF RequestArrives, ConfigInv, ConfigTypeOK, RequestState
<1> HIDE DEF p
<1>3. /\ rec \in RequestState /\ rec.pc = p /\ rec.kind = kind
  BY <1>1 DEF RequestState, Places, ConfigInv, ConfigTypeOK
<1> HIDE DEF rec
<1>4. /\ req' \in [Request -> RequestState] /\ req'[r].pc = p
      /\ req'[r].kind = kind
      /\ \A q \in Request \ {r} : req'[q] = req[q]
      /\ req[r].pc = "idle"
      /\ UNCHANGED <<kv, log, saved, raced, logged, logRaced, dropped>>
  BY <1>2, <1>3
     DEF ConfigInv, ConfigTypeOK, RequestArrives, Stands
<1>5. PlaceOfKind'
  BY <1>1, <1>4, PlaceFrame
<1>6. SaveStands'
  <2>1. \A q \in Request : req'[q].pc \in Puts => req'[q] = req[q]
    BY <1>1, <1>4 DEF Puts
  <2> QED
    BY <1>4, <2>1, SaveStandsFrame DEF ConfigInv
<1>7. WriterKnowsLog' /\ LogHolds'
  <2>1. \A q \in Request : req'[q].pc \in Reading =>
          req[q].pc \in Reading /\ req'[q].read = req[q].read
    BY <1>1, <1>4 DEF Reading
  <2>2. \A q \in Request : req[q].pc = "done" => req'[q].pc = "done"
    BY <1>4
  <2> QED
    BY <1>4, <2>1, <2>2, LogFrame DEF ConfigInv, ConfigTypeOK
<1> QED
  BY <1>4, <1>5, <1>6, <1>7 DEF ConfigInv, ConfigTypeOK

(* A step that only moves a request.                                       *)
LEMMA GotoStep ==
  ASSUME ConfigInv, NEW r \in Request, NEW pc \in Places \ Puts, Goto(r, pc),
         req[r].pc # "done", pc \in Reading => req[r].pc \in Reading,
         pc \in {"getConfig", "getTg", "getCf", "checkAuth", "reset"}
           => req[r].kind \notin {"none", "login", "logout"},
         pc = "save" => req[r].kind \in {"saveConfig", "saveTg", "saveCf"},
         UNCHANGED <<kv, saved, raced, log, logged, logRaced, dropped>>
  PROVE  ConfigInv'
<1>1. /\ req' \in [Request -> RequestState]
      /\ req'[r].pc = pc
      /\ pc # "done" => req'[r].kind = req[r].kind
      /\ \A q \in Request \ {r} : req'[q] = req[q]
  BY GotoEffect DEF ConfigInv, ConfigTypeOK
<1>2. PlaceOfKind'
  BY <1>1, PlaceFrame DEF Puts
<1>3. SaveStands' /\ WriterKnowsLog' /\ LogHolds'
  BY GotoFrame
<1> QED
  BY <1>1, <1>2, <1>3 DEF ConfigInv, ConfigTypeOK

(* A get of a setting, after which a default may be due.                   *)
LEMMA GetSettingStep ==
  ASSUME ConfigInv, NEW r \in Request, GetSetting(r)
  PROVE  ConfigInv'
<1> DEFINE k == GetKey[req[r].pc]
           defaults == kv[k] = Missing \/ (k = "config" /\ req[r].reset)
           pc == IF defaults THEN PutOf[k] ELSE NextGet(r)
<1>1. /\ req[r].pc \in {"getConfig", "getTg", "getCf"} /\ k \in Key
      /\ Goto(r, pc) /\ PutOf[k] \in Puts
      /\ UNCHANGED <<kv, saved, raced, log, logged, logRaced, dropped>>
  BY DEF GetSetting, GetKey, Key, PutOf, Puts
<1>2. /\ NextGet(r) \in {"getTg", "getCf", "reset", "getLog", "done", "save"}
      /\ NextGet(r) = "save"
           => req[r].kind \in {"saveConfig", "saveTg", "saveCf"}
  BY <1>1, NextGetPlaces DEF GetKey
<1>3. req[r].kind \notin {"none", "login", "logout"}
  BY <1>1 DEF ConfigInv, PlaceOfKind
<1>4. CASE ~defaults
  <2>1. pc = NextGet(r)
    BY <1>4
  <2>2. NextGet(r) \in Places \ Puts /\ NextGet(r) \notin Reading
    BY <1>2 DEF Places, Puts, Reading
  <2> HIDE DEF k, defaults, pc
  <2> QED
    BY <1>1, <1>2, <1>3, <2>1, <2>2, GotoStep
<1>5. CASE defaults
  <2>1. pc = PutOf[k] /\ pc \in Puts /\ pc \in Places /\ pc # "done"
        /\ pc \notin Reading /\ pc # "save"
    BY <1>1, <1>5 DEF Puts, Places, Reading
  <2>2. \A m \in Key : m # k => PutOf[m] # PutOf[k]
    BY <1>1 DEF Key, PutOf
  <2>d. saved[k] # Missing /\ ~raced[k] => k = "config" /\ req[r].reset
    BY <1>1, <1>5 DEF ConfigInv, SaveStands
  <2> HIDE DEF k, defaults, pc
  <2>3. /\ req' \in [Request -> RequestState]
        /\ req'[r].pc = pc /\ req'[r].kind = req[r].kind
        /\ req'[r].reset = req[r].reset
        /\ \A q \in Request \ {r} : req'[q] = req[q]
    BY <1>1, <2>1, GotoEffect DEF ConfigInv, ConfigTypeOK
  <2>4. PlaceOfKind'
    BY <1>3, <2>1, <2>3, PlaceFrame
  <2>5. SaveStands'
    <3> SUFFICES ASSUME NEW m \in Key, saved[m] # Missing, ~raced[m],
                        NEW q \in Request, req'[q].pc = PutOf[m]
                 PROVE  m = "config" /\ req'[q].reset
      BY <1>1 DEF ConfigInv, SaveStands
    <3>1. CASE q # r
      BY <2>3, <3>1 DEF ConfigInv, SaveStands
    <3>2. CASE q = r
      BY <1>1, <2>1, <2>2, <2>d, <2>3, <3>2
    <3> QED
      BY <3>1, <3>2
  <2>6. WriterKnowsLog' /\ LogHolds'
    <3>1. \A q \in Request : req'[q].pc \in Reading =>
            req[q].pc \in Reading /\ req'[q].read = req[q].read
      BY <2>1, <2>3
    <3>2. \A q \in Request : req[q].pc = "done" => req'[q].pc = "done"
      BY <1>1, <2>3
    <3> QED
      BY <1>1, <3>1, <3>2, LogFrame DEF ConfigInv, ConfigTypeOK
  <2> QED
    BY <1>1, <2>3, <2>4, <2>5, <2>6 DEF ConfigInv, ConfigTypeOK
<1> QED
  BY <1>4, <1>5

(* A write of the administrator's, which its request is done with.         *)
LEMMA WriteStands ==
  ASSUME ConfigInv, NEW r \in Request, NEW k \in Key,
         NEW value \in Request \cup {Default}, Write(r, k, value),
         NEW pc \in Places \ Puts, Goto(r, pc)
  PROVE  /\ SaveStands'
         /\ kv' \in [Key -> Value] /\ saved' \in [Key -> Value]
         /\ raced' \in [Key -> BOOLEAN]
<1>1. /\ kv' = [kv EXCEPT ![k] = value]
      /\ saved' = [saved EXCEPT ![k] = value]
      /\ raced' = [raced EXCEPT ![k] = AboutToReset(r, k)]
  BY DEF Write
<1>2. /\ req'[r].pc = pc
      /\ \A q \in Request \ {r} : req'[q] = req[q]
  BY GotoEffect DEF ConfigInv, ConfigTypeOK
<1>3. AboutToReset(r, k) \in BOOLEAN
  BY DEF AboutToReset
<1>4. /\ kv' \in [Key -> Value] /\ saved' \in [Key -> Value]
      /\ raced' \in [Key -> BOOLEAN]
  BY <1>1, <1>3 DEF ConfigInv, ConfigTypeOK, Value
<1>5. \A m \in Key : PutOf[m] \in Puts
  BY DEF Key, PutOf, Puts
<1>6. SaveStands'
  <2> SUFFICES ASSUME NEW m \in Key, saved'[m] # Missing, ~raced'[m]
               PROVE  /\ kv'[m] = saved'[m]
                      /\ \A q \in Request : req'[q].pc = PutOf[m]
                           => m = "config" /\ req'[q].reset
    BY DEF SaveStands
  <2>1. CASE m = k
    <3>1. ~AboutToReset(r, k)
      BY <1>1, <2>1 DEF ConfigInv, ConfigTypeOK
    <3>2. \A q \in Request : req'[q].pc # PutOf[k]
      BY <1>2, <1>5, <3>1 DEF AboutToReset
    <3>3. kv'[k] = saved'[k]
      BY <1>1 DEF ConfigInv, ConfigTypeOK
    <3> QED
      BY <2>1, <3>2, <3>3
  <2>2. CASE m # k
    <3>1. kv'[m] = kv[m] /\ saved'[m] = saved[m] /\ raced'[m] = raced[m]
      BY <1>1, <2>2 DEF ConfigInv, ConfigTypeOK
    <3>2. \A q \in Request : req'[q].pc = PutOf[m] => req'[q] = req[q]
      BY <1>2, <1>5
    <3> QED
      BY <3>1, <3>2 DEF ConfigInv, SaveStands
  <2> QED
    BY <2>1, <2>2
<1> QED
  BY <1>4, <1>6

(* The log-in, the log-out, the check of the session and the Telegram      *)
(* message only move their request.                                        *)
LEMMA MovesStep ==
  ASSUME ConfigInv, NEW r \in Request,
         \/ HandleLogin(r) \/ HandleLogout(r) \/ CheckAuth(r)
         \/ \E ok \in BOOLEAN : Notify(r, ok)
  PROVE  ConfigInv'
<1>1. CASE HandleLogin(r) \/ HandleLogout(r)
  <2>1. /\ Goto(r, "done") /\ req[r].pc \in {"login", "logout"}
        /\ UNCHANGED <<kv, saved, raced, log, logged, logRaced, dropped>>
    BY <1>1 DEF HandleLogin, HandleLogout, Stands
  <2> QED
    BY <2>1, GotoStep DEF Places, Puts, Reading
<1>2. CASE CheckAuth(r)
  <2> DEFINE pc == IF session THEN "getConfig" ELSE "done"
  <2>1. /\ Goto(r, pc) /\ req[r].pc = "checkAuth"
        /\ UNCHANGED <<kv, saved, raced, log, logged, logRaced, dropped>>
    BY <1>2 DEF CheckAuth, Stands
  <2>2. pc \in {"getConfig", "done"}
    OBVIOUS
  <2>3. req[r].kind \notin {"none", "login", "logout"}
    BY <2>1 DEF ConfigInv, PlaceOfKind
  <2> HIDE DEF pc
  <2> QED
    BY <2>1, <2>2, <2>3, GotoStep DEF Places, Puts, Reading
<1>3. CASE \E ok \in BOOLEAN : Notify(r, ok)
  <2>1. /\ Goto(r, "putLog") /\ req[r].pc = "notify"
        /\ UNCHANGED <<kv, saved, raced, log, logged, logRaced, dropped>>
    BY <1>3 DEF Notify, Stands
  <2> QED
    BY <2>1, GotoStep DEF Places, Puts, Reading
<1> QED
  BY <1>1, <1>2, <1>3

(* The administrator's reset starts, or is refused.                        *)
LEMMA StartResetStep ==
  ASSUME ConfigInv, NEW r \in Request, NEW trusted \in BOOLEAN,
         StartReset(r, trusted)
  PROVE  ConfigInv'
<1>1. /\ req[r].pc = "reset"
      /\ UNCHANGED <<kv, saved, raced, log, logged, logRaced, dropped>>
  BY DEF StartReset, Stands
<1>2. CASE ~trusted
  <2>1. Goto(r, "done")
    BY <1>2 DEF StartReset
  <2> QED
    BY <1>1, <2>1, GotoStep DEF Places, Puts, Reading
<1>3. CASE trusted
  <2> DEFINE rec == [req[r] EXCEPT !.pc = "getConfig", !.reset = TRUE]
  <2>1. req' = [req EXCEPT ![r] = rec]
    BY <1>3 DEF StartReset, ConfigInv, ConfigTypeOK, RequestState
  <2>2. /\ rec \in RequestState /\ rec.pc = "getConfig"
        /\ rec.kind = req[r].kind
    BY DEF RequestState, Places, ConfigInv, ConfigTypeOK
  <2> HIDE DEF rec
  <2>3. /\ req' \in [Request -> RequestState] /\ req'[r].pc = "getConfig"
        /\ req'[r].kind = req[r].kind
        /\ \A q \in Request \ {r} : req'[q] = req[q]
    BY <2>1, <2>2 DEF ConfigInv, ConfigTypeOK
  <2>4. PlaceOfKind'
    <3>1. req[r].kind \notin {"none", "login", "logout"}
      BY <1>1 DEF ConfigInv, PlaceOfKind
    <3> QED
      BY <2>3, <3>1, PlaceFrame
  <2>5. SaveStands'
    <3>1. \A q \in Request : req'[q].pc \in Puts => req'[q] = req[q]
      BY <2>3 DEF Puts
    <3> QED
      BY <1>1, <3>1, SaveStandsFrame DEF ConfigInv
  <2>6. WriterKnowsLog' /\ LogHolds'
    <3>1. \A q \in Request : req'[q].pc \in Reading =>
            req[q].pc \in Reading /\ req'[q].read = req[q].read
      BY <2>3 DEF Reading
    <3>2. \A q \in Request : req[q].pc = "done" => req'[q].pc = "done"
      BY <1>1, <2>3
    <3> QED
      BY <1>1, <3>1, <3>2, LogFrame DEF ConfigInv, ConfigTypeOK
  <2> QED
    BY <1>1, <2>3, <2>4, <2>5, <2>6 DEF ConfigInv, ConfigTypeOK
<1> QED
  BY <1>2, <1>3

(* The administrator saves a setting, or is refused.                       *)
LEMMA SaveStep ==
  ASSUME ConfigInv, NEW r \in Request, NEW acceptable \in BOOLEAN,
         Save(r, acceptable)
  PROVE  ConfigInv'
<1>1. /\ req[r].pc = "save" /\ Goto(r, "done")
      /\ UNCHANGED <<log, logged, logRaced, dropped>>
  BY DEF Save, Stands
<1>2. CASE ~acceptable
  <2>1. UNCHANGED <<kv, saved, raced>>
    BY <1>2 DEF Save
  <2> QED
    BY <1>1, <2>1, GotoStep DEF Places, Puts, Reading
<1>3. CASE acceptable
  <2> DEFINE k == SaveOf[req[r].kind]
  <2>1. Write(r, k, r)
    BY <1>3 DEF Save
  <2>2. k \in Key
    BY <1>1 DEF ConfigInv, PlaceOfKind, SaveOf, Key
  <2> HIDE DEF k
  <2>3. "done" \in Places \ Puts /\ "done" \notin Reading
    BY DEF Places, Puts, Reading
  <2>4. /\ SaveStands'
        /\ kv' \in [Key -> Value] /\ saved' \in [Key -> Value]
        /\ raced' \in [Key -> BOOLEAN]
    BY <1>1, <2>1, <2>2, <2>3, WriteStands
  <2>5. /\ req' \in [Request -> RequestState] /\ req'[r].pc = "done"
        /\ \A q \in Request \ {r} : req'[q] = req[q]
    BY <1>1, <2>3, GotoEffect DEF ConfigInv, ConfigTypeOK
  <2>6. PlaceOfKind'
    BY <2>5, PlaceFrame
  <2>7. WriterKnowsLog' /\ LogHolds'
    BY <1>1, <2>3, GotoFrame
  <2> QED
    BY <1>1, <2>4, <2>5, <2>6, <2>7 DEF ConfigInv, ConfigTypeOK
<1> QED
  BY <1>2, <1>3

(* A default is put.  Over an undisturbed save that is the administrator's *)
(* own reset.                                                              *)
LEMMA PutDefaultStep ==
  ASSUME ConfigInv, NEW r \in Request, PutDefault(r)
  PROVE  ConfigInv'
<1> DEFINE k == PutKey[req[r].pc]
           pc == NextGet(r)
<1>1. /\ req[r].pc \in Puts /\ k \in Key /\ req[r].pc = PutOf[k]
      /\ Goto(r, pc)
      /\ UNCHANGED <<log, logged, logRaced, dropped>>
  BY DEF PutDefault, PutKey, Key, PutOf, Puts
<1>2. /\ pc \in {"getTg", "getCf", "reset", "getLog", "done", "save"}
      /\ pc = "save" => req[r].kind \in {"saveConfig", "saveTg", "saveCf"}
  BY <1>1, NextGetPlaces DEF Puts, PutKey
<1>3. /\ req[r].kind \notin {"none", "login", "logout"}
      /\ pc \in Places \ Puts /\ pc \notin Reading
      /\ req[r].pc # "done"
  BY <1>1, <1>2 DEF ConfigInv, PlaceOfKind, Puts, Places, Reading
<1>4. IF k = "config" /\ req[r].reset THEN Write(r, k, Default)
      ELSE kv' = [kv EXCEPT ![k] = Default] /\ UNCHANGED <<saved, raced>>
  BY DEF PutDefault
<1> HIDE DEF k, pc
<1>5. /\ req' \in [Request -> RequestState] /\ req'[r].pc = pc
      /\ pc # "done" => req'[r].kind = req[r].kind
      /\ \A q \in Request \ {r} : req'[q] = req[q]
  BY <1>1, <1>3, GotoEffect DEF ConfigInv, ConfigTypeOK
<1>6. PlaceOfKind'
  BY <1>2, <1>3, <1>5, PlaceFrame
<1>7. WriterKnowsLog' /\ LogHolds'
  BY <1>1, <1>3, GotoFrame
<1>8. /\ SaveStands'
      /\ kv' \in [Key -> Value] /\ saved' \in [Key -> Value]
      /\ raced' \in [Key -> BOOLEAN]
  <2>1. CASE k = "config" /\ req[r].reset
    BY <1>1, <1>3, <1>4, <2>1, WriteStands
  <2>2. CASE ~(k = "config" /\ req[r].reset)
    <3>1. kv' = [kv EXCEPT ![k] = Default] /\ UNCHANGED <<saved, raced>>
      BY <1>4, <2>2
    <3>2. ~(saved[k] # Missing /\ ~raced[k])
      BY <1>1, <2>2 DEF ConfigInv, SaveStands
    <3>3. \A m \in Key : PutOf[m] \in Puts
      BY DEF Key, PutOf, Puts
    <3>4. \A q \in Request : req'[q].pc \in Puts => req'[q] = req[q]
      BY <1>3, <1>5
    <3>5. kv' \in [Key -> Value]
      BY <1>1, <3>1 DEF ConfigInv, ConfigTypeOK, Value
    <3>6. \A m \in Key : m # k => kv'[m] = kv[m]
      BY <3>1 DEF ConfigInv, ConfigTypeOK
    <3>7. SaveStands'
      <4> SUFFICES ASSUME NEW m \in Key, saved[m] # Missing, ~raced[m]
                   PROVE  /\ kv'[m] = saved[m]
                          /\ \A q \in Request : req'[q].pc = PutOf[m]
                               => m = "config" /\ req'[q].reset
        BY <3>1 DEF SaveStands
      <4>1. m # k
        BY <3>2
      <4> QED
        BY <3>3, <3>4, <3>6, <4>1 DEF ConfigInv, SaveStands
    <3> QED
      BY <3>1, <3>5, <3>7 DEF ConfigInv, ConfigTypeOK
  <2> QED
    BY <2>1, <2>2
<1> QED
  BY <1>1, <1>5, <1>6, <1>7, <1>8 DEF ConfigInv, ConfigTypeOK

(* A request reads the log, to which its own entry comes.                  *)
LEMMA GetLogStep ==
  ASSUME ConfigInv, NEW r \in Request, GetLog(r)
  PROVE  ConfigInv'
<1> DEFINE p == IF log = <<>> THEN "putLog" ELSE "notify"
           all == Append(log, r)
           rec == [req[r] EXCEPT !.pc = p, !.read = all]
<1>1. /\ req[r].pc = "getLog"
      /\ UNCHANGED <<kv, saved, raced, log, logged, logRaced, dropped>>
  BY DEF GetLog, Stands
<1>2. r \notin logged /\ r \notin ToSet(log)
  BY <1>1 DEF ConfigInv, LogHolds
<1>3. /\ all \in Seq(Request) /\ ToSet(all) = ToSet(log) \cup {r}
      /\ IsInjective(all)
  BY <1>2, AppendSet DEF ConfigInv, ConfigTypeOK, LogHolds
<1>4. p \in Reading
  BY DEF Reading
<1>5. req' = [req EXCEPT ![r] = rec]
  BY DEF GetLog, ConfigInv, ConfigTypeOK, RequestState
<1> HIDE DEF all, p
<1>6. /\ rec \in RequestState /\ rec.pc = p /\ rec.read = all
  BY <1>3, <1>4 DEF RequestState, Places, Reading, ConfigInv, ConfigTypeOK
<1> HIDE DEF rec
<1>7. /\ req' \in [Request -> RequestState] /\ req'[r].pc = p
      /\ req'[r].read = all
      /\ \A q \in Request \ {r} : req'[q] = req[q]
  BY <1>5, <1>6 DEF ConfigInv, ConfigTypeOK
<1>8. PlaceOfKind'
  BY <1>4, <1>7, PlaceFrame DEF Reading
<1>9. SaveStands'
  <2>1. \A q \in Request : req'[q].pc \in Puts => req'[q] = req[q]
    BY <1>4, <1>7 DEF Puts, Reading
  <2> QED
    BY <1>1, <2>1, SaveStandsFrame DEF ConfigInv
<1>10. Surviving' = Surviving
  BY <1>1 DEF Surviving
<1>11. WriterKnowsLog'
  BY <1>1, <1>2, <1>3, <1>7, <1>10 DEF ConfigInv, WriterKnowsLog, LogHolds
<1>12. LogHolds'
  BY <1>1, <1>7, <1>10 DEF ConfigInv, ConfigTypeOK, LogHolds
<1> QED
  BY <1>1, <1>7, <1>8, <1>9, <1>11, <1>12 DEF ConfigInv, ConfigTypeOK

(* A request writes the log.  Whoever read it before, and has yet to write *)
(* it, makes the entry a raced one.                                        *)
LEMMA PutLogStep ==
  ASSUME ConfigInv, NEW r \in Request, PutLog(r)
  PROVE  ConfigInv'
<1> DEFINE all == req[r].read
           excess == IF Len(all) > MaxLog THEN Len(all) - MaxLog ELSE 0
           kept == SubSeq(all, excess + 1, Len(all))
           cut == ToSet(SubSeq(all, 1, excess))
           others == IF \E q \in Request \ {r} : req[q].pc \in Reading
                     THEN {r} ELSE {}
<1>1. /\ req[r].pc = "putLog" /\ Goto(r, "done")
      /\ UNCHANGED <<kv, saved, raced>>
      /\ log' = kept /\ dropped' = dropped \cup cut
      /\ logged' = logged \cup {r} /\ logRaced' = logRaced \cup others
  BY DEF PutLog, Stands, Reading
<1>2. /\ r \notin logged /\ IsInjective(all) /\ r \in ToSet(all)
      /\ ToSet(all) \subseteq logged \cup {r}
      /\ Surviving \subseteq ToSet(all)
  BY <1>1 DEF ConfigInv, WriterKnowsLog, Reading
<1>3. all \in Seq(Request) /\ excess \in 0..Len(all)
  <2>1. all \in Seq(Request)
    BY DEF ConfigInv, ConfigTypeOK, RequestState
  <2>2. Len(all) \in Nat /\ MaxLog \in Nat
    BY <2>1, WorkerConfigAssumption
  <2> HIDE DEF all
  <2> QED
    BY <2>1, <2>2
<1> HIDE DEF all, excess
<1>4. ToSet(all) = cut \cup ToSet(kept)
  BY <1>3, CutSet
<1>5. IsInjective(kept)
  BY <1>2, <1>3, CutInjective
<1>6. kept \in Seq(Request)
  BY <1>3
<1> HIDE DEF kept, cut
<1>7. /\ req' \in [Request -> RequestState] /\ req'[r].pc = "done"
      /\ \A q \in Request \ {r} : req'[q] = req[q]
  BY <1>1, GotoEffect DEF ConfigInv, ConfigTypeOK, Places
<1>8. PlaceOfKind'
  BY <1>7, PlaceFrame
<1>9. SaveStands'
  <2>1. \A q \in Request : req'[q].pc \in Puts => req'[q] = req[q]
    BY <1>7 DEF Puts
  <2> QED
    BY <1>1, <2>1, SaveStandsFrame DEF ConfigInv
<1>10. Surviving' = (Surviving \cup {r}) \ (logRaced' \cup dropped')
  BY <1>1 DEF Surviving
<1>11. Surviving' \subseteq ToSet(log')
  BY <1>1, <1>2, <1>4, <1>10
<1>12. WriterKnowsLog'
  <2> SUFFICES ASSUME NEW q \in Request, req'[q].pc \in Reading
               PROVE  /\ q \notin logged'
                      /\ IsInjective(req'[q].read) /\ q \in ToSet(req'[q].read)
                      /\ ToSet(req'[q].read) \subseteq logged' \cup {q}
                      /\ Surviving' \subseteq ToSet(req'[q].read)
    BY DEF WriterKnowsLog
  <2>1. q # r /\ req'[q] = req[q]
    BY <1>7 DEF Reading
  <2>2. r \in logRaced'
    BY <1>1, <2>1
  <2>3. Surviving' \subseteq Surviving
    BY <1>10, <2>2
  <2> QED
    BY <1>1, <2>1, <2>3 DEF ConfigInv, WriterKnowsLog
<1>13. LogHolds'
  <2>1. ToSet(log') \subseteq logged'
    BY <1>1, <1>2, <1>4
  <2>2. \A q \in logged' : req'[q].pc = "done"
    BY <1>1, <1>7 DEF ConfigInv, ConfigTypeOK, LogHolds
  <2> QED
    BY <1>1, <1>5, <1>11, <2>1, <2>2 DEF LogHolds
<1> QED
  BY <1>1, <1>6, <1>7, <1>8, <1>9, <1>12, <1>13 DEF ConfigInv, ConfigTypeOK

(* Every step of a request keeps the invariant of the settings and the     *)
(* log.                                                                    *)
LEMMA ConfigInductive == ConfigInv /\ [ConfigNext]_kvVars => ConfigInv'
<1> SUFFICES ASSUME ConfigInv, [ConfigNext]_kvVars PROVE ConfigInv'
  OBVIOUS
<1>1. CASE ConfigNext
  BY <1>1, ArrivesStep, MovesStep, GetSettingStep, PutDefaultStep,
     StartResetStep, SaveStep, GetLogStep, PutLogStep
     DEF ConfigNext
<1>2. CASE UNCHANGED kvVars
  <2>1. /\ UNCHANGED <<kv, log, req, saved, raced, logged, logRaced, dropped>>
        /\ Surviving' = Surviving
    BY <1>2 DEF kvVars, Surviving
  <2> QED
    BY <2>1 DEF ConfigInv, ConfigTypeOK, PlaceOfKind, SaveStands,
                WriterKnowsLog, LogHolds
<1> QED
  BY <1>1, <1>2

(***************************************************************************)
(* Whatever the requests are and in whatever order their gets and puts     *)
(* come: the administrator's last save of a setting stands, unless         *)
(* defaults were on their way, and the log loses no entry except to an     *)
(* overlapping writer or to the limit, and repeats none.                   *)
(***************************************************************************)
THEOREM WritesSurvive == ConfigSpec => []KvWritesSurvive
<1>1. ConfigInit => ConfigInv
  <2> SUFFICES ASSUME ConfigInit PROVE ConfigInv
    OBVIOUS
  <2>1. <<>> \in Seq(Request) /\ ToSet(<<>>) = {} /\ IsInjective(<<>>)
    BY DEF ToSet, IsInjective
  <2>2. /\ Idle \in RequestState /\ Idle.pc = "idle"
    BY <2>1 DEF Idle, RequestState, Places
  <2>3. \A r \in Request : req[r].pc = "idle"
    BY <2>2 DEF ConfigInit
  <2>4. ConfigTypeOK
    BY <2>1, <2>2 DEF ConfigInit, ConfigTypeOK, Value
  <2>5. PlaceOfKind /\ WriterKnowsLog
    BY <2>3 DEF PlaceOfKind, WriterKnowsLog, Reading
  <2>6. SaveStands
    BY DEF SaveStands, ConfigInit
  <2>7. LogHolds
    BY <2>1 DEF LogHolds, Surviving, ConfigInit
  <2> QED
    BY <2>4, <2>5, <2>6, <2>7 DEF ConfigInv
<1>2. ConfigInv => KvWritesSurvive
  BY DEF ConfigInv, SaveStands, LogHolds, Surviving, KvWritesSurvive,
         SettingsSurvive, LogSurvives
<1> QED
  BY <1>1, <1>2, ConfigInductive, PTL DEF ConfigSpec

----------------------------------------------------------------------------
(* ShadowsocksSender.                                                      *)

Sealing == {"key", "length", "payload", "encoded"}
FrameType == [what : {"salt", "length", "payload"}, key : Nat, nonce : Nat]
SendType == [left : Int, pc : {"chained", "done"} \cup Sealing, nonce : Nat,
             frames : Seq(FrameType)]

SenderTypeOK ==
  /\ sends \in Seq(SendType)
  /\ encoder \in [key : Nat, nonce : Nat]
  /\ wire \in Seq(FrameType)
  /\ wsOpen \in BOOLEAN

\* The chain of promises: who has begun has none before him at work.
OneSendAtATime ==
  \A c, d \in DOMAIN sends :
    c < d /\ sends[d].pc # "chained" => sends[c].pc = "done"
ChainedIsEmpty ==
  \A c \in DOMAIN sends : sends[c].pc = "chained" => sends[c].frames = <<>>

\* The i-th frame of the stream under key k.
FrameAt(i, k) ==
  IF i = 1 THEN SaltOf(k)
  ELSE Sealed(IF i % 2 = 0 THEN "length" ELSE "payload", k, i - 2)

\* s continues a stream of n frames.
Continues(s, n) == \A i \in 1..Len(s) : s[i] = FrameAt(n + i, encoder.key)

\* How many frames the encoder has made.
Made == IF encoder.key = 0 THEN 0 ELSE encoder.nonce + 1

\* What the call that is at work has sealed continues what was sent, and the
\* encoder's nonce counts both; a call ends behind a payload.
Seals(c) ==
  /\ Continues(sends[c].frames, Len(wire))
  /\ Len(wire) + Len(sends[c].frames) = Made
  /\ sends[c].pc = "key" <=> encoder.key = 0
  /\ sends[c].pc \in {"length", "payload"} => sends[c].nonce = encoder.nonce
  /\ encoder.nonce % 2 = IF sends[c].pc = "payload" THEN 1 ELSE 0
InSequence ==
  /\ encoder.key = 0 => encoder.nonce = 0
  /\ Continues(wire, 0)
  /\ \A c \in DOMAIN sends : sends[c].pc \in Sealing => Seals(c)
  /\ (\A c \in DOMAIN sends : sends[c].pc \notin Sealing) =>
       Len(wire) = Made /\ encoder.nonce % 2 = 0

\* Once the client is gone the frames go nowhere.
SenderInv ==
  /\ SenderTypeOK /\ OneSendAtATime /\ ChainedIsEmpty
  /\ wsOpen => InSequence
  /\ CiphertextDecrypts

(* The chain: all before a call that is at work have ended, and none       *)
(* behind it has begun.                                                    *)
LEMMA AloneAtWork ==
  ASSUME SenderInv, NEW c \in DOMAIN sends,
         sends[c].pc \notin {"chained", "done"}
  PROVE  /\ \A d \in 1..(c - 1) : sends[d].pc = "done"
         /\ \A d \in DOMAIN sends : d > c => sends[d].pc = "chained"
<1>1. DOMAIN sends = 1..Len(sends) /\ Len(sends) \in Nat
  BY DEF SenderInv, SenderTypeOK
<1> QED
  BY <1>1 DEF SenderInv, OneSendAtATime

(* A step of the one call that is at work, or begins.                      *)
LEMMA WorkStep ==
  ASSUME SenderInv, NEW c \in DOMAIN sends, NEW rec \in SendType,
         sends' = [sends EXCEPT ![c] = rec], rec.pc \in Sealing,
         sends[c].pc # "done", \A d \in 1..(c - 1) : sends[d].pc = "done",
         \A d \in DOMAIN sends : d > c => sends[d].pc = "chained",
         encoder' \in [key : Nat, nonce : Nat], UNCHANGED <<wire, wsOpen>>,
         wsOpen =>
           /\ encoder'.key = 0 => encoder'.nonce = 0
           /\ Continues(wire, 0)'
           /\ \A i \in 1..Len(rec.frames) :
                rec.frames[i] = FrameAt(Len(wire) + i, encoder'.key)
           /\ Len(wire) + Len(rec.frames) = Made'
           /\ rec.pc = "key" <=> encoder'.key = 0
           /\ rec.pc \in {"length", "payload"} => rec.nonce = encoder'.nonce
           /\ encoder'.nonce % 2 = IF rec.pc = "payload" THEN 1 ELSE 0
  PROVE  SenderInv'
<1>1. DOMAIN sends = 1..Len(sends) /\ Len(sends) \in Nat
  BY DEF SenderInv, SenderTypeOK
<1>2. /\ sends' \in Seq(SendType) /\ Len(sends') = Len(sends)
      /\ DOMAIN sends' = 1..Len(sends)
      /\ sends'[c] = rec
      /\ \A d \in 1..Len(sends) : d # c => sends'[d] = sends[d]
  BY <1>1 DEF SenderInv, SenderTypeOK
<1>3. SenderTypeOK'
  BY <1>2 DEF SenderInv, SenderTypeOK
<1>4. OneSendAtATime'
  <2> SUFFICES ASSUME NEW d \in 1..Len(sends), NEW e \in 1..Len(sends), d < e,
                      sends'[e].pc # "chained"
               PROVE  sends'[d].pc = "done"
    BY <1>2 DEF OneSendAtATime
  <2>1. CASE e = c
    BY <1>1, <1>2, <2>1
  <2>2. CASE e # c /\ d = c
    BY <1>1, <1>2, <2>2
  <2>3. CASE e # c /\ d # c
    BY <1>1, <1>2, <2>3 DEF SenderInv, OneSendAtATime
  <2> QED
    BY <2>1, <2>2, <2>3
<1>5. ChainedIsEmpty'
  BY <1>1, <1>2 DEF SenderInv, ChainedIsEmpty, Sealing
<1>6. \A d \in 1..Len(sends) : sends'[d].pc \in Sealing => d = c
  BY <1>1, <1>2 DEF Sealing
<1>7. wsOpen' => InSequence'
  <2> SUFFICES ASSUME wsOpen PROVE InSequence'
    OBVIOUS
  <2>1. Seals(c)'
    BY <1>2 DEF Seals, Continues
  <2>2. \A d \in DOMAIN sends' : sends'[d].pc \in Sealing => Seals(d)'
    BY <1>2, <1>6, <2>1
  <2>3. sends'[c].pc \in Sealing /\ c \in DOMAIN sends'
    BY <1>1, <1>2
  <2> QED
    BY <2>2, <2>3 DEF InSequence
<1> QED
  BY <1>3, <1>4, <1>5, <1>7 DEF SenderInv, CiphertextDecrypts

(* An encode() stands before its next piece.                               *)
LEMMA NextPieceEffect ==
  ASSUME NEW t \in SendType, NEW n \in Nat
  PROVE  /\ NextPiece(t, n) \in SendType
         /\ NextPiece(t, n).pc \in {"length", "encoded"}
         /\ NextPiece(t, n).nonce = n
         /\ NextPiece(t, n).frames = t.frames
<1> DEFINE p == IF t.left = 0 THEN "encoded" ELSE "length"
<1>1. p \in {"length", "encoded"}
  OBVIOUS
<1>2. NextPiece(t, n) = [t EXCEPT !.pc = p, !.nonce = n]
  BY DEF NextPiece
<1> HIDE DEF p
<1> QED
  BY <1>1, <1>2 DEF SendType, Sealing

(* The call's turn comes.                                                  *)
LEMMA BeginStep ==
  ASSUME SenderInv, NEW c \in DOMAIN sends, Begin(c)
  PROVE  SenderInv'
<1> DEFINE first == [sends[c] EXCEPT !.pc = "key"]
           next == NextPiece(sends[c], encoder.nonce)
           rec == IF encoder.key = 0 THEN first ELSE next
<1>1. /\ sends[c].pc = "chained" /\ \A d \in 1..(c - 1) : sends[d].pc = "done"
      /\ sends' = [sends EXCEPT ![c] = rec]
      /\ UNCHANGED <<encoder, wire, wsOpen>>
  BY DEF Begin
<1>2. /\ DOMAIN sends = 1..Len(sends) /\ Len(sends) \in Nat
      /\ sends[c] \in SendType /\ encoder \in [key : Nat, nonce : Nat]
      /\ wire \in Seq(FrameType) /\ Len(wire) \in Nat
  BY DEF SenderInv, SenderTypeOK
<1>3. \A d \in DOMAIN sends : d > c => sends[d].pc = "chained"
  <2>1. ASSUME NEW d \in DOMAIN sends, d > c, sends[d].pc # "chained"
        PROVE  FALSE
    <3>1. sends[c].pc = "done"
      BY <1>2, <2>1 DEF SenderInv, OneSendAtATime
    <3> QED
      BY <1>1, <3>1
  <2> QED
    BY <2>1
<1>4. \A d \in DOMAIN sends : sends[d].pc \notin Sealing
  BY <1>1, <1>2, <1>3 DEF Sealing
<1>5. sends[c].frames = <<>> /\ Len(sends[c].frames) = 0
  BY <1>1 DEF SenderInv, ChainedIsEmpty
<1>6. /\ next \in SendType /\ next.pc \in {"length", "encoded"}
      /\ next.nonce = encoder.nonce /\ next.frames = sends[c].frames
  BY <1>2, NextPieceEffect
<1>7. /\ first \in SendType /\ first.pc = "key" /\ first.frames = sends[c].frames
  BY <1>2 DEF SendType, Sealing
<1> HIDE DEF first, next
<1>8. /\ rec \in SendType /\ rec.pc \in {"key", "length", "encoded"}
      /\ rec.pc = "key" <=> encoder.key = 0
      /\ rec.pc = "length" => rec.nonce = encoder.nonce
      /\ rec.frames = sends[c].frames
  BY <1>6, <1>7
<1> HIDE DEF rec
<1>9. rec.pc \in Sealing /\ rec.pc # "payload"
  BY <1>8 DEF Sealing
<1>10. wsOpen =>
         /\ encoder.key = 0 => encoder.nonce = 0
         /\ Continues(wire, 0)
         /\ Len(wire) = Made /\ encoder.nonce % 2 = 0
  BY <1>4 DEF SenderInv, InSequence
<1>11. Made' = Made /\ (Continues(wire, 0) => Continues(wire, 0)')
  BY <1>1 DEF Made, Continues
<1>12. wsOpen =>
           /\ encoder'.key = 0 => encoder'.nonce = 0
           /\ Continues(wire, 0)'
           /\ \A i \in 1..Len(rec.frames) :
                rec.frames[i] = FrameAt(Len(wire) + i, encoder'.key)
           /\ Len(wire) + Len(rec.frames) = Made'
           /\ rec.pc = "key" <=> encoder'.key = 0
           /\ rec.pc \in {"length", "payload"} => rec.nonce = encoder'.nonce
           /\ encoder'.nonce % 2 = IF rec.pc = "payload" THEN 1 ELSE 0
  BY <1>1, <1>2, <1>5, <1>8, <1>9, <1>10, <1>11
<1> QED
  BY <1>1, <1>2, <1>3, <1>8, <1>9, <1>12, WorkStep

(* The stream's next frame, from the call that is at work.                 *)
LEMMA FrameAppended ==
  ASSUME NEW frames \in Seq(FrameType), NEW f \in FrameType, NEW n \in Nat,
         NEW k,
         \A i \in 1..Len(frames) : frames[i] = FrameAt(n + i, k),
         f = FrameAt(n + Len(frames) + 1, k)
  PROVE  /\ Append(frames, f) \in Seq(FrameType)
         /\ Len(Append(frames, f)) = Len(frames) + 1
         /\ \A i \in 1..(Len(frames) + 1) :
              Append(frames, f)[i] = FrameAt(n + i, k)
<1> DEFINE t == Append(frames, f)
<1>1. /\ Len(frames) \in Nat /\ t \in Seq(FrameType)
      /\ Len(t) = Len(frames) + 1
      /\ \A i \in 1..Len(frames) : t[i] = frames[i]
      /\ t[Len(frames) + 1] = f
  OBVIOUS
<1> HIDE DEF t
<1>2. ASSUME NEW i \in 1..(Len(frames) + 1) PROVE t[i] = FrameAt(n + i, k)
  <2>1. CASE i \in 1..Len(frames)
    BY <1>1, <2>1
  <2>2. CASE i = Len(frames) + 1
    <3>1. n + i = n + Len(frames) + 1
      BY <1>1, <2>2
    <3> QED
      BY <1>1, <2>2, <3>1
  <2> QED
    BY <1>1, <2>1, <2>2
<1> QED
  BY <1>1, <1>2 DEF t

(* Which frame comes next.                                                 *)
LEMMA NextFrame ==
  ASSUME NEW k, NEW n \in Nat
  PROVE  /\ n % 2 = 0 => /\ FrameAt(n + 2, k) = Sealed("length", k, n)
                         /\ (n + 1) % 2 = 1
         /\ n % 2 = 1 => /\ FrameAt(n + 2, k) = Sealed("payload", k, n)
                         /\ (n + 1) % 2 = 0
<1>1. /\ n + 2 # 1 /\ (n + 2) - 2 = n
      /\ (n + 2) % 2 = n % 2
      /\ n % 2 = 0 => (n + 1) % 2 = 1
      /\ n % 2 = 1 => (n + 1) % 2 = 0
  OBVIOUS
<1> QED
  BY <1>1 DEF FrameAt

(* The key is there, under a salt of its own.                              *)
LEMMA KeyStep ==
  ASSUME SenderInv, NEW c \in DOMAIN sends, KeyDerived(c)
  PROVE  SenderInv'
<1> DEFINE t == [sends[c] EXCEPT !.frames = <<SaltOf(c)>>]
           rec == NextPiece(t, encoder.nonce)
<1>1. /\ sends[c].pc = "key"
      /\ sends' = [sends EXCEPT ![c] = rec]
      /\ encoder' = [encoder EXCEPT !.key = c]
      /\ UNCHANGED <<wire, wsOpen>>
  BY DEF KeyDerived
<1>2. /\ DOMAIN sends = 1..Len(sends) /\ Len(sends) \in Nat
      /\ sends[c] \in SendType /\ encoder \in [key : Nat, nonce : Nat]
      /\ wire \in Seq(FrameType) /\ Len(wire) \in Nat /\ c \in Nat \ {0}
  BY DEF SenderInv, SenderTypeOK
<1>3. /\ \A d \in 1..(c - 1) : sends[d].pc = "done"
      /\ \A d \in DOMAIN sends : d > c => sends[d].pc = "chained"
  BY <1>1, AloneAtWork
<1>4. SaltOf(c) \in FrameType
  BY <1>2 DEF SaltOf, FrameType
<1>5. /\ <<SaltOf(c)>> \in Seq(FrameType) /\ Len(<<SaltOf(c)>>) = 1
      /\ <<SaltOf(c)>>[1] = SaltOf(c)
  BY <1>4
<1>6. t \in SendType /\ t.frames = <<SaltOf(c)>>
  BY <1>2, <1>5 DEF SendType
<1> HIDE DEF t
<1>7. /\ rec \in SendType /\ rec.pc \in {"length", "encoded"}
      /\ rec.nonce = encoder.nonce /\ rec.frames = <<SaltOf(c)>>
  BY <1>2, <1>6, NextPieceEffect
<1> HIDE DEF rec
<1>8. /\ encoder' \in [key : Nat, nonce : Nat] /\ encoder'.key = c
      /\ encoder'.nonce = encoder.nonce
  BY <1>1, <1>2
<1>9. wsOpen => Len(wire) = 0 /\ encoder.nonce = 0
  <2> SUFFICES ASSUME wsOpen PROVE Len(wire) = 0 /\ encoder.nonce = 0
    OBVIOUS
  <2>1. Seals(c) /\ (encoder.key = 0 => encoder.nonce = 0)
    BY <1>1 DEF SenderInv, InSequence, Sealing
  <2>2. /\ encoder.key = 0
        /\ Len(wire) + Len(sends[c].frames) = 0
    BY <1>1, <2>1 DEF Seals, Made
  <2>3. Len(sends[c].frames) \in Nat
    BY <1>2 DEF SendType
  <2> QED
    BY <1>2, <2>1, <2>2, <2>3
<1>10. FrameAt(1, c) = SaltOf(c)
  BY DEF FrameAt
<1>11. wsOpen =>
           /\ encoder'.key = 0 => encoder'.nonce = 0
           /\ Continues(wire, 0)'
           /\ \A i \in 1..Len(rec.frames) :
                rec.frames[i] = FrameAt(Len(wire) + i, encoder'.key)
           /\ Len(wire) + Len(rec.frames) = Made'
           /\ rec.pc = "key" <=> encoder'.key = 0
           /\ rec.pc \in {"length", "payload"} => rec.nonce = encoder'.nonce
           /\ encoder'.nonce % 2 = IF rec.pc = "payload" THEN 1 ELSE 0
  <2> SUFFICES ASSUME wsOpen
               PROVE
           /\ encoder'.key = 0 => encoder'.nonce = 0
           /\ Continues(wire, 0)'
           /\ \A i \in 1..Len(rec.frames) :
                rec.frames[i] = FrameAt(Len(wire) + i, encoder'.key)
           /\ Len(wire) + Len(rec.frames) = Made'
           /\ rec.pc = "key" <=> encoder'.key = 0
           /\ rec.pc \in {"length", "payload"} => rec.nonce = encoder'.nonce
           /\ encoder'.nonce % 2 = IF rec.pc = "payload" THEN 1 ELSE 0
    OBVIOUS
  <2>1. Continues(wire, 0)'
    BY <1>1, <1>9 DEF Continues
  <2>2. Made' = 1
    BY <1>2, <1>8, <1>9 DEF Made
  <2>3. \A i \in 1..Len(rec.frames) :
          rec.frames[i] = FrameAt(Len(wire) + i, encoder'.key)
    <3> SUFFICES ASSUME NEW i \in 1..1
                 PROVE  <<SaltOf(c)>>[i] = FrameAt(Len(wire) + i, encoder'.key)
      BY <1>5, <1>7
    <3>1. i = 1 /\ Len(wire) + i = 1
      BY <1>9
    <3> QED
      BY <1>5, <1>8, <1>10, <3>1
  <2>4. rec.pc # "key" /\ rec.pc # "payload" /\ encoder'.key # 0
    BY <1>2, <1>7, <1>8
  <2> QED
    BY <1>5, <1>7, <1>8, <1>9, <2>1, <2>2, <2>3, <2>4
<1>12. rec.pc \in Sealing
  BY <1>7 DEF Sealing
<1> QED
  BY <1>1, <1>3, <1>7, <1>8, <1>11, <1>12, WorkStep

(* What the two encryptions have in common: a frame sealed under the       *)
(* nonce that the call has copied.                                         *)
LEMMA SealStep ==
  ASSUME SenderInv, NEW c \in DOMAIN sends, NEW what \in {"length", "payload"},
         sends[c].pc = what, NEW rec \in SendType,
         sends' = [sends EXCEPT ![c] = rec],
         encoder' = [encoder EXCEPT !.nonce = @ + 1],
         UNCHANGED <<wire, wsOpen>>,
         rec.pc \in IF what = "length" THEN {"payload"} ELSE {"length", "encoded"},
         rec.nonce = encoder'.nonce,
         rec.frames = Append(sends[c].frames,
                             Sealed(what, encoder.key, sends[c].nonce))
  PROVE  SenderInv'
<1> DEFINE frames == sends[c].frames
           f == Sealed(what, encoder.key, sends[c].nonce)
<1>1. /\ sends[c] \in SendType /\ encoder \in [key : Nat, nonce : Nat]
      /\ wire \in Seq(FrameType) /\ Len(wire) \in Nat
      /\ frames \in Seq(FrameType) /\ Len(frames) \in Nat
  <2>1. /\ sends[c] \in SendType /\ encoder \in [key : Nat, nonce : Nat]
        /\ wire \in Seq(FrameType) /\ Len(wire) \in Nat
    BY DEF SenderInv, SenderTypeOK
  <2>2. frames \in Seq(FrameType)
    BY <2>1 DEF SendType
  <2> HIDE DEF frames
  <2> QED
    BY <2>1, <2>2
<1>2. /\ \A d \in 1..(c - 1) : sends[d].pc = "done"
      /\ \A d \in DOMAIN sends : d > c => sends[d].pc = "chained"
  BY AloneAtWork
<1>3. /\ encoder' \in [key : Nat, nonce : Nat] /\ encoder'.key = encoder.key
      /\ encoder'.nonce = encoder.nonce + 1
  BY <1>1
<1>4. rec.pc \in Sealing /\ rec.pc # "key"
  BY DEF Sealing
<1>5. f \in FrameType
  BY <1>1 DEF Sealed, FrameType, SendType
<1>6. wsOpen =>
           /\ encoder'.key = 0 => encoder'.nonce = 0
           /\ Continues(wire, 0)'
           /\ \A i \in 1..Len(rec.frames) :
                rec.frames[i] = FrameAt(Len(wire) + i, encoder'.key)
           /\ Len(wire) + Len(rec.frames) = Made'
           /\ rec.pc = "key" <=> encoder'.key = 0
           /\ rec.pc \in {"length", "payload"} => rec.nonce = encoder'.nonce
           /\ encoder'.nonce % 2 = IF rec.pc = "payload" THEN 1 ELSE 0
  <2> SUFFICES ASSUME wsOpen
               PROVE
           /\ encoder'.key = 0 => encoder'.nonce = 0
           /\ Continues(wire, 0)'
           /\ \A i \in 1..Len(rec.frames) :
                rec.frames[i] = FrameAt(Len(wire) + i, encoder'.key)
           /\ Len(wire) + Len(rec.frames) = Made'
           /\ rec.pc = "key" <=> encoder'.key = 0
           /\ rec.pc \in {"length", "payload"} => rec.nonce = encoder'.nonce
           /\ encoder'.nonce % 2 = IF rec.pc = "payload" THEN 1 ELSE 0
    OBVIOUS
  <2>1. Seals(c) /\ Continues(wire, 0)
    BY DEF SenderInv, InSequence, Sealing
  <2>2. /\ encoder.key # 0 /\ sends[c].nonce = encoder.nonce
        /\ Len(wire) + Len(frames) = encoder.nonce + 1
        /\ \A i \in 1..Len(frames) : frames[i] = FrameAt(Len(wire) + i, encoder.key)
        /\ encoder.nonce % 2 = IF what = "payload" THEN 1 ELSE 0
    BY <2>1 DEF Seals, Made, Continues
  <2>3. Continues(wire, 0)'
    BY <1>3, <2>1 DEF Continues
  <2> HIDE DEF frames
  <2>4. Len(wire) + Len(frames) + 1 = encoder.nonce + 2
    BY <1>1, <2>2
  <2>5. /\ f = FrameAt(encoder.nonce + 2, encoder.key)
        /\ (encoder.nonce + 1) % 2 = IF what = "payload" THEN 0 ELSE 1
    BY <1>1, <2>2, NextFrame
  <2> HIDE DEF f
  <2>6. f = FrameAt(Len(wire) + Len(frames) + 1, encoder.key)
    BY <2>4, <2>5
  <2>7. /\ Len(Append(frames, f)) = Len(frames) + 1
        /\ \A i \in 1..(Len(frames) + 1) :
             Append(frames, f)[i] = FrameAt(Len(wire) + i, encoder.key)
    BY <1>1, <1>5, <2>2, <2>6, FrameAppended
  <2>8. rec.frames = Append(frames, f)
    BY DEF frames, f
  <2>9. Made' = encoder.nonce + 2
    BY <1>1, <1>3, <2>2 DEF Made
  <2>10. Len(wire) + Len(rec.frames) = Made'
    BY <1>1, <2>4, <2>7, <2>8, <2>9
  <2>11. \A i \in 1..Len(rec.frames) :
           rec.frames[i] = FrameAt(Len(wire) + i, encoder'.key)
    BY <1>3, <2>7, <2>8
  <2>12. encoder'.nonce % 2 = IF rec.pc = "payload" THEN 1 ELSE 0
    BY <1>3, <2>5
  <2> QED
    BY <1>3, <1>4, <2>2, <2>3, <2>10, <2>11, <2>12
<1> QED
  BY <1>2, <1>3, <1>4, <1>6, WorkStep

(* A length is sealed, or the payload behind it.                           *)
LEMMA SealedStep ==
  ASSUME SenderInv, NEW c \in DOMAIN sends, LengthSealed(c) \/ PayloadSealed(c)
  PROVE  SenderInv'
<1>1. /\ sends[c] \in SendType /\ encoder \in [key : Nat, nonce : Nat]
      /\ sends[c].frames \in Seq(FrameType) /\ sends[c].left \in Int
      /\ sends[c].nonce \in Nat
  <2>1. sends[c] \in SendType /\ encoder \in [key : Nat, nonce : Nat]
    BY DEF SenderInv, SenderTypeOK
  <2> QED
    BY <2>1 DEF SendType
<1>2. CASE LengthSealed(c)
  <2> DEFINE f == Sealed("length", encoder.key, sends[c].nonce)
             more == Append(sends[c].frames, f)
             rec == [sends[c] EXCEPT !.pc = "payload", !.nonce = encoder'.nonce,
                                     !.frames = more]
  <2>1. /\ sends[c].pc = "length"
        /\ encoder' = [encoder EXCEPT !.nonce = @ + 1]
        /\ sends' = [sends EXCEPT ![c] = rec]
        /\ UNCHANGED <<wire, wsOpen>>
    BY <1>2 DEF LengthSealed
  <2>2. more \in Seq(FrameType)
    BY <1>1 DEF Sealed, FrameType
  <2>3. encoder'.nonce \in Nat
    BY <1>1, <2>1
  <2> HIDE DEF more
  <2>4. /\ rec \in SendType /\ rec.pc = "payload"
        /\ rec.nonce = encoder'.nonce /\ rec.frames = more
    BY <1>1, <2>2, <2>3 DEF SendType, Sealing
  <2> HIDE DEF rec
  <2>5. rec.frames = Append(sends[c].frames,
                            Sealed("length", encoder.key, sends[c].nonce))
    BY <2>4 DEF more
  <2> QED
    BY <2>1, <2>4, <2>5, SealStep
<1>3. CASE PayloadSealed(c)
  <2> DEFINE f == Sealed("payload", encoder.key, sends[c].nonce)
             more == Append(sends[c].frames, f)
             less == sends[c].left - 1
             t == [sends[c] EXCEPT !.left = less, !.frames = more]
             rec == NextPiece(t, encoder'.nonce)
  <2>1. /\ sends[c].pc = "payload"
        /\ encoder' = [encoder EXCEPT !.nonce = @ + 1]
        /\ sends' = [sends EXCEPT ![c] = rec]
        /\ UNCHANGED <<wire, wsOpen>>
    BY <1>3 DEF PayloadSealed
  <2>2. more \in Seq(FrameType)
    BY <1>1 DEF Sealed, FrameType
  <2>3. encoder'.nonce \in Nat /\ less \in Int
    BY <1>1, <2>1
  <2> HIDE DEF more, less
  <2>4. t \in SendType /\ t.frames = more
    BY <1>1, <2>2, <2>3 DEF SendType
  <2> HIDE DEF t
  <2>5. /\ rec \in SendType /\ rec.pc \in {"length", "encoded"}
        /\ rec.nonce = encoder'.nonce /\ rec.frames = more
    BY <2>3, <2>4, NextPieceEffect
  <2> HIDE DEF rec
  <2>6. rec.frames = Append(sends[c].frames,
                            Sealed("payload", encoder.key, sends[c].nonce))
    BY <2>5 DEF more
  <2> QED
    BY <2>1, <2>5, <2>6, SealStep
<1> QED
  BY <1>2, <1>3

(* What is in sequence can be decrypted.                                   *)
LEMMA InSequenceDecrypts ==
  ASSUME NEW k, NEW w \in Seq(FrameType),
         \A i \in 1..Len(w) : w[i] = FrameAt(i, k), w # <<>>
  PROVE  /\ w[1].what = "salt"
         /\ \A i \in 2..Len(w) :
              w[i] = Sealed(IF i % 2 = 0 THEN "length" ELSE "payload",
                            w[1].key, i - 2)
<1>1. Len(w) \in Nat \ {0}
  BY EmptySeq
<1>2. w[1] = SaltOf(k)
  BY <1>1 DEF FrameAt
<1>3. w[1].what = "salt" /\ w[1].key = k
  BY <1>2 DEF SaltOf
<1>4. \A i \in 2..Len(w) : i \in 1..Len(w) /\ i # 1
  BY <1>1
<1> QED
  BY <1>3, <1>4 DEF FrameAt

(* All that a call has sealed goes out at its end, unless the client left. *)
LEMMA DeliverStep ==
  ASSUME SenderInv, NEW c \in DOMAIN sends, Deliver(c)
  PROVE  SenderInv'
<1> DEFINE rec == [sends[c] EXCEPT !.pc = "done"]
           frames == sends[c].frames
<1>1. /\ sends[c].pc = "encoded"
      /\ sends' = [sends EXCEPT ![c] = rec]
      /\ wire' = IF wsOpen THEN wire \o frames ELSE wire
      /\ UNCHANGED <<encoder, wsOpen>>
  BY DEF Deliver
<1>2. /\ DOMAIN sends = 1..Len(sends) /\ Len(sends) \in Nat
      /\ sends[c] \in SendType /\ wire \in Seq(FrameType) /\ Len(wire) \in Nat
  BY DEF SenderInv, SenderTypeOK
<1>3. frames \in Seq(FrameType)
  BY <1>2 DEF SendType
<1>4. rec \in SendType /\ rec.pc = "done" /\ rec.frames = frames
  BY <1>2 DEF SendType, Sealing
<1> HIDE DEF rec, frames
<1>5. /\ \A d \in 1..(c - 1) : sends[d].pc = "done"
      /\ \A d \in DOMAIN sends : d > c => sends[d].pc = "chained"
  BY <1>1, AloneAtWork
<1>6. /\ sends' \in Seq(SendType) /\ DOMAIN sends' = 1..Len(sends)
      /\ sends'[c] = rec
      /\ \A d \in 1..Len(sends) : d # c => sends'[d] = sends[d]
  BY <1>1, <1>2, <1>4 DEF SenderInv, SenderTypeOK
<1>7. /\ Len(frames) \in Nat /\ wire \o frames \in Seq(FrameType)
      /\ Len(wire \o frames) = Len(wire) + Len(frames)
      /\ \A i \in 1..Len(wire) : (wire \o frames)[i] = wire[i]
      /\ \A i \in 1..Len(frames) : (wire \o frames)[Len(wire) + i] = frames[i]
  BY <1>2, <1>3
<1>8. SenderTypeOK'
  BY <1>1, <1>6, <1>7 DEF SenderInv, SenderTypeOK
<1>9. OneSendAtATime'
  <2> SUFFICES ASSUME NEW d \in 1..Len(sends), NEW e \in 1..Len(sends), d < e,
                      sends'[e].pc # "chained"
               PROVE  sends'[d].pc = "done"
    BY <1>6 DEF OneSendAtATime
  <2>1. e <= c
    BY <1>2, <1>5, <1>6
  <2>2. d \in 1..(c - 1)
    BY <1>2, <2>1
  <2> QED
    BY <1>2, <1>5, <1>6, <2>2
<1>10. ChainedIsEmpty'
  BY <1>2, <1>4, <1>6 DEF SenderInv, ChainedIsEmpty
<1>11. CASE ~wsOpen
  BY <1>1, <1>8, <1>9, <1>10, <1>11 DEF SenderInv, CiphertextDecrypts
<1>12. CASE wsOpen
  <2>1. Seals(c) /\ Continues(wire, 0) /\ (encoder.key = 0 => encoder.nonce = 0)
    BY <1>1, <1>12 DEF SenderInv, InSequence, Sealing
  <2>2. /\ \A i \in 1..Len(frames) : frames[i] = FrameAt(Len(wire) + i, encoder.key)
        /\ \A i \in 1..Len(wire) : wire[i] = FrameAt(i, encoder.key)
        /\ Len(wire) + Len(frames) = Made /\ encoder.nonce % 2 = 0
    BY <1>1, <1>2, <2>1 DEF Seals, Continues, frames
  <2>3. wire' = wire \o frames /\ Made' = Made
    BY <1>1, <1>12 DEF Made
  <2> DEFINE w == wire \o frames
  <2>w. w = wire \o frames
    OBVIOUS
  <2> HIDE DEF w
  <2>4. ASSUME NEW i \in 1..Len(w) PROVE w[i] = FrameAt(i, encoder.key)
    <3>1. CASE i \in 1..Len(wire)
      BY <1>7, <2>2, <2>w, <3>1
    <3>2. CASE i > Len(wire)
      <4> DEFINE j == i - Len(wire)
      <4>1. j \in 1..Len(frames) /\ Len(wire) + j = i
        BY <1>2, <1>7, <2>w, <3>2
      <4> HIDE DEF j
      <4>2. w[Len(wire) + j] = frames[j]
        BY <1>7, <2>w, <4>1
      <4>3. frames[j] = FrameAt(Len(wire) + j, encoder.key)
        BY <2>2, <4>1
      <4> QED
        BY <4>1, <4>2, <4>3
    <3> QED
      BY <1>2, <1>7, <2>w, <3>1, <3>2
  <2>5. Continues(wire, 0)'
    BY <1>1, <1>7, <2>3, <2>4, <2>w DEF Continues
  <2>6. \A d \in DOMAIN sends' : sends'[d].pc \notin Sealing
    <3> SUFFICES ASSUME NEW d \in 1..Len(sends) PROVE sends'[d].pc \notin Sealing
      BY <1>6
    <3>1. CASE d = c
      BY <1>4, <1>6, <3>1 DEF Sealing
    <3>2. CASE d < c
      BY <1>2, <1>5, <1>6, <3>2 DEF Sealing
    <3>3. CASE d > c
      BY <1>2, <1>5, <1>6, <3>3 DEF Sealing
    <3> QED
      BY <1>2, <3>1, <3>2, <3>3
  <2>7. InSequence'
    BY <1>1, <1>7, <2>1, <2>2, <2>3, <2>5, <2>6 DEF InSequence
  <2>8. CiphertextDecrypts'
    <3>1. w \in Seq(FrameType) /\ wire' = w
      BY <1>7, <2>3, <2>w
    <3>2. w # <<>> => /\ w[1].what = "salt"
                      /\ \A i \in 2..Len(w) :
                           w[i] = Sealed(IF i % 2 = 0 THEN "length" ELSE "payload",
                                         w[1].key, i - 2)
      BY <2>4, <3>1, InSequenceDecrypts
    <3> QED
      BY <3>1, <3>2 DEF CiphertextDecrypts
  <2> QED
    BY <1>8, <1>9, <1>10, <2>7, <2>8 DEF SenderInv
<1> QED
  BY <1>11, <1>12

(* Another call joins the chain.                                           *)
LEMMA SendStep ==
  ASSUME SenderInv, NEW parts \in 0..MaxParts, Send(parts)
  PROVE  SenderInv'
<1> DEFINE rec == [left |-> parts, pc |-> "chained", nonce |-> 0, frames |-> <<>>]
<1>1. sends' = Append(sends, rec) /\ UNCHANGED <<encoder, wire, wsOpen>>
  BY DEF Send
<1>2. rec \in SendType /\ rec.pc = "chained" /\ rec.frames = <<>>
  <2>1. parts \in Int /\ <<>> \in Seq(FrameType)
    BY SenderAssumption
  <2> QED
    BY <2>1 DEF SendType
<1> HIDE DEF rec
<1>3. DOMAIN sends = 1..Len(sends) /\ Len(sends) \in Nat /\ sends \in Seq(SendType)
  BY DEF SenderInv, SenderTypeOK
<1>4. /\ sends' \in Seq(SendType) /\ DOMAIN sends' = 1..(Len(sends) + 1)
      /\ sends'[Len(sends) + 1] = rec
      /\ \A d \in 1..Len(sends) : sends'[d] = sends[d]
  BY <1>1, <1>2, <1>3
<1>5. \A d \in 1..(Len(sends) + 1) : d \in 1..Len(sends) \/ d = Len(sends) + 1
  BY <1>3
<1>6. SenderTypeOK' /\ CiphertextDecrypts'
  BY <1>1, <1>4 DEF SenderInv, SenderTypeOK, CiphertextDecrypts
<1>7. OneSendAtATime'
  <2> SUFFICES ASSUME NEW d \in 1..(Len(sends) + 1), NEW e \in 1..(Len(sends) + 1),
                      d < e, sends'[e].pc # "chained"
               PROVE  sends'[d].pc = "done"
    BY <1>4 DEF OneSendAtATime
  <2>1. e \in 1..Len(sends) /\ d \in 1..Len(sends)
    BY <1>2, <1>3, <1>4, <1>5
  <2> QED
    BY <1>3, <1>4, <2>1 DEF SenderInv, OneSendAtATime
<1>8. ChainedIsEmpty'
  BY <1>2, <1>3, <1>4, <1>5 DEF SenderInv, ChainedIsEmpty
<1>9. wsOpen' => InSequence'
  <2> SUFFICES ASSUME wsOpen PROVE InSequence'
    BY <1>1
  <2>1. InSequence
    BY DEF SenderInv
  <2>2. \A d \in DOMAIN sends' : sends'[d].pc \in Sealing =>
          d \in DOMAIN sends /\ sends'[d] = sends[d]
    BY <1>2, <1>3, <1>4, <1>5 DEF Sealing
  <2>3. \A d \in DOMAIN sends : d \in DOMAIN sends' /\ sends'[d] = sends[d]
    BY <1>3, <1>4, <1>5
  <2>4. Made' = Made
    BY <1>1 DEF Made
  <2>5. Continues(wire, 0)'
    BY <1>1, <2>1 DEF InSequence, Continues
  <2>6. \A d \in DOMAIN sends' : sends'[d].pc \in Sealing => Seals(d)'
    <3> SUFFICES ASSUME NEW d \in DOMAIN sends', sends'[d].pc \in Sealing
                 PROVE  Seals(d)'
      OBVIOUS
    <3>1. d \in DOMAIN sends /\ sends'[d] = sends[d] /\ Seals(d)
      BY <2>1, <2>2 DEF InSequence
    <3> QED
      BY <1>1, <2>4, <3>1 DEF Seals, Continues
  <2>7. (\A d \in DOMAIN sends' : sends'[d].pc \notin Sealing) =>
          Len(wire') = Made' /\ encoder'.nonce % 2 = 0
    BY <1>1, <2>1, <2>3, <2>4 DEF InSequence
  <2> QED
    BY <1>1, <2>1, <2>5, <2>6, <2>7 DEF InSequence
<1> QED
  BY <1>6, <1>7, <1>8, <1>9 DEF SenderInv

(* Every step of the sender keeps its invariant.                           *)
LEMMA SenderInductive == SenderInv /\ [SenderNext]_senderVars => SenderInv'
<1> SUFFICES ASSUME SenderInv, [SenderNext]_senderVars PROVE SenderInv'
  OBVIOUS
<1>1. CASE SenderNext /\ ~WsCloses
  BY <1>1, SendStep, BeginStep, KeyStep, SealedStep, DeliverStep DEF SenderNext
<1>2. CASE WsCloses
  <2>1. UNCHANGED <<sends, encoder, wire>> /\ wsOpen' = FALSE
    BY <1>2 DEF WsCloses
  <2>2. SenderTypeOK' /\ OneSendAtATime' /\ ChainedIsEmpty' /\ CiphertextDecrypts'
    BY <2>1 DEF SenderInv, SenderTypeOK, OneSendAtATime, ChainedIsEmpty,
                CiphertextDecrypts
  <2> QED
    BY <2>1, <2>2 DEF SenderInv
<1>3. CASE UNCHANGED senderVars
  <2>1. UNCHANGED <<sends, encoder, wire, wsOpen>>
    BY <1>3 DEF senderVars
  <2>2. SenderTypeOK' /\ OneSendAtATime' /\ ChainedIsEmpty' /\ CiphertextDecrypts'
    BY <2>1 DEF SenderInv, SenderTypeOK, OneSendAtATime, ChainedIsEmpty,
                CiphertextDecrypts
  <2>3. InSequence => InSequence'
    BY <2>1 DEF InSequence, Seals, Continues, Made
  <2> QED
    BY <2>1, <2>2, <2>3 DEF SenderInv
<1> QED
  BY <1>1, <1>2, <1>3

(***************************************************************************)
(* However many chunks are sent, of however many pieces, and whenever the  *)
(* client leaves: what it received is one salt and the frames 0, 1, 2, ... *)
(* under its key.  The chain of promises is what makes it so: no call      *)
(* copies the nonce while another has yet to increment it.                 *)
(***************************************************************************)
THEOREM ClientDecrypts == SenderSpec => []CiphertextDecrypts
<1>1. SenderInit => SenderInv
  <2> SUFFICES ASSUME SenderInit PROVE SenderInv
    OBVIOUS
  <2>1. <<>> \in Seq(SendType) /\ <<>> \in Seq(FrameType) /\ Len(<<>>) = 0
        /\ DOMAIN sends = {}
    BY DEF SenderInit
  <2>2. SenderTypeOK /\ OneSendAtATime /\ ChainedIsEmpty /\ CiphertextDecrypts
    BY <2>1 DEF SenderInit, SenderTypeOK, OneSendAtATime, ChainedIsEmpty,
                CiphertextDecrypts
  <2>3. InSequence
    BY <2>1 DEF SenderInit, InSequence, Continues, Made
  <2> QED
    BY <2>2, <2>3 DEF SenderInv
<1>2. SenderInv => CiphertextDecrypts
  BY DEF SenderInv
<1> QED
  BY <1>1, <1>2, SenderInductive, PTL DEF SenderSpec

----------------------------------------------------------------------------
(* DnsRelay.                                                               *)

Calls == [stage : {"connect", "read"}, expected : Nat, framed : BOOLEAN,
          base : Nat, got : Nat]
Answer == Nat \X Nat

DnsTypeOK ==
  /\ transport \in Transport \cup {"none"}
  /\ inbox \in Seq([queries : Nat, cut : BOOLEAN])
  /\ header \in BOOLEAN /\ failed \in BOOLEAN /\ clientOpen \in BOOLEAN
  /\ packets \in Nat /\ asked \in Nat
  /\ call \in Calls \cup {NoCall}
  /\ answers \in Seq(Answer)

Untouched ==
  transport = "none" =>
    ~header /\ ~failed /\ packets = 0 /\ call = NoCall /\ asked = 0 /\ answers = <<>>

\* A call asks what comes next, and reads while an answer is missing.
CallAsksNext ==
  call # NoCall =>
    /\ call.base = asked
    /\ call.framed => call.expected > 0
    /\ call.stage = "connect" => call.got = 0
    /\ call.stage = "read" => call.framed /\ call.got < 2 * call.expected

\* Trojan's packets are asked one by one, and it has no header.
TrojanAsksOne ==
  /\ packets > 0 => transport = "trojan"
  /\ transport = "trojan" => ~header /\ (call # NoCall => call.expected = 1)
TrojanInOrder ==
  transport = "trojan" =>
    /\ Increasing(answers)
    /\ \A i \in 1..Len(answers) : answers[i][2] = 0 /\ answers[i][1] <= asked

\* The p-th piece of a VLESS client's stream.
PieceAt(p) == IF p = 1 THEN Header ELSE Half(p \div 2, 2 - ((p - 1) % 2))

\* How many pieces are due, and where they begin.
Got == IF call = NoCall THEN 0 ELSE call.got
Due == IF header /\ Got = 0 THEN 0 ELSE 1 + 2 * asked + Got
StreamHolds ==
  ~failed /\ transport # "trojan" =>
    /\ \A p \in 1..Len(answers) : answers[p] = PieceAt(p)
    /\ Len(answers) <= 1 + 2 * asked + Got
    /\ clientOpen /\ transport # "none" => Len(answers) = Due
    /\ header => asked = 0

DnsInv ==
  /\ DnsTypeOK /\ Untouched /\ CallAsksNext /\ TrojanAsksOne
  /\ TrojanInOrder /\ StreamHolds

(* The pieces a client has received are those of the queries asked.        *)
LEMMA PieceNumber ==
  ASSUME NEW a \in Nat, NEW k \in Nat
  PROVE  PieceAt(2 * a + k + 2) = Half(a + 1 + (k \div 2), 1 + (k % 2))
<1>1. 2 * a + k + 2 # 1
  OBVIOUS
<1>2. (2 * a + k + 2) \div 2 = a + 1 + (k \div 2)
  OBVIOUS
<1>3. 2 - (((2 * a + k + 2) - 1) % 2) = 1 + (k % 2)
  OBVIOUS
<1> QED
  BY <1>1, <1>2, <1>3 DEF PieceAt

(* Steps that touch nothing a client could notice.                         *)
LEMMA AnswersFrame ==
  ASSUME DnsInv, UNCHANGED <<transport, header, asked, failed, answers>>,
         Got' = Got, clientOpen' => clientOpen
  PROVE  TrojanInOrder' /\ StreamHolds'
<1>1. Due' = Due
  BY DEF Due
<1>2. TrojanInOrder'
  BY DEF DnsInv, TrojanInOrder, Increasing
<1>3. StreamHolds'
  BY <1>1 DEF DnsInv, StreamHolds
<1> QED
  BY <1>2, <1>3

(* A call of forwardDataUDP starts.                                        *)
LEMMA CallStarts ==
  ASSUME DnsInv, call = NoCall, NEW queries \in Nat, NEW framed \in BOOLEAN,
         framed => queries > 0, call' = Call(queries, framed),
         UNCHANGED <<transport, header, asked, failed, answers, clientOpen>>,
         transport # "none", transport = "trojan" => queries = 1,
         packets' \in Nat, packets' > 0 => transport = "trojan",
         inbox' \in Seq([queries : Nat, cut : BOOLEAN])
  PROVE  DnsInv'
<1> DEFINE new == Call(queries, framed)
<1>1. /\ new \in Calls /\ new.stage = "connect" /\ new.base = asked
      /\ new.expected = queries /\ new.framed = framed /\ new.got = 0
  BY DEF Call, Calls, DnsInv, DnsTypeOK
<1>2. call' = new
  OBVIOUS
<1> HIDE DEF new
<1>3. Got = 0 /\ Got' = 0
  BY <1>1, <1>2 DEF Got
<1>4. TrojanInOrder' /\ StreamHolds'
  BY <1>3, AnswersFrame
<1>5. CallAsksNext'
  BY <1>1, <1>2 DEF CallAsksNext
<1>6. TrojanAsksOne'
  BY <1>1, <1>2 DEF DnsInv, TrojanAsksOne
<1>7. Untouched'
  BY DEF Untouched
<1>8. DnsTypeOK'
  BY <1>1, <1>2 DEF DnsInv, DnsTypeOK
<1> QED
  BY <1>4, <1>5, <1>6, <1>7, <1>8 DEF DnsInv

(* A call ends without all its answers.                                    *)
LEMMA CallEnds ==
  ASSUME DnsInv, call # NoCall, EndCall(FALSE),
         UNCHANGED <<transport, inbox, packets, answers, clientOpen>>
  PROVE  DnsInv'
<1>1. /\ call' = NoCall /\ asked' = asked + call.expected /\ failed' = TRUE
      /\ header' = FALSE
  BY DEF EndCall
<1>2. call \in Calls /\ asked \in Nat /\ call.expected \in Nat
  BY DEF DnsInv, DnsTypeOK, Calls
<1>3. DnsTypeOK'
  <2>1. asked' \in Nat
    BY <1>1, <1>2
  <2>2. failed' \in BOOLEAN /\ header' \in BOOLEAN
    BY <1>1, Zenon
  <2> QED
    BY <1>1, <2>1, <2>2 DEF DnsInv, DnsTypeOK
<1>4. TrojanInOrder'
  <2> SUFFICES ASSUME transport = "trojan" PROVE TrojanInOrder'
    BY DEF TrojanInOrder
  <2>1. /\ Increasing(answers)
        /\ \A i \in 1..Len(answers) : answers[i][2] = 0 /\ answers[i][1] <= asked
    BY DEF DnsInv, TrojanInOrder
  <2>2. \A i \in 1..Len(answers) : answers[i][1] \in Nat
    BY DEF DnsInv, DnsTypeOK, Answer
  <2>3. \A i \in 1..Len(answers) : answers[i][1] <= asked'
    BY <1>1, <1>2, <2>1, <2>2
  <2> QED
    BY <2>1, <2>3 DEF TrojanInOrder, Increasing
<1>5. CallAsksNext' /\ StreamHolds'
  BY <1>1 DEF CallAsksNext, StreamHolds
<1>6. TrojanAsksOne' /\ Untouched'
  BY <1>1 DEF DnsInv, TrojanAsksOne, Untouched
<1> QED
  BY <1>3, <1>4, <1>5, <1>6 DEF DnsInv

(* The next message is taken up, or the next of Trojan's packets.          *)
LEMMA RelayStep ==
  ASSUME DnsInv, RelayMessage \/ DecodePackets \/ RelayPacket
  PROVE  DnsInv'
<1>1. CASE RelayMessage
  <2> DEFINE m == Head(inbox)
             framed == m.queries > 0 /\ ~m.cut
  <2>1. /\ transport \in {"ws", "http", "grpc"} /\ inbox # <<>> /\ call = NoCall
        /\ inbox' = Tail(inbox)
        /\ UNCHANGED <<transport, header, packets, asked, failed, answers,
                       clientOpen>>
        /\ call' = Call(m.queries, framed) \/ call' = NoCall
    BY <1>1 DEF RelayMessage
  <2>2. m \in [queries : Nat, cut : BOOLEAN]
        /\ Tail(inbox) \in Seq([queries : Nat, cut : BOOLEAN])
    BY <2>1, HeadTailProperties DEF DnsInv, DnsTypeOK
  <2>3. m.queries \in Nat /\ framed \in BOOLEAN /\ (framed => m.queries > 0)
    BY <2>2
  <2>4. packets' \in Nat /\ (packets' > 0 => transport = "trojan")
    BY <2>1 DEF DnsInv, DnsTypeOK, TrojanAsksOne
  <2> HIDE DEF m, framed
  <2>5. CASE call' = Call(m.queries, framed)
    BY <2>1, <2>2, <2>3, <2>4, <2>5, CallStarts
  <2>6. CASE call' = NoCall
    <3>1. Got' = Got
      BY <2>1, <2>6 DEF Got
    <3>2. TrojanInOrder' /\ StreamHolds'
      BY <2>1, <3>1, AnswersFrame
    <3>3. DnsTypeOK' /\ Untouched' /\ CallAsksNext' /\ TrojanAsksOne'
      BY <2>1, <2>2, <2>6
         DEF DnsInv, DnsTypeOK, Untouched, CallAsksNext, TrojanAsksOne
    <3> QED
      BY <3>2, <3>3 DEF DnsInv
  <2> QED
    BY <2>1, <2>5, <2>6
<1>2. CASE DecodePackets
  <2>1. /\ transport = "trojan" /\ inbox # <<>> /\ call = NoCall
        /\ packets' = Head(inbox).queries /\ inbox' = Tail(inbox)
        /\ UNCHANGED <<transport, header, call, asked, failed, answers,
                       clientOpen>>
    BY <1>2 DEF DecodePackets
  <2>2. Head(inbox) \in [queries : Nat, cut : BOOLEAN]
        /\ Tail(inbox) \in Seq([queries : Nat, cut : BOOLEAN])
    BY <2>1, HeadTailProperties DEF DnsInv, DnsTypeOK
  <2>3. packets' \in Nat
    BY <2>1, <2>2
  <2>4. Got' = Got
    BY <2>1 DEF Got
  <2>5. TrojanInOrder' /\ StreamHolds'
    BY <2>1, <2>4, AnswersFrame
  <2>6. DnsTypeOK' /\ Untouched' /\ CallAsksNext' /\ TrojanAsksOne'
    BY <2>1, <2>2, <2>3
       DEF DnsInv, DnsTypeOK, Untouched, CallAsksNext, TrojanAsksOne
  <2> QED
    BY <2>5, <2>6 DEF DnsInv
<1>3. CASE RelayPacket
  <2>1. /\ packets > 0 /\ call = NoCall /\ packets' = packets - 1
        /\ call' = Call(1, TRUE)
        /\ UNCHANGED <<transport, inbox, header, asked, failed, answers,
                       clientOpen>>
    BY <1>3 DEF RelayPacket
  <2>2. transport = "trojan" /\ packets \in Nat
        /\ inbox' \in Seq([queries : Nat, cut : BOOLEAN])
    BY <2>1 DEF DnsInv, DnsTypeOK, TrojanAsksOne
  <2>3. packets' \in Nat /\ (packets' > 0 => transport = "trojan")
    BY <2>1, <2>2
  <2>4. 1 \in Nat /\ TRUE \in BOOLEAN /\ (TRUE => 1 > 0) /\ transport # "none"
    BY <2>2
  <2> QED
    BY <2>1, <2>2, <2>3, <2>4, CallStarts
<1> QED
  BY <1>1, <1>2, <1>3

(* The handshake, what the client does, and the dial.                      *)
LEMMA ClientStep ==
  ASSUME DnsInv,
         \/ \E t \in Transport : DnsStarts(t)
         \/ \E queries \in 0..MaxQueries, cut \in BOOLEAN : ClientAsks(queries, cut)
         \/ ClientLeaves
         \/ ResolverConnects \/ CallFails
  PROVE  DnsInv'
<1>1. ASSUME NEW t \in Transport, DnsStarts(t) PROVE DnsInv'
  <2>1. /\ transport = "none" /\ transport' = t /\ t # "none"
        /\ header' = (t \in {"ws", "http"})
        /\ answers' = IF t = "grpc" THEN <<Header>> ELSE <<>>
        /\ UNCHANGED <<inbox, packets, call, asked, failed, clientOpen>>
    BY <1>1 DEF DnsStarts, Transport
  <2>2. /\ ~header /\ ~failed /\ packets = 0 /\ call = NoCall /\ asked = 0
    BY <2>1 DEF DnsInv, Untouched
  <2>3. Header \in Answer /\ <<Header>> \in Seq(Answer) /\ <<>> \in Seq(Answer)
        /\ Len(<<Header>>) = 1 /\ <<Header>>[1] = Header
        /\ Len(<<>>) = 0
    BY DEF Header, Answer
  <2>4. answers' \in Seq(Answer)
    BY <2>1, <2>3
  <2>5. DnsTypeOK' /\ Untouched' /\ CallAsksNext'
    BY <2>1, <2>2, <2>4 DEF DnsInv, DnsTypeOK, Untouched, CallAsksNext
  <2>t. t \notin {"ws", "http"} => ~header'
    BY <2>1, Zenon
  <2>6. TrojanAsksOne'
    BY <2>1, <2>2, <2>t DEF TrojanAsksOne
  <2>7. t = "trojan" => answers' = <<>>
    BY <2>1
  <2>8. TrojanInOrder'
    BY <2>1, <2>3, <2>7 DEF TrojanInOrder, Increasing
  <2>9. Got' = 0 /\ PieceAt(1) = Header
    BY <2>1, <2>2 DEF Got, PieceAt
  <2>10. StreamHolds'
    <3>1. CASE t = "grpc"
      <4>1. answers' = <<Header>> /\ ~header' /\ asked' = 0
        BY <2>1, <2>2, <2>t, <3>1
      <4>2. Due' = 1
        BY <2>9, <4>1 DEF Due
      <4> QED
        BY <2>1, <2>3, <2>9, <4>1, <4>2, <3>1 DEF StreamHolds
    <3>2. CASE t # "grpc"
      <4>1. answers' = <<>> /\ asked' = 0
        BY <2>1, <2>2, <3>2
      <4>2. t # "trojan" => Due' = 0
        BY <2>1, <2>9, <3>2 DEF Due, Transport
      <4> QED
        BY <2>1, <2>3, <2>9, <4>1, <4>2 DEF StreamHolds
    <3> QED
      BY <3>1, <3>2
  <2> QED
    BY <2>5, <2>6, <2>8, <2>10 DEF DnsInv
<1>2. ASSUME NEW queries \in 0..MaxQueries, NEW cut \in BOOLEAN,
             ClientAsks(queries, cut)
      PROVE  DnsInv'
  <2> DEFINE m == [queries |-> queries, cut |-> cut]
  <2>1. /\ inbox' = Append(inbox, m) /\ transport # "none"
        /\ UNCHANGED <<transport, header, packets, call, asked, failed, answers,
                       clientOpen>>
    BY <1>2 DEF ClientAsks
  <2>2. m \in [queries : Nat, cut : BOOLEAN]
    BY DnsAssumption
  <2> HIDE DEF m
  <2>3. inbox' \in Seq([queries : Nat, cut : BOOLEAN])
    BY <2>1, <2>2 DEF DnsInv, DnsTypeOK
  <2>4. TrojanInOrder' /\ StreamHolds'
    BY <2>1, AnswersFrame DEF Got
  <2>5. DnsTypeOK' /\ Untouched' /\ CallAsksNext' /\ TrojanAsksOne'
    BY <2>1, <2>3 DEF DnsInv, DnsTypeOK, Untouched, CallAsksNext, TrojanAsksOne
  <2> QED
    BY <2>4, <2>5 DEF DnsInv
<1>3. CASE ClientLeaves
  <2>1. /\ clientOpen' = FALSE
        /\ UNCHANGED <<transport, inbox, header, packets, call, asked,
                       failed, answers>>
    BY <1>3 DEF ClientLeaves
  <2>4. TrojanInOrder' /\ StreamHolds'
    BY <2>1, AnswersFrame DEF Got
  <2>5. DnsTypeOK' /\ Untouched' /\ CallAsksNext' /\ TrojanAsksOne'
    BY <2>1 DEF DnsInv, DnsTypeOK, Untouched, CallAsksNext, TrojanAsksOne
  <2> QED
    BY <2>4, <2>5 DEF DnsInv
<1>4. CASE ResolverConnects
  <2>1. /\ call.stage = "connect"
        /\ UNCHANGED <<transport, inbox, packets, answers, clientOpen>>
    BY <1>4 DEF ResolverConnects
  <2>2. call # NoCall /\ call \in Calls
    BY <2>1 DEF NoCall, DnsInv, DnsTypeOK
  <2>3. CASE ~call.framed
    <3>1. EndCall(FALSE)
      BY <1>4, <2>3 DEF ResolverConnects
    <3> QED
      BY <2>1, <2>2, <3>1, CallEnds
  <2>4. CASE call.framed
    <3> DEFINE new == [call EXCEPT !.stage = "read"]
    <3>1. call' = new /\ UNCHANGED <<header, asked, failed>>
      BY <1>4, <2>4 DEF ResolverConnects
    <3>2. /\ new \in Calls /\ new.stage = "read" /\ new.expected = call.expected
          /\ new.framed = call.framed /\ new.base = call.base /\ new.got = call.got
      BY <2>2 DEF Calls
    <3> HIDE DEF new
    <3>3. new # NoCall
      BY <3>2 DEF NoCall
    <3>4. call.got = 0 /\ call.expected > 0 /\ call.base = asked
          /\ call.expected \in Nat
      BY <2>1, <2>2, <2>4 DEF DnsInv, CallAsksNext, Calls
    <3>5. Got' = Got
      BY <2>2, <3>1, <3>2, <3>3 DEF Got
    <3>6. TrojanInOrder' /\ StreamHolds'
      BY <2>1, <3>1, <3>5, AnswersFrame
    <3>7. CallAsksNext'
      <4>1. call'.got < 2 * call'.expected
        BY <3>1, <3>2, <3>4
      <4> QED
        BY <2>4, <3>1, <3>2, <3>4, <4>1 DEF CallAsksNext
    <3>8. DnsTypeOK' /\ Untouched' /\ TrojanAsksOne'
      BY <2>1, <2>2, <3>1, <3>2 DEF DnsInv, DnsTypeOK, Untouched, TrojanAsksOne
    <3> QED
      BY <3>6, <3>7, <3>8 DEF DnsInv
  <2> QED
    BY <2>3, <2>4
<1>5. CASE CallFails
  BY <1>5, CallEnds DEF CallFails
<1> QED
  BY <1>1, <1>2, <1>3, <1>4, <1>5

\* The halves of a chunk, and what goes to the client for them.
ChunkHalves(n) ==
  [i \in 1..n |-> LET k == call.got + i - 1
                  IN Half(call.base + 1 + (k \div 2), 1 + (k % 2))]
SentFor(n) ==
  IF transport = "trojan"
  THEN IF call.got + n = 2 * call.expected THEN <<Frame(call.base + 1)>> ELSE <<>>
  ELSE (IF header /\ call.got = 0 THEN <<Header>> ELSE <<>>) \o ChunkHalves(n)

(* A chunk is the next pieces of the stream.                               *)
LEMMA HalvesAreNext ==
  ASSUME DnsInv, call # NoCall, NEW n \in Nat
  PROVE  /\ ChunkHalves(n) \in Seq(Answer) /\ Len(ChunkHalves(n)) = n
         /\ \A i \in 1..n :
              ChunkHalves(n)[i] = PieceAt(1 + 2 * asked + call.got + i)
<1>1. call.base = asked /\ asked \in Nat /\ call.got \in Nat
  BY DEF DnsInv, DnsTypeOK, CallAsksNext, Calls
<1>2. ASSUME NEW i \in 1..n
      PROVE  /\ ChunkHalves(n)[i] \in Answer
             /\ ChunkHalves(n)[i] = PieceAt(1 + 2 * asked + call.got + i)
  <2> DEFINE k == call.got + i - 1
             h == Half(asked + 1 + (k \div 2), 1 + (k % 2))
  <2>1. ChunkHalves(n)[i] = h
    BY <1>1 DEF ChunkHalves
  <2>2. k \in Nat /\ 1 + 2 * asked + call.got + i = 2 * asked + k + 2
    BY <1>1
  <2> HIDE DEF k
  <2>3. h = PieceAt(2 * asked + k + 2)
    BY <1>1, <2>2, PieceNumber
  <2>4. k \div 2 \in Nat /\ k % 2 \in Nat
    BY <2>2
  <2>5. h \in Answer
    BY <1>1, <2>4 DEF Half, Answer
  <2> HIDE DEF h
  <2> QED
    BY <2>1, <2>2, <2>3, <2>5
<1>3. ChunkHalves(n) \in Seq(Answer) /\ Len(ChunkHalves(n)) = n
  <2>1. ChunkHalves(n) \in [1..n -> Answer]
    BY <1>2 DEF ChunkHalves
  <2> QED
    BY <2>1
<1> QED
  BY <1>2, <1>3

(* What is sent goes on where the stream stands, and makes it complete.    *)
LEMMA SentIsNext ==
  ASSUME DnsInv, call # NoCall, NEW n \in Nat, transport # "trojan"
  PROVE  /\ SentFor(n) \in Seq(Answer)
         /\ header => asked = 0 \/ failed
         /\ ~failed /\ clientOpen =>
              /\ Len(answers) + Len(SentFor(n)) = 1 + 2 * asked + call.got + n
              /\ \A i \in 1..Len(SentFor(n)) :
                   SentFor(n)[i] = PieceAt(Len(answers) + i)
<1> DEFINE halves == ChunkHalves(n)
           sent == SentFor(n)
<1>1. /\ halves \in Seq(Answer) /\ Len(halves) = n
      /\ \A i \in 1..n : halves[i] = PieceAt(1 + 2 * asked + call.got + i)
  BY HalvesAreNext
<1>2. asked \in Nat /\ call.got \in Nat /\ Len(answers) \in Nat
  BY DEF DnsInv, DnsTypeOK, Calls
<1>3. transport # "none"
  BY DEF DnsInv, Untouched
<1>4. /\ ~failed /\ clientOpen => Len(answers) = Due
      /\ ~failed /\ header => asked = 0
  BY <1>3 DEF DnsInv, StreamHolds
<1>5. Header \in Answer
  BY DEF Header, Answer
<1> HIDE DEF halves
<1>6. CASE header /\ call.got = 0
  <2>1. sent = <<Header>> \o halves
    BY <1>6 DEF SentFor, halves
  <2>2. /\ sent \in Seq(Answer) /\ Len(sent) = 1 + n
        /\ sent[1] = Header /\ \A i \in 1..n : sent[1 + i] = halves[i]
    <3>1. <<Header>> \in Seq(Answer) /\ Len(<<Header>>) = 1 /\ <<Header>>[1] = Header
      BY <1>5
    <3>2. <<Header>> \o halves \in Seq(Answer) /\ Len(<<Header>> \o halves) = 1 + n
          /\ (<<Header>> \o halves)[1] = Header
          /\ \A i \in 1..n : (<<Header>> \o halves)[1 + i] = halves[i]
      BY <1>1, <3>1
    <3> QED
      BY <2>1, <3>2
  <2> HIDE DEF sent
  <2>3. ASSUME ~failed, clientOpen
        PROVE  /\ Len(answers) + Len(sent) = 1 + 2 * asked + call.got + n
               /\ \A i \in 1..Len(sent) : sent[i] = PieceAt(Len(answers) + i)
    <3>1. Len(answers) = 0 /\ asked = 0
      BY <1>4, <1>6, <2>3 DEF Due, Got
    <3>2. PieceAt(1) = Header
      BY DEF PieceAt
    <3>3. ASSUME NEW i \in 1..(1 + n) PROVE sent[i] = PieceAt(Len(answers) + i)
      <4>1. CASE i = 1
        BY <2>2, <3>1, <3>2, <4>1
      <4>2. CASE i > 1
        <5> DEFINE j == i - 1
        <5>1. j \in 1..n /\ 1 + j = i
              /\ 1 + 2 * asked + call.got + j = Len(answers) + i
          BY <1>2, <1>6, <3>1, <4>2
        <5> HIDE DEF j
        <5>2. sent[1 + j] = PieceAt(1 + 2 * asked + call.got + j)
          BY <1>1, <2>2, <5>1
        <5> QED
          BY <5>1, <5>2
      <4> QED
        BY <4>1, <4>2
    <3> QED
      BY <1>2, <1>6, <2>2, <3>1, <3>3
  <2> QED
    BY <1>4, <2>2, <2>3 DEF sent
<1>7. CASE ~(header /\ call.got = 0)
  <2>1. sent = <<>> \o halves
    BY <1>7 DEF SentFor, halves
  <2>2. sent = halves
    BY <1>1, <2>1
  <2> HIDE DEF sent
  <2>3. ASSUME ~failed, clientOpen
        PROVE  /\ Len(answers) + Len(sent) = 1 + 2 * asked + call.got + n
               /\ \A i \in 1..Len(sent) : sent[i] = PieceAt(Len(answers) + i)
    <3>1. Len(answers) = 1 + 2 * asked + call.got
      BY <1>4, <1>7, <2>3 DEF Due, Got
    <3> QED
      BY <1>1, <1>2, <2>2, <3>1
  <2> QED
    BY <1>1, <1>4, <2>2, <2>3 DEF sent
<1> QED
  BY <1>6, <1>7

(* Queries counted in halves.                                              *)
LEMMA HalvesAdd ==
  ASSUME NEW a \in Nat, NEW e \in Nat, NEW g \in Nat, NEW n \in Nat,
         g + n = 2 * e
  PROVE  1 + 2 * (a + e) + 0 = 1 + 2 * a + g + n
OBVIOUS

(* A chunk of an answer arrives, and may be the call's last.               *)
LEMMA AnswerStep ==
  ASSUME DnsInv, NEW n \in Chunks, AnswerArrives(n)
  PROVE  DnsInv'
<1> DEFINE done == call.got + n = 2 * call.expected
           sent == SentFor(n)
           more == [call EXCEPT !.got = @ + n]
<1>1. /\ call.stage = "read"
      /\ UNCHANGED <<transport, inbox, packets, clientOpen>>
      /\ answers' = IF clientOpen THEN answers \o sent ELSE answers
  BY DEF AnswerArrives, SentFor, ChunkHalves
<1>2. IF done THEN EndCall(TRUE)
      ELSE call' = more /\ UNCHANGED <<header, asked, failed>>
  BY DEF AnswerArrives
<1>3. call # NoCall /\ call \in Calls
  BY <1>1 DEF NoCall, DnsInv, DnsTypeOK
<1>4. /\ asked \in Nat /\ call.expected \in Nat /\ call.got \in Nat
      /\ call.base = asked /\ call.framed /\ transport # "none"
      /\ answers \in Seq(Answer) /\ Len(answers) \in Nat
  BY <1>1, <1>3 DEF DnsInv, DnsTypeOK, CallAsksNext, Calls, Untouched
<1>5. n \in Nat \ {0} /\ call.got + n <= 2 * call.expected
  BY <1>1, <1>4 DEF Chunks
<1>6. /\ more \in Calls /\ more.stage = "read" /\ more.expected = call.expected
      /\ more.framed = call.framed /\ more.base = call.base
      /\ more.got = call.got + n
  BY <1>1, <1>3, <1>5 DEF Calls
<1> HIDE DEF more
<1>7. more # NoCall
  BY <1>6 DEF NoCall
\* What either end of the case comes to.
<1>8. /\ asked' \in Nat /\ header' \in BOOLEAN /\ failed' \in BOOLEAN
      /\ call' \in Calls \cup {NoCall}
      /\ failed' = failed
      /\ header' => header /\ ~done
      /\ asked' = IF done THEN asked + call.expected ELSE asked
      /\ done => call' = NoCall
      /\ ~done => call' = more
  <2>1. CASE done
    <3>1. /\ call' = NoCall /\ asked' = asked + call.expected
          /\ failed' = (failed \/ ~TRUE) /\ header' = FALSE
      BY <1>2, <2>1 DEF EndCall
    <3>2. failed' = failed /\ failed' \in BOOLEAN
      <4>1. failed \in BOOLEAN
        BY DEF DnsInv, DnsTypeOK
      <4> QED
        BY <3>1, <4>1, Zenon
    <3>3. asked' \in Nat
      BY <1>4, <3>1
    <3> HIDE DEF done
    <3> QED
      BY <2>1, <3>1, <3>2, <3>3
  <2>2. CASE ~done
    <3>1. call' = more /\ UNCHANGED <<header, asked, failed>>
      BY <1>2, <2>2
    <3> HIDE DEF done
    <3> QED
      BY <1>4, <1>6, <2>2, <3>1 DEF DnsInv, DnsTypeOK
  <2> QED
    BY <2>1, <2>2
<1>9. CallAsksNext' /\ Untouched'
  <2>1. ~done => call.got + n < 2 * call.expected
    BY <1>4, <1>5
  <2>2. ~done => call.expected > 0
    BY <1>4, <1>5
  <2> HIDE DEF done
  <2>3. CallAsksNext'
    BY <1>4, <1>6, <1>8, <2>1, <2>2 DEF CallAsksNext
  <2> QED
    BY <1>1, <1>4, <2>3 DEF Untouched
<1>10. TrojanAsksOne'
  <2> HIDE DEF done
  <2> QED
    BY <1>1, <1>3, <1>6, <1>8 DEF DnsInv, TrojanAsksOne
<1>11. CASE transport = "trojan"
  <2>1. /\ call.expected = 1 /\ Increasing(answers)
        /\ \A i \in 1..Len(answers) : answers[i][2] = 0 /\ answers[i][1] <= asked
    BY <1>3, <1>11 DEF DnsInv, TrojanAsksOne, TrojanInOrder
  <2>2. \A i \in 1..Len(answers) : answers[i][1] \in Nat
    BY <1>4 DEF Answer
  <2>3. StreamHolds'
    BY <1>1, <1>11 DEF StreamHolds
  <2>4. CASE ~done \/ ~clientOpen
    <3>1. answers' = answers
      <4>1. CASE ~clientOpen
        BY <1>1, <4>1
      <4>2. CASE ~done /\ clientOpen
        <5>1. sent = <<>>
          BY <1>11, <4>2 DEF SentFor
        <5> HIDE DEF sent
        <5> QED
          BY <1>1, <1>4, <4>2, <5>1
      <4> QED
        BY <2>4, <4>1, <4>2
    <3>2. asked <= asked'
      BY <1>4, <1>8
    <3>3. \A i \in 1..Len(answers) : answers[i][1] <= asked'
      BY <1>4, <1>8, <2>1, <2>2, <3>2
    <3>4. TrojanInOrder'
      BY <2>1, <3>1, <3>3 DEF TrojanInOrder, Increasing
    <3>5. DnsTypeOK'
      BY <1>1, <1>8, <3>1 DEF DnsInv, DnsTypeOK
    <3> QED
      BY <1>9, <1>10, <2>3, <3>4, <3>5 DEF DnsInv
  <2>5. CASE done /\ clientOpen
    <3> DEFINE f == Frame(call.base + 1)
               after == Append(answers, f)
    <3>1. sent = <<f>>
      BY <1>11, <2>5 DEF SentFor
    <3>2. f \in Answer /\ f[1] = asked + 1 /\ f[2] = 0
      BY <1>4 DEF Frame, Answer
    <3>3. asked' = asked + 1
      BY <1>8, <2>1, <2>5
    <3> HIDE DEF f, sent
    <3>4. answers \o <<f>> = after
      BY <1>4, <3>2
    <3>5. answers' = after
      BY <1>1, <2>5, <3>1, <3>4
    <3>6. /\ after \in Seq(Answer) /\ Len(after) = Len(answers) + 1
          /\ DOMAIN after = 1..(Len(answers) + 1)
          /\ \A i \in 1..Len(answers) : after[i] = answers[i]
          /\ after[Len(answers) + 1] = f
      BY <1>4, <3>2
    <3> HIDE DEF after
    <3>7. \A i \in 1..(Len(answers) + 1) : i \in 1..Len(answers) \/ i = Len(answers) + 1
      BY <1>4
    <3>8. DOMAIN answers = 1..Len(answers)
      BY <1>4
    <3>9. Increasing(after)
      <4> SUFFICES ASSUME NEW i \in 1..(Len(answers) + 1),
                          NEW j \in 1..(Len(answers) + 1), i < j
                   PROVE  after[i][1] < after[j][1]
        BY <3>6 DEF Increasing
      <4>1. i \in 1..Len(answers) /\ after[i] = answers[i]
        BY <1>4, <3>6
      <4>2. CASE j \in 1..Len(answers)
        BY <2>1, <3>6, <3>8, <4>1, <4>2 DEF Increasing
      <4>3. CASE j = Len(answers) + 1
        <5>1. answers[i][1] <= asked /\ answers[i][1] \in Nat
          BY <2>1, <2>2, <4>1
        <5>2. after[j][1] = asked + 1
          BY <3>2, <3>6, <4>3
        <5> QED
          BY <1>4, <4>1, <5>1, <5>2
      <4> QED
        BY <3>7, <4>2, <4>3
    <3>10. \A i \in 1..(Len(answers) + 1) : after[i][2] = 0 /\ after[i][1] <= asked'
      <4> SUFFICES ASSUME NEW i \in 1..(Len(answers) + 1)
                   PROVE  after[i][2] = 0 /\ after[i][1] <= asked'
        OBVIOUS
      <4>1. CASE i \in 1..Len(answers)
        BY <1>4, <2>1, <2>2, <3>3, <3>6, <4>1
      <4>2. CASE i = Len(answers) + 1
        BY <1>4, <3>2, <3>3, <3>6, <4>2
      <4> QED
        BY <3>7, <4>1, <4>2
    <3>11. TrojanInOrder'
      BY <3>5, <3>6, <3>9, <3>10 DEF TrojanInOrder, Increasing
    <3>12. DnsTypeOK'
      BY <1>1, <1>8, <3>5, <3>6 DEF DnsInv, DnsTypeOK
    <3> QED
      BY <1>9, <1>10, <2>3, <3>11, <3>12 DEF DnsInv
  <2> QED
    BY <2>4, <2>5
<1>12. CASE transport # "trojan"
  <2>1. /\ sent \in Seq(Answer)
        /\ header => asked = 0 \/ failed
        /\ ~failed /\ clientOpen =>
             /\ Len(answers) + Len(sent) = 1 + 2 * asked + call.got + n
             /\ \A i \in 1..Len(sent) : sent[i] = PieceAt(Len(answers) + i)
    BY <1>3, <1>5, <1>12, SentIsNext
  <2> HIDE DEF sent
  <2> DEFINE after == answers \o sent
  <2>2. /\ after \in Seq(Answer) /\ Len(after) = Len(answers) + Len(sent)
        /\ \A i \in 1..Len(answers) : after[i] = answers[i]
        /\ \A i \in 1..Len(sent) : after[Len(answers) + i] = sent[i]
        /\ Len(sent) \in Nat
    BY <1>4, <2>1
  <2>3. answers' = IF clientOpen THEN after ELSE answers
    BY <1>1
  <2> HIDE DEF after
  <2>4. DnsTypeOK'
    BY <1>1, <1>8, <2>2, <2>3 DEF DnsInv, DnsTypeOK
  <2>5. TrojanInOrder'
    BY <1>1, <1>12 DEF TrojanInOrder
  <2>6. /\ Due' = 1 + 2 * asked + call.got + n
        /\ 1 + 2 * asked' + Got' = 1 + 2 * asked + call.got + n
    <3>1. CASE done
      <4>1. Got' = 0 /\ asked' = asked + call.expected /\ ~header'
        BY <1>8, <3>1 DEF Got
      <4>2. Due' = 1 + 2 * asked' + Got'
        BY <4>1 DEF Due
      <4>3. 1 + 2 * asked' + Got' = 1 + 2 * asked + call.got + n
        <5>a. asked \in Nat /\ call.expected \in Nat /\ call.got \in Nat /\ n \in Nat
          BY <1>4, <1>5
        <5>b. call.got + n = 2 * call.expected
          BY <3>1
        <5>1. 1 + 2 * (asked + call.expected) + 0 = 1 + 2 * asked + call.got + n
          BY ONLY <5>a, <5>b, HalvesAdd
        <5> HIDE DEF done
        <5> QED
          BY <4>1, <5>1
      <4> QED
        BY <4>2, <4>3
    <3>2. CASE ~done
      <4>1. Got' = call.got + n /\ asked' = asked
        BY <1>6, <1>7, <1>8, <3>2 DEF Got
      <4>2. Got' # 0
        BY <1>4, <1>5, <4>1
      <4> QED
        BY <1>4, <1>5, <4>1, <4>2 DEF Due
    <3> QED
      BY <3>1, <3>2
  <2>7. StreamHolds'
    <3> SUFFICES ASSUME ~failed
                 PROVE  /\ \A p \in 1..Len(answers') : answers'[p] = PieceAt(p)
                        /\ Len(answers') <= 1 + 2 * asked' + Got'
                        /\ clientOpen' => Len(answers') = Due'
                        /\ header' => asked' = 0
      BY <1>8 DEF StreamHolds
    <3>1. header' => asked' = 0
      BY <1>8, <2>1
    <3>2. /\ \A p \in 1..Len(answers) : answers[p] = PieceAt(p)
          /\ Len(answers) <= 1 + 2 * asked + call.got
      BY <1>3, <1>12 DEF DnsInv, StreamHolds, Got
    <3>3. CASE ~clientOpen
      <4>1. Len(answers) <= 1 + 2 * asked + call.got + n
        BY <1>4, <1>5, <3>2
      <4> QED
        BY <1>1, <2>3, <2>6, <3>1, <3>2, <3>3, <4>1
    <3>4. CASE clientOpen
      <4>1. ASSUME NEW p \in 1..Len(after) PROVE after[p] = PieceAt(p)
        <5>1. CASE p \in 1..Len(answers)
          BY <2>2, <3>2, <5>1
        <5>2. CASE p > Len(answers)
          <6> DEFINE j == p - Len(answers)
          <6>1. j \in 1..Len(sent) /\ Len(answers) + j = p
            BY <1>4, <2>2, <5>2
          <6> HIDE DEF j
          <6>2. after[Len(answers) + j] = PieceAt(Len(answers) + j)
            BY <2>1, <2>2, <3>4, <6>1
          <6> QED
            BY <6>1, <6>2
        <5> QED
          BY <1>4, <2>2, <5>1, <5>2
      <4>2. Len(after) = 1 + 2 * asked + call.got + n
        BY <2>1, <2>2, <3>4
      <4>3. Len(after) \in Nat
        BY <1>4, <2>2
      <4> QED
        BY <2>3, <2>6, <3>1, <3>4, <4>1, <4>2, <4>3
    <3> QED
      BY <3>3, <3>4
  <2> QED
    BY <1>9, <1>10, <2>4, <2>5, <2>7 DEF DnsInv
<1> QED
  BY <1>11, <1>12

(* Every step of the relay keeps its invariant.                            *)
LEMMA DnsInductive == DnsInv /\ [DnsNext]_dnsVars => DnsInv'
<1> SUFFICES ASSUME DnsInv, [DnsNext]_dnsVars PROVE DnsInv'
  OBVIOUS
<1>1. CASE DnsNext
  BY <1>1, RelayStep, ClientStep, AnswerStep DEF DnsNext, DnsStep
<1>2. CASE UNCHANGED dnsVars
  <2>1. UNCHANGED <<transport, inbox, header, packets, call, asked, failed,
                   answers, clientOpen>>
    BY <1>2 DEF dnsVars
  <2>2. TrojanInOrder' /\ StreamHolds'
    BY <2>1, AnswersFrame DEF Got
  <2>3. DnsTypeOK' /\ Untouched' /\ CallAsksNext' /\ TrojanAsksOne'
    BY <2>1 DEF DnsInv, DnsTypeOK, Untouched, CallAsksNext, TrojanAsksOne
  <2> QED
    BY <2>2, <2>3 DEF DnsInv
<1> QED
  BY <1>1, <1>2

(* A client whose stream holds can read it.                                *)
LEMMA StreamReadable == DnsInv => DnsAnswersReadable
<1> SUFFICES ASSUME DnsInv PROVE DnsAnswersReadable
  OBVIOUS
<1> DEFINE total == asked + (IF call = NoCall THEN 0 ELSE call.expected)
           pieces == [i \in 1..(2 * total) |-> Half((i + 1) \div 2, 2 - (i % 2))]
           all == <<Header>> \o pieces
<1>1. asked \in Nat /\ answers \in Seq(Answer) /\ Len(answers) \in Nat
  BY DEF DnsInv, DnsTypeOK
<1>2. total \in Nat
  BY <1>1 DEF DnsInv, DnsTypeOK, Calls
<1>3. CASE transport = "trojan"
  <2>1. DOMAIN answers = 1..Len(answers)
    BY <1>1
  <2> QED
    BY <1>3, <2>1 DEF DnsInv, TrojanInOrder, DnsAnswersReadable
<1>4. CASE transport # "trojan"
  <2> SUFFICES ASSUME ~failed
               PROVE  /\ IsPrefix(answers, all)
                      /\ call = NoCall /\ clientOpen /\ asked > 0 => answers = all
    BY <1>4 DEF DnsAnswersReadable
  <2>1. /\ \A p \in 1..Len(answers) : answers[p] = PieceAt(p)
        /\ Len(answers) <= 1 + 2 * asked + Got
        /\ clientOpen /\ transport # "none" => Len(answers) = Due
        /\ header => asked = 0
    BY <1>4 DEF DnsInv, StreamHolds
  <2>2. Got \in Nat /\ 2 * asked + Got <= 2 * total
    <3>1. CASE call = NoCall
      BY <1>1, <3>1 DEF Got
    <3>2. CASE call # NoCall
      <4>1. /\ call \in Calls
            /\ call.stage = "connect" => call.got = 0
            /\ call.stage = "read" => call.got < 2 * call.expected
        BY <3>2 DEF DnsInv, DnsTypeOK, CallAsksNext
      <4>2. call.got \in Nat /\ call.expected \in Nat
            /\ (call.stage = "connect" \/ call.stage = "read")
        BY <4>1 DEF Calls
      <4>3. call.got <= 2 * call.expected
        BY <4>1, <4>2
      <4> QED
        BY <1>1, <3>2, <4>2, <4>3 DEF Got
    <3> QED
      BY <3>1, <3>2
  <2>3. call = NoCall => total = asked
    BY <1>1
  <2> HIDE DEF total
  <2>4. /\ pieces \in Seq(Answer) /\ Len(pieces) = 2 * total
        /\ \A i \in 1..(2 * total) : pieces[i] = PieceAt(1 + i)
    <3>1. ASSUME NEW i \in 1..(2 * total)
          PROVE  pieces[i] \in Answer /\ pieces[i] = PieceAt(1 + i)
      <4>1. pieces[i] = Half((i + 1) \div 2, 2 - (i % 2))
        OBVIOUS
      <4> HIDE DEF pieces
      <4>2. i \in Nat /\ 1 + i # 1 /\ (1 + i) - 1 = i /\ 1 + i = i + 1
        BY <1>2
      <4>3. pieces[i] = PieceAt(1 + i)
        BY <4>1, <4>2 DEF PieceAt
      <4>4. (i + 1) \div 2 \in Nat /\ 2 - (i % 2) \in Nat
        BY <4>2
      <4> QED
        BY <4>1, <4>3, <4>4 DEF Half, Answer
    <3>2. pieces \in [1..(2 * total) -> Answer]
      BY <3>1
    <3>3. 2 * total \in Nat
      BY <1>2
    <3>4. pieces \in Seq(Answer) /\ Len(pieces) = 2 * total
      <4> DEFINE m == 2 * total
      <4>1. m \in Nat /\ pieces \in [1..m -> Answer]
        BY <3>2, <3>3
      <4> HIDE DEF m, pieces
      <4>2. pieces \in Seq(Answer) /\ Len(pieces) = m
        BY <4>1
      <4> QED
        BY <4>2 DEF m
    <3> QED
      BY <3>1, <3>4
  <2> HIDE DEF pieces
  <2>5. /\ all \in Seq(Answer) /\ Len(all) = 1 + 2 * total
        /\ all[1] = Header /\ \A i \in 1..(2 * total) : all[1 + i] = pieces[i]
    <3>1. Header \in Answer
      BY DEF Header, Answer
    <3>2. <<Header>> \in Seq(Answer) /\ Len(<<Header>>) = 1 /\ <<Header>>[1] = Header
      BY <3>1
    <3> QED
      BY <1>2, <2>4, <3>2
  <2> HIDE DEF all
  <2>6. ASSUME NEW p \in 1..(1 + 2 * total) PROVE all[p] = PieceAt(p)
    <3>1. CASE p = 1
      BY <2>5, <3>1 DEF PieceAt
    <3>2. CASE p > 1
      <4> DEFINE i == p - 1
      <4>1. i \in 1..(2 * total) /\ 1 + i = p
        BY <1>2, <3>2
      <4> HIDE DEF i
      <4> QED
        BY <2>4, <2>5, <4>1
    <3> QED
      BY <1>2, <3>1, <3>2
  <2>7. Len(answers) <= Len(all)
    BY <1>1, <1>2, <2>1, <2>2, <2>5
  <2>8. \A p \in 1..Len(answers) : answers[p] = all[p]
    BY <1>1, <1>2, <2>1, <2>5, <2>6, <2>7
  <2>9. IsPrefix(answers, all)
    <3> DEFINE x == SubSeq(answers, 1, Len(answers))
               y == SubSeq(all, 1, Len(answers))
    <3>1. /\ x \in Seq(Answer) /\ Len(x) = Len(answers)
          /\ \A p \in 1..Len(answers) : x[p] = answers[p]
      BY <1>1
    <3>2. /\ y \in Seq(Answer) /\ Len(y) = Len(answers)
          /\ \A p \in 1..Len(answers) : y[p] = all[p]
      BY <1>1, <1>2, <2>5, <2>7
    <3> HIDE DEF x, y
    <3>3. x = y
      BY ONLY <2>8, <3>1, <3>2, SeqEqual
    <3> QED
      BY <2>7, <3>3 DEF IsPrefix, x, y
  <2>10. ASSUME call = NoCall, clientOpen, asked > 0 PROVE answers = all
    <3>1. transport # "none"
      BY <1>1, <2>10 DEF DnsInv, Untouched
    <3>2. ~header /\ Got = 0
      BY <1>1, <2>1, <2>10 DEF Got
    <3>3. Len(answers) = 1 + 2 * asked
      BY <1>1, <2>1, <2>10, <3>1, <3>2 DEF Due
    <3>4. Len(answers) = Len(all)
      BY <2>3, <2>5, <2>10, <3>3
    <3> QED
      BY ONLY <1>1, <2>5, <2>8, <3>4, SeqEqual
  <2> QED
    BY <2>9, <2>10
<1> QED
  BY <1>3, <1>4

(***************************************************************************)
(* For any number of messages and queries, and wherever the resolver cuts  *)
(* its answers: over Trojan the client receives whole answers in order,    *)
(* over VLESS one header and then a stream of answers without a gap, until *)
(* a call fails.                                                           *)
(***************************************************************************)
THEOREM AnswersReadable == DnsSpec => []DnsAnswersReadable
<1>1. DnsInit => DnsInv
  <2> SUFFICES ASSUME DnsInit PROVE DnsInv
    OBVIOUS
  <2>1. /\ <<>> \in Seq([queries : Nat, cut : BOOLEAN]) /\ <<>> \in Seq(Answer)
        /\ Len(<<>>) = 0
    OBVIOUS
  <2>a. header \in BOOLEAN /\ failed \in BOOLEAN /\ clientOpen \in BOOLEAN
    BY Zenon DEF DnsInit
  <2>b. DnsTypeOK
    BY <2>1, <2>a DEF DnsInit, DnsTypeOK
  <2>2. Untouched /\ CallAsksNext /\ TrojanAsksOne
    BY DEF DnsInit, Untouched, CallAsksNext, TrojanAsksOne
  <2>3. TrojanInOrder
    BY DEF DnsInit, TrojanInOrder
  <2>4. StreamHolds
    BY <2>1 DEF DnsInit, StreamHolds, Got
  <2> QED
    BY <2>b, <2>2, <2>3, <2>4 DEF DnsInv
<1> QED
  BY <1>1, DnsInductive, StreamReadable, PTL DEF DnsSpec


----------------------------------------------------------------------------
(* StreamDecoders.  A decoder has no say in how its stream is cut.  The    *)
(* invariant AsIfUncut is that it is what the bytes pushed so far would    *)
(* have made of a fresh decoder at once, which needs no more than that the *)
(* head of a buffer, once it tells of a unit or refuses it, tells the same *)
(* with more bytes behind (Settled).  That those bytes are then decoded as *)
(* they were meant is shown of each frame by itself (Reads), and of a      *)
(* stream of them by induction on their number.                            *)

(***************************************************************************)
(* The least number of a set: how a statement about every step of a        *)
(* decoder is proved, from its first counterexample.                       *)
(***************************************************************************)
LEMMA LeastNumber ==
  ASSUME NEW T \in SUBSET Nat, T # {}
  PROVE  \E n \in T : \A m \in T : n <= m
<1>. DEFINE R == OpToRel(<, Nat)
<1>1. IsWellFoundedOn(R, Nat)
  BY NatLessThanWellFounded
<1>2. \A x, y \in Nat : <<x, y>> \in R <=> x < y
  BY DEF OpToRel
<1>. HIDE DEF R
<1>3. PICK n \in T : \A y \in T : <<y, n>> \notin R
  BY <1>1, WFMin
<1>4. n \in Nat /\ \A m \in T : m \in Nat /\ ~(m < n)
  BY <1>2, <1>3
<1>. QED
  BY <1>4

(***************************************************************************)
(* Induction over a set of numbers.                                        *)
(***************************************************************************)
LEMMA Inductive ==
  ASSUME NEW S, 0 \in S, \A n \in Nat : n \in S => n + 1 \in S
  PROVE  Nat \subseteq S
<1>. DEFINE T == {n \in Nat : n \notin S}
<1>1. SUFFICES ASSUME T # {} PROVE FALSE
  OBVIOUS
<1>2. T \in SUBSET Nat
  OBVIOUS
<1>. HIDE DEF T
<1>3. PICK n \in T : \A m \in T : n <= m
  BY <1>1, <1>2, LeastNumber
<1>4. n \in Nat /\ n \notin S
  BY DEF T
<1>5. n # 0
  BY <1>4
<1>6. n - 1 \in Nat /\ n - 1 \notin T
  BY <1>3, <1>4, <1>5
<1>7. n - 1 \in S
  BY <1>6 DEF T
<1>. QED
  BY <1>4, <1>6, <1>7

----------------------------------------------------------------------------
(* Bytes.                                                                  *)

Bytes == Seq(Nat)

\* The bytes c start with the bytes b.
Begins(b, c) ==
  /\ b \in Bytes /\ c \in Bytes /\ Len(b) <= Len(c)
  /\ \A i \in 1..Len(b) : c[i] = b[i]

\* A string begins whatever continues it.
LEMMA BeginsConcat ==
  ASSUME NEW b \in Bytes, NEW y \in Bytes
  PROVE  Begins(b, b \o y)
  BY ConcatProperties, LenProperties DEF Begins, Bytes

(* What lies within b can be read from c.                                  *)
LEMMA BeginsAt ==
  ASSUME NEW b, NEW c, Begins(b, c), NEW i \in Nat, i < Len(b)
  PROVE  At(c, i) = At(b, i) /\ At(b, i) \in Nat
<1>1. Len(b) \in Nat /\ i + 1 \in 1..Len(b)
  BY LenProperties DEF Begins, Bytes
<1>. QED
  BY <1>1, ElementOfSeq DEF Begins, Bytes, At

\* So can a number of two bytes.
LEMMA BeginsU16 ==
  ASSUME NEW b, NEW c, Begins(b, c), NEW i \in Nat, i + 1 < Len(b)
  PROVE  U16(c, i) = U16(b, i) /\ U16(b, i) \in Nat
<1>0. Len(b) \in Nat
  BY LenProperties DEF Begins, Bytes
<1>1. At(c, i) = At(b, i) /\ At(b, i) \in Nat
  BY <1>0, BeginsAt
<1>2. At(c, i + 1) = At(b, i + 1) /\ At(b, i + 1) \in Nat
  BY <1>0, BeginsAt
<1>. QED
  BY <1>1, <1>2 DEF U16

\* x is what lies in b from i to j; x is b and y behind it.
IsSlice(x, b, i, j) ==
  /\ x \in Bytes
  /\ Len(x) = IF i <= j THEN j - i ELSE 0
  /\ \A k \in 1..(j - i) : x[k] = b[i + k]
IsConcat(x, b, y) ==
  /\ x \in Bytes
  /\ Len(x) = Len(b) + Len(y)
  /\ \A k \in 1..(Len(b) + Len(y)) :
       x[k] = IF k <= Len(b) THEN b[k] ELSE y[k - Len(b)]

\* Concatenation, position by position.
LEMMA ConcatIsConcat ==
  ASSUME NEW b \in Bytes, NEW y \in Bytes
  PROVE  IsConcat(b \o y, b, y)
  BY ConcatProperties DEF Bytes, IsConcat

\* A slice, position by position.
LEMMA SliceIsSlice ==
  ASSUME NEW b \in Bytes, NEW i \in Nat, NEW j \in Nat, j <= Len(b)
  PROVE  IsSlice(Slice(b, i, j), b, i, j)
<1>0. Len(b) \in Nat
  BY LenProperties DEF Bytes
<1>1. \A k \in (i + 1)..j : b[k] \in Nat
  BY <1>0, ElementOfSeq DEF Bytes
<1>2. /\ SubSeq(b, i + 1, j) \in Seq(Nat)
      /\ Len(SubSeq(b, i + 1, j)) = IF i + 1 <= j THEN j - (i + 1) + 1 ELSE 0
      /\ \A k \in 1..(j - (i + 1) + 1) :
           SubSeq(b, i + 1, j)[k] = b[(i + 1) + k - 1]
  BY <1>1, SubSeqProperties
<1>3. \A k \in 1..(j - i) : Slice(b, i, j)[k] = b[i + k]
  <2>1. SUFFICES ASSUME NEW k \in 1..(j - i) PROVE Slice(b, i, j)[k] = b[i + k]
    OBVIOUS
  <2>2. k \in 1..(j - (i + 1) + 1) /\ (i + 1) + k - 1 = i + k
    OBVIOUS
  <2>. QED
    BY <1>2, <2>2 DEF Slice
<1>. QED
  BY <1>2, <1>3 DEF Slice, Bytes, IsSlice

\* The length of a string of bytes is a number.
LEMMA LenNat ==
  ASSUME NEW b \in Bytes
  PROVE  Len(b) \in Nat
  BY LenProperties DEF Bytes

\* Strings of the same bytes are the same string.
LEMMA BytesEqual ==
  ASSUME NEW b \in Bytes, NEW c \in Bytes, Len(b) = Len(c),
         \A k \in 1..Len(b) : b[k] = c[k]
  PROVE  b = c
  BY SeqEqual DEF Bytes

\* From is the slice up to the end.
LEMMA FromIsSlice ==
  ASSUME NEW b \in Bytes, NEW n \in 0..Len(b)
  PROVE  IsSlice(From(b, n), b, n, Len(b))
<1>1. Len(b) \in Nat
  BY LenNat
<1>2. From(b, n) = Slice(b, n, Len(b))
  BY DEF From, Slice
<1>. QED
  BY <1>1, <1>2, SliceIsSlice

(* Two slices of the same bytes are the same.                              *)
LEMMA SlicesEqual ==
  ASSUME NEW b, NEW c, NEW i \in Nat, NEW j \in Nat,
         NEW x, NEW y, IsSlice(x, b, i, j), IsSlice(y, c, i, j),
         \A k \in (i + 1)..j : b[k] = c[k]
  PROVE  x = y
<1>1. x \in Bytes /\ y \in Bytes /\ Len(x) = Len(y)
  BY DEF IsSlice
<1>2. \A k \in 1..Len(x) : x[k] = y[k]
  <2>1. SUFFICES ASSUME NEW k \in 1..Len(x) PROVE x[k] = y[k]
    OBVIOUS
  <2>2. k \in 1..(j - i) /\ i + k \in (i + 1)..j
    BY DEF IsSlice
  <2>. QED
    BY <2>2 DEF IsSlice
<1>. QED
  BY <1>1, <1>2, BytesEqual

\* A slice of the beginning is the same slice of the whole.
LEMMA BeginsSlice ==
  ASSUME NEW b, NEW c, Begins(b, c), NEW i \in Nat, NEW j \in Nat, j <= Len(b)
  PROVE  Slice(c, i, j) = Slice(b, i, j) /\ Slice(b, i, j) \in Bytes
<1>0. b \in Bytes /\ c \in Bytes /\ Len(b) <= Len(c)
  BY DEF Begins
<1>1. Len(b) \in Nat /\ Len(c) \in Nat
  BY <1>0, LenNat
<1>2. j <= Len(c)
  BY <1>0, <1>1
<1>3. IsSlice(Slice(b, i, j), b, i, j) /\ IsSlice(Slice(c, i, j), c, i, j)
  BY <1>0, <1>2, SliceIsSlice
<1>4. \A k \in (i + 1)..j : b[k] = c[k]
  BY <1>1 DEF Begins
<1>5. Slice(b, i, j) = Slice(c, i, j)
  BY <1>3, <1>4, SlicesEqual
<1>. QED
  BY <1>3, <1>5 DEF IsSlice

(* The rest behind n bytes of a longer buffer is the longer rest.          *)
LEMMA FromConcat ==
  ASSUME NEW b \in Bytes, NEW y \in Bytes, NEW n \in 0..Len(b)
  PROVE  /\ From(b, n) \in Bytes
         /\ Len(From(b, n)) = Len(b) - n
         /\ From(b \o y, n) = From(b, n) \o y
<1>0. Len(b) \in Nat /\ Len(y) \in Nat
  BY LenNat
<1>1. IsConcat(b \o y, b, y)
  BY ConcatIsConcat
<1>2. b \o y \in Bytes /\ Len(b \o y) = Len(b) + Len(y)
  BY <1>1 DEF IsConcat
<1>3. n \in Nat /\ Len(b \o y) \in Nat /\ n <= Len(b \o y) /\ n <= Len(b)
  BY <1>0, <1>2
<1>. DEFINE l == From(b \o y, n)  f == From(b, n)  r == From(b, n) \o y
<1>4. IsSlice(f, b, n, Len(b))
  BY FromIsSlice
<1>5. IsSlice(l, b \o y, n, Len(b \o y))
  <2>1. n \in 0..Len(b \o y)
    BY <1>3
  <2>2. \A c \in Bytes : \A k \in 0..Len(c) : IsSlice(From(c, k), c, k, Len(c))
    BY FromIsSlice
  <2>. QED
    BY ONLY <1>2, <2>1, <2>2, Zenon
<1>6. IsConcat(r, f, y)
  <2>1. f \in Bytes
    BY <1>4 DEF IsSlice
  <2>. QED
    BY <2>1, ConcatIsConcat
<1>. HIDE DEF l, f, r
<1>7. f \in Bytes /\ Len(f) = Len(b) - n
  BY <1>0, <1>3, <1>4 DEF IsSlice
<1>8. l \in Bytes /\ Len(l) = Len(b) + Len(y) - n
  BY <1>0, <1>2, <1>3, <1>5 DEF IsSlice
<1>9. r \in Bytes /\ Len(r) = Len(b) + Len(y) - n
  BY <1>0, <1>3, <1>6, <1>7 DEF IsConcat
<1>10. \A k \in 1..Len(l) : l[k] = r[k]
  <2>1. SUFFICES ASSUME NEW k \in 1..Len(l) PROVE l[k] = r[k]
    OBVIOUS
  <2>2. /\ k \in 1..(Len(b \o y) - n) /\ k \in 1..(Len(f) + Len(y))
        /\ n + k \in 1..(Len(b) + Len(y)) /\ n + k - Len(b) = k - Len(f)
        /\ (n + k <= Len(b) <=> k <= Len(f))
        /\ k <= Len(f) => k \in 1..(Len(b) - n)
    BY <1>0, <1>2, <1>3, <1>7, <1>8
  <2>3. l[k] = (b \o y)[n + k]
    BY <1>5, <2>2 DEF IsSlice
  <2>4. (b \o y)[n + k] = IF n + k <= Len(b) THEN b[n + k] ELSE y[n + k - Len(b)]
    BY <1>1, <2>2 DEF IsConcat
  <2>5. k <= Len(f) => f[k] = b[n + k]
    BY <1>4, <2>2 DEF IsSlice
  <2>6. r[k] = IF k <= Len(f) THEN f[k] ELSE y[k - Len(f)]
    BY <1>6, <2>2 DEF IsConcat
  <2>. QED
    BY <2>2, <2>3, <2>4, <2>5, <2>6
<1>11. l = r
  BY <1>8, <1>9, <1>10, BytesEqual
<1>. QED
  BY <1>7, <1>11 DEF l, f, r

----------------------------------------------------------------------------
(* A verdict on a buffer stands when more bytes follow.                    *)

Memories == [ready : BOOLEAN, nonce : Nat, length : Nat \cup {-1}]

\* What the head of a buffer told is final, and what is taken is in it.
Final(head, b) ==
  \/ head = Invalid
  \/ \E n \in 1..Len(b) : \E memory \in Memories : \E frames :
       head = Took(n, frames, memory)

\* A decoder's verdicts: h for the buffer b, g for one that begins with it.
Settled(h, g, b) == h.kind # "more" => Final(h, b) /\ g = h

\* The three answers a head can give tell each other apart.
LEMMA KindsDiffer ==
  /\ More.kind = "more" /\ Invalid.kind = "invalid"
  /\ \A n, frames, memory : /\ Took(n, frames, memory).kind = "took"
                            /\ Took(n, frames, memory).bytes = n
                            /\ Took(n, frames, memory).frames = frames
                            /\ Took(n, frames, memory).memory = memory
  BY DEF More, Invalid, Took

\* A head that waits may change its mind later.
LEMMA MoreStands ==
  ASSUME NEW h, NEW g, NEW b, h = More
  PROVE  Settled(h, g, b)
  BY KindsDiffer DEF Settled

\* A head refused now and later stands.
LEMMA InvalidStands ==
  ASSUME NEW h, NEW g, NEW b, h = Invalid, g = Invalid
  PROVE  Settled(h, g, b)
  BY DEF Settled, Final

\* A head that takes the same unit later stands.
LEMMA TookStands ==
  ASSUME NEW h, NEW g, NEW b, NEW n \in 1..Len(b), NEW frames,
         NEW memory \in Memories,
         h = Took(n, frames, memory), g = h
  PROVE  Settled(h, g, b)
  BY DEF Settled, Final

\* The end of an address that lies within the buffer stays where it is.
LEMMA BeginsAddress ==
  ASSUME NEW b, NEW c, Begins(b, c), NEW type, NEW cursor \in Nat
  PROVE  /\ AddressEnd(type, b, cursor) \in Nat
         /\ AddressEnd(type, b, cursor) <= Len(b) =>
              /\ cursor < AddressEnd(type, b, cursor)
              /\ AddressEnd(type, c, cursor) = AddressEnd(type, b, cursor)
<1>1. Len(b) \in Nat /\ Len(c) \in Nat /\ Len(b) <= Len(c)
  BY LenNat DEF Begins
<1>2. V4 \in Nat \ {0} /\ V6 \in Nat \ {0}
  BY DecoderAssumption
<1>3. CASE type = "v4" \/ type = "v6"
  BY <1>1, <1>2, <1>3 DEF AddressEnd
<1>4. CASE ~(type = "v4" \/ type = "v6")
  <2>1. CASE Len(b) <= cursor
    <3>1. AddressEnd(type, b, cursor) = Len(b) + 1
      BY <1>4, <2>1 DEF AddressEnd, Unknown
    <3>. QED
      BY <1>1, <3>1
  <2>2. CASE cursor < Len(b)
    <3>1. At(c, cursor) = At(b, cursor) /\ At(b, cursor) \in Nat
      BY <2>2, BeginsAt
    <3>2. AddressEnd(type, b, cursor) = cursor + 1 + At(b, cursor)
      BY <1>1, <1>4, <2>2 DEF AddressEnd
    <3>3. AddressEnd(type, c, cursor) = cursor + 1 + At(c, cursor)
      BY <1>1, <1>4, <2>2 DEF AddressEnd
    <3>. QED
      BY <3>1, <3>2, <3>3
  <2>. QED
    BY <1>1, <2>1, <2>2
<1>. QED
  BY <1>3, <1>4

\* trojan-udp.js: what the head tells does not change with more bytes.
LEMMA TrojanUdpStands ==
  ASSUME NEW b, NEW c, Begins(b, c), b # <<>>, NEW memory \in Memories
  PROVE  Settled(TrojanUdp(b, memory), TrojanUdp(c, memory), b)
<1>1. Len(b) \in Nat /\ Len(c) \in Nat /\ Len(b) <= Len(c) /\ 0 < Len(b)
  BY LenNat, EmptySeq DEF Begins, Bytes
<1>2. c[1] = b[1]
  BY <1>1 DEF Begins
<1>. DEFINE type == TypeIn(SocksType, b[1])
            end == AddressEnd(type, b, 1)
            stop == end + 6 + U16(b, end + 2)
            end2 == AddressEnd(type, c, 1)
            stop2 == end2 + 6 + U16(c, end2 + 2)
            frame == [port |-> U16(b, end), addressHeader |-> Slice(b, 0, end + 2),
                      payload |-> Slice(b, end + 6, stop)]
            frame2 == [port |-> U16(c, end2),
                       addressHeader |-> Slice(c, 0, end2 + 2),
                       payload |-> Slice(c, end2 + 6, stop2)]
<1>3. TrojanUdp(b, memory) =
        IF type = "none" THEN Invalid
        ELSE IF Len(b) < end + 6 THEN More
        ELSE IF Slice(b, end + 4, end + 6) # CrLf THEN Invalid
        ELSE IF Len(b) < stop THEN More ELSE Took(stop, <<frame>>, memory)
  BY DEF TrojanUdp
<1>4. TrojanUdp(c, memory) =
        IF type = "none" THEN Invalid
        ELSE IF Len(c) < end2 + 6 THEN More
        ELSE IF Slice(c, end2 + 4, end2 + 6) # CrLf THEN Invalid
        ELSE IF Len(c) < stop2 THEN More ELSE Took(stop2, <<frame2>>, memory)
  BY <1>2 DEF TrojanUdp
<1>5. end \in Nat /\ (end <= Len(b) => 1 < end /\ end2 = end)
  BY BeginsAddress
<1>. HIDE DEF type
<1>6. CASE type = "none"
  BY <1>3, <1>4, <1>6, InvalidStands
<1>7. CASE type # "none" /\ Len(b) < end + 6
  BY <1>3, <1>7, MoreStands
<1>8. CASE type # "none" /\ end + 6 <= Len(b)
  <2>1. end2 = end /\ 1 < end
    BY <1>1, <1>5, <1>8
  <2>2. Slice(c, end + 4, end + 6) = Slice(b, end + 4, end + 6)
    BY <1>5, <1>8, BeginsSlice
  <2>3. U16(c, end + 2) = U16(b, end + 2) /\ U16(b, end + 2) \in Nat
    <3>1. end + 2 \in Nat /\ (end + 2) + 1 < Len(b)
      BY <1>1, <1>5, <1>8
    <3>. HIDE DEF end
    <3>. QED
      BY <3>1, BeginsU16
  <2>4. U16(c, end) = U16(b, end)
    <3>1. end \in Nat /\ end + 1 < Len(b)
      BY <1>1, <1>5, <1>8
    <3>. HIDE DEF end
    <3>. QED
      BY <3>1, BeginsU16
  <2>5. stop2 = stop /\ stop \in Nat /\ 0 < stop
    BY <1>5, <2>1, <2>3
  <2>6. CASE Slice(b, end + 4, end + 6) # CrLf
    BY <1>1, <1>3, <1>4, <1>5, <1>8, <2>1, <2>2, <2>6, InvalidStands
  <2>7. CASE Slice(b, end + 4, end + 6) = CrLf /\ Len(b) < stop
    BY <1>1, <1>3, <1>5, <1>8, <2>7, MoreStands
  <2>8. CASE Slice(b, end + 4, end + 6) = CrLf /\ stop <= Len(b)
    <3>1. Slice(c, 0, end + 2) = Slice(b, 0, end + 2)
      <4>1. 0 \in Nat /\ end + 2 \in Nat /\ end + 2 <= Len(b)
        BY <1>1, <1>5, <1>8
      <4>. HIDE DEF end
      <4>. QED
        BY <4>1, BeginsSlice
    <3>2. Slice(c, end + 6, stop) = Slice(b, end + 6, stop)
      <4>1. end + 6 \in Nat /\ stop \in Nat /\ stop <= Len(b)
        BY <1>1, <1>5, <2>5, <2>8
      <4>. HIDE DEF end, stop
      <4>. QED
        BY <4>1, BeginsSlice
    <3>3. frame2 = frame
      BY <2>1, <2>4, <2>5, <3>1, <3>2
    <3>. HIDE DEF frame, frame2, stop, stop2, end, end2
    <3>4. TrojanUdp(b, memory) = Took(stop, <<frame>>, memory)
      BY <1>1, <1>3, <1>5, <1>8, <2>5, <2>8
    <3>5. TrojanUdp(c, memory) = Took(stop, <<frame>>, memory)
      BY <1>1, <1>4, <1>5, <1>8, <2>1, <2>2, <2>5, <2>8, <3>3
    <3>6. stop \in 1..Len(b)
      BY <1>1, <2>5, <2>8
    <3>. QED
      BY <3>4, <3>5, <3>6, TookStands
  <2>. HIDE DEF end, stop
  <2>. QED
    BY <1>1, <2>5, <2>6, <2>7, <2>8
<1>. HIDE DEF end
<1>. QED
  BY <1>1, <1>5, <1>6, <1>7, <1>8

\* The DNS framer: what the head tells does not change with more bytes.
LEMMA DnsAnswerStands ==
  ASSUME NEW b, NEW c, Begins(b, c), NEW memory \in Memories
  PROVE  Settled(DnsAnswer(b, memory), DnsAnswer(c, memory), b)
<1>1. Len(b) \in Nat /\ Len(c) \in Nat /\ Len(b) <= Len(c)
  BY LenNat DEF Begins
<1>. DEFINE n == U16(b, 0)
            frame == Slice(b, 0, 2) \o CrLf \o Slice(b, 2, 2 + n)
<1>2. CASE Len(b) < 2
  BY <1>2, MoreStands DEF DnsAnswer
<1>3. CASE 2 <= Len(b)
  <2>1. U16(c, 0) = n /\ n \in Nat
    BY <1>1, <1>3, BeginsU16
  <2>2. CASE Len(b) < 2 + n
    BY <1>1, <1>3, <2>2, MoreStands DEF DnsAnswer
  <2>3. CASE 2 + n <= Len(b)
    <3>1. /\ Slice(c, 0, 2) = Slice(b, 0, 2)
          /\ Slice(c, 2, 2 + n) = Slice(b, 2, 2 + n)
      <4>1. 2 + n \in Nat
        BY <2>1
      <4>. HIDE DEF n
      <4>. QED
        BY <1>3, <2>3, <4>1, BeginsSlice
    <3>2. DnsAnswer(b, memory) = Took(2 + n, <<frame>>, memory)
      BY <1>1, <1>3, <2>1, <2>3 DEF DnsAnswer
    <3>3. DnsAnswer(c, memory) = Took(2 + n, <<frame>>, memory)
      <4>1. Len(c) >= 2 /\ Len(c) >= 2 + n
        BY <1>1, <1>3, <2>1, <2>3
      <4>2. DnsAnswer(c, memory) =
              Took(2 + n, <<Slice(c, 0, 2) \o CrLf \o Slice(c, 2, 2 + n)>>, memory)
        <5>. DEFINE n2 == U16(c, 0)
        <5>1. DnsAnswer(c, memory) =
                IF Len(c) < 2 THEN More ELSE IF Len(c) < 2 + n2 THEN More
                ELSE Took(2 + n2, <<Slice(c, 0, 2) \o CrLf
                                      \o Slice(c, 2, 2 + n2)>>, memory)
          BY DEF DnsAnswer
        <5>2. n2 = n /\ n \in Nat
          BY <2>1
        <5>. HIDE DEF n, n2
        <5>. QED
          BY <1>1, <4>1, <5>1, <5>2
      <4>. QED
        BY <3>1, <4>2
    <3>. HIDE DEF frame, n
    <3>4. 2 + n \in 1..Len(b)
      BY <1>1, <2>1, <2>3
    <3>. QED
      BY <3>2, <3>3, <3>4, TookStands
  <2>. HIDE DEF n
  <2>. QED
    BY <1>1, <2>1, <2>2, <2>3
<1>. QED
  BY <1>1, <1>2, <1>3

\* grpc.js: what the head tells does not change with more bytes.
LEMMA GrpcFrameStands ==
  ASSUME NEW b, NEW c, Begins(b, c), NEW memory \in Memories
  PROVE  Settled(GrpcFrame(b, memory), GrpcFrame(c, memory), b)
<1>1. Len(b) \in Nat /\ Len(c) \in Nat /\ Len(b) <= Len(c)
  BY LenNat DEF Begins
<1>. DEFINE n == 65536 * U16(b, 1) + U16(b, 3)
            payload == DecodeHunkMessage(Slice(b, 5, 5 + n))
            n2 == 65536 * U16(c, 1) + U16(c, 3)
            payload2 == DecodeHunkMessage(Slice(c, 5, 5 + n2))
<1>2. GrpcFrame(b, memory) =
        IF Len(b) < 5 THEN More
        ELSE IF At(b, 0) # 0 THEN Invalid
        ELSE IF Len(b) < 5 + n THEN More
        ELSE IF payload = <<>> THEN Invalid ELSE Took(5 + n, payload, memory)
  BY DEF GrpcFrame
<1>3. GrpcFrame(c, memory) =
        IF Len(c) < 5 THEN More
        ELSE IF At(c, 0) # 0 THEN Invalid
        ELSE IF Len(c) < 5 + n2 THEN More
        ELSE IF payload2 = <<>> THEN Invalid ELSE Took(5 + n2, payload2, memory)
  BY DEF GrpcFrame
<1>4. CASE Len(b) < 5
  BY <1>2, <1>4, MoreStands
<1>5. CASE 5 <= Len(b)
  <2>1. U16(c, 1) = U16(b, 1) /\ U16(b, 1) \in Nat
    BY <1>1, <1>5, BeginsU16
  <2>2. U16(c, 3) = U16(b, 3) /\ U16(b, 3) \in Nat
    BY <1>1, <1>5, BeginsU16
  <2>3. At(c, 0) = At(b, 0)
    BY <1>1, <1>5, BeginsAt
  <2>4. n2 = n /\ n \in Nat
    BY <2>1, <2>2
  <2>5. Slice(c, 5, 5 + n2) = Slice(c, 5, 5 + n)
    BY <2>4
  <2>. HIDE DEF n, n2
  <2>6. CASE At(b, 0) # 0
    BY <1>1, <1>2, <1>3, <1>5, <2>3, <2>6, InvalidStands
  <2>7. CASE At(b, 0) = 0 /\ Len(b) < 5 + n
    BY <1>1, <1>2, <1>5, <2>7, MoreStands
  <2>8. CASE At(b, 0) = 0 /\ 5 + n <= Len(b)
    <3>1. 5 \in Nat /\ 5 + n \in Nat
      BY <2>4
    <3>2. Slice(c, 5, 5 + n) = Slice(b, 5, 5 + n)
      BY <2>8, <3>1, BeginsSlice
    <3>3. payload2 = payload
      BY <2>5, <3>2
    <3>. HIDE DEF payload, payload2
    <3>4. CASE payload = <<>>
      BY <1>1, <1>2, <1>3, <1>5, <2>3, <2>4, <2>8, <3>3, <3>4, InvalidStands
    <3>5. CASE payload # <<>>
      <4>1. GrpcFrame(b, memory) = Took(5 + n, payload, memory)
        BY <1>1, <1>2, <1>5, <2>4, <2>8, <3>5
      <4>2. GrpcFrame(c, memory) = Took(5 + n, payload, memory)
        BY <1>1, <1>3, <1>5, <2>3, <2>4, <2>8, <3>3, <3>5
      <4>3. 5 + n \in 1..Len(b)
        BY <1>1, <2>4, <2>8
      <4>. QED
        BY <4>1, <4>2, <4>3, TookStands
    <3>. QED
      BY <3>4, <3>5
  <2>. QED
    BY <1>1, <2>4, <2>6, <2>7, <2>8
<1>. QED
  BY <1>1, <1>4, <1>5

\* A sealed length that opens is a number.
LEMMA OpenedLength ==
  ASSUME NEW block \in Bytes, NEW nonce, Len(block) = 3,
         Opened(block, nonce) # <<>>
  PROVE  U16(Opened(block, nonce)[1], 0) \in Nat
<1>. DEFINE plain == [i \in 1..(Len(block) - 1) |-> block[i] % 1000]
<1>1. Opened(block, nonce)[1] = plain
  BY DEF Opened
<1>2. \A i \in 1..3 : block[i] \in Nat
  BY ElementOfSeq DEF Bytes
<1>3. plain[1] \in Nat /\ plain[2] \in Nat
  BY <1>2
<1>. HIDE DEF plain
<1>4. U16(plain, 0) = 256 * plain[1] + plain[2]
  BY DEF U16, At
<1>. QED
  BY <1>1, <1>3, <1>4

\* shadowsocks.js: what the head tells does not change with more bytes.
LEMMA ShadowsocksStands ==
  ASSUME NEW b, NEW c, Begins(b, c), NEW memory \in Memories
  PROVE  Settled(Shadowsocks(b, memory), Shadowsocks(c, memory), b)
<1>1. Len(b) \in Nat /\ Len(c) \in Nat /\ Len(b) <= Len(c)
  BY LenNat DEF Begins
<1>2. Salt \in Nat \ {0}
  BY DecoderAssumption
<1>. DEFINE need == IF memory.length = -1 THEN 3 ELSE memory.length + 1
            plain == Opened(Slice(b, 0, need), memory.nonce)
            plain2 == Opened(Slice(c, 0, need), memory.nonce)
            Next(p) == [memory EXCEPT !.nonce = @ + 1,
                          !.length = IF @ = -1 THEN U16(p[1], 0) ELSE -1]
            Frames(p) == IF memory.length = -1 THEN <<>> ELSE p
<1>3. need \in Nat \ {0}
  BY DEF Memories
<1>4. Shadowsocks(b, memory) =
        IF ~memory.ready
        THEN IF Len(b) < Salt THEN More ELSE Took(Salt, <<>>, Ready(memory))
        ELSE IF Len(b) < need THEN More
        ELSE IF plain = <<>> THEN Invalid
        ELSE Took(need, Frames(plain), Next(plain))
  BY DEF Shadowsocks
<1>5. Shadowsocks(c, memory) =
        IF ~memory.ready
        THEN IF Len(c) < Salt THEN More ELSE Took(Salt, <<>>, Ready(memory))
        ELSE IF Len(c) < need THEN More
        ELSE IF plain2 = <<>> THEN Invalid
        ELSE Took(need, Frames(plain2), Next(plain2))
  BY DEF Shadowsocks
<1>6. need <= Len(b) => /\ Slice(c, 0, need) = Slice(b, 0, need)
                        /\ plain2 = plain
  <2>1. SUFFICES ASSUME need <= Len(b)
                 PROVE  Slice(c, 0, need) = Slice(b, 0, need)
    OBVIOUS
  <2>. HIDE DEF need
  <2>. QED
    BY <1>3, <2>1, BeginsSlice
<1>7. /\ need <= Len(b) /\ plain # <<>> /\ memory.length = -1
      => U16(plain[1], 0) \in Nat
  <2>1. SUFFICES ASSUME need <= Len(b), plain # <<>>, memory.length = -1
                 PROVE  U16(plain[1], 0) \in Nat
    OBVIOUS
  <2>2. need = 3
    BY <2>1
  <2>3. Slice(b, 0, 3) \in Bytes /\ Len(Slice(b, 0, 3)) = 3
    <3>1. 3 <= Len(b) /\ b \in Bytes /\ 0 \in Nat /\ 3 \in Nat
      BY <2>1, <2>2 DEF Begins
    <3>2. IsSlice(Slice(b, 0, 3), b, 0, 3)
      BY ONLY <3>1, SliceIsSlice
    <3>. QED
      BY <3>2 DEF IsSlice
  <2>. QED
    BY <2>1, <2>2, <2>3, OpenedLength
<1>8. need <= Len(b) /\ plain # <<>> => Next(plain) \in Memories
  <2>. DEFINE u == U16(plain[1], 0)
  <2>1. Next(plain) = [memory EXCEPT !.nonce = @ + 1,
                                     !.length = IF @ = -1 THEN u ELSE -1]
    OBVIOUS
  <2>2. need <= Len(b) /\ plain # <<>> /\ memory.length = -1 => u \in Nat
    BY <1>7
  <2>. HIDE DEF u, need, plain
  <2>3. memory.nonce + 1 \in Nat
    BY DEF Memories
  <2>. DEFINE l == IF memory.length = -1 THEN u ELSE -1
  <2>4. need <= Len(b) /\ plain # <<>> => l \in Nat \cup {-1}
    BY <2>2
  <2>5. Next(plain) = [memory EXCEPT !.nonce = @ + 1, !.length = l]
    BY <2>1
  <2>. HIDE DEF l, Next
  <2>. QED
    BY <2>3, <2>4, <2>5 DEF Memories
<1>9. Ready(memory) \in Memories
  BY DEF Memories, Ready
<1>. HIDE DEF need, plain, plain2, Next, Frames
<1>10. CASE ~memory.ready
  <2>1. CASE Len(b) < Salt
    BY <1>4, <1>10, <2>1, MoreStands
  <2>2. CASE Salt <= Len(b)
    <3>1. Salt \in 1..Len(b) /\ ~(Len(b) < Salt) /\ ~(Len(c) < Salt)
      BY <1>1, <1>2, <2>2
    <3>2. Shadowsocks(b, memory) = Took(Salt, <<>>, Ready(memory))
      BY <1>4, <1>10, <3>1
    <3>3. Shadowsocks(c, memory) = Took(Salt, <<>>, Ready(memory))
      BY <1>5, <1>10, <3>1
    <3>. QED
      BY <1>9, <3>1, <3>2, <3>3, TookStands
  <2>. QED
    BY <1>1, <1>2, <2>1, <2>2
<1>11. CASE memory.ready /\ Len(b) < need
  BY <1>4, <1>11, MoreStands
<1>12. CASE memory.ready /\ need <= Len(b)
  <2>1. need \in 1..Len(b) /\ ~(Len(b) < need) /\ ~(Len(c) < need)
    BY <1>1, <1>3, <1>12
  <2>2. CASE plain = <<>>
    BY <1>4, <1>5, <1>6, <1>12, <2>1, <2>2, InvalidStands
  <2>3. CASE plain # <<>>
    <3>1. Shadowsocks(b, memory) = Took(need, Frames(plain), Next(plain))
      BY <1>4, <1>12, <2>1, <2>3
    <3>2. Shadowsocks(c, memory) = Took(need, Frames(plain), Next(plain))
      BY <1>5, <1>6, <1>12, <2>1, <2>3
    <3>3. Next(plain) \in Memories
      BY <1>8, <1>12, <2>3
    <3>. QED
      BY <2>1, <3>1, <3>2, <3>3, TookStands
  <2>. QED
    BY <2>2, <2>3
<1>. QED
  BY <1>1, <1>3, <1>10, <1>11, <1>12

\* The Shadowsocks target: once read or refused, so it stays.
LEMMA ShadowsocksTargetStands ==
  ASSUME NEW b, NEW c, Begins(b, c), b # <<>>, NEW memory \in Memories
  PROVE  Settled(ShadowsocksTarget(b, memory), ShadowsocksTarget(c, memory), b)
<1>1. Len(b) \in Nat /\ Len(c) \in Nat /\ Len(b) <= Len(c) /\ 0 < Len(b)
  BY LenNat, EmptySeq DEF Begins, Bytes
<1>2. c[1] = b[1]
  BY <1>1 DEF Begins
<1>. DEFINE type == TypeIn(SocksType, b[1])
            end == AddressEnd(type, b, 1)
            port == U16(b, end)
            frame == [hostname |-> Slice(b, 1, end), port |-> port]
            end2 == AddressEnd(type, c, 1)
            port2 == U16(c, end2)
            frame2 == [hostname |-> Slice(c, 1, end2), port |-> port2]
<1>3. ShadowsocksTarget(b, memory) =
        IF memory.ready THEN More
        ELSE IF type = "none" THEN Invalid
        ELSE IF Len(b) < end + 2 THEN More
        ELSE IF port = 0 THEN Invalid
        ELSE Took(end + 2, <<frame>>, Ready(memory))
  BY DEF ShadowsocksTarget
<1>4. ShadowsocksTarget(c, memory) =
        IF memory.ready THEN More
        ELSE IF type = "none" THEN Invalid
        ELSE IF Len(c) < end2 + 2 THEN More
        ELSE IF port2 = 0 THEN Invalid
        ELSE Took(end2 + 2, <<frame2>>, Ready(memory))
  BY <1>2 DEF ShadowsocksTarget
<1>5. end \in Nat /\ (end <= Len(b) => 1 < end /\ end2 = end)
  BY BeginsAddress
<1>6. Ready(memory) \in Memories
  BY DEF Memories, Ready
<1>7. end + 2 <= Len(b) => frame2 = frame /\ port2 = port
  <2>1. SUFFICES ASSUME end + 2 <= Len(b) PROVE frame2 = frame /\ port2 = port
    OBVIOUS
  <2>2. end2 = end /\ end \in Nat /\ end + 1 < Len(b) /\ end <= Len(b) /\ 1 \in Nat
    BY <1>1, <1>5, <2>1
  <2>. HIDE DEF end, end2
  <2>3. U16(c, end) = U16(b, end)
    BY <2>2, BeginsU16
  <2>4. Slice(c, 1, end) = Slice(b, 1, end)
    BY <2>2, BeginsSlice
  <2>. QED
    BY <2>2, <2>3, <2>4
<1>. HIDE DEF type, end, end2, frame, frame2, port, port2
<1>8. CASE memory.ready
  BY <1>3, <1>8, MoreStands
<1>9. CASE ~memory.ready /\ type = "none"
  BY <1>3, <1>4, <1>9, InvalidStands
<1>10. CASE ~memory.ready /\ type # "none" /\ Len(b) < end + 2
  BY <1>3, <1>10, MoreStands
<1>11. CASE ~memory.ready /\ type # "none" /\ end + 2 <= Len(b)
  <2>1. /\ end + 2 \in 1..Len(b) /\ ~(Len(b) < end + 2)
        /\ end2 = end /\ ~(Len(c) < end2 + 2)
    BY <1>1, <1>5, <1>11
  <2>2. CASE port = 0
    BY <1>3, <1>4, <1>7, <1>11, <2>1, <2>2, InvalidStands
  <2>3. CASE port # 0
    <3>1. ShadowsocksTarget(b, memory) = Took(end + 2, <<frame>>, Ready(memory))
      BY <1>3, <1>11, <2>1, <2>3
    <3>2. ShadowsocksTarget(c, memory) = Took(end + 2, <<frame>>, Ready(memory))
      BY <1>4, <1>7, <1>11, <2>1, <2>3
    <3>. QED
      BY <1>6, <2>1, <3>1, <3>2, TookStands
  <2>. QED
    BY <2>2, <2>3
<1>. QED
  BY <1>1, <1>5, <1>8, <1>9, <1>10, <1>11

\* What is known of a VLESS request does not change with more bytes.
LEMMA BeginsVless ==
  ASSUME NEW b, NEW c, Begins(b, c)
  PROVE  LET v == RequiredVlessBytes(b) IN
         /\ v \in Nat \cup {-1}
         /\ v = -1 => RequiredVlessBytes(c) = -1
         /\ v # -1 /\ v <= Len(b) =>
              /\ RequiredVlessBytes(c) = v /\ 0 < v
              /\ ParseVlessRequest(c, v) = ParseVlessRequest(b, v)
<1>1. Len(b) \in Nat /\ Len(c) \in Nat /\ Len(b) <= Len(c) /\ b \in Bytes
      /\ c \in Bytes
  BY LenNat DEF Begins
<1>2. Uuid \in Nat \ {0} /\ V4 \in Nat \ {0, 1} /\ V6 \in Nat \ {0, 1}
  BY DecoderAssumption
<1>. DEFINE command == Uuid + 2 + At(b, Uuid + 1)
            command2 == Uuid + 2 + At(c, Uuid + 1)
            type == TypeIn(VlessType, At(b, command + 3))
            type2 == TypeIn(VlessType, At(c, command2 + 3))
            end == AddressEnd(type, b, command + 4)
            end2 == AddressEnd(type2, c, command2 + 4)
            v == RequiredVlessBytes(b)
            v2 == RequiredVlessBytes(c)
<1>3. v = IF Len(b) < Uuid + 3 \/ Len(b) <= command THEN Len(b) + 1
          ELSE IF At(b, command) \notin {1, 2} THEN -1
          ELSE IF Len(b) <= command + 3 THEN Len(b) + 1
          ELSE IF type = "none" THEN -1 ELSE end
  BY DEF RequiredVlessBytes, Unknown
<1>4. v2 = IF Len(c) < Uuid + 3 \/ Len(c) <= command2 THEN Len(c) + 1
           ELSE IF At(c, command2) \notin {1, 2} THEN -1
           ELSE IF Len(c) <= command2 + 3 THEN Len(c) + 1
           ELSE IF type2 = "none" THEN -1 ELSE end2
  BY DEF RequiredVlessBytes, Unknown
<1>5. Uuid + 3 <= Len(b) => /\ command2 = command /\ command \in Nat
                            /\ Uuid + 2 <= command
  <2>1. SUFFICES ASSUME Uuid + 3 <= Len(b)
                 PROVE  At(c, Uuid + 1) = At(b, Uuid + 1) /\ At(b, Uuid + 1) \in Nat
    BY <1>2
  <2>2. Uuid + 1 \in Nat /\ Uuid + 1 < Len(b)
    BY <1>1, <1>2, <2>1
  <2>. QED
    BY <2>2, BeginsAt
<1>. HIDE DEF command, command2
<1>6. Uuid + 3 <= Len(b) /\ command < Len(b) => At(c, command2) = At(b, command)
  BY <1>5, BeginsAt
<1>7. Uuid + 3 <= Len(b) /\ command + 3 < Len(b) =>
        type2 = type /\ end2 = AddressEnd(type, c, command + 4)
  <2>1. SUFFICES ASSUME Uuid + 3 <= Len(b), command + 3 < Len(b)
                 PROVE  At(c, command2 + 3) = At(b, command + 3)
                        /\ command2 = command
    OBVIOUS
  <2>2. command + 3 \in Nat /\ command2 = command
    BY <1>5, <2>1
  <2>. QED
    BY <2>1, <2>2, BeginsAt
<1>8. Uuid + 3 <= Len(b) => /\ end \in Nat
                            /\ end <= Len(b) =>
                                 /\ command + 4 < end
                                 /\ AddressEnd(type, c, command + 4) = end
  <2>1. SUFFICES ASSUME Uuid + 3 <= Len(b)
                 PROVE  /\ end \in Nat
                        /\ end <= Len(b) =>
                             /\ command + 4 < end
                             /\ AddressEnd(type, c, command + 4) = end
    OBVIOUS
  <2>2. command + 4 \in Nat
    BY <1>5, <2>1
  <2>. HIDE DEF type
  <2>. QED
    BY <2>2, BeginsAddress
\* A host of no bytes is the only one that ends so early.
<1>9. /\ Uuid + 3 <= Len(b) /\ command + 3 < Len(b) /\ type # "none"
      /\ end <= Len(b) /\ Len(b) < Uuid + 8
      => Slice(b, command + 4, end) = <<0>>
  <2>1. SUFFICES ASSUME Uuid + 3 <= Len(b), command + 3 < Len(b), type # "none",
                        end <= Len(b), Len(b) < Uuid + 8
                 PROVE  Slice(b, command + 4, end) = <<0>>
    OBVIOUS
  <2>2. command = Uuid + 2 /\ end = command + 5 /\ command + 4 \in Nat
        /\ command + 4 < Len(b) /\ command + 5 \in Nat
    BY <1>1, <1>2, <1>5, <1>8, <2>1
  <2>3. end = IF type = "v4" THEN command + 4 + V4
              ELSE IF type = "v6" THEN command + 4 + V6
              ELSE IF Len(b) <= command + 4 THEN Len(b) + 1
              ELSE command + 4 + 1 + At(b, command + 4)
    BY DEF AddressEnd, Unknown
  <2>. HIDE DEF type, end
  <2>4. At(b, command + 4) \in Nat
    BY <2>2, BeginsAt
  <2>5. At(b, command + 4) = 0
    BY <1>2, <2>2, <2>3, <2>4
  <2>. DEFINE x == Slice(b, command + 4, command + 5)
  <2>6. IsSlice(x, b, command + 4, command + 5)
    <3>1. command + 5 <= Len(b)
      BY <2>1, <2>2
    <3>. QED
      BY <1>1, <2>2, <3>1, SliceIsSlice
  <2>. HIDE DEF x
  <2>7. x \in Bytes /\ Len(x) = 1
    BY <2>2, <2>6 DEF IsSlice
  <2>8. 1 \in 1..((command + 5) - (command + 4))
        /\ (command + 4) + 1 = command + 5
    BY <2>2
  <2>9. x[1] = b[(command + 4) + 1]
    BY <2>6, <2>8 DEF IsSlice
  <2>10. b[(command + 4) + 1] = 0
    BY <2>5 DEF At
  <2>11. x = <<0>>
    BY <2>7, <2>9, <2>10 DEF Bytes
  <2>. QED
    BY <2>2, <2>11 DEF x
<1>10. /\ Uuid + 3 <= Len(b) /\ command + 3 < Len(b) /\ type # "none"
       /\ end <= Len(b)
       => ParseVlessRequest(c, end) = ParseVlessRequest(b, end)
  <2>1. SUFFICES ASSUME Uuid + 3 <= Len(b), command + 3 < Len(b), type # "none",
                        end <= Len(b)
                 PROVE  ParseVlessRequest(c, end) = ParseVlessRequest(b, end)
    OBVIOUS
  <2>. DEFINE port == U16(b, command + 1)
              hostname == Slice(b, command + 4, end)
              port2 == U16(c, command2 + 1)
              hostname2 == Slice(c, command2 + 4, end)
              udp == At(b, command) = 2
              udp2 == At(c, command2) = 2
              id == Slice(b, 1, 1 + Uuid)
              id2 == Slice(c, 1, 1 + Uuid)
              request == <<[protocol |-> "vless", hostname |-> hostname,
                            port |-> port, isUDP |-> udp]>>
              request2 == <<[protocol |-> "vless", hostname |-> hostname2,
                             port |-> port2, isUDP |-> udp2]>>
  <2>2. ParseVlessRequest(b, end) =
          IF /\ Len(b) >= Uuid + 8 /\ id = VlessId
             /\ port # 0 /\ hostname # <<0>> THEN request ELSE <<>>
    <3>. HIDE DEF end
    <3>. QED
      BY DEF ParseVlessRequest, command
  <2>3. ParseVlessRequest(c, end) =
          IF /\ Len(c) >= Uuid + 8 /\ id2 = VlessId
             /\ port2 # 0 /\ hostname2 # <<0>> THEN request2 ELSE <<>>
    <3>. HIDE DEF end
    <3>. QED
      BY DEF ParseVlessRequest, command2
  <2>4. /\ command2 = command /\ command \in Nat /\ command + 1 \in Nat
        /\ command + 4 \in Nat /\ command + 1 + 1 < Len(b) /\ end \in Nat
        /\ 1 + Uuid \in Nat /\ 1 + Uuid <= Len(b) /\ command < Len(b)
        /\ end <= Len(b)
    BY <1>1, <1>2, <1>5, <1>8, <2>1
  <2>5. Len(b) < Uuid + 8 => hostname = <<0>>
    BY <1>9, <2>1
  <2>. HIDE DEF end
  <2>6. port2 = port /\ hostname2 = hostname /\ udp2 = udp /\ id2 = id
    <3>1. U16(c, command + 1) = U16(b, command + 1)
      BY <2>4, BeginsU16
    <3>2. Slice(c, command + 4, end) = Slice(b, command + 4, end)
      BY <2>4, BeginsSlice
    <3>3. At(c, command) = At(b, command)
      BY <2>4, BeginsAt
    <3>4. Slice(c, 1, 1 + Uuid) = Slice(b, 1, 1 + Uuid)
      BY <2>4, BeginsSlice
    <3>. QED
      BY <2>4, <3>1, <3>2, <3>3, <3>4
  <2>7. request2 = request
    <3>. HIDE DEF udp, udp2, port, port2, hostname, hostname2
    <3>. QED
      BY <2>6
  <2>. HIDE DEF request, request2, udp, udp2, port, port2, hostname, hostname2,
               id, id2
  <2>8. CASE Len(b) < Uuid + 8
    BY <1>1, <1>2, <2>2, <2>3, <2>5, <2>6, <2>8
  <2>9. CASE Uuid + 8 <= Len(b)
    <3>1. Len(c) >= Uuid + 8 /\ Len(b) >= Uuid + 8
      BY <1>1, <1>2, <2>9
    <3>. QED
      BY <2>2, <2>3, <2>6, <2>7, <3>1
  <2>. QED
    BY <1>1, <1>2, <2>8, <2>9
<1>. HIDE DEF type, type2, end, end2
<1>11. v \in Nat \cup {-1}
  BY <1>1, <1>2, <1>3, <1>5, <1>8
<1>12. ASSUME v = -1 PROVE v2 = -1
  BY <1>1, <1>2, <1>3, <1>4, <1>5, <1>6, <1>7, <1>8, <1>12
<1>13. ASSUME v # -1, v <= Len(b)
       PROVE  /\ v = end /\ v2 = v /\ 0 < v
              /\ Uuid + 3 <= Len(b) /\ command + 3 < Len(b) /\ type # "none"
              /\ end <= Len(b)
  <2>1. /\ Uuid + 3 <= Len(b) /\ command < Len(b) /\ At(b, command) \in {1, 2}
        /\ command + 3 < Len(b) /\ type # "none" /\ v = end
    BY <1>1, <1>2, <1>3, <1>5, <1>13
  <2>2. /\ ~(Len(c) < Uuid + 3) /\ ~(Len(c) <= command2)
        /\ ~(Len(c) <= command2 + 3)
    BY <1>1, <1>2, <1>5, <2>1
  <2>. QED
    BY <1>1, <1>4, <1>5, <1>6, <1>7, <1>8, <1>13, <2>1, <2>2
<1>. HIDE DEF v, v2
<1>14. v # -1 /\ v <= Len(b) =>
              /\ v2 = v /\ 0 < v
              /\ ParseVlessRequest(c, v) = ParseVlessRequest(b, v)
  BY <1>10, <1>13
<1>. QED
  BY <1>11, <1>12, <1>14 DEF v, v2

\* What is known of a Trojan request does not change with more bytes.
LEMMA BeginsTrojan ==
  ASSUME NEW b, NEW c, Begins(b, c)
  PROVE  LET t == RequiredTrojanBytes(b) IN
         /\ t \in Nat \cup {-1}
         /\ t = -1 => RequiredTrojanBytes(c) = -1
         /\ t # -1 /\ t <= Len(b) =>
              /\ RequiredTrojanBytes(c) = t /\ Hash < t
              /\ ParseTrojanRequest(c, t) = ParseTrojanRequest(b, t)
<1>1. Len(b) \in Nat /\ Len(c) \in Nat /\ Len(b) <= Len(c) /\ b \in Bytes
      /\ c \in Bytes
  BY LenNat DEF Begins
<1>2. Hash \in Nat \ {0, 1}
  BY DecoderAssumption
<1>. DEFINE type == TypeIn(SocksType, At(b, Hash + 3))
            type2 == TypeIn(SocksType, At(c, Hash + 3))
            end == AddressEnd(type, b, Hash + 4)
            end2 == AddressEnd(type2, c, Hash + 4)
            t == RequiredTrojanBytes(b)
            t2 == RequiredTrojanBytes(c)
<1>3. t = IF Len(b) < Hash + 2 THEN Len(b) + 1
          ELSE IF Slice(b, Hash, Hash + 2) # CrLf THEN -1
          ELSE IF Len(b) < Hash + 4 THEN Len(b) + 1
          ELSE IF At(b, Hash + 2) \notin {1, 3} \/ type = "none" THEN -1
          ELSE end + 4
  BY DEF RequiredTrojanBytes, Unknown
<1>4. t2 = IF Len(c) < Hash + 2 THEN Len(c) + 1
           ELSE IF Slice(c, Hash, Hash + 2) # CrLf THEN -1
           ELSE IF Len(c) < Hash + 4 THEN Len(c) + 1
           ELSE IF At(c, Hash + 2) \notin {1, 3} \/ type2 = "none" THEN -1
           ELSE end2 + 4
  BY DEF RequiredTrojanBytes, Unknown
<1>5. Hash + 2 <= Len(b) => Slice(c, Hash, Hash + 2) = Slice(b, Hash, Hash + 2)
  BY <1>2, BeginsSlice
<1>6. Hash + 4 <= Len(b) => /\ At(c, Hash + 2) = At(b, Hash + 2)
                            /\ type2 = type
                            /\ end2 = AddressEnd(type, c, Hash + 4)
  <2>1. SUFFICES ASSUME Hash + 4 <= Len(b)
                 PROVE  /\ At(c, Hash + 2) = At(b, Hash + 2)
                        /\ At(c, Hash + 3) = At(b, Hash + 3)
    OBVIOUS
  <2>2. Hash + 2 \in Nat /\ Hash + 2 < Len(b) /\ Hash + 3 \in Nat
        /\ Hash + 3 < Len(b)
    BY <1>1, <1>2, <2>1
  <2>. QED
    BY <2>2, BeginsAt
<1>7. /\ end \in Nat
      /\ end <= Len(b) => /\ Hash + 4 < end
                          /\ AddressEnd(type, c, Hash + 4) = end
  <2>1. Hash + 4 \in Nat
    BY <1>2
  <2>. HIDE DEF type
  <2>. QED
    BY <2>1, BeginsAddress
<1>8. /\ Hash + 4 <= Len(b) /\ end + 4 <= Len(b)
      => ParseTrojanRequest(c, end + 4) = ParseTrojanRequest(b, end + 4)
  <2>1. SUFFICES ASSUME Hash + 4 <= Len(b), end + 4 <= Len(b)
                 PROVE  ParseTrojanRequest(c, end + 4) = ParseTrojanRequest(b, end + 4)
    OBVIOUS
  <2>2. /\ end \in Nat /\ end + 1 < Len(b) /\ Hash + 4 < end /\ end <= Len(b)
        /\ end + 2 \in Nat /\ end + 4 \in Nat /\ end + 4 <= Len(b)
        /\ Hash + 4 \in Nat /\ 0 \in Nat /\ Hash \in Nat /\ Hash <= Len(b)
        /\ Hash + 2 \in Nat /\ Hash + 2 < Len(b)
        /\ end + 4 - 4 = end /\ end + 4 - 2 = end + 2
    BY <1>1, <1>2, <1>7, <2>1
  <2>. HIDE DEF end
  <2>. DEFINE Parsed(x) ==
         IF /\ Slice(x, 0, Hash) = TrojanHash /\ U16(x, end) # 0
            /\ Slice(x, Hash + 4, end) # <<0>>
            /\ Slice(x, end + 2, end + 4) = CrLf
         THEN <<[protocol |-> "trojan", hostname |-> Slice(x, Hash + 4, end),
                 port |-> U16(x, end), isUDP |-> At(x, Hash + 2) = 3]>>
         ELSE <<>>
  <2>3. ParseTrojanRequest(b, end + 4) = Parsed(b)
        /\ ParseTrojanRequest(c, end + 4) = Parsed(c)
    BY <2>2 DEF ParseTrojanRequest
  <2>4. U16(c, end) = U16(b, end)
    BY <2>2, BeginsU16
  <2>5. Slice(c, 0, Hash) = Slice(b, 0, Hash)
    BY <2>2, BeginsSlice
  <2>6. Slice(c, Hash + 4, end) = Slice(b, Hash + 4, end)
    BY <2>2, BeginsSlice
  <2>7. Slice(c, end + 2, end + 4) = Slice(b, end + 2, end + 4)
    BY <2>2, BeginsSlice
  <2>8. At(c, Hash + 2) = At(b, Hash + 2)
    BY <2>2, BeginsAt
  <2>. QED
    BY <2>3, <2>4, <2>5, <2>6, <2>7, <2>8
<1>. HIDE DEF type, type2, end, end2
<1>9. t \in Nat \cup {-1}
  BY <1>1, <1>2, <1>3, <1>7
<1>10. ASSUME t = -1 PROVE t2 = -1
  BY <1>1, <1>2, <1>3, <1>4, <1>5, <1>6, <1>7, <1>10
<1>11. ASSUME t # -1, t <= Len(b)
       PROVE  /\ t = end + 4 /\ t2 = t /\ Hash < t
              /\ Hash + 4 <= Len(b) /\ end + 4 <= Len(b)
  BY <1>1, <1>2, <1>3, <1>4, <1>5, <1>6, <1>7, <1>11
<1>. HIDE DEF t, t2
<1>12. t # -1 /\ t <= Len(b) =>
              /\ t2 = t /\ Hash < t
              /\ ParseTrojanRequest(c, t) = ParseTrojanRequest(b, t)
  BY <1>8, <1>11
<1>. QED
  BY <1>9, <1>10, <1>12 DEF t, t2

\* handshake.js: once recognised or refused, a handshake stays so; bytes that
\* might still be the other protocol are waited for.
LEMMA HandshakeStands ==
  ASSUME NEW b, NEW c, Begins(b, c), NEW memory \in Memories
  PROVE  Settled(TryParseTunnelHandshake(b, memory),
                TryParseTunnelHandshake(c, memory), b)
<1>1. Len(b) \in Nat /\ Len(c) \in Nat /\ Len(b) <= Len(c) /\ b \in Bytes
      /\ c \in Bytes
  BY LenNat DEF Begins
<1>2. Uuid \in Nat \ {0} /\ Hash \in Nat \ {0, 1}
  BY DecoderAssumption
<1>. DEFINE v == RequiredVlessBytes(b)
            t == RequiredTrojanBytes(b)
            vless == IF v # -1 /\ Len(b) >= v THEN ParseVlessRequest(b, v) ELSE <<>>
            trojan == IF t # -1 /\ Len(b) >= t THEN ParseTrojanRequest(b, t) ELSE <<>>
            v2 == RequiredVlessBytes(c)
            t2 == RequiredTrojanBytes(c)
            vless2 == IF v2 # -1 /\ Len(c) >= v2 THEN ParseVlessRequest(c, v2) ELSE <<>>
            trojan2 == IF t2 # -1 /\ Len(c) >= t2 THEN ParseTrojanRequest(c, t2) ELSE <<>>
<1>3. TryParseTunnelHandshake(b, memory) =
        IF memory.ready THEN More
        ELSE IF vless # <<>> THEN Took(v, vless, Ready(memory))
        ELSE IF trojan # <<>> THEN Took(t, trojan, Ready(memory))
        ELSE IF v = -1 /\ t = -1 THEN Invalid ELSE More
  BY DEF TryParseTunnelHandshake
<1>4. TryParseTunnelHandshake(c, memory) =
        IF memory.ready THEN More
        ELSE IF vless2 # <<>> THEN Took(v2, vless2, Ready(memory))
        ELSE IF trojan2 # <<>> THEN Took(t2, trojan2, Ready(memory))
        ELSE IF v2 = -1 /\ t2 = -1 THEN Invalid ELSE More
  BY DEF TryParseTunnelHandshake
<1>5. Ready(memory) \in Memories
  BY DEF Memories, Ready
<1>6. /\ v \in Nat \cup {-1}
      /\ v = -1 => v2 = -1
      /\ v # -1 /\ v <= Len(b) =>
           v2 = v /\ 0 < v /\ ParseVlessRequest(c, v) = ParseVlessRequest(b, v)
  BY BeginsVless
<1>7. /\ t \in Nat \cup {-1}
      /\ t = -1 => t2 = -1
      /\ t # -1 /\ t <= Len(b) =>
           t2 = t /\ Hash < t /\ ParseTrojanRequest(c, t) = ParseTrojanRequest(b, t)
  BY BeginsTrojan
\* One byte tells the two credentials apart.
<1>8. trojan # <<>> => vless2 = <<>>
  <2>1. SUFFICES ASSUME trojan # <<>>, vless2 # <<>> PROVE FALSE
    OBVIOUS
  <2>2. t # -1 /\ t <= Len(b) /\ Slice(b, 0, Hash) = TrojanHash
    <3>1. t # -1 /\ Len(b) >= t /\ ParseTrojanRequest(b, t) # <<>>
      BY <2>1
    <3>. HIDE DEF t
    <3>2. Slice(b, 0, Hash) = TrojanHash
      BY <3>1 DEF ParseTrojanRequest
    <3>. QED
      BY <1>1, <1>7, <3>1, <3>2
  <2>3. Len(c) >= Uuid + 8 /\ Slice(c, 1, 1 + Uuid) = VlessId
    <3>1. ParseVlessRequest(c, v2) # <<>>
      BY <2>1
    <3>. HIDE DEF v2
    <3>. QED
      BY <3>1 DEF ParseVlessRequest
  <2>4. Hash <= Len(b) /\ 1 + Uuid <= Len(c) /\ 1 + Uuid \in Nat /\ 1 < Len(b)
    <3>. HIDE DEF t
    <3>. QED
      BY <1>1, <1>2, <1>7, <2>2, <2>3
  <2>5. IsSlice(Slice(b, 0, Hash), b, 0, Hash)
    BY <1>1, <1>2, <2>4, SliceIsSlice
  <2>6. IsSlice(Slice(c, 1, 1 + Uuid), c, 1, 1 + Uuid)
    BY <1>1, <1>2, <2>4, SliceIsSlice
  <2>7. TrojanHash[2] = b[2]
    <3>1. 2 \in 1..(Hash - 0) /\ 0 + 2 = 2
      BY <1>2
    <3>. QED
      BY <2>2, <2>5, <3>1 DEF IsSlice
  <2>8. VlessId[1] = c[2]
    <3>1. 1 \in 1..((1 + Uuid) - 1) /\ 1 + 1 = 2
      BY <1>2
    <3>. QED
      BY <2>3, <2>6, <3>1 DEF IsSlice
  <2>9. c[2] = b[2]
    BY <1>1, <2>4 DEF Begins
  <2>10. TrojanHash[2] = 9 /\ VlessId[1] = 7
    BY <1>2 DEF TrojanHash, VlessId
  <2>. QED
    BY <2>7, <2>8, <2>9, <2>10
<1>9. vless # <<>> => /\ v # -1 /\ v \in 1..Len(b) /\ v2 = v /\ vless2 = vless
  BY <1>1, <1>6
<1>10. trojan # <<>> => /\ t # -1 /\ t \in 1..Len(b) /\ t2 = t
                        /\ trojan2 = trojan
  BY <1>1, <1>2, <1>7
<1>. DEFINE h == TryParseTunnelHandshake(b, memory)
            g == TryParseTunnelHandshake(c, memory)
<1>11. v2 = -1 => vless2 = <<>>
  OBVIOUS
<1>12. t2 = -1 => trojan2 = <<>>
  OBVIOUS
<1>13. v = -1 => v2 = -1
  BY <1>6
<1>14. t = -1 => t2 = -1
  BY <1>7
<1>. HIDE DEF v, t, v2, t2, vless, vless2, trojan, trojan2
<1>15. CASE memory.ready
  BY <1>3, <1>15, MoreStands
<1>16. CASE ~memory.ready /\ vless # <<>>
  <2>1. h = Took(v, vless, Ready(memory)) /\ v \in 1..Len(b)
    BY <1>3, <1>9, <1>16
  <2>2. g = Took(v, vless, Ready(memory))
    BY <1>4, <1>9, <1>16
  <2>. HIDE DEF h, g
  <2>3. Settled(h, g, b)
    BY <1>5, <2>1, <2>2, TookStands
  <2>. QED
    BY <2>3 DEF h, g
<1>17. CASE ~memory.ready /\ vless = <<>> /\ trojan # <<>>
  <2>1. h = Took(t, trojan, Ready(memory)) /\ t \in 1..Len(b)
    BY <1>3, <1>10, <1>17
  <2>2. g = Took(t, trojan, Ready(memory))
    BY <1>4, <1>8, <1>10, <1>17
  <2>. HIDE DEF h, g
  <2>3. Settled(h, g, b)
    BY <1>5, <2>1, <2>2, TookStands
  <2>. QED
    BY <2>3 DEF h, g
<1>18. CASE ~memory.ready /\ vless = <<>> /\ trojan = <<>> /\ v = -1 /\ t = -1
  <2>1. h = Invalid
    BY <1>3, <1>18
  <2>2. g = Invalid
    BY <1>4, <1>11, <1>12, <1>13, <1>14, <1>18
  <2>. HIDE DEF h, g
  <2>3. Settled(h, g, b)
    BY <2>1, <2>2, InvalidStands
  <2>. QED
    BY <2>3 DEF h, g
<1>19. CASE ~memory.ready /\ vless = <<>> /\ trojan = <<>> /\ ~(v = -1 /\ t = -1)
  BY <1>3, <1>19, MoreStands
<1>. QED
  BY <1>15, <1>16, <1>17, <1>18, <1>19

\* Where the ends of headers are, and the first of them.
Starts(b) == {i \in 0..(Len(b) - 4) : Slice(b, i, i + 4) = HeaderEnd}
IsFirst(i, b) == i \in Starts(b) /\ \A j \in Starts(b) : i <= j
FirstOf(b) == CHOOSE i \in Starts(b) : \A j \in Starts(b) : i <= j
Names(b, end) == {i \in 0..(end - 1) : At(b, i) = ContentLength}
Name(b, end) == CHOOSE i \in Names(b, end) : TRUE
Body(b, end) == IF Names(b, end) = {} THEN 0 ELSE At(b, Name(b, end) + 1)

\* The blank lines of the beginning are the early ones of the whole.
LEMMA StartsAreStarts ==
  ASSUME NEW b, NEW c, Begins(b, c), NEW i
  PROVE  i \in Starts(b) <=> i \in Starts(c) /\ i + 4 <= Len(b)
<1>1. Len(b) \in Nat /\ Len(c) \in Nat /\ Len(b) <= Len(c)
  BY LenNat DEF Begins
<1>2. ASSUME i \in Nat, i + 4 <= Len(b)
      PROVE  Slice(c, i, i + 4) = Slice(b, i, i + 4)
  <2>1. i + 4 \in Nat
    BY <1>2
  <2>. QED
    BY <1>2, <2>1, BeginsSlice
<1>. QED
  BY <1>1, <1>2 DEF Starts

\* If there is a blank line there is a first one.
LEMMA FirstExists ==
  ASSUME NEW b \in Bytes, Starts(b) # {}
  PROVE  \E i : IsFirst(i, b)
<1>1. Starts(b) \in SUBSET Nat
  BY LenNat DEF Starts
<1>. QED
  BY <1>1, LeastNumber DEF IsFirst

\* The first blank line of the beginning is that of the whole.
LEMMA FirstIsFirst ==
  ASSUME NEW b, NEW c, Begins(b, c), NEW i, IsFirst(i, b)
  PROVE  /\ i \in Nat /\ i + 4 <= Len(b) /\ Slice(b, i, i + 4) = HeaderEnd
         /\ FirstOf(c) = i
<1>1. Len(b) \in Nat /\ Len(c) \in Nat /\ Len(b) <= Len(c)
  BY LenNat DEF Begins
<1>2. i \in Nat /\ i + 4 <= Len(b) /\ Slice(b, i, i + 4) = HeaderEnd
  BY <1>1 DEF IsFirst, Starts
<1>3. i \in Starts(c)
  BY StartsAreStarts DEF IsFirst
<1>4. ASSUME NEW j \in Starts(c) PROVE i <= j
  <2>1. j \in Nat
    BY <1>1 DEF Starts
  <2>2. CASE j + 4 <= Len(b)
    BY <2>2, StartsAreStarts DEF IsFirst
  <2>3. CASE Len(b) < j + 4
    BY <1>1, <1>2, <2>1, <2>3
  <2>. QED
    BY <1>1, <2>1, <2>2, <2>3
<1>5. ASSUME NEW k \in Starts(c), \A j \in Starts(c) : k <= j PROVE k = i
  <2>1. k \in Nat /\ k <= i /\ i <= k
    BY <1>1, <1>3, <1>4, <1>5 DEF Starts
  <2>. QED
    BY <1>2, <2>1
<1>. QED
  BY <1>2, <1>3, <1>4, <1>5 DEF FirstOf

\* So the announced length of the body is the same.
LEMMA BodyIsBody ==
  ASSUME NEW b, NEW c, Begins(b, c), NEW i, IsFirst(i, b)
  PROVE  Body(c, i + 4) = Body(b, i + 4) /\ Body(b, i + 4) \in Nat
<1>1. Len(b) \in Nat /\ Len(c) \in Nat /\ Len(b) <= Len(c) /\ b \in Bytes
  BY LenNat DEF Begins
<1>2. i \in Nat /\ i + 4 <= Len(b) /\ Slice(b, i, i + 4) = HeaderEnd
  BY FirstIsFirst
<1>. DEFINE end == i + 4
<1>3. end \in Nat /\ end <= Len(b)
  BY <1>2
<1>4. \A k \in 0..(end - 1) : k \in Nat /\ At(c, k) = At(b, k)
  <2>1. SUFFICES ASSUME NEW k \in 0..(end - 1)
                 PROVE  k \in Nat /\ At(c, k) = At(b, k)
    OBVIOUS
  <2>2. k \in Nat /\ k < Len(b)
    BY <1>1, <1>3
  <2>. QED
    BY <2>2, BeginsAt
\* The header's last byte is a line feed.
<1>5. At(b, end - 1) = 10
  <2>1. IsSlice(Slice(b, i, end), b, i, end)
    BY <1>1, <1>2, <1>3, SliceIsSlice
  <2>2. 4 \in 1..(end - i)
    BY <1>2
  <2>3. Slice(b, i, end)[4] = b[i + 4]
    BY <2>1, <2>2 DEF IsSlice
  <2>4. HeaderEnd[4] = 10
    BY DEF HeaderEnd, CrLf
  <2>5. At(b, end - 1) = b[i + 4]
    BY <1>2 DEF At
  <2>. QED
    BY <1>2, <2>3, <2>4, <2>5
<1>. HIDE DEF end
<1>6. Names(c, end) = Names(b, end)
  BY <1>4 DEF Names
<1>7. ASSUME Names(b, end) # {}
      PROVE  /\ At(b, Name(b, end) + 1) \in Nat
             /\ At(c, Name(b, end) + 1) = At(b, Name(b, end) + 1)
  <2>. DEFINE k == Name(b, end)
  <2>1. k \in Names(b, end)
    BY <1>7 DEF Name
  <2>. HIDE DEF k
  <2>2. k \in 0..(end - 1) /\ At(b, k) = 256
    BY <2>1 DEF Names, ContentLength
  <2>3. k # end - 1
    BY <1>5, <2>2
  <2>4. k + 1 \in Nat /\ k + 1 < Len(b)
    BY <1>1, <1>3, <2>2, <2>3
  <2>. QED
    BY <2>4, BeginsAt DEF k
<1>8. Name(c, end) = Name(b, end)
  BY <1>6 DEF Name
<1>9. Body(c, end) = Body(b, end) /\ Body(b, end) \in Nat
  BY <1>6, <1>7, <1>8 DEF Body
<1>. QED
  BY <1>9 DEF end

\* The speed test's head by the names used here.
LEMMA SpeedTestIs ==
  ASSUME NEW b, NEW memory
  PROVE  SpeedTestRequest(b, memory) =
           LET end == FirstOf(b) + 4 IN
           IF Starts(b) = {} \/ Len(b) < end + Body(b, end) THEN More
           ELSE Took(end + Body(b, end), <<[header |-> ~memory.ready]>>, Ready(memory))
  BY DEF SpeedTestRequest, Starts, Body, Names, Name, FirstOf

\* The same, where the first blank line and the body's length are known.
LEMMA SpeedTestIsAt ==
  ASSUME NEW b, NEW memory, NEW i, Starts(b) # {}, FirstOf(b) = i,
         NEW size, Body(b, i + 4) = size
  PROVE  SpeedTestRequest(b, memory) =
           IF Len(b) < i + 4 + size THEN More
           ELSE Took(i + 4 + size, <<[header |-> ~memory.ready]>>, Ready(memory))
  BY SpeedTestIs

\* speedtest.js: what the head tells does not change with more bytes.
LEMMA SpeedTestStands ==
  ASSUME NEW b, NEW c, Begins(b, c), NEW memory \in Memories
  PROVE  Settled(SpeedTestRequest(b, memory), SpeedTestRequest(c, memory), b)
<1>1. Len(b) \in Nat /\ Len(c) \in Nat /\ Len(b) <= Len(c) /\ b \in Bytes
      /\ c \in Bytes
  BY LenNat DEF Begins
<1>2. CASE Starts(b) = {}
  BY <1>2, MoreStands, SpeedTestIs
<1>3. CASE Starts(b) # {}
  <2>1. PICK i : IsFirst(i, b)
    BY <1>1, <1>3, FirstExists
  <2>. DEFINE size == Body(b, i + 4)
              n == i + 4 + size
              frames == <<[header |-> ~memory.ready]>>
  <2>2. Begins(b, b)
    BY <1>1 DEF Begins
  <2>3. /\ i \in Nat /\ Body(b, i + 4) \in Nat /\ Body(c, i + 4) = Body(b, i + 4)
        /\ FirstOf(b) = i
        /\ FirstOf(c) = i
    BY <2>1, <2>2, FirstIsFirst, BodyIsBody
  <2>4. Starts(c) # {}
    BY <2>1, StartsAreStarts DEF IsFirst
  <2>5. SpeedTestRequest(b, memory) =
          IF Len(b) < n THEN More ELSE Took(n, frames, Ready(memory))
    <3>1. FirstOf(b) = i /\ Body(b, i + 4) = size
      BY <2>3
    <3>. HIDE DEF size
    <3>2. SpeedTestRequest(b, memory) =
            IF Len(b) < i + 4 + size THEN More
            ELSE Took(i + 4 + size, <<[header |-> ~memory.ready]>>, Ready(memory))
      BY ONLY <1>3, <3>1, SpeedTestIsAt, Zenon
    <3>. QED
      BY ONLY <3>2, Zenon DEF n, frames
  <2>6. SpeedTestRequest(c, memory) =
          IF Len(c) < n THEN More ELSE Took(n, frames, Ready(memory))
    <3>1. FirstOf(c) = i /\ Body(c, i + 4) = size
      BY <2>3
    <3>. HIDE DEF size
    <3>2. SpeedTestRequest(c, memory) =
            IF Len(c) < i + 4 + size THEN More
            ELSE Took(i + 4 + size, <<[header |-> ~memory.ready]>>, Ready(memory))
      BY ONLY <2>4, <3>1, SpeedTestIsAt, Zenon
    <3>. QED
      BY ONLY <3>2, Zenon DEF n, frames
  <2>7. n \in Nat /\ 0 < n
    BY <2>3
  <2>. HIDE DEF n, frames
  <2>8. Ready(memory) \in Memories
    BY DEF Memories, Ready
  <2>9. CASE Len(b) < n
    BY <2>5, <2>9, MoreStands
  <2>10. CASE n <= Len(b)
    <3>1. n \in 1..Len(b) /\ ~(Len(b) < n) /\ ~(Len(c) < n)
      BY <1>1, <2>7, <2>10
    <3>. QED
      BY <2>5, <2>6, <2>8, <3>1, TookStands
  <2>. QED
    BY <1>1, <2>7, <2>9, <2>10
<1>. QED
  BY <1>2, <1>3

\* The decoders there are.
Kinds == {"trojanUdp", "dns", "grpc", "shadowsocks", "target", "handshake",
          "speedtest"}

(* What a decoder has found in its buffer it finds however the stream goes *)
(* on.                                                                     *)
LEMMA HeadStands ==
  ASSUME NEW kind \in Kinds, NEW b, NEW c, Begins(b, c), b # <<>>,
         NEW memory \in Memories
  PROVE  Settled(Head1(kind, b, memory), Head1(kind, c, memory), b)
<1>1. CASE kind = "trojanUdp"
  BY <1>1, TrojanUdpStands DEF Head1
<1>2. CASE kind = "dns"
  BY <1>2, DnsAnswerStands DEF Head1
<1>3. CASE kind = "grpc"
  BY <1>3, GrpcFrameStands DEF Head1
<1>4. CASE kind = "shadowsocks"
  BY <1>4, ShadowsocksStands DEF Head1
<1>5. CASE kind = "target"
  BY <1>5, ShadowsocksTargetStands DEF Head1
<1>6. CASE kind = "handshake"
  BY <1>6, HandshakeStands DEF Head1
<1>7. CASE kind = "speedtest"
  BY <1>7, SpeedTestStands DEF Head1
<1>. QED
  BY <1>1, <1>2, <1>3, <1>4, <1>5, <1>6, <1>7 DEF Kinds

----------------------------------------------------------------------------
(* Taking units one by one.                                                *)

Dec(buffer, memory, decoded, refused) ==
  [buffer |-> buffer, memory |-> memory, decoded |-> decoded, failed |-> refused]
IsDecoder(d) ==
  /\ d.buffer \in Bytes /\ d.memory \in Memories
  /\ d = Dec(d.buffer, d.memory, d.decoded, d.failed)

\* More bytes come; there is nothing to take.
Plus(d, y) == [d EXCEPT !.buffer = @ \o y]
Rests(kind, d) == TakeOne(kind, d) = d

\* A decoder's fields, and what it is with more bytes.
LEMMA DecFields ==
  ASSUME NEW b, NEW m, NEW f, NEW x
  PROVE  /\ Dec(b, m, f, x).buffer = b /\ Dec(b, m, f, x).memory = m
         /\ Dec(b, m, f, x).decoded = f /\ Dec(b, m, f, x).failed = x
         /\ \A y : Plus(Dec(b, m, f, x), y) = Dec(b \o y, m, f, x)
<1>1. ASSUME NEW y
      PROVE  Plus(Dec(b, m, f, x), y) = Dec(b \o y, m, f, x)
  <2>. DEFINE c == b \o y
  <2>1. Plus(Dec(b, m, f, x), y) = [Dec(b, m, f, x) EXCEPT !.buffer = c]
    BY DEF Plus, Dec
  <2>. HIDE DEF c
  <2>2. [Dec(b, m, f, x) EXCEPT !.buffer = c] = Dec(c, m, f, x)
    BY DEF Dec
  <2>. QED
    BY <2>1, <2>2 DEF c
<1>. QED
  BY <1>1 DEF Dec

\* Such a record is a decoder.
LEMMA DecIsDecoder ==
  ASSUME NEW b \in Bytes, NEW m \in Memories, NEW f, NEW x
  PROVE  IsDecoder(Dec(b, m, f, x))
  BY DecFields DEF IsDecoder

\* What the head of a decoder's buffer tells; that it refused a unit.
HeadOf(kind, d) ==
  IF d.buffer = <<>> THEN More ELSE Head1(kind, d.buffer, d.memory)
Refused == TRUE

\* One unit is taken as the head tells.
LEMMA TakeOneIs ==
  ASSUME NEW kind, NEW d, NEW h, h = HeadOf(kind, d)
  PROVE  TakeOne(kind, d) =
           IF h.kind = "more" THEN d
           ELSE IF h.kind = "invalid" THEN [d EXCEPT !.failed = Refused]
           ELSE [buffer |-> From(d.buffer, h.bytes), memory |-> h.memory,
                 decoded |-> d.decoded \o h.frames, failed |-> d.failed]
  BY DEF TakeOne, HeadOf, Refused

\* An invalid head fails the decoder.
LEMMA TakeOneRefuses ==
  ASSUME NEW kind, NEW d, HeadOf(kind, d).kind = "invalid"
  PROVE  TakeOne(kind, d) = [d EXCEPT !.failed = Refused]
  BY DEF TakeOne, HeadOf, Refused

\* A decoder with more bytes is a decoder.
LEMMA PlusIsDecoder ==
  ASSUME NEW d, IsDecoder(d), NEW y \in Bytes
  PROVE  /\ IsDecoder(Plus(d, y)) /\ Plus(d, y).buffer = d.buffer \o y
         /\ Plus(d, y) = Dec(d.buffer \o y, d.memory, d.decoded, d.failed)
<1>. DEFINE b == d.buffer  c == d.buffer \o y
<1>1. c \in Bytes /\ d.memory \in Memories
  BY ConcatProperties DEF IsDecoder, Bytes
<1>2. d = Dec(b, d.memory, d.decoded, d.failed)
  BY DEF IsDecoder
<1>3. Plus(d, y) = Dec(c, d.memory, d.decoded, d.failed)
  BY <1>2, DecFields
<1>. HIDE DEF c
<1>4. IsDecoder(Dec(c, d.memory, d.decoded, d.failed))
      /\ Dec(c, d.memory, d.decoded, d.failed).buffer = c
  BY <1>1, DecFields, DecIsDecoder
<1>. QED
  BY <1>3, <1>4 DEF c

\* Nothing is taken while the head waits.
LEMMA TakesNothing ==
  ASSUME NEW kind, NEW b, NEW m, NEW f, NEW x,
         b = <<>> \/ Head1(kind, b, m).kind = "more"
  PROVE  TakeOne(kind, Dec(b, m, f, x)) = Dec(b, m, f, x)
<1>. DEFINE d == Dec(b, m, f, x)  h == HeadOf(kind, d)
<1>1. h.kind = "more"
  BY DecFields, KindsDiffer DEF HeadOf
<1>. HIDE DEF d, h
<1>2. h = HeadOf(kind, d)
  BY DEF h
<1>3. TakeOne(kind, d) = d
  BY <1>1, <1>2, TakeOneIs
<1>. QED
  BY <1>3 DEF d

\* An invalid head is refused.
LEMMA TakesInvalid ==
  ASSUME NEW kind, NEW b, NEW m, NEW f, NEW x,
         b # <<>>, Head1(kind, b, m) = Invalid
  PROVE  TakeOne(kind, Dec(b, m, f, x)) = Dec(b, m, f, Refused)
<1>. DEFINE d == Dec(b, m, f, x)  h == HeadOf(kind, d)
<1>1. h.kind = "invalid"
  BY DecFields, KindsDiffer DEF HeadOf
<1>2. [d EXCEPT !.failed = Refused] = Dec(b, m, f, Refused)
  BY DEF Dec
<1>. HIDE DEF d, h
<1>3. h = HeadOf(kind, d)
  BY DEF h
<1>4. TakeOne(kind, d) = [d EXCEPT !.failed = Refused]
  BY ONLY <1>1, <1>3, TakeOneRefuses, Zenon
<1>. QED
  BY <1>2, <1>4, Zenon DEF d

\* A unit leaves the buffer and its frames are delivered.
LEMMA TakesUnit ==
  ASSUME NEW kind, NEW b, NEW m, NEW f, NEW x, NEW n, NEW frames, NEW m2,
         b # <<>>, Head1(kind, b, m) = Took(n, frames, m2)
  PROVE  TakeOne(kind, Dec(b, m, f, x)) = Dec(From(b, n), m2, f \o frames, x)
<1>. DEFINE d == Dec(b, m, f, x)  h == HeadOf(kind, d)
<1>1. d.buffer = b /\ d.memory = m /\ d.decoded = f /\ d.failed = x
  BY DecFields
<1>2. /\ h.kind = "took" /\ h.bytes = n /\ h.frames = frames /\ h.memory = m2
  <2>1. h = Took(n, frames, m2)
    BY DecFields DEF HeadOf
  <2>. HIDE DEF h
  <2>. QED
    BY <2>1, KindsDiffer
<1>. HIDE DEF d, h
<1>3. h = HeadOf(kind, d)
  BY DEF h
<1>4. TakeOne(kind, d) =
        [buffer |-> From(d.buffer, h.bytes), memory |-> h.memory,
         decoded |-> d.decoded \o h.frames, failed |-> d.failed]
  BY <1>2, <1>3, TakeOneIs
<1>5. TakeOne(kind, d) = Dec(From(b, n), m2, f \o frames, x)
  BY ONLY <1>1, <1>2, <1>4 DEF Dec
<1>. QED
  BY <1>5 DEF d

(* A step keeps a decoder a decoder; it makes the buffer shorter or is the *)
(* last one; and more bytes behind the buffer do not change it.            *)
LEMMA TakesOneStep ==
  ASSUME NEW kind \in Kinds, NEW d, IsDecoder(d)
  PROVE  /\ IsDecoder(TakeOne(kind, d))
         /\ \/ Len(TakeOne(kind, d).buffer) < Len(d.buffer)
            \/ /\ Rests(kind, TakeOne(kind, d))
               /\ TakeOne(kind, d).buffer = d.buffer
         /\ TakeOne(kind, d) # d =>
              \A y \in Bytes : TakeOne(kind, Plus(d, y)) = Plus(TakeOne(kind, d), y)
<1>1. PICK b \in Bytes, m \in Memories : \E f, x : d = Dec(b, m, f, x)
  BY DEF IsDecoder
<1>2. PICK f, x : d = Dec(b, m, f, x)
  BY <1>1
<1>3. d.buffer = b /\ Len(b) \in Nat
  BY <1>2, DecFields, LenNat
<1>. DEFINE h == Head1(kind, b, m)  e == TakeOne(kind, d)
<1>4. CASE b = <<>> \/ h.kind = "more"
  <2>1. e = d
    BY <1>2, <1>4, TakesNothing
  <2>. QED
    BY <2>1 DEF Rests
<1>5. CASE b # <<>> /\ h.kind # "more"
  <2>1. \A y \in Bytes : /\ Begins(b, b \o y) /\ b \o y # <<>>
                         /\ Settled(h, Head1(kind, b \o y, m), b)
    <3>1. SUFFICES ASSUME NEW y \in Bytes
                   PROVE  /\ Begins(b, b \o y) /\ b \o y # <<>>
                          /\ Settled(h, Head1(kind, b \o y, m), b)
      OBVIOUS
    <3>2. Begins(b, b \o y)
      BY BeginsConcat
    <3>3. b \o y # <<>>
      BY <1>5, ConcatEqualIffEmpty DEF Bytes
    <3>. QED
      BY <1>5, <3>2, <3>3, HeadStands
  <2>2. \A y \in Bytes : Head1(kind, b \o y, m) = h
    BY <1>5, <2>1 DEF Settled
  <2>3. Final(h, b)
    <3>1. <<>> \in Bytes
      BY EmptySeq DEF Bytes
    <3>. QED
      BY <1>5, <2>1, <3>1 DEF Settled
  <2>. HIDE DEF h
  <2>4. CASE h = Invalid
    <3>. DEFINE l == Dec(b, m, f, Refused)
    <3>1. e = l
      BY <1>2, <1>5, <2>4, TakesInvalid DEF h
    <3>2. TakeOne(kind, l) = l
      BY <1>5, <2>4, TakesInvalid DEF h
    <3>3. \A y \in Bytes : TakeOne(kind, Plus(d, y)) = Plus(e, y)
      <4>1. SUFFICES ASSUME NEW y \in Bytes PROVE TakeOne(kind, Plus(d, y)) = Plus(e, y)
        OBVIOUS
      <4>2. Plus(d, y) = Dec(b \o y, m, f, x) /\ Plus(e, y) = Dec(b \o y, m, f, Refused)
        <5>1. \A z : /\ Plus(Dec(b, m, f, z), y) = Dec(b \o y, m, f, z)
          BY DecFields
        <5>. QED
          BY ONLY <1>2, <3>1, <5>1, Zenon
      <4>3. Head1(kind, b \o y, m) = Invalid /\ b \o y # <<>>
        BY <2>1, <2>2, <2>4
      <4>4. TakeOne(kind, Dec(b \o y, m, f, x)) = Dec(b \o y, m, f, Refused)
        <5>. DEFINE c == b \o y
        <5>1. Head1(kind, c, m) = Invalid /\ c # <<>>
          BY <4>3
        <5>. HIDE DEF c
        <5>2. TakeOne(kind, Dec(c, m, f, x)) = Dec(c, m, f, Refused)
          BY <5>1, TakesInvalid
        <5>. QED
          BY <5>2 DEF c
      <4>. QED
        BY <4>2, <4>4
    <3>4. IsDecoder(l) /\ l.buffer = b
      <4>1. \A z : IsDecoder(Dec(b, m, f, z)) /\ Dec(b, m, f, z).buffer = b
        BY DecIsDecoder, DecFields
      <4>. QED
        BY ONLY <4>1, Zenon
    <3>. HIDE DEF l, e
    <3>5. IsDecoder(e) /\ Rests(kind, e) /\ e.buffer = d.buffer
      BY <1>3, <3>1, <3>2, <3>4 DEF Rests
    <3>. QED
      BY <3>3, <3>5 DEF e
  <2>5. CASE \E n \in 1..Len(b) : \E m2 \in Memories : \E frames :
               h = Took(n, frames, m2)
    <3>1. PICK n \in 1..Len(b), m2 \in Memories : \E frames : h = Took(n, frames, m2)
      BY <2>5
    <3>2. PICK frames : h = Took(n, frames, m2)
      BY <3>1
    <3>. DEFINE l == Dec(From(b, n), m2, f \o frames, x)
    <3>3. e = l
      BY <1>2, <1>5, <3>2, TakesUnit DEF h
    <3>4. From(b, n) \in Bytes /\ Len(From(b, n)) = Len(b) - n
      BY FromConcat
    <3>5. IsDecoder(l) /\ l.buffer = From(b, n)
      BY <3>4, DecIsDecoder, DecFields
    <3>6. \A y \in Bytes : TakeOne(kind, Plus(d, y)) = Plus(e, y)
      <4>1. SUFFICES ASSUME NEW y \in Bytes PROVE TakeOne(kind, Plus(d, y)) = Plus(e, y)
        OBVIOUS
      <4>. DEFINE c == b \o y
      <4>2. Plus(d, y) = Dec(c, m, f, x)
        BY <1>2, DecFields
      <4>3. Plus(e, y) = Dec(From(b, n) \o y, m2, f \o frames, x)
        BY <3>3, DecFields
      <4>4. Head1(kind, c, m) = Took(n, frames, m2) /\ c # <<>>
        BY <2>1, <2>2, <3>2
      <4>5. From(c, n) = From(b, n) \o y
        BY FromConcat
      <4>. HIDE DEF c
      <4>6. TakeOne(kind, Dec(c, m, f, x)) = Dec(From(c, n), m2, f \o frames, x)
        BY <4>4, TakesUnit
      <4>. QED
        BY <4>2, <4>3, <4>5, <4>6
    <3>. HIDE DEF l, e
    <3>7. IsDecoder(e) /\ Len(e.buffer) < Len(d.buffer)
      BY <1>3, <3>3, <3>4, <3>5
    <3>. QED
      BY <3>6, <3>7 DEF e
  <2>. QED
    BY <2>3, <2>4, <2>5 DEF Final
<1>. QED
  BY <1>4, <1>5

----------------------------------------------------------------------------
(* Draining a buffer.                                                      *)

\* f tells what a decoder is after 0, ..., n steps.
Taking(kind, d, f, n) ==
  f = [k \in 0..n |-> IF k = 0 THEN d ELSE TakeOne(kind, f[k - 1])]

\* Units are taken one after the other.
LEMMA TakingIs ==
  ASSUME NEW kind, NEW d, NEW f, NEW n \in Nat, Taking(kind, d, f, n)
  PROVE  /\ f[0] = d
         /\ \A k \in Nat : k < n => f[k + 1] = TakeOne(kind, f[k])
<1>. DEFINE Step(k) == IF k = 0 THEN d ELSE TakeOne(kind, f[k - 1])
<1>1. \A k \in 0..n : f[k] = Step(k)
  BY DEF Taking
<1>2. f[0] = d
  BY <1>1
<1>3. ASSUME NEW k \in Nat, k < n PROVE f[k + 1] = TakeOne(kind, f[k])
  <2>1. k + 1 \in 0..n /\ k + 1 # 0 /\ k + 1 - 1 = k
    BY <1>3
  <2>. QED
    BY <1>1, <2>1
<1>. QED
  BY <1>2, <1>3

\* As many units as one likes can be taken in turn.
LEMMA TakingExists ==
  ASSUME NEW kind, NEW d, NEW n \in Nat
  PROVE  \E f : Taking(kind, d, f, n)
<1>. DEFINE S == {m \in Nat : \E f : Taking(kind, d, f, m)}
<1>1. 0 \in S
  <2>. DEFINE f == [k \in 0..0 |-> d]
  <2>1. f = [k \in 0..0 |-> IF k = 0 THEN d ELSE TakeOne(kind, f[k - 1])]
    OBVIOUS
  <2>2. Taking(kind, d, f, 0)
    BY <2>1 DEF Taking
  <2>. QED
    BY <2>2
<1>2. ASSUME NEW m \in Nat, m \in S PROVE m + 1 \in S
  <2>1. PICK f : Taking(kind, d, f, m)
    BY <1>2
  <2>. DEFINE g == [k \in 0..(m + 1) |->
                      IF k <= m THEN f[k] ELSE TakeOne(kind, f[m])]
  <2>2. \A k \in 0..m : f[k] = IF k = 0 THEN d ELSE TakeOne(kind, f[k - 1])
    BY <2>1 DEF Taking
  <2>3. \A k \in 0..(m + 1) :
          g[k] = IF k = 0 THEN d ELSE TakeOne(kind, g[k - 1])
    <3>1. SUFFICES ASSUME NEW k \in 0..(m + 1)
                   PROVE  g[k] = IF k = 0 THEN d ELSE TakeOne(kind, g[k - 1])
      OBVIOUS
    <3>2. CASE k = 0
      BY <2>2, <3>2
    <3>3. CASE k # 0 /\ k <= m
      <4>1. k - 1 \in 0..(m + 1) /\ k - 1 <= m /\ k \in 0..m
        BY <3>3
      <4>2. g[k] = f[k] /\ g[k - 1] = f[k - 1]
        BY <3>3, <4>1
      <4>. QED
        BY <2>2, <3>3, <4>1, <4>2
    <3>4. CASE k = m + 1
      <4>1. k - 1 = m /\ k # 0 /\ m \in 0..(m + 1) /\ ~(k <= m)
        BY <3>4
      <4>2. g[k] = TakeOne(kind, f[m]) /\ g[m] = f[m]
        BY <4>1
      <4>. HIDE DEF g
      <4>. QED
        BY <4>1, <4>2
    <3>. QED
      BY <3>2, <3>3, <3>4
  <2>4. g = [k \in 0..(m + 1) |-> g[k]]
    OBVIOUS
  <2>. HIDE DEF g
  <2>5. Taking(kind, d, g, m + 1)
    BY <2>3, <2>4 DEF Taking
  <2>. QED
    BY <2>5
<1>. HIDE DEF S
<1>3. Nat \subseteq S
  BY <1>1, <1>2, Inductive
<1>. QED
  BY <1>3 DEF S

\* e is what is left of d when nothing can be taken any more.
LEMMA DrainTakes ==
  ASSUME NEW kind, NEW d, Len(d.buffer) \in Nat
  PROVE  \E f : /\ Taking(kind, d, f, Len(d.buffer))
                /\ Drain(kind, d) = f[Len(d.buffer)]
<1>. DEFINE n == Len(d.buffer)
            f == CHOOSE g : Taking(kind, d, g, n)
<1>1. Drain(kind, d) = f[n]
  BY DEF Drain, Taking
<1>2. Taking(kind, d, f, n)
  BY TakingExists
<1>. QED
  BY <1>1, <1>2

(* After so many steps as there were bytes, nothing can be taken.          *)
LEMMA TakingShortens ==
  ASSUME NEW kind \in Kinds, NEW d, IsDecoder(d), NEW n \in Nat, NEW f,
         Taking(kind, d, f, n)
  PROVE  \A k \in 0..n : /\ IsDecoder(f[k])
                         /\ Rests(kind, f[k]) \/ Len(f[k].buffer) <= Len(d.buffer) - k
<1>. DEFINE P(k) == /\ IsDecoder(f[k])
                    /\ Rests(kind, f[k]) \/ Len(f[k].buffer) <= Len(d.buffer) - k
            S == {k \in Nat : k <= n => P(k)}
<1>0. f[0] = d /\ \A k \in Nat : k < n => f[k + 1] = TakeOne(kind, f[k])
  BY TakingIs
<1>1. Len(d.buffer) \in Nat
  BY LenNat DEF IsDecoder
<1>2. 0 \in S
  BY <1>0, <1>1
<1>3. ASSUME NEW k \in Nat, k \in S PROVE k + 1 \in S
  <2>1. SUFFICES ASSUME k + 1 <= n PROVE P(k + 1)
    OBVIOUS
  <2>2. P(k) /\ f[k + 1] = TakeOne(kind, f[k])
    BY <1>0, <1>3, <2>1
  <2>3. CASE Rests(kind, f[k])
    BY <2>2, <2>3 DEF Rests
  <2>4. CASE ~Rests(kind, f[k])
    <3>1. IsDecoder(f[k]) /\ Len(f[k].buffer) <= Len(d.buffer) - k
      BY <2>2, <2>4
    <3>2. IsDecoder(f[k + 1])
      BY <2>2, <3>1, TakesOneStep
    <3>3. Len(f[k + 1].buffer) < Len(f[k].buffer) \/ Rests(kind, f[k + 1])
      BY <2>2, <3>1, TakesOneStep
    <3>4. Len(f[k].buffer) \in Nat /\ Len(f[k + 1].buffer) \in Nat
      BY <3>1, <3>2, LenNat DEF IsDecoder
    <3>. QED
      BY <1>1, <3>1, <3>2, <3>3, <3>4
  <2>. QED
    BY <2>3, <2>4
<1>. HIDE DEF S
<1>4. Nat \subseteq S
  BY <1>2, <1>3, Inductive
<1>. QED
  BY <1>4 DEF S

(* What was to be drained, is.                                             *)
LEMMA DrainRests ==
  ASSUME NEW kind \in Kinds, NEW d, IsDecoder(d)
  PROVE  IsDecoder(Drain(kind, d)) /\ Rests(kind, Drain(kind, d))
<1>1. Len(d.buffer) \in Nat
  BY LenNat DEF IsDecoder
<1>. DEFINE n == Len(d.buffer)
<1>2. PICK f : Taking(kind, d, f, n) /\ Drain(kind, d) = f[n]
  BY <1>1, DrainTakes
<1>3. IsDecoder(f[n]) /\ (Rests(kind, f[n]) \/ Len(f[n].buffer) <= Len(d.buffer) - n)
  BY <1>1, <1>2, TakingShortens
<1>4. CASE ~Rests(kind, f[n])
  <2>1. f[n].buffer \in Bytes /\ Len(f[n].buffer) \in Nat
    BY <1>3, LenNat DEF IsDecoder
  <2>2. Len(f[n].buffer) <= 0
    BY <1>1, <1>3, <1>4
  <2>3. f[n].buffer = <<>>
    BY <2>1, <2>2, EmptySeq DEF Bytes
  <2>4. TakeOne(kind, f[n]) = f[n]
    BY <2>3, KindsDiffer DEF TakeOne
  <2>. QED
    BY <1>4, <2>4 DEF Rests
<1>. QED
  BY <1>2, <1>3, <1>4

(* A decoder at rest stays what it is.                                     *)
LEMMA RestLasts ==
  ASSUME NEW kind, NEW d, NEW n \in Nat, NEW f, Taking(kind, d, f, n),
         NEW i \in 0..n, Rests(kind, f[i])
  PROVE  \A k \in i..n : f[k] = f[i]
<1>. DEFINE S == {k \in Nat : i <= k /\ k <= n => f[k] = f[i]}
<1>0. \A k \in Nat : k < n => f[k + 1] = TakeOne(kind, f[k])
  BY TakingIs
<1>1. 0 \in S
  OBVIOUS
<1>2. ASSUME NEW k \in Nat, k \in S PROVE k + 1 \in S
  <2>1. SUFFICES ASSUME i <= k + 1, k + 1 <= n PROVE f[k + 1] = f[i]
    OBVIOUS
  <2>2. CASE i = k + 1
    BY <2>2
  <2>3. CASE i <= k
    <3>1. f[k] = f[i] /\ f[k + 1] = TakeOne(kind, f[k])
      BY <1>0, <1>2, <2>1, <2>3
    <3>. QED
      BY <3>1 DEF Rests
  <2>. QED
    BY <2>1, <2>2, <2>3
<1>. HIDE DEF S
<1>3. Nat \subseteq S
  BY <1>1, <1>2, Inductive
<1>. QED
  BY <1>3 DEF S

(* Draining may take the first unit beforehand.                            *)
LEMMA DrainAfterOne ==
  ASSUME NEW kind \in Kinds, NEW d, IsDecoder(d)
  PROVE  Drain(kind, TakeOne(kind, d)) = Drain(kind, d)
<1>. DEFINE e == TakeOne(kind, d)  n == Len(d.buffer)  m == Len(e.buffer)
<1>1. CASE e = d
  BY <1>1
<1>2. CASE e # d
  <2>1. IsDecoder(e) /\ (m < n \/ (Rests(kind, e) /\ m = n))
    BY TakesOneStep
  <2>2. n \in Nat /\ m \in Nat
    BY <2>1, LenNat DEF IsDecoder
  <2>3. PICK f : Taking(kind, d, f, n) /\ Drain(kind, d) = f[n]
    BY <2>2, DrainTakes
  <2>4. PICK g : Taking(kind, e, g, m) /\ Drain(kind, e) = g[m]
    BY <2>2, DrainTakes
  <2>5. f[0] = d /\ \A k \in Nat : k < n => f[k + 1] = TakeOne(kind, f[k])
    BY <2>2, <2>3, TakingIs
  <2>6. g[0] = e /\ \A k \in Nat : k < m => g[k + 1] = TakeOne(kind, g[k])
    BY <2>2, <2>4, TakingIs
  <2>7. Rests(kind, f[n]) /\ Rests(kind, g[m])
    BY <2>1, <2>3, <2>4, DrainRests
  <2>8. 0 < n
    <3>1. SUFFICES ASSUME n = 0 PROVE FALSE
      BY <2>2
    <3>2. d.buffer = <<>>
      BY <3>1, EmptySeq DEF IsDecoder, Bytes
    <3>3. TakeOne(kind, d) = d
      BY <3>2, KindsDiffer DEF TakeOne
    <3>. QED
      BY <1>2, <3>3
  <2>. DEFINE S == {k \in Nat : k <= m /\ k + 1 <= n => g[k] = f[k + 1]}
  <2>. HIDE DEF e, n, m
  <2>9. f[1] = e
    BY <2>5, <2>8 DEF e
  <2>10. 0 \in S
    BY <2>6, <2>9
  <2>11. ASSUME NEW k \in Nat, k \in S PROVE k + 1 \in S
    <3>1. SUFFICES ASSUME k + 1 <= m, k + 1 + 1 <= n PROVE g[k + 1] = f[k + 1 + 1]
      OBVIOUS
    <3>2. g[k] = f[k + 1]
      BY <2>2, <2>11, <3>1
    <3>3. g[k + 1] = TakeOne(kind, g[k])
      BY <2>2, <2>6, <3>1
    <3>4. k + 1 \in Nat /\ k + 1 < n
      BY <2>2, <3>1
    <3>5. f[k + 1 + 1] = TakeOne(kind, f[k + 1])
      BY <2>5, <3>4
    <3>. QED
      BY <3>2, <3>3, <3>5
  <2>. HIDE DEF S
  <2>12. Nat \subseteq S
    BY <2>10, <2>11, Inductive
  <2>13. CASE m < n
    <3>1. g[m] = f[m + 1]
      BY <2>2, <2>12, <2>13 DEF S
    <3>2. m + 1 \in 0..n /\ n \in (m + 1)..n
      BY <2>2, <2>13
    <3>3. f[n] = f[m + 1]
      BY <2>2, <2>3, <2>7, <3>1, <3>2, RestLasts
    <3>. QED
      BY <2>3, <2>4, <3>1, <3>3 DEF e
  <2>14. CASE m = n /\ Rests(kind, e)
    <3>1. 1 \in 0..n /\ n \in 1..n /\ 0 \in 0..m /\ m \in 0..m
      BY <2>2, <2>8
    <3>2. f[n] = f[1]
      BY <2>2, <2>3, <2>9, <2>14, <3>1, RestLasts
    <3>3. g[m] = g[0]
      BY <2>2, <2>4, <2>6, <2>14, <3>1, RestLasts
    <3>. QED
      BY <2>3, <2>4, <2>6, <2>9, <3>2, <3>3 DEF e
  <2>. QED
    BY <2>1, <2>13, <2>14
<1>. QED
  BY <1>1, <1>2

(***************************************************************************)
(* Two pieces drained one after the other leave what both leave at once.   *)
(***************************************************************************)
LEMMA DrainOfPieces ==
  ASSUME NEW kind \in Kinds, NEW d, IsDecoder(d), NEW y \in Bytes
  PROVE  Drain(kind, Plus(Drain(kind, d), y)) = Drain(kind, Plus(d, y))
<1>1. Len(d.buffer) \in Nat
  BY LenNat DEF IsDecoder
<1>. DEFINE n == Len(d.buffer)
<1>2. PICK f : Taking(kind, d, f, n) /\ Drain(kind, d) = f[n]
  BY <1>1, DrainTakes
<1>3. f[0] = d /\ \A k \in Nat : k < n => f[k + 1] = TakeOne(kind, f[k])
  BY <1>1, <1>2, TakingIs
<1>4. \A k \in 0..n : IsDecoder(f[k])
  BY <1>1, <1>2, TakingShortens
<1>. DEFINE S == {k \in Nat : k <= n =>
                    Drain(kind, Plus(f[k], y)) = Drain(kind, Plus(d, y))}
<1>. HIDE DEF n
<1>5. 0 \in S
  BY <1>3
<1>6. ASSUME NEW k \in Nat, k \in S PROVE k + 1 \in S
  <2>1. SUFFICES ASSUME k + 1 <= n
                 PROVE  Drain(kind, Plus(f[k + 1], y)) = Drain(kind, Plus(d, y))
    OBVIOUS
  <2>2. /\ Drain(kind, Plus(f[k], y)) = Drain(kind, Plus(d, y))
        /\ f[k + 1] = TakeOne(kind, f[k]) /\ IsDecoder(f[k])
    BY <1>1, <1>3, <1>4, <1>6, <2>1 DEF n
  <2>3. CASE f[k + 1] = f[k]
    BY <2>2, <2>3
  <2>4. CASE f[k + 1] # f[k]
    <3>1. TakeOne(kind, Plus(f[k], y)) = Plus(f[k + 1], y)
      BY <2>2, <2>4, TakesOneStep
    <3>2. IsDecoder(Plus(f[k], y))
      BY <2>2, PlusIsDecoder
    <3>3. Drain(kind, TakeOne(kind, Plus(f[k], y))) = Drain(kind, Plus(f[k], y))
      BY <3>2, DrainAfterOne
    <3>. QED
      BY <2>2, <3>1, <3>3
  <2>. QED
    BY <2>3, <2>4
<1>. HIDE DEF S
<1>7. Nat \subseteq S
  BY <1>5, <1>6, Inductive
<1>. QED
  BY <1>1, <1>2, <1>7 DEF S, n

----------------------------------------------------------------------------
(* Where the parts of a frame lie in its bytes.                            *)

\* The bytes y lie in w at position i.
HasAt(w, i, y) ==
  /\ w \in Bytes /\ y \in Bytes /\ i \in Nat /\ i + Len(y) <= Len(w)
  /\ \A k \in 1..Len(y) : w[i + k] = y[k]

\* A string lies at its own start.
LEMMA HasItself ==
  ASSUME NEW w \in Bytes
  PROVE  HasAt(w, 0, w)
<1>1. Len(w) \in Nat
  BY LenNat
<1>2. \A k \in 1..Len(w) : 0 + k = k
  BY <1>1
<1>. QED
  BY <1>1, <1>2 DEF HasAt

\* What lies in a string lies in what continues it.
LEMMA HasWithMore ==
  ASSUME NEW w, NEW i, NEW y, HasAt(w, i, y), NEW z \in Bytes
  PROVE  HasAt(w \o z, i, y)
<1>1. /\ Len(w) \in Nat /\ Len(y) \in Nat /\ Len(z) \in Nat /\ w \in Bytes
      /\ i \in Nat /\ i + Len(y) <= Len(w) /\ y \in Bytes
  BY LenNat DEF HasAt
<1>. DEFINE v == w \o z
<1>2. IsConcat(v, w, z)
  BY <1>1, ConcatIsConcat
<1>. HIDE DEF v
<1>3. v \in Bytes /\ Len(v) = Len(w) + Len(z)
  BY <1>2 DEF IsConcat
<1>4. ASSUME NEW k \in 1..Len(y) PROVE v[i + k] = y[k]
  <2>1. i + k \in 1..(Len(w) + Len(z)) /\ i + k <= Len(w)
    BY <1>1
  <2>2. v[i + k] = w[i + k]
    BY <1>2, <2>1 DEF IsConcat
  <2>. QED
    BY <2>2 DEF HasAt
<1>5. HasAt(v, i, y)
  BY <1>1, <1>3, <1>4 DEF HasAt
<1>. QED
  BY <1>5 DEF v

\* What is appended lies behind.
LEMMA HasBehind ==
  ASSUME NEW w \in Bytes, NEW z \in Bytes
  PROVE  /\ w \o z \in Bytes /\ Len(w \o z) = Len(w) + Len(z)
         /\ Len(w) \in Nat /\ Len(z) \in Nat
         /\ HasAt(w \o z, Len(w), z)
<1>1. Len(w) \in Nat /\ Len(z) \in Nat
  BY LenNat
<1>. DEFINE v == w \o z
<1>2. IsConcat(v, w, z)
  BY ConcatIsConcat
<1>. HIDE DEF v
<1>3. v \in Bytes /\ Len(v) = Len(w) + Len(z)
  BY <1>2 DEF IsConcat
<1>4. ASSUME NEW k \in 1..Len(z) PROVE v[Len(w) + k] = z[k]
  <2>. DEFINE j == Len(w) + k
  <2>1. j \in 1..(Len(w) + Len(z)) /\ ~(j <= Len(w)) /\ j - Len(w) = k
    BY <1>1
  <2>. HIDE DEF j
  <2>2. v[j] = z[j - Len(w)]
    BY <1>2, <2>1 DEF IsConcat
  <2>3. v[j] = z[k]
    BY <2>1, <2>2
  <2>. QED
    BY <2>3 DEF j
<1>5. HasAt(v, Len(w), z)
  BY <1>1, <1>3, <1>4 DEF HasAt
<1>. QED
  BY <1>1, <1>3, <1>5 DEF v

(* What is read from where the bytes lie.                                  *)
LEMMA HasSlice ==
  ASSUME NEW w, NEW i, NEW y, HasAt(w, i, y), NEW j, j = i + Len(y)
  PROVE  Slice(w, i, j) = y
<1>1. /\ Len(w) \in Nat /\ Len(y) \in Nat /\ w \in Bytes /\ y \in Bytes
      /\ i \in Nat /\ i + Len(y) <= Len(w)
  BY LenNat DEF HasAt
<1>2. j \in Nat /\ j <= Len(w) /\ i <= j /\ j - i = Len(y)
  BY <1>1
<1>. DEFINE x == Slice(w, i, j)
<1>3. IsSlice(x, w, i, j)
  BY <1>1, <1>2, SliceIsSlice
<1>. HIDE DEF x
<1>4. x \in Bytes /\ Len(x) = Len(y)
  BY <1>1, <1>2, <1>3 DEF IsSlice
<1>5. ASSUME NEW k \in 1..Len(x) PROVE x[k] = y[k]
  <2>1. k \in 1..(j - i) /\ k \in 1..Len(y)
    BY <1>2, <1>4
  <2>. QED
    BY <1>3, <2>1 DEF IsSlice, HasAt
<1>6. x = y
  BY <1>1, <1>4, <1>5, BytesEqual
<1>. QED
  BY <1>6 DEF x

\* The bytes of what lies there.
LEMMA HasByte ==
  ASSUME NEW w, NEW i, NEW y, HasAt(w, i, y), NEW k \in Nat, k < Len(y)
  PROVE  /\ At(w, i + k) = y[k + 1] /\ y[k + 1] \in Nat
         /\ i + k \in Nat /\ i + k < Len(w) /\ i + k + 1 \in 1..Len(w)
<1>1. /\ Len(w) \in Nat /\ Len(y) \in Nat /\ i \in Nat /\ i + Len(y) <= Len(w)
      /\ y \in Bytes
  BY LenNat DEF HasAt
<1>2. k + 1 \in 1..Len(y) /\ i + (k + 1) = i + k + 1
  BY <1>1
<1>3. w[i + (k + 1)] = y[k + 1]
  BY <1>2 DEF HasAt
<1>4. y[k + 1] \in Nat
  BY <1>1, <1>2, ElementOfSeq DEF Bytes
<1>. QED
  BY <1>1, <1>2, <1>3, <1>4 DEF At

\* Two bytes that stand for a number.
LEMMA Be16Bytes ==
  ASSUME NEW n \in Nat
  PROVE  Be16(n) \in Bytes /\ Len(Be16(n)) = 2
         /\ Be16(n)[1] = n \div 256 /\ Be16(n)[2] = n % 256
  BY DEF Be16, Bytes

\* A 16-bit number is read where it was written.
LEMMA HasU16 ==
  ASSUME NEW w, NEW i, NEW n \in Nat, HasAt(w, i, Be16(n))
  PROVE  U16(w, i) = n
<1>. DEFINE y == Be16(n)
<1>1. Len(y) = 2 /\ y[1] = n \div 256 /\ y[2] = n % 256
  BY Be16Bytes
<1>. HIDE DEF y
<1>2. i \in Nat
  BY DEF HasAt
<1>3. At(w, i + 0) = y[0 + 1]
  BY <1>1, HasByte DEF y
<1>4. At(w, i + 1) = y[1 + 1]
  BY <1>1, HasByte DEF y
<1>5. At(w, i) = n \div 256 /\ At(w, i + 1) = n % 256
  BY <1>1, <1>2, <1>3, <1>4
<1>6. 256 * (n \div 256) + (n % 256) = n
  OBVIOUS
<1>. QED
  BY <1>5, <1>6 DEF U16

\* One byte is a string of bytes.
LEMMA ByteBytes ==
  ASSUME NEW n \in Nat
  PROVE  <<n>> \in Bytes /\ Len(<<n>>) = 1 /\ <<n>>[1] = n
  BY DEF Bytes

\* A byte is read where it was written.
LEMMA HasOneByte ==
  ASSUME NEW w, NEW i, NEW n \in Nat, HasAt(w, i, <<n>>)
  PROVE  At(w, i) = n /\ w[i + 1] = n /\ i \in Nat /\ i < Len(w)
<1>1. i \in Nat /\ Len(<<n>>) = 1 /\ <<n>>[1] = n
  BY DEF HasAt
<1>2. At(w, i + 0) = <<n>>[0 + 1] /\ i + 0 < Len(w)
  BY <1>1, HasByte
<1>. QED
  BY <1>1, <1>2 DEF At

\* CRLF is two bytes.
LEMMA CrLfBytes == CrLf \in Bytes /\ Len(CrLf) = 2
  BY DEF CrLf, Bytes

(* An address is found where it lies, and it ends where it ends.           *)
LEMMA AddressBytes ==
  ASSUME NEW f, NEW types \in {SocksType, VlessType}, IsAddress(f, types)
  PROVE  /\ f.hostname \in Bytes /\ Len(f.hostname) \in Nat \ {0}
         /\ f.hostname[1] \in Nat /\ f.type \in Nat
         /\ types[f.type] \in {"v4", "v6", "domain"}
         /\ f.type \in DOMAIN types
         /\ Address(f) \in Bytes /\ Len(Address(f)) = 1 + Len(f.hostname)
<1>1. f.hostname \in Bytes /\ f.hostname \in Seq(Byte)
  <2>1. f.hostname \in Seq(Byte) /\ Byte \subseteq Nat
    BY DEF IsAddress, Byte
  <2>. QED
    BY <2>1, SeqMonotonic DEF Bytes
<1>2. V4 \in Nat \ {0} /\ V6 \in Nat \ {0}
  BY DecoderAssumption
<1>3. Len(f.hostname) \in Nat
  BY <1>1, LenNat
<1>4. Len(f.hostname) # 0
  BY <1>1, <1>2, <1>3, EmptySeq DEF IsAddress, Bytes
<1>5. f.hostname[1] \in Nat
  BY <1>1, <1>3, <1>4, ElementOfSeq DEF Bytes
<1>6. f.type \in Nat
  <2>1. DOMAIN SocksType = 1..4 /\ DOMAIN VlessType = 1..3
    BY DEF SocksType, VlessType
  <2>. QED
    BY <2>1 DEF IsAddress
<1>7. types[f.type] \in {"v4", "v6", "domain"} /\ f.type \in DOMAIN types
  BY DEF IsAddress
<1>8. Address(f) \in Bytes /\ Len(Address(f)) = 1 + Len(f.hostname)
  <2>1. <<f.type>> \in Bytes /\ Len(<<f.type>>) = 1
    BY <1>6, ByteBytes
  <2>. QED
    BY <1>1, <2>1, HasBehind DEF Address
<1>. QED
  BY <1>1, <1>3, <1>4, <1>5, <1>6, <1>7, <1>8

\* The address that is written at a position is read there.
LEMMA HasAddress ==
  ASSUME NEW f, NEW types \in {SocksType, VlessType}, IsAddress(f, types),
         NEW w, NEW i, HasAt(w, i, Address(f))
  PROVE  LET type == TypeIn(types, w[i + 1])
             end == i + 1 + Len(f.hostname)
         IN /\ type # "none" /\ w[i + 1] = f.type /\ At(w, i) = f.type
            /\ AddressEnd(type, w, i + 1) = end
            /\ Slice(w, i + 1, end) = f.hostname
            /\ end \in Nat /\ end <= Len(w) /\ i \in Nat
<1>1. /\ f.hostname \in Bytes /\ Len(f.hostname) \in Nat \ {0}
      /\ f.hostname[1] \in Nat /\ f.type \in Nat
      /\ types[f.type] \in {"v4", "v6", "domain"} /\ f.type \in DOMAIN types
      /\ Address(f) \in Bytes /\ Len(Address(f)) = 1 + Len(f.hostname)
  BY AddressBytes
<1>2. /\ Len(w) \in Nat /\ w \in Bytes /\ i \in Nat
      /\ i + Len(Address(f)) <= Len(w)
  BY LenNat DEF HasAt
<1>3. IsConcat(Address(f), <<f.type>>, f.hostname)
  <2>1. <<f.type>> \in Bytes
    BY <1>1, ByteBytes
  <2>. QED
    BY <1>1, <2>1, ConcatIsConcat DEF Address
<1>. DEFINE a == Address(f)  h == f.hostname
<1>4. a[1] = f.type
  <2>1. Len(<<f.type>>) = 1 /\ <<f.type>>[1] = f.type
    OBVIOUS
  <2>2. 1 \in 1..(Len(<<f.type>>) + Len(f.hostname)) /\ 1 <= Len(<<f.type>>)
    BY <1>1, <2>1
  <2>. QED
    BY <1>3, <2>1, <2>2 DEF IsConcat
<1>5. ASSUME NEW k \in 1..Len(h) PROVE a[k + 1] = h[k]
  <2>1. Len(<<f.type>>) = 1
    OBVIOUS
  <2>. DEFINE j == k + 1
  <2>2. j \in 1..(1 + Len(h)) /\ ~(j <= 1) /\ j - 1 = k
    BY <1>1
  <2>. HIDE DEF j
  <2>3. a[j] = h[j - 1]
    BY <1>3, <2>1, <2>2 DEF IsConcat
  <2>. QED
    BY <2>2, <2>3 DEF j
<1>. HIDE DEF a, h
<1>6. a \in Bytes /\ Len(a) = 1 + Len(h) /\ h \in Bytes /\ Len(h) \in Nat \ {0}
      /\ HasAt(w, i, a) /\ h = f.hostname /\ i + Len(a) <= Len(w)
  BY <1>1, <1>2 DEF a, h
<1>15. i + 1 \in Nat /\ i + 1 + Len(h) \in Nat /\ i + 1 + Len(h) <= Len(w)
  <2>. DEFINE n == Len(h)  m == Len(w)  l == Len(a)
  <2>1. n \in Nat /\ m \in Nat /\ l = 1 + n /\ i + l <= m /\ i \in Nat
    BY <1>2, <1>6
  <2>. HIDE DEF n, m, l
  <2>2. i + 1 \in Nat /\ i + 1 + n \in Nat /\ i + 1 + n <= m
    BY ONLY <2>1
  <2>. QED
    BY <2>2 DEF n, m
<1>7. HasAt(w, i + 1, h)
  <2>1. \A k \in 1..Len(h) : w[i + 1 + k] = h[k]
    <3>1. SUFFICES ASSUME NEW k \in 1..Len(h) PROVE w[i + 1 + k] = h[k]
      OBVIOUS
    <3>2. k + 1 \in 1..Len(a) /\ i + (k + 1) = i + 1 + k
      BY <1>2, <1>6
    <3>3. w[i + (k + 1)] = a[k + 1]
      BY <1>6, <3>2 DEF HasAt
    <3>. QED
      BY <1>5, <3>2, <3>3
  <2>. QED
    BY <1>2, <1>6, <1>15, <2>1 DEF HasAt
<1>8. w[i + 1] = f.type
  <2>1. 1 \in 1..Len(a)
    BY <1>6
  <2>. QED
    BY <1>4, <1>6, <2>1 DEF HasAt
<1>9. TypeIn(types, w[i + 1]) = types[f.type]
  BY <1>1, <1>8 DEF TypeIn
<1>. DEFINE end == i + 1 + Len(h)
<1>10. Slice(w, i + 1, end) = h
  BY <1>7, HasSlice
<1>11. end \in Nat /\ end <= Len(w)
  BY <1>15
<1>12. AddressEnd(types[f.type], w, i + 1) = end
  <2>1. CASE types[f.type] = "v4"
    BY <1>6, <2>1 DEF AddressEnd, IsAddress
  <2>2. CASE types[f.type] = "v6"
    BY <1>6, <2>2 DEF AddressEnd, IsAddress
  <2>3. CASE types[f.type] = "domain"
    <3>1. Len(h) = 1 + h[1] /\ h[1] \in Nat
      BY <1>1, <1>6, <2>3 DEF IsAddress
    <3>2. At(w, i + 1 + 0) = h[0 + 1] /\ i + 1 + 0 < Len(w)
      BY <1>6, <1>7, HasByte
    <3>3. At(w, i + 1) = h[1] /\ i + 1 < Len(w)
      BY <1>2, <3>2
    <3>. QED
      BY <1>2, <2>3, <3>1, <3>3 DEF AddressEnd
  <2>. QED
    BY <1>1, <2>1, <2>2, <2>3
<1>. QED
  BY <1>1, <1>2, <1>6, <1>8, <1>9, <1>10, <1>11, <1>12 DEF At

----------------------------------------------------------------------------
(* Bytes that are read as frames.                                          *)

\* p is where e begins, and there is more of e; q is where p ends.
Before(p, e) == Begins(p, e) /\ Len(p) < Len(e)
Ends(q, p) ==
  /\ q \in Bytes /\ p \in Bytes /\ Len(q) <= Len(p)
  /\ \A k \in 1..Len(q) : q[k] = p[Len(p) - Len(q) + k]

\* f is a sequence.
IsList(f) == \E S : f \in Seq(S)

\* A decoder that is given p delivers nothing and holds back what it needs.
HoldsBack(kind, p, m) ==
  \E q, n : /\ Ends(q, p) /\ n \in Memories
            /\ kind # "shadowsocks" => q = p
            /\ \A f, x : IsList(f) =>
                 Drain(kind, Dec(p, m, f, x)) = Dec(q, n, f, x)

\* The bytes e are read as these frames, and no less of them is.
Reads(kind, e, frames, m, n) ==
  /\ e \in Bytes /\ e # <<>> /\ m \in Memories /\ n \in Memories
  /\ \A f, x : IsList(f) =>
       Drain(kind, Dec(e, m, f, x)) = Dec(<<>>, n, f \o frames, x)
  /\ \A p : Before(p, e) => HoldsBack(kind, p, m)

\* What begins e1 and e2 together is less than e1, or goes on into e2.
BeginsOneOf(p, e1, e2) ==
  \/ Before(p, e1)
  \/ \E r : Begins(r, e2) /\ p = e1 \o r
\* The beginning of two pieces ends in the first or in the second.
LEMMA BeginsTwo ==
  ASSUME NEW e1 \in Bytes, NEW e2 \in Bytes, NEW p, Begins(p, e1 \o e2)
  PROVE  BeginsOneOf(p, e1, e2)
<1>. DEFINE e == e1 \o e2
<1>1. IsConcat(e, e1, e2) /\ Begins(p, e)
  BY ConcatIsConcat
<1>2. Len(e1) \in Nat /\ Len(e2) \in Nat /\ Len(e) = Len(e1) + Len(e2)
  BY <1>1, LenNat DEF IsConcat
<1>. HIDE DEF e
<1>3. p \in Bytes /\ Len(p) \in Nat /\ Len(p) <= Len(e)
  BY <1>1, LenNat DEF Begins
<1>4. \A i \in 1..Len(p) : e[i] = p[i]
  BY <1>1 DEF Before, Begins
<1>5. \A i \in 1..(Len(e1) + Len(e2)) :
        e[i] = IF i <= Len(e1) THEN e1[i] ELSE e2[i - Len(e1)]
  BY <1>1 DEF IsConcat
<1>6. CASE Len(p) < Len(e1)
  <2>1. \A i \in 1..Len(p) : e1[i] = p[i]
    BY <1>2, <1>3, <1>4, <1>5, <1>6
  <2>. QED
    BY <1>2, <1>3, <1>6, <2>1 DEF Before, Begins, BeginsOneOf
<1>7. CASE Len(e1) <= Len(p)
  <2>. DEFINE r == From(p, Len(e1))
  <2>1. Len(e1) \in 0..Len(p)
    BY <1>2, <1>3, <1>7
  <2>2. IsSlice(r, p, Len(e1), Len(p))
    BY <1>3, <2>1, FromIsSlice
  <2>. HIDE DEF r
  <2>3. r \in Bytes /\ Len(r) = Len(p) - Len(e1)
    BY <1>2, <1>3, <1>7, <2>2 DEF IsSlice
  <2>4. ASSUME NEW k \in 1..Len(r) PROVE r[k] = p[Len(e1) + k] /\ e2[k] = r[k]
    <3>. DEFINE j == Len(e1) + k
    <3>1. /\ k \in 1..(Len(p) - Len(e1)) /\ j \in 1..Len(p)
          /\ j \in 1..(Len(e1) + Len(e2)) /\ ~(j <= Len(e1)) /\ j - Len(e1) = k
      BY <1>2, <1>3, <2>3
    <3>2. r[k] = p[j]
      BY <2>2, <3>1 DEF IsSlice
    <3>. HIDE DEF j
    <3>3. e[j] = p[j]
      BY <1>4, <3>1
    <3>4. e[j] = e2[j - Len(e1)]
      BY <1>5, <3>1
    <3>. QED
      BY <3>1, <3>2, <3>3, <3>4 DEF j
  <2>5. Begins(r, e2)
    BY <1>2, <1>3, <2>3, <2>4 DEF Begins
  <2>. DEFINE c == e1 \o r
  <2>6. IsConcat(c, e1, r)
    BY <2>3, ConcatIsConcat
  <2>. HIDE DEF c
  <2>7. c \in Bytes /\ Len(c) = Len(p)
    BY <1>2, <1>3, <2>3, <2>6 DEF IsConcat
  <2>8. ASSUME NEW k \in 1..Len(p) PROVE p[k] = c[k]
    <3>1. c[k] = IF k <= Len(e1) THEN e1[k] ELSE r[k - Len(e1)]
      BY <1>2, <2>3, <2>6 DEF IsConcat
    <3>2. CASE k <= Len(e1)
      BY <1>2, <1>3, <1>4, <1>5, <1>7, <3>1, <3>2
    <3>3. CASE ~(k <= Len(e1))
      <4>1. k - Len(e1) \in 1..Len(r) /\ Len(e1) + (k - Len(e1)) = k
        BY <1>2, <1>3, <2>3, <3>3
      <4>. QED
        BY <2>4, <3>1, <3>3, <4>1
    <3>. QED
      BY <3>2, <3>3
  <2>9. p = c
    BY <1>3, <2>7, <2>8, BytesEqual
  <2>. QED
    BY <2>5, <2>9 DEF c, BeginsOneOf
<1>. QED
  BY <1>2, <1>3, <1>6, <1>7

\* The end of the second piece is the end of both.
LEMMA EndsOfTwo ==
  ASSUME NEW e \in Bytes, NEW r, NEW q, Ends(q, r)
  PROVE  Ends(q, e \o r)
<1>1. /\ r \in Bytes /\ q \in Bytes /\ Len(r) \in Nat /\ Len(q) \in Nat
      /\ Len(q) <= Len(r) /\ Len(e) \in Nat
  BY LenNat DEF Ends
<1>. DEFINE c == e \o r
<1>2. IsConcat(c, e, r)
  BY <1>1, ConcatIsConcat
<1>. HIDE DEF c
<1>3. c \in Bytes /\ Len(c) = Len(e) + Len(r)
  BY <1>2 DEF IsConcat
<1>4. ASSUME NEW k \in 1..Len(q) PROVE q[k] = c[Len(c) - Len(q) + k]
  <2>. DEFINE j == Len(c) - Len(q) + k
  <2>1. /\ j \in 1..(Len(e) + Len(r)) /\ ~(j <= Len(e))
        /\ j - Len(e) = Len(r) - Len(q) + k
    BY <1>1, <1>3
  <2>. HIDE DEF j
  <2>2. c[j] = r[j - Len(e)]
    BY <1>2, <2>1 DEF IsConcat
  <2>3. q[k] = r[Len(r) - Len(q) + k]
    BY DEF Ends
  <2>. QED
    BY <2>1, <2>2, <2>3 DEF j
<1>5. Ends(q, c)
  BY <1>1, <1>3, <1>4 DEF Ends
<1>. QED
  BY <1>5 DEF c

\* A string is its own end.
LEMMA EndsItself ==
  ASSUME NEW p \in Bytes
  PROVE  Ends(p, p)
<1>1. Len(p) \in Nat
  BY LenNat
<1>2. \A k \in 1..Len(p) : Len(p) - Len(p) + k = k
  BY <1>1
<1>. QED
  BY <1>1, <1>2 DEF Ends

(* A decoder that can take nothing stays as it is.                         *)
LEMMA RestDrains ==
  ASSUME NEW kind, NEW d, Len(d.buffer) \in Nat, Rests(kind, d)
  PROVE  Drain(kind, d) = d
<1>. DEFINE n == Len(d.buffer)
<1>1. PICK f : Taking(kind, d, f, n) /\ Drain(kind, d) = f[n]
  BY DrainTakes
<1>2. f[0] = d
  BY <1>1, TakingIs
<1>3. 0 \in 0..n /\ n \in 0..n
  OBVIOUS
<1>4. f[n] = f[0]
  BY <1>1, <1>2, <1>3, RestLasts
<1>. QED
  BY <1>1, <1>2, <1>4

\* A decoder whose head waits rests.
LEMMA HeadMoreRests ==
  ASSUME NEW kind, NEW b \in Bytes, NEW m, b = <<>> \/ Head1(kind, b, m).kind = "more"
  PROVE  \A f, x : Drain(kind, Dec(b, m, f, x)) = Dec(b, m, f, x)
<1>1. SUFFICES ASSUME NEW f, NEW x
               PROVE  Drain(kind, Dec(b, m, f, x)) = Dec(b, m, f, x)
  OBVIOUS
<1>. DEFINE d == Dec(b, m, f, x)
<1>2. Rests(kind, d)
  BY TakesNothing DEF Rests
<1>3. d.buffer = b /\ Len(b) \in Nat
  BY DecFields, LenNat
<1>. HIDE DEF d
<1>4. Drain(kind, d) = d
  BY <1>2, <1>3, RestDrains
<1>. QED
  BY <1>4 DEF d

\* A decoder whose head waits holds back all its bytes.
LEMMA WaitingHoldsBack ==
  ASSUME NEW kind, NEW p \in Bytes, NEW m \in Memories,
         p = <<>> \/ Head1(kind, p, m).kind = "more"
  PROVE  HoldsBack(kind, p, m)
<1>1. \A f, x : Drain(kind, Dec(p, m, f, x)) = Dec(p, m, f, x)
  BY HeadMoreRests
<1>2. Ends(p, p)
  BY EndsItself
<1>. QED
  BY <1>1, <1>2 DEF HoldsBack

----------------------------------------------------------------------------
(* Units, one and one behind another.                                      *)

\* No bytes.
LEMMA EmptyBytes == <<>> \in Bytes /\ Len(<<>>) = 0
  BY EmptySeq DEF Bytes

\* Behind the end there is nothing.
LEMMA FromEnd ==
  ASSUME NEW e \in Bytes
  PROVE  From(e, Len(e)) = <<>>
<1>1. Len(e) \in Nat /\ Len(e) \in 0..Len(e)
  BY LenNat
<1>. DEFINE r == From(e, Len(e))
<1>2. r \in Bytes /\ Len(r) = Len(e) - Len(e)
  BY <1>1, FromConcat, EmptyBytes
<1>. HIDE DEF r
<1>3. Len(r) = 0
  BY <1>1, <1>2
<1>4. r = <<>>
  BY <1>2, <1>3, EmptySeq DEF Bytes
<1>. QED
  BY <1>4 DEF r

\* The whole buffer is one unit.
IsUnit(kind, e, frames, m, n) ==
  /\ e \in Bytes /\ e # <<>> /\ m \in Memories /\ n \in Memories
  /\ Head1(kind, e, m) = Took(Len(e), frames, n)

\* A unit drains to its frames and an empty buffer.
LEMMA UnitDrains ==
  ASSUME NEW kind \in Kinds, NEW e, NEW frames, NEW m, NEW n,
         IsUnit(kind, e, frames, m, n)
  PROVE  \A f, x : Drain(kind, Dec(e, m, f, x)) = Dec(<<>>, n, f \o frames, x)
<1>1. SUFFICES ASSUME NEW f, NEW x
               PROVE  Drain(kind, Dec(e, m, f, x)) = Dec(<<>>, n, f \o frames, x)
  OBVIOUS
<1>2. e \in Bytes /\ e # <<>> /\ m \in Memories /\ n \in Memories
      /\ Head1(kind, e, m) = Took(Len(e), frames, n)
  BY DEF IsUnit
<1>. DEFINE d == Dec(e, m, f, x)  g == f \o frames
<1>3. TakeOne(kind, d) = Dec(From(e, Len(e)), n, g, x)
  BY <1>2, TakesUnit
<1>4. From(e, Len(e)) = <<>>
  BY <1>2, FromEnd
<1>5. IsDecoder(d)
  BY <1>2, DecIsDecoder
<1>6. Drain(kind, Dec(<<>>, n, g, x)) = Dec(<<>>, n, g, x)
  BY EmptyBytes, HeadMoreRests
<1>. HIDE DEF d, g
<1>7. Drain(kind, TakeOne(kind, d)) = Drain(kind, d)
  BY <1>5, DrainAfterOne
<1>8. TakeOne(kind, d) = Dec(<<>>, n, g, x)
  BY <1>3, <1>4
<1>9. Drain(kind, d) = Dec(<<>>, n, g, x)
  BY <1>6, <1>7, <1>8
<1>. QED
  BY <1>9 DEF d, g

\* A unit is read however it is cut.
LEMMA UnitReads ==
  ASSUME NEW kind \in Kinds, NEW e, NEW frames, NEW m, NEW n,
         IsUnit(kind, e, frames, m, n)
  PROVE  Reads(kind, e, frames, m, n)
<1>1. e \in Bytes /\ e # <<>> /\ m \in Memories /\ n \in Memories
      /\ Head1(kind, e, m) = Took(Len(e), frames, n)
  BY DEF IsUnit
<1>2. ASSUME NEW p, Before(p, e)
      PROVE  HoldsBack(kind, p, m)
  <2>1. Begins(p, e) /\ Len(p) < Len(e) /\ p \in Bytes
    BY <1>2 DEF Before, Begins
  <2>2. Len(p) \in Nat /\ Len(e) \in Nat
    BY <1>1, <2>1, LenNat
  <2>3. CASE p = <<>>
    BY <1>1, <2>1, <2>3, WaitingHoldsBack
  <2>4. CASE p # <<>>
    <3>. DEFINE h == Head1(kind, p, m)  g == Head1(kind, e, m)
    <3>1. Settled(h, g, p)
      BY <1>1, <2>1, <2>4, HeadStands
    <3>2. g.kind = "took" /\ g.bytes = Len(e) /\ Invalid.kind = "invalid"
      BY <1>1, KindsDiffer
    <3>. HIDE DEF h, g
    <3>3. h.kind = "more"
      <4>1. SUFFICES ASSUME h.kind # "more" PROVE FALSE
        OBVIOUS
      <4>2. Final(h, p) /\ g = h
        BY <3>1, <4>1 DEF Settled
      <4>3. h # Invalid
        BY <3>2, <4>2
      <4>4. PICK l \in 1..Len(p) : \E memory \in Memories : \E fs :
              h = Took(l, fs, memory)
        BY <4>2, <4>3 DEF Final
      <4>5. h.bytes = l
        BY <4>4, KindsDiffer
      <4>. QED
        BY <2>1, <2>2, <3>2, <4>2, <4>4, <4>5
    <3>. QED
      BY <1>1, <2>1, <3>3, WaitingHoldsBack DEF h
  <2>. QED
    BY <2>3, <2>4
<1>. QED
  BY <1>1, <1>2, UnitDrains DEF Reads

(* Draining what is behind bytes that are read.                            *)
LEMMA DrainBehind ==
  ASSUME NEW kind \in Kinds, NEW e, NEW frames, NEW m, NEW n,
         Reads(kind, e, frames, m, n), NEW y \in Bytes, NEW f, IsList(f)
  PROVE  \A x : Drain(kind, Dec(e \o y, m, f, x)) =
                  Drain(kind, Dec(y, n, f \o frames, x))
<1>1. SUFFICES ASSUME NEW x
               PROVE  Drain(kind, Dec(e \o y, m, f, x)) =
                        Drain(kind, Dec(y, n, f \o frames, x))
  OBVIOUS
<1>. DEFINE d == Dec(e, m, f, x)  g == f \o frames  c == Dec(<<>>, n, g, x)
            z == <<>> \o y
<1>2. e \in Bytes /\ m \in Memories
  BY DEF Reads
<1>3. IsDecoder(d)
  BY <1>2, DecIsDecoder
<1>4. Plus(d, y) = Dec(e \o y, m, f, x)
  BY DecFields
<1>5. Plus(c, y) = Dec(z, n, g, x)
  <2>. DEFINE w == <<>>
  <2>. HIDE DEF w, g
  <2>1. Plus(Dec(w, n, g, x), y) = Dec(w \o y, n, g, x)
    BY DecFields
  <2>. QED
    BY <2>1, Zenon DEF w
<1>6. z = y
  BY ConcatEmptySeq DEF Bytes
<1>7. Drain(kind, d) = c
  BY DEF Reads
<1>. HIDE DEF d, g, c, z
<1>8. Drain(kind, Plus(Drain(kind, d), y)) = Drain(kind, Plus(d, y))
  BY <1>3, DrainOfPieces
<1>9. Plus(Drain(kind, d), y) = Dec(y, n, g, x)
  BY <1>5, <1>6, <1>7
<1>10. Drain(kind, Dec(y, n, g, x)) = Drain(kind, Dec(e \o y, m, f, x))
  BY <1>4, <1>8, <1>9
<1>. QED
  BY <1>10 DEF g

\* Nothing delivered leaves the list as it was.
LEMMA ListConcatEmpty ==
  ASSUME NEW f, IsList(f)
  PROVE  f \o <<>> = f
  BY ConcatEmptySeq DEF IsList

\* What takes units that deliver nothing before a frame reads the frame.
LEMMA HoldsBackBehind ==
  ASSUME NEW kind \in Kinds, NEW e, NEW m, NEW n,
         Reads(kind, e, <<>>, m, n), NEW r \in Bytes, kind = "shadowsocks",
         HoldsBack(kind, r, n)
  PROVE  HoldsBack(kind, e \o r, m)
<1>1. PICK q, l : /\ Ends(q, r) /\ l \in Memories
                  /\ \A f, x : IsList(f) =>
                       Drain(kind, Dec(r, n, f, x)) = Dec(q, l, f, x)
  BY DEF HoldsBack
<1>2. e \in Bytes
  BY DEF Reads
<1>3. Ends(q, e \o r)
  BY <1>1, <1>2, EndsOfTwo
<1>4. ASSUME NEW f, NEW x, IsList(f)
      PROVE  Drain(kind, Dec(e \o r, m, f, x)) = Dec(q, l, f, x)
  <2>. DEFINE none == <<>>
  <2>1. Reads(kind, e, none, m, n)
    OBVIOUS
  <2>. HIDE DEF none
  <2>2. Drain(kind, Dec(e \o r, m, f, x)) = Drain(kind, Dec(r, n, f \o none, x))
    BY <1>4, <2>1, DrainBehind
  <2>3. f \o none = f
    BY <1>4, ListConcatEmpty DEF none
  <2>. QED
    BY <1>1, <1>4, <2>2, <2>3
<1>. DEFINE p == e \o r
<1>5. Ends(q, p) /\ l \in Memories /\ kind = "shadowsocks"
      /\ \A f, x : IsList(f) => Drain(kind, Dec(p, m, f, x)) = Dec(q, l, f, x)
  BY <1>1, <1>3, <1>4
<1>. HIDE DEF p
<1>6. HoldsBack(kind, p, m)
  BY <1>5 DEF HoldsBack
<1>. QED
  BY <1>6 DEF p

\* A unit that delivers nothing and then one that does are read together.
LEMMA TwoRead ==
  ASSUME NEW kind \in Kinds, kind = "shadowsocks", NEW e1, NEW e2, NEW frames,
         NEW m, NEW n, NEW l,
         Reads(kind, e1, <<>>, m, n), Reads(kind, e2, frames, n, l)
  PROVE  Reads(kind, e1 \o e2, frames, m, l)
<1>1. /\ e1 \in Bytes /\ e1 # <<>> /\ m \in Memories
      /\ e2 \in Bytes /\ e2 # <<>> /\ n \in Memories /\ l \in Memories
  BY DEF Reads
<1>2. e1 \o e2 \in Bytes /\ e1 \o e2 # <<>>
  BY <1>1, ConcatProperties, ConcatEqualIffEmpty DEF Bytes
<1>3. ASSUME NEW f, NEW x, IsList(f)
      PROVE  Drain(kind, Dec(e1 \o e2, m, f, x)) = Dec(<<>>, l, f \o frames, x)
  <2>. DEFINE none == <<>>
  <2>1. Reads(kind, e1, none, m, n)
    OBVIOUS
  <2>. HIDE DEF none
  <2>2. Drain(kind, Dec(e1 \o e2, m, f, x)) = Drain(kind, Dec(e2, n, f \o none, x))
    BY <1>1, <1>3, <2>1, DrainBehind
  <2>3. f \o none = f
    BY <1>3, ListConcatEmpty DEF none
  <2>4. Drain(kind, Dec(e2, n, f, x)) = Dec(<<>>, l, f \o frames, x)
    BY <1>3 DEF Reads
  <2>. QED
    BY <2>2, <2>3, <2>4
<1>4. ASSUME NEW p, Before(p, e1 \o e2)
      PROVE  HoldsBack(kind, p, m)
  <2>1. CASE Before(p, e1)
    BY <2>1 DEF Reads
  <2>2. CASE \E r : Begins(r, e2) /\ p = e1 \o r
    <3>0. PICK r : Begins(r, e2) /\ p = e1 \o r
      BY <2>2
    <3>1. Before(r, e2) /\ p = e1 \o r
      <4>1. r \in Bytes /\ Len(p) < Len(e1 \o e2)
        BY <1>4, <3>0 DEF Before, Begins
      <4>2. Len(p) = Len(e1) + Len(r) /\ Len(e1 \o e2) = Len(e1) + Len(e2)
        BY <1>1, <3>0, <4>1, HasBehind
      <4>3. Len(e1) \in Nat /\ Len(e2) \in Nat /\ Len(r) \in Nat
        BY <1>1, <4>1, LenNat
      <4>. QED
        BY <3>0, <4>1, <4>2, <4>3 DEF Before
    <3>2. HoldsBack(kind, r, n) /\ r \in Bytes
      BY <3>1 DEF Reads, Before, Begins
    <3>. QED
      BY <3>1, <3>2, HoldsBackBehind
  <2>3. Begins(p, e1 \o e2)
    BY <1>4 DEF Before
  <2>4. BeginsOneOf(p, e1, e2)
    BY <1>1, <2>3, BeginsTwo
  <2>. QED
    BY <2>1, <2>2, <2>4 DEF BeginsOneOf
<1>. DEFINE e == e1 \o e2
<1>5. /\ \A f, x : IsList(f) =>
           Drain(kind, Dec(e, m, f, x)) = Dec(<<>>, l, f \o frames, x)
      /\ \A p : Before(p, e) => HoldsBack(kind, p, m)
      /\ e \in Bytes /\ e # <<>>
  BY <1>2, <1>3, <1>4
<1>. HIDE DEF e
<1>6. Reads(kind, e, frames, m, l)
  BY <1>1, <1>5 DEF Reads
<1>. QED
  BY <1>6 DEF e

----------------------------------------------------------------------------
(* Sequences of bytes one behind another.                                  *)

\* f tells what the first 1, ..., Len(s) of them are together.
Flattening(f, s) ==
  f = [i \in 1..Len(s) |-> IF i = 1 THEN s[i] ELSE f[i - 1] \o s[i]]

\* The pieces are put one behind the other.
LEMMA FlatteningIs ==
  ASSUME NEW f, NEW s, Flattening(f, s), Len(s) \in Nat \ {0}
  PROVE  /\ f[1] = s[1]
         /\ \A i \in Nat \ {0} : i + 1 <= Len(s) => f[i + 1] = f[i] \o s[i + 1]
<1>. DEFINE V(i) == IF i = 1 THEN s[i] ELSE f[i - 1] \o s[i]
<1>1. \A i \in 1..Len(s) : f[i] = V(i)
  BY DEF Flattening
<1>2. f[1] = s[1]
  BY <1>1
<1>3. ASSUME NEW i \in Nat \ {0}, i + 1 <= Len(s)
      PROVE  f[i + 1] = f[i] \o s[i + 1]
  <2>. DEFINE j == i + 1
  <2>1. j \in 1..Len(s) /\ j # 1 /\ j - 1 = i
    BY <1>3
  <2>. HIDE DEF j
  <2>2. f[j] = f[j - 1] \o s[j]
    BY <1>1, <2>1
  <2>. QED
    BY <2>1, <2>2 DEF j
<1>. QED
  BY <1>2, <1>3

\* Of the first n of s, if s is a function on 1..m with m >= n.
FlatteningTo(f, s, n) ==
  f = [i \in 1..n |-> IF i = 1 THEN s[i] ELSE f[i - 1] \o s[i]]

\* As many pieces as one likes can be put together.
LEMMA FlatteningExists ==
  ASSUME NEW s, NEW n \in Nat
  PROVE  \E f : FlatteningTo(f, s, n)
<1>. DEFINE S == {m \in Nat : \E f : FlatteningTo(f, s, m)}
<1>1. 0 \in S
  <2>. DEFINE f == [i \in 1..0 |-> 0]
  <2>1. f = [i \in 1..0 |-> IF i = 1 THEN s[i] ELSE f[i - 1] \o s[i]]
    OBVIOUS
  <2>2. FlatteningTo(f, s, 0)
    BY <2>1 DEF FlatteningTo
  <2>. QED
    BY <2>2
<1>2. ASSUME NEW m \in Nat, m \in S PROVE m + 1 \in S
  <2>1. PICK f : FlatteningTo(f, s, m)
    BY <1>2
  <2>. DEFINE g == [i \in 1..(m + 1) |->
                      IF i <= m THEN f[i]
                      ELSE IF i = 1 THEN s[i] ELSE f[m] \o s[i]]
  <2>2. \A i \in 1..m : f[i] = IF i = 1 THEN s[i] ELSE f[i - 1] \o s[i]
    BY <2>1 DEF FlatteningTo
  <2>3. ASSUME NEW i \in 1..(m + 1)
        PROVE  g[i] = IF i = 1 THEN s[i] ELSE g[i - 1] \o s[i]
    <3>1. CASE i = 1
      BY <2>2, <3>1
    <3>2. CASE i # 1 /\ i <= m
      <4>1. i \in 1..m /\ i - 1 \in 1..(m + 1) /\ i - 1 <= m
        BY <3>2
      <4>2. g[i] = f[i] /\ g[i - 1] = f[i - 1]
        BY <3>2, <4>1
      <4>3. f[i] = f[i - 1] \o s[i]
        BY <2>2, <3>2, <4>1
      <4>. HIDE DEF g
      <4>. QED
        BY <3>2, <4>2, <4>3
    <3>3. CASE i # 1 /\ i = m + 1
      <4>1. i - 1 = m /\ m \in 1..(m + 1) /\ ~(i <= m)
        BY <3>3
      <4>4. g[m] = f[m]
        BY <4>1
      <4>5. g[i] = IF i <= m THEN f[i]
                   ELSE IF i = 1 THEN s[i] ELSE f[m] \o s[i]
        OBVIOUS
      <4>. HIDE DEF g
      <4>2. g[i] = f[m] \o s[i] /\ g[m] = f[m]
        BY <3>3, <4>1, <4>4, <4>5
      <4>3. g[i - 1] = f[m]
        BY <4>1, <4>2
      <4>. QED
        BY <3>3, <4>2, <4>3
    <3>. QED
      BY <3>1, <3>2, <3>3
  <2>. DEFINE V(i) == IF i = 1 THEN s[i] ELSE g[i - 1] \o s[i]
  <2>4. g = [i \in 1..(m + 1) |-> g[i]]
    OBVIOUS
  <2>. HIDE DEF g
  <2>5. \A i \in 1..(m + 1) : g[i] = V(i)
    BY <2>3
  <2>. HIDE DEF V
  <2>6. g = [i \in 1..(m + 1) |-> V(i)]
    BY <2>4, <2>5
  <2>7. FlatteningTo(g, s, m + 1)
    BY <2>6 DEF FlatteningTo, V
  <2>. QED
    BY <2>7
<1>. HIDE DEF S
<1>3. Nat \subseteq S
  BY <1>1, <1>2, Inductive
<1>. QED
  BY <1>3 DEF S

\* FlattenSeq puts all pieces together, from the first to the last.
LEMMA FlattenSeqIs ==
  ASSUME NEW s, Len(s) \in Nat \ {0}
  PROVE  \E f : Flattening(f, s) /\ FlattenSeq(s) = f[Len(s)]
<1>. DEFINE f == CHOOSE g : Flattening(g, s)
<1>1. FlattenSeq(s) = f[Len(s)]
  BY DEF FlattenSeq, Flattening
<1>2. \E g : Flattening(g, s)
  BY FlatteningExists DEF FlatteningTo, Flattening
<1>. QED
  BY <1>1, <1>2

\* The first k of s, together.
Flat(s, k) == FlattenSeq(SubSeq(s, 1, k))

\* The first pieces of a list.
LEMMA FirstOf1 ==
  ASSUME NEW S, NEW s \in Seq(S), NEW k \in 0..Len(s)
  PROVE  /\ SubSeq(s, 1, k) \in Seq(S) /\ Len(SubSeq(s, 1, k)) = k
         /\ \A i \in 1..k : SubSeq(s, 1, k)[i] = s[i]
<1>1. Len(s) \in Nat /\ k \in Nat
  BY LenProperties
<1>2. \A i \in 1..k : s[i] \in S
  BY <1>1, ElementOfSeq
<1>. DEFINE t == SubSeq(s, 1, k)
<1>3. /\ t \in Seq(S) /\ Len(t) = IF 1 <= k THEN k - 1 + 1 ELSE 0
      /\ \A i \in 1..(k - 1 + 1) : t[i] = s[1 + i - 1]
  BY <1>1, <1>2, SubSeqProperties
<1>. HIDE DEF t
<1>4. \A i \in 1..k : t[i] = s[i]
  <2>1. SUFFICES ASSUME NEW i \in 1..k PROVE t[i] = s[i]
    OBVIOUS
  <2>2. i \in 1..(k - 1 + 1) /\ 1 + i - 1 = i
    BY <1>1
  <2>. QED
    BY <1>3, <2>2
<1>5. t \in Seq(S) /\ Len(t) = k
  BY <1>1, <1>3
<1>. QED
  BY <1>4, <1>5 DEF t

(* The first k of s are what any function that tells it for s says.        *)
LEMMA FlatIs ==
  ASSUME NEW S, NEW s \in Seq(S), NEW f, NEW n \in 1..Len(s),
         FlatteningTo(f, s, n)
  PROVE  \A k \in 1..n : Flat(s, k) = f[k]
<1>1. SUFFICES ASSUME NEW k \in 1..n PROVE Flat(s, k) = f[k]
  OBVIOUS
<1>. DEFINE t == SubSeq(s, 1, k)
<1>2. Len(s) \in Nat
  BY LenProperties
<1>3. t \in Seq(S) /\ Len(t) = k /\ \A i \in 1..k : t[i] = s[i]
  <2>1. k \in 0..Len(s)
    BY <1>2
  <2>. QED
    BY <2>1, FirstOf1
<1>. HIDE DEF t
<1>4. PICK g : Flattening(g, t) /\ FlattenSeq(t) = g[Len(t)]
  <2>1. Len(t) \in Nat \ {0}
    BY <1>2, <1>3
  <2>. QED
    BY <2>1, FlattenSeqIs
<1>5. \A i \in 1..k : g[i] = IF i = 1 THEN t[i] ELSE g[i - 1] \o t[i]
  BY <1>3, <1>4 DEF Flattening
<1>6. \A i \in 1..n : f[i] = IF i = 1 THEN s[i] ELSE f[i - 1] \o s[i]
  BY DEF FlatteningTo
<1>. DEFINE T == {i \in Nat : i \in 1..k => g[i] = f[i]}
<1>7. 0 \in T
  OBVIOUS
<1>8. ASSUME NEW i \in Nat, i \in T PROVE i + 1 \in T
  <2>1. SUFFICES ASSUME i + 1 \in 1..k PROVE g[i + 1] = f[i + 1]
    OBVIOUS
  <2>. DEFINE j == i + 1
  <2>2. j \in 1..k /\ j \in 1..n /\ j - 1 = i /\ (j # 1 => i \in 1..k)
    BY <1>2, <2>1
  <2>. HIDE DEF j
  <2>3. g[j] = IF j = 1 THEN t[j] ELSE g[i] \o t[j]
    BY <1>5, <2>2
  <2>4. f[j] = IF j = 1 THEN s[j] ELSE f[i] \o s[j]
    BY <1>6, <2>2
  <2>5. j # 1 => g[i] = f[i]
    BY <1>8, <2>2
  <2>6. t[j] = s[j]
    BY <1>3, <2>2
  <2>7. g[j] = f[j]
    BY ONLY <2>3, <2>4, <2>5, <2>6
  <2>. QED
    BY <2>7 DEF j
<1>. HIDE DEF T
<1>9. Nat \subseteq T
  BY <1>7, <1>8, Inductive
<1>10. g[k] = f[k]
  BY <1>2, <1>9 DEF T
<1>. QED
  BY <1>3, <1>4, <1>10 DEF Flat, t

\* No pieces make no bytes.
LEMMA FlatNone ==
  ASSUME NEW S, NEW s \in Seq(S)
  PROVE  Flat(s, 0) = <<>>
<1>. DEFINE t == SubSeq(s, 1, 0)
<1>1. Len(s) \in Nat
  BY LenProperties
<1>2. t \in Seq(S) /\ Len(t) = 0
  BY <1>1, FirstOf1
<1>. HIDE DEF t
<1>3. t = <<>>
  BY <1>2, EmptySeq
<1>4. FlattenSeq(t) = t
  BY <1>2 DEF FlattenSeq
<1>. QED
  BY <1>3, <1>4 DEF Flat, t

\* One piece more is put behind.
LEMMA FlatMore ==
  ASSUME NEW S, NEW s \in Seq(S), NEW k \in Nat, k + 1 <= Len(s),
         s[k + 1] \in Bytes
  PROVE  Flat(s, k + 1) = Flat(s, k) \o s[k + 1]
<1>1. Len(s) \in Nat
  BY LenProperties
<1>2. PICK f : FlatteningTo(f, s, Len(s))
  BY <1>1, FlatteningExists
<1>3. \A i \in 1..Len(s) : Flat(s, i) = f[i]
  <2>1. Len(s) \in 1..Len(s)
    BY <1>1
  <2>. QED
    BY <1>2, <2>1, FlatIs
<1>4. \A i \in 1..Len(s) : f[i] = IF i = 1 THEN s[i] ELSE f[i - 1] \o s[i]
  BY <1>2 DEF FlatteningTo
<1>. DEFINE j == k + 1
<1>5. j \in 1..Len(s) /\ j - 1 = k /\ (j # 1 => k \in 1..Len(s)) /\ (j = 1 => k = 0)
  BY <1>1
<1>. HIDE DEF j
<1>6. Flat(s, j) = IF j = 1 THEN s[j] ELSE f[k] \o s[j]
  BY <1>3, <1>4, <1>5
<1>7. CASE j = 1
  <2>1. Flat(s, k) = <<>>
    BY <1>5, <1>7, FlatNone
  <2>2. <<>> \o s[j] = s[j]
    BY ConcatEmptySeq DEF j, Bytes
  <2>. QED
    BY <1>6, <1>7, <2>1, <2>2, Zenon DEF j
<1>8. CASE j # 1
  BY <1>3, <1>5, <1>6, <1>8 DEF j
<1>. QED
  BY <1>7, <1>8

\* All the pieces make the whole stream.
LEMMA FlatAll ==
  ASSUME NEW S, NEW s \in Seq(S)
  PROVE  Flat(s, Len(s)) = FlattenSeq(s)
<1>1. Len(s) \in Nat
  BY LenProperties
<1>. DEFINE t == SubSeq(s, 1, Len(s))
<1>2. t \in Seq(S) /\ Len(t) = Len(s) /\ \A i \in 1..Len(s) : t[i] = s[i]
  BY <1>1, FirstOf1
<1>. HIDE DEF t
<1>3. t = s
  BY <1>2, SeqEqual
<1>. QED
  BY <1>3 DEF Flat, t

----------------------------------------------------------------------------
(* A stream of frames.                                                     *)

\* Frames in bytes, none of them empty.
IsStream(es) == es \in Seq(Bytes) /\ \A i \in 1..Len(es) : es[i] # <<>>

\* Every piece of a stream has bytes.
LEMMA StreamIs ==
  ASSUME NEW es, IsStream(es)
  PROVE  /\ es \in Seq(Bytes) /\ Len(es) \in Nat
         /\ \A i \in 1..Len(es) : es[i] \in Bytes /\ Len(es[i]) \in Nat \ {0}
<1>1. es \in Seq(Bytes) /\ Len(es) \in Nat
  BY LenProperties DEF IsStream
<1>2. ASSUME NEW i \in 1..Len(es) PROVE es[i] \in Bytes /\ Len(es[i]) \in Nat \ {0}
  <2>1. es[i] \in Bytes /\ es[i] # <<>>
    BY <1>1, ElementOfSeq DEF IsStream
  <2>. QED
    BY <2>1, EmptySeq DEF Bytes
<1>. QED
  BY <1>1, <1>2

\* The same for a stream.
LEMMA FlatStep ==
  ASSUME NEW es, IsStream(es), NEW k \in Nat, k + 1 <= Len(es)
  PROVE  /\ Flat(es, k + 1) = Flat(es, k) \o es[k + 1]
         /\ es[k + 1] \in Bytes /\ Len(es[k + 1]) \in Nat \ {0}
<1>1. /\ es \in Seq(Bytes) /\ Len(es) \in Nat
      /\ \A i \in 1..Len(es) : es[i] \in Bytes /\ Len(es[i]) \in Nat \ {0}
  BY StreamIs
<1>2. k + 1 \in 1..Len(es)
  BY <1>1
<1>. QED
  BY <1>1, <1>2, FlatMore

\* The first pieces are bytes.
LEMMA FlatBytes ==
  ASSUME NEW es, IsStream(es)
  PROVE  \A k \in 0..Len(es) : Flat(es, k) \in Bytes /\ Len(Flat(es, k)) \in Nat
<1>0. es \in Seq(Bytes) /\ Len(es) \in Nat
  BY StreamIs
<1>. DEFINE S == {k \in Nat : k <= Len(es) => Flat(es, k) \in Bytes}
<1>1. 0 \in S
  BY <1>0, FlatNone, EmptyBytes
<1>2. ASSUME NEW k \in Nat, k \in S PROVE k + 1 \in S
  <2>1. SUFFICES ASSUME k + 1 <= Len(es) PROVE Flat(es, k + 1) \in Bytes
    OBVIOUS
  <2>2. Flat(es, k) \in Bytes
    BY <1>0, <1>2, <2>1
  <2>3. Flat(es, k + 1) = Flat(es, k) \o es[k + 1] /\ es[k + 1] \in Bytes
    BY <2>1, FlatStep
  <2>4. \A a, c \in Bytes : a \o c \in Bytes
    BY ConcatProperties DEF Bytes
  <2>. QED
    BY ONLY <2>2, <2>3, <2>4, Zenon
<1>. HIDE DEF S
<1>3. Nat \subseteq S
  BY <1>1, <1>2, Inductive
<1>4. \A k \in 0..Len(es) : Flat(es, k) \in Bytes
  BY <1>0, <1>3 DEF S
<1>. QED
  BY <1>4, LenNat

\* Every frame makes the stream longer,
LEMMA FlatGrows ==
  ASSUME NEW es, IsStream(es), NEW k \in Nat, k + 1 <= Len(es)
  PROVE  Len(Flat(es, k + 1)) = Len(Flat(es, k)) + Len(es[k + 1])
<1>1. k \in 0..Len(es)
  BY StreamIs
<1>2. Flat(es, k) \in Bytes
  BY <1>1, FlatBytes
<1>3. Flat(es, k + 1) = Flat(es, k) \o es[k + 1] /\ es[k + 1] \in Bytes
  BY FlatStep
<1>. QED
  BY <1>2, <1>3, HasBehind

\* so that frames end one after the other.
LEMMA FlatMonotonic ==
  ASSUME NEW es, IsStream(es), NEW i \in Nat
  PROVE  \A j \in Nat : i <= j /\ j <= Len(es) =>
           Len(Flat(es, i)) <= Len(Flat(es, j))
<1>. DEFINE L(k) == Len(Flat(es, k))
            S == {j \in Nat : i <= j /\ j <= Len(es) => L(i) <= L(j)}
<1>0. Len(es) \in Nat /\ \A k \in 0..Len(es) : L(k) \in Nat
  BY StreamIs, FlatBytes
<1>4. ASSUME NEW k \in Nat, k + 1 <= Len(es) PROVE L(k) <= L(k + 1)
  <2>1. L(k + 1) = L(k) + Len(es[k + 1]) /\ Len(es[k + 1]) \in Nat
    BY <1>4, FlatGrows, FlatStep
  <2>2. L(k) \in Nat
    BY <1>0, <1>4
  <2>. QED
    BY <2>1, <2>2
<1>. HIDE DEF L
<1>1. 0 \in S
  BY <1>0
<1>2. ASSUME NEW j \in Nat, j \in S PROVE j + 1 \in S
  <2>1. SUFFICES ASSUME i <= j + 1, j + 1 <= Len(es) PROVE L(i) <= L(j + 1)
    OBVIOUS
  <2>2. L(i) \in Nat /\ L(j) \in Nat /\ L(j + 1) \in Nat
    BY <1>0, <2>1
  <2>3. L(j) <= L(j + 1)
    BY <1>4, <2>1
  <2>4. i = j + 1 \/ L(i) <= L(j)
    BY <1>0, <1>2, <2>1
  <2>. QED
    BY <2>2, <2>3, <2>4
<1>. HIDE DEF S
<1>3. Nat \subseteq S
  BY <1>1, <1>2, Inductive
<1>. QED
  BY <1>3 DEF S, L

\* p ends within frame c + 1, with r.
EndsWithin(p, es, c, r) ==
  c + 1 <= Len(es) /\ Before(r, es[c + 1]) /\ p = Flat(es, c) \o r

(* What begins a stream ends within one of its frames or behind all.       *)
LEMMA BeginsStream ==
  ASSUME NEW es, IsStream(es)
  PROVE  \A k \in 0..Len(es) : \A y \in Bytes : \A p :
           Begins(p, Flat(es, k) \o y) =>
             \/ \E c \in Nat : \E r : EndsWithin(p, es, c, r)
             \/ \E r : Begins(r, y) /\ p = Flat(es, k) \o r
<1>. DEFINE W(p) == \E c \in Nat : \E r : EndsWithin(p, es, c, r)
            E(p, k, y) == \E r : Begins(r, y) /\ p = Flat(es, k) \o r
            S == {k \in Nat : k <= Len(es) =>
                    \A y \in Bytes : \A p :
                      Begins(p, Flat(es, k) \o y) => W(p) \/ E(p, k, y)}
<1>0. es \in Seq(Bytes) /\ Len(es) \in Nat
  BY StreamIs
<1>1. 0 \in S
  <2>1. SUFFICES ASSUME NEW y \in Bytes, NEW p, Begins(p, Flat(es, 0) \o y)
                 PROVE  E(p, 0, y)
    OBVIOUS
  <2>2. Flat(es, 0) = <<>>
    BY <1>0, FlatNone
  <2>3. p \in Bytes
    BY <2>1 DEF Begins
  <2>4. \A z \in Bytes : Flat(es, 0) \o z = z
    BY <2>2, ConcatEmptySeq DEF Bytes
  <2>5. Begins(p, y) /\ p = Flat(es, 0) \o p
    BY <2>1, <2>3, <2>4, Zenon
  <2>. QED
    BY <2>5
<1>2. ASSUME NEW k \in Nat, k \in S PROVE k + 1 \in S
  <2>1. SUFFICES ASSUME k + 1 <= Len(es), NEW y \in Bytes, NEW p,
                        Begins(p, Flat(es, k + 1) \o y)
                 PROVE  W(p) \/ E(p, k + 1, y)
    OBVIOUS
  <2>. DEFINE a == Flat(es, k)  e == es[k + 1]  l == Flat(es, k + 1)
  <2>2. l = a \o e /\ e \in Bytes
    BY <2>1, FlatStep
  <2>3. a \in Bytes
    BY <1>0, <2>1, FlatBytes
  <2>. HIDE DEF a, e, l
  <2>4. \A z \in Bytes : l \o z = a \o (e \o z) /\ e \o z \in Bytes
    BY <2>2, <2>3, ConcatAssociative, ConcatProperties DEF Bytes
  <2>5. Begins(p, a \o (e \o y)) /\ e \o y \in Bytes
    BY <2>1, <2>4 DEF l
  <2>6. W(p) \/ E(p, k, e \o y)
    BY <1>0, <1>2, <2>1, <2>5 DEF a
  <2>. HIDE DEF W
  <2>7. CASE E(p, k, e \o y)
    <3>1. PICK r : Begins(r, e \o y) /\ p = a \o r
      BY <2>7 DEF a
    <3>2. CASE Before(r, e)
      <4>1. EndsWithin(p, es, k, r)
        BY <2>1, <3>1, <3>2 DEF EndsWithin, a, e
      <4>. QED
        BY <4>1 DEF W
    <3>3. CASE \E q : Begins(q, y) /\ r = e \o q
      <4>1. PICK q : Begins(q, y) /\ r = e \o q
        BY <3>3
      <4>2. q \in Bytes
        BY <4>1 DEF Begins
      <4>3. p = l \o q
        BY <2>4, <3>1, <4>1, <4>2
      <4>. QED
        BY <4>1, <4>3 DEF l
    <3>4. Before(r, e) \/ \E q : Begins(q, y) /\ r = e \o q
      <4>1. BeginsOneOf(r, e, y)
        BY <2>2, <3>1, BeginsTwo
      <4>. QED
        BY <4>1 DEF BeginsOneOf
    <3>. QED
      BY <3>2, <3>3, <3>4
  <2>. QED
    BY <2>6, <2>7
<1>. HIDE DEF S
<1>3. Nat \subseteq S
  BY <1>1, <1>2, Inductive
<1>. QED
  BY <1>0, <1>3 DEF S

----------------------------------------------------------------------------
(* What a decoder makes of a stream.                                       *)

\* Each frame of s is read, by a decoder that has read those before it.
FramesRead(s) ==
  \A i \in DOMAIN s.frames :
    Reads(s.kind, Encode(s.kind, s.frames, i),
          <<Delivered(s.kind, s.frames[i], i)>>,
          MemoryAfter(s.kind, i - 1), MemoryAfter(s.kind, i))

Deliveries(s, c) == [i \in 1..c |-> Delivered(s.kind, s.frames[i], i)]

\* One frame more is delivered behind the others.
LEMMA DeliveriesGrow ==
  ASSUME NEW s, NEW c \in Nat
  PROVE  /\ IsList(Deliveries(s, c))
         /\ Deliveries(s, c + 1) =
              Deliveries(s, c) \o <<Delivered(s.kind, s.frames[c + 1], c + 1)>>
<1>. DEFINE D(i) == Delivered(s.kind, s.frames[i], i)
            S == {D(i) : i \in Nat}
            f == Deliveries(s, c)  g == Deliveries(s, c + 1)  l == <<D(c + 1)>>
<1>1. f = [i \in 1..c |-> D(i)] /\ g = [i \in 1..(c + 1) |-> D(i)]
  BY DEF Deliveries
<1>2. \A i \in Nat : D(i) \in S
  OBVIOUS
<1>. HIDE DEF D, S, f, g, l
<1>3. f \in Seq(S) /\ Len(f) = c
  <2>1. f \in [1..c -> S]
    BY <1>1, <1>2
  <2>. QED
    BY <2>1, SeqDef
<1>4. g \in Seq(S) /\ Len(g) = c + 1
  <2>1. g \in [1..(c + 1) -> S] /\ c + 1 \in Nat
    BY <1>1, <1>2
  <2>. QED
    BY <2>1, SeqDef
<1>5. l \in Seq(S) /\ Len(l) = 1 /\ l[1] = D(c + 1)
  BY <1>2 DEF l
<1>. DEFINE h == f \o l
<1>6. /\ h \in Seq(S) /\ Len(h) = c + 1
      /\ \A i \in 1..(c + 1) : h[i] = IF i <= c THEN f[i] ELSE l[i - c]
  <2>1. /\ h \in Seq(S) /\ Len(h) = Len(f) + Len(l)
        /\ \A i \in 1..(Len(f) + Len(l)) :
             h[i] = IF i <= Len(f) THEN f[i] ELSE l[i - Len(f)]
    BY <1>3, <1>5, ConcatProperties
  <2>. HIDE DEF h
  <2>. QED
    BY <1>3, <1>5, <2>1
<1>. HIDE DEF h
<1>7. ASSUME NEW i \in 1..(c + 1) PROVE g[i] = h[i]
  <2>1. g[i] = D(i)
    BY <1>1
  <2>2. CASE i <= c
    BY <1>1, <1>6, <2>1, <2>2
  <2>3. CASE i = c + 1
    <3>1. ~(i <= c) /\ i - c = 1
      BY <2>3
    <3>2. h[i] = l[1]
      BY <1>6, <3>1
    <3>. QED
      BY <1>5, <2>1, <2>3, <3>2
  <2>. QED
    BY <2>2, <2>3
<1>8. g = h
  BY <1>4, <1>6, <1>7, SeqEqual
<1>9. IsList(f)
  BY <1>3 DEF IsList
<1>. QED
  BY <1>8, <1>9 DEF f, g, h, l, D

\* Of no frames nothing is delivered.
LEMMA NothingDelivered ==
  ASSUME NEW s
  PROVE  Deliveries(s, 0) = <<>>
<1>1. \A i \in 1..0 : FALSE
  OBVIOUS
<1>. QED
  BY <1>1 DEF Deliveries

\* The encoded frames are a stream.
LEMMA EncodedIsStream ==
  ASSUME NEW s, IsSample(s), FramesRead(s)
  PROVE  /\ IsStream(Encoded(s)) /\ s.kind \in Kinds
         /\ Len(s.frames) \in Nat /\ DOMAIN s.frames = 1..Len(s.frames)
         /\ Len(Encoded(s)) = Len(s.frames)
         /\ \A i \in 1..Len(s.frames) :
              Encoded(s)[i] = Encode(s.kind, s.frames, i)
<1>. DEFINE n == Len(s.frames)  es == Encoded(s)
<1>1. n \in Nat /\ DOMAIN s.frames = 1..n /\ s.kind \in Kinds
  <2>1. s.frames \in Seq(ToSet(s.frames)) /\ s.kind \in Kinds
    BY DEF IsSample, Kinds
  <2>. QED
    BY <2>1, LenProperties
<1>2. es = [i \in 1..n |-> Encode(s.kind, s.frames, i)]
  BY <1>1 DEF Encoded
<1>3. \A i \in 1..n : /\ Encode(s.kind, s.frames, i) \in Bytes
                      /\ Encode(s.kind, s.frames, i) # <<>>
  BY <1>1 DEF FramesRead, Reads
<1>. HIDE DEF n, es
<1>4. es \in Seq(Bytes) /\ Len(es) = n
  <2>1. es \in [1..n -> Bytes]
    BY <1>2, <1>3
  <2>. QED
    BY <1>1, <2>1, SeqDef
<1>5. \A i \in 1..n : es[i] = Encode(s.kind, s.frames, i)
  BY <1>2
<1>6. IsStream(es)
  BY <1>3, <1>4, <1>5 DEF IsStream
<1>. QED
  BY <1>1, <1>4, <1>5, <1>6 DEF n, es

(* The first frames of a stream are delivered, and the decoder goes on     *)
(* behind them.                                                            *)
LEMMA DrainStream ==
  ASSUME NEW s, IsSample(s), FramesRead(s), NEW x
  PROVE  \A c \in 0..Len(s.frames) : \A y \in Bytes :
           Drain(s.kind, Dec(Flat(Encoded(s), c) \o y,
                             MemoryAfter(s.kind, 0), <<>>, x)) =
           Drain(s.kind, Dec(y, MemoryAfter(s.kind, c), Deliveries(s, c), x))
<1>. DEFINE kind == s.kind  es == Encoded(s)  n == Len(s.frames)
            M(c) == MemoryAfter(kind, c)
            Left(c, y) == Drain(kind, Dec(Flat(es, c) \o y, M(0), <<>>, x))
            Right(c, y) == Drain(kind, Dec(y, M(c), Deliveries(s, c), x))
            S == {c \in Nat : c <= n => \A y \in Bytes : Left(c, y) = Right(c, y)}
<1>1. /\ IsStream(es) /\ kind \in Kinds /\ n \in Nat /\ DOMAIN s.frames = 1..n
      /\ Len(es) = n /\ \A i \in 1..n : es[i] = Encode(kind, s.frames, i)
  BY EncodedIsStream
<1>2. es \in Seq(Bytes)
  BY <1>1 DEF IsStream
<1>3. \A i \in 1..n : Reads(kind, es[i], <<Delivered(kind, s.frames[i], i)>>,
                            M(i - 1), M(i))
  BY <1>1 DEF FramesRead
<1>. HIDE DEF es, n
<1>4. 0 \in S
  <2>1. SUFFICES ASSUME NEW y \in Bytes PROVE Left(0, y) = Right(0, y)
    OBVIOUS
  <2>. DEFINE none == <<>>  z == Flat(es, 0) \o y
  <2>2. Flat(es, 0) = none /\ Deliveries(s, 0) = none
    BY <1>2, FlatNone, NothingDelivered
  <2>3. none \o y = y
    BY ConcatEmptySeq DEF Bytes
  <2>4. Left(0, y) = Drain(kind, Dec(z, M(0), none, x))
    OBVIOUS
  <2>. HIDE DEF none, M, Left, kind
  <2>5. z = y
    BY ONLY <2>2, <2>3, Zenon DEF z
  <2>. HIDE DEF z
  <2>6. Left(0, y) = Drain(kind, Dec(y, M(0), Deliveries(s, 0), x))
    BY ONLY <2>2, <2>4, <2>5, Zenon
  <2>. QED
    BY <2>6
<1>5. ASSUME NEW c \in Nat, c \in S PROVE c + 1 \in S
  <2>1. SUFFICES ASSUME c + 1 <= n, NEW y \in Bytes PROVE Left(c + 1, y) = Right(c + 1, y)
    OBVIOUS
  <2>. DEFINE a == Flat(es, c)  e == es[c + 1]  l == Flat(es, c + 1)
              d == Delivered(kind, s.frames[c + 1], c + 1)
              f == Deliveries(s, c)  g == Deliveries(s, c + 1)
  <2>2. l = a \o e /\ e \in Bytes /\ a \in Bytes
    <3>1. c + 1 <= Len(es) /\ c \in 0..Len(es)
      BY <1>1, <2>1
    <3>. QED
      BY <1>1, <3>1, FlatStep, FlatBytes
  <2>3. g = f \o <<d>> /\ IsList(f)
    BY DeliveriesGrow
  <2>4. Reads(kind, e, <<d>>, M(c), M(c + 1))
    <3>1. c + 1 \in 1..n /\ (c + 1) - 1 = c
      BY <1>1, <2>1
    <3>2. Reads(kind, e, <<d>>, M((c + 1) - 1), M(c + 1))
      BY <1>3, <3>1
    <3>. QED
      BY <3>1, <3>2
  <2>5. Left(c + 1, y) = Drain(kind, Dec(l \o y, M(0), <<>>, x))
    OBVIOUS
  <2>6. Left(c, e \o y) = Drain(kind, Dec(a \o (e \o y), M(0), <<>>, x))
    OBVIOUS
  <2>7. Right(c, e \o y) = Drain(kind, Dec(e \o y, M(c), f, x))
    OBVIOUS
  <2>8. Right(c + 1, y) = Drain(kind, Dec(y, M(c + 1), g, x))
    OBVIOUS
  <2>9. e \o y \in Bytes => Left(c, e \o y) = Right(c, e \o y)
    BY <1>1, <1>5, <2>1
  <2>. HIDE DEF a, e, l, d, f, g, Left, Right, M, kind
  <2>10. l \o y = a \o (e \o y) /\ e \o y \in Bytes
    BY <2>2, ConcatAssociative, ConcatProperties DEF Bytes
  <2>11. Drain(kind, Dec(e \o y, M(c), f, x)) =
           Drain(kind, Dec(y, M(c + 1), f \o <<d>>, x))
    BY <1>1, <2>3, <2>4, DrainBehind
  <2>12. Left(c + 1, y) = Left(c, e \o y)
    BY ONLY <2>5, <2>6, <2>10, Zenon
  <2>13. Right(c, e \o y) = Right(c + 1, y)
    BY ONLY <2>3, <2>7, <2>8, <2>11, Zenon
  <2>. QED
    BY ONLY <2>9, <2>10, <2>12, <2>13, Zenon
<1>. HIDE DEF S
<1>6. Nat \subseteq S
  BY <1>4, <1>5, Inductive
<1>. QED
  BY <1>1, <1>6 DEF S, es, n

----------------------------------------------------------------------------
(* However the bytes come.                                                 *)

\* The incomplete frame behind the whole ones is held back.
LEMMA RestHoldsBack ==
  ASSUME NEW s, IsSample(s), NEW r, Begins(r, s.rest),
         MemoryAfter(s.kind, Len(s.frames)) \in Memories
  PROVE  HoldsBack(s.kind, r, MemoryAfter(s.kind, Len(s.frames)))
<1>. DEFINE m == MemoryAfter(s.kind, Len(s.frames))
<1>1. s.kind \in Kinds /\ s.rest \in Bytes
      /\ (s.rest # <<>> => Head1(s.kind, s.rest, m) = More)
  <2>1. s.rest \in Seq(Byte) /\ Byte \subseteq Nat
    BY DEF IsSample, Byte
  <2>2. s.rest \in Bytes
    BY <2>1, SeqMonotonic DEF Bytes
  <2>. QED
    BY <2>2 DEF IsSample, Kinds
<1>2. r \in Bytes /\ Len(r) \in Nat /\ Len(r) <= Len(s.rest) /\ Len(s.rest) \in Nat
  BY <1>1, LenNat DEF Begins
<1>3. CASE r = <<>>
  BY <1>2, <1>3, WaitingHoldsBack
<1>4. CASE r # <<>>
  <2>1. s.rest # <<>>
    <3>1. Len(r) # 0
      BY <1>2, <1>4, EmptySeq DEF Bytes
    <3>. QED
      BY <1>2, <3>1, EmptyBytes
  <2>. DEFINE h == Head1(s.kind, r, m)  g == Head1(s.kind, s.rest, m)
  <2>2. Settled(h, g, r)
    BY <1>1, <1>4, HeadStands
  <2>3. g.kind = "more"
    BY <1>1, <2>1, KindsDiffer
  <2>. HIDE DEF h, g
  <2>4. h.kind = "more"
    BY <2>2, <2>3 DEF Settled
  <2>. QED
    BY <1>2, <2>4, WaitingHoldsBack DEF h
<1>. QED
  BY <1>3, <1>4

\* What is on the wire: the frames, then the incomplete one.
LEMMA WireBytes ==
  ASSUME NEW s, IsSample(s), FramesRead(s)
  PROVE  /\ Wire(s) \in Bytes /\ Len(Wire(s)) \in Nat
         /\ Wire(s) = Flat(Encoded(s), Len(s.frames)) \o s.rest
         /\ s.rest \in Bytes
<1>1. /\ IsStream(Encoded(s)) /\ Len(s.frames) \in Nat
      /\ Len(Encoded(s)) = Len(s.frames)
  BY EncodedIsStream
<1>2. s.rest \in Seq(Byte) /\ Byte \subseteq Nat
  BY DEF IsSample, Byte
<1>3. s.rest \in Bytes
  BY <1>2, SeqMonotonic DEF Bytes
<1>4. Len(s.frames) \in 0..Len(s.frames)
  BY <1>1
<1>5. Flat(Encoded(s), Len(s.frames)) \in Bytes
  BY <1>1, <1>4, FlatBytes
<1>6. Flat(Encoded(s), Len(s.frames)) = FlattenSeq(Encoded(s))
  BY <1>1, FlatAll DEF IsStream
<1>7. Wire(s) = Flat(Encoded(s), Len(s.frames)) \o s.rest
  BY <1>6, Zenon DEF Wire
<1>8. Wire(s) \in Bytes
  BY <1>3, <1>5, <1>7, HasBehind
<1>. QED
  BY <1>3, <1>7, <1>8, LenNat

\* The first bytes of w.
LEMMA SliceBegins ==
  ASSUME NEW w \in Bytes, NEW n \in 0..Len(w)
  PROVE  Begins(Slice(w, 0, n), w) /\ Len(Slice(w, 0, n)) = n
<1>1. Len(w) \in Nat /\ n \in Nat /\ n <= Len(w)
  BY LenNat
<1>. DEFINE x == Slice(w, 0, n)
<1>2. IsSlice(x, w, 0, n)
  BY <1>1, SliceIsSlice
<1>. HIDE DEF x
<1>3. x \in Bytes /\ Len(x) = n
  BY <1>1, <1>2 DEF IsSlice
<1>4. ASSUME NEW i \in 1..Len(x) PROVE w[i] = x[i]
  <2>1. i \in 1..(n - 0) /\ 0 + i = i
    BY <1>1, <1>3
  <2>. QED
    BY <1>2, <2>1 DEF IsSlice
<1>5. Begins(x, w) /\ Len(x) = n
  BY <1>1, <1>3, <1>4 DEF Begins
<1>. QED
  BY <1>5 DEF x

\* What is held back is the end of what was pushed.
LEMMA EndsIsSlice ==
  ASSUME NEW w \in Bytes, NEW n \in 0..Len(w), NEW q, Ends(q, Slice(w, 0, n))
  PROVE  q = Slice(w, n - Len(q), n)
<1>. DEFINE p == Slice(w, 0, n)  l == Len(q)  y == Slice(w, n - l, n)
<1>1. Begins(p, w) /\ Len(p) = n /\ Len(w) \in Nat /\ n <= Len(w) /\ n \in Nat
  BY SliceBegins, LenNat
<1>. HIDE DEF p
<1>2. /\ q \in Bytes /\ l \in Nat /\ l <= n
      /\ \A k \in 1..l : q[k] = p[n - l + k]
  BY <1>1, LenNat DEF Ends, p
<1>3. IsSlice(y, w, n - l, n)
  <2>1. n - l \in Nat
    BY <1>1, <1>2
  <2>. QED
    BY <1>1, <2>1, SliceIsSlice
<1>. HIDE DEF y, l
<1>4. y \in Bytes /\ Len(y) = l
  BY <1>1, <1>2, <1>3 DEF IsSlice
<1>5. ASSUME NEW k \in 1..l PROVE q[k] = y[k]
  <2>1. k \in 1..(n - (n - l)) /\ n - l + k \in 1..Len(p)
    BY <1>1, <1>2
  <2>2. y[k] = w[n - l + k]
    BY <1>3, <2>1 DEF IsSlice
  <2>3. w[n - l + k] = p[n - l + k]
    BY <1>1, <2>1 DEF Begins
  <2>. QED
    BY <1>2, <2>2, <2>3
<1>6. q = y
  <2>1. Len(q) = Len(y)
    BY <1>4 DEF l
  <2>. QED
    BY <1>2, <1>4, <1>5, <2>1, BytesEqual DEF l
<1>. QED
  BY <1>6 DEF y, l

\* c frames have arrived completely, of the next one r.
Arrived(s, p, c, r) ==
  /\ c \in 0..Len(s.frames) /\ r \in Bytes
  /\ p = Flat(Encoded(s), c) \o r
  /\ HoldsBack(s.kind, r, MemoryAfter(s.kind, c))
  /\ {i \in 1..Len(s.frames) : Len(Flat(Encoded(s), i)) <= Len(p)} = 1..c

\* Whatever was pushed is some whole frames and the beginning of another.
LEMMA SomethingArrived ==
  ASSUME NEW s, IsSample(s), FramesRead(s), NEW p, Begins(p, Wire(s)),
         MemoryAfter(s.kind, Len(s.frames)) \in Memories
  PROVE  \E c, r : Arrived(s, p, c, r)
<1>. DEFINE es == Encoded(s)  n == Len(s.frames)  L(i) == Len(Flat(es, i))
<1>1. /\ IsStream(es) /\ s.kind \in Kinds /\ n \in Nat /\ Len(es) = n
      /\ DOMAIN s.frames = 1..n
      /\ \A i \in 1..n : es[i] = Encode(s.kind, s.frames, i)
  BY EncodedIsStream
<1>2. Wire(s) = Flat(es, n) \o s.rest /\ s.rest \in Bytes
  BY WireBytes
<1>3. n \in 0..Len(es)
  BY <1>1
<1>4. \/ \E c \in Nat : \E r : EndsWithin(p, es, c, r)
      \/ \E r : Begins(r, s.rest) /\ p = Flat(es, n) \o r
  <2>. DEFINE y == s.rest
  <2>1. \A k \in 0..Len(es) : \A z \in Bytes : \A b :
          Begins(b, Flat(es, k) \o z) =>
            \/ \E c \in Nat : \E r : EndsWithin(b, es, c, r)
            \/ \E r : Begins(r, z) /\ b = Flat(es, k) \o r
    BY <1>1, BeginsStream
  <2>2. Begins(p, Flat(es, n) \o y) /\ y \in Bytes
    BY <1>2
  <2>. HIDE DEF es, n, y
  <2>3. \/ \E c \in Nat : \E r : EndsWithin(p, es, c, r)
        \/ \E r : Begins(r, y) /\ p = Flat(es, n) \o r
    BY <1>3, <2>1, <2>2
  <2>. QED
    BY <2>3 DEF y
<1>5. /\ \A i \in 0..n : L(i) \in Nat /\ Flat(es, i) \in Bytes
      /\ \A i, j \in 0..n : i <= j => L(i) <= L(j)
  <2>1. \A i \in 0..n : L(i) \in Nat /\ Flat(es, i) \in Bytes
    BY <1>1, FlatBytes
  <2>2. \A i \in Nat : \A j \in Nat : i <= j /\ j <= Len(es) => L(i) <= L(j)
    BY <1>1, FlatMonotonic
  <2>. QED
    BY <1>1, <2>1, <2>2
<1>6. CASE \E c \in Nat : \E r : EndsWithin(p, es, c, r)
  <2>0. PICK c \in Nat : \E r : EndsWithin(p, es, c, r)
    BY <1>6
  <2>1. PICK r : EndsWithin(p, es, c, r)
    BY <2>0
  <2>2. c + 1 <= n /\ Before(r, es[c + 1]) /\ p = Flat(es, c) \o r
    BY <1>1, <2>1 DEF EndsWithin
  <2>3. r \in Bytes /\ Len(r) < Len(es[c + 1]) /\ Len(r) \in Nat
    BY <2>2, LenNat DEF Before, Begins
  <2>4. c \in 0..n /\ c + 1 \in 0..n /\ c + 1 \in 1..n /\ (c + 1) - 1 = c
    BY <1>1, <2>2
  <2>5. Len(p) = L(c) + Len(r)
    <3>1. Flat(es, c) \in Bytes
      BY <1>5, <2>4
    <3>. QED
      BY <2>2, <2>3, <3>1, HasBehind
  <2>6. L(c + 1) = L(c) + Len(es[c + 1]) /\ Len(es[c + 1]) \in Nat
    BY <1>1, <2>2, FlatGrows, FlatStep
  <2>. HIDE DEF L, es, n
  <2>7. L(c) <= Len(p) /\ Len(p) < L(c + 1)
    <3>1. L(c) \in Nat /\ L(c + 1) \in Nat
      BY <1>5, <2>4
    <3>. QED
      BY <2>3, <2>5, <2>6, <3>1
  <2>8. {i \in 1..n : L(i) <= Len(p)} = 1..c
    <3>1. ASSUME NEW i \in 1..n PROVE L(i) <= Len(p) <=> i <= c
      <4>0. i \in 0..n /\ Len(p) \in Nat /\ L(i) \in Nat /\ L(c) \in Nat
            /\ L(c + 1) \in Nat
        BY <1>1, <1>5, <2>3, <2>4, <2>5
      <4>1. i <= c => L(i) <= L(c)
        BY <1>5, <2>4, <4>0
      <4>2. ~(i <= c) => L(c + 1) <= L(i)
        <5>1. ~(i <= c) => c + 1 <= i
          BY <1>1, <2>4
        <5>. QED
          BY <1>5, <2>4, <4>0, <5>1
      <4>. QED
        BY <2>7, <4>0, <4>1, <4>2
    <3>. QED
      BY <1>1, <2>4, <3>1
  <2>9. HoldsBack(s.kind, r, MemoryAfter(s.kind, c))
    <3>1. Reads(s.kind, es[c + 1], <<Delivered(s.kind, s.frames[c + 1], c + 1)>>,
                MemoryAfter(s.kind, (c + 1) - 1), MemoryAfter(s.kind, c + 1))
      BY <1>1, <2>4 DEF FramesRead
    <3>. QED
      BY <2>2, <2>4, <3>1 DEF Reads
  <2>10. Arrived(s, p, c, r)
    BY <2>2, <2>3, <2>4, <2>8, <2>9 DEF Arrived, L, es, n
  <2>. QED
    BY <2>10
<1>7. CASE \E r : Begins(r, s.rest) /\ p = Flat(es, n) \o r
  <2>1. PICK r : Begins(r, s.rest) /\ p = Flat(es, n) \o r
    BY <1>7
  <2>2. HoldsBack(s.kind, r, MemoryAfter(s.kind, n))
    BY <2>1, RestHoldsBack
  <2>3. r \in Bytes /\ Len(r) \in Nat
    BY <2>1, LenNat DEF Begins
  <2>4. n \in 0..n
    BY <1>1
  <2>5. Len(p) = L(n) + Len(r)
    <3>1. Flat(es, n) \in Bytes
      BY <1>5, <2>4
    <3>. QED
      BY <2>1, <2>3, <3>1, HasBehind
  <2>. HIDE DEF L, es, n
  <2>6. {i \in 1..n : L(i) <= Len(p)} = 1..n
    <3>1. ASSUME NEW i \in 1..n PROVE L(i) <= Len(p)
      <4>1. i \in 0..n /\ L(i) \in Nat /\ L(n) \in Nat /\ L(i) <= L(n)
        BY <1>1, <1>5, <2>4
      <4>. QED
        BY <2>3, <2>5, <4>1
    <3>. QED
      BY <3>1
  <2>7. Arrived(s, p, n, r)
    BY <2>1, <2>2, <2>3, <2>4, <2>6 DEF Arrived, L, es, n
  <2>. QED
    BY <2>7
<1>. QED
  BY <1>4, <1>6, <1>7

----------------------------------------------------------------------------
(* The invariant.                                                          *)

\* A decoder that has been pushed nothing; what it makes of the bytes p.
Decoder0 == Dec(<<>>, Memory0, <<>>, FALSE)
Decoded(kind, p) == Drain(kind, Dec(p, Memory0, <<>>, FALSE))

\* A decoder is what the bytes pushed so far would have made of it at once.
AsIfUncut ==
  /\ sample = NoSample => fed = 0 /\ decoder = Decoder0
  /\ sample # NoSample =>
       /\ sample \in Samples /\ fed \in 0..Len(Wire(sample))
       /\ decoder = Decoded(sample.kind, Slice(Wire(sample), 0, fed))

\* A fresh decoder remembers nothing.
LEMMA Memory0Is ==
  ASSUME NEW kind
  PROVE  MemoryAfter(kind, 0) = Memory0 /\ Memory0 \in Memories
<1>1. Memory0 \in Memories
  BY DEF Memory0, Memories
<1>2. MemoryAfter(kind, 0) = Memory0
  BY DEF MemoryAfter, Memory0
<1>. QED
  BY <1>1, <1>2

\* What a decoder remembers behind its frames is in range.
LEMMA MemoryIs ==
  ASSUME NEW kind, NEW n \in Nat
  PROVE  MemoryAfter(kind, n) \in Memories
  BY DEF MemoryAfter, Memories

(* What is whole is delivered, once and in order.                          *)
LEMMA UncutIsRight ==
  ASSUME sample # NoSample, IsSample(sample), FramesRead(sample),
         fed \in 0..Len(Wire(sample)),
         decoder = Decoded(sample.kind, Slice(Wire(sample), 0, fed))
  PROVE  CutsDoNotMatter
<1>. DEFINE s == sample  w == Wire(s)  p == Slice(w, 0, fed)  es == Encoded(s)
            n == Len(s.frames)
<1>1. w \in Bytes /\ Len(w) \in Nat
  BY WireBytes
<1>2. Begins(p, w) /\ Len(p) = fed /\ fed \in Nat
  BY <1>1, SliceBegins
<1>3. /\ IsStream(es) /\ s.kind \in Kinds /\ n \in Nat /\ Len(es) = n
      /\ DOMAIN s.frames = 1..n
  BY EncodedIsStream
<1>4. PICK c, r : Arrived(s, p, c, r)
  <2>1. MemoryAfter(s.kind, n) \in Memories
    BY <1>3, MemoryIs
  <2>. QED
    BY <1>2, <2>1, SomethingArrived
<1>5. /\ c \in 0..n /\ r \in Bytes /\ p = Flat(es, c) \o r
      /\ HoldsBack(s.kind, r, MemoryAfter(s.kind, c))
      /\ {i \in 1..n : Len(Flat(es, i)) <= fed} = 1..c
  BY <1>2, <1>4 DEF Arrived
<1>6. Decoded(s.kind, p) =
        Drain(s.kind, Dec(r, MemoryAfter(s.kind, c), Deliveries(s, c), FALSE))
  <2>1. Drain(s.kind, Dec(Flat(es, c) \o r, MemoryAfter(s.kind, 0), <<>>, FALSE)) =
        Drain(s.kind, Dec(r, MemoryAfter(s.kind, c), Deliveries(s, c), FALSE))
    BY <1>5, DrainStream
  <2>2. MemoryAfter(s.kind, 0) = Memory0
    BY Memory0Is
  <2>3. p = Flat(es, c) \o r
    BY <1>5
  <2>. HIDE DEF s, p, es
  <2>. QED
    BY ONLY <2>1, <2>2, <2>3, Zenon DEF Decoded
<1>7. IsList(Deliveries(s, c))
  <2>1. c \in Nat
    BY <1>3, <1>5
  <2>. QED
    BY <2>1, DeliveriesGrow
<1>8. PICK q, m : /\ Ends(q, r) /\ (s.kind # "shadowsocks" => q = r)
                  /\ Decoded(s.kind, p) = Dec(q, m, Deliveries(s, c), FALSE)
  <2>1. PICK q, m : /\ Ends(q, r) /\ (s.kind # "shadowsocks" => q = r)
                    /\ \A f, x : IsList(f) =>
                         Drain(s.kind, Dec(r, MemoryAfter(s.kind, c), f, x))
                           = Dec(q, m, f, x)
    BY <1>5 DEF HoldsBack
  <2>2. Drain(s.kind, Dec(r, MemoryAfter(s.kind, c), Deliveries(s, c), FALSE))
          = Dec(q, m, Deliveries(s, c), FALSE)
    BY <1>7, <2>1, Zenon
  <2>3. Decoded(s.kind, p) = Dec(q, m, Deliveries(s, c), FALSE)
    BY <1>6, <2>2, Zenon
  <2>. QED
    BY <2>1, <2>3
<1>9. decoder = Dec(q, m, Deliveries(s, c), FALSE)
  BY <1>8, Zenon
<1>10. /\ decoder.buffer = q /\ decoder.decoded = Deliveries(s, c)
       /\ decoder.failed = FALSE
  <2>. DEFINE no == FALSE  ds == Deliveries(s, c)
  <2>1. decoder = Dec(q, m, ds, no)
    BY <1>9, Zenon
  <2>. HIDE DEF s, ds, no
  <2>2. decoder.buffer = q /\ decoder.decoded = ds /\ decoder.failed = no
    BY <2>1, DecFields
  <2>. QED
    BY <2>2, Zenon DEF ds, no
<1>11. Flat(es, c) \in Bytes /\ Len(Flat(es, c)) \in Nat
       /\ fed = Len(Flat(es, c)) + Len(r) /\ Len(r) \in Nat
  <2>1. Flat(es, c) \in Bytes
    BY <1>3, <1>5, FlatBytes
  <2>2. Len(Flat(es, c) \o r) = Len(Flat(es, c)) + Len(r)
    BY <1>5, <2>1, HasBehind
  <2>. QED
    BY <1>2, <1>5, <2>1, <2>2, LenNat
<1>12. q = Slice(w, fed - Len(q), fed)
  <2>1. Ends(q, p)
    BY <1>5, <1>8, <1>11, EndsOfTwo
  <2>2. fed \in 0..Len(w)
    OBVIOUS
  <2>. QED
    BY <1>1, <2>1, <2>2, EndsIsSlice
<1>. DEFINE EndOf(i) == Len(FlattenSeq(SubSeq(es, 1, i)))
            whole == {i \in DOMAIN es : EndOf(i) <= fed}
            count == Cardinality(whole)
            taken == IF s.kind = "shadowsocks" THEN Len(decoder.buffer)
                     ELSE fed - EndOf(count)
<1>13. whole = 1..c
  <2>1. DOMAIN es = 1..n
    BY <1>3, LenProperties DEF IsStream
  <2>2. \A i : EndOf(i) = Len(Flat(es, i))
    BY DEF Flat
  <2>. HIDE DEF EndOf, es, n
  <2>. QED
    BY <1>5, <2>1, <2>2
<1>14. count = c
  <2>. HIDE DEF whole
  <2>1. c \in Nat /\ 1 \in Int /\ c \in Int
    BY <1>3, <1>5
  <2>2. Cardinality(1..c) = IF 1 > c THEN 0 ELSE c - 1 + 1
    BY <2>1, FS_Interval
  <2>3. Cardinality(1..c) = c
    BY <2>1, <2>2
  <2>. QED
    BY <1>13, <2>3
<1>15. taken = Len(q)
  <2>1. EndOf(c) = Len(Flat(es, c))
    BY DEF Flat
  <2>. HIDE DEF EndOf, count, whole, es
  <2>2. CASE s.kind = "shadowsocks"
    BY <1>10, <2>2
  <2>3. CASE s.kind # "shadowsocks"
    <3>1. taken = fed - Len(Flat(es, c)) /\ q = r
      BY <1>8, <1>14, <2>1, <2>3
    <3>. QED
      BY <1>11, <3>1
  <2>. QED
    BY <2>2, <2>3
<1>16. /\ ~decoder.failed
       /\ decoder.decoded = [i \in 1..count |-> Delivered(s.kind, s.frames[i], i)]
       /\ decoder.buffer = Slice(w, fed - taken, fed)
  <2>. HIDE DEF count, taken, w
  <2>1. Deliveries(s, c) = [i \in 1..c |-> Delivered(s.kind, s.frames[i], i)]
    BY DEF Deliveries
  <2>. HIDE DEF s
  <2>. QED
    BY <1>10, <1>12, <1>14, <1>15, <2>1
<1>. QED
  BY <1>16 DEF CutsDoNotMatter

----------------------------------------------------------------------------
(* Every step keeps the invariant.                                         *)

AllRead == \A s \in Samples : FramesRead(s)

\* What is sent is a sample, by SamplesAssumption.
LEMMA SampleIsOne ==
  ASSUME NEW s \in Samples
  PROVE  IsSample(s) /\ s # NoSample
<1>1. IsSample(s)
  BY SamplesAssumption
<1>2. NoSample.kind = "none"
  BY DEF NoSample
<1>. QED
  BY <1>1, <1>2 DEF IsSample

\* Of nothing pushed, a fresh decoder makes nothing.
LEMMA DecodedNothing ==
  ASSUME NEW kind, NEW w \in Bytes
  PROVE  Decoded(kind, Slice(w, 0, 0)) = Decoder0
<1>. DEFINE p == Slice(w, 0, 0)
<1>1. p \in Bytes /\ Len(p) = 0
  <2>1. 0 \in 0..Len(w)
    BY LenNat
  <2>. QED
    BY <2>1, SliceBegins DEF Begins
<1>. HIDE DEF p
<1>2. p = <<>>
  BY <1>1, EmptySeq DEF Bytes
<1>. DEFINE none == <<>>
<1>3. none \in Bytes /\ p = none
  BY <1>2, EmptyBytes
<1>4. \A f, x : Drain(kind, Dec(none, Memory0, f, x)) = Dec(none, Memory0, f, x)
  BY EmptyBytes, HeadMoreRests
<1>5. Decoded(kind, none) = Decoder0
  BY ONLY <1>4, Zenon DEF Decoded, Decoder0, none
<1>. QED
  BY <1>3, <1>5 DEF p

\* A piece pushed behind others is decoded as if they had come together.
LEMMA DecodedMore ==
  ASSUME NEW kind \in Kinds, NEW w \in Bytes, NEW l \in 0..Len(w),
         NEW n \in l..Len(w)
  PROVE  Drain(kind, Plus(Decoded(kind, Slice(w, 0, l)), Slice(w, l, n))) =
           Decoded(kind, Slice(w, 0, n))
<1>. DEFINE p == Slice(w, 0, l)  y == Slice(w, l, n)  z == Slice(w, 0, n)
            d == Dec(p, Memory0, <<>>, FALSE)
<1>1. Len(w) \in Nat /\ l \in Nat /\ n \in Nat /\ l <= n /\ n <= Len(w)
  BY LenNat
<1>2. p \in Bytes /\ y \in Bytes
  BY <1>1, SliceIsSlice DEF IsSlice
<1>3. z = p \o y
  <2>1. 1 \in 1..(Len(w) + 1) /\ l \in (1 - 1)..Len(w)
    BY <1>1
  <2>2. SubSeq(w, 1, l) \o SubSeq(w, l + 1, n) = SubSeq(w, 1, n)
    BY <2>1, ConcatAdjacentSubSeq DEF Bytes
  <2>. QED
    BY <2>2 DEF Slice
<1>. HIDE DEF p, y, z
<1>4. IsDecoder(d)
  BY <1>2, Memory0Is, DecIsDecoder
<1>5. Plus(d, y) = Dec(p \o y, Memory0, <<>>, FALSE)
  <2>1. \A m, f, x : Plus(Dec(p, m, f, x), y) = Dec(p \o y, m, f, x)
    BY DecFields
  <2>. QED
    BY ONLY <2>1, Zenon
<1>6. Drain(kind, Plus(Drain(kind, d), y)) = Drain(kind, Plus(d, y))
  <2>. HIDE DEF d
  <2>. QED
    BY <1>2, <1>4, DrainOfPieces
<1>7. Drain(kind, d) = Decoded(kind, p)
  BY DEF Decoded
<1>8. Drain(kind, Plus(d, y)) = Decoded(kind, z)
  BY ONLY <1>3, <1>5, Zenon DEF Decoded
<1>. HIDE DEF d
<1>9. Drain(kind, Plus(Decoded(kind, p), y)) = Decoded(kind, z)
  BY ONLY <1>6, <1>7, <1>8, Zenon
<1>. QED
  BY <1>9 DEF p, y, z

\* The invariant holds at the start,
LEMMA StreamInitUncut == StreamInit => AsIfUncut
  BY DEF StreamInit, AsIfUncut, Decoder0, Dec

\* every piece pushed keeps it,
LEMMA StreamNextUncut ==
  AllRead /\ AsIfUncut /\ [StreamNext]_streamVars => AsIfUncut'
<1>1. SUFFICES ASSUME AllRead, AsIfUncut, [StreamNext]_streamVars
               PROVE  AsIfUncut'
  OBVIOUS
<1>2. \A s \in Samples : /\ IsSample(s) /\ s # NoSample /\ s.kind \in Kinds
                         /\ Wire(s) \in Bytes /\ Len(Wire(s)) \in Nat
  <2>1. ASSUME NEW s \in Samples
        PROVE  /\ IsSample(s) /\ s # NoSample /\ s.kind \in Kinds
               /\ Wire(s) \in Bytes /\ Len(Wire(s)) \in Nat
    <3>1. IsSample(s) /\ s # NoSample /\ FramesRead(s)
      BY <1>1, SampleIsOne DEF AllRead
    <3>. QED
      BY <3>1, WireBytes, EncodedIsStream
  <2>. QED
    BY <2>1
<1>3. ASSUME NEW s \in Samples, StreamOpens(s)
      PROVE  AsIfUncut'
  <2>1. sample' = s /\ fed' = 0 /\ decoder' = Decoder0 /\ s # NoSample
    BY <1>1, <1>2, <1>3 DEF StreamOpens, AsIfUncut
  <2>2. Decoder0 = Decoded(s.kind, Slice(Wire(s), 0, 0)) /\ Len(Wire(s)) \in Nat
    BY <1>2, DecodedNothing
  <2>3. 0 \in 0..Len(Wire(s))
    BY <2>2
  <2>. QED
    BY <2>1, <2>2, <2>3 DEF AsIfUncut
<1>4. ASSUME NEW n \in (fed + 1)..Len(Wire(sample)), Push(n)
      PROVE  AsIfUncut'
  <2>. DEFINE w == Wire(sample)  kind == sample.kind  y == Slice(w, fed, n)
  <2>1. /\ sample # NoSample /\ sample \in Samples /\ fed \in 0..Len(w)
        /\ decoder = Decoded(kind, Slice(w, 0, fed))
    BY <1>1, <1>4 DEF AsIfUncut, Push
  <2>2. kind \in Kinds /\ w \in Bytes /\ Len(w) \in Nat
    BY <1>2, <2>1
  <2>3. n \in fed..Len(w) /\ n \in 0..Len(w)
    BY <2>1, <2>2
  <2>4. decoder' = Drain(kind, Plus(decoder, y)) /\ fed' = n /\ sample' = sample
    BY <1>4 DEF Push, Plus
  <2>5. Drain(kind, Plus(Decoded(kind, Slice(w, 0, fed)), y)) =
          Decoded(kind, Slice(w, 0, n))
    BY <2>1, <2>2, <2>3, DecodedMore
  <2>6. decoder' = Decoded(kind, Slice(w, 0, n))
    BY ONLY <2>1, <2>4, <2>5, Zenon
  <2>. QED
    BY <2>1, <2>3, <2>4, <2>6 DEF AsIfUncut
<1>5. ASSUME UNCHANGED streamVars PROVE AsIfUncut'
  BY <1>1, <1>5 DEF AsIfUncut, streamVars
<1>. QED
  BY <1>1, <1>3, <1>4, <1>5 DEF StreamNext

\* and it says that the cuts do not matter.
LEMMA UncutMeansRight == AllRead /\ AsIfUncut => CutsDoNotMatter
<1>1. SUFFICES ASSUME AllRead, AsIfUncut PROVE CutsDoNotMatter
  OBVIOUS
<1>2. CASE sample = NoSample
  BY <1>2 DEF CutsDoNotMatter
<1>3. CASE sample # NoSample
  <2>1. IsSample(sample) /\ FramesRead(sample)
    BY <1>1, <1>3, SampleIsOne DEF AllRead, AsIfUncut
  <2>2. /\ fed \in 0..Len(Wire(sample))
        /\ decoder = Decoded(sample.kind, Slice(Wire(sample), 0, fed))
    BY <1>1, <1>3 DEF AsIfUncut
  <2>. QED
    BY <1>3, <2>1, <2>2, UncutIsRight
<1>. QED
  BY <1>2, <1>3

----------------------------------------------------------------------------
(* A frame that is whole is taken as it was meant.                         *)

\* v is w and z behind it: what lies in w lies at the same place in v.
Keeps(w, v) == \A i, y : HasAt(w, i, y) => HasAt(v, i, y)
IsNext(w, z, v, n, m) ==
  /\ v \in Bytes /\ Len(v) = n + m /\ HasAt(v, n, z) /\ HasAt(v, 0, w)
  /\ Keeps(w, v)

\* What lay in either of two pieces lies in both together.
LEMMA HasNext ==
  ASSUME NEW w \in Bytes, NEW z \in Bytes, NEW n, NEW m,
         Len(w) = n, Len(z) = m
  PROVE  IsNext(w, z, w \o z, n, m)
<1>1. Keeps(w, w \o z)
  BY HasWithMore DEF Keeps
<1>2. HasAt(w \o z, 0, w)
  BY <1>1, HasItself DEF Keeps
<1>3. /\ w \o z \in Bytes /\ Len(w \o z) = Len(w) + Len(z)
      /\ HasAt(w \o z, Len(w), z)
  BY HasBehind
<1>. DEFINE v == w \o z
<1>. HIDE DEF v
<1>4. Keeps(w, v) /\ HasAt(v, 0, w) /\ v \in Bytes /\ Len(v) = n + m
      /\ HasAt(v, n, z)
  BY <1>1, <1>2, <1>3 DEF v
<1>5. IsNext(w, z, v, n, m)
  BY ONLY <1>4 DEF IsNext
<1>. QED
  BY <1>5 DEF v

\* A slice that spans what lies there is what lies there.
LEMMA SliceOf ==
  ASSUME NEW w, NEW i, NEW y, NEW j, HasAt(w, i, y), NEW n, Len(y) = n, j = i + n
  PROVE  Slice(w, i, j) = y
  BY HasSlice

\* The same at the start.
LEMMA SliceFirst ==
  ASSUME NEW w, NEW y, NEW n, HasAt(w, 0, y), Len(y) = n
  PROVE  Slice(w, 0, n) = y
<1>1. n = 0 + Len(y)
  BY LenNat DEF HasAt
<1>. QED
  BY <1>1, HasSlice

\* A field is a string of bytes.
LEMMA FieldBytes ==
  ASSUME NEW f \in Field
  PROVE  f \in Bytes /\ Len(f) \in Nat
<1>1. f \in Seq(Byte) /\ Byte \subseteq Nat
  BY DEF Field, Byte
<1>2. f \in Bytes
  BY <1>1, SeqMonotonic DEF Bytes
<1>. QED
  BY <1>2, LenNat

\* A string with a length is not empty.
LEMMA NotEmpty ==
  ASSUME NEW b \in Bytes, 0 < Len(b)
  PROVE  b # <<>>
  BY EmptyBytes

\* A DNS answer behind its length is one unit.
LEMMA DnsUnit ==
  ASSUME NEW f, f \in Field, NEW memory \in Memories
  PROVE  IsUnit("dns", Be16(Len(f)) \o f, <<Be16(Len(f)) \o CrLf \o f>>,
                memory, memory)
<1>1. f \in Bytes /\ Len(f) \in Nat
  BY FieldBytes
<1>. DEFINE l == Be16(Len(f))  n == Len(f)  b == l \o f
<1>2. l \in Bytes /\ Len(l) = 2
  BY <1>1, Be16Bytes
<1>. HIDE DEF l, n
<1>4. IsNext(l, f, b, 2, n)
  BY <1>1, <1>2, HasNext DEF n
<1>. HIDE DEF b
<1>40. /\ b \in Bytes /\ Len(b) = 2 + n /\ HasAt(b, 2, f) /\ HasAt(b, 0, l)
  BY <1>4 DEF IsNext
<1>5. U16(b, 0) = n
  BY <1>1, <1>40, HasU16 DEF l, n
<1>6. Slice(b, 0, 2) = l
  BY <1>2, <1>40, SliceFirst
<1>7. Slice(b, 2, 2 + n) = f
  BY <1>40, SliceOf DEF n
<1>8. n \in Nat
  BY <1>1 DEF n
<1>9. DnsAnswer(b, memory) = Took(2 + n, <<l \o CrLf \o f>>, memory)
  <2>. DEFINE m == U16(b, 0)
  <2>1. DnsAnswer(b, memory) =
          IF Len(b) < 2 THEN More ELSE IF Len(b) < 2 + m THEN More
          ELSE Took(2 + m, <<Slice(b, 0, 2) \o CrLf \o Slice(b, 2, 2 + m)>>, memory)
    BY DEF DnsAnswer
  <2>2. m = n
    BY <1>5
  <2>. HIDE DEF m
  <2>3. ~(Len(b) < 2) /\ ~(Len(b) < 2 + m)
    BY <1>8, <1>40, <2>2
  <2>4. Slice(b, 2, 2 + m) = f
    BY <1>7, <2>2
  <2>5. DnsAnswer(b, memory) =
          Took(2 + m, <<Slice(b, 0, 2) \o CrLf \o Slice(b, 2, 2 + m)>>, memory)
    BY ONLY <2>1, <2>3
  <2>. QED
    BY ONLY <1>6, <2>2, <2>4, <2>5, Zenon
<1>10. b # <<>>
  BY <1>8, <1>40, NotEmpty
<1>11. Head1("dns", b, memory) = Took(Len(b), <<l \o CrLf \o f>>, memory)
  BY <1>9, <1>40 DEF Head1
<1>. QED
  BY <1>40, <1>10, <1>11 DEF IsUnit, l, b

\* A Trojan UDP packet is one unit.
LEMMA TrojanUdpUnit ==
  ASSUME NEW f, IsAddress(f, SocksType), f.port \in Nat, f.payload \in Field,
         NEW memory \in Memories
  PROVE  IsUnit("trojanUdp",
                Address(f) \o Be16(f.port) \o Be16(Len(f.payload)) \o CrLf
                  \o f.payload,
                <<[port |-> f.port, addressHeader |-> Address(f) \o Be16(f.port),
                   payload |-> f.payload]>>, memory, memory)
<1>1. f.port \in Nat /\ f.payload \in Bytes /\ Len(f.payload) \in Nat
  BY FieldBytes
<1>2. Address(f) \in Bytes /\ Len(Address(f)) = 1 + Len(f.hostname)
      /\ Len(f.hostname) \in Nat \ {0}
  BY AddressBytes
<1>. DEFINE p == Be16(f.port)  l == Be16(Len(f.payload))  a == Address(f)
            y == f.payload
            w1 == a \o p  w2 == w1 \o l  w3 == w2 \o CrLf  w == w3 \o y
            end == 1 + Len(f.hostname)  m == Len(f.payload)  stop == end + 6 + m
            type == TypeIn(SocksType, w[1])
<1>. HIDE DEF w1, w2, w3, w, stop, type, p, l, a, y, end, m
<1>3. p \in Bytes /\ Len(p) = 2 /\ l \in Bytes /\ Len(l) = 2
      /\ a \in Bytes /\ y \in Bytes /\ Len(y) = m /\ m \in Nat
      /\ CrLf \in Bytes /\ Len(CrLf) = 2 /\ Len(a) = end /\ end \in Nat \ {0}
  <2>1. p \in Bytes /\ Len(p) = 2 /\ l \in Bytes /\ Len(l) = 2
    BY <1>1, Be16Bytes DEF p, l
  <2>2. a \in Bytes /\ Len(a) = end /\ end \in Nat \ {0}
    BY <1>2 DEF a, end
  <2>3. y \in Bytes /\ Len(y) = m /\ m \in Nat
    BY <1>1 DEF y, m
  <2>. QED
    BY <2>1, <2>2, <2>3, CrLfBytes
<1>7. IsNext(a, p, w1, end, 2)
  BY <1>3, HasNext DEF w1
<1>70. w1 \in Bytes /\ Len(w1) = end + 2
  BY <1>7 DEF IsNext
<1>8. IsNext(w1, l, w2, end + 2, 2)
  BY <1>3, <1>70, HasNext DEF w2
<1>80. w2 \in Bytes /\ Len(w2) = end + 2 + 2
  BY <1>8 DEF IsNext
<1>9. IsNext(w2, CrLf, w3, end + 2 + 2, 2)
  BY <1>3, <1>80, HasNext DEF w3
<1>90. w3 \in Bytes /\ Len(w3) = end + 2 + 2 + 2
  BY <1>9 DEF IsNext
<1>10. IsNext(w3, y, w, end + 2 + 2 + 2, m)
  BY <1>3, <1>90, HasNext DEF w
<1>100. w \in Bytes /\ Len(w) = end + 2 + 2 + 2 + m
  BY <1>10 DEF IsNext
<1>11. HasAt(w, end, p) /\ HasAt(w, 0, a) /\ HasAt(w, 0, w1)
  <2>1. Keeps(w3, w) /\ Keeps(w2, w3) /\ Keeps(w1, w2)
    BY <1>8, <1>9, <1>10 DEF IsNext
  <2>2. HasAt(w1, end, p) /\ HasAt(w1, 0, a) /\ HasAt(w2, 0, w1)
    BY <1>7, <1>8 DEF IsNext
  <2>. QED
    BY ONLY <2>1, <2>2, Zenon DEF Keeps
<1>12. HasAt(w, end + 2, l) /\ HasAt(w, end + 2 + 2, CrLf)
       /\ HasAt(w, end + 2 + 2 + 2, y)
  <2>1. Keeps(w3, w) /\ Keeps(w2, w3)
    BY <1>9, <1>10 DEF IsNext
  <2>2. HasAt(w2, end + 2, l) /\ HasAt(w3, end + 2 + 2, CrLf)
        /\ HasAt(w, end + 2 + 2 + 2, y)
    BY <1>8, <1>9, <1>10 DEF IsNext
  <2>. QED
    BY ONLY <2>1, <2>2, Zenon DEF Keeps
<1>13. type # "none" /\ AddressEnd(type, w, 1) = end
  <2>1. 0 + 1 = 1 /\ 0 + 1 + Len(f.hostname) = end
    BY <1>2 DEF end
  <2>2. LET t == TypeIn(SocksType, w[0 + 1])
            e == 0 + 1 + Len(f.hostname)
        IN t # "none" /\ AddressEnd(t, w, 0 + 1) = e
    BY <1>11, HasAddress DEF a
  <2>. QED
    BY <2>1, <2>2 DEF type
<1>14. U16(w, end) = f.port
  BY <1>1, <1>11, HasU16 DEF p
<1>15. U16(w, end + 2) = m
  BY <1>1, <1>12, HasU16 DEF l, m
<1>16. end + 2 + 2 = end + 4 /\ end + 2 + 2 + 2 = end + 6 /\ end + 6 = end + 4 + 2
       /\ stop = end + 6 + m /\ Len(w) = stop /\ stop \in Nat /\ end + 6 <= stop
       /\ 0 < stop
  BY <1>3, <1>100 DEF stop
<1>17. Slice(w, end + 4, end + 6) = CrLf
  <2>1. HasAt(w, end + 4, CrLf)
    BY <1>12, <1>16
  <2>2. Slice(w, end + 4, end + 4 + Len(CrLf)) = CrLf
    BY <2>1, HasSlice
  <2>. QED
    BY <1>3, <1>16, <2>2
<1>18. Slice(w, 0, end + 2) = w1
  BY <1>11, <1>70, SliceFirst
<1>19. Slice(w, end + 6, stop) = y
  <2>1. HasAt(w, end + 6, y)
    BY <1>12, <1>16
  <2>. QED
    BY <1>3, <1>16, <2>1, SliceOf
<1>20. TrojanUdp(w, memory) =
         Took(stop, <<[port |-> f.port, addressHeader |-> w1, payload |-> y]>>,
              memory)
  <2>. DEFINE e == AddressEnd(type, w, 1)  s == e + 6 + U16(w, e + 2)
              frame == [port |-> U16(w, e), addressHeader |-> Slice(w, 0, e + 2),
                        payload |-> Slice(w, e + 6, s)]
  <2>1. TrojanUdp(w, memory) =
         IF type = "none" THEN Invalid
         ELSE IF Len(w) < e + 6 THEN More
         ELSE IF Slice(w, e + 4, e + 6) # CrLf THEN Invalid
         ELSE IF Len(w) < s THEN More
         ELSE Took(s, <<frame>>, memory)
    BY DEF TrojanUdp, type
  <2>2. e = end
    BY <1>13
  <2>. HIDE DEF e
  <2>3. s = stop
    BY <1>15, <1>16, <2>2
  <2>4. frame = [port |-> f.port, addressHeader |-> w1, payload |-> y]
    BY <1>14, <1>18, <1>19, <2>2, <2>3
  <2>5. ~(Len(w) < e + 6) /\ ~(Len(w) < s) /\ Slice(w, e + 4, e + 6) = CrLf
    BY <1>3, <1>16, <1>17, <2>2, <2>3
  <2>. HIDE DEF s, frame
  <2>6. TrojanUdp(w, memory) = Took(s, <<frame>>, memory)
    BY ONLY <1>13, <2>1, <2>5
  <2>. QED
    BY ONLY <2>3, <2>4, <2>6, Zenon
<1>21. w # <<>>
  BY <1>16, <1>100, NotEmpty
<1>. DEFINE unit == <<[port |-> f.port, addressHeader |-> w1, payload |-> y]>>
<1>. HIDE DEF unit
<1>22. Head1("trojanUdp", w, memory) = Took(Len(w), unit, memory)
  BY <1>16, <1>20 DEF Head1, unit
<1>23. IsUnit("trojanUdp", w, unit, memory, memory)
  BY <1>21, <1>22, <1>100 DEF IsUnit
<1>. QED
  BY <1>23 DEF unit, w, w3, w2, w1, a, p, l, y

\* A Shadowsocks target is one unit.
LEMMA TargetUnit ==
  ASSUME NEW f, IsAddress(f, SocksType), f.port \in Nat \ {0},
         NEW memory \in Memories, ~memory.ready, Ready(memory) \in Memories
  PROVE  IsUnit("target", Address(f) \o Be16(f.port),
                <<[hostname |-> f.hostname, port |-> f.port]>>,
                memory, Ready(memory))
<1>2. Address(f) \in Bytes /\ Len(Address(f)) = 1 + Len(f.hostname)
      /\ Len(f.hostname) \in Nat \ {0}
  BY AddressBytes
<1>. DEFINE p == Be16(f.port)  a == Address(f)  w == a \o p
            end == 1 + Len(f.hostname)  type == TypeIn(SocksType, w[1])
<1>. HIDE DEF p, a, w, end, type
<1>3. p \in Bytes /\ Len(p) = 2 /\ a \in Bytes /\ Len(a) = end /\ end \in Nat \ {0}
  <2>1. p \in Bytes /\ Len(p) = 2
    BY Be16Bytes DEF p
  <2>2. a \in Bytes /\ Len(a) = end /\ end \in Nat \ {0}
    BY <1>2 DEF a, end
  <2>. QED
    BY <2>1, <2>2
<1>4. IsNext(a, p, w, end, 2)
  BY <1>3, HasNext DEF w
<1>5. w \in Bytes /\ Len(w) = end + 2 /\ HasAt(w, end, p) /\ HasAt(w, 0, a)
  BY <1>4 DEF IsNext
<1>6. type # "none" /\ AddressEnd(type, w, 1) = end /\ Slice(w, 1, end) = f.hostname
  <2>1. 0 + 1 = 1 /\ 0 + 1 + Len(f.hostname) = end
    BY <1>2 DEF end
  <2>2. LET t == TypeIn(SocksType, w[0 + 1])
            e == 0 + 1 + Len(f.hostname)
        IN t # "none" /\ AddressEnd(t, w, 0 + 1) = e
           /\ Slice(w, 0 + 1, e) = f.hostname
    BY <1>5, HasAddress DEF a
  <2>. QED
    BY <2>1, <2>2 DEF type
<1>7. U16(w, end) = f.port
  BY <1>5, HasU16 DEF p
<1>8. ShadowsocksTarget(w, memory) =
        Took(end + 2, <<[hostname |-> f.hostname, port |-> f.port]>>, Ready(memory))
  <2>. DEFINE e == AddressEnd(type, w, 1)
              frame == [hostname |-> Slice(w, 1, e), port |-> U16(w, e)]
  <2>1. ShadowsocksTarget(w, memory) =
          IF memory.ready THEN More
          ELSE IF type = "none" THEN Invalid
          ELSE IF Len(w) < e + 2 THEN More
          ELSE IF U16(w, e) = 0 THEN Invalid
          ELSE Took(e + 2, <<frame>>, Ready(memory))
    BY DEF ShadowsocksTarget, type
  <2>2. e = end
    BY <1>6
  <2>. HIDE DEF e
  <2>3. frame = [hostname |-> f.hostname, port |-> f.port]
    BY <1>6, <1>7, <2>2
  <2>4. ~(Len(w) < e + 2) /\ U16(w, e) # 0 /\ e + 2 = end + 2
    BY <1>3, <1>5, <1>7, <2>2
  <2>. HIDE DEF frame
  <2>5. ShadowsocksTarget(w, memory) = Took(e + 2, <<frame>>, Ready(memory))
    BY ONLY <1>6, <2>1, <2>4, ~memory.ready
  <2>. QED
    BY ONLY <2>3, <2>4, <2>5, Zenon
<1>9. w # <<>>
  BY <1>3, <1>5, NotEmpty
<1>. DEFINE unit == <<[hostname |-> f.hostname, port |-> f.port]>>
<1>. HIDE DEF unit
<1>10. Head1("target", w, memory) = Took(Len(w), unit, Ready(memory))
  BY <1>5, <1>8 DEF Head1, unit
<1>11. IsUnit("target", w, unit, memory, Ready(memory))
  BY <1>5, <1>9, <1>10 DEF IsUnit
<1>. QED
  BY <1>11 DEF unit, w, a, p

\* The blank line that ends a header.
LEMMA HeaderEndIs ==
  /\ HeaderEnd \in Bytes /\ Len(HeaderEnd) = 4
  /\ HeaderEnd[1] = 13 /\ HeaderEnd[2] = 10 /\ HeaderEnd[3] = 13
  /\ HeaderEnd[4] = 10
<1>1. CrLf \in Bytes /\ Len(CrLf) = 2 /\ CrLf[1] = 13 /\ CrLf[2] = 10
  BY CrLfBytes DEF CrLf
<1>2. IsConcat(HeaderEnd, CrLf, CrLf)
  BY <1>1, ConcatIsConcat DEF HeaderEnd
<1>3. HeaderEnd \in Bytes /\ Len(HeaderEnd) = 4
      /\ \A k \in 1..4 : HeaderEnd[k] = IF k <= 2 THEN CrLf[k] ELSE CrLf[k - 2]
  BY <1>1, <1>2 DEF IsConcat
<1>. QED
  BY <1>1, <1>3

\* A header has been read to its end, and a body of so many bytes is due.
LEMMA SpeedTestAt ==
  ASSUME NEW w \in Bytes, NEW memory \in Memories, NEW i, IsFirst(i, w),
         NEW n \in Nat, Body(w, i + 4) = n, Len(w) = i + 4 + n
  PROVE  IsUnit("speedtest", w, <<[header |-> ~memory.ready]>>, memory,
                Ready(memory))
<1>1. Begins(w, w)
  BY LenNat DEF Begins
<1>2. i \in Nat /\ FirstOf(w) = i /\ Starts(w) # {}
  BY <1>1, FirstIsFirst DEF IsFirst
<1>3. Len(w) \in Nat /\ ~(Len(w) < i + 4 + n) /\ 0 < Len(w)
  BY <1>2
<1>. DEFINE unit == <<[header |-> ~memory.ready]>>
<1>4. SpeedTestRequest(w, memory) =
        IF Len(w) < i + 4 + n THEN More
        ELSE Took(i + 4 + n, unit, Ready(memory))
  BY ONLY <1>2, Body(w, i + 4) = n, SpeedTestIsAt, Zenon
<1>. HIDE DEF unit
<1>5. SpeedTestRequest(w, memory) = Took(Len(w), unit, Ready(memory))
  BY <1>3, <1>4
<1>6. Head1("speedtest", w, memory) = Took(Len(w), unit, Ready(memory))
  BY <1>5 DEF Head1
<1>7. Ready(memory) \in Memories
  BY DEF Memories, Ready
<1>8. w # <<>>
  BY <1>3, NotEmpty
<1>9. IsUnit("speedtest", w, unit, memory, Ready(memory))
  BY <1>6, <1>7, <1>8 DEF IsUnit
<1>. QED
  BY <1>9 DEF unit

\* A request that announces its body is one unit.
LEMMA NamedRequestUnit ==
  ASSUME NEW y0 \in Bytes, Len(y0) \in Byte, NEW memory \in Memories
  PROVE  IsUnit("speedtest",
                <<71>> \o <<ContentLength, Len(y0)>> \o HeaderEnd \o y0,
                <<[header |-> ~memory.ready]>>, memory, Ready(memory))
<1>. DEFINE n == Len(y0)  a == <<71>> \o <<ContentLength, n>>
            c == a \o HeaderEnd  w == c \o y0
<1>. HIDE DEF n, a, c, w
<1>1. n \in Nat /\ n < 256
  <2>1. n \in Byte
    BY DEF n
  <2>. QED
    BY ONLY <2>1 DEF Byte
<1>2. a \in Bytes /\ Len(a) = 3 /\ a[1] = 71 /\ a[2] = 256 /\ a[3] = n
  <2>. DEFINE d == <<71>>  e == <<ContentLength, n>>
  <2>1. d \in Bytes /\ Len(d) = 1 /\ d[1] = 71
    BY DEF Bytes
  <2>2. e \in Bytes /\ Len(e) = 2 /\ e[1] = 256 /\ e[2] = n
    BY <1>1 DEF Bytes, ContentLength
  <2>3. a = d \o e
    BY DEF a
  <2>. HIDE DEF d, e
  <2>4. IsConcat(a, d, e)
    BY <2>1, <2>2, <2>3, ConcatIsConcat
  <2>5. a \in Bytes /\ Len(a) = 3
        /\ \A k \in 1..3 : a[k] = IF k <= 1 THEN d[k] ELSE e[k - 1]
    BY <2>1, <2>2, <2>4 DEF IsConcat
  <2>. QED
    BY <2>1, <2>2, <2>5
<1>3. IsNext(a, HeaderEnd, c, 3, 4)
  BY <1>2, HeaderEndIs, HasNext DEF c
<1>4. c \in Bytes /\ Len(c) = 7 /\ HasAt(c, 3, HeaderEnd) /\ HasAt(c, 0, a)
  BY <1>3 DEF IsNext
<1>5. IsNext(c, y0, w, 7, n)
  BY <1>4, HasNext DEF w, n
<1>6. w \in Bytes /\ Len(w) = 7 + n /\ Keeps(c, w)
  BY <1>5 DEF IsNext
<1>7. HasAt(w, 3, HeaderEnd) /\ HasAt(w, 0, a)
  BY ONLY <1>4, <1>6, Zenon DEF Keeps
<1>8. w[1] = 71 /\ w[2] = 256 /\ w[3] = n
  BY <1>2, <1>7 DEF HasAt
<1>9. w[4] = 13 /\ w[5] = 10 /\ w[6] = 13 /\ w[7] = 10
  BY <1>7, HeaderEndIs DEF HasAt
<1>10. Slice(w, 3, 3 + 4) = HeaderEnd
  <2>1. 3 + 4 = 3 + Len(HeaderEnd)
    BY HeaderEndIs
  <2>. QED
    BY <1>7, <2>1, HasSlice
<1>11. 3 \in Starts(w)
  BY <1>1, <1>6, <1>10 DEF Starts
<1>12. ASSUME NEW j \in Starts(w) PROVE 3 <= j
  <2>1. j \in Nat /\ j + 4 <= Len(w) /\ Slice(w, j, j + 4) = HeaderEnd
    BY <1>1, <1>6, <1>12 DEF Starts
  <2>2. IsSlice(Slice(w, j, j + 4), w, j, j + 4)
    BY <1>6, <2>1, SliceIsSlice
  <2>3. w[j + 1] = 13 /\ w[j + 2] = 10
    BY <2>1, <2>2, HeaderEndIs DEF IsSlice
  <2>4. j # 0 /\ j # 1 /\ j # 2
    BY <1>8, <1>9, <2>3
  <2>. QED
    BY <2>1, <2>4
<1>13. IsFirst(3, w)
  BY <1>11, <1>12 DEF IsFirst
<1>14. Names(w, 7) = {1}
  <2>1. \A i \in 0..6 : w[i + 1] = 256 <=> i = 1
    BY <1>1, <1>8, <1>9
  <2>. QED
    BY <2>1 DEF Names, At, ContentLength
<1>15. Name(w, 7) = 1
  BY <1>14 DEF Name
<1>16. Body(w, 3 + 4) = n
  <2>1. At(w, 1 + 1) = w[3] /\ 3 + 4 = 7
    BY DEF At
  <2>2. Body(w, 7) = At(w, Name(w, 7) + 1)
    BY <1>14 DEF Body
  <2>. QED
    BY <1>8, <1>15, <2>1, <2>2
<1>17. IsUnit("speedtest", w, <<[header |-> ~memory.ready]>>, memory, Ready(memory))
  BY <1>1, <1>6, <1>13, <1>16, SpeedTestAt
<1>. QED
  BY <1>17 DEF w, c, a, n

\* A request without a body is one unit.
LEMMA UnnamedRequestUnit ==
  ASSUME NEW y0 \in Bytes, Len(y0) = 0, NEW memory \in Memories
  PROVE  IsUnit("speedtest", <<71>> \o <<>> \o HeaderEnd \o y0,
                <<[header |-> ~memory.ready]>>, memory, Ready(memory))
<1>. DEFINE a == <<71>> \o <<>>  c == a \o HeaderEnd  w == c \o y0
<1>. HIDE DEF a, c, w
<1>2. a \in Bytes /\ Len(a) = 1 /\ a[1] = 71
  <2>1. a = <<71>>
    BY ByteBytes, ConcatEmptySeq DEF a, Bytes
  <2>. QED
    BY <2>1 DEF Bytes
<1>3. IsNext(a, HeaderEnd, c, 1, 4)
  BY <1>2, HeaderEndIs, HasNext DEF c
<1>4. c \in Bytes /\ Len(c) = 5 /\ HasAt(c, 1, HeaderEnd) /\ HasAt(c, 0, a)
  BY <1>3 DEF IsNext
<1>5. IsNext(c, y0, w, 5, 0)
  BY <1>4, HasNext DEF w
<1>. DEFINE z == 0
<1>6. w \in Bytes /\ Len(w) = 5 + z /\ Keeps(c, w) /\ z \in Nat /\ z = 0
      /\ Len(w) = 5
  BY <1>5 DEF IsNext
<1>. HIDE DEF z
<1>7. HasAt(w, 1, HeaderEnd) /\ HasAt(w, 0, a)
  BY ONLY <1>4, <1>6, Zenon DEF Keeps
<1>8. w[1] = 71
  BY <1>2, <1>7 DEF HasAt
<1>9. w[2] = 13 /\ w[3] = 10 /\ w[4] = 13 /\ w[5] = 10
  BY <1>7, HeaderEndIs DEF HasAt
<1>10. Slice(w, 1, 1 + 4) = HeaderEnd
  <2>1. 1 + 4 = 1 + Len(HeaderEnd)
    BY HeaderEndIs
  <2>. QED
    BY <1>7, <2>1, HasSlice
<1>11. 1 \in Starts(w)
  BY <1>6, <1>10 DEF Starts
<1>12. ASSUME NEW j \in Starts(w) PROVE 1 <= j
  <2>1. j \in Nat /\ j + 4 <= Len(w) /\ Slice(w, j, j + 4) = HeaderEnd
    BY <1>6, <1>12 DEF Starts
  <2>. DEFINE k == j + 4
  <2>10. k \in Nat /\ j <= k /\ k <= Len(w)
    BY <1>6, <2>1
  <2>. HIDE DEF k
  <2>11. IsSlice(Slice(w, j, k), w, j, k)
    BY ONLY <1>6, <2>1, <2>10, SliceIsSlice
  <2>2. IsSlice(Slice(w, j, j + 4), w, j, j + 4)
    BY <2>11 DEF k
  <2>3. w[j + 1] = 13
    BY <2>1, <2>2, HeaderEndIs DEF IsSlice
  <2>4. j # 0
    BY <1>8, <2>3
  <2>. QED
    BY <2>1, <2>4
<1>13. IsFirst(1, w)
  BY <1>11, <1>12 DEF IsFirst
<1>14. Names(w, 5) = {}
  <2>1. \A i \in 0..4 : w[i + 1] # 256
    BY <1>8, <1>9
  <2>. QED
    BY <2>1 DEF Names, At, ContentLength
<1>15. Body(w, 5) = z
  BY <1>6, <1>14 DEF Body
<1>16. IsUnit("speedtest", w, <<[header |-> ~memory.ready]>>, memory, Ready(memory))
  <2>. DEFINE i == 1
  <2>1. Len(w) = i + 4 + z /\ Body(w, i + 4) = z /\ IsFirst(i, w)
    <3>1. i + 4 = 5
      OBVIOUS
    <3>. QED
      BY <1>6, <1>13, <1>15, <3>1
  <2>. HIDE DEF i
  <2>. QED
    BY ONLY <1>6, <2>1, SpeedTestAt, memory \in Memories
<1>. QED
  BY <1>16 DEF w, c, a

----------------------------------------------------------------------------
(* A gRPC message is read as the payload it carries.                       *)

\* Where the length of a payload in a message ends, and what it reads as.
IsLast(p, i) ==
  /\ At(p, i) < VarintBase
  /\ \A j \in 1..(i - 1) : At(p, j) >= VarintBase
LengthEnd(p) == CHOOSE i \in 1..(Len(p) - 1) : IsLast(p, i)
Lengths(f, p, last) ==
  f = [i \in 1..(last + 1) |->
         IF i > last THEN 0
         ELSE (At(p, i) % VarintBase) + VarintBase * f[i + 1]]
LengthOf(p, last) == (CHOOSE f : Lengths(f, p, last))[1]

\* decodeHunkMessage by the names used here.
LEMMA HunkIs ==
  ASSUME NEW p
  PROVE  DecodeHunkMessage(p) =
           IF Len(p) < 2 \/ At(p, 0) # 10 THEN <<p>>
           ELSE IF \A i \in 1..(Len(p) - 1) : At(p, i) >= VarintBase THEN <<>>
           ELSE IF LengthOf(p, LengthEnd(p)) # Len(p) - LengthEnd(p) - 1 THEN <<>>
           ELSE <<From(p, LengthEnd(p) + 1)>>
  BY DEF DecodeHunkMessage, LengthOf, Lengths, LengthEnd, IsLast

\* The last byte of a varint is the first without the continuation bit.
LEMMA LastIs ==
  ASSUME NEW p, NEW n \in Nat, n = Len(p), NEW i \in 1..(n - 1), IsLast(p, i),
         \A j \in 1..(n - 1) : At(p, j) \in Nat
  PROVE  LengthEnd(p) = i
<1>. DEFINE S == 1..(n - 1)
<1>1. S = 1..(Len(p) - 1) /\ i \in S
  OBVIOUS
<1>2. ASSUME NEW k \in S, IsLast(p, k) PROVE k = i
  <2>1. At(p, k) < VarintBase /\ At(p, i) < VarintBase
        /\ At(p, k) \in Nat /\ At(p, i) \in Nat /\ VarintBase \in Nat
    BY <1>2, DecoderAssumption DEF IsLast
  <2>2. ~(k < i)
    <3>1. k < i => k \in 1..(i - 1)
      OBVIOUS
    <3>. QED
      BY <2>1, <3>1 DEF IsLast
  <2>3. ~(i < k)
    <3>1. i < k => i \in 1..(k - 1)
      OBVIOUS
    <3>. QED
      BY <1>2, <2>1, <3>1 DEF IsLast
  <2>. QED
    BY <2>2, <2>3
<1>. HIDE DEF S
<1>3. i = CHOOSE k \in S : IsLast(p, k)
  BY <1>1, <1>2
<1>. QED
  BY <1>1, <1>3 DEF LengthEnd

\* A length below the base is one byte, and below its square two.
LEMMA LengthOfOne ==
  ASSUME NEW p, NEW n \in Nat, n < VarintBase, At(p, 1) = n
  PROVE  LengthOf(p, 1) = n
<1>. DEFINE g == [i \in 1..2 |-> IF i > 1 THEN 0 ELSE n]
            V == VarintBase
<1>1. V \in Nat /\ V > 1 /\ n % V = n /\ n < V
  BY DecoderAssumption
<1>. HIDE DEF V
<1>2. g[1] = n /\ g[2] = 0
  OBVIOUS
<1>3. Lengths(g, p, 1)
  <2>. DEFINE h == [i \in 1..(1 + 1) |->
                      IF i > 1 THEN 0 ELSE (At(p, i) % V) + V * g[i + 1]]
  <2>1. h[1] = n /\ h[2] = 0
    <3>1. h[1] = (At(p, 1) % V) + V * g[1 + 1]
      OBVIOUS
    <3>2. V * g[1 + 1] = 0 /\ At(p, 1) % V = n
      BY <1>1, <1>2
    <3>3. h[2] = 0
      OBVIOUS
    <3>. QED
      BY <3>1, <3>2, <3>3
  <2>2. g = h
    <3>1. g = [i \in 1..2 |-> g[i]] /\ h = [i \in 1..2 |-> h[i]]
      OBVIOUS
    <3>2. \A i \in 1..2 : g[i] = h[i]
      BY <1>2, <2>1
    <3>. HIDE DEF g, h
    <3>. QED
      BY <3>1, <3>2
  <2>. QED
    BY <2>2 DEF Lengths, V
<1>4. ASSUME NEW f, Lengths(f, p, 1) PROVE f[1] = n
  <2>1. f[2] = 0
    BY <1>4 DEF Lengths
  <2>2. f[1] = (At(p, 1) % V) + V * f[1 + 1]
    BY <1>4 DEF Lengths, V
  <2>3. V * f[1 + 1] = 0 /\ At(p, 1) % V = n
    BY <1>1, <2>1
  <2>. QED
    BY <1>1, <2>2, <2>3
<1>. HIDE DEF g
<1>. QED
  BY <1>3, <1>4 DEF LengthOf

\* The digits of a number that needs two.
LEMMA DivisionIs ==
  ASSUME NEW V \in Nat, V > 1, NEW n \in Nat, V <= n, n < V * V
  PROVE  /\ n \div V \in Nat /\ n % V \in Nat /\ n % V < V
         /\ n = (V * (n \div V)) + (n % V)
         /\ 0 < n \div V /\ n \div V < V
<1>. DEFINE q == n \div V  r == n % V
<1>1. q \in Int /\ r \in Int /\ 0 <= r /\ r < V /\ n = (V * q) + r
  OBVIOUS
<1>. HIDE DEF q, r
<1>2. q < V
  <2>1. SUFFICES ASSUME V <= q PROVE FALSE
    BY <1>1
  <2>2. V * V <= V * q
    BY <1>1, <2>1
  <2>3. V * V \in Int /\ V * q \in Int
    BY <1>1
  <2>. QED
    BY <1>1, <2>2, <2>3
<1>3. 0 < q
  <2>1. SUFFICES ASSUME q <= 0 PROVE FALSE
    BY <1>1
  <2>2. V * q <= 0 /\ V * q \in Int
    BY <1>1, <2>1
  <2>. QED
    BY <1>1, <2>2
<1>. QED
  BY <1>1, <1>2, <1>3 DEF q, r

\* A varint of two bytes is read as it was written.
LEMMA LengthOfTwo ==
  ASSUME NEW p, NEW n \in Nat, VarintBase <= n, n < VarintBase * VarintBase,
         At(p, 1) = VarintBase + (n % VarintBase), At(p, 2) = n \div VarintBase
  PROVE  LengthOf(p, 2) = n
<1>. DEFINE V == VarintBase  q == n \div V  r == n % V
            g == [i \in 1..3 |-> IF i > 2 THEN 0 ELSE IF i = 2 THEN q ELSE n]
<1>1. V \in Nat /\ V > 1
  BY DecoderAssumption
<1>2. q \in Nat /\ r \in Nat /\ r < V /\ n = (V * q) + r /\ 0 < q /\ q < V
  BY <1>1, DivisionIs
<1>3. At(p, 1) = V + r /\ At(p, 2) = q
  OBVIOUS
<1>. HIDE DEF V, q, r
<1>4. (V + r) % V = r /\ q % V = q
  BY <1>1, <1>2
<1>5. g[1] = n /\ g[2] = q /\ g[3] = 0
  OBVIOUS
<1>6. Lengths(g, p, 2)
  <2>. DEFINE h == [i \in 1..(2 + 1) |->
                      IF i > 2 THEN 0 ELSE (At(p, i) % V) + V * g[i + 1]]
  <2>1. h[3] = 0
    OBVIOUS
  <2>2. h[2] = q
    <3>1. h[2] = (At(p, 2) % V) + V * g[2 + 1]
      OBVIOUS
    <3>2. V * g[2 + 1] = 0 /\ At(p, 2) % V = q
      BY <1>1, <1>3, <1>4, <1>5
    <3>. QED
      BY <1>2, <3>1, <3>2
  <2>3. h[1] = n
    <3>1. h[1] = (At(p, 1) % V) + V * g[1 + 1]
      OBVIOUS
    <3>2. V * g[1 + 1] = V * q /\ At(p, 1) % V = r
      BY <1>3, <1>4, <1>5
    <3>3. V * q \in Nat
      BY <1>1, <1>2
    <3>. QED
      BY <1>2, <3>1, <3>2, <3>3
  <2>4. g = h
    <3>1. g = [i \in 1..3 |-> g[i]] /\ h = [i \in 1..3 |-> h[i]]
      OBVIOUS
    <3>2. \A i \in 1..3 : g[i] = h[i]
      BY <1>5, <2>1, <2>2, <2>3
    <3>. HIDE DEF g, h
    <3>. QED
      BY <3>1, <3>2
  <2>. QED
    BY <2>4 DEF Lengths, V
<1>7. ASSUME NEW f, Lengths(f, p, 2) PROVE f[1] = n
  <2>1. f[3] = 0
    BY <1>7 DEF Lengths
  <2>2. f[2] = (At(p, 2) % V) + V * f[2 + 1]
        /\ f[1] = (At(p, 1) % V) + V * f[1 + 1]
    BY <1>7 DEF Lengths, V
  <2>3. f[2] = q
    <3>1. V * f[2 + 1] = 0 /\ At(p, 2) % V = q
      BY <1>1, <1>3, <1>4, <2>1
    <3>. QED
      BY <1>2, <2>2, <3>1
  <2>4. V * f[1 + 1] = V * q /\ At(p, 1) % V = r /\ V * q \in Nat
    BY <1>1, <1>2, <1>3, <1>4, <2>3
  <2>. QED
    BY <1>2, <2>2, <2>4
<1>. HIDE DEF g
<1>. QED
  BY <1>6, <1>7 DEF LengthOf

\* A byte at a position is a number.
LEMMA AtIs ==
  ASSUME NEW w \in Bytes, NEW i \in Nat, i < Len(w)
  PROVE  At(w, i) = w[i + 1] /\ At(w, i) \in Nat
<1>1. i + 1 \in 1..Len(w)
  BY LenNat
<1>2. w[i + 1] \in Nat
  BY <1>1, ElementOfSeq DEF Bytes
<1>. QED
  BY <1>2 DEF At

\* What lies up to the end is what From gives.
LEMMA FromBehind ==
  ASSUME NEW w, NEW i, NEW y, HasAt(w, i, y), Len(w) = i + Len(y)
  PROVE  From(w, i) = y
<1>1. Slice(w, i, Len(w)) = y
  BY HasSlice
<1>. QED
  BY <1>1 DEF From, Slice

\* What is carried with a length of one byte, or of two.
LEMMA ShortHunk ==
  ASSUME NEW y \in Bytes, Len(y) < VarintBase
  PROVE  LET p == <<10>> \o <<Len(y)>> \o y
         IN p \in Bytes /\ DecodeHunkMessage(p) = <<y>>
<1>. DEFINE n == Len(y)  t == <<10>>  l == <<n>>  a == t \o l  p == a \o y
            m == n + 2
<1>1. n \in Nat /\ n < VarintBase /\ VarintBase \in Nat
  BY LenNat, DecoderAssumption
<1>. HIDE DEF n, t, l, a, p, m
<1>2. t \in Bytes /\ Len(t) = 1 /\ t[1] = 10
  BY ByteBytes DEF t
<1>3. l \in Bytes /\ Len(l) = 1 /\ l[1] = n
  BY <1>1, ByteBytes DEF l
<1>4. IsNext(t, l, a, 1, 1)
  BY <1>2, <1>3, HasNext DEF a
<1>5. a \in Bytes /\ Len(a) = 2 /\ HasAt(a, 1, l) /\ HasAt(a, 0, t)
  BY <1>4 DEF IsNext
<1>6. IsNext(a, y, p, 2, n)
  BY <1>5, HasNext DEF p, n
<1>7. p \in Bytes /\ Len(p) = 2 + n /\ Keeps(a, p) /\ HasAt(p, 2, y)
  BY <1>6 DEF IsNext
<1>8. HasAt(p, 1, l) /\ HasAt(p, 0, t)
  BY ONLY <1>5, <1>7, Zenon DEF Keeps
<1>9. At(p, 0) = 10 /\ At(p, 1) = n
  BY <1>2, <1>3, <1>8 DEF HasAt, At
<1>10. m \in Nat /\ m = Len(p) /\ 1 \in 1..(m - 1) /\ ~(Len(p) < 2)
  BY <1>1, <1>7 DEF m
<1>11. \A j \in 1..(m - 1) : At(p, j) \in Nat
  <2>1. SUFFICES ASSUME NEW j \in 1..(m - 1) PROVE At(p, j) \in Nat
    OBVIOUS
  <2>2. j \in Nat /\ j < Len(p)
    BY <1>10
  <2>. QED
    BY <1>7, <2>2, AtIs
<1>12. IsLast(p, 1)
  BY <1>1, <1>9 DEF IsLast
<1>13. LengthEnd(p) = 1
  <2>. DEFINE i == 1
  <2>1. i \in 1..(m - 1) /\ IsLast(p, i) /\ i = 1
    BY <1>10, <1>12
  <2>. HIDE DEF i
  <2>2. LengthEnd(p) = i
    BY ONLY <1>10, <1>11, <2>1, LastIs
  <2>. QED
    BY <2>1, <2>2
<1>14. LengthOf(p, 1) = n
  BY <1>1, <1>9, LengthOfOne
<1>15. From(p, 2) = y
  BY <1>7, FromBehind DEF n
<1>16. ~(\A i \in 1..(Len(p) - 1) : At(p, i) >= VarintBase)
  BY <1>1, <1>9, <1>10
<1>17. LengthOf(p, LengthEnd(p)) = Len(p) - LengthEnd(p) - 1
  BY <1>1, <1>7, <1>13, <1>14
<1>18. LengthEnd(p) + 1 = 2
  BY <1>13
<1>19. DecodeHunkMessage(p) = <<From(p, LengthEnd(p) + 1)>>
  BY ONLY <1>9, <1>10, <1>16, <1>17, HunkIs
<1>20. p \in Bytes /\ DecodeHunkMessage(p) = <<y>>
  BY <1>7, <1>15, <1>18, <1>19
<1>. QED
  BY <1>20 DEF p, a, l, t, n

\* A message with a length of two bytes is decoded.
LEMMA LongHunk ==
  ASSUME NEW y \in Bytes, VarintBase <= Len(y),
         Len(y) < VarintBase * VarintBase
  PROVE  LET n == Len(y)
             p == <<10>> \o <<VarintBase + (n % VarintBase), n \div VarintBase>> \o y
         IN p \in Bytes /\ DecodeHunkMessage(p) = <<y>>
<1>. DEFINE n == Len(y)  V == VarintBase  q == n \div V  r == n % V  t == <<10>>
            l == <<V + r, q>>  a == t \o l  p == a \o y  m == n + 3
<1>1. n \in Nat /\ V <= n /\ n < V * V /\ V \in Nat /\ V > 1
  BY LenNat, DecoderAssumption
<1>. HIDE DEF n, V, q, r, t, l, a, p, m
<1>100. q \in Nat /\ r \in Nat /\ r < V /\ 0 < q /\ q < V
  BY <1>1, DivisionIs DEF q, r
<1>2. t \in Bytes /\ Len(t) = 1 /\ t[1] = 10
  BY ByteBytes DEF t
<1>3. l \in Bytes /\ Len(l) = 2 /\ l[1] = V + r /\ l[2] = q
  <2>1. V + r \in Nat
    BY <1>1, <1>100
  <2>. QED
    BY <1>100, <2>1 DEF l, Bytes
<1>4. IsNext(t, l, a, 1, 2)
  BY <1>2, <1>3, HasNext DEF a
<1>5. a \in Bytes /\ Len(a) = 3 /\ HasAt(a, 1, l) /\ HasAt(a, 0, t)
  BY <1>4 DEF IsNext
<1>6. IsNext(a, y, p, 3, n)
  BY <1>5, HasNext DEF p, n
<1>7. p \in Bytes /\ Len(p) = 3 + n /\ Keeps(a, p) /\ HasAt(p, 3, y)
  BY <1>6 DEF IsNext
<1>8. HasAt(p, 1, l) /\ HasAt(p, 0, t)
  BY ONLY <1>5, <1>7, Zenon DEF Keeps
<1>9. At(p, 0) = 10 /\ At(p, 1) = V + r /\ At(p, 2) = q
  <2>1. p[1 + 1] = l[1] /\ p[1 + 2] = l[2] /\ p[0 + 1] = t[1]
    BY <1>2, <1>3, <1>8 DEF HasAt
  <2>. QED
    BY <1>2, <1>3, <2>1 DEF At
<1>10. m \in Nat /\ m = Len(p) /\ 2 \in 1..(m - 1) /\ ~(Len(p) < 2)
  BY <1>1, <1>7 DEF m
<1>11. \A j \in 1..(m - 1) : At(p, j) \in Nat
  <2>1. SUFFICES ASSUME NEW j \in 1..(m - 1) PROVE At(p, j) \in Nat
    OBVIOUS
  <2>2. j \in Nat /\ j < Len(p)
    BY <1>10
  <2>. QED
    BY <1>7, <2>2, AtIs
<1>12. IsLast(p, 2)
  <2>1. At(p, 2) < V /\ At(p, 1) >= V
    BY <1>1, <1>9, <1>100
  <2>2. \A j \in 1..(2 - 1) : j = 1
    OBVIOUS
  <2>. QED
    BY <2>1, <2>2 DEF IsLast, V
<1>13. LengthEnd(p) = 2
  <2>. DEFINE i == 2
  <2>1. i \in 1..(m - 1) /\ IsLast(p, i) /\ i = 2
    BY <1>10, <1>12
  <2>. HIDE DEF i
  <2>2. LengthEnd(p) = i
    BY ONLY <1>10, <1>11, <2>1, LastIs
  <2>. QED
    BY <2>1, <2>2
<1>14. LengthOf(p, 2) = n
  <2>1. /\ VarintBase <= n /\ n < VarintBase * VarintBase
        /\ At(p, 1) = VarintBase + (n % VarintBase) /\ At(p, 2) = n \div VarintBase
    BY <1>1, <1>9 DEF V, q, r
  <2>. QED
    BY ONLY <1>1, <2>1, LengthOfTwo
<1>15. From(p, 3) = y
  BY <1>7, FromBehind DEF n
<1>16. ~(\A i \in 1..(Len(p) - 1) : At(p, i) >= VarintBase)
  <2>1. 2 \in 1..(Len(p) - 1) /\ ~(At(p, 2) >= V)
    BY <1>1, <1>9, <1>10, <1>100
  <2>. QED
    BY <2>1 DEF V
<1>17. LengthOf(p, LengthEnd(p)) = Len(p) - LengthEnd(p) - 1
  BY <1>1, <1>7, <1>13, <1>14
<1>18. LengthEnd(p) + 1 = 3
  BY <1>13
<1>19. DecodeHunkMessage(p) = <<From(p, LengthEnd(p) + 1)>>
  BY ONLY <1>9, <1>10, <1>16, <1>17, HunkIs
<1>20. p \in Bytes /\ DecodeHunkMessage(p) = <<y>>
  BY <1>7, <1>15, <1>18, <1>19
<1>. QED
  BY <1>20 DEF p, a, l, t, n, q, r, V

\* What the client puts into a message for a frame.
Message(f) == IF f.hunk THEN <<10>> \o Varint(Len(f.payload)) \o f.payload
              ELSE f.payload

\* A message is decoded to its payload, in an envelope or bare.
LEMMA MessageIs ==
  ASSUME NEW f, IsFrame("grpc", f)
  PROVE  Message(f) \in Bytes /\ DecodeHunkMessage(Message(f)) = <<f.payload>>
<1>. DEFINE y == f.payload  V == VarintBase  n == Len(y)
<1>1. /\ f.hunk \in BOOLEAN /\ y \in Field
      /\ f.hunk => n < V * V
      /\ ~f.hunk => n < 2 \/ y[1] # 10
  BY DEF IsFrame
<1>2. y \in Bytes /\ n \in Nat /\ V \in Nat
  BY <1>1, FieldBytes, DecoderAssumption
<1>3. CASE f.hunk /\ n < V
  <2>1. Message(f) = <<10>> \o <<Len(y)>> \o y
    BY <1>3 DEF Message, Varint
  <2>. QED
    BY <1>2, <1>3, <2>1, ShortHunk
<1>4. CASE f.hunk /\ ~(n < V)
  <2>1. Message(f) = <<10>> \o <<V + (n % V), n \div V>> \o y
    BY <1>4 DEF Message, Varint
  <2>2. V <= n /\ n < V * V
    BY <1>1, <1>2, <1>4
  <2>. QED
    BY <1>2, <2>1, <2>2, LongHunk
<1>5. CASE ~f.hunk
  <2>1. Message(f) = y
    BY <1>5 DEF Message
  <2>2. Len(y) < 2 \/ At(y, 0) # 10
    BY <1>1, <1>5 DEF At
  <2>. QED
    BY <1>2, <2>1, <2>2, HunkIs
<1>. QED
  BY <1>1, <1>3, <1>4, <1>5

\* A gRPC frame is one unit.
LEMMA GrpcUnit ==
  ASSUME NEW f, IsFrame("grpc", f), NEW memory \in Memories
  PROVE  IsUnit("grpc",
                <<0, 0, 0>> \o Be16(Len(Message(f))) \o Message(f),
                <<f.payload>>, memory, memory)
<1>. DEFINE y == Message(f)  n == Len(y)  z == <<0, 0, 0>>  l == Be16(n)
            a == z \o l  b == a \o y
<1>1. y \in Bytes /\ DecodeHunkMessage(y) = <<f.payload>>
  BY MessageIs
<1>2. n \in Nat
  BY <1>1, LenNat
<1>. HIDE DEF y, n, z, l, a, b
<1>3. l \in Bytes /\ Len(l) = 2
  BY <1>2, Be16Bytes DEF l
<1>4. z \in Bytes /\ Len(z) = 3 /\ z[1] = 0 /\ z[2] = 0 /\ z[3] = 0
  BY DEF z, Bytes
<1>5. IsNext(z, l, a, 3, 2)
  BY <1>3, <1>4, HasNext DEF a
<1>6. a \in Bytes /\ Len(a) = 5 /\ HasAt(a, 3, l) /\ HasAt(a, 0, z)
  BY <1>5 DEF IsNext
<1>7. IsNext(a, y, b, 5, n)
  BY <1>1, <1>6, HasNext DEF b, n
<1>8. b \in Bytes /\ Len(b) = 5 + n /\ Keeps(a, b) /\ HasAt(b, 5, y)
  BY <1>7 DEF IsNext
<1>9. HasAt(b, 3, l) /\ HasAt(b, 0, z)
  BY ONLY <1>6, <1>8, Zenon DEF Keeps
<1>10. U16(b, 3) = n
  BY <1>2, <1>9, HasU16 DEF l
<1>11. At(b, 0) = 0 /\ U16(b, 1) = 0
  <2>1. b[0 + 1] = z[1] /\ b[0 + 2] = z[2] /\ b[0 + 3] = z[3]
    BY <1>4, <1>9 DEF HasAt
  <2>. QED
    BY <1>4, <2>1 DEF At, U16
<1>. DEFINE length == 65536 * U16(b, 1) + U16(b, 3)
            payload == DecodeHunkMessage(Slice(b, 5, 5 + length))
<1>12. length = n
  BY <1>2, <1>10, <1>11
<1>13. GrpcFrame(b, memory) =
         IF Len(b) < 5 THEN More
         ELSE IF At(b, 0) # 0 THEN Invalid
         ELSE IF Len(b) < 5 + length THEN More
         ELSE IF payload = <<>> THEN Invalid
         ELSE Took(5 + length, payload, memory)
  BY DEF GrpcFrame
<1>. HIDE DEF length
<1>14. Slice(b, 5, 5 + length) = y
  BY <1>8, <1>12, HasSlice DEF n
<1>. DEFINE unit == <<f.payload>>
<1>15. payload = unit
  BY <1>1, <1>14
<1>16. unit # <<>>
  OBVIOUS
<1>17. ~(Len(b) < 5) /\ ~(Len(b) < 5 + length) /\ Len(b) = 5 + length
  BY <1>2, <1>8, <1>12
<1>. HIDE DEF payload, unit
<1>18. GrpcFrame(b, memory) = Took(Len(b), unit, memory)
  BY ONLY <1>11, <1>13, <1>15, <1>16, <1>17
<1>19. b # <<>>
  BY <1>2, <1>8, NotEmpty
<1>20. Head1("grpc", b, memory) = Took(Len(b), unit, memory)
  BY <1>18 DEF Head1
<1>21. IsUnit("grpc", b, unit, memory, memory)
  BY <1>8, <1>19, <1>20 DEF IsUnit
<1>. QED
  BY <1>21 DEF unit, b, a, z, l, n, y

----------------------------------------------------------------------------
(* A handshake is read in the format it was written in.                    *)

\* The credentials, and the bytes that tell them apart.
LEMMA CredentialBytes ==
  /\ VlessId \in Bytes /\ Len(VlessId) = Uuid /\ Uuid \in Nat \ {0}
  /\ VlessId[1] = 7
  /\ TrojanHash \in Bytes /\ Len(TrojanHash) = Hash /\ Hash \in Nat /\ Hash > 1
  /\ TrojanHash[1] = 9 /\ TrojanHash[2] = 9
<1>1. Uuid \in Nat \ {0} /\ Hash \in Nat /\ Hash > 1
  BY DecoderAssumption
<1>2. VlessId \in [1..Uuid -> Nat] /\ TrojanHash \in [1..Hash -> Nat]
  BY DEF VlessId, TrojanHash
<1>3. VlessId \in Bytes /\ Len(VlessId) = Uuid
  BY <1>1, <1>2, SeqDef DEF Bytes
<1>4. TrojanHash \in Bytes /\ Len(TrojanHash) = Hash
  BY <1>1, <1>2, SeqDef DEF Bytes
<1>5. VlessId[1] = 7 /\ TrojanHash[1] = 9 /\ TrojanHash[2] = 9
  BY <1>1 DEF VlessId, TrojanHash
<1>. QED
  BY <1>1, <1>3, <1>4, <1>5

\* What the parser finds where a VLESS request is.
LEMMA VlessRead ==
  ASSUME NEW f, IsAddress(f, VlessType), f.port \in Nat \ {0},
         f.hostname # << 0 >>, NEW w, NEW k \in Nat, NEW c \in {1, 2},
         HasAt(w, 1, VlessId), HasAt(w, Uuid + 1, <<k>>),
         NEW command, command = Uuid + 2 + k, HasAt(w, command, <<c>>),
         HasAt(w, command + 1, Be16(f.port)), HasAt(w, command + 3, Address(f)),
         Len(w) = command + 4 + Len(f.hostname)
  PROVE  LET v == RequiredVlessBytes(w) IN
         /\ v # -1 /\ v = Len(w)
         /\ ParseVlessRequest(w, v) =
              <<[protocol |-> "vless", hostname |-> f.hostname,
                 port |-> f.port, isUDP |-> c = 2]>>
<1>. DEFINE U == Uuid  h == Len(f.hostname)
            type == TypeIn(VlessType, At(w, command + 3))
<1>1. U \in Nat \ {0} /\ command \in Nat /\ w \in Bytes /\ Len(w) \in Nat
  BY CredentialBytes, LenNat DEF HasAt
<1>2. h \in Nat \ {0} /\ f.hostname \in Bytes /\ f.hostname[1] \in Nat
      /\ VlessType[f.type] \in {"v4", "v6", "domain"} /\ f.type \in DOMAIN VlessType
  BY AddressBytes
<1>3. At(w, U + 1) = k
  BY HasOneByte
<1>4. At(w, command) = c
  BY HasOneByte
<1>5. U16(w, command + 1) = f.port
  BY HasU16
<1>6. /\ type # "none" /\ AddressEnd(type, w, command + 4) = Len(w)
      /\ Slice(w, command + 4, Len(w)) = f.hostname
  <2>. DEFINE i == command + 3
  <2>1. i + 1 = command + 4 /\ i \in Nat /\ At(w, i) = w[i + 1]
        /\ i + 1 + h = Len(w)
    <3>1. At(w, i) = w[i + 1]
      BY ONLY DEF At
    <3>2. i + 1 = command + 4 /\ i \in Nat
      BY ONLY <1>1
    <3>3. i + 1 + h = Len(w)
      BY ONLY <1>1, <1>2, Len(w) = command + 4 + Len(f.hostname)
    <3>. QED
      BY ONLY <3>1, <3>2, <3>3
  <2>2. VlessType \in {SocksType, VlessType} /\ HasAt(w, i, Address(f))
    OBVIOUS
  <2>3. type = TypeIn(VlessType, w[i + 1])
    BY <2>1
  <2>. HIDE DEF i
  <2>4. LET t == TypeIn(VlessType, w[i + 1])
            e == i + 1 + Len(f.hostname)
        IN t # "none" /\ AddressEnd(t, w, i + 1) = e
           /\ Slice(w, i + 1, e) = f.hostname
    BY ONLY <2>2, IsAddress(f, VlessType), HasAddress
  <2>. HIDE DEF type
  <2>. QED
    BY <2>1, <2>3, <2>4
<1>7. Slice(w, 1, 1 + U) = VlessId
  BY CredentialBytes, HasSlice
\* An address is longer than one byte, or it is an empty name.
<1>8. h > 1
  <2>0. V4 \in Nat /\ V4 > 1 /\ V6 \in Nat /\ V6 > 1
    BY ONLY DecoderAssumption
  <2>1. CASE VlessType[f.type] = "v4"
    <3>1. h = V4
      BY <2>1 DEF IsAddress
    <3>. QED
      BY ONLY <2>0, <3>1
  <2>2. CASE VlessType[f.type] = "v6"
    <3>1. h = V6
      BY <2>2 DEF IsAddress
    <3>. QED
      BY ONLY <2>0, <3>1
  <2>3. CASE VlessType[f.type] = "domain"
    <3>1. h = 1 + f.hostname[1]
      BY <2>3 DEF IsAddress
    <3>2. f.hostname[1] # 0
      <4>1. SUFFICES ASSUME f.hostname[1] = 0 PROVE FALSE
        OBVIOUS
      <4>2. Len(f.hostname) = 1
        BY <3>1, <4>1
      <4>. DEFINE g == <<0>>  d == f.hostname
      <4>3. g \in Bytes /\ Len(g) = 1 /\ g[1] = 0
        BY ByteBytes
      <4>4. d \in Bytes /\ Len(d) = 1 /\ d[1] = 0 /\ d # g
        BY <1>2, <4>1, <4>2
      <4>. HIDE DEF d, g
      <4>5. \A j \in 1..Len(d) : d[j] = g[j]
        BY <4>3, <4>4
      <4>. QED
        BY <4>3, <4>4, <4>5, BytesEqual
    <3>. DEFINE x == f.hostname[1]
    <3>3. x \in Nat /\ x # 0 /\ h = 1 + x
      BY <1>2, <3>1, <3>2
    <3>. HIDE DEF x, h
    <3>. QED
      BY ONLY <3>3
  <2>. QED
    BY <1>2, <2>1, <2>2, <2>3
<1>. DEFINE cmd == U + 2 + At(w, U + 1)
            t == TypeIn(VlessType, At(w, cmd + 3))
<1>9. RequiredVlessBytes(w) =
        IF Len(w) < U + 3 \/ Len(w) <= cmd THEN Unknown(w)
        ELSE IF At(w, cmd) \notin {1, 2} THEN -1
        ELSE IF Len(w) <= cmd + 3 THEN Unknown(w)
        ELSE IF t = "none" THEN -1
        ELSE AddressEnd(t, w, cmd + 4)
  BY DEF RequiredVlessBytes
<1>10. cmd = command
  BY <1>3
<1>. HIDE DEF cmd
<1>11. t = type
  BY <1>10
<1>12. ~(Len(w) < U + 3) /\ ~(Len(w) <= cmd) /\ ~(Len(w) <= cmd + 3)
       /\ Len(w) >= U + 8 /\ Len(w) \in Nat
  <2>. DEFINE L == Len(w)
  <2>1. L = command + 4 + h /\ command = U + 2 + k /\ L \in Nat /\ h \in Nat
        /\ U \in Nat /\ cmd = command /\ h > 1
    BY <1>1, <1>2, <1>8, <1>10
  <2>. HIDE DEF L, h, U
  <2>2. ~(L < U + 3) /\ ~(L <= cmd) /\ ~(L <= cmd + 3) /\ L >= U + 8
    BY ONLY <2>1, k \in Nat
  <2>. QED
    BY ONLY <2>1, <2>2 DEF L
<1>. HIDE DEF t, type, h, U
<1>13. RequiredVlessBytes(w) = Len(w)
  BY ONLY <1>4, <1>6, <1>9, <1>10, <1>11, <1>12, c \in {1, 2}
<1>. DEFINE port == U16(w, cmd + 1)  hostname == Slice(w, cmd + 4, Len(w))
<1>14. ParseVlessRequest(w, Len(w)) =
         IF /\ Len(w) >= U + 8
            /\ Slice(w, 1, 1 + U) = VlessId /\ port # 0 /\ hostname # <<0>>
         THEN <<[protocol |-> "vless", hostname |-> hostname, port |-> port,
                 isUDP |-> At(w, cmd) = 2]>>
         ELSE <<>>
  BY DEF ParseVlessRequest, cmd, U
<1>15. port = f.port /\ hostname = f.hostname /\ At(w, cmd) = c
  BY <1>4, <1>5, <1>6, <1>10
<1>. HIDE DEF port, hostname
<1>16. ParseVlessRequest(w, Len(w)) =
         <<[protocol |-> "vless", hostname |-> hostname, port |-> port,
            isUDP |-> At(w, cmd) = 2]>>
  BY ONLY <1>7, <1>12, <1>14, <1>15, f.port \in Nat \ {0}, f.hostname # <<0>>
<1>17. ParseVlessRequest(w, Len(w)) =
         <<[protocol |-> "vless", hostname |-> f.hostname, port |-> f.port,
            isUDP |-> c = 2]>>
  BY ONLY <1>15, <1>16, Zenon
<1>18. Len(w) # -1
  BY <1>1
<1>. QED
  BY <1>13, <1>17, <1>18

\* What the handshake makes of one of the two.
LEMMA VlessFirst ==
  ASSUME NEW w \in Bytes, NEW memory \in Memories, ~memory.ready,
         NEW r, r # <<>>, RequiredVlessBytes(w) # -1,
         RequiredVlessBytes(w) = Len(w), ParseVlessRequest(w, Len(w)) = r
  PROVE  TryParseTunnelHandshake(w, memory) = Took(Len(w), r, Ready(memory))
<1>1. Len(w) \in Nat
  BY LenNat
<1>2. Len(w) >= RequiredVlessBytes(w)
  BY <1>1
<1>. QED
  BY ONLY <1>2, ~memory.ready, r # <<>>, RequiredVlessBytes(w) # -1,
     RequiredVlessBytes(w) = Len(w), ParseVlessRequest(w, Len(w)) = r,
     Zenon DEF TryParseTunnelHandshake

\* A VLESS request is one unit.
LEMMA VlessUnit ==
  ASSUME NEW f, IsAddress(f, VlessType), f.port \in Nat \ {0},
         f.hostname # << 0 >>, f.option \in Bytes, NEW c \in {1, 2},
         NEW memory \in Memories, ~memory.ready, Ready(memory) \in Memories
  PROVE  IsUnit("handshake",
                << 0 >> \o VlessId \o <<Len(f.option)>> \o f.option
                  \o <<c>> \o Be16(f.port) \o Address(f),
                <<[protocol |-> "vless", hostname |-> f.hostname,
                   port |-> f.port, isUDP |-> c = 2]>>,
                memory, Ready(memory))
<1>. DEFINE k == Len(f.option)  z == <<0>>  id == VlessId  kk == <<k>>
            o == f.option  cc == <<c>>  p == Be16(f.port)  a == Address(f)
            w1 == z \o id  w2 == w1 \o kk  w3 == w2 \o o  w4 == w3 \o cc
            w5 == w4 \o p  w == w5 \o a  U == Uuid  m == 1 + Len(f.hostname)
            command == U + 2 + k
<1>1. k \in Nat /\ U \in Nat \ {0}
  BY LenNat, CredentialBytes
<1>2. z \in Bytes /\ Len(z) = 1 /\ kk \in Bytes /\ Len(kk) = 1
      /\ cc \in Bytes /\ Len(cc) = 1
  BY <1>1, ByteBytes
<1>3. id \in Bytes /\ Len(id) = U /\ o \in Bytes /\ Len(o) = k
      /\ p \in Bytes /\ Len(p) = 2
  BY CredentialBytes, Be16Bytes
<1>4. a \in Bytes /\ Len(a) = m /\ Len(f.hostname) \in Nat /\ m \in Nat
  BY AddressBytes
<1>. HIDE DEF k, z, id, kk, o, cc, p, a, w1, w2, w3, w4, w5, w, U, m, command
<1>5. IsNext(z, id, w1, 1, U)
  BY <1>2, <1>3, HasNext DEF w1
<1>6. w1 \in Bytes /\ Len(w1) = 1 + U
  BY <1>5 DEF IsNext
<1>7. IsNext(w1, kk, w2, 1 + U, 1)
  BY <1>2, <1>6, HasNext DEF w2
<1>8. w2 \in Bytes /\ Len(w2) = 1 + U + 1
  BY <1>7 DEF IsNext
<1>9. IsNext(w2, o, w3, 1 + U + 1, k)
  BY <1>3, <1>8, HasNext DEF w3
<1>10. w3 \in Bytes /\ Len(w3) = 1 + U + 1 + k
  BY <1>9 DEF IsNext
<1>11. IsNext(w3, cc, w4, 1 + U + 1 + k, 1)
  BY <1>2, <1>10, HasNext DEF w4
<1>12. w4 \in Bytes /\ Len(w4) = 1 + U + 1 + k + 1
  BY <1>11 DEF IsNext
<1>13. IsNext(w4, p, w5, 1 + U + 1 + k + 1, 2)
  BY <1>3, <1>12, HasNext DEF w5
<1>14. w5 \in Bytes /\ Len(w5) = 1 + U + 1 + k + 1 + 2
  BY <1>13 DEF IsNext
<1>15. IsNext(w5, a, w, 1 + U + 1 + k + 1 + 2, m)
  BY <1>4, <1>14, HasNext DEF w
<1>16. w \in Bytes /\ Len(w) = 1 + U + 1 + k + 1 + 2 + m
       /\ HasAt(w, 1 + U + 1 + k + 1 + 2, a)
  BY <1>15 DEF IsNext
<1>17. Keeps(w1, w2) /\ Keeps(w2, w3) /\ Keeps(w3, w4) /\ Keeps(w4, w5)
       /\ Keeps(w5, w)
  BY <1>7, <1>9, <1>11, <1>13, <1>15 DEF IsNext
<1>18. HasAt(w1, 1, id) /\ HasAt(w2, 1 + U, kk) /\ HasAt(w4, 1 + U + 1 + k, cc)
       /\ HasAt(w5, 1 + U + 1 + k + 1, p)
  BY <1>5, <1>7, <1>11, <1>13 DEF IsNext
<1>19. HasAt(w, 1, id) /\ HasAt(w, 1 + U, kk)
  BY ONLY <1>17, <1>18, Zenon DEF Keeps
<1>20. HasAt(w, 1 + U + 1 + k, cc) /\ HasAt(w, 1 + U + 1 + k + 1, p)
  BY ONLY <1>17, <1>18, Zenon DEF Keeps
<1>21. /\ command \in Nat /\ command = U + 2 + k /\ 1 + U = U + 1
       /\ 1 + U + 1 + k = command /\ 1 + U + 1 + k + 1 = command + 1
       /\ 1 + U + 1 + k + 1 + 2 = command + 3
       /\ Len(w) = command + 4 + Len(f.hostname) /\ 0 < Len(w)
  <2>. DEFINE L == Len(w)  h == Len(f.hostname)
  <2>1. L = 1 + U + 1 + k + 1 + 2 + m /\ h \in Nat /\ m = 1 + h
        /\ command = U + 2 + k /\ U \in Nat /\ k \in Nat
    BY <1>1, <1>4, <1>16 DEF command, m
  <2>. HIDE DEF L, h
  <2>2. /\ command \in Nat /\ command = U + 2 + k /\ 1 + U = U + 1
        /\ 1 + U + 1 + k = command /\ 1 + U + 1 + k + 1 = command + 1
        /\ 1 + U + 1 + k + 1 + 2 = command + 3
        /\ L = command + 4 + h /\ 0 < L
    BY ONLY <2>1
  <2>. QED
    BY ONLY <2>2 DEF L, h
<1>22. HasAt(w, U + 1, kk) /\ HasAt(w, command, cc) /\ HasAt(w, command + 1, p)
       /\ HasAt(w, command + 3, a)
  BY <1>16, <1>19, <1>20, <1>21
<1>. DEFINE r == <<[protocol |-> "vless", hostname |-> f.hostname,
                    port |-> f.port, isUDP |-> c = 2]>>
<1>23. LET v == RequiredVlessBytes(w) IN
         v # -1 /\ v = Len(w) /\ ParseVlessRequest(w, v) = r
  BY <1>1, <1>19, <1>21, <1>22, VlessRead DEF kk, cc, p, a, U, id
<1>24. r # <<>>
  OBVIOUS
<1>. HIDE DEF r
<1>25. TryParseTunnelHandshake(w, memory) = Took(Len(w), r, Ready(memory))
  BY <1>16, <1>23, <1>24, VlessFirst
<1>26. w # <<>>
  BY <1>16, <1>21, NotEmpty
<1>27. Head1("handshake", w, memory) = Took(Len(w), r, Ready(memory))
  BY <1>25 DEF Head1
<1>28. IsUnit("handshake", w, r, memory, Ready(memory))
  BY <1>16, <1>26, <1>27 DEF IsUnit
<1>. QED
  BY <1>28 DEF r, w, w5, w4, w3, w2, w1, k, z, id, kk, o, cc, p, a

\* No VLESS request starts with a Trojan credential.
LEMMA TrojanIsNotVless ==
  ASSUME NEW w, HasAt(w, 0, TrojanHash), NEW v
  PROVE  ParseVlessRequest(w, v) = <<>>
<1>. DEFINE U == Uuid
<1>1. w \in Bytes /\ Len(w) \in Nat /\ U \in Nat \ {0} /\ w[0 + 2] = 9
  BY CredentialBytes, LenNat DEF HasAt
<1>2. ASSUME Len(w) >= U + 8, Slice(w, 1, 1 + U) = VlessId PROVE FALSE
  <2>. DEFINE i == 1  j == 1 + U
  <2>1. i \in Nat /\ j \in Nat /\ j <= Len(w) /\ 1 \in 1..(j - i) /\ i + 1 = 2
    BY <1>1, <1>2
  <2>2. Slice(w, i, j)[1] = 7
    BY <1>2, CredentialBytes
  <2>. HIDE DEF i, j
  <2>3. IsSlice(Slice(w, i, j), w, i, j)
    BY <1>1, <2>1, SliceIsSlice
  <2>4. Slice(w, i, j)[1] = w[i + 1]
    BY <2>1, <2>3 DEF IsSlice
  <2>. QED
    BY <1>1, <2>1, <2>2, <2>4
<1>. HIDE DEF U
<1>3. ~(Len(w) >= U + 8 /\ Slice(w, 1, 1 + U) = VlessId)
  BY <1>2
<1>. QED
  BY <1>3 DEF ParseVlessRequest, U

\* What the parser finds where a Trojan request is.
LEMMA TrojanRead ==
  ASSUME NEW f, IsAddress(f, SocksType), f.port \in Nat \ {0},
         f.hostname # << 0 >>, NEW w, NEW c \in {1, 3},
         HasAt(w, 0, TrojanHash), HasAt(w, Hash, CrLf), HasAt(w, Hash + 2, <<c>>),
         HasAt(w, Hash + 3, Address(f)),
         NEW e, e = Hash + 4 + Len(f.hostname),
         HasAt(w, e, Be16(f.port)), HasAt(w, e + 2, CrLf), Len(w) = e + 4
  PROVE  LET t == RequiredTrojanBytes(w) IN
         /\ t # -1 /\ t = Len(w)
         /\ ParseTrojanRequest(w, t) =
              <<[protocol |-> "trojan", hostname |-> f.hostname,
                 port |-> f.port, isUDP |-> c = 3]>>
<1>. DEFINE H == Hash  h == Len(f.hostname)
            type == TypeIn(SocksType, At(w, H + 3))
<1>1. H \in Nat /\ H > 1 /\ w \in Bytes /\ Len(w) \in Nat /\ h \in Nat
  BY CredentialBytes, LenNat, AddressBytes DEF HasAt
<1>2. At(w, H + 2) = c
  BY HasOneByte
<1>3. U16(w, e) = f.port
  BY HasU16
<1>4. /\ type # "none" /\ AddressEnd(type, w, H + 4) = e
      /\ Slice(w, H + 4, e) = f.hostname
  <2>. DEFINE i == H + 3
  <2>1. i + 1 = H + 4 /\ i \in Nat /\ At(w, i) = w[i + 1] /\ i + 1 + h = e
    BY <1>1 DEF At
  <2>2. SocksType \in {SocksType, VlessType} /\ HasAt(w, i, Address(f))
    OBVIOUS
  <2>3. type = TypeIn(SocksType, w[i + 1])
    BY <2>1
  <2>. HIDE DEF i
  <2>4. LET t == TypeIn(SocksType, w[i + 1])
            n == i + 1 + Len(f.hostname)
        IN t # "none" /\ AddressEnd(t, w, i + 1) = n
           /\ Slice(w, i + 1, n) = f.hostname
    BY ONLY <2>2, IsAddress(f, SocksType), HasAddress
  <2>. HIDE DEF type
  <2>. QED
    BY <2>1, <2>3, <2>4
<1>5. Slice(w, 0, H) = TrojanHash
  BY CredentialBytes, SliceFirst
<1>6. Slice(w, H, H + 2) = CrLf
  <2>. DEFINE j == H + 2
  <2>1. j = H + Len(CrLf) /\ HasAt(w, H, CrLf)
    BY CrLfBytes
  <2>. HIDE DEF j, H
  <2>2. Slice(w, H, j) = CrLf
    BY ONLY <2>1, HasSlice
  <2>. QED
    BY <2>2 DEF j
<1>7. Slice(w, Len(w) - 2, Len(w)) = CrLf
  <2>. DEFINE i == e + 2
  <2>1. i + Len(CrLf) = Len(w) /\ i = Len(w) - 2
    BY <1>1, CrLfBytes
  <2>. HIDE DEF i
  <2>2. HasAt(w, i, CrLf)
    BY DEF i
  <2>3. Slice(w, i, Len(w)) = CrLf
    BY ONLY <2>1, <2>2, HasSlice
  <2>. QED
    BY ONLY <2>1, <2>3, Zenon
<1>8. /\ ~(Len(w) < H + 2) /\ ~(Len(w) < H + 4) /\ Len(w) - 4 = e
      /\ e + 4 = Len(w) /\ Len(w) # -1
  <2>. DEFINE L == Len(w)
  <2>1. L \in Nat /\ L = e + 4 /\ e = H + 4 + h /\ H \in Nat /\ h \in Nat
    BY <1>1
  <2>. HIDE DEF L, H, h
  <2>2. ~(L < H + 2) /\ ~(L < H + 4) /\ L - 4 = e /\ e + 4 = L /\ L # -1
    BY ONLY <2>1
  <2>. QED
    BY ONLY <2>2 DEF L
<1>9. RequiredTrojanBytes(w) =
        IF Len(w) < H + 2 THEN Unknown(w)
        ELSE IF Slice(w, H, H + 2) # CrLf THEN -1
        ELSE IF Len(w) < H + 4 THEN Unknown(w)
        ELSE IF At(w, H + 2) \notin {1, 3} \/ type = "none" THEN -1
        ELSE AddressEnd(type, w, H + 4) + 4
  BY DEF RequiredTrojanBytes
<1>. DEFINE n == Len(w)  port == U16(w, n - 4)
            hostname == Slice(w, H + 4, n - 4)
<1>10. ParseTrojanRequest(w, n) =
         IF /\ Slice(w, 0, H) = TrojanHash /\ port # 0 /\ hostname # <<0>>
            /\ Slice(w, n - 2, n) = CrLf
         THEN <<[protocol |-> "trojan", hostname |-> hostname, port |-> port,
                 isUDP |-> At(w, H + 2) = 3]>>
         ELSE <<>>
  BY DEF ParseTrojanRequest
<1>. HIDE DEF type, h, H
<1>11. RequiredTrojanBytes(w) = n
  BY ONLY <1>2, <1>4, <1>6, <1>8, <1>9, c \in {1, 3}
<1>12. port = f.port /\ hostname = f.hostname
  BY ONLY <1>3, <1>4, <1>8, Zenon
<1>. HIDE DEF port, hostname
<1>13. ParseTrojanRequest(w, n) =
         <<[protocol |-> "trojan", hostname |-> hostname, port |-> port,
            isUDP |-> At(w, H + 2) = 3]>>
  BY ONLY <1>5, <1>7, <1>10, <1>12, f.port \in Nat \ {0}, f.hostname # <<0>>
<1>14. ParseTrojanRequest(w, n) =
         <<[protocol |-> "trojan", hostname |-> f.hostname, port |-> f.port,
            isUDP |-> c = 3]>>
  BY ONLY <1>2, <1>12, <1>13, Zenon
<1>. QED
  BY <1>8, <1>11, <1>14

\* What is Trojan and not VLESS is recognised as Trojan.
LEMMA TrojanAlone ==
  ASSUME NEW w \in Bytes, NEW memory \in Memories, ~memory.ready,
         \A v : ParseVlessRequest(w, v) = <<>>,
         NEW r, r # <<>>, RequiredTrojanBytes(w) # -1,
         RequiredTrojanBytes(w) = Len(w), ParseTrojanRequest(w, Len(w)) = r
  PROVE  TryParseTunnelHandshake(w, memory) = Took(Len(w), r, Ready(memory))
<1>1. Len(w) >= RequiredTrojanBytes(w)
  BY LenNat
<1>. DEFINE v == RequiredVlessBytes(w)  t == RequiredTrojanBytes(w)
            vless == IF v # -1 /\ Len(w) >= v THEN ParseVlessRequest(w, v) ELSE <<>>
            trojan == IF t # -1 /\ Len(w) >= t THEN ParseTrojanRequest(w, t) ELSE <<>>
<1>2. TryParseTunnelHandshake(w, memory) =
        IF memory.ready THEN More
        ELSE IF vless # <<>> THEN Took(v, vless, Ready(memory))
        ELSE IF trojan # <<>> THEN Took(t, trojan, Ready(memory))
        ELSE IF v = -1 /\ t = -1 THEN Invalid
        ELSE More
  BY DEF TryParseTunnelHandshake
<1>3. vless = <<>> /\ trojan = r /\ t = Len(w)
  BY <1>1
<1>. HIDE DEF v, t, vless, trojan
<1>. QED
  BY ONLY <1>2, <1>3, ~memory.ready, r # <<>>

\* A Trojan request is one unit.
LEMMA TrojanUnit ==
  ASSUME NEW f, IsAddress(f, SocksType), f.port \in Nat \ {0},
         f.hostname # << 0 >>, NEW c \in {1, 3},
         NEW memory \in Memories, ~memory.ready, Ready(memory) \in Memories
  PROVE  IsUnit("handshake",
                TrojanHash \o CrLf \o <<c>> \o Address(f) \o Be16(f.port) \o CrLf,
                <<[protocol |-> "trojan", hostname |-> f.hostname,
                   port |-> f.port, isUDP |-> c = 3]>>,
                memory, Ready(memory))
<1>. DEFINE id == TrojanHash  cc == <<c>>  p == Be16(f.port)  a == Address(f)
            l == CrLf
            w1 == id \o l  w2 == w1 \o cc  w3 == w2 \o a  w4 == w3 \o p
            w == w4 \o l  H == Hash  h == Len(f.hostname)  m == 1 + h
            e == H + 4 + h
<1>1. cc \in Bytes /\ Len(cc) = 1 /\ l \in Bytes /\ Len(l) = 2
  BY ByteBytes, CrLfBytes
<1>2. id \in Bytes /\ Len(id) = H /\ p \in Bytes /\ Len(p) = 2 /\ H \in Nat
  BY CredentialBytes, Be16Bytes
<1>3. a \in Bytes /\ Len(a) = m /\ h \in Nat
  BY AddressBytes
<1>. HIDE DEF id, cc, p, a, l, w1, w2, w3, w4, w, H, h, m, e
<1>4. IsNext(id, l, w1, H, 2)
  BY <1>1, <1>2, HasNext DEF w1
<1>5. w1 \in Bytes /\ Len(w1) = H + 2
  BY <1>4 DEF IsNext
<1>6. IsNext(w1, cc, w2, H + 2, 1)
  BY <1>1, <1>5, HasNext DEF w2
<1>7. w2 \in Bytes /\ Len(w2) = H + 2 + 1
  BY <1>6 DEF IsNext
<1>8. IsNext(w2, a, w3, H + 2 + 1, m)
  BY <1>3, <1>7, HasNext DEF w3
<1>9. w3 \in Bytes /\ Len(w3) = H + 2 + 1 + m
  BY <1>8 DEF IsNext
<1>10. IsNext(w3, p, w4, H + 2 + 1 + m, 2)
  BY <1>2, <1>9, HasNext DEF w4
<1>11. w4 \in Bytes /\ Len(w4) = H + 2 + 1 + m + 2
  BY <1>10 DEF IsNext
<1>12. IsNext(w4, l, w, H + 2 + 1 + m + 2, 2)
  BY <1>1, <1>11, HasNext DEF w
<1>13. w \in Bytes /\ Len(w) = H + 2 + 1 + m + 2 + 2
       /\ HasAt(w, H + 2 + 1 + m + 2, l)
  BY <1>12 DEF IsNext
<1>14. Keeps(w1, w2) /\ Keeps(w2, w3) /\ Keeps(w3, w4) /\ Keeps(w4, w)
  BY <1>6, <1>8, <1>10, <1>12 DEF IsNext
<1>15. HasAt(w1, 0, id) /\ HasAt(w1, H, l) /\ HasAt(w2, H + 2, cc)
       /\ HasAt(w3, H + 2 + 1, a) /\ HasAt(w4, H + 2 + 1 + m, p)
  BY <1>4, <1>6, <1>8, <1>10 DEF IsNext
<1>16. HasAt(w, 0, id) /\ HasAt(w, H, l)
  BY ONLY <1>14, <1>15, Zenon DEF Keeps
<1>17. HasAt(w, H + 2, cc) /\ HasAt(w, H + 2 + 1, a) /\ HasAt(w, H + 2 + 1 + m, p)
  BY ONLY <1>14, <1>15, Zenon DEF Keeps
<1>18. /\ e = H + 4 + h /\ H + 2 + 1 = H + 3 /\ H + 2 + 1 + m = e
       /\ H + 2 + 1 + m + 2 = e + 2 /\ Len(w) = e + 4 /\ 0 < Len(w)
  <2>. DEFINE L == Len(w)
  <2>1. L = H + 2 + 1 + m + 2 + 2 /\ H \in Nat /\ h \in Nat /\ m = 1 + h
        /\ e = H + 4 + h
    BY <1>2, <1>3, <1>13 DEF m, e
  <2>. HIDE DEF L
  <2>2. /\ e = H + 4 + h /\ H + 2 + 1 = H + 3 /\ H + 2 + 1 + m = e
        /\ H + 2 + 1 + m + 2 = e + 2 /\ L = e + 4 /\ 0 < L
    BY ONLY <2>1
  <2>. QED
    BY ONLY <2>2 DEF L
<1>19. HasAt(w, H + 3, a) /\ HasAt(w, e, p) /\ HasAt(w, e + 2, l)
  BY <1>13, <1>17, <1>18
<1>. DEFINE r == <<[protocol |-> "trojan", hostname |-> f.hostname,
                    port |-> f.port, isUDP |-> c = 3]>>
<1>20. LET t == RequiredTrojanBytes(w) IN
         t # -1 /\ t = Len(w) /\ ParseTrojanRequest(w, t) = r
  BY <1>16, <1>17, <1>18, <1>19, TrojanRead DEF id, cc, p, a, l, H, h
<1>21. r # <<>>
  OBVIOUS
<1>22. \A v : ParseVlessRequest(w, v) = <<>>
  BY <1>16, TrojanIsNotVless DEF id
<1>. HIDE DEF r
<1>23. TryParseTunnelHandshake(w, memory) = Took(Len(w), r, Ready(memory))
  BY <1>13, <1>20, <1>21, <1>22, TrojanAlone
<1>24. w # <<>>
  BY <1>13, <1>18, NotEmpty
<1>25. Head1("handshake", w, memory) = Took(Len(w), r, Ready(memory))
  BY <1>23 DEF Head1
<1>26. IsUnit("handshake", w, r, memory, Ready(memory))
  BY <1>13, <1>24, <1>25 DEF IsUnit
<1>. QED
  BY <1>26 DEF r, w, w4, w3, w2, w1, id, cc, p, a, l

----------------------------------------------------------------------------
(* What was sealed under a nonce opens under it.                           *)

\* A sealed byte gives back its nonce and its byte.
LEMMA SealedByte ==
  ASSUME NEW k \in Nat, NEW b \in Nat, b < 1000
  PROVE  /\ 1000 * k + b \in Nat /\ (1000 * k + b) \div 1000 = k
         /\ (1000 * k + b) % 1000 = b
  OBVIOUS

\* What was sealed under a nonce opens under it.
LEMMA SealOpens ==
  ASSUME NEW y \in Bytes, \A i \in 1..Len(y) : y[i] < 1000, NEW k \in Nat
  PROVE  /\ Seal(y, k) \in Bytes /\ Len(Seal(y, k)) = Len(y) + 1
         /\ Opened(Seal(y, k), k) = <<y>>
<1>. DEFINE n == Len(y)  b(i) == IF i > n THEN 999 ELSE y[i]
            s == [i \in 1..(n + 1) |-> 1000 * k + b(i)]
<1>1. n \in Nat
  BY LenNat
<1>2. s = Seal(y, k)
  BY DEF Seal
<1>3. \A i \in 1..(n + 1) : b(i) \in Nat /\ b(i) < 1000
  <2>1. SUFFICES ASSUME NEW i \in 1..(n + 1) PROVE b(i) \in Nat /\ b(i) < 1000
    OBVIOUS
  <2>2. CASE i > n
    BY <2>2
  <2>3. CASE ~(i > n)
    <3>1. i \in 1..n
      BY <1>1, <2>3
    <3>2. y[i] \in Nat
      BY <3>1, ElementOfSeq DEF Bytes
    <3>. QED
      BY <2>3, <3>1, <3>2
  <2>. QED
    BY <2>2, <2>3
<1>4. \A i \in 1..n : b(i) = y[i]
  BY <1>1
<1>. HIDE DEF b
<1>5. \A i \in 1..(n + 1) : /\ s[i] = 1000 * k + b(i) /\ s[i] \in Nat
                            /\ s[i] \div 1000 = k /\ s[i] % 1000 = b(i)
  <2>1. SUFFICES ASSUME NEW i \in 1..(n + 1)
                 PROVE  /\ s[i] = 1000 * k + b(i) /\ s[i] \in Nat
                        /\ s[i] \div 1000 = k /\ s[i] % 1000 = b(i)
    BY Zenon
  <2>. DEFINE x == s[i]  z == b(i)
  <2>2. x = 1000 * k + z /\ z \in Nat /\ z < 1000
    BY <1>3
  <2>. HIDE DEF x, z
  <2>3. x = 1000 * k + z /\ x \in Nat /\ x \div 1000 = k /\ x % 1000 = z
    BY <2>2, SealedByte
  <2>. QED
    BY <2>3 DEF x, z
<1>6. s \in Bytes /\ Len(s) = n + 1
  <2>1. s = [i \in 1..(n + 1) |-> s[i]]
    OBVIOUS
  <2>. HIDE DEF s
  <2>2. s \in [1..(n + 1) -> Nat] /\ n + 1 \in Nat
    BY <1>1, <1>5, <2>1
  <2>. QED
    BY <2>2, SeqDef DEF Bytes
<1>. HIDE DEF s
<1>7. DOMAIN s = 1..(n + 1)
  BY <1>6, LenProperties DEF Bytes
<1>. DEFINE plain == [i \in 1..(Len(s) - 1) |-> s[i] % 1000]
<1>8. Opened(s, k) = <<plain>>
  <2>1. Opened(s, k) = IF \A i \in DOMAIN s : s[i] \div 1000 = k
                       THEN <<plain>> ELSE <<>>
    BY DEF Opened
  <2>2. \A i \in DOMAIN s : s[i] \div 1000 = k
    BY <1>5, <1>7
  <2>. HIDE DEF plain
  <2>. QED
    BY ONLY <2>1, <2>2
<1>9. plain = y
  <2>1. plain = [i \in 1..n |-> s[i] % 1000]
    BY <1>1, <1>6
  <2>. DEFINE g == [i \in 1..n |-> s[i] % 1000]
  <2>2. \A i \in 1..n : g[i] = y[i]
    <3>1. SUFFICES ASSUME NEW i \in 1..n PROVE g[i] = y[i]
      OBVIOUS
    <3>2. i \in 1..(n + 1)
      BY <1>1
    <3>3. g[i] = s[i] % 1000
      OBVIOUS
    <3>. QED
      BY <1>4, <1>5, <3>2, <3>3
  <2>3. \A i \in 1..n : y[i] \in Nat
    BY ElementOfSeq DEF Bytes
  <2>4. g \in Bytes /\ Len(g) = n
    <3>1. g = [i \in 1..n |-> g[i]]
      OBVIOUS
    <3>. HIDE DEF g
    <3>2. g \in [1..n -> Nat]
      BY <2>2, <2>3, <3>1
    <3>. QED
      BY <1>1, <3>2, SeqDef DEF Bytes
  <2>. HIDE DEF g
  <2>5. g = y
    BY <2>2, <2>4, BytesEqual
  <2>. QED
    BY <2>1, <2>5 DEF g
<1>. HIDE DEF plain
<1>10. Opened(s, k) = <<y>>
  BY ONLY <1>8, <1>9, Zenon
<1>. QED
  BY <1>2, <1>6, <1>10

\* A decoder that has its key, and knows the length of a payload or not.
Keyed(k, l) == [ready |-> TRUE, nonce |-> k, length |-> l]

Following(memory, k, l) == [memory EXCEPT !.nonce = k, !.length = l]

\* Memories of the same fields are the same.
LEMMA MemoriesEqual ==
  ASSUME NEW m \in Memories, NEW n \in Memories,
         m.ready = n.ready, m.nonce = n.nonce, m.length = n.length
  PROVE  m = n
  BY DEF Memories

\* Ready changes one field.
LEMMA MemoryReady ==
  ASSUME NEW m \in Memories
  PROVE  /\ Ready(m) \in Memories /\ Ready(m).ready
         /\ Ready(m).nonce = m.nonce /\ Ready(m).length = m.length
  BY DEF Memories, Ready

\* A memory with a key is in range.
LEMMA KeyedIs ==
  ASSUME NEW k \in Nat, NEW l \in Nat \cup {-1}
  PROVE  /\ Keyed(k, l) \in Memories /\ Keyed(k, l).ready
         /\ Keyed(k, l).nonce = k /\ Keyed(k, l).length = l
<1>. DEFINE yes == TRUE  m == [ready |-> yes, nonce |-> k, length |-> l]
<1>1. yes \in BOOLEAN /\ yes
  OBVIOUS
<1>. HIDE DEF yes
<1>2. m \in Memories /\ m.ready = yes /\ m.nonce = k /\ m.length = l
  BY <1>1 DEF Memories
<1>. HIDE DEF m
<1>3. m.ready
  BY ONLY <1>1, <1>2, Zenon
<1>4. m = Keyed(k, l)
  BY DEF m, yes, Keyed
<1>. QED
  BY ONLY <1>2, <1>3, <1>4, Zenon

\* The next memory has the next nonce and length.
LEMMA KeyedNext ==
  ASSUME NEW k \in Nat, NEW l \in Nat \cup {-1},
         NEW x \in Nat, NEW y \in Nat \cup {-1}
  PROVE  Following(Keyed(k, l), x, y) = Keyed(x, y)
<1>. DEFINE m == Keyed(k, l)  n == Keyed(x, y)
            e == [m EXCEPT !.nonce = x, !.length = y]
<1>1. m \in Memories /\ m.ready /\ n \in Memories /\ n.ready
      /\ n.nonce = x /\ n.length = y
  BY KeyedIs, Zenon
<1>. HIDE DEF m, n
<1>2. e \in Memories /\ e.ready = m.ready /\ e.nonce = x /\ e.length = y
  BY <1>1 DEF Memories
<1>. HIDE DEF e
<1>3. m.ready = n.ready
  <2>1. m.ready \in BOOLEAN /\ n.ready \in BOOLEAN
    BY <1>1 DEF Memories
  <2>. QED
    BY <1>1, <2>1
<1>4. e = n
  BY <1>1, <1>2, <1>3, MemoriesEqual
<1>. QED
  BY <1>4 DEF e, m, n, Following

\* One sealed block is opened.
LEMMA BlockRead ==
  ASSUME NEW y \in Bytes, \A i \in 1..Len(y) : y[i] < 1000, NEW k \in Nat,
         NEW l \in Nat \cup {-1}, Len(y) = IF l = -1 THEN 2 ELSE l,
         NEW memory, memory = Keyed(k, l)
  PROVE  Shadowsocks(Seal(y, k), memory) =
           Took(Len(Seal(y, k)), IF l = -1 THEN <<>> ELSE <<y>>,
                Keyed(k + 1, IF l = -1 THEN U16(y, 0) ELSE -1))
<1>. DEFINE e == Seal(y, k)  n == Len(y)
            need == IF memory.length = -1 THEN 3 ELSE memory.length + 1
            plain == Opened(Slice(e, 0, need), memory.nonce)
            next == [memory EXCEPT !.nonce = @ + 1,
                       !.length = IF @ = -1 THEN U16(plain[1], 0) ELSE -1]
            frames == IF memory.length = -1 THEN <<>> ELSE plain
<1>1. n \in Nat
  BY LenNat
<1>2. e \in Bytes /\ Len(e) = n + 1 /\ Opened(e, k) = <<y>>
  BY SealOpens
<1>. HIDE DEF e
<1>3. memory.ready /\ memory.nonce = k /\ memory.length = l
  BY KeyedIs, Zenon
<1>4. need = Len(e) /\ need \in Nat
  <2>. DEFINE L == Len(e)  o == memory.length
  <2>1. L = n + 1 /\ n \in Nat /\ o = l /\ n = (IF l = -1 THEN 2 ELSE l)
        /\ need = IF o = -1 THEN 3 ELSE o + 1
    BY <1>1, <1>2, <1>3
  <2>. HIDE DEF L, o, n, need
  <2>2. need = L /\ need \in Nat
    BY ONLY <2>1, l \in Nat \cup {-1}
  <2>. QED
    BY <2>2 DEF L
<1>5. Slice(e, 0, Len(e)) = e
  BY <1>2, HasItself, SliceFirst
<1>6. plain = <<y>>
  BY <1>2, <1>3, <1>4, <1>5
<1>7. Shadowsocks(e, memory) =
        IF ~memory.ready
        THEN IF Len(e) < Salt THEN More ELSE Took(Salt, <<>>, Ready(memory))
        ELSE IF Len(e) < need THEN More
        ELSE IF plain = <<>> THEN Invalid
        ELSE Took(need, frames, next)
  BY DEF Shadowsocks
<1>8. next = [memory EXCEPT !.nonce = memory.nonce + 1,
                !.length = IF memory.length = -1 THEN U16(plain[1], 0) ELSE -1]
  BY DEF next
<1>. DEFINE l2 == IF l = -1 THEN U16(y, 0) ELSE -1
<1>80. plain[1] = y /\ plain # <<>>
  <2>. DEFINE p == <<y>>
  <2>1. p[1] = y /\ p # <<>>
    OBVIOUS
  <2>. HIDE DEF p, plain
  <2>2. plain = p
    BY <1>6 DEF p
  <2>. QED
    BY ONLY <2>1, <2>2, Zenon
<1>9. next = [memory EXCEPT !.nonce = k + 1, !.length = l2]
  <2>. DEFINE l3 == IF memory.length = -1 THEN U16(plain[1], 0) ELSE -1
              k3 == memory.nonce + 1
  <2>. HIDE DEF plain
  <2>1. l3 = l2 /\ k3 = k + 1
    BY <1>3, <1>80
  <2>2. next = [memory EXCEPT !.nonce = k3, !.length = l3]
    BY <1>8 DEF plain
  <2>. HIDE DEF l3, k3, next, l2
  <2>. QED
    BY ONLY <2>1, <2>2, Zenon
<1>90. l2 \in Nat \cup {-1} /\ k + 1 \in Nat
  <2>1. l = -1 => U16(y, 0) \in Nat
    <3>1. SUFFICES ASSUME l = -1 PROVE U16(y, 0) \in Nat
      OBVIOUS
    <3>2. Len(y) = 2
      BY <3>1
    <3>3. At(y, 0) \in Nat /\ At(y, 0 + 1) \in Nat
      BY <3>2, AtIs
    <3>. QED
      BY <3>3 DEF U16
  <2>. QED
    BY <2>1
<1>. HIDE DEF l2, next
<1>10. next = Keyed(k + 1, l2)
  <2>1. [Keyed(k, l) EXCEPT !.nonce = k + 1, !.length = l2]
          = Keyed(k + 1, l2)
    <3>. DEFINE k2 == k + 1
    <3>. HIDE DEF k2
    <3>1. k2 \in Nat
      BY <1>90 DEF k2
    <3>2. Following(Keyed(k, l), k2, l2) = Keyed(k2, l2)
      BY ONLY <1>90, <3>1, k \in Nat, l \in Nat \cup {-1}, KeyedNext
    <3>. QED
      BY <3>2 DEF k2, Following
  <2>. QED
    BY ONLY <1>9, <2>1, memory = Keyed(k, l), Zenon
<1>11. plain # <<>>
  BY ONLY <1>80, Zenon
<1>12. frames = IF l = -1 THEN <<>> ELSE <<y>>
  BY <1>3, <1>6
<1>13. ~(Len(e) < need)
  <2>. HIDE DEF need
  <2>. QED
    BY ONLY <1>4
<1>. HIDE DEF plain, frames, next, need
<1>14. Shadowsocks(e, memory) = Took(need, frames, next)
  BY ONLY <1>3, <1>7, <1>11, <1>13
<1>. DEFINE g == IF l = -1 THEN <<>> ELSE <<y>>
<1>15. frames = g
  BY <1>12
<1>. HIDE DEF g
<1>16. Shadowsocks(e, memory) = Took(Len(e), g, Keyed(k + 1, l2))
  BY ONLY <1>4, <1>10, <1>14, <1>15, Zenon
<1>. QED
  BY <1>16 DEF e, g, l2

\* A byte is a small number.
LEMMA ByteIs ==
  ASSUME NEW k \in Byte
  PROVE  k \in Nat /\ k < 256
  BY DEF Byte

\* A sealed block is one unit.
LEMMA BlockIsUnit ==
  ASSUME NEW y \in Bytes, \A i \in 1..Len(y) : y[i] < 1000, NEW k \in Nat,
         NEW l \in Nat \cup {-1}, Len(y) = IF l = -1 THEN 2 ELSE l
  PROVE  IsUnit("shadowsocks", Seal(y, k), IF l = -1 THEN <<>> ELSE <<y>>,
                Keyed(k, l),
                Keyed(k + 1, IF l = -1 THEN U16(y, 0) ELSE -1))
<1>. DEFINE e == Seal(y, k)  frames == IF l = -1 THEN <<>> ELSE <<y>>
            m == Keyed(k, l)  l2 == IF l = -1 THEN U16(y, 0) ELSE -1
            k2 == k + 1  n == Keyed(k2, l2)
<1>1. Shadowsocks(e, m) = Took(Len(e), frames, n)
  BY ONLY y \in Bytes, k \in Nat, l \in Nat \cup {-1},
     \A i \in 1..Len(y) : y[i] < 1000, Len(y) = IF l = -1 THEN 2 ELSE l,
     BlockRead, Zenon
<1>20. Len(y) \in Nat /\ k2 \in Nat
  BY LenNat
<1>21. e \in Bytes /\ Len(e) = Len(y) + 1
  BY ONLY y \in Bytes, \A i \in 1..Len(y) : y[i] < 1000, k \in Nat, SealOpens
<1>. HIDE DEF e, k2
<1>2. e \in Bytes /\ Len(e) = Len(y) + 1 /\ Len(y) \in Nat /\ k2 \in Nat
      /\ 0 < Len(e)
  BY ONLY <1>20, <1>21
<1>3. l2 \in Nat \cup {-1}
  <2>1. l = -1 => U16(y, 0) \in Nat
    <3>1. SUFFICES ASSUME l = -1 PROVE U16(y, 0) \in Nat
      OBVIOUS
    <3>2. Len(y) = 2
      BY <3>1
    <3>3. At(y, 0) \in Nat /\ At(y, 0 + 1) \in Nat
      BY <3>2, AtIs
    <3>. QED
      BY <3>3 DEF U16
  <2>. QED
    BY <2>1
<1>. HIDE DEF frames, l2
<1>4. m \in Memories /\ n \in Memories
  BY ONLY <1>2, <1>3, k \in Nat, l \in Nat \cup {-1}, KeyedIs, Zenon
<1>5. e # <<>>
  BY <1>2, NotEmpty
<1>. HIDE DEF m, n
<1>6. Head1("shadowsocks", e, m) = Took(Len(e), frames, n)
  BY <1>1 DEF Head1
<1>7. IsUnit("shadowsocks", e, frames, m, n)
  BY <1>2, <1>4, <1>5, <1>6 DEF IsUnit
<1>. QED
  BY <1>7 DEF e, frames, m, n, l2, k2

\* A sealed length is read however it is cut; it delivers nothing.
LEMMA LengthReads ==
  ASSUME NEW s \in Nat, s < 65536, NEW k \in Nat
  PROVE  Reads("shadowsocks", Seal(Be16(s), k), <<>>,
               Keyed(k, -1), Keyed(k + 1, s))
<1>. DEFINE y == Be16(s)  l == -1
<1>1. y \in Bytes /\ Len(y) = 2 /\ y[1] = s \div 256 /\ y[2] = s % 256
  BY Be16Bytes
<1>2. U16(y, 0) = s
  BY <1>1, HasItself, HasU16
<1>. HIDE DEF y
<1>3. \A i \in 1..Len(y) : y[i] < 1000
  BY <1>1
<1>4. IsUnit("shadowsocks", Seal(y, k), <<>>, Keyed(k, -1),
             Keyed(k + 1, s))
  <2>. DEFINE frames == IF l = -1 THEN <<>> ELSE <<y>>  none == <<>>
              l2 == IF l = -1 THEN U16(y, 0) ELSE -1
  <2>1. l \in Nat \cup {-1} /\ Len(y) = (IF l = -1 THEN 2 ELSE l)
    BY <1>1
  <2>2. l = -1 /\ frames = none /\ l2 = s
    BY <1>2
  <2>. HIDE DEF l
  <2>3. IsUnit("shadowsocks", Seal(y, k), frames, Keyed(k, l),
               Keyed(k + 1, l2))
    BY ONLY <1>1, <1>3, <2>1, k \in Nat, BlockIsUnit, Zenon
  <2>. HIDE DEF frames, l2, none
  <2>4. IsUnit("shadowsocks", Seal(y, k), none, Keyed(k, -1),
               Keyed(k + 1, s))
    BY ONLY <2>2, <2>3, Zenon
  <2>. QED
    BY ONLY <2>4, Zenon DEF none
<1>5. "shadowsocks" \in Kinds
  BY DEF Kinds
<1>6. Reads("shadowsocks", Seal(y, k), <<>>, Keyed(k, -1),
            Keyed(k + 1, s))
  BY ONLY <1>4, <1>5, UnitReads, Zenon
<1>. QED
  BY ONLY <1>6, Zenon DEF y

\* A sealed payload is read however it is cut.
LEMMA PayloadReads ==
  ASSUME NEW f \in Field, NEW k \in Nat
  PROVE  Reads("shadowsocks", Seal(f, k), <<f>>,
               Keyed(k, Len(f)), Keyed(k + 1, -1))
<1>. DEFINE l == Len(f)
<1>1. f \in Bytes /\ l \in Nat
  BY FieldBytes
<1>2. \A i \in 1..Len(f) : f[i] < 1000
  <2>1. SUFFICES ASSUME NEW i \in 1..Len(f) PROVE f[i] < 1000
    OBVIOUS
  <2>2. f \in Seq(Byte)
    BY DEF Field
  <2>3. f[i] \in Byte
    BY <2>2, ElementOfSeq
  <2>4. f[i] \in Nat /\ f[i] < 256
    BY ONLY <2>3, ByteIs
  <2>. QED
    BY <2>4
<1>3. IsUnit("shadowsocks", Seal(f, k), <<f>>, Keyed(k, l),
             Keyed(k + 1, -1))
  <2>. DEFINE frames == IF l = -1 THEN <<>> ELSE <<f>>  one == <<f>>  none == -1
              l2 == IF l = -1 THEN U16(f, 0) ELSE -1
  <2>. HIDE DEF l
  <2>1. l \in Nat \cup {-1} /\ Len(f) = (IF l = -1 THEN 2 ELSE l)
    BY <1>1 DEF l
  <2>2. l # -1
    BY <1>1
  <2>3. frames = one /\ l2 = none
    BY <2>2
  <2>4. IsUnit("shadowsocks", Seal(f, k), frames, Keyed(k, l),
               Keyed(k + 1, l2))
    BY ONLY <1>1, <1>2, <2>1, k \in Nat, BlockIsUnit, Zenon
  <2>. HIDE DEF frames, l2, none, one
  <2>5. IsUnit("shadowsocks", Seal(f, k), one, Keyed(k, l),
               Keyed(k + 1, none))
    BY ONLY <2>3, <2>4, Zenon
  <2>. QED
    BY ONLY <2>5, Zenon DEF none, one
<1>4. "shadowsocks" \in Kinds
  BY DEF Kinds
<1>5. Reads("shadowsocks", Seal(f, k), <<f>>, Keyed(k, l),
            Keyed(k + 1, -1))
  BY ONLY <1>3, <1>4, UnitReads, Zenon
<1>. QED
  BY <1>5 DEF l

\* The same with its terms named.
LEMMA LengthFrame ==
  ASSUME NEW kind, kind = "shadowsocks", NEW s \in Nat, s < 65536,
         NEW k \in Nat, NEW k1, k1 = k + 1, NEW none, none = <<>>,
         NEW l, l = -1
  PROVE  Reads(kind, Seal(Be16(s), k), none, Keyed(k, l), Keyed(k1, s))
<1>1. Reads("shadowsocks", Seal(Be16(s), k), <<>>, Keyed(k, -1), Keyed(k + 1, s))
  BY LengthReads
<1>. QED
  BY ONLY <1>1, kind = "shadowsocks", k1 = k + 1, none = <<>>, l = -1, Zenon

\* The same with its terms named.
LEMMA PayloadFrame ==
  ASSUME NEW kind, kind = "shadowsocks", NEW f \in Field,
         NEW k \in Nat, NEW k1, k1 = k + 1, NEW one, one = <<f>>,
         NEW l, l = -1
  PROVE  Reads(kind, Seal(f, k), one, Keyed(k, Len(f)), Keyed(k1, l))
<1>1. Reads("shadowsocks", Seal(f, k), <<f>>, Keyed(k, Len(f)), Keyed(k + 1, -1))
  BY PayloadReads
<1>. QED
  BY ONLY <1>1, kind = "shadowsocks", k1 = k + 1, one = <<f>>, l = -1, Zenon

\* The salt is read however it is cut; it delivers nothing.
LEMMA SaltReads ==
  Reads("shadowsocks", [s \in 1..Salt |-> s], <<>>, Memory0, Keyed(0, -1))
<1>. DEFINE e == [s \in 1..Salt |-> s]  m == Memory0
<1>1. Salt \in Nat \ {0}
  BY DecoderAssumption
<1>2. e \in Bytes /\ Len(e) = Salt
  <2>1. e \in [1..Salt -> Nat]
    OBVIOUS
  <2>. QED
    BY <1>1, <2>1, SeqDef DEF Bytes
<1>. HIDE DEF e
<1>3. m \in Memories /\ ~m.ready /\ m.nonce = 0 /\ m.length = -1
  BY DEF Memory0, Memories
<1>. HIDE DEF m
<1>. DEFINE n == Keyed(0, -1)
<1>4. n \in Memories /\ n.ready /\ n.nonce = 0 /\ n.length = -1
  <2>. DEFINE k == 0  l == -1
  <2>1. k \in Nat /\ l \in Nat \cup {-1} /\ k = 0 /\ l = -1
    OBVIOUS
  <2>. HIDE DEF k, l
  <2>2. /\ Keyed(k, l) \in Memories /\ Keyed(k, l).ready
        /\ Keyed(k, l).nonce = k /\ Keyed(k, l).length = l
    BY ONLY <2>1, KeyedIs
  <2>. QED
    BY ONLY <2>1, <2>2, Zenon
<1>. HIDE DEF n
<1>5. Ready(m) = n
  <2>. DEFINE r == Ready(m)
  <2>1. r \in Memories /\ r.ready /\ r.nonce = m.nonce /\ r.length = m.length
    BY <1>3, MemoryReady
  <2>. HIDE DEF r
  <2>2. r.ready = n.ready
    <3>1. r.ready \in BOOLEAN /\ n.ready \in BOOLEAN
      BY <1>4, <2>1 DEF Memories
    <3>. QED
      BY <1>4, <2>1, <3>1
  <2>3. r = n
    BY <1>3, <1>4, <2>1, <2>2, MemoriesEqual
  <2>. QED
    BY <2>3 DEF r
<1>6. Shadowsocks(e, m) = Took(Len(e), <<>>, Ready(m))
  BY <1>1, <1>2, <1>3 DEF Shadowsocks
<1>7. Head1("shadowsocks", e, m) = Took(Len(e), <<>>, n)
  BY <1>5, <1>6 DEF Head1
<1>8. e # <<>>
  BY <1>1, <1>2, NotEmpty
<1>9. IsUnit("shadowsocks", e, <<>>, m, n)
  BY <1>2, <1>3, <1>4, <1>7, <1>8 DEF IsUnit
<1>10. "shadowsocks" \in Kinds
  BY DEF Kinds
<1>11. Reads("shadowsocks", e, <<>>, m, n)
  BY ONLY <1>9, <1>10, UnitReads, Zenon
<1>. QED
  BY <1>11 DEF e, m, n

\* Behind i Shadowsocks frames 2 * i nonces are used.
LEMMA ShadowsocksMemory ==
  ASSUME NEW i \in Nat, i > 0
  PROVE  MemoryAfter("shadowsocks", i) = Keyed(2 * i, -1)
<1>. DEFINE m == MemoryAfter("shadowsocks", i)  k == 2 * i  n == Keyed(k, -1)
<1>1. m \in Memories /\ m.ready /\ m.nonce = k /\ m.length = -1
  BY DEF MemoryAfter, Memories
<1>2. k \in Nat
  OBVIOUS
<1>. HIDE DEF m, k
<1>3. n \in Memories /\ n.ready /\ n.nonce = k /\ n.length = -1
  <2>. DEFINE l == -1
  <2>1. l \in Nat \cup {-1} /\ l = -1
    OBVIOUS
  <2>. HIDE DEF l
  <2>2. /\ Keyed(k, l) \in Memories /\ Keyed(k, l).ready
        /\ Keyed(k, l).nonce = k /\ Keyed(k, l).length = l
    BY ONLY <1>2, <2>1, KeyedIs
  <2>. QED
    BY ONLY <2>1, <2>2, Zenon
<1>. HIDE DEF n
<1>4. m.ready = n.ready
  <2>1. m.ready \in BOOLEAN /\ n.ready \in BOOLEAN
    BY <1>1, <1>3 DEF Memories
  <2>. QED
    BY <1>1, <1>3, <2>1
<1>5. m = n
  BY <1>1, <1>3, <1>4, MemoriesEqual
<1>. QED
  BY <1>5 DEF m, n, k

\* A Shadowsocks frame, with the salt before the first, is read however it is
\* cut.
LEMMA ShadowsocksFrame ==
  ASSUME NEW f \in Field, NEW i \in Nat, i > 0
  PROVE  Reads("shadowsocks",
               (IF i = 1 THEN [s \in 1..Salt |-> s] ELSE <<>>)
                 \o Seal(Be16(Len(f)), 2 * i - 2) \o Seal(f, 2 * i - 1),
               <<f>>, MemoryAfter("shadowsocks", i - 1),
               MemoryAfter("shadowsocks", i))
<1>. DEFINE K == "shadowsocks"  none == <<>>  one == <<f>>  no == -1
            n == Len(f)  k == 2 * i - 2  k1 == 2 * i - 1  k2 == 2 * i
            m == MemoryAfter(K, i - 1)
            a == Keyed(k, no)  b == Keyed(k1, n)  c == Keyed(k2, no)
            salt == [s \in 1..Salt |-> s]
            s1 == Seal(Be16(n), k)  s2 == Seal(f, k1)
<1>1. K \in Kinds /\ K = "shadowsocks" /\ none = <<>> /\ one = <<f>> /\ no = -1
  BY DEF Kinds
<1>2. n \in Nat /\ n < 65536 /\ k \in Nat /\ k1 \in Nat /\ k1 = k + 1 /\ k2 = k1 + 1
  BY FieldBytes DEF Field
<1>. HIDE DEF n, k, k1, k2, K, none, one, no
<1>3. Reads(K, s1, none, a, b)
  BY ONLY <1>1, <1>2, LengthFrame
<1>4. Reads(K, s2, one, b, c)
  <2>1. Reads(K, s2, one, Keyed(k1, Len(f)), c)
    BY ONLY <1>1, <1>2, f \in Field, PayloadFrame
  <2>. QED
    BY ONLY <2>1, Zenon DEF n
<1>5. MemoryAfter(K, i) = c
  <2>1. MemoryAfter("shadowsocks", i) = Keyed(2 * i, -1)
    BY ShadowsocksMemory
  <2>. QED
    BY ONLY <2>1, Zenon DEF k2, K, no
<1>6. CASE i = 1
  <2>1. k = 0 /\ i - 1 = 0
    BY <1>6 DEF k
  <2>2. m = Memory0
    BY <2>1, Memory0Is
  <2>3. a = Keyed(0, -1)
    BY ONLY <1>1, <2>1, Zenon
  <2>30. Reads("shadowsocks", salt, <<>>, Memory0, Keyed(0, -1))
    BY ONLY SaltReads, Zenon DEF salt
  <2>. HIDE DEF salt, m, a
  <2>4. Reads(K, salt, none, m, a)
    BY ONLY <1>1, <2>2, <2>3, <2>30, Zenon
  <2>. HIDE DEF K, none, one, a, b, c, m, salt, s1, s2
  <2>5. Reads(K, salt \o s1, none, m, b)
    BY <1>1, <1>3, <2>4, TwoRead DEF none
  <2>6. Reads(K, (salt \o s1) \o s2, one, m, c)
    BY <1>1, <1>4, <2>5, TwoRead DEF none
  <2>7. (IF i = 1 THEN salt ELSE <<>>) = salt
    BY <1>6
  <2>8. Reads(K, ((IF i = 1 THEN salt ELSE <<>>) \o s1) \o s2, one, m,
              MemoryAfter(K, i))
    BY ONLY <1>5, <2>6, <2>7, Zenon
  <2>. QED
    BY ONLY <2>8, Zenon DEF K, one, m, salt, s1, s2, n, k, k1
<1>7. CASE i # 1
  <2>1. i - 1 \in Nat /\ i - 1 > 0 /\ 2 * (i - 1) = k
    BY <1>7 DEF k
  <2>2. m = a
    <3>. DEFINE j == i - 1
    <3>1. j \in Nat /\ j > 0 /\ 2 * j = k
      BY <2>1
    <3>. HIDE DEF j
    <3>2. MemoryAfter("shadowsocks", j) = Keyed(2 * j, -1)
      BY <3>1, ShadowsocksMemory
    <3>3. MemoryAfter(K, j) = Keyed(k, no)
      BY ONLY <1>1, <3>1, <3>2, Zenon
    <3>. QED
      BY <3>3 DEF j
  <2>3. s1 \in Bytes
    BY <1>3 DEF Reads
  <2>4. <<>> \o s1 = s1
    <3>. HIDE DEF s1
    <3>. QED
      BY <2>3, ConcatEmptySeq DEF Bytes
  <2>. HIDE DEF K, none, one, a, b, c, m, s1, s2, salt
  <2>5. Reads(K, s1 \o s2, one, a, c)
    BY <1>1, <1>3, <1>4, TwoRead DEF none
  <2>6. (IF i = 1 THEN salt ELSE <<>>) \o s1 = s1
    BY <1>7, <2>4
  <2>7. Reads(K, ((IF i = 1 THEN salt ELSE <<>>) \o s1) \o s2, one, m,
              MemoryAfter(K, i))
    BY ONLY <1>5, <2>2, <2>5, <2>6, Zenon
  <2>. QED
    BY ONLY <2>7, Zenon DEF K, one, m, salt, s1, s2, n, k, k1
<1>. QED
  BY <1>6, <1>7

----------------------------------------------------------------------------
(* Every frame of every client is read as it was meant.                    *)

\* Three of the decoders remember nothing.
LEMMA MemoryStays ==
  ASSUME NEW kind \in {"trojanUdp", "dns", "grpc"}, NEW n \in Nat
  PROVE  MemoryAfter(kind, n) = Memory0
<1>. DEFINE m == MemoryAfter(kind, n)
<1>1. m \in Memories /\ ~m.ready /\ m.nonce = 0 /\ m.length = -1
  BY DEF MemoryAfter, Memories
<1>2. Memory0 \in Memories /\ ~Memory0.ready /\ Memory0.nonce = 0
      /\ Memory0.length = -1
  BY DEF Memory0, Memories
<1>. HIDE DEF m
<1>3. m.ready = Memory0.ready
  <2>1. m.ready \in BOOLEAN /\ Memory0.ready \in BOOLEAN
    BY <1>1, <1>2 DEF Memories
  <2>. QED
    BY <1>1, <1>2, <2>1
<1>4. m = Memory0
  BY <1>1, <1>2, <1>3, MemoriesEqual
<1>. QED
  BY <1>4 DEF m

\* Three remember that a frame was there.
LEMMA MemoryTurnsReady ==
  ASSUME NEW kind \in {"target", "handshake", "speedtest"}, NEW n \in Nat
  PROVE  /\ MemoryAfter(kind, n) \in Memories
         /\ MemoryAfter(kind, n).ready <=> n # 0
         /\ MemoryAfter(kind, n + 1) = Ready(MemoryAfter(kind, n))
         /\ Ready(MemoryAfter(kind, n)) \in Memories
<1>. DEFINE m == MemoryAfter(kind, n)  l == MemoryAfter(kind, n + 1)  r == Ready(m)
<1>1. m \in Memories /\ (m.ready <=> n # 0) /\ m.nonce = 0 /\ m.length = -1
  BY DEF MemoryAfter, Memories
<1>2. l \in Memories /\ l.ready /\ l.nonce = 0 /\ l.length = -1
  BY DEF MemoryAfter, Memories
<1>. HIDE DEF m, l
<1>3. r \in Memories /\ r.ready /\ r.nonce = m.nonce /\ r.length = m.length
  BY <1>1, MemoryReady
<1>. HIDE DEF r
<1>4. l.ready = r.ready
  <2>1. l.ready \in BOOLEAN /\ r.ready \in BOOLEAN
    BY <1>2, <1>3 DEF Memories
  <2>. QED
    BY <1>2, <1>3, <2>1
<1>5. l = r
  BY <1>1, <1>2, <1>3, <1>4, MemoriesEqual
<1>. QED
  BY <1>1, <1>3, <1>5 DEF m, l, r

\* A port is a number.
LEMMA PortNat ==
  ASSUME NEW p \in Port
  PROVE  p \in Nat
  BY DEF Port

\* A frame that is one unit.
FrameIsRead(kind, frames, i) ==
  Reads(kind, Encode(kind, frames, i), <<Delivered(kind, frames[i], i)>>,
        MemoryAfter(kind, i - 1), MemoryAfter(kind, i))

\* A frame that is one unit is read.
LEMMA UnitIsFrame ==
  ASSUME NEW kind \in Kinds, NEW frames, NEW i, NEW e, NEW d, NEW m, NEW n,
         IsUnit(kind, e, <<d>>, m, n), Encode(kind, frames, i) = e,
         Delivered(kind, frames[i], i) = d,
         MemoryAfter(kind, i - 1) = m, MemoryAfter(kind, i) = n
  PROVE  FrameIsRead(kind, frames, i)
<1>. DEFINE one == <<d>>
<1>1. IsUnit(kind, e, one, m, n)
  OBVIOUS
<1>. HIDE DEF one
<1>2. Reads(kind, e, one, m, n)
  BY <1>1, UnitReads
<1>. QED
  BY <1>2 DEF FrameIsRead, one

\* Every frame of the seven kinds that a client may send is read.
LEMMA TrojanUdpFrame ==
  ASSUME NEW frames, NEW i \in Nat, i > 0, IsFrame("trojanUdp", frames[i])
  PROVE  FrameIsRead("trojanUdp", frames, i)
<1>. DEFINE K == "trojanUdp"  f == frames[i]
            e == Address(f) \o Be16(f.port) \o Be16(Len(f.payload)) \o CrLf
                   \o f.payload
            d == [port |-> f.port, addressHeader |-> Address(f) \o Be16(f.port),
                  payload |-> f.payload]
<1>1. IsAddress(f, SocksType) /\ f.port \in Nat /\ f.payload \in Field
  BY PortNat DEF IsFrame
<1>2. Encode(K, frames, i) = e /\ Delivered(K, f, i) = d
  BY DEF Encode, Delivered
<1>3. i - 1 \in Nat /\ K \in Kinds
  BY DEF Kinds
<1>4. MemoryAfter(K, i - 1) = Memory0 /\ MemoryAfter(K, i) = Memory0
      /\ Memory0 \in Memories
  BY <1>3, MemoryStays, Memory0Is
<1>. HIDE DEF f
<1>5. IsUnit(K, e, <<d>>, Memory0, Memory0)
  BY <1>1, <1>4, TrojanUdpUnit
<1>. HIDE DEF K, e, d
<1>6. FrameIsRead(K, frames, i)
  BY <1>2, <1>3, <1>4, <1>5, UnitIsFrame DEF f
<1>. QED
  BY <1>6 DEF K

\* The same for a DNS answer.
LEMMA DnsFrame ==
  ASSUME NEW frames, NEW i \in Nat, i > 0, IsFrame("dns", frames[i])
  PROVE  FrameIsRead("dns", frames, i)
<1>. DEFINE K == "dns"  f == frames[i]  e == Be16(Len(f)) \o f
            d == Be16(Len(f)) \o CrLf \o f
<1>1. f \in Field
  BY DEF IsFrame
<1>2. Encode(K, frames, i) = e /\ Delivered(K, f, i) = d
  BY DEF Encode, Delivered
<1>3. i - 1 \in Nat /\ K \in Kinds
  BY DEF Kinds
<1>4. MemoryAfter(K, i - 1) = Memory0 /\ MemoryAfter(K, i) = Memory0
      /\ Memory0 \in Memories
  BY <1>3, MemoryStays, Memory0Is
<1>. HIDE DEF f
<1>5. IsUnit(K, e, <<d>>, Memory0, Memory0)
  BY <1>1, <1>4, DnsUnit
<1>. HIDE DEF K, e, d
<1>6. FrameIsRead(K, frames, i)
  BY <1>2, <1>3, <1>4, <1>5, UnitIsFrame DEF f
<1>. QED
  BY <1>6 DEF K

\* The same for a gRPC frame.
LEMMA GrpcFrameIsRead ==
  ASSUME NEW frames, NEW i \in Nat, i > 0, IsFrame("grpc", frames[i])
  PROVE  FrameIsRead("grpc", frames, i)
<1>. DEFINE K == "grpc"  f == frames[i]  d == f.payload
            e == <<0, 0, 0>> \o Be16(Len(Message(f))) \o Message(f)
<1>2. Encode(K, frames, i) = e /\ Delivered(K, f, i) = d
  BY DEF Encode, Delivered, Message
<1>3. i - 1 \in Nat /\ K \in Kinds
  BY DEF Kinds
<1>4. MemoryAfter(K, i - 1) = Memory0 /\ MemoryAfter(K, i) = Memory0
      /\ Memory0 \in Memories
  BY <1>3, MemoryStays, Memory0Is
<1>1. IsFrame("grpc", f)
  OBVIOUS
<1>. HIDE DEF f
<1>5. IsUnit(K, e, <<d>>, Memory0, Memory0)
  BY <1>1, <1>4, GrpcUnit
<1>. HIDE DEF K, e, d
<1>6. FrameIsRead(K, frames, i)
  BY <1>2, <1>3, <1>4, <1>5, UnitIsFrame DEF f
<1>. QED
  BY <1>6 DEF K

\* The same for a Shadowsocks target.
LEMMA TargetFrame ==
  ASSUME NEW frames, IsFrame("target", frames[1])
  PROVE  FrameIsRead("target", frames, 1)
<1>. DEFINE K == "target"  i == 1  f == frames[i]  e == Address(f) \o Be16(f.port)
            d == [hostname |-> f.hostname, port |-> f.port]
            m == MemoryAfter(K, 0)
<1>1. IsAddress(f, SocksType) /\ f.port \in Nat \ {0}
  BY PortNat DEF IsFrame
<1>2. Encode(K, frames, i) = e /\ Delivered(K, f, i) = d
  BY DEF Encode, Delivered
<1>3. i - 1 = 0 /\ K \in Kinds
  BY DEF Kinds
<1>4. m \in Memories /\ ~m.ready /\ Ready(m) \in Memories
      /\ MemoryAfter(K, i) = Ready(m)
  <2>. DEFINE n == 0
  <2>1. n \in Nat /\ n + 1 = i /\ K \in {"target", "handshake", "speedtest"}
        /\ n = 0
    OBVIOUS
  <2>. HIDE DEF n, i, K
  <2>2. /\ MemoryAfter(K, n) \in Memories
        /\ MemoryAfter(K, n).ready <=> n # 0
        /\ MemoryAfter(K, n + 1) = Ready(MemoryAfter(K, n))
        /\ Ready(MemoryAfter(K, n)) \in Memories
    BY ONLY <2>1, MemoryTurnsReady
  <2>. QED
    BY ONLY <2>1, <2>2, Zenon
<1>5. MemoryAfter(K, i - 1) = m
  BY ONLY <1>3, Zenon
<1>. HIDE DEF f, m
<1>6. IsUnit(K, e, <<d>>, m, Ready(m))
  BY <1>1, <1>4, TargetUnit
<1>. HIDE DEF K, e, d, i
<1>7. FrameIsRead(K, frames, i)
  BY <1>2, <1>3, <1>4, <1>5, <1>6, UnitIsFrame DEF f
<1>. QED
  BY <1>7 DEF K, i

\* The same for a handshake, VLESS or Trojan.
LEMMA HandshakeFrame ==
  ASSUME NEW frames, IsFrame("handshake", frames[1])
  PROVE  FrameIsRead("handshake", frames, 1)
<1>. DEFINE K == "handshake"  i == 1  f == frames[i]  m == MemoryAfter(K, 0)
            d == [protocol |-> f.protocol, hostname |-> f.hostname,
                  port |-> f.port, isUDP |-> f.isUDP]
<1>1. /\ f.port \in Nat \ {0} /\ f.isUDP \in BOOLEAN /\ f.hostname # <<0>>
      /\ \/ /\ f.protocol = "vless" /\ IsAddress(f, VlessType)
            /\ f.option \in Seq(Byte) /\ Len(f.option) \in Byte
         \/ f.protocol = "trojan" /\ IsAddress(f, SocksType)
  BY PortNat DEF IsFrame
<1>2. Delivered(K, f, i) = d
  BY DEF Delivered
<1>3. i - 1 = 0 /\ K \in Kinds /\ i = 1
  BY DEF Kinds
<1>4. m \in Memories /\ ~m.ready /\ Ready(m) \in Memories
      /\ MemoryAfter(K, i) = Ready(m)
  <2>. DEFINE n == 0
  <2>1. n \in Nat /\ n + 1 = i /\ K \in {"target", "handshake", "speedtest"}
        /\ n = 0
    OBVIOUS
  <2>. HIDE DEF n, i, K
  <2>2. /\ MemoryAfter(K, n) \in Memories
        /\ MemoryAfter(K, n).ready <=> n # 0
        /\ MemoryAfter(K, n + 1) = Ready(MemoryAfter(K, n))
        /\ Ready(MemoryAfter(K, n)) \in Memories
    BY ONLY <2>1, MemoryTurnsReady
  <2>. QED
    BY ONLY <2>1, <2>2, Zenon
<1>5. MemoryAfter(K, i - 1) = m
  BY ONLY <1>3, Zenon
<1>6. CASE f.protocol = "vless" /\ IsAddress(f, VlessType) /\ f.option \in Seq(Byte)
  <2>. DEFINE c == IF f.isUDP THEN 2 ELSE 1  u == c = 2  v == f.isUDP  P == "vless"
              e == <<0>> \o VlessId \o <<Len(f.option)>> \o f.option
                     \o <<c>> \o Be16(f.port) \o Address(f)
              g == [protocol |-> P, hostname |-> f.hostname, port |-> f.port,
                    isUDP |-> u]
  <2>1. Encode(K, frames, i) = e
    BY <1>6 DEF Encode
  <2>2. c \in {1, 2} /\ (u <=> v)
    BY <1>1
  <2>3. f.option \in Bytes
    <3>1. Byte \subseteq Nat
      BY DEF Byte
    <3>. QED
      BY <1>6, <3>1, SeqMonotonic DEF Bytes
  <2>4. g = d
    <3>1. v \in BOOLEAN /\ u \in BOOLEAN /\ P = f.protocol
      BY <1>1, <1>6
    <3>2. u = v
      BY <2>2, <3>1
    <3>. HIDE DEF u, v, P, c
    <3>3. g = [protocol |-> f.protocol, hostname |-> f.hostname, port |-> f.port,
               isUDP |-> v]
      BY ONLY <3>1, <3>2, Zenon
    <3>. QED
      BY ONLY <3>3, Zenon DEF v
  <2>. HIDE DEF f, m, c
  <2>5. IsUnit(K, e, <<g>>, m, Ready(m))
    BY <1>1, <1>4, <1>6, <2>2, <2>3, VlessUnit
  <2>. HIDE DEF K, e, g, d, i
  <2>6. IsUnit(K, e, <<d>>, m, Ready(m))
    BY ONLY <2>4, <2>5, Zenon
  <2>7. FrameIsRead(K, frames, i)
    BY <1>2, <1>3, <1>4, <1>5, <2>1, <2>6, UnitIsFrame DEF f
  <2>. QED
    BY <2>7 DEF K, i
<1>7. CASE f.protocol = "trojan" /\ IsAddress(f, SocksType)
  <2>. DEFINE c == IF f.isUDP THEN 3 ELSE 1  u == c = 3  v == f.isUDP  P == "trojan"
              e == TrojanHash \o CrLf \o <<c>> \o Address(f) \o Be16(f.port) \o CrLf
              g == [protocol |-> P, hostname |-> f.hostname, port |-> f.port,
                    isUDP |-> u]
  <2>1. Encode(K, frames, i) = e
    BY <1>7 DEF Encode
  <2>2. c \in {1, 3} /\ (u <=> v)
    BY <1>1
  <2>4. g = d
    <3>1. v \in BOOLEAN /\ u \in BOOLEAN /\ P = f.protocol
      BY <1>1, <1>7
    <3>2. u = v
      BY <2>2, <3>1
    <3>. HIDE DEF u, v, P, c
    <3>3. g = [protocol |-> f.protocol, hostname |-> f.hostname, port |-> f.port,
               isUDP |-> v]
      BY ONLY <3>1, <3>2, Zenon
    <3>. QED
      BY ONLY <3>3, Zenon DEF v
  <2>. HIDE DEF f, m, c
  <2>5. IsUnit(K, e, <<g>>, m, Ready(m))
    BY <1>1, <1>4, <1>7, <2>2, TrojanUnit
  <2>. HIDE DEF K, e, g, d, i
  <2>6. IsUnit(K, e, <<d>>, m, Ready(m))
    BY ONLY <2>4, <2>5, Zenon
  <2>7. FrameIsRead(K, frames, i)
    BY <1>2, <1>3, <1>4, <1>5, <2>1, <2>6, UnitIsFrame DEF f
  <2>. QED
    BY <2>7 DEF K, i
<1>. QED
  BY <1>1, <1>6, <1>7

\* The same for a speed test request.
LEMMA SpeedTestFrame ==
  ASSUME NEW frames, NEW i \in Nat, i > 0, IsFrame("speedtest", frames[i])
  PROVE  FrameIsRead("speedtest", frames, i)
<1>. DEFINE K == "speedtest"  j == i - 1  f == frames[i]  m == MemoryAfter(K, j)
            u == ~m.ready  v == i = 1
            g == [header |-> u]  d == [header |-> v]
            e == <<71>> \o (IF f.named THEN <<ContentLength, Len(f.body)>> ELSE <<>>)
                   \o HeaderEnd \o f.body
<1>1. f.named \in BOOLEAN /\ f.body \in Seq(Byte)
      /\ Len(f.body) \in IF f.named THEN Byte ELSE {0}
  BY DEF IsFrame
<1>2. Encode(K, frames, i) = e /\ Delivered(K, f, i) = d
  BY DEF Encode, Delivered
<1>3. j \in Nat /\ j + 1 = i /\ K \in Kinds
      /\ K \in {"target", "handshake", "speedtest"}
  BY DEF Kinds
<1>. HIDE DEF j, K
<1>4. /\ m \in Memories /\ (m.ready <=> j # 0) /\ Ready(m) \in Memories
      /\ MemoryAfter(K, i) = Ready(m)
  <2>1. /\ MemoryAfter(K, j) \in Memories
        /\ MemoryAfter(K, j).ready <=> j # 0
        /\ MemoryAfter(K, j + 1) = Ready(MemoryAfter(K, j))
        /\ Ready(MemoryAfter(K, j)) \in Memories
    BY ONLY <1>3, MemoryTurnsReady
  <2>. QED
    BY ONLY <1>3, <2>1, Zenon
<1>5. g = d
  <2>1. u <=> v
    BY <1>3, <1>4
  <2>2. u = v
    BY <2>1
  <2>. HIDE DEF u, v
  <2>. QED
    BY ONLY <2>2, Zenon
<1>6. f.body \in Bytes
  <2>1. Byte \subseteq Nat
    BY DEF Byte
  <2>. QED
    BY <1>1, <2>1, SeqMonotonic DEF Bytes
<1>. HIDE DEF f, m
<1>7. IsUnit("speedtest", e, <<[header |-> ~m.ready]>>, m, Ready(m))
  <2>. DEFINE h == IF f.named THEN <<ContentLength, Len(f.body)>> ELSE <<>>
  <2>1. CASE f.named
    <3>1. h = <<ContentLength, Len(f.body)>> /\ Len(f.body) \in Byte
      BY <1>1, <2>1
    <3>2. IsUnit("speedtest",
                 <<71>> \o <<ContentLength, Len(f.body)>> \o HeaderEnd \o f.body,
                 <<[header |-> ~m.ready]>>, m, Ready(m))
      BY <1>4, <1>6, <3>1, NamedRequestUnit
    <3>. HIDE DEF h
    <3>3. e = <<71>> \o h \o HeaderEnd \o f.body
      BY DEF h
    <3>. HIDE DEF e
    <3>. QED
      BY ONLY <3>1, <3>2, <3>3, Zenon
  <2>2. CASE ~f.named
    <3>. DEFINE none == <<>>
    <3>1. h = none /\ Len(f.body) = 0
      BY <1>1, <2>2
    <3>2. IsUnit("speedtest", <<71>> \o none \o HeaderEnd \o f.body,
                 <<[header |-> ~m.ready]>>, m, Ready(m))
      BY <1>4, <1>6, <3>1, UnnamedRequestUnit
    <3>. HIDE DEF h, none
    <3>3. e = <<71>> \o h \o HeaderEnd \o f.body
      BY DEF h
    <3>. HIDE DEF e
    <3>. QED
      BY ONLY <3>1, <3>2, <3>3, Zenon
  <2>. QED
    BY <1>1, <2>1, <2>2
<1>8. IsUnit(K, e, <<g>>, m, Ready(m))
  BY ONLY <1>7, Zenon DEF K
<1>. HIDE DEF e, g, d
<1>9. IsUnit(K, e, <<d>>, m, Ready(m))
  BY ONLY <1>5, <1>8, Zenon
<1>10. MemoryAfter(K, i - 1) = m
  BY DEF m, j
<1>11. FrameIsRead(K, frames, i)
  BY <1>2, <1>3, <1>4, <1>9, <1>10, UnitIsFrame DEF f
<1>. QED
  BY <1>11 DEF K

\* The same for a Shadowsocks frame.
LEMMA ShadowsocksFrameIsRead ==
  ASSUME NEW frames, NEW i \in Nat, i > 0, IsFrame("shadowsocks", frames[i])
  PROVE  FrameIsRead("shadowsocks", frames, i)
<1>. DEFINE K == "shadowsocks"  f == frames[i]
            e == (IF i = 1 THEN [s \in 1..Salt |-> s] ELSE <<>>)
                   \o Seal(Be16(Len(f)), 2 * i - 2) \o Seal(f, 2 * i - 1)
<1>1. f \in Field
  BY DEF IsFrame
<1>2. Encode(K, frames, i) = e /\ Delivered(K, f, i) = f
  BY DEF Encode, Delivered
<1>. HIDE DEF f
<1>3. Reads(K, e, <<f>>, MemoryAfter(K, i - 1), MemoryAfter(K, i))
  BY <1>1, ShadowsocksFrame
<1>. HIDE DEF e, K
<1>4. FrameIsRead(K, frames, i)
  BY ONLY <1>2, <1>3, Zenon DEF FrameIsRead, f
<1>. QED
  BY <1>4 DEF K

\* All frames of a sample are read,
LEMMA FramesAreRead ==
  ASSUME NEW s, IsSample(s)
  PROVE  FramesRead(s)
<1>1. SUFFICES ASSUME NEW i \in DOMAIN s.frames
               PROVE  FrameIsRead(s.kind, s.frames, i)
  BY DEF FramesRead, FrameIsRead
<1>2. IsFrame(s.kind, s.frames[i])
  BY DEF IsSample
<1>3. i \in Nat /\ i > 0 /\ i <= Len(s.frames)
  <2>1. s.frames \in Seq(ToSet(s.frames))
    BY DEF IsSample
  <2>2. DOMAIN s.frames = 1..Len(s.frames) /\ Len(s.frames) \in Nat
    BY <2>1, LenProperties
  <2>. QED
    BY <2>2
<1>4. s.kind \in {"target", "handshake"} => i = 1
  BY <1>3 DEF IsSample
<1>5. CASE s.kind = "trojanUdp"
  BY <1>2, <1>3, <1>5, TrojanUdpFrame
<1>6. CASE s.kind = "dns"
  BY <1>2, <1>3, <1>6, DnsFrame
<1>7. CASE s.kind = "grpc"
  BY <1>2, <1>3, <1>7, GrpcFrameIsRead
<1>8. CASE s.kind = "shadowsocks"
  BY <1>2, <1>3, <1>8, ShadowsocksFrameIsRead
<1>9. CASE s.kind = "target"
  BY <1>2, <1>4, <1>9, TargetFrame
<1>10. CASE s.kind = "handshake"
  BY <1>2, <1>4, <1>10, HandshakeFrame
<1>11. CASE s.kind = "speedtest"
  BY <1>2, <1>3, <1>11, SpeedTestFrame
<1>. QED
  BY <1>5, <1>6, <1>7, <1>8, <1>9, <1>10, <1>11 DEF IsSample

\* and so those of all samples.
LEMMA AllAreRead == AllRead
  BY SamplesAssumption, FramesAreRead DEF AllRead

(***************************************************************************)
(* For every constant that keeps the two assumptions, all streams that     *)
(* clients may send and every way to cut them: the push loops of           *)
(* trojan-udp.js, grpc.js and shadowsocks.js, the handshake, the speed     *)
(* test and the DNS framer have at every moment delivered exactly the      *)
(* frames that arrived completely, each once and in order, hold back the   *)
(* bytes behind them, and have refused nothing.  (Streams within the       *)
(* decoders' limits on sizes, which the model leaves out.)                 *)
(***************************************************************************)
THEOREM StreamsAreDecoded == StreamSpec => []CutsDoNotMatter
<1>1. AsIfUncut /\ [StreamNext]_streamVars => AsIfUncut'
  BY AllAreRead, StreamNextUncut
<1>2. AsIfUncut => CutsDoNotMatter
  BY AllAreRead, UncutMeansRight
<1>. QED
  BY StreamInitUncut, <1>1, <1>2, PTL DEF StreamSpec
============================================================================
