-------------------------- MODULE UpstreamAttempt --------------------------
(***************************************************************************)
(* What the adapters for upstream proxies (protocols/socks5.js, turn.js,   *)
(* sstp.js) have in common: an attempt to reach the target through the     *)
(* proxy, which ends with a socket for the session or with an error.       *)
(*                                                                         *)
(* phase names the await the adapter is in.  A message of a server comes   *)
(* in two halves, and one read returns any number of the halves that have  *)
(* arrived: messages are cut and coalesced in every way.  What the servers *)
(* do is external; they answer the requests of a connection in order.      *)
(* cause records why an attempt failed, as an observer of the wire would.  *)
(* A definition X_Y is no part of the model: it is X with a plausible bug. *)
(***************************************************************************)
EXTENDS Naturals, Sequences

CONSTANT MaxData     \* bound: chunks the target sends unasked

ASSUME AttemptAssumption == MaxData \in Nat

Adapter == {"socks5", "http", "turn", "sstp"}
Timed == {"turn", "sstp"}      \* every await of these is under withTimeout

\* The proxy (for TURN the control connection), TURN's data connection, and
\* the DNS resolver.
Link == {"main", "data", "dns"}

Opening == {"control", "data", "resolve", "assigned"}
Over == {"failed", "closed"}
Reading == {"query", "methods", "login", "connect", "tunnel",
            "allocate", "authenticate", "permission", "peer", "bind",
            "http", "ppp", "syn"}

VARIABLES
  adapter,     \* upstreamProxy.type
  credentials, \* whether the proxy's URL has a name and a password
  phase,
  sock,        \* the adapter's sockets
  owed,        \* requests the server of a connection has not answered
  arriving,    \* halves on their way to the adapter
  buffered,    \* halves read and not used
  through,     \* the proxy relays for the target
  sent,        \* chunks the target has sent
  whole,       \* no SOCKS5 or CONNECT reply shared a chunk or was cut
  cause

attemptVars == <<adapter, credentials, phase, sock, owed, arriving, buffered,
                 through, sent, whole, cause>>
choice == <<adapter, credentials>>
wire == <<owed, arriving>>
history == <<through, sent, whole>>

AttemptTypeOK ==
  /\ adapter \in Adapter /\ credentials \in BOOLEAN
  /\ phase \in Opening \cup Reading \cup Over \cup {"open"}
  /\ sock \in [Link -> {"none", "opening", "open", "ended", "closed"}]
  /\ through \in BOOLEAN /\ whole \in BOOLEAN
  /\ sent \in 0..MaxData

Half(m, n, part) == [is |-> m, n |-> n, part |-> part]
Halves(m, n) == <<Half(m, n, 1), Half(m, n, 2)>>

Complete == Len(buffered) >= 2
First == buffered[1].is
Rest == SubSeq(buffered, 3, Len(buffered))

\* The connection the adapter waits for or reads from.
From == CASE phase \in {"resolve", "query"} -> "dns"
          [] phase \in {"data", "bind"} -> "data"
          [] OTHER -> "main"

Quiet == [l \in Link |-> <<>>]

\* SOCKS5 and CONNECT dial at once; TURN first resolves a name, which takes a
\* resolver; SSTP does so when it is through with its negotiation.
AttemptInit ==
  /\ adapter \in Adapter /\ credentials \in BOOLEAN
  /\ \/ /\ adapter = "turn" /\ phase = "resolve"
        /\ sock = [l \in Link |-> "none"]
     \/ /\ phase = IF adapter = "socks5" THEN "methods" ELSE "control"
        /\ sock = [l \in Link |-> IF l = "main" THEN "opening" ELSE "none"]
  /\ owed = IF adapter = "socks5" THEN [Quiet EXCEPT !["main"] = <<"methods">>]
                                  ELSE Quiet
  /\ arriving = Quiet /\ buffered = <<>>
  /\ through = FALSE /\ sent = 0 /\ whole = TRUE
  /\ cause = "none"

----------------------------------------------------------------------------
(* Ends of an attempt and of its session.  What is still under way on the  *)
(* wires has no reader any more and is forgotten.                          *)

Dropped == [l \in Link |-> IF sock[l] = "none" THEN "none" ELSE "closed"]
Silence == owed' = Quiet /\ arriving' = Quiet /\ buffered' = <<>>

Fail_KeepsData(why) ==                \* close() knows the control socket only
  /\ phase' = "failed" /\ cause' = why
  /\ sock' = [Dropped EXCEPT !["data"] = sock["data"]]
  /\ Silence
  /\ UNCHANGED <<choice, history>>

\* The adapter's catch: whatever it had opened is closed.
Fail(why) ==
  /\ phase' = "failed" /\ cause' = why
  /\ sock' = Dropped
  /\ Silence
  /\ UNCHANGED <<choice, history>>

\* The next await; what the adapter writes before it is Ask's.
Advance(next, rest) ==
  /\ phase' = next /\ buffered' = rest
  /\ UNCHANGED <<choice, sock, arriving, history, cause>>

Ask(l, requests) == owed' = [owed EXCEPT ![l] = @ \o requests]

\* The session, or the reader of its stream, closes the connection.
SessionCloses ==
  /\ phase = "open"
  /\ phase' = "closed" /\ sock' = Dropped
  /\ Silence
  /\ UNCHANGED <<choice, history, cause>>

\* What TURN hangs on dataSocket.closed.
DataSocketClosed ==
  /\ adapter = "turn" /\ phase = "open"
  /\ sock["data"] = "ended" /\ sock["main"] # "closed"
  /\ sock' = [sock EXCEPT !["main"] = "closed"]
  /\ UNCHANGED <<choice, phase, wire, buffered, history, cause>>

----------------------------------------------------------------------------
(* The network and the servers (external).                                 *)

SocketOpens(l) ==
  /\ sock[l] = "opening"
  /\ sock' = [sock EXCEPT ![l] = "open"]
  /\ UNCHANGED <<choice, phase, wire, buffered, history, cause>>

SocketRefused(l) ==
  /\ sock[l] = "opening"
  /\ Fail("refused")

ServerEnds(l) ==
  /\ sock[l] = "open"
  /\ sock' = [sock EXCEPT ![l] = "ended"]
  /\ UNCHANGED <<choice, phase, wire, buffered, history, cause>>

Good == [query |-> {"address"}, methods |-> {"none", "password"},
         login |-> {"ok"}, connect |-> {"established"},
         tunnel |-> {"established"}, allocate |-> {"allocated", "challenge"},
         authenticate |-> {"allocated"}, permission |-> {"permitted"},
         peer |-> {"connected"}, bind |-> {"bound"}, http |-> {"accepted"}]
Through == {"established", "bound"}

Answer(l) ==
  /\ sock[l] = "open" /\ owed[l] # <<>> /\ Head(owed[l]) \in DOMAIN Good
  /\ \E m \in Good[Head(owed[l])] \cup {"refused"} :
       /\ arriving' = [arriving EXCEPT ![l] = @ \o Halves(m, 0)]
       /\ through' = (through \/ m \in Through)
  /\ owed' = [owed EXCEPT ![l] = Tail(@)]
  /\ UNCHANGED <<choice, phase, sock, buffered, sent, whole, cause>>

SessionLink == IF adapter = "turn" THEN "data" ELSE "main"

TargetSends ==
  /\ through /\ sent < MaxData
  /\ phase \notin Over /\ sock[SessionLink] = "open"
  /\ sent' = sent + 1
  /\ arriving' = [arriving EXCEPT ![SessionLink] = @ \o Halves("data", sent')]
  /\ UNCHANGED <<choice, phase, sock, owed, buffered, through, whole, cause>>

----------------------------------------------------------------------------
(* Reading.                                                                *)

\* SOCKS5 takes what one read returns for the whole reply; the others read
\* until a message is complete.
HasReply == IF adapter = "socks5" THEN buffered # <<>> ELSE Complete
Wants == phase \in Reading /\ ~HasReply

Pull ==
  /\ Wants
  /\ \E n \in 1..Len(arriving[From]) :
       /\ buffered' = buffered \o SubSeq(arriving[From], 1, n)
       /\ arriving' = [arriving EXCEPT
                         ![From] = SubSeq(@, n + 1, Len(@))]
  /\ UNCHANGED <<choice, phase, sock, owed, history, cause>>

ReadsEnd ==
  /\ Wants
  /\ sock[From] = "ended" /\ arriving[From] = <<>>
  /\ Fail("closed")

\* The write that follows a reply, or the session's first one.
WriteFails ==
  /\ phase \in Reading /\ HasReply
  /\ \E l \in Link : sock[l] = "ended"
  /\ Fail("closed")

\* Somebody else is still to do something about the attempt.
Due == \/ sock[From] \in {"opening", "ended"}
       \/ arriving[From] # <<>> \/ owed[From] # <<>>

TimesOut_OpeningOnly(otherwise) ==    \* no timer around the reads
  /\ adapter \in Timed
  /\ phase \in Opening /\ sock[From] = "opening"
  /\ Fail(IF Due THEN "slow" ELSE otherwise)

\* withTimeout: 'otherwise' is the cause when nobody is late.
TimesOut(otherwise) ==
  /\ adapter \in Timed
  /\ Wants \/ (phase \in Opening /\ sock[From] = "opening")
  /\ Fail(IF Due THEN "slow" ELSE otherwise)

----------------------------------------------------------------------------
(* resolveIPv4, for TURN and SSTP, when the target is a name.              *)

\* DNS_RESOLVER may be missing or unsafe.
NoResolver ==
  /\ phase = "resolve" /\ sock["dns"] = "none"
  /\ Fail("no resolver")

DialResolver ==
  /\ phase = "resolve" /\ sock["dns"] = "none"
  /\ sock' = [sock EXCEPT !["dns"] = "opening"]
  /\ UNCHANGED <<choice, phase, wire, buffered, history, cause>>

\* resolveIPv4 has a buffer of its own: it starts empty here.
AskResolver ==
  /\ phase = "resolve" /\ sock["dns"] \in {"open", "ended"}
  /\ Ask("dns", <<"query">>)
  /\ Advance("query", <<>>)

\* The resolver's socket is closed before the caller goes on and dials.
Resolved(next) ==
  /\ phase = "query" /\ Complete /\ First = "address"
  /\ phase' = next /\ buffered' = Rest
  /\ sock' = [sock EXCEPT !["dns"] = "closed",
                          !["main"] = IF @ = "none" THEN "opening" ELSE @]
  /\ UNCHANGED <<choice, arriving, history, cause>>

ResolverRefuses ==
  /\ phase = "query" /\ Complete /\ First # "address"
  /\ Fail("rejected")

=============================================================================
