---------------------------- MODULE SstpUpstream ----------------------------
(***************************************************************************)
(* The negotiation of the SSTP adapter (protocols/sstp.js: sstpConnect up  *)
(* to the inner SYN): the HTTP handshake, LCP, PAP and IPCP of PPP, the    *)
(* inner TCP's handshake.  The server (external) answers the adapter's     *)
(* requests in order and makes two of its own, for LCP and for IPCP, when  *)
(* it likes; it opens its network phase and forwards packets as RFC 1661   *)
(* has it.  Frames that the adapter skips arrive in between.               *)
(***************************************************************************)
EXTENDS UpstreamAttempt, FiniteSets

CONSTANTS
  MaxRounds,    \* frames the PPP negotiation may take (50 in the code)
  MaxAttempts,  \* frames the inner handshake may take (30 in the code)
  MaxNoise      \* bound: frames the adapter skips

ASSUME SstpAssumption ==
  /\ MaxRounds \in Nat /\ MaxAttempts \in Nat /\ MaxNoise \in Nat

VARIABLES
  ppp,      \* the flags of the negotiation that are set
  round,    \* of the loop the adapter is in
  server,   \* requests the server has taken, and messages it has sent
  noise

sstpVars == <<ppp, round, server, noise>>

SstpTypeOK ==
  /\ ppp \subseteq {"localLcpAcked", "peerLcpAcked", "papRequired", "papSent",
                    "papDone", "ipcpStarted", "ipcpFinished", "sourceIp"}
  /\ round \in 0..(MaxRounds + MaxAttempts)
  /\ noise \in 0..MaxNoise

SstpInit == ppp = {} /\ round = 0 /\ server = {} /\ noise = 0

----------------------------------------------------------------------------
(* The server (external).                                                  *)

ServerSends(m, n) ==
  arriving' = [arriving EXCEPT !["main"] = @ \o Halves(m, n)]

\* Its PPP is done with LCP and, if it asked for it, with PAP.
NetworkPhase ==
  /\ {"lcp", "lcpAcked"} \subseteq server
  /\ "pap required" \in server => "papAck" \in server

Talking ==
  /\ adapter = "sstp" /\ phase \notin Over \cup {"open", "control"}
  /\ sock["main"] = "open"
  /\ "http" \notin {owed["main"][i] : i \in DOMAIN owed["main"]}

ServerAsksLcp ==
  /\ Talking /\ "lcpReq" \notin server
  /\ \E auth \in {"none", "pap", "other"} :
       /\ ServerSends("lcpReq", auth)
       /\ server' = server \cup {"lcpReq"}
                           \cup (IF auth = "none" THEN {} ELSE {"pap required"})
  /\ UNCHANGED <<choice, phase, sock, owed, buffered, history, cause, ppp,
                 round, noise>>

ServerAsksIpcp ==
  /\ Talking /\ NetworkPhase /\ "ipcpReq" \notin server
  /\ ServerSends("ipcpReq", 0)
  /\ server' = server \cup {"ipcpReq"}
  /\ UNCHANGED <<choice, phase, sock, owed, buffered, history, cause, ppp,
                 round, noise>>

\* Control packets, echo requests, protocols the adapter does not know.
ServerSendsNoise ==
  /\ Talking /\ noise < MaxNoise
  /\ ServerSends("noise", 0)
  /\ noise' = noise + 1
  /\ UNCHANGED <<choice, phase, sock, owed, buffered, history, cause, ppp,
                 round, server>>

\* What it is not ready for it discards: IPCP before its network phase, a
\* packet before its IPCP is open.
PppAnswers(request) ==
  CASE request = "lcp" -> {"lcpAck"}
    [] request = "pap" -> {"papAck", "papNak"}
    [] request = "ipcp" /\ NetworkPhase -> {"ipcpNak"}
    [] request = "address" /\ NetworkPhase -> {"ipcpAck"}
    [] request = "syn" /\ "ipcpAcked" \in server -> {"synAck", "rst"}
    [] OTHER -> {"nothing"}

ServerTakes ==
  /\ sock["main"] = "open" /\ owed["main"] # <<>>
  /\ LET request == Head(owed["main"])
     IN /\ request \notin DOMAIN Good
        /\ \E m \in PppAnswers(request) :
             /\ server' = server \cup {request, m}
             /\ IF m = "nothing" THEN UNCHANGED arriving ELSE ServerSends(m, 0)
  /\ owed' = [owed EXCEPT !["main"] = Tail(@)]
  /\ UNCHANGED <<choice, phase, sock, buffered, history, cause, ppp, round,
                 noise>>

----------------------------------------------------------------------------
(* The adapter.                                                            *)

SstpAsks ==
  /\ adapter = "sstp" /\ phase = "control"
  /\ sock["main"] \in {"open", "ended"}
  /\ Ask("main", <<"http", "lcp">>)
  /\ Advance("http", <<>>)
  /\ UNCHANGED sstpVars

HttpAccepted ==
  /\ adapter = "sstp" /\ phase = "http" /\ Complete
  /\ \/ /\ First = "accepted"
        /\ Advance("ppp", Rest)
        /\ UNCHANGED owed
     \/ First # "accepted" /\ Fail("rejected")
  /\ UNCHANGED sstpVars

BothAcked(flags) == {"localLcpAcked", "peerLcpAcked"} \subseteq flags
PapReady(flags) ==
  /\ BothAcked(flags)
  /\ "papRequired" \in flags /\ "papSent" \notin flags
IpcpReady(flags) ==
  /\ BothAcked(flags)
  /\ "ipcpStarted" \notin flags
  /\ "papRequired" \in flags => "papDone" \in flags

\* The loop ends when IPCP has finished, or at its limit.
NextRound(flags, writes) ==
  /\ ppp' = flags
  /\ round' = round + 1
  /\ Ask("main", writes)
  /\ Advance(IF "ipcpFinished" \in flags \/ round' = MaxRounds
             THEN "assigned" ELSE "ppp", Rest)
  /\ UNCHANGED <<server, noise>>

StartIpcpIfReady(flags, writes) ==
  LET due == IpcpReady(flags)
  IN NextRound(flags \cup (IF due THEN {"ipcpStarted"} ELSE {}),
               writes \o (IF due THEN <<"ipcp">> ELSE <<>>))

\* sendPapIfReady, and then startIpcpIfReady, which waits for papDone.
Continue(flags, writes) ==
  \/ ~PapReady(flags) /\ StartIpcpIfReady(flags, writes)
  \/ /\ PapReady(flags) /\ credentials
     /\ NextRound(flags \cup {"papSent"}, Append(writes, "pap"))
  \/ PapReady(flags) /\ ~credentials /\ Fail("credentials")
       /\ UNCHANGED sstpVars

PppFrame ==
  /\ adapter = "sstp" /\ phase = "ppp" /\ Complete
  /\ \/ /\ First = "lcpReq" /\ buffered[1].n # "other"
        /\ Continue(ppp \cup {"peerLcpAcked"}
                        \cup (IF buffered[1].n = "pap" THEN {"papRequired"}
                                                       ELSE {}),
                    <<"lcpAcked">>)
     \/ First = "lcpAck" /\ Continue(ppp \cup {"localLcpAcked"}, <<>>)
     \/ First = "papAck" /\ StartIpcpIfReady(ppp \cup {"papDone"}, <<>>)
     \/ First = "ipcpReq" /\ StartIpcpIfReady(ppp, <<"ipcpAcked">>)
     \/ First = "ipcpNak" /\ NextRound(ppp \cup {"sourceIp"}, <<"address">>)
     \/ First = "ipcpAck"
          /\ NextRound(ppp \cup {"sourceIp", "ipcpFinished"}, <<>>)
     \/ First = "noise" /\ NextRound(ppp, <<>>)
     \/ /\ \/ First = "lcpReq" /\ buffered[1].n = "other"
           \/ First = "papNak"
        /\ Fail("rejected")
        /\ UNCHANGED sstpVars

\* With an address the target is resolved; what the reader holds waits.
PppDone ==
  /\ phase = "assigned"
  /\ IF "sourceIp" \notin ppp
     THEN Fail("crowded") /\ UNCHANGED sstpVars
     ELSE /\ round' = 0
          /\ \/ Ask("main", <<"syn">>) /\ Advance("syn", buffered)
             \/ /\ phase' = "resolve" /\ buffered' = <<>>
                /\ arriving' = [arriving EXCEPT !["main"] = buffered \o @]
                /\ UNCHANGED <<choice, sock, owed, history, cause>>
          /\ UNCHANGED <<ppp, server, noise>>

SstpResolved ==
  /\ adapter = "sstp"
  /\ Resolved("syn")
  /\ Ask("main", <<"syn">>)
  /\ UNCHANGED sstpVars

SynFrame ==
  /\ adapter = "sstp" /\ phase = "syn" /\ Complete
  /\ \/ /\ First = "synAck"
        /\ Ask("main", <<"ack">>)
        /\ Advance("open", Rest)
        /\ UNCHANGED round
     \/ /\ First # "synAck" /\ round + 1 < MaxAttempts
        /\ round' = round + 1
        /\ Advance("syn", Rest)
        /\ UNCHANGED owed
     \/ /\ First # "synAck" /\ round + 1 >= MaxAttempts
        /\ Fail("crowded")
        /\ UNCHANGED round
  /\ UNCHANGED <<ppp, server, noise>>

\* Why nobody is late although the adapter waits: the server's request for
\* IPCP comes after its acknowledgement of ours, and is never answered.
Unanswered ==
  CASE phase = "ppp" /\ "lcpReq" \notin server -> "slow"
    [] phase = "syn" /\ "rst" \in server -> "rejected"
    [] phase = "syn" /\ "ipcpAcked" \notin server -> "crossed"
    [] OTHER -> "none"

SstpTimesOut ==
  /\ adapter = "sstp"
  /\ TimesOut(Unanswered)
  /\ UNCHANGED sstpVars

SstpClient ==
  \/ SstpAsks \/ HttpAccepted \/ PppFrame \/ PppDone \/ SstpResolved
  \/ SynFrame \/ SstpTimesOut
SstpServer ==
  \/ ServerAsksLcp \/ ServerAsksIpcp \/ ServerSendsNoise \/ ServerTakes

=============================================================================
