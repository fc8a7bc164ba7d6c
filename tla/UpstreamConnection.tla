------------------------- MODULE UpstreamConnection -------------------------
(***************************************************************************)
(* An attempt with any of the upstream adapters, as connectToProxy makes   *)
(* it (core/proxy.js, protocols/upstream.js): the steps of the adapters,   *)
(* of their servers and of the network, and what the caller relies on.     *)
(***************************************************************************)
EXTENDS SocksUpstream, TurnUpstream, SstpUpstream

connectionVars == <<attemptVars, sstpVars>>

ConnectionInit == AttemptInit /\ SstpInit

Continues ==
  \/ /\ \/ SocksStep \/ TurnStep
        \/ adapter = "turn" /\ (Resolved("control") /\ UNCHANGED owed)
        \/ DialResolver \/ AskResolver
     /\ UNCHANGED sstpVars
  \/ SstpClient

GivesUp ==
  /\ \/ ReadsEnd \/ WriteFails \/ NoResolver \/ ResolverRefuses
     \/ adapter = "turn" /\ TimesOut("none")
  /\ UNCHANGED sstpVars

\* What the adapter does on its own, its timers included.
ClientStep ==
  \/ Continues \/ GivesUp
  \/ Pull /\ UNCHANGED sstpVars

Environment ==
  \/ /\ \/ \E l \in Link : \/ SocketOpens(l) \/ SocketRefused(l)
                           \/ ServerEnds(l) \/ Answer(l)
        \/ TargetSends \/ SessionCloses \/ DataSocketClosed
     /\ UNCHANGED sstpVars
  \/ SstpServer

ConnectionNext == ClientStep \/ Environment

ConnectionSpec == ConnectionInit /\ [][ConnectionNext]_connectionVars

----------------------------------------------------------------------------

Outcome == CASE phase = "open" -> "open" [] phase \in Over -> "over"
             [] OTHER -> "trying"
Held == {l \in Link : sock[l] \in {"opening", "open", "ended"}}

C == INSTANCE Connector WITH Conn <- Link, Lasting <- {"main", "data"},
                             outcome <- Outcome, held <- Held

(***************************************************************************)
(* Every adapter is a Connector: an attempt that fails at any point, by an *)
(* error, a refusal, an end of stream or a timer, leaves no connection     *)
(* behind, and neither does a session that ends; a session is never handed *)
(* the resolver's connection.                                              *)
(***************************************************************************)
ImplementsConnector == C!Connects

(***************************************************************************)
(* However the servers' messages are cut and coalesced, and whatever order *)
(* an SSTP server makes its own requests in, an attempt with servers that  *)
(* answer as their protocols say fails only for a reason an observer of    *)
(* the wires can give: no adapter waits for what it has already read, or   *)
(* for an answer to what it has not asked.                                 *)
(***************************************************************************)
FailsOnlyForCause == phase = "failed" => cause # "none"

(***************************************************************************)
(* What the target says before the adapter has handed over its connection  *)
(* reaches the session in full and in order, also when it shares a read    *)
(* with the proxy's last reply.  (SOCKS5 and CONNECT promise this only     *)
(* when no read held a reply together with something else or a part of     *)
(* one; inside SSTP the target speaks in frames of the inner TCP.)         *)
(***************************************************************************)
Spoken(n) == [i \in 1..(2 * n) |-> Half("data", (i + 1) \div 2, 2 - (i % 2))]

EarlyBytesKept ==
  phase = "open" /\ whole /\ adapter # "sstp"
    => buffered \o arriving[SessionLink] = Spoken(sent)

(***************************************************************************)
(* An attempt comes to an end, under fairness of the adapter's own steps   *)
(* alone: with TURN and SSTP every wait has a timer, whatever the servers  *)
(* do not do.  A SOCKS5 or CONNECT attempt may be left waiting, but only   *)
(* for a proxy that has accepted and says nothing.                         *)
(***************************************************************************)
ProxySilent ==
  /\ adapter \notin Timed
  /\ sock["main"] \in {"opening", "open"} /\ arriving["main"] = <<>>
AttemptSettles == []<>(phase \in Over \cup {"open"} \/ ProxySilent)

=============================================================================
