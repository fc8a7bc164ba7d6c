------------------------------ MODULE DnsRelay ------------------------------
(***************************************************************************)
(* DNS queries of a UDP session, relayed one call of forwardDataUDP after  *)
(* the other to a TCP resolver (src/src/core/proxy.js, and the sessions of *)
(* core/http-tunnel.js).  Each call dials the resolver anew, passes what   *)
(* it answers to the client as it comes, and swallows every failure.       *)
(*                                                                         *)
(* Queries are numbered; an answer has two halves, so that it can be cut.  *)
(* A definition X_Y is no part of the model: it is X with a plausible bug. *)
(***************************************************************************)
EXTENDS Naturals, Sequences, SequencesExt

CONSTANTS MaxMessages, MaxQueries  \* bounds: of the client, and per message

ASSUME DnsAssumption == MaxMessages \in Nat /\ MaxQueries \in Nat

(***************************************************************************)
(* VLESS over WebSocket, XHTTP or gRPC, or Trojan over any of them.        *)
(***************************************************************************)
Transport == {"ws", "http", "grpc", "trojan"}

VARIABLES
  transport,  \* "none" before the handshake
  inbox,      \* the client's messages that are not handed on yet
  received,   \* how many it has sent
  header,     \* the VLESS response header is still to be passed on
  packets,    \* Trojan packets decoded from the message and not yet asked
  call,       \* the running forwardDataUDP, or NoCall
  asked,      \* queries relayed so far
  failed,     \* a call has ended without all its answers
  answers,    \* what the client received
  clientOpen

dnsVars == <<transport, inbox, received, header, packets, call, asked, failed,
             answers, clientOpen>>

NoCall == [stage |-> "idle"]
Header == <<0, 0>>
Half(query, half) == <<query, half>>
Frame(query) == <<query, 0>>     \* a whole answer behind a Trojan header

DnsInit ==
  /\ transport = "none"
  /\ inbox = <<>> /\ received = 0
  /\ header = FALSE
  /\ packets = 0 /\ call = NoCall /\ asked = 0
  /\ failed = FALSE
  /\ answers = <<>>
  /\ clientOpen = TRUE

\* The handshake; over gRPC the header goes out before anything else.
DnsStarts(t) ==
  /\ transport = "none"
  /\ transport' = t
  /\ header' = (t \in {"ws", "http"})
  /\ answers' = IF t = "grpc" THEN <<Header>> ELSE <<>>
  /\ UNCHANGED <<inbox, received, packets, call, asked, failed, clientOpen>>

(***************************************************************************)
(* The client sends some queries, perhaps with a cut one behind them; the  *)
(* first message may be what the handshake left over, which is nothing if  *)
(* the client sends the handshake alone.                                   *)
(***************************************************************************)
ClientAsks(queries, cut) ==
  /\ transport # "none" /\ received < MaxMessages
  /\ cut => transport # "trojan"
  /\ inbox' = Append(inbox, [queries |-> queries, cut |-> cut])
  /\ received' = received + 1
  /\ UNCHANGED <<transport, header, packets, call, asked, failed, answers,
                 clientOpen>>

ClientLeaves ==
  /\ transport # "none" /\ clientOpen
  /\ clientOpen' = FALSE
  /\ UNCHANGED <<transport, inbox, received, header, packets, call, asked,
                 failed, answers>>

\* 'expected' queries, of which the first is number 'base' + 1; 'got' halves.
Call(queries, framed) ==
  [stage |-> "connect", expected |-> queries, framed |-> framed,
   base |-> asked, got |-> 0]

\* A message with bytes in it is relayed; an XHTTP or gRPC body has no others.
RelayMessage ==
  /\ transport \in {"ws", "http", "grpc"}
  /\ inbox # <<>> /\ call = NoCall
  /\ LET m == Head(inbox)
     IN call' = IF transport = "ws" \/ m.queries > 0 \/ m.cut
                THEN Call(m.queries, m.queries > 0 /\ ~m.cut) ELSE NoCall
  /\ inbox' = Tail(inbox)
  /\ UNCHANGED <<transport, received, header, packets, asked, failed, answers,
                 clientOpen>>

\* Trojan packets are relayed one by one.
DecodePackets ==
  /\ transport = "trojan"
  /\ inbox # <<>> /\ packets = 0 /\ call = NoCall
  /\ packets' = Head(inbox).queries
  /\ inbox' = Tail(inbox)
  /\ UNCHANGED <<transport, received, header, call, asked, failed, answers,
                 clientOpen>>

RelayPacket ==
  /\ packets > 0 /\ call = NoCall
  /\ packets' = packets - 1
  /\ call' = Call(1, TRUE)
  /\ UNCHANGED <<transport, inbox, received, header, asked, failed, answers,
                 clientOpen>>

\* The call returns: the socket is closed; the header was this call's to send.
EndCall_KeepsHeader(ok) ==    \* responseHeader = null is forgotten
  /\ call' = NoCall
  /\ asked' = asked + call.expected
  /\ failed' = (failed \/ ~ok)
  /\ UNCHANGED header

EndCall(ok) ==
  /\ call' = NoCall
  /\ asked' = asked + call.expected
  /\ failed' = (failed \/ ~ok)
  /\ header' = FALSE

\* The resolver is reached and the message written to it.
ResolverConnects ==
  /\ call.stage = "connect"
  /\ IF call.framed
     THEN call' = [call EXCEPT !.stage = "read"]
          /\ UNCHANGED <<header, asked, failed>>
     ELSE EndCall(FALSE)
  /\ UNCHANGED <<transport, inbox, received, packets, answers, clientOpen>>

(***************************************************************************)
(* A chunk of n halves.  The header goes in front of the call's first one; *)
(* TrojanDnsResponseFramer holds an answer back until it is complete.      *)
(***************************************************************************)
AnswerArrives(n) ==
  /\ call.stage = "read"
  /\ LET halves == [i \in 1..n |->
                      LET k == call.got + i - 1
                      IN Half(call.base + 1 + (k \div 2), 1 + (k % 2))]
         done == call.got + n = 2 * call.expected
         sent == IF transport = "trojan"
                 THEN IF done THEN <<Frame(call.base + 1)>> ELSE <<>>
                 ELSE (IF header /\ call.got = 0 THEN <<Header>> ELSE <<>>)
                        \o halves
     IN /\ answers' = IF clientOpen THEN answers \o sent ELSE answers
        /\ IF done THEN EndCall(TRUE)
           ELSE call' = [call EXCEPT !.got = @ + n]
                /\ UNCHANGED <<header, asked, failed>>
  /\ UNCHANGED <<transport, inbox, received, packets, clientOpen>>

CallFails_NoDialTimeout ==    \* connect() is awaited without the timer
  /\ call.stage = "read"
  /\ EndCall(FALSE)
  /\ UNCHANGED <<transport, inbox, received, packets, answers, clientOpen>>

\* The dial or a read fails, the resolver closes, or ten seconds pass.
CallFails ==
  /\ call # NoCall
  /\ EndCall(FALSE)
  /\ UNCHANGED <<transport, inbox, received, packets, answers, clientOpen>>

Chunks == IF call.stage = "read" THEN 1..(2 * call.expected - call.got) ELSE {}

DnsStep == RelayMessage \/ DecodePackets \/ RelayPacket \/ CallFails

DnsNext ==
  \/ \E t \in Transport : DnsStarts(t)
  \/ \E queries \in 0..MaxQueries, cut \in BOOLEAN : ClientAsks(queries, cut)
  \/ ClientLeaves
  \/ DnsStep
  \/ ResolverConnects
  \/ \E n \in Chunks : AnswerArrives(n)

DnsSpec == DnsInit /\ [][DnsNext]_dnsVars

----------------------------------------------------------------------------
Increasing(s) == \A i, j \in DOMAIN s : i < j => s[i][1] < s[j][1]

(***************************************************************************)
(* Over Trojan the client receives whole answers, each once and in the     *)
(* order of its queries, whichever of them fail.  Over VLESS it can read   *)
(* the stream - one header, then the answers of all queries without gap    *)
(* or repetition, complete whenever no call is running - until a call has  *)
(* failed.  (After that the halves of the next answer may follow the half  *)
(* of a broken one.)                                                       *)
(***************************************************************************)
DnsAnswersReadable ==
  LET total == asked + (IF call = NoCall THEN 0 ELSE call.expected)
      all == <<Header>> \o [i \in 1..(2 * total) |->
                              Half((i + 1) \div 2, 2 - (i % 2))]
  IN IF transport = "trojan"
     THEN Increasing(answers) /\ \A i \in DOMAIN answers : answers[i][2] = 0
     ELSE ~failed =>
            /\ IsPrefix(answers, all)
            /\ call = NoCall /\ clientOpen /\ asked > 0 => answers = all

(***************************************************************************)
(* A silent resolver holds a session up for no longer than its timers run: *)
(* every message of the client is relayed in the end.                      *)
(***************************************************************************)
DnsMessagesRelayed == inbox # <<>> ~> inbox = <<>>
=============================================================================
