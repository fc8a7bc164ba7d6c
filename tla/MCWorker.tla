------------------------------ MODULE MCWorker ------------------------------
(***************************************************************************)
(* Five parts of the Worker that share no state, for TLC: the decoders,    *)
(* the Shadowsocks sender, the DNS relay, the HTTP tunnel and the settings *)
(* in KV.  A behaviour takes steps of one of them only, so that their      *)
(* state spaces add up instead of multiplying.                             *)
(***************************************************************************)
EXTENDS StreamDecoders, ShadowsocksSender, DnsRelay, HttpTunnel, WorkerConfig

\* Addresses of every type; 13 and 10 are CR and LF.
Hosts(types) ==
  {[type |-> types[1], hostname |-> <<1, 2>>],
   [type |-> types[2], hostname |-> <<2, 13, 10>>],
   [type |-> types[2], hostname |-> <<1, 5>>],
   [type |-> types[3], hostname |-> <<13, 10, 3>>]}

\* Streams of one frame or two, and handshakes, with the bytes behind them.
MCSamples ==
  LET socks == Hosts(<<1, 3, 4>>)
      Streams(kind, frames, rest) ==
        [kind : {kind}, rest : {rest},
         frames : {<<f>> : f \in frames} \cup {<<f, g>> : f, g \in frames}]
      Request1(kind, frames, rest) ==
        [kind : {kind}, rest : {rest}, frames : {<<f>> : f \in frames}]
  IN UNION {
    Streams("trojanUdp", {[type |-> h.type, hostname |-> h.hostname,
                           port |-> 53, payload |-> p] :
                            h \in socks, p \in {<<>>, <<1, 13, 10>>}}, <<3>>),
    Streams("dns", {<<>>, <<0, 1>>, <<7, 7, 7>>}, <<0>>),
    Streams("grpc", [hunk : {TRUE},
                     payload : {<<>>, <<10, 0, 9>>, <<1, 2, 3, 4, 5, 6>>}]
                    \cup [hunk : {FALSE}, payload : {<<0, 0>>, <<10>>}],
            <<0, 0>>),
    Streams("shadowsocks", {<<5>>, <<6, 7>>}, <<>>),
    Request1("target", {[type |-> h.type, hostname |-> h.hostname, port |-> p] :
                          h \in socks, p \in {1, 256}}, <<1, 2>>),
    Request1("handshake", {[protocol |-> "trojan", type |-> h.type, isUDP |-> u,
                            hostname |-> h.hostname, port |-> 443] :
                             h \in socks, u \in BOOLEAN},
             <<1, 1, 1, 1, 1, 2, 1>>),
    Request1("handshake", {[protocol |-> "vless", type |-> h.type, option |-> o,
                            isUDP |-> u, hostname |-> h.hostname, port |-> 3338] :
                             h \in Hosts(<<1, 2, 3>>), o \in {<<>>, <<2>>},
                             u \in BOOLEAN}, <<1, 13, 10>>),
    Streams("speedtest", [named : {TRUE}, body : {<<>>, HeaderEnd, <<1>>}]
                         \cup [named : {FALSE}, body : {<<>>}], <<71>>)}

vars == <<streamVars, senderVars, dnsVars, httpVars, kvVars>>

Init == StreamInit /\ SenderInit /\ DnsInit /\ HttpInit /\ ConfigInit

Decoding == /\ SenderInit /\ DnsInit /\ HttpInit /\ ConfigInit
            /\ StreamNext
            /\ UNCHANGED <<senderVars, dnsVars, httpVars, kvVars>>
Sending == /\ StreamInit /\ DnsInit /\ HttpInit /\ ConfigInit
           /\ SenderNext
           /\ UNCHANGED <<streamVars, dnsVars, httpVars, kvVars>>
Relaying(step) == /\ StreamInit /\ SenderInit /\ HttpInit /\ ConfigInit
                  /\ step
                  /\ UNCHANGED <<streamVars, senderVars, httpVars, kvVars>>
Tunneling(step) == /\ StreamInit /\ SenderInit /\ DnsInit /\ ConfigInit
                   /\ step
                   /\ UNCHANGED <<streamVars, senderVars, dnsVars, kvVars>>
Configuring == /\ StreamInit /\ SenderInit /\ DnsInit /\ HttpInit
               /\ ConfigNext
               /\ UNCHANGED <<streamVars, senderVars, dnsVars, httpVars>>

Next ==
  \/ Decoding \/ Sending \/ Configuring
  \/ Relaying(DnsNext) \/ Tunneling(HttpNext)

\* The Worker's own steps are not put off for ever; its calls of forwardDataUDP
\* and its dials end by a timer, if not otherwise.
Spec ==
  /\ Init /\ [][Next]_vars
  /\ WF_vars(Relaying(DnsStep))
  /\ WF_vars(Tunneling(HttpStep))
  /\ WF_vars(Tunneling(route # "upstream" /\ DialEnds))

(***************************************************************************)
(* Nothing of a session waits for ever: every query handed to a resolver   *)
(* is over some time, so that the client's next message is relayed, and    *)
(* start() of a cancelled response ends.                                   *)
(***************************************************************************)
SessionsEnd == DnsMessagesRelayed /\ CancelledTunnelEnds
=============================================================================
