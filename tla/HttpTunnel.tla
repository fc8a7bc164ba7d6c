----------------------------- MODULE HttpTunnel -----------------------------
(***************************************************************************)
(* A TCP session over XHTTP or gRPC (src/src/core/http-tunnel.js): start() *)
(* of the response stream dials and then copies the request's body to the  *)
(* remote, connectStreams (core/proxy.js) copies the answer into the       *)
(* response, and either end may go away.                                   *)
(*                                                                         *)
(* A dial is one await here: the race of its candidates is TunnelSession's *)
(* and a socket whose dial fails is not followed.  The request's body and  *)
(* the response are independent streams of the client.                     *)
(* A definition X_Y is no part of the model: it is X with a plausible bug. *)
(***************************************************************************)
EXTENDS Naturals

CONSTANTS MaxBody, NoRemote  \* bound: chunks of the body; no socket

VARIABLES
  route,     \* what forwardDataTCP was configured with, "none" before
  copy,      \* where start() stands
  lock,      \* start() still holds the body's reader
  body,      \* chunks that wait in the request's body; whether it has ended
  bodySent,  \* chunks the client has sent
  bridge,    \* bridge.readyState is OPEN
  cancelled, \* the client has cancelled the response
  remote,    \* remote.socket
  link,      \* the sockets: "none", "dialing", "open", "half", "closed"
  relay,     \* their connectStreams: "off", "silent", "data", "over"
  adopted    \* a retry has opened its socket after start() had ended

httpVars == <<route, copy, lock, body, bodySent, bridge, cancelled, remote, link,
              relay, adopted>>

\* The dial to the target, and the dial of connectToProxy.
Link == {"direct", "proxy"}
Route == {"upstream", "direct", "directOrProxy"}

ASSUME HttpAssumption == NoRemote \notin Link

HttpInit ==
  /\ route = "none" /\ copy = "start" /\ lock = TRUE
  /\ body = [waiting |-> 0, ended |-> FALSE] /\ bodySent = 0
  /\ bridge = TRUE /\ cancelled = FALSE
  /\ remote = NoRemote
  /\ link = [s \in Link |-> "none"] /\ relay = [s \in Link |-> "off"]
  /\ adopted = FALSE

Close(l, s) == IF s = NoRemote THEN l
               ELSE IF l[s] \in {"open", "half"} THEN [l EXCEPT ![s] = "closed"]
               ELSE l

\* The handshake is read; forwardDataTCP dials.
HttpStarts(r) ==
  /\ route = "none"
  /\ route' = r /\ copy' = "dial"
  /\ link' = [link EXCEPT ![IF r = "upstream" THEN "proxy" ELSE "direct"]
                            = "dialing"]
  /\ UNCHANGED <<lock, body, bodySent, bridge, cancelled, remote, relay, adopted>>

\* The dial and the write of the first data succeed: the session's socket.
Adopt(s) ==
  /\ link[s] = "dialing"
  /\ link' = [link EXCEPT ![s] = "open"]
  /\ relay' = [relay EXCEPT ![s] = "silent"]
  /\ remote' = s

DialSucceeds(s) ==
  /\ copy = "dial" /\ Adopt(s)
  /\ copy' = "read"
  /\ UNCHANGED <<route, lock, body, bodySent, bridge, cancelled, adopted>>

(***************************************************************************)
(* Through an upstream proxy the failure is start()'s to catch; otherwise  *)
(* the proxy is tried, and if that fails too the response is closed and    *)
(* start() goes on.                                                        *)
(***************************************************************************)
DialFails(s) ==
  /\ copy = "dial" /\ link[s] = "dialing"
  /\ LET again == s = "direct" /\ route = "directOrProxy"
     IN /\ link' = [link EXCEPT ![s] = "closed",
                                !["proxy"] = IF again THEN "dialing" ELSE @]
        /\ copy' = IF again THEN "dial"
                   ELSE IF route = "upstream" THEN "caught" ELSE "read"
        /\ bridge' = (bridge /\ again)
  /\ UNCHANGED <<route, lock, body, bodySent, cancelled, remote, relay, adopted>>

----------------------------------------------------------------------------
ClientSendsChunk ==
  /\ route # "none" /\ ~body.ended /\ bodySent < MaxBody
  /\ body' = [body EXCEPT !.waiting = @ + 1]
  /\ bodySent' = bodySent + 1
  /\ UNCHANGED <<route, copy, lock, bridge, cancelled, remote, link, relay, adopted>>

ClientEndsBody ==
  /\ route # "none" /\ ~body.ended
  /\ body' = [body EXCEPT !.ended = TRUE]
  /\ UNCHANGED <<route, copy, lock, bodySent, bridge, cancelled, remote, link,
                 relay, adopted>>

\* reader.read() returns a chunk; without a remote, 'Remote socket is
\* unavailable' is thrown.
ReadChunk ==
  /\ copy = "read" /\ lock /\ body.waiting > 0
  /\ body' = [body EXCEPT !.waiting = @ - 1]
  /\ copy' = IF remote = NoRemote THEN "caught" ELSE "write"
  /\ UNCHANGED <<route, lock, bodySent, bridge, cancelled, remote, link, relay,
                 adopted>>

\* The write fails if its socket has been closed meanwhile.
WriteReturns(ok) ==
  /\ copy = "write" /\ (ok \/ \E s \in Link : link[s] = "closed")
  /\ copy' = IF ok THEN "read" ELSE "caught"
  /\ UNCHANGED <<route, lock, body, bodySent, bridge, cancelled, remote, link,
                 relay, adopted>>

\* The body is over: the remote is told so, and may go on answering.
ReadEnd ==
  /\ copy = "read" /\ lock /\ body.ended /\ body.waiting = 0
  /\ copy' = "done" /\ lock' = FALSE
  /\ link' = [s \in Link |-> IF s = remote /\ link[s] = "open" THEN "half"
                             ELSE link[s]]
  /\ UNCHANGED <<route, body, bodySent, bridge, cancelled, remote, relay, adopted>>

\* cancel() has released the reader: reading from it throws.
ReadRejects ==
  /\ copy = "read" /\ ~lock
  /\ copy' = "caught"
  /\ UNCHANGED <<route, lock, body, bodySent, bridge, cancelled, remote, link,
                 relay, adopted>>

Catch_KeepsSocket ==          \* the catch only reports the error
  /\ copy = "caught"
  /\ copy' = "done" /\ lock' = FALSE /\ bridge' = FALSE
  /\ UNCHANGED link
  /\ UNCHANGED <<route, body, bodySent, cancelled, remote, relay, adopted>>

Catch ==
  /\ copy = "caught"
  /\ copy' = "done" /\ lock' = FALSE /\ bridge' = FALSE
  /\ link' = Close(link, remote)
  /\ UNCHANGED <<route, body, bodySent, cancelled, remote, relay, adopted>>

\* The client cancels a response that is not over.
Cancel ==
  /\ route # "none" /\ bridge /\ ~cancelled
  /\ cancelled' = TRUE
  /\ link' = Close(link, remote)
  /\ lock' = FALSE
  /\ UNCHANGED <<route, copy, body, bodySent, bridge, remote, relay, adopted>>

----------------------------------------------------------------------------
\* A chunk of the answer; a response that is over refuses it, which ends the
\* pipe and cancels the socket's readable side.
RemoteAnswers(s) ==
  /\ relay[s] \in {"silent", "data"} /\ link[s] \in {"open", "half"}
  /\ relay' = [relay EXCEPT ![s] = IF bridge /\ ~cancelled THEN "data" ELSE "over"]
  /\ bridge' = (bridge /\ ~cancelled)
  /\ UNCHANGED <<route, copy, lock, body, bodySent, cancelled, remote, link,
                 adopted>>

RemoteCloses(s) ==
  /\ link[s] \in {"open", "half"}
  /\ link' = [link EXCEPT ![s] = "closed"]
  /\ UNCHANGED <<route, copy, lock, body, bodySent, bridge, cancelled, remote,
                 relay, adopted>>

\* socket.closed settles: its handler closes the response, before or after
\* connectStreams notices that the stream is over.
ClosedHandler(s) ==
  /\ link[s] = "closed" /\ relay[s] # "off" /\ bridge
  /\ bridge' = FALSE
  /\ UNCHANGED <<route, copy, lock, body, bodySent, cancelled, remote, link,
                 relay, adopted>>

\* connectStreams returns; a direct connection without an answer is retried.
RelayEnds(s) ==
  /\ relay[s] \in {"silent", "data"} /\ link[s] = "closed"
  /\ LET retry == relay[s] = "silent" /\ s = "direct" /\ route = "directOrProxy"
     IN /\ link' = [link EXCEPT !["proxy"] = IF retry THEN "dialing" ELSE @]
        /\ bridge' = (bridge /\ relay[s] = "silent")
  /\ relay' = [relay EXCEPT ![s] = "over"]
  /\ UNCHANGED <<route, copy, lock, body, bodySent, cancelled, remote, adopted>>

\* connectToProxy of a retry adopts its socket whatever has become of the
\* session.
RetrySucceeds ==
  /\ copy # "dial" /\ Adopt("proxy")
  /\ adopted' = (adopted \/ copy = "done")
  /\ UNCHANGED <<route, copy, lock, body, bodySent, bridge, cancelled>>

RetryFails ==
  /\ copy # "dial" /\ link["proxy"] = "dialing"
  /\ link' = [link EXCEPT !["proxy"] = "closed"]
  /\ bridge' = FALSE
  /\ UNCHANGED <<route, copy, lock, body, bodySent, cancelled, remote, relay,
                 adopted>>

\* What runs by itself.  A dial ends by its timer, if not through an upstream.
HttpStep ==
  \/ ReadChunk \/ (\E ok \in BOOLEAN : WriteReturns(ok))
  \/ ReadEnd \/ ReadRejects \/ Catch
  \/ \E s \in Link : ClosedHandler(s) \/ RelayEnds(s)

DialEnds ==
  \E s \in Link : DialFails(s) \/ DialSucceeds(s)

HttpNext ==
  \/ \E r \in Route : HttpStarts(r)
  \/ HttpStep
  \/ DialEnds
  \/ ClientSendsChunk \/ ClientEndsBody \/ Cancel
  \/ \E s \in Link : RemoteAnswers(s) \/ RemoteCloses(s)
  \/ RetrySucceeds \/ RetryFails

HttpSpec == HttpInit /\ [][HttpNext]_httpVars

----------------------------------------------------------------------------
(***************************************************************************)
(* However the client's cancellation, the dials, the body and the remote   *)
(* interleave: when start() has ended, every socket has been closed or, if *)
(* the body came to its end and the client still listens, closed for       *)
(* writing.  The exception is one that a retry opens afterwards.           *)
(***************************************************************************)
TunnelReleasesSockets ==
  copy = "done" =>
    \A s \in Link :
      \/ link[s] \notin {"open", "half"}
      \/ link[s] = "half" /\ ~cancelled
      \/ s = "proxy" /\ adopted

(***************************************************************************)
(* A session whose response was cancelled ends: start() does not wait for  *)
(* the rest of a body that never comes, nor for a dial.  (Only the timers  *)
(* of the Worker's own dials are assumed, not the upstream's.)             *)
(***************************************************************************)
CancelledTunnelEnds == cancelled /\ route # "upstream" ~> copy = "done"
=============================================================================
