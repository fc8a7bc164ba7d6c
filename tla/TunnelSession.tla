---------------------------- MODULE TunnelSession ----------------------------
(***************************************************************************)
(* One WebSocket session that tunnels a TCP connection (core/proxy.js):    *)
(* the handshake, the dial with its race of candidates (core/dialer.js),   *)
(* the fallback to a proxy, the relay in both directions, the timers, and  *)
(* the ways a session ends.                                                *)
(*                                                                         *)
(* A step is what runs between two awaits.  Events of the network, timers  *)
(* and the continuations of settled promises come in any order.  The       *)
(* client's messages are numbered; of a remote's answer only its origin    *)
(* is kept.  UDP and the local speed test take other branches of the same  *)
(* handler and are not part of this model.                                 *)
(* A definition X_Y is no part of the model: it is X with a plausible bug. *)
(***************************************************************************)
EXTENDS Naturals, Sequences, EgressObserver

CONSTANTS
  Attempt,      \* the TCP_CONCURRENT_DIAL attempts of one race
  MaxChunks,    \* bound: messages of the client
  MaxReplies,   \* bound: chunks of the remotes
  NoSocket

(***************************************************************************)
(* A socket is named by the dial it was opened for.  A session dials the   *)
(* upstream proxy, or the target directly and then perhaps the one entry   *)
(* of PROXYIP and, as a fallback, that name once more; each at most once.  *)
(***************************************************************************)
Stage == {"upstream", "direct", "proxy", "fallback"}
Candidates(stage) ==
  IF stage \in {"direct", "fallback"} THEN {stage} \X Attempt
                                      ELSE {<<stage, "only">>}
Socket == UNION {Candidates(stage) : stage \in Stage}
StageOf(s) == s[1]

ASSUME TunnelAssumption ==
  /\ Attempt # {} /\ NoSocket \notin Socket
  /\ MaxChunks \in Nat /\ MaxReplies \in Nat

\* What the request and the environment choose for the whole session.  With
\* an upstream proxy, PROXYIP plays no part.  The target is one of the
\* diagnostic targets; another has no observer, and nothing else differs.
Mode == {m \in [shadowsocks : BOOLEAN, upstream : BOOLEAN, proxyIP : BOOLEAN,
                enableProxyFallback : BOOLEAN] :
           /\ m.enableProxyFallback => m.proxyIP
           /\ m.upstream => ~m.proxyIP}

VARIABLES
  mode,
  ws,         \* serverSock.readyState
  arrived,    \* client messages received ...
  taken,      \* ... and handed to the sink
  sink,       \* the sink of the client's stream, and the socket it writes to
  request,    \* the message that completed the handshake, or 0
  idleTimer, maxSessionTimer,
  wrapper,    \* remoteConnWrapper
  dial,       \* the running dial, by the sink or by a retry
  sock,       \* every socket of the session
  hooked,     \* sockets whose 'closed' still has to close the client
  pump,       \* connectStreams
  observer,
  got,        \* client messages each remote received
  heard,      \* answers the client received
  adoptedIn   \* ws when the last dial succeeded

vars == <<mode, ws, arrived, taken, sink, request, idleTimer, maxSessionTimer,
          wrapper, dial, sock, hooked, pump, observer, got, heard, adoptedIn>>
timers == <<idleTimer, maxSessionTimer>>
client == <<arrived, taken, request>>
history == <<got, heard, adoptedIn>>

ReadyState == {"open", "closing", "closed"}

NoDial == [stage |-> "direct", by |-> "sink", pc |-> "none",
           winner |-> NoSocket]
Ready == [pc |-> "ready", to |-> NoSocket]
Dead == [pc |-> "dead", to |-> NoSocket]

TypeOK ==
  /\ mode \in Mode
  /\ {ws, adoptedIn} \subseteq ReadyState
  /\ arrived \in 0..MaxChunks /\ taken \in 0..arrived /\ request \in 0..taken
  /\ sink \in [pc : {"ready", "dial", "write", "dead"},
               to : Socket \cup {NoSocket}]
  /\ {idleTimer, maxSessionTimer} \subseteq BOOLEAN
  /\ wrapper \in [socket : Socket \cup {NoSocket}, observed : BOOLEAN]
  /\ dial \in [stage : Stage, by : {"sink", "retry"},
               pc : {"none", "race", "write", "failed"},
               winner : Socket \cup {NoSocket}]
  /\ sock \in [Socket -> {"none", "dialing", "open", "ended", "closed"}]
  /\ hooked \subseteq Socket
  /\ pump \in [socket : Socket \cup {NoSocket}, hasData : BOOLEAN,
               header : BOOLEAN, retry : BOOLEAN,
               pc : {"none", "run", "ended", "done"}]
  /\ observer \in Observer
  /\ got \in [Socket -> Seq(1..MaxChunks)]
  /\ heard \in Seq([from : Socket, header : BOOLEAN])

Init ==
  /\ mode \in Mode
  /\ ws = "open" /\ adoptedIn = "open"
  /\ arrived = 0 /\ taken = 0 /\ request = 0
  /\ sink = Ready
  /\ idleTimer = TRUE /\ maxSessionTimer = TRUE
  /\ wrapper = [socket |-> NoSocket, observed |-> FALSE]
  /\ dial = NoDial
  /\ sock = [s \in Socket |-> "none"]
  /\ hooked = {}
  /\ pump = [socket |-> NoSocket, hasData |-> FALSE, header |-> FALSE,
             retry |-> FALSE, pc |-> "none"]
  /\ observer = None
  /\ got = [s \in Socket |-> <<>>]
  /\ heard = <<>>

----------------------------------------------------------------------------
(***************************************************************************)
(* Closing.  f and o are the sockets and the observer as the step leaves   *)
(* them otherwise.  A close() of the server side waits for the client's;   *)
(* with Shadowsocks the bridge that stands for the client's socket closes  *)
(* the whole session.                                                      *)
(***************************************************************************)
Released(f) ==
  [s \in Socket |-> IF s = wrapper.socket /\ f[s] = "open" THEN "closed"
                                                           ELSE f[s]]
Closing == IF ws = "open" THEN "closing" ELSE ws
Finished(o) == IF wrapper.observed THEN Finish(o) ELSE o

CloseSession(f, o) ==
  /\ ws' = Closing
  /\ sock' = Released(f)
  /\ observer' = Finished(o)

CloseSocketQuietly(f, o) ==
  IF mode.shadowsocks /\ ws # "closed"
  THEN CloseSession(f, o)
  ELSE ws' = Closing /\ sock' = f /\ observer' = o

----------------------------------------------------------------------------
(* Dialling.                                                               *)

StartDial(stage, by, o) ==
  /\ dial' = [stage |-> stage, by |-> by, pc |-> "race", winner |-> NoSocket]
  /\ sock' = [s \in Socket |-> IF StageOf(s) = stage THEN "dialing"
                                                     ELSE sock[s]]
  /\ observer' = o
  /\ UNCHANGED ws

\* The dial ends without a socket: the client's socket is closed.
GiveUp(by, o) ==
  /\ dial' = [NoDial EXCEPT !.by = by]
  /\ CloseSocketQuietly(sock, o)

\* PROXYIP may be no address that parseProxyAddress understands.
DialProxy(by, o) ==
  \/ StartDial("proxy", by, o)
  \/ mode.enableProxyFallback /\ StartDial("fallback", by, o)
  \/ ~mode.enableProxyFallback /\ GiveUp(by, o)

Racing(s) == dial.pc = "race" /\ StageOf(s) = dial.stage

DialOpens_KeepsLosers(s) ==           \* returns the winner and forgets the rest
  /\ sock[s] = "dialing"
  /\ sock' = [sock EXCEPT ![s] = "open"]
  /\ IF Racing(s) THEN dial' = [dial EXCEPT !.pc = "write", !.winner = s]
                  ELSE UNCHANGED dial
  /\ UNCHANGED <<mode, ws, client, sink, timers, wrapper, hooked, pump,
                 observer, history>>

\* The first socket to open wins the race; the others are closed.
DialOpens(s) ==
  /\ sock[s] = "dialing"
  /\ IF Racing(s)
     THEN /\ sock' = [sock EXCEPT ![s] = "open"]
          /\ dial' = [dial EXCEPT !.pc = "write", !.winner = s]
     ELSE /\ sock' = [sock EXCEPT ![s] = "closed"]
          /\ UNCHANGED dial
  /\ UNCHANGED <<mode, ws, client, sink, timers, wrapper, hooked, pump,
                 observer, history>>

\* Refused or timed out: connectWithTimeout closes the socket.
DialFails(s) ==
  /\ sock[s] = "dialing"
  /\ sock' = [sock EXCEPT ![s] = "closed"]
  /\ dial' = IF Racing(s) /\ \A c \in Candidates(dial.stage) :
                               sock'[c] # "dialing"
             THEN [dial EXCEPT !.pc = "failed"] ELSE dial
  /\ UNCHANGED <<mode, ws, client, sink, timers, wrapper, hooked, pump,
                 observer, history>>

\* Writes to an ended socket may still succeed, and are lost.
Receive(s, n) == got' = IF sock[s] = "open" THEN [got EXCEPT ![s] = Append(@, n)]
                                            ELSE got
DialDone == /\ dial' = [NoDial EXCEPT !.by = dial.by]
            /\ sink' = IF dial.by = "sink" THEN Ready
                                           ELSE sink

\* The first payload is written, and the session takes the socket over.
Adopt ==
  LET s == dial.winner
      direct == dial.stage = "direct"
  IN /\ dial.pc = "write"
     /\ sock[s] \in {"open", "ended"}
     /\ Receive(s, request)
     /\ DialDone
     /\ wrapper' = [socket |-> s, observed |-> direct]
     /\ hooked' = hooked \cup {s}
     /\ pump' = [socket |-> s, hasData |-> FALSE, header |-> TRUE,
                 retry |-> direct /\ mode.proxyIP, pc |-> "run"]
     /\ \E byteLength \in {0, 1} :
          observer' = IF direct THEN ClientData(OpenOk(observer), byteLength)
                                ELSE observer
     /\ adoptedIn' = ws
     /\ UNCHANGED <<mode, ws, client, timers, sock, heard>>

FirstWriteFails ==
  /\ dial.pc = "write" /\ sock[dial.winner] = "ended"
  /\ dial' = [dial EXCEPT !.pc = "failed"]
  /\ UNCHANGED <<mode, ws, client, sink, timers, wrapper, sock, hooked, pump,
                 observer, history>>

\* Next group, next route, or the end; only the upstream's error reaches
\* the sink.
DialFailed ==
  /\ dial.pc = "failed"
  /\ \/ /\ dial.stage = "upstream"
        /\ sink' = Dead
        /\ dial' = NoDial
        /\ CloseSession(sock, observer)
     \/ /\ dial.stage = "direct" /\ mode.proxyIP
        /\ DialProxy(dial.by, OpenError(observer))
        /\ sink' = IF dial'.pc = "none" THEN Ready
                                        ELSE sink
     \/ /\ dial.stage = "proxy" /\ mode.enableProxyFallback
        /\ StartDial("fallback", dial.by, observer)
        /\ UNCHANGED sink
     \/ /\ \/ dial.stage = "direct" /\ ~mode.proxyIP
           \/ dial.stage = "proxy" /\ ~mode.enableProxyFallback
           \/ dial.stage = "fallback"
        /\ DialDone
        /\ CloseSocketQuietly(sock, IF dial.stage = "direct"
                                    THEN OpenError(observer) ELSE observer)
  /\ UNCHANGED <<mode, client, timers, wrapper, hooked, pump, history>>

----------------------------------------------------------------------------
(* The client's stream: the sink takes one message after the other.        *)

ClientSends ==
  /\ ws # "closed" /\ sink.pc # "dead"
  /\ arrived < MaxChunks
  /\ arrived' = arrived + 1
  /\ UNCHANGED <<mode, ws, taken, sink, request, timers, wrapper, dial, sock,
                 hooked, pump, observer, history>>

Take ==
  /\ sink.pc = "ready" /\ taken < arrived
  /\ taken' = taken + 1
  /\ idleTimer' = TRUE
  /\ UNCHANGED <<mode, arrived, maxSessionTimer, wrapper, hooked, pump, history>>

HandshakeNeedsMore ==
  /\ Take
  /\ wrapper.socket = NoSocket
  /\ UNCHANGED <<ws, sink, request, dial, sock, observer>>

\* Invalid or too long; with Shadowsocks the sink throws.
HandshakeRejected ==
  /\ Take
  /\ wrapper.socket = NoSocket
  /\ CloseSession(sock, observer)
  /\ sink' = IF mode.shadowsocks THEN Dead ELSE sink
  /\ UNCHANGED <<request, dial>>

HandshakeAccepted_NotAwaited ==       \* forwardDataTCP is not awaited
  /\ Take
  /\ wrapper.socket = NoSocket /\ request = 0
  /\ request' = taken'
  /\ IF mode.upstream
     THEN StartDial("upstream", "sink", observer)
     ELSE StartDial("direct", "sink", NewObserver)
  /\ UNCHANGED sink

\* forwardDataTCP: the sink waits until the dial has ended.
HandshakeAccepted ==
  /\ Take
  /\ wrapper.socket = NoSocket /\ request = 0
  /\ request' = taken'
  /\ sink' = [sink EXCEPT !.pc = "dial"]
  /\ IF mode.upstream
     THEN StartDial("upstream", "sink", observer)
     ELSE StartDial("direct", "sink", NewObserver)

RelayStarts ==
  /\ Take
  /\ wrapper.socket # NoSocket
  /\ sink' = [pc |-> "write", to |-> wrapper.socket]
  /\ UNCHANGED <<ws, request, dial, sock, observer>>

RelayDone ==
  /\ sink.pc = "write"
  /\ sock[sink.to] \in {"open", "ended"}
  /\ Receive(sink.to, taken)
  /\ sink' = Ready
  /\ observer' = IF wrapper.observed THEN ClientData(observer, 1) ELSE observer
  /\ UNCHANGED <<mode, ws, client, timers, wrapper, dial, sock, hooked, pump,
                 heard, adoptedIn>>

\* The pipe is cancelled: nothing of the client is read any more.
RelayFails ==
  /\ sink.pc = "write"
  /\ sock[sink.to] \in {"ended", "closed"}
  /\ sink' = Dead
  /\ CloseSession(sock, observer)
  /\ UNCHANGED <<mode, client, timers, wrapper, dial, hooked, pump, history>>

----------------------------------------------------------------------------
(* The remote's stream: connectStreams.                                    *)

RemoteEnds(s) ==
  /\ sock[s] = "open"
  /\ sock' = [sock EXCEPT ![s] = "ended"]
  /\ UNCHANGED <<mode, ws, client, sink, timers, wrapper, dial, hooked, pump,
                 observer, history>>

FirstChunk == IF pump.hasData THEN observer ELSE FirstByte(observer)

RemoteSends ==
  /\ pump.pc = "run" /\ sock[pump.socket] = "open"
  /\ Len(heard) < MaxReplies
  /\ \/ /\ ws = "open"
        /\ heard' = Append(heard, [from |-> pump.socket, header |-> pump.header])
        /\ pump' = [pump EXCEPT !.hasData = TRUE, !.header = FALSE]
        /\ observer' = FirstChunk
        /\ UNCHANGED <<ws, sock>>
     \/ /\ ws # "open"
        /\ pump' = [pump EXCEPT !.hasData = TRUE, !.pc = "ended"]
        /\ CloseSocketQuietly(sock, FirstChunk)
        /\ UNCHANGED heard
  /\ UNCHANGED <<mode, client, sink, timers, wrapper, dial, hooked, got,
                 adoptedIn>>

\* pipeTo resolves, or rejects when the socket was reset or closed here.
PumpStops ==
  /\ pump.pc = "run" /\ sock[pump.socket] \in {"ended", "closed"}
  /\ pump' = [pump EXCEPT !.pc = "ended"]
  /\ \/ UNCHANGED <<ws, sock, observer>>
     \/ CloseSocketQuietly(sock, observer)
  /\ UNCHANGED <<mode, client, sink, timers, wrapper, dial, hooked, history>>

PumpEnded_AlwaysRetries ==            \* forgets that the client has an answer
  /\ pump.pc = "ended"
  /\ pump' = [pump EXCEPT !.pc = "done"]
  /\ \/ pump.retry /\ DialProxy("retry", ClosedBeforeByte(observer))
     \/ ~pump.retry /\ CloseSocketQuietly(sock, observer) /\ UNCHANGED dial
  /\ UNCHANGED <<mode, client, sink, timers, wrapper, hooked, history>>

\* After an answer the session is over; without one the proxy is tried.
\* (Past its first connection a session's observer ignores every call.)
PumpEnded ==
  /\ pump.pc = "ended"
  /\ pump' = [pump EXCEPT !.pc = "done"]
  /\ \/ /\ pump.hasData
        /\ CloseSocketQuietly(sock, Finish(observer))
        /\ UNCHANGED dial
     \/ /\ ~pump.hasData /\ pump.retry
        /\ DialProxy("retry", ClosedBeforeByte(observer))
     \/ /\ ~pump.hasData /\ ~pump.retry
        /\ observer' = ClosedBeforeByte(observer)
        /\ UNCHANGED <<ws, sock, dial>>
  /\ UNCHANGED <<mode, client, sink, timers, wrapper, hooked, history>>

\* socket.closed has settled.
ClosedHook(s) ==
  /\ s \in hooked /\ sock[s] \in {"ended", "closed"}
  /\ hooked' = hooked \ {s}
  /\ CloseSocketQuietly(sock, observer)
  /\ UNCHANGED <<mode, client, sink, timers, wrapper, dial, pump, history>>

----------------------------------------------------------------------------
(* The end of a session.                                                   *)

CloseEvent_NoFinish ==                \* the observer is left running
  /\ ws # "closed"
  /\ ws' = "closed"
  /\ idleTimer' = FALSE /\ maxSessionTimer' = FALSE
  /\ sock' = Released(sock)
  /\ UNCHANGED <<mode, client, sink, wrapper, dial, hooked, pump, observer,
                 history>>

\* The client closes, or answers the server's close.
CloseEvent ==
  /\ ws # "closed"
  /\ ws' = "closed"
  /\ idleTimer' = FALSE /\ maxSessionTimer' = FALSE
  /\ observer' = Finished(observer)
  /\ sock' = Released(sock)
  /\ UNCHANGED <<mode, client, sink, wrapper, dial, hooked, pump, history>>

IdleTimeout ==
  /\ idleTimer /\ idleTimer' = FALSE
  /\ CloseSession(sock, observer)
  /\ UNCHANGED <<mode, client, sink, maxSessionTimer, wrapper, dial, hooked,
                 pump, history>>

MaxSessionTimeout ==
  /\ maxSessionTimer /\ maxSessionTimer' = FALSE
  /\ CloseSession(sock, observer)
  /\ UNCHANGED <<mode, client, sink, idleTimer, wrapper, dial, hooked, pump,
                 history>>

FirstByteTimeout ==
  /\ observer.timer
  /\ observer' = TimerFires(observer)
  /\ UNCHANGED <<mode, ws, client, sink, timers, wrapper, dial, sock, hooked,
                 pump, history>>

Next ==
  \/ ClientSends \/ CloseEvent
  \/ HandshakeNeedsMore \/ HandshakeRejected \/ HandshakeAccepted
  \/ RelayStarts \/ RelayDone \/ RelayFails
  \/ \E s \in Socket : DialOpens(s) \/ DialFails(s) \/ RemoteEnds(s)
                       \/ ClosedHook(s)
  \/ Adopt \/ FirstWriteFails \/ DialFailed
  \/ RemoteSends \/ PumpStops \/ PumpEnded
  \/ IdleTimeout \/ MaxSessionTimeout \/ FirstByteTimeout

Spec == Init /\ [][Next]_vars

----------------------------------------------------------------------------
(***************************************************************************)
(* The client never hears two remotes in one session, and the response     *)
(* header comes exactly once, before the first answer, although the proxy  *)
(* is tried after a direct connection that had already been taken over.    *)
(* (A Shadowsocks session has an empty header.)                            *)
(***************************************************************************)
OneRemoteAnswers ==
  \A i \in DOMAIN heard :
    heard[i].from = heard[1].from /\ (heard[i].header <=> i = 1)

(***************************************************************************)
(* With no dial under way, the only socket still open is the one the       *)
(* session uses: late losers of a race, a proxy that refused the first     *)
(* write and a connection replaced by a retry are all closed.  None is     *)
(* open once the client's side has closed, or the session has used up its  *)
(* time, except a socket that a dial delivered only after that.            *)
(***************************************************************************)
NoSocketForgotten ==
  dial.pc = "none" /\ (\A s \in Socket : sock[s] # "dialing") =>
    \A s \in Socket : sock[s] = "open" =>
      /\ s = wrapper.socket
      /\ ws = "closed" => adoptedIn = "closed"
      /\ ~maxSessionTimer => adoptedIn # "open"

(***************************************************************************)
(* Each remote receives the request from its start, and, unless it was     *)
(* dialled in a retry, everything the client sent after it, in order and   *)
(* without gaps, although the client goes on sending during the dial: when *)
(* the sink rests, nothing it has taken is missing.                        *)
(***************************************************************************)
RequestReachesRemote ==
  \A s \in Socket : got[s] # <<>> =>
    /\ got[s][1] = request
    /\ dial.by = "sink" =>
         /\ \A i \in DOMAIN got[s] : got[s][i] = request + i - 1
         /\ s = wrapper.socket /\ sock[s] = "open" /\ sink = Ready =>
              Len(got[s]) = taken - request + 1

(***************************************************************************)
(* The observer records one verdict at most, and a true one: a first byte  *)
(* only if the direct connection delivered one, an early close only if the *)
(* target closed, an open error only if no direct socket was taken over;   *)
(* and its timer does not run once the client has left or an answer has    *)
(* come, unless the client left during the dial.                           *)
(***************************************************************************)
VerdictIsTrue ==
  LET direct == Candidates("direct")
  IN /\ \A i, j \in Verdicts(observer) : i = j
     /\ Says(observer, "direct_first_byte_ok") =>
          pump.socket \in direct /\ pump.hasData
     /\ Says(observer, "direct_closed_before_byte") =>
          \E s \in direct : sock[s] = "ended"
     /\ Says(observer, "direct_open_error") => wrapper.socket \notin direct
     /\ observer.timer =>
          (ws # "closed" \/ adoptedIn = "closed") /\ ~pump.hasData

=============================================================================
