------------------------- MODULE TunnelSession_proofs -------------------------
(***************************************************************************)
(* The safety properties of a WebSocket session, for any number of         *)
(* attempts in a race, of messages and of answers.                         *)
(***************************************************************************)
EXTENDS TunnelSession, SequenceTheorems, TLAPS

----------------------------------------------------------------------------
(* The observer.                                                           *)

ObserverOK(o) ==
  /\ o \in Observer
  /\ \A i, j \in Verdicts(o) : i = j
  /\ ~o.terminal => Verdicts(o) = {}
  /\ o.timer => ~o.terminal

(* What one more entry of a log is.                                        *)
LEMMA LogAppend ==
  ASSUME NEW l \in Seq(Event), NEW e \in Event
  PROVE  /\ Append(l, e) \in Seq(Event)
         /\ DOMAIN l = 1..Len(l) /\ Len(l) \in Nat
         /\ DOMAIN Append(l, e) = 1..(Len(l) + 1)
         /\ Append(l, e)[Len(l) + 1] = e
         /\ \A i \in DOMAIN l : Append(l, e)[i] = l[i]
         /\ \A i \in DOMAIN Append(l, e) : i \in DOMAIN l \/ i = Len(l) + 1
<1> DEFINE t == Append(l, e)
<1>1. /\ t \in Seq(Event) /\ DOMAIN l = 1..Len(l) /\ Len(l) \in Nat
      /\ DOMAIN t = 1..(Len(l) + 1) /\ t[Len(l) + 1] = e
      /\ \A i \in 1..Len(l) : t[i] = l[i]
  OBVIOUS
<1> HIDE DEF t
<1>2. \A i \in DOMAIN t : i \in DOMAIN l \/ i = Len(l) + 1
  BY <1>1
<1> QED
  BY <1>1, <1>2 DEF t

(* A verdict is recorded once.                                             *)
LEMMA ConcludeOK ==
  ASSUME NEW o, ObserverOK(o), NEW e \in Verdict
  PROVE  /\ ObserverOK(Conclude(o, e))
         /\ Conclude(o, e).terminal
         /\ o.terminal => Conclude(o, e) = o
         /\ \A v : Says(Conclude(o, e), v) => Says(o, v) \/ (v = e /\ ~o.terminal)
<1> DEFINE r == Conclude(o, e)
<1>1. o \in Observer
  BY DEF ObserverOK
<1>2. CASE o.terminal
  <2>1. r = o
    BY <1>2 DEF Conclude
  <2> HIDE DEF r
  <2> QED
    BY <1>2, <2>1 DEF r
<1>3. CASE ~o.terminal
  <2> DEFINE l == Append(o.log, e)
  <2>1. r = [o EXCEPT !.terminal = TRUE, !.timer = FALSE, !.log = l]
    BY <1>3 DEF Conclude
  <2>2. o.log \in Seq(Event) /\ e \in Event
    BY <1>1 DEF Observer, Event
  <2>3. /\ l \in Seq(Event)
        /\ DOMAIN o.log = 1..Len(o.log) /\ Len(o.log) \in Nat
        /\ DOMAIN l = 1..(Len(o.log) + 1) /\ l[Len(o.log) + 1] = e
        /\ \A i \in DOMAIN o.log : l[i] = o.log[i]
        /\ \A i \in DOMAIN l : i \in DOMAIN o.log \/ i = Len(o.log) + 1
    BY <2>2, LogAppend
  <2> HIDE DEF l
  <2>4. r \in Observer /\ r.terminal /\ ~r.timer /\ r.log = l
    BY <1>1, <2>1, <2>3 DEF Observer
  <2> HIDE DEF r
  <2>5. \A i \in Verdicts(r) : i = Len(o.log) + 1
    BY <1>3, <2>3, <2>4 DEF ObserverOK, Verdicts
  <2>6. \A v : Says(r, v) => Says(o, v) \/ v = e
    BY <2>3, <2>4 DEF Says
  <2> QED
    BY <1>3, <2>4, <2>5, <2>6 DEF ObserverOK, r
<1> QED
  BY <1>2, <1>3

(* Opening is no verdict.                                                  *)
LEMMA OpenOkOK ==
  ASSUME NEW o, ObserverOK(o)
  PROVE  /\ ObserverOK(OpenOk(o))
         /\ OpenOk(o).terminal = o.terminal /\ OpenOk(o).timer = o.timer
         /\ \A v \in Verdict : Says(OpenOk(o), v) => Says(o, v)
<1> DEFINE r == OpenOk(o)
<1>1. o \in Observer
  BY DEF ObserverOK
<1>2. CASE o.terminal \/ o.opened
  <2>1. r = o
    BY <1>2 DEF OpenOk
  <2> HIDE DEF r
  <2> QED
    BY <2>1 DEF r
<1>3. CASE ~(o.terminal \/ o.opened)
  <2> DEFINE l == Append(o.log, "direct_open_ok")
  <2>1. r = [o EXCEPT !.opened = TRUE, !.log = l]
    BY <1>3 DEF OpenOk
  <2>2. o.log \in Seq(Event) /\ "direct_open_ok" \in Event /\ "direct_open_ok" \notin Verdict
    BY <1>1 DEF Observer, Event, Verdict
  <2>3. /\ l \in Seq(Event)
        /\ DOMAIN o.log = 1..Len(o.log) /\ Len(o.log) \in Nat
        /\ DOMAIN l = 1..(Len(o.log) + 1) /\ l[Len(o.log) + 1] = "direct_open_ok"
        /\ \A i \in DOMAIN o.log : l[i] = o.log[i]
        /\ \A i \in DOMAIN l : i \in DOMAIN o.log \/ i = Len(o.log) + 1
    BY <2>2, LogAppend
  <2> HIDE DEF l
  <2>4. r \in Observer /\ r.terminal = o.terminal /\ r.timer = o.timer /\ r.log = l
    BY <1>1, <2>1, <2>3 DEF Observer
  <2> HIDE DEF r
  <2>5. Verdicts(r) \subseteq Verdicts(o)
    BY <2>2, <2>3, <2>4 DEF Verdicts
  <2>6. \A v \in Verdict : Says(r, v) => Says(o, v)
    BY <2>2, <2>3, <2>4 DEF Says
  <2> QED
    BY <2>4, <2>5, <2>6 DEF ObserverOK, r
<1> QED
  BY <1>2, <1>3

(* Nor is the first payload: it starts the timer of an open observer.      *)
LEMMA ClientDataOK ==
  ASSUME NEW o, ObserverOK(o), NEW n
  PROVE  /\ ObserverOK(ClientData(o, n))
         /\ ClientData(o, n).terminal = o.terminal
         /\ \A v : Says(ClientData(o, n), v) => Says(o, v)
<1> DEFINE r == ClientData(o, n)
<1>1. o \in Observer
  BY DEF ObserverOK
<1>2. CASE r = o
  <2> HIDE DEF r
  <2> QED
    BY <1>2 DEF r
<1>3. CASE /\ ~o.terminal
           /\ r = [o EXCEPT !.payloadStarted = TRUE, !.timer = TRUE]
  <2>1. r \in Observer /\ r.terminal = o.terminal /\ r.log = o.log
    BY <1>1, <1>3 DEF Observer
  <2>2. Verdicts(r) = Verdicts(o)
    BY <2>1 DEF Verdicts
  <2> HIDE DEF r
  <2> QED
    BY <1>3, <2>1, <2>2 DEF ObserverOK, Says, r
<1> QED
  BY <1>2, <1>3 DEF ClientData

(* The session's end silences the observer.                                *)
LEMMA FinishOK ==
  ASSUME NEW o, ObserverOK(o)
  PROVE  /\ ObserverOK(Finish(o)) /\ Finish(o).terminal
         /\ \A v : Says(Finish(o), v) => Says(o, v)
<1> DEFINE r == Finish(o)
<1>1. r \in Observer /\ r.terminal /\ ~r.timer /\ r.log = o.log
  BY DEF ObserverOK, Finish, Observer
<1>2. Verdicts(r) = Verdicts(o)
  BY <1>1 DEF Verdicts
<1> HIDE DEF r
<1> QED
  BY <1>1, <1>2 DEF ObserverOK, Says, r

----------------------------------------------------------------------------
(* The invariant.                                                          *)

Direct == Candidates("direct")
Taken == wrapper.socket # NoSocket
Dialling == dial.pc # "none"

\* A session dials, and then relays; a retry dials the proxy when the direct
\* connection is over that it replaces.
Phases ==
  /\ pump.socket = wrapper.socket
  /\ pump.pc = "none" <=> ~Taken
  /\ wrapper.observed <=> wrapper.socket \in Direct
  /\ pump.retry => wrapper.socket \in Direct
  /\ pump.hasData => Taken
  /\ Dialling => request # 0 /\ pump.pc \in {"none", "done"} /\ ~pump.hasData
  /\ Dialling /\ dial.by = "sink" => sink.pc = "dial" /\ ~Taken
  /\ Dialling /\ dial.by = "retry" =>
       dial.stage \in {"proxy", "fallback"} /\ wrapper.socket \in Direct
  /\ dial.by = "retry" => Taken
  /\ request = 0 => ~Taken
  /\ dial.pc = "write" => dial.winner \in Candidates(dial.stage)

\* The sink waits for its own dial, and writes to a socket taken over.
SinkWaits ==
  /\ sink.pc = "dial" => Dialling /\ dial.by = "sink" /\ taken = request
  /\ sink.pc = "ready" => sink = Ready
  /\ sink.pc = "write" =>
       /\ Taken
       /\ sink.to = wrapper.socket \/ (sink.to \in Direct /\ dial.by = "retry")

\* NoSocketForgotten, while a dial is under way too.
OpenInUse ==
  /\ ~maxSessionTimer => ws # "open"
  /\ \A s \in Socket : sock[s] = "open" =>
       \/ /\ s = wrapper.socket
          /\ ws = "closed" => adoptedIn = "closed"
          /\ ~maxSessionTimer => adoptedIn # "open"
       \/ dial.pc = "write" /\ s = dial.winner

\* What a retry replaces is not open any more.
AdoptedOpened ==
  Taken => /\ sock[wrapper.socket] \in {"open", "ended", "closed"}
           /\ pump.pc \in {"ended", "done"} /\ ~pump.hasData =>
                sock[wrapper.socket] # "open"

\* RequestReachesRemote, while the sink is at work too.
Written ==
  /\ \A s \in Socket : got[s] # <<>> =>
       /\ got[s][1] = request
       /\ s = wrapper.socket \/ (s \in Direct /\ dial.by = "retry")
       /\ dial.by = "sink" => \A i \in DOMAIN got[s] : got[s][i] = request + i - 1
  /\ Taken /\ sock[wrapper.socket] = "open" =>
       /\ got[wrapper.socket] # <<>>
       /\ dial.by = "sink" =>
            /\ sink.pc = "ready" => Len(got[wrapper.socket]) = taken - request + 1
            /\ sink.pc = "write" => Len(got[wrapper.socket]) = taken - request

\* No remote is replaced that has answered.
Heard ==
  /\ ~pump.hasData => heard = <<>>
  /\ Taken => (pump.header <=> heard = <<>>)
  /\ \A i \in DOMAIN heard :
       heard[i].from = pump.socket /\ (heard[i].header <=> i = 1)

\* Who still listens has a direct connection, or dials one.
Observed ==
  /\ ObserverOK(observer)
  /\ request = 0 => observer = None
  /\ pump.hasData => observer.terminal
  /\ ~observer.terminal =>
       /\ Dialling => dial.stage = "direct"
       /\ Taken => /\ wrapper.socket \in Direct
                   /\ ws # "closed" \/ adoptedIn = "closed"
                   /\ sock[wrapper.socket] # "closed"
  /\ observer.timer => Taken
  /\ Says(observer, "direct_first_byte_ok") =>
       wrapper.socket \in Direct /\ pump.hasData
  /\ Says(observer, "direct_closed_before_byte") =>
       \E s \in Direct : sock[s] = "ended"
  /\ Says(observer, "direct_open_error") =>
       wrapper.socket \notin Direct /\ (Dialling => dial.stage # "direct")

IndInv ==
  /\ TypeOK /\ Phases /\ SinkWaits /\ OpenInUse /\ AdoptedOpened
  /\ Written /\ Heard /\ Observed

(* The sockets of a session.                                               *)
LEMMA SocketFacts ==
  /\ Direct \subseteq Socket /\ NoSocket \notin Socket /\ NoSocket \notin Direct
  /\ \A s \in Socket : StageOf(s) \in Stage /\ s \in Candidates(StageOf(s))
  /\ \A s \in Socket : s \in Direct <=> StageOf(s) = "direct"
  /\ \A stage \in Stage : /\ Candidates(stage) \subseteq Socket
                          /\ Candidates(stage) # {}
                          /\ \A s \in Candidates(stage) : StageOf(s) = stage
<1>1. \A stage \in Stage : /\ Candidates(stage) \subseteq Socket
                           /\ \A s \in Candidates(stage) : StageOf(s) = stage
  BY DEF Socket, Candidates, StageOf
<1>2. \A s \in Socket : StageOf(s) \in Stage /\ s \in Candidates(StageOf(s))
  BY <1>1 DEF Socket
<1>3. ASSUME NEW stage \in Stage
      PROVE  Candidates(stage) # {}
  <2>1. PICK a \in Attempt : TRUE
    BY TunnelAssumption
  <2>2. CASE stage \in {"direct", "fallback"}
    <3>1. <<stage, a>> \in Candidates(stage)
      BY <2>2 DEF Candidates
    <3> QED
      BY <3>1
  <2>3. CASE stage \notin {"direct", "fallback"}
    BY <2>3 DEF Candidates
  <2> QED
    BY <2>2, <2>3
<1>4. "direct" \in Stage
  BY DEF Stage
<1> QED
  BY <1>1, <1>2, <1>3, <1>4, TunnelAssumption DEF Direct

SockState == {"none", "dialing", "open", "ended", "closed"}

\* A step that opens no socket and takes none over, and after which the
\* observer of a socket closed here is silent.
NoneOpened ==
  /\ ws' = "open" => ws = "open"
  /\ ws = "closed" => ws' = "closed"
  /\ ws' = "closed" /\ ws # "closed" =>
       /\ \A s \in Socket : s = wrapper.socket => sock'[s] # "open"
       /\ wrapper.observed => observer'.terminal
  /\ \A s \in Socket :
       \/ sock'[s] = sock[s]
       \/ sock[s] = "dialing" /\ sock'[s] = "closed"
       \/ sock[s] = "open" /\ sock'[s] = "ended"
       \/ /\ sock[s] = "open" /\ sock'[s] = "closed" /\ s = wrapper.socket
          /\ wrapper.observed => observer'.terminal
       \/ sock'[s] = "dialing" /\ s # wrapper.socket /\ s \notin Direct
  /\ wrapper' = wrapper /\ adoptedIn' = adoptedIn

(* The ways to close, as the handlers' sockets and observer leave them.    *)
LEMMA Closings ==
  ASSUME IndInv, NEW o, ObserverOK(o),
         CloseSocketQuietly(sock, o) \/ CloseSession(sock, o)
  PROVE  /\ sock' \in [Socket -> SockState] /\ ws' \in ReadyState
         /\ ws' # "open" /\ (ws = "closed" <=> ws' = "closed")
         /\ \A s \in Socket :
              \/ sock'[s] = sock[s]
              \/ /\ sock[s] = "open" /\ sock'[s] = "closed" /\ s = wrapper.socket
                 /\ wrapper.observed => observer'.terminal
         /\ observer' = o \/ (observer' = Finish(o) /\ wrapper.observed)
<1>1. sock \in [Socket -> SockState] /\ ws \in ReadyState
  BY DEF IndInv, TypeOK, SockState
<1>2. Closing \in ReadyState /\ Closing # "open" /\ (ws = "closed" <=> Closing = "closed")
  BY <1>1 DEF Closing, ReadyState
<1>3. CASE CloseSession(sock, o)
  <2>1. ws' = Closing /\ sock' = Released(sock) /\ observer' = Finished(o)
    BY <1>3 DEF CloseSession
  <2>2. /\ sock' \in [Socket -> SockState]
        /\ \A s \in Socket :
             \/ sock'[s] = sock[s]
             \/ sock[s] = "open" /\ sock'[s] = "closed" /\ s = wrapper.socket
    BY <1>1, <2>1 DEF Released, SockState
  <2>3. /\ wrapper.observed => observer' = Finish(o)
        /\ ~wrapper.observed => observer' = o
    BY <2>1 DEF Finished
  <2>4. wrapper.observed => observer'.terminal
    BY <2>3, FinishOK
  <2> QED
    BY <1>2, <2>1, <2>2, <2>3, <2>4
<1>4. CASE ~CloseSession(sock, o)
  <2>1. ws' = Closing /\ sock' = sock /\ observer' = o
    BY <1>4 DEF CloseSocketQuietly
  <2> QED
    BY <1>1, <1>2, <2>1
<1> QED
  BY <1>3, <1>4

(* OpenInUse and AdoptedOpened, when nothing is opened.                    *)
LEMMA OpenFrame ==
  ASSUME IndInv, NoneOpened,
         maxSessionTimer' = maxSessionTimer
           \/ (ws' # "open" /\ \A s \in Socket : s = wrapper.socket => sock'[s] # "open"),
         dial.pc = "write" =>
           \/ dial'.pc = "write" /\ dial'.winner = dial.winner
           \/ sock[dial.winner] # "open"
  PROVE  OpenInUse'
<1>1. \A s \in Socket : sock'[s] = "open" => sock[s] = "open"
  BY DEF NoneOpened
<1>2. ~maxSessionTimer' => ws' # "open"
  BY DEF IndInv, OpenInUse, NoneOpened
<1>3. ASSUME NEW s \in Socket, sock'[s] = "open"
      PROVE  \/ /\ s = wrapper'.socket
                /\ ws' = "closed" => adoptedIn' = "closed"
                /\ ~maxSessionTimer' => adoptedIn' # "open"
             \/ dial'.pc = "write" /\ s = dial'.winner
  <2>1. sock[s] = "open"
    BY <1>1, <1>3
  <2>2. CASE dial.pc = "write" /\ s = dial.winner
    BY <2>1, <2>2
  <2>3. CASE /\ s = wrapper.socket
             /\ ws = "closed" => adoptedIn = "closed"
             /\ ~maxSessionTimer => adoptedIn # "open"
    BY <1>3, <2>3 DEF NoneOpened
  <2> QED
    BY <2>1, <2>2, <2>3 DEF IndInv, OpenInUse
<1> QED
  BY <1>2, <1>3 DEF OpenInUse

(* AdoptedOpened likewise.                                                 *)
LEMMA AdoptedFrame ==
  ASSUME IndInv, NoneOpened,
         pump'.pc \in {"ended", "done"} /\ ~pump'.hasData =>
           \/ pump.pc \in {"ended", "done"} /\ ~pump.hasData
           \/ sock[wrapper.socket] # "open"
  PROVE  AdoptedOpened'
<1>1. Taken => wrapper.socket \in Socket
  BY DEF IndInv, TypeOK, Taken
<1>2. Taken => sock[wrapper.socket] \in {"open", "ended", "closed"}
  BY DEF IndInv, AdoptedOpened
<1>3. Taken => \/ sock'[wrapper.socket] = sock[wrapper.socket]
               \/ sock'[wrapper.socket] \in {"ended", "closed"}
  BY <1>1, <1>2 DEF NoneOpened
<1>4. wrapper' = wrapper
  BY DEF NoneOpened
<1> QED
  BY <1>2, <1>3, <1>4 DEF IndInv, AdoptedOpened, Taken

(* Written, when nothing is opened or received.                            *)
LEMMA WrittenFrame ==
  ASSUME IndInv, NoneOpened, UNCHANGED <<got, request>>,
         dial'.by \in {dial.by, "retry"},
         dial'.by = "sink" /\ Taken /\ sock'[wrapper.socket] = "open" =>
           /\ sink'.pc = "ready" => sink.pc = "ready" /\ taken' = taken
           /\ sink'.pc = "write" =>
                \/ sink.pc = "ready" /\ taken' = taken + 1
                \/ sink.pc = "write" /\ taken' = taken
  PROVE  Written'
<1>1. Taken => wrapper.socket \in Socket
  BY DEF IndInv, TypeOK, Taken
<1>2. Taken /\ sock'[wrapper.socket] = "open" => sock[wrapper.socket] = "open"
  BY <1>1 DEF NoneOpened
<1>3. wrapper' = wrapper /\ dial.by \in {"sink", "retry"}
  BY DEF NoneOpened, IndInv, TypeOK
<1>4. /\ taken \in Nat /\ request \in Nat
      /\ Taken => Len(got[wrapper.socket]) \in Nat
  <2>1. taken \in Nat
    BY TunnelAssumption DEF IndInv, TypeOK
  <2>2. request \in Nat
    BY <2>1 DEF IndInv, TypeOK
  <2>3. Taken => got[wrapper.socket] \in Seq(1..MaxChunks)
    BY <1>1 DEF IndInv, TypeOK
  <2> QED
    BY <2>1, <2>2, <2>3
<1>5. ASSUME NEW s \in Socket, got[s] # <<>>
      PROVE  /\ got[s][1] = request
             /\ s = wrapper.socket \/ (s \in Direct /\ dial'.by = "retry")
             /\ dial'.by = "sink" => \A i \in DOMAIN got[s] : got[s][i] = request + i - 1
  BY <1>3, <1>5 DEF IndInv, Written
<1>6. ASSUME Taken, sock'[wrapper.socket] = "open"
      PROVE  /\ got[wrapper.socket] # <<>>
             /\ dial'.by = "sink" =>
                  /\ sink'.pc = "ready" => Len(got[wrapper.socket]) = taken' - request + 1
                  /\ sink'.pc = "write" => Len(got[wrapper.socket]) = taken' - request
  <2>1. sock[wrapper.socket] = "open"
    BY <1>2, <1>6
  <2>2. /\ got[wrapper.socket] # <<>>
        /\ dial.by = "sink" =>
             /\ sink.pc = "ready" => Len(got[wrapper.socket]) = taken - request + 1
             /\ sink.pc = "write" => Len(got[wrapper.socket]) = taken - request
    BY <1>6, <2>1 DEF IndInv, Written
  <2>3. dial'.by = "sink" => dial.by = "sink"
    BY <1>3
  <2> QED
    BY <1>4, <1>6, <2>2, <2>3
<1> QED
  BY <1>3, <1>5, <1>6 DEF Written, Taken

(* Observed, when nothing is opened: what the observer may have heard.     *)
LEMMA ObservedFrame ==
  ASSUME IndInv, NoneOpened, request' = request,
         ObserverOK(observer'),
         request = 0 => observer' = observer,
         observer.terminal => observer'.terminal,
         observer'.timer => observer.timer \/ Taken,
         pump'.hasData => observer'.terminal,
         pump.hasData => pump'.hasData,
         Says(observer', "direct_first_byte_ok") =>
           \/ Says(observer, "direct_first_byte_ok")
           \/ wrapper.socket \in Direct /\ pump'.hasData,
         Says(observer', "direct_closed_before_byte") =>
           \/ Says(observer, "direct_closed_before_byte")
           \/ \E s \in Direct : sock[s] = "ended",
         Says(observer', "direct_open_error") =>
           \/ Says(observer, "direct_open_error")
           \/ wrapper.socket \notin Direct /\ (Dialling' => dial'.stage # "direct"),
         Dialling' => \/ Dialling /\ dial'.stage = dial.stage
                      \/ observer'.terminal /\ dial'.stage # "direct"
  PROVE  Observed'
<1>1. wrapper' = wrapper /\ (Taken' <=> Taken)
  BY DEF NoneOpened, Taken
<1>2. /\ Direct \subseteq Socket
      /\ \A s \in Direct : sock[s] = "ended" => sock'[s] = "ended"
  BY SocketFacts DEF NoneOpened
<1>3. request' = 0 => observer' = None
  BY DEF IndInv, Observed
<1>4. ~observer'.terminal =>
        /\ Dialling' => dial'.stage = "direct"
        /\ Taken' => /\ wrapper'.socket \in Direct
                     /\ ws' # "closed" \/ adoptedIn' = "closed"
                     /\ sock'[wrapper'.socket] # "closed"
  <2> SUFFICES ASSUME ~observer'.terminal
               PROVE /\ Dialling' => dial'.stage = "direct"
                     /\ Taken' => /\ wrapper'.socket \in Direct
                                  /\ ws' # "closed" \/ adoptedIn' = "closed"
                                  /\ sock'[wrapper'.socket] # "closed"
    OBVIOUS
  <2>1. ~observer.terminal
    OBVIOUS
  <2>2. /\ Dialling => dial.stage = "direct"
        /\ Taken => /\ wrapper.socket \in Direct
                    /\ ws # "closed" \/ adoptedIn = "closed"
                    /\ sock[wrapper.socket] # "closed"
    BY <2>1 DEF IndInv, Observed
  <2>3. Dialling' => dial'.stage = "direct"
    BY <2>2
  <2>4. ASSUME Taken
        PROVE  /\ wrapper.socket \in Direct
               /\ ws' # "closed" \/ adoptedIn' = "closed"
               /\ sock'[wrapper.socket] # "closed"
    <3>1. wrapper.socket \in Direct /\ wrapper.observed
      BY <2>2, <2>4 DEF IndInv, Phases
    <3>2. sock[wrapper.socket] \in {"open", "ended", "closed"}
      BY <2>4 DEF IndInv, AdoptedOpened
    <3> QED
      BY <1>2, <2>2, <2>4, <3>1, <3>2 DEF NoneOpened
  <2> QED
    BY <1>1, <2>3, <2>4
<1>5. observer'.timer => Taken'
  BY <1>1 DEF IndInv, Observed
<1>6. Says(observer', "direct_first_byte_ok") =>
        wrapper'.socket \in Direct /\ pump'.hasData
  BY <1>1 DEF IndInv, Observed
<1>7. Says(observer', "direct_closed_before_byte") =>
        \E s \in Direct : sock'[s] = "ended"
  BY <1>2 DEF IndInv, Observed
<1>8. Says(observer', "direct_open_error") =>
        wrapper'.socket \notin Direct /\ (Dialling' => dial'.stage # "direct")
  BY <1>1 DEF IndInv, Observed
<1> QED
  BY <1>3, <1>4, <1>5, <1>6, <1>7, <1>8 DEF Observed

----------------------------------------------------------------------------
(* Steps in which the session only grows quieter.                          *)

\* What the observer becomes when it hears no verdict but a timeout.
Quieter(o) ==
  /\ ObserverOK(o)
  /\ request = 0 => o = observer
  /\ observer.terminal => o.terminal
  /\ o.timer => observer.timer
  /\ \A v \in Verdict :
       Says(o, v) => Says(observer, v) \/ v = "direct_first_byte_timeout"

(* The observer itself is, and so is one that is finished with the         *)
(* connection it observes.                                                 *)
LEMMA FinishedQuieter ==
  ASSUME IndInv
  PROVE  /\ Quieter(observer)
         /\ wrapper.observed => Quieter(Finish(observer))
         /\ Quieter(Finished(observer))
<1>1. ObserverOK(observer)
  BY DEF IndInv, Observed
<1>2. Quieter(observer)
  BY <1>1 DEF Quieter
<1>3. ASSUME wrapper.observed
      PROVE  Quieter(Finish(observer))
  <2>1. request # 0
    BY <1>3, SocketFacts DEF IndInv, Phases, Taken
  <2>2. ~Finish(observer).timer
    BY <1>1 DEF ObserverOK, Observer, Finish
  <2> QED
    BY <1>1, <2>1, <2>2, FinishOK DEF Quieter
<1> QED
  BY <1>2, <1>3 DEF Finished

(* Only the client's side, the sockets, the timers, the observer and the   *)
(* hooks change.                                                           *)
LEMMA Ebb ==
  ASSUME IndInv, NoneOpened,
         UNCHANGED <<mode, client, sink, wrapper, dial, pump, got, heard,
                     adoptedIn>>,
         ws' \in ReadyState, sock' \in [Socket -> SockState],
         {idleTimer', maxSessionTimer'} \subseteq BOOLEAN,
         hooked' \subseteq Socket,
         maxSessionTimer' = maxSessionTimer
           \/ (ws' # "open" /\ \A s \in Socket : s = wrapper.socket => sock'[s] # "open"),
         Quieter(observer')
  PROVE  IndInv'
<1>1. TypeOK'
  BY DEF IndInv, TypeOK, SockState, Quieter, ObserverOK, client, ReadyState
<1>2. Phases'
  BY DEF IndInv, Phases, client, Taken, Dialling
<1>3. SinkWaits'
  BY DEF IndInv, SinkWaits, client, Taken, Dialling
<1>4. OpenInUse'
  BY OpenFrame
<1>5. AdoptedOpened'
  <2>1. pump' = pump
    OBVIOUS
  <2> QED
    BY <2>1, AdoptedFrame DEF IndInv, AdoptedOpened
<1>6. Written'
  BY WrittenFrame DEF client, IndInv, TypeOK
<1>7. Heard'
  BY DEF IndInv, Heard, Taken
<1>8. Observed'
  <2>1. Dialling' => Dialling /\ dial'.stage = dial.stage
    BY DEF Dialling
  <2>2. /\ Says(observer', "direct_first_byte_ok") => Says(observer, "direct_first_byte_ok")
        /\ Says(observer', "direct_closed_before_byte")
             => Says(observer, "direct_closed_before_byte")
        /\ Says(observer', "direct_open_error") => Says(observer, "direct_open_error")
    BY DEF Quieter, Verdict
  <2>3. pump' = pump /\ request' = request
    BY DEF client
  <2>4. pump'.hasData => observer'.terminal
    BY <2>3 DEF IndInv, Observed, Quieter
  <2> QED
    BY <2>1, <2>2, <2>3, <2>4, ObservedFrame DEF Quieter
<1> QED
  BY <1>1, <1>2, <1>3, <1>4, <1>5, <1>6, <1>7, <1>8 DEF IndInv

(* A closing opens nothing.                                                *)
LEMMA ClosingOpensNone ==
  ASSUME IndInv, NEW o, ObserverOK(o), UNCHANGED <<wrapper, adoptedIn>>,
         CloseSocketQuietly(sock, o) \/ CloseSession(sock, o)
  PROVE  NoneOpened
  BY Closings DEF NoneOpened

(* The session closes its socket.                                          *)
LEMMA SessionReleases ==
  ASSUME IndInv, NEW o, CloseSession(sock, o)
  PROVE  \A s \in Socket : s = wrapper.socket => sock'[s] # "open"
  BY DEF CloseSession, Released, IndInv, TypeOK

(* What a closing of the session makes of the observer.                    *)
LEMMA ClosingQuieter ==
  ASSUME IndInv,
         CloseSocketQuietly(sock, observer) \/ CloseSession(sock, observer)
  PROVE  Quieter(observer')
<1>1. ObserverOK(observer)
  BY DEF IndInv, Observed
<1>2. observer' = observer \/ (observer' = Finish(observer) /\ wrapper.observed)
  BY <1>1, Closings
<1> QED
  BY <1>2, FinishedQuieter

(* The client leaves, and the timers and hooks that close a session.       *)
LEMMA EndingSteps ==
  ASSUME IndInv,
         \/ CloseEvent \/ IdleTimeout \/ MaxSessionTimeout
         \/ \E s \in Socket : ClosedHook(s)
  PROVE  IndInv'
<1>1. ObserverOK(observer) /\ sock \in [Socket -> SockState] /\ ws \in ReadyState
  BY DEF IndInv, Observed, TypeOK, SockState
<1>2. {idleTimer, maxSessionTimer} \subseteq BOOLEAN /\ hooked \subseteq Socket
  BY DEF IndInv, TypeOK
<1>3. CASE CloseEvent
  <2>1. /\ ws # "closed" /\ ws' = "closed" /\ observer' = Finished(observer)
        /\ sock' = Released(sock) /\ hooked' = hooked
        /\ idleTimer' = FALSE /\ maxSessionTimer' = FALSE
        /\ UNCHANGED <<mode, client, sink, wrapper, dial, pump, got, heard, adoptedIn>>
    BY <1>3 DEF CloseEvent, history
  <2>2. /\ sock' \in [Socket -> SockState]
        /\ \A s \in Socket : s = wrapper.socket => sock'[s] # "open"
        /\ \A s \in Socket :
             \/ sock'[s] = sock[s]
             \/ sock[s] = "open" /\ sock'[s] = "closed" /\ s = wrapper.socket
    BY <1>1, <2>1 DEF Released, SockState
  <2>3. wrapper.observed => observer'.terminal
    BY <1>1, <2>1, FinishOK DEF Finished
  <2>4. NoneOpened
    BY <2>1, <2>2, <2>3 DEF NoneOpened
  <2>5. Quieter(observer')
    BY <2>1, FinishedQuieter
  <2>6. /\ ws' \in ReadyState /\ ws' # "open"
        /\ {idleTimer', maxSessionTimer'} \subseteq BOOLEAN /\ hooked' \subseteq Socket
    BY <1>2, <2>1 DEF ReadyState
  <2> QED
    BY <2>1, <2>2, <2>4, <2>5, <2>6, Ebb
<1>4. CASE IdleTimeout
  <2>1. /\ CloseSession(sock, observer) /\ hooked' = hooked
        /\ idleTimer' = FALSE /\ maxSessionTimer' = maxSessionTimer
        /\ UNCHANGED <<mode, client, sink, wrapper, dial, pump, got, heard, adoptedIn>>
    BY <1>4 DEF IdleTimeout, history
  <2>2. NoneOpened
    BY <1>1, <2>1, ClosingOpensNone
  <2>3. sock' \in [Socket -> SockState] /\ ws' \in ReadyState
    BY <1>1, <2>1, Closings
  <2>4. Quieter(observer')
    BY <2>1, ClosingQuieter
  <2> QED
    BY <1>2, <2>1, <2>2, <2>3, <2>4, Ebb
<1>5. CASE MaxSessionTimeout
  <2>1. /\ CloseSession(sock, observer) /\ hooked' = hooked
        /\ maxSessionTimer' = FALSE /\ idleTimer' = idleTimer
        /\ UNCHANGED <<mode, client, sink, wrapper, dial, pump, got, heard, adoptedIn>>
    BY <1>5 DEF MaxSessionTimeout, history
  <2>2. NoneOpened
    BY <1>1, <2>1, ClosingOpensNone
  <2>3. sock' \in [Socket -> SockState] /\ ws' \in ReadyState /\ ws' # "open"
    BY <1>1, <2>1, Closings
  <2>4. Quieter(observer')
    BY <2>1, ClosingQuieter
  <2>5. \A s \in Socket : s = wrapper.socket => sock'[s] # "open"
    BY <2>1, SessionReleases
  <2> QED
    BY <1>2, <2>1, <2>2, <2>3, <2>4, <2>5, Ebb
<1>6. ASSUME NEW s \in Socket, ClosedHook(s)
      PROVE  IndInv'
  <2>1. /\ CloseSocketQuietly(sock, observer) /\ hooked' = hooked \ {s}
        /\ maxSessionTimer' = maxSessionTimer /\ idleTimer' = idleTimer
        /\ UNCHANGED <<mode, client, sink, wrapper, dial, pump, got, heard, adoptedIn>>
    BY <1>6 DEF ClosedHook, history, timers
  <2>2. NoneOpened
    BY <1>1, <2>1, ClosingOpensNone
  <2>3. sock' \in [Socket -> SockState] /\ ws' \in ReadyState
    BY <1>1, <2>1, Closings
  <2>4. Quieter(observer')
    BY <2>1, ClosingQuieter
  <2> QED
    BY <1>2, <2>1, <2>2, <2>3, <2>4, Ebb
<1> QED
  BY <1>3, <1>4, <1>5, <1>6

(* The remote ends its stream, or the wait for its first byte is over.     *)
LEMMA WaitingSteps ==
  ASSUME IndInv,
         FirstByteTimeout \/ \E s \in Socket : RemoteEnds(s)
  PROVE  IndInv'
<1>1. ObserverOK(observer) /\ sock \in [Socket -> SockState] /\ ws \in ReadyState
  BY DEF IndInv, Observed, TypeOK, SockState
<1>2. {idleTimer, maxSessionTimer} \subseteq BOOLEAN /\ hooked \subseteq Socket
  BY DEF IndInv, TypeOK
<1>3. CASE FirstByteTimeout
  <2>1. /\ observer.timer /\ observer' = TimerFires(observer)
        /\ UNCHANGED <<mode, ws, client, sink, idleTimer, maxSessionTimer, wrapper,
                       dial, sock, hooked, pump, got, heard, adoptedIn>>
    BY <1>3 DEF FirstByteTimeout, history, timers
  <2>2. NoneOpened
    BY <2>1 DEF NoneOpened
  <2>3. /\ ObserverOK(observer') /\ observer'.terminal
        /\ \A v : Says(observer', v) =>
                    Says(observer, v) \/ v = "direct_first_byte_timeout"
    BY <1>1, <2>1, ConcludeOK DEF TimerFires, Verdict
  <2>4. request # 0
    BY <2>1 DEF IndInv, Observed, None, NewObserver
  <2>5. Quieter(observer')
    BY <2>1, <2>3, <2>4 DEF Quieter
  <2> QED
    BY <1>1, <1>2, <2>1, <2>2, <2>5, Ebb
<1>4. ASSUME NEW s \in Socket, RemoteEnds(s)
      PROVE  IndInv'
  <2>1. /\ sock[s] = "open" /\ sock' = [sock EXCEPT ![s] = "ended"]
        /\ UNCHANGED <<mode, ws, client, sink, idleTimer, maxSessionTimer, wrapper,
                       dial, observer, hooked, pump, got, heard, adoptedIn>>
    BY <1>4 DEF RemoteEnds, history, timers
  <2>2. /\ sock' \in [Socket -> SockState]
        /\ \A t \in Socket : sock'[t] = sock[t] \/ (sock[t] = "open" /\ sock'[t] = "ended")
    BY <1>1, <2>1 DEF SockState
  <2>3. NoneOpened
    BY <2>1, <2>2 DEF NoneOpened
  <2>4. Quieter(observer')
    BY <2>1, FinishedQuieter
  <2> QED
    BY <1>1, <1>2, <2>1, <2>2, <2>3, <2>4, Ebb
<1> QED
  BY <1>3, <1>4

----------------------------------------------------------------------------
(* The client's messages.                                                  *)

(* The sink takes a message or is done with one; nothing is dialled.       *)
LEMMA ClientFrame ==
  ASSUME IndInv, NoneOpened,
         UNCHANGED <<mode, request, maxSessionTimer, wrapper, dial, hooked, pump,
                     got, heard, adoptedIn>>,
         ws' \in ReadyState, sock' \in [Socket -> SockState], idleTimer' \in BOOLEAN,
         arrived' \in 0..MaxChunks, taken' \in taken..arrived',
         sink' \in [pc : {"ready", "dial", "write", "dead"},
                    to : Socket \cup {NoSocket}],
         Quieter(observer'),
         \/ sink' = sink /\ taken' = taken
         \/ /\ sink.pc # "dial" /\ sink'.pc # "dial"
            /\ sink'.pc = "ready" => sink' = Ready
            /\ sink'.pc = "write" => /\ Taken /\ sink'.to = wrapper.socket
                                     /\ sink.pc = "ready" /\ taken' = taken + 1
            /\ Taken => sink'.pc # "ready"
  PROVE  IndInv'
<1>1. taken \in Nat /\ request \in Nat /\ request \in 0..taken
  BY TunnelAssumption DEF IndInv, TypeOK
<1>2. taken' \in 0..arrived' /\ request \in 0..taken'
  BY <1>1, TunnelAssumption
<1>3. TypeOK'
  BY <1>2 DEF IndInv, TypeOK, SockState, Quieter, ObserverOK, ReadyState
<1>4. Phases'
  BY DEF IndInv, Phases, Taken, Dialling
<1>5. SinkWaits'
  BY DEF IndInv, SinkWaits, Taken, Dialling
<1>6. OpenInUse'
  BY OpenFrame
<1>7. AdoptedOpened'
  <2>1. pump' = pump
    OBVIOUS
  <2> QED
    BY <2>1, AdoptedFrame DEF IndInv, AdoptedOpened
<1>8. Written'
  BY WrittenFrame DEF IndInv, TypeOK
<1>9. Heard'
  BY DEF IndInv, Heard, Taken
<1>10. Observed'
  <2>1. Dialling' => Dialling /\ dial'.stage = dial.stage
    BY DEF Dialling
  <2>2. /\ Says(observer', "direct_first_byte_ok") => Says(observer, "direct_first_byte_ok")
        /\ Says(observer', "direct_closed_before_byte")
             => Says(observer, "direct_closed_before_byte")
        /\ Says(observer', "direct_open_error") => Says(observer, "direct_open_error")
    BY DEF Quieter, Verdict
  <2>3. pump'.hasData => observer'.terminal
    BY DEF IndInv, Observed, Quieter
  <2> QED
    BY <2>1, <2>2, <2>3, ObservedFrame DEF Quieter
<1> QED
  BY <1>3, <1>4, <1>5, <1>6, <1>7, <1>8, <1>9, <1>10 DEF IndInv

(* The client sends; the handshake wants more, or is refused; a message is *)
(* to be relayed, or cannot be.                                            *)
LEMMA ClientSteps ==
  ASSUME IndInv,
         \/ ClientSends \/ HandshakeNeedsMore \/ HandshakeRejected
         \/ RelayStarts \/ RelayFails
  PROVE  IndInv'
<1>1. ObserverOK(observer) /\ sock \in [Socket -> SockState] /\ ws \in ReadyState
  BY DEF IndInv, Observed, TypeOK, SockState
<1>2. idleTimer \in BOOLEAN /\ sink \in [pc : {"ready", "dial", "write", "dead"},
                                         to : Socket \cup {NoSocket}]
  BY DEF IndInv, TypeOK
<1>3. /\ arrived \in Nat /\ taken \in Nat /\ arrived \in 0..MaxChunks /\ taken \in 0..arrived
      /\ taken \in taken..arrived
  BY TunnelAssumption DEF IndInv, TypeOK
<1>4. Take => /\ sink.pc = "ready" /\ taken' = taken + 1 /\ taken' \in taken..arrived
              /\ idleTimer' \in BOOLEAN /\ arrived' = arrived
              /\ UNCHANGED <<mode, maxSessionTimer, wrapper, hooked, pump, got, heard, adoptedIn>>
  BY <1>3 DEF Take, history
<1>5. sink.pc = "ready" => sink = Ready
  BY DEF IndInv, SinkWaits
<1>6. Quieter(observer)
  BY FinishedQuieter
<1>7. Dead \in [pc : {"ready", "dial", "write", "dead"}, to : Socket \cup {NoSocket}]
      /\ Dead.pc = "dead"
  BY DEF Dead
<1>8. CASE ClientSends
  <2>1. /\ UNCHANGED <<mode, request, taken, sink, idleTimer, maxSessionTimer, wrapper, dial,
                       hooked, pump, got, heard, adoptedIn, ws, sock, observer>>
        /\ arrived' = arrived + 1 /\ arrived < MaxChunks
    BY <1>8 DEF ClientSends, timers, history
  <2>2. arrived' \in 0..MaxChunks /\ taken \in taken..arrived'
    BY <1>3, <2>1, TunnelAssumption
  <2>3. NoneOpened
    BY <2>1 DEF NoneOpened
  <2> QED
    BY <1>1, <1>2, <1>6, <2>1, <2>2, <2>3, ClientFrame
<1>9. CASE HandshakeNeedsMore
  <2>1. /\ UNCHANGED <<ws, sink, request, dial, sock, observer>>
        /\ Take /\ wrapper.socket = NoSocket
    BY <1>9 DEF HandshakeNeedsMore
  <2>2. NoneOpened
    BY <1>4, <2>1 DEF NoneOpened
  <2> QED
    BY <1>1, <1>2, <1>3, <1>4, <1>5, <1>6, <2>1, <2>2, ClientFrame DEF Taken
<1>10. CASE HandshakeRejected
  <2>1. /\ UNCHANGED <<request, dial>> /\ sink' \in {sink, Dead}
        /\ Take /\ wrapper.socket = NoSocket /\ CloseSession(sock, observer)
    BY <1>10 DEF HandshakeRejected
  <2>2. NoneOpened
    BY <1>1, <1>4, <2>1, ClosingOpensNone
  <2>3. sock' \in [Socket -> SockState] /\ ws' \in ReadyState
    BY <1>1, <2>1, Closings
  <2>4. Quieter(observer')
    BY <2>1, ClosingQuieter
  <2>5. ~Taken
    BY <2>1 DEF Taken
  <2>6. /\ sink' \in [pc : {"ready", "dial", "write", "dead"}, to : Socket \cup {NoSocket}]
        /\ sink'.pc = "ready" => sink' = Ready
        /\ sink'.pc \notin {"dial", "write"}
    BY <1>2, <1>4, <1>5, <1>7, <2>1
  <2> QED
    BY <1>3, <1>4, <2>1, <2>2, <2>3, <2>4, <2>5, <2>6, ClientFrame
<1>11. CASE RelayStarts
  <2>1. /\ UNCHANGED <<ws, request, dial, sock, observer>>
        /\ Take /\ Taken /\ sink' = [pc |-> "write", to |-> wrapper.socket]
    BY <1>11 DEF RelayStarts, Taken
  <2>2. NoneOpened
    BY <1>4, <2>1 DEF NoneOpened
  <2>3. /\ sink' \in [pc : {"ready", "dial", "write", "dead"}, to : Socket \cup {NoSocket}]
        /\ sink'.pc = "write" /\ sink'.to = wrapper.socket
    BY <2>1 DEF IndInv, TypeOK
  <2> QED
    BY <1>1, <1>3, <1>4, <1>6, <2>1, <2>2, <2>3, ClientFrame
<1>12. CASE RelayFails
  <2>1. /\ UNCHANGED <<mode, arrived, taken, request, idleTimer, maxSessionTimer, wrapper,
                       dial, hooked, pump, got, heard, adoptedIn>>
        /\ sink.pc = "write" /\ sink' = Dead /\ CloseSession(sock, observer)
    BY <1>12 DEF RelayFails, client, timers, history
  <2>2. NoneOpened
    BY <1>1, <2>1, ClosingOpensNone
  <2>3. sock' \in [Socket -> SockState] /\ ws' \in ReadyState
    BY <1>1, <2>1, Closings
  <2>4. Quieter(observer')
    BY <2>1, ClosingQuieter
  <2> QED
    BY <1>2, <1>3, <1>7, <2>1, <2>2, <2>3, <2>4, ClientFrame
<1> QED
  BY <1>8, <1>9, <1>10, <1>11, <1>12

----------------------------------------------------------------------------
(* The dial.                                                               *)

\* A candidate is closed, or the dial fails, and nothing else.
NothingWon ==
  /\ UNCHANGED <<mode, ws, client, sink, timers, wrapper, hooked, pump,
                 observer, history>>
  /\ sock' \in [Socket -> SockState]
  /\ \A s \in Socket : sock'[s] = sock[s] \/ (sock[s] = "dialing" /\ sock'[s] = "closed")
  /\ \/ dial' = dial
     \/ /\ dial.pc # "none" /\ dial' = [dial EXCEPT !.pc = "failed"]
        /\ dial.pc = "write" => sock[dial.winner] = "ended"

(* A dialled socket fails or comes too late, or refuses the first payload. *)
LEMMA DialSteps ==
  ASSUME IndInv,
         \/ \E s \in Socket : (DialOpens(s) /\ ~Racing(s)) \/ DialFails(s)
         \/ FirstWriteFails
  PROVE  IndInv'
<1>1. sock \in [Socket -> SockState]
  BY DEF IndInv, TypeOK, SockState
<1>2. NothingWon
  <2>1. ASSUME NEW s \in Socket, DialOpens(s), ~Racing(s)
        PROVE  NothingWon
    BY <1>1, <2>1 DEF DialOpens, SockState, NothingWon
  <2>2. ASSUME NEW s \in Socket, DialFails(s)
        PROVE  NothingWon
    BY <1>1, <2>2 DEF DialFails, Racing, SockState, NothingWon
  <2>3. ASSUME FirstWriteFails
        PROVE  NothingWon
    BY <1>1, <2>3 DEF FirstWriteFails, NothingWon
  <2> QED
    BY <2>1, <2>2, <2>3
<1>3. /\ dial' \in [stage : Stage, by : {"sink", "retry"},
                    pc : {"none", "race", "write", "failed"},
                    winner : Socket \cup {NoSocket}]
      /\ dial'.stage = dial.stage /\ dial'.by = dial.by /\ dial'.winner = dial.winner
      /\ dial'.pc = dial.pc \/ (dial'.pc = "failed" /\ dial.pc # "none")
      /\ dial.pc = "write" => dial'.pc = "write" \/ sock[dial.winner] # "open"
  BY <1>2 DEF IndInv, TypeOK, NothingWon
<1>4. UNCHANGED <<mode, ws, arrived, taken, request, sink, idleTimer, maxSessionTimer, wrapper,
                  hooked, pump, observer, got, heard, adoptedIn>>
  BY <1>2 DEF client, timers, history, NothingWon
<1>5. NoneOpened
  BY <1>2, <1>4 DEF NoneOpened, NothingWon
<1>6. (Dialling' <=> Dialling) /\ (Taken' <=> Taken)
  BY <1>3, <1>4 DEF Dialling, Taken
<1>7. TypeOK'
  BY <1>2, <1>3, <1>4 DEF IndInv, TypeOK, SockState, NothingWon
<1>8. Phases'
  BY <1>3, <1>4, <1>6 DEF IndInv, Phases
<1>9. SinkWaits'
  BY <1>3, <1>4, <1>6 DEF IndInv, SinkWaits
<1>10. OpenInUse'
  BY <1>3, <1>4, <1>5, OpenFrame
<1>11. AdoptedOpened'
  BY <1>4, <1>5, AdoptedFrame
<1>12. Written'
  BY <1>3, <1>4, <1>5, WrittenFrame DEF IndInv, TypeOK
<1>13. Heard'
  BY <1>4, <1>6 DEF IndInv, Heard
<1>14. Observed'
  <2>1. ObserverOK(observer) /\ (pump.hasData => observer.terminal)
    BY DEF IndInv, Observed
  <2> QED
    BY <1>3, <1>4, <1>5, <1>6, <2>1, ObservedFrame
<1> QED
  BY <1>7, <1>8, <1>9, <1>10, <1>11, <1>12, <1>13, <1>14 DEF IndInv

----------------------------------------------------------------------------
(* The remote's stream.                                                    *)

PumpPc == {"none", "run", "ended", "done"}

(* A session that relays is not dialling, and knows its request.           *)
LEMMA PumpFacts ==
  ASSUME IndInv, pump.pc \in {"run", "ended"}
  PROVE  /\ Taken /\ ~Dialling /\ request # 0
         /\ pump.socket = wrapper.socket /\ wrapper.socket \in Socket
         /\ sink.pc # "dial"
         /\ wrapper.observed <=> wrapper.socket \in Direct
         /\ pump.retry => wrapper.socket \in Direct
         /\ ~observer.terminal => wrapper.socket \in Direct
<1>1. Taken
  BY DEF IndInv, Phases
<1> QED
  BY <1>1 DEF IndInv, Phases, SinkWaits, Observed, Taken, TypeOK

(* The stream moves on, and the session goes on or closes; o is what the   *)
(* observer has been told.                                                 *)
LEMMA PumpFrame ==
  ASSUME IndInv, NEW o, ObserverOK(o), pump.pc \in {"run", "ended"},
         UNCHANGED <<mode, client, sink, timers, wrapper, dial, hooked, got,
                     adoptedIn>>,
         \/ CloseSocketQuietly(sock, o)
         \/ UNCHANGED <<ws, sock>> /\ observer' = o,
         pump' \in [socket : Socket \cup {NoSocket}, hasData : BOOLEAN,
                    header : BOOLEAN, retry : BOOLEAN, pc : PumpPc],
         pump'.socket = pump.socket, pump'.retry = pump.retry,
         pump'.pc # "none", pump.hasData => pump'.hasData,
         pump'.pc \in {"ended", "done"} /\ ~pump'.hasData =>
           pump.pc = "ended" \/ sock[wrapper.socket] # "open",
         heard' \in Seq([from : Socket, header : BOOLEAN]), Heard',
         observer.terminal => o.terminal,
         o.timer => observer.timer,
         pump'.hasData => o.terminal,
         \A v \in Verdict : Says(o, v) =>
           \/ Says(observer, v)
           \/ v = "direct_first_byte_ok" /\ wrapper.socket \in Direct /\ pump'.hasData
           \/ v = "direct_closed_before_byte" /\ \E s \in Direct : sock[s] = "ended"
  PROVE  IndInv'
<1>1. /\ Taken /\ ~Dialling /\ request # 0 /\ pump.socket = wrapper.socket
      /\ sink.pc # "dial" /\ (wrapper.observed <=> wrapper.socket \in Direct)
  BY PumpFacts
<1>2. NoneOpened /\ sock' \in [Socket -> SockState] /\ ws' \in ReadyState
  <2>1. CASE CloseSocketQuietly(sock, o)
    BY <2>1, ClosingOpensNone, Closings
  <2>2. CASE UNCHANGED <<ws, sock>> /\ observer' = o
    BY <2>2 DEF NoneOpened, IndInv, TypeOK, SockState
  <2> QED
    BY <2>1, <2>2
<1>3. observer' = o \/ (observer' = Finish(o) /\ wrapper.observed)
  BY Closings
<1>4. /\ ObserverOK(observer')
      /\ o.terminal => observer'.terminal
      /\ observer'.timer => o.timer
      /\ \A v : Says(observer', v) => Says(o, v)
  <2>1. ~Finish(o).timer
    BY DEF ObserverOK, Observer, Finish
  <2> QED
    BY <1>3, <2>1, FinishOK
<1>5. UNCHANGED <<mode, arrived, taken, request, sink, idleTimer, maxSessionTimer, wrapper,
                  dial, hooked, got, adoptedIn>>
  BY DEF client, timers
<1>6. (Taken' <=> Taken) /\ (Dialling' <=> Dialling)
  BY <1>5 DEF Taken, Dialling
<1>7. TypeOK'
  BY <1>2, <1>4, <1>5 DEF IndInv, TypeOK, SockState, ObserverOK, PumpPc, ReadyState
<1>8. Phases'
  BY <1>1, <1>5, <1>6 DEF IndInv, Phases, Dialling
<1>9. SinkWaits'
  BY <1>5, <1>6 DEF IndInv, SinkWaits
<1>10. OpenInUse'
  BY <1>2, <1>5, OpenFrame
<1>11. AdoptedOpened'
  BY <1>2, AdoptedFrame
<1>12. Written'
  BY <1>2, <1>5, WrittenFrame DEF IndInv, TypeOK
<1>13. Observed'
  <2>1. /\ Says(observer', "direct_first_byte_ok") =>
             \/ Says(observer, "direct_first_byte_ok")
             \/ wrapper.socket \in Direct /\ pump'.hasData
        /\ Says(observer', "direct_closed_before_byte") =>
             \/ Says(observer, "direct_closed_before_byte")
             \/ \E s \in Direct : sock[s] = "ended"
        /\ Says(observer', "direct_open_error") => Says(observer, "direct_open_error")
    BY <1>4 DEF Verdict
  <2> QED
    BY <1>1, <1>2, <1>4, <1>5, <1>6, <2>1, ObservedFrame
<1> QED
  BY <1>7, <1>8, <1>9, <1>10, <1>11, <1>12, <1>13 DEF IndInv

(* The remote sends, or its stream stops.                                  *)
LEMMA RemoteSteps ==
  ASSUME IndInv, RemoteSends \/ PumpStops
  PROVE  IndInv'
<1>1. /\ ObserverOK(observer)
      /\ pump.hasData => observer.terminal
      /\ ~pump.hasData => heard = <<>>
      /\ heard \in Seq([from : Socket, header : BOOLEAN])
      /\ \A i \in DOMAIN heard :
           heard[i].from = pump.socket /\ (heard[i].header <=> i = 1)
  BY DEF IndInv, Observed, Heard, TypeOK
<1>2. pump \in [socket : Socket \cup {NoSocket}, hasData : BOOLEAN,
                header : BOOLEAN, retry : BOOLEAN, pc : PumpPc]
  BY DEF IndInv, TypeOK, PumpPc
<1>3. pump.pc = "run" =>
        /\ Taken /\ request # 0 /\ pump.socket = wrapper.socket /\ wrapper.socket \in Socket
        /\ ~observer.terminal => wrapper.socket \in Direct
        /\ pump.header <=> heard = <<>>
  BY PumpFacts DEF IndInv, Heard
<1>4. CASE RemoteSends
  <2>1. /\ pump.pc = "run" /\ sock[pump.socket] = "open"
        /\ UNCHANGED <<mode, client, sink, timers, wrapper, dial, hooked, got, adoptedIn>>
    BY <1>4 DEF RemoteSends
  <2>2. /\ ObserverOK(FirstChunk) /\ FirstChunk.terminal
        /\ observer.terminal => FirstChunk = observer
        /\ \A v : Says(FirstChunk, v) =>
             Says(observer, v) \/ (v = "direct_first_byte_ok" /\ wrapper.socket \in Direct)
    BY <1>1, <1>3, <2>1, ConcludeOK DEF FirstChunk, FirstByte, Verdict
  <2>3. FirstChunk.timer => observer.timer
    BY <2>2 DEF ObserverOK
  <2>4. CASE ws = "open" /\ observer' = FirstChunk
    <3> DEFINE m == [from |-> pump.socket, header |-> pump.header]
               t == Append(heard, m)
    <3>1. /\ heard' = t
          /\ pump' = [pump EXCEPT !.hasData = TRUE, !.header = FALSE]
          /\ UNCHANGED <<ws, sock>>
      BY <1>4, <2>4 DEF RemoteSends
    <3>2. m \in [from : Socket, header : BOOLEAN] /\ m.from = pump.socket
          /\ m.header = pump.header
      BY <1>2, <1>3, <2>1
    <3> HIDE DEF m
    <3>3. /\ t \in Seq([from : Socket, header : BOOLEAN]) /\ Len(heard) \in Nat
          /\ DOMAIN heard = 1..Len(heard) /\ DOMAIN t = 1..(Len(heard) + 1)
          /\ t[Len(heard) + 1] = m
          /\ \A i \in 1..Len(heard) : t[i] = heard[i]
      BY <1>1, <3>2
    <3>4. heard = <<>> <=> Len(heard) = 0
      BY <1>1
    <3> HIDE DEF t
    <3>5. /\ pump'.hasData /\ ~pump'.header /\ pump'.socket = pump.socket
          /\ pump'.retry = pump.retry /\ pump'.pc = "run"
          /\ pump' \in [socket : Socket \cup {NoSocket}, hasData : BOOLEAN,
                        header : BOOLEAN, retry : BOOLEAN, pc : PumpPc]
      BY <1>2, <2>1, <3>1
    <3>6. t # <<>>
      BY <3>3
    <3>7. \A i \in DOMAIN t : t[i].from = pump.socket /\ (t[i].header <=> i = 1)
      <4>1. ASSUME NEW i \in 1..Len(heard)
            PROVE  t[i].from = pump.socket /\ (t[i].header <=> i = 1)
        BY <1>1, <3>3
      <4>2. t[Len(heard) + 1].from = pump.socket
        BY <3>2, <3>3
      <4>3. t[Len(heard) + 1].header <=> Len(heard) = 0
        BY <1>3, <2>1, <3>2, <3>3, <3>4
      <4>4. Len(heard) = 0 <=> Len(heard) + 1 = 1
        BY <3>3
      <4>5. \A i \in DOMAIN t : i \in 1..Len(heard) \/ i = Len(heard) + 1
        BY <3>3
      <4> QED
        BY <4>1, <4>2, <4>3, <4>4, <4>5
    <3>8. Heard'
      BY <3>1, <3>5, <3>6, <3>7 DEF Heard
    <3>9. heard' \in Seq([from : Socket, header : BOOLEAN])
      BY <3>1, <3>3
    <3>10. \A v \in Verdict : Says(FirstChunk, v) =>
             \/ Says(observer, v)
             \/ v = "direct_first_byte_ok" /\ wrapper.socket \in Direct /\ pump'.hasData
      BY <2>2, <3>5
    <3> QED
      BY <2>1, <2>2, <2>3, <2>4, <3>1, <3>5, <3>8, <3>9, <3>10, PumpFrame
  <2>5. CASE /\ ws # "open" /\ CloseSocketQuietly(sock, FirstChunk)
             /\ pump' = [pump EXCEPT !.hasData = TRUE, !.pc = "ended"]
             /\ UNCHANGED heard
    <3>1. /\ pump'.hasData /\ pump'.header = pump.header /\ pump'.socket = pump.socket
          /\ pump'.retry = pump.retry /\ pump'.pc = "ended"
          /\ pump' \in [socket : Socket \cup {NoSocket}, hasData : BOOLEAN,
                        header : BOOLEAN, retry : BOOLEAN, pc : PumpPc]
      BY <1>2, <2>5 DEF PumpPc
    <3>2. Heard'
      BY <1>1, <1>3, <2>1, <2>5, <3>1 DEF Heard
    <3>3. \A v \in Verdict : Says(FirstChunk, v) =>
            \/ Says(observer, v)
            \/ v = "direct_first_byte_ok" /\ wrapper.socket \in Direct /\ pump'.hasData
      BY <2>2, <3>1
    <3> QED
      BY <1>1, <2>1, <2>2, <2>3, <2>5, <3>1, <3>2, <3>3, PumpFrame
  <2> QED
    BY <1>4, <2>4, <2>5 DEF RemoteSends
<1>5. CASE PumpStops
  <2>1. /\ pump.pc = "run" /\ sock[pump.socket] \in {"ended", "closed"}
        /\ pump' = [pump EXCEPT !.pc = "ended"]
        /\ \/ CloseSocketQuietly(sock, observer)
           \/ UNCHANGED <<ws, sock>> /\ observer' = observer
        /\ UNCHANGED <<mode, client, sink, timers, wrapper, dial, hooked, got, adoptedIn>>
        /\ UNCHANGED heard
    BY <1>5 DEF PumpStops, history
  <2>2. /\ pump'.hasData = pump.hasData /\ pump'.header = pump.header
        /\ pump'.socket = pump.socket
        /\ pump'.retry = pump.retry /\ pump'.pc = "ended"
        /\ pump' \in [socket : Socket \cup {NoSocket}, hasData : BOOLEAN,
                      header : BOOLEAN, retry : BOOLEAN, pc : PumpPc]
    BY <1>2, <2>1 DEF PumpPc
  <2>3. Heard'
    BY <1>1, <1>3, <2>1, <2>2 DEF Heard
  <2> QED
    BY <1>1, <1>3, <2>1, <2>2, <2>3, PumpFrame
<1> QED
  BY <1>4, <1>5

----------------------------------------------------------------------------
(* The end of a dial, and of a connection without an answer.               *)

\* A dial of the sink has failed, or one of a retry has, or the direct
\* connection is over and has brought nothing.
MayDial(by) ==
  /\ by \in {"sink", "retry"}
  /\ dial.pc \in {"none", "failed"}
  /\ by = "sink" => dial.pc = "failed" /\ dial.by = "sink"
  /\ by = "retry" => /\ wrapper.socket \in Direct
                     /\ pump.pc \in {"ended", "done"} /\ ~pump.hasData
                     /\ dial.pc = "failed" => dial.by = "retry"

\* What the observer may have been told of that.
ToldOf(o) ==
  /\ ObserverOK(o)
  /\ observer.terminal => o.terminal
  /\ o.timer => observer.timer
  /\ Says(o, "direct_first_byte_ok") => Says(observer, "direct_first_byte_ok")
  /\ Says(o, "direct_closed_before_byte") =>
       \/ Says(observer, "direct_closed_before_byte")
       \/ \E s \in Direct : sock[s] = "ended"
  /\ Says(o, "direct_open_error") =>
       \/ Says(observer, "direct_open_error")
       \/ wrapper.socket \notin Direct

(* Whoever may dial has a request and no answer.                           *)
LEMMA MayDialFacts ==
  ASSUME IndInv, NEW by, MayDial(by)
  PROVE  /\ request # 0 /\ ~pump.hasData
         /\ by = "sink" => Dialling /\ ~Taken /\ pump.pc = "none" /\ sink.pc = "dial"
         /\ by = "retry" => Taken /\ sink.pc # "dial" /\ dial.pc # "write"
         /\ Dialling => dial.by = by
<1>1. Direct \subseteq Socket /\ NoSocket \notin Socket
  BY SocketFacts
<1>2. CASE by = "sink"
  BY <1>2 DEF MayDial, IndInv, Phases, Dialling
<1>3. CASE by = "retry"
  <2>1. Taken
    BY <1>1, <1>3 DEF MayDial, Taken
  <2>2. Dialling => dial.by = "retry"
    BY <1>3 DEF MayDial, Dialling
  <2> QED
    BY <1>3, <2>1, <2>2 DEF MayDial, IndInv, Phases, SinkWaits
<1> QED
  BY <1>2, <1>3 DEF MayDial

\* The pump is not concerned, or it is what has ended.
PumpPasses ==
  \/ pump' = pump /\ pump.pc # "ended"
  \/ pump.pc = "ended" /\ pump' = [pump EXCEPT !.pc = "done"]

(* The proxy is dialled.                                                   *)
LEMMA ProxyDialled ==
  ASSUME IndInv, NEW by, MayDial(by), NEW o, ToldOf(o), o.terminal,
         NEW stage \in {"proxy", "fallback"}, StartDial(stage, by, o), PumpPasses,
         UNCHANGED <<mode, client, sink, timers, wrapper, hooked, history>>
  PROVE  IndInv'
<1>1. /\ request # 0 /\ ~pump.hasData
      /\ by = "sink" => Dialling /\ ~Taken /\ pump.pc = "none" /\ sink.pc = "dial"
      /\ by = "retry" => Taken /\ sink.pc # "dial" /\ dial.pc # "write"
      /\ Dialling => dial.by = by
  BY MayDialFacts
<1>2. UNCHANGED <<mode, ws, arrived, taken, request, sink, idleTimer, maxSessionTimer, wrapper,
                  hooked, got, heard, adoptedIn>>
  BY DEF client, timers, history, StartDial
<1>3. /\ dial' \in [stage : Stage, by : {"sink", "retry"},
                    pc : {"none", "race", "write", "failed"},
                    winner : Socket \cup {NoSocket}]
      /\ dial'.stage = stage /\ dial'.by = by /\ dial'.pc = "race"
      /\ observer' = o
  BY DEF StartDial, MayDial, Stage
<1>4. /\ Direct \subseteq Socket /\ NoSocket \notin Socket
      /\ \A s \in Socket : s \in Direct <=> StageOf(s) = "direct"
  BY SocketFacts
<1>5. /\ sock' \in [Socket -> SockState]
      /\ \A s \in Socket : sock'[s] = sock[s] \/ (sock'[s] = "dialing" /\ StageOf(s) = stage)
  BY DEF StartDial, IndInv, TypeOK, SockState
<1>6. by = "sink" => wrapper.socket = NoSocket
  BY <1>1 DEF Taken
<1>7. by = "retry" => wrapper.socket \in Direct
  BY DEF MayDial
<1>8. NoneOpened
  <2>1. ASSUME NEW s \in Socket, StageOf(s) = stage
        PROVE  s # wrapper.socket /\ s \notin Direct
    BY <1>4, <1>6, <1>7, <2>1 DEF MayDial
  <2> QED
    BY <1>2, <1>5, <2>1 DEF NoneOpened
<1>9. /\ pump' \in [socket : Socket \cup {NoSocket}, hasData : BOOLEAN,
                    header : BOOLEAN, retry : BOOLEAN, pc : PumpPc]
      /\ pump'.socket = pump.socket /\ pump'.hasData = pump.hasData
      /\ pump'.header = pump.header /\ pump'.retry = pump.retry
      /\ pump'.pc = "none" <=> pump.pc = "none"
      /\ pump'.pc \in {"ended", "done"} <=> pump.pc \in {"ended", "done"}
      /\ by = "retry" => pump'.pc = "done"
  BY DEF PumpPasses, IndInv, TypeOK, PumpPc, MayDial
<1>10. Dialling' /\ (Taken' <=> Taken)
  BY <1>2, <1>3 DEF Dialling, Taken
<1>11. TypeOK'
  BY <1>2, <1>3, <1>5, <1>9 DEF IndInv, TypeOK, SockState, PumpPc, ToldOf, ObserverOK
<1>12. Phases'
  <2>1. by = "retry" => stage \in {"proxy", "fallback"} /\ wrapper.socket \in Direct
    BY <1>7
  <2> QED
    BY <1>1, <1>2, <1>3, <1>9, <1>10, <2>1 DEF IndInv, Phases, MayDial
<1>13. SinkWaits'
  BY <1>1, <1>2, <1>3, <1>10 DEF IndInv, SinkWaits, MayDial
<1>14. OpenInUse'
  BY <1>1, <1>2, <1>8, OpenFrame DEF MayDial
<1>15. AdoptedOpened'
  BY <1>8, <1>9, AdoptedFrame
<1>16. Written'
  BY <1>1, <1>2, <1>3, <1>8, WrittenFrame DEF IndInv, TypeOK, MayDial
<1>17. Heard'
  BY <1>2, <1>9, <1>10 DEF IndInv, Heard
<1>18. Observed'
  BY <1>1, <1>2, <1>3, <1>8, <1>9, <1>10, ObservedFrame DEF ToldOf
<1> QED
  BY <1>11, <1>12, <1>13, <1>14, <1>15, <1>16, <1>17, <1>18 DEF IndInv

(* The dial, or the attempt to have one, ends without a socket.            *)
LEMMA DialGivenUp ==
  ASSUME IndInv, NEW by, MayDial(by), NEW o, ToldOf(o),
         dial' = [NoDial EXCEPT !.by = by], PumpPasses,
         CloseSocketQuietly(sock, o) \/ CloseSession(sock, o),
         UNCHANGED <<mode, client, timers, wrapper, hooked, history>>,
         by = "sink" => sink' \in {Ready, Dead},
         by = "retry" => sink' = sink
  PROVE  IndInv'
<1>1. /\ request # 0 /\ ~pump.hasData
      /\ by = "sink" => Dialling /\ ~Taken /\ pump.pc = "none" /\ sink.pc = "dial"
      /\ by = "retry" => Taken /\ sink.pc # "dial" /\ dial.pc # "write"
      /\ Dialling => dial.by = by
  BY MayDialFacts
<1>2. UNCHANGED <<mode, arrived, taken, request, idleTimer, maxSessionTimer, wrapper,
                  hooked, got, heard, adoptedIn>>
  BY DEF client, timers, history
<1>3. /\ dial' \in [stage : Stage, by : {"sink", "retry"},
                    pc : {"none", "race", "write", "failed"},
                    winner : Socket \cup {NoSocket}]
      /\ dial'.by = by /\ dial'.pc = "none"
  BY DEF NoDial, MayDial, Stage
<1>4. ObserverOK(o)
  BY DEF ToldOf
<1>5. NoneOpened /\ sock' \in [Socket -> SockState] /\ ws' \in ReadyState
  BY <1>2, <1>4, ClosingOpensNone, Closings
<1>6. /\ ObserverOK(observer')
      /\ o.terminal => observer'.terminal
      /\ observer'.timer => o.timer
      /\ \A v : Says(observer', v) => Says(o, v)
  <2>1. ~Finish(o).timer
    BY <1>4 DEF ObserverOK, Observer, Finish
  <2>2. observer' = o \/ observer' = Finish(o)
    BY <1>4, Closings
  <2> QED
    BY <1>4, <2>1, <2>2, FinishOK
<1>7. /\ pump' \in [socket : Socket \cup {NoSocket}, hasData : BOOLEAN,
                    header : BOOLEAN, retry : BOOLEAN, pc : PumpPc]
      /\ pump'.socket = pump.socket /\ pump'.hasData = pump.hasData
      /\ pump'.header = pump.header /\ pump'.retry = pump.retry
      /\ pump'.pc = "none" <=> pump.pc = "none"
      /\ pump'.pc \in {"ended", "done"} <=> pump.pc \in {"ended", "done"}
  BY DEF PumpPasses, IndInv, TypeOK, PumpPc
<1>8. ~Dialling' /\ (Taken' <=> Taken)
  BY <1>2, <1>3 DEF Dialling, Taken
<1>9. /\ sink' \in [pc : {"ready", "dial", "write", "dead"}, to : Socket \cup {NoSocket}]
      /\ sink'.pc # "dial" /\ (sink'.pc = "ready" => sink' = Ready)
      /\ sink'.pc = "write" => by = "retry" /\ sink' = sink
  BY <1>1 DEF IndInv, TypeOK, SinkWaits, Ready, Dead, MayDial
<1>10. TypeOK'
  BY <1>2, <1>3, <1>5, <1>6, <1>7, <1>9
    DEF IndInv, TypeOK, SockState, PumpPc, ObserverOK, ReadyState
<1>11. Phases'
  BY <1>1, <1>2, <1>3, <1>7, <1>8 DEF IndInv, Phases, MayDial
<1>12. SinkWaits'
  BY <1>1, <1>2, <1>3, <1>8, <1>9 DEF IndInv, SinkWaits
<1>13. OpenInUse'
  BY <1>1, <1>2, <1>5, OpenFrame DEF MayDial
<1>14. AdoptedOpened'
  BY <1>5, <1>7, AdoptedFrame
<1>15. Written'
  BY <1>1, <1>2, <1>3, <1>5, WrittenFrame DEF IndInv, TypeOK, MayDial
<1>16. Heard'
  BY <1>2, <1>7, <1>8 DEF IndInv, Heard
<1>17. Observed'
  <2>1. observer.terminal => observer'.terminal
    BY <1>6 DEF ToldOf
  <2>2. observer'.timer => observer.timer
    BY <1>6 DEF ToldOf
  <2>3. /\ Says(observer', "direct_first_byte_ok") => Says(observer, "direct_first_byte_ok")
        /\ Says(observer', "direct_closed_before_byte") =>
             \/ Says(observer, "direct_closed_before_byte")
             \/ \E s \in Direct : sock[s] = "ended"
        /\ Says(observer', "direct_open_error") =>
             \/ Says(observer, "direct_open_error")
             \/ wrapper.socket \notin Direct
    BY <1>6 DEF ToldOf
  <2> QED
    BY <1>1, <1>2, <1>5, <1>6, <1>7, <1>8, <2>1, <2>2, <2>3, ObservedFrame
<1> QED
  BY <1>10, <1>11, <1>12, <1>13, <1>14, <1>15, <1>16, <1>17 DEF IndInv

(* One of the routes that DialProxy takes.                                 *)
LEMMA ProxyTried ==
  ASSUME IndInv, NEW by, MayDial(by), NEW o, ToldOf(o), o.terminal,
         DialProxy(by, o), PumpPasses,
         UNCHANGED <<mode, client, timers, wrapper, hooked, history>>,
         dial'.pc # "none" => sink' = sink,
         dial'.pc = "none" => (by = "sink" => sink' = Ready) /\ (by = "retry" => sink' = sink)
  PROVE  IndInv'
<1>1. ASSUME NEW stage \in {"proxy", "fallback"}, StartDial(stage, by, o)
      PROVE  IndInv'
  <2>1. dial'.pc = "race"
    BY <1>1 DEF StartDial
  <2> QED
    BY <1>1, <2>1, ProxyDialled
<1>2. ASSUME GiveUp(by, o)
      PROVE  IndInv'
  <2>1. dial' = [NoDial EXCEPT !.by = by] /\ CloseSocketQuietly(sock, o)
    BY <1>2 DEF GiveUp
  <2>2. dial'.pc = "none"
    BY <2>1 DEF NoDial
  <2> QED
    BY <2>1, <2>2, DialGivenUp
<1> QED
  BY <1>1, <1>2 DEF DialProxy

(* An early close is one by the target: this side would have told the      *)
(* observer.                                                               *)
LEMMA ClosedByTarget ==
  ASSUME IndInv, pump.pc = "ended", ~pump.hasData
  PROVE  /\ ToldOf(ClosedBeforeByte(observer)) /\ ClosedBeforeByte(observer).terminal
         /\ observer.terminal => ClosedBeforeByte(observer) = observer
<1> DEFINE o == ClosedBeforeByte(observer)
<1>1. ObserverOK(observer)
  BY DEF IndInv, Observed
<1>2. /\ ObserverOK(o) /\ o.terminal
      /\ observer.terminal => o = observer
      /\ \A v : Says(o, v) =>
           Says(observer, v) \/ (v = "direct_closed_before_byte" /\ ~observer.terminal)
  BY <1>1, ConcludeOK DEF ClosedBeforeByte, Verdict
<1> HIDE DEF o
<1>3. ~observer.terminal => wrapper.socket \in Direct /\ sock[wrapper.socket] = "ended"
  BY PumpFacts DEF IndInv, AdoptedOpened, Observed
<1>4. o.timer => observer.timer
  BY <1>2 DEF ObserverOK
<1> QED
  BY <1>2, <1>3, <1>4 DEF ToldOf, o

(* The remote's stream is over.                                            *)
LEMMA PumpEndedStep ==
  ASSUME IndInv, PumpEnded
  PROVE  IndInv'
<1>1. /\ pump.pc = "ended" /\ pump' = [pump EXCEPT !.pc = "done"]
      /\ UNCHANGED <<mode, client, sink, timers, wrapper, hooked, got, adoptedIn, heard>>
  BY DEF PumpEnded, history
<1>2. /\ Taken /\ ~Dialling /\ request # 0
      /\ pump.socket = wrapper.socket /\ wrapper.socket \in Socket
      /\ pump.retry => wrapper.socket \in Direct
  BY <1>1, PumpFacts
<1>3. /\ pump' \in [socket : Socket \cup {NoSocket}, hasData : BOOLEAN,
                    header : BOOLEAN, retry : BOOLEAN, pc : PumpPc]
      /\ pump'.socket = pump.socket /\ pump'.hasData = pump.hasData
      /\ pump'.header = pump.header /\ pump'.retry = pump.retry /\ pump'.pc = "done"
  BY <1>1 DEF IndInv, TypeOK, PumpPc
<1>4. Heard'
  BY <1>1, <1>3 DEF IndInv, Heard, Taken
<1>5. heard' \in Seq([from : Socket, header : BOOLEAN])
  BY <1>1 DEF IndInv, TypeOK
<1>6. ObserverOK(observer) /\ (pump.hasData => observer.terminal)
  BY DEF IndInv, Observed
<1>7. CASE pump.hasData /\ CloseSocketQuietly(sock, Finish(observer)) /\ UNCHANGED dial
  <2>1. /\ ObserverOK(Finish(observer)) /\ Finish(observer).terminal
        /\ \A v : Says(Finish(observer), v) => Says(observer, v)
    BY <1>6, FinishOK
  <2>2. ~Finish(observer).timer
    BY <2>1 DEF ObserverOK
  <2> QED
    BY <1>1, <1>3, <1>4, <1>5, <1>7, <2>1, <2>2, PumpFrame
<1>8. CASE ~pump.hasData /\ pump.retry /\ DialProxy("retry", ClosedBeforeByte(observer))
  <2>1. MayDial("retry")
    BY <1>1, <1>2, <1>8 DEF MayDial, Dialling
  <2>2. ToldOf(ClosedBeforeByte(observer)) /\ ClosedBeforeByte(observer).terminal
    BY <1>1, <1>8, ClosedByTarget
  <2>3. PumpPasses
    BY <1>1 DEF PumpPasses
  <2> QED
    BY <1>1, <1>8, <2>1, <2>2, <2>3, ProxyTried DEF history
<1>9. CASE /\ ~pump.hasData
           /\ observer' = ClosedBeforeByte(observer) /\ UNCHANGED <<ws, sock, dial>>
  <2>1. ToldOf(ClosedBeforeByte(observer)) /\ ClosedBeforeByte(observer).terminal
    BY <1>1, <1>9, ClosedByTarget
  <2>2. \A v \in Verdict : Says(ClosedBeforeByte(observer), v) =>
           \/ Says(observer, v)
           \/ v = "direct_closed_before_byte" /\ \E s \in Direct : sock[s] = "ended"
    <3>1. \A v : Says(ClosedBeforeByte(observer), v) =>
            Says(observer, v) \/ v = "direct_closed_before_byte"
      BY <1>6, ConcludeOK DEF ClosedBeforeByte, Verdict
    <3>2. observer.terminal => ClosedBeforeByte(observer) = observer
      BY <1>1, <1>9, ClosedByTarget
    <3>3. ~observer.terminal => \E s \in Direct : sock[s] = "ended"
      BY <1>1, <1>2, <1>9, PumpFacts DEF IndInv, AdoptedOpened, Observed
    <3> QED
      BY <3>1, <3>2, <3>3
  <2> QED
    BY <1>1, <1>3, <1>4, <1>5, <1>9, <2>1, <2>2, PumpFrame DEF ToldOf
<1> QED
  BY <1>7, <1>8, <1>9 DEF PumpEnded

(* No socket of a route has opened, or the one that did took no payload.   *)
LEMMA DialFailedStep ==
  ASSUME IndInv, DialFailed
  PROVE  IndInv'
<1>1. /\ dial.pc = "failed" /\ Dialling
      /\ UNCHANGED <<mode, client, timers, wrapper, hooked, pump, history>>
  BY DEF DialFailed, Dialling
<1>2. /\ pump.pc \in {"none", "done"} /\ ~pump.hasData /\ request # 0
      /\ dial.by \in {"sink", "retry"}
      /\ dial.by = "sink" => sink.pc = "dial" /\ ~Taken
      /\ dial.by = "retry" => dial.stage \in {"proxy", "fallback"} /\ wrapper.socket \in Direct
      /\ dial.by = "retry" => Taken
      /\ ~observer.terminal => dial.stage = "direct"
  BY <1>1 DEF IndInv, Phases, Observed, TypeOK
<1>3. pump.pc = "none" <=> ~Taken
  BY DEF IndInv, Phases
<1>4. MayDial(dial.by) /\ PumpPasses
  BY <1>1, <1>2, <1>3 DEF MayDial, PumpPasses
<1>5. ObserverOK(observer) /\ ToldOf(observer)
  BY DEF IndInv, Observed, ToldOf
<1>6. wrapper.socket \notin Direct =>
        ToldOf(OpenError(observer)) /\ OpenError(observer).terminal
  <2> DEFINE o == OpenError(observer)
  <2>1. /\ ObserverOK(o) /\ o.terminal
        /\ \A v : Says(o, v) => Says(observer, v) \/ v = "direct_open_error"
    BY <1>5, ConcludeOK DEF OpenError, Verdict
  <2> HIDE DEF o
  <2>2. o.timer => observer.timer
    BY <2>1 DEF ObserverOK
  <2> QED
    BY <2>1, <2>2 DEF ToldOf, o
<1>7. dial.by = "sink" => wrapper.socket \notin Direct
  BY <1>2, SocketFacts DEF Taken
<1>8. CASE dial.stage = "upstream" /\ sink' = Dead /\ dial' = NoDial /\ CloseSession(sock, observer)
  <2>1. dial.by = "sink"
    BY <1>2, <1>8
  <2>2. dial' = [NoDial EXCEPT !.by = "sink"]
    BY <1>8 DEF NoDial
  <2> QED
    BY <1>1, <1>4, <1>5, <1>8, <2>1, <2>2, DialGivenUp
<1>9. CASE /\ dial.stage = "direct" /\ DialProxy(dial.by, OpenError(observer))
           /\ sink' = IF dial'.pc = "none" THEN Ready ELSE sink
  <2>1. dial.by = "sink"
    BY <1>2, <1>9
  <2>2. ToldOf(OpenError(observer)) /\ OpenError(observer).terminal
    BY <1>6, <1>7, <2>1
  <2> QED
    BY <1>1, <1>4, <1>9, <2>1, <2>2, ProxyTried
<1>10. CASE /\ dial.stage = "proxy" /\ StartDial("fallback", dial.by, observer)
            /\ UNCHANGED sink
  <2>1. observer.terminal
    BY <1>2, <1>10
  <2> QED
    BY <1>1, <1>4, <1>5, <1>10, <2>1, ProxyDialled
<1>11. CASE /\ DialDone
            /\ CloseSocketQuietly(sock, IF dial.stage = "direct"
                                        THEN OpenError(observer) ELSE observer)
  <2> DEFINE o == IF dial.stage = "direct" THEN OpenError(observer) ELSE observer
  <2>1. ToldOf(o)
    BY <1>2, <1>5, <1>6, <1>7
  <2>2. /\ dial' = [NoDial EXCEPT !.by = dial.by]
        /\ dial.by = "sink" => sink' = Ready
        /\ dial.by = "retry" => sink' = sink
    BY <1>11 DEF DialDone
  <2>3. CloseSocketQuietly(sock, o)
    BY <1>11
  <2> HIDE DEF o
  <2> QED
    BY <1>1, <1>4, <2>1, <2>2, <2>3, DialGivenUp
<1> QED
  BY <1>8, <1>9, <1>10, <1>11 DEF DialFailed

----------------------------------------------------------------------------
(* A session begins to dial, and takes a socket over.                      *)

(* Before the request is known, no remote has received anything.           *)
LEMMA NothingWritten ==
  ASSUME IndInv, request = 0
  PROVE  \A s \in Socket : got[s] = <<>>
<1> SUFFICES ASSUME NEW s \in Socket, got[s] # <<>> PROVE FALSE
  OBVIOUS
<1>1. got[s] \in Seq(1..MaxChunks) /\ got[s][1] = 0
  BY DEF IndInv, TypeOK, Written
<1>2. got[s][1] \in 1..MaxChunks
  <2> DEFINE g == got[s]
  <2>1. g \in Seq(1..MaxChunks) /\ g # <<>>
    BY <1>1
  <2> HIDE DEF g
  <2>2. Len(g) # 0 /\ Len(g) \in Nat
    BY <2>1, EmptySeq
  <2>3. 1 \in 1..Len(g)
    BY <2>2
  <2>4. g[1] \in 1..MaxChunks
    BY <2>1, <2>3, ElementOfSeq
  <2> QED
    BY <2>4 DEF g
<1> QED
  BY <1>1, <1>2

(* The handshake is accepted.                                              *)
LEMMA HandshakeAcceptedStep ==
  ASSUME IndInv, HandshakeAccepted
  PROVE  IndInv'
<1>1. /\ Take /\ wrapper.socket = NoSocket /\ request = 0
      /\ request' = taken' /\ sink' = [sink EXCEPT !.pc = "dial"]
      /\ \/ StartDial("upstream", "sink", observer)
         \/ StartDial("direct", "sink", NewObserver)
  BY DEF HandshakeAccepted
<1>2. /\ sink.pc = "ready" /\ taken < arrived /\ taken' = taken + 1 /\ idleTimer' = TRUE
      /\ UNCHANGED <<mode, arrived, maxSessionTimer, wrapper, hooked, pump, got, heard, adoptedIn>>
  BY <1>1 DEF Take, history
<1>3. /\ ~Taken /\ ~Dialling /\ pump.pc = "none" /\ ~pump.hasData /\ dial.by = "sink"
      /\ observer = None
  BY <1>1 DEF Taken, IndInv, Phases, Observed, TypeOK
<1>4. /\ arrived \in Nat /\ taken \in Nat /\ arrived \in 0..MaxChunks
      /\ taken' \in 0..arrived /\ request' \in 0..taken' /\ request' # 0
  <2>1. arrived \in 0..MaxChunks /\ taken \in 0..arrived /\ MaxChunks \in Nat
    BY TunnelAssumption DEF IndInv, TypeOK
  <2>2. arrived \in Nat /\ taken \in Nat
    BY <2>1
  <2> QED
    BY <1>1, <1>2, <2>1, <2>2
<1>5. PICK stage \in {"upstream", "direct"} :
        /\ dial' = [stage |-> stage, by |-> "sink", pc |-> "race", winner |-> NoSocket]
        /\ sock' = [s \in Socket |-> IF StageOf(s) = stage THEN "dialing" ELSE sock[s]]
        /\ observer' = None \/ (observer' = NewObserver /\ stage = "direct")
        /\ ws' = ws
  BY <1>1, <1>3 DEF StartDial
<1>6. sock' \in [Socket -> SockState]
  BY <1>5 DEF IndInv, TypeOK, SockState
<1>7. /\ dial' \in [stage : Stage, by : {"sink", "retry"},
                    pc : {"none", "race", "write", "failed"},
                    winner : Socket \cup {NoSocket}]
      /\ dial'.stage = stage /\ dial'.by = "sink" /\ dial'.pc = "race"
  BY <1>5 DEF Stage
<1>8. Dialling' /\ ~Taken'
  BY <1>1, <1>2, <1>7 DEF Dialling, Taken
<1>9. /\ sink' \in [pc : {"ready", "dial", "write", "dead"}, to : Socket \cup {NoSocket}]
      /\ sink'.pc = "dial"
  BY <1>1 DEF IndInv, TypeOK
<1>10. /\ ObserverOK(observer') /\ ~observer'.timer
       /\ \A v : ~Says(observer', v)
       /\ observer'.terminal \/ stage = "direct"
  <2>1. <<>> \in Seq(Event) /\ DOMAIN <<>> = {}
    OBVIOUS
  <2>2. observer' \in Observer /\ observer'.log = <<>> /\ ~observer'.timer
    <3>1. NewObserver \in Observer /\ NewObserver.log = <<>> /\ ~NewObserver.timer
      BY <2>1 DEF NewObserver, Observer
    <3>2. None \in Observer /\ None.log = <<>> /\ ~None.timer
      BY <3>1 DEF None, Observer
    <3> QED
      BY <1>5, <3>1, <3>2
  <2>3. Verdicts(observer') = {} /\ \A v : ~Says(observer', v)
    BY <2>1, <2>2 DEF Verdicts, Says
  <2>4. observer'.terminal \/ stage = "direct"
    BY <1>5 DEF None, NewObserver
  <2> QED
    BY <2>2, <2>3, <2>4 DEF ObserverOK
<1>11. TypeOK'
  BY <1>2, <1>4, <1>5, <1>6, <1>7, <1>9, <1>10
    DEF IndInv, TypeOK, SockState, ReadyState, ObserverOK
<1>12. Phases'
  BY <1>1, <1>2, <1>3, <1>4, <1>7, <1>8, <1>9 DEF IndInv, Phases
<1>13. SinkWaits'
  BY <1>1, <1>7, <1>8, <1>9 DEF SinkWaits
<1>14. OpenInUse'
  <2>1. ASSUME NEW s \in Socket, sock'[s] = "open"
        PROVE  FALSE
    <3>1. sock[s] = "open"
      BY <1>5, <2>1
    <3> QED
      BY <1>1, <1>3, <2>1, <3>1, TunnelAssumption DEF IndInv, OpenInUse, Dialling
  <2>2. ~maxSessionTimer' => ws' # "open"
    BY <1>2, <1>5 DEF IndInv, OpenInUse
  <2> QED
    BY <2>1, <2>2 DEF OpenInUse
<1>15. AdoptedOpened'
  BY <1>8 DEF AdoptedOpened
<1>16. Written'
  <2>1. \A s \in Socket : got'[s] = <<>>
    BY <1>1, <1>2, NothingWritten
  <2> QED
    BY <1>8, <2>1 DEF Written
<1>17. Heard'
  BY <1>2, <1>8 DEF IndInv, Heard
<1>18. Observed'
  BY <1>2, <1>3, <1>4, <1>7, <1>8, <1>10 DEF Observed
<1> QED
  BY <1>11, <1>12, <1>13, <1>14, <1>15, <1>16, <1>17, <1>18 DEF IndInv

(* The first candidate opens.                                              *)
LEMMA WinnerStep ==
  ASSUME IndInv, NEW s \in Socket, DialOpens(s), Racing(s)
  PROVE  IndInv'
<1>1. /\ sock[s] = "dialing" /\ sock' = [sock EXCEPT ![s] = "open"]
      /\ dial.pc = "race" /\ StageOf(s) = dial.stage
      /\ dial' = [dial EXCEPT !.pc = "write", !.winner = s]
      /\ UNCHANGED <<mode, ws, arrived, taken, request, sink, idleTimer, maxSessionTimer, wrapper,
                     hooked, pump, observer, got, heard, adoptedIn>>
  BY DEF DialOpens, Racing, client, timers, history
<1>2. /\ sock' \in [Socket -> SockState] /\ sock'[s] = "open"
      /\ \A t \in Socket : t # s => sock'[t] = sock[t]
  BY <1>1 DEF IndInv, TypeOK, SockState
<1>3. /\ dial' \in [stage : Stage, by : {"sink", "retry"},
                    pc : {"none", "race", "write", "failed"},
                    winner : Socket \cup {NoSocket}]
      /\ dial'.stage = dial.stage /\ dial'.by = dial.by /\ dial'.pc = "write"
      /\ dial'.winner = s
  BY <1>1 DEF IndInv, TypeOK
<1>4. s \in Candidates(dial.stage)
  BY <1>1, SocketFacts
<1>5. Dialling /\ Dialling' /\ (Taken' <=> Taken)
  BY <1>1, <1>3 DEF Dialling, Taken
<1>6. Taken => /\ wrapper.socket \in Socket /\ wrapper.socket # s
               /\ sock'[wrapper.socket] = sock[wrapper.socket]
  <2>1. Taken => wrapper.socket \in Socket
    BY DEF IndInv, TypeOK, Taken
  <2>2. Taken => wrapper.socket # s
    BY <1>1 DEF IndInv, AdoptedOpened
  <2> QED
    BY <1>2, <2>1, <2>2
<1>7. TypeOK'
  BY <1>1, <1>2, <1>3 DEF IndInv, TypeOK, SockState
<1>8. Phases'
  BY <1>1, <1>3, <1>4, <1>5 DEF IndInv, Phases
<1>9. SinkWaits'
  BY <1>1, <1>3, <1>5 DEF IndInv, SinkWaits
<1>10. OpenInUse'
  BY <1>1, <1>2, <1>3 DEF IndInv, OpenInUse
<1>11. AdoptedOpened'
  BY <1>1, <1>5, <1>6 DEF IndInv, AdoptedOpened
<1>12. Written'
  BY <1>1, <1>3, <1>5, <1>6 DEF IndInv, Written
<1>13. Heard'
  BY <1>1, <1>5 DEF IndInv, Heard
<1>14. Observed'
  <2>1. \A t \in Direct : sock[t] = "ended" => sock'[t] = "ended"
    BY <1>1, <1>2, SocketFacts
  <2> QED
    BY <1>1, <1>3, <1>5, <1>6, <2>1 DEF IndInv, Observed
<1> QED
  BY <1>7, <1>8, <1>9, <1>10, <1>11, <1>12, <1>13, <1>14 DEF IndInv

(* What a socket receives is appended, if it is still open.                *)
LEMMA ReceiveEffect ==
  ASSUME IndInv, NEW s \in Socket, NEW n \in 1..MaxChunks, Receive(s, n)
  PROVE  /\ got' \in [Socket -> Seq(1..MaxChunks)]
         /\ \A t \in Socket : t # s \/ sock[s] # "open" => got'[t] = got[t]
         /\ Len(got[s]) \in Nat /\ DOMAIN got[s] = 1..Len(got[s])
         /\ sock[s] = "open" =>
              /\ got'[s] # <<>> /\ Len(got'[s]) = Len(got[s]) + 1
              /\ DOMAIN got'[s] = 1..(Len(got[s]) + 1)
              /\ got'[s][Len(got[s]) + 1] = n
              /\ \A i \in 1..Len(got[s]) : got'[s][i] = got[s][i]
<1> DEFINE g == got[s]
           t == Append(g, n)
<1>1. got \in [Socket -> Seq(1..MaxChunks)]
  BY DEF IndInv, TypeOK
<1>2. g \in Seq(1..MaxChunks)
  BY <1>1
<1>3. got' = IF sock[s] = "open" THEN [got EXCEPT ![s] = t] ELSE got
  BY DEF Receive
<1> HIDE DEF g
<1>4. /\ t \in Seq(1..MaxChunks) /\ Len(g) \in Nat /\ DOMAIN g = 1..Len(g)
      /\ Len(t) = Len(g) + 1 /\ DOMAIN t = 1..(Len(g) + 1)
      /\ t[Len(g) + 1] = n /\ \A i \in 1..Len(g) : t[i] = g[i]
  BY <1>2
<1> HIDE DEF t
<1>5. t # <<>>
  BY <1>4
<1>6. CASE sock[s] = "open"
  <2>1. /\ got' \in [Socket -> Seq(1..MaxChunks)] /\ got'[s] = t
        /\ \A u \in Socket : u # s => got'[u] = got[u]
    BY <1>1, <1>3, <1>4, <1>6
  <2> QED
    BY <1>4, <1>5, <1>6, <2>1 DEF g
<1>7. CASE sock[s] # "open"
  BY <1>1, <1>3, <1>4, <1>7 DEF g
<1> QED
  BY <1>6, <1>7

(* The first payload is written, and the session takes the socket over.    *)
LEMMA AdoptStep ==
  ASSUME IndInv, Adopt
  PROVE  IndInv'
<1> DEFINE s == dial.winner
           direct == dial.stage = "direct"
<1>1. /\ dial.pc = "write" /\ sock[s] \in {"open", "ended"} /\ Receive(s, request)
      /\ dial' = [NoDial EXCEPT !.by = dial.by]
      /\ sink' = IF dial.by = "sink" THEN Ready ELSE sink
      /\ wrapper' = [socket |-> s, observed |-> direct]
      /\ hooked' = hooked \cup {s}
      /\ pump' = [socket |-> s, hasData |-> FALSE, header |-> TRUE,
                  retry |-> direct /\ mode.proxyIP, pc |-> "run"]
      /\ \E byteLength \in {0, 1} :
           observer' = IF direct THEN ClientData(OpenOk(observer), byteLength)
                                 ELSE observer
      /\ adoptedIn' = ws
      /\ UNCHANGED <<mode, ws, arrived, taken, request, idleTimer, maxSessionTimer, sock, heard>>
  BY DEF Adopt, DialDone, client, timers
<1>2. /\ Dialling /\ request # 0 /\ pump.pc \in {"none", "done"} /\ ~pump.hasData
      /\ dial.by \in {"sink", "retry"} /\ dial.stage \in Stage /\ s \in Candidates(dial.stage)
      /\ dial.by = "sink" => sink.pc = "dial" /\ ~Taken
      /\ dial.by = "retry" => /\ ~direct /\ wrapper.socket \in Direct
                              /\ Taken
  BY <1>1 DEF IndInv, Phases, Dialling, TypeOK
<1>3. /\ s \in Socket /\ s # NoSocket /\ (s \in Direct <=> direct)
  BY <1>2, SocketFacts
<1>4. dial.by = "sink" => wrapper.socket = NoSocket
  BY <1>2 DEF Taken
<1>5. /\ request \in 1..MaxChunks /\ request \in Nat /\ taken \in Nat
      /\ dial.by = "sink" => taken = request
  <2>1. /\ MaxChunks \in Nat /\ arrived \in 0..MaxChunks /\ taken \in 0..arrived
        /\ request \in 0..taken
    BY TunnelAssumption DEF IndInv, TypeOK
  <2> QED
    BY <1>2, <2>1 DEF IndInv, SinkWaits
<1> HIDE DEF s, direct
<1>6. got[s] = <<>>
  <2>1. s # wrapper.socket
    BY <1>2, <1>3, <1>4
  <2>2. ~(s \in Direct /\ dial.by = "retry")
    BY <1>2, <1>3
  <2> QED
    BY <1>3, <2>1, <2>2 DEF IndInv, Written
<1>7. /\ got' \in [Socket -> Seq(1..MaxChunks)]
      /\ \A t \in Socket : t # s => got'[t] = got[t]
      /\ sock[s] # "open" => got'[s] = <<>>
      /\ sock[s] = "open" => /\ got'[s] # <<>> /\ Len(got'[s]) = 1
                             /\ DOMAIN got'[s] = 1..1 /\ got'[s][1] = request
  <2> DEFINE n == Len(got[s])
  <2>1. n = 0
    BY <1>6
  <2>2. /\ got' \in [Socket -> Seq(1..MaxChunks)]
        /\ \A t \in Socket : t # s \/ sock[s] # "open" => got'[t] = got[t]
        /\ sock[s] = "open" =>
             /\ got'[s] # <<>> /\ Len(got'[s]) = n + 1
             /\ DOMAIN got'[s] = 1..(n + 1) /\ got'[s][n + 1] = request
    BY <1>1, <1>3, <1>5, ReceiveEffect
  <2> HIDE DEF n
  <2>3. n + 1 = 1
    BY <2>1
  <2> QED
    BY <1>3, <1>6, <2>2, <2>3
<1>8. /\ dial' \in [stage : Stage, by : {"sink", "retry"},
                    pc : {"none", "race", "write", "failed"},
                    winner : Socket \cup {NoSocket}]
      /\ dial'.by = dial.by /\ dial'.pc = "none"
  BY <1>1, <1>2 DEF NoDial, Stage
<1>9. /\ sink' \in [pc : {"ready", "dial", "write", "dead"}, to : Socket \cup {NoSocket}]
      /\ dial.by = "sink" => sink' = Ready /\ sink'.pc = "ready"
      /\ dial.by = "retry" => sink' = sink
  BY <1>1, <1>2 DEF IndInv, TypeOK, Ready
<1>10. /\ wrapper' \in [socket : Socket \cup {NoSocket}, observed : BOOLEAN]
       /\ wrapper'.socket = s /\ (wrapper'.observed <=> direct)
  BY <1>1, <1>3 DEF direct
<1>11. /\ pump' \in [socket : Socket \cup {NoSocket}, hasData : BOOLEAN,
                     header : BOOLEAN, retry : BOOLEAN, pc : PumpPc]
       /\ pump'.socket = s /\ ~pump'.hasData /\ pump'.header /\ pump'.pc = "run"
       /\ pump'.retry => direct
  <2>1. (direct /\ mode.proxyIP) \in BOOLEAN
    OBVIOUS
  <2> DEFINE retry == direct /\ mode.proxyIP
  <2>2. retry => direct
    OBVIOUS
  <2>3. retry \in BOOLEAN /\ pump' = [socket |-> s, hasData |-> FALSE, header |-> TRUE,
                                      retry |-> retry, pc |-> "run"]
    BY <1>1, <2>1
  <2> HIDE DEF retry
  <2> QED
    BY <1>3, <2>2, <2>3 DEF PumpPc
<1>12. ~Dialling' /\ Taken'
  BY <1>3, <1>8, <1>10 DEF Dialling, Taken
<1>13. /\ ObserverOK(observer') /\ (observer'.terminal <=> observer.terminal)
       /\ \A v \in Verdict : Says(observer', v) => Says(observer, v)
  <2>1. ObserverOK(observer)
    BY DEF IndInv, Observed
  <2>2. PICK n \in {0, 1} : observer' = IF direct THEN ClientData(OpenOk(observer), n)
                                                  ELSE observer
    BY <1>1
  <2>3. /\ ObserverOK(OpenOk(observer)) /\ (OpenOk(observer).terminal <=> observer.terminal)
        /\ \A v \in Verdict : Says(OpenOk(observer), v) => Says(observer, v)
    BY <2>1, OpenOkOK
  <2>4. /\ ObserverOK(ClientData(OpenOk(observer), n))
        /\ ClientData(OpenOk(observer), n).terminal <=> OpenOk(observer).terminal
        /\ \A v : Says(ClientData(OpenOk(observer), n), v) => Says(OpenOk(observer), v)
    BY <2>3, ClientDataOK
  <2> QED
    BY <2>1, <2>2, <2>3, <2>4
<1>14. TypeOK'
  <2>1. ws \in ReadyState /\ hooked' \subseteq Socket
    BY <1>1, <1>3 DEF IndInv, TypeOK
  <2> QED
    BY <1>1, <1>7, <1>8, <1>9, <1>10, <1>11, <1>13, <2>1 DEF IndInv, TypeOK, PumpPc, ObserverOK
<1>15. Phases'
  BY <1>1, <1>2, <1>3, <1>8, <1>10, <1>11, <1>12 DEF IndInv, Phases
<1>16. SinkWaits'
  <2>1. dial.by = "retry" => sink.pc # "dial"
    BY DEF IndInv, SinkWaits
  <2>2. dial.by = "retry" /\ sink.pc = "write" => sink.to \in Direct
    BY <1>2 DEF IndInv, SinkWaits
  <2>3. sink.pc = "ready" => sink = Ready
    BY DEF IndInv, SinkWaits
  <2> QED
    BY <1>2, <1>8, <1>9, <1>12, <2>1, <2>2, <2>3 DEF SinkWaits
<1>17. OpenInUse'
  <2>1. ~maxSessionTimer => ws # "open"
    BY DEF IndInv, OpenInUse
  <2>2. ASSUME NEW t \in Socket, sock[t] = "open", t # s
        PROVE  FALSE
    <3>1. t = wrapper.socket
      BY <2>2 DEF IndInv, OpenInUse, s
    <3>2. dial.by = "retry" /\ Taken
      BY <1>2, <1>4, <2>2, <3>1, TunnelAssumption
    <3>3. pump.pc = "done"
      BY <1>2, <3>2 DEF IndInv, Phases
    <3> QED
      BY <1>2, <2>2, <3>1, <3>2, <3>3 DEF IndInv, AdoptedOpened
  <2> QED
    BY <1>1, <1>10, <2>1, <2>2 DEF OpenInUse
<1>18. AdoptedOpened'
  BY <1>1, <1>10, <1>11 DEF AdoptedOpened
<1>19. Written'
  <2>1. ASSUME NEW t \in Socket, got'[t] # <<>>
        PROVE  /\ got'[t][1] = request
               /\ t = s \/ (t \in Direct /\ dial.by = "retry")
               /\ dial.by = "sink" => \A i \in DOMAIN got'[t] : got'[t][i] = request + i - 1
    <3>1. CASE t = s
      <4>1. got'[t][1] = request /\ DOMAIN got'[t] = 1..1
        BY <1>7, <2>1, <3>1
      <4>2. \A i \in 1..1 : i = 1
        OBVIOUS
      <4>3. request = request + 1 - 1
        BY <1>5
      <4> QED
        BY <3>1, <4>1, <4>2, <4>3
    <3>2. CASE t # s
      <4>1. got'[t] = got[t]
        BY <1>7, <3>2
      <4>2. got[t][1] = request /\ (t = wrapper.socket \/ (t \in Direct /\ dial.by = "retry"))
        BY <2>1, <4>1 DEF IndInv, Written
      <4>3. dial.by = "retry"
        BY <1>2, <1>4, <4>2, TunnelAssumption
      <4> QED
        BY <1>2, <4>1, <4>2, <4>3
    <3> QED
      BY <3>1, <3>2
  <2>2. sock[s] = "open" /\ dial.by = "sink" => Len(got'[s]) = taken - request + 1
    <3>1. dial.by = "sink" => taken - request + 1 = 1
      BY <1>5
    <3> QED
      BY <1>7, <3>1
  <2>3. sock[s] = "open" => got'[s] # <<>>
    BY <1>7
  <2> QED
    BY <1>1, <1>8, <1>9, <1>10, <2>1, <2>2, <2>3 DEF Written
<1>20. Heard'
  <2>1. heard = <<>> /\ DOMAIN <<>> = {}
    BY <1>2 DEF IndInv, Heard
  <2> QED
    BY <1>1, <1>11, <2>1 DEF Heard
<1>21. Observed'
  <2>1. ~observer'.terminal => direct
    BY <1>2, <1>13 DEF IndInv, Observed, direct
  <2>2. ~Says(observer', "direct_first_byte_ok")
    BY <1>2, <1>13 DEF IndInv, Observed, Verdict
  <2>3. Says(observer', "direct_closed_before_byte") => \E t \in Direct : sock[t] = "ended"
    BY <1>13 DEF IndInv, Observed, Verdict
  <2>4. Says(observer', "direct_open_error") => ~direct
    BY <1>2, <1>13 DEF IndInv, Observed, Verdict, direct
  <2> QED
    BY <1>1, <1>2, <1>3, <1>10, <1>11, <1>12, <1>13, <2>1, <2>2, <2>3, <2>4 DEF Observed
<1> QED
  BY <1>14, <1>15, <1>16, <1>17, <1>18, <1>19, <1>20, <1>21 DEF IndInv

(* A message is handed to the remote.                                      *)
LEMMA RelayDoneStep ==
  ASSUME IndInv, RelayDone
  PROVE  IndInv'
<1> DEFINE s == sink.to
           w == wrapper.socket
<1>1. /\ sink.pc = "write" /\ sock[s] \in {"open", "ended"} /\ Receive(s, taken)
      /\ sink' = Ready
      /\ observer' = IF wrapper.observed THEN ClientData(observer, 1) ELSE observer
      /\ UNCHANGED <<mode, ws, arrived, taken, request, idleTimer, maxSessionTimer, wrapper,
                     dial, sock, hooked, pump, heard, adoptedIn>>
  BY DEF RelayDone, client, timers
<1>2. /\ Taken /\ w \in Socket /\ request # 0
      /\ s = w \/ (s \in Direct /\ dial.by = "retry")
      /\ dial.by \in {"sink", "retry"}
      /\ Dialling => dial.by = "retry"
      /\ dial.by = "retry" /\ dial.pc = "write" => dial.winner \notin Direct /\ w \in Direct
  <2>1. Taken /\ (s = w \/ (s \in Direct /\ dial.by = "retry"))
    BY <1>1 DEF IndInv, SinkWaits
  <2>2. w \in Socket /\ request # 0 /\ dial.by \in {"sink", "retry"}
    BY <2>1 DEF IndInv, Phases, TypeOK, Taken
  <2>3. Dialling => dial.by = "retry"
    BY <1>1, <2>2 DEF IndInv, Phases
  <2>4. ASSUME dial.by = "retry", dial.pc = "write"
        PROVE  dial.winner \notin Direct /\ w \in Direct
    <3>1. /\ dial.stage \in {"proxy", "fallback"} /\ w \in Direct
          /\ dial.winner \in Candidates(dial.stage) /\ dial.stage \in Stage
      BY <2>4 DEF IndInv, Phases, Dialling, TypeOK
    <3>2. dial.winner \in Socket /\ StageOf(dial.winner) = dial.stage
      BY <3>1, SocketFacts
    <3> QED
      BY <3>1, <3>2, SocketFacts
  <2> QED
    BY <2>1, <2>2, <2>3, <2>4
<1>3. s \in Socket
  BY <1>2, SocketFacts
<1>4. taken \in 1..MaxChunks /\ taken \in Nat /\ request \in Nat
  <2>1. /\ MaxChunks \in Nat /\ arrived \in 0..MaxChunks /\ taken \in 0..arrived
        /\ request \in 0..taken
    BY TunnelAssumption DEF IndInv, TypeOK
  <2> QED
    BY <1>2, <2>1
<1>5. sock[s] = "open" => s = w
  <2> SUFFICES ASSUME sock[s] = "open", s # w
               PROVE  FALSE
    OBVIOUS
  <2>1. s \in Direct /\ dial.by = "retry"
    BY <1>2
  <2>2. dial.pc = "write" /\ s = dial.winner
    BY <1>3 DEF IndInv, OpenInUse
  <2> QED
    BY <1>2, <2>1, <2>2
<1> HIDE DEF s, w
<1>6. /\ got' \in [Socket -> Seq(1..MaxChunks)]
      /\ \A t \in Socket : t # s \/ sock[s] # "open" => got'[t] = got[t]
      /\ Len(got[s]) \in Nat /\ DOMAIN got[s] = 1..Len(got[s])
      /\ sock[s] = "open" =>
           /\ got'[s] # <<>> /\ Len(got'[s]) = Len(got[s]) + 1
           /\ DOMAIN got'[s] = 1..(Len(got[s]) + 1)
           /\ got'[s][Len(got[s]) + 1] = taken
           /\ \A i \in 1..Len(got[s]) : got'[s][i] = got[s][i]
  BY <1>1, <1>3, <1>4, ReceiveEffect
<1>7. (Taken' <=> Taken) /\ (Dialling' <=> Dialling)
  BY <1>1 DEF Taken, Dialling
<1>8. /\ sink' \in [pc : {"ready", "dial", "write", "dead"}, to : Socket \cup {NoSocket}]
      /\ sink'.pc = "ready"
  BY <1>1 DEF Ready
<1>9. /\ ObserverOK(observer') /\ (observer'.terminal <=> observer.terminal)
      /\ \A v : Says(observer', v) => Says(observer, v)
  <2>1. ObserverOK(observer)
    BY DEF IndInv, Observed
  <2> QED
    BY <1>1, <2>1, ClientDataOK
<1>10. NoneOpened
  BY <1>1 DEF NoneOpened
<1>11. TypeOK'
  BY <1>1, <1>6, <1>8, <1>9 DEF IndInv, TypeOK, ObserverOK
<1>12. Phases'
  BY <1>1, <1>2, <1>7 DEF IndInv, Phases
<1>13. SinkWaits'
  BY <1>1, <1>8 DEF SinkWaits
<1>14. OpenInUse'
  BY <1>1, <1>10, OpenFrame
<1>15. AdoptedOpened'
  BY <1>1, <1>10, AdoptedFrame
<1>16. Written'
  <2>1. \A t \in Socket : got[t] # <<>> =>
          /\ got[t][1] = request
          /\ t = w \/ (t \in Direct /\ dial.by = "retry")
          /\ dial.by = "sink" => \A i \in DOMAIN got[t] : got[t][i] = request + i - 1
    BY DEF IndInv, Written, w
  <2>2. sock[w] = "open" => got[w] # <<>>
    BY <1>2 DEF IndInv, Written, w
  <2>3. sock[w] = "open" /\ dial.by = "sink" => Len(got[w]) = taken - request
    BY <1>1, <1>2 DEF IndInv, Written, w
  <2>4. CASE sock[s] # "open"
    <3>1. \A t \in Socket : got'[t] = got[t]
      BY <1>6, <2>4
    <3>2. ~(sock[w] = "open" /\ dial.by = "sink")
      BY <1>2, <2>4
    <3>3. \A t \in Socket : got'[t] # <<>> =>
            /\ got'[t][1] = request
            /\ t = w \/ (t \in Direct /\ dial.by = "retry")
            /\ dial.by = "sink" => \A i \in DOMAIN got'[t] : got'[t][i] = request + i - 1
      BY <2>1, <3>1
    <3>4. sock[w] = "open" => got'[w] # <<>>
      BY <1>2, <2>2, <3>1
    <3> QED
      BY <1>1, <3>2, <3>3, <3>4 DEF Written, w
  <2>5. CASE sock[s] = "open"
    <3>1. s = w /\ got[w] # <<>>
      BY <1>5, <2>2, <2>5
    <3> DEFINE n == Len(got[w])
    <3>2. /\ n \in Nat /\ n # 0 /\ DOMAIN got[w] = 1..n
          /\ got'[w] # <<>> /\ Len(got'[w]) = n + 1 /\ DOMAIN got'[w] = 1..(n + 1)
          /\ got'[w][n + 1] = taken /\ \A i \in 1..n : got'[w][i] = got[w][i]
      <4>1. got[w] \in Seq(1..MaxChunks)
        BY <1>2 DEF IndInv, TypeOK, w
      <4>2. n # 0
        BY <3>1, <4>1, EmptySeq
      <4> QED
        BY <1>6, <2>5, <3>1, <4>2
    <3>3. dial.by = "sink" => n = taken - request
      BY <2>3, <2>5, <3>1
    <3> HIDE DEF n
    <3>4. got'[w][1] = request
      BY <1>2, <2>1, <3>1, <3>2 DEF w
    <3>5. ASSUME dial.by = "sink", NEW i \in 1..(n + 1)
          PROVE  got'[w][i] = request + i - 1
      <4>1. CASE i \in 1..n
        BY <1>2, <2>1, <3>1, <3>2, <3>5, <4>1
      <4>2. CASE i = n + 1
        <5>1. request + i - 1 = taken
          BY <1>4, <3>2, <3>3, <3>5, <4>2
        <5> QED
          BY <3>2, <4>2, <5>1
      <4> QED
        BY <3>2, <4>1, <4>2
    <3>6. dial.by = "sink" => Len(got'[w]) = taken - request + 1
      <4>1. dial.by = "sink" => n + 1 = taken - request + 1
        BY <3>3
      <4> QED
        BY <3>2, <4>1
    <3>7. \A t \in Socket : t # w => got'[t] = got[t]
      BY <1>6, <3>1
    <3>8. \A t \in Socket : got'[t] # <<>> =>
            /\ got'[t][1] = request
            /\ t = w \/ (t \in Direct /\ dial.by = "retry")
            /\ dial.by = "sink" => \A i \in DOMAIN got'[t] : got'[t][i] = request + i - 1
      BY <2>1, <3>2, <3>4, <3>5, <3>7
    <3> QED
      BY <1>1, <1>8, <3>2, <3>6, <3>8 DEF Written, w
  <2> QED
    BY <2>4, <2>5
<1>17. Heard'
  BY <1>1, <1>7 DEF IndInv, Heard
<1>18. Observed'
  BY <1>1, <1>2, <1>7, <1>9, <1>10, ObservedFrame DEF IndInv, Observed
<1> QED
  BY <1>11, <1>12, <1>13, <1>14, <1>15, <1>16, <1>17, <1>18 DEF IndInv

----------------------------------------------------------------------------
(* A session begins with a handshake to come.                              *)
LEMMA InitOK == Init => IndInv
<1> SUFFICES ASSUME Init PROVE IndInv
  OBVIOUS
<1>1. <<>> \in Seq(Event) /\ <<>> \in Seq(1..MaxChunks) /\ DOMAIN <<>> = {}
      /\ <<>> \in Seq([from : Socket, header : BOOLEAN])
  OBVIOUS
<1>2. NoSocket \notin Direct
  BY SocketFacts
<1>3. None \in Observer /\ None.terminal /\ ~None.timer /\ None.log = <<>>
  <2>1. NewObserver \in Observer /\ ~NewObserver.timer /\ NewObserver.log = <<>>
    BY <1>1 DEF NewObserver, Observer
  <2> QED
    BY <2>1 DEF None, Observer
<1>4. ObserverOK(observer) /\ \A v : ~Says(observer, v)
  BY <1>1, <1>3 DEF Init, ObserverOK, Verdicts, Says
<1>5. TypeOK
  <2>1. 0 \in 0..MaxChunks /\ 0 \in 0..0
    BY TunnelAssumption
  <2>2. /\ dial \in [stage : Stage, by : {"sink", "retry"},
                     pc : {"none", "race", "write", "failed"},
                     winner : Socket \cup {NoSocket}]
        /\ sink \in [pc : {"ready", "dial", "write", "dead"}, to : Socket \cup {NoSocket}]
    BY DEF Init, NoDial, Ready, Stage
  <2>3. /\ wrapper \in [socket : Socket \cup {NoSocket}, observed : BOOLEAN]
        /\ pump \in [socket : Socket \cup {NoSocket}, hasData : BOOLEAN,
                     header : BOOLEAN, retry : BOOLEAN,
                     pc : {"none", "run", "ended", "done"}]
    BY DEF Init
  <2>4. /\ got \in [Socket -> Seq(1..MaxChunks)]
        /\ sock \in [Socket -> {"none", "dialing", "open", "ended", "closed"}]
    BY <1>1 DEF Init
  <2> QED
    BY <1>1, <1>3, <2>1, <2>2, <2>3, <2>4 DEF Init, TypeOK, ReadyState
<1>6. Phases /\ SinkWaits /\ OpenInUse /\ AdoptedOpened /\ Written /\ Heard
  <2>1. ~Taken /\ ~Dialling
    BY DEF Init, Taken, Dialling, NoDial
  <2>2. Phases
    BY <1>2, <2>1 DEF Init, Phases, NoDial
  <2>3. SinkWaits
    BY DEF Init, SinkWaits, Ready
  <2>4. OpenInUse /\ AdoptedOpened
    BY <2>1 DEF Init, OpenInUse, AdoptedOpened
  <2>5. Written /\ Heard
    BY <1>1, <2>1 DEF Init, Written, Heard
  <2> QED
    BY <2>2, <2>3, <2>4, <2>5
<1>7. Observed
  <2>1. ~Taken
    BY DEF Init, Taken
  <2> QED
    BY <1>3, <1>4, <2>1 DEF Init, Observed
<1> QED
  BY <1>5, <1>6, <1>7 DEF IndInv

(* Doing nothing disturbs nothing.                                         *)
LEMMA StutterOK == IndInv /\ UNCHANGED vars => IndInv'
<1> SUFFICES ASSUME IndInv, UNCHANGED vars PROVE IndInv'
  OBVIOUS
<1> USE DEF vars, client, timers, history
<1>1. UNCHANGED <<mode, ws, arrived, taken, sink, request, idleTimer, maxSessionTimer, wrapper,
                  dial, sock, hooked, pump, observer, got, heard, adoptedIn>>
  OBVIOUS
<1>2. (Taken' <=> Taken) /\ (Dialling' <=> Dialling)
  BY <1>1 DEF Taken, Dialling
<1>3. TypeOK' /\ Phases' /\ SinkWaits'
  BY <1>1, <1>2 DEF IndInv, TypeOK, Phases, SinkWaits
<1>4. OpenInUse' /\ AdoptedOpened' /\ Heard'
  BY <1>1, <1>2 DEF IndInv, OpenInUse, AdoptedOpened, Heard
<1>5. Written' /\ Observed'
  BY <1>1, <1>2 DEF IndInv, Written, Observed
<1> QED
  BY <1>3, <1>4, <1>5 DEF IndInv

(* Every step keeps the invariant.                                         *)
LEMMA StepOK == IndInv /\ [Next]_vars => IndInv'
<1> SUFFICES ASSUME IndInv, [Next]_vars PROVE IndInv'
  OBVIOUS
<1>1. CASE CloseEvent \/ IdleTimeout \/ MaxSessionTimeout
  BY <1>1, EndingSteps
<1>2. CASE FirstByteTimeout
  BY <1>2, WaitingSteps
<1>3. CASE \/ ClientSends \/ HandshakeNeedsMore \/ HandshakeRejected
           \/ RelayStarts \/ RelayFails
  BY <1>3, ClientSteps
<1>4. CASE HandshakeAccepted
  BY <1>4, HandshakeAcceptedStep
<1>5. CASE RelayDone
  BY <1>5, RelayDoneStep
<1>6. ASSUME NEW s \in Socket, DialOpens(s) \/ DialFails(s) \/ RemoteEnds(s) \/ ClosedHook(s)
      PROVE  IndInv'
  <2>1. CASE DialOpens(s) /\ Racing(s)
    BY <2>1, WinnerStep
  <2>2. CASE (DialOpens(s) /\ ~Racing(s)) \/ DialFails(s)
    BY <2>2, DialSteps
  <2>3. CASE RemoteEnds(s)
    BY <2>3, WaitingSteps
  <2>4. CASE ClosedHook(s)
    BY <2>4, EndingSteps
  <2> QED
    BY <1>6, <2>1, <2>2, <2>3, <2>4
<1>7. CASE Adopt
  BY <1>7, AdoptStep
<1>8. CASE FirstWriteFails
  BY <1>8, DialSteps
<1>9. CASE DialFailed
  BY <1>9, DialFailedStep
<1>10. CASE RemoteSends \/ PumpStops
  BY <1>10, RemoteSteps
<1>11. CASE PumpEnded
  BY <1>11, PumpEndedStep
<1>12. CASE UNCHANGED vars
  BY <1>12, StutterOK
<1> QED
  BY <1>1, <1>2, <1>3, <1>4, <1>5, <1>6, <1>7, <1>8, <1>9, <1>10, <1>11, <1>12 DEF Next

(* The invariant holds throughout.                                         *)
LEMMA Invariance == Spec => []IndInv
  BY InitOK, StepOK, PTL DEF Spec

(* What the four properties say follows from it.                           *)
LEMMA Consequences ==
  IndInv => OneRemoteAnswers /\ NoSocketForgotten /\ RequestReachesRemote /\ VerdictIsTrue
<1> SUFFICES ASSUME IndInv
             PROVE  OneRemoteAnswers /\ NoSocketForgotten /\ RequestReachesRemote
                    /\ VerdictIsTrue
  OBVIOUS
<1>1. OneRemoteAnswers
  <2>1. ASSUME NEW i \in DOMAIN heard
        PROVE  1 \in DOMAIN heard
    <3>1. heard \in Seq([from : Socket, header : BOOLEAN])
      BY DEF IndInv, TypeOK
    <3>2. DOMAIN heard = 1..Len(heard) /\ Len(heard) \in Nat
      BY <3>1
    <3> QED
      BY <2>1, <3>2
  <2> QED
    BY <2>1 DEF IndInv, Heard, OneRemoteAnswers
<1>2. NoSocketForgotten
  BY DEF IndInv, OpenInUse, NoSocketForgotten
<1>3. RequestReachesRemote
  <2>1. ASSUME NEW s \in Socket, got[s] # <<>>, dial.by = "sink"
        PROVE  /\ \A i \in DOMAIN got[s] : got[s][i] = request + i - 1
               /\ s = wrapper.socket /\ sock[s] = "open" /\ sink = Ready =>
                    Len(got[s]) = taken - request + 1
    <3>1. s = wrapper.socket => Taken
      BY TunnelAssumption DEF Taken
    <3>2. Ready.pc = "ready"
      BY DEF Ready
    <3> QED
      BY <2>1, <3>1, <3>2 DEF IndInv, Written
  <2> QED
    BY <2>1 DEF IndInv, Written, RequestReachesRemote
<1>4. VerdictIsTrue
  <2>1. observer.timer => (ws # "closed" \/ adoptedIn = "closed") /\ ~pump.hasData
    BY DEF IndInv, Observed, ObserverOK
  <2>2. pump.socket = wrapper.socket
    BY DEF IndInv, Phases
  <2> QED
    BY <2>1, <2>2 DEF IndInv, Observed, ObserverOK, VerdictIsTrue, Direct
<1> QED
  BY <1>1, <1>2, <1>3, <1>4

----------------------------------------------------------------------------
(* The variables of a session keep their types.                            *)
THEOREM TypeCorrect == Spec => []TypeOK
<1>1. IndInv => TypeOK
  BY DEF IndInv
<1> QED
  BY <1>1, Invariance, PTL

(* The client hears one remote, and its header once and first: a retry     *)
(* replaces a connection only while it has brought nothing.                *)
THEOREM OneRemote == Spec => []OneRemoteAnswers
  BY Consequences, Invariance, PTL

(* No socket stays open but the one in use: the losers of a race, a        *)
(* refused proxy and a connection replaced are closed, and so is the       *)
(* socket in use when the session ends.                                    *)
THEOREM SocketsClosed == Spec => []NoSocketForgotten
  BY Consequences, Invariance, PTL

(* A remote receives the request first and then, unless it was dialled in  *)
(* a retry, each message of the client in order.                           *)
THEOREM RequestDelivered == Spec => []RequestReachesRemote
  BY Consequences, Invariance, PTL

(* The observer's verdict is the only one and true.                        *)
THEOREM TrueVerdict == Spec => []VerdictIsTrue
  BY Consequences, Invariance, PTL

=============================================================================
