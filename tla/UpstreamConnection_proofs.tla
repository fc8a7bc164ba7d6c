--------------------- MODULE UpstreamConnection_proofs ---------------------
(***************************************************************************)
(* That an attempt with any upstream adapter lets go of its connections    *)
(* however it ends (UpstreamConnection refines Connector), that what the   *)
(* target says meanwhile is not lost, that an attempt fails only for a     *)
(* cause, and that the TCP inside the SSTP tunnel delivers every byte once.*)
(***************************************************************************)
EXTENDS UpstreamConnection, SstpRelay, SequenceTheorems, TLAPS

State == {"none", "opening", "open", "ended", "closed"}
Live == {"opening", "open", "ended"}
Trying == Opening \cup Reading

PlacesOK ==
  /\ phase \in Trying \cup Over \cup {"open"}
  /\ sock \in [Link -> State]

\* The end of an attempt or of its session leaves nothing open ...
NothingLeft == phase \in Over => \A l \in Link : sock[l] \notin Live

\* ... and the resolver's connection does not outlive its use.
ResolverLetGo ==
  phase \notin {"resolve", "query"} => sock["dns"] \notin Live

HeldInv == PlacesOK /\ NothingLeft /\ ResolverLetGo

----------------------------------------------------------------------------
(* What a step may do to the sockets.                                      *)

Ends == phase \notin Over /\ phase' \in Over /\ sock' = Dropped

Proceeds ==
  /\ phase \in Trying /\ phase' \in Trying
  /\ sock' \in [Link -> State]
  /\ sock'["dns"] \in Live => phase' \in {"resolve", "query"}

HandsOver ==
  /\ phase \in Trying \ {"resolve", "query"} /\ phase' = "open"
  /\ sock' = sock

Loses ==
  /\ phase' = phase
  /\ sock' \in [Link -> State]
  /\ \A l \in Link : sock'[l] \in Live => sock[l] \in Live

Allowed == Ends \/ Proceeds \/ HandsOver \/ Loses

ConnectorStep == C!Work \/ C!HandOver \/ C!LosePart \/ C!End

----------------------------------------------------------------------------
(* A step of each kind keeps the invariant and is a step of a Connector.   *)
LEMMA AllowedIsConnector ==
  HeldInv /\ Allowed => HeldInv' /\ [ConnectorStep]_<<Outcome, Held>>
<1> SUFFICES ASSUME HeldInv, Allowed
             PROVE  HeldInv' /\ [ConnectorStep]_<<Outcome, Held>>
  OBVIOUS
<1> USE DEF HeldInv, PlacesOK, NothingLeft, ResolverLetGo
<1>0. /\ Outcome \in {"trying", "open", "over"}
      /\ Outcome = "over" <=> phase \in Over
      /\ Outcome = "open" <=> phase = "open"
      /\ Outcome' = "over" <=> phase' \in Over
      /\ Outcome' = "open" <=> phase' = "open"
      /\ Outcome' \in {"trying", "open", "over"}
      /\ Held \subseteq Link /\ Held' \subseteq Link
  BY DEF Outcome, Held, Over, Trying, Opening, Reading
<1>1. CASE Ends
  <2>1. \A l \in Link : sock'[l] \in {"none", "closed"}
    BY <1>1 DEF Ends, Dropped
  <2>2. HeldInv'
    BY <1>1, <2>1 DEF Ends, Dropped, Live, State, Link, Over
  <2>3. Held' = {}
    BY <2>1 DEF Held
  <2>4. C!End
    BY <1>1, <1>0, <2>3 DEF C!End, Ends
  <2> QED
    BY <2>2, <2>4 DEF ConnectorStep
<1>2. CASE Proceeds
  <2>1. HeldInv'
    BY <1>2 DEF Proceeds, Trying, Opening, Reading, Over
  <2>2. Outcome = "trying" /\ Outcome' = "trying"
    BY <1>2, <1>0 DEF Proceeds, Trying, Opening, Reading, Over
  <2>3. C!Work
    BY <1>0, <2>2 DEF C!Work
  <2> QED
    BY <2>1, <2>3 DEF ConnectorStep
<1>3. CASE HandsOver
  <2>1. HeldInv'
    BY <1>3 DEF HandsOver, Trying, Over
  <2>2. Outcome = "trying" /\ Outcome' = "open"
    BY <1>3, <1>0 DEF HandsOver, Trying, Opening, Reading, Over
  <2>3. Held' = Held /\ Held \subseteq {"main", "data"}
    BY <1>3 DEF HandsOver, Held, Link, Live
  <2>4. C!HandOver
    BY <2>2, <2>3 DEF C!HandOver
  <2> QED
    BY <2>1, <2>4 DEF ConnectorStep
<1>4. CASE Loses
  <2>1. HeldInv'
    BY <1>4 DEF Loses, Link
  <2>2. Held' \subseteq Held /\ Outcome' = Outcome
    BY <1>4 DEF Loses, Held, Outcome, Live
  <2>3. CASE phase \in Over
    <3>1. Held = {}
      BY <2>3 DEF Held, Live
    <3> QED
      BY <2>1, <2>2, <3>1
  <2>4. CASE phase = "open"
    BY <2>1, <2>2, <2>4, <1>0 DEF ConnectorStep, C!LosePart
  <2>5. CASE phase \in Trying
    <3>1. Outcome = "trying"
      BY <2>5, <1>0 DEF Trying, Opening, Reading, Over
    <3> QED
      BY <2>1, <2>2, <3>1, <1>0 DEF ConnectorStep, C!Work
  <2> QED
    BY <2>3, <2>4, <2>5
<1> QED
  BY <1>1, <1>2, <1>3, <1>4 DEF Allowed

----------------------------------------------------------------------------
(* The steps of the code that end an attempt, whatever the reason.         *)
LEMMA FailEnds == \A why : phase \notin Over /\ Fail(why) => Allowed
  BY DEF Fail, Allowed, Ends, Over

(* A step to the next await that keeps the sockets.                        *)
LEMMA AdvanceProceeds ==
  ASSUME HeldInv, phase \in Trying,
         NEW next \in Trying \cup {"open"}, NEW rest, Advance(next, rest),
         next = "open" => phase \notin {"resolve", "query"},
         phase \in {"resolve", "query"} => next \in {"resolve", "query"}
  PROVE  Allowed
  BY DEF Advance, Allowed, Proceeds, HandsOver, HeldInv, PlacesOK,
         ResolverLetGo, Trying

(* The server's and the network's steps.                                   *)
LEMMA EnvironmentAllowed == HeldInv /\ Environment => Allowed
<1> SUFFICES ASSUME HeldInv, Environment PROVE Allowed
  OBVIOUS
<1> USE DEF HeldInv, PlacesOK
<1>1. ASSUME NEW l \in Link, SocketOpens(l) PROVE Allowed
  BY <1>1 DEF SocketOpens, Allowed, Loses, Live, State, Link
<1>2. ASSUME NEW l \in Link, SocketRefused(l) PROVE Allowed
  BY <1>2, FailEnds DEF SocketRefused, NothingLeft, Live
<1>3. ASSUME NEW l \in Link, ServerEnds(l) PROVE Allowed
  BY <1>3 DEF ServerEnds, Allowed, Loses, Live, State, Link
<1>4. ASSUME NEW l \in Link, Answer(l) PROVE Allowed
  BY <1>4 DEF Answer, Allowed, Loses
<1>5. CASE TargetSends
  BY <1>5 DEF TargetSends, Allowed, Loses
<1>6. CASE SessionCloses
  BY <1>6 DEF SessionCloses, Allowed, Ends, Over
<1>7. CASE DataSocketClosed
  BY <1>7 DEF DataSocketClosed, Allowed, Loses, Live, State, Link
<1>8. CASE SstpServer
  BY <1>8 DEF SstpServer, ServerAsksLcp, ServerAsksIpcp, ServerSendsNoise,
              ServerTakes, Allowed, Loses
<1> QED
  BY <1>1, <1>2, <1>3, <1>4, <1>5, <1>6, <1>7, <1>8 DEF Environment

(* SOCKS5 and CONNECT.                                                     *)
LEMMA SocksAllowed == HeldInv /\ SocksStep => Allowed
<1> SUFFICES ASSUME HeldInv, SocksStep PROVE Allowed
  OBVIOUS
<1> USE DEF Trying, Opening, Reading, Over
<1>1. CASE SocksMethods
  BY <1>1, FailEnds, AdvanceProceeds DEF SocksMethods, SocksReply
<1>2. CASE SocksLogin
  BY <1>2, FailEnds, AdvanceProceeds DEF SocksLogin, SocksReply
<1>3. CASE SocksConnect
  BY <1>3, FailEnds
     DEF SocksConnect, SocksReply, Established, Allowed, HandsOver
<1>4. CASE HttpAsks
  BY <1>4, AdvanceProceeds DEF HttpAsks
<1>5. CASE HttpTunnel
  BY <1>5, FailEnds DEF HttpTunnel, Established, Allowed, HandsOver
<1> QED
  BY <1>1, <1>2, <1>3, <1>4, <1>5 DEF SocksStep

(* TURN.                                                                   *)
LEMMA TurnAllowed == HeldInv /\ TurnStep => Allowed
<1> SUFFICES ASSUME HeldInv, TurnStep PROVE Allowed
  OBVIOUS
<1> USE DEF Trying, Opening, Reading, Over
<1>1. CASE TurnAllocates
  BY <1>1, AdvanceProceeds DEF TurnAllocates
<1>2. CASE TurnAllocated
  BY <1>2, FailEnds, AdvanceProceeds DEF TurnAllocated, TurnReply, Permit
<1>3. CASE TurnAuthenticated
  BY <1>3, FailEnds, AdvanceProceeds DEF TurnAuthenticated, TurnReply, Permit
<1>4. CASE TurnPermitted
  BY <1>4, FailEnds, AdvanceProceeds DEF TurnPermitted, TurnReply
<1>5. CASE TurnPeerConnected
  <2>1. phase = "peer" /\ phase \notin Over
    BY <1>5 DEF TurnPeerConnected, TurnReply
  <2>2. CASE First = "connected"
    BY <1>5, <2>1, <2>2
       DEF TurnPeerConnected, TurnReply, Allowed, Proceeds, HeldInv, PlacesOK,
           ResolverLetGo, State, Link
  <2>3. CASE First # "connected"
    BY <1>5, <2>1, <2>3, FailEnds DEF TurnPeerConnected
  <2> QED
    BY <2>2, <2>3
<1>6. CASE TurnBinds
  BY <1>6, AdvanceProceeds DEF TurnBinds
<1>7. CASE TurnBound
  BY <1>7, FailEnds, AdvanceProceeds DEF TurnBound, TurnReply
<1> QED
  BY <1>1, <1>2, <1>3, <1>4, <1>5, <1>6, <1>7 DEF TurnStep

(* The resolver's connection, for TURN and SSTP.                           *)
LEMMA ResolvedProceeds ==
  ASSUME HeldInv, NEW next \in Trying, Resolved(next)
  PROVE  Allowed
  BY DEF Resolved, HeldInv, PlacesOK, Allowed, Proceeds, State, Live, Link,
         Trying, Reading

(* SSTP.                                                                   *)
LEMMA SstpAllowed == HeldInv /\ SstpClient => Allowed
<1> SUFFICES ASSUME HeldInv, SstpClient PROVE Allowed
  OBVIOUS
<1> USE DEF Trying, Opening, Reading, Over
<1>1. CASE SstpAsks
  BY <1>1, AdvanceProceeds DEF SstpAsks
<1>2. CASE HttpAccepted
  BY <1>2, FailEnds, AdvanceProceeds DEF HttpAccepted
<1>3. CASE PppFrame
  <2>1. phase = "ppp"
    BY <1>3 DEF PppFrame
  <2>2. \A flags, writes : NextRound(flags, writes) => Allowed
    BY <2>1, AdvanceProceeds DEF NextRound
  <2>3. \A flags, writes : StartIpcpIfReady(flags, writes) => Allowed
    BY <2>2 DEF StartIpcpIfReady
  <2>4. \A flags, writes : Continue(flags, writes) => Allowed
    BY <2>1, <2>2, <2>3, FailEnds DEF Continue
  <2> QED
    BY <1>3, <2>1, <2>2, <2>3, <2>4, FailEnds DEF PppFrame
<1>4. CASE PppDone
  <2>1. phase = "assigned" /\ phase \notin Over
    BY <1>4 DEF PppDone
  <2>2. CASE Advance("syn", buffered)
    BY <2>1, <2>2, AdvanceProceeds
  <2>3. CASE phase' = "resolve" /\ UNCHANGED sock
    BY <2>1, <2>3 DEF Allowed, Proceeds, HeldInv, PlacesOK
  <2>4. CASE Fail("crowded")
    BY <2>1, <2>4, FailEnds
  <2> QED
    BY <1>4, <2>2, <2>3, <2>4 DEF PppDone
<1>5. CASE SstpResolved
  BY <1>5, ResolvedProceeds DEF SstpResolved
<1>6. CASE SynFrame
  BY <1>6, FailEnds, AdvanceProceeds DEF SynFrame
<1>7. CASE SstpTimesOut
  BY <1>7, FailEnds DEF SstpTimesOut, TimesOut, Wants
<1> QED
  BY <1>1, <1>2, <1>3, <1>4, <1>5, <1>6, <1>7 DEF SstpClient

(* Whatever the client does is allowed.                                    *)
LEMMA ClientAllowed == HeldInv /\ ClientStep => Allowed
<1> SUFFICES ASSUME HeldInv, ClientStep PROVE Allowed
  OBVIOUS
<1>1. CASE GivesUp
  BY <1>1, FailEnds
     DEF GivesUp, ReadsEnd, WriteFails, NoResolver, ResolverRefuses, TimesOut,
         Wants, Opening, Reading, Over
<1>2. CASE Pull
  BY <1>2 DEF Pull, Allowed, Loses, HeldInv, PlacesOK
<1>3. CASE Resolved("control")
  BY <1>3, ResolvedProceeds DEF Trying, Opening
<1>4. CASE DialResolver
  BY <1>4 DEF DialResolver, Allowed, Proceeds, HeldInv, PlacesOK, State, Link,
              Trying, Opening
<1>5. CASE AskResolver
  BY <1>5, AdvanceProceeds DEF AskResolver, Trying, Opening, Reading
<1> QED
  BY <1>1, <1>2, <1>3, <1>4, <1>5, SocksAllowed, TurnAllowed, SstpAllowed
     DEF ClientStep, Continues

----------------------------------------------------------------------------
(* An attempt starts in a place of its own, with nothing open but the      *)
(* control link.                                                           *)
LEMMA HeldInitially == ConnectionInit => HeldInv /\ C!Start
<1> SUFFICES ASSUME ConnectionInit PROVE HeldInv /\ C!Start
  OBVIOUS
<1>1. /\ phase \in {"resolve", "methods", "control"}
      /\ sock \in [Link -> State]
      /\ sock["dns"] = "none"
  BY DEF ConnectionInit, AttemptInit, State, Link
<1>2. HeldInv
  BY <1>1 DEF HeldInv, PlacesOK, NothingLeft, ResolverLetGo, Trying, Opening,
              Reading, Over, Live
<1>3. C!Start
  BY <1>1 DEF C!Start, Outcome, Held, Over
<1> QED
  BY <1>2, <1>3

(* Every step keeps the invariant, and is one of the connector or none.    *)
LEMMA HeldStep ==
  HeldInv /\ [ConnectionNext]_connectionVars
    => HeldInv' /\ [ConnectorStep]_<<Outcome, Held>>
<1>1. HeldInv /\ UNCHANGED connectionVars
        => HeldInv' /\ [ConnectorStep]_<<Outcome, Held>>
  BY DEF HeldInv, PlacesOK, NothingLeft, ResolverLetGo, Outcome, Held,
         connectionVars, attemptVars
<1> QED
  BY <1>1, ClientAllowed, EnvironmentAllowed, AllowedIsConnector
     DEF ConnectionNext

(***************************************************************************)
(* Every adapter implements the Connector: an attempt with any of them,    *)
(* whatever its servers and the network do and however many messages they  *)
(* send, ends with no connection left behind, and hands its session over   *)
(* without the resolver's connection.                                      *)
(***************************************************************************)
THEOREM AdaptersImplementConnector == ConnectionSpec => ImplementsConnector
<1>1. ConnectionInit => HeldInv /\ C!Start
  BY HeldInitially
<1>2. HeldInv /\ [ConnectionNext]_connectionVars
        => HeldInv' /\ [C!Work \/ C!HandOver \/ C!LosePart \/ C!End]_<<Outcome, Held>>
  BY HeldStep DEF ConnectorStep
<1> QED
  BY <1>1, <1>2, PTL DEF ConnectionSpec, ImplementsConnector, C!Connects

----------------------------------------------------------------------------
(* What the target says before the session is there (EarlyBytesKept).      *)

\* A phase that awaits a reply has the name of its request.
SessionReading == {"methods", "login", "connect", "tunnel", "bind"}
Before == {"resolve", "query", "control", "allocate", "authenticate",
           "permission", "peer", "data"}
Last == {"connect", "tunnel", "bind"}
Request == (SessionReading \cup Before) \ {"resolve", "control", "data"}
Message == {"address", "none", "password", "ok", "established", "allocated",
            "challenge", "permitted", "connected", "bound", "refused", "data"}
HalfSet == [is : Message, n : Nat, part : {1, 2}]

Stream == buffered \o arriving[SessionLink]

EarlyTypeOK ==
  /\ owed \in [Link -> Seq(Request)]
  /\ arriving \in [Link -> Seq(HalfSet)]
  /\ buffered \in Seq(HalfSet)
  /\ sent \in Nat /\ through \in BOOLEAN /\ whole \in BOOLEAN

PhasesOf ==
  \/ phase \in Over \cup {"open"}
  \/ adapter = "socks5" /\ phase \in {"methods", "login", "connect"}
  \/ adapter = "http" /\ phase \in {"control", "tunnel"}
  \/ adapter = "turn" /\ phase \in Before \cup {"bind"}

\* A reply that lets the target through comes on the session's connection.
OnlySessionLink ==
  \A l \in Link \ {SessionLink} : owed[l] \in Seq(Request \ Last)

NotYet ==
  phase \in Before => /\ owed[SessionLink] = <<>>
                      /\ arriving[SessionLink] = <<>>
                      /\ ~through

\* The one reply, and behind it what the target has said.
AwaitsReply ==
  phase \in SessionReading =>
    \/ owed[SessionLink] = <<phase>> /\ Stream = <<>> /\ ~through
    \/ /\ owed[SessionLink] = <<>>
       /\ \E m \in Good[phase] \cup {"refused"} :
            /\ Stream = Halves(m, 0) \o Spoken(sent)
            /\ through <=> m \in Through

Handed ==
  phase = "open" => /\ owed[SessionLink] = <<>>
                    /\ whole => Stream = Spoken(sent)

EarlyOK ==
  /\ adapter \in Adapter
  /\ EarlyTypeOK /\ PhasesOf
  /\ ~through => sent = 0
  /\ OnlySessionLink /\ NotYet /\ AwaitsReply /\ Handed
  /\ phase \in Over => owed = Quiet

EarlyInv == adapter # "sstp" => EarlyOK

----------------------------------------------------------------------------
(* Halves of messages, and what the target says.                           *)
LEMMA HalvesType ==
  ASSUME NEW m \in Message, NEW n \in Nat
  PROVE  /\ Halves(m, n) \in Seq(HalfSet) /\ Len(Halves(m, n)) = 2
         /\ Halves(m, n)[1] = Half(m, n, 1) /\ Halves(m, n)[2] = Half(m, n, 2)
         /\ Half(m, n, 1).is = m
  BY DEF Halves, Half, HalfSet

(* n chunks of the target are 2n halves ...                                *)
LEMMA SpokenType ==
  ASSUME NEW n \in Nat
  PROVE  Spoken(n) \in Seq(HalfSet) /\ Len(Spoken(n)) = 2 * n
<1>1. \A i \in 1..(2 * n) : Half("data", (i + 1) \div 2, 2 - (i % 2)) \in HalfSet
  BY DEF Half, HalfSet, Message
<1> QED
  BY <1>1 DEF Spoken

(* ... none at first ...                                                   *)
LEMMA SpokenNothing == Spoken(0) = <<>>
  BY DEF Spoken

(* ... and a chunk more is a chunk behind them.                            *)
LEMMA SpokenOnce ==
  ASSUME NEW n \in Nat
  PROVE  Spoken(n + 1) = Spoken(n) \o Halves("data", n + 1)
<1> DEFINE s == Spoken(n)
           h == Halves("data", n + 1)
<1>1. /\ s \in Seq(HalfSet) /\ Len(s) = 2 * n
      /\ Spoken(n + 1) \in Seq(HalfSet) /\ Len(Spoken(n + 1)) = 2 * n + 2
      /\ \A i \in 1..(2 * n) : s[i] = Half("data", (i + 1) \div 2, 2 - (i % 2))
      /\ \A i \in 1..(2 * n + 2) :
           Spoken(n + 1)[i] = Half("data", (i + 1) \div 2, 2 - (i % 2))
  <2>1. Len(Spoken(n + 1)) = 2 * (n + 1) /\ Spoken(n + 1) \in Seq(HalfSet)
        /\ s \in Seq(HalfSet) /\ Len(s) = 2 * n
    BY SpokenType
  <2> QED BY <2>1 DEF Spoken
<1>2. /\ h \in Seq(HalfSet) /\ Len(h) = 2
      /\ h[1] = Half("data", n + 1, 1) /\ h[2] = Half("data", n + 1, 2)
  BY HalvesType DEF Message
<1> HIDE DEF s, h
<1>3. /\ s \o h \in Seq(HalfSet) /\ Len(s \o h) = 2 * n + 2
      /\ \A i \in 1..(2 * n + 2) :
           (s \o h)[i] = IF i <= 2 * n THEN s[i] ELSE h[i - 2 * n]
  <2>1. /\ s \o h \in Seq(HalfSet) /\ Len(s \o h) = Len(s) + Len(h)
        /\ \A i \in 1..(Len(s) + Len(h)) :
             (s \o h)[i] = IF i <= Len(s) THEN s[i] ELSE h[i - Len(s)]
    BY <1>1, <1>2, ConcatProperties
  <2> QED BY <2>1, <1>1, <1>2
<1>4. ASSUME NEW i \in 1..(2 * n + 2)
      PROVE  Spoken(n + 1)[i] = (s \o h)[i]
  <2>1. CASE i <= 2 * n
    BY <2>1, <1>1, <1>3
  <2>2. CASE i = 2 * n + 1
    <3>1. (i + 1) \div 2 = n + 1 /\ 2 - (i % 2) = 1 /\ i - 2 * n = 1
      BY <2>2
    <3>2. (s \o h)[i] = h[1]
      BY <2>2, <3>1, <1>3
    <3>3. Spoken(n + 1)[i] = Half("data", n + 1, 1)
      BY <3>1, <1>1
    <3> QED BY <3>2, <3>3, <1>2
  <2>3. CASE i = 2 * n + 2
    <3>1. (i + 1) \div 2 = n + 1 /\ 2 - (i % 2) = 2 /\ i - 2 * n = 2
      BY <2>3
    <3>2. (s \o h)[i] = h[2]
      BY <2>3, <3>1, <1>3
    <3>3. Spoken(n + 1)[i] = Half("data", n + 1, 2)
      BY <3>1, <1>1
    <3> QED BY <3>2, <3>3, <1>2
  <2>4. i <= 2 * n \/ i = 2 * n + 1 \/ i = 2 * n + 2
    OBVIOUS
  <2> QED BY <2>1, <2>2, <2>3, <2>4
<1>5. Spoken(n + 1) = s \o h
  BY <1>1, <1>3, <1>4, SeqEqual
<1> QED
  BY <1>5 DEF s, h

(* Taking some of what has arrived into the buffer moves no byte.          *)
LEMMA PullMoves ==
  ASSUME NEW S, NEW b \in Seq(S), NEW a \in Seq(S), NEW n \in 1..Len(a)
  PROVE  /\ (b \o SubSeq(a, 1, n)) \o SubSeq(a, n + 1, Len(a)) = b \o a
         /\ b \o SubSeq(a, 1, n) \in Seq(S)
         /\ SubSeq(a, n + 1, Len(a)) \in Seq(S)
<1> DEFINE x == SubSeq(a, 1, n)
           y == SubSeq(a, n + 1, Len(a))
<1>1. Len(a) \in Nat
  OBVIOUS
<1>2. x \in Seq(S) /\ y \in Seq(S)
  BY <1>1
<1>3. x \o y = a
  BY <1>1, ConcatAdjacentSubSeq, SubSeqFull
<1> HIDE DEF x, y
<1>4. (b \o x) \o y = b \o (x \o y)
  BY ONLY <1>2, b \in Seq(S), ConcatAssociative
<1>5. b \o x \in Seq(S)
  BY ONLY <1>2, b \in Seq(S), ConcatProperties
<1> QED
  BY <1>2, <1>3, <1>4, <1>5 DEF x, y

(* A read that holds a whole reply starts with it ...                      *)
LEMMA ReplyFirst ==
  ASSUME NEW m \in Message, NEW b \in Seq(HalfSet), NEW a \in Seq(HalfSet),
         NEW r \in Seq(HalfSet), b \o a = Halves(m, 0) \o r, b # <<>>
  PROVE  b[1].is = m
<1> DEFINE h == Halves(m, 0)
<1>1. h \in Seq(HalfSet) /\ Len(h) = 2 /\ h[1].is = m
  BY HalvesType
<1> HIDE DEF h
<1>2. Len(b) >= 1 /\ Len(b) \in Nat /\ Len(a) \in Nat /\ Len(r) \in Nat
  OBVIOUS
<1>3. (b \o a)[1] = b[1]
  BY <1>2, ConcatProperties
<1>4. (h \o r)[1] = h[1]
  BY <1>1, <1>2, ConcatProperties
<1> QED
  BY <1>1, <1>3, <1>4 DEF h

(* ... and what is behind it is what followed ...                          *)
LEMMA ReplyRest ==
  ASSUME NEW m \in Message, NEW b \in Seq(HalfSet), NEW a \in Seq(HalfSet),
         NEW r \in Seq(HalfSet), b \o a = Halves(m, 0) \o r, Len(b) >= 2
  PROVE  SubSeq(b, 3, Len(b)) \o a = r
<1> DEFINE h == Halves(m, 0)
           x == SubSeq(b, 1, 2)
           t == SubSeq(b, 3, Len(b))
<1>1. h \in Seq(HalfSet) /\ Len(h) = 2
  BY HalvesType
<1>2. Len(b) \in Nat /\ x \in Seq(HalfSet) /\ t \in Seq(HalfSet)
  OBVIOUS
<1>3. x \o t = b
  BY <1>2, ConcatAdjacentSubSeq, SubSeqFull
<1> HIDE DEF h, t
<1>4. x = h
  <2>1. SubSeq(b \o a, 1, 2) = x
    BY <1>2, SubSeqOfConcat1
  <2>2. SubSeq(h \o r, 1, 2) = SubSeq(h, 1, 2)
    <3>1. 1 \in 1..Len(h) /\ 2 \in 1..Len(h)
      BY <1>1
    <3> QED
      BY ONLY <3>1, <1>1, r \in Seq(HalfSet), SubSeqOfConcat1
  <2>3. SubSeq(h, 1, 2) = h
    BY <1>1, SubSeqFull
  <2> QED
    BY <2>1, <2>2, <2>3 DEF h
<1> HIDE DEF x
<1>5. b \o a = x \o (t \o a)
  <2>1. (x \o t) \o a = x \o (t \o a)
    BY ONLY <1>2, a \in Seq(HalfSet), ConcatAssociative
  <2> QED
    BY <2>1, <1>3
<1>6. h \o (t \o a) = h \o r
  BY <1>4, <1>5 DEF h
<1>7. t \o a \in Seq(HalfSet)
  BY <1>2, ConcatProperties
<1>8. t \o a = r
  BY <1>1, <1>6, <1>7, ConcatSimplifications
<1> QED
  BY <1>8 DEF t

(* ... so that nothing is left of it if nothing followed, ...              *)
LEMMA ReplyOnly ==
  ASSUME NEW m \in Message, NEW b \in Seq(HalfSet), NEW a \in Seq(HalfSet),
         b \o a = Halves(m, 0) \o <<>>, Len(b) >= 2
  PROVE  a = <<>>
<1>1. SubSeq(b, 3, Len(b)) \o a = <<>>
  <2>1. <<>> \in Seq(HalfSet)
    OBVIOUS
  <2> QED
    BY <2>1, ReplyRest
<1>2. SubSeq(b, 3, Len(b)) \in Seq(HalfSet)
  OBVIOUS
<1> QED
  BY <1>1, <1>2, ConcatSimplifications

(* ... and what has not been read yet is all that followed, if the read    *)
(* held nothing else.                                                      *)
LEMMA ReplyAlone ==
  ASSUME NEW m \in Message, NEW b \in Seq(HalfSet), NEW a \in Seq(HalfSet),
         NEW r \in Seq(HalfSet), b \o a = Halves(m, 0) \o r, Len(b) = 2
  PROVE  a = r
<1>1. SubSeq(b, 3, Len(b)) \o a = r
  <2>1. Len(b) >= 2
    OBVIOUS
  <2> QED
    BY <2>1, ReplyRest
<1>2. SubSeq(b, 3, Len(b)) = <<>>
  BY SubSeqEmpty
<1>3. <<>> \o a = a
  BY ConcatEmptySeq
<1> QED
  BY <1>1, <1>2, <1>3

----------------------------------------------------------------------------
(* Which requests there are, and which replies let the target through.     *)
LEMMA GoodReplies ==
  /\ \A q \in Request : Good[q] \subseteq Message
  /\ \A q \in Request \ Last : Good[q] \cap Through = {}
  /\ Request \subseteq DOMAIN Good
  /\ SessionReading \subseteq Request /\ "refused" \notin Through
  BY DEF Good, Request, SessionReading, Before, Message, Last, Through

(* The link that the session will read is one of the attempt's.            *)
LEMMA SessionLinkType ==
  adapter \in Adapter => SessionLink \in Link
  BY DEF SessionLink, Link

(* A failure forgets everything that is under way.                         *)
LEMMA FailEarly == \A why : EarlyOK /\ Fail(why) => EarlyOK'
<1> SUFFICES ASSUME NEW why, EarlyOK, Fail(why) PROVE EarlyOK'
  OBVIOUS
<1>1. /\ phase' = "failed" /\ owed' = Quiet /\ arriving' = Quiet
      /\ buffered' = <<>> /\ adapter' = adapter
      /\ through' = through /\ sent' = sent /\ whole' = whole
  BY DEF Fail, Silence, choice, history
<1>2. Quiet \in [Link -> Seq(Request)] /\ Quiet \in [Link -> Seq(HalfSet)]
      /\ \A l \in Link : Quiet[l] \in Seq(Request \ Last)
  BY DEF Quiet
<1>3. EarlyTypeOK'
  BY <1>1, <1>2 DEF EarlyOK, EarlyTypeOK
<1>4. OnlySessionLink'
  BY <1>1, <1>2 DEF OnlySessionLink
<1> QED
  BY <1>1, <1>3, <1>4
     DEF EarlyOK, PhasesOf, Over, NotYet, Before, AwaitsReply, SessionReading,
         Handed

(* The first request on the session's connection, or the next one after a  *)
(* reply that has been read to its end.                                    *)
LEMMA AskOnSession ==
  ASSUME EarlyOK, NEW q \in SessionReading,
         owed[SessionLink] = <<>>, arriving[SessionLink] = <<>>, ~through,
         adapter = "socks5" => q \in {"methods", "login", "connect"},
         adapter = "http" => q = "tunnel",
         adapter = "turn" => q = "bind",
         adapter # "sstp",
         Ask(SessionLink, <<q>>), Advance(q, <<>>)
  PROVE  EarlyOK'
<1> DEFINE L == SessionLink
<1>1. /\ phase' = q /\ buffered' = <<>> /\ arriving' = arriving
      /\ adapter' = adapter /\ through' = through /\ sent' = sent
      /\ whole' = whole /\ L' = L /\ L \in Link
      /\ owed' = [owed EXCEPT ![L] = @ \o <<q>>]
  BY SessionLinkType DEF Ask, Advance, choice, history, EarlyOK, SessionLink
<1>2. q \in Request
  BY GoodReplies
<1>3. EarlyTypeOK'
  BY <1>1, <1>2 DEF EarlyOK, EarlyTypeOK
<1>4. owed'[L] = <<q>> /\ \A l \in Link \ {L} : owed'[l] = owed[l]
  BY <1>1 DEF EarlyOK, EarlyTypeOK
<1>5. PhasesOf'
  BY <1>1 DEF PhasesOf, SessionReading, EarlyOK, Adapter
<1>6. OnlySessionLink'
  BY <1>1, <1>4 DEF OnlySessionLink, EarlyOK
<1>7. NotYet' /\ Handed' /\ phase' \notin Over
  BY <1>1 DEF NotYet, Handed, Before, SessionReading, Over
<1>8. Stream' = <<>>
  BY <1>1 DEF Stream
<1>9. AwaitsReply'
  BY <1>1, <1>4, <1>8 DEF AwaitsReply
<1> QED
  BY <1>1, <1>3, <1>5, <1>6, <1>7, <1>9 DEF EarlyOK

(* What a read of a reply on the session's connection means.               *)
LEMMA ReplyRead ==
  ASSUME EarlyOK, phase \in SessionReading, buffered # <<>>
  PROVE  \E m \in Good[phase] \cup {"refused"} :
           /\ m \in Message
           /\ First = m
           /\ owed[SessionLink] = <<>>
           /\ through <=> m \in Through
           /\ Stream = Halves(m, 0) \o Spoken(sent)
<1> DEFINE L == SessionLink
<1>1. /\ buffered \in Seq(HalfSet) /\ arriving[L] \in Seq(HalfSet)
      /\ Spoken(sent) \in Seq(HalfSet)
  BY SessionLinkType, SpokenType DEF EarlyOK, EarlyTypeOK
<1>2. Stream # <<>>
  BY <1>1, ConcatSimplifications DEF Stream
<1>3. PICK m \in Good[phase] \cup {"refused"} :
         /\ owed[L] = <<>>
         /\ Stream = Halves(m, 0) \o Spoken(sent)
         /\ through <=> m \in Through
  BY <1>2 DEF EarlyOK, AwaitsReply
<1>4. m \in Message
  BY GoodReplies DEF Message
<1>5. First = m
  BY <1>1, <1>3, <1>4, ReplyFirst DEF Stream, First
<1> QED
  BY <1>3, <1>4, <1>5

(* A whole reply that is not the last leaves the connection silent.        *)
LEMMA ReplyDrained ==
  ASSUME EarlyOK, phase \in {"methods", "login"}, Complete
  PROVE  /\ owed[SessionLink] = <<>> /\ arriving[SessionLink] = <<>>
         /\ ~through
<1> DEFINE L == SessionLink
<1>1. phase \in SessionReading /\ phase \in Request \ Last
  BY DEF SessionReading, Request, Last
<1>2. /\ buffered \in Seq(HalfSet) /\ arriving[L] \in Seq(HalfSet)
      /\ buffered # <<>> /\ Len(buffered) >= 2
  BY SessionLinkType DEF EarlyOK, EarlyTypeOK, Complete
<1>3. PICK m \in Good[phase] \cup {"refused"} :
         /\ m \in Message
         /\ owed[L] = <<>>
         /\ through <=> m \in Through
         /\ Stream = Halves(m, 0) \o Spoken(sent)
  BY <1>1, <1>2, ReplyRead
<1>4. ~through
  BY <1>1, <1>3, GoodReplies
<1>5. Spoken(sent) = <<>> /\ Spoken(sent) \in Seq(HalfSet)
  <2>1. sent = 0
    BY <1>4 DEF EarlyOK
  <2>2. <<>> \in Seq(HalfSet)
    OBVIOUS
  <2> QED BY <2>1, <2>2, SpokenNothing
<1>6. arriving[L] = <<>>
  <2>1. buffered \o arriving[L] = Halves(m, 0) \o <<>>
    BY <1>3, <1>5 DEF Stream
  <2> HIDE DEF L
  <2> QED
    BY <1>2, <1>3, <2>1, ReplyOnly
<1> QED
  BY <1>3, <1>4, <1>6

(* The session takes over behind a whole reply.                            *)
LEMMA HandOverEarly ==
  ASSUME EarlyOK, phase \in SessionReading, buffered # <<>>,
         First \in Through, adapter # "sstp",
         adapter' = adapter, phase' = "open", owed' = owed,
         arriving' = arriving, through' = through, sent' = sent,
         whole' \in BOOLEAN, buffered' \in Seq(HalfSet),
         whole' => whole /\ Len(buffered) >= 2,
         whole' => (buffered' = SubSeq(buffered, 3, Len(buffered))
                    \/ (buffered' = <<>> /\ Len(buffered) = 2))
  PROVE  EarlyOK'
<1> DEFINE L == SessionLink
<1>1. L \in Link /\ L' = L
  BY SessionLinkType DEF EarlyOK, SessionLink
<1>2. /\ buffered \in Seq(HalfSet) /\ arriving[L] \in Seq(HalfSet)
      /\ Spoken(sent) \in Seq(HalfSet)
  BY <1>1, SpokenType DEF EarlyOK, EarlyTypeOK
<1>3. PICK m \in Good[phase] \cup {"refused"} :
         /\ m \in Message
         /\ owed[L] = <<>>
         /\ Stream = Halves(m, 0) \o Spoken(sent)
  BY ReplyRead
<1>4. ASSUME whole' PROVE Stream' = Spoken(sent)
  <2>1. /\ SubSeq(buffered, 3, Len(buffered)) \o arriving[L] = Spoken(sent)
        /\ Len(buffered) = 2 => arriving[L] = Spoken(sent)
    <3>1. buffered \o arriving[L] = Halves(m, 0) \o Spoken(sent)
      BY <1>3 DEF Stream
    <3>2. Len(buffered) >= 2
      BY <1>4
    <3> HIDE DEF L
    <3>3. SubSeq(buffered, 3, Len(buffered)) \o arriving[L] = Spoken(sent)
      BY <1>2, <1>3, <3>1, <3>2, ReplyRest
    <3>4. Len(buffered) = 2 => arriving[L] = Spoken(sent)
      BY <1>2, <1>3, <3>1, ReplyAlone
    <3> QED
      BY <3>3, <3>4
  <2>2. CASE buffered' = SubSeq(buffered, 3, Len(buffered))
    BY <2>1, <2>2, <1>1 DEF Stream
  <2>3. CASE buffered' = <<>> /\ Len(buffered) = 2
    <3>1. <<>> \o arriving[L] = arriving[L]
      BY <1>2, ConcatEmptySeq
    <3> QED BY <2>1, <2>3, <3>1, <1>1 DEF Stream
  <2> QED BY <1>4, <2>2, <2>3
<1>5. Handed'
  BY <1>1, <1>3, <1>4 DEF Handed
<1>6. EarlyTypeOK' /\ OnlySessionLink'
  BY <1>1 DEF EarlyOK, EarlyTypeOK, OnlySessionLink
<1>7. PhasesOf' /\ NotYet' /\ AwaitsReply' /\ phase' \notin Over
  BY DEF PhasesOf, NotYet, AwaitsReply, Before, SessionReading, Over
<1> QED
  BY <1>5, <1>6, <1>7 DEF EarlyOK

(* TURN's dialogue on the control connection, and its resolver's.          *)
LEMMA ControlEarly ==
  ASSUME EarlyOK, adapter = "turn", phase \in Before, phase' \in Before,
         adapter' = adapter, through' = through, sent' = sent, whole' = whole,
         owed' \in [Link -> Seq(Request)], owed'["data"] = owed["data"],
         \A l \in {"main", "dns"} : owed'[l] \in Seq(Request \ Last),
         arriving' \in [Link -> Seq(HalfSet)],
         arriving'["data"] = arriving["data"],
         buffered' \in Seq(HalfSet)
  PROVE  EarlyOK'
<1>1. SessionLink = "data" /\ SessionLink' = "data"
  BY DEF SessionLink
<1> QED
  BY <1>1
     DEF EarlyOK, EarlyTypeOK, PhasesOf, OnlySessionLink, NotYet, AwaitsReply,
         Handed, Before, SessionReading, Over, Link

----------------------------------------------------------------------------
(* The target speaks, on the session's connection.                         *)
LEMMA TargetSendsEarly ==
  ASSUME EarlyOK, adapter # "sstp", TargetSends
  PROVE  EarlyOK'
<1> DEFINE L == SessionLink
           a == arriving[L]
           h == Halves("data", sent + 1)
<1>1. /\ through /\ phase \notin Over /\ sent' = sent + 1
      /\ arriving' = [arriving EXCEPT ![L] = @ \o Halves("data", sent')]
      /\ adapter' = adapter /\ phase' = phase /\ owed' = owed
      /\ buffered' = buffered /\ through' = through /\ whole' = whole
      /\ L' = L /\ L \in Link
  BY SessionLinkType DEF TargetSends, choice, EarlyOK, SessionLink
<1>2. sent \in Nat /\ sent + 1 \in Nat /\ sent' \in Nat
  BY <1>1 DEF EarlyOK, EarlyTypeOK
<1>3. /\ a \in Seq(HalfSet) /\ buffered \in Seq(HalfSet)
      /\ Spoken(sent) \in Seq(HalfSet) /\ h \in Seq(HalfSet)
  BY <1>1, <1>2, SpokenType, HalvesType DEF EarlyOK, EarlyTypeOK, Message
<1>4. arriving'[L] = a \o h
  BY <1>1 DEF EarlyOK, EarlyTypeOK
<1>5. Stream' = Stream \o h
  <2>1. Stream' = buffered \o (a \o h)
    BY <1>1, <1>4 DEF Stream
  <2> HIDE DEF h, a
  <2>2. (buffered \o a) \o h = buffered \o (a \o h)
    BY ONLY <1>3, ConcatAssociative
  <2> QED
    BY <2>1, <2>2 DEF Stream, a
<1>6. Spoken(sent') = Spoken(sent) \o h
  BY <1>1, <1>2, SpokenOnce
<1>7. EarlyTypeOK'
  <2>1. a \o h \in Seq(HalfSet)
    <3> HIDE DEF a, h
    <3> QED
      BY ONLY <1>3, ConcatProperties
  <2> HIDE DEF h, a
  <2> QED
    BY <1>1, <1>2, <1>4, <2>1 DEF EarlyOK, EarlyTypeOK, a, h
<1>8. PhasesOf' /\ OnlySessionLink' /\ (phase' \in Over => owed' = Quiet)
  BY <1>1 DEF EarlyOK, PhasesOf, OnlySessionLink
<1>9. phase \notin Before
  BY <1>1 DEF EarlyOK, NotYet
<1>10. NotYet'
  BY <1>1, <1>9 DEF NotYet
<1>11. Handed'
  BY <1>1, <1>5, <1>6 DEF EarlyOK, Handed
<1>12. AwaitsReply'
  <2> SUFFICES ASSUME phase \in SessionReading
               PROVE  \E m \in Good[phase] \cup {"refused"} :
                        /\ owed[L] = <<>>
                        /\ Stream' = Halves(m, 0) \o Spoken(sent')
                        /\ through <=> m \in Through
    BY <1>1 DEF AwaitsReply
  <2>1. PICK m \in Good[phase] \cup {"refused"} :
           /\ owed[L] = <<>>
           /\ Stream = Halves(m, 0) \o Spoken(sent)
           /\ through <=> m \in Through
    BY <1>1 DEF EarlyOK, AwaitsReply
  <2>2. m \in Message
    BY GoodReplies DEF Message
  <2>3. Halves(m, 0) \in Seq(HalfSet)
    BY <2>2, HalvesType
  <2>4. (Halves(m, 0) \o Spoken(sent)) \o h
          = Halves(m, 0) \o (Spoken(sent) \o h)
    <3> HIDE DEF h
    <3> QED
      BY ONLY <1>3, <2>3, ConcatAssociative
  <2>5. Stream' = Halves(m, 0) \o Spoken(sent')
    <3> HIDE DEF h
    <3> QED
      BY <1>5, <1>6, <2>1, <2>4
  <2> QED
    BY <2>1, <2>5
<1> QED
  BY <1>1, <1>7, <1>8, <1>10, <1>11, <1>12 DEF EarlyOK

(* A server answers: the reply comes behind nothing, or on a connection    *)
(* that is not the session's.                                              *)
LEMMA AnswerEarly ==
  ASSUME EarlyOK, adapter # "sstp", NEW l \in Link, Answer(l)
  PROVE  EarlyOK'
<1> DEFINE L == SessionLink
           q == Head(owed[l])
<1>1. /\ owed[l] # <<>>
      /\ owed' = [owed EXCEPT ![l] = Tail(@)]
      /\ adapter' = adapter /\ phase' = phase /\ sent' = sent
      /\ buffered' = buffered /\ whole' = whole
      /\ L' = L /\ L \in Link
  BY SessionLinkType DEF Answer, choice, EarlyOK, SessionLink
<1>2. PICK m \in Good[q] \cup {"refused"} :
         /\ arriving' = [arriving EXCEPT ![l] = @ \o Halves(m, 0)]
         /\ through' = (through \/ m \in Through)
  BY DEF Answer
<1>3. /\ owed \in [Link -> Seq(Request)] /\ owed[l] \in Seq(Request)
      /\ q \in Request /\ Tail(owed[l]) \in Seq(Request)
  BY <1>1 DEF EarlyOK, EarlyTypeOK
<1>4. m \in Message /\ Halves(m, 0) \in Seq(HalfSet)
  <2>1. m \in Message
    BY <1>3, GoodReplies DEF Message
  <2> QED
    BY <2>1, HalvesType
<1>5. arriving[l] \o Halves(m, 0) \in Seq(HalfSet)
  BY <1>4 DEF EarlyOK, EarlyTypeOK
<1>6. EarlyTypeOK'
  BY <1>1, <1>2, <1>3, <1>5 DEF EarlyOK, EarlyTypeOK
<1>7. OnlySessionLink'
  <2> SUFFICES ASSUME NEW k \in Link \ {L}
               PROVE  owed'[k] \in Seq(Request \ Last)
    BY <1>1 DEF OnlySessionLink
  <2>1. owed[k] \in Seq(Request \ Last)
    BY DEF EarlyOK, OnlySessionLink
  <2>2. CASE k = l
    <3>1. owed'[k] = Tail(owed[k])
      BY <1>1, <1>3, <2>2
    <3> QED
      BY <3>1, <2>1, <2>2, <1>1
  <2>3. CASE k # l
    BY <1>1, <1>3, <2>1, <2>3
  <2> QED
    BY <2>2, <2>3
<1>8. PhasesOf' /\ (phase' \in Over => owed' = Quiet)
  <2>1. phase \notin Over
    BY <1>1 DEF EarlyOK, Quiet
  <2> QED
    BY <1>1, <2>1 DEF EarlyOK, PhasesOf
<1>9. CASE l # L
  <2>1. owed[l] \in Seq(Request \ Last)
    BY <1>9 DEF EarlyOK, OnlySessionLink
  <2>2. q \in Request \ Last
    BY <1>1, <2>1
  <2>3. m \notin Through
    BY <2>2, GoodReplies
  <2>4. through' = through
    BY <1>2, <2>3 DEF EarlyOK, EarlyTypeOK
  <2>5. owed'[L] = owed[L] /\ arriving'[L] = arriving[L]
    BY <1>1, <1>2, <1>9 DEF EarlyOK, EarlyTypeOK
  <2>6. Stream' = Stream
    BY <1>1, <2>5 DEF Stream
  <2>7. NotYet' /\ AwaitsReply' /\ Handed' /\ (~through' => sent' = 0)
    BY <1>1, <2>4, <2>5, <2>6 DEF EarlyOK, NotYet, AwaitsReply, Handed
  <2> QED
    BY <1>1, <1>6, <1>7, <1>8, <2>7 DEF EarlyOK
<1>10. CASE l = L
  <2>1. /\ phase \in SessionReading /\ owed[L] = <<phase>>
        /\ Stream = <<>> /\ ~through
    <3>0. owed[L] # <<>>
      BY <1>1, <1>10
    <3>1. phase \notin Over /\ phase # "open" /\ phase \notin Before
      <4>1. phase \notin Over
        BY <1>1, <3>0 DEF EarlyOK, Quiet
      <4>2. phase # "open" /\ phase \notin Before
        BY <3>0 DEF EarlyOK, NotYet, Handed
      <4> QED
        BY <4>1, <4>2
    <3>2. phase \in SessionReading
      BY <3>1 DEF EarlyOK, PhasesOf, Before, SessionReading
    <3> QED
      BY <3>0, <3>2 DEF EarlyOK, AwaitsReply
  <2>2. q = phase /\ Tail(owed[l]) = <<>>
    <3>1. Head(<<phase>>) = phase
      OBVIOUS
    <3>2. Tail(<<phase>>) = <<>>
      <4>1. <<phase>> \in Seq({phase}) /\ Len(<<phase>>) = 1
        OBVIOUS
      <4> QED
        BY <4>1, HeadTailProperties, EmptySeq
    <3> QED
      BY <2>1, <1>10, <3>1, <3>2
  <2>3. owed'[L] = <<>>
    BY <2>2, <1>1, <1>3, <1>10
  <2>4. buffered = <<>> /\ arriving[L] = <<>>
    <3>1. buffered \in Seq(HalfSet) /\ arriving[L] \in Seq(HalfSet)
      BY <1>1 DEF EarlyOK, EarlyTypeOK
    <3> QED
      BY <3>1, <2>1, ConcatSimplifications DEF Stream
  <2>5. Stream' = Halves(m, 0) \o Spoken(sent')
    <3>1. arriving'[L] = <<>> \o Halves(m, 0)
      BY <1>2, <1>10, <2>4 DEF EarlyOK, EarlyTypeOK
    <3>2. <<>> \o Halves(m, 0) = Halves(m, 0)
      BY <1>4, ConcatEmptySeq
    <3>3. Stream' = Halves(m, 0)
      BY <1>1, <2>4, <3>1, <3>2 DEF Stream
    <3>4. sent' = 0
      BY <1>1, <2>1 DEF EarlyOK
    <3>5. Halves(m, 0) \o <<>> = Halves(m, 0)
      BY <1>4, ConcatEmptySeq
    <3> QED
      BY <3>3, <3>4, <3>5, SpokenNothing
  <2>6. through' <=> m \in Through
    BY <1>2, <2>1
  <2>7. AwaitsReply'
    BY <1>1, <1>2, <2>2, <2>3, <2>5, <2>6 DEF AwaitsReply
  <2>8. NotYet' /\ Handed'
    BY <1>1, <2>1 DEF NotYet, Handed, Before, SessionReading
  <2>9. ~through' => sent' = 0
    BY <1>1, <2>1 DEF EarlyOK
  <2> QED
    BY <1>1, <1>6, <1>7, <1>8, <2>7, <2>8, <2>9 DEF EarlyOK
<1> QED
  BY <1>9, <1>10

(* A read takes from the front of what has arrived.                        *)
LEMMA PullEarly ==
  ASSUME EarlyOK, adapter # "sstp", Pull
  PROVE  EarlyOK'
<1> DEFINE L == SessionLink
           a == arriving[From]
<1>1. /\ adapter' = adapter /\ phase' = phase /\ sent' = sent
      /\ owed' = owed /\ through' = through /\ whole' = whole
      /\ L' = L /\ L \in Link /\ phase \in Reading
  BY SessionLinkType
     DEF Pull, Wants, choice, history, EarlyOK, SessionLink
<1>2. From \in Link
  BY DEF From, Link
<1>3. PICK n \in 1..Len(a) :
         /\ buffered' = buffered \o SubSeq(a, 1, n)
         /\ arriving' = [arriving EXCEPT ![From] = SubSeq(@, n + 1, Len(@))]
  BY DEF Pull
<1>4. buffered \in Seq(HalfSet) /\ a \in Seq(HalfSet)
  BY <1>2 DEF EarlyOK, EarlyTypeOK
<1>5. /\ (buffered \o SubSeq(a, 1, n)) \o SubSeq(a, n + 1, Len(a))
           = buffered \o a
      /\ buffered \o SubSeq(a, 1, n) \in Seq(HalfSet)
      /\ SubSeq(a, n + 1, Len(a)) \in Seq(HalfSet)
  <2> HIDE DEF a
  <2> QED
    BY <1>4, PullMoves
<1>6. arriving' = [arriving EXCEPT ![From] = SubSeq(a, n + 1, Len(a))]
  BY <1>3
<1>7. EarlyTypeOK'
  BY <1>1, <1>2, <1>3, <1>5, <1>6 DEF EarlyOK, EarlyTypeOK
<1>8. PhasesOf' /\ OnlySessionLink' /\ (phase' \in Over => owed' = Quiet)
      /\ (~through' => sent' = 0)
  BY <1>1 DEF EarlyOK, PhasesOf, OnlySessionLink
<1>9. CASE From = L
  <2>1. arriving'[L] = SubSeq(a, n + 1, Len(a))
    BY <1>2, <1>6, <1>9 DEF EarlyOK, EarlyTypeOK
  <2>2. Stream' = Stream
    BY <1>1, <1>3, <1>5, <1>9, <2>1 DEF Stream
  <2>3. arriving[L] # <<>>
    BY <1>3, <1>4, <1>9
  <2>4. NotYet'
    BY <1>1, <2>3 DEF EarlyOK, NotYet
  <2> QED
    BY <1>1, <1>7, <1>8, <2>2, <2>4 DEF EarlyOK, AwaitsReply, Handed
<1>10. CASE From # L
  <2>1. arriving'[L] = arriving[L]
    BY <1>1, <1>6, <1>10 DEF EarlyOK, EarlyTypeOK
  <2>2. phase # "open" /\ phase \notin Over
    BY <1>1 DEF Reading, Over
  <2>3. phase \notin SessionReading
    <3>1. CASE adapter = "turn"
      BY <1>10, <3>1, <2>2
         DEF EarlyOK, PhasesOf, From, SessionLink, SessionReading, Before
    <3>2. CASE adapter \in {"socks5", "http"}
      BY <1>10, <3>2, <2>2
         DEF EarlyOK, PhasesOf, From, SessionLink, SessionReading
    <3> QED
      BY <3>1, <3>2 DEF EarlyOK, Adapter
  <2> QED
    BY <1>1, <1>7, <1>8, <2>1, <2>2, <2>3
       DEF EarlyOK, NotYet, AwaitsReply, Handed
<1> QED
  BY <1>9, <1>10

----------------------------------------------------------------------------
(* SOCKS5 and CONNECT.                                                     *)
LEMMA SocksEarly == EarlyOK /\ adapter # "sstp" /\ SocksStep => EarlyOK'
<1> SUFFICES ASSUME EarlyOK, adapter # "sstp", SocksStep PROVE EarlyOK'
  OBVIOUS
<1>0. adapter \in {"socks5", "http"} => SessionLink = "main"
  BY DEF SessionLink
<1>1. CASE SocksMethods
  <2>1. adapter = "socks5" /\ phase = "methods"
    BY <1>1 DEF SocksMethods, SocksReply
  <2>2. ASSUME NEW q \in {"connect", "login"}, Complete,
               Ask("main", <<q>>), Advance(q, <<>>)
        PROVE  EarlyOK'
    <3>1. owed["main"] = <<>> /\ arriving["main"] = <<>> /\ ~through
      BY <1>0, <2>1, <2>2, ReplyDrained
    <3> QED
      BY <1>0, <2>1, <2>2, <3>1, AskOnSession DEF SessionReading
  <2> QED
    BY <1>1, <2>2, FailEarly DEF SocksMethods
<1>2. CASE SocksLogin
  <2>1. adapter = "socks5" /\ phase = "login"
    BY <1>2 DEF SocksLogin, SocksReply
  <2>2. ASSUME Complete, Ask("main", <<"connect">>), Advance("connect", <<>>)
        PROVE  EarlyOK'
    <3>1. owed["main"] = <<>> /\ arriving["main"] = <<>> /\ ~through
      BY <1>0, <2>1, <2>2, ReplyDrained
    <3> QED
      BY <1>0, <2>1, <2>2, <3>1, AskOnSession DEF SessionReading
  <2> QED
    BY <1>2, <2>2, FailEarly DEF SocksLogin
<1>3. ASSUME phase \in SessionReading, buffered # <<>>, First = "established",
             Established(<<>>), whole' = (whole /\ Len(buffered) = 2)
      PROVE  EarlyOK'
  <2>1. /\ adapter' = adapter /\ phase' = "open" /\ owed' = owed
        /\ arriving' = arriving /\ through' = through /\ sent' = sent
        /\ buffered' = <<>>
    BY <1>3 DEF Established, choice, wire
  <2>2. /\ whole' \in BOOLEAN
        /\ whole' => whole /\ Len(buffered) = 2
        /\ buffered' \in Seq(HalfSet)
    <3>1. whole' \in BOOLEAN
      BY <1>3, Zenon
    <3>2. whole' => whole /\ Len(buffered) = 2
      BY <1>3, Zenon
    <3>3. buffered' \in Seq(HalfSet)
      BY <2>1
    <3> QED
      BY <3>1, <3>2, <3>3
  <2>3. First \in Through
    BY <1>3 DEF Through
  <2>4. whole' => Len(buffered) >= 2
    BY <2>2
  <2> QED
    BY <1>3, <2>1, <2>2, <2>3, <2>4, HandOverEarly
<1>4. CASE SocksConnect
  <2>1. phase \in SessionReading /\ buffered # <<>>
    BY <1>4 DEF SocksConnect, SocksReply, SessionReading
  <2> QED
    BY <1>3, <1>4, <2>1, FailEarly DEF SocksConnect
<1>5. CASE HttpAsks
  <2>1. adapter = "http" /\ phase = "control" /\ Ask("main", <<"tunnel">>)
        /\ Advance("tunnel", <<>>)
    BY <1>5 DEF HttpAsks
  <2>2. owed["main"] = <<>> /\ arriving["main"] = <<>> /\ ~through
    BY <1>0, <2>1 DEF EarlyOK, NotYet, Before
  <2> QED
    BY <1>0, <2>1, <2>2, AskOnSession DEF SessionReading
<1>6. CASE HttpTunnel
  <2>1. phase \in SessionReading /\ buffered # <<>>
    <3>1. buffered \in Seq(HalfSet) /\ Len(buffered) >= 2
      BY <1>6 DEF HttpTunnel, Complete, EarlyOK, EarlyTypeOK
    <3>2. buffered # <<>>
      BY <3>1
    <3> QED
      BY <1>6, <3>2 DEF HttpTunnel, SessionReading
  <2> QED
    BY <1>3, <1>6, <2>1, FailEarly DEF HttpTunnel
<1> QED
  BY <1>1, <1>2, <1>4, <1>5, <1>6 DEF SocksStep

(* The requests of TURN's control connection.                              *)
LEMMA AskControlEarly ==
  ASSUME EarlyOK, adapter = "turn", phase \in Before,
         NEW l \in {"main", "dns"}, NEW reqs \in Seq(Request \ Last),
         Ask(l, reqs),
         NEW next \in Before, NEW rest \in Seq(HalfSet), Advance(next, rest)
  PROVE  EarlyOK'
<1>1. /\ adapter' = adapter /\ phase' = next /\ sent' = sent
      /\ arriving' = arriving /\ through' = through /\ whole' = whole
      /\ buffered' = rest /\ owed' = [owed EXCEPT ![l] = @ \o reqs]
  BY DEF Advance, Ask, choice, history
<1>2. /\ owed \in [Link -> Seq(Request)]
      /\ arriving' \in [Link -> Seq(HalfSet)]
      /\ \A k \in {"main", "dns"} : owed[k] \in Seq(Request \ Last)
  BY <1>1 DEF EarlyOK, EarlyTypeOK, OnlySessionLink, SessionLink, Link
<1>3. owed[l] \o reqs \in Seq(Request \ Last)
      /\ owed[l] \o reqs \in Seq(Request)
  <2>1. owed[l] \in Seq(Request \ Last)
    BY <1>2
  <2>2. reqs \in Seq(Request) /\ owed[l] \in Seq(Request)
    <3>1. owed[l] \in Seq(Request)
      BY <1>2 DEF Link
    <3>2. reqs \in Seq(Request)
      BY SeqMonotonic
    <3> QED
      BY <3>1, <3>2
  <2> QED
    BY <2>1, <2>2, ConcatProperties
<1>4. /\ owed' \in [Link -> Seq(Request)]
      /\ owed'["data"] = owed["data"]
      /\ \A k \in {"main", "dns"} : owed'[k] \in Seq(Request \ Last)
  BY <1>1, <1>2, <1>3 DEF Link
<1> QED
  BY <1>1, <1>2, <1>4, ControlEarly

(* What is left of a read is a sequence of halves.                         *)
LEMMA RestType == EarlyOK => Rest \in Seq(HalfSet)
<1> SUFFICES ASSUME EarlyOK PROVE Rest \in Seq(HalfSet)
  OBVIOUS
<1>1. buffered \in Seq(HalfSet)
  BY DEF EarlyOK, EarlyTypeOK
<1> QED
  BY <1>1 DEF Rest

(* TURN.                                                                   *)
LEMMA TurnEarly == EarlyOK /\ adapter # "sstp" /\ TurnStep => EarlyOK'
<1> SUFFICES ASSUME EarlyOK, adapter # "sstp", TurnStep PROVE EarlyOK'
  OBVIOUS
<1>0. adapter = "turn" /\ SessionLink = "data" /\ Rest \in Seq(HalfSet)
      /\ <<>> \in Seq(HalfSet)
  BY RestType
     DEF TurnStep, TurnAllocates, TurnAllocated, TurnAuthenticated,
         TurnPermitted, TurnPeerConnected, TurnBinds, TurnBound, TurnReply,
         SessionLink
<1>r. /\ <<"allocate">> \in Seq(Request \ Last)
      /\ <<"authenticate">> \in Seq(Request \ Last)
      /\ <<"permission", "peer">> \in Seq(Request \ Last)
  BY DEF Request, Before, SessionReading, Last
<1>1. CASE TurnAllocates
  BY <1>0, <1>r, <1>1, AskControlEarly DEF TurnAllocates, Before
<1>2. CASE TurnAllocated
  <2>1. phase = "allocate"
    BY <1>2 DEF TurnAllocated, TurnReply
  <2>2. CASE Permit
    BY <1>0, <1>r, <2>1, <2>2, AskControlEarly DEF Permit, Before
  <2>3. CASE Ask("main", <<"authenticate">>) /\ Advance("authenticate", Rest)
    BY <1>0, <1>r, <2>1, <2>3, AskControlEarly DEF Before
  <2> QED
    BY <1>2, <2>2, <2>3, FailEarly DEF TurnAllocated
<1>3. CASE TurnAuthenticated
  <2>1. phase = "authenticate"
    BY <1>3 DEF TurnAuthenticated, TurnReply
  <2>2. CASE Permit
    BY <1>0, <1>r, <2>1, <2>2, AskControlEarly DEF Permit, Before
  <2> QED
    BY <1>3, <2>2, FailEarly DEF TurnAuthenticated
<1>c. /\ owed \in [Link -> Seq(Request)] /\ arriving \in [Link -> Seq(HalfSet)]
      /\ \A k \in {"main", "dns"} : owed[k] \in Seq(Request \ Last)
  BY <1>0 DEF EarlyOK, EarlyTypeOK, OnlySessionLink, Link
<1>4. CASE TurnPermitted
  <2>1. phase = "permission"
    BY <1>4 DEF TurnPermitted, TurnReply
  <2>2. CASE Advance("peer", Rest) /\ UNCHANGED owed
    <3>1. /\ adapter' = adapter /\ phase' = "peer" /\ sent' = sent
          /\ arriving' = arriving /\ through' = through /\ whole' = whole
          /\ buffered' = Rest /\ owed' = owed
      BY <2>2 DEF Advance, choice, history
    <3> QED
      BY <1>0, <1>c, <2>1, <3>1, ControlEarly DEF Before
  <2> QED
    BY <1>4, <2>2, FailEarly DEF TurnPermitted
<1>5. CASE TurnPeerConnected
  <2>1. phase = "peer"
    BY <1>5 DEF TurnPeerConnected, TurnReply
  <2>2. CASE First = "connected"
    <3>1. /\ adapter' = adapter /\ phase' = "data" /\ sent' = sent
          /\ arriving' = arriving /\ through' = through /\ whole' = whole
          /\ buffered' = <<>> /\ owed' = owed
      BY <1>5, <2>2 DEF TurnPeerConnected, choice, history, wire
    <3> QED
      BY <1>0, <1>c, <2>1, <3>1, ControlEarly DEF Before
  <2> QED
    BY <1>5, <2>2, FailEarly DEF TurnPeerConnected
<1>6. CASE TurnBinds
  <2>1. phase = "data" /\ Ask("data", <<"bind">>) /\ Advance("bind", <<>>)
    BY <1>6 DEF TurnBinds
  <2>2. owed["data"] = <<>> /\ arriving["data"] = <<>> /\ ~through
    BY <1>0, <2>1 DEF EarlyOK, NotYet, Before
  <2> QED
    BY <1>0, <2>1, <2>2, AskOnSession DEF SessionReading
<1>7. CASE TurnBound
  <2>1. phase = "bind" /\ phase \in SessionReading /\ Len(buffered) >= 2
    BY <1>7 DEF TurnBound, TurnReply, Complete, SessionReading
  <2>2. buffered # <<>>
    BY <2>1 DEF EarlyOK, EarlyTypeOK
  <2>3. CASE First = "bound" /\ Advance("open", Rest) /\ UNCHANGED owed
    <3>1. /\ adapter' = adapter /\ phase' = "open" /\ owed' = owed
          /\ arriving' = arriving /\ through' = through /\ sent' = sent
          /\ buffered' = SubSeq(buffered, 3, Len(buffered)) /\ whole' = whole
      BY <2>3 DEF Advance, choice, history, Rest
    <3>2. First \in Through /\ whole' \in BOOLEAN
          /\ buffered' \in Seq(HalfSet)
      BY <1>0, <2>3, <3>1 DEF Through, EarlyOK, EarlyTypeOK, Rest
    <3> QED
      BY <2>1, <2>2, <3>1, <3>2, HandOverEarly
  <2> QED
    BY <1>7, <2>3, FailEarly DEF TurnBound
<1> QED
  BY <1>1, <1>2, <1>3, <1>4, <1>5, <1>6, <1>7 DEF TurnStep

(* A step that leaves all of this alone.                                   *)
LEMMA FrameEarly ==
  EarlyOK /\ UNCHANGED <<choice, phase, wire, buffered, history>> => EarlyOK'
<1> SUFFICES ASSUME EarlyOK, UNCHANGED <<choice, phase, wire, buffered, history>>
             PROVE  EarlyOK'
  OBVIOUS
<1>1. /\ adapter' = adapter /\ phase' = phase /\ sent' = sent
      /\ owed' = owed /\ through' = through /\ whole' = whole
      /\ arriving' = arriving /\ buffered' = buffered
      /\ SessionLink' = SessionLink
  BY DEF choice, wire, history, SessionLink
<1>2. Stream' = Stream
  BY <1>1 DEF Stream
<1> QED
  BY <1>1, <1>2 DEF EarlyOK, EarlyTypeOK, PhasesOf, OnlySessionLink, NotYet,
                    AwaitsReply, Handed

(* Every step of an attempt with an adapter other than SSTP.               *)
LEMMA NextEarly ==
  EarlyOK /\ adapter # "sstp" /\ ConnectionNext => EarlyOK'
<1> SUFFICES ASSUME EarlyOK, adapter # "sstp", ConnectionNext PROVE EarlyOK'
  OBVIOUS
<1>0. phase # "assigned"
  BY DEF EarlyOK, PhasesOf, Over, Before
<1>1. ~SstpClient
  BY <1>0
     DEF SstpClient, SstpAsks, HttpAccepted, PppFrame, PppDone, SstpResolved,
         SynFrame, SstpTimesOut
<1>2. ~SstpServer
  <2>1. ~ServerTakes
    <3>1. owed["main"] # <<>> => Head(owed["main"]) \in Request
      BY DEF EarlyOK, EarlyTypeOK, Link
    <3> QED
      BY <3>1, GoodReplies DEF ServerTakes
  <2> QED
    BY <2>1 DEF SstpServer, ServerAsksLcp, ServerAsksIpcp, ServerSendsNoise,
                Talking
<1>3. ASSUME NEW l \in Link, SocketOpens(l) PROVE EarlyOK'
  BY <1>3, FrameEarly DEF SocketOpens
<1>4. ASSUME NEW l \in Link, SocketRefused(l) PROVE EarlyOK'
  BY <1>4, FailEarly DEF SocketRefused
<1>5. ASSUME NEW l \in Link, ServerEnds(l) PROVE EarlyOK'
  BY <1>5, FrameEarly DEF ServerEnds
<1>6. CASE SessionCloses
  <2>1. /\ phase' = "closed" /\ owed' = Quiet /\ arriving' = Quiet
        /\ buffered' = <<>> /\ adapter' = adapter
        /\ through' = through /\ sent' = sent /\ whole' = whole
    BY <1>6 DEF SessionCloses, Silence, choice, history
  <2>2. Quiet \in [Link -> Seq(Request)] /\ Quiet \in [Link -> Seq(HalfSet)]
        /\ \A l \in Link : Quiet[l] \in Seq(Request \ Last)
    BY DEF Quiet
  <2>3. EarlyTypeOK' /\ OnlySessionLink'
    BY <2>1, <2>2 DEF EarlyOK, EarlyTypeOK, OnlySessionLink
  <2> QED
    BY <2>1, <2>3
       DEF EarlyOK, PhasesOf, Over, NotYet, Before, AwaitsReply,
           SessionReading, Handed
<1>7. CASE DataSocketClosed
  BY <1>7, FrameEarly DEF DataSocketClosed
<1>8. CASE GivesUp
  BY <1>8, FailEarly
     DEF GivesUp, ReadsEnd, WriteFails, NoResolver, ResolverRefuses, TimesOut
<1>9. CASE DialResolver
  BY <1>9, FrameEarly DEF DialResolver
<1>10. CASE AskResolver
  <2>1. phase = "resolve" /\ Ask("dns", <<"query">>) /\ Advance("query", <<>>)
    BY <1>10 DEF AskResolver
  <2>2. adapter = "turn"
    BY <2>1 DEF EarlyOK, PhasesOf, Over
  <2>3. <<"query">> \in Seq(Request \ Last) /\ <<>> \in Seq(HalfSet)
    BY DEF Request, Before, SessionReading, Last
  <2> QED
    BY <2>1, <2>2, <2>3, AskControlEarly DEF Before
<1>11. CASE adapter = "turn" /\ Resolved("control") /\ UNCHANGED owed
  <2>1. /\ adapter' = adapter /\ phase = "query" /\ phase' = "control"
        /\ sent' = sent /\ arriving' = arriving /\ through' = through
        /\ whole' = whole /\ buffered' = Rest /\ owed' = owed
    BY <1>11 DEF Resolved, choice, history
  <2>2. /\ owed \in [Link -> Seq(Request)]
        /\ arriving \in [Link -> Seq(HalfSet)]
        /\ \A k \in {"main", "dns"} : owed[k] \in Seq(Request \ Last)
    BY <1>11 DEF EarlyOK, EarlyTypeOK, OnlySessionLink, SessionLink, Link
  <2> QED
    BY <1>11, <2>1, <2>2, RestType, ControlEarly DEF Before
<1> QED
  BY <1>1, <1>2, <1>3, <1>4, <1>5, <1>6, <1>7, <1>8, <1>9, <1>10, <1>11,
     SocksEarly, TurnEarly, TargetSendsEarly, AnswerEarly, PullEarly
     DEF ConnectionNext, ClientStep, Continues, Environment

(* Nothing has been sent or read when an attempt starts.                   *)
LEMMA EarlyInitially == ConnectionInit => EarlyInv
<1> SUFFICES ASSUME ConnectionInit, adapter # "sstp" PROVE EarlyOK
  BY DEF EarlyInv
<1>1. /\ adapter \in Adapter /\ buffered = <<>> /\ arriving = Quiet
      /\ through = FALSE /\ sent = 0 /\ whole = TRUE
      /\ adapter = "turn" => phase \in {"resolve", "control"}
      /\ adapter = "http" => phase = "control"
      /\ adapter = "socks5" => phase = "methods"
      /\ owed = IF adapter = "socks5"
                THEN [Quiet EXCEPT !["main"] = <<"methods">>] ELSE Quiet
  BY DEF ConnectionInit, AttemptInit
<1>2. /\ Quiet \in [Link -> Seq(Request)] /\ Quiet \in [Link -> Seq(HalfSet)]
      /\ \A l \in Link : Quiet[l] = <<>> /\ Quiet[l] \in Seq(Request \ Last)
      /\ <<"methods">> \in Seq(Request)
  BY DEF Quiet, Request, SessionReading
<1>3. /\ owed \in [Link -> Seq(Request)]
      /\ \A l \in Link \ {SessionLink} : owed[l] \in Seq(Request \ Last)
      /\ SessionLink \in Link
      /\ owed[SessionLink] = IF adapter = "socks5" THEN <<"methods">> ELSE <<>>
  BY <1>1, <1>2 DEF SessionLink, Link
<1>4. EarlyTypeOK /\ OnlySessionLink
  BY <1>1, <1>2, <1>3 DEF EarlyTypeOK, OnlySessionLink
<1>5. PhasesOf /\ phase # "open" /\ phase \notin Over
  BY <1>1 DEF PhasesOf, Before, Adapter, Over
<1>6. Stream = <<>> /\ arriving[SessionLink] = <<>>
  BY <1>1, <1>2, <1>3 DEF Stream
<1>7. NotYet /\ AwaitsReply /\ Handed
  <2>1. CASE adapter = "socks5"
    BY <1>1, <1>3, <1>6, <2>1 DEF NotYet, AwaitsReply, Handed, Before
  <2>2. CASE adapter \in {"http", "turn"}
    BY <1>1, <1>3, <1>6, <2>2
       DEF NotYet, AwaitsReply, Handed, SessionReading
  <2> QED
    BY <1>1, <2>1, <2>2 DEF Adapter
<1> QED
  BY <1>1, <1>4, <1>5, <1>7 DEF EarlyOK

(* An attempt stays with its adapter.                                      *)
LEMMA AdapterStays == ConnectionNext => adapter' = adapter
<1> USE DEF choice
<1>1. \A why : Fail(why) => adapter' = adapter
  BY DEF Fail
<1>2. \A next, rest : Advance(next, rest) => adapter' = adapter
  BY DEF Advance
<1>3. \A next : Resolved(next) => adapter' = adapter
  BY DEF Resolved
<1>4. \A flags, writes : Continue(flags, writes) => adapter' = adapter
  BY <1>1, <1>2 DEF Continue, StartIpcpIfReady, NextRound
<1>5. SocksStep \/ TurnStep => adapter' = adapter
  BY <1>1, <1>2
     DEF SocksStep, SocksMethods, SocksLogin, SocksConnect, HttpAsks,
         HttpTunnel, Established, TurnStep, TurnAllocates, TurnAllocated,
         TurnAuthenticated, TurnPermitted, TurnPeerConnected, TurnBinds,
         TurnBound, Permit
<1>6. PppFrame => adapter' = adapter
  BY <1>1, <1>2, <1>4 DEF PppFrame, StartIpcpIfReady, NextRound
<1>7. SstpClient => adapter' = adapter
  BY <1>1, <1>2, <1>3, <1>6
     DEF SstpClient, SstpAsks, HttpAccepted, PppDone, SstpResolved, SynFrame,
         SstpTimesOut, TimesOut
<1>8. Environment => adapter' = adapter
  BY <1>1
     DEF Environment, SocketOpens, SocketRefused, ServerEnds, Answer,
         TargetSends, SessionCloses, DataSocketClosed, SstpServer,
         ServerAsksLcp, ServerAsksIpcp, ServerSendsNoise, ServerTakes
<1> QED
  BY <1>1, <1>2, <1>3, <1>5, <1>7, <1>8
     DEF ConnectionNext, ClientStep, Continues, GivesUp, ReadsEnd, WriteFails,
         NoResolver, ResolverRefuses, TimesOut, DialResolver, AskResolver,
         Pull

LEMMA EarlyStep == EarlyInv /\ [ConnectionNext]_connectionVars => EarlyInv'
<1> SUFFICES ASSUME EarlyInv, [ConnectionNext]_connectionVars, adapter' # "sstp"
             PROVE  EarlyOK'
  BY DEF EarlyInv
<1>1. CASE UNCHANGED connectionVars
  BY <1>1, FrameEarly
     DEF EarlyInv, connectionVars, attemptVars, choice, wire, history
<1>2. CASE adapter # "sstp" /\ ConnectionNext
  BY <1>2, NextEarly DEF EarlyInv
<1>3. CASE adapter = "sstp" /\ ConnectionNext
  <2>1. adapter' = adapter
    BY <1>3, AdapterStays
  <2> QED
    BY <2>1, <1>3
<1> QED
  BY <1>1, <1>2, <1>3

(***************************************************************************)
(* However many chunks the target sends before the adapter has handed its  *)
(* connection over, and however replies and chunks are cut and coalesced,  *)
(* the session starts with all of them, in order.                          *)
(***************************************************************************)
THEOREM EarlyBytes == ConnectionSpec => []EarlyBytesKept
<1>1. EarlyInv => EarlyBytesKept
  BY DEF EarlyInv, EarlyOK, EarlyBytesKept, Handed, Stream
<1> QED
  BY <1>1, EarlyInitially, EarlyStep, PTL DEF ConnectionSpec

----------------------------------------------------------------------------
(* Why an attempt fails (FailsOnlyForCause).                               *)
(*                                                                         *)
(* The negotiation of SSTP as its two ends see it: the flags of the        *)
(* adapter, the kinds of the messages on their way to it, the requests on  *)
(* their way to the server, and what the server has taken and sent.        *)

Opened(taken) ==
  /\ {"lcp", "lcpAcked", "lcpReq"} \subseteq taken
  /\ "pap required" \in taken => "papAck" \in taken

LcpAgreed(flags, kinds, asked, taken) ==
  /\ "localLcpAcked" \in flags \/ "lcp" \in asked \/ "lcpAck" \in kinds
  /\ "localLcpAcked" \in flags \/ "lcpAck" \in kinds => "lcp" \in taken
  /\ "lcpReq" \in taken => "peerLcpAcked" \in flags \/ "lcpReq" \in kinds
  /\ "peerLcpAcked" \in flags \/ "lcpReq" \in kinds => "lcpReq" \in taken
  /\ "peerLcpAcked" \in flags => "lcpAcked" \in asked \cup taken
  /\ "pap required" \in taken /\ "peerLcpAcked" \in flags
       => "papRequired" \in flags

PapAgreed(flags, kinds, asked, taken) ==
  /\ "pap" \in asked \/ "papAck" \in kinds => "papSent" \in flags
  /\ "papSent" \in flags =>
       /\ BothAcked(flags)
       /\ \/ "pap" \in asked \/ "papAck" \in kinds \/ "papNak" \in kinds
          \/ "papDone" \in flags
  /\ "papDone" \in flags => "papSent" \in flags
  /\ "papDone" \in flags \/ "papAck" \in kinds => "papAck" \in taken

IpcpAgreed(flags, kinds, asked, taken) ==
  /\ "ipcpStarted" \in flags =>
       /\ BothAcked(flags) /\ ("papRequired" \in flags => "papDone" \in flags)
       /\ "ipcp" \in asked \/ "ipcpNak" \in kinds \/ "sourceIp" \in flags
  /\ "ipcp" \in asked => "ipcpStarted" \in flags
  /\ "address" \in asked \/ "ipcpNak" \in kinds => Opened(taken)
  /\ "sourceIp" \in flags =>
       "address" \in asked \/ "ipcpAck" \in kinds \/ "ipcpFinished" \in flags

\* Whatever one end has asked for is answered, or on its way.
Agreed(flags, kinds, asked, taken) ==
  /\ LcpAgreed(flags, kinds, asked, taken)
  /\ PapAgreed(flags, kinds, asked, taken)
  /\ IpcpAgreed(flags, kinds, asked, taken)

\* And the adapter has asked for all it can.
MovedOn(flags) ==
  /\ BothAcked(flags) =>
       IF "papRequired" \in flags THEN "papSent" \in flags
                                  ELSE "ipcpStarted" \in flags
  /\ "papDone" \in flags => "ipcpStarted" \in flags

AgreedKinds == {"lcpAck", "lcpReq", "papAck", "papNak", "ipcpNak", "ipcpAck"}
AgreedRequests == {"lcp", "lcpAcked", "pap", "ipcp", "address"}
AgreedTaken == {"lcp", "lcpAcked", "lcpReq", "papAck", "pap required"}

(* Messages and requests that say nothing of the negotiation change none   *)
(* of this.                                                                *)
LEMMA AnotherAgrees ==
  ASSUME NEW flags, NEW kinds, NEW asked, NEW taken,
         NEW kinds2, NEW asked2, NEW taken2,
         Agreed(flags, kinds, asked, taken),
         \A m \in AgreedKinds : m \in kinds2 <=> m \in kinds,
         \A q \in AgreedRequests : q \in asked2 <=> q \in asked,
         \A t \in AgreedTaken : t \in taken2 <=> t \in taken
  PROVE  Agreed(flags, kinds2, asked2, taken2)
<1>. USE DEF AgreedKinds, AgreedRequests, AgreedTaken
<1>1. LcpAgreed(flags, kinds2, asked2, taken2)
  BY DEF Agreed, LcpAgreed
<1>2. PapAgreed(flags, kinds2, asked2, taken2)
  BY DEF Agreed, PapAgreed
<1>3. IpcpAgreed(flags, kinds2, asked2, taken2)
  BY DEF Agreed, IpcpAgreed, Opened
<1>. QED
  BY <1>1, <1>2, <1>3 DEF Agreed

(* The server asks for LCP, once.                                          *)
LEMMA AsksLcpAgrees ==
  ASSUME NEW flags, NEW kinds, NEW asked, NEW taken, NEW more,
         Agreed(flags, kinds, asked, taken), "lcpReq" \notin taken,
         \/ more = taken \cup {"lcpReq"}
         \/ more = taken \cup {"lcpReq", "pap required"}
  PROVE  Agreed(flags, kinds \cup {"lcpReq"}, asked, more)
<1>. DEFINE K == kinds \cup {"lcpReq"}
<1>1. LcpAgreed(flags, K, asked, more)
  BY DEF Agreed, LcpAgreed
<1>2. PapAgreed(flags, K, asked, more)
  BY DEF Agreed, PapAgreed
<1>3. IpcpAgreed(flags, K, asked, more)
  BY DEF Agreed, IpcpAgreed, LcpAgreed, Opened, BothAcked
<1>. QED
  BY <1>1, <1>2, <1>3 DEF Agreed

(* It answers a request, one for IPCP only in its network phase.           *)
LEMMA TakeAgrees ==
  ASSUME NEW flags, NEW kinds, NEW asked, NEW taken, NEW left,
         Agreed(flags, kinds, asked, taken),
         NEW request \in asked, left \subseteq asked,
         asked \subseteq left \cup {request},
         NEW message, NEW after,
         \/ request = "lcp" /\ message = "lcpAck"
         \/ request = "pap" /\ message \in {"papAck", "papNak"}
         \/ request = "ipcp" /\ Opened(taken) /\ message = "ipcpNak"
         \/ request = "address" /\ message = "ipcpAck"
         \/ request = "syn" /\ message \in {"synAck", "rst", "nothing"}
         \/ request \in {"lcpAcked", "ipcpAcked", "ack"} /\ message = "nothing",
         after = IF message = "nothing" THEN kinds ELSE kinds \cup {message}
  PROVE  Agreed(flags, after, left, taken \cup {request, message})
<1>. DEFINE more == taken \cup {request, message}
<1>1. CASE request = "lcp"
  <2>1. LcpAgreed(flags, after, left, more)
    BY <1>1 DEF Agreed, LcpAgreed
  <2>2. PapAgreed(flags, after, left, more)
    BY <1>1 DEF Agreed, PapAgreed
  <2>3. IpcpAgreed(flags, after, left, more)
    BY <1>1 DEF Agreed, IpcpAgreed, Opened
  <2>. QED
    BY <2>1, <2>2, <2>3 DEF Agreed
<1>2. CASE request = "pap"
  <2>1. LcpAgreed(flags, after, left, more)
    BY <1>2 DEF Agreed, LcpAgreed
  <2>2. PapAgreed(flags, after, left, more)
    BY <1>2 DEF Agreed, PapAgreed
  <2>3. IpcpAgreed(flags, after, left, more)
    BY <1>2 DEF Agreed, IpcpAgreed, Opened
  <2>. QED
    BY <2>1, <2>2, <2>3 DEF Agreed
<1>3. CASE request = "ipcp"
  <2>1. LcpAgreed(flags, after, left, more)
    BY <1>3 DEF Agreed, LcpAgreed
  <2>2. PapAgreed(flags, after, left, more)
    BY <1>3 DEF Agreed, PapAgreed
  <2>3. IpcpAgreed(flags, after, left, more)
    BY <1>3 DEF Agreed, IpcpAgreed, Opened
  <2>. QED
    BY <2>1, <2>2, <2>3 DEF Agreed
<1>4. CASE request = "address"
  <2>1. LcpAgreed(flags, after, left, more)
    BY <1>4 DEF Agreed, LcpAgreed
  <2>2. PapAgreed(flags, after, left, more)
    BY <1>4 DEF Agreed, PapAgreed
  <2>3. IpcpAgreed(flags, after, left, more)
    BY <1>4 DEF Agreed, IpcpAgreed, Opened
  <2>. QED
    BY <2>1, <2>2, <2>3 DEF Agreed
<1>5. CASE message \in {"synAck", "rst", "nothing"}
  <2>1. LcpAgreed(flags, after, left, more)
    BY <1>5 DEF Agreed, LcpAgreed
  <2>2. PapAgreed(flags, after, left, more)
    BY <1>5 DEF Agreed, PapAgreed
  <2>3. IpcpAgreed(flags, after, left, more)
    BY <1>5 DEF Agreed, IpcpAgreed, Opened
  <2>. QED
    BY <2>1, <2>2, <2>3 DEF Agreed
<1>. QED
  BY <1>1, <1>2, <1>3, <1>4, <1>5

(* The adapter reads an acknowledgement of its LCP request, ...            *)
LEMMA LcpAckAgrees ==
  ASSUME NEW flags, NEW kinds, NEW asked, NEW taken, NEW rest,
         Agreed(flags, kinds, asked, taken), kinds = rest \cup {"lcpAck"}
  PROVE  Agreed(flags \cup {"localLcpAcked"}, rest, asked, taken)
<1>. DEFINE F == flags \cup {"localLcpAcked"}
<1>1. LcpAgreed(F, rest, asked, taken)
  BY DEF Agreed, LcpAgreed
<1>2. PapAgreed(F, rest, asked, taken)
  BY DEF Agreed, PapAgreed, BothAcked
<1>3. IpcpAgreed(F, rest, asked, taken)
  BY DEF Agreed, IpcpAgreed, BothAcked
<1>. QED
  BY <1>1, <1>2, <1>3 DEF Agreed

(* ... the server's request, ...                                           *)
LEMMA LcpReqAgrees ==
  ASSUME NEW flags, NEW kinds, NEW asked, NEW taken, NEW rest, NEW required,
         Agreed(flags, kinds, asked, taken), kinds = rest \cup {"lcpReq"},
         required = IF "pap required" \in taken THEN {"papRequired"} ELSE {},
         NEW asked2, asked2 = asked \cup {"lcpAcked"}
  PROVE  Agreed(flags \cup {"peerLcpAcked"} \cup required, rest, asked2, taken)
<1>. DEFINE F == flags \cup {"peerLcpAcked"} \cup required
<1>1. LcpAgreed(F, rest, asked2, taken)
  BY DEF Agreed, LcpAgreed
<1>2. PapAgreed(F, rest, asked2, taken)
  BY DEF Agreed, PapAgreed, BothAcked
<1>3. IpcpAgreed(F, rest, asked2, taken)
  BY DEF Agreed, IpcpAgreed, BothAcked, LcpAgreed
<1>. QED
  BY <1>1, <1>2, <1>3 DEF Agreed

(* ... the answer to its credentials, ...                                  *)
LEMMA PapAckAgrees ==
  ASSUME NEW flags, NEW kinds, NEW asked, NEW taken, NEW rest,
         Agreed(flags, kinds, asked, taken), kinds = rest \cup {"papAck"}
  PROVE  Agreed(flags \cup {"papDone"}, rest, asked, taken)
<1>. DEFINE F == flags \cup {"papDone"}
<1>1. LcpAgreed(F, rest, asked, taken)
  BY DEF Agreed, LcpAgreed
<1>2. PapAgreed(F, rest, asked, taken)
  BY DEF Agreed, PapAgreed, BothAcked
<1>3. IpcpAgreed(F, rest, asked, taken)
  BY DEF Agreed, IpcpAgreed, BothAcked
<1>. QED
  BY <1>1, <1>2, <1>3 DEF Agreed

(* ... or the address that the server offers.                              *)
LEMMA IpcpNakAgrees ==
  ASSUME NEW flags, NEW kinds, NEW asked, NEW taken, NEW rest,
         Agreed(flags, kinds, asked, taken), kinds = rest \cup {"ipcpNak"},
         NEW asked2, asked2 = asked \cup {"address"}
  PROVE  Agreed(flags \cup {"sourceIp"}, rest, asked2, taken)
<1>. DEFINE F == flags \cup {"sourceIp"}
<1>1. LcpAgreed(F, rest, asked2, taken)
  BY DEF Agreed, LcpAgreed
<1>2. PapAgreed(F, rest, asked2, taken)
  BY DEF Agreed, PapAgreed, BothAcked
<1>3. IpcpAgreed(F, rest, asked2, taken)
  BY DEF Agreed, IpcpAgreed, BothAcked, Opened
<1>. QED
  BY <1>1, <1>2, <1>3 DEF Agreed

(* It sends its credentials when they are due, ...                         *)
LEMMA PapSentAgrees ==
  ASSUME NEW flags, NEW kinds, NEW asked, NEW taken,
         Agreed(flags, kinds, asked, taken), PapReady(flags),
         NEW asked2, asked2 = asked \cup {"pap"}
  PROVE  /\ Agreed(flags \cup {"papSent"}, kinds, asked2, taken)
         /\ MovedOn(flags \cup {"papSent"})
<1>. DEFINE F == flags \cup {"papSent"}
<1>1. LcpAgreed(F, kinds, asked2, taken)
  BY DEF Agreed, LcpAgreed
<1>2. PapAgreed(F, kinds, asked2, taken)
  BY DEF Agreed, PapAgreed, BothAcked, PapReady
<1>3. IpcpAgreed(F, kinds, asked2, taken)
  BY DEF Agreed, IpcpAgreed, BothAcked, Opened
<1>4. MovedOn(F)
  BY DEF Agreed, PapAgreed, MovedOn, PapReady, BothAcked
<1>. QED
  BY <1>1, <1>2, <1>3, <1>4 DEF Agreed

(* ... and starts IPCP as soon as it can.                                  *)
LEMMA IpcpStartedAgrees ==
  ASSUME NEW flags, NEW kinds, NEW asked, NEW taken,
         Agreed(flags, kinds, asked, taken), IpcpReady(flags),
         ~PapReady(flags), NEW asked2, asked2 = asked \cup {"ipcp"}
  PROVE  /\ Agreed(flags \cup {"ipcpStarted"}, kinds, asked2, taken)
         /\ MovedOn(flags \cup {"ipcpStarted"})
<1>. DEFINE F == flags \cup {"ipcpStarted"}
<1>1. LcpAgreed(F, kinds, asked2, taken)
  BY DEF Agreed, LcpAgreed
<1>2. PapAgreed(F, kinds, asked2, taken)
  BY DEF Agreed, PapAgreed, BothAcked
<1>3. IpcpAgreed(F, kinds, asked2, taken)
  BY DEF Agreed, IpcpAgreed, BothAcked, IpcpReady, Opened
<1>4. MovedOn(F)
  BY DEF Agreed, PapAgreed, MovedOn, PapReady, IpcpReady, BothAcked
<1>. QED
  BY <1>1, <1>2, <1>3, <1>4 DEF Agreed

LEMMA NothingToStart ==
  ASSUME NEW flags, NEW kinds, NEW asked, NEW taken,
         Agreed(flags, kinds, asked, taken), ~IpcpReady(flags),
         ~PapReady(flags)
  PROVE  MovedOn(flags)
BY DEF Agreed, PapAgreed, MovedOn, PapReady, IpcpReady, BothAcked

(* Its request for IPCP finds the server in its network phase, if its      *)
(* acknowledgement has arrived.                                            *)
LEMMA IpcpFindsOpened ==
  ASSUME NEW flags, NEW kinds, NEW asked, NEW taken,
         Agreed(flags, kinds, asked, taken), "ipcp" \in asked,
         "lcpAcked" \in taken
  PROVE  Opened(taken)
BY DEF Agreed, LcpAgreed, PapAgreed, IpcpAgreed, Opened, BothAcked

(* A negotiation in which nobody is to say anything has finished.          *)
LEMMA SilenceIsFinished ==
  ASSUME NEW flags, NEW taken, Agreed(flags, {}, {}, taken), MovedOn(flags),
         "lcpReq" \in taken
  PROVE  "ipcpFinished" \in flags
BY DEF Agreed, LcpAgreed, PapAgreed, IpcpAgreed, MovedOn, BothAcked

----------------------------------------------------------------------------
(* The messages of a stream of halves that starts with a whole one.        *)

SstpMessage == {"accepted", "refused", "lcpAck", "lcpReq", "papAck", "papNak",
                "ipcpNak", "ipcpAck", "ipcpReq", "noise", "synAck", "rst",
                "address"}
SstpNumber == Nat \cup {"none", "pap", "other"}
SstpHalf == [is : SstpMessage, n : SstpNumber, part : {1, 2}]
WholeMessages(s) == \E c \in Nat : Len(s) = 2 * c
Heads(s) == {s[2 * k - 1] : k \in 1..(Len(s) \div 2)}
Kinds(heads) == {h.is : h \in heads}

LEMMA SstpHalvesType ==
  ASSUME NEW m \in SstpMessage, NEW n \in SstpNumber
  PROVE  /\ Halves(m, n) \in Seq(SstpHalf) /\ Len(Halves(m, n)) = 2
         /\ Halves(m, n)[1] = Half(m, n, 1)
         /\ Half(m, n, 1).is = m /\ Half(m, n, 1).n = n
  BY DEF Halves, Half, SstpHalf

LEMMA NoHeads == WholeMessages(<<>>) /\ Heads(<<>>) = {}
<1>1. Len(<<>>) = 2 * 0 /\ 0 \in Nat /\ 1..(Len(<<>>) \div 2) = {}
  OBVIOUS
<1>. QED
  BY <1>1 DEF WholeMessages, Heads

(* A message more, behind the others.                                      *)
LEMMA HeadsMore ==
  ASSUME NEW s \in Seq(SstpHalf), WholeMessages(s),
         NEW m \in SstpMessage, NEW n \in SstpNumber
  PROVE  /\ s \o Halves(m, n) \in Seq(SstpHalf)
         /\ WholeMessages(s \o Halves(m, n))
         /\ Heads(s \o Halves(m, n)) = Heads(s) \cup {Half(m, n, 1)}
<1>. DEFINE h == Halves(m, n)
            t == s \o h
<1>1. PICK c \in Nat : Len(s) = 2 * c
  BY DEF WholeMessages
<1>2. h \in Seq(SstpHalf) /\ Len(h) = 2 /\ h[1] = Half(m, n, 1)
  BY SstpHalvesType
<1>. HIDE DEF h
<1>3. /\ t \in Seq(SstpHalf) /\ Len(t) = 2 * c + 2
      /\ \A i \in 1..(2 * c) : t[i] = s[i]
      /\ t[2 * c + 1] = h[1]
  <2>1. /\ t \in Seq(SstpHalf) /\ Len(t) = Len(s) + Len(h)
        /\ \A i \in 1..(Len(s) + Len(h)) :
             t[i] = IF i <= Len(s) THEN s[i] ELSE h[i - Len(s)]
    BY <1>2, ConcatProperties
  <2>. HIDE DEF t
  <2>2. PICK d \in Nat : d = 2 * c
    OBVIOUS
  <2>3. t[2 * c + 1] = h[1]
    <3>1. d + 1 \in 1..(d + 2) /\ ~(d + 1 <= d) /\ (d + 1) - d = 1
      OBVIOUS
    <3>2. t[d + 1] = h[1]
      BY ONLY <2>1, <2>2, <3>1, <1>1, <1>2
    <3>. QED
      BY <3>2, <2>2
  <2>. QED
    BY <2>1, <2>3, <1>1, <1>2
<1>. HIDE DEF t
<1>4. Len(s) \div 2 = c /\ Len(t) \div 2 = c + 1 /\ Len(t) = 2 * (c + 1)
  BY <1>1, <1>3
<1>5. \A k \in 1..c : 2 * k - 1 \in 1..(2 * c) /\ k \in 1..(c + 1)
  OBVIOUS
<1>6. c + 1 \in 1..(c + 1) /\ 2 * (c + 1) - 1 = 2 * c + 1
  OBVIOUS
<1>7. \A k \in 1..(c + 1) : k \in 1..c \/ k = c + 1
  OBVIOUS
<1>8. Heads(t) = Heads(s) \cup {h[1]}
  <2>1. Heads(t) = {t[2 * k - 1] : k \in 1..(c + 1)}
    BY <1>4 DEF Heads
  <2>2. Heads(s) = {s[2 * k - 1] : k \in 1..c}
    BY <1>4 DEF Heads
  <2>3. \A k \in 1..c : t[2 * k - 1] = s[2 * k - 1]
    BY <1>3, <1>5
  <2>4. t[2 * (c + 1) - 1] = h[1]
    BY <1>3, <1>6
  <2>. QED
    BY <2>1, <2>2, <2>3, <2>4, <1>5, <1>6, <1>7
<1>9. c + 1 \in Nat
  OBVIOUS
<1>. QED
  BY <1>2, <1>3, <1>4, <1>8, <1>9 DEF WholeMessages, t, h

(* The length of two sequences, one behind the other.                      *)
LEMMA LenConcat ==
  ASSUME NEW S, NEW s \in Seq(S), NEW t \in Seq(S)
  PROVE  Len(s \o t) = Len(s) + Len(t)
  BY ConcatProperties

LEMMA LenTwoMore ==
  ASSUME NEW S, NEW s \in Seq(S), NEW t \in Seq(S), Len(t) = 2
  PROVE  Len(s \o t) = Len(s) + 2
<1>1. Len(s \o t) = Len(s) + Len(t)
  BY LenConcat
<1>. QED
  BY <1>1

(* What is behind the first two elements of a sequence.                    *)
LEMMA BehindTheFirst ==
  ASSUME NEW S, NEW b \in Seq(S), NEW n \in Nat, Len(b) = n, n >= 2
  PROVE  /\ SubSeq(b, 3, n) \in Seq(S) /\ Len(SubSeq(b, 3, n)) = n - 2
         /\ \A i \in 1..(n - 2) : SubSeq(b, 3, n)[i] = b[i + 2]
<1>1. \A i \in 3..n : b[i] \in S
  OBVIOUS
<1>2. /\ SubSeq(b, 3, n) \in Seq(S)
      /\ Len(SubSeq(b, 3, n)) = IF 3 <= n THEN n - 3 + 1 ELSE 0
      /\ \A i \in 1..(n - 3 + 1) : SubSeq(b, 3, n)[i] = b[3 + i - 1]
  <2>1. 3 \in Int /\ n \in Int
    OBVIOUS
  <2>. QED
    BY ONLY <1>1, <2>1, SubSeqProperties
<1>3. n - 3 + 1 = n - 2 /\ \A i \in 1..(n - 2) : 3 + i - 1 = i + 2
  OBVIOUS
<1>4. (IF 3 <= n THEN n - 3 + 1 ELSE 0) = n - 2
  OBVIOUS
<1>. DEFINE r == SubSeq(b, 3, n)
<1>5. /\ r \in Seq(S)
      /\ Len(r) = n - 2
      /\ \A i \in 1..(n - 2) : r[i] = b[3 + i - 1]
  BY ONLY <1>2, <1>3, <1>4
<1>. HIDE DEF r
<1>6. \A i \in 1..(n - 2) : r[i] = b[i + 2]
  BY <1>5, <1>3
<1>. QED
  BY <1>5, <1>6 DEF r

(* The first message, and those behind it.                                 *)
LEMMA HeadsRest ==
  ASSUME NEW b \in Seq(SstpHalf), NEW a \in Seq(SstpHalf),
         WholeMessages(b \o a), Len(b) >= 2
  PROVE  /\ SubSeq(b, 3, Len(b)) \in Seq(SstpHalf)
         /\ WholeMessages(SubSeq(b, 3, Len(b)) \o a)
         /\ Heads(b \o a) = Heads(SubSeq(b, 3, Len(b)) \o a) \cup {b[1]}
         /\ b[1] \in SstpHalf
<1>. DEFINE s == b \o a
            r == SubSeq(b, 3, Len(b))
            t == r \o a
<1>1. PICK c \in Nat : Len(s) = 2 * c
  BY DEF WholeMessages
<1>2. Len(b) \in Nat /\ Len(a) \in Nat /\ 1 \in 1..Len(b) /\ b[1] \in SstpHalf
  OBVIOUS
<1>3. /\ s \in Seq(SstpHalf) /\ Len(s) = Len(b) + Len(a)
      /\ \A i \in 1..(Len(b) + Len(a)) :
           s[i] = IF i <= Len(b) THEN b[i] ELSE a[i - Len(b)]
  BY ConcatProperties
<1>4. /\ r \in Seq(SstpHalf) /\ Len(r) = Len(b) - 2
      /\ \A i \in 1..(Len(b) - 2) : r[i] = b[i + 2]
  BY <1>2, BehindTheFirst
<1>. HIDE DEF r
<1>5. /\ t \in Seq(SstpHalf) /\ Len(t) = (Len(b) - 2) + Len(a)
      /\ \A i \in 1..((Len(b) - 2) + Len(a)) :
           t[i] = IF i <= Len(b) - 2 THEN r[i] ELSE a[i - (Len(b) - 2)]
  <2>1. /\ t \in Seq(SstpHalf) /\ Len(t) = Len(r) + Len(a)
        /\ \A i \in 1..(Len(r) + Len(a)) :
             t[i] = IF i <= Len(r) THEN r[i] ELSE a[i - Len(r)]
    BY <1>4, ConcatProperties
  <2>. QED
    BY <2>1, <1>4
<1>. HIDE DEF s, t
<1>6. c >= 1 /\ c - 1 \in Nat /\ Len(t) = 2 * (c - 1)
      /\ Len(s) \div 2 = c /\ Len(t) \div 2 = c - 1
  <2>1. 2 * c = Len(b) + Len(a) /\ Len(t) = 2 * c - 2
    <3>1. Len(s) = Len(b) + Len(a)
      BY <1>3
    <3>2. Len(t) = (Len(b) - 2) + Len(a)
      BY <1>5
    <3>. QED
      BY ONLY <3>1, <3>2, <1>1, <1>2
  <2>2. c >= 1 /\ c - 1 \in Nat
    BY <2>1, <1>2
  <2>3. Len(t) = 2 * (c - 1)
    BY <2>1
  <2>4. (2 * c) \div 2 = c /\ (2 * (c - 1)) \div 2 = c - 1
    BY <2>2
  <2>. QED
    BY <2>2, <2>3, <2>4, <1>1
<1>7. \A i \in 1..(2 * (c - 1)) : t[i] = s[i + 2]
  <2>. SUFFICES ASSUME NEW i \in 1..(2 * (c - 1)) PROVE t[i] = s[i + 2]
    OBVIOUS
  <2>1. /\ i \in 1..((Len(b) - 2) + Len(a)) /\ i + 2 \in 1..(Len(b) + Len(a))
        /\ (i <= Len(b) - 2 <=> i + 2 <= Len(b))
        /\ i - (Len(b) - 2) = (i + 2) - Len(b)
        /\ (i <= Len(b) - 2 => i \in 1..(Len(b) - 2))
    BY <1>2, <1>5, <1>6
  <2>. QED
    BY <2>1, <1>3, <1>4, <1>5
<1>8. s[1] = b[1]
  <2>1. 1 \in 1..(Len(b) + Len(a)) /\ 1 <= Len(b)
    BY <1>2
  <2>. QED
    BY <2>1, <1>3
<1>9. Heads(s) = Heads(t) \cup {s[1]}
  <2>1. Heads(t) = {t[2 * k - 1] : k \in 1..(c - 1)}
    BY <1>6 DEF Heads
  <2>2. Heads(s) = {s[2 * k - 1] : k \in 1..c}
    BY <1>6 DEF Heads
  <2>3. \A k \in 1..(c - 1) : /\ 2 * k - 1 \in 1..(2 * (c - 1))
                              /\ (2 * k - 1) + 2 = 2 * (k + 1) - 1
                              /\ k + 1 \in 1..c
    BY <1>6
  <2>4. \A k \in 1..c : k = 1 \/ (k - 1 \in 1..(c - 1) /\ (k - 1) + 1 = k)
    BY <1>6
  <2>5. \A k \in 1..(c - 1) : t[2 * k - 1] = s[2 * (k + 1) - 1]
    BY <2>3, <1>7
  <2>6. 1 \in 1..c /\ 2 * 1 - 1 = 1
    BY <1>6
  <2>7. Heads(t) \subseteq Heads(s)
    BY <2>1, <2>2, <2>3, <2>5
  <2>8. s[1] \in Heads(s)
    <3>1. s[2 * 1 - 1] \in {s[2 * k - 1] : k \in 1..c}
      BY <2>6
    <3>. QED
      BY <3>1, <2>2, <2>6
  <2>9. \A k \in 1..c : s[2 * k - 1] \in Heads(t) \cup {s[1]}
    <3>. SUFFICES ASSUME NEW k \in 1..c, k # 1
                  PROVE  s[2 * k - 1] \in Heads(t)
      BY <2>6
    <3>1. k - 1 \in 1..(c - 1) /\ (k - 1) + 1 = k
      BY <2>4
    <3>2. t[2 * (k - 1) - 1] = s[2 * k - 1]
      <4>. DEFINE j == k - 1
      <4>1. j \in 1..(c - 1) /\ j + 1 = k
        BY <3>1
      <4>. HIDE DEF j
      <4>2. t[2 * j - 1] = s[2 * k - 1]
        BY <4>1, <2>5
      <4>. QED
        BY <4>2 DEF j
    <3>. QED
      BY <3>1, <3>2, <2>1
  <2>. QED
    BY <2>2, <2>7, <2>8, <2>9
<1>. QED
  BY <1>2, <1>4, <1>5, <1>6, <1>8, <1>9 DEF WholeMessages, s, t, r

----------------------------------------------------------------------------
(* The queue of requests: the adapter acknowledges the server's LCP before *)
(* it asks for IPCP.                                                       *)

AckedFirst(queue, taken) ==
  \A i \in DOMAIN queue :
    queue[i] = "ipcp" => \/ "lcpAcked" \in taken
                         \/ \E j \in 1..(i - 1) : queue[j] = "lcpAcked"

LEMMA AckedFirstMore ==
  ASSUME NEW S, NEW queue \in Seq(S), NEW writes \in Seq(S), NEW taken,
         AckedFirst(queue, taken),
         "ipcp" \in Range(writes) => "lcpAcked" \in taken \cup Range(queue)
  PROVE  AckedFirst(queue \o writes, taken)
<1>. DEFINE q == queue \o writes
<1>1. /\ q \in Seq(S) /\ Len(q) = Len(queue) + Len(writes)
      /\ \A i \in 1..(Len(queue) + Len(writes)) :
           q[i] = IF i <= Len(queue) THEN queue[i] ELSE writes[i - Len(queue)]
  BY ConcatProperties
<1>. HIDE DEF q
<1>. SUFFICES ASSUME NEW i \in DOMAIN q, q[i] = "ipcp", "lcpAcked" \notin taken
              PROVE  \E j \in 1..(i - 1) : q[j] = "lcpAcked"
  BY DEF AckedFirst, q
<1>2. /\ Len(queue) \in Nat /\ Len(writes) \in Nat
      /\ DOMAIN queue = 1..Len(queue) /\ DOMAIN writes = 1..Len(writes)
      /\ i \in 1..(Len(queue) + Len(writes))
  BY <1>1
<1>3. CASE i <= Len(queue)
  <2>1. i \in 1..Len(queue) /\ q[i] = queue[i]
    BY <1>1, <1>2, <1>3
  <2>2. PICK j \in 1..(i - 1) : queue[j] = "lcpAcked"
    BY <2>1, <1>2 DEF AckedFirst
  <2>3. j \in 1..(Len(queue) + Len(writes)) /\ j <= Len(queue)
    BY <1>2, <1>3
  <2>4. q[j] = queue[j]
    BY <2>3, <1>1
  <2>. QED
    BY <2>2, <2>4
<1>4. CASE i > Len(queue)
  <2>1. i - Len(queue) \in 1..Len(writes) /\ q[i] = writes[i - Len(queue)]
    BY <1>1, <1>2, <1>4
  <2>2. "ipcp" \in Range(writes)
    BY <2>1, <1>2 DEF Range
  <2>3. PICK j \in 1..Len(queue) : queue[j] = "lcpAcked"
    BY <2>2, <1>2 DEF Range
  <2>4. j \in 1..(i - 1) /\ j \in 1..(Len(queue) + Len(writes)) /\ j <= Len(queue)
    BY <1>2, <1>4
  <2>5. q[j] = queue[j]
    BY <2>4, <1>1
  <2>. QED
    BY <2>3, <2>4, <2>5
<1>. QED
  BY <1>2, <1>3, <1>4

LEMMA AckedFirstLess ==
  ASSUME NEW S, NEW queue \in Seq(S), queue # <<>>, NEW taken, NEW m,
         AckedFirst(queue, taken)
  PROVE  /\ AckedFirst(Tail(queue), taken \cup {Head(queue), m})
         /\ Head(queue) = "ipcp" => "lcpAcked" \in taken
<1>. DEFINE t == Tail(queue)
<1>1. /\ Len(queue) \in Nat /\ Len(queue) >= 1
      /\ t \in Seq(S) /\ Len(t) = Len(queue) - 1
      /\ \A i \in 1..Len(t) : t[i] = queue[i + 1]
      /\ Head(queue) = queue[1]
  BY HeadTailProperties
<1>. HIDE DEF t
<1>2. DOMAIN queue = 1..Len(queue) /\ DOMAIN t = 1..Len(t) /\ 1 \in 1..Len(queue)
      /\ 1..(1 - 1) = {}
  BY <1>1
<1>3. Head(queue) = "ipcp" => "lcpAcked" \in taken
  BY <1>1, <1>2 DEF AckedFirst
<1>4. ASSUME NEW i \in 1..Len(t), t[i] = "ipcp",
             "lcpAcked" \notin taken \cup {Head(queue), m}
      PROVE  \E j \in 1..(i - 1) : t[j] = "lcpAcked"
  <2>1. i + 1 \in 1..Len(queue) /\ queue[i + 1] = "ipcp" /\ (i + 1) - 1 = i
    BY <1>1, <1>4
  <2>2. PICK j \in 1..i : queue[j] = "lcpAcked"
    BY <2>1, <1>2, <1>4 DEF AckedFirst
  <2>3. j # 1
    BY <2>2, <1>1, <1>4
  <2>4. PICK k \in 1..(i - 1) : j = k + 1
    <3>1. j - 1 \in 1..(i - 1) /\ j = (j - 1) + 1
      BY <2>3
    <3>. QED
      BY <3>1
  <2>5. k \in 1..Len(t)
    BY <1>1
  <2>6. t[k] = "lcpAcked"
    BY <2>2, <2>4, <2>5, <1>1
  <2>. QED
    BY <2>6
<1>. QED
  BY <1>2, <1>3, <1>4 DEF AckedFirst, t

LEMMA RangeOfTail ==
  ASSUME NEW S, NEW queue \in Seq(S), queue # <<>>
  PROVE  /\ Tail(queue) \in Seq(S) /\ Head(queue) \in Range(queue)
         /\ Head(queue) \in S
         /\ Range(Tail(queue)) \subseteq Range(queue)
         /\ Range(queue) \subseteq Range(Tail(queue)) \cup {Head(queue)}
<1>. DEFINE t == Tail(queue)
<1>1. /\ Len(queue) \in Nat /\ Len(queue) >= 1
      /\ t \in Seq(S) /\ Len(t) = Len(queue) - 1
      /\ \A i \in 1..Len(t) : t[i] = queue[i + 1]
      /\ Head(queue) = queue[1] /\ Head(queue) \in S
  BY HeadTailProperties
<1>. HIDE DEF t
<1>2. Range(queue) = {queue[i] : i \in 1..Len(queue)}
      /\ Range(t) = {t[i] : i \in 1..Len(t)}
  BY <1>1 DEF Range
<1>3. \A i \in 1..Len(t) : i + 1 \in 1..Len(queue)
  BY <1>1
<1>4. \A i \in 1..Len(queue) : i = 1 \/ \E k \in 1..Len(t) : i = k + 1
  <2>. SUFFICES ASSUME NEW i \in 1..Len(queue), i # 1
                PROVE  \E k \in 1..Len(t) : i = k + 1
    OBVIOUS
  <2>1. i - 1 \in 1..Len(t) /\ i = (i - 1) + 1
    BY <1>1
  <2>. QED
    BY <2>1
<1>5. 1 \in 1..Len(queue)
  BY <1>1
<1>6. Head(queue) \in Range(queue) /\ Range(t) \subseteq Range(queue)
  BY <1>1, <1>2, <1>3, <1>5
<1>7. ASSUME NEW i \in 1..Len(queue)
      PROVE  queue[i] \in Range(t) \cup {Head(queue)}
  BY <1>1, <1>2, <1>4
<1>. QED
  BY <1>1, <1>2, <1>6, <1>7 DEF t

----------------------------------------------------------------------------
(* What an SSTP attempt expects, phase by phase.                           *)

SstpRequest == {"http", "lcp", "lcpAcked", "pap", "ipcp", "address",
                "ipcpAcked", "syn", "ack"}
SstpTrying == {"control", "http", "ppp", "assigned", "resolve", "query", "syn"}

\* The server's messages that have not been used.
Coming == IF phase \in {"resolve", "query"} THEN arriving["main"]
                                            ELSE buffered \o arriving["main"]

SstpTyped ==
  /\ owed \in [Link -> Seq(SstpRequest \cup {"query"})]
  /\ owed["main"] \in Seq(SstpRequest) /\ owed["dns"] \in Seq({"query"})
  /\ owed["data"] = <<>>
  /\ arriving \in [Link -> Seq(SstpHalf)] /\ buffered \in Seq(SstpHalf)
  /\ through = FALSE
  /\ WholeMessages(Coming)

\* Its request for LCP says whether the server wants credentials.
AuthAsked(heads, taken) ==
  /\ "pap required" \in taken => "lcpReq" \in taken
  /\ \A h \in heads :
       h.is = "lcpReq" => /\ h.n \in {"none", "pap", "other"}
                          /\ "pap required" \in taken <=> h.n # "none"

Answered(flags, heads, queue, taken) ==
  /\ Agreed(flags, Kinds(heads), Range(queue), taken)
  /\ AckedFirst(queue, taken)
  /\ AuthAsked(heads, taken)

Negotiating(flags, heads, queue, taken) ==
  Answered(flags, heads, queue, taken) /\ MovedOn(flags)

SynExpected(heads, queue, taken) ==
  IF queue # <<>> THEN queue[Len(queue)] = "syn"
  ELSE "synAck" \in Kinds(heads) \/ "rst" \in taken \/ "ipcpAcked" \notin taken

ResolverExpected ==
  Len(arriving["dns"]) + 2 * Len(owed["dns"])
    + (IF phase = "query" THEN Len(buffered) ELSE 0)
  = IF phase = "query" THEN 2 ELSE 0

SstpExpects ==
  /\ phase \in SstpTrying
  /\ SstpTyped
  /\ ResolverExpected
  /\ phase = "control" => /\ owed["main"] = <<>> /\ arriving["main"] = <<>>
                          /\ buffered = <<>> /\ server = {}
  /\ phase \in {"control", "http"} => ppp = {}
  /\ phase \in {"http", "ppp"} =>
       Negotiating(ppp, Heads(Coming), owed["main"], server)
  /\ phase = "ppp" => "ipcpFinished" \notin ppp
  /\ phase = "resolve" => buffered = <<>>
  /\ phase = "syn" => SynExpected(Heads(Coming), owed["main"], server)

SstpInv == adapter = "sstp" => SstpExpects \/ phase \in Over \cup {"open"}

\* The halves of replies that TURN's server and its resolver owe.
Replies == [resolve |-> 0, query |-> 2, control |-> 0, allocate |-> 2,
            authenticate |-> 2, permission |-> 4, peer |-> 2]

TurnExpects ==
  /\ phase \in DOMAIN Replies =>
       Len(buffered) + Len(arriving[From]) + 2 * Len(owed[From])
         = Replies[phase]
  /\ phase \in {"resolve", "query"} =>
       owed["main"] = <<>> /\ arriving["main"] = <<>>

TurnInv == adapter = "turn" => TurnExpects

----------------------------------------------------------------------------
(* TURN: the replies are counted.                                          *)
LEMMA RepliesAre ==
  /\ DOMAIN Replies = {"resolve", "query", "control", "allocate",
                       "authenticate", "permission", "peer"}
  /\ Replies["resolve"] = 0 /\ Replies["query"] = 2
  /\ Replies["control"] = 0 /\ Replies["allocate"] = 2
  /\ Replies["authenticate"] = 2 /\ Replies["permission"] = 4
  /\ Replies["peer"] = 2
  BY DEF Replies

LEMMA EarlyLengths ==
  EarlyOK => /\ buffered \in Seq(HalfSet) /\ Len(buffered) \in Nat
             /\ \A l \in Link : /\ owed[l] \in Seq(Request)
                                /\ Len(owed[l]) \in Nat
                                /\ arriving[l] \in Seq(HalfSet)
                                /\ Len(arriving[l]) \in Nat
  BY LenProperties DEF EarlyOK, EarlyTypeOK

LEMMA OverTurn == phase' \in Over \cup {"open", "data", "bind"} => TurnExpects'
  BY RepliesAre DEF TurnExpects, Over

LEMMA FrameTurn ==
  TurnExpects /\ UNCHANGED <<phase, wire, buffered>> => TurnExpects'
  BY DEF TurnExpects, wire, From

(* A step of the dialogue on the control connection.                       *)
LEMMA AskTurn ==
  ASSUME EarlyOK, adapter = "turn", TurnExpects, NEW next \in DOMAIN Replies,
         NEW reqs \in Seq(Request),
         phase \in {"control", "allocate", "authenticate"}, phase' = next,
         next \in {"allocate", "authenticate", "permission"},
         phase # "control" => Len(buffered) >= 2,
         Ask("main", reqs), arriving' = arriving,
         \/ buffered' = <<>> /\ phase = "control"
         \/ buffered' = Rest,
         2 * Len(reqs) = Replies[next]
  PROVE  TurnExpects'
<1>1. From = "main" /\ From' = "main"
  BY DEF From
<1>2. /\ buffered \in Seq(HalfSet) /\ Len(buffered) \in Nat
      /\ Len(arriving["main"]) \in Nat
      /\ owed["main"] \in Seq(Request) /\ Len(owed["main"]) \in Nat
  BY EarlyLengths DEF Link
<1>3. /\ Len(buffered) + Len(arriving["main"]) + 2 * Len(owed["main"])
           = Replies[phase]
      /\ Replies[phase] = IF phase = "control" THEN 0 ELSE 2
  BY <1>1, RepliesAre DEF TurnExpects
<1>4. /\ Len(arriving["main"]) = 0 /\ Len(owed["main"]) = 0
      /\ Len(buffered) = Replies[phase] /\ Len(buffered) < 3
  <2>. DEFINE x == Len(buffered)
              y == Len(arriving["main"])
              z == Len(owed["main"])
  <2>1. x \in Nat /\ y \in Nat /\ z \in Nat /\ x + y + 2 * z = Replies[phase]
    BY <1>2, <1>3
  <2>2. Replies[phase] = 0 \/ (Replies[phase] = 2 /\ x >= 2)
    BY <1>3
  <2>. HIDE DEF x, y, z
  <2>3. y = 0 /\ z = 0 /\ x < 3 /\ x = Replies[phase]
    BY ONLY <2>1, <2>2
  <2>. QED
    BY <2>3 DEF x, y, z
<1>5. Len(buffered') = 0
  <2>1. CASE phase = "control" /\ buffered' = <<>>
    BY <2>1
  <2>2. CASE buffered' = Rest
    <3>2. Rest = <<>>
      BY <1>2, <1>4, SubSeqEmpty DEF Rest
    <3>. QED
      BY <2>2, <3>2
  <2>. QED
    BY <2>1, <2>2
<1>6. owed'["main"] = owed["main"] \o reqs
  BY DEF Ask, EarlyOK, EarlyTypeOK, Link
<1>7. owed["main"] = <<>>
  BY <1>2, <1>4, EmptySeq
<1>8. owed'["main"] = reqs
  BY <1>6, <1>7, ConcatEmptySeq
<1>9. Len(reqs) \in Nat
  BY LenProperties
<1>. QED
  BY <1>1, <1>4, <1>5, <1>8, <1>9 DEF TurnExpects

LEMMA TurnStepExpects ==
  EarlyOK /\ adapter = "turn" /\ TurnExpects /\ TurnStep => TurnExpects'
<1> SUFFICES ASSUME EarlyOK, adapter = "turn", TurnExpects, TurnStep
             PROVE  TurnExpects'
  OBVIOUS
<1>f. \A why : Fail(why) => TurnExpects'
  BY OverTurn DEF Fail, Over
<1>s. /\ <<"allocate">> \in Seq(Request) /\ Len(<<"allocate">>) = 1
      /\ <<"authenticate">> \in Seq(Request) /\ Len(<<"authenticate">>) = 1
      /\ <<"permission", "peer">> \in Seq(Request)
      /\ Len(<<"permission", "peer">>) = 2
  BY DEF Request, Before, SessionReading
<1>t. /\ 2 * Len(<<"allocate">>) = 2 /\ 2 * Len(<<"authenticate">>) = 2
      /\ 2 * Len(<<"permission", "peer">>) = 4
  BY <1>s
<1>1. CASE TurnAllocates
  <2>1. /\ phase = "control" /\ phase' = "allocate"
        /\ Ask("main", <<"allocate">>)
        /\ arriving' = arriving /\ buffered' = <<>>
    BY <1>1 DEF TurnAllocates, Advance
  <2>. QED
    BY <1>s, <1>t, <2>1, RepliesAre, AskTurn
<1>p. ASSUME phase \in {"allocate", "authenticate"}, Len(buffered) >= 2, Permit
      PROVE  TurnExpects'
  <2>1. /\ phase' = "permission" /\ Ask("main", <<"permission", "peer">>)
        /\ arriving' = arriving /\ buffered' = Rest
    BY <1>p DEF Permit, Advance
  <2>. QED
    BY <1>p, <1>s, <1>t, <2>1, RepliesAre, AskTurn
<1>2. CASE TurnAllocated
  <2>1. phase = "allocate" /\ Len(buffered) >= 2
    BY <1>2 DEF TurnAllocated, TurnReply, Complete
  <2>2. CASE Ask("main", <<"authenticate">>) /\ Advance("authenticate", Rest)
    <3>1. /\ phase' = "authenticate" /\ Ask("main", <<"authenticate">>)
          /\ arriving' = arriving /\ buffered' = Rest
      BY <2>2 DEF Advance
    <3>. QED
      BY <1>s, <1>t, <2>1, <3>1, RepliesAre, AskTurn
  <2>. QED
    BY <1>2, <1>p, <1>f, <2>1, <2>2 DEF TurnAllocated
<1>3. CASE TurnAuthenticated
  <2>1. phase = "authenticate" /\ Len(buffered) >= 2
    BY <1>3 DEF TurnAuthenticated, TurnReply, Complete
  <2>. QED
    BY <1>3, <1>p, <1>f, <2>1 DEF TurnAuthenticated
<1>4. CASE TurnPermitted
  <2>1. phase = "permission" /\ Len(buffered) >= 2
    BY <1>4 DEF TurnPermitted, TurnReply, Complete
  <2>2. CASE Advance("peer", Rest) /\ UNCHANGED owed
    <3>1. /\ phase' = "peer" /\ arriving' = arriving /\ owed' = owed
          /\ buffered' = Rest /\ From = "main" /\ From' = "main"
      BY <2>1, <2>2 DEF Advance, From
    <3>2. /\ buffered \in Seq(HalfSet) /\ Len(buffered) \in Nat
          /\ Len(arriving["main"]) \in Nat /\ Len(owed["main"]) \in Nat
      BY EarlyLengths DEF Link
    <3>3. Len(buffered) + Len(arriving["main"]) + 2 * Len(owed["main"]) = 4
      BY <2>1, <3>1, RepliesAre DEF TurnExpects
    <3>4. Len(Rest) = Len(buffered) - 2
      BY <2>1, <3>2, BehindTheFirst DEF Rest
    <3>5. Len(buffered') + Len(arriving'["main"]) + 2 * Len(owed'["main"]) = 2
      <4>. DEFINE a == arriving["main"]
                  o == owed["main"]
      <4>1. /\ Len(buffered) \in Nat /\ Len(a) \in Nat /\ Len(o) \in Nat
            /\ Len(buffered) + Len(a) + 2 * Len(o) = 4
        BY <3>2, <3>3
      <4>. HIDE DEF a, o
      <4>2. (Len(buffered) - 2) + Len(a) + 2 * Len(o) = 2
        BY ONLY <4>1
      <4>. QED
        BY <3>1, <3>4, <4>2 DEF a, o
    <3>. QED
      BY <3>1, <3>5, RepliesAre DEF TurnExpects
  <2>. QED
    BY <1>4, <1>f, <2>2 DEF TurnPermitted
<1>5. CASE TurnPeerConnected
  <2>1. CASE phase' = "data"
    BY <2>1, OverTurn
  <2>. QED
    BY <1>5, <1>f, <2>1 DEF TurnPeerConnected
<1>6. CASE TurnBinds
  BY <1>6, OverTurn DEF TurnBinds, Advance
<1>7. CASE TurnBound
  <2>1. CASE phase' = "open"
    BY <2>1, OverTurn
  <2>. QED
    BY <1>7, <1>f, <2>1 DEF TurnBound, Advance
<1>. QED
  BY <1>1, <1>2, <1>3, <1>4, <1>5, <1>6, <1>7 DEF TurnStep

(* A reply takes the place of a request.                                   *)
LEMMA AnswerTurn ==
  ASSUME EarlyOK, adapter = "turn", TurnExpects, NEW l \in Link, Answer(l)
  PROVE  TurnExpects'
<1>1. /\ owed[l] # <<>> /\ owed' = [owed EXCEPT ![l] = Tail(@)]
      /\ phase' = phase /\ buffered' = buffered /\ From' = From
      /\ Head(owed[l]) \in DOMAIN Good
  BY DEF Answer, From
<1>2. PICK m \in Good[Head(owed[l])] \cup {"refused"} :
         arriving' = [arriving EXCEPT ![l] = @ \o Halves(m, 0)]
  BY DEF Answer
<1>3. owed[l] \in Seq(Request) /\ arriving[l] \in Seq(HalfSet)
      /\ Head(owed[l]) \in Request
  BY <1>1, EarlyLengths
<1>4. Halves(m, 0) \in Seq(HalfSet) /\ Len(Halves(m, 0)) = 2
  <2>1. m \in Message
    BY <1>3, GoodReplies DEF Message
  <2>. QED
    BY <2>1, HalvesType
<1>5. /\ \A k \in Link \ {l} : owed'[k] = owed[k] /\ arriving'[k] = arriving[k]
      /\ owed'[l] = Tail(owed[l]) /\ arriving'[l] = arriving[l] \o Halves(m, 0)
  BY <1>1, <1>2 DEF EarlyOK, EarlyTypeOK
<1>6. /\ Len(owed'[l]) = Len(owed[l]) - 1
      /\ Len(arriving'[l]) = Len(arriving[l]) + 2
  <2>1. Len(Tail(owed[l])) = Len(owed[l]) - 1
    BY <1>1, <1>3, HeadTailProperties
  <2>2. Len(arriving[l] \o Halves(m, 0)) = Len(arriving[l]) + 2
    <3>. DEFINE a == arriving[l]
                h == Halves(m, 0)
    <3>1. a \in Seq(HalfSet) /\ h \in Seq(HalfSet) /\ Len(h) = 2
      BY <1>3, <1>4
    <3>. HIDE DEF a, h
    <3>2. Len(a \o h) = Len(a) + 2
      BY ONLY <3>1, LenTwoMore
    <3>. QED
      BY <3>2 DEF a, h
  <2>. QED
    BY <1>5, <2>1, <2>2
<1>7. phase \in DOMAIN Replies =>
        Len(buffered') + Len(arriving'[From]) + 2 * Len(owed'[From])
          = Len(buffered) + Len(arriving[From]) + 2 * Len(owed[From])
  <2>1. From \in Link
    BY DEF From, Link
  <2>2. CASE From = l
    <3>1. /\ Len(buffered) \in Nat /\ Len(arriving[l]) \in Nat
          /\ Len(owed[l]) \in Nat
      BY EarlyLengths
    <3>. DEFINE a == arriving[l]
                o == owed[l]
    <3>2. /\ Len(buffered) \in Nat /\ Len(a) \in Nat /\ Len(o) \in Nat
      BY <3>1
    <3>. HIDE DEF a, o
    <3>3. Len(buffered) + (Len(a) + 2) + 2 * (Len(o) - 1)
            = Len(buffered) + Len(a) + 2 * Len(o)
      BY ONLY <3>2
    <3>4. Len(buffered) + Len(arriving'[l]) + 2 * Len(owed'[l])
            = Len(buffered) + Len(arriving[l]) + 2 * Len(owed[l])
      BY <1>6, <3>3 DEF a, o
    <3>. QED
      BY <1>1, <2>2, <3>4
  <2>3. CASE From # l
    BY <1>1, <1>5, <2>1, <2>3
  <2>. QED
    BY <2>2, <2>3
<1>8. phase \in {"resolve", "query"} => l # "main"
  BY <1>1 DEF TurnExpects
<1>. QED
  BY <1>1, <1>5, <1>7, <1>8 DEF TurnExpects, Link

(* The target speaks on the data connection.                               *)
LEMMA TargetSendsTurn ==
  ASSUME EarlyOK, adapter = "turn", TurnExpects, TargetSends
  PROVE  TurnExpects'
<1>1. /\ arriving' = [arriving EXCEPT !["data"] = @ \o Halves("data", sent')]
      /\ phase' = phase /\ buffered' = buffered /\ owed' = owed /\ From' = From
  BY DEF TargetSends, SessionLink, From
<1>2. phase \in DOMAIN Replies => From \in Link \ {"data"}
  BY RepliesAre DEF From, Link
<1>3. \A k \in Link \ {"data"} : arriving'[k] = arriving[k]
  BY <1>1 DEF EarlyOK, EarlyTypeOK
<1>. QED
  BY <1>1, <1>2, <1>3 DEF TurnExpects, Link

(* A read moves halves from one count to the other.                        *)
LEMMA PullTurn ==
  ASSUME EarlyOK, adapter = "turn", TurnExpects, Pull
  PROVE  TurnExpects'
<1>1. /\ phase' = phase /\ owed' = owed /\ From' = From /\ From \in Link
  BY DEF Pull, From, Link
<1>2. PICK n \in 1..Len(arriving[From]) :
         /\ buffered' = buffered \o SubSeq(arriving[From], 1, n)
         /\ arriving' = [arriving EXCEPT ![From] = SubSeq(@, n + 1, Len(@))]
  BY DEF Pull
<1>. DEFINE a == arriving[From]
<1>3. /\ buffered \in Seq(HalfSet) /\ a \in Seq(HalfSet)
      /\ Len(buffered) \in Nat /\ Len(a) \in Nat /\ n \in Nat /\ n <= Len(a)
  BY <1>1, <1>2, EarlyLengths
<1>4. /\ arriving'[From] = SubSeq(a, n + 1, Len(a))
      /\ \A k \in Link \ {From} : arriving'[k] = arriving[k]
  BY <1>1, <1>2 DEF EarlyOK, EarlyTypeOK
<1>5. buffered' \o arriving'[From] = buffered \o a
      /\ buffered' \in Seq(HalfSet) /\ arriving'[From] \in Seq(HalfSet)
  <2>1. /\ (buffered \o SubSeq(a, 1, n)) \o SubSeq(a, n + 1, Len(a))
             = buffered \o a
        /\ buffered \o SubSeq(a, 1, n) \in Seq(HalfSet)
        /\ SubSeq(a, n + 1, Len(a)) \in Seq(HalfSet)
    <3>. HIDE DEF a
    <3>. QED
      BY <1>2, <1>3, PullMoves DEF a
  <2>. QED
    BY <1>2, <1>4, <2>1
<1>6. Len(buffered') + Len(arriving'[From]) = Len(buffered) + Len(a)
  <2>. HIDE DEF a
  <2>1. Len(buffered' \o arriving'[From])
          = Len(buffered') + Len(arriving'[From])
    BY <1>5, ConcatProperties
  <2>2. Len(buffered \o a) = Len(buffered) + Len(a)
    BY <1>3, ConcatProperties
  <2>. QED
    BY <1>5, <2>1, <2>2
<1>7. phase \in {"resolve", "query"} => From # "main"
  BY DEF From
<1>. QED
  BY <1>1, <1>4, <1>6, <1>7 DEF TurnExpects, Link

(* The resolver, between the address and the control connection.           *)
LEMMA ResolverTurn ==
  ASSUME EarlyOK, adapter = "turn", TurnExpects,
         AskResolver \/ (Resolved("control") /\ UNCHANGED owed)
  PROVE  TurnExpects'
<1>1. /\ buffered \in Seq(HalfSet) /\ Len(buffered) \in Nat
      /\ Len(arriving["dns"]) \in Nat /\ Len(owed["dns"]) \in Nat
      /\ owed["dns"] \in Seq(Request)
  BY EarlyLengths DEF Link
<1>2. CASE AskResolver
  <2>1. /\ phase = "resolve" /\ phase' = "query" /\ buffered' = <<>>
        /\ arriving' = arriving
        /\ owed' = [owed EXCEPT !["dns"] = @ \o <<"query">>]
        /\ From = "dns" /\ From' = "dns"
    BY <1>2 DEF AskResolver, Ask, Advance, From
  <2>2. Len(buffered) + Len(arriving["dns"]) + 2 * Len(owed["dns"]) = 0
    BY <2>1, RepliesAre DEF TurnExpects
  <2>3. Len(arriving["dns"]) = 0 /\ owed["dns"] = <<>>
    <3>. DEFINE a == arriving["dns"]
                o == owed["dns"]
    <3>1. /\ Len(buffered) \in Nat /\ Len(a) \in Nat /\ Len(o) \in Nat
          /\ Len(buffered) + Len(a) + 2 * Len(o) = 0
      BY <1>1, <2>2
    <3>. HIDE DEF a, o
    <3>2. Len(a) = 0 /\ Len(o) = 0
      BY ONLY <3>1
    <3>. QED
      BY <1>1, <3>2, EmptySeq DEF a, o
  <2>4. /\ owed'["dns"] = owed["dns"] \o <<"query">>
        /\ owed'["main"] = owed["main"]
    BY <2>1 DEF EarlyOK, EarlyTypeOK, Link
  <2>5. Len(owed'["dns"]) = 1
    <3>. DEFINE q == <<"query">>
    <3>1. q \in Seq({"query"}) /\ Len(q) = 1
      OBVIOUS
    <3>. HIDE DEF q
    <3>2. <<>> \o q = q
      BY ONLY <3>1, ConcatEmptySeq
    <3>. QED
      BY <2>3, <2>4, <3>1, <3>2 DEF q
  <2>6. Len(buffered') + Len(arriving'["dns"]) + 2 * Len(owed'["dns"]) = 2
    <3>1. Len(buffered') = 0 /\ Len(arriving'["dns"]) = 0
      BY <2>1, <2>3
    <3>. QED
      BY <3>1, <2>5
  <2>. QED
    BY <2>1, <2>4, <2>6, RepliesAre DEF TurnExpects
<1>3. CASE Resolved("control") /\ UNCHANGED owed
  <2>1. /\ phase = "query" /\ phase' = "control" /\ buffered' = Rest
        /\ arriving' = arriving /\ owed' = owed /\ Len(buffered) >= 2
        /\ From = "dns" /\ From' = "main"
    BY <1>3 DEF Resolved, Complete, From
  <2>2. Len(buffered) + Len(arriving["dns"]) + 2 * Len(owed["dns"]) = 2
    BY <2>1, RepliesAre DEF TurnExpects
  <2>3. Len(buffered) = 2
    <3>. DEFINE x == Len(buffered)
                y == Len(arriving["dns"])
                z == Len(owed["dns"])
    <3>1. x \in Nat /\ y \in Nat /\ z \in Nat /\ x + y + 2 * z = 2 /\ x >= 2
      BY <1>1, <2>1, <2>2
    <3>. HIDE DEF x, y, z
    <3>2. x = 2
      BY ONLY <3>1
    <3>. QED
      BY <3>2 DEF x
  <2>4. Rest = <<>>
    BY <1>1, <2>3, SubSeqEmpty DEF Rest
  <2>5. owed["main"] = <<>> /\ arriving["main"] = <<>>
    BY <2>1 DEF TurnExpects
  <2>. QED
    BY <2>1, <2>4, <2>5, RepliesAre DEF TurnExpects
<1>. QED
  BY <1>2, <1>3

LEMMA NextTurn ==
  EarlyOK /\ adapter = "turn" /\ TurnExpects /\ ConnectionNext => TurnExpects'
<1> SUFFICES ASSUME EarlyOK, adapter = "turn", TurnExpects, ConnectionNext
             PROVE  TurnExpects'
  OBVIOUS
<1>0. phase # "assigned"
  BY DEF EarlyOK, PhasesOf, Over, Before
<1>1. ~SstpClient /\ ~SocksStep
  <2>1. ~SstpClient
    BY <1>0
       DEF SstpClient, SstpAsks, HttpAccepted, PppFrame, PppDone, SstpResolved,
           SynFrame, SstpTimesOut
  <2>2. ~SocksStep
    BY DEF SocksStep, SocksMethods, SocksLogin, SocksConnect, SocksReply,
           HttpAsks, HttpTunnel
  <2>. QED
    BY <2>1, <2>2
<1>2. ~SstpServer
  <2>1. ~ServerTakes
    <3>1. owed["main"] # <<>> => Head(owed["main"]) \in Request
      BY DEF EarlyOK, EarlyTypeOK, Link
    <3> QED
      BY <3>1, GoodReplies DEF ServerTakes
  <2> QED
    BY <2>1 DEF SstpServer, ServerAsksLcp, ServerAsksIpcp, ServerSendsNoise,
                Talking
<1>3. \A why : Fail(why) => TurnExpects'
  BY OverTurn DEF Fail, Over
<1>4. ASSUME NEW l \in Link, SocketOpens(l) \/ SocketRefused(l) \/ ServerEnds(l)
      PROVE  TurnExpects'
  BY <1>3, <1>4, FrameTurn DEF SocketOpens, SocketRefused, ServerEnds
<1>5. CASE SessionCloses
  BY <1>5, OverTurn DEF SessionCloses, Over
<1>6. CASE DataSocketClosed \/ DialResolver
  BY <1>6, FrameTurn DEF DataSocketClosed, DialResolver
<1>7. CASE GivesUp
  BY <1>3, <1>7
     DEF GivesUp, ReadsEnd, WriteFails, NoResolver, ResolverRefuses, TimesOut
<1> QED
  BY <1>1, <1>2, <1>4, <1>5, <1>6, <1>7, TurnStepExpects, ResolverTurn,
     AnswerTurn, TargetSendsTurn, PullTurn
     DEF ConnectionNext, ClientStep, Continues, Environment

LEMMA TurnInitially == ConnectionInit => TurnInv
<1> SUFFICES ASSUME ConnectionInit, adapter = "turn" PROVE TurnExpects
  BY DEF TurnInv
<1>1. /\ buffered = <<>> /\ arriving = Quiet /\ owed = Quiet
      /\ phase \in {"resolve", "control"}
  BY DEF ConnectionInit, AttemptInit
<1>2. From \in Link /\ \A l \in Link : Quiet[l] = <<>>
  BY DEF From, Link, Quiet
<1>. QED
  BY <1>1, <1>2, RepliesAre DEF TurnExpects, Link

(* An adapter that waits for TURN's servers is owed something.             *)
LEMMA TurnIsOwed ==
  EarlyOK /\ adapter = "turn" /\ TurnExpects /\ Wants => Due
<1> SUFFICES ASSUME EarlyOK, adapter = "turn", TurnExpects, Wants,
                    arriving[From] = <<>>, owed[From] = <<>>
             PROVE  FALSE
  BY DEF Due
<1>1. phase \in Reading /\ ~(Len(buffered) >= 2)
  BY DEF Wants, HasReply, Complete
<1>2. phase \in {"query", "allocate", "authenticate", "permission", "peer",
                 "bind"}
  BY <1>1 DEF EarlyOK, PhasesOf, Reading, Before, Over
<1>3. Len(buffered) \in Nat /\ buffered \in Seq(HalfSet)
  BY EarlyLengths
<1>4. CASE phase # "bind"
  <2>1. Len(buffered) = Replies[phase] /\ Replies[phase] >= 2
    BY <1>2, <1>3, <1>4, RepliesAre DEF TurnExpects
  <2>. QED
    BY <1>1, <2>1, <1>2, RepliesAre
<1>5. CASE phase = "bind"
  <2>1. From = "data" /\ SessionLink = "data"
    BY <1>5 DEF From, SessionLink
  <2>2. PICK m \in Good["bind"] \cup {"refused"} :
           Stream = Halves(m, 0) \o Spoken(sent)
    <3>1. owed["data"] # <<"bind">>
      BY <2>1
    <3>. QED
      BY <1>5, <2>1, <3>1 DEF EarlyOK, AwaitsReply, SessionReading
  <2>3. Stream = buffered
    BY <2>1, <1>3, ConcatEmptySeq DEF Stream
  <2>4. Halves(m, 0) \in Seq(HalfSet) /\ Len(Halves(m, 0)) = 2
    BY HalvesType DEF Good, Message
  <2>5. Spoken(sent) \in Seq(HalfSet) /\ Len(Spoken(sent)) \in Nat
    <3>1. Spoken(sent) \in Seq(HalfSet)
      BY SpokenType DEF EarlyOK, EarlyTypeOK
    <3>. QED
      BY <3>1, LenProperties
  <2>6. Len(Halves(m, 0) \o Spoken(sent)) = 2 + Len(Spoken(sent))
    <3>. DEFINE h == Halves(m, 0)
                t == Spoken(sent)
    <3>1. h \in Seq(HalfSet) /\ t \in Seq(HalfSet) /\ Len(h) = 2
      BY <2>4, <2>5
    <3>. HIDE DEF t, h
    <3>2. Len(h \o t) = Len(h) + Len(t)
      BY ONLY <3>1, LenConcat
    <3>. QED
      BY <3>1, <3>2 DEF t, h
  <2>. QED
    BY <1>1, <2>2, <2>3, <2>5, <2>6
<1>. QED
  BY <1>4, <1>5

----------------------------------------------------------------------------
(* SSTP: the negotiation, step by step.                                    *)
LEMMA KindsMore ==
  ASSUME NEW heads, NEW h
  PROVE  Kinds(heads \cup {h}) = Kinds(heads) \cup {h.is}
  BY DEF Kinds

LEMMA RangeMore ==
  ASSUME NEW S, NEW queue \in Seq(S), NEW q \in S
  PROVE  /\ <<q>> \in Seq(S) /\ queue \o <<q>> \in Seq(S)
         /\ Range(<<q>>) = {q}
         /\ Range(queue \o <<q>>) = Range(queue) \cup {q}
<1>. DEFINE w == <<q>>
<1>1. w \in Seq(S) /\ Range(w) = {q}
  BY DEF Range
<1>. HIDE DEF w
<1>2. Range(queue \o w) = Range(queue) \cup Range(w) /\ queue \o w \in Seq(S)
  BY <1>1, RangeConcatenation, ConcatProperties
<1>. QED
  BY <1>1, <1>2 DEF w

(* A message that says nothing of the negotiation arrives or is read, and  *)
(* the request it answers has gone.                                        *)
LEMMA AnotherNegotiates ==
  ASSUME NEW flags, NEW heads, NEW queue, NEW taken,
         Negotiating(flags, heads, queue, taken),
         NEW heads2, NEW queue2, NEW taken2, NEW h, NEW q,
         h.is \in {"accepted", "refused", "noise", "ipcpReq"},
         heads2 = heads \cup {h} \/ heads = heads2 \cup {h},
         q \notin AgreedRequests,
         Range(queue2) \subseteq Range(queue),
         Range(queue) \subseteq Range(queue2) \cup {q},
         AckedFirst(queue2, taken2),
         taken2 = taken \/ taken2 = taken \cup {"ipcpReq"}
  PROVE  Negotiating(flags, heads2, queue2, taken2)
<1>1. \A m \in AgreedKinds : m \in Kinds(heads2) <=> m \in Kinds(heads)
  BY KindsMore DEF AgreedKinds
<1>2. \A r \in AgreedRequests : r \in Range(queue2) <=> r \in Range(queue)
  OBVIOUS
<1>3. \A t \in AgreedTaken : t \in taken2 <=> t \in taken
  BY DEF AgreedTaken
<1>4. Agreed(flags, Kinds(heads2), Range(queue2), taken2)
  BY <1>1, <1>2, <1>3, AnotherAgrees DEF Negotiating, Answered
<1>5. AuthAsked(heads2, taken2)
  BY DEF Negotiating, Answered, AuthAsked
<1>. QED
  BY <1>4, <1>5 DEF Negotiating, Answered

LEMMA AsksLcpNegotiates ==
  ASSUME NEW flags, NEW heads, NEW queue, NEW taken,
         Negotiating(flags, heads, queue, taken), "lcpReq" \notin taken,
         NEW auth \in {"none", "pap", "other"}, NEW more,
         more = taken \cup {"lcpReq"}
                      \cup (IF auth = "none" THEN {} ELSE {"pap required"})
  PROVE  Negotiating(flags, heads \cup {Half("lcpReq", auth, 1)}, queue, more)
<1>. DEFINE h == Half("lcpReq", auth, 1)
<1>1. h.is = "lcpReq" /\ h.n = auth
  BY DEF Half
<1>. HIDE DEF h
<1>2. Agreed(flags, Kinds(heads), Range(queue), taken)
  BY DEF Negotiating, Answered
<1>3. more = taken \cup {"lcpReq"} \/ more = taken \cup {"lcpReq", "pap required"}
  OBVIOUS
<1>4. Agreed(flags, Kinds(heads) \cup {"lcpReq"}, Range(queue), more)
  BY <1>2, <1>3, AsksLcpAgrees
<1>5. Agreed(flags, Kinds(heads \cup {h}), Range(queue), more)
  BY <1>1, <1>4, KindsMore
<1>6. \A g \in heads : g.is # "lcpReq"
  BY <1>2 DEF Agreed, LcpAgreed, Kinds
<1>7. "pap required" \notin taken
  BY DEF Negotiating, Answered, AuthAsked
<1>8. AuthAsked(heads \cup {h}, more)
  BY <1>1, <1>6, <1>7 DEF AuthAsked
<1>9. AckedFirst(queue, more)
  BY DEF Negotiating, Answered, AckedFirst
<1>. QED
  BY <1>5, <1>8, <1>9 DEF Negotiating, Answered, h

LEMMA TakesNegotiates ==
  ASSUME NEW flags, NEW heads, NEW queue \in Seq(SstpRequest), NEW taken,
         Negotiating(flags, heads, queue, taken), queue # <<>>,
         NEW request, request = Head(queue), NEW message,
         \/ request = "lcp" /\ message = "lcpAck"
         \/ request = "pap" /\ message \in {"papAck", "papNak"}
         \/ request = "ipcp" /\ message = "ipcpNak"
         \/ request = "address" /\ message = "ipcpAck"
         \/ request = "syn" /\ message \in {"synAck", "rst", "nothing"}
         \/ request \in {"lcpAcked", "ipcpAcked", "ack"} /\ message = "nothing",
         NEW heads2, heads2 = IF message = "nothing" THEN heads
                              ELSE heads \cup {Half(message, 0, 1)}
  PROVE  Negotiating(flags, heads2, Tail(queue), taken \cup {request, message})
<1>. DEFINE left == Range(Tail(queue))
            more == taken \cup {request, message}
            after == Kinds(heads2)
<1>1. /\ request \in Range(queue) /\ left \subseteq Range(queue)
      /\ Range(queue) \subseteq left \cup {request}
  BY RangeOfTail
<1>2. after = IF message = "nothing" THEN Kinds(heads)
              ELSE Kinds(heads) \cup {message}
  <2>1. Half(message, 0, 1).is = message
    BY DEF Half
  <2>. QED
    BY <2>1, KindsMore
<1>3. Agreed(flags, Kinds(heads), Range(queue), taken)
  BY DEF Negotiating, Answered
<1>4. AckedFirst(Tail(queue), more) /\ (request = "ipcp" => "lcpAcked" \in taken)
  BY AckedFirstLess DEF Negotiating, Answered
<1>5. request = "ipcp" => Opened(taken)
  BY <1>1, <1>3, <1>4, IpcpFindsOpened
<1>6. Agreed(flags, after, left, more)
  <2>. HIDE DEF left, after
  <2>1. \/ request = "lcp" /\ message = "lcpAck"
        \/ request = "pap" /\ message \in {"papAck", "papNak"}
        \/ request = "ipcp" /\ Opened(taken) /\ message = "ipcpNak"
        \/ request = "address" /\ message = "ipcpAck"
        \/ request = "syn" /\ message \in {"synAck", "rst", "nothing"}
        \/ request \in {"lcpAcked", "ipcpAcked", "ack"} /\ message = "nothing"
    BY <1>5
  <2>. QED
    BY <1>1, <1>2, <1>3, <2>1, TakeAgrees
<1>7. AuthAsked(heads2, more)
  <2>1. Half(message, 0, 1).is # "lcpReq"
    BY DEF Half
  <2>2. \A h \in heads2 : h.is = "lcpReq" => h \in heads
    BY <2>1
  <2>3. /\ "pap required" \in more <=> "pap required" \in taken
        /\ "lcpReq" \in taken => "lcpReq" \in more
    OBVIOUS
  <2>. HIDE DEF more
  <2>. QED
    BY <2>2, <2>3 DEF Negotiating, Answered, AuthAsked
<1>. QED
  BY <1>4, <1>6, <1>7 DEF Negotiating, Answered

(* What the adapter reads brings it on.                                    *)
LEMMA FrameNegotiates ==
  ASSUME NEW flags, NEW heads, NEW queue \in Seq(SstpRequest), NEW taken,
         NEW rest, NEW frame, heads = rest \cup {frame},
         Negotiating(flags, heads, queue, taken)
  PROVE  /\ frame.is = "lcpReq" /\ frame.n # "other" =>
              Answered(flags \cup {"peerLcpAcked"}
                             \cup (IF frame.n = "pap" THEN {"papRequired"}
                                                      ELSE {}),
                       rest, queue \o <<"lcpAcked">>, taken)
         /\ frame.is = "lcpAck" =>
              Answered(flags \cup {"localLcpAcked"}, rest, queue, taken)
         /\ frame.is = "papAck" =>
              /\ Answered(flags \cup {"papDone"}, rest, queue, taken)
              /\ ~PapReady(flags \cup {"papDone"})
         /\ frame.is = "ipcpReq" =>
              /\ Answered(flags, rest, queue \o <<"ipcpAcked">>, taken)
              /\ ~PapReady(flags)
         /\ frame.is = "ipcpNak" =>
              Negotiating(flags \cup {"sourceIp"}, rest,
                          queue \o <<"address">>, taken)
         /\ frame.is = "noise" => Negotiating(flags, rest, queue, taken)
<1>1. /\ Agreed(flags, Kinds(heads), Range(queue), taken)
      /\ AckedFirst(queue, taken) /\ AuthAsked(heads, taken) /\ MovedOn(flags)
      /\ Kinds(heads) = Kinds(rest) \cup {frame.is}
  BY KindsMore DEF Negotiating, Answered
<1>2. AuthAsked(rest, taken)
  BY <1>1 DEF AuthAsked
<1>3. ASSUME NEW q \in {"lcpAcked", "ipcpAcked", "address"}
      PROVE  /\ Range(queue \o <<q>>) = Range(queue) \cup {q}
             /\ AckedFirst(queue \o <<q>>, taken)
  <2>1. q \in SstpRequest
    BY DEF SstpRequest
  <2>2. /\ <<q>> \in Seq(SstpRequest) /\ Range(<<q>>) = {q}
        /\ Range(queue \o <<q>>) = Range(queue) \cup {q}
    BY <2>1, RangeMore
  <2>3. "ipcp" \notin Range(<<q>>)
    BY <2>2
  <2>. QED
    BY <1>1, <2>2, <2>3, AckedFirstMore
<1>4. CASE frame.is = "lcpReq" /\ frame.n # "other"
  <2>. DEFINE required == IF frame.n = "pap" THEN {"papRequired"} ELSE {}
  <2>1. required = IF "pap required" \in taken THEN {"papRequired"} ELSE {}
    BY <1>1, <1>4 DEF AuthAsked
  <2>. HIDE DEF required
  <2>2. Agreed(flags \cup {"peerLcpAcked"} \cup required, Kinds(rest),
               Range(queue \o <<"lcpAcked">>), taken)
    BY <1>1, <1>3, <1>4, <2>1, LcpReqAgrees
  <2>. QED
    BY <1>2, <1>3, <1>4, <2>2 DEF Answered, required
<1>5. CASE frame.is = "lcpAck"
  <2>1. Agreed(flags \cup {"localLcpAcked"}, Kinds(rest), Range(queue), taken)
    BY <1>1, <1>5, LcpAckAgrees
  <2>. QED
    BY <1>1, <1>2, <1>5, <2>1 DEF Answered
<1>6. CASE frame.is = "papAck"
  <2>1. Agreed(flags \cup {"papDone"}, Kinds(rest), Range(queue), taken)
    BY <1>1, <1>6, PapAckAgrees
  <2>2. "papSent" \in flags
    BY <1>1, <1>6 DEF Agreed, PapAgreed
  <2>. QED
    BY <1>1, <1>2, <1>6, <2>1, <2>2 DEF Answered, PapReady
<1>7. CASE frame.is = "ipcpReq"
  <2>1. \A m \in AgreedKinds : m \in Kinds(rest) <=> m \in Kinds(heads)
    BY <1>1, <1>7 DEF AgreedKinds
  <2>2. \A r \in AgreedRequests :
           r \in Range(queue \o <<"ipcpAcked">>) <=> r \in Range(queue)
    BY <1>3 DEF AgreedRequests
  <2>3. Agreed(flags, Kinds(rest), Range(queue \o <<"ipcpAcked">>), taken)
    BY <1>1, <2>1, <2>2, AnotherAgrees
  <2>4. ~PapReady(flags)
    BY <1>1 DEF MovedOn, PapReady
  <2>. QED
    BY <1>2, <1>3, <1>7, <2>3, <2>4 DEF Answered
<1>8. CASE frame.is = "ipcpNak"
  <2>1. Agreed(flags \cup {"sourceIp"}, Kinds(rest),
               Range(queue \o <<"address">>), taken)
    BY <1>1, <1>3, <1>8, IpcpNakAgrees
  <2>2. MovedOn(flags \cup {"sourceIp"})
    BY <1>1 DEF MovedOn, BothAcked
  <2>. QED
    BY <1>2, <1>3, <1>8, <2>1, <2>2 DEF Negotiating, Answered
<1>9. CASE frame.is = "noise"
  <2>1. \A m \in AgreedKinds : m \in Kinds(rest) <=> m \in Kinds(heads)
    BY <1>1, <1>9 DEF AgreedKinds
  <2>2. Agreed(flags, Kinds(rest), Range(queue), taken)
    BY <1>1, <2>1, AnotherAgrees
  <2>. QED
    BY <1>1, <1>2, <1>9, <2>2 DEF Negotiating, Answered
<1>. QED
  BY <1>4, <1>5, <1>6, <1>7, <1>8, <1>9

(* After which it asks for what it can.                                    *)
LEMMA AnsweredMovesOn ==
  ASSUME NEW flags, NEW heads, NEW queue \in Seq(SstpRequest), NEW taken,
         Answered(flags, heads, queue, taken)
  PROVE  /\ PapReady(flags) =>
              Negotiating(flags \cup {"papSent"}, heads, queue \o <<"pap">>,
                          taken)
         /\ ~PapReady(flags) /\ IpcpReady(flags) =>
              Negotiating(flags \cup {"ipcpStarted"}, heads,
                          queue \o <<"ipcp">>, taken)
         /\ ~PapReady(flags) /\ ~IpcpReady(flags) =>
              Negotiating(flags, heads, queue, taken)
<1>1. /\ Agreed(flags, Kinds(heads), Range(queue), taken)
      /\ AckedFirst(queue, taken) /\ AuthAsked(heads, taken)
  BY DEF Answered
<1>2. ASSUME NEW q \in {"pap", "ipcp"}
      PROVE  /\ <<q>> \in Seq(SstpRequest) /\ Range(<<q>>) = {q}
             /\ Range(queue \o <<q>>) = Range(queue) \cup {q}
  <2>1. q \in SstpRequest
    BY DEF SstpRequest
  <2>. QED
    BY <2>1, RangeMore
<1>3. CASE PapReady(flags)
  <2>1. /\ Agreed(flags \cup {"papSent"}, Kinds(heads),
                  Range(queue \o <<"pap">>), taken)
        /\ MovedOn(flags \cup {"papSent"})
    BY <1>1, <1>2, <1>3, PapSentAgrees
  <2>2. AckedFirst(queue \o <<"pap">>, taken)
    <3>1. "ipcp" \notin Range(<<"pap">>)
      BY <1>2
    <3>. QED
      BY <1>1, <1>2, <3>1, AckedFirstMore
  <2>. QED
    BY <1>1, <1>3, <2>1, <2>2 DEF Negotiating, Answered
<1>4. CASE ~PapReady(flags) /\ IpcpReady(flags)
  <2>1. /\ Agreed(flags \cup {"ipcpStarted"}, Kinds(heads),
                  Range(queue \o <<"ipcp">>), taken)
        /\ MovedOn(flags \cup {"ipcpStarted"})
    BY <1>1, <1>2, <1>4, IpcpStartedAgrees
  <2>2. "lcpAcked" \in taken \cup Range(queue)
    BY <1>1, <1>4 DEF Agreed, LcpAgreed, IpcpReady, BothAcked
  <2>3. AckedFirst(queue \o <<"ipcp">>, taken)
    BY <1>1, <1>2, <2>2, AckedFirstMore
  <2>. QED
    BY <1>1, <1>4, <2>1, <2>3 DEF Negotiating, Answered
<1>5. CASE ~PapReady(flags) /\ ~IpcpReady(flags)
  BY <1>1, <1>5, NothingToStart DEF Negotiating, Answered
<1>. QED
  BY <1>3, <1>4, <1>5

----------------------------------------------------------------------------
(* SSTP: the steps.                                                        *)
LEMMA SstpTypes ==
  SstpExpects =>
    /\ owed["main"] \in Seq(SstpRequest) /\ owed["dns"] \in Seq({"query"})
    /\ owed["data"] = <<>>
    /\ arriving["main"] \in Seq(SstpHalf) /\ arriving["dns"] \in Seq(SstpHalf)
    /\ buffered \in Seq(SstpHalf)
    /\ Coming \in Seq(SstpHalf) /\ WholeMessages(Coming)
    /\ phase \notin {"resolve", "query"} =>
         Coming = buffered \o arriving["main"]
<1> SUFFICES ASSUME SstpExpects
             PROVE  /\ arriving["main"] \in Seq(SstpHalf)
                    /\ arriving["dns"] \in Seq(SstpHalf)
                    /\ Coming \in Seq(SstpHalf)
  BY DEF SstpExpects, SstpTyped, Coming
<1>1. /\ arriving["main"] \in Seq(SstpHalf) /\ arriving["dns"] \in Seq(SstpHalf)
      /\ buffered \in Seq(SstpHalf)
  BY DEF SstpExpects, SstpTyped, Link
<1>2. buffered \o arriving["main"] \in Seq(SstpHalf)
  <2>. DEFINE a == arriving["main"]
  <2>1. a \in Seq(SstpHalf)
    BY <1>1
  <2>. HIDE DEF a
  <2>2. buffered \o a \in Seq(SstpHalf)
    BY <1>1, <2>1, ConcatProperties
  <2>. QED
    BY <2>2 DEF a
<1>. QED
  BY <1>1, <1>2 DEF Coming

(* A step that leaves all of this alone.                                   *)
LEMMA FrameSstp ==
  /\ SstpExpects
  /\ phase' = phase /\ owed' = owed /\ arriving' = arriving
  /\ buffered' = buffered /\ through' = through /\ ppp' = ppp
  /\ server' = server
  => SstpExpects'
<1> SUFFICES ASSUME SstpExpects, phase' = phase, owed' = owed,
                    arriving' = arriving, buffered' = buffered,
                    through' = through, ppp' = ppp, server' = server
             PROVE  SstpExpects'
  OBVIOUS
<1>1. Coming' = Coming
  BY DEF Coming
<1>. QED
  BY <1>1 DEF SstpExpects, SstpTyped, ResolverExpected

(* The queue of requests on the main connection, and what the server says  *)
(* on it, change.                                                          *)
LEMMA ServerSstp ==
  ASSUME SstpExpects, phase # "control",
         phase' = phase, buffered' = buffered, through' = through, ppp' = ppp,
         NEW queue \in Seq(SstpRequest),
         owed' = [owed EXCEPT !["main"] = queue],
         NEW heads,
         \/ arriving' = arriving /\ heads = Heads(Coming)
         \/ \E m \in SstpMessage, n \in SstpNumber :
              /\ ServerSends(m, n)
              /\ heads = Heads(Coming) \cup {Half(m, n, 1)},
         phase \in {"http", "ppp"} => Negotiating(ppp, heads, queue, server'),
         phase = "syn" => SynExpected(heads, queue, server')
  PROVE  SstpExpects'
<1>1. /\ owed \in [Link -> Seq(SstpRequest \cup {"query"})]
      /\ arriving \in [Link -> Seq(SstpHalf)]
  BY DEF SstpExpects, SstpTyped
<1>2. /\ owed' \in [Link -> Seq(SstpRequest \cup {"query"})]
      /\ owed'["main"] = queue /\ owed'["dns"] = owed["dns"]
      /\ owed'["data"] = owed["data"]
  <2>1. queue \in Seq(SstpRequest \cup {"query"})
    BY SeqMonotonic
  <2>. QED
    BY <1>1, <2>1 DEF Link
<1>3. /\ arriving' \in [Link -> Seq(SstpHalf)]
      /\ arriving'["dns"] = arriving["dns"]
      /\ WholeMessages(Coming') /\ heads = Heads(Coming')
  <2>1. CASE arriving' = arriving /\ heads = Heads(Coming)
    <3>1. Coming' = Coming
      BY <2>1 DEF Coming
    <3>. QED
      BY <1>1, <2>1, <3>1, SstpTypes
  <2>2. ASSUME NEW m \in SstpMessage, NEW n \in SstpNumber,
               ServerSends(m, n), heads = Heads(Coming) \cup {Half(m, n, 1)}
        PROVE  /\ arriving' \in [Link -> Seq(SstpHalf)]
               /\ arriving'["dns"] = arriving["dns"]
               /\ WholeMessages(Coming') /\ heads = Heads(Coming')
    <3>. DEFINE a == arriving["main"]
                h == Halves(m, n)
    <3>1. /\ h \in Seq(SstpHalf) /\ a \in Seq(SstpHalf)
          /\ buffered \in Seq(SstpHalf)
      BY SstpHalvesType, SstpTypes
    <3>2. a \o h \in Seq(SstpHalf) /\ buffered \o (a \o h) = (buffered \o a) \o h
      <4>. HIDE DEF a, h
      <4>. QED
        BY ONLY <3>1, ConcatProperties, ConcatAssociative
    <3>3. arriving' = [arriving EXCEPT !["main"] = a \o h]
      BY <2>2 DEF ServerSends
    <3>. HIDE DEF h
    <3>4. /\ arriving' \in [Link -> Seq(SstpHalf)]
          /\ arriving'["dns"] = arriving["dns"]
          /\ arriving'["main"] = a \o h
      BY <1>1, <3>2, <3>3 DEF Link
    <3>5. Coming' = Coming \o h
      BY <3>2, <3>4 DEF Coming
    <3>6. /\ WholeMessages(Coming \o h)
          /\ Heads(Coming \o h) = Heads(Coming) \cup {Half(m, n, 1)}
      BY SstpTypes, HeadsMore DEF h
    <3>. QED
      BY <2>2, <3>4, <3>5, <3>6
  <2>. QED
    BY <2>1, <2>2
<1>4. SstpTyped'
  BY <1>2, <1>3 DEF SstpExpects, SstpTyped
<1>5. ResolverExpected'
  BY <1>2, <1>3 DEF SstpExpects, ResolverExpected
<1>. QED
  BY <1>2, <1>3, <1>4, <1>5 DEF SstpExpects

(* The server makes a request of its own, or sends something skipped.      *)
LEMMA ServerAsksSstp ==
  ASSUME SstpExpects, ServerAsksLcp \/ ServerAsksIpcp \/ ServerSendsNoise
  PROVE  SstpExpects'
<1>1. /\ phase # "control" /\ phase' = phase /\ buffered' = buffered
      /\ through' = through /\ ppp' = ppp /\ owed' = owed
  BY DEF ServerAsksLcp, ServerAsksIpcp, ServerSendsNoise, Talking, history
<1>2. /\ owed["main"] \in Seq(SstpRequest)
      /\ owed' = [owed EXCEPT !["main"] = owed["main"]]
  BY <1>1, SstpTypes DEF SstpExpects, SstpTyped
<1>3. ASSUME NEW heads, NEW h, heads = Heads(Coming) \cup {h}, phase = "syn",
             \A q \in {"rst", "ipcpAcked"} : q \in server' <=> q \in server
      PROVE  SynExpected(heads, owed["main"], server')
  <2>1. SynExpected(Heads(Coming), owed["main"], server)
    BY <1>3 DEF SstpExpects
  <2>2. Kinds(heads) = Kinds(Heads(Coming)) \cup {h.is}
    BY <1>3, KindsMore
  <2>. QED
    BY <1>3, <2>1, <2>2 DEF SynExpected
<1>n. phase \in {"http", "ppp"} =>
        Negotiating(ppp, Heads(Coming), owed["main"], server)
  BY DEF SstpExpects
<1>4. CASE ServerAsksLcp
  <2>1. PICK auth \in {"none", "pap", "other"} :
           /\ ServerSends("lcpReq", auth)
           /\ server' = server \cup {"lcpReq"}
                               \cup (IF auth = "none" THEN {}
                                                      ELSE {"pap required"})
    BY <1>4 DEF ServerAsksLcp
  <2>2. "lcpReq" \notin server
    BY <1>4 DEF ServerAsksLcp
  <2>. DEFINE heads == Heads(Coming) \cup {Half("lcpReq", auth, 1)}
  <2>3. phase \in {"http", "ppp"} =>
          Negotiating(ppp, heads, owed["main"], server')
    BY <1>n, <2>1, <2>2, AsksLcpNegotiates
  <2>4. phase = "syn" => SynExpected(heads, owed["main"], server')
    BY <1>3, <2>1
  <2>5. \E m \in SstpMessage, n \in SstpNumber :
          ServerSends(m, n) /\ heads = Heads(Coming) \cup {Half(m, n, 1)}
    <3>1. "lcpReq" \in SstpMessage /\ auth \in SstpNumber
      BY DEF SstpMessage, SstpNumber
    <3>. QED
      BY <2>1, <3>1
  <2>. HIDE DEF heads
  <2>. QED
    BY <1>1, <1>2, <2>3, <2>4, <2>5, ServerSstp
<1>5. ASSUME NEW m \in {"ipcpReq", "noise"}, ServerSends(m, 0),
             server' = IF m = "noise" THEN server ELSE server \cup {"ipcpReq"}
      PROVE  SstpExpects'
  <2>. DEFINE heads == Heads(Coming) \cup {Half(m, 0, 1)}
  <2>1. phase \in {"http", "ppp"} =>
          Negotiating(ppp, heads, owed["main"], server')
    <3>. SUFFICES ASSUME phase \in {"http", "ppp"}
                  PROVE  Negotiating(ppp, heads, owed["main"], server')
      OBVIOUS
    <3>1. Half(m, 0, 1).is = m
      BY DEF Half
    <3>2. AckedFirst(owed["main"], server')
      BY <1>n, <1>5 DEF Negotiating, Answered, AckedFirst
    <3>3. "none" \notin AgreedRequests
      BY DEF AgreedRequests
    <3>4. server' = server \/ server' = server \cup {"ipcpReq"}
      BY <1>5
    <3>. QED
      BY <1>n, <3>1, <3>2, <3>3, <3>4, AnotherNegotiates
  <2>2. phase = "syn" => SynExpected(heads, owed["main"], server')
    BY <1>3, <1>5
  <2>3. \E k \in SstpMessage, n \in SstpNumber :
          ServerSends(k, n) /\ heads = Heads(Coming) \cup {Half(k, n, 1)}
    <3>1. m \in SstpMessage /\ 0 \in SstpNumber
      BY DEF SstpMessage, SstpNumber
    <3>. QED
      BY <1>5, <3>1
  <2>. HIDE DEF heads
  <2>. QED
    BY <1>1, <1>2, <2>1, <2>2, <2>3, ServerSstp
<1>6. CASE ServerAsksIpcp
  BY <1>5, <1>6 DEF ServerAsksIpcp
<1>7. CASE ServerSendsNoise
  BY <1>5, <1>7 DEF ServerSendsNoise
<1>. QED
  BY <1>4, <1>6, <1>7

(* The request that ends the queue ends it until it is taken.              *)
LEMMA LastOfTail ==
  ASSUME NEW S, NEW queue \in Seq(S), queue # <<>>
  PROVE  /\ Tail(queue) # <<>> =>
              Tail(queue)[Len(Tail(queue))] = queue[Len(queue)]
         /\ Tail(queue) = <<>> => Head(queue) = queue[Len(queue)]
<1>. DEFINE t == Tail(queue)
<1>1. /\ Head(queue) = queue[1] /\ Len(t) = Len(queue) - 1 /\ t \in Seq(S)
      /\ \A i \in 1..Len(t) : t[i] = queue[i + 1]
  BY HeadTailProperties
<1>2. PICK n \in Nat : Len(queue) = n + 1
  <2>1. Len(queue) \in Nat /\ Len(queue) >= 1
    BY HeadTailProperties
  <2>2. Len(queue) - 1 \in Nat /\ Len(queue) = (Len(queue) - 1) + 1
    BY <2>1
  <2>. QED
    BY <2>2
<1>. HIDE DEF t
<1>3. Len(t) = n
  BY <1>1, <1>2
<1>4. CASE t # <<>>
  <2>1. n \in 1..n
    BY <1>1, <1>3, <1>4, EmptySeq
  <2>2. t[n] = queue[n + 1]
    BY <1>1, <1>3, <2>1
  <2>. QED
    BY <1>2, <1>3, <1>4, <2>2 DEF t
<1>5. CASE t = <<>>
  <2>1. n = 0
    BY <1>3, <1>5
  <2>. QED
    BY <1>1, <1>2, <1>5, <2>1 DEF t
<1>. QED
  BY <1>4, <1>5

(* The server takes a request.                                             *)
LEMMA ServerTakesSstp ==
  ASSUME SstpExpects, ServerTakes
  PROVE  SstpExpects'
<1>. DEFINE queue == owed["main"]
            q == Head(queue)
<1>1. /\ phase' = phase /\ buffered' = buffered
      /\ through' = through /\ ppp' = ppp /\ queue # <<>>
      /\ q \notin DOMAIN Good
      /\ owed' = [owed EXCEPT !["main"] = Tail(queue)]
  BY DEF ServerTakes, history
<1>2. PICK m \in PppAnswers(q) :
         /\ server' = server \cup {q, m}
         /\ IF m = "nothing" THEN UNCHANGED arriving ELSE ServerSends(m, 0)
  BY DEF ServerTakes
<1>3. /\ queue \in Seq(SstpRequest) /\ Tail(queue) \in Seq(SstpRequest)
      /\ q \in SstpRequest \ {"http"} /\ phase # "control"
  <2>1. queue \in Seq(SstpRequest)
    BY SstpTypes
  <2>2. q \in SstpRequest /\ Tail(queue) \in Seq(SstpRequest)
    BY <1>1, <2>1, RangeOfTail
  <2>3. "http" \in DOMAIN Good
    BY DEF Good
  <2>4. phase # "control"
    BY <1>1 DEF SstpExpects
  <2>. QED
    BY <1>1, <2>1, <2>2, <2>3, <2>4
<1>. HIDE DEF q
<1>4. /\ m \in {"lcpAck", "papAck", "papNak", "ipcpNak", "ipcpAck", "synAck",
                "rst", "nothing"}
      /\ q = "lcp" => m = "lcpAck"
      /\ q = "pap" => m \in {"papAck", "papNak"}
      /\ q = "ipcp" /\ NetworkPhase => m = "ipcpNak"
      /\ q = "address" /\ NetworkPhase => m = "ipcpAck"
      /\ q = "syn" /\ "ipcpAcked" \in server => m \in {"synAck", "rst"}
      /\ q = "syn" => m \in {"synAck", "rst", "nothing"}
      /\ q \in {"lcpAcked", "ipcpAcked", "ack"} => m = "nothing"
  BY DEF PppAnswers
<1>. DEFINE heads == IF m = "nothing" THEN Heads(Coming)
                     ELSE Heads(Coming) \cup {Half(m, 0, 1)}
<1>5. ASSUME phase \in {"http", "ppp"}
      PROVE  Negotiating(ppp, heads, Tail(queue), server')
  <2>1. Negotiating(ppp, Heads(Coming), queue, server)
    BY <1>5 DEF SstpExpects
  <2>2. q \in {"ipcp", "address"} => NetworkPhase
    <3>1. q \in Range(queue)
      BY <1>1, <1>3, RangeOfTail DEF q
    <3>2. q = "ipcp" => "lcpAcked" \in server
      BY <1>1, <1>3, <2>1, AckedFirstLess DEF Negotiating, Answered, q
    <3>3. Agreed(ppp, Kinds(Heads(Coming)), Range(queue), server)
      BY <2>1 DEF Negotiating, Answered
    <3>4. q \in {"ipcp", "address"} => Opened(server)
      BY <3>1, <3>2, <3>3, IpcpFindsOpened DEF Agreed, IpcpAgreed
    <3>. QED
      BY <3>4 DEF Opened, NetworkPhase
  <2>3. \/ q = "lcp" /\ m = "lcpAck"
        \/ q = "pap" /\ m \in {"papAck", "papNak"}
        \/ q = "ipcp" /\ m = "ipcpNak"
        \/ q = "address" /\ m = "ipcpAck"
        \/ q = "syn" /\ m \in {"synAck", "rst", "nothing"}
        \/ q \in {"lcpAcked", "ipcpAcked", "ack"} /\ m = "nothing"
    BY <1>3, <1>4, <2>2 DEF SstpRequest
  <2>4. q = Head(queue)
    BY DEF q
  <2>. HIDE DEF queue, heads
  <2>5. heads = IF m = "nothing" THEN Heads(Coming)
                ELSE Heads(Coming) \cup {Half(m, 0, 1)}
    BY DEF heads
  <2>6. Negotiating(ppp, heads, Tail(queue), server \cup {q, m})
    BY <1>1, <1>3, <2>1, <2>3, <2>4, <2>5, TakesNegotiates
  <2>. QED
    BY <1>2, <2>6
<1>6. ASSUME phase = "syn"
      PROVE  SynExpected(heads, Tail(queue), server')
  <2>1. queue[Len(queue)] = "syn"
    BY <1>1, <1>6 DEF SstpExpects, SynExpected
  <2>. HIDE DEF queue
  <2>4. CASE Tail(queue) # <<>>
    BY <1>1, <1>3, <2>1, <2>4, LastOfTail DEF SynExpected
  <2>5. CASE Tail(queue) = <<>>
    <3>1. q = "syn"
      BY <1>1, <1>3, <2>1, <2>5, LastOfTail DEF q
    <3>2. CASE "ipcpAcked" \in server
      <4>1. m \in {"synAck", "rst"}
        BY <1>4, <3>1, <3>2
      <4>2. m = "synAck" => "synAck" \in Kinds(heads)
        <5>. DEFINE h == Half(m, 0, 1)
        <5>1. h.is = m
          BY DEF Half
        <5>2. m # "nothing" => heads = Heads(Coming) \cup {h}
          OBVIOUS
        <5>. HIDE DEF h, heads
        <5>3. m # "nothing" => Kinds(heads) = Kinds(Heads(Coming)) \cup {m}
          BY <5>1, <5>2, KindsMore
        <5>. QED
          BY <5>3
      <4>. QED
        BY <1>2, <2>5, <4>1, <4>2 DEF SynExpected
    <3>3. CASE "ipcpAcked" \notin server
      <4>1. "ipcpAcked" \notin server'
        BY <1>2, <1>4, <3>1, <3>3
      <4>. QED
        BY <2>5, <4>1 DEF SynExpected
    <3>. QED
      BY <3>2, <3>3
  <2>. QED
    BY <2>4, <2>5
<1>7. \/ arriving' = arriving /\ heads = Heads(Coming)
      \/ \E k \in SstpMessage, n \in SstpNumber :
           /\ ServerSends(k, n)
           /\ heads = Heads(Coming) \cup {Half(k, n, 1)}
  <2>1. (m # "nothing" => m \in SstpMessage) /\ 0 \in SstpNumber
    BY <1>4 DEF SstpMessage, SstpNumber
  <2>. QED
    BY <1>2, <2>1
<1>. HIDE DEF heads, queue
<1>. QED
  BY <1>1, <1>3, <1>5, <1>6, <1>7, ServerSstp

(* A frame that has been read in full is used.                             *)
LEMMA SstpReads ==
  ASSUME SstpExpects, phase \in {"http", "ppp", "syn"}, Complete,
         arriving' = arriving, buffered' = Rest, through' = through,
         phase' \in {"ppp", "assigned", "syn"},
         NEW queue \in Seq(SstpRequest),
         owed' = [owed EXCEPT !["main"] = queue]
  PROVE  /\ SstpTyped' /\ ResolverExpected' /\ owed'["main"] = queue
         /\ Heads(Coming) = Heads(Coming') \cup {buffered[1]}
<1>. DEFINE a == arriving["main"]
<1>1. /\ buffered \in Seq(SstpHalf) /\ a \in Seq(SstpHalf)
      /\ Coming = buffered \o a /\ WholeMessages(buffered \o a)
      /\ Coming' = Rest \o a /\ Len(buffered) >= 2
  BY SstpTypes DEF Coming, Complete
<1>. HIDE DEF a
<1>2. /\ Rest \in Seq(SstpHalf) /\ WholeMessages(Rest \o a)
      /\ Heads(buffered \o a) = Heads(Rest \o a) \cup {buffered[1]}
  BY <1>1, HeadsRest DEF Rest
<1>3. /\ owed' \in [Link -> Seq(SstpRequest \cup {"query"})]
      /\ owed'["main"] = queue /\ owed'["dns"] = owed["dns"]
      /\ owed'["data"] = owed["data"]
  <2>1. queue \in Seq(SstpRequest \cup {"query"})
    BY SeqMonotonic
  <2>2. owed \in [Link -> Seq(SstpRequest \cup {"query"})]
    BY DEF SstpExpects, SstpTyped
  <2>. QED
    BY <2>1, <2>2 DEF Link
<1>4. SstpTyped'
  BY <1>1, <1>2, <1>3 DEF SstpExpects, SstpTyped
<1>5. ResolverExpected'
  BY <1>3 DEF SstpExpects, ResolverExpected
<1>. QED
  BY <1>1, <1>2, <1>3, <1>4, <1>5

LEMMA MainQueue ==
  ASSUME SstpExpects
  PROVE  /\ owed["main"] \in Seq(SstpRequest)
         /\ owed' = owed => owed' = [owed EXCEPT !["main"] = owed["main"]]
         /\ \A writes \in Seq(SstpRequest) :
              /\ owed["main"] \o writes \in Seq(SstpRequest)
              /\ Ask("main", writes) =>
                   owed' = [owed EXCEPT !["main"] = owed["main"] \o writes]
<1>1. /\ owed["main"] \in Seq(SstpRequest)
      /\ owed' = owed => owed' = [owed EXCEPT !["main"] = owed["main"]]
  BY DEF SstpExpects, SstpTyped
<1>2. ASSUME NEW writes \in Seq(SstpRequest)
      PROVE  owed["main"] \o writes \in Seq(SstpRequest)
  <2>. DEFINE o == owed["main"]
  <2>1. o \in Seq(SstpRequest)
    BY <1>1
  <2>. HIDE DEF o
  <2>. QED
    BY <2>1, ConcatProperties DEF o
<1>. QED
  BY <1>1, <1>2 DEF Ask

(* The answer to the HTTP request.                                         *)
LEMMA HttpAcceptedSstp ==
  ASSUME SstpExpects, HttpAccepted
  PROVE  SstpExpects' \/ phase' = "failed"
<1>. SUFFICES ASSUME First = "accepted", Advance("ppp", Rest), owed' = owed,
                     phase = "http", Complete, ppp' = ppp, server' = server
              PROVE  SstpExpects'
  BY DEF HttpAccepted, Fail, sstpVars
<1>. DEFINE queue == owed["main"]
<1>1. /\ queue \in Seq(SstpRequest)
      /\ owed' = [owed EXCEPT !["main"] = queue]
  BY MainQueue
<1>2. /\ phase' = "ppp" /\ arriving' = arriving /\ buffered' = Rest
      /\ through' = through
  BY DEF Advance, history
<1>. HIDE DEF queue
<1>3. /\ SstpTyped' /\ ResolverExpected' /\ owed'["main"] = queue
      /\ Heads(Coming) = Heads(Coming') \cup {buffered[1]}
  BY <1>1, <1>2, SstpReads
<1>4. Negotiating(ppp, Heads(Coming), queue, server) /\ ppp = {}
  BY DEF SstpExpects, queue
<1>5. Negotiating(ppp, Heads(Coming'), queue, server)
  <2>1. AckedFirst(queue, server) /\ "none" \notin AgreedRequests
    BY <1>4 DEF Negotiating, Answered, AgreedRequests
  <2>2. buffered[1].is \in {"accepted", "refused", "noise", "ipcpReq"}
    BY DEF First
  <2>. QED
    BY <1>3, <1>4, <2>1, <2>2, AnotherNegotiates
<1>. QED
  BY <1>2, <1>3, <1>4, <1>5 DEF SstpExpects, SstpTrying

(* A round of the negotiation.                                             *)
LEMMA RoundSstp ==
  ASSUME SstpExpects, phase = "ppp", Complete, NEW flags,
         NEW writes \in Seq(SstpRequest), NextRound(flags, writes),
         NEW rest, rest = Heads(Rest \o arriving["main"]),
         "ipcpFinished" \notin flags =>
           Negotiating(flags, rest, owed["main"] \o writes, server)
  PROVE  SstpExpects'
<1>. DEFINE queue == owed["main"] \o writes
<1>1. queue \in Seq(SstpRequest) /\ owed' = [owed EXCEPT !["main"] = queue]
  BY MainQueue DEF NextRound
<1>2. /\ phase' = IF "ipcpFinished" \in flags \/ round' = MaxRounds
                  THEN "assigned" ELSE "ppp"
      /\ arriving' = arriving /\ buffered' = Rest /\ through' = through
      /\ ppp' = flags /\ server' = server
  BY DEF NextRound, Advance, history
<1>3. "ipcpFinished" \notin flags => Negotiating(flags, rest, queue, server)
  OBVIOUS
<1>. HIDE DEF queue
<1>4. phase' \in {"ppp", "assigned"}
  BY <1>2
<1>5. /\ SstpTyped' /\ ResolverExpected' /\ owed'["main"] = queue
  BY <1>1, <1>2, <1>4, SstpReads
<1>6. phase' = "ppp" => Heads(Coming') = rest
  BY <1>2 DEF Coming
<1>. QED
  BY <1>2, <1>3, <1>4, <1>5, <1>6 DEF SstpExpects, SstpTrying

LEMMA StartIpcpSstp ==
  ASSUME SstpExpects, phase = "ppp", Complete, NEW flags,
         NEW writes \in Seq(SstpRequest), StartIpcpIfReady(flags, writes),
         ~PapReady(flags),
         Answered(flags, Heads(Rest \o arriving["main"]),
                  owed["main"] \o writes, server)
  PROVE  SstpExpects'
<1>. DEFINE rest == Heads(Rest \o arriving["main"])
            o == owed["main"]
            more == IF IpcpReady(flags) THEN <<"ipcp">> ELSE <<>>
            flags2 == flags \cup (IF IpcpReady(flags) THEN {"ipcpStarted"}
                                                      ELSE {})
<1>1. o \in Seq(SstpRequest) /\ o \o writes \in Seq(SstpRequest)
  BY MainQueue
<1>2. more \in Seq(SstpRequest) /\ NextRound(flags2, writes \o more)
  <2>1. <<"ipcp">> \in Seq(SstpRequest) /\ <<>> \in Seq(SstpRequest)
    BY DEF SstpRequest
  <2>2. more \in Seq(SstpRequest)
    BY <2>1
  <2>3. NextRound(flags2, writes \o more)
    BY Zenon DEF StartIpcpIfReady
  <2>. QED
    BY <2>2, <2>3
<1>. HIDE DEF rest, o
<1>3. Answered(flags, rest, o \o writes, server)
  BY DEF rest, o
<1>4. Negotiating(flags2, rest, (o \o writes) \o more, server)
  <2>. DEFINE q == o \o writes
  <2>1. q \in Seq(SstpRequest) /\ Answered(flags, rest, q, server)
    BY <1>1, <1>3
  <2>. HIDE DEF q
  <2>2. q \o <<>> = q
    BY <2>1, ConcatEmptySeq
  <2>3. CASE IpcpReady(flags)
    <3>1. Negotiating(flags \cup {"ipcpStarted"}, rest, q \o <<"ipcp">>, server)
      BY <2>1, <2>3, AnsweredMovesOn
    <3>. QED
      BY <2>3, <3>1 DEF q
  <2>4. CASE ~IpcpReady(flags)
    <3>1. Negotiating(flags, rest, q, server)
      BY <2>1, <2>4, AnsweredMovesOn
    <3>2. flags2 = flags /\ q \o more = q
      BY <2>2, <2>4
    <3>. HIDE DEF flags2, more
    <3>. QED
      BY <3>1, <3>2 DEF q
  <2>. QED
    BY <2>3, <2>4
<1>. HIDE DEF more, flags2
<1>5. /\ (o \o writes) \o more = o \o (writes \o more)
      /\ writes \o more \in Seq(SstpRequest)
  BY <1>1, <1>2, ConcatAssociative, ConcatProperties
<1>6. Negotiating(flags2, rest, o \o (writes \o more), server)
  BY <1>4, <1>5
<1>. QED
  BY <1>2, <1>5, <1>6, RoundSstp DEF rest, o

LEMMA ContinueSstp ==
  ASSUME SstpExpects, phase = "ppp", Complete, NEW flags,
         NEW writes \in Seq(SstpRequest), Continue(flags, writes),
         Answered(flags, Heads(Rest \o arriving["main"]),
                  owed["main"] \o writes, server)
  PROVE  SstpExpects' \/ phase' = "failed"
<1>1. CASE ~PapReady(flags) /\ StartIpcpIfReady(flags, writes)
  BY <1>1, StartIpcpSstp
<1>2. CASE PapReady(flags) /\ NextRound(flags \cup {"papSent"},
                                       Append(writes, "pap"))
  <2>. DEFINE rest == Heads(Rest \o arriving["main"])
              o == owed["main"]
              pap == <<"pap">>
  <2>1. /\ o \in Seq(SstpRequest) /\ o \o writes \in Seq(SstpRequest)
        /\ pap \in Seq(SstpRequest) /\ "pap" \in SstpRequest
    BY MainQueue DEF SstpRequest
  <2>. HIDE DEF rest, o
  <2>2. Negotiating(flags \cup {"papSent"}, rest, (o \o writes) \o pap, server)
    <3>1. Answered(flags, rest, o \o writes, server)
      BY DEF rest, o
    <3>. QED
      BY <1>2, <2>1, <3>1, AnsweredMovesOn
  <2>3. Append(writes, "pap") = writes \o pap
    BY <2>1, AppendIsConcat
  <2>. HIDE DEF pap
  <2>4. /\ (o \o writes) \o pap = o \o (writes \o pap)
        /\ writes \o pap \in Seq(SstpRequest)
    BY <2>1, ConcatAssociative, ConcatProperties
  <2>5. Negotiating(flags \cup {"papSent"}, rest, o \o (writes \o pap), server)
    BY <2>2, <2>4
  <2>. QED
    BY <1>2, <2>3, <2>4, <2>5, RoundSstp DEF rest, o
<1>3. CASE Fail("credentials")
  BY <1>3 DEF Fail
<1>. QED
  BY <1>1, <1>2, <1>3 DEF Continue

(* A frame of PPP.                                                         *)
LEMMA PppFrameSstp ==
  ASSUME SstpExpects, PppFrame
  PROVE  SstpExpects' \/ phase' = "failed"
<1>. DEFINE rest == Heads(Rest \o arriving["main"])
            queue == owed["main"]
            frame == buffered[1]
<1>1. phase = "ppp" /\ Complete /\ queue \in Seq(SstpRequest)
  BY MainQueue DEF PppFrame
<1>2. /\ Heads(Coming) = rest \cup {frame}
      /\ Negotiating(ppp, Heads(Coming), queue, server)
  <2>. DEFINE a == arriving["main"]
  <2>1. /\ buffered \in Seq(SstpHalf) /\ a \in Seq(SstpHalf)
        /\ Coming = buffered \o a /\ WholeMessages(buffered \o a)
        /\ Len(buffered) >= 2
    BY <1>1, SstpTypes DEF Coming, Complete
  <2>. HIDE DEF a
  <2>2. Heads(buffered \o a) = Heads(Rest \o a) \cup {buffered[1]}
    BY <2>1, HeadsRest DEF Rest
  <2>. QED
    BY <1>1, <2>1, <2>2 DEF a, SstpExpects
<1>. HIDE DEF rest, queue, frame
<1>3. /\ frame.is = "lcpReq" /\ frame.n # "other" =>
           Answered(ppp \cup {"peerLcpAcked"}
                        \cup (IF frame.n = "pap" THEN {"papRequired"} ELSE {}),
                    rest, queue \o <<"lcpAcked">>, server)
      /\ frame.is = "lcpAck" =>
           Answered(ppp \cup {"localLcpAcked"}, rest, queue, server)
      /\ frame.is = "papAck" =>
           /\ Answered(ppp \cup {"papDone"}, rest, queue, server)
           /\ ~PapReady(ppp \cup {"papDone"})
      /\ frame.is = "ipcpReq" =>
           /\ Answered(ppp, rest, queue \o <<"ipcpAcked">>, server)
           /\ ~PapReady(ppp)
      /\ frame.is = "ipcpNak" =>
           Negotiating(ppp \cup {"sourceIp"}, rest, queue \o <<"address">>,
                       server)
      /\ frame.is = "noise" => Negotiating(ppp, rest, queue, server)
  BY <1>1, <1>2, FrameNegotiates
<1>4. \A q \in SstpRequest : <<q>> \in Seq(SstpRequest)
  OBVIOUS
<1>5. /\ <<"lcpAcked">> \in Seq(SstpRequest)
      /\ <<"ipcpAcked">> \in Seq(SstpRequest)
      /\ <<"address">> \in Seq(SstpRequest) /\ <<>> \in Seq(SstpRequest)
      /\ queue \o <<>> = queue
  BY <1>1, <1>4, ConcatEmptySeq DEF SstpRequest
<1>6. CASE /\ frame.is = "lcpReq" /\ frame.n # "other"
           /\ Continue(ppp \cup {"peerLcpAcked"}
                           \cup (IF frame.n = "pap" THEN {"papRequired"}
                                                    ELSE {}),
                       <<"lcpAcked">>)
  <2>. DEFINE flags == ppp \cup {"peerLcpAcked"}
                           \cup (IF frame.n = "pap" THEN {"papRequired"} ELSE {})
              w == <<"lcpAcked">>
  <2>1. /\ Continue(flags, w) /\ w \in Seq(SstpRequest)
        /\ Answered(flags, rest, queue \o w, server)
    BY <1>3, <1>5, <1>6
  <2>. HIDE DEF flags, w
  <2>. QED
    BY <1>1, <2>1, ContinueSstp DEF rest, queue
<1>7. CASE frame.is = "lcpAck" /\ Continue(ppp \cup {"localLcpAcked"}, <<>>)
  <2>1. Answered(ppp \cup {"localLcpAcked"}, rest, queue \o <<>>, server)
    BY <1>3, <1>5, <1>7
  <2>. QED
    BY <1>1, <1>5, <1>7, <2>1, ContinueSstp DEF rest, queue
<1>8. CASE frame.is = "papAck" /\ StartIpcpIfReady(ppp \cup {"papDone"}, <<>>)
  <2>1. Answered(ppp \cup {"papDone"}, rest, queue \o <<>>, server)
    BY <1>3, <1>5, <1>8
  <2>. QED
    BY <1>1, <1>3, <1>5, <1>8, <2>1, StartIpcpSstp DEF rest, queue
<1>9. CASE frame.is = "ipcpReq" /\ StartIpcpIfReady(ppp, <<"ipcpAcked">>)
  BY <1>1, <1>3, <1>5, <1>9, StartIpcpSstp DEF rest, queue
<1>10. CASE frame.is = "ipcpNak" /\ NextRound(ppp \cup {"sourceIp"},
                                             <<"address">>)
  BY <1>1, <1>3, <1>5, <1>10, RoundSstp DEF rest, queue
<1>11. CASE NextRound(ppp \cup {"sourceIp", "ipcpFinished"}, <<>>)
  <2>1. "ipcpFinished" \in ppp \cup {"sourceIp", "ipcpFinished"}
    OBVIOUS
  <2>. QED
    BY <1>1, <1>5, <1>11, <2>1, RoundSstp
<1>12. CASE frame.is = "noise" /\ NextRound(ppp, <<>>)
  <2>1. Negotiating(ppp, rest, queue \o <<>>, server)
    BY <1>3, <1>5, <1>12
  <2>. QED
    BY <1>1, <1>5, <1>12, <2>1, RoundSstp DEF rest, queue
<1>13. CASE Fail("rejected")
  BY <1>13 DEF Fail
<1>. QED
  BY <1>6, <1>7, <1>8, <1>9, <1>10, <1>11, <1>12, <1>13
     DEF PppFrame, First, frame

(* The negotiation begins.                                                 *)
LEMMA SstpAsksSstp ==
  ASSUME SstpExpects, SstpAsks
  PROVE  SstpExpects'
<1>. DEFINE w == <<"http", "lcp">>
<1>1. /\ phase = "control" /\ Ask("main", w) /\ phase' = "http"
      /\ buffered' = <<>> /\ arriving' = arriving /\ through' = through
      /\ ppp' = ppp /\ server' = server
  BY DEF SstpAsks, Advance, history, sstpVars
<1>2. /\ owed["main"] = <<>> /\ arriving["main"] = <<>> /\ server = {}
      /\ ppp = {} /\ buffered = <<>>
  BY <1>1 DEF SstpExpects
<1>3. /\ w \in Seq(SstpRequest) /\ Range(w) = {"http", "lcp"}
      /\ \A i \in DOMAIN w : w[i] # "ipcp"
  <2>1. w \in Seq({"http", "lcp"}) /\ DOMAIN w = {1, 2}
        /\ w[1] = "http" /\ w[2] = "lcp"
    OBVIOUS
  <2>2. {"http", "lcp"} \subseteq SstpRequest
    BY DEF SstpRequest
  <2>3. w \in Seq(SstpRequest)
    BY <2>1, <2>2, SeqMonotonic
  <2>. HIDE DEF w
  <2>. QED
    BY <2>1, <2>3 DEF Range
<1>. HIDE DEF w
<1>4. <<>> \o w = w
  BY <1>3, ConcatEmptySeq
<1>5. owed' = [owed EXCEPT !["main"] = w]
  BY <1>1, <1>2, <1>4 DEF Ask
<1>6. Coming = <<>> /\ Coming' = <<>>
  <2>1. <<>> \o <<>> = <<>>
    BY ConcatEmptySeq
  <2>. QED
    BY <1>1, <1>2, <2>1 DEF Coming
<1>7. /\ owed' \in [Link -> Seq(SstpRequest \cup {"query"})]
      /\ owed'["main"] = w /\ owed'["dns"] = owed["dns"]
      /\ owed'["data"] = owed["data"]
  <2>1. w \in Seq(SstpRequest \cup {"query"})
    BY <1>3, SeqMonotonic
  <2>2. owed \in [Link -> Seq(SstpRequest \cup {"query"})]
    BY DEF SstpExpects, SstpTyped
  <2>. QED
    BY <1>5, <2>1, <2>2 DEF Link
<1>8. SstpTyped'
  BY <1>1, <1>2, <1>3, <1>6, <1>7, NoHeads DEF SstpExpects, SstpTyped
<1>9. ResolverExpected'
  BY <1>1, <1>7 DEF SstpExpects, ResolverExpected
<1>10. Negotiating({}, {}, w, {})
  <2>1. Agreed({}, {}, Range(w), {}) /\ MovedOn({})
    BY <1>3 DEF Agreed, LcpAgreed, PapAgreed, IpcpAgreed, MovedOn, BothAcked
  <2>2. AckedFirst(w, {}) /\ AuthAsked({}, {})
    BY <1>3 DEF AckedFirst, AuthAsked
  <2>3. Kinds({}) = {}
    BY DEF Kinds
  <2>. QED
    BY <2>1, <2>2, <2>3 DEF Negotiating, Answered
<1>11. Negotiating(ppp', Heads(Coming'), owed'["main"], server')
  <2>1. Kinds({}) = {}
    BY DEF Kinds
  <2>. QED
    BY <1>1, <1>2, <1>6, <1>7, <1>10, NoHeads
<1>. QED
  BY <1>1, <1>2, <1>8, <1>9, <1>11 DEF SstpExpects, SstpTrying

(* The inner handshake is asked for, with the target's address at hand.    *)
LEMMA SynAsked ==
  ASSUME SstpExpects, Ask("main", <<"syn">>), phase' = "syn",
         phase \in {"assigned", "query"}, arriving' = arriving,
         buffered' \in Seq(SstpHalf), Coming' = Coming, through' = through,
         Len(arriving["dns"]) = 0, Len(owed["dns"]) = 0
  PROVE  SstpExpects'
<1>. DEFINE w == <<"syn">>
            o == owed["main"]
            queue == o \o w
<1>1. o \in Seq(SstpRequest) /\ w \in Seq(SstpRequest) /\ Len(w) = 1
      /\ w[1] = "syn"
  <2>1. "syn" \in SstpRequest
    BY DEF SstpRequest
  <2>. QED
    BY <2>1, MainQueue
<1>2. queue \in Seq(SstpRequest) /\ owed' = [owed EXCEPT !["main"] = queue]
  BY <1>1, MainQueue
<1>. HIDE DEF o, w
<1>3. queue # <<>> /\ queue[Len(queue)] = "syn"
  <2>1. /\ Len(queue) = Len(o) + Len(w) /\ Len(o) \in Nat
        /\ \A i \in 1..(Len(o) + Len(w)) :
             queue[i] = IF i <= Len(o) THEN o[i] ELSE w[i - Len(o)]
    <3>1. o \in Seq(SstpRequest) /\ w \in Seq(SstpRequest)
      BY <1>1
    <3>2. Len(o) \in Nat
      BY <3>1, LenProperties
    <3>. QED
      BY ONLY <3>1, <3>2, ConcatProperties
  <2>. HIDE DEF queue
  <2>2. PICK n \in Nat : n = Len(o)
    BY <2>1
  <2>3. Len(queue) = n + 1 /\ n + 1 \in 1..(n + 1) /\ ~(n + 1 <= n)
        /\ (n + 1) - n = 1
    BY <1>1, <2>1, <2>2
  <2>4. queue[n + 1] = w[1]
    BY <1>1, <2>1, <2>2, <2>3
  <2>. QED
    BY <1>1, <2>3, <2>4
<1>. HIDE DEF queue
<1>4. /\ owed' \in [Link -> Seq(SstpRequest \cup {"query"})]
      /\ owed'["main"] = queue /\ owed'["dns"] = owed["dns"]
      /\ owed'["data"] = owed["data"]
  <2>1. queue \in Seq(SstpRequest \cup {"query"})
    BY <1>2, SeqMonotonic
  <2>2. owed \in [Link -> Seq(SstpRequest \cup {"query"})]
    BY DEF SstpExpects, SstpTyped
  <2>. QED
    BY <1>2, <2>1, <2>2 DEF Link
<1>5. SstpTyped'
  BY <1>2, <1>4 DEF SstpExpects, SstpTyped
<1>6. ResolverExpected'
  <2>1. Len(arriving'["dns"]) = 0 /\ Len(owed'["dns"]) = 0
    BY <1>4
  <2>. QED
    BY <2>1 DEF ResolverExpected
<1>. QED
  BY <1>3, <1>4, <1>5, <1>6 DEF SstpExpects, SstpTrying, SynExpected

LEMMA ResolverCounts ==
  ASSUME SstpExpects
  PROVE  /\ owed["dns"] \in Seq({"query"}) /\ arriving["dns"] \in Seq(SstpHalf)
         /\ phase # "query" =>
              /\ Len(arriving["dns"]) = 0 /\ Len(owed["dns"]) = 0
              /\ arriving["dns"] = <<>> /\ owed["dns"] = <<>>
         /\ phase = "query" /\ Len(buffered) >= 2 =>
              /\ Len(arriving["dns"]) = 0 /\ Len(owed["dns"]) = 0
              /\ Len(buffered) = 2
<1>. DEFINE x == Len(buffered)
            a == arriving["dns"]
            o == owed["dns"]
            y == Len(a)
            z == Len(o)
<1>1. /\ o \in Seq({"query"}) /\ a \in Seq(SstpHalf)
      /\ buffered \in Seq(SstpHalf)
  BY SstpTypes
<1>2. y + 2 * z + (IF phase = "query" THEN x ELSE 0)
        = IF phase = "query" THEN 2 ELSE 0
  BY DEF SstpExpects, ResolverExpected
<1>. HIDE DEF a, o
<1>3. x \in Nat /\ y \in Nat /\ z \in Nat
  BY <1>1
<1>. HIDE DEF x, y, z
<1>4. phase # "query" => y = 0 /\ z = 0
  BY ONLY <1>2, <1>3
<1>5. phase = "query" /\ x >= 2 => y = 0 /\ z = 0 /\ x = 2
  BY ONLY <1>2, <1>3
<1>6. (y = 0 => a = <<>>) /\ (z = 0 => o = <<>>)
  BY <1>1, EmptySeq DEF y, z
<1>. QED
  BY <1>1, <1>4, <1>5, <1>6 DEF x, y, z, a, o

(* The target's address: written in the request, or the resolver's.        *)
LEMMA PppDoneSstp ==
  ASSUME SstpExpects, PppDone
  PROVE  SstpExpects' \/ phase' = "failed"
<1>1. phase = "assigned" /\ Coming = buffered \o arriving["main"]
  BY DEF PppDone, Coming
<1>2. CASE phase' = "failed"
  BY <1>2
<1>3. CASE Ask("main", <<"syn">>) /\ Advance("syn", buffered)
  <2>1. /\ phase' = "syn" /\ buffered' = buffered /\ arriving' = arriving
        /\ through' = through
    BY <1>3 DEF Advance, history
  <2>2. Coming' = Coming
    BY <1>1, <2>1 DEF Coming
  <2>3. buffered' \in Seq(SstpHalf)
    BY <2>1, SstpTypes
  <2>. QED
    BY <1>1, <1>3, <2>1, <2>2, <2>3, ResolverCounts, SynAsked
<1>4. CASE /\ phase' = "resolve" /\ buffered' = <<>>
           /\ arriving' = [arriving EXCEPT !["main"] = buffered \o @]
           /\ UNCHANGED <<choice, sock, owed, history, cause>>
           /\ UNCHANGED <<ppp, server, noise>>
  <2>1. Coming \in Seq(SstpHalf) /\ arriving \in [Link -> Seq(SstpHalf)]
    BY SstpTypes DEF SstpExpects, SstpTyped
  <2>2. arriving' = [arriving EXCEPT !["main"] = Coming]
    BY <1>1, <1>4
  <2>3. /\ arriving' \in [Link -> Seq(SstpHalf)]
        /\ arriving'["main"] = Coming /\ arriving'["dns"] = arriving["dns"]
    BY <2>1, <2>2 DEF Link
  <2>4. Coming' = Coming /\ owed' = owed /\ through' = through
    BY <1>4, <2>3 DEF Coming, history
  <2>5. SstpTyped'
    <3>1. <<>> \in Seq(SstpHalf) /\ buffered' = <<>> /\ owed' = owed
      BY <1>4
    <3>. QED
      BY <2>3, <2>4, <3>1 DEF SstpExpects, SstpTyped
  <2>6. ResolverExpected'
    BY <1>1, <1>4, <2>3, <2>4 DEF SstpExpects, ResolverExpected
  <2>. QED
    BY <1>4, <2>5, <2>6 DEF SstpExpects, SstpTrying
<1>. QED
  BY <1>2, <1>3, <1>4 DEF PppDone, Fail

LEMMA ResolverSstp ==
  ASSUME SstpExpects, AskResolver \/ SstpResolved
  PROVE  SstpExpects'
<1>1. CASE AskResolver
  <2>1. /\ phase = "resolve" /\ phase' = "query" /\ buffered' = <<>>
        /\ owed' = [owed EXCEPT !["dns"] = @ \o <<"query">>]
        /\ arriving' = arriving /\ through' = through
    BY <1>1 DEF AskResolver, Ask, Advance, history
  <2>2. owed["dns"] = <<>> /\ Len(arriving["dns"]) = 0
    BY <2>1, ResolverCounts
  <2>. DEFINE w == <<"query">>
  <2>3. w \in Seq({"query"}) /\ Len(w) = 1
    OBVIOUS
  <2>4. w \in Seq(SstpRequest \cup {"query"})
    BY <2>3, SeqMonotonic
  <2>. HIDE DEF w
  <2>5. <<>> \o w = w
    BY <2>3, ConcatEmptySeq
  <2>6. owed' = [owed EXCEPT !["dns"] = w]
    BY <2>1, <2>2, <2>5 DEF w
  <2>7. owed \in [Link -> Seq(SstpRequest \cup {"query"})]
    BY DEF SstpExpects, SstpTyped
  <2>8. /\ owed' \in [Link -> Seq(SstpRequest \cup {"query"})]
        /\ owed'["dns"] = w /\ owed'["main"] = owed["main"]
        /\ owed'["data"] = owed["data"]
    BY <2>4, <2>6, <2>7 DEF Link
  <2>9. Coming' = Coming
    BY <2>1 DEF Coming
  <2>10. SstpTyped'
    BY <2>1, <2>3, <2>8, <2>9 DEF SstpExpects, SstpTyped
  <2>11. ResolverExpected'
    <3>1. Len(arriving'["dns"]) = 0 /\ Len(owed'["dns"]) = 1
          /\ Len(buffered') = 0
      BY <2>1, <2>2, <2>3, <2>8
    <3>2. 0 + 2 * 1 + 0 = 2
      OBVIOUS
    <3>3. Len(arriving'["dns"]) + 2 * Len(owed'["dns"]) + Len(buffered') = 2
      BY <3>1, <3>2
    <3>. QED
      BY <2>1, <3>3 DEF ResolverExpected
  <2>. QED
    BY <2>1, <2>10, <2>11 DEF SstpExpects, SstpTrying
<1>2. CASE SstpResolved
  <2>1. /\ phase = "query" /\ phase' = "syn" /\ buffered' = Rest
        /\ arriving' = arriving /\ through' = through /\ Len(buffered) >= 2
        /\ Ask("main", <<"syn">>)
    BY <1>2 DEF SstpResolved, Resolved, Complete, history
  <2>2. /\ Len(arriving["dns"]) = 0 /\ Len(owed["dns"]) = 0
        /\ Len(buffered) = 2
    BY <2>1, ResolverCounts
  <2>3. Rest = <<>> /\ buffered \in Seq(SstpHalf)
    BY <2>2, SstpTypes, SubSeqEmpty DEF Rest
  <2>4. Coming' = Coming
    <3>1. arriving["main"] \in Seq(SstpHalf)
      BY SstpTypes
    <3>2. <<>> \o arriving["main"] = arriving["main"]
      BY <3>1, ConcatEmptySeq
    <3>. QED
      BY <2>1, <2>3, <3>2 DEF Coming
  <2>. QED
    BY <2>1, <2>2, <2>3, <2>4, SynAsked
<1>. QED
  BY <1>1, <1>2

(* A frame of the inner handshake.                                         *)
LEMMA SynFrameSstp ==
  ASSUME SstpExpects, SynFrame
  PROVE  SstpExpects' \/ phase' \in {"open", "failed"}
<1>. SUFFICES ASSUME First # "synAck", Advance("syn", Rest), owed' = owed,
                     phase = "syn", Complete, ppp' = ppp, server' = server
              PROVE  SstpExpects'
  BY DEF SynFrame, Advance, Fail
<1>. DEFINE queue == owed["main"]
<1>1. queue \in Seq(SstpRequest) /\ owed' = [owed EXCEPT !["main"] = queue]
  BY MainQueue
<1>2. /\ phase' = "syn" /\ arriving' = arriving /\ buffered' = Rest
      /\ through' = through
  BY DEF Advance, history
<1>. HIDE DEF queue
<1>3. /\ SstpTyped' /\ ResolverExpected' /\ owed'["main"] = queue
      /\ Heads(Coming) = Heads(Coming') \cup {buffered[1]}
  BY <1>1, <1>2, SstpReads
<1>4. SynExpected(Heads(Coming), queue, server)
  BY DEF SstpExpects, queue
<1>5. Kinds(Heads(Coming)) = Kinds(Heads(Coming')) \cup {First}
  BY <1>3, KindsMore DEF First
<1>6. SynExpected(Heads(Coming'), queue, server)
  BY <1>4, <1>5 DEF SynExpected
<1>. QED
  BY <1>2, <1>3, <1>6 DEF SstpExpects, SstpTrying

(* An answer of the proxy's HTTP, or of the resolver.                      *)
LEMMA AnswerSstp ==
  ASSUME SstpExpects, NEW l \in Link, Answer(l), ppp' = ppp, server' = server
  PROVE  SstpExpects'
<1>. DEFINE q == Head(owed[l])
<1>1. PICK m \in Good[q] \cup {"refused"} :
         /\ arriving' = [arriving EXCEPT ![l] = @ \o Halves(m, 0)]
         /\ through' = (through \/ m \in Through)
  BY DEF Answer
<1>2. /\ owed[l] # <<>> /\ q \in DOMAIN Good
      /\ owed' = [owed EXCEPT ![l] = Tail(@)]
      /\ phase' = phase /\ buffered' = buffered /\ ppp' = ppp
      /\ l \in {"main", "dns"}
  <2>1. l # "data"
    BY SstpTypes DEF Answer
  <2>. QED
    BY <2>1 DEF Answer, Link
<1>3. CASE l = "main"
  <2>. DEFINE queue == owed["main"]
  <2>1. /\ queue \in Seq(SstpRequest) /\ queue # <<>> /\ q = Head(queue)
        /\ owed' = [owed EXCEPT !["main"] = Tail(queue)]
    BY <1>2, <1>3, SstpTypes
  <2>. HIDE DEF queue, q
  <2>2. Tail(queue) \in Seq(SstpRequest) /\ q = "http"
    <3>1. q \in SstpRequest /\ Tail(queue) \in Seq(SstpRequest)
      BY <2>1, RangeOfTail
    <3>. QED
      BY <1>2, <3>1 DEF SstpRequest, Good
  <2>3. m \in {"accepted", "refused"}
    BY <2>2 DEF Good
  <2>4. through' = through
    BY <1>1, <2>3 DEF Through, SstpExpects, SstpTyped
  <2>5. ServerSends(m, 0) /\ m \in SstpMessage /\ 0 \in SstpNumber
    BY <1>1, <1>3, <2>3 DEF ServerSends, SstpMessage, SstpNumber
  <2>. DEFINE h == Half(m, 0, 1)
              heads == Heads(Coming) \cup {h}
  <2>6. h.is = m
    BY DEF Half
  <2>7. phase # "control"
    BY <2>1 DEF SstpExpects, queue
  <2>. HIDE DEF h
  <2>8. ASSUME phase \in {"http", "ppp"}
        PROVE  Negotiating(ppp, heads, Tail(queue), server)
    <3>1. Negotiating(ppp, Heads(Coming), queue, server)
      BY <2>8 DEF SstpExpects, queue
    <3>2. AckedFirst(Tail(queue), server \cup {q, "http"})
      BY <2>1, <3>1, AckedFirstLess DEF Negotiating, Answered
    <3>3. AckedFirst(Tail(queue), server)
      BY <2>2, <3>2 DEF AckedFirst
    <3>4. /\ Range(Tail(queue)) \subseteq Range(queue)
          /\ Range(queue) \subseteq Range(Tail(queue)) \cup {"http"}
      BY <2>1, <2>2, RangeOfTail
    <3>5. "http" \notin AgreedRequests
      BY DEF AgreedRequests
    <3>6. h.is \in {"accepted", "refused", "noise", "ipcpReq"}
      BY <2>3, <2>6
    <3>. HIDE DEF heads
    <3>7. heads = Heads(Coming) \cup {h}
      BY DEF heads
    <3>. QED
      BY <3>1, <3>3, <3>4, <3>5, <3>6, <3>7, AnotherNegotiates
  <2>9. ASSUME phase = "syn"
        PROVE  SynExpected(heads, Tail(queue), server)
    <3>1. queue[Len(queue)] = "syn"
      BY <2>1, <2>9 DEF SstpExpects, SynExpected, queue
    <3>2. Tail(queue) # <<>>
      BY <2>1, <2>2, <3>1, LastOfTail
    <3>3. Tail(queue)[Len(Tail(queue))] = "syn"
      BY <2>1, <3>1, <3>2, LastOfTail
    <3>. QED
      BY <3>2, <3>3 DEF SynExpected
  <2>10. \E k \in SstpMessage, n \in SstpNumber :
           ServerSends(k, n) /\ heads = Heads(Coming) \cup {Half(k, n, 1)}
    BY <2>5 DEF h
  <2>. HIDE DEF heads
  <2>. QED
    BY <1>2, <2>1, <2>2, <2>4, <2>7, <2>8, <2>9, <2>10, ServerSstp
<1>4. CASE l = "dns"
  <2>. DEFINE o == owed["dns"]
              a == arriving["dns"]
              h == Halves(m, 0)
  <2>1. /\ o \in Seq({"query"}) /\ o # <<>> /\ a \in Seq(SstpHalf)
        /\ q = Head(o) /\ owed' = [owed EXCEPT !["dns"] = Tail(o)]
        /\ arriving' = [arriving EXCEPT !["dns"] = a \o h]
    BY <1>1, <1>2, <1>4, SstpTypes
  <2>. HIDE DEF o, a, q
  <2>2. Tail(o) \in Seq({"query"}) /\ q = "query"
    BY <2>1, RangeOfTail
  <2>3. m \in {"address", "refused"} /\ m \in SstpMessage /\ 0 \in SstpNumber
    BY <2>2 DEF Good, SstpMessage, SstpNumber
  <2>4. h \in Seq(SstpHalf) /\ Len(h) = 2
    BY <2>3, SstpHalvesType
  <2>. HIDE DEF h
  <2>5. a \o h \in Seq(SstpHalf) /\ Len(a \o h) = Len(a) + 2
    BY <2>1, <2>4, LenTwoMore, ConcatProperties
  <2>6. Len(o) \in Nat /\ Len(o) >= 1 /\ Len(Tail(o)) = Len(o) - 1
    BY <2>1, HeadTailProperties
  <2>7. through' = through
    BY <1>1, <2>3 DEF Through, SstpExpects, SstpTyped
  <2>8. /\ owed' \in [Link -> Seq(SstpRequest \cup {"query"})]
        /\ owed'["dns"] = Tail(o) /\ owed'["main"] = owed["main"]
        /\ owed'["data"] = owed["data"]
        /\ arriving' \in [Link -> Seq(SstpHalf)]
        /\ arriving'["dns"] = a \o h /\ arriving'["main"] = arriving["main"]
    <3>1. Tail(o) \in Seq(SstpRequest \cup {"query"})
      BY <2>2, SeqMonotonic
    <3>2. /\ owed \in [Link -> Seq(SstpRequest \cup {"query"})]
          /\ arriving \in [Link -> Seq(SstpHalf)]
      BY DEF SstpExpects, SstpTyped
    <3>. QED
      BY <2>1, <2>5, <3>1, <3>2 DEF Link
  <2>9. Coming' = Coming
    BY <1>2, <2>8 DEF Coming
  <2>10. SstpTyped'
    BY <1>2, <2>2, <2>7, <2>8, <2>9 DEF SstpExpects, SstpTyped
  <2>11. ResolverExpected'
    <3>. DEFINE x == Len(a)
                z == Len(o)
                x2 == Len(a \o h)
                z2 == Len(Tail(o))
                v == IF phase = "query" THEN Len(buffered) ELSE 0
                c == IF phase = "query" THEN 2 ELSE 0
    <3>1. /\ x \in Nat /\ z \in Nat /\ x2 = x + 2 /\ z2 = z - 1
          /\ v \in Nat /\ c \in Nat
      <4>1. x \in Nat
        BY <2>1
      <4>2. v \in Nat
        BY SstpTypes
      <4>. QED
        BY <2>5, <2>6, <4>1, <4>2
    <3>2. x + 2 * z + v = c
      BY DEF SstpExpects, ResolverExpected, a, o
    <3>. HIDE DEF x, z, x2, z2, v, c
    <3>3. x2 + 2 * z2 + v = c
      BY ONLY <3>1, <3>2
    <3>. QED
      BY <1>2, <2>8, <3>3 DEF ResolverExpected, x2, z2, v, c
  <2>. QED
    BY <1>2, <2>8, <2>9, <2>10, <2>11 DEF SstpExpects
<1>. QED
  BY <1>2, <1>3, <1>4

(* A read moves halves, and no message.                                    *)
LEMMA PullSstp ==
  ASSUME SstpExpects, Pull, ppp' = ppp, server' = server
  PROVE  SstpExpects'
<1>. DEFINE a == arriving[From]
<1>1. /\ phase' = phase /\ owed' = owed /\ through' = through
      /\ From' = From /\ From \in {"main", "dns"}
      /\ From = "dns" <=> phase \in {"resolve", "query"}
      /\ phase # "control" /\ phase # "resolve"
  BY DEF Pull, Wants, Reading, history, From, SstpExpects, SstpTrying
<1>2. PICK n \in 1..Len(a) :
         /\ buffered' = buffered \o SubSeq(a, 1, n)
         /\ arriving' = [arriving EXCEPT ![From] = SubSeq(@, n + 1, Len(@))]
  BY DEF Pull
<1>3. a \in Seq(SstpHalf) /\ buffered \in Seq(SstpHalf)
      /\ arriving \in [Link -> Seq(SstpHalf)]
  BY <1>1, SstpTypes DEF SstpExpects, SstpTyped
<1>. DEFINE left == SubSeq(a, n + 1, Len(a))
<1>4. /\ buffered' \in Seq(SstpHalf) /\ left \in Seq(SstpHalf)
      /\ buffered' \o left = buffered \o a
  <2>. HIDE DEF a
  <2>1. /\ (buffered \o SubSeq(a, 1, n)) \o SubSeq(a, n + 1, Len(a))
             = buffered \o a
        /\ buffered \o SubSeq(a, 1, n) \in Seq(SstpHalf)
        /\ SubSeq(a, n + 1, Len(a)) \in Seq(SstpHalf)
    BY <1>2, <1>3, PullMoves
  <2>. QED
    BY <1>2, <2>1
<1>5. arriving' = [arriving EXCEPT ![From] = left]
  BY <1>2
<1>. HIDE DEF left
<1>6. /\ arriving' \in [Link -> Seq(SstpHalf)] /\ arriving'[From] = left
      /\ \A l \in Link : l # From => arriving'[l] = arriving[l]
  BY <1>1, <1>3, <1>4, <1>5 DEF Link
<1>7. Coming' = Coming
  BY <1>1, <1>4, <1>6 DEF Coming, Link
<1>8. SstpTyped'
  BY <1>1, <1>4, <1>6, <1>7 DEF SstpExpects, SstpTyped
<1>9. ResolverExpected'
  <2>1. CASE From = "main"
    BY <1>1, <1>6, <2>1 DEF SstpExpects, ResolverExpected, Link
  <2>2. CASE From = "dns"
    <3>. DEFINE x == Len(buffered)
                y == Len(a)
                x2 == Len(buffered')
                y2 == Len(left)
                z == 2 * Len(owed["dns"])
    <3>1. x2 + y2 = x + y
      <4>1. Len(buffered' \o left) = Len(buffered') + Len(left)
        BY <1>4, LenConcat
      <4>. HIDE DEF a
      <4>2. Len(buffered \o a) = Len(buffered) + Len(a)
        BY <1>3, LenConcat
      <4>. QED
        BY <1>4, <4>1, <4>2
    <3>2. x \in Nat /\ y \in Nat /\ x2 \in Nat /\ y2 \in Nat /\ z \in Nat
      <4>1. x \in Nat /\ y \in Nat /\ x2 \in Nat /\ y2 \in Nat
        BY <1>3, <1>4, LenProperties
      <4>2. owed["dns"] \in Seq({"query"})
        BY SstpTypes
      <4>3. Len(owed["dns"]) \in Nat
        BY <4>2, LenProperties
      <4>. QED
        BY <4>1, <4>3
    <3>3. phase = "query" /\ y + z + x = 2
      <4>1. phase = "query"
        BY <1>1, <2>2
      <4>. QED
        BY <4>1, <2>2 DEF SstpExpects, ResolverExpected
    <3>. HIDE DEF x, y, x2, y2, z
    <3>4. y2 + z + x2 = 2
      BY ONLY <3>1, <3>2, <3>3
    <3>. QED
      BY <1>1, <1>6, <2>2, <3>3, <3>4 DEF ResolverExpected, x2, y2, z
  <2>. QED
    BY <1>1, <2>1, <2>2
<1>. QED
  BY <1>1, <1>7, <1>8, <1>9 DEF SstpExpects

(* Every step.                                                             *)
LEMMA NextSstp ==
  adapter = "sstp" /\ SstpExpects /\ ConnectionNext
    => SstpExpects' \/ phase' \in Over \cup {"open"}
<1> SUFFICES ASSUME adapter = "sstp", SstpExpects, ConnectionNext
             PROVE  SstpExpects' \/ phase' \in Over \cup {"open"}
  OBVIOUS
<1>1. \A why : Fail(why) => phase' \in Over
  BY DEF Fail, Over
<1>2. UNCHANGED sstpVars => ppp' = ppp /\ server' = server
  BY DEF sstpVars
<1>3. CASE SstpServer
  BY <1>3, ServerAsksSstp, ServerTakesSstp DEF SstpServer
<1>4. CASE SstpClient
  BY <1>1, <1>4, SstpAsksSstp, HttpAcceptedSstp, PppFrameSstp, PppDoneSstp,
     ResolverSstp, SynFrameSstp DEF SstpClient, SstpTimesOut, TimesOut, Over
<1>5. ASSUME UNCHANGED sstpVars, NEW l \in Link,
             \/ SocketOpens(l) \/ SocketRefused(l) \/ ServerEnds(l)
      PROVE  SstpExpects' \/ phase' \in Over \cup {"open"}
  BY <1>1, <1>2, <1>5, FrameSstp
     DEF SocketOpens, SocketRefused, ServerEnds, wire, history
<1>6. ASSUME UNCHANGED sstpVars, NEW l \in Link, Answer(l)
      PROVE  SstpExpects'
  BY <1>2, <1>6, AnswerSstp
<1>7. ~TargetSends
  BY DEF TargetSends, SstpExpects, SstpTyped
<1>8. ~SessionCloses /\ ~DataSocketClosed
  BY DEF SessionCloses, DataSocketClosed, SstpExpects, SstpTrying
<1>9. CASE Pull /\ UNCHANGED sstpVars
  BY <1>2, <1>9, PullSstp
<1>10. CASE GivesUp
  BY <1>1, <1>10
     DEF GivesUp, ReadsEnd, WriteFails, NoResolver, ResolverRefuses
<1>11. ~SocksStep /\ ~TurnStep
  <2>1. ~SocksStep
    BY DEF SocksStep, SocksMethods, SocksLogin, SocksConnect, SocksReply,
           HttpAsks, HttpTunnel
  <2>2. ~TurnStep
    BY DEF TurnStep, TurnAllocates, TurnAllocated, TurnAuthenticated,
           TurnPermitted, TurnPeerConnected, TurnBinds, TurnBound, TurnReply
  <2>. QED
    BY <2>1, <2>2
<1>12. CASE DialResolver /\ UNCHANGED sstpVars
  BY <1>2, <1>12, FrameSstp DEF DialResolver, wire, history
<1>13. CASE AskResolver /\ UNCHANGED sstpVars
  BY <1>13, ResolverSstp
<1>. QED
  BY <1>3, <1>4, <1>5, <1>6, <1>7, <1>8, <1>9, <1>10, <1>11, <1>12, <1>13
     DEF ConnectionNext, ClientStep, Continues, Environment

(* An attempt that is over, or open, is not tried again.                   *)
LEMMA SettledStays ==
  phase \in Over \cup {"open"} /\ ConnectionNext => phase' \in Over \cup {"open"}
<1> SUFFICES ASSUME phase \in Over \cup {"open"}, ConnectionNext
             PROVE  phase' \in Over \cup {"open"}
  OBVIOUS
<1>1. /\ phase \notin Reading /\ phase \notin Opening
  BY DEF Over, Reading, Opening
<1>2. ~Continues
  BY <1>1
     DEF Continues, SocksStep, SocksMethods, SocksLogin, SocksConnect,
         SocksReply, HttpAsks, HttpTunnel, TurnStep, TurnAllocates,
         TurnAllocated, TurnAuthenticated, TurnPermitted, TurnPeerConnected,
         TurnBinds, TurnBound, TurnReply, Resolved, DialResolver, AskResolver,
         SstpClient, SstpAsks, HttpAccepted, PppFrame, PppDone, SstpResolved,
         SynFrame, SstpTimesOut, TimesOut, Wants, Reading, Opening
<1>3. ~GivesUp /\ ~Pull
  BY <1>1
     DEF GivesUp, ReadsEnd, WriteFails, NoResolver, ResolverRefuses, TimesOut,
         Pull, Wants, Opening, Reading
<1>4. SstpServer => phase' = phase
  BY DEF SstpServer, ServerAsksLcp, ServerAsksIpcp, ServerSendsNoise,
         ServerTakes
<1>. QED
  BY <1>2, <1>3, <1>4
     DEF ConnectionNext, ClientStep, Environment, SocketOpens, SocketRefused,
         ServerEnds, Answer, TargetSends, SessionCloses, DataSocketClosed,
         Fail, Over

LEMMA SstpInitially == ConnectionInit => SstpInv
<1> SUFFICES ASSUME ConnectionInit, adapter = "sstp" PROVE SstpExpects
  BY DEF SstpInv
<1>1. /\ phase = "control" /\ buffered = <<>> /\ through = FALSE
      /\ arriving = Quiet /\ owed = Quiet /\ ppp = {} /\ server = {}
  BY DEF ConnectionInit, AttemptInit, SstpInit
<1>2. /\ \A l \in Link : Quiet[l] = <<>>
      /\ \A S : Quiet \in [Link -> Seq(S)]
  BY DEF Quiet
<1>3. \A l \in Link : arriving[l] = <<>> /\ owed[l] = <<>>
  BY <1>1, <1>2
<1>4. Coming = <<>>
  <2>1. <<>> \o <<>> = <<>>
    BY ConcatEmptySeq
  <2>. QED
    BY <1>1, <1>3, <2>1 DEF Coming, Link
<1>5. SstpTyped
  BY <1>1, <1>2, <1>3, <1>4, NoHeads DEF SstpTyped, Link
<1>6. ResolverExpected
  BY <1>1, <1>3 DEF ResolverExpected, Link
<1>. QED
  BY <1>1, <1>3, <1>5, <1>6 DEF SstpExpects, SstpTrying, Link

(* An adapter that waits for an SSTP server on which everybody else has    *)
(* done what is theirs can say why.                                        *)
LEMMA SstpIsOwed ==
  SstpExpects /\ adapter = "sstp" /\ Wants /\ ~Due => Unanswered # "none"
<1> SUFFICES ASSUME SstpExpects, adapter = "sstp", Wants,
                    arriving[From] = <<>>, owed[From] = <<>>
             PROVE  Unanswered # "none"
  BY DEF Due
<1>1. /\ phase \in {"http", "ppp", "query", "syn"} /\ ~(Len(buffered) >= 2)
      /\ buffered \in Seq(SstpHalf)
  BY SstpTypes
     DEF Wants, HasReply, Complete, Reading, SstpExpects, SstpTrying
<1>2. phase # "query"
  <2>. SUFFICES ASSUME phase = "query" PROVE FALSE
    OBVIOUS
  <2>1. Len(arriving["dns"]) = 0 /\ Len(owed["dns"]) = 0
    BY DEF From
  <2>2. Len(buffered) \in Nat
    BY <1>1
  <2>3. Len(buffered) = 2
    BY <2>1, <2>2 DEF SstpExpects, ResolverExpected
  <2>. QED
    BY <1>1, <2>3
<1>3. arriving["main"] = <<>> /\ owed["main"] = <<>>
  BY <1>1, <1>2 DEF From
<1>4. Heads(Coming) = {} /\ Kinds({}) = {} /\ Range(<<>>) = {}
  <2>1. Coming = buffered /\ WholeMessages(buffered)
    <3>1. buffered \o <<>> = buffered
      BY <1>1, ConcatEmptySeq
    <3>. QED
      BY <1>1, <1>2, <1>3, <3>1, SstpTypes
  <2>2. PICK c \in Nat : Len(buffered) = 2 * c
    BY <2>1 DEF WholeMessages
  <2>3. c = 0
    BY <1>1, <2>2
  <2>4. buffered = <<>>
    BY <1>1, <2>2, <2>3, EmptySeq
  <2>. QED
    BY <2>1, <2>4, NoHeads DEF Kinds, Range
<1>5. phase \in {"http", "ppp"} =>
        Agreed(ppp, {}, {}, server) /\ MovedOn(ppp)
  BY <1>3, <1>4 DEF SstpExpects, Negotiating, Answered
<1>6. CASE phase = "http"
  BY <1>5, <1>6 DEF SstpExpects, Agreed, LcpAgreed
<1>7. CASE phase = "ppp"
  <2>1. "lcpReq" \in server => "ipcpFinished" \in ppp
    BY <1>5, <1>7, SilenceIsFinished
  <2>. QED
    BY <1>7, <2>1 DEF SstpExpects, Unanswered
<1>8. CASE phase = "syn"
  <2>1. SynExpected({}, <<>>, server)
    BY <1>3, <1>4, <1>8 DEF SstpExpects
  <2>. QED
    BY <1>4, <1>8, <2>1 DEF SynExpected, Unanswered
<1>. QED
  BY <1>1, <1>2, <1>6, <1>7, <1>8

(* A timer that fires has a reason.                                        *)
LEMMA TimersHaveCauses ==
  ASSUME adapter = "turn" => EarlyOK, TurnInv, SstpInv, NEW why,
         \/ adapter = "turn" /\ why = "none"
         \/ adapter = "sstp" /\ why = Unanswered,
         TimesOut(why)
  PROVE  cause' # "none"
<1>1. cause' = IF Due THEN "slow" ELSE why
  BY DEF TimesOut, Fail
<1>2. CASE Due
  BY <1>1, <1>2
<1>3. CASE ~Due
  <2>1. Wants
    BY <1>3 DEF TimesOut, Due
  <2>2. adapter = "sstp"
    BY <1>3, <2>1, TurnIsOwed DEF TurnInv
  <2>3. SstpExpects
    BY <2>1, <2>2 DEF SstpInv, Wants, Reading, Over
  <2>. QED
    BY <1>1, <1>3, <2>1, <2>2, <2>3, SstpIsOwed
<1>. QED
  BY <1>2, <1>3

LEMMA CausesStep ==
  ASSUME EarlyInv, TurnInv, SstpInv, FailsOnlyForCause, ConnectionNext
  PROVE  FailsOnlyForCause'
<1>. SUFFICES ASSUME phase' = "failed" PROVE cause' # "none"
  BY DEF FailsOnlyForCause
<1>1. ASSUME NEW why \in {"refused", "closed", "no resolver", "rejected",
                          "credentials", "cut", "crowded"},
             Fail(why)
      PROVE  cause' # "none"
  BY <1>1 DEF Fail
<1>2. phase' = phase /\ cause' = cause => cause' # "none"
  BY DEF FailsOnlyForCause
<1>3. CASE SocksStep
  BY <1>1, <1>3
     DEF SocksStep, SocksMethods, SocksLogin, SocksConnect, HttpAsks,
         HttpTunnel, Advance, Established
<1>4. CASE TurnStep
  BY <1>1, <1>4
     DEF TurnStep, TurnAllocates, TurnAllocated, TurnAuthenticated,
         TurnPermitted, TurnPeerConnected, TurnBinds, TurnBound, Permit,
         Advance
<1>5. CASE Resolved("control") \/ DialResolver \/ AskResolver
  BY <1>2, <1>5 DEF Resolved, DialResolver, AskResolver, Advance
<1>6. ASSUME adapter = "sstp", TimesOut(Unanswered)
      PROVE  cause' # "none"
  BY <1>6, TimersHaveCauses
<1>7. ASSUME adapter = "turn", TimesOut("none")
      PROVE  cause' # "none"
  BY <1>7, TimersHaveCauses DEF EarlyInv
<1>8. CASE SstpClient
  <2>1. ASSUME NEW flags, NEW writes, NextRound(flags, writes)
        PROVE  FALSE
    BY <2>1 DEF NextRound, Advance
  <2>2. ASSUME NEW flags, NEW writes, StartIpcpIfReady(flags, writes)
        PROVE  FALSE
    BY <2>1, <2>2 DEF StartIpcpIfReady
  <2>3. ASSUME NEW flags, NEW writes, Continue(flags, writes)
        PROVE  Fail("credentials")
    BY <2>1, <2>2, <2>3 DEF Continue
  <2>4. CASE PppFrame
    BY <1>1, <2>1, <2>2, <2>3, <2>4 DEF PppFrame
  <2>5. CASE SstpAsks \/ HttpAccepted \/ PppDone \/ SstpResolved \/ SynFrame
    BY <1>1, <2>5
       DEF SstpAsks, HttpAccepted, PppDone, SstpResolved, SynFrame, Resolved,
           Advance
  <2>. QED
    BY <1>6, <1>8, <2>4, <2>5 DEF SstpClient, SstpTimesOut
<1>9. CASE GivesUp
  BY <1>1, <1>7, <1>9
     DEF GivesUp, ReadsEnd, WriteFails, NoResolver, ResolverRefuses
<1>10. CASE Pull
  BY <1>2, <1>10 DEF Pull, history
<1>11. CASE Environment
  BY <1>1, <1>2, <1>11
     DEF Environment, SocketOpens, SocketRefused, ServerEnds, Answer,
         TargetSends, SessionCloses, DataSocketClosed, SstpServer,
         ServerAsksLcp, ServerAsksIpcp, ServerSendsNoise, ServerTakes
<1>. QED
  BY <1>3, <1>4, <1>5, <1>8, <1>9, <1>10, <1>11
     DEF ConnectionNext, ClientStep, Continues

CauseInv == EarlyInv /\ TurnInv /\ SstpInv /\ FailsOnlyForCause

LEMMA CauseInitially == ConnectionInit => CauseInv
<1>1. ConnectionInit => phase # "failed"
  BY DEF ConnectionInit, AttemptInit
<1>. QED
  BY <1>1, EarlyInitially, TurnInitially, SstpInitially
     DEF CauseInv, FailsOnlyForCause

LEMMA CauseStep == CauseInv /\ [ConnectionNext]_connectionVars => CauseInv'
<1> SUFFICES ASSUME CauseInv, [ConnectionNext]_connectionVars
             PROVE  CauseInv'
  OBVIOUS
<1>1. EarlyInv'
  BY EarlyStep DEF CauseInv
<1>2. CASE UNCHANGED connectionVars
  <2>1. /\ adapter' = adapter /\ phase' = phase /\ cause' = cause
        /\ owed' = owed /\ arriving' = arriving /\ buffered' = buffered
        /\ through' = through /\ ppp' = ppp /\ server' = server
    BY <1>2 DEF connectionVars, attemptVars, sstpVars
  <2>2. TurnInv'
    BY <2>1, FrameTurn DEF CauseInv, TurnInv, wire
  <2>3. SstpInv'
    BY <2>1, FrameSstp DEF CauseInv, SstpInv
  <2>. QED
    BY <1>1, <2>1, <2>2, <2>3 DEF CauseInv, FailsOnlyForCause
<1>3. CASE ConnectionNext
  <2>1. adapter' = adapter
    BY <1>3, AdapterStays
  <2>2. TurnInv'
    BY <1>3, <2>1, NextTurn DEF CauseInv, TurnInv, EarlyInv
  <2>3. SstpInv'
    BY <1>3, <2>1, NextSstp, SettledStays DEF CauseInv, SstpInv
  <2>4. FailsOnlyForCause'
    BY <1>3, CausesStep DEF CauseInv
  <2>. QED
    BY <1>1, <2>2, <2>3, <2>4 DEF CauseInv
<1>. QED
  BY <1>2, <1>3

(* With servers that answer as their protocols say, an attempt never fails *)
(* while everything the adapter could wait for has been said and read      *)
(* (FailsOnlyForCause): not by a message cut or coalesced with another,    *)
(* and not by the order in which an SSTP server makes its own requests     *)
(* (turn.js and sstp.js, up to the session).                               *)
THEOREM FailuresHaveCauses == ConnectionSpec => []FailsOnlyForCause
<1>1. CauseInv => FailsOnlyForCause
  BY DEF CauseInv
<1>. QED
  BY <1>1, CauseInitially, CauseStep, PTL DEF ConnectionSpec

----------------------------------------------------------------------------
(* The TCP inside the SSTP tunnel (SstpStreamIntact).                      *)

Number == 0..(Wrap - 1)
Segment == [seq : Number, ack : Number, bytes : {0, 1}, fin : BOOLEAN]
Reply == [seq : Number, bytes : {0, 1}, fin : BOOLEAN]
Target == [base : Number, sent : 0..MaxIn, acked : 0..MaxIn, next : Number,
           received : 0..MaxOut, fin : BOOLEAN, again : Nat]

RelayTyped ==
  /\ sequence \in Number /\ acknowledgement \in Number
  /\ reading \in {"none", "frame", "ack", "last"}
  /\ writing \in {"none", "data"}
  /\ written \in 0..MaxOut
  /\ toTarget \in Seq(Segment) /\ toClient \in Seq(Reply)
  /\ target \in Target
  /\ delivered \in Seq(Number)

\* Before the inner handshake nothing is under way.
NothingYet ==
  reading = "none" =>
    /\ toTarget = <<>> /\ toClient = <<>> /\ delivered = <<>>
    /\ writing = "none" /\ written = 0 /\ target.fin

\* The frame that only says that the target has no more to send.
Bare == IF toClient = <<>> THEN 0 ELSE 1 - toClient[Len(toClient)].bytes

\* The frames of the target carry on where the session has read to; only
\* the last may end the stream.
ReplyOK(i) ==
  /\ toClient[i].seq = Numbered(Len(delivered) + i - 1)
  /\ i < Len(toClient) => toClient[i].bytes = 1 /\ ~toClient[i].fin
  /\ toClient[i].bytes = 0 => toClient[i].fin
  /\ toClient[i].fin => target.fin

FromTarget ==
  /\ acknowledgement = Numbered(Len(delivered))
  /\ \A k \in 1..Len(delivered) : delivered[k] = Numbered(k - 1)
  /\ Len(delivered) + Len(toClient) = target.sent + Bare
  /\ \A i \in 1..Len(toClient) : ReplyOK(i)
  /\ reading = "last" => target.fin
  /\ target.again = 0

\* What the target has made of the frames it has got, and what it will have
\* made of all that is under way.
Place == [next : Number, received : 0..MaxOut, acked : 0..MaxIn]
Now == [next |-> target.next, received |-> target.received,
        acked |-> target.acked]
InTheEnd == [next |-> Plus(sequence, IF writing = "data" THEN 1 ELSE 0),
             received |-> written, acked |-> Len(delivered)]

\* A frame is acceptable where the one before it leaves the target, and
\* acknowledges no more than the session has read.
Leads(base, read, before, frame, after) ==
  /\ frame.seq = before.next /\ ~frame.fin
  /\ after.next = Plus(before.next, frame.bytes)
  /\ after.received = before.received + frame.bytes
  /\ before.acked <= after.acked /\ after.acked <= read
  /\ frame.ack = Plus(base, after.acked)

\* The places it passes through from one to the other.
Passes(way, frames, base, read, first, last) ==
  /\ way \in [0..Len(frames) -> Place]
  /\ way[0] = first /\ way[Len(frames)] = last
  /\ \A i \in 1..Len(frames) :
       Leads(base, read, way[i - 1], frames[i], way[i])

ToTarget ==
  \E way : Passes(way, toTarget, target.base, Len(delivered), Now, InTheEnd)

\* Neither has a frame of the reading loop been built while a write was
\* pending, nor a FIN been sent.
Undisturbed == ~overlapped /\ ~finSent
RelayKept == RelayTyped /\ NothingYet /\ FromTarget /\ ToTarget
RelayInv == Undisturbed => RelayKept

LEMMA NumbersAre ==
  /\ Wrap \in Nat /\ MaxIn \in Nat /\ MaxOut \in Nat
  /\ MaxIn < Wrap /\ MaxOut + 1 < Wrap
BY RelayAssumption

(* Numbers modulo Wrap.                                                    *)
LEMMA PlusIs ==
  ASSUME NEW n \in Number, NEW k \in 0..(Wrap - 1)
  PROVE  /\ Plus(n, k) = IF n + k < Wrap THEN n + k ELSE n + k - Wrap
         /\ Plus(n, k) \in Number
<1>. DEFINE x == n + k
<1>1. x \in Nat /\ Wrap \in Nat /\ Wrap > 0 /\ x < 2 * Wrap
  BY NumbersAre DEF Number
<1>2. CASE x < Wrap
  <2>1. x % Wrap = x
    BY <1>1, <1>2, SMTT(20)
  <2>2. QED
    BY <1>1, <1>2, <2>1 DEF Plus, Number
<1>3. CASE x >= Wrap
  <2>1. x % Wrap = x - Wrap
    BY <1>1, <1>3, SMTT(20)
  <2>2. QED
    BY <1>1, <1>3, <2>1 DEF Plus, Number
<1>4. QED
  BY <1>1, <1>2, <1>3

LEMMA PlusNone ==
  ASSUME NEW n \in Number
  PROVE  Plus(n, 0) = n
<1>1. 0 \in 0..(Wrap - 1)
  BY NumbersAre
<1>2. Plus(n, 0) = IF n + 0 < Wrap THEN n + 0 ELSE n + 0 - Wrap
  BY <1>1, PlusIs
<1>3. QED
  BY <1>2, NumbersAre DEF Number

LEMMA PlusAgain ==
  ASSUME NEW n \in Number, NEW k \in Nat, k + 1 < Wrap
  PROVE  Plus(Plus(n, k), 1) = Plus(n, k + 1)
<1>. DEFINE m == Plus(n, k)
<1>1. k \in 0..(Wrap - 1) /\ k + 1 \in 0..(Wrap - 1) /\ 1 \in 0..(Wrap - 1)
  BY NumbersAre
<1>2. m \in Number /\ m = IF n + k < Wrap THEN n + k ELSE n + k - Wrap
  BY <1>1, PlusIs
<1>3. Plus(n, k + 1)
        = IF n + (k + 1) < Wrap THEN n + (k + 1) ELSE n + (k + 1) - Wrap
  BY <1>1, PlusIs
<1>4. Plus(m, 1) = IF m + 1 < Wrap THEN m + 1 ELSE m + 1 - Wrap
  BY <1>1, <1>2, PlusIs
<1>. HIDE DEF m
<1>5. Plus(m, 1) = Plus(n, k + 1)
  BY <1>2, <1>3, <1>4, NumbersAre DEF Number
<1>6. QED
  BY <1>5 DEF m

LEMMA PlusDiffers ==
  ASSUME NEW n \in Number, NEW j \in 0..(Wrap - 1), NEW k \in 0..(Wrap - 1),
         Plus(n, j) = Plus(n, k)
  PROVE  j = k
<1>1. Plus(n, j) = IF n + j < Wrap THEN n + j ELSE n + j - Wrap
  BY PlusIs
<1>2. Plus(n, k) = IF n + k < Wrap THEN n + k ELSE n + k - Wrap
  BY PlusIs
<1>3. n \in Int /\ j \in Int /\ k \in Int /\ Wrap \in Int
  BY NumbersAre DEF Number
<1>4. /\ 0 <= j /\ j < Wrap /\ 0 <= k /\ k < Wrap
  BY NumbersAre
<1>5. (IF n + j < Wrap THEN n + j ELSE n + j - Wrap)
        = (IF n + k < Wrap THEN n + k ELSE n + k - Wrap)
  BY <1>1, <1>2
<1>6. QED
  BY ONLY <1>3, <1>4, <1>5

(* One more frame behind those under way.                                  *)
LEMMA OneMoreFrame ==
  ASSUME NEW frames \in Seq(Segment), NEW frame \in Segment,
         NEW first, NEW last \in Place, NEW after \in Place,
         NEW base, NEW read \in Nat, NEW more \in Nat, read <= more,
         NEW way, Passes(way, frames, base, read, first, last),
         Leads(base, more, last, frame, after)
  PROVE  \E w : Passes(w, Append(frames, frame), base, more, first, after)
<1>. DEFINE n == Len(frames)
<1>. DEFINE longer == Append(frames, frame)
<1>. DEFINE w == [i \in 0..(n + 1) |-> IF i = n + 1 THEN after ELSE way[i]]
<1>1. n \in Nat /\ Len(longer) = n + 1 /\ longer[n + 1] = frame
  OBVIOUS
<1>2. \A i \in 1..n : longer[i] = frames[i]
  OBVIOUS
<1>3. way \in [0..n -> Place] /\ way[0] = first /\ way[n] = last
  BY DEF Passes
<1>4. /\ w \in [0..(n + 1) -> Place] /\ w[0] = first /\ w[n + 1] = after
      /\ \A i \in 0..n : w[i] = way[i]
  BY <1>1, <1>3
<1>5. \A i \in 1..n : Leads(base, more, w[i - 1], longer[i], w[i])
  <2>1. TAKE i \in 1..n
  <2>2. Leads(base, read, way[i - 1], frames[i], way[i])
    BY DEF Passes
  <2>3. w[i - 1] = way[i - 1] /\ w[i] = way[i] /\ way[i] \in Place
    BY <1>1, <1>3, <1>4
  <2>4. way[i].acked \in Nat
    BY <2>3, NumbersAre DEF Place
  <2>5. QED
    BY <1>2, <2>2, <2>3, <2>4 DEF Leads
<1>6. Leads(base, more, w[n], longer[n + 1], w[n + 1])
  BY <1>1, <1>3, <1>4
<1>. HIDE DEF longer, w
<1>7. \A i \in 1..(n + 1) : Leads(base, more, w[i - 1], longer[i], w[i])
  <2>1. TAKE i \in 1..(n + 1)
  <2>2. CASE i \in 1..n
    BY <1>5, <2>2
  <2>3. CASE i = n + 1
    BY <1>1, <1>6, <2>3
  <2>4. QED
    BY <1>1, <2>2, <2>3
<1>8. Passes(w, longer, base, more, first, after)
  BY <1>1, <1>4, <1>7 DEF Passes
<1>9. QED
  BY <1>8 DEF longer

(* The first of them arrives.                                              *)
LEMMA OneFrameLess ==
  ASSUME NEW frames \in Seq(Segment), frames # <<>>,
         NEW first, NEW last, NEW base, NEW read, NEW way,
         Passes(way, frames, base, read, first, last)
  PROVE  /\ way[1] \in Place
         /\ Leads(base, read, first, Head(frames), way[1])
         /\ \E w : Passes(w, Tail(frames), base, read, way[1], last)
<1>. DEFINE n == Len(frames)
<1>. DEFINE w == [i \in 0..(n - 1) |-> way[i + 1]]
<1>1. n \in Nat \ {0} /\ frames[1] = Head(frames)
  OBVIOUS
<1>2. /\ Tail(frames) \in Seq(Segment) /\ Len(Tail(frames)) = n - 1
      /\ \A i \in 1..(n - 1) : Tail(frames)[i] = frames[i + 1]
  BY HeadTailProperties
<1>3. /\ way \in [0..n -> Place] /\ way[0] = first /\ way[n] = last
      /\ \A i \in 1..n : Leads(base, read, way[i - 1], frames[i], way[i])
  BY DEF Passes
<1>4. /\ w \in [0..(n - 1) -> Place] /\ w[0] = way[1] /\ w[n - 1] = last
  BY <1>1, <1>3
<1>5. \A i \in 1..(n - 1) :
        Leads(base, read, w[i - 1], Tail(frames)[i], w[i])
  <2>1. TAKE i \in 1..(n - 1)
  <2>2. /\ i + 1 \in 1..n /\ (i + 1) - 1 = i /\ w[i - 1] = way[i]
        /\ w[i] = way[i + 1]
    BY <1>1
  <2>3. Leads(base, read, way[(i + 1) - 1], frames[i + 1], way[i + 1])
    BY <1>3, <2>2
  <2>4. QED
    BY <1>2, <2>2, <2>3
<1>. HIDE DEF w
<1>6. Passes(w, Tail(frames), base, read, way[1], last)
  BY <1>2, <1>4, <1>5 DEF Passes
<1>7. way[1] \in Place /\ Leads(base, read, first, Head(frames), way[1])
  <2>1. 1 \in 0..n /\ 1 \in 1..n /\ 1 - 1 = 0
    BY <1>1
  <2>2. Leads(base, read, way[1 - 1], frames[1], way[1])
    BY <1>3, <2>1
  <2>3. QED
    BY <1>1, <1>3, <2>1, <2>2
<1>8. QED
  BY <1>6, <1>7

LEMMA PlaceTyped ==
  RelayTyped /\ Len(delivered) \in 0..MaxIn
    => Now \in Place /\ InTheEnd \in Place
<1>1. SUFFICES ASSUME RelayTyped, Len(delivered) \in 0..MaxIn
               PROVE  Now \in Place /\ InTheEnd \in Place
  OBVIOUS
<1>2. Now \in Place
  BY <1>1 DEF RelayTyped, Target, Place, Now
<1>3. (IF writing = "data" THEN 1 ELSE 0) \in 0..(Wrap - 1)
  BY NumbersAre
<1>4. Plus(sequence, IF writing = "data" THEN 1 ELSE 0) \in Number
  BY <1>1, <1>3, PlusIs DEF RelayTyped
<1>5. InTheEnd \in Place
  BY <1>1, <1>4 DEF RelayTyped, InTheEnd, Place
<1>6. QED
  BY <1>2, <1>5

(* Nothing of the target is read that it has not sent.                     *)
LEMMA ReadIsSent ==
  RelayKept =>
    /\ Len(delivered) \in 0..MaxIn /\ Len(delivered) <= target.sent
    /\ target.sent \in 0..MaxIn
<1>1. SUFFICES ASSUME RelayKept
               PROVE  /\ Len(delivered) \in 0..MaxIn
                      /\ Len(delivered) <= target.sent
                      /\ target.sent \in 0..MaxIn
  OBVIOUS
<1>2. target.sent \in 0..MaxIn
  BY <1>1 DEF RelayKept, RelayTyped, Target
<1>3. Len(delivered) \in Nat /\ Len(toClient) \in Nat
  BY <1>1 DEF RelayKept, RelayTyped
<1>4. Bare \in {0, 1} /\ Bare <= Len(toClient)
  <2>1. CASE toClient = <<>>
    BY <1>3, <2>1 DEF Bare
  <2>2. CASE toClient # <<>>
    <3>1. Len(toClient) >= 1 /\ toClient[Len(toClient)] \in Reply
      BY <1>1, <2>2 DEF RelayKept, RelayTyped
    <3>2. QED
      BY <2>2, <3>1 DEF Bare, Reply
  <2>3. QED
    BY <2>1, <2>2
<1>5. Len(delivered) + Len(toClient) = target.sent + Bare
  BY <1>1 DEF RelayKept, FromTarget
<1>6. QED
  BY <1>2, <1>3, <1>4, <1>5, NumbersAre

(* The adapter queues a frame.                                             *)
LEMMA QueueFrame ==
  ASSUME RelayKept, NEW frame \in Segment,
         toTarget' = Append(toTarget, frame),
         target' = target, Len(delivered') \in 0..MaxIn,
         Len(delivered) <= Len(delivered'), InTheEnd' \in Place,
         Leads(target.base, Len(delivered'), InTheEnd, frame, InTheEnd')
  PROVE  ToTarget'
<1>1. /\ toTarget \in Seq(Segment) /\ InTheEnd \in Place
      /\ Len(delivered) \in Nat /\ Len(delivered') \in Nat
  BY PlaceTyped, ReadIsSent, NumbersAre DEF RelayKept, RelayTyped
<1>2. PICK way : Passes(way, toTarget, target.base, Len(delivered), Now, InTheEnd)
  BY DEF RelayKept, ToTarget
<1>3. \E w : Passes(w, Append(toTarget, frame), target.base, Len(delivered'),
                    Now, InTheEnd')
  BY <1>1, <1>2, OneMoreFrame
<1>4. Now' = Now
  BY DEF Now
<1>5. QED
  BY <1>3, <1>4 DEF ToTarget

LEMMA QueueKept ==
  ASSUME ToTarget, toTarget' = toTarget, Now' = Now, InTheEnd' = InTheEnd,
         target'.base = target.base, delivered' = delivered
  PROVE  ToTarget'
BY DEF ToTarget

----------------------------------------------------------------------------

LEMMA RelayInitOK == RelayInit => RelayInv
<1>1. SUFFICES ASSUME RelayInit PROVE RelayKept
  BY DEF RelayInv
<1>2. 0 \in Number /\ Plus(0, 0) = 0 /\ 0 \in 0..MaxIn /\ 0 \in 0..MaxOut
  BY NumbersAre, PlusIs DEF Number
<1>3. target \in Target
  BY <1>1, <1>2 DEF RelayInit, NoTarget, Target
<1>4. RelayTyped
  BY <1>1, <1>2, <1>3 DEF RelayInit, RelayTyped
<1>5. NothingYet
  BY <1>1 DEF RelayInit, NothingYet, NoTarget
<1>6. FromTarget
  BY <1>1, <1>2 DEF RelayInit, FromTarget, Bare, NoTarget, Numbered
<1>7. ToTarget
  <2>1. Now = InTheEnd /\ Now \in Place
    BY <1>1, <1>2 DEF RelayInit, Now, InTheEnd, NoTarget, Place
  <2>2. Passes([i \in 0..0 |-> Now], toTarget, target.base, Len(delivered), Now,
               InTheEnd)
    BY <1>1, <2>1 DEF RelayInit, Passes
  <2>3. QED
    BY <2>2 DEF ToTarget
<1>8. QED
  BY <1>4, <1>5, <1>6, <1>7 DEF RelayKept

LEMMA StartsKept == RelayKept /\ RelayStarts => RelayKept'
<1>1. SUFFICES ASSUME RelayKept, RelayStarts PROVE RelayKept'
  OBVIOUS
<1>2. /\ reading = "none" /\ toTarget = <<>> /\ toClient = <<>>
      /\ delivered = <<>> /\ writing = "none" /\ written = 0
  BY <1>1 DEF RelayKept, NothingYet, RelayStarts
<1>3. /\ sequence' \in Number /\ acknowledgement' \in Number
      /\ 0 \in 0..MaxIn /\ 0 \in 0..MaxOut
  BY <1>1, NumbersAre DEF RelayStarts, Number
<1>4. /\ toTarget' = <<>> /\ toClient' = <<>> /\ delivered' = <<>>
      /\ writing' = "none" /\ written' = 0 /\ reading' = "frame"
  BY <1>1, <1>2 DEF RelayStarts
<1>5. target' = [base |-> acknowledgement', sent |-> 0, acked |-> 0,
                 next |-> sequence', received |-> 0, fin |-> FALSE,
                 again |-> 0]
  BY <1>1 DEF RelayStarts, NoTarget
<1>6. Plus(acknowledgement', 0) = acknowledgement' /\ Plus(sequence', 0) = sequence'
  BY <1>3, PlusNone
<1>7. RelayTyped'
  BY <1>3, <1>4, <1>5 DEF RelayTyped, Target
<1>8. NothingYet' /\ FromTarget'
  BY <1>4, <1>5, <1>6 DEF NothingYet, FromTarget, Bare, Numbered
<1>9. ToTarget'
  <2>1. Now' = InTheEnd' /\ Now' \in Place
    BY <1>3, <1>4, <1>5, <1>6 DEF Now, InTheEnd, Place
  <2>2. Passes([i \in 0..0 |-> Now'], toTarget', target'.base, Len(delivered'),
               Now', InTheEnd')
    BY <1>4, <2>1 DEF Passes
  <2>3. QED
    BY <2>2 DEF ToTarget
<1>10. QED
  BY <1>7, <1>8, <1>9 DEF RelayKept

LEMMA ReadPayloadKept ==
  RelayKept /\ ReadPayload /\ Undisturbed' => RelayKept'
<1>1. SUFFICES ASSUME RelayKept, ReadPayload, Undisturbed' PROVE RelayKept'
  OBVIOUS
<1>. DEFINE d == Len(delivered)
<1>. DEFINE frame == [seq |-> sequence, ack |-> acknowledgement', bytes |-> 0,
                      fin |-> FALSE]
<1>2. /\ toClient \in Seq(Reply) /\ toClient # <<>> /\ delivered \in Seq(Number)
      /\ target \in Target /\ sequence \in Number /\ toTarget \in Seq(Segment)
      /\ Len(toClient) \in Nat \ {0} /\ d \in Nat /\ Head(toClient) = toClient[1]
  BY <1>1 DEF RelayKept, RelayTyped, ReadPayload
<1>3. /\ Tail(toClient) \in Seq(Reply)
      /\ Len(Tail(toClient)) = Len(toClient) - 1
      /\ \A i \in 1..(Len(toClient) - 1) : Tail(toClient)[i] = toClient[i + 1]
  BY <1>2, HeadTailProperties
<1>4. /\ reading = "frame" /\ toClient' = Tail(toClient)
      /\ toClient[1].bytes = 1
      /\ acknowledgement' = Plus(toClient[1].seq, 1)
      /\ delivered' = Append(delivered, toClient[1].seq)
      /\ toTarget' = Append(toTarget, frame)
      /\ overlapped' = (overlapped \/ Pending)
      /\ reading' = IF toClient[1].fin THEN "last" ELSE "ack"
      /\ UNCHANGED <<sequence, writing, written, target, finSent>>
  BY <1>1, <1>2 DEF ReadPayload, Frame, Overlap
<1>5. writing = "none"
  BY <1>1, <1>4 DEF RelayKept, RelayTyped, Undisturbed, Pending
<1>6. \A i \in 1..Len(toClient) : ReplyOK(i)
  BY <1>1 DEF RelayKept, FromTarget
<1>7. d + Len(toClient) = target.sent + Bare
  BY <1>1 DEF RelayKept, FromTarget
<1>8. /\ Len(delivered') = d + 1
      /\ \A k \in 1..d : delivered'[k] = delivered[k]
      /\ delivered'[d + 1] = toClient[1].seq
      /\ toClient[1] \in Reply
  BY <1>2, <1>4
<1>. HIDE DEF d
<1>. DEFINE m == Len(toClient)
<1>0. m = 1 \/ m > 1
  <2>1. m \in Nat \ {0}
    BY <1>2
  <2>. HIDE DEF m
  <2>2. QED
    BY <2>1
<1>9. Bare' = Bare
  <2>1. CASE Len(toClient) = 1
    <3>1. toClient' = <<>>
      BY <1>2, <1>3, <1>4, <2>1, EmptySeq
    <3>2. QED
      BY <1>2, <1>4, <2>1, <3>1 DEF Bare
  <2>2. CASE Len(toClient) > 1
    <3>1. /\ toClient' # <<>> /\ Len(toClient') = Len(toClient) - 1
          /\ toClient'[Len(toClient')] = toClient[Len(toClient)]
      BY <1>2, <1>3, <1>4, <2>2
    <3>2. QED
      BY <1>2, <3>1 DEF Bare
  <2>3. QED
    BY <1>0, <2>1, <2>2
<1>10. d + 1 <= target.sent /\ target.sent <= MaxIn
  <2>1. CASE Len(toClient) = 1
    BY <1>2, <1>4, <1>7, <2>1 DEF Bare, Target
  <2>2. CASE Len(toClient) > 1
    <3>1. toClient[Len(toClient)] \in Reply
      BY <1>2
    <3>2. Bare \in {0, 1}
      BY <1>2, <3>1 DEF Bare, Reply
    <3>3. QED
      BY <1>2, <1>7, <2>2, <3>2, NumbersAre DEF Target
  <2>3. QED
    BY <1>0, <2>1, <2>2
<1>11. /\ toClient[1].seq = Numbered(d) /\ toClient[1].seq \in Number
       /\ acknowledgement' = Numbered(d + 1) /\ acknowledgement' \in Number
  <2>1. toClient[1].seq = Numbered(d) /\ toClient[1].seq \in Number
    BY <1>2, <1>6, <1>8 DEF ReplyOK, Reply, d
  <2>2. target.base \in Number /\ d + 1 < Wrap /\ d \in Nat
    BY <1>2, <1>10, NumbersAre DEF Target
  <2>3. Plus(Plus(target.base, d), 1) = Plus(target.base, d + 1)
    BY <2>2, PlusAgain
  <2>4. d + 1 \in 0..(Wrap - 1)
    BY <2>2, NumbersAre
  <2>5. QED
    BY <1>4, <2>1, <2>2, <2>3, <2>4, PlusIs DEF Numbered
<1>12. RelayTyped'
  <2>1. frame \in Segment
    BY <1>2, <1>11 DEF Segment
  <2>2. toTarget' \in Seq(Segment) /\ delivered' \in Seq(Number)
    BY <1>2, <1>4, <1>11, <2>1
  <2>3. QED
    BY <1>1, <1>3, <1>4, <1>11, <2>2 DEF RelayKept, RelayTyped
<1>13. NothingYet'
  BY <1>4 DEF NothingYet
<1>14. FromTarget'
  <2>1. \A i \in 1..Len(toClient') : ReplyOK(i)'
    <3>1. TAKE i \in 1..Len(toClient')
    <3>2. /\ Len(toClient') = Len(toClient) - 1 /\ i + 1 \in 1..Len(toClient)
          /\ toClient'[i] = toClient[i + 1]
          /\ i < Len(toClient') => i + 1 < Len(toClient)
          /\ (d + 1) + i - 1 = d + (i + 1) - 1
      BY <1>2, <1>3, <1>4
    <3>3. ReplyOK(i + 1)
      BY <1>6, <3>2
    <3>4. QED
      BY <1>4, <1>8, <3>2, <3>3 DEF ReplyOK, Numbered, d
  <2>2. \A k \in 1..Len(delivered') : delivered'[k] = Numbered(k - 1)'
    <3>1. TAKE k \in 1..Len(delivered')
    <3>2. CASE k = d + 1
      BY <1>2, <1>4, <1>8, <1>11, <3>2 DEF Numbered
    <3>3. CASE k \in 1..d
      BY <1>1, <1>4, <1>8, <3>3 DEF RelayKept, FromTarget, Numbered, d
    <3>4. QED
      BY <1>2, <1>8, <3>2, <3>3
  <2>3. Len(delivered') + Len(toClient') = target'.sent + Bare'
    BY <1>2, <1>3, <1>4, <1>7, <1>8, <1>9
  <2>4. reading' = "last" => target'.fin
    BY <1>2, <1>4, <1>6 DEF ReplyOK
  <2>5. acknowledgement' = Numbered(Len(delivered))' /\ target'.again = 0
    BY <1>1, <1>4, <1>8, <1>11 DEF RelayKept, FromTarget, Numbered
  <2>6. QED
    BY <2>1, <2>2, <2>3, <2>4, <2>5 DEF FromTarget
<1>15. ToTarget'
  <2>1. /\ InTheEnd = [next |-> sequence, received |-> written, acked |-> d]
        /\ InTheEnd' = [next |-> sequence, received |-> written,
                        acked |-> d + 1]
        /\ Plus(sequence, 0) = sequence
    <3>1. Plus(sequence, 0) = sequence
      BY <1>2, PlusNone
    <3>2. QED
      BY <1>4, <1>5, <1>8, <3>1 DEF InTheEnd, d
  <2>2. frame \in Segment
    BY <1>2, <1>11 DEF Segment
  <2>3. InTheEnd' \in Place /\ Len(delivered') \in 0..MaxIn
    <3>1. d + 1 \in 0..MaxIn
      BY <1>2, <1>10, NumbersAre DEF Target
    <3>2. QED
      BY <1>1, <1>2, <1>8, <2>1, <3>1 DEF Place, RelayKept, RelayTyped
  <2>4. Leads(target.base, Len(delivered'), InTheEnd, frame, InTheEnd')
    <3>1. written + 0 = written /\ d <= d + 1
      BY <1>1, <1>2, NumbersAre DEF RelayKept, RelayTyped
    <3>2. QED
      BY <1>8, <1>11, <2>1, <3>1 DEF Leads, Numbered
  <2>. HIDE DEF frame
  <2>5. target' = target /\ Len(delivered) <= Len(delivered')
    BY <1>2, <1>4, <1>8 DEF d
  <2>6. QED
    BY <1>1, <1>4, <2>2, <2>3, <2>4, <2>5, QueueFrame
<1>16. QED
  BY <1>12, <1>13, <1>14, <1>15 DEF RelayKept

LEMMA WriteSegmentKept ==
  RelayKept /\ WriteSegment => RelayKept'
<1>1. SUFFICES ASSUME RelayKept, WriteSegment PROVE RelayKept'
  OBVIOUS
<1>. DEFINE d == Len(delivered)
<1>. DEFINE frame == [seq |-> sequence, ack |-> acknowledgement, bytes |-> 1,
                      fin |-> FALSE]
<1>2. /\ writing = "none" /\ reading # "none" /\ written < MaxOut
      /\ writing' = "data" /\ written' = written + 1
      /\ toTarget' = Append(toTarget, frame)
      /\ UNCHANGED <<sequence, acknowledgement, reading, target, toClient,
                     delivered>>
  BY <1>1 DEF WriteSegment, Frame, targetSide
<1>3. /\ sequence \in Number /\ acknowledgement \in Number
      /\ written \in 0..MaxOut /\ toTarget \in Seq(Segment)
  BY <1>1 DEF RelayKept, RelayTyped
<1>4. frame \in Segment /\ written + 1 \in 0..MaxOut
  BY <1>2, <1>3, NumbersAre DEF Segment
<1>5. RelayTyped'
  <2>1. toTarget' \in Seq(Segment)
    BY <1>2, <1>3, <1>4
  <2>2. QED
    BY <1>1, <1>2, <1>4, <2>1 DEF RelayKept, RelayTyped
<1>6. NothingYet'
  BY <1>2 DEF NothingYet
<1>7. FromTarget'
  BY <1>1, <1>2 DEF RelayKept, FromTarget, ReplyOK, Numbered, Bare
<1>8. ToTarget'
  <2>1. d \in 0..MaxIn /\ acknowledgement = Plus(target.base, d)
    BY <1>1, ReadIsSent DEF RelayKept, FromTarget, Numbered
  <2>2. Plus(sequence, 0) = sequence /\ Plus(sequence, 1) \in Number
    <3>1. 1 \in 0..(Wrap - 1)
      BY NumbersAre
    <3>2. QED
      BY <1>3, <3>1, PlusNone, PlusIs
  <2>3. /\ InTheEnd = [next |-> sequence, received |-> written, acked |-> d]
        /\ InTheEnd' = [next |-> Plus(sequence, 1), received |-> written + 1,
                        acked |-> d]
    BY <1>2, <2>2 DEF InTheEnd
  <2>4. InTheEnd' \in Place
    BY <1>4, <2>1, <2>2, <2>3 DEF Place
  <2>5. Leads(target.base, d, InTheEnd, frame, InTheEnd')
    BY <2>1, <2>3, NumbersAre DEF Leads
  <2>6. target' = target /\ Len(delivered') = d /\ d <= d
    BY <1>2, <2>1, NumbersAre
  <2>. HIDE DEF frame
  <2>7. QED
    BY <1>1, <1>2, <1>4, <2>1, <2>4, <2>5, <2>6, QueueFrame
<1>9. QED
  BY <1>5, <1>6, <1>7, <1>8 DEF RelayKept

LEMMA WriteCompletesKept ==
  RelayKept /\ WriteCompletes => RelayKept'
<1>1. SUFFICES ASSUME RelayKept, WriteCompletes PROVE RelayKept'
  OBVIOUS
<1>2. /\ writing = "data" /\ writing' = "none"
      /\ sequence' = Plus(sequence, 1)
      /\ UNCHANGED <<acknowledgement, reading, written, toTarget, target,
                     toClient, delivered>>
  BY <1>1 DEF RelayKept, RelayTyped, WriteCompletes, Pending, targetSide
<1>3. sequence \in Number /\ sequence' \in Number
  <2>1. 1 \in 0..(Wrap - 1)
    BY NumbersAre
  <2>2. QED
    BY <1>1, <1>2, <2>1, PlusIs DEF RelayKept, RelayTyped
<1>4. RelayTyped'
  BY <1>1, <1>2, <1>3 DEF RelayKept, RelayTyped
<1>5. NothingYet'
  BY <1>1, <1>2 DEF RelayKept, NothingYet
<1>6. FromTarget'
  BY <1>1, <1>2 DEF RelayKept, FromTarget, ReplyOK, Numbered, Bare
<1>7. ToTarget'
  <2>1. InTheEnd' = InTheEnd
    BY <1>2, <1>3, PlusNone DEF InTheEnd
  <2>2. Now' = Now
    BY <1>2 DEF Now
  <2>3. QED
    BY <1>1, <1>2, <2>1, <2>2, QueueKept DEF RelayKept
<1>8. QED
  BY <1>4, <1>5, <1>6, <1>7 DEF RelayKept

LEMMA ReaderWrittenKept ==
  RelayKept /\ ReaderWritten => RelayKept'
<1>1. SUFFICES ASSUME RelayKept, ReaderWritten PROVE RelayKept'
  OBVIOUS
<1>2. /\ reading = "ack" /\ reading' = "frame"
      /\ UNCHANGED <<sequence, acknowledgement, writing, written, toTarget,
                     target, toClient, delivered>>
  BY <1>1 DEF RelayKept, RelayTyped, ReaderWritten, targetSide
<1>3. RelayTyped'
  BY <1>1, <1>2 DEF RelayKept, RelayTyped
<1>4. NothingYet'
  BY <1>2 DEF NothingYet
<1>5. FromTarget'
  BY <1>1, <1>2 DEF RelayKept, FromTarget, ReplyOK, Numbered, Bare
<1>6. ToTarget'
  <2>1. InTheEnd' = InTheEnd /\ Now' = Now
    BY <1>2 DEF InTheEnd, Now
  <2>2. QED
    BY <1>1, <1>2, <2>1, QueueKept DEF RelayKept
<1>7. QED
  BY <1>3, <1>4, <1>5, <1>6 DEF RelayKept

(* The target sends: a byte, which may be its last, or only a FIN.         *)
LEMMA SendingKept ==
  ASSUME RelayKept, NEW bytes \in {0, 1}, NEW fin \in BOOLEAN,
         bytes = 0 => fin, ~target.fin, target.sent + bytes <= MaxIn,
         toClient' = Append(toClient, [seq |-> Numbered(target.sent),
                                       bytes |-> bytes, fin |-> fin]),
         target' = [target EXCEPT !.sent = @ + bytes, !.fin = fin],
         UNCHANGED <<sequence, acknowledgement, reading, writing, written,
                     toTarget, delivered>>
  PROVE  RelayKept'
<1>. DEFINE reply == [seq |-> Numbered(target.sent), bytes |-> bytes,
                      fin |-> fin]
<1>. DEFINE m == Len(toClient)
<1>1. /\ toClient \in Seq(Reply) /\ m \in Nat /\ target \in Target
      /\ Len(delivered) \in Nat /\ target.sent \in 0..MaxIn
      /\ target.sent + bytes \in 0..MaxIn
  BY NumbersAre DEF RelayKept, RelayTyped, Target
<1>2. /\ target' \in Target /\ target'.base = target.base
      /\ target'.next = target.next /\ target'.received = target.received
      /\ target'.acked = target.acked /\ target'.again = target.again
      /\ target'.sent = target.sent + bytes /\ target'.fin = fin
  BY <1>1 DEF Target
<1>3. reply \in Reply
  <2>1. target.sent \in 0..(Wrap - 1) /\ target.base \in Number
    BY <1>1, NumbersAre DEF Target
  <2>2. QED
    BY <2>1, PlusIs DEF Reply, Numbered
<1>4. /\ toClient' \in Seq(Reply) /\ Len(toClient') = m + 1
      /\ toClient'[m + 1] = reply
      /\ \A i \in 1..m : toClient'[i] = toClient[i]
  BY <1>1, <1>3
<1>5. reading # "none"
  BY DEF RelayKept, NothingYet
<1>6. \A i \in 1..m : ReplyOK(i)
  BY DEF RelayKept, FromTarget
<1>7. toClient # <<>> => m \in 1..m /\ toClient[m] \in Reply /\ ReplyOK(m)
  BY <1>1, <1>6
<1>8. Bare = 0
  BY <1>7 DEF Bare, Reply, ReplyOK
<1>9. Len(delivered) + m = target.sent
  BY <1>1, <1>8 DEF RelayKept, FromTarget
<1>10. Bare' = 1 - bytes
  BY <1>1, <1>4 DEF Bare
<1>. HIDE DEF m
<1>11. RelayTyped'
  BY <1>2, <1>4 DEF RelayKept, RelayTyped
<1>12. NothingYet'
  BY <1>5 DEF NothingYet
<1>13. FromTarget'
  <2>1. \A i \in 1..m : ReplyOK(i)'
    <3>1. TAKE i \in 1..m
    <3>2. ReplyOK(i) /\ toClient[i] \in Reply /\ toClient'[i] = toClient[i]
      BY <1>1, <1>4, <1>6 DEF m
    <3>3. toClient[i].bytes = 1 /\ ~toClient[i].fin
      BY <3>2 DEF ReplyOK, Reply
    <3>4. QED
      BY <1>2, <3>2, <3>3 DEF ReplyOK, Numbered
  <2>2. ASSUME NEW i, i = m + 1 PROVE ReplyOK(i)'
    <3>1. toClient'[i] = reply /\ ~(i < Len(toClient'))
      BY <1>1, <1>4, <2>2 DEF m
    <3>2. Len(delivered) + i - 1 = target.sent
      BY <1>1, <1>9, <2>2 DEF m
    <3>3. /\ toClient'[i].seq = Numbered(target.sent)
          /\ toClient'[i].bytes = bytes /\ toClient'[i].fin = fin
      <4>1. reply.seq = Numbered(target.sent) /\ reply.bytes = bytes
        BY ONLY TRUE
      <4>2. reply.fin = fin
        BY ONLY fin \in BOOLEAN
      <4>. HIDE DEF reply
      <4>3. QED
        BY <3>1, <4>1, <4>2
    <3>4. Numbered(Len(delivered) + i - 1)' = Numbered(target.sent)
      BY <1>2, <3>2 DEF Numbered
    <3>5. QED
      BY <1>2, <3>1, <3>3, <3>4 DEF ReplyOK
  <2>3. \A i \in 1..Len(toClient') : ReplyOK(i)'
    <3>1. TAKE i \in 1..Len(toClient')
    <3>2. i \in 1..m \/ i = m + 1
      <4>1. m \in Nat /\ i \in 1..(m + 1)
        BY <1>1, <1>4 DEF m
      <4>2. QED
        BY <4>1
    <3>3. QED
      BY <2>1, <2>2, <3>2
  <2>4. Len(delivered') + Len(toClient') = target'.sent + Bare'
    BY <1>1, <1>2, <1>4, <1>9, <1>10
  <2>5. \A k \in 1..Len(delivered') : delivered'[k] = Numbered(k - 1)'
    BY <1>2 DEF RelayKept, FromTarget, Numbered
  <2>6. reading' = "last" => target'.fin
    BY DEF RelayKept, FromTarget
  <2>7. acknowledgement' = Numbered(Len(delivered))' /\ target'.again = 0
    BY <1>2 DEF RelayKept, FromTarget, Numbered
  <2>8. QED
    BY <2>3, <2>4, <2>5, <2>6, <2>7 DEF FromTarget
<1>14. ToTarget'
  <2>1. Now' = Now /\ InTheEnd' = InTheEnd
    BY <1>2 DEF Now, InTheEnd
  <2>2. QED
    BY <1>2, <2>1, QueueKept DEF RelayKept
<1>15. QED
  BY <1>11, <1>12, <1>13, <1>14 DEF RelayKept

LEMMA TargetReceivesKept ==
  RelayKept /\ TargetReceives => RelayKept'
<1>1. SUFFICES ASSUME RelayKept, TargetReceives PROVE RelayKept'
  OBVIOUS
<1>. DEFINE d == Len(delivered)
<1>. DEFINE frame == Head(toTarget)
<1>2. /\ toTarget # <<>> /\ toTarget \in Seq(Segment) /\ frame \in Segment
      /\ toTarget' = Tail(toTarget) /\ toTarget' \in Seq(Segment)
      /\ UNCHANGED <<sequence, acknowledgement, reading, writing, written,
                     toClient, delivered>>
  BY <1>1, HeadTailProperties DEF RelayKept, RelayTyped, TargetReceives
<1>3. PICK way : Passes(way, toTarget, target.base, d, Now, InTheEnd)
  BY <1>1 DEF RelayKept, ToTarget
<1>. DEFINE after == way[1]
<1>4. /\ after \in Place /\ Leads(target.base, d, Now, frame, after)
      /\ \E w : Passes(w, Tail(toTarget), target.base, d, after, InTheEnd)
  BY <1>2, <1>3, OneFrameLess
<1>. HIDE DEF after, frame
<1>5. /\ target \in Target /\ d \in 0..MaxIn /\ d <= target.sent
      /\ target.sent \in 0..MaxIn
  BY <1>1, ReadIsSent DEF RelayKept, RelayTyped
<1>6. /\ frame.seq = target.next /\ ~frame.fin
      /\ frame.ack = Numbered(after.acked)
      /\ after.next = Plus(target.next, frame.bytes)
      /\ after.received = target.received + frame.bytes
      /\ after.acked \in target.acked..target.sent
  BY <1>4, <1>5, NumbersAre DEF Leads, Now, Numbered, Place, Target
<1>7. Acknowledged(frame.ack) = after.acked
  <2>. DEFINE all == target.acked..target.sent
  <2>1. \A k \in all : Numbered(k) = frame.ack => k = after.acked
    <3>1. TAKE k \in all
    <3>2. k \in 0..(Wrap - 1) /\ after.acked \in 0..(Wrap - 1)
      BY <1>4, <1>5, NumbersAre DEF Target, Place
    <3>3. target.base \in Number
      BY <1>5 DEF Target
    <3>4. QED
      BY <1>6, <3>2, <3>3, PlusDiffers DEF Numbered
  <2>2. after.acked \in all /\ Numbered(after.acked) = frame.ack
    BY <1>6
  <2>3. (CHOOSE k \in all : Numbered(k) = frame.ack) = after.acked
    BY <2>1, <2>2
  <2>4. QED
    BY <2>2, <2>3 DEF Acknowledged
<1>8. target' = [target EXCEPT !.acked = after.acked, !.next = after.next,
                              !.received = after.received]
  <2>1. frame.bytes + (IF frame.fin THEN 1 ELSE 0) = frame.bytes
    BY <1>2, <1>6 DEF Segment
  <2>2. target' = [target EXCEPT
                     !.acked = Acknowledged(frame.ack),
                     !.next = Plus(@, frame.bytes
                                        + (IF frame.fin THEN 1 ELSE 0)),
                     !.received = @ + frame.bytes]
    BY <1>1, <1>6 DEF TargetReceives, frame
  <2>3. QED
    BY <1>5, <1>6, <1>7, <2>1, <2>2 DEF Target
<1>9. /\ target' \in Target /\ target'.base = target.base
      /\ target'.sent = target.sent /\ target'.fin = target.fin
      /\ target'.again = target.again
      /\ Now' = after
  BY <1>4, <1>5, <1>8 DEF Target, Place, Now
<1>10. RelayTyped'
  BY <1>1, <1>2, <1>9 DEF RelayKept, RelayTyped
<1>11. NothingYet'
  BY <1>1, <1>2 DEF RelayKept, NothingYet
<1>12. FromTarget'
  BY <1>1, <1>2, <1>9 DEF RelayKept, FromTarget, ReplyOK, Numbered, Bare
<1>13. ToTarget'
  <2>1. InTheEnd' = InTheEnd
    BY <1>2 DEF InTheEnd
  <2>2. QED
    BY <1>2, <1>4, <1>9, <2>1 DEF ToTarget
<1>14. QED
  BY <1>10, <1>11, <1>12, <1>13 DEF RelayKept

(* It acknowledges all that it was sent: nothing is sent to it again.      *)
LEMMA NothingAgain ==
  RelayKept => ~TargetSendsAgain
<1>1. SUFFICES ASSUME RelayKept, TargetSendsAgain PROVE FALSE
  OBVIOUS
<1>2. toTarget = <<>> /\ toClient = <<>> /\ target.acked < target.sent
  BY <1>1 DEF TargetSendsAgain
<1>3. PICK way : Passes(way, toTarget, target.base, Len(delivered), Now, InTheEnd)
  BY <1>1 DEF RelayKept, ToTarget
<1>4. Now = InTheEnd
  BY <1>2, <1>3 DEF Passes
<1>5. target.acked = Len(delivered)
  BY <1>4 DEF Now, InTheEnd
<1>6. Len(delivered) + 0 = target.sent + 0
  BY <1>1, <1>2 DEF RelayKept, FromTarget, Bare
<1>7. QED
  BY <1>1, <1>2, <1>5, <1>6, ReadIsSent, NumbersAre

LEMMA RelayNextKept ==
  RelayInv /\ (RelayStarts \/ RelayNext) => RelayInv'
<1>1. SUFFICES ASSUME RelayInv, RelayStarts \/ RelayNext, Undisturbed'
               PROVE  RelayKept'
  BY DEF RelayInv
<1>2. /\ (overlapped' = overlapped) \/ (overlapped' = (overlapped \/ Pending))
      /\ (finSent' = finSent) \/ (finSent' = TRUE)
  <2>1. CASE ReadPayload \/ ReadFin
    BY <2>1 DEF ReadPayload, ReadFin, Overlap
  <2>2. CASE RelayStarts \/ ReaderWritten \/ WriteSegment \/ CloseStream
    BY <2>2 DEF RelayStarts, ReaderWritten, WriteSegment, CloseStream
  <2>3. CASE WriteCompletes \/ TargetSendsByte \/ TargetSendsFin
    BY <2>3 DEF WriteCompletes, TargetSendsByte, TargetSendsFin
  <2>4. CASE TargetReceives \/ TargetSendsAgain
    BY <2>4 DEF TargetReceives, TargetSendsAgain
  <2>5. QED
    BY <1>1, <2>1, <2>2, <2>3, <2>4 DEF RelayNext
<1>3. Undisturbed
  <2>1. ~overlapped' /\ ~finSent'
    BY <1>1 DEF Undisturbed
  <2>2. ~overlapped
    BY <1>2, <2>1, Zenon
  <2>3. ~finSent
    BY <1>2, <2>1, Zenon
  <2>4. QED
    BY <2>2, <2>3 DEF Undisturbed
<1>4. RelayKept
  BY <1>1, <1>3 DEF RelayInv
<1>5. CASE RelayStarts
  BY <1>4, <1>5, StartsKept
<1>6. CASE ReadPayload
  BY <1>1, <1>4, <1>6, ReadPayloadKept
<1>7. CASE ReadFin \/ CloseStream
  BY <1>1, <1>7 DEF ReadFin, CloseStream, Undisturbed
<1>8. CASE ReaderWritten
  BY <1>4, <1>8, ReaderWrittenKept
<1>9. CASE WriteSegment
  BY <1>4, <1>9, WriteSegmentKept
<1>10. CASE WriteCompletes
  BY <1>4, <1>10, WriteCompletesKept
<1>11. CASE TargetSendsByte
  <2>1. PICK fin \in BOOLEAN :
          /\ toClient' = Append(toClient, [seq |-> Numbered(target.sent),
                                           bytes |-> 1, fin |-> fin])
          /\ target' = [target EXCEPT !.sent = @ + 1, !.fin = fin]
    BY <1>11 DEF TargetSendsByte
  <2>2. target.sent + 1 <= MaxIn /\ ~target.fin
    BY <1>4, <1>11, ReadIsSent, NumbersAre DEF TargetSendsByte
  <2>3. UNCHANGED <<sequence, acknowledgement, reading, writing, written,
                    toTarget, delivered>>
    BY <1>11 DEF TargetSendsByte
  <2>4. 1 \in {0, 1} /\ (1 = 0 => fin)
    OBVIOUS
  <2>5. QED
    BY <1>4, <2>1, <2>2, <2>3, <2>4, SendingKept
<1>12. CASE TargetSendsFin
  <2>1. target.sent + 0 = target.sent /\ target.sent <= MaxIn
    BY <1>4, ReadIsSent, NumbersAre
  <2>2. target' = [target EXCEPT !.sent = @ + 0, !.fin = TRUE]
    BY <1>4, <1>12, <2>1 DEF TargetSendsFin, RelayKept, RelayTyped, Target
  <2>3. QED
    BY <1>4, <1>12, <2>1, <2>2, SendingKept DEF TargetSendsFin
<1>13. CASE TargetReceives
  BY <1>4, <1>13, TargetReceivesKept
<1>14. CASE TargetSendsAgain
  BY <1>4, <1>14, NothingAgain
<1>15. QED
  BY <1>1, <1>5, <1>6, <1>7, <1>8, <1>9, <1>10, <1>11, <1>12, <1>13, <1>14
     DEF RelayNext

(***************************************************************************)
(* Whatever numbers the inner handshake ends with, and wherever they wrap, *)
(* the session gets the bytes of the target once and in order and the      *)
(* target those of the session, as long as no frame of the reading loop is *)
(* built while a write is pending and nobody has sent a FIN.               *)
(***************************************************************************)
THEOREM StreamStaysIntact == RelaySpec => []SstpStreamIntact
<1>1. RelayInv /\ UNCHANGED relayVars => RelayInv'
  BY DEF RelayInv, relayVars, Undisturbed, RelayKept, RelayTyped, NothingYet,
         FromTarget, ReplyOK, Bare, Numbered, ToTarget, Now, InTheEnd
<1>2. RelayInv => SstpStreamIntact
  <2>1. SUFFICES ASSUME RelayKept
                 PROVE  /\ StreamIntact
                        /\ toTarget = <<>> => target.received = written
                        /\ target.again = 0
    BY DEF RelayInv, SstpStreamIntact, Undisturbed
  <2>2. StreamIntact
    <3>1. delivered = [k \in 1..Len(delivered) |-> Numbered(k - 1)]
      BY <2>1 DEF RelayKept, RelayTyped, FromTarget
    <3>2. QED
      BY <2>1, <3>1, ReadIsSent DEF StreamIntact
  <2>3. toTarget = <<>> => target.received = written
    BY <2>1 DEF RelayKept, ToTarget, Passes, Now, InTheEnd
  <2>4. QED
    BY <2>1, <2>2, <2>3 DEF RelayKept, FromTarget
<1>3. QED
  BY RelayInitOK, RelayNextKept, <1>1, <1>2, PTL DEF RelaySpec

=============================================================================
