# A TLA+ model of Re_edgetunnel

Re_edgetunnel is a Cloudflare Worker that tunnels TCP and DNS over WebSocket
and HTTP, with an administration site, a subscription generator, and an
*optimizer*: a daemon on a NAS that measures Cloudflare edge addresses and
publishes the best of them as the Worker's address pool.

This directory models its concurrent and stateful parts, checks them with TLC on
small instances, and proves some of the results for all instances with TLAPS.
Paths below are relative to the repository.

    tlc -config PoolAuthority.cfg MCPoolAuthority     # every run of PROJECT.json
    tlapm PoolAuthority_proofs.tla                    # every *_proofs module

Contents: [the system](#the-system) · [modules](#modules) · [runs](#runs) ·
[bounds and fairness](#bounds-and-fairness) · [what is proved](#what-is-proved) ·
[disagreements found](#disagreements-found) · [not modelled](#not-modelled) ·
[plan](#plan)

## The system

### The optimizer

| Part | State | Operations | What makes it correct |
| --- | --- | --- | --- |
| Pool authority, `src/ops/pool-authority-core.js` | the storage of one Durable Object: `current`, `previous`, `pool:<revision>`, `add_txt`, `manual_add_txt`, `manual_add_initialized`, `status` | publish, rollback, reset to empty, save the override, read | a rollback always finds its snapshot; the served text is that of the current pool; an override shields readers and, once cleared, stays cleared; an initialised object stays so |
| Coordinator, `src/ops/optimizer-coordinator.js` | the same object and its copy in Workers KV (`ADD.txt`, `optimizer:*`) | the RPCs, each of which awaits KV several times | a text saved before the object existed keeps its priority; the administrator has the last word; KV names no pool it does not hold; a mirror that completes alone is exact |
| Readers, `src/ops/pool-store.js`, `controllers/sub.js`, `controllers/admin.js` | none | ask the object, then perhaps KV | reads are linearizable |
| Cycle, `optimizer/src/run.js`, `state.js`, `api.js` | `current.json`, `previous.json`, `last-good-add.txt`, history and run files | measure, publish, verify, undo, write the files | the NAS replaces no pool it does not know, knows the remote state at rest, loses no good pool |
| Lock, `optimizer/src/cli.js` | the lock file | acquire, remove a stale lock, release | exclusion; release; recovery after a kill |
| Daemon, `optimizer/src/cli.js` | the time of the last full cycle | choose full or fast, sleep | full cycles are neither starved nor repeated early |
| Selection, `optimizer/src/score.js`, `candidates.js` | the current pool | sample, score, select, promote | the proposal is acceptable to the Worker and leaves out nothing better; promotion cannot block or cycle on one pool |
| Machine API, `src/ops/optimizer-api.js`, `auth.js` | none | authenticate, route, validate | each request reaches one RPC once |

The NAS calls the machine API over HTTP; the Worker calls the Durable Object; the
object copies itself to KV; subscriptions read both. A request may be lost, its
reply may be lost, or it may be executed after its client has given up; the NAS
may crash between two files; KV may fail between two keys; an operator uses
the same API and an administrator saves overrides at any time.

### The tunnel

| Part | State | Operations | What makes it correct |
| --- | --- | --- | --- |
| Session, `src/core/proxy.js` | a WebSocket, the remote socket (`remoteConnWrapper`), two timers, an observer | handshake, dial, relay both ways, retry through a proxy, close | one remote answers; the request arrives whole; no socket is forgotten |
| Race, `src/core/dialer.js` | concurrent attempts | first success wins | losers are closed, late ones too |
| Observer, `src/ops/egress-diagnostics.js` | a first-byte timer and a terminal flag | record one verdict per connection | the verdict is true and single |
| HTTP tunnel, `src/core/http-tunnel.js` | a response stream, the request's body, the remote socket | dial, copy the body, copy the answer, retry, cancel | no socket outlives `start()`; a cancelled response ends |
| DNS relay, `proxy.js`, `http-tunnel.js`, `protocols/trojan-udp.js` | the response header, the running `forwardDataUDP`, partial frames | query by query over TCP | answers in the right framing, the header once; a silent resolver is not waited for |
| Decoders, `protocols/handshake.js`, `trojan-udp.js`, `grpc.js`, `parsers.js`, `shadowsocks.js`, `core/speedtest.js` | a buffer, a nonce | push a chunk | the result does not depend on where the stream is cut |
| Encryption, `protocols/shadowsocks.js`, the bridge in `proxy.js` | key, nonce, the chain of sends | encrypt, send | every nonce once, and frames on the wire in the order of their nonces |
| Upstream proxies, `protocols/socks5.js`, `turn.js`, `sstp.js`, `upstream.js` | the protocol's phase, a read buffer, up to three sockets; for SSTP a whole TCP | connect, relay | sockets are released on every path; bytes read too early are kept; segments are delivered in order, once |

Hard here: everything an `await` lets in between. The client may leave while a dial
is under way; a remote may end while the retry begins; timers fire at any time;
losers of a race answer late.

### The site

`src/config.js` reads settings from KV and puts defaults it did not find (a
read-then-write against an administrator's save) and keeps a request log the same
way; `controllers/auth.js`, `admin.js`, `sub.js` are the sessions and pages, whose
saves and logins touch the same keys; `utils/*` formats addresses, URIs and HTML;
`index.js` routes requests without state. What must hold: no request undoes
another's write.

## Modules

| Module | Models | State and actions against the code |
| --- | --- | --- |
| `PoolAuthority` | `pool-authority-core.js` | One variable per storage key; one action per operation, since each runs in `transactionSync`. Refusals are the `...Reply` operators, in the code's order. |
| `PoolRegister` | the abstract specification | A live pool, one level of undo, an override, and an answer to readers that is a function of these. `PoolAuthority` implements it (`ImplementsRegister`): a revision stands for the pool its snapshot holds. |
| `OptimizerCoordinator` | `optimizer-coordinator.js` and the readers | Instantiates `PoolAuthority`; `call[c].pc` is the await a call stands at, and each KV operation is a step. `reading` collects the lists in force while a reader awaits KV. |
| `OptimizerCycle` | `run.js`, `state.js`, `api.js` | Instantiates `PoolAuthority` as the remote side; `nas` is the running cycle with its local variables, `disk` the three files, `net` the requests not executed yet. |
| `CycleLock` | the lock functions of `cli.js` | One step per system call: open with `wx`, write the token, stat, remove, read, remove. |
| `DaemonSchedule` | the loop of `cli.js` | Explicit ticks; ages capped where the code no longer tells them apart. |
| `PoolSelection` | `score.js`, `validatePoolEntries`, the choice of `run.js` | Functions over measured addresses. Scores are integers, a fixed multiple of the code's. |
| `CidrSampling` | `candidates.js`, `src/ops/cidr.js` | Masks and ranges in words of `W` bits with the code's shifts; a random draw is a step with any outcome, the scan that fills up is a function. |
| `EgressObserver` | `createEgressObserver` | The observer's methods as functions of its state, and what it has recorded. |
| `TunnelSession` | `proxy.js` for TCP over WebSocket, `dialer.js` | `sink` is the client's stream, `dial` the running dial with its race, `pump` is `connectStreams`, `hooked` the `closed` handlers, `wrapper` is `remoteConnWrapper`; a step is what runs between two awaits. `got` and `heard` record what either side received. |
| `DnsRelay` | `forwardDataUDP` and its callers | `call` is the running call with the await it stands at, `inbox` the client's messages, `header` the response header not sent yet; an answer has two halves so that it can be cut. |
| `HttpTunnel` | `http-tunnel.js`, with `forwardDataTCP` and `connectStreams` as it uses them | `copy` is where `start()` stands, `link` the two possible sockets, `relay` their `connectStreams`, `lock` the body's reader. |
| `StreamDecoders` | the seven decoders over chunks | `Drain` is a `push()`: it takes units (`TakeOne`, one turn of the loop) until the format's function asks for more. The client's encoders are written from what the protocols say, independently of the decoders. |
| `ShadowsocksSender` | `ShadowsocksAeadEncoder` and the bridge's `send` | `sends[c].pc` is the await a call stands at; a sealed block records its key and nonce. |
| `UpstreamAttempt` | what the adapters share | `sock` are the connections (proxy, TURN data, resolver), `owed` the answers a server still owes, `arriving` what the network carries in halves of messages, `buffered` what the adapter has read. Also `resolveIPv4` and `withTimeout`. |
| `SocksUpstream`, `TurnUpstream`, `SstpUpstream` | `socks5.js`, `turn.js`, `sstp.js` up to the handover | One action per await and reply; SSTP's PPP negotiation is a loop over the server's frames, and the server may make its own requests in any order. |
| `SstpRelay` | the TCP inside SSTP, `sstp.js:398-446` | `sequence` and `acknowledgement` are the code's, modulo `Wrap`; `reading` and `writing` are the two awaits that interleave. The target is an external TCP. |
| `UpstreamConnection` | an attempt as `connectToProxy` makes it | Composes the adapters with their servers. |
| `Connector` | the abstract specification | An attempt ends once, with a socket or an error, and whoever ends it lets every connection go. Every adapter implements it (`ImplementsConnector`). |
| `WorkerConfig` | `config.js`, `auth.js`, the saves of `admin.js` | `req[r].pc` is the await of KV a request stands at; the keys and the log are in `kv` and `log`. |

`MC*` modules give the constants their values. In each module a definition named
`X_Y` is no part of the specification: it is `X` with a plausible bug, kept to
show that the properties notice it.

Composition: `OptimizerCoordinator` and `OptimizerCycle` both
contain `PoolAuthority`, the first with the Worker's own concurrency and the
second with the NAS's, `TunnelSession` contains `EgressObserver`, and
`UpstreamConnection` puts the adapters together with the proxies, the resolver
and the network; `MCUpstream` adds the inner TCP that a successful SSTP attempt
hands over. The cycle relies on `CycleLock` for being alone on its files.

`MCNasDecisions` and `MCWorker` hold parts that share no state. A
behaviour of theirs takes steps of one part only, the others staying in their
initial states: the state spaces add up, and each part is checked as it would be
in a run of its own.

## Runs

| Run | Question | Properties |
| --- | --- | --- |
| `PoolAuthority` | What may any series of operations leave in the storage? | `TypeOK`, `RollbackTargetStored`, `ServedTextIsCurrentPool`, `OverrideShieldsReaders`, `ClearedOverrideStaysCleared`, `ImplementsRegister` |
| `Coordinator` | What may two interleaved calls, failing KV operations, an administrator and a reader do? | `LegacyOverrideSurvives`, `AdminHasLastWord`, `OverrideIsExplicit`, `ReadsAreLinearizable`, `MirroredCurrentResolves`, `QuiescentMirror` |
| `Cycle` | What may lost, late and unanswered requests, crashes, failing writes and other publishers do to a NAS? | `LastGoodWasVerified`, `SyncedAtRest`, `KnownGoodSurvives`, `ForeignPoolNeverReplaced` |
| `Lock` | Three processes, kills and failed writes between any two system calls, locks that grow old | `MutualExclusion`, `ReleasesCleanly`, `StaleLockRecovered` |
| `NasDecisions` | Cycles and sleeps of any admissible length; every list of ranges and every draw; every set of candidates and measurements, from every pool reached | `FullCyclesOnTime`, `CandidatesAreUsable`, `ProposalIsAccepted`, `NoBetterLeftOut`, `BetterScoresHigher`, `PromotionChangesPool` |
| `Tunnel` | Every order of messages, dials, answers, ends, timers and closings of one session | `OneRemoteAnswers`, `NoSocketForgotten`, `RequestReachesRemote`, `VerdictIsTrue` |
| `Upstream` | Every adapter, with every cut and coalescing of messages, refusal, end, silence and closing; then the TCP inside SSTP | `ImplementsConnector`, `FailsOnlyForCause`, `EarlyBytesKept`, `AttemptSettles`, `SstpStreamIntact` |
| `Worker` | Decoders under every cut; overlapping sends; DNS queries with failing resolvers; HTTP tunnels under cancellations; requests that overlap on KV | `CutsDoNotMatter`, `CiphertextDecrypts`, `DnsAnswersReadable`, `TunnelReleasesSockets`, `KvWritesSurvive`, `SessionsEnd` |

Four further runs end in a violation, see [disagreements](#disagreements-found).

What the less obvious ones mean:

- `FailsOnlyForCause` keeps `cause`, the reason an observer of the wires would give for a
  failed attempt: a refusal, an end, somebody who is late. An adapter that loses bytes it
  has read, or never asks, fails by its timer although nobody else owes it anything.
- `CutsDoNotMatter` is checked at every moment of every cut, so a decoder may neither wait
  for more than a frame needs nor consume a frame in part.
- `CandidatesAreUsable` compares the code's masks and shifts with ranges in ordinary
  arithmetic, at /0, at full length and for overlapping ranges.

Several properties carry a condition. Each names a case in which the code really
does otherwise, and TLC finds it when the condition is dropped:

- `OverrideIsExplicit` (`~overlapped`): a first publish that awaits `ADD.txt` while another
  one is published, mirrored and reset adopts that one's pool as the administrator's
  override (`optimizer-coordinator.js:60`).
- `QuiescentMirror` (`~degraded`, `~overlapped`): a mirror that failed is not repaired
  until a later one completes, and overlapping mirrors may leave the older one's keys.
- `KnownGoodSurvives` (`~late`, `~meddled`): a reset executed after its client's timeout can
  empty the authority in the middle of the next cycle.
- `SyncedAtRest` (`~faulted`, `~meddled`): after a lost reply or a crash the NAS does not
  know the remote revision. It then refuses to act (`remote_state_unknown`) until an
  operator reconciles the two, which is what `ForeignPoolNeverReplaced` relies on.
- `MutualExclusion` (`~aged`): a lock that outlives its owner's limit is taken over.
- `NoSocketForgotten` (`adoptedIn`): a dial that succeeds after the session has been closed
  leaves its socket open (`proxy.js:301`). This includes the dial of a retry, which a
  client that leaves before any answer causes itself: the close of the direct socket
  ends its pump without data, and `connectStreams` then tries the proxy
  (`proxy.js:105-107`).
- `RequestReachesRemote` (`dial.by = "sink"`): a retry sends the first payload only.
- `TunnelReleasesSockets` (`adopted`): the retry of an HTTP tunnel may likewise open its
  socket after `start()` has ended, and `cancel()` runs only once.
- `DnsAnswersReadable` (`~failed`): the VLESS response header belongs to the first call. If
  that call fails, or the handshake comes without a query and its empty call fails
  (`proxy.js:478`; `http-tunnel.js` does not make that call), the client gets no header any
  more; and behind the half of an answer that broke off the next one follows.
- `EarlyBytesKept` (`whole`): SOCKS5 and CONNECT release their reader without the bytes
  behind the last reply, and SOCKS5 takes any read for a whole reply (`socks5.js:14-35`).
- `AttemptSettles` (`ProxySilent`): those two wait for a silent proxy without a limit.
- `SstpStreamIntact` (`~overlapped`, `~finSent`): see `SstpDuplicated` below; and a FIN does
  not advance `sequence` (`sstp.js:439-441`), so later acknowledgements are dropped as well.
- `KvWritesSurvive` (`raced`, `logRaced`): defaults that a request is about to put when the
  administrator saves do replace the save, a subscription's log entry written between
  another's read and write is lost. Both are one read and one later write without
  anything in between that could notice.

## Bounds and fairness

- Pools, revisions: two pools, two or three revisions. Three revisions
  are needed for a publish after a rollback to differ from both, two pools for a
  republication of the same entries under a new revision.
- `Coordinator`: two call slots, two revisions, one text of the administrator. Every mirror has six steps, and
  two of them already interleave in every order; a third call can only come after
  one has ended.
- `Cycle`: `MaxInFlight = 2`, one awaited request and one abandoned one. Revisions bound
  the number of publishes.
- `Lock`: three processes, so that one can take a lock while two contend for the stale
  one; `MaxFaults = 2` kills or failed writes.
- `NasDecisions`, schedule: `FULL_INTERVAL` four times `FAST_INTERVAL`, as in the defaults; cycles
  of up to two units, wake-ups up to one late. Ages beyond `FULL_INTERVAL` are one value.
  Selection: six addresses in two /24 networks, three in each so that both can
  overfill, one of them outside the sampled ranges; a pool of three with at most two
  per network; four summaries: two that are better in different respects, one worse
  than both, one too slow. Equal summaries are ties. Sampling: words of three bits, one
  range or two with bases 2 and 7 and every prefix, so that ranges are empty of inner
  hosts, nested, disjoint, aligned or not, or end at the largest word. The slack that
  the code adds to draws and scans (`SampleSlack`, `ScanSlack`) is zero, the hardest case.
- `Tunnel`: two attempts per race, two client messages (the second queued during the dial,
  or the handshake split over both), two answers, so that a header could be repeated or
  a second remote heard. A session dials at most three times. The run with three messages
  (15 million states, five minutes) passes as well.
- `Upstream`: every adapter with and without a password and with names and addresses as
  targets; one early message of the target (`MaxData`); every message in two halves, so
  that a read may end anywhere; two frames an SSTP server need not send (`MaxNoise`). The
  code's limits scale from 50 frames of the PPP negotiation to `MaxRounds = 6` and from 30
  of the inner handshake to `MaxAttempts = 2`: negotiations with both of those frames
  still succeed in some orders, and either limit is reached in others. Inner TCP: numbers modulo
  `Wrap = 4`, three bytes in, two out, one retransmission; every pair of starting numbers, so
  that the numbers wrap in both directions.
- `Worker`, decoders: every cut of every sample; a sample has one frame or two and bytes behind
  them. Addresses of four, two and three bytes become two (`V4`), a length-prefixed name and
  three (`V6`); ids, hashes and salts shrink likewise and a varint has two bits per byte
  (`VarintBase = 4`). Samples contain CR and LF inside frames. Sender: three
  overlapping sends of up to two blocks. DNS: three messages of up to two queries.
  HTTP: a body of two chunks, two sockets, which is all a session dials. KV: three requests
  and a log of two entries, so that one entry can be shifted out.

Symmetry is used for call slots and for dial attempts, in runs that check invariants only.

Fairness is assumed where something must happen, and only of the program's own
steps and timers:

- `CycleLock!FairSpec` lets processes go on running and time pass, which is what
  `StaleLockRecovered` needs: operating systems schedule processes and clocks advance.
- `MCUpstream`: weak fairness of `ClientStep`, the adapters' own steps with their timers. The
  proxies, the resolver and the network owe nothing.
- `MCWorker`: weak fairness of `DnsStep` and `HttpStep`, and of the end of a dial that the
  Worker itself bounds by `connectWithTimeout`; not of a dial through an upstream proxy.

`TunnelSession` has no fairness: that a session's sockets are
released in time is stated as a safety property, namely of every state in which the session's
limit has passed and no dial is pending. Deadlock is not an error in `Tunnel`, `Upstream`,
`SstpDuplicated`, `Worker` and `NasDecisions`: a session, an attempt, a stream or a sample may be over.

Revisions end in a checksum and begin with a timestamp; no two requests share one
(`Fresh`). KV is taken to be linearizable; the real one is eventually
consistent across locations, which only concerns readers of the fallback
text and of the mirror.

## What is proved

For every value of the constants that satisfies the modules' assumptions. Each proof
gives an inductive invariant `IndInv` (in `WorkerParts_proofs` and
`UpstreamConnection_proofs` one with a name of its own for each part), shows that the
initial states have it and every step keeps it, with a lemma per operation or await,
and derives the properties from it.

- `PoolAuthority_proofs`: the type invariant, `RollbackTargetStored`, `ServedTextIsCurrentPool`,
  the meaning of `status`, the action properties (also `InitializedIsForever`, which has no run of its
  own: a reset that deletes the text breaks `ImplementsRegister` as well), and the refinement of `PoolRegister`.
  The inductive invariant adds to the type invariant that a stored snapshot is never
  rewritten, that an undo target needs a current pool and its own snapshot, that an
  override claims the object, and what `add_txt` and `status` are. `RollbackTargetStored`
  alone is not inductive: a publish makes `current` the undo target, so the snapshot of
  `current` must be stored as well, which `ServedTextIsCurrentPool` says. Each operation
  is one lemma; the refinement shows that initial states map to
  initial states and each operation to the register's operation of the same name.
- `OptimizerCoordinator_proofs`: all six properties of the `Coordinator` run and the type
  invariant, for any number of calls and any failures of KV. The storage's own
  invariant is reused (`Storage == INSTANCE PoolAuthority_proofs`), since every commit of a call is one
  of its operations. What the awaits need besides: before the object is initialised no
  KV key has been touched and a first publish carries the text that was there
  (`UntouchedUntilInitialized`), hence the adoption; a call that is to put a pointer has put the snapshot
  (`SnapshotBeforePointer`); the lists that were in force while a reader waits include the one it will
  find (`ReadingHoldsLists`); and as long as no two calls have overlapped, how far the only
  mirror has brought KV (`MirrorExact`).
- `OptimizerCycle_proofs`: all four properties of the `Cycle` run, three invariants and the action property
  `ForeignPoolNeverReplaced`, and the type invariant. On top of the storage's invariant: at most one request
  is awaited (`OneConversation`), it is the one the cycle is in (`AwaitedRequest`), and every request, late ones too,
  expects a revision of this NAS or none (`OwnRevisions`), from which the action property follows; what is about to be written to
  `last-good-add.txt` has been verified (`FilesVerified`); a pool that is replaced had a
  predecessor (`PredecessorKnown`); and, until the first fault, the distance between the files and the
  authority at every step of a cycle and of its undoing (`CalmInStep`).
- `CycleLock_proofs`: for any number of processes, faults and outlasting cycles, `MutualExclusion` and
  `ReleasesCleanly`, and the type invariant. The inductive invariant strengthens exclusion:
  as long as no file has aged, whoever is between acquiring and releasing owns the
  file in the directory (`HeldIsOnDisk`), and no process is about to remove a
  stale one (`NobodyRecovers`).
- `NasDecisions_proofs`: two decisions of the NAS, each about its own specification. Of the schedule,
  `FullCyclesOnTime` and its three parts (`FullCadence`, `FailedFullIsRetried`,
  `FullNotEarly`) for all intervals and bounds, from linear relations between the ages
  and the elapsed time in each phase. Of the selection, all four properties
  (`ProposalIsAccepted`, `NoBetterLeftOut`, `BetterScoresHigher` and the action property
  `PromotionChangesPool`) for any finite set of addresses, any measurements and any limits with
  at most two addresses per /24. The state invariant is short (`SelectionInv`: what is proposed is
  what `selectPool` makes of the scores); the work is in the operators. The comparison is a strict total order
  (`BeforeIsOrder`), so the number of candidates ahead is a place, and `Scored` lists every
  candidate once (`ScoredIsInOrder`) and is the only list in order of a set (`OneOrder`). After n
  elements the loop of `selectPool` has a list in order, within its limits, with a reason
  for everybody passed over (`Selection`). A percentile is monotonic, so a dominating
  measurement scores higher in any field (`ScoreOrder`). That a promotion changes the pool follows from
  `OneOrder`: the same addresses proposed again would be the current pool in score order, with no
  gain over itself.
- `TunnelSession_proofs`: all four properties of the `Tunnel` run and the type invariant, for any number of
  attempts in a race, messages and answers. The properties speak of moments of rest, and the
  invariant says what holds in between: a session either dials or relays, and a
  retry dials only when the direct connection it replaces is over (`Phases`, `AdoptedOpened`); the sink waits for its own dial
  (`SinkWaits`); an open socket is in use or has just won (`OpenInUse`); how much
  of the request has been written while the sink is dialling or writing (`Written`); no remote is
  replaced that has answered (`Heard`); and an observer that still listens has a direct
  connection that nobody here has closed, or dials one (`Observed`), which is what makes a recorded early close
  the target's. The methods of the observer are lemmas of their own.
- `UpstreamConnection_proofs`: `AdaptersImplementConnector`, the refinement of `Connector` by all four adapters, step by step,
  from the fact that the end of an attempt and of a session drops every link (`NothingLeft`) and that
  the resolver's connection is gone before the proxy's opens (`ResolverLetGo`); and `EarlyBytesKept`. There the
  invariant says, for each phase of SOCKS5, CONNECT and TURN, what is on the session's connection: nothing
  before the request that lets the target through, then the request or its reply, and
  behind the reply all that the target has said (`AwaitsReply`). Of SSTP that property says nothing.
  `FailuresHaveCauses` (`FailsOnlyForCause`) needs to know who owes the next message: of TURN the halves
  of replies that are still to come are counted phase by phase (`TurnExpects`), and the
  negotiation inside SSTP is followed from both ends - what the adapter's flags say, what
  the server has still to do and which frames are under way fit together (`SstpExpects`,
  `Negotiating`), so that an adapter that waits in vain has been given a cause. These
  three theorems are about `ConnectionSpec`; the run composes it with the relay.
  `StreamStaysIntact` (`SstpStreamIntact`) is about `RelaySpec`, for any `Wrap` larger than the
  number of bytes sent each way (`RelayAssumption`). As long as no two writers have overlapped and nobody has sent a
  FIN, the target's frames carry on where the session has read to (`FromTarget`), and the
  session's frames lead the target, place by place, from where it is to where the session
  believes it to be (`ToTarget`: one place per frame under way, each with the number the frame starts at).
- `WorkerParts_proofs`: the five parts of the `Worker` run, each theorem about the part's own specification, since the parts share no state.
  `TunnelReleasesSockets`: a session has one socket at a time, and the proxy is
  dialled when nothing is left of the direct connection. `KvWritesSurvive`: whoever is about to put defaults
  has been raced by each later save, and a writer of the log holds every entry that survives.
  `CiphertextDecrypts`: the frames sent and those the call at work has sealed are an initial
  part of one stream, whose length is the encoder's nonce (`InSequence`). `DnsAnswersReadable`: the p-th piece a VLESS client
  has received is determined by p, and how many are due by the queries asked (`StreamHolds`).
  `StreamsAreDecoded` (`CutsDoNotMatter`) holds for any frames, all seven decoders and any cuts. The
  invariant is that a decoder is what the bytes pushed so far would have made of a fresh one at
  once (`AsIfUncut`). It is kept because what the head of a buffer tells - a unit or a
  refusal - never changes when more bytes follow (`Settled`; one lemma per format, of which the
  handshake's has to say that the first format recognised stays the first). What is made of the bytes at once
  then follows frame by frame: each format's encoding is read back as the frame, and none of
  its cuts delivers or refuses anything before the end (`Reads`).

The assumptions: sentinels (`Null`, `Never`, `Missing`, `NoSocket`, ...) are no values of the data they stand
beside, bounds are natural numbers (`FULL_INTERVAL`, `MaxInFlight` and `MaxLog` positive), a race has at least one attempt, and `FormatAddTxt` is injective. The coordinator
and the cycle assume of the authority what its own module assumes, and that no call's view
and no reply is `Null`. Of the decoders: lengths are positive, those of addresses and of a
Trojan hash and a varint's base at least two (`DecoderAssumption`); and what a client
sends are frames of its protocol with ports, lengths and payloads in range, behind them
bytes that the decoder waits on (`SamplesAssumption`). TLC evaluates every assumption in a run.

Only model-checked:

- `StaleLockRecovered`, `AttemptSettles` and `SessionsEnd`: liveness under fairness.
- `CandidatesAreUsable` of the sampling: bitwise operators and powers of two, on which the installed
  provers have no facts.

An induction theorem with an operator as its parameter cannot be cited here. Where a proof has to follow
a loop over a list (`selectPool`, the `push()` of a decoder), it takes the least step at which the statement
fails, which well-foundedness of the numbers provides (`Least`, `LeastNumber`). The decoders' `Drain` is a
recursive function for that reason.

## Disagreements found

Each is a run that ends in a counterexample:

- `CoordinatorMirrorOvertaken`: `mirror()` puts `optimizer:current` from a status read before its
  awaits, so an earlier publish's mirror can overwrite the pointer of a later
  rollback; the runbook's check after a rollback (`docs/operations/edge-operations.md:99`)
  then fails for good, although the object itself is right.
- `CycleVerifiedErased`: a local write that fails after the verification of a first publish is treated
  as a failed verification, and the good pool is cleared
  (`optimizer/src/run.js:222`, against the design's "Optimizer failure cannot erase the
  last-known-good pool").
- `LockStaleRace`: two processes that found the same stale lock both run a cycle
  (`optimizer/src/cli.js:81`, against `docs/operations/nas-optimizer.md:143`).
- `SstpDuplicated`: inside an SSTP tunnel the session's write advances `sequence` only
  after the await of the outer write (`src/protocols/sstp.js:435-436`). A frame the reading
  loop builds meanwhile acknowledges under the old number, the target drops it and sends
  again, and since the loop enqueues payloads without looking at their numbers
  (`sstp.js:405-412`) the session gets the byte twice - against what a TCP stream
  promises (`README.md:43`, "IPv4 inner TCP").

Known beside these, without a run of their own: the cases under [Runs](#runs) that a property's condition names; an
override saved while a cycle measures does not stop its publish, although readers are
shielded (`run.js:169`, `docs/operations/nas-optimizer.md:175`); and the release of a lock reads
its token and then removes whatever file bears the name (`cli.js:66`). A TURN
or SSTP connection whose first write fails is not closed by `connectToProxy`
(`proxy.js:259-268`).

## Not modelled

- The upstream proxies inside a session: `TunnelSession` and `HttpTunnel` treat their dial as one
  step that may also never end; `UpstreamConnection` is what happens in it.
- What a lasting upstream connection needs later: the code neither refreshes a TURN
  allocation nor answers SSTP echo requests, nor sends a lost SSTP segment again; the
  outer connection of `SstpRelay` loses nothing.
- Limits on sizes (buffers of the decoders, eight speed-test requests per push): they do depend on
  the cuts, and are far above what a stream in use reaches. Trojan packets for ports
  other than 53 end the session; `DnsRelay` has none.
- The local answer to a speed test: bytes on demand without a state that others see.
- The syntax of addresses, ranges and configuration, and what the fields of the settings mean.
- Cryptography, TLS, HTML, URI and text formats, statistics and masquerading pages: no
  state that a property could be about.
- The probe of one address (`optimizer/src/probe.js`) and the NAS's configuration: pure I/O and
  parsing; the probe's results are enumerated. The authentication of the machine API compares two
  digests; `index.js` chooses a handler.
- Deployment scripts, container files and documents.

## Plan

The modules above are complete as far as the sections before say. Of the safety
properties `CandidatesAreUsable` is left to prove; it needs a theory of powers of two.
