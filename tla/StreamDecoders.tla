--------------------------- MODULE StreamDecoders ---------------------------
(***************************************************************************)
(* The decoders that find frames in a stream of bytes (src/src/protocols/  *)
(* trojan-udp.js, grpc.js, shadowsocks.js, handshake.js and parsers.js,    *)
(* src/src/core/speedtest.js).  A client encodes frames; the network cuts  *)
(* the stream anywhere; every piece is pushed into one decoder, which      *)
(* keeps in its buffer what it cannot decode yet.                          *)
(*                                                                         *)
(* Bytes are small numbers and the long fields are shortened by the        *)
(* constants below.  The client keeps to the protocol and to the size      *)
(* limits.  A sealed byte is numbered 1000 * nonce + byte, and opens only  *)
(* under that nonce.                                                       *)
(* A definition X_Y is no part of the model: it is X with a plausible bug. *)
(***************************************************************************)
EXTENDS Integers, SequencesExt

CONSTANTS
  V4, V6,        \* 4 and 16, the lengths of addresses
  Uuid, Hash,    \* 16 and 56, the lengths of credentials
  Salt,          \* 16 or 32
  VarintBase,    \* 128
  Samples        \* what clients send: [kind, frames, rest]

ASSUME DecoderAssumption ==
  /\ {Uuid, Salt} \subseteq Nat \ {0}
  /\ {V4, V6, Hash, VarintBase} \subseteq Nat \ {0, 1}

VARIABLES
  sample,   \* the decoder's kind and what it is sent
  fed,      \* how much of the stream has been pushed
  decoder   \* buffer, ready, nonce, length; and what was decoded

streamVars == <<sample, fed, decoder>>

\* Positions count from 0 as in the source.
At(b, i) == b[i + 1]
From(b, i) == SubSeq(b, i + 1, Len(b))
Slice(b, i, j) == SubSeq(b, i + 1, j)
U16(b, i) == 256 * At(b, i) + At(b, i + 1)

CrLf == <<13, 10>>
HeaderEnd == CrLf \o CrLf
ContentLength == 256   \* stands for the name of that header

\* What the head of the buffer tells: a unit to take, or nothing yet.
More == [kind |-> "more"]
Invalid == [kind |-> "invalid"]
Took(n, frames, memory) ==
  [kind |-> "took", bytes |-> n, frames |-> frames, memory |-> memory]

\* 'ready': the key is there, the header was sent, the handshake is over;
\* 'length' is payloadLength, or -1.
Memory0 == [ready |-> FALSE, nonce |-> 0, length |-> -1]
Ready(memory) == [memory EXCEPT !.ready = TRUE]

\* Where an address that starts at a cursor ends; if that is not known yet,
\* behind the buffer.
Unknown(b) == Len(b) + 1
SocksType == <<"v4", "none", "domain", "v6">>
VlessType == <<"v4", "domain", "v6">>
TypeIn(types, n) == IF n \in DOMAIN types THEN types[n] ELSE "none"
AddressEnd(type, b, cursor) ==
  IF type = "v4" THEN cursor + V4
  ELSE IF type = "v6" THEN cursor + V6
  ELSE IF Len(b) <= cursor THEN Unknown(b)
  ELSE cursor + 1 + At(b, cursor)

----------------------------------------------------------------------------
TrojanUdp_CutPayload(b, memory) ==   \* the payload may be incomplete
  LET type == TypeIn(SocksType, b[1])
      end == AddressEnd(type, b, 1)
      stop == end + 6 + U16(b, end + 2)
  IN IF type = "none" THEN Invalid
     ELSE IF Len(b) < end + 6 THEN More
     ELSE IF Slice(b, end + 4, end + 6) # CrLf THEN Invalid
     ELSE Took(stop, <<[port |-> U16(b, end),
                        addressHeader |-> Slice(b, 0, end + 2),
                        payload |-> From(b, end + 6)]>>, memory)

TrojanUdp(b, memory) ==
  LET type == TypeIn(SocksType, b[1])
      end == AddressEnd(type, b, 1)
      stop == end + 6 + U16(b, end + 2)
  IN IF type = "none" THEN Invalid
     ELSE IF Len(b) < end + 6 THEN More
     ELSE IF Slice(b, end + 4, end + 6) # CrLf THEN Invalid
     ELSE IF Len(b) < stop THEN More
     ELSE Took(stop, <<[port |-> U16(b, end),
                        addressHeader |-> Slice(b, 0, end + 2),
                        payload |-> Slice(b, end + 6, stop)]>>, memory)

\* The framer puts the query's address before every DNS answer.
DnsAnswer(b, memory) ==
  IF Len(b) < 2 THEN More
  ELSE IF Len(b) < 2 + U16(b, 0) THEN More
  ELSE Took(2 + U16(b, 0), <<Slice(b, 0, 2) \o CrLf
                               \o Slice(b, 2, 2 + U16(b, 0))>>, memory)

\* A payload is the bytes field of a message, or is taken as it stands.
DecodeHunkMessage(p) ==
  LET last == CHOOSE i \in 1..(Len(p) - 1) :
                /\ At(p, i) < VarintBase
                /\ \A j \in 1..(i - 1) : At(p, j) >= VarintBase
      length[i \in 1..(last + 1)] ==
        IF i > last THEN 0
        ELSE (At(p, i) % VarintBase) + VarintBase * length[i + 1]
  IN IF Len(p) < 2 \/ At(p, 0) # 10 THEN <<p>>
     ELSE IF \A i \in 1..(Len(p) - 1) : At(p, i) >= VarintBase THEN <<>>
     ELSE IF length[1] # Len(p) - last - 1 THEN <<>>
     ELSE <<From(p, last + 1)>>

GrpcFrame(b, memory) ==
  LET length == 65536 * U16(b, 1) + U16(b, 3)
      payload == DecodeHunkMessage(Slice(b, 5, 5 + length))
  IN IF Len(b) < 5 THEN More
     ELSE IF At(b, 0) # 0 THEN Invalid
     ELSE IF Len(b) < 5 + length THEN More
     ELSE IF payload = <<>> THEN Invalid
     ELSE Took(5 + length, payload, memory)

\* The salt, then in turn a sealed length and a sealed payload; a seal is as
\* long as a tag, here one byte.
Opened(block, nonce) ==
  IF \A i \in DOMAIN block : block[i] \div 1000 = nonce
  THEN <<[i \in 1..(Len(block) - 1) |-> block[i] % 1000]>> ELSE <<>>

Shadowsocks(b, memory) ==
  LET need == IF memory.length = -1 THEN 3 ELSE memory.length + 1
      plain == Opened(Slice(b, 0, need), memory.nonce)
      next == [memory EXCEPT !.nonce = @ + 1,
                 !.length = IF @ = -1 THEN U16(plain[1], 0) ELSE -1]
  IN IF ~memory.ready
     THEN IF Len(b) < Salt THEN More ELSE Took(Salt, <<>>, Ready(memory))
     ELSE IF Len(b) < need THEN More
     ELSE IF plain = <<>> THEN Invalid
     ELSE Took(need, IF memory.length = -1 THEN <<>> ELSE plain, next)

\* Once its target is known, the rest of a stream is passed on as it is.
ShadowsocksTarget(b, memory) ==
  LET type == TypeIn(SocksType, b[1])
      end == AddressEnd(type, b, 1)
  IN IF memory.ready THEN More
     ELSE IF type = "none" THEN Invalid
     ELSE IF Len(b) < end + 2 THEN More
     ELSE IF U16(b, end) = 0 THEN Invalid
     ELSE Took(end + 2, <<[hostname |-> Slice(b, 1, end),
                           port |-> U16(b, end)]>>, Ready(memory))

----------------------------------------------------------------------------
(* The handshake: bytes are tried as VLESS and as Trojan.  A format needs   *)
(* so many bytes, more than there are, or is ruled out (-1).                *)

VlessId == [i \in 1..Uuid |-> 7]
TrojanHash == [i \in 1..Hash |-> 9]

RequiredVlessBytes(b) ==
  LET command == Uuid + 2 + At(b, Uuid + 1)
      type == TypeIn(VlessType, At(b, command + 3))
  IN IF Len(b) < Uuid + 3 \/ Len(b) <= command THEN Unknown(b)
     ELSE IF At(b, command) \notin {1, 2} THEN -1
     ELSE IF Len(b) <= command + 3 THEN Unknown(b)
     ELSE IF type = "none" THEN -1
     ELSE AddressEnd(type, b, command + 4)

RequiredTrojanBytes(b) ==
  LET type == TypeIn(SocksType, At(b, Hash + 3))
  IN IF Len(b) < Hash + 2 THEN Unknown(b)
     ELSE IF Slice(b, Hash, Hash + 2) # CrLf THEN -1
     ELSE IF Len(b) < Hash + 4 THEN Unknown(b)
     ELSE IF At(b, Hash + 2) \notin {1, 3} \/ type = "none" THEN -1
     ELSE AddressEnd(type, b, Hash + 4) + 4

ParseVlessRequest(b, end) ==
  LET command == Uuid + 2 + At(b, Uuid + 1)
      port == U16(b, command + 1)
      hostname == Slice(b, command + 4, end)
  IN IF /\ Len(b) >= Uuid + 8
        /\ Slice(b, 1, 1 + Uuid) = VlessId /\ port # 0 /\ hostname # <<0>>
     THEN <<[protocol |-> "vless", hostname |-> hostname, port |-> port,
             isUDP |-> At(b, command) = 2]>>
     ELSE <<>>

ParseTrojanRequest(b, end) ==
  LET port == U16(b, end - 4)
      hostname == Slice(b, Hash + 4, end - 4)
  IN IF /\ Slice(b, 0, Hash) = TrojanHash /\ port # 0 /\ hostname # <<0>>
        /\ Slice(b, end - 2, end) = CrLf
     THEN <<[protocol |-> "trojan", hostname |-> hostname, port |-> port,
             isUDP |-> At(b, Hash + 2) = 3]>>
     ELSE <<>>

TryParseTunnelHandshake(b, memory) ==
  LET v == RequiredVlessBytes(b)
      t == RequiredTrojanBytes(b)
      vless == IF v # -1 /\ Len(b) >= v THEN ParseVlessRequest(b, v) ELSE <<>>
      trojan == IF t # -1 /\ Len(b) >= t THEN ParseTrojanRequest(b, t) ELSE <<>>
  IN IF memory.ready THEN More
     ELSE IF vless # <<>> THEN Took(v, vless, Ready(memory))
     ELSE IF trojan # <<>> THEN Took(t, trojan, Ready(memory))
     ELSE IF v = -1 /\ t = -1 THEN Invalid
     ELSE More

----------------------------------------------------------------------------
\* The local speed test answers every request; the first answer carries the
\* protocol's response header.
SpeedTestRequest(b, memory) ==
  LET starts == {i \in 0..(Len(b) - 4) : Slice(b, i, i + 4) = HeaderEnd}
      end == (CHOOSE i \in starts : \A j \in starts : i <= j) + 4
      names == {i \in 0..(end - 1) : At(b, i) = ContentLength}
      body == IF names = {} THEN 0 ELSE At(b, (CHOOSE i \in names : TRUE) + 1)
  IN IF starts = {} \/ Len(b) < end + body THEN More
     ELSE Took(end + body, <<[header |-> ~memory.ready]>>, Ready(memory))

Head1(kind, b, memory) ==
  CASE kind = "trojanUdp" -> TrojanUdp(b, memory)
    [] kind = "dns" -> DnsAnswer(b, memory)
    [] kind = "grpc" -> GrpcFrame(b, memory)
    [] kind = "shadowsocks" -> Shadowsocks(b, memory)
    [] kind = "target" -> ShadowsocksTarget(b, memory)
    [] kind = "handshake" -> TryParseTunnelHandshake(b, memory)
    [] kind = "speedtest" -> SpeedTestRequest(b, memory)

\* push: everything that is complete is taken from the buffer, unit by unit.
TakeOne(kind, d) ==
  LET head == IF d.buffer = <<>> THEN More
              ELSE Head1(kind, d.buffer, d.memory)
  IN IF head.kind = "more" THEN d
     ELSE IF head.kind = "invalid" THEN [d EXCEPT !.failed = TRUE]
     ELSE [buffer |-> From(d.buffer, head.bytes), memory |-> head.memory,
           decoded |-> d.decoded \o head.frames, failed |-> d.failed]

Drain(kind, d) ==
  LET after[n \in 0..Len(d.buffer)] ==
        IF n = 0 THEN d ELSE TakeOne(kind, after[n - 1])
  IN after[Len(d.buffer)]

----------------------------------------------------------------------------
\* What the client puts on the wire for a frame.
Be16(n) == <<n \div 256, n % 256>>
Varint(n) == IF n < VarintBase THEN <<n>>
             ELSE <<VarintBase + (n % VarintBase), n \div VarintBase>>
Seal(bytes, nonce) == [i \in 1..(Len(bytes) + 1) |->
                         1000 * nonce + (IF i > Len(bytes) THEN 999 ELSE bytes[i])]
Address(f) == <<f.type>> \o f.hostname

Encode(kind, frames, i) ==
  LET f == frames[i] IN
  CASE kind = "trojanUdp" ->
         Address(f) \o Be16(f.port) \o Be16(Len(f.payload)) \o CrLf \o f.payload
    [] kind = "dns" -> Be16(Len(f)) \o f
    [] kind = "grpc" ->
         LET message == IF f.hunk
                        THEN <<10>> \o Varint(Len(f.payload)) \o f.payload
                        ELSE f.payload
         IN <<0, 0, 0>> \o Be16(Len(message)) \o message
    [] kind = "shadowsocks" ->
         (IF i = 1 THEN [s \in 1..Salt |-> s] ELSE <<>>)
           \o Seal(Be16(Len(f)), 2 * i - 2) \o Seal(f, 2 * i - 1)
    [] kind = "target" -> Address(f) \o Be16(f.port)
    [] kind = "handshake" ->
         IF f.protocol = "vless"
         THEN <<0>> \o VlessId \o <<Len(f.option)>> \o f.option
                \o <<IF f.isUDP THEN 2 ELSE 1>> \o Be16(f.port) \o Address(f)
         ELSE TrojanHash \o CrLf \o <<IF f.isUDP THEN 3 ELSE 1>> \o Address(f)
                \o Be16(f.port) \o CrLf
    [] kind = "speedtest" ->
         <<71>> \o (IF f.named THEN <<ContentLength, Len(f.body)>> ELSE <<>>)
           \o HeaderEnd \o f.body

Encoded(s) == [i \in DOMAIN s.frames |-> Encode(s.kind, s.frames, i)]
Wire(s) == FlattenSeq(Encoded(s)) \o s.rest

\* What a client may send: frames, and bytes of one that is not complete.
Byte == 0..255
Port == {n \in Nat : n < 65536}
Field == {bytes \in Seq(Byte) : Len(bytes) < 65536}

IsAddress(f, types) ==
  /\ f.type \in DOMAIN types /\ f.hostname \in Seq(Byte)
  /\ \/ types[f.type] = "v4" /\ Len(f.hostname) = V4
     \/ types[f.type] = "v6" /\ Len(f.hostname) = V6
     \/ /\ types[f.type] = "domain" /\ f.hostname # <<>>
        /\ Len(f.hostname) = 1 + f.hostname[1]

IsFrame(kind, f) ==
  CASE kind = "trojanUdp" ->
         IsAddress(f, SocksType) /\ f.port \in Port /\ f.payload \in Field
    [] kind = "dns" -> f \in Field
    [] kind = "grpc" ->
         /\ f.hunk \in BOOLEAN /\ f.payload \in Field
         /\ IF f.hunk THEN Len(f.payload) < VarintBase * VarintBase
            ELSE Len(f.payload) < 2 \/ f.payload[1] # 10
    [] kind = "shadowsocks" -> f \in Field
    [] kind = "target" -> IsAddress(f, SocksType) /\ f.port \in Port \ {0}
    [] kind = "handshake" ->
         /\ f.port \in Port \ {0} /\ f.isUDP \in BOOLEAN /\ f.hostname # <<0>>
         /\ \/ /\ f.protocol = "vless" /\ IsAddress(f, VlessType)
               /\ f.option \in Seq(Byte) /\ Len(f.option) \in Byte
            \/ f.protocol = "trojan" /\ IsAddress(f, SocksType)
    [] kind = "speedtest" ->
         /\ f.named \in BOOLEAN /\ f.body \in Seq(Byte)
         /\ Len(f.body) \in IF f.named THEN Byte ELSE {0}

\* What a decoder remembers behind so many frames.
MemoryAfter(kind, n) ==
  [ready |-> /\ kind \in {"shadowsocks", "target", "handshake", "speedtest"}
             /\ n > 0,
   nonce |-> IF kind = "shadowsocks" THEN 2 * n ELSE 0,
   length |-> -1]

IsSample(s) ==
  /\ s.kind \in {"trojanUdp", "dns", "grpc", "shadowsocks", "target",
                 "handshake", "speedtest"}
  /\ s.frames \in Seq(ToSet(s.frames))
  /\ \A i \in DOMAIN s.frames : IsFrame(s.kind, s.frames[i])
  /\ s.kind \in {"target", "handshake"} => Len(s.frames) = 1
  /\ s.rest \in Seq(Byte)
  /\ s.rest # <<>> =>
       Head1(s.kind, s.rest, MemoryAfter(s.kind, Len(s.frames))) = More

ASSUME SamplesAssumption == \A s \in Samples : IsSample(s)

\* What the code behind the decoder should see of a frame.
Delivered(kind, f, i) ==
  CASE kind = "trojanUdp" ->
         [port |-> f.port, addressHeader |-> Address(f) \o Be16(f.port),
          payload |-> f.payload]
    [] kind = "dns" -> Be16(Len(f)) \o CrLf \o f
    [] kind = "grpc" -> f.payload
    [] kind = "shadowsocks" -> f
    [] kind = "target" -> [hostname |-> f.hostname, port |-> f.port]
    [] kind = "handshake" -> [protocol |-> f.protocol, hostname |-> f.hostname,
                              port |-> f.port, isUDP |-> f.isUDP]
    [] kind = "speedtest" -> [header |-> i = 1]

----------------------------------------------------------------------------
NoSample == [kind |-> "none", frames |-> <<>>, rest |-> <<>>]

StreamInit ==
  /\ sample = NoSample
  /\ fed = 0
  /\ decoder = [buffer |-> <<>>, memory |-> Memory0, decoded |-> <<>>,
                failed |-> FALSE]

StreamOpens(s) ==
  /\ sample = NoSample
  /\ sample' = s
  /\ UNCHANGED <<fed, decoder>>

\* The network delivers the next piece, however long.
Push(n) ==
  /\ sample # NoSample /\ n <= Len(Wire(sample))
  /\ decoder' = Drain(sample.kind,
                      [decoder EXCEPT !.buffer = @ \o Slice(Wire(sample), fed, n)])
  /\ fed' = n
  /\ UNCHANGED sample

StreamNext ==
  \/ \E s \in Samples : StreamOpens(s)
  \/ \E n \in (fed + 1)..Len(Wire(sample)) : Push(n)

StreamSpec == StreamInit /\ [][StreamNext]_streamVars

----------------------------------------------------------------------------
(***************************************************************************)
(* However a stream was cut, at every moment the decoder has delivered     *)
(* exactly the frames that have arrived completely, each once and in       *)
(* order, holds back the bytes behind them, and has refused nothing.       *)
(***************************************************************************)
CutsDoNotMatter ==
  LET wire == Encoded(sample)
      EndOf(i) == Len(FlattenSeq(SubSeq(wire, 1, i)))
      whole == {i \in DOMAIN wire : EndOf(i) <= fed}
      count == Cardinality(whole)
      taken == IF sample.kind = "shadowsocks" THEN Len(decoder.buffer)
               ELSE fed - EndOf(count)
  IN sample # NoSample =>
       /\ ~decoder.failed
       /\ decoder.decoded = [i \in 1..count |->
                               Delivered(sample.kind, sample.frames[i], i)]
       /\ decoder.buffer = Slice(Wire(sample), fed - taken, fed)
=============================================================================
