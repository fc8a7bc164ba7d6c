------------------------- MODULE ShadowsocksSender -------------------------
(***************************************************************************)
(* What a Shadowsocks session sends to its client: the chain of promises   *)
(* of core/proxy.js's shadowsocksBridge around ShadowsocksAeadEncoder      *)
(* (src/src/protocols/shadowsocks.js).  Deriving the key and every         *)
(* encryption are awaits; an encryption copies the nonce when it is called *)
(* and increments it when it returns.                                      *)
(* A definition X_Y is no part of the model: it is X with a plausible bug. *)
(***************************************************************************)
EXTENDS Naturals, Sequences

CONSTANTS
  MaxSends,  \* bound: chunks handed to send()
  MaxParts   \* bound: pieces of MAX_CHUNK_BYTES in one chunk

ASSUME SenderAssumption == MaxSends \in Nat /\ MaxParts \in Nat

VARIABLES
  sends,    \* for each call of send(): its pieces, and how far it is
  encoder,  \* [key, nonce]: the salt of its key, 0 for none
  wire,     \* what the client received
  wsOpen    \* serverSock.readyState = OPEN

senderVars == <<sends, encoder, wire, wsOpen>>

\* A frame: a salt, or something sealed under a nonce.
SaltOf(k) == [what |-> "salt", key |-> k, nonce |-> 0]
Sealed(what, k, nonce) == [what |-> what, key |-> k, nonce |-> nonce]

SenderInit ==
  /\ sends = <<>>
  /\ encoder = [key |-> 0, nonce |-> 0]
  /\ wire = <<>>
  /\ wsOpen = TRUE

\* send(data): chained behind everything sent before.
Send(parts) ==
  /\ Len(sends) < MaxSends
  /\ sends' = Append(sends, [left |-> parts, pc |-> "chained", nonce |-> 0,
                             frames |-> <<>>])
  /\ UNCHANGED <<encoder, wire, wsOpen>>

\* The next await of an encode() whose loop stands before its next piece.
NextPiece(t, nonce) ==
  [t EXCEPT !.pc = IF t.left = 0 THEN "encoded" ELSE "length", !.nonce = nonce]

Begin_Unchained(c) ==         \* every send() encodes at once
  /\ sends[c].pc = "chained"
  /\ sends' = [sends EXCEPT ![c] =
                 IF encoder.key = 0 THEN [@ EXCEPT !.pc = "key"]
                                    ELSE NextPiece(@, encoder.nonce)]
  /\ UNCHANGED <<encoder, wire, wsOpen>>

Begin(c) ==
  /\ sends[c].pc = "chained"
  /\ \A d \in 1..(c - 1) : sends[d].pc = "done"
  /\ sends' = [sends EXCEPT ![c] =
                 IF encoder.key = 0 THEN [@ EXCEPT !.pc = "key"]
                                    ELSE NextPiece(@, encoder.nonce)]
  /\ UNCHANGED <<encoder, wire, wsOpen>>

KeyDerived(c) ==
  /\ sends[c].pc = "key"
  /\ encoder' = [encoder EXCEPT !.key = c]
  /\ sends' = [sends EXCEPT ![c] =
                 NextPiece([@ EXCEPT !.frames = <<SaltOf(c)>>], encoder.nonce)]
  /\ UNCHANGED <<wire, wsOpen>>

\* encryptAead of a length returns, then that of its payload.
LengthSealed(c) ==
  /\ sends[c].pc = "length"
  /\ encoder' = [encoder EXCEPT !.nonce = @ + 1]
  /\ sends' = [sends EXCEPT ![c] =
                 [sends[c] EXCEPT
                    !.pc = "payload", !.nonce = encoder'.nonce,
                    !.frames = Append(sends[c].frames,
                                      Sealed("length", encoder.key,
                                             sends[c].nonce))]]
  /\ UNCHANGED <<wire, wsOpen>>

PayloadSealed(c) ==
  /\ sends[c].pc = "payload"
  /\ encoder' = [encoder EXCEPT !.nonce = @ + 1]
  /\ sends' = [sends EXCEPT ![c] =
                 NextPiece([sends[c] EXCEPT
                              !.left = sends[c].left - 1,
                              !.frames = Append(sends[c].frames,
                                                Sealed("payload", encoder.key,
                                                       sends[c].nonce))],
                           encoder'.nonce)]
  /\ UNCHANGED <<wire, wsOpen>>

\* The frames go out in one message, or nowhere.
Deliver(c) ==
  /\ sends[c].pc = "encoded"
  /\ sends' = [sends EXCEPT ![c].pc = "done"]
  /\ wire' = IF wsOpen THEN wire \o sends[c].frames ELSE wire
  /\ UNCHANGED <<encoder, wsOpen>>

WsCloses ==
  /\ wsOpen /\ wsOpen' = FALSE
  /\ UNCHANGED <<sends, encoder, wire>>

SenderNext ==
  \/ \E parts \in 0..MaxParts : Send(parts)
  \/ \E c \in DOMAIN sends :
       \/ Begin(c) \/ KeyDerived(c) \/ LengthSealed(c) \/ PayloadSealed(c)
       \/ Deliver(c)
  \/ WsCloses

SenderSpec == SenderInit /\ [][SenderNext]_senderVars

----------------------------------------------------------------------------
(***************************************************************************)
(* Whoever calls send() and however the encryptions interleave, the client *)
(* can decrypt all it received: one salt, and behind it lengths and        *)
(* payloads in turn, under the key of that salt and the nonces 0, 1, 2 ... *)
(***************************************************************************)
CiphertextDecrypts ==
  wire # <<>> =>
    /\ wire[1].what = "salt"
    /\ \A i \in 2..Len(wire) :
         wire[i] = Sealed(IF i % 2 = 0 THEN "length" ELSE "payload",
                          wire[1].key, i - 2)
=============================================================================
