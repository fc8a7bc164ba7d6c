----------------------------- MODULE SstpRelay -----------------------------
(***************************************************************************)
(* The TCP that the SSTP adapter runs inside its tunnel once it is open    *)
(* (protocols/sstp.js: buildTcpFrame, the reading loop, the WritableStream *)
(* of the session), against a target that follows RFC 793.  A payload has  *)
(* one byte.  The tunnel runs over TLS: frames arrive in order and none is *)
(* lost; the target sends again only what nobody acknowledges although all *)
(* frames have arrived.                                                    *)
(*                                                                         *)
(* A step is what runs between two awaits: a frame is built and queued in  *)
(* one step, and its write completes in a later one.                       *)
(* A definition X_Y is no part of the model: it is X with a plausible bug. *)
(***************************************************************************)
EXTENDS Integers, Sequences

CONSTANTS
  Wrap,        \* numbers are taken modulo this (2^32)
  MaxIn,       \* bound: bytes the target sends
  MaxOut,      \* bound: bytes the session writes
  MaxAgain     \* bound: retransmissions

ASSUME RelayAssumption ==
  /\ {Wrap, MaxIn, MaxOut} \subseteq Nat
  /\ MaxIn < Wrap /\ MaxOut + 1 < Wrap

VARIABLES
  sequence, acknowledgement,
  reading,     \* what the reading loop waits for
  writing,     \* what the session's stream waits for
  written,     \* bytes the session has written
  toTarget, toClient,          \* frames under way
  target,      \* the target's connection (external)
  delivered,   \* bytes enqueued for the session
  overlapped,  \* a frame was built while a write of the session was pending
  finSent      \* the session or the reading loop has sent a FIN

relayVars == <<sequence, acknowledgement, reading, writing, written, toTarget,
               toClient, target, delivered, overlapped, finSent>>
targetSide == <<target, toClient>>

RelayTypeOK ==
  /\ {sequence, acknowledgement} \subseteq 0..(Wrap - 1)
  /\ reading \in {"none", "frame", "ack", "last", "fin", "done"}
  /\ writing \in {"none", "data", "fin", "closed"}
  /\ written \in 0..MaxOut

Plus(n, k) == (n + k) % Wrap

NoTarget == [base |-> 0, sent |-> 0, acked |-> 0, next |-> 0, received |-> 0,
             fin |-> TRUE, again |-> 0]

RelayInit ==
  /\ sequence = 0 /\ acknowledgement = 0
  /\ reading = "none" /\ writing = "none" /\ written = 0
  /\ toTarget = <<>> /\ toClient = <<>>
  /\ target = NoTarget
  /\ delivered = <<>> /\ overlapped = FALSE /\ finSent = FALSE

\* The inner handshake has acknowledged both initial numbers.
RelayStarts ==
  /\ reading = "none" /\ reading' = "frame"
  /\ sequence' \in 0..(Wrap - 1)
  /\ acknowledgement' \in {0, Wrap - 1}
  /\ target' = [NoTarget EXCEPT !.base = acknowledgement', !.next = sequence',
                                !.fin = FALSE]
  /\ UNCHANGED <<writing, written, toTarget, toClient, delivered, overlapped,
                 finSent>>

\* buildTcpFrame takes both numbers as they are when it is called.
Frame(ack, bytes, fin) ==
  toTarget' = Append(toTarget, [seq |-> sequence, ack |-> ack,
                                bytes |-> bytes, fin |-> fin])
Pending == writing \in {"data", "fin"}
Overlap == overlapped' = (overlapped \/ Pending)

----------------------------------------------------------------------------
(* The reading loop.                                                       *)

\* A payload is enqueued and acknowledged, whatever its number is.
ReadPayload_AcksItsStart ==           \* forgets payload.byteLength
  LET frame == Head(toClient)
  IN /\ reading = "frame" /\ toClient # <<>>
     /\ toClient' = Tail(toClient)
     /\ frame.bytes = 1
     /\ acknowledgement' = frame.seq
     /\ delivered' = Append(delivered, frame.seq)
     /\ Frame(acknowledgement', 0, FALSE)
     /\ Overlap
     /\ reading' = IF frame.fin THEN "last" ELSE "ack"
     /\ UNCHANGED <<sequence, writing, written, target, finSent>>

ReadPayload ==
  LET frame == Head(toClient)
  IN /\ reading = "frame" /\ toClient # <<>>
     /\ toClient' = Tail(toClient)
     /\ frame.bytes = 1
     /\ acknowledgement' = Plus(frame.seq, 1)
     /\ delivered' = Append(delivered, frame.seq)
     /\ Frame(acknowledgement', 0, FALSE)
     /\ Overlap
     /\ reading' = IF frame.fin THEN "last" ELSE "ack"
     /\ UNCHANGED <<sequence, writing, written, target, finSent>>

ReadFin ==
  /\ \/ /\ reading = "frame" /\ toClient # <<>>
        /\ Head(toClient).bytes = 0 /\ Head(toClient).fin
        /\ toClient' = Tail(toClient)
     \/ reading = "last" /\ UNCHANGED toClient
  /\ acknowledgement' = Plus(acknowledgement, 1)
  /\ Frame(acknowledgement', 0, TRUE)
  /\ Overlap
  /\ reading' = "fin" /\ finSent' = TRUE
  /\ UNCHANGED <<sequence, writing, written, target, delivered>>

\* After the answer to a FIN the tunnel is closed.
ReaderWritten ==
  /\ \/ reading = "ack" /\ reading' = "frame"
     \/ reading = "fin" /\ reading' = "done"
  /\ UNCHANGED <<sequence, acknowledgement, writing, written, toTarget,
                 targetSide, delivered, overlapped, finSent>>

----------------------------------------------------------------------------
(* The session's stream.                                                   *)

WriteSegment ==
  /\ writing = "none" /\ reading \notin {"none", "done"}
  /\ written < MaxOut
  /\ writing' = "data" /\ written' = written + 1
  /\ Frame(acknowledgement, 1, FALSE)
  /\ UNCHANGED <<sequence, acknowledgement, reading, targetSide, delivered,
                 overlapped, finSent>>

CloseStream ==
  /\ writing = "none" /\ reading \notin {"none", "done"}
  /\ writing' = "fin" /\ finSent' = TRUE
  /\ Frame(acknowledgement, 0, TRUE)
  /\ UNCHANGED <<sequence, acknowledgement, reading, written, targetSide,
                 delivered, overlapped>>

\* Only then is the sequence number advanced; after a FIN it is not.
WriteCompletes ==
  /\ Pending
  /\ writing' = IF writing = "fin" THEN "closed" ELSE "none"
  /\ sequence' = IF writing = "data" THEN Plus(sequence, 1) ELSE sequence
  /\ UNCHANGED <<acknowledgement, reading, written, toTarget, targetSide,
                 delivered, overlapped, finSent>>

----------------------------------------------------------------------------
(* The target (external).  It sends without limit of its window.           *)

Numbered(k) == Plus(target.base, k)

TargetSendsByte ==
  /\ target.sent < MaxIn /\ ~target.fin
  /\ \E fin \in BOOLEAN :
       /\ toClient' = Append(toClient, [seq |-> Numbered(target.sent),
                                        bytes |-> 1, fin |-> fin])
       /\ target' = [target EXCEPT !.sent = @ + 1, !.fin = fin]
  /\ UNCHANGED <<sequence, acknowledgement, reading, writing, written, toTarget,
                 delivered, overlapped, finSent>>

TargetSendsFin ==
  /\ ~target.fin
  /\ toClient' = Append(toClient, [seq |-> Numbered(target.sent), bytes |-> 0,
                                   fin |-> TRUE])
  /\ target' = [target EXCEPT !.fin = TRUE]
  /\ UNCHANGED <<sequence, acknowledgement, reading, writing, written, toTarget,
                 delivered, overlapped, finSent>>

\* A frame that does not start where the last one ended is not acceptable:
\* its acknowledgement counts for nothing.
Acknowledged(ack) ==
  IF \E k \in target.acked..target.sent : Numbered(k) = ack
  THEN CHOOSE k \in target.acked..target.sent : Numbered(k) = ack
  ELSE IF target.fin /\ Numbered(target.sent + 1) = ack THEN target.sent
  ELSE target.acked

TargetReceives ==
  /\ toTarget # <<>>
  /\ toTarget' = Tail(toTarget)
  /\ LET frame == Head(toTarget)
     IN target' = IF frame.seq # target.next THEN target
                  ELSE [target EXCEPT
                          !.acked = Acknowledged(frame.ack),
                          !.next = Plus(@, frame.bytes
                                             + (IF frame.fin THEN 1 ELSE 0)),
                          !.received = @ + frame.bytes]
  /\ UNCHANGED <<sequence, acknowledgement, reading, writing, written, toClient,
                 delivered, overlapped, finSent>>

TargetSendsAgain ==
  /\ toTarget = <<>> /\ toClient = <<>>
  /\ reading = "frame" /\ ~Pending
  /\ target.acked < target.sent /\ target.again < MaxAgain
  /\ toClient' = <<[seq |-> Numbered(target.acked), bytes |-> 1, fin |-> FALSE]>>
  /\ target' = [target EXCEPT !.again = @ + 1]
  /\ UNCHANGED <<sequence, acknowledgement, reading, writing, written, toTarget,
                 delivered, overlapped, finSent>>

RelayNext ==
  \/ ReadPayload \/ ReadFin \/ ReaderWritten
  \/ WriteSegment \/ CloseStream \/ WriteCompletes
  \/ TargetSendsByte \/ TargetSendsFin \/ TargetReceives \/ TargetSendsAgain

RelaySpec == RelayInit /\ [][RelayStarts \/ RelayNext]_relayVars

----------------------------------------------------------------------------

StreamIntact ==
  /\ delivered = [k \in 1..Len(delivered) |-> Numbered(k - 1)]
  /\ Len(delivered) <= target.sent

(***************************************************************************)
(* "SSTP upstream: Implemented for TLS + PPP PAP/IPCP + IPv4 inner TCP"    *)
(* (README.md): what a TCP stream promises, every byte of the target once  *)
(* and in order.                                                           *)
(***************************************************************************)
TcpDeliversOnce == StreamIntact

(***************************************************************************)
(* Unless a frame of the reading loop was built while a write of the       *)
(* session was pending, or one of them has sent a FIN, the session         *)
(* gets every byte of the target once and in order, and the target every   *)
(* byte of the session, also where the numbers wrap: the target has no     *)
(* reason to send anything again.                                          *)
(***************************************************************************)
SstpStreamIntact ==
  ~overlapped /\ ~finSent
    => /\ StreamIntact
       /\ toTarget = <<>> => target.received = written
       /\ target.again = 0

=============================================================================
