----------------------------- MODULE MCUpstream -----------------------------
(***************************************************************************)
(* An attempt, and the inner TCP that a successful SSTP attempt hands to   *)
(* the session.  By then the state of the negotiation plays no part any    *)
(* more: the relay starts from one state of it and from any numbers.       *)
(***************************************************************************)
EXTENDS UpstreamConnection, SstpRelay

vars == <<connectionVars, relayVars>>

Init == ConnectionInit /\ RelayInit

Attempts(A) == reading = "none" /\ A /\ UNCHANGED relayVars

StartsRelay ==
  /\ adapter = "sstp" /\ phase = "open" /\ sock["main"] = "open"
  /\ RelayStarts
  /\ Silence
  /\ ppp' = {} /\ round' = 0 /\ server' = {} /\ noise' = 0
  /\ credentials' = TRUE
  /\ UNCHANGED <<adapter, phase, sock, history, cause>>

Relays == RelayNext /\ UNCHANGED connectionVars

Next == Attempts(ConnectionNext) \/ StartsRelay \/ Relays

Spec == Init /\ [][Next]_vars /\ WF_vars(Attempts(ClientStep))

TypeOK == AttemptTypeOK /\ SstpTypeOK /\ RelayTypeOK
=============================================================================
