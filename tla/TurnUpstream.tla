---------------------------- MODULE TurnUpstream ----------------------------
(***************************************************************************)
(* The TURN adapter (protocols/turn.js: turnConnect, readMessage): an      *)
(* allocation on the control connection, with credentials when the server  *)
(* asks for them, the permission and the peer requested in one write, and  *)
(* a second connection bound to the peer's.  Replies are told apart by     *)
(* their order alone; what a read returned beyond a reply ('extra') is     *)
(* where the next one starts.                                              *)
(* A definition X_Y is no part of the model: it is X with a plausible bug. *)
(***************************************************************************)
EXTENDS UpstreamAttempt

TurnReply(expected) ==
  /\ adapter = "turn" /\ phase = expected
  /\ Complete

TurnAllocates ==
  /\ adapter = "turn" /\ phase = "control"
  /\ sock["main"] \in {"open", "ended"}
  /\ Ask("main", <<"allocate">>)
  /\ Advance("allocate", <<>>)

Permit ==
  /\ Ask("main", <<"permission", "peer">>)
  /\ Advance("permission", Rest)

TurnAllocated ==
  /\ TurnReply("allocate")
  /\ \/ First = "allocated" /\ Permit
     \/ /\ First = "challenge" /\ credentials
        /\ Ask("main", <<"authenticate">>)
        /\ Advance("authenticate", Rest)
     \/ First = "challenge" /\ ~credentials /\ Fail("credentials")
     \/ First = "refused" /\ Fail("rejected")

TurnAuthenticated ==
  /\ TurnReply("authenticate")
  /\ \/ First = "allocated" /\ Permit
     \/ First # "allocated" /\ Fail("rejected")

TurnPermitted_DropsExtra ==           \* readMessage starts with nothing
  /\ TurnReply("permission")
  /\ \/ /\ First = "permitted"
        /\ Advance("peer", <<>>)
        /\ UNCHANGED owed
     \/ First # "permitted" /\ Fail("rejected")

TurnPermitted ==
  /\ TurnReply("permission")
  /\ \/ /\ First = "permitted"
        /\ Advance("peer", Rest)
        /\ UNCHANGED owed
     \/ First # "permitted" /\ Fail("rejected")

\* What follows on the control connection is of no interest any more.
TurnPeerConnected ==
  /\ TurnReply("peer")
  /\ \/ /\ First = "connected"
        /\ phase' = "data" /\ buffered' = <<>>
        /\ sock' = [sock EXCEPT !["data"] = "opening"]
        /\ UNCHANGED <<choice, wire, history, cause>>
     \/ First # "connected" /\ Fail("rejected")

TurnBinds ==
  /\ adapter = "turn" /\ phase = "data"
  /\ sock["data"] \in {"open", "ended"}
  /\ Ask("data", <<"bind">>)
  /\ Advance("bind", <<>>)

TurnBound_DropsExtra ==               \* the stream starts with the next read
  /\ TurnReply("bind")
  /\ \/ /\ First = "bound"
        /\ Advance("open", <<>>)
        /\ UNCHANGED owed
     \/ First # "bound" /\ Fail("rejected")

\* The stream of the session starts with the extra.
TurnBound ==
  /\ TurnReply("bind")
  /\ \/ /\ First = "bound"
        /\ Advance("open", Rest)
        /\ UNCHANGED owed
     \/ First # "bound" /\ Fail("rejected")

TurnStep ==
  \/ TurnAllocates \/ TurnAllocated \/ TurnAuthenticated \/ TurnPermitted
  \/ TurnPeerConnected \/ TurnBinds \/ TurnBound

=============================================================================
