----------------------------- MODULE Connector -----------------------------
(***************************************************************************)
(* What a caller may rely on when it asks an adapter for a connection      *)
(* (core/proxy.js connectToProxy): the attempt ends once, with a socket or *)
(* with an error; meanwhile connections come and go, but a session is      *)
(* handed nothing except what lasts, gets no further connection, and       *)
(* whatever ends the attempt or the session lets all of them go.           *)
(***************************************************************************)
CONSTANTS
  Conn,      \* the connections an adapter may need
  Lasting    \* those a session may keep

VARIABLES outcome, held

Start == outcome = "trying" /\ held \in SUBSET Conn

Work == outcome = "trying" /\ held' \in SUBSET Conn /\ UNCHANGED outcome

HandOver ==
  /\ outcome = "trying" /\ outcome' = "open"
  /\ held' = held
  /\ held \subseteq Lasting

LosePart ==
  /\ outcome = "open" /\ held' \subseteq held
  /\ UNCHANGED outcome

End ==
  /\ outcome # "over" /\ outcome' = "over"
  /\ held' = {}

Connects ==
  Start /\ [][Work \/ HandOver \/ LosePart \/ End]_<<outcome, held>>

=============================================================================
