--------------------------- MODULE EgressObserver ---------------------------
(***************************************************************************)
(* The observer of one direct connection to a diagnostic target            *)
(* (src/src/ops/egress-diagnostics.js, createEgressObserver): its methods  *)
(* as functions of its state.  'log' is what it has recorded; the elapsed  *)
(* times are left out.  A terminal observer ignores every call, so None    *)
(* stands for a connection without observer.                               *)
(***************************************************************************)
LOCAL INSTANCE Naturals
LOCAL INSTANCE Sequences

Verdict == {"direct_open_error", "direct_first_byte_ok",
            "direct_closed_before_byte", "direct_first_byte_timeout"}
Event == Verdict \cup {"direct_open_ok"}

Observer == [opened : BOOLEAN, payloadStarted : BOOLEAN, timer : BOOLEAN,
             terminal : BOOLEAN, log : Seq(Event)]

NewObserver == [opened |-> FALSE, payloadStarted |-> FALSE, timer |-> FALSE,
                terminal |-> FALSE, log |-> <<>>]
None == [NewObserver EXCEPT !.terminal = TRUE]

\* terminal = true; clear(); emit(event)
Conclude(o, event) ==
  IF o.terminal THEN o
  ELSE [o EXCEPT !.terminal = TRUE, !.timer = FALSE, !.log = Append(@, event)]

OpenOk(o) ==
  IF o.terminal \/ o.opened THEN o
  ELSE [o EXCEPT !.opened = TRUE, !.log = Append(@, "direct_open_ok")]

\* The first non-empty payload arms the first-byte timer.
ClientData(o, byteLength) ==
  IF o.terminal \/ o.payloadStarted \/ ~o.opened \/ byteLength = 0 THEN o
  ELSE [o EXCEPT !.payloadStarted = TRUE, !.timer = TRUE]

OpenError(o) == Conclude(o, "direct_open_error")
FirstByte(o) == Conclude(o, "direct_first_byte_ok")
ClosedBeforeByte(o) == Conclude(o, "direct_closed_before_byte")
TimerFires(o) == Conclude(o, "direct_first_byte_timeout")

\* The session is over; nothing is recorded any more.
Finish(o) == [o EXCEPT !.timer = FALSE, !.terminal = TRUE]

\* Where the outcome of the connection was recorded, and whether as this one.
Verdicts(o) == {i \in DOMAIN o.log : o.log[i] \in Verdict}
Says(o, verdict) == \E i \in DOMAIN o.log : o.log[i] = verdict
=============================================================================
