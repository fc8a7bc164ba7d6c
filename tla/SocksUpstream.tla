--------------------------- MODULE SocksUpstream ---------------------------
(***************************************************************************)
(* The adapters without timers: SOCKS5 and HTTP CONNECT                    *)
(* (protocols/socks5.js).  SOCKS5 takes one read for each reply; CONNECT   *)
(* reads to the end of the headers.  Either drops what else the chunk      *)
(* held, and neither waits for the rest of a SOCKS5 reply: 'whole' tells   *)
(* whether it came to that.                                                *)
(* A definition X_Y is no part of the model: it is X with a plausible bug. *)
(***************************************************************************)
EXTENDS UpstreamAttempt

SocksReply(expected) ==
  /\ adapter = "socks5" /\ phase = expected
  /\ buffered # <<>>

\* Method and login replies have two bytes: half of one is never accepted.
SocksMethods ==
  /\ SocksReply("methods")
  /\ \/ /\ Complete /\ First = "none"
        /\ Ask("main", <<"connect">>)
        /\ Advance("connect", <<>>)
     \/ /\ Complete /\ First = "password" /\ credentials
        /\ Ask("main", <<"login">>)
        /\ Advance("login", <<>>)
     \/ Complete /\ First = "password" /\ ~credentials /\ Fail("credentials")
     \/ Complete /\ First = "refused" /\ Fail("rejected")
     \/ ~Complete /\ Fail("cut")

SocksLogin ==
  /\ SocksReply("login")
  /\ \/ /\ Complete /\ First = "ok"
        /\ Ask("main", <<"connect">>)
        /\ Advance("connect", <<>>)
     \/ Complete /\ First = "refused" /\ Fail("rejected")
     \/ ~Complete /\ Fail("cut")

\* The adapter hands its socket over.
Established(kept) ==
  /\ phase' = "open" /\ buffered' = kept
  /\ UNCHANGED <<choice, sock, wire, through, sent, cause>>

\* Two bytes of the reply are enough; the rest of it goes to the session.
SocksConnect ==
  /\ SocksReply("connect")
  /\ \/ /\ First = "established"
        /\ Established(<<>>)
        /\ whole' = (whole /\ Len(buffered) = 2)
     \/ First = "refused" /\ Fail("rejected")
     \/ ~Complete /\ Fail("cut")

HttpAsks ==
  /\ adapter = "http" /\ phase = "control"
  /\ sock["main"] \in {"open", "ended"}
  /\ Ask("main", <<"tunnel">>)
  /\ Advance("tunnel", <<>>)

\* The header of the answer is at its end; bytes of the target may follow.
HttpTunnel ==
  /\ adapter = "http" /\ phase = "tunnel" /\ Complete
  /\ \/ /\ First = "established"
        /\ Established(<<>>)
        /\ whole' = (whole /\ Len(buffered) = 2)
     \/ First = "refused" /\ Fail("rejected")

SocksStep == SocksMethods \/ SocksLogin \/ SocksConnect \/ HttpAsks \/ HttpTunnel

=============================================================================
