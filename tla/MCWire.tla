------------------------------- MODULE MCWire -------------------------------
(***************************************************************************)
(* A claim about streams that the code does not keep.                      *)
(***************************************************************************)
EXTENDS WireMsg

\* Claim of SendStream::send_user_msg (connection.rs:213): the messages sent
\* over a stream arrive at the peer, in order.  When a handler is dropped while
\* it writes a reply, the application that still holds the stream writes its
\* message behind a part of a frame, and something else is read by the peer.
ArrivesAsSent ==
  \A i \in DOMAIN got : \E j \in DOMAIN sent : got[i] = Outcome(sent[j])
=============================================================================
