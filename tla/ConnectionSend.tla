--------------------------- MODULE ConnectionSend ---------------------------
(***************************************************************************)
(* One call of Connection::send_with (src/src/connection.rs): the message  *)
(* is written to a unidirectional stream of its own, and failures other    *)
(* than the loss of the connection are retried on a new stream.            *)
(*                                                                         *)
(* quinn and the peer are external.  The bytes of the message arrive at    *)
(* the peer's QUIC implementation, which acknowledges them; the peer's     *)
(* application reads the message later, or never, if its end of the stream *)
(* is dropped first (which stops the stream).                              *)
(***************************************************************************)
EXTENDS RetryConfig

VARIABLES
  conn,       \* "Alive" or "Lost"
  retrying,   \* is there a retry_config, given or by default?
  long,       \* is the message too long for its header?
  pc,         \* control state of send_with
  written,    \* how much of the frame quinn has taken: none, part, whole
  peer,       \* the peer's end of the stream of this attempt
  credit,     \* does the peer's flow control let quinn take more bytes?
  acked,      \* has all of the stream been acknowledged?
  copies,     \* how many times the peer's application has read the message
  retries,    \* how many retries were made
  elapsed,    \* ticks since send_with was called
  interval,   \* the current back-off interval
  wakeup,     \* when the next attempt starts
  result      \* what send_with returned, or "none"

netVars   == <<conn, peer, credit, acked, copies>>
retryVars == <<retries, elapsed, interval, wakeup>>
callVars  == <<retrying, long>>
vars      == <<netVars, retryVars, callVars, pc, written, result>>

SendErrors == {"Serialization", "ConnectionLost", "StreamLost"}

\* Time is counted up to just beyond the time for which to retry.
Late == retrying_max_elapsed_time + 1

SendTypeOK ==
  /\ conn \in {"Alive", "Lost"} /\ retrying \in BOOLEAN /\ long \in BOOLEAN
  /\ pc \in {"open", "write", "finish", "sleep", "done"}
  /\ written \in {"none", "part", "whole"}
  /\ peer \in {"unseen", "arrived", "read", "stopped"}
  /\ credit \in BOOLEAN /\ acked \in BOOLEAN
  /\ copies \in Nat /\ retries \in Nat
  /\ elapsed \in 0 .. Late /\ wakeup \in 0 .. retrying_max_elapsed_time
  /\ interval \in initial_retry_interval .. max_retry_interval
  /\ result \in SendErrors \cup {"none", "Ok"}
  /\ pc = "done" <=> result # "none"

Init ==
  /\ conn \in {"Alive", "Lost"} /\ retrying \in BOOLEAN /\ long \in BOOLEAN
  /\ pc = "open" /\ written = "none" /\ peer = "unseen" /\ acked = FALSE
  /\ credit \in BOOLEAN /\ copies = 0 /\ retries = 0
  /\ elapsed = 0 /\ interval = initial_retry_interval /\ wakeup = 0
  /\ result = "none"

-----------------------------------------------------------------------------
(***************************************************************************)
(* quinn and the peer.                                                     *)
(***************************************************************************)
Arrive ==
  /\ conn = "Alive" /\ written = "whole" /\ peer = "unseen"
  /\ peer' = "arrived"
  /\ UNCHANGED <<conn, credit, acked, copies, retryVars, callVars, pc, written,
                 result>>

Ack ==
  /\ conn = "Alive" /\ peer \in {"arrived", "read"}
  /\ acked' = TRUE
  /\ UNCHANGED <<conn, peer, credit, copies, retryVars, callVars, pc, written,
                 result>>

\* What has arrived can be read even when the connection is lost.
PeerReads ==
  /\ peer = "arrived"
  /\ peer' = "read" /\ copies' = copies + 1
  /\ UNCHANGED <<conn, credit, acked, retryVars, callVars, pc, written,
                 result>>

\* The peer drops its end of the stream, read or not, before it was finished.
PeerStops ==
  /\ conn = "Alive" /\ written # "none" /\ ~acked /\ peer # "stopped"
  /\ peer' = "stopped"
  /\ UNCHANGED <<conn, credit, acked, copies, retryVars, callVars, pc, written,
                 result>>

\* The peer grants credit as it takes data from its streams.
Grant ==
  /\ conn = "Alive" /\ ~credit
  /\ credit' = TRUE
  /\ UNCHANGED <<conn, peer, acked, copies, retryVars, callVars, pc, written,
                 result>>

ConnLost ==
  /\ conn = "Alive"
  /\ conn' = "Lost"
  /\ UNCHANGED <<peer, credit, acked, copies, retryVars, callVars, pc, written,
                 result>>

Tick ==
  /\ pc # "done" /\ elapsed < Late
  /\ pc = "sleep" => elapsed < wakeup
  /\ elapsed' = elapsed + 1
  /\ UNCHANGED <<netVars, retries, interval, wakeup, callVars, pc, written,
                 result>>

-----------------------------------------------------------------------------
(***************************************************************************)
(* send_with and send_uni.                                                 *)
(***************************************************************************)
Return(res) ==
  /\ pc' = "done" /\ result' = res
  /\ UNCHANGED retryVars

\* Only the loss of the connection is a permanent error.
Transient(error) == retrying /\ error # "ConnectionLost"

\* The attempt fails.  The back-off gives up when the next delay would end too
\* late, or at once if there is no retry_config.
Fail(error) ==
  \/ ~Transient(error) /\ Return(error)
  \/ /\ Transient(error)
     /\ \E d \in Delays(interval) :
          \/ ~InTime(elapsed, d) /\ Return(error)
          \/ /\ InTime(elapsed, d)
             /\ pc' = "sleep" /\ wakeup' = elapsed + d
             /\ interval' = NextInterval(interval)
             /\ UNCHANGED <<retries, elapsed, result>>

Wake ==
  /\ pc = "sleep" /\ elapsed = wakeup
  /\ pc' = "open" /\ retries' = retries + 1
  /\ UNCHANGED <<netVars, elapsed, interval, wakeup, callVars, written,
                 result>>

Open ==
  /\ pc = "open"
  /\ \/ /\ conn = "Lost"
        /\ Fail("ConnectionLost") /\ UNCHANGED <<written, netVars>>
     \/ /\ conn = "Alive"
        /\ pc' = "write" /\ written' = "none" /\ peer' = "unseen"
        /\ acked' = FALSE
        /\ UNCHANGED <<conn, credit, copies, retryVars, result>>
  /\ UNCHANGED callVars

\* send_user_msg: MsgHeader::new refuses a message that is too long before
\* anything is written.  A write fails if the connection or the stream is lost.
Write ==
  /\ pc = "write"
  /\ \/ long /\ Fail("Serialization") /\ UNCHANGED <<written, credit>>
     \/ /\ ~long /\ conn = "Lost"
        /\ Fail("ConnectionLost") /\ UNCHANGED <<written, credit>>
     \/ /\ ~long /\ conn = "Alive" /\ peer = "stopped"
        /\ Fail("StreamLost") /\ UNCHANGED <<written, credit>>
     \/ /\ ~long /\ conn = "Alive" /\ peer # "stopped" /\ credit
        /\ \/ written = "none" /\ written' = "part" /\ UNCHANGED pc
           \/ written' = "whole" /\ pc' = "finish"
        /\ credit' \in BOOLEAN
        /\ UNCHANGED <<result, retryVars>>
  /\ UNCHANGED <<conn, peer, acked, copies, callVars>>

\* finish completes once the peer has acknowledged all data.  That the peer
\* has stopped the stream is not an error.
BugStoppedIsError == Fail("StreamLost")
FinishStopped     == Return("Ok")

Finish ==
  /\ pc = "finish"
  /\ \/ acked /\ Return("Ok")
     \/ peer = "stopped" /\ FinishStopped
     \/ conn = "Lost" /\ Fail("ConnectionLost")
  /\ UNCHANGED <<netVars, callVars, written>>

-----------------------------------------------------------------------------
Send == Wake \/ Open \/ Write \/ Finish
Peer == Arrive \/ Ack \/ PeerReads \/ PeerStops \/ Grant \/ ConnLost
Next == Peer \/ Tick \/ Send

Spec == Init /\ [][Next]_vars

(***************************************************************************)
(* Fairness: the task that sends is scheduled, time passes, quinn delivers *)
(* and acknowledges data as long as the connection is alive (it declares   *)
(* the connection lost otherwise), and the peer goes on reading.           *)
(***************************************************************************)
FairSpec ==
  /\ Spec /\ WF_vars(Send) /\ WF_vars(Tick)
  /\ WF_vars(Arrive) /\ WF_vars(Ack) /\ WF_vars(PeerReads) /\ WF_vars(Grant)

-----------------------------------------------------------------------------
\* One call of send delivers its message at most once, with all its retries:
\* an attempt is repeated only if the peer cannot have read the whole message.
\* The README allows for duplicates by retries (README.md:50); there are none.
AtMostOnce == copies <= 1

\* A failure other than the loss of the connection, which is returned once the
\* retries are exhausted, means that the peer did not read the message.
FailureTrue == result \in {"Serialization", "StreamLost"} => copies = 0

\* send_with does not go on retrying over a lost connection: an attempt that
\* meets the loss is the last one (a message that is too long never meets it).
LossIsFinal ==
  [][pc # "sleep" /\ pc' = "sleep" /\ ~long => conn = "Alive"]_vars

\* Every call returns when the peer reads what it is sent, within the retries
\* that are left.
SendReturns == <>(pc = "done")
=============================================================================
