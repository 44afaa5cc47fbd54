------------------------ MODULE ConnectionSendProofs ------------------------
(***************************************************************************)
(* Proofs about one call of send_with, for every RetryConfig.              *)
(***************************************************************************)
EXTENDS ConnectionSend, TLAPS

\* Multiplying by at least ten tenths does not make an interval shorter.
LEMMA Grows ==
  ASSUME NEW i \in Nat, NEW m \in Nat, m >= 10
  PROVE  i * m \in Nat /\ i * m >= i * 10
<1>1. PICK k \in Nat : m = 10 + k
  <2>1. m - 10 \in Nat /\ m = 10 + (m - 10)
    OBVIOUS
  <2> QED BY <2>1
<1>2. i * m = i * 10 + i * k
  BY <1>1
<1>3. i * k \in Nat
  OBVIOUS
<1> QED BY <1>2, <1>3

\* Dividing by ten.
LEMMA Tenth ==
  ASSUME NEW p \in Nat
  PROVE  /\ p \div 10 \in Nat
         /\ (p \div 10) * 10 <= p /\ p < (p \div 10) * 10 + 10
OBVIOUS

\* The back-off interval stays between its first and its largest value.
LEMMA IntervalBounds ==
  ASSUME NEW i \in initial_retry_interval .. max_retry_interval
  PROVE  NextInterval(i) \in initial_retry_interval .. max_retry_interval
<1>1. i \in Nat /\ retry_delay_multiplier \in Nat
      /\ retry_delay_multiplier >= 10
      /\ initial_retry_interval \in Nat /\ max_retry_interval \in Nat
      /\ initial_retry_interval <= max_retry_interval
  BY RetryAssumption
<1> DEFINE p == i * retry_delay_multiplier
<1>2. p \in Nat /\ p >= i * 10
  BY <1>1, Grows
<1> HIDE DEF p
<1>3. /\ p \div 10 \in Nat
      /\ (p \div 10) * 10 <= p /\ p < (p \div 10) * 10 + 10
  BY <1>2, Tenth
<1>4. CASE p >= max_retry_interval * 10
  BY <1>1, <1>4 DEF NextInterval, p
<1>5. CASE ~(p >= max_retry_interval * 10)
  <2> DEFINE q == p \div 10
  <2>1. q \in Nat /\ q * 10 <= p /\ p < q * 10 + 10
    BY <1>3
  <2>2. NextInterval(i) = q
    BY <1>5 DEF NextInterval, p
  <2> HIDE DEF q
  <2>3. q \in initial_retry_interval .. max_retry_interval
    BY <1>1, <1>2, <1>5, <2>1
  <2> QED BY <2>2, <2>3
<1> QED BY <1>4, <1>5

-----------------------------------------------------------------------------
(***************************************************************************)
(* The inductive invariant.  Only a whole message can arrive or be read,   *)
(* and once the message is whole no path leads back to another attempt:    *)
(* every failure of finish is the loss of the connection, which is not     *)
(* retried, and a stopped stream is no failure.                            *)
(***************************************************************************)
WholeOnce ==
  /\ peer \in {"arrived", "read"} => written = "whole"
  /\ copies > 0 => written = "whole" /\ peer \in {"read", "stopped"}
  /\ peer = "read" => copies = 1
  /\ written = "whole" =>
       \/ pc = "finish"
       \/ pc = "done" /\ result \in {"Ok", "ConnectionLost"}

SendInv == SendTypeOK /\ AtMostOnce /\ WholeOnce

\* SendInv holds when send_with is called.
LEMMA SendInvInit == Init => SendInv
<1> SUFFICES ASSUME Init PROVE SendInv
  OBVIOUS
<1> USE DEF Init
<1>0. acked \in BOOLEAN
  BY Zenon
<1>1. SendTypeOK
  <2> HIDE DEF Init
  <2>1. /\ conn \in {"Alive", "Lost"} /\ retrying \in BOOLEAN
        /\ long \in BOOLEAN /\ credit \in BOOLEAN /\ pc = "open"
        /\ written = "none" /\ peer = "unseen" /\ copies = 0 /\ retries = 0
        /\ elapsed = 0 /\ interval = initial_retry_interval /\ wakeup = 0
        /\ result = "none"
    BY DEF Init
  <2> QED BY <1>0, <2>1, RetryAssumption DEF SendTypeOK, Late
<1>2. AtMostOnce /\ WholeOnce
  BY DEF AtMostOnce, WholeOnce
<1> QED BY <1>1, <1>2 DEF SendInv

\* A failed attempt keeps the type of the control state and of the back-off,
\* and either returns or goes to sleep.
LEMMA FailType ==
  ASSUME NEW error \in SendErrors, SendTypeOK, pc # "done", Fail(error)
  PROVE  /\ \/ pc' = "done" /\ result' = error
            \/ /\ pc' = "sleep" /\ result' = "none"
               /\ retrying /\ error # "ConnectionLost"
         /\ retries' \in Nat /\ elapsed' = elapsed
         /\ wakeup' \in 0 .. retrying_max_elapsed_time
         /\ interval' \in initial_retry_interval .. max_retry_interval
<1>1. CASE Return(error)
  BY <1>1 DEF Return, retryVars, SendTypeOK
<1>2. CASE Transient(error) /\ ~Return(error)
  <2>1. PICK d \in Delays(interval) :
          /\ InTime(elapsed, d)
          /\ pc' = "sleep" /\ wakeup' = elapsed + d
          /\ interval' = NextInterval(interval)
          /\ UNCHANGED <<retries, elapsed, result>>
    BY <1>2 DEF Fail
  <2>2. wakeup' \in 0 .. retrying_max_elapsed_time
    BY <2>1, RetryAssumption DEF InTime, Delays, SendTypeOK, Late
  <2>3. interval' \in initial_retry_interval .. max_retry_interval
    BY <2>1, IntervalBounds DEF SendTypeOK
  <2>4. result' = "none"
    BY <2>1 DEF SendTypeOK
  <2> QED BY <1>2, <2>1, <2>2, <2>3, <2>4 DEF SendTypeOK, Transient
<1> QED BY <1>1, <1>2 DEF Fail

\* Every step keeps SendInv.
LEMMA SendInvNext == SendInv /\ [Next]_vars => SendInv'
<1> SUFFICES ASSUME SendInv, [Next]_vars PROVE SendInv'
  OBVIOUS
<1> USE DEF SendInv
<1>1. ASSUME Peer \/ Tick PROVE SendInv'
  <2>1. (credit \in BOOLEAN /\ acked \in BOOLEAN)'
    BY <1>1, Zenon
    DEF Peer, Tick, Arrive, Ack, PeerReads, PeerStops, Grant, ConnLost,
        SendTypeOK, netVars
  <2>2. ASSUME Tick PROVE SendTypeOK'
    BY <2>1, <2>2, RetryAssumption
    DEF Tick, SendTypeOK, Late, netVars, callVars
  <2>3. ASSUME Peer PROVE SendTypeOK'
    <3>1. UNCHANGED <<retryVars, callVars, pc, written, result>>
      BY <2>3
      DEF Peer, Arrive, Ack, PeerReads, PeerStops, Grant, ConnLost
    <3>2. /\ conn' \in {"Alive", "Lost"} /\ copies' \in Nat
          /\ peer' \in {"unseen", "arrived", "read", "stopped"}
      BY <2>3
      DEF Peer, Arrive, Ack, PeerReads, PeerStops, Grant, ConnLost,
          SendTypeOK
    <3> QED BY <2>1, <3>1, <3>2 DEF SendTypeOK, retryVars, callVars
  <2>4. SendTypeOK'
    BY <1>1, <2>2, <2>3
  <2>5. (AtMostOnce /\ WholeOnce)'
    BY <1>1
    DEF Peer, Tick, Arrive, Ack, PeerReads, PeerStops, Grant, ConnLost,
        SendTypeOK, AtMostOnce, WholeOnce, netVars, retryVars, callVars
  <2> QED BY <2>4, <2>5
<1>2. ASSUME Wake PROVE SendInv'
  BY <1>2
  DEF Wake, SendTypeOK, AtMostOnce, WholeOnce, netVars, callVars
<1>3. ASSUME Open PROVE SendInv'
  <2>1. CASE conn = "Lost"
    <3>1. Fail("ConnectionLost") /\ UNCHANGED <<written, netVars, callVars>>
      BY <1>3, <2>1 DEF Open
    <3>2. /\ pc' = "done" /\ result' = "ConnectionLost"
          /\ retries' \in Nat /\ elapsed' = elapsed
          /\ wakeup' \in 0 .. retrying_max_elapsed_time
          /\ interval' \in initial_retry_interval .. max_retry_interval
      BY <1>3, <3>1, FailType DEF Open, SendErrors
    <3> QED
      BY <1>3, <3>1, <3>2
      DEF Open, SendTypeOK, AtMostOnce, WholeOnce, netVars, callVars,
          SendErrors
  <2>2. CASE conn # "Lost"
    BY Zenon, <1>3, <2>2
    DEF Open, SendTypeOK, AtMostOnce, WholeOnce, retryVars, callVars
  <2> QED BY <2>1, <2>2
<1>4. ASSUME Write PROVE SendInv'
  <2>1. ASSUME NEW error \in SendErrors, Fail(error),
               UNCHANGED <<written, credit>>
        PROVE  SendInv'
    <3>1. /\ pc' \in {"done", "sleep"} /\ result' \in SendErrors \cup {"none"}
          /\ (pc' = "done") = (result' # "none")
          /\ retries' \in Nat /\ elapsed' = elapsed
          /\ wakeup' \in 0 .. retrying_max_elapsed_time
          /\ interval' \in initial_retry_interval .. max_retry_interval
      BY <1>4, <2>1, FailType DEF Write, SendErrors
    <3> QED
      BY <1>4, <2>1, <3>1
      DEF Write, SendTypeOK, AtMostOnce, WholeOnce, callVars, SendErrors
  <2>2. ASSUME \/ written = "none" /\ written' = "part" /\ UNCHANGED pc
               \/ written' = "whole" /\ pc' = "finish",
               credit' \in BOOLEAN, UNCHANGED <<result, retryVars>>
        PROVE  SendInv'
    BY <1>4, <2>2
    DEF Write, SendTypeOK, AtMostOnce, WholeOnce, callVars, retryVars
  <2> QED BY <1>4, <2>1, <2>2 DEF Write, SendErrors
<1>5. ASSUME Finish PROVE SendInv'
  <2>1. CASE Return("Ok")
    BY <1>5, <2>1
    DEF Finish, Return, SendTypeOK, AtMostOnce, WholeOnce, netVars, retryVars,
        callVars
  <2>2. CASE Fail("ConnectionLost")
    <3>1. /\ pc' = "done" /\ result' = "ConnectionLost"
          /\ retries' \in Nat /\ elapsed' = elapsed
          /\ wakeup' \in 0 .. retrying_max_elapsed_time
          /\ interval' \in initial_retry_interval .. max_retry_interval
      BY <1>5, <2>2, FailType DEF Finish, SendErrors
    <3> QED
      BY <1>5, <3>1
      DEF Finish, SendTypeOK, AtMostOnce, WholeOnce, netVars, callVars,
          SendErrors
  <2> QED BY <1>5, <2>1, <2>2 DEF Finish, FinishStopped
<1>6. ASSUME UNCHANGED vars PROVE SendInv'
  BY <1>6
  DEF vars, netVars, retryVars, callVars, SendTypeOK, AtMostOnce, WholeOnce
<1> QED BY <1>1, <1>2, <1>3, <1>4, <1>5, <1>6 DEF Next, Send

\* SendInv is an invariant of send_with.
LEMMA SendInvariant == Spec => []SendInv
BY SendInvInit, SendInvNext, PTL DEF Spec

\* The state of a call of send_with always has its type: in particular the
\* back-off interval stays within the configured bounds, and no attempt starts
\* after the time for which to retry.
THEOREM SendTypeCorrect == Spec => []SendTypeOK
<1>1. SendInv => SendTypeOK
  BY DEF SendInv
<1> QED BY <1>1, SendInvariant, PTL

\* With every RetryConfig, one call of send_with delivers at most one copy.
THEOREM AtMostOnceHolds == Spec => []AtMostOnce
<1>1. SendInv => AtMostOnce
  BY DEF SendInv
<1> QED BY <1>1, SendInvariant, PTL

\* A message whose sending failed for another reason than the loss of the
\* connection was not read by the peer.
THEOREM FailureTrueHolds == Spec => []FailureTrue
<1>1. SendInv => FailureTrue
  BY DEF SendInv, SendTypeOK, AtMostOnce, WholeOnce, FailureTrue
<1> QED BY <1>1, SendInvariant, PTL

\* send_with never goes to sleep for another attempt on a lost connection.
THEOREM LossIsFinalHolds == Spec => LossIsFinal
<1>1. SendInv /\ [Next]_vars =>
        [pc # "sleep" /\ pc' = "sleep" /\ ~long => conn = "Alive"]_vars
  <2> SUFFICES ASSUME SendInv, Next, pc # "sleep", pc' = "sleep", ~long
               PROVE  conn = "Alive"
    OBVIOUS
  <2> USE DEF SendInv
  <2>1. ASSUME Peer \/ Tick PROVE FALSE
    BY <2>1
    DEF Peer, Tick, Arrive, Ack, PeerReads, PeerStops, Grant, ConnLost
  <2>2. ASSUME Wake PROVE FALSE
    BY <2>2 DEF Wake
  <2>3. ASSUME pc # "done", Fail("ConnectionLost") PROVE FALSE
    BY <2>3, FailType DEF SendErrors
  <2>4. CASE Open
    BY <2>3, <2>4 DEF Open
  <2>5. CASE Write
    BY <2>3, <2>5 DEF Write
  <2>6. CASE Finish
    BY <2>3, <2>6 DEF Finish, FinishStopped, Return
  <2> QED BY <2>1, <2>2, <2>4, <2>5, <2>6 DEF Next, Send
<1> QED BY <1>1, SendInvariant, PTL DEF Spec, LossIsFinal
=============================================================================
