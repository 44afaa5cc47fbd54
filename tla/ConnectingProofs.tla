-------------------------- MODULE ConnectingProofs --------------------------
(***************************************************************************)
(* Proofs about connecting to peers, for every retry configuration and     *)
(* idle timeout and any set of addresses: a call ends in time, its retries *)
(* catch a peer that comes up in time, and it implements FirstSuccess.     *)
(***************************************************************************)
EXTENDS Connecting, TLAPS

\* An endpoint that was made uses the idle timeout that was asked for.
LEMMA IdleFacts ==
  ASSUME config \in Configs
  PROVE  /\ Idle \in Nat
         /\ try_from_config(config) # {} => idle_timeout = Idle
<1>1. CASE config.idle_timeout = {}
  BY <1>1, ConfigAssumption DEF Idle, idle_timeout, try_from_config
<1>2. CASE config.idle_timeout # {}
  <2>1. PICK n \in config.idle_timeout : TRUE
    BY <1>2
  <2>2. n \in Nat /\ config.idle_timeout = {n}
    BY <2>1, ConfigAssumption
  <2> QED BY <1>2, <2>2 DEF Idle, idle_timeout, try_from_config
<1> QED BY <1>1, <1>2

\* A delay is bounded by that of the longest interval.
LEMMA DelayBound ==
  ASSUME NEW i \in 1 .. max_retry_interval, NEW d \in Delays(i)
  PROVE  d \in Nat /\ d <= MaxDelay /\ MaxDelay \in Nat
<1> DEFINE r == retry_delay_rand_factor
           m == max_retry_interval
<1>1. r \in 0 .. 9 /\ m \in Nat /\ i \in Nat /\ i <= m
  BY RetryAssumption
<1>2. d \in Nat /\ d * 10 <= i * (10 + r)
  BY <1>1 DEF Delays
<1> HIDE DEF r, m
<1>3. i * (10 + r) <= m * (10 + r) /\ m * (10 + r) \in Nat
  <2>1. r = 0 \/ r = 1 \/ r = 2 \/ r = 3 \/ r = 4 \/ r = 5 \/ r = 6 \/ r = 7
        \/ r = 8 \/ r = 9
    BY <1>1
  <2> QED BY <1>1, <2>1
<1>4. i * (10 + r) \in Nat
  BY <1>1
<1>5. d * 10 <= m * (10 + r)
  BY <1>2, <1>3, <1>4
<1>6. d <= (m * (10 + r)) \div 10 /\ (m * (10 + r)) \div 10 \in Nat
  BY <1>2, <1>3, <1>5
<1> QED BY <1>2, <1>6 DEF MaxDelay, r, m

\* The interval stays within its bounds.
LEMMA IntervalBound ==
  ASSUME NEW i \in 1 .. max_retry_interval
  PROVE  NextInterval(i) \in 1 .. max_retry_interval
<1> DEFINE p == i * retry_delay_multiplier
<1>1. i \in Nat /\ i >= 1 /\ max_retry_interval \in Nat
  BY RetryAssumption
<1>2. p \in Nat /\ p >= 10
  BY <1>1, RetryAssumption
<1>3. NextInterval(i) = IF p >= max_retry_interval * 10
                          THEN max_retry_interval ELSE p \div 10
  BY DEF NextInterval
<1> HIDE DEF p
<1> QED BY <1>1, <1>2, <1>3

-----------------------------------------------------------------------------
(***************************************************************************)
(* The invariant.  An attempt is under way only while the call connects;   *)
(* it begins within the time for retries and takes at most an idle timeout.*)
(***************************************************************************)
TypeInv ==
  /\ config \in Configs /\ op \in Ops /\ targets \subseteq Addrs
  /\ upAt \in [targets -> Nat]
  /\ pc \in {"new", "connect", "ask", "answer", "done"}
  /\ task \in [Addrs -> Tasks] /\ at \in [Addrs -> Nat]
  /\ interval \in [Addrs -> 1 .. max_retry_interval]
  /\ chosen \in Addrs \cup {"none"}
  /\ deadline \in Nat /\ now \in Nat

Active(a) == task[a] \in {"wait", "shaking", "shaken"} \cup QuinnErrors

AttemptInv ==
  \A a \in Addrs :
    /\ Active(a) => a \in targets /\ pc = "connect"
    /\ Active(a) => at[a] <= retrying_max_elapsed_time
    /\ task[a] = "wait" => now <= at[a]
    /\ Active(a) /\ task[a] # "wait" => now <= at[a] + Idle

CallInv ==
  /\ pc \in {"connect", "ask", "answer"} => try_from_config(config) # {}
  /\ pc = "new" => now = 0 /\ \A a \in Addrs : at[a] = 0 /\ task[a] = "none"
  /\ pc = "connect" => \A a \in targets : Active(a) \/ task[a] = "failed"
  /\ pc = "connect" => \E a \in targets : Active(a)
  /\ pc = "ask" => now <= retrying_max_elapsed_time + Idle
  /\ pc = "answer" =>
       /\ now <= deadline
       /\ deadline <= retrying_max_elapsed_time + Idle
                        + ECHO_SERVICE_QUERY_TIMEOUT
  /\ pc \in {"new", "connect"} => chosen = "none"
  /\ pc \in {"ask", "answer"} => chosen # "none"

CatchInv ==
  ~closed => \A a \in targets : Catches(a) =>
    /\ task[a] # "failed"
    /\ task[a] \in QuinnErrors => now < upAt[a] + Idle

ConnectInv == TypeInv /\ AttemptInv /\ CallInv /\ CatchInv /\ RetryCatches

\* ConnectInv holds before the call.
LEMMA ConnectInvInit == Init => ConnectInv
<1> SUFFICES ASSUME Init PROVE ConnectInv
  OBVIOUS
<1>1. TypeInv
  <2>1. UpTimes \subseteq Nat
    BY ConnectAssumption
  <2>2. upAt \in [targets -> UpTimes]
    BY DEF Init
  <2>3. upAt \in [targets -> Nat]
    BY Zenon, <2>1, <2>2
  <2>4. initial_retry_interval \in 1 .. max_retry_interval
    BY RetryAssumption
  <2>5. task \in [Addrs -> Tasks]
    BY DEF Init, Tasks
  <2> QED BY <2>3, <2>4, <2>5 DEF Init, TypeInv
<1>2. AttemptInv /\ CallInv
  BY <1>1 DEF Init, TypeInv, AttemptInv, CallInv, Active, QuinnErrors
<1>3. CatchInv /\ RetryCatches
  BY <1>1 DEF Init, TypeInv, CatchInv, RetryCatches, QuinnErrors
<1> QED BY <1>1, <1>2, <1>3 DEF ConnectInv

\* The step that a failed attempt takes: it is repeated after a delay, or given
\* up when that would take too long.
LEMMA FailCases ==
  ASSUME TypeInv, NEW a \in Addrs, NEW e, Fail(a, e)
  PROVE  \E d \in Nat :
           /\ d <= MaxDelay /\ MaxDelay \in Nat
           /\ \/ InTime(now, d) /\ Retries(a, d)
              \/ ~InTime(now, d) /\ GivesUp(a, e)
<1>1. PICK d \in Delays(interval[a]) :
        IF InTime(now, d) THEN Retries(a, d) ELSE GivesUp(a, e)
  BY DEF Fail, Permanent
<1>2. d \in Nat /\ d <= MaxDelay /\ MaxDelay \in Nat
  BY DelayBound DEF TypeInv
<1> QED BY <1>1, <1>2

\* A failed attempt keeps ConnectInv, if it failed early enough for a peer that
\* the retries must catch.
LEMMA FailKeeps ==
  ASSUME ConnectInv, NEW a \in Addrs, NEW e, Active(a), Fail(a, e),
         e \in ConnectionError,
         ~closed /\ Catches(a) => now < upAt[a] + Idle
  PROVE  ConnectInv'
<1> USE DEF ConnectInv
<1>1. PICK d \in Nat :
        /\ d <= MaxDelay /\ MaxDelay \in Nat
        /\ \/ InTime(now, d) /\ Retries(a, d)
           \/ ~InTime(now, d) /\ GivesUp(a, e)
  BY FailCases
<1>2. /\ UNCHANGED <<config, op, targets, upAt, deadline, chosen, closed, now>>
      /\ Idle \in Nat /\ Idle' = Idle /\ \A b : Catches(b)' = Catches(b)
  BY IdleFacts DEF Fail, callVars, rpcVars, TypeInv, Idle, Catches, MaxDelay
<1>3. retrying_max_elapsed_time \in Nat
  BY RetryAssumption
<1>4. CASE InTime(now, d) /\ Retries(a, d)
  <2>1. TypeInv'
    BY <1>2, <1>4, IntervalBound DEF Retries, TypeInv, Tasks
  <2>2. AttemptInv'
    BY <1>2, <1>3, <1>4 DEF Retries, TypeInv, AttemptInv, Active, InTime,
       QuinnErrors
  <2>3. CallInv'
    BY <1>2, <1>4 DEF Retries, TypeInv, CallInv, AttemptInv, Active,
       try_from_config
  <2>4. CatchInv' /\ RetryCatches'
    BY <1>2, <1>4 DEF Retries, TypeInv, CatchInv, RetryCatches, QuinnErrors
  <2> QED BY <2>1, <2>2, <2>3, <2>4
<1>5. CASE ~InTime(now, d) /\ GivesUp(a, e)
  <2>1. ~(~closed /\ Catches(a))
    <3> SUFFICES ASSUME ~closed, Catches(a) PROVE FALSE
      OBVIOUS
    <3>1. upAt[a] \in Nat /\ now \in Nat
      BY DEF Catches, TypeInv
    <3> QED BY <1>1, <1>2, <1>3, <1>5, <3>1 DEF InTime, Catches
  <2>2. TypeInv'
    BY <1>2, <1>5 DEF GivesUp, Return, TypeInv, Tasks
  <2>3. AttemptInv'
    BY <1>2, <1>5 DEF GivesUp, Return, LastOne, TypeInv, AttemptInv, Active,
       QuinnErrors
  <2>4. CallInv'
    BY <1>2, <1>5 DEF GivesUp, Return, LastOne, TypeInv, CallInv, AttemptInv,
       Active, QuinnErrors, try_from_config
  <2>5. CatchInv'
    BY <1>2, <1>5, <2>1 DEF GivesUp, TypeInv, CatchInv, QuinnErrors
  <2>6. RetryCatches'
    BY <1>2, <1>5, <2>1 DEF GivesUp, Return, LastOne, TypeInv, CatchInv,
       RetryCatches, AttemptInv
  <2> QED BY <2>2, <2>3, <2>4, <2>5, <2>6
<1> QED BY <1>1, <1>4, <1>5

\* No error with which the code gives up is one of new_client.
LEMMA ErrorFacts ==
  /\ \A q \in QuinnErrors : FromQuinn[q] \in ConnectionError
  /\ \A q \in QuinnConnectErrors : FromConnect[q] \in ConnectionError
BY DEF QuinnErrors, QuinnConnectErrors, FromQuinn, FromConnect,
       ConnectionError, Closes

\* The steps that leave the time and the call alone, and change one task.
LEMMA TaskKeeps ==
  ASSUME ConnectInv, NEW a \in Addrs, NEW t \in {"shaking", "shaken"} \cup QuinnErrors,
         Active(a), now <= at[a] + Idle,
         task' = [task EXCEPT ![a] = t],
         UNCHANGED <<callVars, at, interval, rpcVars, pc, chosen, closed, now,
                     result>>,
         ~closed /\ Catches(a) /\ t \in QuinnErrors => now < upAt[a] + Idle
  PROVE  ConnectInv'
<1> USE DEF ConnectInv
<1>1. /\ UNCHANGED <<config, op, targets, upAt, deadline, chosen, closed, now>>
      /\ UNCHANGED <<at, interval, pc, result>>
      /\ Idle' = Idle /\ \A b : Catches(b)' = Catches(b)
  BY DEF callVars, rpcVars, Idle, Catches, MaxDelay
<1>2. t \in Tasks /\ t \notin {"wait", "failed"}
  BY DEF Tasks, QuinnErrors
<1>3. TypeInv'
  BY <1>1, <1>2 DEF TypeInv
<1>4. AttemptInv'
  BY <1>1, <1>2 DEF TypeInv, AttemptInv, Active
<1>5. CallInv'
  <2>1. \A b \in Addrs : Active(b) <=> Active(b)'
    BY <1>1, <1>2 DEF TypeInv, Active
  <2>2. \A b \in Addrs : task[b] = "failed" => task'[b] = "failed"
    BY DEF TypeInv, Active, QuinnErrors
  <2>3. targets \subseteq Addrs /\ pc = "connect"
    BY DEF TypeInv, AttemptInv
  <2> QED BY <1>1, <2>1, <2>2, <2>3 DEF CallInv, try_from_config
<1>6. CatchInv'
  BY <1>1, <1>2 DEF TypeInv, CatchInv
<1>7. RetryCatches'
  BY <1>1 DEF RetryCatches
<1> QED BY <1>3, <1>4, <1>5, <1>6, <1>7

\* The steps that change no task.
LEMMA CallKeeps ==
  ASSUME ConnectInv, ~\E a \in Addrs : Active(a),
         UNCHANGED <<callVars, attemptVars, chosen, closed>>,
         now' \in Nat, deadline' \in Nat, chosen # "none",
         pc' \in {"ask", "answer", "done"}, pc \in {"ask", "answer"},
         pc' = "ask" => pc = "ask" /\ now' = now,
         pc' = "answer" =>
           now' <= deadline' /\ deadline' <= retrying_max_elapsed_time + Idle
                                               + ECHO_SERVICE_QUERY_TIMEOUT
  PROVE  ConnectInv'
<1> USE DEF ConnectInv
<1>1. /\ UNCHANGED <<config, op, targets, upAt, chosen, closed>>
      /\ UNCHANGED <<task, at, interval>>
      /\ Idle' = Idle /\ \A b : Catches(b)' = Catches(b)
  BY DEF callVars, attemptVars, Idle, Catches, MaxDelay
<1>2. TypeInv'
  BY <1>1 DEF TypeInv
<1>3. AttemptInv'
  BY <1>1 DEF TypeInv, AttemptInv, Active
<1>4. CallInv'
  BY <1>1 DEF CallInv, try_from_config
<1>5. CatchInv'
  BY <1>1 DEF CatchInv, TypeInv, Active
<1>6. RetryCatches'
  BY <1>1 DEF RetryCatches
<1> QED BY <1>2, <1>3, <1>4, <1>5, <1>6

\* Every step keeps ConnectInv.
LEMMA ConnectInvNext == ConnectInv /\ [Next]_vars => ConnectInv'
<1> SUFFICES ASSUME ConnectInv, [Next]_vars PROVE ConnectInv'
  OBVIOUS
<1> USE DEF ConnectInv
<1>t. Idle \in Nat /\ retrying_max_elapsed_time \in Nat
      /\ ECHO_SERVICE_QUERY_TIMEOUT \in Nat
  BY IdleFacts, RetryAssumption, ConnectAssumption DEF TypeInv
<1>i. pc \in {"connect", "ask", "answer"} => idle_timeout = Idle
  BY IdleFacts DEF TypeInv, CallInv
<1>q. pc \in {"ask", "answer"} => ~\E a \in Addrs : Active(a)
  BY DEF AttemptInv
<1>1. CASE NewClient
  <2>1. UNCHANGED <<config, op, targets, upAt, at, interval, deadline, chosen,
                    closed, now>> /\ pc = "new"
    BY <1>1 DEF NewClient, callVars, rpcVars
  <2>2. Idle' = Idle /\ \A b : Catches(b)' = Catches(b)
    BY <2>1 DEF Idle, Catches, MaxDelay
  <2>3. CASE UNCHANGED task /\ pc' = "done"
             /\ (result' \in {"Config", "Socket"} \/ targets = {})
    <3>1. TypeInv'
      BY <2>1, <2>3 DEF TypeInv
    <3>2. AttemptInv' /\ CallInv'
      BY <2>1, <2>2, <2>3 DEF AttemptInv, CallInv, Active, QuinnErrors
    <3>3. CatchInv' /\ RetryCatches'
      BY <2>1, <2>2, <2>3 DEF CatchInv, RetryCatches
    <3> QED BY <3>1, <3>2, <3>3
  <2>4. CASE /\ try_from_config(config) # {} /\ targets # {} /\ pc' = "connect"
             /\ task' = [a \in Addrs |-> IF a \in targets THEN "wait" ELSE "none"]
    <3>1. TypeInv'
      BY <2>1, <2>4 DEF TypeInv, Tasks
    <3>2. AttemptInv' /\ CallInv'
      BY <1>t, <2>1, <2>2, <2>4 DEF TypeInv, AttemptInv, CallInv, Active,
         QuinnErrors, try_from_config
    <3>3. CatchInv' /\ RetryCatches'
      BY <2>1, <2>2, <2>4 DEF TypeInv, CatchInv, RetryCatches, QuinnErrors
    <3> QED BY <3>1, <3>2, <3>3
  <2> QED BY <1>1, <2>3, <2>4 DEF NewClient, Return
<1>2. ASSUME NEW a \in Addrs, Refused(a) PROVE ConnectInv'
  <2>1. PICK e \in ConnectErrors(a) : Fail(a, FromConnect[e])
    BY <1>2 DEF Refused
  <2>2. FromConnect[e] \in ConnectionError
    BY ErrorFacts DEF ConnectErrors, QuinnConnectErrors
  <2>3. ~(~closed /\ Catches(a))
    BY <2>1 DEF ConnectErrors, Catches
  <2>4. Active(a)
    BY <1>2 DEF Refused, Due, Active
  <2> QED BY <2>1, <2>2, <2>3, <2>4, FailKeeps
<1>3. ASSUME NEW a \in Addrs, Begins(a) PROVE ConnectInv'
  <2>1. Active(a) /\ now <= at[a] + Idle
    BY <1>3, <1>t DEF Begins, Due, Active, TypeInv
  <2> QED BY Zenon, <1>3, <2>1, TaskKeeps DEF Begins, QuinnErrors
<1>4. ASSUME NEW a \in Addrs, Failed(a) PROVE ConnectInv'
  <2>1. Active(a) /\ FromQuinn[task[a]] \in ConnectionError
    BY <1>4, ErrorFacts DEF Failed, Active
  <2>2. ~closed /\ Catches(a) => now < upAt[a] + Idle
    BY <1>4 DEF Failed, CatchInv, Catches
  <2> QED BY <1>4, <2>1, <2>2, FailKeeps DEF Failed
<1>5. ASSUME NEW a \in Addrs, Connected(a) PROVE ConnectInv'
  <2>1. /\ UNCHANGED <<config, op, targets, upAt, at, interval, deadline,
                       closed, now>>
        /\ chosen' = a /\ a # "none" /\ pc' \in {"ask", "done"}
        /\ Idle' = Idle /\ \A b : Catches(b)' = Catches(b)
    BY <1>5, ConnectAssumption DEF Connected, Return, callVars, rpcVars, Idle,
       Catches, MaxDelay
  <2>2. /\ pc = "connect" /\ at[a] <= retrying_max_elapsed_time
        /\ now <= at[a] + Idle
    BY <1>5 DEF Connected, AttemptInv, Active
  <2>3. \A b \in Addrs : /\ task'[b] \in {"ok", "failed", "none"}
                         /\ task'[b] = "failed" => task[b] = "failed"
    BY <1>5 DEF Connected
  <2>4. TypeInv'
    BY <1>5, <2>1 DEF Connected, TypeInv, Tasks
  <2>5. AttemptInv'
    BY <2>3 DEF AttemptInv, Active, QuinnErrors
  <2>6. CallInv'
    <3>1. try_from_config(config)' # {}
      BY <2>1, <2>2 DEF CallInv, try_from_config
    <3>2. now' <= retrying_max_elapsed_time + Idle'
      BY <1>t, <2>1, <2>2 DEF TypeInv
    <3> QED BY <2>1, <3>1, <3>2 DEF CallInv
  <2>7. CatchInv' /\ RetryCatches'
    BY <2>1, <2>3 DEF TypeInv, CatchInv, RetryCatches, QuinnErrors
  <2> QED BY <2>4, <2>5, <2>6, <2>7
<1>6. ASSUME NEW a \in Addrs, Accepts(a) \/ Expires(a) \/ Rejects(a)
      PROVE  ConnectInv'
  <2>1. PICK t \in {"shaken", "TimedOut", "ConnectionClosed"} :
          /\ Shaken(a, t)
          /\ t = "TimedOut" =>
               now = at[a] + idle_timeout /\ (upAt[a] > at[a] \/ a \in Lossy)
          /\ t = "ConnectionClosed" => now < upAt[a] \/ a \in Lossy
    BY <1>6 DEF Accepts, Expires, Rejects
  <2>2. Active(a) /\ now <= at[a] + Idle /\ pc = "connect"
    BY <2>1 DEF Shaken, Active, AttemptInv
  <2>3. Catches(a) /\ t # "shaken" => now < upAt[a] + Idle
    <3> SUFFICES ASSUME Catches(a), t # "shaken" PROVE now < upAt[a] + Idle
      OBVIOUS
    <3>1. a \notin Lossy /\ upAt[a] \in Nat /\ at[a] \in Nat /\ now \in Nat
      BY DEF Catches, TypeInv
    <3> QED BY <1>t, <1>i, <2>1, <2>2, <3>1
  <2>4. t \in {"shaking", "shaken"} \cup QuinnErrors /\ "shaken" \notin QuinnErrors
    BY DEF QuinnErrors
  <2>5. /\ task' = [task EXCEPT ![a] = t]
        /\ UNCHANGED <<callVars, at, interval, rpcVars, pc, chosen, closed,
                       now, result>>
    BY <2>1 DEF Shaken
  <2> QED BY Zenon, <2>2, <2>3, <2>4, <2>5, TaskKeeps
<1>7. CASE Close
  <2>1. /\ UNCHANGED <<config, op, targets, upAt, at, interval, deadline, pc,
                       chosen, now, result>> /\ closed'
        /\ Idle' = Idle
    BY <1>7 DEF Close, callVars, Idle
  <2>2. TypeInv'
    BY <1>7, <2>1 DEF Close, TypeInv, Tasks, QuinnErrors
  <2>3. \A b \in Addrs : /\ Active(b) <=> Active(b)'
                         /\ task[b] = "failed" <=> task'[b] = "failed"
                         /\ task[b] = "wait" <=> task'[b] = "wait"
    BY <1>7 DEF Close, TypeInv, Active, QuinnErrors
  <2>4. AttemptInv'
    BY <2>1, <2>3 DEF AttemptInv
  <2>5. CallInv'
    <3>1. targets \subseteq Addrs /\ pc # "new"
      BY <1>7 DEF TypeInv, Close
    <3> QED BY <2>1, <2>3, <3>1 DEF CallInv, try_from_config
  <2>6. CatchInv' /\ RetryCatches'
    BY <2>1 DEF CatchInv, RetryCatches
  <2> QED BY <2>2, <2>4, <2>5, <2>6
<1>8. CASE Ask \/ HasAnswer \/ TimesOut \/ LinkLost \/ \E r \in Answers : Answer(r)
  <2>1. /\ UNCHANGED <<callVars, attemptVars, chosen, closed>> /\ now' = now
        /\ pc \in {"ask", "answer"} /\ pc' \in {"ask", "answer", "done"}
        /\ pc' = "ask" => pc = "ask"
        /\ \/ deadline' = deadline /\ (pc' = "answer" => pc = "answer")
           \/ pc = "ask" /\ deadline' = now + ECHO_SERVICE_QUERY_TIMEOUT
    BY <1>8 DEF Ask, HasAnswer, TimesOut, LinkLost, Loses, Answer, Return,
       rpcVars
  <2>2. now \in Nat /\ deadline \in Nat /\ deadline' \in Nat
    BY <1>t, <2>1 DEF TypeInv
  <2>3. pc' = "answer" =>
          /\ now' <= deadline'
          /\ deadline' <= retrying_max_elapsed_time + Idle
                            + ECHO_SERVICE_QUERY_TIMEOUT
    BY <1>t, <2>1, <2>2 DEF CallInv
  <2>4. chosen # "none"
    BY <2>1 DEF CallInv
  <2> QED BY <1>q, <2>1, <2>2, <2>3, <2>4, CallKeeps
<1>9. CASE Tick /\ pc = "answer"
  <2>1. /\ UNCHANGED <<callVars, attemptVars, chosen, closed, pc, deadline>>
        /\ now' = now + 1 /\ now < deadline
    BY <1>9 DEF Tick, rpcVars
  <2>2. now' \in Nat /\ deadline' \in Nat /\ now' <= deadline'
    BY <2>1 DEF TypeInv
  <2>3. chosen # "none" /\ deadline <= retrying_max_elapsed_time + Idle
                                         + ECHO_SERVICE_QUERY_TIMEOUT
    BY <1>9 DEF CallInv
  <2> QED BY <1>q, <1>9, <2>1, <2>2, <2>3, CallKeeps
<1>10. CASE Tick /\ pc = "connect"
  <2>1. /\ UNCHANGED <<config, op, targets, upAt, task, at, interval, deadline,
                       pc, chosen, closed, result>>
        /\ now' = now + 1 /\ \A a \in Addrs : Waiting(a)
        /\ Idle' = Idle /\ \A b : Catches(b)' = Catches(b)
    BY <1>10 DEF Tick, callVars, attemptVars, rpcVars, Idle, Catches, MaxDelay
  <2>2. TypeInv'
    BY <2>1 DEF TypeInv
  <2>3. \A a \in Addrs : Active(a) =>
          \/ task[a] = "wait" /\ now < at[a]
          \/ task[a] = "shaking" /\ now < at[a] + Idle
    BY <1>i, <1>10, <2>1 DEF Waiting, Active, QuinnErrors
  <2>4. AttemptInv'
    BY <1>t, <2>1, <2>3 DEF AttemptInv, Active, TypeInv
  <2>5. CallInv'
    BY <1>10, <2>1 DEF CallInv, Active, try_from_config
  <2>6. CatchInv'
    BY <2>1, <2>3 DEF CatchInv, TypeInv, Active, QuinnErrors
  <2>7. RetryCatches'
    BY <1>10, <2>1 DEF RetryCatches
  <2> QED BY <2>2, <2>4, <2>5, <2>6, <2>7
<1>11. CASE UNCHANGED vars
  <2>1. /\ UNCHANGED <<config, op, targets, upAt, task, at, interval, deadline,
                       pc, chosen, closed, now, result>>
        /\ Idle' = Idle /\ \A b : Catches(b)' = Catches(b)
    BY <1>11 DEF vars, callVars, attemptVars, rpcVars, Idle, Catches, MaxDelay
  <2>2. TypeInv' /\ AttemptInv'
    BY <2>1 DEF TypeInv, AttemptInv, Active
  <2>3. CallInv'
    BY <2>1 DEF CallInv, Active, try_from_config
  <2>4. CatchInv' /\ RetryCatches'
    BY <2>1 DEF CatchInv, RetryCatches
  <2> QED BY <2>2, <2>3, <2>4
<1> QED
  BY <1>1, <1>2, <1>3, <1>4, <1>5, <1>6, <1>7, <1>8, <1>9, <1>10, <1>11
     DEF Next, Call, Steps, Quinn, Tick

\* ConnectInv holds in every state of a call.
THEOREM ConnectInvariant == Spec => []ConnectInv
BY ConnectInvInit, ConnectInvNext, PTL DEF Spec

-----------------------------------------------------------------------------
\* The retries of new_connection, is_reachable's timeout and a closed endpoint
\* included: a call is over in time.
THEOREM CallInTimeHolds == Spec => []CallInTime
<1>1. ConnectInv => CallInTime
  <2> SUFFICES ASSUME ConnectInv PROVE CallInTime
    OBVIOUS
  <2>1. /\ Idle \in Nat /\ retrying_max_elapsed_time \in Nat
        /\ ECHO_SERVICE_QUERY_TIMEOUT \in Nat /\ now \in Nat /\ deadline \in Nat
    BY IdleFacts, RetryAssumption, ConnectAssumption DEF ConnectInv, TypeInv
  <2>2. ASSUME pc = "connect" PROVE now <= retrying_max_elapsed_time + Idle
    <3>1. PICK a \in targets : Active(a)
      BY <2>2 DEF ConnectInv, CallInv
    <3>2. a \in Addrs /\ at[a] \in Nat
      BY DEF ConnectInv, TypeInv
    <3> QED BY <2>1, <3>1, <3>2 DEF ConnectInv, AttemptInv
  <2>3. pc \in {"ask", "answer"} =>
          now <= retrying_max_elapsed_time + Idle + ECHO_SERVICE_QUERY_TIMEOUT
    BY <2>1 DEF ConnectInv, CallInv
  <2> QED BY <2>2, <2>3 DEF CallInTime
<1> QED BY <1>1, ConnectInvariant, PTL

\* A peer that answers soon enough is connected to, for every configuration of
\* the retries.
THEOREM RetryCatchesHolds == Spec => []RetryCatches
<1>1. ConnectInv => RetryCatches
  BY DEF ConnectInv
<1> QED BY <1>1, ConnectInvariant, PTL

-----------------------------------------------------------------------------
(***************************************************************************)
(* The call implements FirstSuccess.                                       *)
(***************************************************************************)
Gone == {a \in targets : task[a] = "failed"}
Over == pc = "done" /\ result \notin {"Config", "Socket"}

\* An attempt that is given up is a failure of the abstract call, and the last
\* one ends it; every other step of an attempt that failed is invisible.
LEMMA FailRefines ==
  ASSUME ConnectInv, NEW a \in Addrs, NEW e, Active(a), Fail(a, e),
         e \in ConnectionError
  PROVE  First!Next \/ UNCHANGED First!vars
<1> USE DEF ConnectInv
<1>1. PICK d \in Nat :
        \/ InTime(now, d) /\ Retries(a, d)
        \/ ~InTime(now, d) /\ GivesUp(a, e)
  BY FailCases
<1>2. /\ UNCHANGED <<targets, chosen>> /\ pc = "connect" /\ chosen = "none"
      /\ a \in targets \ Gone /\ targets \subseteq Addrs
  BY DEF Fail, callVars, AttemptInv, CallInv, Gone, Active, QuinnErrors, TypeInv
<1>3. CASE Retries(a, d)
  <2>1. Gone' = Gone
    BY <1>2, <1>3 DEF Retries, Gone, TypeInv
  <2>2. Over' = Over
    BY <1>3 DEF Retries, Over
  <2> QED BY <1>2, <2>1, <2>2 DEF First!vars, Gone, Over
<1>4. CASE GivesUp(a, e)
  <2>1. Gone' = Gone \cup {a}
    BY <1>2, <1>4 DEF GivesUp, Gone, TypeInv
  <2>2. LastOne(a) <=> Gone' = targets
    BY <1>2, <2>1 DEF LastOne, Gone
  <2>3. ErrorOf(e) \notin {"Config", "Socket"}
    BY Zenon DEF ErrorOf, ConnectionError, Closes, TypeInv, Ops
  <2>4. Over' <=> LastOne(a)
    BY <1>2, <1>4, <2>3 DEF GivesUp, Return, Over
  <2>5. Over' = (Gone' = targets) /\ ~Over
    BY Zenon, <1>2, <2>2, <2>4 DEF Over
  <2>6. First!Fail(a)
    BY Zenon, <1>2, <2>1, <2>5 DEF First!Fail, Gone, Over
  <2> QED BY <1>2, <2>6 DEF First!Next
<1> QED BY <1>1, <1>3, <1>4

\* Every step of a call is one of the abstract call, or invisible in it.
LEMMA FirstStep ==
  ConnectInv /\ [Next]_vars => First!Next \/ UNCHANGED First!vars
<1> SUFFICES ASSUME ConnectInv, [Next]_vars
             PROVE  First!Next \/ UNCHANGED First!vars
  OBVIOUS
<1> USE DEF ConnectInv
<1>1. CASE NewClient
  <2>1. /\ UNCHANGED <<targets, chosen>> /\ ~Over /\ Gone = {}
    BY <1>1 DEF NewClient, callVars, Over, Gone, CallInv, TypeInv
  <2>2. Gone' = {}
    BY <1>1, <2>1 DEF NewClient, Gone, TypeInv
  <2>3. CASE targets = {} /\ Over'
    BY Zenon, <2>1, <2>2, <2>3 DEF First!Next, First!Return, Gone, Over
  <2>4. CASE ~Over'
    <3>1. Over' = Over
      BY Zenon, <2>1, <2>4 DEF Over
    <3> QED BY <2>1, <2>2, <3>1 DEF First!vars, Gone, Over
  <2> QED BY <1>1, <2>3, <2>4 DEF NewClient, Return, Over
<1>2. ASSUME NEW a \in Addrs, Refused(a) PROVE First!Next \/ UNCHANGED First!vars
  <2>1. PICK e \in ConnectErrors(a) : Fail(a, FromConnect[e])
    BY <1>2 DEF Refused
  <2>2. FromConnect[e] \in ConnectionError /\ Active(a)
    BY <1>2, ErrorFacts DEF ConnectErrors, QuinnConnectErrors, Refused, Due,
       Active
  <2> QED BY <2>1, <2>2, FailRefines
<1>3. ASSUME NEW a \in Addrs, Failed(a) PROVE First!Next \/ UNCHANGED First!vars
  BY <1>3, ErrorFacts, FailRefines DEF Failed, Active
<1>4. ASSUME NEW a \in Addrs, Connected(a)
      PROVE  First!Next
  <2>1. /\ UNCHANGED targets /\ chosen = "none" /\ chosen' = a /\ ~Over
        /\ a \in targets \ Gone
    BY <1>4 DEF Connected, callVars, CallInv, AttemptInv, Active, Over, Gone
  <2>2. Gone' = Gone
    BY Zenon, <1>4, <2>1 DEF Connected, Gone, TypeInv
  <2>3. Over' \in BOOLEAN
    BY Zenon DEF Over
  <2>4. First!Choose(a)
    BY Zenon, <2>1, <2>2, <2>3 DEF First!Choose, Gone, Over
  <2> QED BY <2>1, <2>4 DEF First!Next
<1>5. CASE Ask \/ HasAnswer \/ TimesOut \/ LinkLost \/ \E r \in Answers : Answer(r)
  <2>1. /\ UNCHANGED <<targets, task, chosen>> /\ pc \in {"ask", "answer"}
        /\ chosen # "none"
    BY <1>5 DEF Ask, HasAnswer, TimesOut, LinkLost, Loses, Answer, callVars,
       attemptVars, CallInv
  <2>2. Gone' = Gone /\ ~Over
    BY <2>1 DEF Gone, Over
  <2>3. CASE Over'
    BY Zenon, <2>1, <2>2, <2>3 DEF First!Next, First!Return, Gone, Over
  <2>4. CASE ~Over'
    <3>1. Over' = Over
      BY Zenon, <2>2, <2>4 DEF Over
    <3> QED BY <2>1, <2>2, <3>1 DEF First!vars, Gone, Over
  <2> QED BY <2>3, <2>4
<1>6. CASE Close \/ Tick \/ UNCHANGED vars
           \/ \E a \in Addrs : Begins(a) \/ Accepts(a) \/ Expires(a) \/ Rejects(a)
  <2>1. UNCHANGED <<targets, chosen, pc, result>>
    BY <1>6 DEF Close, Tick, vars, Begins, Accepts, Expires, Rejects, Shaken,
       callVars
  <2>2. \A b \in targets : task[b] = "failed" <=> task'[b] = "failed"
    BY <1>6 DEF Close, Tick, vars, attemptVars, Begins, Due, Accepts, Expires,
       Rejects, Shaken, TypeInv
  <2>3. Gone' = Gone /\ Over' = Over
    BY <2>1, <2>2 DEF Gone, Over
  <2> QED BY <2>1, <2>3 DEF First!vars, Gone, Over
<1> QED BY <1>1, <1>2, <1>3, <1>4, <1>5, <1>6 DEF Next, Call, Steps, Quinn

\* connect_to_any, connect_to and is_reachable choose the first connection, and
\* fail only when every attempt has failed.
THEOREM FirstSucceedsHolds == Spec => FirstSucceeds
<1>1. Init => First!Init
  BY DEF Init, First!Init
<1>2. ConnectInv /\ [Next]_vars => [First!Next]_First!vars
  BY FirstStep
<1> QED BY <1>1, <1>2, ConnectInvariant, PTL DEF Spec, FirstSucceeds, First!Spec
=============================================================================
