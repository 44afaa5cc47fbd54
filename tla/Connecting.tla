----------------------------- MODULE Connecting -----------------------------
(***************************************************************************)
(* Connecting to peers (src/src/endpoint.rs): an endpoint made by          *)
(* new_client, and one call of connect_to, connect_to_any or is_reachable  *)
(* on it.  All of them use new_connection, which retries every failure     *)
(* with the back-off of RetryConfig; connect_to_any runs one for each      *)
(* address, all at once.                                                   *)
(*                                                                         *)
(* quinn and the peers are external.  A peer answers from some moment on.  *)
(* A handshake ends when the peer answers, with an error, or after the     *)
(* idle timeout, and so does a connection on which nothing is heard.  Time *)
(* is counted in ticks since the call; it does not pass while a task can   *)
(* run.                                                                    *)
(***************************************************************************)
EXTENDS RetryConfig, ConnectionErrors

CONSTANTS
  Addrs,          \* the addresses of peers
  Invalid,        \* those that quinn refuses
  Lossy,          \* those whose handshakes and connections may fail
  UpTimes,        \* when peers may begin to answer
  Configs,        \* the configurations, see ConfigAssumption
  DEFAULT_IDLE_TIMEOUT,
  MaxVarInt,      \* the longest idle timeout that quinn can represent
  ECHO_SERVICE_QUERY_TIMEOUT,
  Answers,        \* what a peer may do with an echo request
  MayClose        \* may the endpoint be closed?

\* An optional value is a set with at most one element.  Zero, with which quinn
\* never times out, is not among the idle timeouts.
ASSUME ConfigAssumption ==
  /\ \A c \in Configs :
       /\ c.idle_timeout \subseteq Nat \ {0}
       /\ \A m, n \in c.idle_timeout : m = n
       /\ c.keep_alive \in BOOLEAN
  /\ DEFAULT_IDLE_TIMEOUT \in Nat \ {0} /\ MaxVarInt \in Nat
  /\ DEFAULT_IDLE_TIMEOUT <= MaxVarInt

ASSUME ConnectAssumption ==
  /\ Invalid \subseteq Addrs /\ Lossy \subseteq Addrs /\ "none" \notin Addrs
  /\ UpTimes \subseteq Nat /\ ECHO_SERVICE_QUERY_TIMEOUT \in Nat
  /\ Answers \subseteq {"EchoResp", "Other", "Finished", "Reset"}
  /\ MayClose \in BOOLEAN

VARIABLES
  config,     \* the configuration given to new_client
  op,         \* which function is called
  targets,    \* with which addresses
  upAt,       \* when each peer begins to answer
  pc,         \* "new", then "connect", "ask", "answer" and "done"
  task,       \* the future of new_connection for each address, see Tasks
  at,         \* when its current attempt began, or the next one begins
  interval,   \* its back-off interval
  chosen,     \* the peer whose connection the call uses, or "none"
  link,       \* that connection: "alive", or the error it ended with
  reply,      \* what became of the echo request
  deadline,   \* when is_reachable stops waiting for it
  closed,     \* was the endpoint closed?
  now,
  result      \* what the call returned, or "none"

callVars    == <<config, op, targets, upAt>>
attemptVars == <<task, at, interval>>
rpcVars     == <<link, reply, deadline>>
vars        == <<callVars, attemptVars, rpcVars, pc, chosen, closed, now, result>>

\* A task waits for its next attempt, waits for a handshake, has got a result of
\* the handshake ("shaken", or an error), or is over.
Tasks == {"none", "wait", "shaking", "shaken", "failed", "ok"} \cup QuinnErrors

Ops == {"connect_to", "connect_to_any", "is_reachable"}

\* InternalConfig::try_from_config: the idle timeout, if it is a valid one.
try_from_config(c) ==
  IF c.idle_timeout = {} THEN {DEFAULT_IDLE_TIMEOUT}
  ELSE {n \in c.idle_timeout : n <= MaxVarInt}

idle_timeout == CHOOSE n \in try_from_config(config) : TRUE

Init ==
  /\ config \in Configs
  /\ op \in Ops /\ targets \in SUBSET Addrs /\ upAt \in [targets -> UpTimes]
  /\ op # "connect_to_any" => \E a \in Addrs : targets = {a}
  /\ pc = "new" /\ task = [a \in Addrs |-> "none"]
  /\ at = [a \in Addrs |-> 0]
  /\ interval = [a \in Addrs |-> initial_retry_interval]
  /\ chosen = "none" /\ link = "alive" /\ reply = "none"
  /\ deadline = 0 /\ closed = FALSE /\ now = 0 /\ result = "none"

-----------------------------------------------------------------------------
Return(res) == pc' = "done" /\ result' = res

\* new_client, which fails with an invalid configuration or when there is no
\* socket for it, and the call on the endpoint it made.  connect_to_any without
\* addresses returns at once; otherwise all attempts are started.
NewClient ==
  /\ pc = "new"
  /\ \/ try_from_config(config) = {} /\ Return("Config") /\ UNCHANGED task
     \/ try_from_config(config) # {} /\ Return("Socket") /\ UNCHANGED task
     \/ /\ try_from_config(config) # {} /\ targets = {}
        /\ Return("None") /\ UNCHANGED task
     \/ /\ try_from_config(config) # {} /\ targets # {}
        /\ pc' = "connect" /\ UNCHANGED result
        /\ task' = [a \in Addrs |-> IF a \in targets THEN "wait" ELSE "none"]
  /\ UNCHANGED <<callVars, at, interval, rpcVars, chosen, closed, now>>

-----------------------------------------------------------------------------
(***************************************************************************)
(* new_connection.                                                         *)
(***************************************************************************)

\* From<ConnectionError> for RpcError, and what connect_to_any makes of it.
ErrorOf(e) ==
  CASE op = "connect_to"     -> e
    [] op = "connect_to_any" -> "None"
    [] op = "is_reachable"   -> "Send"

\* select_ok gives up with the last error, once no other attempt is left.
BugSelectAny(a) == TRUE
LastOne(a) == \A b \in targets \ {a} : task[b] = "failed"

\* Every error is transient: the attempt is repeated as long as there is time.
BugPermanent(e) == e # "TimedOut"
Permanent(e) == FALSE

GivesUp(a, e) ==
  /\ task' = [task EXCEPT ![a] = "failed"]
  /\ IF LastOne(a) THEN Return(ErrorOf(e)) ELSE UNCHANGED <<pc, result>>
  /\ UNCHANGED <<at, interval>>

Retries(a, d) ==
  /\ task' = [task EXCEPT ![a] = "wait"]
  /\ at' = [at EXCEPT ![a] = now + d]
  /\ interval' = [interval EXCEPT ![a] = NextInterval(@)]
  /\ UNCHANGED <<pc, result>>

Fail(a, e) ==
  /\ \/ Permanent(e) /\ GivesUp(a, e)
     \/ ~Permanent(e) /\ \E d \in Delays(interval[a]) :
          IF InTime(now, d) THEN Retries(a, d) ELSE GivesUp(a, e)
  /\ UNCHANGED <<callVars, rpcVars, chosen, closed, now>>

\* quinn_endpoint.connect refuses at once, or begins a handshake.
ConnectErrors(a) ==
  IF closed THEN {"EndpointStopping"}
  ELSE IF a \in Invalid THEN {"InvalidRemoteAddress"} ELSE {}

Due(a) == task[a] = "wait" /\ now = at[a]

Refused(a) ==
  Due(a) /\ \E e \in ConnectErrors(a) : Fail(a, FromConnect[e])

Begins(a) ==
  /\ Due(a) /\ ConnectErrors(a) = {}
  /\ task' = [task EXCEPT ![a] = "shaking"]
  /\ UNCHANGED <<callVars, at, interval, rpcVars, pc, chosen, closed, now,
                 result>>

Failed(a) == task[a] \in QuinnErrors /\ Fail(a, FromQuinn[task[a]])

\* The first connection is taken, and all the other attempts are dropped.
Connected(a) ==
  /\ task[a] = "shaken"
  /\ chosen' = a
  /\ task' = [b \in Addrs |-> IF b = a THEN "ok"
                              ELSE IF task[b] = "failed" THEN "failed"
                              ELSE "none"]
  /\ IF op = "is_reachable" THEN pc' = "ask" /\ UNCHANGED result
                            ELSE Return("Ok")
  /\ UNCHANGED <<callVars, at, interval, rpcVars, closed, now>>

-----------------------------------------------------------------------------
(***************************************************************************)
(* quinn and the peers.                                                    *)
(***************************************************************************)
Shaken(a, outcome) ==
  /\ task[a] = "shaking" /\ task' = [task EXCEPT ![a] = outcome]
  /\ UNCHANGED <<callVars, at, interval, rpcVars, pc, chosen, closed, now,
                 result>>

Accepts(a) == Shaken(a, "shaken") /\ now >= upAt[a]

\* A peer that answers all the time an attempt takes is not missed.
Expires(a) ==
  /\ Shaken(a, "TimedOut") /\ now = at[a] + idle_timeout
  /\ upAt[a] > at[a] \/ a \in Lossy

Rejects(a) ==
  Shaken(a, "ConnectionClosed") /\ (now < upAt[a] \/ a \in Lossy)

\* Endpoint::close.
Close ==
  /\ MayClose /\ ~closed /\ pc \in {"connect", "ask", "answer"}
  /\ closed' = TRUE
  /\ task' = [a \in Addrs |-> IF task[a] = "shaking" THEN "LocallyClosed"
                              ELSE task[a]]
  /\ link' = IF link = "alive" THEN "LocallyClosed" ELSE link
  /\ UNCHANGED <<callVars, at, interval, reply, deadline, pc, chosen, now, result>>

Loses(e) ==
  /\ pc \in {"ask", "answer"} /\ link = "alive"
  /\ link' = e
  /\ UNCHANGED <<callVars, attemptVars, reply, deadline, pc, chosen, closed,
                 now, result>>

\* Unless one side sends keep-alives, a connection on which nothing is heard
\* times out.
Silent ==
  /\ reply = "sent" /\ ~config.keep_alive
  /\ now + ECHO_SERVICE_QUERY_TIMEOUT = deadline + idle_timeout

LinkLost ==
  \/ chosen \in Lossy /\ \E e \in {"ApplicationClosed0", "Reset"} : Loses(e)
  \/ Silent /\ Loses("TimedOut")

Answer(r) ==
  /\ pc = "answer" /\ link = "alive" /\ reply = "sent"
  /\ reply' = r
  /\ UNCHANGED <<callVars, attemptVars, link, deadline, pc, chosen,
                 closed, now, result>>

-----------------------------------------------------------------------------
(***************************************************************************)
(* The rest of is_reachable: an echo request over the new connection.      *)
(***************************************************************************)

\* open_bi and send_wire_msg are awaited before the timeout of the request
\* begins.  They do not wait for a peer that grants, in the handshake, the
\* credit for one stream and its short request, as this crate does.
Ask ==
  /\ pc = "ask"
  /\ \/ link # "alive" /\ Return("Send") /\ UNCHANGED <<reply, deadline>>
     \/ /\ link = "alive" /\ pc' = "answer" /\ reply' = "sent"
        /\ deadline' = now + ECHO_SERVICE_QUERY_TIMEOUT
        /\ UNCHANGED result
  /\ UNCHANGED <<callVars, attemptVars, link, chosen, closed, now>>

\* What next_wire_msg returns: the answer, None at the end of the stream or
\* after a benign end of the connection, or an error.
next_wire_msg ==
  IF reply # "sent" THEN reply
  ELSE IF link = "alive" THEN "Pending"
  ELSE IF Benign(link) THEN "Finished" ELSE "ConnectionLost"

\* Whatever is received, and also that nothing is, will do.
Accepted == {"EchoResp", "Other", "Finished"}

HasAnswer ==
  /\ pc = "answer" /\ next_wire_msg # "Pending"
  /\ Return(IF next_wire_msg \in Accepted THEN "Ok" ELSE "Recv")
  /\ UNCHANGED <<callVars, attemptVars, rpcVars, chosen, closed, now>>

\* BugNoTimeout: the answer is awaited without a timeout.
BugNoTimeout == FALSE
TimesOut ==
  /\ pc = "answer" /\ next_wire_msg = "Pending" /\ now = deadline
  /\ Return("TimedOut")
  /\ UNCHANGED <<callVars, attemptVars, rpcVars, chosen, closed, now>>

-----------------------------------------------------------------------------
Steps(a) == Refused(a) \/ Begins(a) \/ Failed(a) \/ Connected(a)

Call  == NewClient \/ Ask \/ HasAnswer \/ TimesOut \/ \E a \in Addrs : Steps(a)
Quinn == (\E a \in Addrs : Accepts(a) \/ Expires(a) \/ Rejects(a)) \/ LinkLost
         \/ \E r \in Answers : Answer(r)

\* Time passes when no task can run and no timer is due.
Waiting(a) ==
  \/ task[a] \in {"none", "failed", "ok"}
  \/ task[a] = "wait" /\ now < at[a]
  \/ task[a] = "shaking" /\ now < at[a] + idle_timeout

Tick ==
  /\ pc \in {"connect", "answer"} /\ \A a \in Addrs : Waiting(a)
  /\ pc = "answer" => next_wire_msg = "Pending" /\ now < deadline
  /\ now' = now + 1
  /\ UNCHANGED <<callVars, attemptVars, rpcVars, pc, chosen, closed,
                 result>>

Next == Call \/ Quinn \/ Close \/ Tick

Spec == Init /\ [][Next]_vars

\* The runtime polls a task that can run, the clock goes on, and a handshake is
\* over when its time is.  Nothing makes a peer answer a request.
HandshakeOver ==
  \E a \in Addrs : (Accepts(a) \/ Expires(a)) /\ now = at[a] + idle_timeout

FairSpec ==
  Spec /\ WF_vars(Call) /\ WF_vars(Tick) /\ WF_vars(HandshakeOver)

-----------------------------------------------------------------------------
(***************************************************************************)
(* Properties.                                                             *)
(***************************************************************************)
\* The idle timeout that the user of the endpoint asked for.
Idle == IF config.idle_timeout = {} THEN DEFAULT_IDLE_TIMEOUT
        ELSE CHOOSE n \in config.idle_timeout : TRUE

MaxDelay == (max_retry_interval * (10 + retry_delay_rand_factor)) \div 10

\* However the attempts of new_connection interleave, and even when the endpoint
\* is closed meanwhile, a call ends within the time for retries and one more
\* idle timeout, and is_reachable within its own timeout after that, with a peer
\* that grants the credit for the request (Ask).
CallInTime ==
  /\ pc = "connect" => now <= retrying_max_elapsed_time + Idle
  /\ pc \in {"ask", "answer"} =>
       now <= retrying_max_elapsed_time + Idle + ECHO_SERVICE_QUERY_TIMEOUT

\* An attempt on a is sure to begin while a answers.
Catches(a) ==
  /\ a \in targets \ (Invalid \cup Lossy)
  /\ upAt[a] + Idle + MaxDelay <= retrying_max_elapsed_time + 1

\* Retries of new_connection are not given up too early: if the endpoint stays
\* open and one of the peers answers soon enough, one idle timeout and one delay
\* before the time for retries is over, then the call gets a connection.
RetryCatches ==
  /\ pc = "done" /\ result \notin {"Config", "Socket"} /\ ~closed
  /\ \E a \in targets : Catches(a)
  => chosen # "none"

\* connect_to_any takes the first connection and gives up only once all the
\* attempts have failed, and so do connect_to and is_reachable with their one.
First == INSTANCE FirstSuccess WITH
  NoOne  <- "none",
  failed <- {a \in targets : task[a] = "failed"},
  over   <- pc = "done" /\ result \notin {"Config", "Socket"}

FirstSucceeds == First!Spec

\* Every call returns: no attempt waits for ever, and is_reachable does not wait
\* for ever for a peer that grants the credit for its request (Ask) and never
\* answers it.
CallReturns == pc = "new" ~> pc = "done"
=============================================================================
