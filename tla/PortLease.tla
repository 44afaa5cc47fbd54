----------------------------- MODULE PortLease -----------------------------
(***************************************************************************)
(* Port forwarding (src/src/igd.rs): forward_port maps a port at the       *)
(* gateway for the time of a lease, and a task renews the mapping until    *)
(* the endpoint is closed or dropped.                                      *)
(*                                                                         *)
(* Time is counted in ticks, of which a second has several, because the    *)
(* lease is a Duration but the gateway is asked for whole seconds.  The    *)
(* gateway is external: it is found and answers within Latency ticks, or   *)
(* the operation fails.                                                    *)
(***************************************************************************)
EXTENDS Integers

CONSTANTS
  Second,                \* the ticks in a second
  upnp_lease_duration,   \* in ticks
  MaxSecs,               \* u32::MAX
  Latency                \* the most ticks an operation at the gateway takes

ASSUME LeaseAssumption ==
  /\ Second \in Nat \ {0} /\ upnp_lease_duration \in Nat \ {0}
  /\ MaxSecs \in Nat \ {0}
  /\ Latency \in Nat /\ Latency < upnp_lease_duration
  /\ Latency < MaxSecs * Second

\* The lease is capped at u32::MAX seconds, and asked for in whole seconds.
lease_interval ==
  IF upnp_lease_duration <= MaxSecs * Second
    THEN upnp_lease_duration ELSE MaxSecs * Second
lease_interval_u32 == lease_interval \div Second

\* What the gateway grants: a lease of zero seconds does not end.
Forever == -1
Granted == IF lease_interval_u32 = 0 THEN Forever
                                     ELSE lease_interval_u32 * Second

VARIABLES
  endpoint,   \* "new" while new_peer runs, then "open", "closed" or "dropped"
  renewal,    \* the renewal task: "none", "wait", "renew" or "stopped"
  request,    \* what the gateway does: "none", "search", "asked" or "done"
  busy,       \* the ticks it has taken
  due,        \* the ticks to the next tick of the timer, negative if late
  left,       \* the ticks left of the mapping: 0 if there is none
  failed,     \* has a renewal failed?
  gap,        \* the ticks for which an open endpoint has had no mapping
  since       \* the ticks since the endpoint was closed or dropped

vars == <<endpoint, renewal, request, busy, due, left, failed, gap, since>>

\* How long the mapping may be missing between its expiry and its renewal, and
\* how long it may remain after the endpoint is gone.
MaxGap  == lease_interval - Granted + 2 * Latency
MaxRest == Granted + Latency

LeaseTypeOK ==
  /\ endpoint \in {"new", "open", "closed", "dropped"}
  /\ renewal \in {"none", "wait", "renew", "stopped"}
  /\ request \in {"none", "search", "asked", "done"}
  /\ busy \in 0 .. Latency /\ due \in -Latency .. lease_interval
  /\ left \in {Forever} \cup 0 .. lease_interval
  /\ failed \in BOOLEAN /\ gap \in Nat /\ since \in Nat
  /\ renewal = "renew" => request # "none"

\* forward_port is called and looks for the gateway.
Init ==
  /\ endpoint = "new" /\ renewal = "none" /\ request = "search" /\ busy = 0
  /\ due = lease_interval /\ left = 0 /\ failed = FALSE /\ gap = 0
  /\ since = 0

Gone == endpoint \in {"closed", "dropped"}

-----------------------------------------------------------------------------
(***************************************************************************)
(* The gateway, and time.                                                  *)
(***************************************************************************)
Ask ==
  /\ request = "search"
  /\ request' = "asked"
  /\ UNCHANGED <<endpoint, renewal, busy, due, left, failed, gap, since>>

Grant ==
  /\ request = "asked"
  /\ request' = "done" /\ left' = Granted
  /\ gap' = 0
  /\ UNCHANGED <<endpoint, renewal, busy, due, failed, since>>

\* Time does not pass when the timer is due and its task waits for it.
Tick ==
  /\ request # "none" => busy < Latency
  /\ ~(renewal = "wait" /\ due <= 0)
  /\ busy'  = IF request # "none" THEN busy + 1 ELSE 0
  /\ due'   = IF renewal \in {"wait", "renew"} THEN due - 1 ELSE due
  /\ left'  = IF left > 0 THEN left - 1 ELSE left
  /\ gap'   = IF endpoint = "open" /\ left = 0 /\ gap <= MaxGap
                THEN gap + 1 ELSE gap
  /\ since' = IF Gone /\ since <= MaxRest THEN since + 1 ELSE since
  /\ UNCHANGED <<endpoint, renewal, request, failed>>

-----------------------------------------------------------------------------
(***************************************************************************)
(* forward_port.                                                           *)
(***************************************************************************)

\* The timer of the task starts one interval from now.
BugFirstTick == 2 * lease_interval
FirstTick    == lease_interval

Forwarded ==
  /\ endpoint = "new" /\ request = "done"
  /\ endpoint' = "open" /\ renewal' = "wait" /\ due' = FirstTick
  /\ request' = "none" /\ busy' = 0
  /\ UNCHANGED <<left, failed, gap, since>>

\* No gateway, an error, or PORT_FORWARD_TIMEOUT: new_peer fails.  The gateway
\* may still act on what it was asked.
ForwardFails ==
  /\ endpoint = "new"
  /\ endpoint' = "dropped"
  /\ request' = IF request = "asked" THEN "asked" ELSE "none"
  /\ UNCHANGED <<renewal, busy, due, left, failed, gap, since>>

\* The request of a forward_port that has failed comes to its end.
Forgotten ==
  /\ renewal = "none" /\ endpoint = "dropped" /\ request # "none"
  /\ request' = "none"
  /\ UNCHANGED <<endpoint, renewal, busy, due, left, failed, gap, since>>

-----------------------------------------------------------------------------
(***************************************************************************)
(* The renewal task, and the end of the endpoint.                          *)
(***************************************************************************)

\* try_recv finds the channel empty unless close has sent a message or all
\* senders were dropped with the endpoint.
BugOnlyClose == endpoint = "closed"
Terminated   == Gone

Stop ==
  /\ renewal = "wait" /\ due <= 0 /\ Terminated
  /\ renewal' = "stopped"
  /\ UNCHANGED <<endpoint, request, busy, due, left, failed, gap, since>>

\* A timer that is late ticks again at once until it has caught up.
Renew ==
  /\ renewal = "wait" /\ due <= 0 /\ ~Terminated
  /\ renewal' = "renew" /\ request' = "search" /\ busy' = 0
  /\ due' = due + lease_interval
  /\ UNCHANGED <<endpoint, left, failed, gap, since>>

Renewed ==
  /\ renewal = "renew" /\ request = "done"
  /\ renewal' = "wait" /\ request' = "none" /\ busy' = 0
  /\ UNCHANGED <<endpoint, due, left, failed, gap, since>>

\* A failure is only logged: the next tick of the timer tries again.
BugFailureStops == "stopped"
AfterFailure    == "wait"

RenewFails ==
  /\ renewal = "renew"
  /\ renewal' = AfterFailure /\ request' = "none" /\ busy' = 0
  /\ failed' = TRUE
  /\ UNCHANGED <<endpoint, due, left, gap, since>>

Close ==
  /\ endpoint = "open"
  /\ endpoint' = "closed"
  /\ UNCHANGED <<renewal, request, busy, due, left, failed, gap, since>>

DropEndpoint ==
  /\ endpoint = "open"
  /\ endpoint' = "dropped"
  /\ UNCHANGED <<renewal, request, busy, due, left, failed, gap, since>>

-----------------------------------------------------------------------------
Gateway == Ask \/ Grant
Task    == Stop \/ Renew \/ Renewed \/ RenewFails
Next    == Gateway \/ Tick \/ Forwarded \/ ForwardFails \/ Forgotten \/ Task
           \/ Close \/ DropEndpoint

Spec == Init /\ [][Next]_vars

(***************************************************************************)
(* Fairness: time passes, the task runs, and the gateway is not always out *)
(* of reach: among infinitely many renewals infinitely many are granted.   *)
(***************************************************************************)
FairSpec ==
  /\ Spec /\ WF_vars(Tick) /\ WF_vars(Task)
  /\ SF_vars(renewal = "renew" /\ Ask) /\ SF_vars(renewal = "renew" /\ Grant)

-----------------------------------------------------------------------------
\* A mapping outlives its endpoint by a bounded time only: no renewal begins
\* after the endpoint was closed or dropped, also where the renewal was under
\* way at that moment or forward_port had been given up.
MappingEnds == since > MaxRest => left = 0

\* As long as renewals succeed, an open endpoint is without its mapping at most
\* for the time between the expiry of the lease and the end of the renewal,
\* which the timer starts at the expiry and not before it.
RenewedInTime == endpoint = "open" /\ ~failed => gap <= MaxGap

\* Failed renewals are retried: a mapping is always set up again.
MappingRestored == [](endpoint = "open" => <>(left # 0 \/ Gone))

\* The renewal task ends once the endpoint is gone.
RenewalStops == Gone ~> renewal \in {"none", "stopped"}
=============================================================================
