-------------------------- MODULE PortLeaseProofs --------------------------
(***************************************************************************)
(* Proofs about the lease of a forwarded port, for every duration of the   *)
(* lease and every latency of the gateway that is shorter.                 *)
(***************************************************************************)
EXTENDS PortLease, TLAPS

\* What the division by the length of a second yields.
LEMMA WholeSeconds ==
  ASSUME NEW n \in Nat, NEW s \in Nat \ {0}
  PROVE  n \div s \in Nat /\ (n \div s) * s \in Nat /\ (n \div s) * s <= n
<1>1. PICK q, r : q = n \div s /\ r = n % s
  OBVIOUS
<1>2. q \in Int /\ r \in 0 .. s - 1 /\ n = s * q + r
  BY <1>1
<1>3. s * q = q * s /\ q * s \in Int
  BY <1>2
<1>4. q >= 0
  <2>1. SUFFICES ASSUME q <= -1 PROVE FALSE
    BY <1>2
  <2>2. s * q <= -s
    BY <1>2, <2>1
  <2> QED BY <1>2, <2>2
<1>5. q * s >= 0
  BY <1>2, <1>4
<1> QED BY <1>1, <1>2, <1>3, <1>4, <1>5

\* The cap of the lease, and what the gateway grants for it.
LEMMA LeaseFacts ==
  /\ lease_interval \in Nat /\ Latency \in Nat /\ Latency < lease_interval
  /\ Granted \in Int
  /\ Granted # Forever => Granted \in 1 .. lease_interval
  /\ Granted = Forever \/ Granted \in 0 .. lease_interval
<1>1. MaxSecs * Second \in Nat
  BY LeaseAssumption
<1>2. lease_interval \in Nat /\ Latency \in Nat /\ Latency < lease_interval
  BY <1>1, LeaseAssumption DEF lease_interval
<1> DEFINE q == lease_interval \div Second
<1>3. q \in Nat /\ q * Second \in Nat /\ q * Second <= lease_interval
  BY <1>2, LeaseAssumption, WholeSeconds
<1>4. q # 0 => q * Second >= 1
  BY <1>3, LeaseAssumption
<1>5. Granted = IF q = 0 THEN -1 ELSE q * Second
  BY DEF Granted, lease_interval_u32, Forever
<1> HIDE DEF q
<1> QED BY <1>2, <1>3, <1>4, <1>5 DEF Forever

-----------------------------------------------------------------------------
(***************************************************************************)
(* The timer: while a renewal is under way the timer runs on, but it was   *)
(* set a whole interval ahead when the renewal began.                      *)
(***************************************************************************)
TimerInv ==
  /\ endpoint = "new" => renewal = "none"
  /\ renewal = "renew" => due + busy >= lease_interval - Latency

LeaseInv == LeaseTypeOK /\ TimerInv

\* LeaseInv holds when forward_port is called.
LEMMA LeaseInvInit == Init => LeaseInv
<1> SUFFICES ASSUME Init PROVE LeaseInv
  OBVIOUS
<1>1. failed \in BOOLEAN
  BY Zenon DEF Init
<1>2. /\ endpoint = "new" /\ renewal = "none" /\ request = "search"
      /\ busy = 0 /\ due = lease_interval /\ left = 0 /\ gap = 0 /\ since = 0
  BY DEF Init
<1> QED BY <1>1, <1>2, LeaseFacts DEF LeaseInv, LeaseTypeOK, TimerInv

\* Every step keeps LeaseInv.
LEMMA LeaseInvNext == LeaseInv /\ [Next]_vars => LeaseInv'
<1> SUFFICES ASSUME LeaseInv, [Next]_vars PROVE LeaseInv'
  OBVIOUS
<1> USE LeaseFacts DEF LeaseInv, LeaseTypeOK, TimerInv
<1>1. ASSUME Ask PROVE LeaseInv'
  BY <1>1 DEF Ask
<1>2. ASSUME Grant PROVE LeaseInv'
  BY <1>2 DEF Grant
<1>3. ASSUME Tick PROVE LeaseInv'
  BY <1>3 DEF Tick, Gone, Forever
<1>4. ASSUME Forwarded PROVE LeaseInv'
  BY <1>4 DEF Forwarded, FirstTick
<1>5. ASSUME ForwardFails PROVE LeaseInv'
  BY <1>5 DEF ForwardFails
<1>6. ASSUME Forgotten PROVE LeaseInv'
  BY <1>6 DEF Forgotten
<1>7. ASSUME Stop PROVE LeaseInv'
  BY <1>7 DEF Stop
<1>8. ASSUME Renew PROVE LeaseInv'
  BY <1>8 DEF Renew
<1>9. ASSUME Renewed PROVE LeaseInv'
  BY <1>9 DEF Renewed
<1>10. ASSUME RenewFails PROVE LeaseInv'
  <2>1. failed' \in BOOLEAN
    BY <1>10, Zenon DEF RenewFails
  <2>2. /\ renewal = "renew" /\ renewal' = "wait"
        /\ request' = "none" /\ busy' = 0
        /\ UNCHANGED <<endpoint, due, left, gap, since>>
    BY <1>10 DEF RenewFails, AfterFailure
  <2> QED BY <2>1, <2>2
<1>11. ASSUME Close \/ DropEndpoint PROVE LeaseInv'
  BY <1>11 DEF Close, DropEndpoint
<1>12. ASSUME UNCHANGED vars PROVE LeaseInv'
  BY <1>12 DEF vars
<1> QED
  BY <1>1, <1>2, <1>3, <1>4, <1>5, <1>6, <1>7, <1>8, <1>9, <1>10, <1>11, <1>12
  DEF Next, Gateway, Task

\* LeaseInv is an invariant.
LEMMA LeaseInvariant == Spec => []LeaseInv
BY LeaseInvInit, LeaseInvNext, PTL DEF Spec

\* The state of the mapping and of its renewal always has its type: in
\* particular the timer of the renewal task is never late by more than the
\* latency of the gateway.
THEOREM LeaseTypeCorrect == Spec => []LeaseTypeOK
<1>1. LeaseInv => LeaseTypeOK
  BY DEF LeaseInv
<1> QED BY <1>1, LeaseInvariant, PTL

-----------------------------------------------------------------------------
(***************************************************************************)
(* The end of the mapping.  What is left of it and the time since the end  *)
(* of the endpoint add up to no more than MaxRest, because an operation    *)
(* that can still set it up began before that end.                         *)
(***************************************************************************)
RestInv ==
  /\ left \in 0 .. Granted
  /\ ~Gone => since = 0
  /\ Gone /\ request # "none" => since <= busy
  /\ left = 0 \/ left + since <= MaxRest

\* Every step keeps RestInv, if the lease is at least a second long.
LEMMA RestInvNext ==
  ASSUME Granted # Forever, LeaseInv, RestInv, [Next]_vars
  PROVE  RestInv'
<1> DEFINE G == Granted
<1>0. G \in Nat /\ G >= 1 /\ G = Granted /\ Latency \in Nat
      /\ MaxRest = G + Latency
  BY LeaseFacts DEF MaxRest
<1> HIDE DEF G
<1>t. /\ busy \in 0 .. Latency /\ since \in Nat /\ left \in 0 .. G
      /\ renewal = "renew" => request # "none"
  BY <1>0 DEF LeaseInv, LeaseTypeOK, RestInv
<1> SUFFICES ASSUME Next PROVE RestInv'
  BY DEF vars, RestInv, Gone
<1> USE <1>0, <1>t DEF RestInv, Gone
<1>1. CASE Ask
  BY <1>1 DEF Ask
<1>2. CASE Grant
  BY <1>2 DEF Grant
<1>3. CASE Tick
  BY <1>3 DEF Tick
<1>4. CASE Forwarded
  BY <1>4 DEF Forwarded
<1>5. CASE ForwardFails
  BY <1>5 DEF ForwardFails
<1>6. CASE Forgotten
  BY <1>6 DEF Forgotten
<1>7. CASE Stop
  BY <1>7 DEF Stop
<1>8. CASE Renew
  BY <1>8 DEF Renew, Terminated
<1>9. CASE Renewed
  BY <1>9 DEF Renewed
<1>10. CASE RenewFails
  BY <1>10 DEF RenewFails
<1>11. CASE Close \/ DropEndpoint
  BY <1>11 DEF Close, DropEndpoint
<1> QED
  BY <1>1, <1>2, <1>3, <1>4, <1>5, <1>6, <1>7, <1>8, <1>9, <1>10, <1>11
  DEF Next, Gateway, Task

\* A mapping whose lease is at least a second long ends within a lease and the
\* time of one operation after the endpoint is closed or dropped.
THEOREM MappingEndsHolds == Granted # Forever => (Spec => []MappingEnds)
<1> SUFFICES ASSUME Granted # Forever PROVE Spec => []MappingEnds
  OBVIOUS
<1>1. Init => RestInv
  BY LeaseFacts DEF Init, RestInv, Gone, MaxRest
<1>2. LeaseInv /\ RestInv /\ [Next]_vars => RestInv'
  BY RestInvNext
<1>3. LeaseInv /\ RestInv => MappingEnds
  BY LeaseFacts DEF LeaseInv, LeaseTypeOK, RestInv, MappingEnds, MaxRest
<1> QED BY <1>1, <1>2, <1>3, LeaseInvariant, PTL DEF Spec

-----------------------------------------------------------------------------
(***************************************************************************)
(* The time without a mapping.  Age is the time since the mapping of an    *)
(* open endpoint was last set up: its lease is used up first, and the gap  *)
(* follows.  The timer started at most Latency after the mapping was set   *)
(* up, rings after one interval, and the renewal takes at most Latency.    *)
(***************************************************************************)
Age == Granted - left + gap

GapInv ==
  /\ left \in 0 .. Granted
  /\ left > 0 => gap = 0
  /\ endpoint = "new" => gap = 0
  /\ endpoint = "new" /\ request = "done" => Age <= busy
  /\ endpoint = "open" /\ ~failed =>
       /\ renewal \in {"wait", "renew"}
       /\ renewal = "wait" =>
            Age + due <= lease_interval + Latency
            /\ Age <= lease_interval + Latency
       /\ renewal = "renew" /\ request # "done" =>
            Age <= lease_interval + Latency + busy
       /\ renewal = "renew" /\ request = "done" =>
            Age <= busy /\ Age + due <= lease_interval

\* A mapping without an end is never missing once it was granted.
ForeverInv ==
  /\ left \in {0, Forever}
  /\ endpoint \in {"new", "open"} => gap = 0
  /\ endpoint = "open" => left = Forever
  /\ endpoint = "new" /\ request = "done" => left = Forever

\* Every step keeps GapInv, if the lease is at least a second long.
LEMMA GapInvNext ==
  ASSUME Granted # Forever, LeaseInv, GapInv, [Next]_vars
  PROVE  GapInv'
<1> DEFINE G == Granted  L == lease_interval
<1>0. /\ G \in Nat /\ G >= 1 /\ G = Granted /\ Latency \in Nat
      /\ L \in Nat /\ L = lease_interval /\ Latency < L
  BY LeaseFacts
<1> HIDE DEF G, L
<1>t. /\ busy \in 0 .. Latency /\ left \in 0 .. G /\ gap \in Nat
      /\ due \in -Latency .. L
      /\ renewal = "renew" => request # "none"
      /\ endpoint = "new" => renewal = "none"
  BY <1>0 DEF LeaseInv, LeaseTypeOK, TimerInv, GapInv
<1> SUFFICES ASSUME Next PROVE GapInv'
  BY DEF vars, GapInv, Age
<1> USE <1>0, <1>t DEF GapInv, Age
<1>1. CASE Ask
  BY <1>1 DEF Ask
<1>2. CASE Grant
  BY <1>2 DEF Grant
<1>3. CASE Tick
  BY <1>3 DEF Tick
<1>4. CASE Forwarded
  BY <1>4 DEF Forwarded, FirstTick
<1>5. CASE ForwardFails
  BY <1>5 DEF ForwardFails
<1>6. CASE Forgotten
  BY <1>6 DEF Forgotten
<1>7. CASE Stop
  BY <1>7 DEF Stop, Terminated, Gone
<1>8. CASE Renew
  BY <1>8 DEF Renew
<1>9. CASE Renewed
  BY <1>9 DEF Renewed
<1>10. CASE RenewFails
  BY <1>10 DEF RenewFails
<1>11. CASE Close \/ DropEndpoint
  BY <1>11 DEF Close, DropEndpoint
<1> QED
  BY <1>1, <1>2, <1>3, <1>4, <1>5, <1>6, <1>7, <1>8, <1>9, <1>10, <1>11
  DEF Next, Gateway, Task

\* Every step keeps ForeverInv, if the gateway is asked for zero seconds.
LEMMA ForeverInvNext ==
  ASSUME Granted = Forever, ForeverInv, [Next]_vars
  PROVE  ForeverInv'
BY DEF ForeverInv, Forever, Next, Gateway, Task, vars, Ask, Grant, Tick,
       Forwarded, ForwardFails, Forgotten, Stop, Renew, Renewed, RenewFails,
       Close, DropEndpoint

\* For every duration of the lease and every latency, an open endpoint whose
\* renewals succeed is without its mapping for at most MaxGap: the part of a
\* second by which the lease asked for is shorter than the interval of the
\* timer, and the time of two operations at the gateway.
THEOREM RenewedInTimeHolds == Spec => []RenewedInTime
<1>1. CASE Granted = Forever
  <2>1. Init => ForeverInv
    BY DEF Init, ForeverInv
  <2>2. ForeverInv /\ [Next]_vars => ForeverInv'
    BY <1>1, ForeverInvNext
  <2>3. ForeverInv => RenewedInTime
    BY <1>1, LeaseFacts DEF ForeverInv, RenewedInTime, MaxGap, Forever
  <2> QED BY <2>1, <2>2, <2>3, PTL DEF Spec
<1>2. CASE Granted # Forever
  <2>1. Init => GapInv
    BY <1>2, LeaseFacts DEF Init, GapInv
  <2>2. LeaseInv /\ GapInv /\ [Next]_vars => GapInv'
    BY <1>2, GapInvNext
  <2>3. LeaseInv /\ GapInv => RenewedInTime
    BY <1>2, LeaseFacts
    DEF LeaseInv, LeaseTypeOK, GapInv, Age, RenewedInTime, MaxGap
  <2> QED BY <2>1, <2>2, <2>3, LeaseInvariant, PTL DEF Spec
<1> QED BY <1>1, <1>2
=============================================================================
