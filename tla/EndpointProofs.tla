--------------------------- MODULE EndpointProofs ---------------------------
(***************************************************************************)
(* Proofs about new_peer: what a bootstrapped endpoint knows, for any set  *)
(* of contacts and peers, any network and any size of the channel.         *)
(***************************************************************************)
EXTENDS Endpoint, TLAPS

Statuses == {"away", "queued", "accepted", "over"}

(***************************************************************************)
(* The first part of the inductive invariant: the listening task only      *)
(* handles connections that were opened.                                   *)
(***************************************************************************)
Opened ==
  /\ \A i \in 1 .. Len(queue) : status[queue[i]] # "away"
  /\ \A i \in 1 .. Len(tx) : status[tx[i]] # "away"
  /\ hand # "none" => status[hand] # "away"
  /\ task \in {"handshake", "send"} => hand # "none"

ListenerInv ==
  /\ status \in [Peers -> Statuses] /\ queue \in Seq(Peers)
  /\ tx \in Seq(Peers) /\ hand \in Peers \cup {"none"}
  /\ contact \in Contacts \cup {"none"}
  /\ link # "none" => contact # "none"
  /\ Opened

\* How a step may change the connection of a peer: nothing happens to it, it
\* is opened, or a connection that was open is accepted or closed.
Opens(p) ==
  /\ status[p] = "away" /\ status'[p] = "queued"
  /\ p \in Contacts =>
       p = contact /\ pc = "verify" /\ service = "idle" /\ Reaches(public)

StatusStep ==
  \A p \in Peers :
    \/ status'[p] = status[p]
    \/ Opens(p)
    \/ status[p] # "away" /\ status'[p] \in {"accepted", "over"}

\* Closing connections that were opened is such a change.
LEMMA ClosingStep ==
  ASSUME ListenerInv, NEW S \in SUBSET Peers, \A p \in S : status[p] # "away",
         status' = Closing(S)
  PROVE  status' \in [Peers -> Statuses] /\ StatusStep
BY DEF ListenerInv, Closing, Statuses, StatusStep

\* After any such change what was opened is not away.
LEMMA StaysOpened ==
  ASSUME ListenerInv, StatusStep, status' \in [Peers -> Statuses],
         NEW p \in Peers, status[p] # "away"
  PROVE  status'[p] # "away"
BY DEF StatusStep, Opens

\* The connections in the channel and in the hand of the task were opened.
LEMMA ChannelOpened ==
  ASSUME ListenerInv
  PROVE  /\ InChannel \in SUBSET Peers
         /\ \A p \in InChannel : status[p] # "away"
<1>1. DOMAIN tx = 1 .. Len(tx) /\ \A i \in 1 .. Len(tx) : tx[i] \in Peers
  BY DEF ListenerInv
<1> QED BY <1>1 DEF ListenerInv, Opened, InChannel

\* A step that changes nothing but statuses, as above, keeps ListenerInv.
LEMMA OnlyStatus ==
  ASSUME ListenerInv, StatusStep, status' \in [Peers -> Statuses],
         \/ UNCHANGED queue
         \/ queue' = <<>>,
         \/ UNCHANGED tx
         \/ tx' = <<>>,
         \/ /\ UNCHANGED hand
            /\ \/ UNCHANGED task
               \/ task' \in {"off", "next", "ended"}
               \/ hand # "none"
         \/ hand' = "none" /\ task' \in {"off", "next", "ended"},
         contact' \in Contacts \cup {"none"},
         link' # "none" => contact' # "none"
  PROVE  ListenerInv'
<1>1. queue' \in Seq(Peers) /\ \A i \in 1 .. Len(queue') :
                                 status'[queue'[i]] # "away"
  <2>1. CASE UNCHANGED queue
    <3>1. \A i \in 1 .. Len(queue) : queue[i] \in Peers
      BY DEF ListenerInv
    <3> QED BY <2>1, <3>1, StaysOpened DEF ListenerInv, Opened
  <2>2. CASE queue' = <<>>
    BY <2>2
  <2> QED BY <2>1, <2>2
<1>2. tx' \in Seq(Peers) /\ \A i \in 1 .. Len(tx') : status'[tx'[i]] # "away"
  <2>1. CASE UNCHANGED tx
    <3>1. \A i \in 1 .. Len(tx) : tx[i] \in Peers
      BY DEF ListenerInv
    <3> QED BY <2>1, <3>1, StaysOpened DEF ListenerInv, Opened
  <2>2. CASE tx' = <<>>
    BY <2>2
  <2> QED BY <2>1, <2>2
<1>3. /\ hand' \in Peers \cup {"none"}
      /\ hand' # "none" => status'[hand'] # "away"
      /\ task' \in {"handshake", "send"} => hand' # "none"
  BY StaysOpened DEF ListenerInv, Opened
<1> QED BY <1>1, <1>2, <1>3 DEF ListenerInv, Opened

\* Every step of the task changes statuses only as above and keeps ListenerInv.
LEMMA TaskStep ==
  ASSUME ListenerInv, Task, UNCHANGED <<contact, link>>
  PROVE  ListenerInv' /\ StatusStep
<1> USE DEF Statuses
<1>1. CASE TakeNext
  <2>1. /\ UNCHANGED <<status, tx>> /\ queue \in Seq(Peers) /\ queue # <<>>
        /\ hand' = Head(queue) /\ queue' = Tail(queue) /\ task' = "handshake"
    BY <1>1 DEF TakeNext, ListenerInv
  <2>2. /\ queue' \in Seq(Peers) /\ hand' = queue[1] /\ hand' \in Peers
        /\ Len(queue) >= 1 /\ Len(queue') = Len(queue) - 1
        /\ \A i \in 1 .. Len(queue') : queue'[i] = queue[i + 1]
    BY <2>1
  <2>3. hand' # "none"
    BY <2>2, ListenerAssumption
  <2>4. \A i \in 1 .. Len(queue') : status[queue'[i]] # "away"
    BY <2>1, <2>2 DEF ListenerInv, Opened
  <2> QED
    BY <2>1, <2>2, <2>3, <2>4 DEF ListenerInv, Opened, StatusStep
<1>2. CASE TakeNone
  BY <1>2, OnlyStatus DEF TakeNone, StatusStep, ListenerInv
<1>3. CASE Accept
  <2>1. hand \in Peers /\ status[hand] # "away"
    BY <1>3 DEF Accept, ListenerInv, Opened
  <2>2. status' \in [Peers -> Statuses] /\ StatusStep
    BY <1>3, <2>1 DEF Accept, ListenerInv, StatusStep
  <2>3. /\ UNCHANGED <<queue, tx, hand>> /\ hand # "none"
    BY <1>3 DEF Accept, ListenerInv, Opened
  <2> QED BY <2>2, <2>3, OnlyStatus DEF ListenerInv
<1>4. CASE Reject \/ SendConnectionFails
  <2>1. hand \in Peers /\ status[hand] # "away"
    BY <1>4 DEF Reject, SendConnectionFails, ListenerInv, Opened
  <2>2. status' \in [Peers -> Statuses] /\ StatusStep
    BY <1>4, <2>1, ClosingStep DEF Reject, SendConnectionFails, DropUnsent
  <2> QED
    BY <1>4, <2>2, OnlyStatus
    DEF Reject, SendConnectionFails, AfterFailure, ListenerInv
<1>5. CASE SendConnection
  <2>1. /\ UNCHANGED <<status, queue>> /\ tx' = Append(tx, hand)
        /\ hand \in Peers /\ hand' = "none" /\ task' = "next"
        /\ status[hand] # "away" /\ tx \in Seq(Peers)
    BY <1>5 DEF SendConnection, ListenerInv, Opened
  <2>2. /\ tx' \in Seq(Peers)
        /\ \A i \in 1 .. Len(tx') :
             tx'[i] = hand \/ (i \in 1 .. Len(tx) /\ tx'[i] = tx[i])
    BY <2>1
  <2> QED BY <2>1, <2>2 DEF ListenerInv, Opened, StatusStep
<1> QED BY <1>1, <1>2, <1>3, <1>4, <1>5 DEF Task

\* A new connection is appended to the queue.
LEMMA PeerConnectsStep ==
  ASSUME ListenerInv, NEW p \in Peers, PeerConnects(p),
         UNCHANGED <<contact, link>>,
         p \in Contacts =>
           p = contact /\ pc = "verify" /\ service = "idle" /\ Reaches(public)
  PROVE  ListenerInv' /\ StatusStep
<1>1. /\ status[p] = "away" /\ status' = [status EXCEPT ![p] = "queued"]
      /\ queue' = Append(queue, p) /\ UNCHANGED <<task, hand, tx>>
      /\ queue \in Seq(Peers) /\ tx \in Seq(Peers)
  BY DEF PeerConnects, ListenerInv
<1>2. status' \in [Peers -> Statuses] /\ StatusStep
  BY <1>1 DEF ListenerInv, StatusStep, Opens, Statuses
<1>3. /\ queue' \in Seq(Peers)
      /\ \A i \in 1 .. Len(queue') :
           queue'[i] = p \/ (i \in 1 .. Len(queue) /\ queue'[i] = queue[i])
  BY <1>1
<1>4. status'[p] # "away"
  BY <1>1 DEF ListenerInv
<1>5. \A i \in 1 .. Len(queue') : status'[queue'[i]] # "away"
  <2> TAKE i \in 1 .. Len(queue')
  <2>1. CASE queue'[i] = p
    BY <1>4, <2>1
  <2>2. CASE i \in 1 .. Len(queue) /\ queue'[i] = queue[i]
    BY <1>1, <1>2, <2>2, StaysOpened DEF ListenerInv, Opened
  <2> QED BY <1>3, <2>1, <2>2
<1>6. \A i \in 1 .. Len(tx) : status'[tx[i]] # "away"
  BY <1>1, <1>2, StaysOpened DEF ListenerInv, Opened
<1>7. hand # "none" => status'[hand] # "away"
  BY <1>2, StaysOpened DEF ListenerInv, Opened
<1> QED BY <1>1, <1>2, <1>3, <1>5, <1>6, <1>7 DEF ListenerInv, Opened

-----------------------------------------------------------------------------
(***************************************************************************)
(* The second part: a contact connects back only to verify the public      *)
(* address and only if the address leads here, and its verdict is positive *)
(* only if the connection was accepted.                                    *)
(***************************************************************************)
ProbeInv ==
  /\ \A c \in Contacts :
       status[c] # "away" =>
         c = contact /\ pc \in {"verify", "done"} /\ Reaches(public)
  /\ service # "idle" => contact # "none" /\ pc \in {"verify", "done"}
  /\ answer = "valid" =>
       /\ contact # "none" /\ pc \in {"verify", "done"}
       /\ status[contact] \in {"accepted", "over"}
  /\ result = "Ok" => pc = "done" /\ (contact = "none" \/ answer = "valid")
  /\ pc = "connect" => contact = "none"

EndpointInv == ListenerInv /\ ProbeInv

\* EndpointInv holds when new_peer is called.
LEMMA EndpointInvInit == Init => EndpointInv
<1> SUFFICES ASSUME Init PROVE EndpointInv
  OBVIOUS
<1>1. ListenerInv
  BY DEF Init, ListenerInit, ListenerInv, Opened, Statuses
<1>2. ProbeInv
  BY EndpointAssumption DEF Init, ListenerInit, ProbeInv
<1> QED BY <1>1, <1>2 DEF EndpointInv

\* Every step keeps ListenerInv and changes statuses only as StatusStep says.
LEMMA ListenerNext ==
  ASSUME EndpointInv, Next
  PROVE  ListenerInv' /\ StatusStep
<1> USE EndpointAssumption DEF EndpointInv
<1>0. ASSUME UNCHANGED listenerVars, contact' \in Contacts \cup {"none"},
             link' # "none" => contact' # "none"
      PROVE  ListenerInv' /\ StatusStep
  BY <1>0 DEF listenerVars, ListenerInv, Opened, StatusStep
<1>1. ASSUME NEW error, ReturnErr(error), UNCHANGED contact
      PROVE  ListenerInv' /\ StatusStep
  <2>0. /\ contact' \in Contacts \cup {"none"}
        /\ link' # "none" => contact' # "none"
    BY <1>1 DEF ReturnErr, ListenerInv
  <2>1. CASE task = "off"
    <3>1. status' \in [Peers -> Statuses] /\ StatusStep
      BY <1>1, <2>1, ClosingStep DEF ReturnErr, Abandoned
    <3> QED BY <1>1, <2>0, <2>1, <3>1, OnlyStatus DEF ReturnErr, Abandoned
  <2>2. CASE task # "off"
    <3>1. status' \in [Peers -> Statuses] /\ StatusStep
      BY <1>1, <2>2, ChannelOpened, ClosingStep DEF ReturnErr, Abandoned
    <3> QED BY <1>1, <2>0, <2>2, <3>1, OnlyStatus DEF ReturnErr, Abandoned
  <2> QED BY <2>1, <2>2
<1>2. CASE NewPeer
  <2>1. CASE EchoFails \/ ForwardFails \/ VerificationFails
    BY <1>1, <2>1 DEF EchoFails, ForwardFails, VerificationFails
  <2>2. CASE VerificationDone \/ SkipVerification
    <3>1. UNCHANGED contact /\ (ReturnOk \/ ReturnErr("Unreachable"))
      BY <2>2 DEF VerificationDone, SkipVerification, Verdict
    <3>2. CASE ReturnOk
      BY <1>0, <3>1, <3>2 DEF ReturnOk, ListenerInv
    <3> QED BY <1>1, <3>1, <3>2
  <2>3. CASE Listen
    BY <2>3 DEF Listen, Started, ListenerInv, Opened, StatusStep
  <2>4. CASE \E c \in Contacts : Connects(c)
    BY <1>0, <2>4, ListenerAssumption DEF Connects
  <2>5. CASE \/ \E c \in Contacts : ConnectFails(c)
             \/ NoContact \/ SendRequest("echo") \/ EchoDone \/ Resolve
             \/ Forward \/ SendRequest("verify")
    BY <1>0, <2>5
    DEF ConnectFails, NoContact, SendRequest, EchoDone, Resolve, Forward,
        ListenerInv
  <2> QED BY <1>2, <2>1, <2>2, <2>3, <2>4, <2>5 DEF NewPeer
<1>3. CASE Contact
  <2>1. CASE Probe
    <3>1. contact \in Contacts /\ contact \in Peers
      BY <2>1 DEF Probe, ListenerInv
    <3>2. CASE Reaches(public) /\ PeerConnects(contact)
      BY <2>1, <3>1, <3>2, PeerConnectsStep DEF Probe
    <3> QED BY <1>0, <2>1, <3>2 DEF Probe, ListenerInv
  <2>2. CASE ContactEchoes \/ ProbeConnected \/ ProbeSucceeds \/ ProbeFails
    BY <1>0, <2>2
    DEF ContactEchoes, ProbeConnected, ProbeSucceeds, ProbeFails, Reply,
        ListenerInv
  <2> QED BY <1>3, <2>1, <2>2 DEF Contact
<1>4. CASE Listener
  BY <1>4, TaskStep DEF Listener, peerVars
<1>5. CASE Application
  <2>1. CASE ReadsConnections
    <3>1. /\ UNCHANGED <<status, queue, task, hand, contact, link>>
          /\ tx \in Seq(Peers) /\ tx # <<>> /\ tx' = Tail(tx)
      BY <2>1 DEF ReadsConnections, NextConnection, peerVars, ListenerInv
    <3>2. /\ tx' \in Seq(Peers)
          /\ Len(tx) >= 1 /\ Len(tx') = Len(tx) - 1
          /\ \A i \in 1 .. Len(tx') : tx'[i] = tx[i + 1]
      BY <3>1
    <3>3. \A i \in 1 .. Len(tx') : status[tx'[i]] # "away"
      BY <3>1, <3>2 DEF ListenerInv, Opened
    <3> QED BY <3>1, <3>2, <3>3 DEF ListenerInv, Opened, StatusStep
  <2>2. CASE DropIncomingConnections /\ UNCHANGED peerVars
    <3>1. status' \in [Peers -> Statuses] /\ StatusStep
      BY <2>2, ChannelOpened, ClosingStep DEF DropIncomingConnections
    <3> QED
      BY <2>2, <3>1, OnlyStatus
      DEF DropIncomingConnections, peerVars, ListenerInv
  <2>3. CASE CloseEndpoint /\ UNCHANGED contact
             /\ link' = IF link = "up" THEN "lost" ELSE link
    <3>1. status' \in [Peers -> Statuses] /\ StatusStep
      BY <2>3, ClosingStep DEF CloseEndpoint, Accepted
    <3> QED BY <2>3, <3>1, OnlyStatus DEF CloseEndpoint, ListenerInv
  <2> QED BY <1>5, <2>1, <2>2, <2>3 DEF Application
<1>6. CASE Network
  <2>1. CASE LinkLost
    BY <1>0, <2>1 DEF LinkLost, ListenerInv
  <2>2. CASE \E p \in Peers \ Contacts : PeerConnects(p) /\ UNCHANGED peerVars
    BY <2>2, PeerConnectsStep DEF peerVars
  <2>3. CASE \E p \in Peers : Shakes(p)
    BY <2>3 DEF Shakes, Handshake, peerVars, ListenerInv, Opened, StatusStep
  <2> QED BY <1>6, <2>1, <2>2, <2>3 DEF Network
<1> QED BY <1>2, <1>3, <1>4, <1>5, <1>6 DEF Next

\* Once new_peer has come to the verification the contact and the address are
\* settled, and once it has returned so are the verdict and the result.
LEMMA Settled ==
  ASSUME Next, pc \in {"verify", "done"}
  PROVE  /\ UNCHANGED <<contact, public, routes, forwarded>>
         /\ pc' \in {"verify", "done"}
         /\ pc = "done" => UNCHANGED <<pc, answer, result>>
<1>1. CASE NewPeer
  <2>1. ~\E c \in Contacts : Connects(c) \/ ConnectFails(c)
    BY DEF Connects, ConnectFails
  <2>2. \/ SendRequest("verify") \/ SkipVerification
        \/ VerificationFails \/ VerificationDone
    BY SMTT(30), <1>1, <2>1
    DEF NewPeer, NoContact, SendRequest, EchoDone, EchoFails, Resolve,
        Forward, ForwardFails, Listen
  <2> QED
    BY <2>2
    DEF SendRequest, SkipVerification, VerificationFails, VerificationDone,
        Verdict, ReturnOk, ReturnErr, net
<1>2. CASE Contact
  BY <1>2
  DEF Contact, ContactEchoes, Probe, ProbeConnected, ProbeSucceeds,
      ProbeFails, Reply, net
<1>3. CASE Listener \/ Application \/ Network
  BY <1>3
  DEF Listener, Application, ReadsConnections, Network, LinkLost, Shakes,
      peerVars, net
<1> QED BY <1>1, <1>2, <1>3 DEF Next

\* Which steps change what ProbeInv is about: the service leaves its idle state
\* only to probe, the verdict is positive only after an accepted connection,
\* new_peer succeeds without a contact or after a positive verdict, and the
\* contact is chosen as connect_to_any ends.
LEMMA ProbeChanges ==
  ASSUME Next
  PROVE  /\ service = "idle" /\ service' # "idle" =>
              pc = "verify" /\ link = "up"
         /\ answer # "valid" /\ answer' = "valid" =>
              /\ service = "echo" /\ status[contact] = "accepted"
              /\ UNCHANGED status
         /\ result # "Ok" /\ result' = "Ok" =>
              /\ pc = "verify" /\ pc' = "done" /\ UNCHANGED answer
              /\ contact = "none" \/ answer = "valid"
         /\ pc' = "connect" => pc = "connect" /\ UNCHANGED contact
<1>1. CASE NewPeer
  <2>1. CASE \E c \in Contacts : Connects(c) \/ ConnectFails(c)
    BY <2>1 DEF Connects, ConnectFails
  <2>2. CASE EchoFails \/ ForwardFails \/ VerificationFails
    BY <2>2 DEF EchoFails, ForwardFails, VerificationFails, ReturnErr
  <2>3. CASE SkipVerification \/ VerificationDone
    BY <2>3
    DEF SkipVerification, VerificationDone, Verdict, ReturnOk, ReturnErr
  <2>4. CASE \/ NoContact \/ SendRequest("echo") \/ EchoDone \/ Resolve
             \/ Forward \/ Listen \/ SendRequest("verify")
    BY <2>4
    DEF NoContact, SendRequest, EchoDone, Resolve, Forward, Listen
  <2> QED BY <1>1, <2>1, <2>2, <2>3, <2>4 DEF NewPeer
<1>2. CASE Contact
  <2>1. CASE ContactEchoes \/ Probe \/ ProbeConnected
    BY <2>1 DEF ContactEchoes, Probe, ProbeConnected
  <2>2. CASE ProbeSucceeds \/ ProbeFails
    BY <2>2 DEF ProbeSucceeds, ProbeFails, Reply, Echoed, listenerVars
  <2> QED BY <1>2, <2>1, <2>2 DEF Contact
<1>3. CASE Listener \/ Application \/ Network
  BY <1>3
  DEF Listener, Application, ReadsConnections, Network, LinkLost, Shakes,
      peerVars
<1> QED BY <1>1, <1>2, <1>3 DEF Next

\* Every step keeps ProbeInv.
LEMMA ProbeNext ==
  ASSUME EndpointInv, Next
  PROVE  ProbeInv'
<1>1. ListenerInv' /\ StatusStep
  BY ListenerNext
<1>2. \A c \in Contacts : c \in Peers
  BY EndpointAssumption
<1> USE DEF EndpointInv
<1>3. ASSUME NEW c \in Contacts, status'[c] # "away"
      PROVE  c = contact' /\ pc' \in {"verify", "done"} /\ Reaches(public)'
  <2>1. c = contact /\ pc \in {"verify", "done"} /\ Reaches(public)
    BY <1>1, <1>2, <1>3 DEF StatusStep, Opens, ProbeInv
  <2> QED BY <2>1, Settled DEF Reaches
<1>4. ASSUME service' # "idle"
      PROVE  contact' # "none" /\ pc' \in {"verify", "done"}
  <2>1. contact # "none" /\ pc \in {"verify", "done"}
    BY <1>4, ProbeChanges DEF ProbeInv, ListenerInv
  <2> QED BY <2>1, Settled
<1>5. ASSUME answer' = "valid"
      PROVE  /\ contact' # "none" /\ pc' \in {"verify", "done"}
             /\ status'[contact'] \in {"accepted", "over"}
  <2>1. /\ contact # "none" /\ pc \in {"verify", "done"}
        /\ status[contact] \in {"accepted", "over"}
    BY <1>5, ProbeChanges DEF ProbeInv
  <2>2. contact' = contact /\ contact \in Peers
    BY <1>2, <2>1, Settled DEF ListenerInv
  <2>3. status'[contact] \in {"accepted", "over"}
    BY <1>1, <2>1, <2>2 DEF StatusStep, Opens
  <2> QED BY <2>1, <2>2, <2>3, Settled
<1>6. ASSUME result' = "Ok"
      PROVE  pc' = "done" /\ (contact' = "none" \/ answer' = "valid")
  <2>1. CASE result = "Ok"
    BY <2>1, Settled DEF ProbeInv
  <2>2. CASE result # "Ok"
    BY <1>6, <2>2, ProbeChanges, Settled
  <2> QED BY <2>1, <2>2
<1>7. pc' = "connect" => contact' = "none"
  BY ProbeChanges DEF ProbeInv
<1> QED BY <1>3, <1>4, <1>5, <1>6, <1>7 DEF ProbeInv

\* EndpointInv holds in every state.
LEMMA EndpointCorrect == Spec => []EndpointInv
<1>1. EndpointInv /\ [Next]_vars => EndpointInv'
  <2> SUFFICES ASSUME EndpointInv, [Next]_vars PROVE EndpointInv'
    OBVIOUS
  <2>1. CASE Next
    BY <2>1, ListenerNext, ProbeNext DEF EndpointInv
  <2>2. CASE UNCHANGED vars
    BY <2>2
    DEF vars, listenerVars, peerVars, net, EndpointInv, ListenerInv, Opened,
        ProbeInv, Reaches
  <2> QED BY <2>1, <2>2
<1> QED BY <1>1, EndpointInvInit, PTL DEF Spec

\* An endpoint that new_peer has bootstrapped was reached at its public address
\* by the contact, and had accepted that connection.
THEOREM VerifiedHolds == Spec => []Verified
<1>1. EndpointInv => Verified
  BY EndpointAssumption
  DEF EndpointInv, ListenerInv, ProbeInv, Verified
<1> QED BY <1>1, EndpointCorrect, PTL

-----------------------------------------------------------------------------
(***************************************************************************)
(* Types.  That what the task sends is a peer rests on ListenerInv.        *)
(***************************************************************************)

\* Closing connections keeps the type of their states.
LEMMA ClosingType ==
  ASSUME ListenerTypeOK, NEW S
  PROVE  Closing(S) \in [Peers -> Statuses]
BY DEF ListenerTypeOK, Closing, Statuses

\* The task keeps the types, and the channel within its capacity.
LEMMA TaskType ==
  ASSUME ListenerTypeOK, ListenerInv, Task
  PROVE  ListenerTypeOK'
<1> USE DEF ListenerTypeOK
<1>1. CASE TakeNext
  BY <1>1 DEF TakeNext
<1>2. CASE TakeNone
  BY <1>2 DEF TakeNone
<1>3. CASE Accept
  BY <1>3 DEF Accept
<1>4. CASE Reject \/ SendConnectionFails
  BY <1>4, ClosingType
  DEF Reject, SendConnectionFails, DropUnsent, AfterFailure, Statuses
<1>5. CASE SendConnection
  <2>1. hand \in Peers
    BY <1>5 DEF SendConnection, ListenerInv, Opened
  <2>2. tx' \in Seq(Peers) /\ Len(tx') = Len(tx) + 1
    BY <1>5, <2>1 DEF SendConnection
  <2>3. Len(tx) \in Nat /\ Len(tx) < Capacity /\ Capacity \in Nat
    BY <1>5, ListenerAssumption DEF SendConnection, ChannelHasRoom
  <2>4. Len(tx') <= Capacity
    BY <2>2, <2>3
  <2> QED BY <1>5, <2>2, <2>4 DEF SendConnection
<1> QED BY <1>1, <1>2, <1>3, <1>4, <1>5 DEF Task

\* Whatever happens to the listener, its variables keep their types.
LEMMA ListenerTypeNext ==
  ASSUME ListenerTypeOK, ListenerInv, Next
  PROVE  ListenerTypeOK'
<1> USE EndpointAssumption
<1>0. ASSUME UNCHANGED listenerVars PROVE ListenerTypeOK'
  BY <1>0 DEF listenerVars, ListenerTypeOK
<1>1. ASSUME NEW error, ReturnErr(error) PROVE ListenerTypeOK'
  <2>1. Len(<<>>) = 0 /\ 0 <= Capacity
    BY ListenerAssumption
  <2>2. CASE task = "off"
    BY <1>1, <2>2, ClosingType
    DEF ReturnErr, Abandoned, ListenerTypeOK, Statuses
  <2>3. CASE task # "off"
    BY <1>1, <2>1, <2>3, ClosingType
    DEF ReturnErr, Abandoned, ListenerTypeOK, Statuses
  <2> QED BY <2>2, <2>3
<1>2. ASSUME NEW p \in Peers, PeerConnects(p) PROVE ListenerTypeOK'
  BY <1>2 DEF PeerConnects, ListenerTypeOK
<1>3. CASE NewPeer
  <2>1. CASE EchoFails \/ ForwardFails \/ VerificationFails
    BY <1>1, <2>1 DEF EchoFails, ForwardFails, VerificationFails
  <2>2. CASE VerificationDone \/ SkipVerification
    BY <1>0, <1>1, <2>2
    DEF VerificationDone, SkipVerification, Verdict, ReturnOk
  <2>3. CASE Listen
    BY <2>3 DEF Listen, Started, ListenerTypeOK
  <2>4. CASE \/ \E c \in Contacts : Connects(c) \/ ConnectFails(c)
             \/ NoContact \/ SendRequest("echo") \/ EchoDone \/ Resolve
             \/ Forward \/ SendRequest("verify")
    BY <1>0, <2>4
    DEF Connects, ConnectFails, NoContact, SendRequest, EchoDone, Resolve,
        Forward
  <2> QED BY <1>3, <2>1, <2>2, <2>3, <2>4 DEF NewPeer
<1>4. CASE Contact
  <2>1. CASE Probe
    <3>1. contact \in Contacts
      BY <2>1 DEF Probe, ListenerInv
    <3>2. contact \in Peers
      BY <3>1
    <3> QED BY Zenon, <1>0, <1>2, <2>1, <3>2 DEF Probe
  <2>2. CASE ContactEchoes \/ ProbeConnected \/ ProbeSucceeds \/ ProbeFails
    BY <1>0, <2>2
    DEF ContactEchoes, ProbeConnected, ProbeSucceeds, ProbeFails, Reply
  <2> QED BY <1>4, <2>1, <2>2 DEF Contact
<1>5. CASE Listener
  BY <1>5, TaskType DEF Listener
<1>6. CASE Application
  <2>1. CASE NextConnection
    <3>1. tx' \in Seq(Peers) /\ Len(tx') = Len(tx) - 1 /\ Len(tx) \in Nat
      BY <2>1 DEF NextConnection, ListenerTypeOK
    <3>2. Len(tx') <= Capacity
      BY <3>1, ListenerAssumption DEF ListenerTypeOK
    <3> QED BY <2>1, <3>1, <3>2 DEF NextConnection, ListenerTypeOK
  <2>2. CASE DropIncomingConnections
    <3>1. Len(<<>>) = 0 /\ 0 <= Capacity
      BY ListenerAssumption
    <3> QED
      BY <2>2, <3>1, ClosingType
      DEF DropIncomingConnections, ListenerTypeOK, Statuses
  <2>3. CASE CloseEndpoint
    BY <2>3, ClosingType DEF CloseEndpoint, ListenerTypeOK, Statuses
  <2> QED BY <1>6, <2>1, <2>2, <2>3 DEF Application, ReadsConnections
<1>7. CASE Network
  <2>1. CASE LinkLost
    BY <1>0, <2>1 DEF LinkLost
  <2>2. CASE \E p \in Peers \ Contacts : PeerConnects(p)
    BY <1>2, <2>2
  <2>3. CASE \E p \in Peers : Shakes(p)
    BY <2>3 DEF Shakes, Handshake, ListenerTypeOK
  <2> QED BY <1>7, <2>1, <2>2, <2>3 DEF Network
<1> QED BY <1>3, <1>4, <1>5, <1>6, <1>7 DEF Next

\* What EndpointTypeOK says of new_peer itself.
PeerTypeOK ==
  /\ pc \in {"connect", "echo", "resolve", "forward", "listen", "verify",
             "done"}
  /\ failed \subseteq Contacts /\ contact \in Contacts \cup {"none"}
  /\ link \in {"none", "up", "lost"} /\ (contact = "none" <=> link = "none")
  /\ rpc \in {"none", "sent", "answered"}
  /\ answer \in {"none", "seen", "valid", "invalid"}
  /\ service \in {"idle", "connect", "echo", "replied"}
  /\ routes \subseteq Routes /\ forwarded \in BOOLEAN
  /\ result \in Outcomes \cup {"none"}
  /\ pc = "done" <=> result # "none"

\* Every step keeps the types of new_peer; it has a result exactly when it has
\* returned, and a connection exactly when it has a contact.
LEMMA PeerTypeNext ==
  ASSUME PeerTypeOK, Next
  PROVE  PeerTypeOK'
<1> USE DEF PeerTypeOK, Outcomes
<1>0. "none" \notin Contacts
  BY EndpointAssumption, ListenerAssumption
<1>1. CASE NewPeer
  <2>1. CASE \E c \in Contacts : Connects(c)
    BY <1>0, <2>1 DEF Connects, net
  <2>2. CASE \E c \in Contacts : ConnectFails(c)
    BY <2>2 DEF ConnectFails, net
  <2>3. CASE NoContact \/ EchoDone \/ Listen
    BY <2>3 DEF NoContact, EchoDone, Listen, net
  <2>4. CASE SendRequest("echo") \/ SendRequest("verify")
    BY <2>4 DEF SendRequest, net
  <2>5. CASE Resolve \/ Forward
    BY <2>5 DEF Resolve, Forward, net
  <2>6. CASE EchoFails \/ ForwardFails \/ VerificationFails
    BY <2>6 DEF EchoFails, ForwardFails, VerificationFails, ReturnErr, net
  <2>7. CASE SkipVerification \/ VerificationDone
    BY <2>7
    DEF SkipVerification, VerificationDone, Verdict, ReturnOk, ReturnErr, net
  <2> QED
    BY <1>1, <2>1, <2>2, <2>3, <2>4, <2>5, <2>6, <2>7 DEF NewPeer
<1>2. CASE Contact
  <2>1. CASE ContactEchoes
    BY <2>1 DEF ContactEchoes, net
  <2>2. CASE Probe \/ ProbeConnected
    BY <2>2 DEF Probe, ProbeConnected, net
  <2>3. CASE ProbeSucceeds \/ ProbeFails
    BY <2>3 DEF ProbeSucceeds, ProbeFails, Reply, net
  <2> QED BY <1>2, <2>1, <2>2, <2>3 DEF Contact
<1>3. CASE Listener \/ Application \/ Network
  BY <1>3
  DEF Listener, Application, ReadsConnections, Network, LinkLost, Shakes,
      peerVars, net
<1> QED BY <1>1, <1>2, <1>3 DEF Next

\* The variables of new_peer and of the task that accepts connections keep
\* their types: the channel never holds more than its capacity, new_peer has a
\* result exactly when it has returned, and a contact exactly when it has a
\* connection to it.
THEOREM EndpointTypeCorrect == Spec => []EndpointTypeOK
<1> DEFINE TypeInv == ListenerTypeOK /\ PeerTypeOK
<1>1. Init => TypeInv
  <2> SUFFICES ASSUME Init PROVE TypeInv
    OBVIOUS
  <2>1. ListenerTypeOK
    <3>1. tx = <<>> /\ queue = <<>> /\ closed = FALSE
      BY DEF Init, ListenerInit
    <3>2. tx \in Seq(Peers) /\ queue \in Seq(Peers) /\ Len(tx) = 0
      BY <3>1
    <3>3. Len(tx) <= Capacity
      BY <3>2, ListenerAssumption
    <3>4. closed \in BOOLEAN
      BY <3>1
    <3>5. /\ status \in [Peers -> Statuses]
          /\ shake \in [Peers -> {"pending", "done", "failed"}]
      BY DEF Init, ListenerInit, Statuses
    <3>6. task = "off" /\ hand = "none" /\ rx = "none"
      BY DEF Init, ListenerInit
    <3> QED
      BY <3>2, <3>3, <3>4, <3>5, <3>6 DEF ListenerTypeOK, Statuses
  <2>2. PeerTypeOK
    BY DEF Init, PeerTypeOK
  <2> QED BY <2>1, <2>2
<1>2. TypeInv /\ EndpointInv /\ [Next]_vars => TypeInv'
  <2> SUFFICES ASSUME TypeInv, EndpointInv, [Next]_vars PROVE TypeInv'
    OBVIOUS
  <2>1. CASE Next
    BY <2>1, ListenerTypeNext, PeerTypeNext DEF EndpointInv
  <2>2. CASE UNCHANGED vars
    <3>1. ListenerTypeOK'
      BY <2>2 DEF vars, listenerVars, ListenerTypeOK
    <3>2. PeerTypeOK'
      BY <2>2 DEF vars, peerVars, net, PeerTypeOK
    <3> QED BY <3>1, <3>2
  <2> QED BY <2>1, <2>2
<1>3. TypeInv => EndpointTypeOK
  BY DEF EndpointTypeOK, PeerTypeOK
<1> QED BY <1>1, <1>2, <1>3, EndpointCorrect, PTL DEF Spec
-----------------------------------------------------------------------------
(***************************************************************************)
(* Nothing stays open when new_peer fails.  An accepted connection always  *)
(* has an owner: the task that is about to send it, the channel as long as *)
(* somebody can receive from it, or the application that has the endpoint. *)
(***************************************************************************)
Owned(p) ==
  \/ p = hand /\ task = "send"
  \/ rx = "held" /\ p \in InChannel
  \/ result = "Ok"

OwnedInv ==
  /\ \A p \in Peers : status[p] = "accepted" => Owned(p)
  /\ pc \notin {"verify", "done"} => task = "off"
  /\ rx = "held" => task # "off"
  /\ result \notin {"none", "Ok"} => rx # "held"

\* The task hands connections on or closes them.
LEMMA OwnedTask ==
  ASSUME ListenerInv, OwnedInv, Task, UNCHANGED peerVars
  PROVE  OwnedInv'
<1>0. UNCHANGED <<pc, result>>
  BY DEF peerVars
<1> USE DEF OwnedInv, Owned
<1>1. CASE TakeNext \/ TakeNone
  BY <1>0, <1>1 DEF TakeNext, TakeNone, InChannel
<1>2. CASE Accept
  <2>1. /\ UNCHANGED <<hand, tx, rx>> /\ task = "handshake" /\ task' = "send"
        /\ \A p \in Peers : p # hand => status'[p] = status[p]
    BY <1>2 DEF Accept, ListenerInv
  <2> QED
    BY <1>0, <2>1 DEF InChannel
<1>3. CASE Reject \/ SendConnectionFails
  <2>1. /\ UNCHANGED <<tx, rx>> /\ task' = "next"
        /\ task \in {"handshake", "send"}
        /\ \A p \in Peers : status'[p] = IF p = hand THEN "over" ELSE status[p]
    BY <1>3
    DEF Reject, SendConnectionFails, AfterFailure, DropUnsent, Closing
  <2> QED
    BY <1>0, <2>1 DEF InChannel
<1>4. CASE SendConnection
  <2>1. /\ UNCHANGED <<status, rx>> /\ rx = "held" /\ task' = "next"
        /\ task = "send" /\ tx' = Append(tx, hand)
        /\ tx \in Seq(Peers) /\ hand \in Peers
    BY <1>4 DEF SendConnection, ListenerInv, Opened
  <2>2. /\ DOMAIN tx = 1 .. Len(tx) /\ DOMAIN tx' = 1 .. Len(tx) + 1
        /\ Len(tx) + 1 \in DOMAIN tx' /\ tx'[Len(tx) + 1] = hand
        /\ \A i \in DOMAIN tx : i \in DOMAIN tx' /\ tx'[i] = tx[i]
    BY <2>1
  <2>3. hand \in InChannel' /\ InChannel \subseteq InChannel'
    BY <2>2 DEF InChannel
  <2> QED
    BY <1>0, <2>1, <2>3
<1> QED
  BY <1>1, <1>2, <1>3, <1>4 DEF Task

\* An error closes what is in the channel, and nobody can put more there.
LEMMA OwnedError ==
  ASSUME ListenerInv, OwnedInv, result = "none", NEW error, ReturnErr(error),
         error # "Ok"
  PROVE  OwnedInv'
<1>0. pc' = "done" /\ result' # "Ok"
  BY DEF ReturnErr
<1> USE DEF OwnedInv, Owned
<1>1. CASE task = "off"
  <2>1. /\ UNCHANGED <<task, hand, tx, rx>> /\ rx # "held"
        /\ \A p \in Peers : status[p] # "accepted"
    BY <1>1 DEF ReturnErr, Abandoned
  <2>2. \A p \in Peers : status'[p] # "accepted"
    BY <1>1, <2>1 DEF ReturnErr, Abandoned, Closing
  <2> QED
    BY <1>0, <2>1, <2>2
<1>2. CASE task # "off"
  <2>1. /\ UNCHANGED <<task, hand>> /\ rx' = "dropped"
        /\ \A p \in Peers : status'[p] = IF p \in InChannel THEN "over"
                                         ELSE status[p]
    BY <1>2 DEF ReturnErr, Abandoned, Closing
  <2> QED
    BY <1>0, <1>2, <2>1
<1> QED
  BY <1>1, <1>2

\* Every step leaves each accepted connection with an owner.
LEMMA OwnedNext ==
  ASSUME ListenerInv, PeerTypeOK, OwnedInv, Next
  PROVE  OwnedInv'
<1>0. ASSUME UNCHANGED listenerVars, UNCHANGED result,
             pc' \notin {"verify", "done"} => pc \notin {"verify", "done"}
      PROVE  OwnedInv'
  BY <1>0 DEF listenerVars, OwnedInv, Owned, InChannel
<1>1. ASSUME NEW p \in Peers, PeerConnects(p), UNCHANGED <<pc, result>>
      PROVE  OwnedInv'
  <2>1. /\ UNCHANGED <<task, hand, tx, rx>>
        /\ \A q \in Peers : status'[q] = "accepted" => status[q] = "accepted"
    BY <1>1 DEF PeerConnects, ListenerInv
  <2> QED
    BY <1>1, <2>1 DEF OwnedInv, Owned, InChannel
<1>2. CASE NewPeer
  <2>1. CASE EchoFails \/ ForwardFails \/ VerificationFails
    BY <2>1, OwnedError
    DEF EchoFails, ForwardFails, VerificationFails, PeerTypeOK
  <2>2. CASE VerificationDone \/ SkipVerification
    <3>1. pc = "verify" /\ result = "none"
          /\ (ReturnOk \/ ReturnErr("Unreachable"))
      BY <2>2
      DEF VerificationDone, SkipVerification, Verdict, PeerTypeOK
    <3>2. CASE ReturnOk
      BY <3>1, <3>2 DEF ReturnOk, listenerVars, OwnedInv, Owned
    <3> QED
      BY <3>1, <3>2, OwnedError
  <2>3. CASE Listen
    <3>1. task = "off" /\ rx # "held" /\ result = "none" /\ pc' = "verify"
      BY <2>3 DEF Listen, OwnedInv, PeerTypeOK
    <3> QED
      BY <2>3, <3>1 DEF Listen, Started, OwnedInv, Owned
  <2>4. CASE \/ \E c \in Contacts : Connects(c) \/ ConnectFails(c)
             \/ NoContact \/ SendRequest("echo") \/ EchoDone \/ Resolve
             \/ Forward \/ SendRequest("verify")
    BY <1>0, <2>4
    DEF Connects, ConnectFails, NoContact, SendRequest, EchoDone, Resolve,
        Forward
  <2> QED
    BY <1>2, <2>1, <2>2, <2>3, <2>4 DEF NewPeer
<1>3. CASE Contact
  <2>1. CASE Probe
    <3>1. contact \in Contacts
      BY <2>1 DEF Probe, PeerTypeOK
    <3>2. contact \in Peers
      BY <3>1, EndpointAssumption
    <3>3. UNCHANGED <<pc, result>>
          /\ (PeerConnects(contact) \/ UNCHANGED listenerVars)
      BY Zenon, <2>1 DEF Probe
    <3> QED
      BY <1>0, <1>1, <3>2, <3>3
  <2>2. CASE ContactEchoes \/ ProbeConnected \/ ProbeSucceeds \/ ProbeFails
    BY <1>0, <2>2
    DEF ContactEchoes, ProbeConnected, ProbeSucceeds, ProbeFails, Reply
  <2> QED
    BY <1>3, <2>1, <2>2 DEF Contact
<1>4. CASE Listener
  BY <1>4, OwnedTask DEF Listener
<1>5. CASE Application
  <2>1. /\ result = "Ok" /\ UNCHANGED <<pc, result, task>>
        /\ rx' = "held" => rx = "held"
    BY <1>5
    DEF Application, ReadsConnections, NextConnection,
        DropIncomingConnections, CloseEndpoint, peerVars
  <2> QED
    BY <2>1 DEF OwnedInv, Owned
<1>6. CASE Network
  <2>1. CASE LinkLost
    BY <1>0, <2>1 DEF LinkLost
  <2>2. CASE \E p \in Peers \ Contacts : PeerConnects(p) /\ UNCHANGED peerVars
    BY <1>1, <2>2 DEF peerVars
  <2>3. CASE \E p \in Peers : Shakes(p)
    BY <2>3 DEF Shakes, Handshake, peerVars, OwnedInv, Owned, InChannel
  <2> QED
    BY <1>6, <2>1, <2>2, <2>3 DEF Network
<1> QED
  BY <1>2, <1>3, <1>4, <1>5, <1>6 DEF Next

\* OwnedInv holds in every state.
LEMMA OwnedCorrect == Spec => []OwnedInv
<1>1. Init => OwnedInv
  BY DEF Init, ListenerInit, OwnedInv
<1>2. EndpointInv /\ EndpointTypeOK /\ OwnedInv /\ [Next]_vars => OwnedInv'
  <2> SUFFICES ASSUME EndpointInv, EndpointTypeOK, OwnedInv, [Next]_vars
               PROVE  OwnedInv'
    OBVIOUS
  <2>1. ListenerInv /\ PeerTypeOK
    BY DEF EndpointInv, EndpointTypeOK, PeerTypeOK
  <2>2. CASE UNCHANGED vars
    BY <2>2
    DEF vars, listenerVars, peerVars, OwnedInv, Owned, InChannel
  <2> QED
    BY <2>1, <2>2, OwnedNext
<1> QED
  BY <1>1, <1>2, EndpointTypeCorrect, EndpointCorrect, PTL DEF Spec

\* From the moment new_peer fails no connection that a peer has made is open,
\* except the one the task has in hand, until it finds that nobody receives it.
THEOREM FailureClosesAllHolds == Spec => FailureClosesAll
<1> DEFINE Fails  == result \notin {"none", "Ok"}
           Closes == \A p \in Peers : status[p] # "accepted" \/ p = hand
<1>1. EndpointTypeOK /\ Fails /\ [Next]_vars => Fails'
  BY Settled DEF EndpointTypeOK, vars, peerVars
<1>2. OwnedInv /\ Fails => Closes
  BY DEF OwnedInv, Owned
<1> QED
  BY <1>1, <1>2, EndpointTypeCorrect, OwnedCorrect, PTL
     DEF Spec, FailureClosesAll

-----------------------------------------------------------------------------
(***************************************************************************)
(* Nothing is served after close.                                          *)
(***************************************************************************)
\* No accepted connection of a closed endpoint is open: not one whose handshake
\* was under way when it was closed, nor one that waited for room in the channel.
ClosedServesNone == closed => \A p \in Peers : status[p] # "accepted"

\* Every step keeps ClosedServesNone: close takes every connection with it, and
\* the task accepts no other one afterwards.
LEMMA ClosedNext ==
  ASSUME ListenerInv, PeerTypeOK, OwnedInv, ClosedServesNone, Next
  PROVE  ClosedServesNone'
<1>0. ASSUME UNCHANGED closed,
             \A p \in Peers : status'[p] = "accepted" => status[p] = "accepted"
      PROVE  ClosedServesNone'
  BY <1>0 DEF ClosedServesNone
<1>1. CASE UNCHANGED listenerVars
  BY <1>0, <1>1 DEF listenerVars
<1>2. ASSUME NEW S, status' = Closing(S), UNCHANGED closed
      PROVE  ClosedServesNone'
  BY <1>0, <1>2 DEF Closing
<1>3. ASSUME NEW p \in Peers, PeerConnects(p) PROVE ClosedServesNone'
  BY <1>0, <1>3 DEF PeerConnects, ListenerInv
<1>4. ASSUME NEW error, ReturnErr(error), result = "none"
      PROVE  ClosedServesNone'
  <2>1. CASE task = "off"
    <3>1. \A p \in Peers : status[p] # "accepted"
      BY <1>4, <2>1 DEF OwnedInv, Owned
    <3> QED
      BY <1>4, <2>1, <3>1
      DEF ReturnErr, Abandoned, Closing, ClosedServesNone
  <2>2. CASE task # "off"
    BY <1>2, <1>4, <2>2 DEF ReturnErr, Abandoned
  <2> QED
    BY <2>1, <2>2
<1>5. CASE NewPeer
  <2>1. CASE EchoFails \/ ForwardFails \/ VerificationFails
    BY <1>4, <2>1
    DEF EchoFails, ForwardFails, VerificationFails, PeerTypeOK
  <2>2. CASE VerificationDone \/ SkipVerification
    BY <1>1, <1>4, <2>2
    DEF VerificationDone, SkipVerification, Verdict, ReturnOk, PeerTypeOK
  <2>3. CASE Listen
    BY <1>0, <2>3 DEF Listen
  <2>4. CASE \/ \E c \in Contacts : Connects(c) \/ ConnectFails(c)
             \/ NoContact \/ SendRequest("echo") \/ EchoDone \/ Resolve
             \/ Forward \/ SendRequest("verify")
    BY <1>1, <2>4
    DEF Connects, ConnectFails, NoContact, SendRequest, EchoDone, Resolve,
        Forward
  <2> QED
    BY <1>5, <2>1, <2>2, <2>3, <2>4 DEF NewPeer
<1>6. CASE Contact
  <2>1. CASE Probe
    <3>1. contact \in Contacts
      BY <2>1 DEF Probe, PeerTypeOK
    <3>2. contact \in Peers
      BY <3>1, EndpointAssumption
    <3>3. PeerConnects(contact) \/ UNCHANGED listenerVars
      BY Zenon, <2>1 DEF Probe
    <3> QED
      BY <1>1, <1>3, <3>2, <3>3
  <2>2. CASE ContactEchoes \/ ProbeConnected \/ ProbeSucceeds \/ ProbeFails
    BY <1>1, <2>2
    DEF ContactEchoes, ProbeConnected, ProbeSucceeds, ProbeFails, Reply
  <2> QED
    BY <1>6, <2>1, <2>2 DEF Contact
<1>7. CASE Listener
  <2>1. CASE Accept
    BY <2>1 DEF Accept, ListenerInv, ClosedServesNone
  <2>2. CASE TakeNext \/ TakeNone \/ SendConnection
    BY <1>0, <2>2 DEF TakeNext, TakeNone, SendConnection
  <2>3. CASE Reject \/ SendConnectionFails
    BY <1>2, <2>3 DEF Reject, SendConnectionFails, DropUnsent
  <2> QED
    BY <1>7, <2>1, <2>2, <2>3 DEF Listener, Task
<1>8. CASE Application
  <2>1. CASE NextConnection
    BY <1>0, <2>1 DEF NextConnection
  <2>2. CASE DropIncomingConnections
    BY <1>2, <2>2 DEF DropIncomingConnections
  <2>3. CASE CloseEndpoint
    BY <2>3 DEF CloseEndpoint, Closing, Accepted, ClosedServesNone
  <2> QED
    BY <1>8, <2>1, <2>2, <2>3 DEF Application, ReadsConnections
<1>9. CASE Network
  <2>1. CASE LinkLost
    BY <1>1, <2>1 DEF LinkLost
  <2>2. CASE \E p \in Peers \ Contacts : PeerConnects(p)
    BY <1>3, <2>2
  <2>3. CASE \E p \in Peers : Shakes(p)
    BY <1>0, <2>3 DEF Shakes, Handshake
  <2> QED
    BY <1>9, <2>1, <2>2, <2>3 DEF Network
<1> QED
  BY <1>5, <1>6, <1>7, <1>8, <1>9 DEF Next

\* A closed endpoint serves no connection.
THEOREM ClosedServesNoneHolds == Spec => []ClosedServesNone
<1>1. Init => ClosedServesNone
  BY DEF Init, ListenerInit, ClosedServesNone
<1>2. EndpointInv /\ EndpointTypeOK /\ OwnedInv /\ ClosedServesNone
        /\ [Next]_vars => ClosedServesNone'
  <2> SUFFICES ASSUME EndpointInv, EndpointTypeOK, OwnedInv,
                      ClosedServesNone, [Next]_vars
               PROVE  ClosedServesNone'
    OBVIOUS
  <2>1. ListenerInv /\ PeerTypeOK
    BY DEF EndpointInv, EndpointTypeOK, PeerTypeOK
  <2>2. CASE UNCHANGED vars
    BY <2>2 DEF vars, listenerVars, ClosedServesNone
  <2> QED
    BY <2>1, <2>2, ClosedNext
<1> QED
  BY <1>1, <1>2, EndpointTypeCorrect, EndpointCorrect, OwnedCorrect, PTL
     DEF Spec

-----------------------------------------------------------------------------
(***************************************************************************)
(* No connection is forgotten.                                             *)
(***************************************************************************)
InQueue == {queue[i] : i \in DOMAIN queue}

\* The task comes to the connection of p, or has come to it.
Waits(p) == p \in InQueue \/ (p = hand /\ task = "handshake")

\* A connection that a peer has opened waits for the task as long as it is
\* neither accepted nor closed, and one that was accepted has an owner.
NoneForgotten ==
  \A p \in Peers : /\ status[p] = "queued" => Waits(p)
                   /\ status[p] = "accepted" => Owned(p)

QueuedInv == \A p \in Peers : status[p] = "queued" => Waits(p)

\* The task takes the connections as they come and settles each one.
LEMMA QueuedTask ==
  ASSUME ListenerInv, QueuedInv, Task
  PROVE  QueuedInv'
<1> USE DEF QueuedInv, Waits
<1>1. CASE TakeNext
  <2>1. /\ UNCHANGED status /\ queue \in Seq(Peers) /\ queue # <<>>
        /\ hand' = Head(queue) /\ queue' = Tail(queue)
        /\ task = "next" /\ task' = "handshake"
    BY <1>1 DEF TakeNext, ListenerInv
  <2>2. /\ DOMAIN queue = 1 .. Len(queue) /\ Len(queue) \in Nat
        /\ hand' = queue[1] /\ DOMAIN queue' = 1 .. Len(queue) - 1
        /\ \A i \in 1 .. Len(queue) - 1 : queue'[i] = queue[i + 1]
    BY <2>1
  <2>3. ASSUME NEW i \in DOMAIN queue, i # 1 PROVE queue[i] \in InQueue'
    <3>1. i - 1 \in DOMAIN queue' /\ queue'[i - 1] = queue[i]
      BY <2>2, <2>3
    <3> QED
      BY <3>1 DEF InQueue
  <2>4. \A p \in InQueue : p = hand' \/ p \in InQueue'
    BY <2>2, <2>3 DEF InQueue
  <2> QED
    BY <2>1, <2>4
<1>2. CASE TakeNone \/ SendConnection
  BY <1>2 DEF TakeNone, SendConnection, InQueue
<1>3. CASE Accept
  <2>1. /\ UNCHANGED queue
        /\ \A p \in Peers :
             status'[p] = "queued" => p # hand /\ status[p] = "queued"
    BY <1>3 DEF Accept, ListenerInv
  <2> QED
    BY <2>1 DEF InQueue
<1>4. CASE Reject \/ SendConnectionFails
  <2>1. /\ UNCHANGED queue
        /\ \A p \in Peers :
             status'[p] = "queued" => p # hand /\ status[p] = "queued"
    BY <1>4 DEF Reject, SendConnectionFails, DropUnsent, Closing
  <2> QED
    BY <2>1 DEF InQueue
<1> QED
  BY <1>1, <1>2, <1>3, <1>4 DEF Task

\* Every step leaves each new connection where the task will find it.
LEMMA QueuedNext ==
  ASSUME ListenerInv, PeerTypeOK, OwnedInv, QueuedInv, Next
  PROVE  QueuedInv'
<1>0. ASSUME UNCHANGED <<queue, hand, task>>,
             \A p \in Peers : status'[p] = "queued" => status[p] = "queued"
      PROVE  QueuedInv'
  BY <1>0 DEF QueuedInv, Waits, InQueue
<1>1. CASE UNCHANGED listenerVars
  BY <1>0, <1>1 DEF listenerVars
<1>2. ASSUME NEW S, status' = Closing(S), UNCHANGED <<queue, hand, task>>
      PROVE  QueuedInv'
  BY <1>0, <1>2 DEF Closing
<1>3. ASSUME NEW p \in Peers, PeerConnects(p) PROVE QueuedInv'
  <2>1. /\ UNCHANGED <<hand, task>> /\ queue \in Seq(Peers)
        /\ queue' = Append(queue, p)
        /\ \A q \in Peers : q # p => status'[q] = status[q]
    BY <1>3 DEF PeerConnects, ListenerInv
  <2>2. /\ Len(queue) + 1 \in DOMAIN queue' /\ queue'[Len(queue) + 1] = p
        /\ \A i \in DOMAIN queue : i \in DOMAIN queue' /\ queue'[i] = queue[i]
    BY <2>1
  <2>3. p \in InQueue' /\ InQueue \subseteq InQueue'
    BY <2>2 DEF InQueue
  <2> QED
    BY <2>1, <2>3 DEF QueuedInv, Waits
<1>4. ASSUME NEW error, ReturnErr(error) PROVE QueuedInv'
  <2>1. CASE task = "off"
    BY <1>4, <2>1 DEF ReturnErr, Abandoned, Closing, QueuedInv
  <2>2. CASE task # "off"
    BY <1>2, <1>4, <2>2 DEF ReturnErr, Abandoned
  <2> QED
    BY <2>1, <2>2
<1>5. CASE NewPeer
  <2>1. CASE EchoFails \/ ForwardFails \/ VerificationFails
    BY <1>4, <2>1 DEF EchoFails, ForwardFails, VerificationFails
  <2>2. CASE VerificationDone \/ SkipVerification
    BY <1>1, <1>4, <2>2
    DEF VerificationDone, SkipVerification, Verdict, ReturnOk
  <2>3. CASE Listen
    <3>1. task = "off" /\ UNCHANGED <<status, queue, hand>>
      BY <2>3 DEF Listen, OwnedInv
    <3> QED
      BY <3>1 DEF QueuedInv, Waits, InQueue
  <2>4. CASE \/ \E c \in Contacts : Connects(c) \/ ConnectFails(c)
             \/ NoContact \/ SendRequest("echo") \/ EchoDone \/ Resolve
             \/ Forward \/ SendRequest("verify")
    BY <1>1, <2>4
    DEF Connects, ConnectFails, NoContact, SendRequest, EchoDone, Resolve,
        Forward
  <2> QED
    BY <1>5, <2>1, <2>2, <2>3, <2>4 DEF NewPeer
<1>6. CASE Contact
  <2>1. CASE Probe
    <3>1. contact \in Contacts
      BY <2>1 DEF Probe, PeerTypeOK
    <3>2. contact \in Peers
      BY <3>1, EndpointAssumption
    <3>3. PeerConnects(contact) \/ UNCHANGED listenerVars
      BY Zenon, <2>1 DEF Probe
    <3> QED
      BY <1>1, <1>3, <3>2, <3>3
  <2>2. CASE ContactEchoes \/ ProbeConnected \/ ProbeSucceeds \/ ProbeFails
    BY <1>1, <2>2
    DEF ContactEchoes, ProbeConnected, ProbeSucceeds, ProbeFails, Reply
  <2> QED
    BY <1>6, <2>1, <2>2 DEF Contact
<1>7. CASE Listener
  BY <1>7, QueuedTask DEF Listener
<1>8. CASE Application
  BY <1>0, <1>2, <1>8
  DEF Application, ReadsConnections, NextConnection, DropIncomingConnections,
      CloseEndpoint
<1>9. CASE Network
  <2>1. CASE LinkLost
    BY <1>1, <2>1 DEF LinkLost
  <2>2. CASE \E p \in Peers \ Contacts : PeerConnects(p)
    BY <1>3, <2>2
  <2>3. CASE \E p \in Peers : Shakes(p)
    BY <1>0, <2>3 DEF Shakes, Handshake
  <2> QED
    BY <1>9, <2>1, <2>2, <2>3 DEF Network
<1> QED
  BY <1>5, <1>6, <1>7, <1>8, <1>9 DEF Next

\* Every connection that a peer opens is before the task, accepted with an
\* owner, or closed, whatever fails or is dropped on the way.
THEOREM NoneForgottenHolds == Spec => []NoneForgotten
<1>1. Init => QueuedInv
  BY DEF Init, ListenerInit, QueuedInv
<1>2. EndpointInv /\ EndpointTypeOK /\ OwnedInv /\ QueuedInv /\ [Next]_vars
        => QueuedInv'
  <2> SUFFICES ASSUME EndpointInv, EndpointTypeOK, OwnedInv, QueuedInv,
                      [Next]_vars
               PROVE  QueuedInv'
    OBVIOUS
  <2>1. ListenerInv /\ PeerTypeOK
    BY DEF EndpointInv, EndpointTypeOK, PeerTypeOK
  <2>2. CASE UNCHANGED vars
    BY <2>2 DEF vars, listenerVars, QueuedInv, Waits, InQueue
  <2> QED
    BY <2>1, <2>2, QueuedNext
<1>3. QueuedInv /\ OwnedInv => NoneForgotten
  BY DEF QueuedInv, OwnedInv, NoneForgotten
<1> QED
  BY <1>1, <1>2, <1>3, EndpointTypeCorrect, EndpointCorrect, OwnedCorrect, PTL
     DEF Spec
=============================================================================
