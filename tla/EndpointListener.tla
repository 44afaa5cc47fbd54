-------------------------- MODULE EndpointListener --------------------------
(***************************************************************************)
(* The task that accepts connections, listen_for_incoming_connections      *)
(* (src/src/endpoint.rs), with the channel it fills.                       *)
(*                                                                         *)
(* quinn is external: it queues the connections that peers open, whether   *)
(* or not the task is there to take them, and drives their handshakes.     *)
(***************************************************************************)
EXTENDS Integers, Sequences

CONSTANTS
  Peers,      \* the peers that may connect to this endpoint
  Capacity    \* STANDARD_CHANNEL_SIZE

ASSUME ListenerAssumption == Capacity \in Nat \ {0} /\ "none" \notin Peers

VARIABLES
  status,     \* the connection of each peer
  shake,      \* its handshake: "pending", "done" or "failed"
  queue,      \* quinn_incoming
  task,       \* control state of the task
  hand,       \* the peer whose connection the task has in hand, or "none"
  tx,         \* the channel of connections
  rx,         \* its receiving half: "none" before it exists, "held", "dropped"
  closed      \* is the quinn endpoint closed?

listenerVars == <<status, shake, queue, task, hand, tx, rx, closed>>

ListenerTypeOK ==
  /\ status \in [Peers -> {"away", "queued", "accepted", "over"}]
  /\ shake \in [Peers -> {"pending", "done", "failed"}]
  /\ queue \in Seq(Peers)
  /\ task \in {"off", "next", "handshake", "send", "ended"}
  /\ hand \in Peers \cup {"none"}
  /\ tx \in Seq(Peers) /\ Len(tx) <= Capacity
  /\ rx \in {"none", "held", "dropped"}
  /\ closed \in BOOLEAN

ListenerInit ==
  /\ status = [p \in Peers |-> "away"] /\ shake = [p \in Peers |-> "pending"]
  /\ queue = <<>> /\ task = "off" /\ hand = "none" /\ tx = <<>>
  /\ rx = "none" /\ closed = FALSE

\* The connections of the peers in S are closed.
Closing(S) == [p \in Peers |-> IF p \in S THEN "over" ELSE status[p]]
InChannel  == {tx[i] : i \in DOMAIN tx}
Accepted   == {p \in Peers : status[p] = "accepted"}

-----------------------------------------------------------------------------
(***************************************************************************)
(* quinn and the peers.                                                    *)
(***************************************************************************)
PeerConnects(p) ==
  /\ ~closed /\ status[p] = "away"
  /\ status' = [status EXCEPT ![p] = "queued"]
  /\ queue' = Append(queue, p)
  /\ UNCHANGED <<shake, task, hand, tx, rx, closed>>

Handshake(p, outcome) ==
  /\ status[p] = "queued" /\ shake[p] = "pending" /\ ~closed
  /\ shake' = [shake EXCEPT ![p] = outcome]
  /\ UNCHANGED <<status, queue, task, hand, tx, rx, closed>>

-----------------------------------------------------------------------------
(***************************************************************************)
(* The task.                                                               *)
(***************************************************************************)
TakeNext ==
  /\ task = "next" /\ queue # <<>>
  /\ hand' = Head(queue) /\ queue' = Tail(queue) /\ task' = "handshake"
  /\ UNCHANGED <<status, shake, tx, rx, closed>>

\* quinn_incoming yields None once the endpoint is closed.
BugNeverNone  == FALSE
IncomingEnded == closed /\ queue = <<>>

TakeNone ==
  /\ task = "next" /\ IncomingEnded
  /\ task' = "ended"
  /\ UNCHANGED <<status, shake, queue, hand, tx, rx, closed>>

\* The connection is served from the moment Connection::new has started its
\* listeners, before there is room for it in the channel.
Accept ==
  /\ task = "handshake" /\ shake[hand] = "done"
  /\ task' = "send"
  /\ status' = [status EXCEPT ![hand] = IF closed THEN "over" ELSE "accepted"]
  /\ UNCHANGED <<shake, queue, hand, tx, rx, closed>>

BugFailureEnds == "ended"
AfterFailure   == "next"

Reject ==
  /\ task = "handshake" /\ (shake[hand] = "failed" \/ closed)
  /\ task' = AfterFailure /\ hand' = "none" /\ status' = Closing({hand})
  /\ UNCHANGED <<shake, queue, tx, rx, closed>>

BugUnbounded   == TRUE
ChannelHasRoom == Len(tx) < Capacity

SendConnection ==
  /\ task = "send" /\ rx = "held" /\ ChannelHasRoom
  /\ tx' = Append(tx, hand)
  /\ task' = "next" /\ hand' = "none"
  /\ UNCHANGED <<status, shake, queue, rx, closed>>

\* The receiver was dropped: so is the connection.
BugKeepsConnection == status
DropUnsent         == Closing({hand})

SendConnectionFails ==
  /\ task = "send" /\ rx = "dropped"
  /\ status' = DropUnsent
  /\ task' = "next" /\ hand' = "none"
  /\ UNCHANGED <<shake, queue, tx, rx, closed>>

Task ==
  \/ TakeNext \/ TakeNone \/ Accept \/ Reject
  \/ SendConnection \/ SendConnectionFails

-----------------------------------------------------------------------------
(***************************************************************************)
(* The application, once it has the endpoint.                              *)
(***************************************************************************)
NextConnection ==
  /\ rx = "held" /\ tx # <<>>
  /\ tx' = Tail(tx)
  /\ UNCHANGED <<status, shake, queue, task, hand, rx, closed>>

DropIncomingConnections ==
  /\ rx = "held"
  /\ rx' = "dropped" /\ tx' = <<>> /\ status' = Closing(InChannel)
  /\ UNCHANGED <<shake, queue, task, hand, closed>>

CloseEndpoint ==
  /\ ~closed
  /\ closed' = TRUE /\ status' = Closing(Accepted)
  /\ UNCHANGED <<shake, queue, task, hand, tx, rx>>
=============================================================================
