------------------------------ MODULE Delivery ------------------------------
(***************************************************************************)
(* What sending messages over one connection promises, whatever becomes of *)
(* the streams they travel on (Connection::send at one end and             *)
(* ConnectionIncoming::next at the other, src/src/connection.rs):          *)
(*                                                                         *)
(*  - a message is received at most once, and not before it is sent; one   *)
(*    that is empty is not received but refused, with an error in its      *)
(*    place, and one that is too long is not sent;                         *)
(*  - no message, and no such error, overtakes one whose call returned Ok  *)
(*    before its own call began, or is received in spite of a gap before   *)
(*    it;                                                                  *)
(*  - a call whose message is too long does not return Ok, and no other    *)
(*    fails with Serialization;                                            *)
(*  - a call that fails with Serialization or StreamLost has not sent its  *)
(*    message: it was not received and will not be, so that trying again   *)
(*    does not send it twice.                                              *)
(*                                                                         *)
(* After the other failures (ConnectionLost, Stopped, or a future that was *)
(* dropped) the message may be received or not.                            *)
(***************************************************************************)
EXTENDS Naturals

CONSTANT Calls

VARIABLES
  content,    \* what each message is: "some" bytes, "empty" or too "long"
  status,     \* of each call: "new", "begun", or how it ended
  before,     \* which calls had returned Ok when each call began
  received    \* how often the message of each call was received, or the
              \* error in its place

vars == <<content, status, before, received>>

Received == {c \in Calls : received[c] > 0}

\* How a call ends that has not sent its message.
NotSent == {"Serialization", "StreamLost"}
Results == NotSent \cup {"Ok", "ConnectionLost", "Stopped", "Dropped"}

Init ==
  /\ content \in [Calls -> {"some", "empty", "long"}]
  /\ status = [c \in Calls |-> "new"] /\ before = [c \in Calls |-> {}]
  /\ received = [c \in Calls |-> 0]

Begin(c) ==
  /\ status[c] = "new"
  /\ status' = [status EXCEPT ![c] = "begun"]
  /\ before' = [before EXCEPT ![c] = {d \in Calls : status[d] = "Ok"}]
  /\ UNCHANGED <<content, received>>

End(c, res) ==
  /\ status[c] = "begun"
  /\ res = "Ok" => content[c] # "long"
  /\ res = "Serialization" => content[c] = "long"
  /\ res \in NotSent => c \notin Received
  /\ status' = [status EXCEPT ![c] = res]
  /\ UNCHANGED <<content, before, received>>

Receive(c) ==
  /\ status[c] \notin NotSent \cup {"new"} /\ content[c] # "long"
  /\ received[c] = 0 /\ before[c] \subseteq Received
  /\ received' = [received EXCEPT ![c] = 1]
  /\ UNCHANGED <<content, status, before>>

Next ==
  \E c \in Calls :
    \/ Begin(c) \/ Receive(c)
    \/ \E res \in Results : End(c, res)

Spec == Init /\ [][Next]_vars
=============================================================================
