----------------------------- MODULE Messaging -----------------------------
(***************************************************************************)
(* Both ends of one connection (src/src/connection.rs): calls of send at   *)
(* one end, which run concurrently, and the listener of the other end with *)
(* its application, as in ConnectionIncoming.  It takes the place of the   *)
(* peer that ConnectionIncoming leaves free to send anything.              *)
(*                                                                         *)
(* A message may be empty, which the sender sends and the reader refuses,  *)
(* or too long for a header, which the sender refuses.                     *)
(*                                                                         *)
(* An application may also open a stream with open_uni, send its message   *)
(* with send_user_msg and keep the stream for as long as it likes.         *)
(*                                                                         *)
(* Each end sees the loss of the connection in its own time.  Whether send *)
(* tries again after an error that is not the loss of the connection is    *)
(* left open; ConnectionSend has the back-off, with any receiver.          *)
(***************************************************************************)
EXTENDS ConnectionIncoming

CONSTANTS
  Calls,    \* the calls, each with a message of its own
  Messages, \* what their messages may be: functions from Calls to Contents
  Keepers,  \* those made with open_uni instead of send
  MayDrop   \* the calls whose future may be dropped

Contents == {"some", "empty", "long"}

ASSUME MessagingAssumption ==
  /\ Messages \subseteq [Calls -> Contents]
  /\ Keepers \subseteq Calls /\ MayDrop \subseteq Calls /\ 0 \notin Calls
  /\ NumBi = 0 /\ {"UserMsg", "Malformed"} \subseteq Kinds

VARIABLES
  content,  \* what each message is: some bytes, none, or too many
  lost,     \* has the sending end seen the loss of the connection?
  callPc,   \* control state of each call: new, open, write, kept, finish, done
  result,   \* what each call returned, or "none"
  owner,    \* which call each stream was opened by, or 0
  written,  \* how much of its frame quinn has taken: none, part, whole
  finished, \* was the sending half finished, or dropped?
  stopped,  \* the streams that the peer is known to have stopped
  before    \* which calls had returned Ok when each call began

senderVars == <<lost, callPc, result, owner, written, finished, stopped,
                before>>
allVars    == <<vars, senderVars, content>>

MessagingInit ==
  /\ Init /\ lost = FALSE
  /\ content \in Messages
  /\ callPc = [c \in Calls |-> "new"] /\ result = [c \in Calls |-> "none"]
  /\ owner = [s \in Uni |-> 0] /\ written = [s \in Uni |-> "none"]
  /\ finished = [s \in Uni |-> FALSE] /\ stopped = {}
  /\ before = [c \in Calls |-> {}]

\* The stream of the current attempt of a call, the last it opened.
StreamOf(c) ==
  CHOOSE s \in Uni : owner[s] = c /\ \A t \in Uni : owner[t] = c => t <= s
Unused      == {s \in Uni : owner[s] = 0}

-----------------------------------------------------------------------------
(***************************************************************************)
(* send_with and send_uni.                                                 *)
(***************************************************************************)
Goes(c, pc) == callPc' = [callPc EXCEPT ![c] = pc]

Returns(c, res) ==
  /\ Goes(c, "done") /\ result' = [result EXCEPT ![c] = res]
  /\ UNCHANGED <<lost, stopped, before>>

BeginCall(c) ==
  /\ callPc[c] = "new"
  /\ Goes(c, "open")
  /\ before' = [before EXCEPT ![c] = {d \in Calls : result[d] = "Ok"}]
  /\ UNCHANGED <<lost, result, owner, written, finished, stopped>>

\* open_uni takes the next stream.
OpenUni(c) ==
  /\ callPc[c] = "open"
  /\ \/ lost /\ Returns(c, "ConnectionLost") /\ UNCHANGED owner
     \/ /\ ~lost
        /\ \E s \in Unused :
             /\ \A t \in Unused : s <= t
             /\ owner' = [owner EXCEPT ![s] = c]
        /\ Goes(c, "write") /\ UNCHANGED <<lost, result, stopped, before>>
  /\ UNCHANGED <<written, finished>>

\* An attempt that fails drops its stream, which finishes it.  send may try
\* again, except after the loss of the connection.  The streams bound the
\* attempts.
Fails(c, error) ==
  /\ finished' = [finished EXCEPT ![StreamOf(c)] = TRUE]
  /\ \/ Returns(c, error)
     \/ /\ c \notin Keepers /\ Unused # {}
        /\ Goes(c, "open") /\ UNCHANGED <<lost, result, stopped, before>>

\* write_to_stream makes the header, which fails for a message that is too
\* long, and writes it and the message in any number of pieces.
Write(c) ==
  /\ callPc[c] = "write"
  /\ LET s == StreamOf(c) IN
     \/ /\ content[c] = "long"
        /\ Fails(c, "Serialization") /\ UNCHANGED written
     \/ /\ content[c] # "long" /\ lost
        /\ Returns(c, "ConnectionLost") /\ UNCHANGED <<written, finished>>
     \/ /\ content[c] # "long" /\ ~lost /\ s \in stopped
        /\ Fails(c, "StreamLost") /\ UNCHANGED written
     \/ /\ content[c] # "long" /\ ~lost /\ s \notin stopped
        /\ written[s] = "none"
        /\ written' = [written EXCEPT ![s] = "part"]
        /\ UNCHANGED <<lost, callPc, result, finished, stopped, before>>
     \/ /\ content[c] # "long" /\ ~lost /\ s \notin stopped
        /\ written' = [written EXCEPT ![s] = "whole"]
        /\ IF c \in Keepers
             THEN Goes(c, "kept") /\ UNCHANGED finished
             ELSE Goes(c, "finish") /\ finished' = [finished EXCEPT ![s] = TRUE]
        /\ UNCHANGED <<lost, result, stopped, before>>
  /\ UNCHANGED owner

\* The application finishes a stream it has kept.
FinishKept(c) ==
  /\ callPc[c] = "kept"
  /\ Goes(c, "finish")
  /\ finished' = [finished EXCEPT ![StreamOf(c)] = TRUE]
  /\ UNCHANGED <<lost, result, owner, written, stopped, before>>

\* finish returns once everything was acknowledged.  That the peer has stopped
\* the stream is an error of finish, which send_uni ignores.
BugNoAck(s) == finished[s]
Acked(s) == ending[s] = "finished"

Finish(c) ==
  /\ callPc[c] = "finish"
  /\ \/ Acked(StreamOf(c)) /\ Returns(c, "Ok")
     \/ /\ StreamOf(c) \in stopped
        /\ Returns(c, IF c \in Keepers THEN "Stopped" ELSE "Ok")
     \/ lost /\ Returns(c, "ConnectionLost")
  /\ UNCHANGED <<owner, written, finished>>

\* The future of a call is dropped, and with it the stream, which finishes it.
DropCall(c) ==
  /\ c \in MayDrop /\ callPc[c] \in {"open", "write", "kept", "finish"}
  /\ Returns(c, "Dropped")
  /\ finished' = [s \in Uni |-> finished[s] \/ owner[s] = c]
  /\ UNCHANGED <<owner, written>>

SenderLoses ==
  /\ Losses # {} \/ conn # "Alive"
  /\ ~lost
  /\ lost' = TRUE
  /\ UNCHANGED <<callPc, result, owner, written, finished, stopped, before>>

\* The peer has dropped its end of the stream before the end of the data.
StopArrives ==
  /\ ~lost /\ conn = "Alive"
  /\ \E s \in Uni : /\ half[s] = "dropped" /\ ending[s] = "open"
                     /\ s \notin stopped /\ stopped' = stopped \cup {s}
  /\ UNCHANGED <<lost, callPc, result, owner, written, finished, before>>

-----------------------------------------------------------------------------
(***************************************************************************)
(* quinn takes to the other end what was written, in order on each stream, *)
(* though streams may overtake each other.  read_from_stream refuses the   *)
(* frame of an empty message as it does one that does not decode.          *)
(***************************************************************************)
Frame(c) == IF content[c] = "empty" THEN "Malformed" ELSE "UserMsg"

Arrives(s) ==
  \/ (written[s] # "none" \/ finished[s]) /\ PeerOpen(s)
  \/ written[s] # "none" /\ inbox[s] = <<>> /\ PeerSendPart(s)
  \/ written[s] = "whole" /\ inbox[s] = <<>> /\ PeerSend(s, Frame(owner[s]))
  \/ /\ finished[s] /\ PeerFinish(s)
     /\ written[s] = "part" => partial[s]
     /\ written[s] = "whole" => inbox[s] # <<>>

Net == \E s \in Uni : Arrives(s)

ReceiverLoses == \E e \in Losses : ConnLost(e)

Call(c) == OpenUni(c) \/ Write(c) \/ Finish(c)

Sender ==
  \/ \E c \in Calls : BeginCall(c) \/ Call(c) \/ FinishKept(c) \/ DropCall(c)
  \/ SenderLoses \/ StopArrives

Listener == UniStep \/ UniSend \/ BiStep

Receiving == \E keep \in BOOLEAN : Recv(keep)

MessagingNext ==
  /\ \/ Sender /\ UNCHANGED vars
     \/ /\ Net \/ Listener \/ ReceiverLoses \/ ImplicitClose \/ App
        /\ UNCHANGED senderVars
  /\ UNCHANGED content

MessagingSpec == MessagingInit /\ [][MessagingNext]_allVars

(***************************************************************************)
(* Fairness: the calls are polled, quinn delivers what was written as long *)
(* as the connection lasts, the listeners run, the application goes on     *)
(* receiving, and a connection that is lost at one end times out at the    *)
(* other.  Each of these can take only so many steps, so that none of them *)
(* starves another.  Nobody has to finish a stream that is kept.           *)
(***************************************************************************)
Sending == \E c \in Calls : Call(c)

Progress ==
  /\ UNCHANGED content
  /\ \/ UNCHANGED vars /\ Sending
     \/ /\ UNCHANGED senderVars
        /\ Net \/ Listener \/ Receiving \/ (lost /\ ReceiverLoses)

FairMessaging == MessagingSpec /\ WF_allVars(Progress)

\* Those who keep a stream finish it in the end.
FairKeepers ==
  MessagingSpec /\ WF_allVars(Progress \/ \E c \in Keepers :
                                UNCHANGED <<vars, content>> /\ FinishKept(c))

-----------------------------------------------------------------------------
\* As long as the receiving application keeps one of its handles, its listener
\* gives a stream up with a frame of it in hand only: a sender learns that its
\* stream was stopped inside a message, and send fails with StreamLost or sends
\* the message again, only once both handles are dropped.
StopsBehindMessage ==
  /\ \A s \in stopped : written[s] = "whole" \/ HandlesDropped
  /\ \A c \in Calls : result[c] = "StreamLost" => HandlesDropped

\* When the message of a call was received, or the error that an empty one is
\* refused with.  An error about a frame that was read counts, not one about a
\* frame that was cut.
Outcome(c) == IF content[c] = "empty" THEN "Serialization" ELSE "UserMsg"
Deliveries(c) ==
  {i \in 1 .. taken : /\ log[i].res = Outcome(c)
                      /\ owner[log[i].stream] = c
                      /\ log[i].idx <= pos[log[i].stream]}
Received(c) == Deliveries(c) # {}

\* However calls, streams, losses and drops interleave, sending keeps the
\* promises of Delivery.
Delivers == INSTANCE Delivery WITH
  status   <- [c \in Calls |-> IF callPc[c] = "new" THEN "new"
                               ELSE IF result[c] = "none" THEN "begun"
                               ELSE result[c]],
  received <- [c \in Calls |-> Cardinality(Deliveries(c))]

DeliveryKept == Delivers!Spec

\* In the end every message whose call returned Ok is received, or reported as
\* refused if it is empty, by an application that keeps receiving, unless the
\* connection fails, or ends while a message on an earlier stream is cut in two.
CutBefore(c) == \E s, t \in Uni : partial[s] /\ s < t /\ owner[t] = c

OkReceived ==
  []<>(\A c \in Calls : result[c] = "Ok" =>
         \/ Received(c) \/ ~rxOpen
         \/ conn # "Alive" /\ (~Benign(conn) \/ CutBefore(c)))

\* A message is at last received or not sent with success: the claim of the
\* README (README.md:50), that every message sent with this library has
\* 'at least once' delivery, as long as the connection lasts and the application
\* goes on receiving.
AtLeastOnce ==
  \A c \in Calls :
    (result[c] = "Ok") ~> (Received(c) \/ ~rxOpen \/ conn # "Alive")
=============================================================================
