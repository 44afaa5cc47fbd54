------------------------- MODULE ConnectionIncoming -------------------------
(***************************************************************************)
(* The receiving side of one connection (src/src/connection.rs):           *)
(*                                                                         *)
(*  - listen_on_uni_streams, a task that flattens the incoming             *)
(*    unidirectional streams one after the other;                          *)
(*  - listen_on_bi_streams, a task that runs one handler per incoming      *)
(*    bidirectional stream, all of them concurrently;                      *)
(*  - the bounded channel both send their results to;                      *)
(*  - the application, which receives from the channel with next or        *)
(*    next_with_stream, answers on the streams it was given, and drops     *)
(*    the two handles Connection and ConnectionIncoming in any order.      *)
(*                                                                         *)
(* quinn, the QUIC implementation, is external: it is modelled by what it  *)
(* hands to this code.  The peer opens streams, whole frames or a part of  *)
(* one arrive on them, and they are finished or reset; the connection ends *)
(* at any moment with one of the quinn errors.  A frame is a message as    *)
(* WireMsg::read_from_stream sees it once all its bytes are there, and is  *)
(* identified by its stream and its position in that stream.               *)
(***************************************************************************)
EXTENDS Integers, Sequences, FiniteSets, ConnectionErrors

CONSTANTS
  NumUni,      \* how many unidirectional streams the peer may open
  NumBi,       \* how many bidirectional streams the peer may open
  MaxFrames,   \* how many frames the peer may send on all streams
  ChanCap,     \* INCOMING_MESSAGE_BUFFER_LEN
  Kinds,       \* the kinds of frame the peer sends
  Losses,      \* the errors the connection may be lost with
  PeerMay,     \* what else the peer does: send parts, finish, reset
  AppMay       \* what the application does besides receiving

FrameKinds ==
  {"UserMsg", "EchoReq", "VerificationReq", "Response", "Malformed"}

PeerChoices == {"part", "finish", "reset"}
AppChoices  == {"keep", "drop", "close"}

ASSUME ConstantsAssumption ==
  /\ NumUni \in Nat
  /\ NumBi \in Nat
  /\ MaxFrames \in Nat
  /\ ChanCap \in Nat \ {0}
  /\ Kinds \subseteq FrameKinds
  /\ Losses \subseteq QuinnErrors
  /\ PeerMay \subseteq PeerChoices
  /\ AppMay \subseteq AppChoices

Uni     == 1 .. NumUni
Bi      == NumUni + 1 .. NumUni + NumBi
Streams == 1 .. NumUni + NumBi

VARIABLES
  conn,      \* "Alive", or the quinn error the connection ended with
  half,      \* the receiving half of each stream
  inbox,     \* the complete frames that arrived on each stream
  partial,   \* have some bytes of a further frame arrived?
  ending,    \* how the peer ended each stream
  pos,       \* how many frames have been read from each stream
  uniPc,     \* control state of listen_on_uni_streams
  uniCur,    \* the stream it is reading, or 0
  biPc,      \* control state of listen_on_bi_streams
  task,      \* control state of each handler of a bidirectional stream
  item,      \* what each task (0: the uni listener) has in hand
  lock,      \* owner of the mutex around the sending half of each stream
  replies,   \* the replies the handlers wrote, or failed to write
  log,       \* everything ever put in the channel
  taken,     \* how much of log the application has received
  eos,       \* has next returned None?
  rxOpen,    \* is ConnectionIncoming alive?
  txOpen,    \* is a Connection alive?
  held       \* does the application hold the sending half of the stream?

quinnVars == <<conn, inbox, partial, ending>>
uniVars   == <<uniPc, uniCur>>
biVars    == <<biPc, task, lock, replies>>
chanVars  == <<log, taken, eos>>
appVars   == <<rxOpen, txOpen, held>>
vars      == <<quinnVars, half, pos, uniVars, biVars, item, chanVars, appVars>>

-----------------------------------------------------------------------------
\* A result as it travels through the channel, or a request in hand.
Results == {"UserMsg", "Serialization", "StreamLost", "ConnectionLost"}
Item(res, s, k) == [res |-> res, stream |-> s, idx |-> k]
NoItem          == Item("None", 0, 0)
Items == [res    : Results \cup {"None", "EchoReq", "VerificationReq"},
          stream : Streams \cup {0},
          idx    : Nat]

ReplyKinds == {"EchoResp", "Valid", "Invalid", "Failed"}

QuinnTypeOK ==
  /\ conn \in QuinnErrors \cup {"Alive"}
  /\ half \in [Streams -> {"unopened", "queued", "open", "eof", "dropped"}]
  /\ inbox \in [Streams -> Seq(FrameKinds)]
  /\ partial \in [Streams -> BOOLEAN]
  /\ ending \in [Streams -> {"open", "finished", "reset"}]

ReadTypeOK ==
  /\ pos \in [Streams -> Nat]
  /\ \A s \in Streams : pos[s] <= Len(inbox[s])

ListenerTypeOK ==
  /\ uniPc \in {"next", "send", "done"}
  /\ uniCur \in Uni \cup {0}
  /\ biPc \in {"running", "draining", "done"}
  /\ task \in [Bi -> {"idle", "read", "send", "lock", "reply", "end"}]
  /\ item \in [Bi \cup {0} -> Items]
  /\ lock \in [Bi -> {"free", "handler", "app"}]
  /\ replies \in [Bi -> Seq([to : Nat, res : ReplyKinds])]

ChanTypeOK ==
  /\ log \in Seq(Items)
  /\ taken \in 0 .. Len(log)
  /\ Len(log) - taken <= ChanCap

AppTypeOK ==
  /\ eos \in BOOLEAN /\ rxOpen \in BOOLEAN /\ txOpen \in BOOLEAN
  /\ held \in [Bi -> BOOLEAN]

\* The variables have their types, reading never runs ahead of what arrived,
\* and the channel never holds more than INCOMING_MESSAGE_BUFFER_LEN results.
TypeOK ==
  QuinnTypeOK /\ ReadTypeOK /\ ListenerTypeOK /\ ChanTypeOK /\ AppTypeOK

\* Connection::new and ConnectionIncoming::new: both handles exist, both
\* listeners are spawned, and nothing has arrived.
Init ==
  /\ conn = "Alive"
  /\ half = [s \in Streams |-> "unopened"]
  /\ inbox = [s \in Streams |-> <<>>]
  /\ partial = [s \in Streams |-> FALSE]
  /\ ending = [s \in Streams |-> "open"]
  /\ pos = [s \in Streams |-> 0]
  /\ uniPc = "next" /\ uniCur = 0
  /\ biPc = "running"
  /\ task = [b \in Bi |-> "idle"]
  /\ item = [t \in Bi \cup {0} |-> NoItem]
  /\ lock = [b \in Bi |-> "free"]
  /\ replies = [b \in Bi |-> <<>>]
  /\ log = <<>> /\ taken = 0 /\ eos = FALSE
  /\ rxOpen = TRUE /\ txOpen = TRUE
  /\ held = [b \in Bi |-> FALSE]

-----------------------------------------------------------------------------
(***************************************************************************)
(* quinn and the peer.                                                     *)
(***************************************************************************)
ListenersUnchanged ==
  UNCHANGED <<pos, uniVars, biVars, item, chanVars, appVars>>

\* Seeing a stream opens every earlier stream of its direction as well: QUIC
\* numbers streams, and quinn yields them in that order.
PeerOpen(s) ==
  /\ conn = "Alive" /\ half[s] = "unopened"
  /\ half' = [t \in Streams |->
                IF half[t] = "unopened" /\ t <= s /\ (t \in Uni <=> s \in Uni)
                  THEN "queued" ELSE half[t]]
  /\ UNCHANGED quinnVars /\ ListenersUnchanged

Arriving(s) ==
  conn = "Alive" /\ half[s] \in {"queued", "open"} /\ ending[s] = "open"

\* Bound on what arrives.
MoreFrames ==
  Cardinality(UNION {{s} \X DOMAIN inbox[s] : s \in Streams}) < MaxFrames

\* The (remaining) bytes of one frame arrive.
PeerSend(s, kind) ==
  /\ Arriving(s) /\ MoreFrames
  /\ inbox' = [inbox EXCEPT ![s] = Append(@, kind)]
  /\ partial' = [partial EXCEPT ![s] = FALSE]
  /\ UNCHANGED <<conn, half, ending>> /\ ListenersUnchanged

\* Some but not all of the bytes of a frame arrive.
PeerSendPart(s) ==
  /\ "part" \in PeerMay
  /\ Arriving(s) /\ ~partial[s] /\ MoreFrames
  /\ partial' = [partial EXCEPT ![s] = TRUE]
  /\ UNCHANGED <<conn, half, inbox, ending>> /\ ListenersUnchanged

PeerFinish(s) ==
  /\ "finish" \in PeerMay
  /\ Arriving(s)
  /\ ending' = [ending EXCEPT ![s] = "finished"]
  /\ UNCHANGED <<conn, half, inbox, partial>> /\ ListenersUnchanged

\* A reset discards what has arrived on the stream and was not read yet.
PeerReset(s) ==
  /\ "reset" \in PeerMay
  /\ Arriving(s)
  /\ ending' = [ending EXCEPT ![s] = "reset"]
  /\ inbox' = [inbox EXCEPT ![s] = SubSeq(@, 1, pos[s])]
  /\ partial' = [partial EXCEPT ![s] = FALSE]
  /\ UNCHANGED <<conn, half>> /\ ListenersUnchanged

\* The connection ends: nothing arrives any more, what arrived stays readable.
ConnLost(e) ==
  /\ conn = "Alive"
  /\ conn' = e
  /\ UNCHANGED <<half, inbox, partial, ending>> /\ ListenersUnchanged

\* What keeps the quinn connection open: a Connection, the stream sources of
\* the listeners, and every sending half the application holds or that waits
\* in the channel.
InUse ==
  \/ txOpen \/ uniPc # "done" \/ biPc # "done"
  \/ \E b \in Bi : held[b]
  \/ rxOpen /\ \E i \in taken + 1 .. Len(log) :
                 log[i].res = "UserMsg" /\ log[i].stream \in Bi

\* quinn closes a connection whose last handle is dropped.
ImplicitClose == ~InUse /\ ConnLost("LocallyClosed")

-----------------------------------------------------------------------------
(***************************************************************************)
(* What both listeners use.  Definitions named Bug... are mutants: each is *)
(* a plausible mistake in the definition that follows, which some property *)
(* below has to catch.                                                     *)
(***************************************************************************)

\* WireMsg::read_from_stream at the granularity of frames: one that arrived is
\* read whole.  Once all are read, the result depends on how the stream or the
\* connection ended.  Only the first read of a frame takes a benign loss of
\* the connection for the end of the stream.
BugBoundaryLossIsError(s) == "ConnectionLost"
BugBenignLossIsEnd(s)     == IF Benign(conn) THEN "None" ELSE "ConnectionLost"
ReadAfterLoss(s) ==
  IF Benign(conn) /\ ~partial[s] THEN "None" ELSE "ConnectionLost"

read_from_stream(s) ==
  CASE pos[s] < Len(inbox[s]) -> inbox[s][pos[s] + 1]
    [] pos[s] = Len(inbox[s]) /\ half[s] = "eof" -> "None"
    [] pos[s] = Len(inbox[s]) /\ half[s] # "eof" ->
         IF ending[s] = "reset" THEN "StreamLost"
         ELSE IF ending[s] = "finished"
                THEN IF partial[s] THEN "Serialization" ELSE "None"
         ELSE IF conn = "Alive" THEN "Pending" ELSE ReadAfterLoss(s)

ReadErrors == {"Serialization", "StreamLost", "ConnectionLost"}

BugRereads(s) == UNCHANGED pos
Advance(s) == pos' = [pos EXCEPT ![s] = @ + 1]

Drop(s) == half' = [half EXCEPT ![s] = "dropped"]

\* Task t has a result in hand, about the next frame of stream s.
Hand(t, res, s) == item' = [item EXCEPT ![t] = Item(res, s, pos[s] + 1)]

\* message_tx.send: waits for room while the receiver is alive, fails once it
\* is dropped.
BugUnbounded == rxOpen
ChanHasRoom  == rxOpen /\ Len(log) - taken < ChanCap
BugTrySend   == ~ChanHasRoom
ChanClosed   == ~rxOpen

\* FilterBenignClose around the source of the streams in S: it yields those
\* that were opened, in order, then None after a benign loss of the connection
\* and the error after any other.
BugReservesFirst(S, s) == half[s] = "queued" /\ ChanHasRoom
FirstQueued(S, s) ==
  half[s] = "queued" /\ \A t \in S : t < s => half[t] # "queued"

Exhausted(S) == conn # "Alive" /\ \A s \in S : half[s] # "queued"

BugForgetsQueued(S)   == conn # "Alive" /\ Benign(conn)
BugAllLossesBenign(S) == Exhausted(S)
BugOnlyLocalClose(S)  == Exhausted(S) /\ conn = "LocallyClosed"
SourceEnds(S)  == Exhausted(S) /\ Benign(conn)
SourceFails(S) == Exhausted(S) /\ ~Benign(conn)

Sent(t) ==
  /\ ChanHasRoom
  /\ log' = Append(log, item[t])
  /\ item' = [item EXCEPT ![t] = NoItem]
  /\ UNCHANGED <<taken, eos>>

\* alive_rx.changed() fails: both handles are dropped.
BugWatchesConnection  == ~txOpen
BugWatchesIncoming    == ~rxOpen
BugFinishesStream     == ~rxOpen /\ ~txOpen /\ uniCur = 0
NotAlive == ~rxOpen /\ ~txOpen

-----------------------------------------------------------------------------
(***************************************************************************)
(* listen_on_uni_streams.                                                  *)
(***************************************************************************)

\* try_flatten takes the next stream only when the previous one has ended.
UniAccept(s) ==
  /\ uniPc = "next" /\ uniCur = 0 /\ FirstQueued(Uni, s)
  /\ uniCur' = s
  /\ half' = [half EXCEPT ![s] = "open"]
  /\ UNCHANGED <<quinnVars, pos, uniPc, biVars, item, chanVars, appVars>>

UniSourceEnds ==
  /\ uniPc = "next" /\ uniCur = 0 /\ SourceEnds(Uni)
  /\ uniPc' = "done"
  /\ UNCHANGED <<quinnVars, half, pos, uniCur, biVars, item, chanVars,
                 appVars>>

UniSourceFails ==
  /\ uniPc = "next" /\ uniCur = 0 /\ SourceFails(Uni)
  /\ item' = [item EXCEPT ![0] = Item("ConnectionLost", 0, 0)]
  /\ uniPc' = "send"
  /\ UNCHANGED <<quinnVars, half, pos, uniCur, biVars, chanVars, appVars>>

UniReads(results) ==
  uniPc = "next" /\ uniCur # 0 /\ read_from_stream(uniCur) \in results

UniReadMsg ==
  /\ UniReads({"UserMsg"})
  /\ Hand(0, "UserMsg", uniCur)
  /\ Advance(uniCur)
  /\ uniPc' = "send"
  /\ UNCHANGED <<quinnVars, half, uniCur, biVars, chanVars, appVars>>

UniReadEnd ==
  /\ UniReads({"None"})
  /\ Drop(uniCur)
  /\ uniCur' = 0
  /\ UNCHANGED <<quinnVars, pos, uniPc, biVars, item, chanVars, appVars>>

\* Any other message is unexpected on a unidirectional stream.  try_unfold
\* gives the stream up after its first error, whatever follows on it.
UniReadOther ==
  /\ UniReads(FrameKinds \ {"UserMsg"})
  /\ Hand(0, "Serialization", uniCur)
  /\ Advance(uniCur) /\ Drop(uniCur)
  /\ uniPc' = "send" /\ uniCur' = 0
  /\ UNCHANGED <<quinnVars, biVars, chanVars, appVars>>

UniReadFails ==
  /\ UniReads(ReadErrors)
  /\ Hand(0, read_from_stream(uniCur), uniCur)
  /\ Drop(uniCur)
  /\ uniPc' = "send" /\ uniCur' = 0
  /\ UNCHANGED <<quinnVars, pos, biVars, chanVars, appVars>>

\* When the task ends it drops the stream it was reading.
UniStop ==
  /\ uniPc' = "done" /\ uniCur' = 0
  /\ half' = [s \in Streams |-> IF s = uniCur THEN "dropped" ELSE half[s]]

\* The result is sent; the loop ends after the loss of the connection.
UniSend ==
  /\ uniPc = "send" /\ Sent(0)
  /\ IF item[0].res = "ConnectionLost"
       THEN UniStop
       ELSE uniPc' = "next" /\ UNCHANGED <<uniCur, half>>
  /\ UNCHANGED <<quinnVars, pos, biVars, appVars>>

\* The receiver is gone: the result is lost and the loop ends.
UniSendFails ==
  /\ uniPc = "send" /\ ChanClosed
  /\ item' = [item EXCEPT ![0] = NoItem]
  /\ UniStop
  /\ UNCHANGED <<quinnVars, pos, biVars, chanVars, appVars>>

UniNotAlive ==
  /\ uniPc = "next" /\ NotAlive
  /\ UniStop
  /\ UNCHANGED <<quinnVars, pos, biVars, item, chanVars, appVars>>

-----------------------------------------------------------------------------
(***************************************************************************)
(* listen_on_bi_streams: try_for_each_concurrent over the streams, each    *)
(* with a handler of its own.                                              *)
(***************************************************************************)
Goto(b, pc) == task' = [task EXCEPT ![b] = pc]

BiAccept(b) ==
  /\ biPc = "running" /\ FirstQueued(Bi, b)
  /\ half' = [half EXCEPT ![b] = "open"]
  /\ Goto(b, "read")
  /\ UNCHANGED <<quinnVars, pos, uniVars, biPc, lock, replies, item, chanVars,
                 appVars>>

\* A benign loss ends the source; the handlers are run to completion.
BiSourceEnds ==
  /\ biPc = "running" /\ SourceEnds(Bi)
  /\ biPc' = "draining"
  /\ UNCHANGED <<quinnVars, half, pos, uniVars, task, lock, replies, item,
                 chanVars, appVars>>

BiDrained ==
  /\ biPc = "draining" /\ \A b \in Bi : task[b] \in {"idle", "end"}
  /\ biPc' = "done"
  /\ UNCHANGED <<quinnVars, half, pos, uniVars, task, lock, replies, item,
                 chanVars, appVars>>

\* The task ends and drops the handlers that are still running, with what
\* they have in hand and the mutexes they own.
LocksReleased == [b \in Bi |-> IF lock[b] = "handler" THEN "free" ELSE lock[b]]

BiStop ==
  /\ biPc' = "done"
  /\ task' = [b \in Bi |-> IF task[b] = "idle" THEN "idle" ELSE "end"]
  /\ half' = [s \in Streams |->
                IF s \in Bi /\ half[s] \in {"open", "eof"}
                  THEN "dropped" ELSE half[s]]
  /\ item' = [t \in Bi \cup {0} |-> IF t = 0 THEN item[0] ELSE NoItem]
  /\ lock' = LocksReleased
  /\ UNCHANGED <<quinnVars, pos, uniVars, replies, chanVars, appVars>>

\* Any other loss is an error of the source: it ends the task at once, and is
\* not put in the channel.
BiSourceFails == biPc = "running" /\ SourceFails(Bi) /\ BiStop

BiNotAlive == biPc # "done" /\ NotAlive /\ BiStop

BiReads(b, results) == task[b] = "read" /\ read_from_stream(b) \in results

BiReadEnd(b) ==
  /\ BiReads(b, {"None"})
  /\ Goto(b, "end") /\ Drop(b)
  /\ UNCHANGED <<quinnVars, pos, uniVars, biPc, lock, replies, item, chanVars,
                 appVars>>

\* A message, or the error of a frame that does not decode, is to be sent.
BiReadFrame(b) ==
  /\ BiReads(b, {"UserMsg", "Malformed"})
  /\ Hand(b, IF read_from_stream(b) = "UserMsg" THEN "UserMsg"
             ELSE "Serialization", b)
  /\ Goto(b, "send") /\ Advance(b)
  /\ UNCHANGED <<quinnVars, half, uniVars, biPc, lock, replies, chanVars,
                 appVars>>

\* So is the error a stream ended with, after which quinn reports its end.
BiReadFails(b) ==
  /\ BiReads(b, ReadErrors)
  /\ Hand(b, read_from_stream(b), b)
  /\ Goto(b, "send")
  /\ half' = IF read_from_stream(b) = "ConnectionLost" THEN half
             ELSE [half EXCEPT ![b] = "eof"]
  /\ UNCHANGED <<quinnVars, pos, uniVars, biPc, lock, replies, chanVars,
                 appVars>>

\* The handler reads on after an error, except the loss of the connection.
BiSend(b) ==
  /\ task[b] = "send" /\ Sent(b)
  /\ IF item[b].res = "ConnectionLost"
       THEN Goto(b, "end") /\ Drop(b)
       ELSE Goto(b, "read") /\ UNCHANGED half
  /\ UNCHANGED <<quinnVars, pos, uniVars, biPc, lock, replies, appVars>>

BiSendFails(b) ==
  /\ task[b] = "send" /\ ChanClosed
  /\ item' = [item EXCEPT ![b] = NoItem]
  /\ Goto(b, "end") /\ Drop(b)
  /\ UNCHANGED <<quinnVars, pos, uniVars, biPc, lock, replies, chanVars,
                 appVars>>

\* A response is not expected here: the handler warns and reads on.
BiReadResponse(b) ==
  /\ BiReads(b, {"Response"})
  /\ Advance(b)
  /\ UNCHANGED <<quinnVars, half, uniVars, biVars, item, chanVars, appVars>>

BiReadReq(b) ==
  /\ BiReads(b, {"EchoReq", "VerificationReq"})
  /\ Hand(b, read_from_stream(b), b)
  /\ Goto(b, "lock") /\ Advance(b)
  /\ UNCHANGED <<quinnVars, half, uniVars, biPc, lock, replies, chanVars,
                 appVars>>

\* arc_mutex.lock().await: the mutex is held while the request is handled.
BugTryLock(b) ==
  /\ task[b] = "lock"
  /\ IF lock[b] = "free"
       THEN Goto(b, "reply") /\ lock' = [lock EXCEPT ![b] = "handler"]
                             /\ UNCHANGED item
       ELSE Goto(b, "read") /\ item' = [item EXCEPT ![b] = NoItem]
                            /\ UNCHANGED lock
  /\ UNCHANGED <<quinnVars, half, pos, uniVars, biPc, replies, chanVars, appVars>>
BiLock(b) ==
  /\ task[b] = "lock" /\ lock[b] = "free"
  /\ lock' = [lock EXCEPT ![b] = "handler"]
  /\ Goto(b, "reply")
  /\ UNCHANGED <<quinnVars, half, pos, uniVars, biPc, replies, item, chanVars,
                 appVars>>

\* handle_endpoint_echo and handle_endpoint_verification: any address may or
\* may not turn out to be reachable in time, and the reply cannot be written
\* if the connection is lost or the peer stopped the stream.  A failure is
\* only logged.
Answers(req) == IF req = "EchoReq" THEN {"EchoResp"} ELSE {"Valid", "Invalid"}

BiReply(b) ==
  /\ task[b] = "reply"
  /\ \E res \in {"Failed"} \cup
                (IF conn = "Alive" THEN Answers(item[b].res) ELSE {}) :
       replies' = [replies EXCEPT ![b] =
                     Append(@, [to |-> item[b].idx, res |-> res])]
  /\ item' = [item EXCEPT ![b] = NoItem]
  /\ lock' = [lock EXCEPT ![b] = "free"]
  /\ Goto(b, "read")
  /\ UNCHANGED <<quinnVars, half, pos, uniVars, biPc, chanVars, appVars>>

-----------------------------------------------------------------------------
(***************************************************************************)
(* The application.                                                        *)
(***************************************************************************)

\* next and next_with_stream: the second returns the sending half of a
\* bidirectional stream together with the message, the first drops it.
Recv(keep) ==
  /\ rxOpen /\ taken < Len(log)
  /\ keep => "keep" \in AppMay
  /\ taken' = taken + 1
  /\ LET r == log[taken + 1] IN
       held' = [b \in Bi |-> held[b] \/ /\ keep
                                        /\ r.res = "UserMsg" /\ r.stream = b]
  /\ UNCHANGED <<quinnVars, half, pos, uniVars, biVars, item, log, eos, rxOpen,
                 txOpen>>

\* The channel is closed and empty once both listeners have dropped their
\* sender and everything sent was received.
RecvNone ==
  /\ rxOpen /\ ~eos /\ taken = Len(log)
  /\ uniPc = "done" /\ biPc = "done"
  /\ eos' = TRUE
  /\ UNCHANGED <<quinnVars, half, pos, uniVars, biVars, item, log, taken,
                 appVars>>

DropIncoming ==
  /\ "drop" \in AppMay
  /\ rxOpen
  /\ rxOpen' = FALSE
  /\ UNCHANGED <<quinnVars, half, pos, uniVars, biVars, item, chanVars, txOpen,
                 held>>

DropConnection ==
  /\ "drop" \in AppMay
  /\ txOpen
  /\ txOpen' = FALSE
  /\ UNCHANGED <<quinnVars, half, pos, uniVars, biVars, item, chanVars, rxOpen,
                 held>>

\* Connection::close.
Close ==
  /\ "close" \in AppMay
  /\ txOpen /\ ConnLost("LocallyClosed")

\* The application answers on a stream it was given, under the mutex.
AppLock(b) ==
  /\ held[b] /\ lock[b] = "free"
  /\ lock' = [lock EXCEPT ![b] = "app"]
  /\ UNCHANGED <<quinnVars, half, pos, uniVars, biPc, task, replies, item,
                 chanVars, appVars>>

AppUnlock(b) ==
  /\ lock[b] = "app"
  /\ lock' = [lock EXCEPT ![b] = "free"]
  /\ UNCHANGED <<quinnVars, half, pos, uniVars, biPc, task, replies, item,
                 chanVars, appVars>>

DropStream(b) ==
  /\ held[b] /\ lock[b] # "app"
  /\ held' = [held EXCEPT ![b] = FALSE]
  /\ UNCHANGED <<quinnVars, half, pos, uniVars, biVars, item, chanVars, rxOpen,
                 txOpen>>

-----------------------------------------------------------------------------
Peer ==
  \/ \E s \in Streams :
       \/ PeerOpen(s)
       \/ \E k \in Kinds : PeerSend(s, k)
       \/ PeerSendPart(s)
       \/ PeerFinish(s)
       \/ PeerReset(s)
  \/ \E e \in Losses : ConnLost(e)

UniStep ==
  \/ \E s \in Uni : UniAccept(s)
  \/ UniSourceEnds \/ UniSourceFails
  \/ UniReadMsg \/ UniReadEnd \/ UniReadOther \/ UniReadFails
  \/ UniSendFails \/ UniNotAlive

BiStep ==
  \/ \E b \in Bi : BiAccept(b)
  \/ BiSourceEnds \/ BiDrained \/ BiSourceFails \/ BiNotAlive

Handler(b) ==
  \/ BiReadEnd(b) \/ BiReadFrame(b) \/ BiReadFails(b)
  \/ BiReadResponse(b) \/ BiReadReq(b) \/ BiSendFails(b)

App ==
  \/ \E keep \in BOOLEAN : Recv(keep)
  \/ RecvNone \/ DropIncoming \/ DropConnection \/ Close
  \/ \E b \in Bi : AppLock(b) \/ AppUnlock(b) \/ DropStream(b)

Next ==
  \/ Peer \/ ImplicitClose
  \/ UniStep \/ UniSend
  \/ BiStep
  \/ \E b \in Bi : Handler(b) \/ BiSend(b) \/ BiLock(b) \/ BiReply(b)
  \/ App

Spec == Init /\ [][Next]_vars

(***************************************************************************)
(* Fairness.  tokio polls every task that can run, so the steps of the     *)
(* listeners are weakly fair.  The permits of an mpsc channel and the      *)
(* tokio mutex are handed out in the order of arrival, so waiting for them *)
(* is strongly fair.  handle_endpoint_verification is bounded by its       *)
(* timeout and a blocked write by the end of the connection.               *)
(***************************************************************************)
ListenerFairness ==
  /\ WF_vars(ImplicitClose)
  /\ WF_vars(UniStep) /\ SF_vars(UniSend)
  /\ WF_vars(BiStep)
  /\ \A b \in Bi : /\ WF_vars(Handler(b)) /\ WF_vars(BiReply(b))
                   /\ SF_vars(BiSend(b)) /\ SF_vars(BiLock(b))
                   /\ WF_vars(AppUnlock(b))

\* An application that keeps receiving, until it drops ConnectionIncoming.
AppReceives ==
  /\ WF_vars(\E keep \in BOOLEAN : Recv(keep))
  /\ WF_vars(RecvNone)

ListenerSpec == Spec /\ ListenerFairness

-----------------------------------------------------------------------------
(***************************************************************************)
(* Safety properties.                                                      *)
(***************************************************************************)
HandlesDropped == ~rxOpen /\ ~txOpen

InLog(s, k) ==
  \E i \in DOMAIN log : log[i] = Item("UserMsg", s, k)

InHand(s, k) ==
  \E t \in Bi \cup {0} : item[t] = Item("UserMsg", s, k)

\* The messages of one stream enter the channel in the order in which the
\* peer sent them, none of them twice (doc of open_uni, open_bi and
\* send_user_msg), however the listeners and handlers interleave.
InOrder ==
  \A i, j \in DOMAIN log :
    (/\ i < j
     /\ log[i].res = "UserMsg" /\ log[j].res = "UserMsg"
     /\ log[i].stream = log[j].stream) => log[i].idx < log[j].idx

\* A message read from a stream is never lost while the application can still
\* receive it: it is in the channel, or in the hand of the task that is about
\* to put it there.  The one exception is the bi listener being ended by an
\* error of the connection with handlers waiting for room in the channel.
NothingSkipped ==
  \A s \in Streams : \A k \in 1 .. pos[s] :
    inbox[s][k] = "UserMsg" =>
      \/ InLog(s, k) \/ InHand(s, k) \/ ~rxOpen
      \/ s \in Bi /\ biPc = "done" /\ conn # "Alive" /\ ~Benign(conn)

\* next returns None only when the connection is really over, never while it
\* is alive and merely idle.
EndMeansLost == eos => conn # "Alive"

\* The bi listener keeps its promise to run until the connection ends or both
\* handles are dropped: it goes on answering echo and verification requests
\* for an application that has dropped ConnectionIncoming.
BiListensWhileHeld ==
  biPc = "done" => conn # "Alive" \/ HandlesDropped

\* listen_on_bi_streams does not propagate a connection error because it is
\* expected to be handled in listen_on_uni_streams: an application that has
\* received everything after a failure of the connection was told about it.
LossPropagated ==
  eos /\ ~Benign(conn)
    => \E i \in 1 .. taken : log[i].res = "ConnectionLost"

\* A benign end of the connection is never reported as an error, unless it
\* cut a message in two (tests: benign_connection_loss).
BenignLossSilent ==
  \A i \in DOMAIN log :
    log[i].res = "ConnectionLost" =>
      \/ conn # "Alive" /\ ~Benign(conn)
      \/ log[i].stream # 0 /\ partial[log[i].stream]

\* A message of which only a part arrived is reported as an error, never
\* silently forgotten: once the application has received everything, a stream
\* that was read and whose last frame is incomplete has led to an error of its
\* own, or to the error of the failed connection.
CutMessageReported ==
  eos => \A s \in Streams :
    partial[s] /\ half[s] = "dropped" =>
      \E i \in 1 .. taken :
        \/ log[i].res # "UserMsg" /\ log[i].stream = s
        \/ log[i].res = "ConnectionLost" /\ ~Benign(conn)

\* Every message that arrived whole before a benign end of the connection is
\* delivered before next returns None, except behind a frame the stream was
\* given up for, or behind a message on an earlier stream that was cut in two.
Clean(s) ==
  s \in Uni => \A t \in Uni : t < s => ~(partial[t] /\ ending[t] = "open")
Reached(s, k) ==
  s \in Uni => \A j \in 1 .. k : inbox[s][j] = "UserMsg"
BenignLossComplete ==
  eos /\ Benign(conn) =>
    \A s \in Streams : Clean(s) =>
      \A k \in DOMAIN inbox[s] :
        inbox[s][k] = "UserMsg" /\ Reached(s, k) => InLog(s, k)

\* Requests on one stream are answered in order, each at most once, and by the
\* kind of reply it asks for, whatever else is waiting for the stream's mutex.
RepliesMatch ==
  \A b \in Bi : \A i \in DOMAIN replies[b] :
    LET r == replies[b][i] IN
    /\ r.to \in 1 .. pos[b]
    /\ r.res # "Failed" => r.res \in Answers(inbox[b][r.to])
    /\ \A j \in DOMAIN replies[b] : j < i => replies[b][j].to < r.to

\* The bi listener has ended with its handlers, because the connection failed
\* or nobody holds a handle of it any more.
Failed          == conn # "Alive" /\ ~Benign(conn)
HandlersDropped == biPc = "done" /\ (Failed \/ HandlesDropped)

Requests == {"EchoReq", "VerificationReq"}

\* One of the replies of t is to the frame at position k.
Mentions(t, k) == \E i \in 1 .. Len(t) : t[i].to = k
Replied(b, k)  == Mentions(replies[b], k)
InWork(b, k)   == task[b] \in {"lock", "reply"} /\ item[b].idx = k

\* A request that a handler has read is answered, or its answer has failed, or
\* the handler still waits for the mutex or for the verification, unless the
\* handlers were dropped: whatever the application does with its messages and
\* with the sending half of the stream, and though it has dropped
\* ConnectionIncoming.
RequestsServed ==
  \A b \in Bi : \A k \in 1 .. pos[b] :
    inbox[b][k] \in Requests =>
      Replied(b, k) \/ InWork(b, k) \/ HandlersDropped

-----------------------------------------------------------------------------
(***************************************************************************)
(* Liveness properties.                                                    *)
(***************************************************************************)

\* However the connection ends, an application that keeps receiving comes to
\* the end of its messages.
LossEndsIncoming ==
  AppReceives => ((conn # "Alive") ~> (eos \/ ~rxOpen))

\* A connection is closed once its handles and the streams handed out are
\* dropped (changelog 0.21.0: all those streams must be dropped too): both
\* listeners stop, even if they are waiting for room in the channel.
DropClosesConnection ==
  (HandlesDropped /\ \A b \in Bi : ~held[b]) ~> (conn # "Alive")

\* A request at the head of a stream is answered even when the application
\* never receives and the channel is full.
EchoServed ==
  \A b \in Bi :
    (inbox[b] # <<>> /\ inbox[b][1] \in {"EchoReq", "VerificationReq"})
      ~> (replies[b] # <<>> \/ conn # "Alive" \/ HandlesDropped
          \/ ending[b] = "reset")

=============================================================================
