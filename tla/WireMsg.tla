------------------------------ MODULE WireMsg ------------------------------
(***************************************************************************)
(* The wire format (src/src/wire_msg.rs): messages are written to a QUIC   *)
(* stream as frames, a header of nine bytes followed by the data, and read *)
(* back by a reader that sees the bytes arrive in pieces of any size.      *)
(*                                                                         *)
(* The sending half of a bidirectional stream is shared, under a mutex, by *)
(* the handler that replies to requests and the application that was given *)
(* the stream with a message (src/src/connection.rs).                      *)
(*                                                                         *)
(* A byte has Base values, 256 in the code: what depends on it is that a   *)
(* length has four bytes and a longer message cannot be sent.              *)
(***************************************************************************)
EXTENDS Integers, Sequences

CONSTANTS
  Base,       \* the number of values of a byte
  Lens,       \* the lengths of the user messages that are sent
  Writers,    \* the tasks that share the sending half of the stream
  MaxCalls,   \* how many messages they send
  Losses,     \* how the stream may end before it is finished
  AppOutlives \* may the application hold the stream longer than the listener?

ASSUME WireAssumption ==
  /\ Base \in Nat /\ Base >= 2
  /\ Lens \subseteq Nat
  /\ Writers \subseteq {"app", "handler"} \/ Writers = {"endpoint"}
  /\ MaxCalls \in Nat
  /\ Losses \subseteq {"reset", "benign", "failed"}
  /\ AppOutlives \in BOOLEAN

MSG_HEADER_LEN       == 9
MSG_PROTOCOL_VERSION == 1
USER_MSG_FLAG        == 0
ECHO_SRVC_MSG_FLAG   == 1

Byte == 0 .. Base - 1

\* The control messages, by the index of their variant of enum WireMsg.  The
\* addresses they carry are left out.
Variants ==
  {<<"EndpointEchoReq", 0>>, <<"EndpointEchoResp", 1>>,
   <<"EndpointVerificationReq", 2>>, <<"EndpointVerificationResp", 3>>}

Message(kind, data) == [kind |-> kind, data |-> data]
UserMsgs    == {Message("UserMsg", [i \in 1 .. n |-> 1]) : n \in Lens}
ControlMsgs == {Message(v[1], <<>>) : v \in Variants}
Failure     == Message("Serialization", <<>>)

\* bincode encodes a variant by its index, a little-endian u32.
serialize(m) ==
  LET v == CHOOSE w \in Variants : w[1] = m.kind
  IN  <<v[2] % Base, v[2] \div Base, 0, 0>>

deserialize(data) ==
  LET found == {m \in ControlMsgs : serialize(m) = data}
  IN  IF found = {} THEN Failure ELSE CHOOSE m \in found : TRUE

-----------------------------------------------------------------------------
(***************************************************************************)
(* MsgHeader.                                                              *)
(***************************************************************************)
to_be_bytes2(n) == <<n \div Base, n % Base>>
to_be_bytes4(n) ==
  LET n2 == n \div Base
      n1 == n2 \div Base
  IN  <<n1 \div Base, n1 % Base, n2 % Base, n % Base>>

from_be_bytes2(a, b)       == a * Base + b
from_be_bytes4(a, b, c, d) == ((a * Base + b) * Base + c) * Base + d

to_bytes(h) ==
  LET version  == to_be_bytes2(h.version)
      data_len == to_be_bytes4(h.data_len)
  IN  <<version[1], version[2],
        data_len[1], data_len[2], data_len[3], data_len[4],
        h.usr_msg_flag, 0, 0>>

from_bytes(b) ==
  [version      |-> from_be_bytes2(b[1], b[2]),
   data_len     |-> from_be_bytes4(b[3], b[4], b[5], b[6]),
   usr_msg_flag |-> b[7]]

\* MsgHeader::new: the header, or none if the length does not fit in a u32.
U32 == Base * Base * Base * Base

Header(len, flag) ==
  [version |-> MSG_PROTOCOL_VERSION, data_len |-> len, usr_msg_flag |-> flag]

BugTruncates(len, flag)  == {Header(len % U32, flag)}
MsgHeader_new(len, flag) == IF len < U32 THEN {Header(len, flag)} ELSE {}

\* The data of a message, and the flag that tells how it is encoded.
Data(m) == IF m.kind = "UserMsg" THEN m.data ELSE serialize(m)
Flag(m) == IF m.kind = "UserMsg" THEN USER_MSG_FLAG ELSE ECHO_SRVC_MSG_FLAG

\* What read_from_stream makes of the header and the data of a frame.
Decode(h, data) ==
  CASE data = <<>> -> Failure
    [] data # <<>> /\ h.usr_msg_flag = USER_MSG_FLAG ->
         Message("UserMsg", data)
    [] data # <<>> /\ h.usr_msg_flag = ECHO_SRVC_MSG_FLAG ->
         deserialize(data)
    [] OTHER -> Failure

-----------------------------------------------------------------------------
VARIABLES
  sent,      \* the messages whose frames were begun, in order
  owners,    \* the writers that still have the sending half
  calls,     \* how many messages were given to write_to_stream
  lock,      \* who holds the mutex around the sending half, or "none"
  todo,      \* the bytes its owner has still to write
  wire,      \* the bytes written to the stream
  arrived,   \* how many of them have reached the reader
  ended,     \* how the stream ended behind those, or "open"
  rpc,       \* control state of read_from_stream
  header,    \* its buffer header_bytes
  need,      \* how many bytes of the buffer are not filled yet
  rd,        \* how many bytes the reader has consumed
  got,       \* what read_from_stream has returned
  over       \* how the reader saw the stream end, or "open"

writerVars == <<sent, owners, calls, lock, todo, wire>>
quinnVars  == <<arrived, ended>>
readerVars == <<rpc, header, need, rd, got, over>>
vars       == <<writerVars, quinnVars, readerVars>>

Msgs == UserMsgs \cup ControlMsgs

\* The position in the stream never runs ahead of what arrived, nor this of
\* what was written, and the mutex is held exactly while a frame is written.
WireTypeOK ==
  /\ sent \in Seq(Msgs) /\ owners \subseteq Writers /\ calls \in 0 .. MaxCalls
  /\ lock \in owners \cup {"none"}
  /\ todo \in Seq(Byte) /\ wire \in Seq(Byte)
  /\ (lock = "none") = (todo = <<>>)
  /\ rd \in Nat /\ arrived \in Nat /\ rd <= arrived /\ arrived <= Len(wire)
  /\ ended \in {"open", "finished"} \cup Losses
  /\ rpc \in {"first", "header", "data", "done"}
  /\ header \in [1 .. MSG_HEADER_LEN -> Byte]
  /\ need \in 0 .. MSG_HEADER_LEN - 1

Empty == [i \in 1 .. MSG_HEADER_LEN |-> 0]

Init ==
  /\ sent = <<>> /\ owners = Writers /\ calls = 0 /\ lock = "none"
  /\ todo = <<>> /\ wire = <<>>
  /\ arrived = 0 /\ ended = "open"
  /\ rpc = "first" /\ header = Empty /\ need = 0 /\ rd = 0
  /\ got = <<>> /\ over = "open"

-----------------------------------------------------------------------------
(***************************************************************************)
(* write_to_stream, under the mutex.                                       *)
(***************************************************************************)

\* The application sends its messages and a handler its replies, on a stream
\* they share; the endpoint sends its requests on streams of its own.
MayWrite(w) ==
  CASE w = "app"      -> UserMsgs
    [] w = "handler"  -> {m \in ControlMsgs :
                            m.kind \in {"EndpointEchoResp",
                                        "EndpointVerificationResp"}}
    [] w = "endpoint" -> {m \in ControlMsgs :
                            m.kind \in {"EndpointEchoReq",
                                        "EndpointVerificationReq"}}

\* A message too long for its header is refused before anything is written.
Refuse(w, m) ==
  /\ w \in owners /\ calls < MaxCalls /\ lock = "none" /\ ended = "open"
  /\ MsgHeader_new(Len(Data(m)), Flag(m)) = {}
  /\ calls' = calls + 1
  /\ UNCHANGED <<sent, owners, lock, todo, wire, quinnVars, readerVars>>

Begin(w, m) ==
  /\ w \in owners /\ calls < MaxCalls /\ lock = "none" /\ ended = "open"
  /\ calls' = calls + 1
  /\ \E h \in MsgHeader_new(Len(Data(m)), Flag(m)) :
       todo' = to_bytes(h) \o Data(m)
  /\ sent' = Append(sent, m)
  /\ lock' = w
  /\ UNCHANGED <<owners, wire, quinnVars, readerVars>>

\* The guard of the mutex lives as long as write_to_stream.
BugGuardPerWrite(n) == "none"
LockAfter(n) == IF n = Len(todo) THEN "none" ELSE lock

\* write_all: quinn takes as many bytes as the flow control of the stream
\* allows.
Write(n) ==
  /\ lock # "none" /\ n <= Len(todo) /\ ended = "open"
  /\ wire' = wire \o SubSeq(todo, 1, n)
  /\ todo' = SubSeq(todo, n + 1, Len(todo))
  /\ lock' = LockAfter(n)
  /\ UNCHANGED <<sent, owners, calls, quinnVars, readerVars>>

\* write_all fails once the stream or the connection is lost.
WriteFails ==
  /\ lock # "none" /\ ended # "open"
  /\ lock' = "none" /\ todo' = <<>>
  /\ UNCHANGED <<sent, owners, calls, wire, quinnVars, readerVars>>

\* The application drops the sending half it was given.
AppDrops ==
  /\ "app" \in owners /\ lock # "app"
  /\ owners' = owners \ {"app"}
  /\ UNCHANGED <<sent, calls, lock, todo, wire, quinnVars, readerVars>>

\* listen_on_bi_streams ends and drops the handler, with the rest of its reply.
DropHandler ==
  /\ "handler" \in owners /\ (AppOutlives \/ "app" \notin owners)
  /\ owners' = owners \ {"handler"}
  /\ IF lock = "handler" THEN lock' = "none" /\ todo' = <<>>
                         ELSE UNCHANGED <<lock, todo>>
  /\ UNCHANGED <<sent, calls, wire, quinnVars, readerVars>>

\* finish, or the end of the last owner of the stream.
Finish ==
  /\ lock = "none" /\ ended = "open" /\ arrived = Len(wire)
  /\ ended' = "finished"
  /\ UNCHANGED <<writerVars, arrived, readerVars>>

-----------------------------------------------------------------------------
(***************************************************************************)
(* quinn.                                                                  *)
(***************************************************************************)
Arrive(n) ==
  /\ ended = "open" /\ arrived + n <= Len(wire)
  /\ arrived' = arrived + n
  /\ UNCHANGED <<writerVars, ended, readerVars>>

\* The stream is reset, which discards what was not read yet, or the connection
\* is lost, which leaves what has arrived.
Lose(e) ==
  /\ ended = "open"
  /\ ended' = e
  /\ arrived' = IF e = "reset" THEN rd ELSE arrived
  /\ UNCHANGED <<writerVars, readerVars>>

-----------------------------------------------------------------------------
(***************************************************************************)
(* read_from_stream.                                                       *)
(***************************************************************************)

\* recv.read: the first read returns what is there, up to a whole header.
HeaderFull(n) == n = MSG_HEADER_LEN

ReadFirst(n) ==
  /\ rpc = "first" /\ rd + n <= arrived
  /\ header' = [i \in 1 .. MSG_HEADER_LEN |->
                  IF i <= n THEN wire[rd + i] ELSE 0]
  /\ need' = MSG_HEADER_LEN - n
  /\ rpc' = IF HeaderFull(n) THEN "data" ELSE "header"
  /\ rd' = rd + n
  /\ UNCHANGED <<writerVars, quinnVars, got, over>>

\* recv.read_exact of n bytes waits until all of them are there.
BugWaitsForMore(n) == rd + n < arrived
Readable(n) == rd + n <= arrived

ReadRest ==
  /\ rpc = "header" /\ Readable(need)
  /\ header' = [i \in 1 .. MSG_HEADER_LEN |->
                  LET k == i - (MSG_HEADER_LEN - need)
                  IN  IF k > 0 THEN wire[rd + k] ELSE header[i]]
  /\ need' = 0
  /\ rpc' = "data"
  /\ rd' = rd + need
  /\ UNCHANGED <<writerVars, quinnVars, got, over>>

ReadData ==
  LET h == from_bytes(header) IN
  /\ rpc = "data" /\ Readable(h.data_len)
  /\ got' = Append(got, Decode(h, SubSeq(wire, rd + 1, rd + h.data_len)))
  /\ rd' = rd + h.data_len
  /\ rpc' = "first" /\ header' = Empty /\ need' = 0
  /\ UNCHANGED <<writerVars, quinnVars, over>>

\* What a read returns when no more bytes will arrive.  Only the first read of
\* a frame takes a benign loss of the connection for the end of the stream.
BugBenignIsEnd(first) ==
  CASE ended = "finished" -> IF first THEN "None" ELSE "Serialization"
    [] ended = "reset"    -> "StreamLost"
    [] ended = "benign"   -> "None"
    [] ended = "failed"   -> "ConnectionLost"
EndOfStream(first) ==
  CASE ended = "finished" -> IF first THEN "None" ELSE "Serialization"
    [] ended = "reset"    -> "StreamLost"
    [] ended = "benign"   -> IF first THEN "None" ELSE "ConnectionLost"
    [] ended = "failed"   -> "ConnectionLost"

ReadEnd ==
  /\ ended # "open"
  /\ \/ rpc = "first" /\ rd = arrived
     \/ rpc = "header" /\ ~Readable(need)
     \/ rpc = "data" /\ ~Readable(from_bytes(header).data_len)
  /\ over' = EndOfStream(rpc = "first")
  /\ rpc' = "done"
  /\ UNCHANGED <<writerVars, quinnVars, header, need, rd, got>>

-----------------------------------------------------------------------------
Writer ==
  \/ \E w \in Writers : \E m \in MayWrite(w) : Refuse(w, m) \/ Begin(w, m)
  \/ \E n \in 1 .. Len(todo) : Write(n)
  \/ WriteFails \/ AppDrops \/ DropHandler \/ Finish

Quinn ==
  \/ \E n \in 1 .. Len(wire) - arrived : Arrive(n)
  \/ \E e \in Losses : Lose(e)

Reader ==
  \/ \E n \in 1 .. MSG_HEADER_LEN : ReadFirst(n)
  \/ ReadRest \/ ReadData \/ ReadEnd

Next == Writer \/ Quinn \/ Reader

Spec == Init /\ [][Next]_vars

(***************************************************************************)
(* Fairness: the writer that holds the mutex goes on writing, quinn        *)
(* delivers what was written while the connection lasts, and finishes a    *)
(* stream that was dropped, and the reader reads.                          *)
(***************************************************************************)
FairSpec ==
  /\ Spec /\ WF_vars(Reader)
  /\ WF_vars(\E n \in 1 .. Len(todo) : Write(n))
  /\ WF_vars(\E n \in 1 .. Len(wire) - arrived : Arrive(n))
  /\ WF_vars(owners = {} /\ Finish)

-----------------------------------------------------------------------------
\* What receiving a message yields: an empty one is an error to the reader.
Outcome(m) == IF Data(m) = <<>> THEN Failure ELSE m

\* The messages on a stream are received in the order in which they were
\* written, each once, however their bytes are split on the way.
Stream == INSTANCE MessageStream WITH over <- over # "open"
InSync == Stream!Spec

\* A message of which only a part arrived is never passed over in silence: the
\* reader sees a clean end of the stream only where a frame ends, and after all
\* that was written if the stream was finished.
FrameEnd[k \in Nat] ==
  IF k = 0 THEN 0 ELSE FrameEnd[k - 1] + MSG_HEADER_LEN + Len(Data(sent[k]))
CutReported ==
  over = "None" =>
    /\ arrived = FrameEnd[Len(got)]
    /\ ended = "finished" => Len(wire) = FrameEnd[Len(got)]

\* Every message that is written is received, unless the stream ends.
Delivered ==
  \A k \in 1 .. MaxCalls :
    (Len(sent) >= k) ~> (Len(got) >= k \/ over # "open")
=============================================================================
