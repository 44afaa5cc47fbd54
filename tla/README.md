# A TLA+ development of qp2p

qp2p is a peer-to-peer messaging library over QUIC (the `quinn` crate).  This
directory holds TLA+ specifications of its code, the TLC runs that check them on
small instances, and TLAPS proofs of the properties that matter most.  Source
paths below are relative to the crate (`src/src/` in the map of PROJECT.json).

## 1. The system

| part | where | state | operations |
|---|---|---|---|
| receive side of a connection | `connection.rs` 266-532, 598-625 | two listener tasks, one handler per bidirectional stream, a bounded channel, a mutex per stream, the two handles `Connection` and `ConnectionIncoming` with their `alive` marker | `next`, `next_with_stream`, the two listeners, the handlers, dropping each handle, `close` |
| echo and verification service | `connection.rs` 534-596 | the outgoing probe connection, its timeout | `handle_endpoint_echo`, `handle_endpoint_verification` |
| send side of a connection | `connection.rs` 30-175, 187-229 | one stream per message, the back-off | `send`, `send_with`, `send_uni`, `open_uni`, `open_bi`, `finish`, `set_priority` |
| receiving half of a stream the application opened | `connection.rs` 237-258 | none of its own | `next`, `next_wire_msg` |
| wire format | `wire_msg.rs` | the bytes of a stream, a half-read frame | `read_from_stream`, `write_to_stream`, `MsgHeader` |
| retries | `config.rs` 166-237 | the interval, the elapsed time | `RetryConfig::retry` |
| endpoint | `endpoint.rs` | the bootstrap of `new_peer`, the public address, the task that accepts connections | `new_peer`, `new_client`, `connect_to`, `connect_to_any`, `is_reachable`, `close` |
| port forwarding | `igd.rs` | the mapping in the gateway, the renewal task | `forward_port`, `add_port`, `renew_port` |
| errors | `error.rs` | none | conversions, `is_benign` |
| configuration | `config.rs` 103-164, 239-327 | none | `try_from_config`: defaults, the idle timeout, certificates, transport parameters |

How they interact: `Endpoint` makes a `Connection`/`ConnectionIncoming` pair for
each connection it opens or accepts.  `Connection::new` spawns the two listeners,
which read frames with `WireMsg::read_from_stream` and put results in the channel
that `ConnectionIncoming::next` reads.  The bi listener answers echo and
verification requests by itself: this is the service `new_peer` calls on its
contact to learn and to verify its public address.  The listeners hold no handle;
the `alive` marker (a watch channel whose sender both handles share) tells them
that both handles are gone.

What is hard about it: two listener tasks and any number of handlers share one
bounded channel; the application shares the sending half of each stream with a
handler; the connection can end at any moment and its errors are divided in
'benign' ones and failures, at three places of the code; either handle may be
dropped first; handlers are futures that are dropped in the middle of a request.
Calls of `send` run concurrently on streams that the network may reorder and that
the receiver reads one after the other; and connecting is a race of attempts, each
with its own retries, against the time for retries.

## 2. Modules

| module | models | properties |
|---|---|---|
| `ConnectionErrors` | `ConnectionError`, its conversions from quinn's errors, which of them are benign (`error.rs` 91-231) | |
| `ConnectionIncoming` | the receive side of one connection | safety and liveness of delivery, of the listeners and of replies |
| `MessageStream` | what a stream promises: the messages that were sent, in order | abstract specification |
| `WireMsg` | one direction of a stream, in bytes | implements `MessageStream` |
| `RetryConfig` | the back-off | |
| `ConnectionSend` | one call of `send_with` with its retries, the peer and the network | what a result of `send` says about the message |
| `Delivery` | what sending over a connection promises: at most once, no overtaking, what a failure says | abstract specification |
| `Messaging` | both ends of a connection: concurrent calls of `send` and streams of `open_uni`, over `ConnectionIncoming` | implements `Delivery`; what `Ok` is worth |
| `FirstSuccess` | what connecting to several addresses promises | abstract specification |
| `Connecting` | `new_client`, then `connect_to`, `connect_to_any` or `is_reachable`, in time | implements `FirstSuccess`; bounds on the time a call takes, when retries succeed |
| `EndpointListener` | the task that accepts connections, its channel, `close` | |
| `Endpoint` | `new_peer`, its contact's service, over `EndpointListener` | what a bootstrapped endpoint can rely on |
| `PortLease` | port forwarding and its renewal, in time | bounds on the mapping |
| `MC*` | values of constants for TLC, and claims of docs that the code does not keep | |
| `ReceiveOutcomeProofs` | theorems about `ConnectionIncoming`: what becomes of the messages | |
| other `*Proofs` | theorems about the module they are named after | |

### 2.1 `ConnectionIncoming`

Streams are numbered: `Uni` are the unidirectional ones, in the order the peer
opens them, `Bi` the bidirectional ones.  `inbox[s]` is the sequence of the kinds of
frames that arrived on `s`, `pos[s]` how many were read, `partial[s]` whether a
piece of another frame arrived behind them, and `ending[s]` how the stream ends.

| variables | code |
|---|---|
| `conn` | state of the quinn connection: alive, or the error it ended with |
| `uniPc`, `item[0]` | the loop of `listen_on_uni_streams` and the result it holds |
| `biPc`, `task[b]`, `item[b]`, `lock[b]` | `listen_on_bi_streams`, the future of each stream, the mutex of its sending half |
| `log`, `taken` | everything that was put in the channel; the channel is the part behind `taken` |
| `rxOpen`, `txOpen`, `held` | the two handles and the streams the application was given |
| `eos` | `next` has returned `None` |

Each await of the code ends a step.  Reading a frame and leaving the loop that
read it is one step, waiting for the channel another, locking another, replying
another; between any two of them the connection may end, a handle may be dropped,
and the futures of the handlers may be dropped with them, which releases their
mutex.

### 2.2 `WireMsg` and `MessageStream`

The header is modelled to the byte, in base `Base` in place of 256, so that its
four-byte length overflows at `Base^4`.  A writer takes the mutex, hands its frame to
quinn in pieces of any size, and a reader does the reads of `read_from_stream`: one
that returns what is there, then exact ones.  The stream may end anywhere.
`owners` are the writers that still have the sending half: a handler that is dropped
leaves a part of a frame behind, which is harmless (`InSync`) unless the application
holds the stream for longer (`AppOutlives`).
`InSync` is the refinement: `WireMsg` implements `MessageStream`, in which a message
is sent in one step and received in another.

### 2.3 `RetryConfig` and `ConnectionSend`

One call of `send_with`.  `pc` is where it is (`open`, `write`, `finish`, the
`sleep` of the back-off), `written`, `peer`, `acked` and `credit` are the stream of the
current attempt as quinn and the peer see it, `copies` counts how often the peer's
application has read the message, over all attempts.  Jitter is a choice among
`Delays`.

### 2.4 `Messaging` and `Delivery`

The composition of senders with the receive side.  `ConnectionIncoming` leaves the
peer free to open streams and send on them as it likes; in `Messaging` what arrives is
what calls have written: `owner` says which call a stream belongs to, `written` how
much of its frame quinn has taken, `finished` whether its sending half is finished.
`content` says what a message is.  `"some"` bytes are the normal case.  An `"empty"` one
is sent like any other, `send` returns `Ok`, and the reader refuses it (`wire_msg.rs` 77):
the application gets a `Serialization` error in its place.  One that is too `"long"` for
the header is never written (`wire_msg.rs` 151), and `send` fails with `Serialization`.

Calls in `Keepers` stand for an application that uses `open_uni` and `send_user_msg`
and finishes the stream whenever it likes, the others are `send`.  An attempt that fails
with `Serialization` or `StreamLost` drops its stream, and `send` returns the error or
tries again on a new one (`Fails`); the number of streams bounds the attempts, and the
back-off between them is left to `ConnectionSend`.  A stopped stream is no failure of the
`finish` in `send`, and is one (`"Stopped"`) of the `finish` of a keeper.  The future of a
call may be dropped at each await (`DropCall`), which finishes its stream with or
without all of the message.  quinn may let streams overtake each other, acknowledges a
stream when all of it has arrived, and tells the sender when the receiver has dropped
its end.  The receiving application may drop `ConnectionIncoming`, `Connection`, or both,
at any time.  Each end sees the loss of the connection at its own time (`lost`, `conn`).

`DeliveryKept` says that `Messaging` implements `Delivery`, which counts how often the
message of each call is received, or the error in its place: at most once over all
attempts, and only after those of all calls that had returned `Ok` before its own call
began.  A call that ends with `Serialization` or `StreamLost` has not sent its message:
it is never received, so trying again is safe.  A message may follow an empty one that
was refused; it does not follow one that is missing.

`StopsBehindMessage` says when a sender meets a stopped stream: behind a whole message, as
long as the receiver has one of its handles.  With both of them dropped the uni listener
gives up even a half-read stream (`connection.rs` 387-395), and then `send` fails with
`StreamLost` or tries again.

### 2.5 `Connecting` and `FirstSuccess`

An endpoint made by `new_client`, and one call on it.  `task[a]` is the future of
`new_connection` for the address `a`: it waits for its next attempt, waits for a
handshake, has a result of it, or is over.  `at[a]` is when the attempt began or the
next one begins, `interval[a]` the back-off.  Peers begin to answer at `upAt[a]`; a
handshake they do not answer ends with the idle timeout.  Time (`now`, in ticks since
the call) passes only when no task can run.  Then `is_reachable` sends its echo request
over the connection that was taken (`chosen`) and waits for the answer until
`deadline`.  `Endpoint::close` may come at any moment: attempts go on failing with
`Stopped`, and are retried, until the time is over.

`FirstSucceeds` says that `Connecting` implements `FirstSuccess`, in which attempts fail
one by one and the call either takes one that succeeds, for good, or gives up once all
have failed.

### 2.6 `EndpointListener` and `Endpoint`

`new_peer` runs through `pc` = `connect`, `echo`, `resolve`, `forward`, `listen`,
`verify`.  The contact's `handle_endpoint_verification` is `service`; its
connection goes through the queue of quinn and the task of this endpoint like that
of any other peer, which is how the two components interact: the probe's echo is
answered only when the task has accepted it.  `Routes` are the addresses that may
lead to the endpoint (each subset of them is an initial state), and a forwarded
port adds one.  An error returned by `new_peer` drops what the code's scopes drop
(`Abandoned`).

### 2.7 `PortLease`

Time is counted in ticks, several to a second, because the lease is a `Duration` and
the gateway is asked for whole seconds.  `due` is the timer of the renewal task,
`left` what is left of the mapping, `gap` how long an open endpoint has been without
one, `since` how long ago the endpoint was closed or dropped.  Searching a gateway
and asking it are two steps, and a `forward_port` that was given up in between may
leave a mapping.

## 3. Runs

| run | what it shows | instance |
|---|---|---|
| `incoming_bi` | messages of a stream stay in order and are read once, nothing read is lost, a benign end is silent, failures are reported, benign ends deliver all, the end of messages means the end of the connection; replies match requests, a request that was read is answered unless all handlers are dropped, the bi listener keeps running | 1 stream of each kind, 2 frames of any kind, 1 slot |
| `incoming_live` | every end of the connection ends the messages of an application that receives; requests are answered, and dropping the handles stops the listeners and closes the connection, whether it receives or not; the channel keeps its bound | 1 stream of each kind, 2 frames, 1 slot |
| `wire_frames` | readers and writers stay in step; cut messages are reported; what is written is received | 2 calls, 2 writers, lengths 0, 1 and `Base^4` |
| `send_with` | what a result of `send` says; every call returns | intervals of 2 to 4 ticks, 12 ticks in all |
| `messages` (`MCMessaging`) | messages arrive at most once and in the order of acknowledged calls, a stream is stopped inside a message only without handles, and what was sent with `Ok` is received, or refused if it is empty | 2 streams, 2 calls: the first message is empty or too long and its call may be dropped or try again, the second call keeps its stream; 1 slot, a benign loss, handles dropped at any time |
| `connect` | a call returns, in time; retries catch a peer that comes up in time; the first connection is taken and only the last failure ends the call | 3 addresses, of which one may fail and one is refused, idle timeouts of 1 and 3 ticks and an invalid one, 6 ticks of retries |
| `endpoint_new_peer` | `Ok` means reached and accepted; `new_peer` returns; a failure leaves no connection open | 2 contacts, 1 peer, 1 slot, every failure |
| `endpoint_serves` | `new_peer` succeeds exactly if its address leads to it; all peers are served; `close` ends the task | 2 contacts that are not lost, 2 peers, 2 slots |
| `lease` | how long a mapping is missing, how long it remains; it comes back after failures; the task ends | a lease of 2.5 s, latency 0.75 s |

Why these bounds are enough: one slot in the channel makes it full with the first
message, so both listeners wait for it; two streams and two frames make every pair
that an ordering property speaks of; the second frame follows a malformed one or a
request.  Two concurrent calls make every pair that `Delivery` speaks of, and one slot
keeps the receiver behind them.  The second stream is either that of the second call, so
that a refused, a missing or a cut message precedes another one, or the second attempt
of the first.  The empty message takes the place of a plain first one: it is written,
cut, acknowledged and stopped alike.  Three addresses give an attempt that fails at once,
one that comes and goes and one that answers at the beginning, in time or never; the
intervals reach their maximum with the first retry.  Two calls let a frame follow
another, a cut or a refused one.  The times of `send_with` allow up to six retries and reach the maximum of the interval.  One or
two slots for connections are filled by the peers before the contact's probe
arrives.  The lease is not a whole number of seconds, so the renewal is later than
the expiry.

`CHECK_DEADLOCK FALSE` is used everywhere because every one of these systems stops:
a connection ends, a call returns, an endpoint is closed.

### Claims that do not hold

Three runs check what a doc says, and TLC finds a counterexample.

| run | claim | what happens |
|---|---|---|
| `wire_cut_reply` | messages arrive in the order they were sent (`connection.rs` 213) | a handler dropped in a reply leaves half a frame in front of the application's message |
| `at_least_once` | 'at least once' delivery (`README.md` 50) | a stream that an application opened with `open_uni` and keeps open holds back the messages of later streams: `send` returns `Ok`, the connection lasts, the application goes on receiving, and never gets the message |
| `endpoint_forwards` | with `external_port` set, forwarding is skipped (`config.rs` 113) | the port is forwarded |

More that reading the code against its docs turned up have no run of their own.
The uni listener ends with the first message after `ConnectionIncoming` alone was
dropped, while a comment (`connection.rs` 318-319) says that listeners run until the
connection ends or all handles are dropped; the bi listener keeps to it
(`BiListensWhileHeld`).  `send` takes a stream that the peer has stopped for success
(`connection.rs` 170); a peer that runs this code and keeps a handle stops a stream only
behind a whole message (`StopsBehindMessage`), another peer need not.  The note on 'at
least once' delivery (`README.md` 50) expects that retries may deliver a message twice and
advises handlers to be idempotent.  The code does better: `AtMostOnce`, for one call with
all its retries, and `DeliveryKept` show that `send` itself never delivers a message
twice.  (A caller that sends again after `ConnectionLost` may.)  `send` returns `Ok` for an
empty message, which the peer refuses.  `is_reachable` returns `Ok` also
if nothing was received: when the peer finishes the stream without an answer, or the
connection ends benignly, which with the default idle timeout and without keep-alives
comes before the timeout of the request; its doc (`endpoint.rs` 303-305) speaks of
exchanging a message.  The docs of `connect_to` and `connect_to_any` describe a pool of
connections; the code always opens a new one.  A lease of less than a second is truncated to
zero, which asks for no limit, so `MappingEnds` is proved for longer leases only.  And with the
default back-off an operation that fails at once is retried seven times or more in
30 s, where the doc says 5-6.  `endpoint_serves` has as many other peers as slots:
with more of them than the channel holds, the probe waits behind a full channel that
nobody empties before `new_peer` has returned, until a timeout.

### Fairness

* Tasks: tokio polls every task that can run, hence weak fairness of the steps of
  listeners, handlers and callers.
* Channels and mutexes: tokio hands out permits and locks in the order of arrival,
  hence strong fairness of waiting for one (`UniSend`, `BiSend`, `BiLock`).
* Replies: a verification ends by its timeout, a blocked write by the end of the
  connection (`BiReply`).  Timeouts expire unless what they wait for comes first.
* The application: `LossEndsIncoming` and `ServingSpec` have one that keeps
  receiving; the other properties of `incoming_live` assume nothing of it but that
  a stream it locks is unlocked again.
* Connecting: a call that can run is polled, time goes on, and a handshake is over when
  its idle timeout is (`HandshakeOver`).  Nothing makes a peer answer: `CallReturns`
  holds if it never does, provided that it grants the credit for a stream (below).
* Messaging: `Progress` is one weak fairness condition for calls, network, listeners
  and a receiving application together.  Each of them can take a bounded number of
  steps, so none can starve the others by it.  A connection lost at the sending end
  is lost at the other in the end.  `OkReceived` assumes that those who keep a stream
  finish it (`FairKeepers`); `AtLeastOnce`, which fails, does not.
* The peer: `SendReturns` assumes one that keeps reading, which `finish` needs for
  its acknowledgements.  `NewPeerReturns`, `CallReturns` and `CallInTime` assume
  a peer that grants, in the handshake, the credit for the streams of the requests and
  the few bytes on them: `open_bi` and `send_wire_msg` are awaited before the timeout of
  a request begins (`endpoint.rs` 317-321, 465-469, 481-486), and each request is sent in
  one step (`SendRequest`, `Ask`).  A peer that runs this code grants it; of what it does
  after that nothing is assumed.
* The gateway: among infinitely many renewals infinitely many succeed
  (`MappingRestored`); nothing is assumed for `RenewalStops`.

## 4. Proofs

The theorems hold for every value of the constants, under the assumptions named in
the modules: capacities are positive, times are positive and the latency of the
gateway is below the lease, contacts are peers, idle timeouts are positive (zero would
mean none) and the default one is valid; in `Messaging` the receiving end has no
bidirectional streams, since calls open none, and user messages are among what it may
receive, as are frames that are refused.

* **Receive side** (`ConnectionIncomingProofs`).  `TypeCorrect` is by cases over
  the actions.  `EndMeansLost`, `BiListensWhileHeld` and `LossPropagated` rest on
  one invariant, `EndInv`: none of the three is inductive, since `next` returns
  `None` when both senders of the channel are gone, so one has to know why each
  listener has ended.  `EndInv` says that the uni listener ends, with the receiver
  alive, only after the connection and with a failure put in the channel; that the
  bi listener ends only after the connection or without handles; that an ended bi
  listener has no running handler; and that after `None` nothing is added.
* **Messages on the way** (`ConnectionIncomingProofs`).  `PcInv` ties what a task has in
  hand to its control state.  `StepEffect` then reduces the
  steps of all actors to six effects on messages: none, a result is taken in hand, a
  frame is passed over, a result is put in the channel, one is given up, the handlers
  are dropped.  `InOrder` follows from `OrderInv`, by one case per effect: a message
  in hand is the last one read from a stream that no other task reads, and everything
  of that stream in the channel comes before it.
* **Outcomes** (`ReceiveOutcomeProofs`).  `BenignLossSilent` needs `LostInv`, the same of
  what is in hand, and that nothing arrives after the loss (`StepKeeps`).
  `NothingSkipped` is inductive given `OrderInv`: an effect that gives up a message
  happens only without a receiver, or to a handler when the connection failed.
  `RepliesMatch` needs `Asked`: a request in hand is the last frame read, and every
  earlier reply is to an earlier one.
  `RequestsServed` is its counterpart: no request that was read is forgotten, also when
  the application has dropped `ConnectionIncoming` or holds the mutex.  The one
  exception is `HandlersDropped`, the bi listener having ended with the failure of the
  connection or with the last handle, after which nothing brings the handlers back.
* **Ends of streams** (`ReceiveOutcomeProofs`).  `CutMessageReported` speaks of the
  moment when `next` returns `None`, when the error may long have been received.  Its
  invariant `CutInv` follows the error from the moment the stream is given up: it is in
  hand, in the channel or received, unless nobody receives or the connection failed.
  `UniHand` and `BiHand` say which task has which stream open, so that an error in hand
  is about that stream.  When `next` has returned `None` nothing is in hand and the
  channel is empty, so the error was received.
  `BenignLossComplete` also needs `LeftInv`: a stream given up was read to its end, or
  to a frame that ends the reading, and a stream the uni listener left in quinn's queue
  lies behind one that was cut in two, or the connection failed.  `OpenInv` (streams are
  accepted in the order in which they were opened) makes that one an earlier stream.
* **Both ends** (`MessagingProofs`).  `ReceiverImplements`: the receive side of
  `Messaging`, whose streams carry what calls have written, implements
  `ConnectionIncoming`, where the peer may send anything.  So every theorem of the
  receive side holds in `Messaging`, and the proofs below use them.
  `CallInv` describes the sending end: a call owns a stream for each of its attempts,
  opened one after the other, all but the last of which have failed before the end of the
  message (`OwnerInv`), and a message that is too long is never written (`WrittenInv`).
  `WireInv` joins the two ends: only what was written arrives, at most one frame and then
  the end of the stream (`ArrivedInv`); the listener gives an unfinished stream up, while
  the connection is alive, only when a whole frame of it has arrived or both handles are
  dropped (`GivenUpInv`); and what the sender knows to be stopped was given up
  (`StoppedInv`).  `StopsBehindMessage` follows.
  `OkNotLost` is the safety part of `OkReceived`: when `next` has returned `None` after a
  benign end of the connection, every message whose call returned `Ok` was received, or
  refused if it is empty, except behind a cut message on an earlier stream.  `OkInv` says
  that such a message has arrived whole or its stream was stopped; `StopInv`, that an
  application which comes to the end has stopped no stream before its message arrived; `EndedRead`, that every frame that had
  arrived was read and reported, with the same exception.  TLC finds the exception
  necessary.
  `DeliveryKept` is proved step by step: each step of the receiver maps to the reception
  of one call's message, or of the error in its place, or to a stutter, each step of a
  call to its begin, to its result or to a stutter.  That a message is received once
  follows from `InOrder`, as of the streams of a call only the last carries a whole frame.
  That it overtakes no message of a call that had returned `Ok` needs three facts: such a
  message has arrived whole or its stream was stopped, when nobody receives any more
  (`OkInv`); a call that begins later opens a later stream (`BeforeInv`); and the uni
  listener begins a stream only when it has given up all earlier ones (`TurnsInv`), all of
  whose messages it has then put in the channel (`NothingSkipped`).
  These invariants were first checked with TLC, for all nine pairs of contents of two
  messages and both kinds of loss.
* **Wire format** (`WireMsgProofs`).  `HeaderRoundTrip`: `from_bytes` inverts
  `to_bytes`, for every base, by the uniqueness of quotient and remainder.
  `WireTypeCorrect` is by cases over the actions.  `InSyncHolds`, the refinement of
  `MessageStream`, and `CutReportedHolds` rest on `WireInv`: the bytes written and those
  still to be written are the frames of the messages sent, in order (`FrameInv`), and the
  reader stands in the frame after those it has received, with the bytes of the header
  that it has read so far in its buffer (`ReaderInv`).  The header it then decodes is
  that of the frame, by `HeaderRoundTrip`.  Both are proved for `AppOutlives = FALSE`
  only; with `TRUE` a frame can be cut and the stream finished behind it, which is the
  run `wire_cut_reply`.  Where a frame ends is a recursive function of the
  messages (`FrameEnd`).  Its equation, and that it grows, are proved with
  `NatSetInduction`: induction for a set of numbers, which is a parameter the provers can
  instantiate, derived from the well-foundedness of `<`.
* **Send side** (`ConnectionSendProofs`).  `SendInv` adds `WholeOnce` to the type
  invariant and to `AtMostOnce`: a message can be read only when all of it is
  written, and a call that has written all of it is in `finish` or has returned
  `Ok` or `ConnectionLost`, so it does not open a new stream.  `FailureTrue` follows
  from it, and `LossIsFinal` is proved as an action property.  `SendTypeCorrect` holds
  for every configuration of the back-off: no retry is planned after the time for
  which to retry.
* **Bootstrap** (`EndpointProofs`).  `Verified` needs `EndpointInv`: a contact's
  connection is opened only by the probe, at an address that leads to the endpoint
  (`ProbeInv`), and whatever is in the queue, in the hand of the task or in the
  channel was opened (`ListenerInv`), so an answer `valid` means that the connection
  was accepted, whatever the task, the application and the network do meanwhile.
  `EndpointTypeCorrect` follows from `ListenerInv` and adds the bound of the channel:
  the listener puts a connection in it only while there is room.
  `FailureClosesAll` has the form of a liveness property, but the connections are closed
  in the step in which `new_peer` returns its error.  `OwnedInv` says that an accepted
  connection always has an owner: the task that is about to send it, the channel while
  its receiver exists, or the application that was given the endpoint.  So after an error
  at most the connection in the hand of the task is open, and a result does not change.
  `ClosedServesNone` also needs `OwnedInv`: `close`, or the end of an endpoint that never
  listened, takes every connection with it, and one whose handshake ends later is closed
  at once.  `NoneForgotten` joins `OwnedInv` to `QueuedInv`: a connection that is neither
  accepted nor closed is in the queue or in the handshake that the task waits for.  It is
  what `EveryPeerServed` needs besides fairness.
* **Connecting** (`ConnectingProofs`).  `ConnectInv` says of each attempt that waits
  that its moment is not past and not after the time for retries, and of each one in a
  handshake that it began within that time and has not lasted longer than the idle
  timeout; `CallInTime` follows.  For `RetryCatches` it also says that a peer that would
  be caught has not failed for good: its attempts that began while it answered succeed,
  one that began before is over an idle timeout later, and the next delay still fits
  in the time for retries.  `FirstSucceeds` is proved step by step: each action maps to
  a step of `FirstSuccess` or to a stutter.
* **Port forwarding** (`PortLeaseProofs`).  `LeaseInv` bounds how late the timer is;
  `RestInv` bounds what is left of the mapping by the time since the end of the
  endpoint.  `MappingEnds` is proved for leases of at least a second: shorter
  ones are truncated to zero, and the mapping does not end.  `RenewedInTime` is proved
  for all leases.  For those of at least a second `GapInv` relates the age of the mapping
  to the timer and to the operation at the gateway, so that the time without a mapping
  is at most what the lease loses by truncation and the time of two operations.  A
  shorter lease is granted for ever, and there is no such time (`ForeverInv`).

Every invariant, action property and refinement that a passing run checks has a theorem.
`OkNotLost`, `ClosedServesNone` and `NoneForgotten` are stated where they are proved; TLC
finds no violation of them on the instances of `messages` and, for the last two,
`endpoint_new_peer`.
Only model-checked: the liveness properties other than `FailureClosesAll` (`CallReturns`,
`OkReceived`, `SendReturns`, `NewPeerReturns`, `Bootstraps`, `EveryPeerServed`,
`CloseEndsListener`, `MappingRestored`, `RenewalStops`, `Delivered`, `LossEndsIncoming`,
`DropClosesConnection`, `EchoServed`), since the prover knows neither fairness nor
`ENABLED`.

## 5. What is assumed of libraries

* quinn yields the streams that were opened before it yields the error of the
  connection; bytes that arrived stay readable after the loss of the connection; a
  reset discards what was not read; a stream yields `None` again after its end.
* Dropping the last handle of a connection closes it with code 0.  `Incoming` yields
  `None` once the endpoint is closed and its queue is empty; quinn drives
  handshakes whether or not `Incoming` is polled.
* `try_flatten` is sequential; `try_for_each_concurrent` drops running futures when
  its source fails.  `select` may take either side when both are ready (the code's
  `select` prefers the left one; the model allows more).
* The backoff crate stops when the elapsed time and the next delay together exceed
  the maximum.
* `broadcast::Receiver::try_recv` is `Empty` until a message is sent or all senders
  are dropped; a tokio interval that is late ticks at once until it has caught up.
* A gateway grants what it is asked for, within a bounded latency, or fails.

* quinn finishes a stream whose sending half is dropped, acknowledges data when it has
  arrived, whether or not it was read, and does not stop streams that were never
  accepted when the source of streams is dropped.
* A handshake that is not answered ends with the idle timeout; an endpoint that is
  closed refuses new connections and ends its handshakes and connections at once.
* `select_ok` polls all its futures, returns the first success and drops the rest,
  and otherwise returns the last error.

## 6. What is not modelled

* Certificates, command line parsing and the texts of errors: no control depends on
  them.  Binding sockets has two outcomes (`NewClient`).
* An idle timeout of zero, which turns quinn's timeout off: with it an attempt on a
  peer that does not answer never ends.
* A `RecvStream::next` whose future the application drops in the middle of a frame: it
  loses what was read of the frame, and the next call takes the rest of it for a
  header.  The crate drops such a future only together with its stream, and no doc says
  what a later read may return.
* The examples and the tests, which use the library.
* In `ConnectionIncoming` and `Messaging` a frame is a kind, not bytes: the frames
  themselves are the subject of `WireMsg`.  In `Endpoint` the retries of a connection are
  one step with their outcome: they are the subject of `Connecting`.

## 7. Plan

1. `Endpoint` together with `PortLease`: a public address during a renewal.
2. Streams with several messages, and replies, in `Messaging`.
