-------------------------- MODULE MessagingProofs --------------------------
(***************************************************************************)
(* Theorems about Messaging, for every number of calls, streams and        *)
(* channel slots and for all messages: the receiving end of Messaging is   *)
(* the one of ConnectionIncoming, and sending over it implements Delivery. *)
(***************************************************************************)
EXTENDS Messaging, ReceiveOutcomeProofs

-----------------------------------------------------------------------------
(***************************************************************************)
(* The receiving end of Messaging is that of ConnectionIncoming, with      *)
(* a peer that runs this code.                                             *)
(***************************************************************************)
\* There are no bidirectional streams here.
LEMMA OnlyUni == Bi = {} /\ Streams = Uni /\ Uni \subseteq Nat /\ 0 \notin Uni
BY MessagingAssumption, ConstantsAssumption DEF Bi, Uni, Streams

\* A step of Messaging is a step of the receiving end, or leaves it alone.
LEMMA ReceiverStep ==
  ASSUME [MessagingNext]_allVars
  PROVE  [Next]_vars
<1>1. CASE UNCHANGED vars
  BY ZenonT(30), <1>1
<1>2. ASSUME NEW s \in Uni, Arrives(s) PROVE Peer
  <2>1. s \in Streams /\ Frame(owner[s]) \in Kinds
    BY OnlyUni, MessagingAssumption DEF Frame
  <2> QED
    BY ZenonT(30), <1>2, <2>1 DEF Arrives, Peer
<1>3. CASE Net
  BY <1>2, <1>3 DEF Net, Next
<1>4. CASE Listener
  BY <1>4 DEF Listener, Next
<1>5. CASE ReceiverLoses
  BY <1>5 DEF ReceiverLoses, Peer, Next
<1>6. CASE ImplicitClose \/ App
  BY <1>6 DEF Next
<1> QED
  BY ZenonT(30), <1>1, <1>3, <1>4, <1>5, <1>6 DEF MessagingNext, allVars

\* What is proved of ConnectionIncoming holds of the receiving end here.
THEOREM ReceiverImplements == MessagingSpec => Spec
<1>1. MessagingInit => Init
  BY DEF MessagingInit
<1> QED
  BY <1>1, ReceiverStep, PTL DEF MessagingSpec, Spec

-----------------------------------------------------------------------------
(***************************************************************************)
(* The uni listener takes one stream at a time, in their order, so that    *)
(* the results about different streams enter the channel in that order     *)
(* too, messages and errors alike.                                         *)
(***************************************************************************)
Begun(s) == half[s] \notin {"unopened", "queued"}

\* A stream is begun only when all before it were given up.
TurnInv ==
  \A s, t \in Uni : s < t /\ Begun(t) => half[s] = "dropped"

\* What the listener makes of a frame.
ResultOf(kind) == IF kind = "UserMsg" THEN "UserMsg" ELSE "Serialization"

\* Every result but the loss of the connection is about a frame of a stream
\* that was begun: one that was read, or the one the stream was given up at.
Sound(x) ==
  /\ x.stream = 0 => x.res \in {"None", "ConnectionLost"}
  /\ x.stream # 0 =>
       /\ x.stream \in Uni /\ Begun(x.stream)
       /\ x.idx \in 1 .. pos[x.stream] + 1
       /\ x.idx <= pos[x.stream] => x.res = ResultOf(inbox[x.stream][x.idx])
       /\ x.idx > pos[x.stream] => half[x.stream] = "dropped"

SoundInv == Sound(item[0]) /\ \A i \in 1 .. Len(log) : Sound(log[i])

\* Results are in the order of the streams and frames they are about.
Precedes(x, y) ==
  \/ x.stream = 0 \/ y.stream = 0 \/ x.stream < y.stream
  \/ x.stream = y.stream /\ x.idx < y.idx

OrderedInv ==
  /\ \A i, j \in 1 .. Len(log) : i < j => Precedes(log[i], log[j])
  /\ \A i \in 1 .. Len(log) : Precedes(log[i], item[0])

\* The listener has a result about a stream in hand only while it sends it.
IdleInv == uniPc # "send" => item[0].stream = 0

\* There is a result, in hand or in the channel, of every frame that was read.
About(x, s, k) == x.stream = s /\ x.idx = k
ReadKept ==
  rxOpen => \A s \in Uni : \A k \in 1 .. pos[s] :
    About(item[0], s, k) \/ \E i \in 1 .. Len(log) : About(log[i], s, k)

TurnsInv ==
  TurnInv /\ SoundInv /\ OrderedInv /\ IdleInv /\ ReadKept

\* Every step keeps TurnInv.
LEMMA TurnInvNext ==
  ASSUME TypeOK, UniHand, BiHand, OpenInv, TurnInv, [Next]_vars
  PROVE  TurnInv'
<1> USE DEF quinnVars, uniVars, biVars, chanVars, appVars
<1>0. /\ half \in [Streams -> {"unopened", "queued", "open", "eof", "dropped"}]
      /\ Uni \subseteq Streams /\ 0 \notin Uni /\ Uni \subseteq Nat
      /\ uniCur \in Uni \cup {0}
  BY StreamSets DEF TypeOK, ListenerTypeOK, QuinnTypeOK
<1> SUFFICES ASSUME NEW s \in Uni, NEW t \in Uni, s < t, Begun(t)'
             PROVE  half'[s] = "dropped"
  BY DEF TurnInv
<1>1. CASE Begun(t)
  <2>1. half[s] = "dropped" /\ s \in Streams
    BY <1>0, <1>1 DEF TurnInv
  <2> QED
    BY <2>1, HalfSteps DEF Reading
<1>2. CASE ~Begun(t)
  <2>1. half[t] = "queued" /\ half'[t] = "open"
    BY <1>0, <1>2, HalfSteps DEF Begun, Reading
  <2>2. ~(Peer \/ ImplicitClose \/ App \/ UNCHANGED vars)
    BY <1>0, <2>1, OutsideFrame
  <2>3. ~(BiStep \/ \E b \in Bi : HandlerStep(b))
    BY ZenonT(30), <2>1, BiFrame
  <2>4. PICK u \in Uni : UniAccept(u)
    <3>1. ~(UniReadEnd \/ UniReadOther \/ UniReadFails)
      BY <1>0, <2>1 DEF UniReadEnd, UniReadOther, UniReadFails, Drop
    <3>2. ~UniStop
      BY <1>0, <2>1 DEF UniStop
    <3>3. half' # half
      BY <2>1
    <3> QED
      BY <2>2, <2>3, <3>1, <3>2, <3>3
         DEF Next, HandlerStep, UniStep, UniSourceEnds, UniSourceFails,
             UniReadMsg, UniSendFails, UniNotAlive, UniSend
  <2>5. /\ u = t /\ uniCur = 0 /\ half[s] # "queued" /\ half'[s] = half[s]
    <3>1. half' = [half EXCEPT ![u] = "open"] /\ uniCur = 0
      BY <2>4 DEF UniAccept
    <3>2. u = t
      BY <1>0, <2>1, <3>1
    <3>3. half[s] # "queued"
      BY <2>4, <3>2 DEF UniAccept, FirstQueued
    <3>4. s # t
      BY <1>0
    <3> QED
      BY <1>0, <3>1, <3>2, <3>3, <3>4
  <2>6. half[s] # "unopened"
    BY <2>1 DEF OpenInv
  <2>7. ~Reading(s)
    BY <1>0, <2>5 DEF UniHand
  <2> QED
    BY <1>0, <2>5, <2>6, <2>7 DEF Reading
<1> QED
  BY <1>1, <1>2

\* What a step does to the result in hand, to the channel and to the positions
\* of the streams: nothing,
Quiet ==
  /\ UNCHANGED <<pos, log>> /\ item'[0] = item[0]
  /\ uniPc' # "send" => uniPc # "send"

\* or the listener reads the next frame of stream s,
ReadsFrame(s) ==
  /\ pos[s] < Len(inbox[s]) /\ Advance(s) /\ UNCHANGED inbox
  /\ item'[0] = Item(ResultOf(inbox[s][pos[s] + 1]), s, pos[s] + 1)

\* or gives the stream up with an error,
ReadsError(s) ==
  /\ UNCHANGED pos /\ half'[s] = "dropped"
  /\ \E r : item'[0] = Item(r, s, pos[s] + 1)

ReadsStream(s) ==
  /\ uniPc = "next" /\ uniPc' = "send" /\ half[s] = "open" /\ UNCHANGED log
  /\ ReadsFrame(s) \/ ReadsError(s)

\* or is told of the loss of the connection, or sends what it has in hand, or
\* finds that nobody receives.
ToldOfLoss ==
  /\ uniPc = "next" /\ uniPc' = "send" /\ UNCHANGED <<pos, log>>
  /\ item'[0] = Item("ConnectionLost", 0, 0)

SendsHand == uniPc = "send" /\ Sent(0) /\ UNCHANGED pos

LeavesHand == UNCHANGED <<pos, log>> /\ item'[0] = NoItem /\ ~rxOpen

\* Every step does one of these.
LEMMA UniEffect ==
  ASSUME TypeOK, UniHand, [Next]_vars
  PROVE  \/ Quiet \/ (\E s \in Uni : ReadsStream(s))
         \/ ToldOfLoss \/ SendsHand \/ LeavesHand
<1> USE DEF quinnVars, uniVars, biVars, chanVars, appVars
<1>0. /\ item \in [{0} -> Items] /\ uniCur \in Uni \cup {0}
      /\ half \in [Uni -> {"unopened", "queued", "open", "eof", "dropped"}]
  BY OnlyUni DEF TypeOK, ListenerTypeOK, QuinnTypeOK
<1>1. CASE Peer \/ ImplicitClose \/ App \/ UNCHANGED vars
  BY ZenonT(30), <1>1, OutsideFrame DEF Quiet
<1>2. CASE BiStep
  <2>1. UNCHANGED <<pos, log>>
    BY ZenonT(30), <1>2
       DEF BiStep, BiAccept, BiSourceEnds, BiDrained, BiSourceFails,
           BiNotAlive, BiStop
  <2> QED
    BY ZenonT(30), <1>2, <2>1, BiFrame DEF Quiet
<1>3. CASE UniReadMsg \/ UniReadOther \/ UniReadFails
  <2>1. /\ uniCur \in Uni /\ uniPc = "next" /\ half[uniCur] = "open"
        /\ UNCHANGED log /\ uniPc' = "send" /\ uniCur \in Streams
    BY ZenonT(30), <1>0, <1>3, OnlyUni
       DEF UniReadMsg, UniReadOther, UniReadFails, UniReads, UniHand
  <2>2. CASE UniReadMsg
    <3>1. read_from_stream(uniCur) = "UserMsg" /\ "UserMsg" \in FrameKinds
      BY <2>2 DEF UniReadMsg, UniReads, FrameKinds
    <3>2. /\ pos[uniCur] < Len(inbox[uniCur])
          /\ inbox[uniCur][pos[uniCur] + 1] = "UserMsg"
      BY ZenonT(30), <2>1, <3>1, ReadResult
    <3>3. /\ item'[0] = Item("UserMsg", uniCur, pos[uniCur] + 1)
          /\ Advance(uniCur) /\ UNCHANGED inbox
      BY ZenonT(30), <1>0, <2>2 DEF UniReadMsg, Hand
    <3>4. ReadsFrame(uniCur)
      BY ZenonT(30), <3>2, <3>3 DEF ReadsFrame, ResultOf
    <3> QED
      BY ZenonT(30), <2>1, <3>4 DEF ReadsStream
  <2>3. CASE UniReadOther
    <3>1. read_from_stream(uniCur) \in FrameKinds \ {"UserMsg"}
      BY ZenonT(30), <2>3 DEF UniReadOther, UniReads
    <3>2. /\ pos[uniCur] < Len(inbox[uniCur])
          /\ inbox[uniCur][pos[uniCur] + 1] # "UserMsg"
      BY ZenonT(30), <2>1, <3>1, ReadResult
    <3>3. /\ item'[0] = Item("Serialization", uniCur, pos[uniCur] + 1)
          /\ Advance(uniCur) /\ UNCHANGED inbox
      BY ZenonT(30), <1>0, <2>3 DEF UniReadOther, Hand
    <3>4. ReadsFrame(uniCur)
      BY ZenonT(30), <3>2, <3>3 DEF ReadsFrame, ResultOf
    <3> QED
      BY ZenonT(30), <2>1, <3>4 DEF ReadsStream
  <2>4. CASE UniReadFails
    <3>1. /\ item'[0] = Item(read_from_stream(uniCur), uniCur, pos[uniCur] + 1)
          /\ UNCHANGED pos
      BY ZenonT(30), <1>0, <2>4 DEF UniReadFails, Hand
    <3>2. half'[uniCur] = "dropped"
      BY <1>0, <2>1, <2>4, OnlyUni DEF UniReadFails, Drop
    <3> QED
      BY ZenonT(30), <2>1, <3>1, <3>2 DEF ReadsStream, ReadsError
  <2> QED
    BY ZenonT(30), <1>3, <2>2, <2>3, <2>4
<1>4. CASE UniSourceFails
  BY ZenonT(30), <1>0, <1>4 DEF UniSourceFails, ToldOfLoss
<1>5. CASE UniSend
  BY ZenonT(30), <1>5 DEF UniSend, SendsHand
<1>6. CASE UniSendFails
  BY ZenonT(30), <1>0, <1>6 DEF UniSendFails, ChanClosed, LeavesHand
<1>7. CASE UniReadEnd \/ UniSourceEnds \/ UniNotAlive \/ \E s \in Uni : UniAccept(s)
  <2>1. UNCHANGED <<pos, log, item>> /\ uniPc = "next"
    BY ZenonT(30), <1>7
       DEF UniReadEnd, UniSourceEnds, UniNotAlive, UniAccept, UniReads
  <2>2. uniPc # "send"
    BY <2>1
  <2> QED
    BY ZenonT(30), <2>1, <2>2 DEF Quiet
<1> QED
  BY ZenonT(30), <1>1, <1>2, <1>3, <1>4, <1>5, <1>6, <1>7, OnlyUni
     DEF Next, UniStep

\* A stream that was begun stays so, and what was read of it is not changed; one
\* that was given up is not read any more.
LEMMA BegunKept ==
  ASSUME TypeOK, UniHand, BiHand, [Next]_vars, NEW s \in Uni, Begun(s)
  PROVE  /\ half'[s] \notin {"unopened", "queued"}
         /\ half[s] = "dropped" => half'[s] = "dropped" /\ pos'[s] = pos[s]
         /\ pos[s] \in Nat /\ pos'[s] \in {pos[s], pos[s] + 1}
         /\ \A k \in 1 .. pos[s] : inbox'[s][k] = inbox[s][k]
<1>0. /\ s \in Streams /\ pos \in [Streams -> Nat]
      /\ half \in [Streams -> {"unopened", "queued", "open", "eof", "dropped"}]
  BY OnlyUni DEF TypeOK, QuinnTypeOK, ReadTypeOK
<1>1. /\ half'[s] \notin {"unopened", "queued"}
      /\ half[s] = "dropped" => half'[s] = "dropped"
  BY <1>0, HalfSteps DEF Begun, Reading
<1>2. half[s] = "dropped" => pos'[s] = pos[s]
  BY <1>0, PosKept DEF Reading
<1>3. pos'[s] \in {pos[s], pos[s] + 1}
  <2>1. ASSUME NEW t \in Uni, ReadsFrame(t) PROVE pos'[s] \in {pos[s], pos[s] + 1}
    BY <1>0, <2>1, OnlyUni DEF ReadsFrame, Advance
  <2> QED
    BY ZenonT(30), <2>1, UniEffect
       DEF Quiet, ReadsStream, ReadsError, ToldOfLoss, SendsHand, LeavesHand
<1>4. \A k \in 1 .. pos[s] : inbox'[s][k] = inbox[s][k]
  BY ZenonT(30), <1>0, StepKeeps
<1> QED
  BY ZenonT(30), <1>0, <1>1, <1>2, <1>3, <1>4

\* How the channel grows: by what the listener had in hand.
LEMMA LogGrows ==
  ASSUME TypeOK, UniHand, [Next]_vars, NEW i \in 1 .. Len(log')
  PROVE  /\ Len(log) \in Nat
         /\ \/ i \in 1 .. Len(log) /\ log'[i] = log[i]
            \/ i = Len(log) + 1 /\ log'[i] = item[0] /\ SendsHand
<1>1. Len(log) \in Nat
  BY DEF TypeOK, ChanTypeOK
<1>2. CASE UNCHANGED log
  BY ZenonT(30), <1>1, <1>2
<1>3. CASE SendsHand
  <2>1. /\ Len(log') = Len(log) + 1 /\ log'[Len(log) + 1] = item[0]
        /\ \A j \in 1 .. Len(log) : log'[j] = log[j]
    BY <1>3, SentTypeOK DEF SendsHand
  <2>2. i \in 1 .. Len(log) \/ i = Len(log) + 1
    BY <1>1, <2>1
  <2> QED
    BY ZenonT(30), <1>1, <1>3, <2>1, <2>2
<1> QED
  BY ZenonT(30), <1>2, <1>3, UniEffect DEF Quiet, ReadsStream, ToldOfLoss, LeavesHand

\* Every step keeps SoundInv.
LEMMA SoundInvNext ==
  ASSUME TypeOK, UniHand, BiHand, SoundInv, [Next]_vars
  PROVE  SoundInv'
<1> DEFINE Still(x) ==
      /\ x.stream = 0 => x.res \in {"None", "ConnectionLost"}
      /\ x.stream # 0 =>
           /\ x.stream \in Uni /\ half'[x.stream] \notin {"unopened", "queued"}
           /\ x.idx \in 1 .. pos'[x.stream] + 1
           /\ x.idx <= pos'[x.stream] =>
                x.res = ResultOf(inbox'[x.stream][x.idx])
           /\ x.idx > pos'[x.stream] => half'[x.stream] = "dropped"
<1>0. item \in [{0} -> Items]
  BY OnlyUni DEF TypeOK, ListenerTypeOK
<1>1. ASSUME NEW x, Sound(x) PROVE Still(x)
  <2>1. CASE x.stream = 0
    BY ZenonT(30), <1>1, <2>1 DEF Sound
  <2>2. CASE x.stream # 0
    <3> DEFINE s == x.stream
    <3>1. /\ s \in Uni /\ Begun(s) /\ x.idx \in 1 .. pos[s] + 1
          /\ x.idx <= pos[s] => x.res = ResultOf(inbox[s][x.idx])
          /\ x.idx > pos[s] => half[s] = "dropped"
      BY ZenonT(30), <1>1, <2>2 DEF Sound
    <3>2. /\ half'[s] \notin {"unopened", "queued"}
          /\ half[s] = "dropped" => half'[s] = "dropped" /\ pos'[s] = pos[s]
          /\ pos[s] \in Nat /\ pos'[s] \in {pos[s], pos[s] + 1}
          /\ \A k \in 1 .. pos[s] : inbox'[s][k] = inbox[s][k]
      BY ZenonT(30), <3>1, BegunKept
    <3>3. CASE x.idx <= pos[s]
      <4>1. x.idx \in 1 .. pos[s] /\ x.idx \in 1 .. pos'[s] + 1 /\ ~(x.idx > pos'[s])
        BY <3>1, <3>2, <3>3
      <4>2. x.res = ResultOf(inbox'[s][x.idx])
        BY ZenonT(30), <3>1, <3>2, <3>3, <4>1
      <4> QED
        BY ZenonT(30), <2>2, <3>1, <3>2, <4>1, <4>2
    <3>4. CASE x.idx > pos[s]
      <4>1. half'[s] = "dropped" /\ pos'[s] = pos[s] /\ ~(x.idx <= pos[s])
        BY <3>1, <3>2, <3>4
      <4> QED
        BY ZenonT(30), <2>2, <3>1, <3>2, <4>1
    <3> QED
      BY <3>1, <3>2, <3>3, <3>4
  <2> QED
    BY ZenonT(30), <2>1, <2>2
<1>2. ASSUME NEW i \in 1 .. Len(log') PROVE Still(log'[i])
  <2>1. log'[i] = item[0] \/ (i \in 1 .. Len(log) /\ log'[i] = log[i])
    BY ZenonT(30), LogGrows
  <2>2. Sound(log'[i])
    BY ZenonT(30), <2>1 DEF SoundInv
  <2> QED
    BY <1>1, <2>2
<1>3. Still(item'[0])
  <2>1. CASE item'[0] = item[0]
    BY ZenonT(30), <1>1, <2>1 DEF SoundInv
  <2>2. CASE item'[0] = NoItem \/ item'[0] = Item("ConnectionLost", 0, 0)
    BY <2>2 DEF NoItem, Item
  <2>3. ASSUME NEW s \in Uni, ReadsStream(s) PROVE Still(item'[0])
    <3>1. s # 0 /\ Begun(s) /\ pos[s] \in Nat /\ pos \in [Streams -> Nat]
          /\ s \in Streams
      BY <2>3, OnlyUni DEF ReadsStream, Begun, TypeOK, ReadTypeOK
    <3>2. half'[s] \notin {"unopened", "queued"}
      BY ZenonT(30), <3>1, BegunKept
    <3>3. CASE ReadsFrame(s)
      <4>1. /\ item'[0] = Item(ResultOf(inbox'[s][pos[s] + 1]), s, pos[s] + 1)
            /\ pos'[s] = pos[s] + 1
        BY ZenonT(30), <3>1, <3>3 DEF ReadsFrame, Advance
      <4>2. /\ item'[0].stream = s /\ item'[0].idx = pos'[s]
            /\ item'[0].res = ResultOf(inbox'[s][pos'[s]])
        BY <4>1 DEF Item
      <4>3. pos'[s] \in 1 .. pos'[s] + 1 /\ ~(pos'[s] > pos'[s])
        BY <3>1, <4>1
      <4> QED
        BY ZenonT(30), <3>1, <3>2, <4>2, <4>3
    <3>4. CASE ReadsError(s)
      <4>1. /\ item'[0].stream = s /\ item'[0].idx = pos'[s] + 1
            /\ half'[s] = "dropped" /\ pos'[s] = pos[s]
        BY <3>4 DEF ReadsError, Item
      <4>2. pos'[s] + 1 \in 1 .. pos'[s] + 1 /\ ~(pos'[s] + 1 <= pos'[s])
        BY <3>1, <4>1
      <4> QED
        BY ZenonT(30), <3>1, <3>2, <4>1, <4>2
    <3> QED
      BY ZenonT(30), <2>3, <3>3, <3>4 DEF ReadsStream
  <2>4. SendsHand => item'[0] = NoItem
    BY <1>0, OnlyUni DEF SendsHand, Sent
  <2> QED
    BY ZenonT(30), <2>1, <2>2, <2>3, <2>4, UniEffect
       DEF Quiet, ToldOfLoss, LeavesHand
<1> QED
  BY ZenonT(30), <1>2, <1>3 DEF SoundInv, Sound, Begun

\* Every step keeps OrderedInv.
LEMMA OrderedInvNext ==
  ASSUME TypeOK, UniHand, TurnInv, SoundInv, OrderedInv, [Next]_vars
  PROVE  OrderedInv'
<1>0. Len(log) \in Nat /\ item \in [{0} -> Items]
  BY OnlyUni DEF TypeOK, ListenerTypeOK, ChanTypeOK
<1>1. ASSUME NEW i \in 1 .. Len(log'), NEW j \in 1 .. Len(log'), i < j
      PROVE  Precedes(log'[i], log'[j])
  <2>1. i \in 1 .. Len(log) /\ log'[i] = log[i]
    <3>1. j \in 1 .. Len(log) \/ j = Len(log) + 1
      BY ZenonT(30), LogGrows
    <3>2. i # Len(log) + 1
      BY <1>0, <1>1, <3>1
    <3> QED
      BY ZenonT(30), <3>2, LogGrows
  <2>2. (j \in 1 .. Len(log) /\ log'[j] = log[j]) \/ log'[j] = item[0]
    BY ZenonT(30), LogGrows
  <2> QED
    BY ZenonT(30), <1>1, <2>1, <2>2 DEF OrderedInv
<1>2. ASSUME NEW i \in 1 .. Len(log') PROVE Precedes(log'[i], item'[0])
  <2>1. CASE item'[0].stream = 0
    BY ZenonT(30), <2>1 DEF Precedes
  <2>2. CASE item'[0] = item[0] /\ UNCHANGED log
    BY ZenonT(30), <2>2 DEF OrderedInv
  <2>3. ASSUME NEW s \in Uni, ReadsStream(s) PROVE Precedes(log'[i], item'[0])
    <3>1. /\ half[s] = "open" /\ UNCHANGED log /\ Sound(log[i])
      BY ZenonT(30), <2>3 DEF ReadsStream, SoundInv
    <3>2. item'[0].stream = s /\ item'[0].idx = pos[s] + 1
      <4>1. \E r : item'[0] = Item(r, s, pos[s] + 1)
        BY ZenonT(30), <2>3 DEF ReadsStream, ReadsFrame, ReadsError
      <4> QED
        BY <4>1 DEF Item
    <3>3. CASE log[i].stream = 0
      BY ZenonT(30), <3>1, <3>3 DEF Precedes
    <3>4. CASE log[i].stream # 0
      <4> DEFINE u == log[i].stream
      <4>1. /\ u \in Uni /\ Begun(u) /\ log[i].idx \in 1 .. pos[u] + 1
            /\ log[i].idx > pos[u] => half[u] = "dropped"
        BY ZenonT(30), <3>1, <3>4 DEF Sound
      <4>2. ~(s < u)
        BY <3>1, <4>1 DEF TurnInv
      <4>3. s \in Nat /\ u \in Nat /\ pos[s] \in Nat
        BY <4>1, OnlyUni DEF TypeOK, ReadTypeOK
      <4>4. u < s \/ u = s
        BY <4>2, <4>3
      <4>5. u = s => log[i].idx < pos[s] + 1
        BY <3>1, <4>1, <4>3
      <4> QED
        BY ZenonT(30), <3>1, <3>2, <4>4, <4>5 DEF Precedes
    <3> QED
      BY ZenonT(30), <3>3, <3>4
  <2>4. SendsHand \/ ToldOfLoss \/ LeavesHand => item'[0].stream = 0
    BY <1>0, OnlyUni
       DEF SendsHand, Sent, ToldOfLoss, LeavesHand, NoItem, Item
  <2> QED
    BY ZenonT(30), <2>1, <2>2, <2>3, <2>4, UniEffect DEF Quiet
<1> QED
  BY ZenonT(30), <1>1, <1>2 DEF OrderedInv

\* Every step keeps IdleInv.
LEMMA IdleInvNext ==
  ASSUME TypeOK, UniHand, IdleInv, [Next]_vars
  PROVE  IdleInv'
<1>0. item \in [{0} -> Items]
  BY OnlyUni DEF TypeOK, ListenerTypeOK
<1>1. SendsHand \/ LeavesHand => item'[0].stream = 0
  BY <1>0, OnlyUni DEF SendsHand, Sent, LeavesHand, NoItem, Item
<1>2. Quiet => IdleInv'
  BY DEF Quiet, IdleInv
<1>3. (\E s \in Uni : ReadsStream(s)) \/ ToldOfLoss => uniPc' = "send"
  BY ZenonT(30) DEF ReadsStream, ToldOfLoss
<1> QED
  BY ZenonT(30), <1>1, <1>2, <1>3, UniEffect DEF IdleInv

\* Every step keeps ReadKept.
LEMMA ReadKeptNext ==
  ASSUME TypeOK, UniHand, IdleInv, ReadKept, [Next]_vars
  PROVE  ReadKept'
<1>0. /\ rxOpen' => rxOpen
      /\ Len(log) \in Nat /\ Len(log') \in Nat /\ Len(log) <= Len(log')
      /\ \A i \in 1 .. Len(log) : log'[i] = log[i]
  BY ZenonT(30), StepKeeps, LogKept DEF TypeOK, ChanTypeOK
<1> SUFFICES ASSUME rxOpen', NEW s \in Uni, NEW k \in 1 .. pos'[s]
             PROVE  \/ About(item'[0], s, k)
                    \/ \E i \in 1 .. Len(log') : About(log'[i], s, k)
  BY ZenonT(30) DEF ReadKept, About
<1>1. ASSUME \E i \in 1 .. Len(log) : About(log[i], s, k)
      PROVE  \E i \in 1 .. Len(log') : About(log'[i], s, k)
  <2>1. PICK i \in 1 .. Len(log) : About(log[i], s, k)
    BY ZenonT(30), <1>1
  <2>2. i \in 1 .. Len(log') /\ log'[i] = log[i]
    BY <1>0
  <2> QED
    BY ZenonT(30), <2>1, <2>2
<1>2. ASSUME k \in 1 .. pos[s]
      PROVE  \/ About(item[0], s, k)
             \/ \E i \in 1 .. Len(log') : About(log'[i], s, k)
  BY ZenonT(30), <1>0, <1>1, <1>2 DEF ReadKept
<1>3. uniPc = "next" => ~About(item[0], s, k)
  BY OnlyUni DEF IdleInv, About
<1>4. CASE Quiet
  BY ZenonT(30), <1>2, <1>4 DEF Quiet
<1>5. ASSUME NEW t \in Uni, ReadsStream(t)
      PROVE  \/ About(item'[0], s, k)
             \/ \E i \in 1 .. Len(log') : About(log'[i], s, k)
  <2>0. uniPc = "next" /\ pos[s] \in Nat /\ pos \in [Uni -> Nat]
    BY <1>5, OnlyUni DEF ReadsStream, TypeOK, ReadTypeOK
  <2>1. CASE k \in 1 .. pos[s]
    BY ZenonT(30), <1>2, <1>3, <2>0, <2>1
  <2>2. CASE k \notin 1 .. pos[s]
    <3>1. ReadsFrame(t) /\ t = s /\ k = pos[s] + 1
      <4>1. pos'[s] # pos[s]
        BY ZenonT(30), <2>2
      <4>2. ReadsFrame(t)
        BY ZenonT(30), <1>5, <4>1 DEF ReadsStream, ReadsError
      <4>3. t = s /\ pos'[s] = pos[s] + 1
        BY <2>0, <4>1, <4>2 DEF ReadsFrame, Advance
      <4> QED
        BY <2>0, <2>2, <4>2, <4>3, UpToNext
    <3>2. item'[0].stream = s /\ item'[0].idx = k
      BY <3>1 DEF ReadsFrame, Item
    <3> QED
      BY ZenonT(30), <3>2 DEF About
  <2> QED
    BY ZenonT(30), <2>1, <2>2
<1>6. CASE ToldOfLoss
  BY ZenonT(30), <1>2, <1>3, <1>6 DEF ToldOfLoss
<1>7. CASE SendsHand
  <2>1. /\ Len(log') = Len(log) + 1 /\ log'[Len(log) + 1] = item[0]
    BY <1>7, SentTypeOK DEF SendsHand
  <2>2. Len(log) + 1 \in 1 .. Len(log')
    BY <1>0, <2>1
  <2>3. k \in 1 .. pos[s]
    BY ZenonT(30), <1>7 DEF SendsHand
  <2>4. CASE About(item[0], s, k)
    BY ZenonT(30), <2>1, <2>2, <2>4
  <2> QED
    BY ZenonT(30), <1>2, <2>3, <2>4
<1>8. ~LeavesHand
  BY ZenonT(30), <1>0 DEF LeavesHand
<1> QED
  BY ZenonT(30), <1>4, <1>5, <1>6, <1>7, <1>8, UniEffect

\* These invariants, and those of ReceiveOutcomeProofs, hold in every state.
LEMMA TurnsCorrect ==
  Spec => [](/\ TypeOK /\ EndInv /\ UniHand /\ BiHand /\ OpenInv /\ LeftInv
             /\ TurnsInv)
<1>1. Init => TurnsInv
  <2> SUFFICES ASSUME Init PROVE TurnsInv
    OBVIOUS
  <2>1. /\ \A s \in Uni : half[s] = "unopened" /\ pos[s] = 0
        /\ item[0].stream = 0 /\ item[0].res = "None" /\ 1 .. 0 = {}
    BY OnlyUni DEF Init, NoItem, Item
  <2>2. 1 .. Len(log) = {}
    BY DEF Init
  <2>3. TurnInv /\ SoundInv /\ OrderedInv /\ IdleInv
    BY <2>1, <2>2 DEF TurnInv, Begun, SoundInv, Sound, OrderedInv, IdleInv
  <2>4. ReadKept
    BY ZenonT(30), <2>1 DEF ReadKept
  <2> QED
    BY <2>3, <2>4 DEF TurnsInv
<1>2. ASSUME TypeOK, UniHand, BiHand, OpenInv, TurnsInv, [Next]_vars
      PROVE  TurnsInv'
  BY <1>2, TurnInvNext, SoundInvNext, OrderedInvNext, IdleInvNext, ReadKeptNext
     DEF TurnsInv
<1> QED
  BY <1>1, <1>2, LeftCorrect, PTL DEF Spec

-----------------------------------------------------------------------------
(***************************************************************************)
(* The calls at the sending end, and the streams they own.                 *)
(***************************************************************************)
CallResults == {"Ok", "ConnectionLost", "Dropped", "Serialization",
                "StreamLost", "Stopped"}

SenderTypeOK ==
  /\ lost \in BOOLEAN /\ content \in [Calls -> Contents]
  /\ callPc \in [Calls -> {"new", "open", "write", "kept", "finish", "done"}]
  /\ result \in [Calls -> CallResults \cup {"none"}]
  /\ owner \in [Uni -> Calls \cup {0}]
  /\ written \in [Uni -> {"none", "part", "whole"}]
  /\ finished \in [Uni -> BOOLEAN]
  /\ stopped \subseteq Uni
  /\ before \in [Calls -> SUBSET Calls]

\* A call has a result when it is done.
Returned == \A c \in Calls : result[c] = "none" <=> callPc[c] # "done"

\* A call that fails so has not sent its message.
NotSent == {"Serialization", "StreamLost"}

\* An attempt that has failed before the end of the message.
Tried(s) == finished[s] /\ written[s] # "whole"

\* The stream of the last attempt of its owner.
Current(s) == owner[s] # 0 /\ \A t \in Uni : owner[t] = owner[s] => t <= s

\* A call owns a stream for each of its attempts, of which all but the last
\* have failed.  Streams are opened one after the other.
OwnerInv ==
  /\ \A c \in Calls : callPc[c] = "new" => \A s \in Uni : owner[s] # c
  /\ \A c \in Calls :
       callPc[c] \in {"write", "kept", "finish"} =>
         \E s \in Uni : owner[s] = c /\ Current(s)
  /\ \A s, t \in Uni : s < t /\ owner[s] = owner[t] /\ owner[s] # 0 => Tried(s)
  /\ \A s, t \in Uni : t < s /\ owner[s] # 0 => owner[t] # 0

\* Streams are written by their owners, who finish them after the message
\* unless they are dropped, or fail before its end.
WrittenInv ==
  \A s \in Uni :
    /\ written[s] # "none" \/ finished[s] => owner[s] # 0
    /\ owner[s] # 0 =>
         /\ content[owner[s]] = "long" => written[s] = "none"
         /\ callPc[owner[s]] = "open" \/ result[owner[s]] \in NotSent => Tried(s)
         /\ Current(s) /\ callPc[owner[s]] = "write" =>
              ~finished[s] /\ written[s] # "whole"
         /\ Current(s) /\ callPc[owner[s]] \in {"kept", "finish"} =>
              written[s] = "whole"

\* Only a message that is too long is refused with Serialization, and it is
\* never sent with success.
RefusedInv ==
  \A c \in Calls : /\ result[c] = "Serialization" => content[c] = "long"
                   /\ result[c] = "Ok" => content[c] # "long"

CallInv == SenderTypeOK /\ Returned /\ OwnerInv /\ WrittenInv

\* The step that call c takes.
CallStep(c) == BeginCall(c) \/ Call(c) \/ FinishKept(c) \/ DropCall(c)

\* A call that writes or finishes has a current stream.
LEMMA StreamOfOwned ==
  ASSUME CallInv, NEW c \in Calls, callPc[c] \in {"write", "kept", "finish"}
  PROVE  /\ StreamOf(c) \in Uni /\ owner[StreamOf(c)] = c /\ c # 0
         /\ Current(StreamOf(c))
<1>1. \E s \in Uni : owner[s] = c /\ \A t \in Uni : owner[t] = c => t <= s
  BY ZenonT(30) DEF CallInv, OwnerInv, Current
<1>2. c # 0
  BY ZenonT(30), MessagingAssumption
<1>3. /\ StreamOf(c) \in Uni /\ owner[StreamOf(c)] = c
      /\ \A t \in Uni : owner[t] = c => t <= StreamOf(c)
  BY ZenonT(30), <1>1 DEF StreamOf
<1> QED
  BY ZenonT(30), <1>2, <1>3 DEF Current

\* Its earlier attempts have failed.
LEMMA EarlierTried ==
  ASSUME CallInv, NEW c \in Calls, callPc[c] \in {"write", "kept", "finish"},
         NEW s \in Uni, owner[s] = c, s # StreamOf(c)
  PROVE  Tried(s) /\ ~Current(s)
<1>1. /\ StreamOf(c) \in Uni /\ owner[StreamOf(c)] = c /\ c # 0
      /\ Current(StreamOf(c))
  BY StreamOfOwned
<1>2. s \in Nat /\ StreamOf(c) \in Nat /\ s <= StreamOf(c)
  BY <1>1, OnlyUni DEF Current
<1>3. s < StreamOf(c)
  BY <1>2
<1>4. ~(StreamOf(c) <= s)
  BY <1>2, <1>3
<1> QED
  BY ZenonT(30), <1>1, <1>3, <1>4 DEF CallInv, OwnerInv, Current

\* A step of a call keeps the types of what the calls have.
LEMMA CallTypeOK ==
  ASSUME CallInv, NEW c \in Calls, CallStep(c), UNCHANGED content
  PROVE  SenderTypeOK'
<1> DEFINE Pcs == {"new", "open", "write", "kept", "finish", "done"}
<1>0. /\ SenderTypeOK
      /\ "open" \in Pcs /\ "write" \in Pcs /\ "kept" \in Pcs
      /\ "finish" \in Pcs /\ "done" \in Pcs
      /\ \A res \in CallResults : res \in CallResults \cup {"none"}
      /\ \A res \in NotSent : res \in CallResults
      /\ {"Ok", "ConnectionLost", "Dropped", "Stopped"} \subseteq CallResults
  BY DEF CallInv, CallResults, NotSent
<1>1. ASSUME NEW pc \in Pcs, Goes(c, pc) PROVE callPc' \in [Calls -> Pcs]
  BY ZenonT(30), <1>0, <1>1 DEF Goes, SenderTypeOK
<1>2. ASSUME NEW res \in CallResults, Returns(c, res)
      PROVE  /\ callPc' \in [Calls -> Pcs]
             /\ result' \in [Calls -> CallResults \cup {"none"}]
             /\ UNCHANGED <<lost, stopped, before>>
  BY ZenonT(30), <1>0, <1>1, <1>2 DEF Returns, SenderTypeOK
<1>3. ASSUME NEW res \in NotSent, Fails(c, res)
      PROVE  /\ callPc' \in [Calls -> Pcs]
             /\ result' \in [Calls -> CallResults \cup {"none"}]
             /\ finished' \in [Uni -> BOOLEAN]
             /\ UNCHANGED <<lost, stopped, before>>
  BY ZenonT(30), <1>0, <1>1, <1>2, <1>3 DEF Fails, SenderTypeOK
<1>4. CASE BeginCall(c)
  <2>1. before' \in [Calls -> SUBSET Calls]
    BY <1>0, <1>4 DEF BeginCall, SenderTypeOK
  <2> QED
    BY ZenonT(30), <1>0, <1>1, <1>4, <2>1 DEF BeginCall, SenderTypeOK
<1>5. CASE OpenUni(c)
  <2>1. owner' \in [Uni -> Calls \cup {0}]
    BY <1>0, <1>5 DEF OpenUni, Unused, SenderTypeOK
  <2> QED
    BY ZenonT(30), <1>0, <1>1, <1>2, <1>5, <2>1 DEF OpenUni, SenderTypeOK
<1>6. CASE Write(c)
  <2>1. CASE Fails(c, "Serialization") \/ Fails(c, "StreamLost")
    BY ZenonT(30), <1>0, <1>3, <1>6, <2>1 DEF Write, SenderTypeOK, NotSent
  <2>2. CASE Returns(c, "ConnectionLost") /\ UNCHANGED <<written, finished>>
    BY ZenonT(30), <1>0, <1>2, <1>6, <2>2 DEF Write, SenderTypeOK
  <2>3. CASE /\ written' = [written EXCEPT ![StreamOf(c)] = "part"]
             /\ UNCHANGED <<lost, callPc, result, finished, stopped, before>>
    BY ZenonT(30), <1>0, <1>6, <2>3 DEF Write, SenderTypeOK
  <2>4. CASE /\ written' = [written EXCEPT ![StreamOf(c)] = "whole"]
             /\ \/ Goes(c, "kept") /\ UNCHANGED finished
                \/ /\ Goes(c, "finish")
                   /\ finished' = [finished EXCEPT ![StreamOf(c)] = TRUE]
             /\ UNCHANGED <<lost, result, stopped, before>>
    BY ZenonT(30), <1>0, <1>1, <1>6, <2>4 DEF Write, SenderTypeOK
  <2> QED
    BY ZenonT(30), <1>6, <2>1, <2>2, <2>3, <2>4 DEF Write
<1>7. CASE FinishKept(c)
  BY ZenonT(30), <1>0, <1>1, <1>7 DEF FinishKept, SenderTypeOK
<1>8. CASE Finish(c)
  BY ZenonT(30), <1>0, <1>2, <1>8 DEF Finish, SenderTypeOK
<1>9. CASE DropCall(c)
  <2>1. finished' \in [Uni -> BOOLEAN]
    BY <1>9 DEF DropCall
  <2> QED
    BY ZenonT(30), <1>0, <1>2, <1>9, <2>1 DEF DropCall, SenderTypeOK
<1> QED
  BY ZenonT(30), <1>4, <1>5, <1>6, <1>7, <1>8, <1>9 DEF CallStep, Call

\* The stream that open_uni takes: the first that nobody owns.
LEMMA OpensNext ==
  ASSUME CallInv, NEW c \in Calls, OpenUni(c), ~lost
  PROVE  \E s \in Uni : /\ owner[s] = 0 /\ owner' = [owner EXCEPT ![s] = c]
                        /\ \A t \in Uni : t < s <=> owner[t] # 0
<1>1. PICK s \in Unused : /\ \A t \in Unused : s <= t
                          /\ owner' = [owner EXCEPT ![s] = c]
  BY DEF OpenUni
<1>2. s \in Uni /\ owner[s] = 0
  BY DEF Unused
<1>3. ASSUME NEW t \in Uni PROVE t < s <=> owner[t] # 0
  <2>1. s \in Nat /\ t \in Nat
    BY <1>2, OnlyUni
  <2>2. owner[t] = 0 => s <= t
    BY <1>1 DEF Unused
  <2>3. owner[t] # 0 => ~(s < t) /\ s # t
    BY <1>2, OnlyUni DEF CallInv, OwnerInv
  <2> QED
    BY <2>1, <2>2, <2>3
<1> QED
  BY ZenonT(30), <1>1, <1>2, <1>3

\* open_uni fails only when the connection is lost.
LEMMA OpenFails ==
  ASSUME CallInv, NEW c \in Calls, OpenUni(c), UNCHANGED owner
  PROVE  lost
<1> SUFFICES ASSUME ~lost PROVE FALSE
  OBVIOUS
<1>1. PICK u \in Uni : owner[u] = 0 /\ owner' = [owner EXCEPT ![u] = c]
  BY ZenonT(30), OpensNext
<1>2. owner'[u] = c /\ c # 0
  BY ZenonT(30), <1>1, MessagingAssumption DEF CallInv, SenderTypeOK
<1> QED
  BY ZenonT(30), <1>1, <1>2

\* The ways of a call that writes: its attempt fails, it returns, or it writes
\* some or all that is left of its frame.
Attempts(c, res) ==
  /\ Fails(c, res) /\ UNCHANGED written
  /\ res = "Serialization" => content[c] = "long"
  /\ res = "StreamLost" => StreamOf(c) \in stopped

WritesPart(c) ==
  /\ content[c] # "long" /\ StreamOf(c) \notin stopped
  /\ written' = [written EXCEPT ![StreamOf(c)] = "part"]
  /\ UNCHANGED <<callPc, result, finished, stopped, before>>

WritesWhole(c) ==
  /\ content[c] # "long" /\ StreamOf(c) \notin stopped
  /\ written' = [written EXCEPT ![StreamOf(c)] = "whole"]
  /\ \/ Goes(c, "kept") /\ UNCHANGED finished
     \/ Goes(c, "finish") /\ finished' = [finished EXCEPT ![StreamOf(c)] = TRUE]
  /\ UNCHANGED <<result, stopped, before>>

\* There is no other way.
LEMMA WriteEffect ==
  ASSUME NEW c \in Calls, Write(c)
  PROVE  /\ callPc[c] = "write" /\ UNCHANGED owner
         /\ \/ \E res \in NotSent : Attempts(c, res)
            \/ Returns(c, "ConnectionLost") /\ UNCHANGED <<written, finished>>
            \/ WritesPart(c) \/ WritesWhole(c)
<1>1. "Serialization" # "StreamLost"
  OBVIOUS
<1> QED
  BY ZenonT(30), <1>1 DEF Write, Attempts, WritesPart, WritesWhole, NotSent

\* What a call writes and finishes is a stream of its own: it never writes behind
\* the end of a stream, nor a message that is too long.
LEMMA CallWrites ==
  ASSUME CallInv, NEW c \in Calls, CallStep(c), NEW s \in Uni
  PROVE  /\ written[s] = "whole" => written'[s] = "whole"
         /\ finished[s] => finished'[s]
         /\ written'[s] = written[s] \/ ~finished[s]
         /\ owner[s] # c => written'[s] = written[s] /\ finished'[s] = finished[s]
         /\ written'[s] # written[s] => content[c] # "long"
<1>0. /\ written \in [Uni -> {"none", "part", "whole"}]
      /\ finished \in [Uni -> BOOLEAN]
  BY ZenonT(30) DEF CallInv, SenderTypeOK
<1>1. CASE Write(c)
  <2>0. callPc[c] = "write" /\ StreamOf(c) \in Uni /\ owner[StreamOf(c)] = c
    BY ZenonT(30), <1>1, WriteEffect, StreamOfOwned
  <2>1. ~finished[StreamOf(c)] /\ written[StreamOf(c)] # "whole"
    BY ZenonT(30), <2>0, StreamOfOwned DEF CallInv, WrittenInv
  <2>2. CASE s = StreamOf(c)
    <3>1. ~finished[s] /\ owner[s] = c /\ written[s] # "whole"
      BY ZenonT(30), <2>0, <2>1, <2>2
    <3>2. written'[s] # written[s] => content[c] # "long"
      BY ZenonT(30), <1>1, WriteEffect DEF Attempts, WritesPart, WritesWhole
    <3> QED
      BY ZenonT(30), <3>1, <3>2
  <2>3. CASE s # StreamOf(c)
    <3>1. written'[s] = written[s]
      BY ZenonT(30), <1>0, <1>1, <2>3, WriteEffect
         DEF Attempts, WritesPart, WritesWhole
    <3>2. finished'[s] = finished[s]
      BY ZenonT(30), <1>0, <1>1, <2>3, WriteEffect
         DEF Attempts, Fails, WritesPart, WritesWhole
    <3> QED
      BY ZenonT(30), <3>1, <3>2
  <2> QED
    BY ZenonT(30), <2>2, <2>3
<1>2. CASE FinishKept(c)
  <2>1. StreamOf(c) \in Uni /\ owner[StreamOf(c)] = c
    BY <1>2, StreamOfOwned DEF FinishKept
  <2> QED
    BY ZenonT(30), <1>0, <1>2, <2>1 DEF FinishKept
<1>3. CASE DropCall(c)
  BY ZenonT(30), <1>0, <1>3 DEF DropCall, Returns
<1>4. CASE UNCHANGED <<written, finished>>
  BY ZenonT(30), <1>4
<1> QED
  BY ZenonT(30), <1>1, <1>2, <1>3, <1>4
     DEF CallStep, Call, BeginCall, OpenUni, Finish, Returns

\* A step of call c that opens no stream leaves its streams as WrittenInv has
\* them.
LEMMA OwnWritten ==
  ASSUME CallInv, NEW c \in Calls, CallStep(c), UNCHANGED owner,
         NEW s \in Uni, owner[s] = c
  PROVE  /\ callPc'[c] = "open" \/ result'[c] \in NotSent => Tried(s)'
         /\ Current(s) /\ callPc'[c] = "write" =>
              ~finished'[s] /\ written'[s] # "whole"
         /\ Current(s) /\ callPc'[c] \in {"kept", "finish"} =>
              written'[s] = "whole"
<1>0. /\ callPc \in [Calls -> {"new", "open", "write", "kept", "finish", "done"}]
      /\ result \in [Calls -> CallResults \cup {"none"}]
      /\ written \in [Uni -> {"none", "part", "whole"}]
      /\ finished \in [Uni -> BOOLEAN] /\ c # 0
      /\ "none" \notin NotSent /\ "Ok" \notin NotSent /\ "Dropped" \notin NotSent
      /\ "ConnectionLost" \notin NotSent /\ "Stopped" \notin NotSent
  BY MessagingAssumption DEF CallInv, SenderTypeOK, NotSent
<1>1. Tried(s) => Tried(s)'
  BY ZenonT(30), CallWrites DEF Tried
<1>2. ASSUME NEW res \in CallResults \ NotSent, Returns(c, res)
      PROVE  callPc'[c] = "done" /\ result'[c] \notin NotSent
  BY ZenonT(30), <1>0, <1>2 DEF Returns, Goes
<1>3. {"Ok", "ConnectionLost", "Dropped", "Stopped"} \subseteq CallResults \ NotSent
  BY DEF CallResults, NotSent
<1>4. callPc'[c] = "done" /\ result'[c] \notin NotSent =>
        callPc'[c] \notin {"open", "write", "kept", "finish"}
  BY ZenonT(30)
<1>5. CASE BeginCall(c)
  <2>1. owner[s] # c
    BY ZenonT(30), <1>5 DEF BeginCall, CallInv, OwnerInv
  <2> QED
    BY ZenonT(30), <2>1
<1>6. CASE OpenUni(c)
  <2>1. lost
    BY ZenonT(30), <1>6, OpenFails
  <2> QED
    BY ZenonT(30), <1>2, <1>3, <1>4, <1>6, <2>1 DEF OpenUni
<1>7. CASE Write(c)
  <2>0. /\ callPc[c] = "write" /\ result[c] \notin NotSent
        /\ StreamOf(c) \in Uni
    BY ZenonT(30), <1>0, <1>7, WriteEffect, StreamOfOwned DEF CallInv, Returned
  <2>1. /\ s # StreamOf(c) => Tried(s) /\ ~Current(s)
        /\ s = StreamOf(c) => Current(s) /\ ~finished[s] /\ written[s] # "whole"
    <3>1. s # StreamOf(c) => Tried(s) /\ ~Current(s)
      BY ZenonT(30), <2>0, EarlierTried
    <3>2. s = StreamOf(c) => Current(s)
      BY ZenonT(30), <2>0, StreamOfOwned
    <3>3. Current(s) => ~finished[s] /\ written[s] # "whole"
      BY ZenonT(30), <1>0, <2>0 DEF CallInv, WrittenInv
    <3> QED
      BY ZenonT(30), <3>1, <3>2, <3>3
  <2>2. ASSUME NEW res \in NotSent, Attempts(c, res)
        PROVE  Tried(s)' /\ callPc'[c] \in {"open", "done"}
    <3>1. s = StreamOf(c) => finished'[s] /\ written'[s] # "whole"
      BY ZenonT(30), <1>0, <2>1, <2>2 DEF Attempts, Fails
    <3>2. Tried(s)'
      BY ZenonT(30), <1>1, <2>1, <3>1 DEF Tried
    <3> QED
      BY ZenonT(30), <1>0, <2>2, <3>2 DEF Attempts, Fails, Returns, Goes
  <2>3. CASE WritesPart(c)
    <3>1. s = StreamOf(c) => ~finished'[s] /\ written'[s] = "part"
      BY ZenonT(30), <1>0, <2>1, <2>3 DEF WritesPart
    <3> QED
      BY ZenonT(30), <2>0, <2>1, <2>3, <3>1 DEF WritesPart
  <2>4. CASE WritesWhole(c)
    <3>1. callPc'[c] \in {"kept", "finish"} /\ result'[c] \notin NotSent
      BY ZenonT(30), <1>0, <2>0, <2>4 DEF WritesWhole, Goes
    <3>2. s = StreamOf(c) => written'[s] = "whole"
      BY ZenonT(30), <1>0, <2>4 DEF WritesWhole
    <3> QED
      BY ZenonT(30), <2>1, <3>1, <3>2
  <2> QED
    BY ZenonT(30), <1>2, <1>3, <1>4, <1>7, <2>2, <2>3, <2>4, WriteEffect
<1>8. CASE FinishKept(c)
  <2>1. /\ callPc[c] = "kept" /\ callPc'[c] = "finish"
        /\ UNCHANGED <<result, written>>
    BY ZenonT(30), <1>0, <1>8 DEF FinishKept, Goes
  <2>2. result[c] \notin NotSent
    BY ZenonT(30), <1>0, <2>1 DEF CallInv, Returned
  <2> QED
    BY ZenonT(30), <1>0, <2>1, <2>2 DEF CallInv, WrittenInv
<1>9. CASE Finish(c) \/ DropCall(c)
  <2>1. \E res \in CallResults \ NotSent : Returns(c, res)
    BY ZenonT(30), <1>3, <1>9 DEF Finish, DropCall
  <2> QED
    BY ZenonT(30), <1>2, <1>4, <2>1
<1> QED
  BY ZenonT(30), <1>5, <1>6, <1>7, <1>8, <1>9 DEF CallStep, Call

\* A step that opens a stream keeps the streams owned and written as they should
\* be.
LEMMA CallInvOpens ==
  ASSUME CallInv, NEW c \in Calls, OpenUni(c), ~lost, UNCHANGED content
  PROVE  OwnerInv' /\ WrittenInv'
<1>0. /\ callPc \in [Calls -> {"new", "open", "write", "kept", "finish", "done"}]
      /\ result \in [Calls -> CallResults \cup {"none"}]
      /\ owner \in [Uni -> Calls \cup {0}] /\ 0 \notin Calls
      /\ Uni \subseteq Nat
  BY ZenonT(30), MessagingAssumption, OnlyUni DEF CallInv, SenderTypeOK
<1>1. PICK s \in Uni : /\ owner[s] = 0 /\ owner' = [owner EXCEPT ![s] = c]
                       /\ \A t \in Uni : t < s <=> owner[t] # 0
  BY OpensNext
<1>2. /\ callPc[c] = "open" /\ callPc' = [callPc EXCEPT ![c] = "write"]
      /\ UNCHANGED <<written, finished, result>> /\ c # 0
  BY ZenonT(30), <1>0 DEF OpenUni, Goes
<1>3. owner'[s] = c /\ \A t \in Uni : t # s => owner'[t] = owner[t]
  BY ZenonT(30), <1>0, <1>1
<1>4. callPc'[c] = "write" /\ \A d \in Calls : d # c => callPc'[d] = callPc[d]
  BY ZenonT(30), <1>0, <1>2
<1>5. \A t \in Uni : owner[t] = c => Tried(t)
  BY ZenonT(30), <1>0, <1>2 DEF CallInv, WrittenInv
<1>6. \A t \in Uni : Tried(t)' <=> Tried(t)
  BY ZenonT(30), <1>2 DEF Tried
<1>7. Current(s)'
  <2>1. \A t \in Uni : owner'[t] = c => t <= s
    <3> SUFFICES ASSUME NEW t \in Uni, owner'[t] = c, t # s PROVE t <= s
      BY <1>0
    <3>1. t < s
      BY ZenonT(30), <1>1, <1>2, <1>3
    <3> QED
      BY <1>0, <3>1
  <2> QED
    BY ZenonT(30), <1>2, <1>3, <2>1 DEF Current
<1>8. ASSUME NEW t \in Uni, t # s, owner[t] # c PROVE Current(t)' <=> Current(t)
  BY ZenonT(30), <1>1, <1>2, <1>3, <1>8 DEF Current
<1>9. ASSUME NEW t \in Uni, t # s, owner[t] = c PROVE ~Current(t)'
  <2>1. t < s /\ t \in Nat /\ s \in Nat
    BY <1>0, <1>1, <1>2, <1>9
  <2>2. ~(s <= t)
    BY <2>1
  <2> QED
    BY ZenonT(30), <1>3, <1>9, <2>2 DEF Current
<1>10. OwnerInv'
  <2>1. \A d \in Calls : callPc'[d] = "new" => \A t \in Uni : owner'[t] # d
    <3> SUFFICES ASSUME NEW d \in Calls, callPc'[d] = "new", NEW t \in Uni
                 PROVE  owner'[t] # d
      OBVIOUS
    <3>1. d # c
      BY <1>4
    <3>2. owner[t] # d
      BY ZenonT(30), <1>4, <3>1 DEF CallInv, OwnerInv
    <3> QED
      BY ZenonT(30), <1>3, <3>1, <3>2
  <2>2. \A d \in Calls :
          callPc'[d] \in {"write", "kept", "finish"} =>
            \E t \in Uni : owner'[t] = d /\ Current(t)'
    <3> SUFFICES ASSUME NEW d \in Calls,
                        callPc'[d] \in {"write", "kept", "finish"}, d # c
                 PROVE  \E t \in Uni : owner'[t] = d /\ Current(t)'
      BY ZenonT(30), <1>3, <1>7
    <3>1. PICK t \in Uni : owner[t] = d /\ Current(t)
      BY ZenonT(30), <1>4 DEF CallInv, OwnerInv
    <3>2. t # s
      BY ZenonT(30), <1>0, <1>1, <3>1
    <3> QED
      BY ZenonT(30), <1>3, <1>8, <3>1, <3>2
  <2>3. \A t, u \in Uni :
          t < u /\ owner'[t] = owner'[u] /\ owner'[t] # 0 => Tried(t)'
    <3> SUFFICES ASSUME NEW t \in Uni, NEW u \in Uni, t < u,
                        owner'[t] = owner'[u], owner'[t] # 0
                 PROVE  Tried(t)
      BY ZenonT(30), <1>6
    <3>1. CASE t = s
      <4>1. ~(u < s) /\ u # s
        BY <1>0, <3>1
      <4>2. owner'[u] = 0
        BY ZenonT(30), <1>1, <1>3, <4>1
      <4> QED
        BY ZenonT(30), <4>2
    <3>2. CASE t # s /\ u = s
      BY ZenonT(30), <1>3, <1>5, <3>2
    <3>3. CASE t # s /\ u # s
      BY ZenonT(30), <1>3, <3>3 DEF CallInv, OwnerInv
    <3> QED
      BY ZenonT(30), <3>1, <3>2, <3>3
  <2>4. \A t, u \in Uni : u < t /\ owner'[t] # 0 => owner'[u] # 0
    <3> SUFFICES ASSUME NEW t \in Uni, NEW u \in Uni, u < t, owner'[t] # 0
                 PROVE  owner'[u] # 0
      OBVIOUS
    <3>1. CASE u = s
      BY ZenonT(30), <1>2, <1>3, <3>1
    <3>2. CASE u # s /\ t = s
      BY ZenonT(30), <1>1, <1>3, <3>2
    <3>3. CASE u # s /\ t # s
      BY ZenonT(30), <1>3, <3>3 DEF CallInv, OwnerInv
    <3> QED
      BY ZenonT(30), <3>1, <3>2, <3>3
  <2> QED
    BY ZenonT(30), <2>1, <2>2, <2>3, <2>4 DEF OwnerInv
<1>11. WrittenInv'
  <2> SUFFICES ASSUME NEW t \in Uni
               PROVE  /\ written[t] # "none" \/ finished[t] => owner'[t] # 0
                      /\ owner'[t] # 0 =>
                           /\ content[owner'[t]] = "long" => written[t] = "none"
                           /\ \/ callPc'[owner'[t]] = "open"
                              \/ result[owner'[t]] \in NotSent
                              => Tried(t)
                           /\ Current(t)' /\ callPc'[owner'[t]] = "write" =>
                                ~finished[t] /\ written[t] # "whole"
                           /\ /\ Current(t)'
                              /\ callPc'[owner'[t]] \in {"kept", "finish"}
                              => written[t] = "whole"
    BY ZenonT(30), <1>2, <1>6 DEF WrittenInv
  <2>1. CASE t = s
    <3>1. written[t] = "none" /\ ~finished[t]
      BY ZenonT(30), <1>1, <2>1 DEF CallInv, WrittenInv
    <3>2. result[c] \notin NotSent
      BY <1>2 DEF CallInv, Returned, NotSent
    <3> QED
      BY <1>2, <1>3, <1>4, <2>1, <3>1, <3>2
  <2>2. CASE t # s /\ owner[t] = c
    <3>1. Tried(t) /\ ~Current(t)' /\ owner'[t] = c
      BY ZenonT(30), <1>3, <1>5, <1>9, <2>2
    <3>2. content[c] = "long" => written[t] = "none"
      BY ZenonT(30), <1>2, <2>2 DEF CallInv, WrittenInv
    <3> QED
      BY ZenonT(30), <1>2, <3>1, <3>2
  <2>3. CASE t # s /\ owner[t] # c
    <3>1. owner'[t] = owner[t] /\ (Current(t)' <=> Current(t))
      BY ZenonT(30), <1>3, <1>8, <2>3
    <3>2. owner[t] # 0 => callPc'[owner[t]] = callPc[owner[t]]
      BY ZenonT(30), <1>0, <1>4, <2>3
    <3> QED
      BY ZenonT(30), <3>1, <3>2 DEF CallInv, WrittenInv
  <2> QED
    BY ZenonT(30), <2>1, <2>2, <2>3
<1> QED
  BY ZenonT(30), <1>10, <1>11

\* So does any other step of a call.
LEMMA CallInvWrites ==
  ASSUME CallInv, NEW c \in Calls, CallStep(c), UNCHANGED <<owner, content>>
  PROVE  OwnerInv' /\ WrittenInv'
<1>0. /\ callPc \in [Calls -> {"new", "open", "write", "kept", "finish", "done"}]
      /\ result \in [Calls -> CallResults \cup {"none"}]
      /\ owner \in [Uni -> Calls \cup {0}] /\ 0 \notin Calls
  BY ZenonT(30), MessagingAssumption DEF CallInv, SenderTypeOK
<1>1. \A d \in Calls \ {c} : callPc'[d] = callPc[d] /\ result'[d] = result[d]
  BY ZenonT(30), <1>0, WriteEffect
     DEF CallStep, BeginCall, Call, OpenUni, Attempts, Fails, WritesPart,
         WritesWhole, Finish, FinishKept, DropCall, Goes, Returns
<1>2. callPc'[c] # "new"
  <2>1. Goes(c, "open") \/ Goes(c, "write") \/ Goes(c, "kept")
          \/ Goes(c, "finish") \/ Goes(c, "done")
          \/ (callPc[c] = "write" /\ UNCHANGED callPc)
    BY ZenonT(30), WriteEffect
       DEF CallStep, BeginCall, Call, OpenUni, Attempts, Fails, WritesPart,
           WritesWhole, Finish, FinishKept, DropCall, Returns
  <2> QED
    BY <1>0, <2>1 DEF Goes
<1>3. callPc'[c] \in {"write", "kept", "finish"} =>
        callPc[c] \in {"write", "kept", "finish"}
  <2>1. ~(OpenUni(c) /\ ~lost)
    BY ZenonT(30), OpenFails
  <2>2. CASE Write(c) \/ Finish(c) \/ FinishKept(c)
    BY ZenonT(30), <2>2, WriteEffect DEF Finish, FinishKept
  <2>3. CASE BeginCall(c) \/ DropCall(c) \/ OpenUni(c)
    <3>1. Goes(c, "open") \/ Goes(c, "done")
      BY ZenonT(30), <2>1, <2>3 DEF BeginCall, OpenUni, DropCall, Returns
    <3> QED
      BY <1>0, <3>1 DEF Goes
  <2> QED
    BY ZenonT(30), <2>2, <2>3 DEF CallStep, Call
<1>4. \A s \in Uni : /\ Current(s)' <=> Current(s)
                     /\ Tried(s) => Tried(s)'
  BY ZenonT(30), CallWrites DEF Current, Tried
<1>5. OwnerInv'
  <2>1. \A d \in Calls : callPc'[d] = "new" => callPc[d] = "new"
    BY ZenonT(30), <1>1, <1>2
  <2>2. \A d \in Calls : callPc'[d] \in {"write", "kept", "finish"} =>
                           callPc[d] \in {"write", "kept", "finish"}
    BY ZenonT(30), <1>1, <1>3
  <2> QED
    BY ZenonT(30), <1>4, <2>1, <2>2 DEF CallInv, OwnerInv
<1>6. WrittenInv'
  <2> SUFFICES ASSUME NEW t \in Uni
               PROVE  /\ written'[t] # "none" \/ finished'[t] => owner[t] # 0
                      /\ owner[t] # 0 =>
                           /\ content[owner[t]] = "long" => written'[t] = "none"
                           /\ \/ callPc'[owner[t]] = "open"
                              \/ result'[owner[t]] \in NotSent
                              => Tried(t)'
                           /\ Current(t) /\ callPc'[owner[t]] = "write" =>
                                ~finished'[t] /\ written'[t] # "whole"
                           /\ /\ Current(t)
                              /\ callPc'[owner[t]] \in {"kept", "finish"}
                              => written'[t] = "whole"
    BY ZenonT(30), <1>4 DEF WrittenInv
  <2>1. CASE owner[t] = c
    <3>1. content[c] = "long" => written'[t] = "none"
      BY ZenonT(30), <1>0, <2>1, CallWrites DEF CallInv, WrittenInv
    <3> QED
      BY ZenonT(30), <1>0, <2>1, <3>1, OwnWritten
  <2>2. CASE owner[t] # c
    <3>1. written'[t] = written[t] /\ finished'[t] = finished[t]
      BY ZenonT(30), <2>2, CallWrites
    <3>2. Tried(t) => Tried(t)'
      BY ZenonT(30), <1>4
    <3>3. owner[t] # 0 => /\ callPc'[owner[t]] = callPc[owner[t]]
                          /\ result'[owner[t]] = result[owner[t]]
      BY ZenonT(30), <1>0, <1>1, <2>2
    <3> QED
      BY ZenonT(30), <3>1, <3>2, <3>3 DEF CallInv, WrittenInv
  <2> QED
    BY ZenonT(30), <2>1, <2>2
<1> QED
  BY ZenonT(30), <1>5, <1>6

\* Every step keeps CallInv.
LEMMA CallInvNext ==
  ASSUME CallInv, [MessagingNext]_allVars
  PROVE  CallInv'
<1>1. CASE UNCHANGED <<senderVars, content>>
  BY <1>1 DEF senderVars, CallInv, SenderTypeOK, Returned, OwnerInv, WrittenInv,
              Tried, Current
<1>2. CASE (SenderLoses \/ StopArrives) /\ UNCHANGED content
  <2>1. UNCHANGED <<callPc, result, owner, written, finished, before, content>>
    BY ZenonT(30), <1>2 DEF SenderLoses, StopArrives
  <2>2. lost' \in BOOLEAN /\ stopped' \subseteq Uni
    BY ZenonT(30), <1>2 DEF SenderLoses, StopArrives, CallInv, SenderTypeOK
  <2>3. SenderTypeOK'
    BY ZenonT(30), <2>1, <2>2 DEF CallInv, SenderTypeOK
  <2>4. Returned' /\ OwnerInv' /\ WrittenInv'
    BY <2>1 DEF CallInv, Returned, OwnerInv, WrittenInv, Tried, Current
  <2> QED
    BY ZenonT(30), <2>3, <2>4 DEF CallInv
<1>3. ASSUME NEW c \in Calls, CallStep(c), UNCHANGED content PROVE CallInv'
  <2>0. /\ callPc \in
             [Calls -> {"new", "open", "write", "kept", "finish", "done"}]
        /\ result \in [Calls -> CallResults \cup {"none"}]
        /\ "none" \notin CallResults
    BY DEF CallInv, SenderTypeOK, CallResults
  <2>1. Returned'
    <3>1. ASSUME NEW res \in CallResults, Returns(c, res) PROVE Returned'
      BY <2>0, <3>1 DEF CallInv, Returned, Returns, Goes
    <3>2. ASSUME NEW pc \in {"open", "write", "kept", "finish"}, Goes(c, pc),
                 callPc[c] # "done", UNCHANGED result
          PROVE  Returned'
      BY <2>0, <3>2 DEF CallInv, Returned, Goes
    <3>3. {"Ok", "ConnectionLost", "Dropped", "Stopped"} \subseteq CallResults
            /\ NotSent \subseteq CallResults
      BY DEF CallResults, NotSent
    <3>4. CASE Write(c)
      <4>1. callPc[c] # "done"
        BY <3>4, WriteEffect
      <4>2. CASE WritesPart(c)
        BY ZenonT(30), <4>2 DEF WritesPart, CallInv, Returned
      <4> QED
        BY ZenonT(30), <3>1, <3>2, <3>3, <3>4, <4>1, <4>2, WriteEffect
           DEF Attempts, Fails, WritesWhole
    <3>5. CASE BeginCall(c) \/ OpenUni(c) \/ FinishKept(c)
      <4>1. callPc[c] # "done"
        BY <3>5 DEF BeginCall, OpenUni, FinishKept
      <4> QED
        BY ZenonT(30), <3>1, <3>2, <3>3, <3>5, <4>1
           DEF BeginCall, OpenUni, FinishKept
    <3>6. CASE Finish(c) \/ DropCall(c)
      BY ZenonT(30), <3>1, <3>3, <3>6 DEF Finish, DropCall
    <3> QED
      BY ZenonT(30), <1>3, <3>4, <3>5, <3>6 DEF CallStep, Call
  <2>2. (OpenUni(c) /\ ~lost) \/ UNCHANGED owner
    BY ZenonT(30), <1>3
       DEF CallStep, BeginCall, Call, OpenUni, Write, Finish, FinishKept,
           DropCall
  <2>3. OwnerInv' /\ WrittenInv'
    BY ZenonT(30), <1>3, <2>2, CallInvOpens, CallInvWrites
  <2> QED
    BY ZenonT(30), <1>3, <2>1, <2>3, CallTypeOK DEF CallInv
<1> QED
  BY ZenonT(30), <1>1, <1>2, <1>3 DEF MessagingNext, allVars, Sender, CallStep

\* Streams stay with their owners.
LEMMA OwnerKept ==
  ASSUME CallInv, [MessagingNext]_allVars, NEW s \in Uni, owner[s] # 0
  PROVE  owner'[s] = owner[s]
<1>0. owner \in [Uni -> Calls \cup {0}]
  BY ZenonT(30) DEF CallInv, SenderTypeOK
<1>1. ASSUME NEW c \in Calls, OpenUni(c) PROVE owner'[s] = owner[s]
  <2>1. CASE ~lost
    BY <1>0, <1>1, <2>1, OpensNext
  <2>2. CASE lost
    BY <1>1, <2>2 DEF OpenUni
  <2> QED
    BY ZenonT(30), <2>1, <2>2
<1>2. ASSUME NEW c \in Calls, CallStep(c), ~OpenUni(c) PROVE UNCHANGED owner
  BY ZenonT(30), <1>2
     DEF CallStep, BeginCall, Call, Write, Finish, FinishKept, DropCall
<1> QED
  BY ZenonT(30), <1>1, <1>2
     DEF MessagingNext, Sender, CallStep, SenderLoses, StopArrives, allVars,
         senderVars

-----------------------------------------------------------------------------
(***************************************************************************)
(* What has arrived at the receiving end, and which streams it gives up.   *)
(***************************************************************************)
\* Only what was written arrives: at most the one frame of each stream, and
\* the end of the stream after it.
ArrivedInv ==
  \A s \in Uni :
    /\ inbox[s] = <<>> \/ inbox[s] = <<Frame(owner[s])>>
    /\ inbox[s] # <<>> => written[s] = "whole"
    /\ ending[s] # "reset"
    /\ ending[s] = "finished" => finished[s]
    /\ ending[s] = "finished" /\ written[s] = "whole" => inbox[s] # <<>>

\* While the connection lasts, the listener gives up a stream before its end
\* with its frame in hand, unless both handles are dropped.
GivesUp(s) == conn = "Alive" /\ half[s] = "dropped" /\ ending[s] = "open"

GivenUpInv ==
  /\ uniPc = "send" /\ uniCur # 0 => inbox[uniCur] # <<>>
  /\ \A s \in Uni : GivesUp(s) => inbox[s] # <<>> \/ HandlesDropped

\* The sender learns of these only.
StoppedInv ==
  /\ \A s \in stopped : inbox[s] # <<>> \/ HandlesDropped
  /\ \A c \in Calls : result[c] = "StreamLost" => HandlesDropped

WireInv == ArrivedInv /\ GivenUpInv /\ StoppedInv

\* The steps of the receiving end that no arrival causes.
Local == Listener \/ ReceiverLoses \/ ImplicitClose \/ App

\* They leave alone what has arrived.
LEMMA LocalFrame ==
  ASSUME TypeOK, Local
  PROVE  UNCHANGED <<inbox, ending>>
<1> USE DEF quinnVars, uniVars, biVars, chanVars, appVars
<1>1. CASE UniStep \/ UniSend
  BY <1>1, UniFrame
<1>2. CASE BiStep
  BY <1>2, BiFrame
<1>3. CASE ReceiverLoses \/ ImplicitClose \/ App
  BY ZenonT(30), <1>3
     DEF ReceiverLoses, ImplicitClose, ConnLost, App, Recv, RecvNone,
         DropIncoming, DropConnection, Close, AppLock, AppUnlock, DropStream
<1> QED
  BY ZenonT(30), <1>1, <1>2, <1>3 DEF Local, Listener

\* A frame arrives, or the end of a stream, or neither.
LEMMA ArrivalEffect ==
  ASSUME TypeOK, NEW s \in Uni, Arrives(s)
  PROVE  \/ UNCHANGED <<inbox, ending>>
         \/ /\ written[s] = "whole" /\ inbox[s] = <<>> /\ UNCHANGED ending
            /\ inbox' = [inbox EXCEPT ![s] = <<Frame(owner[s])>>]
         \/ /\ finished[s] /\ (written[s] = "whole" => inbox[s] # <<>>)
            /\ UNCHANGED inbox /\ ending' = [ending EXCEPT ![s] = "finished"]
<1> USE DEF quinnVars
<1>1. CASE PeerOpen(s) \/ PeerSendPart(s)
  BY ZenonT(30), <1>1 DEF PeerOpen, PeerSendPart
<1>2. CASE /\ written[s] = "whole" /\ inbox[s] = <<>>
           /\ PeerSend(s, Frame(owner[s]))
  <2>1. /\ inbox' = [inbox EXCEPT ![s] = Append(inbox[s], Frame(owner[s]))]
        /\ UNCHANGED ending
    BY <1>2 DEF PeerSend
  <2>2. Append(<<>>, Frame(owner[s])) = <<Frame(owner[s])>>
    BY DEF Frame
  <2> QED
    BY ZenonT(30), <1>2, <2>1, <2>2
<1>3. CASE /\ finished[s] /\ PeerFinish(s)
           /\ written[s] = "whole" => inbox[s] # <<>>
  BY ZenonT(30), <1>3 DEF PeerFinish
<1> QED
  BY ZenonT(30), <1>1, <1>2, <1>3 DEF Arrives

\* Every step keeps ArrivedInv.
LEMMA ArrivedInvNext ==
  ASSUME TypeOK, CallInv, ArrivedInv, [MessagingNext]_allVars
  PROVE  ArrivedInv'
<1>0. /\ inbox \in [Uni -> Seq(FrameKinds)]
      /\ ending \in [Uni -> {"open", "finished", "reset"}]
      /\ UNCHANGED content
  BY ZenonT(30), OnlyUni DEF TypeOK, QuinnTypeOK, MessagingNext, allVars
<1>1. ASSUME NEW s \in Uni, written[s] = "whole"
      PROVE  Frame(owner[s])' = Frame(owner[s])
  <2>1. owner[s] # 0
    BY <1>1 DEF CallInv, WrittenInv
  <2>2. owner'[s] = owner[s]
    BY ZenonT(30), <2>1, OwnerKept
  <2> QED
    BY ZenonT(30), <1>0, <2>2 DEF Frame
<1>2. ASSUME UNCHANGED <<inbox, ending>>,
             \A s \in Uni : /\ written[s] = "whole" => written'[s] = "whole"
                            /\ finished[s] => finished'[s]
                            /\ written'[s] = written[s] \/ ~finished[s]
      PROVE  ArrivedInv'
  BY ZenonT(30), <1>1, <1>2 DEF ArrivedInv
<1>3. CASE UNCHANGED <<inbox, ending, written, finished>>
  BY ZenonT(30), <1>2, <1>3
<1>4. ASSUME NEW c \in Calls, CallStep(c), UNCHANGED vars PROVE ArrivedInv'
  <2>1. UNCHANGED <<inbox, ending>>
    BY <1>4 DEF vars, quinnVars
  <2>2. \A s \in Uni : /\ written[s] = "whole" => written'[s] = "whole"
                       /\ finished[s] => finished'[s]
                       /\ written'[s] = written[s] \/ ~finished[s]
    BY ZenonT(30), <1>4, CallWrites
  <2> QED
    BY ZenonT(30), <1>2, <2>1, <2>2
<1>5. ASSUME NEW s \in Uni, Arrives(s), UNCHANGED senderVars PROVE ArrivedInv'
  <2>1. UNCHANGED <<owner, written, finished>>
    BY <1>5 DEF senderVars
  <2>2. CASE UNCHANGED <<inbox, ending>>
    BY ZenonT(30), <1>3, <2>1, <2>2
  <2>3. CASE /\ written[s] = "whole" /\ inbox[s] = <<>> /\ UNCHANGED ending
             /\ inbox' = [inbox EXCEPT ![s] = <<Frame(owner[s])>>]
    <3>1. <<Frame(owner[s])>> # <<>>
      OBVIOUS
    <3>2. \A t \in Uni : /\ t # s => inbox'[t] = inbox[t]
                         /\ t = s => inbox'[t] = <<Frame(owner[s])>>
      BY ZenonT(30), <1>0, <2>3
    <3> QED
      BY ZenonT(30), <1>1, <2>1, <2>3, <3>1, <3>2 DEF ArrivedInv
  <2>4. CASE /\ finished[s] /\ (written[s] = "whole" => inbox[s] # <<>>)
             /\ UNCHANGED inbox /\ ending' = [ending EXCEPT ![s] = "finished"]
    <3>1. \A t \in Uni : /\ t # s => ending'[t] = ending[t]
                         /\ ending'[s] = "finished"
      BY ZenonT(30), <1>0, <2>4
    <3>2. "finished" # "reset"
      OBVIOUS
    <3> QED
      BY ZenonT(30), <1>1, <2>1, <2>4, <3>1, <3>2 DEF ArrivedInv
  <2> QED
    BY ZenonT(30), <1>5, <2>2, <2>3, <2>4, ArrivalEffect
<1>6. CASE Local /\ UNCHANGED senderVars
  BY ZenonT(30), <1>3, <1>6, LocalFrame DEF senderVars
<1>7. CASE (SenderLoses \/ StopArrives) /\ UNCHANGED vars
  BY ZenonT(30), <1>3, <1>7 DEF SenderLoses, StopArrives, vars, quinnVars
<1>8. CASE UNCHANGED allVars
  BY ZenonT(30), <1>3, <1>8 DEF allVars, vars, quinnVars, senderVars
<1> QED
  BY ZenonT(30), <1>4, <1>5, <1>6, <1>7, <1>8
     DEF MessagingNext, Sender, CallStep, Net, Local

\* On a stream that goes on there is its frame to read, or nothing yet.
LEMMA ReadAlive ==
  ASSUME TypeOK, ArrivedInv, NEW s \in Uni,
         conn = "Alive", ending[s] = "open", half[s] = "open"
  PROVE  \/ read_from_stream(s) = "Pending"
         \/ read_from_stream(s) \in {"UserMsg", "Malformed"} /\ inbox[s] # <<>>
<1>1. s \in Streams /\ pos[s] \in Nat /\ pos[s] <= Len(inbox[s])
  BY OnlyUni DEF TypeOK, ReadTypeOK
<1>2. CASE pos[s] < Len(inbox[s])
  <2>1. Len(<<>>) = 0 /\ Len(<<Frame(owner[s])>>) = 1
    OBVIOUS
  <2>2. inbox[s] = <<Frame(owner[s])>> /\ inbox[s] # <<>>
    BY <1>1, <1>2, <2>1 DEF ArrivedInv
  <2>3. pos[s] = 0
    BY <1>1, <1>2, <2>1, <2>2
  <2>4. read_from_stream(s) = Frame(owner[s])
    BY <1>2, <2>2, <2>3 DEF read_from_stream
  <2> QED
    BY <2>2, <2>4 DEF Frame
<1>3. CASE pos[s] = Len(inbox[s])
  BY <1>3 DEF read_from_stream
<1> QED
  BY <1>1, <1>2, <1>3

\* What has arrived stays, and a stream that has ended stays so.
LEMMA ArrivedKept ==
  ASSUME TypeOK, [MessagingNext]_allVars, NEW s \in Uni
  PROVE  /\ inbox[s] # <<>> => inbox'[s] = inbox[s]
         /\ ending'[s] = "open" => ending[s] = "open"
         /\ ending[s] = "finished" => ending'[s] = "finished"
<1>0. /\ inbox \in [Uni -> Seq(FrameKinds)]
      /\ ending \in [Uni -> {"open", "finished", "reset"}]
      /\ "finished" # "open"
  BY OnlyUni DEF TypeOK, QuinnTypeOK
<1>1. CASE UNCHANGED <<inbox, ending>>
  BY ZenonT(30), <1>1
<1>2. ASSUME NEW t \in Uni, Arrives(t)
      PROVE  /\ inbox[s] # <<>> => inbox'[s] = inbox[s]
             /\ ending'[s] = "open" => ending[s] = "open"
             /\ ending[s] = "finished" => ending'[s] = "finished"
  BY ZenonT(30), <1>0, <1>1, <1>2, ArrivalEffect
<1>3. CASE Local
  BY ZenonT(30), <1>1, <1>3, LocalFrame
<1>4. CASE UNCHANGED vars
  BY ZenonT(30), <1>1, <1>4 DEF vars, quinnVars
<1> QED
  BY ZenonT(30), <1>2, <1>3, <1>4 DEF MessagingNext, Net, Local, allVars

\* A step of the uni listener that gives up the stream it reads, before the end
\* of the stream and of the connection, has the frame of the stream in hand, or
\* nobody is left at this end.
LEMMA GivesUpMessage ==
  ASSUME TypeOK, UniHand, ArrivedInv, GivenUpInv, UniStep \/ UniSend,
         NEW s \in Uni, s = uniCur, conn = "Alive", ending[s] = "open",
         half'[s] = "dropped"
  PROVE  inbox[s] # <<>> \/ HandlesDropped
<1> USE DEF quinnVars, uniVars, biVars, chanVars, appVars
<1>0. s # 0 /\ half[s] = "open"
  BY ZenonT(30), OnlyUni DEF UniHand
<1>1. ~(UniReadEnd \/ UniReadFails)
  <2>1. read_from_stream(s) \in {"UserMsg", "Malformed", "Pending"}
    BY ZenonT(30), <1>0, ReadAlive
  <2> QED
    BY <2>1 DEF UniReadEnd, UniReadFails, UniReads, ReadErrors
<1>2. CASE UniReadOther
  <2>1. read_from_stream(s) # "Pending"
    BY <1>2 DEF UniReadOther, UniReads, FrameKinds
  <2> QED
    BY ZenonT(30), <1>0, <2>1, ReadAlive
<1>3. CASE UniNotAlive
  BY ZenonT(30), <1>3 DEF UniNotAlive, NotAlive, HandlesDropped
<1>4. ~(UniSend /\ UniStop)
  BY ZenonT(30), <1>0 DEF UniSend, UniHand, LostInHand
<1>5. ~(UNCHANGED half) /\ ~(\E t \in Uni : UniAccept(t))
  BY <1>0 DEF UniAccept
<1>6. CASE UniSendFails
  BY ZenonT(30), <1>0, <1>6 DEF UniSendFails, GivenUpInv
<1> QED
  BY ZenonT(30), <1>1, <1>2, <1>3, <1>4, <1>5, <1>6
     DEF UniStep, UniSourceEnds, UniSourceFails, UniReadMsg, UniSend, LostInHand

\* Nobody returns to an end that was left.
LEMMA HandlesStayDropped ==
  ASSUME [Next]_vars, TypeOK, HandlesDropped
  PROVE  HandlesDropped'
BY ZenonT(30), StepKeeps, TxStays DEF HandlesDropped

\* Every step keeps GivenUpInv.
LEMMA GivenUpInvNext ==
  ASSUME TypeOK, UniHand, BiHand, ArrivedInv, GivenUpInv,
         [MessagingNext]_allVars
  PROVE  GivenUpInv'
<1> USE DEF quinnVars, uniVars, biVars, chanVars, appVars
<1>0. /\ [Next]_vars /\ uniCur \in Uni \cup {0} /\ uniCur' \in Uni \cup {0}
  BY ZenonT(30), ReceiverStep, NextTypeOK DEF TypeOK, ListenerTypeOK
<1>1. \A s \in Uni : inbox[s] # <<>> => inbox'[s] # <<>>
  BY ZenonT(30), ArrivedKept
<1>2. uniPc' = "send" /\ uniCur' # 0 => inbox'[uniCur'] # <<>>
  <2>1. CASE UniStep \/ UniSend
    <3>1. CASE UniReadMsg
      <4>1. /\ uniCur' = uniCur /\ UNCHANGED inbox /\ uniCur # 0
            /\ read_from_stream(uniCur) = "UserMsg"
        BY <3>1 DEF UniReadMsg, UniReads
      <4>2. uniCur \in Streams /\ "UserMsg" \in FrameKinds
        BY <1>0, <4>1, OnlyUni DEF FrameKinds
      <4>3. pos[uniCur] \in Nat /\ pos[uniCur] < Len(inbox[uniCur])
        BY ZenonT(30), <4>1, <4>2, ReadResult DEF TypeOK, ReadTypeOK
      <4>4. inbox[uniCur] # <<>>
        BY <4>3
      <4> QED
        BY <4>1, <4>4
    <3>2. UniReadMsg \/ uniPc' # "send" \/ uniCur' = 0
      BY ZenonT(30), <2>1
         DEF UniStep, UniAccept, UniSourceEnds, UniSourceFails, UniReadEnd,
             UniReadOther, UniReadFails, UniSendFails, UniNotAlive, UniSend,
             UniStop, UniReads
    <3> QED
      BY ZenonT(30), <3>1, <3>2
  <2>2. CASE UNCHANGED <<uniPc, uniCur>>
    BY ZenonT(30), <1>0, <1>1, <2>2 DEF GivenUpInv
  <2>3. BiStep => UNCHANGED <<uniPc, uniCur>>
    BY BiFrame
  <2>4. Peer \/ App \/ ImplicitClose \/ UNCHANGED vars => UNCHANGED <<uniPc, uniCur>>
    BY ZenonT(30), OutsideFrame
  <2>5. \/ UniStep \/ UniSend \/ BiStep \/ Peer \/ App \/ UNCHANGED vars
        \/ ImplicitClose
    BY <1>0, OnlyUni DEF Next
  <2> QED
    BY ZenonT(30), <2>1, <2>2, <2>3, <2>4, <2>5
<1>3. ASSUME NEW s \in Uni, conn' = "Alive", half'[s] = "dropped",
             ending'[s] = "open"
      PROVE  inbox'[s] # <<>> \/ HandlesDropped'
  <2>1. /\ conn = "Alive" /\ ending[s] = "open"
        /\ HandlesDropped => HandlesDropped'
    BY ZenonT(30), <1>0, <1>3, StepKeeps, ArrivedKept, HandlesStayDropped
  <2>2. CASE half[s] = "dropped"
    BY ZenonT(30), <1>1, <2>1, <2>2 DEF GivenUpInv, GivesUp
  <2>3. CASE half[s] # "dropped"
    <3>1. s \in Streams /\ s \notin Bi
      BY ZenonT(30), OnlyUni
    <3>2. s = uniCur
      BY ZenonT(30), <1>0, <1>3, <2>3, <3>1, HalfSteps DEF UniHand
    <3>3. ~(Peer \/ ImplicitClose \/ App \/ UNCHANGED vars)
      BY ZenonT(30), <1>3, <2>3, <3>1, OutsideFrame
    <3>4. ~BiStep
      BY <1>3, <2>3, BiFrame
    <3>5. UniStep \/ UniSend
      BY ZenonT(30), <1>0, <3>3, <3>4, OnlyUni DEF Next
    <3> QED
      BY ZenonT(30), <1>1, <1>3, <2>1, <3>2, <3>5, GivesUpMessage
  <2> QED
    BY ZenonT(30), <2>2, <2>3
<1> QED
  BY ZenonT(30), <1>2, <1>3 DEF GivenUpInv, GivesUp

\* Every step keeps StoppedInv.
LEMMA StoppedInvNext ==
  ASSUME TypeOK, CallInv, WireInv, [MessagingNext]_allVars
  PROVE  StoppedInv'
<1>0. /\ HandlesDropped => HandlesDropped'
      /\ stopped \subseteq Uni
      /\ result \in [Calls -> CallResults \cup {"none"}]
      /\ \A s \in Uni : inbox[s] # <<>> => inbox'[s] # <<>>
  BY ZenonT(30), ReceiverStep, HandlesStayDropped, ArrivedKept
     DEF CallInv, SenderTypeOK
<1>1. CASE UNCHANGED <<stopped, result>>
  BY ZenonT(30), <1>0, <1>1 DEF WireInv, StoppedInv
<1>2. ASSUME NEW c \in Calls, CallStep(c) PROVE StoppedInv'
  <2>1. UNCHANGED stopped
    BY ZenonT(30), <1>2, WriteEffect
       DEF CallStep, BeginCall, Call, OpenUni, Attempts, Fails, WritesPart,
           WritesWhole, Finish, FinishKept, DropCall, Returns
  <2>2. ASSUME NEW res \in CallResults \ {"StreamLost"}, Returns(c, res)
        PROVE  StoppedInv'
    <3>1. \A d \in Calls : result'[d] = "StreamLost" => result[d] = "StreamLost"
      BY ZenonT(30), <1>0, <2>2 DEF Returns
    <3> QED
      BY ZenonT(30), <1>0, <2>1, <3>1 DEF WireInv, StoppedInv
  <2>3. CASE Attempts(c, "StreamLost") /\ callPc[c] = "write"
    <3>1. StreamOf(c) \in stopped /\ StreamOf(c) \in Uni
      BY ZenonT(30), <1>0, <2>3 DEF Attempts
    <3>2. written[StreamOf(c)] # "whole"
      BY ZenonT(30), <2>3, StreamOfOwned DEF CallInv, WrittenInv
    <3>3. inbox[StreamOf(c)] = <<>>
      BY ZenonT(30), <3>1, <3>2 DEF WireInv, ArrivedInv
    <3>4. HandlesDropped
      BY ZenonT(30), <3>1, <3>3 DEF WireInv, StoppedInv
    <3> QED
      BY ZenonT(30), <1>0, <3>4 DEF StoppedInv
  <2>4. {"Ok", "ConnectionLost", "Dropped", "Serialization", "Stopped"}
          \subseteq CallResults \ {"StreamLost"}
    BY DEF CallResults
  <2>5. CASE Write(c)
    <3>1. \A res \in NotSent : res \in {"Serialization", "StreamLost"}
      BY DEF NotSent
    <3> QED
      BY ZenonT(30), <1>1, <2>1, <2>2, <2>3, <2>4, <2>5, <3>1, WriteEffect
         DEF Attempts, Fails, WritesPart, WritesWhole
  <2>6. CASE BeginCall(c) \/ OpenUni(c) \/ Finish(c) \/ FinishKept(c) \/ DropCall(c)
    BY ZenonT(30), <1>1, <2>1, <2>2, <2>4, <2>6
       DEF BeginCall, OpenUni, Finish, FinishKept, DropCall
  <2> QED
    BY ZenonT(30), <1>2, <2>5, <2>6 DEF CallStep, Call
<1>3. CASE StopArrives
  <2>1. PICK s \in Uni : GivesUp(s) /\ stopped' = stopped \cup {s}
    BY ZenonT(30), <1>3 DEF StopArrives, GivesUp
  <2>2. inbox[s] # <<>> \/ HandlesDropped
    BY ZenonT(30), <2>1 DEF WireInv, GivenUpInv
  <2>3. UNCHANGED result
    BY ZenonT(30), <1>3 DEF StopArrives
  <2> QED
    BY ZenonT(30), <1>0, <2>1, <2>2, <2>3 DEF WireInv, StoppedInv
<1> QED
  BY ZenonT(30), <1>1, <1>2, <1>3
     DEF MessagingNext, Sender, CallStep, SenderLoses, allVars, senderVars

\* These invariants hold in every state.
LEMMA WireCorrect == MessagingSpec => [](CallInv /\ WireInv)
<1>1. MessagingInit => CallInv /\ WireInv
  <2> SUFFICES ASSUME MessagingInit PROVE CallInv /\ WireInv
    OBVIOUS
  <2>1. SenderTypeOK
    BY ZenonT(30), MessagingAssumption DEF MessagingInit, SenderTypeOK
  <2>2. Returned /\ OwnerInv /\ WrittenInv
    BY MessagingAssumption DEF MessagingInit, Returned, OwnerInv, WrittenInv
  <2>3. ArrivedInv
    BY ZenonT(30), OnlyUni DEF MessagingInit, Init, ArrivedInv
  <2>4. GivenUpInv /\ StoppedInv
    BY OnlyUni DEF MessagingInit, Init, GivenUpInv, GivesUp, StoppedInv
  <2> QED
    BY <2>1, <2>2, <2>3, <2>4 DEF CallInv, WireInv
<1>2. ASSUME TypeOK, UniHand, BiHand, CallInv, WireInv, [MessagingNext]_allVars
      PROVE  CallInv' /\ WireInv'
  BY ZenonT(30), <1>2, CallInvNext, ArrivedInvNext, GivenUpInvNext,
     StoppedInvNext
     DEF WireInv
<1> QED
  BY <1>1, <1>2, ReceiverImplements, TurnsCorrect, PTL DEF MessagingSpec

\* While the receiving application keeps a handle, listen_on_uni_streams gives a
\* stream up with a frame of it in hand only: no sender learns before the end of
\* its message that the stream was stopped, and no send fails for it.
THEOREM StopsBehindMessageHolds == MessagingSpec => []StopsBehindMessage
<1>1. CallInv /\ WireInv => StopsBehindMessage
  BY DEF CallInv, SenderTypeOK, WireInv, ArrivedInv, StoppedInv,
         StopsBehindMessage
<1> QED
  BY <1>1, WireCorrect, PTL

-----------------------------------------------------------------------------
(***************************************************************************)
(* Calls that returned Ok, and the order of the streams of calls that were *)
(* made one after the other.                                               *)
(***************************************************************************)
\* The message of a call that returned Ok has arrived with the end of its
\* stream, or the receiver has stopped the stream.
OkInv ==
  \A c \in Calls : result[c] = "Ok" =>
    \E s \in Uni : /\ owner[s] = c /\ written[s] = "whole"
                   /\ ending[s] = "finished" \/ s \in stopped

\* A call takes later streams than those that had returned Ok when it began.
BeforeInv ==
  \A c \in Calls : \A d \in before[c] :
    /\ result[d] = "Ok"
    /\ \A s, t \in Uni : owner[s] = c /\ owner[t] = d => t < s

\* The ways a step of a call changes its state: it begins, returns, or goes on,
\* perhaps with another attempt.
GoesOn(c) ==
  /\ callPc[c] \in {"open", "write", "kept", "finish"}
  /\ callPc'[c] \in {"open", "write", "kept", "finish"}
  /\ callPc' = [callPc EXCEPT ![c] = callPc'[c]]
  /\ UNCHANGED <<result, before>>

EndsWith(c, res) ==
  /\ callPc[c] \in {"open", "write", "kept", "finish"}
  /\ Returns(c, res)
  /\ res = "Ok" => Finish(c)
  /\ res \in NotSent => callPc[c] = "write" /\ Attempts(c, res)

\* There is no other way.
LEMMA CallEffect ==
  ASSUME CallInv, NEW c \in Calls, CallStep(c)
  PROVE  BeginCall(c) \/ GoesOn(c) \/ \E res \in CallResults : EndsWith(c, res)
<1>0. /\ callPc \in [Calls -> {"new", "open", "write", "kept", "finish", "done"}]
      /\ NotSent \subseteq CallResults
      /\ {"Ok", "ConnectionLost", "Dropped", "Stopped"}
           \subseteq CallResults \ NotSent
      /\ "ConnectionLost" # "Ok" /\ "Dropped" # "Ok" /\ "Stopped" # "Ok"
      /\ "Ok" \notin NotSent
  BY DEF CallInv, SenderTypeOK, CallResults, NotSent
<1>1. ASSUME NEW pc \in {"open", "write", "kept", "finish"}, Goes(c, pc),
             callPc[c] \in {"open", "write", "kept", "finish"},
             UNCHANGED <<result, before>>
      PROVE  GoesOn(c)
  BY ZenonT(30), <1>0, <1>1 DEF Goes, GoesOn
<1>2. ASSUME NEW res \in {"ConnectionLost", "Dropped", "Stopped"},
             Returns(c, res),
             callPc[c] \in {"open", "write", "kept", "finish"}
      PROVE  \E r \in CallResults : EndsWith(c, r)
  <2>1. res \in CallResults /\ res \notin NotSent /\ res # "Ok"
    BY ZenonT(30), <1>0
  <2> QED
    BY ZenonT(30), <1>2, <2>1 DEF EndsWith
<1>3. CASE OpenUni(c)
  BY ZenonT(30), <1>1, <1>2, <1>3 DEF OpenUni
<1>4. CASE Write(c)
  <2>1. callPc[c] = "write"
    BY ZenonT(30), <1>4, WriteEffect
  <2>2. ASSUME NEW res \in NotSent, Attempts(c, res)
        PROVE  GoesOn(c) \/ EndsWith(c, res)
    <3>1. res # "Ok"
      BY ZenonT(30), <1>0
    <3> QED
      BY ZenonT(30), <1>1, <2>1, <2>2, <3>1 DEF Attempts, Fails, EndsWith
  <2>3. CASE WritesPart(c)
    BY <1>0, <2>1, <2>3 DEF WritesPart, GoesOn
  <2>4. CASE WritesWhole(c)
    BY ZenonT(30), <1>1, <2>1, <2>4 DEF WritesWhole
  <2> QED
    BY ZenonT(30), <1>0, <1>2, <1>4, <2>1, <2>2, <2>3, <2>4, WriteEffect
<1>5. CASE Finish(c)
  <2>1. callPc[c] = "finish"
    BY ZenonT(30), <1>5 DEF Finish
  <2>2. CASE Returns(c, "Ok")
    BY ZenonT(30), <1>0, <1>5, <2>1, <2>2 DEF EndsWith
  <2> QED
    BY ZenonT(30), <1>2, <1>5, <2>1, <2>2 DEF Finish
<1>6. CASE FinishKept(c)
  BY ZenonT(30), <1>1, <1>6 DEF FinishKept
<1>7. CASE DropCall(c)
  BY ZenonT(30), <1>2, <1>7 DEF DropCall
<1> QED
  BY ZenonT(30), <1>3, <1>4, <1>5, <1>6, <1>7 DEF CallStep, Call

\* What a call returned stays as it is, and a result that is new is that of the
\* call that took the step.
LEMMA ResultSteps ==
  ASSUME CallInv, [MessagingNext]_allVars, NEW d \in Calls
  PROVE  /\ result[d] # "none" => result'[d] = result[d]
         /\ result'[d] # result[d] => CallStep(d) /\ EndsWith(d, result'[d])
<1>0. /\ result \in [Calls -> CallResults \cup {"none"}]
      /\ result[d] # "none" => callPc[d] = "done"
      /\ callPc[d] = "done" =>
           callPc[d] \notin {"open", "write", "kept", "finish"}
  BY DEF CallInv, SenderTypeOK, Returned
<1>1. CASE UNCHANGED result
  BY ZenonT(30), <1>1
<1>2. ASSUME NEW c \in Calls, CallStep(c)
      PROVE  /\ result[d] # "none" => result'[d] = result[d]
             /\ result'[d] # result[d] => CallStep(d) /\ EndsWith(d, result'[d])
  <2>1. CASE BeginCall(c) \/ GoesOn(c)
    BY ZenonT(30), <1>1, <2>1 DEF BeginCall, GoesOn
  <2>2. ASSUME NEW res \in CallResults, EndsWith(c, res)
        PROVE  /\ result[d] # "none" => result'[d] = result[d]
               /\ result'[d] # result[d] =>
                    CallStep(d) /\ EndsWith(d, result'[d])
    <3>1. result' = [result EXCEPT ![c] = res]
      BY ZenonT(30), <2>2 DEF EndsWith, Returns
    <3>2. CASE d # c
      BY ZenonT(30), <1>0, <3>1, <3>2
    <3>3. CASE d = c
      <4>1. result'[d] = res
        BY ZenonT(30), <1>0, <3>1, <3>3
      <4>2. callPc[d] \in {"open", "write", "kept", "finish"}
        BY ZenonT(30), <2>2, <3>3 DEF EndsWith
      <4>3. result[d] = "none"
        BY ZenonT(30), <1>0, <4>2
      <4> QED
        BY ZenonT(30), <1>2, <2>2, <3>3, <4>1, <4>3
    <3> QED
      BY ZenonT(30), <3>2, <3>3
  <2> QED
    BY ZenonT(30), <1>2, <2>1, <2>2, CallEffect
<1> QED
  BY ZenonT(30), <1>1, <1>2
     DEF MessagingNext, Sender, CallStep, SenderLoses, StopArrives, allVars,
         senderVars

\* A call returns Ok with its whole message on a stream that was read to the end,
\* or that the receiver has stopped.
LEMMA OkWritten ==
  ASSUME CallInv, NEW c \in Calls, EndsWith(c, "Ok")
  PROVE  \E s \in Uni : /\ owner[s] = c /\ written[s] = "whole"
                        /\ ending[s] = "finished" \/ s \in stopped
<1>1. /\ Finish(c) /\ Returns(c, "Ok") /\ callPc[c] = "finish"
  BY ZenonT(30) DEF EndsWith, Finish
<1>2. ASSUME NEW res \in {"ConnectionLost", "Stopped"} PROVE ~Returns(c, res)
  <2>1. result'[c] = "Ok" /\ res # "Ok"
    BY <1>1 DEF Returns, CallInv, SenderTypeOK
  <2> QED
    BY ZenonT(30), <2>1 DEF Returns, CallInv, SenderTypeOK
<1>3. ending[StreamOf(c)] = "finished" \/ StreamOf(c) \in stopped
  BY ZenonT(30), <1>1, <1>2 DEF Finish, Acked
<1>4. /\ StreamOf(c) \in Uni /\ owner[StreamOf(c)] = c /\ c # 0
      /\ Current(StreamOf(c))
  BY ZenonT(30), <1>1, StreamOfOwned
<1>5. written[StreamOf(c)] = "whole"
  BY ZenonT(30), <1>1, <1>4 DEF CallInv, WrittenInv
<1> QED
  BY ZenonT(30), <1>3, <1>4, <1>5

\* Every step keeps OkInv.
LEMMA OkInvNext ==
  ASSUME TypeOK, CallInv, WireInv, OkInv, [MessagingNext]_allVars
  PROVE  OkInv'
<1>0. /\ stopped \subseteq stopped'
      /\ \A s \in Uni : written[s] = "whole" => written'[s] = "whole"
  <2>1. ASSUME NEW c \in Calls, CallStep(c)
        PROVE  /\ stopped \subseteq stopped'
               /\ \A s \in Uni : written[s] = "whole" => written'[s] = "whole"
    <3>1. UNCHANGED stopped
      BY ZenonT(30), <2>1, WriteEffect
         DEF CallStep, BeginCall, Call, OpenUni, Attempts, Fails, WritesPart,
             WritesWhole, Finish, FinishKept, DropCall, Returns
    <3> QED
      BY ZenonT(30), <2>1, <3>1, CallWrites
  <2> QED
    BY ZenonT(30), <2>1
       DEF MessagingNext, Sender, CallStep, SenderLoses, StopArrives, allVars,
           senderVars
<1> SUFFICES ASSUME NEW c \in Calls, result'[c] = "Ok"
             PROVE  \E s \in Uni : /\ owner'[s] = c /\ written'[s] = "whole"
                                   /\ ending'[s] = "finished" \/ s \in stopped'
  BY DEF OkInv
<1>1. c # 0
  BY ZenonT(30), MessagingAssumption
<1>2. ASSUME NEW s \in Uni, owner[s] = c, written[s] = "whole",
             ending[s] = "finished" \/ s \in stopped
      PROVE  /\ owner'[s] = c /\ written'[s] = "whole"
             /\ ending'[s] = "finished" \/ s \in stopped'
  BY ZenonT(30), <1>0, <1>1, <1>2, OwnerKept, ArrivedKept
<1>3. CASE result[c] = "Ok"
  BY ZenonT(30), <1>2, <1>3 DEF OkInv
<1>4. CASE result[c] # "Ok"
  <2>1. EndsWith(c, "Ok")
    BY ZenonT(30), <1>4, ResultSteps
  <2> QED
    BY ZenonT(30), <1>2, <2>1, OkWritten
<1> QED
  BY ZenonT(30), <1>3, <1>4

\* Every step keeps RefusedInv.
LEMMA RefusedInvNext ==
  ASSUME CallInv, RefusedInv, [MessagingNext]_allVars
  PROVE  RefusedInv'
<1> SUFFICES ASSUME NEW c \in Calls
             PROVE  /\ result'[c] = "Serialization" => content[c] = "long"
                    /\ result'[c] = "Ok" => content[c] # "long"
  BY ZenonT(30) DEF RefusedInv, MessagingNext, allVars
<1>1. CASE result'[c] = result[c]
  BY ZenonT(30), <1>1 DEF RefusedInv
<1>2. CASE EndsWith(c, result'[c])
  <2>1. result'[c] = "Serialization" => content[c] = "long"
    BY ZenonT(30), <1>2 DEF EndsWith, Attempts, NotSent
  <2>2. ASSUME result'[c] = "Ok" PROVE content[c] # "long"
    <3>1. PICK s \in Uni : owner[s] = c /\ written[s] = "whole" /\ c # 0
      BY ZenonT(30), <1>2, <2>2, OkWritten, MessagingAssumption
    <3> QED
      BY <3>1 DEF CallInv, WrittenInv
  <2> QED
    BY ZenonT(30), <2>1, <2>2
<1> QED
  BY ZenonT(30), <1>1, <1>2, ResultSteps

\* Every step keeps BeforeInv.
LEMMA BeforeInvNext ==
  ASSUME CallInv, BeforeInv, [MessagingNext]_allVars
  PROVE  BeforeInv'
<1>0. /\ owner \in [Uni -> Calls \cup {0}]
      /\ before \in [Calls -> SUBSET Calls]
      /\ result \in [Calls -> CallResults \cup {"none"}]
  BY ZenonT(30) DEF CallInv, SenderTypeOK
<1> SUFFICES ASSUME NEW c \in Calls, NEW d \in before'[c]
             PROVE  /\ result'[d] = "Ok"
                    /\ \A s, t \in Uni :
                         owner'[s] = c /\ owner'[t] = d => t < s
  BY ZenonT(30) DEF BeforeInv
<1>1. CASE UNCHANGED <<owner, before>>
  <2>1. d \in Calls /\ result[d] = "Ok"
    BY ZenonT(30), <1>0, <1>1 DEF BeforeInv
  <2>2. result'[d] = "Ok"
    <3>1. result[d] # "none"
      BY <2>1
    <3> QED
      BY ZenonT(30), <2>1, <3>1, ResultSteps
  <2> QED
    BY <1>1, <2>2 DEF BeforeInv
<1>2. ASSUME NEW e \in Calls, BeginCall(e)
      PROVE  /\ result'[d] = "Ok"
             /\ \A s, t \in Uni : owner'[s] = c /\ owner'[t] = d => t < s
  <2>1. /\ callPc[e] = "new" /\ UNCHANGED <<result, owner>>
        /\ before' = [before EXCEPT ![e] = {f \in Calls : result[f] = "Ok"}]
    BY ZenonT(30), <1>2 DEF BeginCall
  <2>2. CASE c = e
    <3>1. result[d] = "Ok"
      BY ZenonT(30), <1>0, <2>1, <2>2
    <3>2. \A s \in Uni : owner[s] # c
      BY ZenonT(30), <2>1, <2>2 DEF CallInv, OwnerInv
    <3> QED
      BY ZenonT(30), <2>1, <3>1, <3>2
  <2>3. CASE c # e
    <3>1. d \in before[c]
      BY ZenonT(30), <1>0, <2>1, <2>3
    <3> QED
      BY ZenonT(30), <2>1, <3>1 DEF BeforeInv
  <2> QED
    BY ZenonT(30), <2>2, <2>3
<1>3. ASSUME NEW e \in Calls, OpenUni(e), ~lost
      PROVE  /\ result'[d] = "Ok"
             /\ \A s, t \in Uni : owner'[s] = c /\ owner'[t] = d => t < s
  <2>1. callPc[e] = "open" /\ UNCHANGED <<result, before>>
    BY ZenonT(30), <1>3 DEF OpenUni
  <2>2. PICK u \in Uni : /\ owner[u] = 0 /\ owner' = [owner EXCEPT ![u] = e]
                         /\ \A t \in Uni : t < u <=> owner[t] # 0
    BY ZenonT(30), <1>3, OpensNext
  <2>3. d \in before[c] /\ d \in Calls /\ result[d] = "Ok" /\ d # 0
    BY ZenonT(30), <1>0, <2>1, MessagingAssumption DEF BeforeInv
  <2>4. d # e
    BY <2>1, <2>3 DEF CallInv, Returned
  <2>5. \A s \in Uni : owner[s] = c => \A t \in Uni : owner[t] = d => t < s
    BY ZenonT(30), <2>3 DEF BeforeInv
  <2>6. ASSUME NEW s \in Uni, NEW t \in Uni, owner'[s] = c, owner'[t] = d
        PROVE  t < s
    <3>1. owner[t] = d
      BY ZenonT(30), <1>0, <2>2, <2>4, <2>6
    <3>2. CASE s = u
      BY ZenonT(30), <2>2, <2>3, <3>1, <3>2
    <3>3. CASE s # u
      BY ZenonT(30), <1>0, <2>2, <2>5, <2>6, <3>1, <3>3
    <3> QED
      BY ZenonT(30), <3>2, <3>3
  <2> QED
    BY ZenonT(30), <2>1, <2>3, <2>6
<1>4. \/ UNCHANGED <<owner, before>> \/ \E e \in Calls : BeginCall(e)
      \/ \E e \in Calls : OpenUni(e) /\ ~lost
  <2>1. ASSUME NEW e \in Calls, CallStep(e), ~BeginCall(e), ~(OpenUni(e) /\ ~lost)
        PROVE  UNCHANGED <<owner, before>>
    BY ZenonT(30), <2>1, WriteEffect
       DEF CallStep, Call, OpenUni, Attempts, Fails, WritesPart, WritesWhole,
           Finish, FinishKept, DropCall, Returns
  <2> QED
    BY ZenonT(30), <2>1
       DEF MessagingNext, Sender, CallStep, SenderLoses, StopArrives, allVars,
           senderVars
<1> QED
  BY <1>1, <1>2, <1>3, <1>4

-----------------------------------------------------------------------------
(***************************************************************************)
(* What holds of both ends together.                                       *)
(***************************************************************************)
RecvInv == /\ TypeOK /\ EndInv /\ UniHand /\ BiHand /\ OpenInv /\ LeftInv
           /\ TurnsInv
SendInv == CallInv /\ WireInv /\ OkInv /\ RefusedInv /\ BeforeInv

\* These invariants hold in every state.
LEMMA SendCorrect == MessagingSpec => [](RecvInv /\ SendInv)
<1>1. MessagingInit => OkInv /\ RefusedInv /\ BeforeInv
  BY DEF MessagingInit, OkInv, RefusedInv, BeforeInv
<1>2. ASSUME TypeOK, CallInv, WireInv, OkInv, RefusedInv, BeforeInv,
             [MessagingNext]_allVars
      PROVE  OkInv' /\ RefusedInv' /\ BeforeInv'
  BY ZenonT(30), <1>2, OkInvNext, RefusedInvNext, BeforeInvNext
<1> QED
  BY <1>1, <1>2, ReceiverImplements, TurnsCorrect, WireCorrect, PTL
     DEF MessagingSpec, RecvInv, SendInv

\* A frame that arrived on a stream that was given up has been read, as long as
\* somebody receives.
LEMMA DroppedMeansRead ==
  ASSUME RecvInv, ArrivedInv, rxOpen,
         NEW t \in Uni, half[t] = "dropped", inbox[t] # <<>>
  PROVE  pos[t] = 1
<1>1. /\ t \in Streams /\ t \notin Bi /\ pos[t] \in Nat
      /\ pos[t] <= Len(inbox[t])
  BY ZenonT(30), OnlyUni DEF RecvInv, TypeOK, ReadTypeOK
<1>2. AllRead(t)
  BY ZenonT(30), <1>1 DEF RecvInv, LeftInv, DroppedRead, Abandoned
<1>3. Len(inbox[t]) = 1
  <2>1. inbox[t] = <<Frame(owner[t])>>
    BY ZenonT(30) DEF ArrivedInv
  <2> QED
    BY <2>1
<1> QED
  BY <1>1, <1>2, <1>3 DEF AllRead

\* What is read of a frame is its outcome.
LEMMA ResultOfFrame ==
  ASSUME ArrivedInv, NEW s \in Uni, inbox[s] # <<>>
  PROVE  ResultOf(inbox[s][1]) = Outcome(owner[s])
<1>1. inbox[s][1] = Frame(owner[s])
  <2>1. inbox[s] = <<Frame(owner[s])>>
    BY ZenonT(30) DEF ArrivedInv
  <2> QED
    BY <2>1
<1> QED
  BY <1>1 DEF Frame, ResultOf, Outcome

-----------------------------------------------------------------------------
(***************************************************************************)
(* What an Ok is worth when the connection has ended.                      *)
(***************************************************************************)
\* Ok outlives the connection: when next returns None after a benign end of it,
\* the application has received every message whose call returned Ok, or the
\* error that an empty one is refused with, except behind a message on an
\* earlier stream that was cut in two.
OkNotLost ==
  eos /\ Benign(conn) =>
    \A c \in Calls : result[c] = "Ok" => Received(c) \/ CutBefore(c)

\* An application that is told of the end has stopped no stream before the
\* message of it arrived.
StopInv == eos => \A s \in stopped : inbox[s] # <<>>

\* After a benign end every frame that arrived was read, except on streams
\* behind a cut one.
EndedRead ==
  eos /\ Benign(conn) =>
    \A s \in Uni : Clean(s) /\ inbox[s] # <<>> =>
      /\ half[s] = "dropped" /\ pos[s] = 1
      /\ \E i \in 1 .. Len(log) : About(log[i], s, 1)

\* No stop arrives once next has returned None.
LEMMA StopInvNext ==
  ASSUME TypeOK, EndInv, CallInv, StoppedInv, StopInv, [MessagingNext]_allVars
  PROVE  StopInv'
<1>0. /\ stopped \subseteq Uni
      /\ \A s \in Uni : inbox[s] # <<>> => inbox'[s] # <<>>
  BY ZenonT(30), ArrivedKept DEF CallInv, SenderTypeOK
<1>1. CASE eos
  <2>1. conn # "Alive"
    BY ZenonT(30), <1>1 DEF EndInv
  <2>2. UNCHANGED stopped
    BY ZenonT(30), <2>1, WriteEffect
       DEF MessagingNext, Sender, BeginCall, Call, OpenUni, Attempts, Fails,
           WritesPart, WritesWhole, Finish, FinishKept, DropCall, SenderLoses,
           StopArrives, Returns, allVars, senderVars
  <2> QED
    BY ZenonT(30), <1>0, <1>1, <2>2 DEF StopInv
<1>2. CASE ~eos /\ eos'
  <2>1. RecvNone
    BY ZenonT(30), <1>2, ReceiverStep, EosBegins
  <2>2. \A s \in stopped : inbox[s] # <<>>
    BY ZenonT(30), <2>1 DEF RecvNone, StoppedInv, HandlesDropped
  <2>3. ~(UNCHANGED vars)
    BY ZenonT(30), <1>2 DEF vars, chanVars
  <2>4. UNCHANGED stopped
    BY ZenonT(30), <2>3 DEF MessagingNext, allVars, senderVars
  <2> QED
    BY ZenonT(30), <1>0, <2>2, <2>4 DEF StopInv
<1>3. CASE ~eos'
  BY ZenonT(30), <1>3 DEF StopInv
<1> QED
  BY ZenonT(30), <1>1, <1>2, <1>3

\* All was read when next returns None, and stays so.
LEMMA EndedReadNext ==
  ASSUME RecvInv, ArrivedInv, EndedRead, [Next]_vars
  PROVE  EndedRead'
<1>0. TypeOK /\ EndInv /\ UniHand /\ BiHand /\ OpenInv /\ LeftInv
  BY DEF RecvInv
<1>1. CASE eos
  <2>1. UNCHANGED <<conn, half, inbox, partial, ending, log, taken, eos>>
    BY ZenonT(30), <1>0, <1>1, EosSettled
  <2>2. ASSUME NEW s \in Uni, half[s] = "dropped" PROVE pos'[s] = pos[s]
    <3>1. s \in Streams /\ ~Reading(s)
      BY <2>2, OnlyUni DEF Reading
    <3> QED
      BY ZenonT(30), <1>0, <3>1, PosKept
  <2> QED
    BY ZenonT(30), <1>1, <2>1, <2>2 DEF EndedRead, Clean
<1>2. CASE ~eos /\ eos'
  <2>1. RecvNone
    BY ZenonT(30), <1>2, EosBegins
  <2>2. /\ UNCHANGED <<conn, half, inbox, partial, ending, pos, log>>
        /\ rxOpen /\ uniPc = "done" /\ conn # "Alive"
    BY ZenonT(30), <1>0, <2>1 DEF RecvNone, quinnVars, EndInv
  <2>3. ASSUME Benign(conn), NEW s \in Uni, Clean(s), inbox[s] # <<>>
        PROVE  /\ half[s] = "dropped" /\ pos[s] = 1
               /\ \E i \in 1 .. Len(log) : About(log[i], s, 1)
    <3>1. /\ s \in Streams /\ s # 0
          /\ half[s] \in {"unopened", "queued", "open", "eof", "dropped"}
      BY <1>0, OnlyUni DEF TypeOK, QuinnTypeOK
    <3>2. half[s] \notin {"open", "eof"}
      BY <1>0, <2>2, <3>1 DEF UniHand, Reading
    <3>3. half[s] # "unopened"
      BY ZenonT(30), <1>0, <2>3, <3>1 DEF OpenInv
    <3>4. half[s] # "queued"
      BY ZenonT(30), <1>0, <2>2, <2>3 DEF LeftInv, BehindCut, Failed
    <3>5. half[s] = "dropped"
      BY ZenonT(30), <3>1, <3>2, <3>3, <3>4
    <3>6. pos[s] = 1
      BY ZenonT(30), <2>2, <2>3, <3>5, DroppedMeansRead
    <3>7. ~About(item[0], s, 1)
      BY <2>2, <3>1 DEF RecvInv, TurnsInv, IdleInv, About
    <3>8. 1 \in 1 .. pos[s]
      BY <3>6
    <3> QED
      BY ZenonT(30), <2>2, <3>5, <3>6, <3>7, <3>8
         DEF RecvInv, TurnsInv, ReadKept
  <2> QED
    BY ZenonT(30), <2>2, <2>3 DEF EndedRead, Clean
<1>3. CASE ~eos'
  BY ZenonT(30), <1>3 DEF EndedRead
<1> QED
  BY ZenonT(30), <1>1, <1>2, <1>3

\* An Ok of send outlives a benign end of the connection.
THEOREM OkNotLostHolds == MessagingSpec => []OkNotLost
<1>1. MessagingInit => StopInv /\ EndedRead
  BY ZenonT(30) DEF MessagingInit, Init, StopInv, EndedRead
<1>2. ASSUME RecvInv, SendInv, StopInv, EndedRead, [MessagingNext]_allVars
      PROVE  StopInv' /\ EndedRead'
  BY ZenonT(30), <1>2, StopInvNext, EndedReadNext, ReceiverStep
     DEF RecvInv, SendInv, WireInv
<1>3. ASSUME RecvInv, SendInv, StopInv, EndedRead PROVE OkNotLost
  <2> SUFFICES ASSUME eos, Benign(conn), NEW c \in Calls, result[c] = "Ok",
                      ~CutBefore(c)
               PROVE  Received(c)
    BY ZenonT(30) DEF OkNotLost
  <2>0. ArrivedInv /\ taken = Len(log)
    BY ZenonT(30), <1>3 DEF SendInv, WireInv, RecvInv, EndInv
  <2>1. PICK s \in Uni : /\ owner[s] = c /\ written[s] = "whole"
                         /\ ending[s] = "finished" \/ s \in stopped
    BY ZenonT(30), <1>3 DEF SendInv, OkInv
  <2>2. inbox[s] # <<>>
    BY ZenonT(30), <1>3, <2>0, <2>1 DEF StopInv, ArrivedInv
  <2>3. Clean(s)
    BY ZenonT(30), <2>1 DEF Clean, CutBefore
  <2>4. PICK i \in 1 .. Len(log) : About(log[i], s, 1) /\ pos[s] = 1
    BY ZenonT(30), <1>3, <2>2, <2>3 DEF EndedRead
  <2>5. s # 0 /\ 1 <= pos[s]
    BY <2>4, OnlyUni
  <2>6. log[i].res = Outcome(c) /\ log[i].idx <= pos[log[i].stream]
    BY ZenonT(30), <1>3, <2>0, <2>1, <2>2, <2>4, <2>5, ResultOfFrame
       DEF RecvInv, TurnsInv, SoundInv, Sound, About
  <2> QED
    BY ZenonT(30), <2>0, <2>1, <2>4, <2>6 DEF Received, Deliveries, About
<1> QED
  BY <1>1, <1>2, <1>3, SendCorrect, PTL DEF MessagingSpec

-----------------------------------------------------------------------------
(***************************************************************************)
(* The refinement of Delivery.                                             *)
(***************************************************************************)
\* Result x is the delivery of the message of call c.
IsDelivery(x, c) ==
  x.res = Outcome(c) /\ owner[x.stream] = c /\ x.idx <= pos[x.stream]

\* It is the one frame of the stream, which the call has written to the end.
LEMMA DeliveryOwned ==
  ASSUME RecvInv, SendInv, NEW i \in 1 .. Len(log), NEW c \in Calls,
         IsDelivery(log[i], c)
  PROVE  /\ log[i].stream \in Uni /\ log[i].idx = 1 /\ Begun(log[i].stream)
         /\ written[log[i].stream] = "whole"
<1> DEFINE s == log[i].stream
<1>1. Sound(log[i])
  BY ZenonT(30) DEF RecvInv, TurnsInv, SoundInv
<1>2. Outcome(c) \notin {"None", "ConnectionLost"}
  BY DEF Outcome
<1>3. s # 0
  BY ZenonT(30), <1>1, <1>2 DEF Sound, IsDelivery
<1>4. s \in Uni /\ Begun(s) /\ log[i].idx \in 1 .. pos[s] + 1 /\ log[i].idx <= pos[s]
  BY ZenonT(30), <1>1, <1>3 DEF Sound, IsDelivery
<1>5. s \in Streams /\ pos[s] \in Nat /\ pos[s] <= Len(inbox[s])
  BY ZenonT(30), <1>4, OnlyUni DEF RecvInv, TypeOK, ReadTypeOK
<1>6. /\ inbox[s] = <<>> \/ inbox[s] = <<Frame(owner[s])>>
      /\ inbox[s] # <<>> => written[s] = "whole"
  BY ZenonT(30), <1>4 DEF SendInv, WireInv, ArrivedInv
<1>7. Len(<<>>) = 0 /\ Len(<<Frame(owner[s])>>) = 1
  OBVIOUS
<1>8. inbox[s] # <<>> /\ log[i].idx = 1
  <2>1. \A k, p, n \in Nat :
          k \in 1 .. p + 1 /\ k <= p /\ p <= n => n # 0 /\ (n = 1 => k = 1)
    OBVIOUS
  <2>2. log[i].idx \in Nat
    BY <1>4, <1>5
  <2>3. inbox[s] # <<>>
    BY ZenonT(30), <1>4, <1>5, <1>7, <2>1, <2>2
  <2>4. Len(inbox[s]) = 1
    BY ZenonT(30), <1>6, <1>7, <2>3
  <2> QED
    BY ZenonT(30), <1>4, <1>5, <2>1, <2>2, <2>3, <2>4
<1> QED
  BY ZenonT(30), <1>4, <1>6, <1>8

\* What is a delivery stays so, and what is not does not become one.
LEMMA DeliveryStays ==
  ASSUME RecvInv, SendInv, [MessagingNext]_allVars,
         NEW i \in 1 .. Len(log), NEW c \in Calls
  PROVE  log'[i] = log[i] /\ (IsDelivery(log[i], c)' <=> IsDelivery(log[i], c))
<1> DEFINE x == log[i]
           s == log[i].stream
<1>0. /\ TypeOK /\ UniHand /\ BiHand /\ CallInv /\ [Next]_vars
      /\ UNCHANGED content /\ Sound(x) /\ c # 0
  BY ZenonT(30), ReceiverStep, MessagingAssumption
     DEF RecvInv, TurnsInv, SoundInv, SendInv, MessagingNext, allVars
<1>1. log'[i] = x
  BY ZenonT(30), <1>0, LogKept
<1>2. Outcome(c)' = Outcome(c) /\ Outcome(c) \notin {"None", "ConnectionLost"}
  BY <1>0 DEF Outcome
<1>3. CASE s = 0
  <2>1. x.res # Outcome(c)
    BY ZenonT(30), <1>0, <1>2, <1>3 DEF Sound
  <2> QED
    BY ZenonT(30), <1>1, <1>2, <2>1 DEF IsDelivery
<1>4. CASE s # 0 /\ ~(x.idx <= pos[s])
  <2>1. s \in Uni /\ Begun(s) /\ x.idx \in 1 .. pos[s] + 1
    BY ZenonT(30), <1>0, <1>4 DEF Sound
  <2>2. x.idx > pos[s] /\ pos[s] \in Nat
    BY <1>0, <1>4, <2>1, BegunKept
  <2>3. half[s] = "dropped"
    BY ZenonT(30), <1>0, <1>4, <2>2 DEF Sound
  <2>4. pos'[s] = pos[s]
    BY ZenonT(30), <1>0, <2>1, <2>3, BegunKept
  <2> QED
    BY ZenonT(30), <1>1, <1>4, <2>4 DEF IsDelivery
<1>5. CASE s # 0 /\ x.idx <= pos[s]
  <2>1. s \in Uni /\ Begun(s) /\ x.idx \in 1 .. pos[s] + 1
    BY ZenonT(30), <1>0, <1>5 DEF Sound
  <2>2. pos[s] \in Nat /\ pos'[s] \in {pos[s], pos[s] + 1}
    BY ZenonT(30), <1>0, <2>1, BegunKept
  <2>3. x.idx <= pos'[s]
    BY <1>5, <2>1, <2>2
  <2>4. owner[s] # 0
    <3>1. s \in Streams /\ pos[s] <= Len(inbox[s])
      BY ZenonT(30), <1>0, <2>1, OnlyUni DEF TypeOK, ReadTypeOK
    <3>2. inbox[s] # <<>>
      BY <1>5, <2>1, <2>2, <3>1
    <3>3. written[s] = "whole"
      BY ZenonT(30), <2>1, <3>2 DEF SendInv, WireInv, ArrivedInv
    <3> QED
      BY <1>0, <2>1, <3>3 DEF CallInv, WrittenInv
  <2>5. owner'[s] = owner[s]
    BY ZenonT(30), <1>0, <2>1, <2>4, OwnerKept
  <2> QED
    BY ZenonT(30), <1>1, <1>2, <1>5, <2>3, <2>5 DEF IsDelivery
<1> QED
  BY ZenonT(30), <1>3, <1>4, <1>5

\* A message is delivered only by receiving it.
LEMMA DeliveriesKept ==
  ASSUME RecvInv, SendInv, [MessagingNext]_allVars, UNCHANGED taken,
         NEW c \in Calls
  PROVE  Deliveries(c)' = Deliveries(c)
<1>1. \A i \in 1 .. taken : i \in 1 .. Len(log)
  BY DEF RecvInv, TypeOK, ChanTypeOK
<1> QED
  BY ZenonT(30), <1>1, DeliveryStays DEF Deliveries, IsDelivery

\* Two deliveries of one call are the same.
LEMMA DeliveredOnce ==
  ASSUME RecvInv, SendInv, NEW i \in 1 .. Len(log), NEW j \in 1 .. Len(log),
         NEW c \in Calls, IsDelivery(log[i], c), IsDelivery(log[j], c)
  PROVE  ~(i < j)
<1> DEFINE s == log[i].stream
           t == log[j].stream
<1>0. /\ s \in Uni /\ t \in Uni /\ written[s] = "whole" /\ written[t] = "whole"
      /\ log[i].idx = 1 /\ log[j].idx = 1 /\ owner[s] = c /\ owner[t] = c
      /\ c # 0
  BY ZenonT(30), DeliveryOwned, MessagingAssumption DEF IsDelivery
<1>1. ~(s < t) /\ s # 0 /\ t # 0
  BY <1>0, OnlyUni DEF SendInv, CallInv, OwnerInv, Tried
<1>2. i < j => Precedes(log[i], log[j])
  BY ZenonT(30) DEF RecvInv, TurnsInv, OrderedInv
<1>3. ~(1 < 1)
  OBVIOUS
<1> QED
  BY ZenonT(30), <1>0, <1>1, <1>2, <1>3 DEF Precedes

\* The message of a call that had returned Ok when another began is received
\* before the message of the other.
LEMMA BeforeReceived ==
  ASSUME RecvInv, SendInv, rxOpen, NEW i \in 1 .. Len(log), NEW c \in Calls,
         IsDelivery(log[i], c), NEW d \in before[c]
  PROVE  \E j \in 1 .. Len(log) : j < i /\ IsDelivery(log[j], d)
<1> DEFINE s == log[i].stream
<1>0. Len(log) \in Nat
  BY DEF RecvInv, TypeOK, ChanTypeOK
<1>1. s \in Uni /\ owner[s] = c /\ Begun(s)
  BY ZenonT(30), DeliveryOwned DEF IsDelivery
<1>2. d \in Calls /\ result[d] = "Ok"
  BY ZenonT(30) DEF SendInv, BeforeInv, CallInv, SenderTypeOK
<1>3. PICK t \in Uni : /\ owner[t] = d /\ written[t] = "whole"
                       /\ ending[t] = "finished" \/ t \in stopped
  BY ZenonT(30), <1>2 DEF SendInv, OkInv
<1>4. t < s
  BY ZenonT(30), <1>1, <1>3 DEF SendInv, BeforeInv
<1>5. inbox[t] # <<>>
  BY ZenonT(30), <1>3
     DEF SendInv, WireInv, StoppedInv, ArrivedInv, HandlesDropped
<1>6. half[t] = "dropped"
  BY ZenonT(30), <1>1, <1>4 DEF RecvInv, TurnsInv, TurnInv
<1>7. pos[t] = 1
  BY ZenonT(30), <1>5, <1>6, DroppedMeansRead DEF SendInv, WireInv
<1>8. ASSUME NEW y, y.stream = t PROVE ~Precedes(log[i], y)
  <2>1. s \in Nat /\ t \in Nat /\ s # 0 /\ t # 0
    BY <1>1, OnlyUni
  <2>2. ~(s < t) /\ s # t
    BY <1>4, <2>1
  <2> QED
    BY ZenonT(30), <1>8, <2>1, <2>2 DEF Precedes
<1>9. ~About(item[0], t, 1)
  BY ZenonT(30), <1>8 DEF RecvInv, TurnsInv, OrderedInv, About
<1>10. PICK j \in 1 .. Len(log) : About(log[j], t, 1)
  <2>1. 1 \in 1 .. pos[t]
    BY <1>7
  <2> QED
    BY ZenonT(30), <1>9, <2>1 DEF RecvInv, TurnsInv, ReadKept
<1>11. j < i
  <2>1. ~(i < j)
    BY ZenonT(30), <1>8, <1>10 DEF RecvInv, TurnsInv, OrderedInv, About
  <2>2. t # s
    BY <1>1, <1>4, OnlyUni
  <2>3. i # j
    BY ZenonT(30), <1>10, <2>2 DEF About
  <2> QED
    BY <1>0, <2>1, <2>3
<1>12. IsDelivery(log[j], d)
  <2>1. Sound(log[j]) /\ t # 0
    BY ZenonT(30), OnlyUni DEF RecvInv, TurnsInv, SoundInv
  <2>2. 1 <= pos[t]
    BY <1>7
  <2>3. log[j].res = ResultOf(inbox[t][1])
    BY ZenonT(30), <1>10, <2>1, <2>2 DEF Sound, About
  <2>4. ResultOf(inbox[t][1]) = Outcome(d)
    BY ZenonT(30), <1>3, <1>5, ResultOfFrame DEF SendInv, WireInv
  <2> QED
    BY ZenonT(30), <1>3, <1>10, <2>2, <2>3, <2>4 DEF IsDelivery, About
<1> QED
  BY ZenonT(30), <1>11, <1>12

\* The status of a call, and how often its message was received, as Delivery
\* sees them.
Status(c) == IF callPc[c] = "new" THEN "new"
             ELSE IF result[c] = "none" THEN "begun" ELSE result[c]
Count(c)  == Cardinality(Deliveries(c))

\* What counting needs: a count is a number, 0 for nothing and 1 for one thing.
Counted == /\ \A c \in Calls : Count(c) \in Nat
           /\ \A c \in Calls : Count(c) = 0 <=> Deliveries(c) = {}
Single  == \A i \in Nat : Cardinality({i}) = 1

\* Receiving a message is the Receive of Delivery, for the call that sent it.
LEMMA ReceiveRefines ==
  ASSUME RecvInv, SendInv, Counted, Single, UNCHANGED <<senderVars, content>>,
         NEW keep, Recv(keep)
  PROVE  [Delivers!Next]_(Delivers!vars)
<1>0. /\ taken \in Nat /\ Len(log) \in Nat /\ rxOpen /\ taken < Len(log)
      /\ taken' = taken + 1 /\ UNCHANGED <<log, pos>>
      /\ UNCHANGED <<callPc, result, before, owner, content>>
  BY DEF RecvInv, TypeOK, ChanTypeOK, Recv, senderVars
<1>1. /\ taken + 1 \in 1 .. Len(log) /\ taken + 1 \in Nat
      /\ 1 .. taken' = (1 .. taken) \cup {taken + 1}
      /\ \A i \in 1 .. taken : i \in 1 .. Len(log) /\ i < taken + 1
      /\ \A i \in 1 .. Len(log) : i < taken + 1 => i \in 1 .. taken
  BY <1>0
<1>2. \A d \in Calls :
        Deliveries(d)' = {i \in 1 .. taken' : IsDelivery(log[i], d)}
  <2>1. \A d \in Calls : Outcome(d)' = Outcome(d)
    BY <1>0 DEF Outcome
  <2> QED
    BY <1>0, <2>1 DEF Deliveries, IsDelivery
<1>3. \A d \in Calls : Deliveries(d) = {i \in 1 .. taken : IsDelivery(log[i], d)}
  BY ZenonT(30) DEF Deliveries, IsDelivery
<1>4. ASSUME NEW d \in Calls, ~IsDelivery(log[taken + 1], d)
      PROVE  Deliveries(d)' = Deliveries(d)
  BY ZenonT(30), <1>1, <1>2, <1>3, <1>4
<1>5. CASE \A d \in Calls : ~IsDelivery(log[taken + 1], d)
  <2>1. [d \in Calls |-> Cardinality(Deliveries(d))]' =
          [d \in Calls |-> Cardinality(Deliveries(d))]
    BY ZenonT(30), <1>4, <1>5
  <2> QED
    BY ZenonT(30), <1>0, <2>1 DEF Delivers!vars
<1>6. ASSUME NEW c \in Calls, IsDelivery(log[taken + 1], c)
      PROVE  [Delivers!Next]_(Delivers!vars)
  <2>1. /\ log[taken + 1].stream \in Uni /\ owner[log[taken + 1].stream] = c
        /\ written[log[taken + 1].stream] = "whole" /\ c # 0
    BY ZenonT(30), <1>1, <1>6, DeliveryOwned, MessagingAssumption DEF IsDelivery
  <2>2. Deliveries(c) = {}
    BY ZenonT(30), <1>1, <1>3, <1>6, DeliveredOnce
  <2>3. Deliveries(c)' = {taken + 1}
    BY ZenonT(30), <1>1, <1>2, <1>3, <1>6, <2>2
  <2>4. Cardinality(Deliveries(c)) = 0 /\ Cardinality(Deliveries(c)') = 1
    BY ZenonT(30), <1>1, <2>2, <2>3 DEF Counted, Count, Single
  <2>5. callPc[c] # "new" /\ result[c] \notin NotSent /\ content[c] # "long"
    <3>1. callPc[c] # "new"
      BY ZenonT(30), <2>1 DEF SendInv, CallInv, OwnerInv
    <3>2. result[c] \notin NotSent /\ content[c] # "long"
      BY <2>1 DEF SendInv, CallInv, WrittenInv, Tried
    <3> QED
      BY ZenonT(30), <3>1, <3>2
  <2>6. ASSUME NEW d \in before[c] PROVE d \in Calls /\ Count(d) > 0
    <3>1. d \in Calls
      BY ZenonT(30), <2>6 DEF SendInv, CallInv, SenderTypeOK
    <3>2. Deliveries(d) # {}
      BY ZenonT(30), <1>0, <1>1, <1>3, <1>6, <2>6, <3>1, BeforeReceived
    <3> QED
      BY <3>1, <3>2 DEF Counted
  <2>7. ASSUME NEW d \in Calls, d # c PROVE Deliveries(d)' = Deliveries(d)
    BY ZenonT(30), <1>4, <2>1, <2>7 DEF IsDelivery
  <2>8. [d \in Calls |-> Cardinality(Deliveries(d))]' =
          [[d \in Calls |-> Cardinality(Deliveries(d))] EXCEPT ![c] = 1]
    BY ZenonT(30), <2>4, <2>7
  <2>9. Delivers!Receive(c)
    <3>1. Delivers!Received = {d \in Calls : Count(d) > 0}
      BY ZenonT(30) DEF Delivers!Received, Count
    <3>2. before[c] \subseteq Delivers!Received
      BY ZenonT(30), <2>6, <3>1
    <3>3. [d \in Calls |-> Status(d)]' = [d \in Calls |-> Status(d)]
      BY ZenonT(30), <1>0 DEF Status
    <3>4. [d \in Calls |-> Status(d)][c] \notin Delivers!NotSent \cup {"new"}
      <4>1. "begun" \notin NotSent \cup {"new"} /\ Delivers!NotSent = NotSent
        BY DEF NotSent, Delivers!NotSent
      <4>2. result[c] # "new"
        BY DEF SendInv, CallInv, SenderTypeOK, CallResults
      <4> QED
        BY ZenonT(30), <2>5, <4>1, <4>2 DEF Status
    <3>5. [d \in Calls |-> Cardinality(Deliveries(d))][c] = 0
      BY ZenonT(30), <2>4
    <3> QED
      BY ZenonT(30), <1>0, <2>5, <2>8, <3>2, <3>3, <3>4, <3>5
         DEF Delivers!Receive, Status
  <2> QED
    BY ZenonT(30), <2>9 DEF Delivers!Next
<1> QED
  BY ZenonT(30), <1>5, <1>6

\* A step of a call is its Begin or End in Delivery, or does not show there.
LEMMA CallRefines ==
  ASSUME RecvInv, SendInv, Counted, NEW c \in Calls, CallStep(c),
         UNCHANGED <<vars, content>>
  PROVE  [Delivers!Next]_(Delivers!vars)
<1>0. /\ callPc \in [Calls -> {"new", "open", "write", "kept", "finish", "done"}]
      /\ result \in [Calls -> CallResults \cup {"none"}]
      /\ before \in [Calls -> SUBSET Calls] /\ CallInv /\ Returned /\ c # 0
  BY ZenonT(30), MessagingAssumption DEF SendInv, CallInv, SenderTypeOK
<1>1. [d \in Calls |-> Cardinality(Deliveries(d))]' =
        [d \in Calls |-> Cardinality(Deliveries(d))]
  <2>1. [MessagingNext]_allVars /\ UNCHANGED taken
    BY ZenonT(30) DEF MessagingNext, Sender, CallStep, vars, chanVars
  <2>2. \A d \in Calls : Deliveries(d)' = Deliveries(d)
    BY ZenonT(30), <2>1, DeliveriesKept
  <2> QED
    BY ZenonT(30), <2>2
<1>2. CASE BeginCall(c)
  <2>1. /\ callPc[c] = "new" /\ callPc' = [callPc EXCEPT ![c] = "open"]
        /\ before' = [before EXCEPT ![c] = {d \in Calls : result[d] = "Ok"}]
        /\ UNCHANGED result /\ result[c] = "none"
    BY <1>0, <1>2 DEF BeginCall, Goes, Returned
  <2>2. [d \in Calls |-> Status(d)]' =
          [[d \in Calls |-> Status(d)] EXCEPT ![c] = "begun"]
    BY ZenonT(30), <1>0, <2>1 DEF Status
  <2>3. \A d \in Calls : result[d] = "Ok" <=> Status(d) = "Ok"
    BY ZenonT(30), <1>0 DEF Status, Returned
  <2>4. {d \in Calls : result[d] = "Ok"} =
          {d \in Calls : [e \in Calls |-> Status(e)][d] = "Ok"}
    BY ZenonT(30), <2>3
  <2>5. Delivers!Begin(c)
    BY ZenonT(30), <1>1, <2>1, <2>2, <2>4 DEF Delivers!Begin, Status
  <2> QED
    BY ZenonT(30), <2>5 DEF Delivers!Next
<1>3. CASE GoesOn(c)
  <2>1. [d \in Calls |-> Status(d)]' = [d \in Calls |-> Status(d)]
    BY ZenonT(30), <1>0, <1>3 DEF GoesOn, Status
  <2> QED
    BY ZenonT(30), <1>1, <1>3, <2>1 DEF GoesOn, Status, Delivers!vars
<1>4. ASSUME NEW res \in CallResults, EndsWith(c, res)
      PROVE  [Delivers!Next]_(Delivers!vars)
  <2>1. /\ callPc' = [callPc EXCEPT ![c] = "done"]
        /\ result' = [result EXCEPT ![c] = res] /\ UNCHANGED before
        /\ callPc[c] \notin {"new", "done"} /\ result[c] = "none"
        /\ "done" # "new" /\ res # "none"
    BY <1>0, <1>4 DEF EndsWith, Returns, Goes, Returned, CallResults
  <2>2. [d \in Calls |-> Status(d)]' =
          [[d \in Calls |-> Status(d)] EXCEPT ![c] = res]
    BY ZenonT(30), <1>0, <2>1 DEF Status
  <2>3. res = "Ok" => content[c] # "long"
    <3>1. ASSUME res = "Ok" PROVE content[c] # "long"
      <4>1. PICK s \in Uni : owner[s] = c /\ written[s] = "whole"
        BY ZenonT(30), <1>0, <1>4, <3>1, OkWritten
      <4> QED
        BY <1>0, <4>1 DEF CallInv, WrittenInv
    <3> QED
      BY ZenonT(30), <3>1
  <2>4. res = "Serialization" => content[c] = "long"
    BY ZenonT(30), <1>4 DEF EndsWith, Attempts, NotSent
  <2>5. res \in NotSent => c \notin Delivers!Received
    <3>1. ASSUME res \in NotSent PROVE Deliveries(c) = {}
      <4> SUFFICES ASSUME NEW i \in 1 .. taken, IsDelivery(log[i], c)
                   PROVE  FALSE
        BY ZenonT(30) DEF Deliveries, IsDelivery
      <4>1. callPc[c] = "write" /\ callPc[c] \in {"write", "kept", "finish"}
        BY ZenonT(30), <1>4, <3>1 DEF EndsWith
      <4>2. i \in 1 .. Len(log)
        BY DEF RecvInv, TypeOK, ChanTypeOK
      <4>3. PICK s \in Uni : owner[s] = c /\ written[s] = "whole"
        BY ZenonT(30), <4>2, DeliveryOwned DEF IsDelivery
      <4>4. ~Tried(s)
        BY <4>3 DEF Tried
      <4>5. s = StreamOf(c)
        BY ZenonT(30), <1>0, <4>1, <4>3, <4>4, EarlierTried
      <4>6. Current(StreamOf(c))
        BY ZenonT(30), <1>0, <4>1, StreamOfOwned
      <4>7. Current(s)
        BY <4>5, <4>6
      <4> QED
        BY ZenonT(30), <1>0, <4>1, <4>3, <4>7 DEF CallInv, WrittenInv
    <3>2. Deliveries(c) = {} =>
            ~([d \in Calls |-> Cardinality(Deliveries(d))][c] > 0)
      BY DEF Counted, Count
    <3> QED
      BY ZenonT(30), <3>1, <3>2 DEF Delivers!Received
  <2>6. /\ Delivers!NotSent = NotSent /\ res \in Delivers!Results
        /\ [d \in Calls |-> Status(d)][c] = "begun"
    BY <2>1 DEF Delivers!NotSent, Delivers!Results, NotSent, CallResults, Status
  <2>7. Delivers!End(c, res)
    BY ZenonT(30), <1>1, <2>1, <2>2, <2>3, <2>4, <2>5, <2>6
       DEF Delivers!End, Status
  <2> QED
    BY ZenonT(30), <2>6, <2>7 DEF Delivers!Next
<1> QED
  BY ZenonT(30), <1>0, <1>2, <1>3, <1>4, CallEffect

\* Every step is a step of Delivery, or does not show there.
LEMMA DeliveryStep ==
  ASSUME RecvInv, SendInv, Counted, Single, [MessagingNext]_allVars
  PROVE  [Delivers!Next]_(Delivers!vars)
<1>0. UNCHANGED content
  BY ZenonT(30) DEF MessagingNext, allVars
<1>1. CASE (\E c \in Calls : CallStep(c)) /\ UNCHANGED vars
  BY ZenonT(30), <1>0, <1>1, CallRefines
<1>2. CASE Receiving /\ UNCHANGED senderVars
  BY ZenonT(30), <1>0, <1>2, ReceiveRefines DEF Receiving
<1>3. CASE UNCHANGED <<taken, callPc, result, before>>
  <2>1. \A d \in Calls : Deliveries(d)' = Deliveries(d)
    BY ZenonT(30), <1>3, DeliveriesKept
  <2>2. [d \in Calls |-> Cardinality(Deliveries(d))]' =
          [d \in Calls |-> Cardinality(Deliveries(d))]
    BY ZenonT(30), <2>1
  <2> QED
    BY ZenonT(30), <1>0, <1>3, <2>2 DEF Delivers!vars
<1>4. Net \/ Listener \/ ReceiverLoses \/ ImplicitClose \/ App =>
        Receiving \/ UNCHANGED taken
  <2> USE DEF quinnVars, uniVars, biVars, chanVars, appVars
  <2>1. Net => UNCHANGED taken
    BY ZenonT(30)
       DEF Net, Arrives, PeerOpen, PeerSend, PeerSendPart, PeerFinish,
           ListenersUnchanged
  <2>2. UniStep \/ UniSend => UNCHANGED taken
    BY ZenonT(30)
       DEF UniStep, UniAccept, UniSourceEnds, UniSourceFails, UniReadMsg,
           UniReadEnd, UniReadOther, UniReadFails, UniSendFails, UniNotAlive,
           UniSend, Sent
  <2>3. BiStep => UNCHANGED taken
    BY ZenonT(30)
       DEF BiStep, BiAccept, BiSourceEnds, BiDrained, BiSourceFails,
           BiNotAlive, BiStop
  <2>4. ReceiverLoses \/ ImplicitClose => UNCHANGED taken
    BY ZenonT(30) DEF ReceiverLoses, ImplicitClose, ConnLost, ListenersUnchanged
  <2>5. App => Receiving \/ UNCHANGED taken
    BY ZenonT(30)
       DEF App, Receiving, RecvNone, DropIncoming, DropConnection, Close,
           ConnLost, ListenersUnchanged, AppLock, AppUnlock, DropStream
  <2> QED
    BY ZenonT(30), <2>1, <2>2, <2>3, <2>4, <2>5 DEF Listener
<1>5. SenderLoses \/ StopArrives => UNCHANGED <<callPc, result, before>>
  BY ZenonT(30) DEF SenderLoses, StopArrives
<1>6. UNCHANGED vars => UNCHANGED taken
  BY ZenonT(30) DEF vars, chanVars
<1>7. UNCHANGED senderVars => UNCHANGED <<callPc, result, before>>
  BY ZenonT(30) DEF senderVars
<1> QED
  BY ZenonT(30), <1>1, <1>2, <1>3, <1>4, <1>5, <1>6, <1>7
     DEF MessagingNext, Sender, CallStep, allVars

\* The facts about finite sets that counting the deliveries of a message needs.
INSTANCE FiniteSetTheorems

\* The deliveries of a message can be counted.
LEMMA DeliveriesCounted ==
  ASSUME RecvInv
  PROVE  Counted
<1> SUFFICES ASSUME NEW c \in Calls
             PROVE  Count(c) \in Nat /\ (Count(c) = 0 <=> Deliveries(c) = {})
  BY ZenonT(30) DEF Counted
<1>1. taken \in Nat
  BY DEF RecvInv, TypeOK, ChanTypeOK
<1>2. IsFiniteSet(1 .. taken)
  BY <1>1, FS_Interval
<1>3. Deliveries(c) \in SUBSET (1 .. taken)
  BY ZenonT(30) DEF Deliveries
<1>4. IsFiniteSet(Deliveries(c))
  BY ZenonT(30), <1>2, <1>3, FS_Subset
<1> QED
  BY ZenonT(30), <1>4, FS_CardinalityType, FS_EmptySet DEF Count

\* However calls, attempts, streams, losses and drops interleave, sending over
\* one connection keeps the promises of Delivery: a message is received at most
\* once, an empty one is refused and one that is too long never sent; none
\* overtakes one whose call returned Ok before its own call began; and one
\* whose call failed with Serialization or StreamLost is never received.
THEOREM DeliveryKeptHolds == MessagingSpec => DeliveryKept
<1>1. MessagingInit => Delivers!Init
  <2> SUFFICES ASSUME MessagingInit PROVE Delivers!Init
    OBVIOUS
  <2>1. \A c \in Calls : Deliveries(c) = {}
    BY DEF MessagingInit, Init, Deliveries
  <2>2. \A c \in Calls : Cardinality(Deliveries(c)) = 0
    BY ZenonT(30), <2>1, FS_EmptySet
  <2>3. content \in [Calls -> {"some", "empty", "long"}]
    BY ZenonT(30), MessagingAssumption DEF MessagingInit, Contents
  <2> QED
    BY ZenonT(30), <2>2, <2>3 DEF MessagingInit, Delivers!Init
<1>2. Single
  BY ZenonT(30), FS_Singleton DEF Single
<1>3. ASSUME RecvInv, SendInv, [MessagingNext]_allVars
      PROVE  [Delivers!Next]_(Delivers!vars)
  BY ZenonT(30), <1>2, <1>3, DeliveriesCounted, DeliveryStep
<1> QED
  BY <1>1, <1>3, SendCorrect, PTL DEF MessagingSpec, DeliveryKept, Delivers!Spec
=============================================================================
