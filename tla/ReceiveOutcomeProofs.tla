------------------------ MODULE ReceiveOutcomeProofs ------------------------
(***************************************************************************)
(* What becomes of the messages and requests that were read, and what is   *)
(* reported of a loss: theorems about ConnectionIncoming for every number  *)
(* of streams, frames and channel slots.                                   *)
(***************************************************************************)
EXTENDS ConnectionIncomingProofs

-----------------------------------------------------------------------------
(***************************************************************************)
(* Lemmas on numbers and on sequences of replies.                          *)
(***************************************************************************)
\* A number up to n + 1 is n + 1 or a number up to n.
LEMMA UpToNext ==
  ASSUME NEW n \in Nat
  PROVE  \A k \in 1 .. n + 1 : k = n + 1 \/ k \in 1 .. n
OBVIOUS

\* A reply that is added hides none of those before it.
LEMMA MentionsMore ==
  ASSUME NEW S, NEW s \in Seq(S), NEW x, NEW k, Mentions(s, k)
  PROVE  Mentions(Append(s, x), k)
<1>1. \A i \in 1 .. Len(s) :
        i \in 1 .. Len(Append(s, x)) /\ Append(s, x)[i] = s[i]
  OBVIOUS
<1> QED
  BY ZenonT(30), <1>1 DEF Mentions

\* A reply answers the request that it names.
LEMMA MentionsNew ==
  ASSUME NEW S, NEW s \in Seq(S), NEW k, NEW res
  PROVE  Mentions(Append(s, [to |-> k, res |-> res]), k)
<1> DEFINE x == [to |-> k, res |-> res]
<1>1. x.to = k
  OBVIOUS
<1> HIDE DEF x
<1>2. Len(s) + 1 \in 1 .. Len(Append(s, x)) /\ Append(s, x)[Len(s) + 1] = x
  OBVIOUS
<1>3. Mentions(Append(s, x), k)
  BY ZenonT(30), <1>1, <1>2 DEF Mentions
<1> QED
  BY ZenonT(30), <1>3 DEF x

-----------------------------------------------------------------------------
(***************************************************************************)
(* What a loss reports, and what becomes of the messages.                  *)
(***************************************************************************)
\* Nothing arrives after the loss of the connection, handles that were dropped
\* and a task that has ended stay so, and what was read is not changed.
LEMMA StepKeeps ==
  TypeOK /\ [Next]_vars =>
    /\ conn # "Alive" => UNCHANGED <<conn, partial>>
    /\ rxOpen' => rxOpen
    /\ biPc = "done" => biPc' = "done"
    /\ \A s \in Streams : \A k \in 1 .. pos[s] : inbox'[s][k] = inbox[s][k]
<1> SUFFICES ASSUME TypeOK, [Next]_vars
             PROVE  /\ conn # "Alive" => UNCHANGED <<conn, partial>>
                    /\ rxOpen' => rxOpen
                    /\ biPc = "done" => biPc' = "done"
                    /\ \A s \in Streams : \A k \in 1 .. pos[s] :
                         inbox'[s][k] = inbox[s][k]
  OBVIOUS
<1> USE DEF quinnVars, uniVars, biVars, chanVars, appVars, ListenersUnchanged
<1>1. CASE Peer \/ ImplicitClose
  <2>1. conn = "Alive" /\ UNCHANGED <<rxOpen, biPc>>
    BY <1>1 DEF Peer, ImplicitClose, PeerOpen, PeerSend, PeerSendPart,
                PeerFinish, PeerReset, ConnLost, Arriving
  <2>2. /\ inbox \in [Streams -> Seq(FrameKinds)] /\ pos \in [Streams -> Nat]
        /\ \A s \in Streams : pos[s] <= Len(inbox[s])
    BY DEF TypeOK, QuinnTypeOK, ReadTypeOK
  <2>3. ASSUME NEW s \in Streams, NEW kind \in Kinds, PeerSend(s, kind),
               NEW q \in Streams, NEW k \in 1 .. pos[q]
        PROVE  inbox'[q][k] = inbox[q][k]
    <3>1. inbox' = [inbox EXCEPT ![s] = Append(inbox[s], kind)]
      BY <2>3 DEF PeerSend
    <3>2. /\ inbox[s] \in Seq(FrameKinds) /\ pos[s] \in Nat
          /\ Len(inbox[s]) \in Nat /\ pos[s] <= Len(inbox[s])
      BY <2>2
    <3>3. CASE q = s
      <4>1. k \in 1 .. Len(inbox[s])
        BY <3>2, <3>3
      <4>2. Append(inbox[s], kind)[k] = inbox[s][k]
        BY <3>2, <4>1
      <4> QED
        BY <2>2, <3>1, <3>3, <4>2
    <3>4. CASE q # s
      BY <2>2, <3>1, <3>4
    <3> QED
      BY <3>3, <3>4
  <2>4. ASSUME NEW s \in Streams, PeerReset(s),
               NEW q \in Streams, NEW k \in 1 .. pos[q]
        PROVE  inbox'[q][k] = inbox[q][k]
    <3>1. inbox' = [inbox EXCEPT ![s] = SubSeq(inbox[s], 1, pos[s])]
      BY <2>4 DEF PeerReset
    <3>2. /\ inbox[s] \in Seq(FrameKinds) /\ pos[s] \in Nat
          /\ Len(inbox[s]) \in Nat /\ pos[s] <= Len(inbox[s])
      BY <2>2
    <3>3. CASE q = s
      <4>1. SubSeq(inbox[s], 1, pos[s])[k] = inbox[s][k]
        BY <3>2, <3>3
      <4> QED
        BY <2>2, <3>1, <3>3, <4>1
    <3>4. CASE q # s
      BY <2>2, <3>1, <3>4
    <3> QED
      BY <3>3, <3>4
  <2>5. CASE UNCHANGED inbox
    BY <2>1, <2>5
  <2> QED
    BY <1>1, <2>1, <2>3, <2>4, <2>5
       DEF Peer, ImplicitClose, PeerOpen, PeerSendPart, PeerFinish, ConnLost
<1>2. CASE UniStep \/ UniSend
  <2>1. UNCHANGED <<conn, partial, inbox, rxOpen, biPc>>
    BY <1>2 DEF UniStep, UniAccept, UniSourceEnds, UniSourceFails, UniReadMsg,
           UniReadEnd, UniReadOther, UniReadFails, UniSendFails, UniNotAlive,
           UniSend
  <2> QED
    BY ZenonT(30), <2>1
<1>3. CASE BiStep
  <2>1. /\ UNCHANGED <<conn, partial, inbox, rxOpen>>
        /\ biPc = "done" => biPc' = "done"
    BY ZenonT(30), <1>3
       DEF BiStep, BiAccept, BiSourceEnds, BiDrained, BiSourceFails,
                BiNotAlive, BiStop
  <2> QED
    BY <2>1
<1>4. ASSUME NEW b \in Bi, Handler(b) \/ BiSend(b) \/ BiLock(b) \/ BiReply(b)
      PROVE  UNCHANGED <<conn, partial, inbox, rxOpen, biPc>>
  BY <1>4 DEF Handler, BiReadEnd, BiReadFrame, BiReadFails, BiReadResponse,
              BiReadReq, BiSendFails, BiSend, BiLock, BiReply
<1>5. CASE App
  <2>1. /\ conn # "Alive" => UNCHANGED <<conn, partial>>
        /\ UNCHANGED <<inbox, biPc>> /\ (rxOpen' => rxOpen)
    BY <1>5 DEF App, Recv, RecvNone, DropIncoming, DropConnection, AppLock,
                AppUnlock, DropStream, Close, ConnLost
  <2> QED
    BY ZenonT(30), <2>1
<1>6. CASE UNCHANGED vars
  BY <1>6 DEF vars
<1> QED
  BY <1>1, <1>2, <1>3, <1>4, <1>5, <1>6 DEF Next

\* The loss of the connection is reported only if it failed, or cut a message.
Explained(x) ==
  x.res = "ConnectionLost" =>
    conn # "Alive" /\ (~Benign(conn) \/ (x.stream # 0 /\ partial[x.stream]))

LostInv ==
  /\ \A t \in Bi \cup {0} : Explained(item[t])
  /\ \A i \in 1 .. Len(log) : Explained(log[i])

\* A benign loss of the connection is reported only if it cut a message in two.
THEOREM BenignLossSilentHolds == Spec => []BenignLossSilent
<1> DEFINE T == Bi \cup {0}
<1>1. Init => LostInv
  BY DEF Init, LostInv, Explained, NoItem, Item
<1>2. ASSUME TypeOK, PcInv, LostInv, [Next]_vars PROVE LostInv'
  <2>0. /\ item \in [T -> Items] /\ Len(log) \in Nat
        /\ \A t \in T : Explained(item[t])
        /\ \A i \in 1 .. Len(log) : Explained(log[i])
    BY <1>2 DEF LostInv, TypeOK, ListenerTypeOK, ChanTypeOK
  <2>1. Effect /\ (conn # "Alive" => UNCHANGED <<conn, partial>>)
    BY <1>2, StepEffect, StepKeeps
  <2>2. ASSUME NEW x, Explained(x)
        PROVE  x.res = "ConnectionLost" =>
                 /\ conn' # "Alive"
                 /\ ~Benign(conn') \/ (x.stream # 0 /\ partial'[x.stream])
    BY <2>1, <2>2 DEF Explained
  <2>3. ASSUME NEW t \in T, NEW s \in Streams, Takes(t, s) PROVE LostInv'
    <3>1. PICK r : /\ item' = [item EXCEPT ![t] = Item(r, s, pos[s] + 1)]
                   /\ UNCHANGED log
                   /\ r = "ConnectionLost" =>
                        conn # "Alive" /\ (~Benign(conn) \/ partial[s])
      BY ZenonT(30), <2>3 DEF Takes
    <3>2. Explained(Item(r, s, pos[s] + 1))
      BY <3>1, StreamSets DEF Explained, Item
    <3>3. \A u \in T : Explained(item'[u])
      BY <2>0, <3>1, <3>2
    <3> QED
      BY <2>0, <2>2, <3>1, <3>3 DEF LostInv, Explained
  <2>4. ASSUME NEW t \in T, Puts(t) PROVE LostInv'
    <3>1. /\ Len(log') = Len(log) + 1 /\ log'[Len(log) + 1] = item[t]
          /\ \A i \in 1 .. Len(log) : log'[i] = log[i]
      BY <1>2, <2>4, SentTypeOK DEF Puts
    <3>2. \A u \in T : Explained(item'[u])
      BY <2>0, <2>4 DEF Puts, Sent, Explained, NoItem, Item
    <3>3. \A i \in 1 .. Len(log) + 1 : Explained(log'[i])
      <4> TAKE i \in 1 .. Len(log) + 1
      <4>1. i \in 1 .. Len(log) \/ i = Len(log) + 1
        BY <2>0
      <4> QED
        BY <2>0, <3>1, <4>1
    <3> QED
      BY <2>2, <3>1, <3>2, <3>3 DEF LostInv, Explained
  <2>5. ASSUME UNCHANGED log,
               \A t \in T : item'[t] = item[t] \/ Explained(item'[t])
        PROVE  LostInv'
    <3>1. \A t \in T : Explained(item'[t])
      BY <2>0, <2>5
    <3> QED
      BY <2>0, <2>2, <2>5, <3>1 DEF LostInv, Explained
  <2>6. /\ Explained(NoItem)
        /\ (Failed => Explained(Item("ConnectionLost", 0, 0)))
    BY DEF Explained, NoItem, Item, Failed
  <2>7. ASSUME NEW t \in T, Leaves(t) PROVE LostInv'
    <3>1. /\ UNCHANGED log
          /\ \A u \in T : item'[u] = item[u] \/ Explained(item'[u])
      BY <2>0, <2>6, <2>7 DEF Leaves
    <3> QED
      BY <2>5, <3>1
  <2>8. CASE Abandons
    <3>1. /\ UNCHANGED log
          /\ \A u \in T : item'[u] = item[u] \/ Explained(item'[u])
      BY <2>0, <2>6, <2>8 DEF Abandons
    <3> QED
      BY <2>5, <3>1
  <2>9. CASE UNCHANGED <<item, log>>
    BY <2>5, <2>9
  <2> QED
    BY <2>1, <2>3, <2>4, <2>7, <2>8, <2>9 DEF Effect, Passes
<1>3. TypeOK /\ LostInv => BenignLossSilent
  <2> SUFFICES ASSUME TypeOK, LostInv, NEW i \in DOMAIN log
               PROVE  Explained(log[i])
    BY DEF BenignLossSilent, Explained
  <2> QED
    BY DEF LostInv, TypeOK, ChanTypeOK
<1> QED
  BY <1>1, <1>2, <1>3, InvCorrect, PTL DEF Spec

\* A message read from a stream is in the channel or in the hand of the task
\* that is about to put it there, as long as the application can receive it;
\* only a failure of the connection makes the bi listener drop one.
THEOREM NothingSkippedHolds == Spec => []NothingSkipped
<1> DEFINE T == Bi \cup {0}
           Moot(s) == ~rxOpen \/ (s \in Bi /\ biPc = "done" /\ Failed)
           Kept(s, k) == InLog(s, k) \/ InHand(s, k) \/ Moot(s)
<1>1. Init => NothingSkipped
  BY DEF Init, NothingSkipped
<1>2. ASSUME TypeOK, PcInv, OrderInv, NothingSkipped, [Next]_vars
      PROVE  NothingSkipped'
  <2>0. /\ item \in [T -> Items] /\ Len(log) \in Nat
        /\ DOMAIN log = 1 .. Len(log)
        /\ pos \in [Streams -> Nat]
    BY <1>2 DEF TypeOK, ListenerTypeOK, ChanTypeOK, ReadTypeOK
  <2>1. /\ Effect
        /\ \A s \in Streams : \A k \in 1 .. pos[s] : inbox'[s][k] = inbox[s][k]
        /\ \A s \in Streams : Moot(s) => Moot(s)'
    BY <1>2, StepEffect, StepKeeps DEF Failed
  <2>2. \A s \in Streams : \A k \in 1 .. pos[s] :
          inbox'[s][k] = "UserMsg" => Kept(s, k)
    BY <1>2, <2>1 DEF NothingSkipped, Failed
  <2>3. ASSUME \A s \in Streams : \A k \in 1 .. pos'[s] :
                 inbox'[s][k] = "UserMsg" => Kept(s, k)'
        PROVE  NothingSkipped'
    BY <2>3 DEF NothingSkipped, Failed
  <2>4. ASSUME UNCHANGED log,
               NEW s \in Streams, NEW k \in Nat, Kept(s, k),
               \A t \in T : \/ ~IsMsg(item[t]) \/ item'[t] = item[t]
                            \/ ReadsFor(t, s) => Moot(s)'
        PROVE  Kept(s, k)'
    <3>1. CASE InLog(s, k)
      BY <2>4, <3>1 DEF InLog
    <3>2. CASE Moot(s)
      BY <2>1, <3>2
    <3>3. ASSUME NEW t \in T, item[t] = Item("UserMsg", s, k) PROVE Kept(s, k)'
      <4>1. IsMsg(item[t]) /\ item[t].stream = s
        BY <3>3 DEF IsMsg, Item
      <4>2. ReadsFor(t, s)
        BY <1>2, <4>1 DEF OrderInv
      <4> QED
        BY <2>4, <3>3, <4>1, <4>2 DEF InHand
    <3> QED
      BY <2>4, <3>1, <3>2, <3>3 DEF InHand
  <2>5. ASSUME UNCHANGED <<pos, log>>,
               \A t \in T : \/ ~IsMsg(item[t]) \/ item'[t] = item[t]
                            \/ \A s \in Streams : ReadsFor(t, s) => Moot(s)'
        PROVE  NothingSkipped'
    <3>1. ASSUME NEW s \in Streams, NEW k \in 1 .. pos'[s],
                 inbox'[s][k] = "UserMsg"
          PROVE  Kept(s, k)'
      <4>1. k \in 1 .. pos[s] /\ k \in Nat
        BY <2>0, <2>5
      <4>2. Kept(s, k)
        BY <2>2, <3>1, <4>1
      <4> QED
        BY <2>4, <2>5, <4>1, <4>2
    <3> QED
      BY <2>3, <3>1
  <2>6. ASSUME NEW t \in T, NEW s \in Streams, UNCHANGED <<inbox, log>>,
               Advance(s), \A u \in T : ~IsMsg(item[u]) \/ item'[u] = item[u],
               inbox[s][pos[s] + 1] = "UserMsg"
                 => item'[t] = Item("UserMsg", s, pos[s] + 1)
        PROVE  NothingSkipped'
    <3>1. ASSUME NEW q \in Streams, NEW k \in 1 .. pos'[q],
                 inbox'[q][k] = "UserMsg"
          PROVE  Kept(q, k)'
      <4>1. /\ pos[q] \in Nat /\ k \in Nat /\ k >= 1
            /\ pos'[q] = IF q = s THEN pos[s] + 1 ELSE pos[q]
        BY <2>0, <2>6 DEF Advance
      <4>2. CASE k \in 1 .. pos[q]
        BY <2>2, <2>4, <2>6, <3>1, <4>1, <4>2
      <4>3. CASE q = s /\ k = pos[s] + 1
        <5>1. item'[t] = Item("UserMsg", q, k)
          BY <2>6, <3>1, <4>3
        <5> QED
          BY <5>1 DEF InHand
      <4>4. k \in 1 .. pos[q] \/ (q = s /\ k = pos[s] + 1)
        BY <3>1, <4>1
      <4> QED
        BY <4>2, <4>3, <4>4
    <3> QED
      BY <2>3, <3>1
  <2>7. ASSUME NEW t \in T, NEW s \in Streams, Takes(t, s)
        PROVE  NothingSkipped'
    <3>1. PICK r : /\ ~IsMsg(item[t]) /\ UNCHANGED <<inbox, log>>
                   /\ item' = [item EXCEPT ![t] = Item(r, s, pos[s] + 1)]
                   /\ \/ /\ Advance(s)
                         /\ inbox[s][pos[s] + 1] = "UserMsg" => r = "UserMsg"
                      \/ UNCHANGED pos
      BY ZenonT(30), <2>7 DEF Takes
    <3>2. /\ \A u \in T : ~IsMsg(item[u]) \/ item'[u] = item[u]
          /\ item'[t] = Item(r, s, pos[s] + 1)
      BY <2>0, <3>1
    <3> QED
      BY <2>5, <2>6, <3>1, <3>2
  <2>8. ASSUME NEW b \in Bi, Passes(b) PROVE NothingSkipped'
    BY ZenonT(30), <2>6, <2>8, StreamSets DEF Passes
  <2>9. ASSUME NEW t \in T, Puts(t) PROVE NothingSkipped'
    <3>1. /\ Len(log') = Len(log) + 1 /\ log'[Len(log) + 1] = item[t]
          /\ \A i \in 1 .. Len(log) : log'[i] = log[i]
          /\ DOMAIN log' = 1 .. Len(log) + 1 /\ UNCHANGED pos
      BY <1>2, <2>9, SentTypeOK DEF Puts
    <3>2. \A u \in T : u # t => item'[u] = item[u]
      BY <2>0, <2>9 DEF Puts, Sent
    <3>3. ASSUME NEW s \in Streams, NEW k \in 1 .. pos[s], Kept(s, k)
          PROVE  Kept(s, k)'
      <4>1. InLog(s, k) => InLog(s, k)'
        BY <2>0, <3>1 DEF InLog
      <4>2. ASSUME NEW u \in T, item[u] = Item("UserMsg", s, k)
            PROVE  InLog(s, k)' \/ InHand(s, k)'
        <5>1. CASE u = t
          BY <2>0, <3>1, <4>2, <5>1 DEF InLog
        <5>2. CASE u # t
          BY <3>2, <4>2, <5>2 DEF InHand
        <5> QED
          BY <5>1, <5>2
      <4> QED
        BY <2>1, <3>3, <4>1, <4>2 DEF InHand
    <3> QED
      BY <2>2, <2>3, <3>1, <3>3
  <2>10. ASSUME NEW t \in T, Leaves(t) PROVE NothingSkipped'
    <3>1. \A u \in T : u # t => item'[u] = item[u]
      BY <2>0, <2>10 DEF Leaves
    <3>2. IsMsg(item[t]) => ~rxOpen'
      BY <1>2, <2>10, StepKeeps DEF Leaves
    <3> QED
      BY <2>5, <2>10, <3>1, <3>2 DEF Leaves
  <2>11. CASE Abandons
    <3>1. item'[0] = item[0]
      BY <2>11 DEF Abandons
    <3>2. ASSUME NEW b \in Bi, NEW s \in Streams, ReadsFor(b, s)
          PROVE  Moot(s)'
      <4>1. s \in Bi
        BY <3>2, StreamSets DEF ReadsFor
      <4>2. biPc' = "done" /\ (~rxOpen' \/ Failed')
        BY <1>2, <2>11, StepKeeps DEF Abandons, Failed
      <4> QED
        BY <4>1, <4>2
    <3> QED
      BY <2>5, <2>11, <3>1, <3>2 DEF Abandons
  <2>12. CASE UNCHANGED <<item, pos, log>>
    BY <2>5, <2>12
  <2> QED
    BY <2>1, <2>7, <2>8, <2>9, <2>10, <2>11, <2>12 DEF Effect
<1> QED
  BY <1>1, <1>2, InvCorrect, PTL DEF Spec

-----------------------------------------------------------------------------
(***************************************************************************)
(* The answers to the requests on one stream.                              *)
(***************************************************************************)

\* The request a handler has in hand is the last frame read, and not answered.
Asked(b) ==
  task[b] \in {"lock", "reply"} =>
    /\ pos[b] >= 1
    /\ item[b].idx = pos[b] /\ item[b].res = inbox[b][pos[b]]
    /\ \A i \in 1 .. Len(replies[b]) : replies[b][i].to < pos[b]

Answered(b) ==
  \A i \in 1 .. Len(replies[b]) :
    /\ replies[b][i].to \in 1 .. pos[b]
    /\ replies[b][i].res # "Failed" =>
         replies[b][i].res \in Answers(inbox[b][replies[b][i].to])
    /\ \A j \in 1 .. Len(replies[b]) :
         j < i => replies[b][j].to < replies[b][i].to

\* The handler of b neither takes a request in hand nor answers one.
NoRequest(b) ==
  /\ replies'[b] = replies[b]
  /\ pos'[b] >= pos[b]
  /\ task'[b] \in {"lock", "reply"} =>
       /\ task[b] \in {"lock", "reply"}
       /\ item'[b] = item[b] /\ pos'[b] = pos[b]

\* Every step takes a request of stream b in hand, answers it, or does neither.
LEMMA RequestSteps ==
  ASSUME TypeOK, [Next]_vars, NEW b \in Bi
  PROVE  NoRequest(b) \/ BiReadReq(b) \/ BiReply(b)
<1> USE DEF quinnVars, uniVars, biVars, chanVars, appVars, ListenersUnchanged
<1>0. /\ item \in [Bi \cup {0} -> Items] /\ task \in [Bi -> {"idle", "read",
              "send", "lock", "reply", "end"}]
      /\ replies \in [Bi -> Seq([to : Nat, res : ReplyKinds])]
      /\ pos \in [Streams -> Nat] /\ uniCur \in Uni \cup {0}
      /\ b \in Streams /\ b # 0 /\ b \notin Uni /\ pos[b] \in Nat
  BY ZenonT(20), StreamSets DEF TypeOK, ListenerTypeOK, ReadTypeOK
<1>1. ASSUME replies'[b] = replies[b], task'[b] = task[b],
             item'[b] = item[b], pos'[b] = pos[b]
      PROVE  NoRequest(b)
  BY <1>0, <1>1 DEF NoRequest
<1>2. CASE Peer \/ ImplicitClose \/ App \/ UNCHANGED vars
  <2> DEFINE Still == UNCHANGED <<replies, task, item, pos>>
  <2>1. Peer \/ ImplicitClose => Still
    BY ZenonT(30)
       DEF Peer, ImplicitClose, PeerOpen, PeerSend, PeerSendPart, PeerFinish,
           PeerReset, ConnLost
  <2>2. App => Still
    BY DEF App, Recv, RecvNone, DropIncoming, DropConnection, AppLock,
           AppUnlock, DropStream, Close, ConnLost
  <2>3. UNCHANGED vars => Still
    BY DEF vars
  <2> QED
    BY <1>1, <1>2, <2>1, <2>2, <2>3
<1>3. CASE UniStep \/ UniSend
  <2>1. UNCHANGED <<replies, task>>
    BY ZenonT(20), <1>3
       DEF UniStep, UniAccept, UniSourceEnds, UniSourceFails, UniReadMsg,
           UniReadEnd, UniReadOther, UniReadFails, UniSendFails, UniNotAlive,
           UniSend
  <2>2. item'[b] = item[b]
    BY ZenonT(20), <1>0, <1>3
       DEF UniStep, UniAccept, UniSourceEnds, UniSourceFails, UniReadMsg,
           UniReadEnd, UniReadOther, UniReadFails, UniSendFails, UniNotAlive,
           UniSend, Hand, Sent
  <2>3. pos'[b] = pos[b]
    BY SMTT(30), <1>0, <1>3
       DEF UniStep, UniAccept, UniSourceEnds, UniSourceFails, UniReadMsg,
           UniReadEnd, UniReadOther, UniReadFails, UniSendFails, UniNotAlive,
           UniSend, Advance, UniReads
  <2> QED
    BY ZenonT(20), <1>1, <2>1, <2>2, <2>3
<1>4. CASE BiStep
  <2>1. UNCHANGED <<replies, pos>>
    BY ZenonT(20), <1>4
       DEF BiStep, BiAccept, BiSourceEnds, BiDrained, BiSourceFails,
                BiNotAlive, BiStop
  <2>2. \/ task'[b] \notin {"lock", "reply"}
        \/ task'[b] = task[b] /\ item'[b] = item[b]
    <3>1. CASE BiStop
      BY <1>0, <3>1 DEF BiStop
    <3>2. ASSUME NEW c \in Bi, BiAccept(c)
          PROVE  /\ item'[b] = item[b]
                 /\ task'[b] = task[b] \/ task'[b] = "read"
      BY <1>0, <3>2 DEF BiAccept, Goto
    <3>3. CASE BiSourceEnds \/ BiDrained
      BY <3>3 DEF BiSourceEnds, BiDrained
    <3> QED
      BY <1>4, <3>1, <3>2, <3>3 DEF BiStep, BiSourceFails, BiNotAlive
  <2> QED
    BY <1>0, <2>1, <2>2 DEF NoRequest
<1>5. ASSUME NEW c \in Bi, Handler(c) \/ BiSend(c) \/ BiLock(c) \/ BiReply(c)
      PROVE  NoRequest(b) \/ BiReadReq(b) \/ BiReply(b)
  <2> USE DEF Goto, Hand, Sent, Advance
  <2>1. CASE c # b
    <3>1. replies'[b] = replies[b] /\ task'[b] = task[b]
      BY ZenonT(60), <1>0, <1>5, <2>1
         DEF Handler, BiReadEnd, BiReadFrame, BiReadFails, BiReadResponse,
             BiReadReq, BiSendFails, BiSend, BiLock, BiReply
    <3>2. item'[b] = item[b] /\ pos'[b] = pos[b]
      BY ZenonT(60), <1>0, <1>5, <2>1
         DEF Handler, BiReadEnd, BiReadFrame, BiReadFails, BiReadResponse,
             BiReadReq, BiSendFails, BiSend, BiLock, BiReply
    <3> QED
      BY <1>1, <3>1, <3>2
  <2>2. CASE c = b
    <3> USE <1>0, <1>5, <2>2 DEF NoRequest
    <3>1. CASE BiReadEnd(b)
      BY <3>1 DEF BiReadEnd
    <3>2. CASE BiReadFrame(b)
      BY <3>2 DEF BiReadFrame
    <3>3. CASE BiReadFails(b)
      BY <3>3 DEF BiReadFails
    <3>4. CASE BiReadResponse(b)
      BY <3>4 DEF BiReadResponse, BiReads
    <3>5. CASE BiSendFails(b)
      BY <3>5 DEF BiSendFails
    <3>6. CASE BiSend(b)
      BY <3>6 DEF BiSend
    <3>7. CASE BiLock(b)
      BY <3>7 DEF BiLock
    <3> QED
      BY <3>1, <3>2, <3>3, <3>4, <3>5, <3>6, <3>7 DEF Handler
  <2> QED
    BY <2>1, <2>2
<1> QED
  BY <1>2, <1>3, <1>4, <1>5 DEF Next

\* Requests on one stream are answered in order, each at most once, and by the
\* kind of reply it asks for.
THEOREM RepliesMatchHolds == Spec => []RepliesMatch
<1> DEFINE ReplyInv == \A b \in Bi : Asked(b) /\ Answered(b)
<1>1. Init => ReplyInv
  BY DEF Init, Asked, Answered
<1>2. ASSUME TypeOK, ReplyInv, [Next]_vars, NEW b \in Bi
      PROVE  Asked(b)' /\ Answered(b)'
  <2>0. /\ b \in Streams /\ pos[b] \in Nat /\ pos \in [Streams -> Nat]
        /\ item \in [Bi \cup {0} -> Items] /\ item[b].idx \in Nat
        /\ replies \in [Bi -> Seq([to : Nat, res : ReplyKinds])]
        /\ Len(replies[b]) \in Nat
        /\ task \in [Bi -> {"idle", "read", "send", "lock", "reply", "end"}]
        /\ \A i \in 1 .. Len(replies[b]) : replies[b][i].to \in Nat
    <3>1. /\ item \in [Bi \cup {0} -> Items] /\ pos \in [Streams -> Nat]
          /\ replies \in [Bi -> Seq([to : Nat, res : ReplyKinds])]
          /\ task \in [Bi -> {"idle", "read", "send", "lock", "reply", "end"}]
      BY ZenonT(30), <1>2 DEF TypeOK, ListenerTypeOK, ReadTypeOK
    <3>2. item[b].idx \in Nat
      BY <3>1 DEF Items
    <3> DEFINE R == [to : Nat, res : ReplyKinds]
    <3>3. replies[b] \in Seq(R) /\ \A r \in R : r.to \in Nat
      BY ZenonT(30), <3>1
    <3> HIDE DEF R
    <3>4. /\ Len(replies[b]) \in Nat
          /\ \A i \in 1 .. Len(replies[b]) : replies[b][i].to \in Nat
      BY <3>3
    <3> QED
      BY ZenonT(30), <3>1, <3>2, <3>4, StreamSets
  <2>1. Asked(b) /\ Answered(b)
    BY ZenonT(20), <1>2
  <2>2. \A k \in 1 .. pos[b] : inbox'[b][k] = inbox[b][k]
    BY ZenonT(20), <1>2, <2>0, StepKeeps
  <2>3. ASSUME replies'[b] = replies[b], pos'[b] >= pos[b], pos'[b] \in Nat
        PROVE  Answered(b)'
    <3>1. ASSUME NEW i \in 1 .. Len(replies[b])
          PROVE  /\ replies[b][i].to \in 1 .. pos'[b]
                 /\ inbox'[b][replies[b][i].to] = inbox[b][replies[b][i].to]
      <4>1. replies[b][i].to \in 1 .. pos[b]
        BY <2>1 DEF Answered
      <4> QED
        BY <2>0, <2>2, <2>3, <4>1
    <3> QED
      BY ZenonT(20), <2>1, <2>3, <3>1 DEF Answered, Answers
  <2>4. CASE NoRequest(b)
    <3>1. pos'[b] \in Nat
      BY ZenonT(30), <1>2, <2>0, NextTypeOK DEF TypeOK, ReadTypeOK
    <3>2. Answered(b)'
      BY <2>3, <2>4, <3>1 DEF NoRequest
    <3>3. Asked(b)'
      <4> SUFFICES ASSUME task'[b] \in {"lock", "reply"} PROVE Asked(b)'
        BY DEF Asked
      <4>1. /\ replies'[b] = replies[b] /\ item'[b] = item[b]
            /\ pos'[b] = pos[b]
            /\ task[b] \in {"lock", "reply"}
        BY ZenonT(30), <2>4 DEF NoRequest
      <4>2. pos[b] >= 1 /\ inbox'[b][pos[b]] = inbox[b][pos[b]]
        BY <2>0, <2>1, <2>2, <4>1 DEF Asked
      <4> QED
        BY ZenonT(30), <2>1, <4>1, <4>2 DEF Asked
    <3> QED
      BY <3>2, <3>3
  <2>5. CASE BiReadReq(b)
    <3>1. /\ read_from_stream(b) \in FrameKinds
          /\ item'[b] = Item(read_from_stream(b), b, pos[b] + 1)
          /\ UNCHANGED <<replies, inbox>> /\ pos'[b] = pos[b] + 1
      BY ZenonT(20), <2>0, <2>5
         DEF BiReadReq, BiReads, Hand, Advance, FrameKinds,
                        quinnVars
    <3>2. item'[b].idx = pos[b] + 1 /\ item'[b].res = inbox[b][pos[b] + 1]
      BY <1>2, <2>0, <3>1, ReadResult DEF Item
    <3>3. \A i \in 1 .. Len(replies[b]) : replies[b][i].to < pos[b] + 1
      BY <2>0, <2>1 DEF Answered
    <3>4. pos'[b] >= 1 /\ pos'[b] >= pos[b] /\ pos'[b] \in Nat
      BY <2>0, <3>1
    <3>5. Asked(b)'
      BY ZenonT(30), <3>1, <3>2, <3>3, <3>4 DEF Asked
    <3> QED
      BY <2>3, <3>1, <3>4, <3>5
  <2>6. CASE BiReply(b)
    <3>1. PICK res \in {"Failed"} \cup
                     (IF conn = "Alive" THEN Answers(item[b].res) ELSE {}) :
            replies' = [replies EXCEPT ![b] =
                          Append(@, [to |-> item[b].idx, res |-> res])]
      BY ZenonT(20), <2>6 DEF BiReply
    <3> DEFINE new == [to |-> item[b].idx, res |-> res]
               n == Len(replies[b])
    <3>2. /\ UNCHANGED <<pos, inbox>> /\ task[b] = "reply" /\ task'[b] = "read"
      BY ZenonT(30), <2>0, <2>6 DEF BiReply, Goto, quinnVars
    <3>3. /\ pos[b] >= 1 /\ item[b].idx = pos[b]
          /\ item[b].res = inbox[b][pos[b]]
          /\ \A i \in 1 .. n : replies[b][i].to < pos[b]
      BY <2>1, <3>2 DEF Asked
    <3>4. /\ new.to = pos[b]
          /\ (new.res # "Failed" => new.res \in Answers(inbox[b][new.to]))
      BY <3>1, <3>3
    <3> HIDE DEF new
    <3>5. /\ Len(replies'[b]) = n + 1 /\ replies'[b][n + 1] = new
          /\ \A i \in 1 .. n : replies'[b][i] = replies[b][i]
      <4>1. replies'[b] = Append(replies[b], new)
        BY ZenonT(20), <2>0, <3>1 DEF new
      <4> QED
        BY <2>0, <4>1
    <3>6. ASSUME NEW i \in 1 .. n + 1
          PROVE  /\ replies'[b][i].to \in 1 .. pos[b]
                 /\ replies'[b][i].res # "Failed" =>
                      replies'[b][i].res \in Answers(inbox[b][replies'[b][i].to])
                 /\ \A j \in 1 .. n + 1 :
                      j < i => replies'[b][j].to < replies'[b][i].to
      <4>1. CASE i = n + 1
        <5>1. replies'[b][i] = new /\ new.to \in 1 .. pos[b]
          BY <2>0, <3>3, <3>4, <3>5, <4>1
        <5>2. \A j \in 1 .. n + 1 : j < i => j \in 1 .. n
          BY <2>0, <4>1
        <5>3. \A j \in 1 .. n + 1 : j < i => replies'[b][j].to < new.to
          BY <3>3, <3>4, <3>5, <5>2
        <5> QED
          BY ZenonT(20), <3>4, <5>1, <5>3
      <4>2. CASE i \in 1 .. n
        <5>1. \A j \in 1 .. n + 1 : j < i => j \in 1 .. n
          BY <2>0, <4>2
        <5> QED
          BY ZenonT(20), <2>1, <3>5, <4>2, <5>1 DEF Answered
      <4>3. i = n + 1 \/ i \in 1 .. n
        BY <2>0
      <4> QED
        BY <4>1, <4>2, <4>3
    <3>7. Answered(b)'
      BY <3>2, <3>5, <3>6 DEF Answered, Answers
    <3> QED
      BY ZenonT(20), <3>2, <3>7 DEF Asked
  <2> QED
    BY <1>2, <2>4, <2>5, <2>6, RequestSteps
<1>3. TypeOK /\ ReplyInv /\ [Next]_vars => ReplyInv'
  BY <1>2
<1>4. TypeOK /\ ReplyInv => RepliesMatch
  <2> SUFFICES ASSUME TypeOK, ReplyInv, NEW b \in Bi
               PROVE  Answered(b) /\ DOMAIN replies[b] = 1 .. Len(replies[b])
    BY ZenonT(20) DEF RepliesMatch, Answered
  <2>1. replies \in [Bi -> Seq([to : Nat, res : ReplyKinds])]
    BY Zenon DEF TypeOK, ListenerTypeOK
  <2>2. DOMAIN replies[b] = 1 .. Len(replies[b])
    BY <2>1
  <2> QED
    BY Zenon, <2>2
<1> QED
  BY <1>1, <1>3, <1>4, TypeCorrect, PTL DEF Spec

-----------------------------------------------------------------------------
(***************************************************************************)
(* What the application has been told when its messages end: which steps   *)
(* touch which streams and tasks.                                          *)
(***************************************************************************)
HandlerStep(b) == Handler(b) \/ BiSend(b) \/ BiLock(b) \/ BiReply(b)

\* quinn, the peer and the application leave the listeners alone; streams are
\* opened only by a living connection.
LEMMA OutsideFrame ==
  ASSUME TypeOK, Peer \/ ImplicitClose \/ App \/ UNCHANGED vars
  PROVE  /\ UNCHANGED <<pos, uniPc, uniCur, biPc, task, item, log>>
         /\ rxOpen' => rxOpen
         /\ \A s \in Streams :
              \/ half'[s] = half[s]
              \/ half[s] = "unopened" /\ half'[s] = "queued" /\ conn = "Alive"
<1> USE DEF quinnVars, uniVars, biVars, chanVars, appVars, ListenersUnchanged
<1>1. CASE Peer \/ ImplicitClose
  <2>1. UNCHANGED <<pos, uniPc, uniCur, biPc, task, item, log, rxOpen>>
    BY ZenonT(30), <1>1
       DEF Peer, ImplicitClose, PeerOpen, PeerSend, PeerSendPart,
                PeerFinish, PeerReset, ConnLost
  <2>2. ASSUME NEW s \in Streams, PeerOpen(s), NEW t \in Streams
        PROVE  \/ half'[t] = half[t]
               \/ half[t] = "unopened" /\ half'[t] = "queued" /\ conn = "Alive"
    BY <2>2 DEF PeerOpen
  <2>3. CASE UNCHANGED half
    BY <2>1, <2>3
  <2> QED
    BY ZenonT(30), <1>1, <2>1, <2>2, <2>3
       DEF Peer, ImplicitClose, PeerSend, PeerSendPart, PeerFinish, PeerReset,
           ConnLost
<1>2. CASE App
  <2>1. UNCHANGED <<pos, uniPc, uniCur, biPc, task, item, log, half>>
    BY ZenonT(30), <1>2
       DEF App, Recv, RecvNone, DropIncoming, DropConnection, AppLock,
           AppUnlock, DropStream, Close, ConnLost
  <2>2. rxOpen' => rxOpen
    BY StepKeeps, <1>2 DEF Next
  <2> QED
    BY <2>1, <2>2
<1>3. CASE UNCHANGED vars
  BY <1>3 DEF vars
<1> QED
  BY <1>1, <1>2, <1>3

\* The uni listener leaves the bidirectional streams and their handlers alone.
LEMMA UniFrame ==
  ASSUME TypeOK, UniStep \/ UniSend
  PROVE  /\ UNCHANGED <<conn, inbox, partial, ending, biPc, task, rxOpen>>
         /\ \A b \in Bi : /\ half'[b] = half[b] /\ item'[b] = item[b]
                          /\ pos'[b] = pos[b]
<1> USE DEF quinnVars, uniVars, biVars, chanVars, appVars
<1>0. /\ item \in [Bi \cup {0} -> Items] /\ pos \in [Streams -> Nat]
      /\ half \in [Streams -> {"unopened", "queued", "open", "eof", "dropped"}]
      /\ uniCur \in Uni \cup {0}
  BY DEF TypeOK, ListenerTypeOK, QuinnTypeOK, ReadTypeOK
<1>1. UNCHANGED <<conn, inbox, partial, ending, biPc, task, rxOpen>>
  BY ZenonT(30)
     DEF UniStep, UniAccept, UniSourceEnds, UniSourceFails, UniReadMsg,
         UniReadEnd, UniReadOther, UniReadFails, UniSendFails, UniNotAlive,
         UniSend
<1>2. \A b \in Bi : half'[b] = half[b]
  BY ZenonT(20), <1>0, StreamSets
     DEF UniStep, UniAccept, UniSourceEnds, UniSourceFails, UniReadMsg,
         UniReadEnd, UniReadOther, UniReadFails, UniSendFails, UniNotAlive,
         UniSend, UniStop, Drop, UniReads
<1>3. \A b \in Bi : item'[b] = item[b]
  BY ZenonT(20), <1>0, StreamSets
     DEF UniStep, UniAccept, UniSourceEnds, UniSourceFails, UniReadMsg,
         UniReadEnd, UniReadOther, UniReadFails, UniSendFails, UniNotAlive,
         UniSend, Hand, Sent
<1>4. \A b \in Bi : pos'[b] = pos[b]
  BY SMTT(30), <1>0, StreamSets
     DEF UniStep, UniAccept, UniSourceEnds, UniSourceFails, UniReadMsg,
         UniReadEnd, UniReadOther, UniReadFails, UniSendFails, UniNotAlive,
         UniSend, Advance, UniReads
<1> QED
  BY ZenonT(30), <1>1, <1>2, <1>3, <1>4

\* The bi listener leaves the unidirectional streams and their task alone.
LEMMA BiFrame ==
  ASSUME TypeOK, BiStep \/ \E b \in Bi : HandlerStep(b)
  PROVE  /\ UNCHANGED <<conn, inbox, partial, ending, uniPc, uniCur, rxOpen>>
         /\ item'[0] = item[0]
         /\ \A s \in Uni : half'[s] = half[s] /\ pos'[s] = pos[s]
<1> USE DEF quinnVars, uniVars, biVars, chanVars, appVars
<1>0. /\ item \in [Bi \cup {0} -> Items] /\ pos \in [Streams -> Nat]
      /\ half \in [Streams -> {"unopened", "queued", "open", "eof", "dropped"}]
      /\ \A s \in Uni : s \in Streams /\ s \notin Bi
      /\ \A b \in Bi : b # 0
  BY StreamSets DEF TypeOK, ListenerTypeOK, QuinnTypeOK, ReadTypeOK
<1>1. CASE BiStep
  BY ZenonT(30), <1>0, <1>1
     DEF BiStep, BiAccept, BiSourceEnds, BiDrained, BiSourceFails, BiNotAlive,
         BiStop
<1>2. ASSUME NEW b \in Bi, HandlerStep(b)
      PROVE  /\ UNCHANGED <<conn, inbox, partial, ending, uniPc, uniCur, rxOpen>>
             /\ item'[0] = item[0]
             /\ \A s \in Uni : half'[s] = half[s] /\ pos'[s] = pos[s]
  <2>1. UNCHANGED <<conn, inbox, partial, ending, uniPc, uniCur, rxOpen>>
    BY ZenonT(30), <1>2
       DEF HandlerStep, Handler, BiReadEnd, BiReadFrame, BiReadFails,
                BiReadResponse, BiReadReq, BiSendFails, BiSend, BiLock, BiReply
  <2>2. item'[0] = item[0]
    BY ZenonT(30), <1>0, <1>2
       DEF HandlerStep, Handler, BiReadEnd, BiReadFrame, BiReadFails,
           BiReadResponse, BiReadReq, BiSendFails, BiSend, BiLock, BiReply,
           Hand, Sent
  <2>3. \A s \in Uni : half'[s] = half[s]
    BY ZenonT(30), <1>0, <1>2
       DEF HandlerStep, Handler, BiReadEnd, BiReadFrame, BiReadFails,
           BiReadResponse, BiReadReq, BiSendFails, BiSend, BiLock, BiReply, Drop
  <2>4. \A s \in Uni : pos'[s] = pos[s]
    BY ZenonT(30), <1>0, <1>2
       DEF HandlerStep, Handler, BiReadEnd, BiReadFrame, BiReadFails,
           BiReadResponse, BiReadReq, BiSendFails, BiSend, BiLock, BiReply,
           Advance
  <2> QED
    BY ZenonT(30), <2>1, <2>2, <2>3, <2>4
<1> QED
  BY ZenonT(30), <1>1, <1>2

\* A handler leaves the other handlers alone.
LEMMA HandlerFrame ==
  ASSUME TypeOK, NEW b \in Bi, HandlerStep(b), NEW c \in Bi, c # b
  PROVE  /\ half'[c] = half[c] /\ task'[c] = task[c] /\ item'[c] = item[c]
         /\ pos'[c] = pos[c] /\ biPc' = biPc
<1> USE DEF quinnVars, uniVars, biVars, chanVars, appVars
<1>0. /\ item \in [Bi \cup {0} -> Items] /\ pos \in [Streams -> Nat]
      /\ half \in [Streams -> {"unopened", "queued", "open", "eof", "dropped"}]
      /\ task \in [Bi -> {"idle", "read", "send", "lock", "reply", "end"}]
      /\ c \in Streams
  BY StreamSets DEF TypeOK, ListenerTypeOK, QuinnTypeOK, ReadTypeOK
<1>1. half'[c] = half[c] /\ task'[c] = task[c] /\ biPc' = biPc
  BY ZenonT(30), <1>0
     DEF HandlerStep, Handler, BiReadEnd, BiReadFrame, BiReadFails,
         BiReadResponse, BiReadReq, BiSendFails, BiSend, BiLock, BiReply, Drop,
         Goto
<1>2. item'[c] = item[c] /\ pos'[c] = pos[c]
  BY ZenonT(30), <1>0
     DEF HandlerStep, Handler, BiReadEnd, BiReadFrame, BiReadFails,
         BiReadResponse, BiReadReq, BiSendFails, BiSend, BiLock, BiReply,
         Hand, Sent, Advance
<1> QED
  BY <1>1, <1>2

\* What was put in the channel stays there.
LEMMA LogKept ==
  ASSUME TypeOK, [Next]_vars
  PROVE  /\ Len(log) \in Nat /\ Len(log') \in Nat /\ Len(log) <= Len(log')
         /\ \A i \in 1 .. Len(log) : log'[i] = log[i]
<1> USE DEF quinnVars, uniVars, biVars, chanVars, appVars, ListenersUnchanged
<1>0. Len(log) \in Nat
  BY DEF TypeOK, ChanTypeOK
<1>1. UNCHANGED log \/ \E t \in Bi \cup {0} : Sent(t)
  <2>1. CASE Peer \/ ImplicitClose \/ App \/ UNCHANGED vars
    BY <2>1, OutsideFrame
  <2>2. CASE UniStep \/ UniSend
    BY ZenonT(30), <2>2
       DEF UniStep, UniAccept, UniSourceEnds, UniSourceFails, UniReadMsg,
                UniReadEnd, UniReadOther, UniReadFails, UniSendFails,
                UniNotAlive, UniSend
  <2>3. CASE BiStep
    BY ZenonT(30), <2>3
       DEF BiStep, BiAccept, BiSourceEnds, BiDrained, BiSourceFails,
                BiNotAlive, BiStop
  <2>4. ASSUME NEW b \in Bi, HandlerStep(b) PROVE UNCHANGED log \/ Sent(b)
    BY <2>4 DEF HandlerStep, Handler, BiReadEnd, BiReadFrame, BiReadFails,
                BiReadResponse, BiReadReq, BiSendFails, BiSend, BiLock, BiReply
  <2> QED
    BY <2>1, <2>2, <2>3, <2>4 DEF Next, HandlerStep
<1>2. ASSUME NEW t \in Bi \cup {0}, Sent(t)
      PROVE  Len(log') = Len(log) + 1 /\ \A i \in 1 .. Len(log) : log'[i] = log[i]
  BY <1>2, SentTypeOK
<1>3. CASE UNCHANGED log
  BY <1>0, <1>3
<1>4. CASE \E t \in Bi \cup {0} : Sent(t)
  BY <1>0, <1>2, <1>4
<1> QED
  BY <1>1, <1>3, <1>4

-----------------------------------------------------------------------------
(***************************************************************************)
(* Which stream is open for which task, and which error it has in hand.    *)
(***************************************************************************)
IsError(x)    == x.res \in ReadErrors
ErrorOf(x, s) == IsError(x) /\ x.stream = s
Reading(s)    == half[s] \in {"open", "eof"}
Active(b)     == task[b] \notin {"idle", "end"}

\* The uni listener has at most one stream open, and none once it has ended or
\* has the loss of the connection in hand.
UniHand ==
  /\ IsError(item[0]) => uniPc = "send"
  /\ uniCur # 0 => half[uniCur] = "open"
  /\ \A s \in Uni : Reading(s) => s = uniCur
  /\ uniPc = "done" \/ LostInHand(0) => uniCur = 0

\* A handler runs exactly as long as its stream is open, and the error it has in
\* hand is about that stream.
BiHand ==
  \A b \in Bi :
    /\ IsError(item[b]) => task[b] = "send" /\ item[b].stream = b
    /\ Active(b) <=> Reading(b)

\* Every step keeps UniHand.
LEMMA UniHandNext ==
  ASSUME TypeOK, UniHand, [Next]_vars
  PROVE  UniHand'
<1> USE DEF quinnVars, uniVars, biVars, chanVars, appVars
<1>0. /\ item \in [Bi \cup {0} -> Items] /\ uniCur \in Uni \cup {0}
      /\ half \in [Streams -> {"unopened", "queued", "open", "eof", "dropped"}]
      /\ \A s \in Uni : s \in Streams /\ s # 0
      /\ uniCur' \in Uni \cup {0}
  BY ZenonT(30), NextTypeOK, StreamSets DEF TypeOK, ListenerTypeOK, QuinnTypeOK
<1>1. ASSUME UNCHANGED <<uniPc, uniCur>>, item'[0] = item[0],
             \A s \in Uni : half'[s] = half[s] \/ (~Reading(s) /\ ~Reading(s)')
      PROVE  UniHand'
  BY ZenonT(30), <1>0, <1>1 DEF UniHand, IsError, LostInHand, Reading
<1>2. CASE Peer \/ ImplicitClose \/ App \/ UNCHANGED vars
  BY <1>0, <1>1, <1>2, OutsideFrame DEF Reading
<1>3. CASE BiStep \/ \E b \in Bi : HandlerStep(b)
  BY ZenonT(30), <1>1, <1>3, BiFrame
<1>4. ASSUME NEW s \in Uni, UniAccept(s) PROVE UniHand'
  <2>1. /\ uniCur = 0 /\ uniCur' = s /\ UNCHANGED item /\ uniPc = "next"
        /\ uniPc' = "next" /\ half' = [half EXCEPT ![s] = "open"]
    BY ZenonT(30), <1>4 DEF UniAccept
  <2>2. ~IsError(item[0]) /\ ~LostInHand(0)
    BY <2>1 DEF UniHand, IsError, LostInHand, ReadErrors
  <2>3. half'[s] = "open" /\ \A t \in Uni : t # s => ~Reading(t)'
    BY ZenonT(30), <1>0, <2>1 DEF UniHand, Reading
  <2> QED
    BY <1>0, <2>1, <2>2, <2>3 DEF UniHand, IsError, LostInHand
<1>5. CASE UniSourceEnds \/ UniSourceFails
  <2>1. /\ uniCur = 0 /\ uniCur' = 0 /\ UNCHANGED half /\ uniPc = "next"
    BY <1>5 DEF UniSourceEnds, UniSourceFails
  <2>2. IsError(item'[0]) => uniPc' = "send"
    BY <1>0, <1>5 DEF UniSourceEnds, UniSourceFails, UniHand, IsError
  <2> QED
    BY <2>1, <2>2 DEF UniHand, Reading, IsError
<1>6. CASE UniReadMsg
  <2>1. /\ uniPc' = "send" /\ UNCHANGED <<uniCur, half>>
        /\ item'[0].res = "UserMsg"
    BY <1>0, <1>6 DEF UniReadMsg, Hand, Item
  <2> QED
    BY <2>1 DEF UniHand, IsError, LostInHand, Reading
<1>7. ASSUME uniCur' = 0, \A s \in Uni : half'[s] = IF s = uniCur THEN "dropped"
                                                    ELSE half[s],
             IsError(item'[0]) => uniPc' = "send"
      PROVE  UniHand'
  BY <1>7 DEF UniHand, Reading, IsError
<1>8. CASE UniReadEnd \/ UniReadOther \/ UniReadFails
  <2>1. /\ uniCur' = 0 /\ Drop(uniCur) /\ uniCur \in Uni /\ uniPc = "next"
        /\ uniPc' = "send" \/ UNCHANGED <<uniPc, item>>
    BY <1>0, <1>8 DEF UniReadEnd, UniReadOther, UniReadFails, UniReads
  <2>2. \A s \in Uni : half'[s] = IF s = uniCur THEN "dropped" ELSE half[s]
    BY <1>0, <2>1 DEF Drop
  <2> QED
    BY ZenonT(30), <1>7, <2>1, <2>2 DEF UniHand, IsError
<1>9. CASE UniSendFails \/ UniNotAlive
  <2>1. /\ uniCur' = 0
        /\ \A s \in Uni : half'[s] = IF s = uniCur THEN "dropped" ELSE half[s]
    BY <1>0, <1>9 DEF UniSendFails, UniNotAlive, UniStop
  <2>2. ~IsError(item'[0])
    BY <1>0, <1>9 DEF UniSendFails, UniNotAlive, UniHand, IsError, NoItem, Item,
                      ReadErrors
  <2> QED
    BY <1>7, <2>1, <2>2
<1>10. CASE UniSend
  <2>1. ~IsError(item'[0]) /\ ~LostInHand(0)'
    BY <1>0, <1>10 DEF UniSend, Sent, IsError, LostInHand, NoItem, Item,
                       ReadErrors
  <2>2. CASE item[0].res = "ConnectionLost"
    BY ZenonT(30), <1>0, <1>7, <1>10, <2>1, <2>2 DEF UniSend, UniStop
  <2>3. CASE item[0].res # "ConnectionLost"
    BY ZenonT(30), <1>10, <2>1, <2>3 DEF UniSend, UniHand, Reading
  <2> QED
    BY <2>2, <2>3
<1> QED
  BY <1>2, <1>3, <1>4, <1>5, <1>6, <1>8, <1>9, <1>10
     DEF Next, UniStep, HandlerStep

\* Every step keeps BiHand.
LEMMA BiHandNext ==
  ASSUME TypeOK, BiHand, [Next]_vars
  PROVE  BiHand'
<1> USE DEF quinnVars, uniVars, biVars, chanVars, appVars
<1>0. /\ item \in [Bi \cup {0} -> Items]
      /\ half \in [Streams -> {"unopened", "queued", "open", "eof", "dropped"}]
      /\ task \in [Bi -> {"idle", "read", "send", "lock", "reply", "end"}]
      /\ \A b \in Bi : b \in Streams /\ b # 0
  BY ZenonT(30), StreamSets DEF TypeOK, ListenerTypeOK, QuinnTypeOK
<1> DEFINE OK(b) == /\ IsError(item[b]) => task[b] = "send" /\ item[b].stream = b
                    /\ Active(b) <=> Reading(b)
<1>1. ASSUME NEW b \in Bi, task'[b] = task[b], item'[b] = item[b],
             half'[b] = half[b] \/ (~Reading(b) /\ ~Reading(b)')
      PROVE  OK(b)'
  BY ZenonT(30), <1>1 DEF BiHand, IsError, Active, Reading
<1>2. CASE Peer \/ ImplicitClose \/ App \/ UNCHANGED vars
  BY <1>0, <1>1, <1>2, OutsideFrame DEF Reading, BiHand
<1>3. CASE UniStep \/ UniSend
  BY ZenonT(30), <1>1, <1>3, UniFrame DEF BiHand
<1>4. CASE BiStep
  <2>1. ASSUME NEW c \in Bi, BiAccept(c), NEW b \in Bi PROVE OK(b)'
    <3>1. /\ half' = [half EXCEPT ![c] = "open"] /\ UNCHANGED item
          /\ task' = [task EXCEPT ![c] = "read"] /\ half[c] = "queued"
      BY <2>1 DEF BiAccept, Goto, FirstQueued
    <3>2. CASE b = c
      <4>1. ~Active(b) /\ task[b] # "send"
        BY <3>1, <3>2 DEF BiHand, Reading, Active
      <4> QED
        BY <1>0, <3>1, <3>2, <4>1 DEF BiHand, IsError, Active, Reading
    <3>3. CASE b # c
      BY <1>0, <1>1, <3>1, <3>3
    <3> QED
      BY <3>2, <3>3
  <2>2. CASE BiSourceEnds \/ BiDrained
    BY ZenonT(30), <1>1, <2>2 DEF BiSourceEnds, BiDrained, BiHand
  <2>3. ASSUME BiStop, NEW b \in Bi PROVE OK(b)'
    <3>1. item'[b].res = "None" /\ ~Active(b)' /\ ~Reading(b)'
      BY <1>0, <2>3 DEF BiStop, NoItem, Item, Active, Reading
    <3> QED
      BY ZenonT(30), <3>1 DEF IsError, ReadErrors
  <2> QED
    BY ZenonT(30), <1>4, <2>1, <2>2, <2>3
       DEF BiStep, BiSourceFails, BiNotAlive, BiHand
<1>5. ASSUME NEW b \in Bi, HandlerStep(b) PROVE OK(b)'
  <2> USE DEF Goto, Drop, Hand, Sent, IsError, Active, Reading, ReadErrors
  <2>0. OK(b) /\ b \in Streams
    BY <1>0 DEF BiHand
  <2>1. CASE BiReadEnd(b)
    BY <1>0, <2>0, <2>1 DEF BiReadEnd, BiReads
  <2>2. CASE BiReadFrame(b)
    BY ZenonT(30), <1>0, <2>0, <2>2 DEF BiReadFrame, BiReads, Item
  <2>3. CASE BiReadFails(b)
    <3>1. /\ task[b] = "read" /\ task'[b] = "send"
          /\ item'[b].stream = b
          /\ half'[b] = half[b] \/ half'[b] = "eof"
      BY <1>0, <2>3 DEF BiReadFails, BiReads, Item
    <3> QED
      BY <2>0, <3>1
  <2>4. CASE BiReadResponse(b)
    BY <1>0, <2>0, <2>4 DEF BiReadResponse, BiReads
  <2>5. CASE BiReadReq(b)
    BY ZenonT(30), <1>0, <2>0, <2>5 DEF BiReadReq, BiReads, Item
  <2>6. CASE BiSendFails(b)
    BY ZenonT(30), <1>0, <2>0, <2>6 DEF BiSendFails, NoItem, Item
  <2>7. CASE BiSend(b)
    BY ZenonT(30), <1>0, <2>0, <2>7 DEF BiSend, NoItem, Item
  <2>8. CASE BiLock(b)
    BY ZenonT(30), <1>0, <2>0, <2>8 DEF BiLock
  <2>9. CASE BiReply(b)
    BY <1>0, <2>0, <2>9 DEF BiReply, NoItem, Item
  <2> QED
    BY ZenonT(30), <1>5, <2>1, <2>2, <2>3, <2>4, <2>5, <2>6, <2>7, <2>8, <2>9
       DEF HandlerStep, Handler
<1>6. ASSUME NEW b \in Bi, HandlerStep(b), NEW c \in Bi PROVE OK(c)'
  <2>1. CASE c = b
    BY ZenonT(30), <1>5, <1>6, <2>1
  <2>2. CASE c # b
    BY <1>1, <1>6, <2>2, HandlerFrame
  <2> QED
    BY <2>1, <2>2
<1> QED
  BY ZenonT(30), <1>2, <1>3, <1>4, <1>6 DEF Next, HandlerStep, BiHand

\* How the receiving half of a stream may change.
LEMMA HalfSteps ==
  ASSUME TypeOK, UniHand, BiHand, [Next]_vars, NEW s \in Streams
  PROVE  \/ half'[s] = half[s]
         \/ half[s] = "unopened" /\ half'[s] = "queued" /\ conn = "Alive"
         \/ half[s] = "queued" /\ half'[s] = "open"
         \/ Reading(s) /\ half'[s] \in {"eof", "dropped"}
<1> USE DEF quinnVars, uniVars, biVars, chanVars, appVars
<1>0. /\ half \in [Streams -> {"unopened", "queued", "open", "eof", "dropped"}]
      /\ uniCur \in Uni \cup {0} /\ 0 \notin Streams
      /\ Uni \subseteq Streams /\ Bi \subseteq Streams
      /\ uniCur # 0 => Reading(uniCur)
      /\ \A b \in Bi : Active(b) => Reading(b)
  BY ZenonT(30), StreamSets
     DEF TypeOK, ListenerTypeOK, QuinnTypeOK, UniHand, BiHand, Reading
<1> DEFINE Goal == \/ half'[s] = half[s]
                   \/ /\ half[s] = "unopened" /\ half'[s] = "queued"
                      /\ conn = "Alive"
                   \/ half[s] = "queued" /\ half'[s] = "open"
                   \/ Reading(s) /\ half'[s] \in {"eof", "dropped"}
<1>1. CASE Peer \/ ImplicitClose \/ App \/ UNCHANGED vars
  BY <1>1, OutsideFrame
<1>2. CASE UniStep \/ UniSend
  <2>1. ASSUME NEW t \in Uni, UniAccept(t) PROVE Goal
    BY ZenonT(30), <1>0, <2>1 DEF UniAccept, FirstQueued
  <2>2. CASE UniReadEnd \/ UniReadOther \/ UniReadFails
    BY <1>0, <2>2 DEF UniReadEnd, UniReadOther, UniReadFails, UniReads, Drop
  <2>3. CASE UniStop
    BY <1>0, <2>3 DEF UniStop
  <2>4. CASE UNCHANGED half
    BY ZenonT(30), <2>4
  <2> QED
    BY ZenonT(30), <1>2, <2>1, <2>2, <2>3, <2>4
       DEF UniStep, UniSourceEnds, UniSourceFails, UniReadMsg, UniSendFails,
           UniNotAlive, UniSend
<1>3. CASE BiStep
  <2>1. ASSUME NEW b \in Bi, BiAccept(b) PROVE Goal
    BY ZenonT(30), <1>0, <2>1 DEF BiAccept, FirstQueued
  <2>2. CASE BiStop
    BY <1>0, <2>2 DEF BiStop, Reading
  <2> QED
    BY <1>3, <2>1, <2>2
       DEF BiStep, BiSourceEnds, BiDrained, BiSourceFails, BiNotAlive
<1>4. ASSUME NEW b \in Bi, HandlerStep(b) PROVE Goal
  <2>1. \/ UNCHANGED half
        \/ /\ Active(b)
           /\ Drop(b) \/ half' = [half EXCEPT ![b] = "eof"]
    BY ZenonT(30), <1>4
       DEF HandlerStep, Handler, BiReadEnd, BiReadFrame, BiReadFails,
                BiReadResponse, BiReadReq, BiSendFails, BiSend, BiLock, BiReply,
                BiReads, Active
  <2> QED
    BY <1>0, <2>1 DEF Drop
<1> QED
  BY ZenonT(30), <1>1, <1>2, <1>3, <1>4 DEF Next, HandlerStep

\* Nothing arrives on a stream that is not open, or after the loss of the
\* connection.
LEMMA StreamKept ==
  ASSUME TypeOK, [Next]_vars, NEW s \in Streams,
         half[s] \notin {"queued", "open"} \/ conn # "Alive"
  PROVE  /\ inbox'[s] = inbox[s] /\ partial'[s] = partial[s]
         /\ ending'[s] = ending[s]
<1> USE DEF quinnVars, uniVars, biVars, chanVars, appVars
<1>0. /\ inbox \in [Streams -> Seq(FrameKinds)]
      /\ partial \in [Streams -> BOOLEAN]
      /\ ending \in [Streams -> {"open", "finished", "reset"}]
  BY DEF TypeOK, QuinnTypeOK
<1>1. ASSUME NEW t \in Streams, Arriving(t) PROVE t # s
  BY ZenonT(30), <1>1 DEF Arriving
<1>2. CASE Peer \/ ImplicitClose
  <2>1. ASSUME NEW t \in Streams, NEW k \in Kinds, PeerSend(t, k)
        PROVE  /\ inbox'[s] = inbox[s] /\ partial'[s] = partial[s]
               /\ ending'[s] = ending[s]
    BY ZenonT(30), <1>0, <1>1, <2>1 DEF PeerSend
  <2>2. ASSUME NEW t \in Streams,
               PeerSendPart(t) \/ PeerFinish(t) \/ PeerReset(t)
        PROVE  /\ inbox'[s] = inbox[s] /\ partial'[s] = partial[s]
               /\ ending'[s] = ending[s]
    BY <1>0, <1>1, <2>2 DEF PeerSendPart, PeerFinish, PeerReset
  <2>3. CASE UNCHANGED <<inbox, partial, ending>>
    BY <2>3
  <2> QED
    BY <1>2, <2>1, <2>2, <2>3 DEF Peer, ImplicitClose, PeerOpen, ConnLost
<1>3. CASE App \/ UNCHANGED vars
  BY ZenonT(30), <1>3
     DEF App, Recv, RecvNone, DropIncoming, DropConnection, AppLock,
              AppUnlock, DropStream, Close, ConnLost, vars
<1>4. CASE UniStep \/ UniSend
  BY <1>4, UniFrame
<1>5. CASE BiStep \/ \E b \in Bi : HandlerStep(b)
  BY ZenonT(30), <1>5, BiFrame
<1> QED
  BY ZenonT(30), <1>2, <1>3, <1>4, <1>5 DEF Next, HandlerStep

-----------------------------------------------------------------------------
(***************************************************************************)
(* Streams are opened and accepted in order, and nothing arrives on one    *)
(* before it is opened.                                                    *)
(***************************************************************************)
OpenInv ==
  /\ \A s \in Streams : half[s] = "unopened" => inbox[s] = <<>>
  /\ \A s, t \in Uni : s < t =>
       /\ half[s] = "unopened" => half[t] = "unopened"
       /\ half[s] = "queued" => half[t] \in {"unopened", "queued"}
  /\ biPc # "running" /\ rxOpen => \A b \in Bi : half[b] # "queued"

\* Every step keeps OpenInv.
LEMMA OpenInvNext ==
  ASSUME TypeOK, EndInv, UniHand, BiHand, OpenInv, [Next]_vars
  PROVE  OpenInv'
<1> USE DEF quinnVars, uniVars, biVars, chanVars, appVars
<1>0. /\ half \in [Streams -> {"unopened", "queued", "open", "eof", "dropped"}]
      /\ uniCur \in Uni \cup {0} /\ 0 \notin Streams
      /\ Uni \subseteq Streams /\ Bi \subseteq Streams
      /\ Uni \cap Bi = {} /\ Streams \subseteq Nat
  BY StreamSets DEF TypeOK, ListenerTypeOK, QuinnTypeOK
<1>1. ASSUME NEW s \in Streams, half'[s] = "unopened" PROVE inbox'[s] = <<>>
  <2>1. half[s] = "unopened"
    BY <1>1, HalfSteps
  <2> QED
    BY <2>1, StreamKept DEF OpenInv
<1>2. ASSUME NEW s \in Uni, NEW t \in Uni, s < t
      PROVE  /\ half'[s] = "unopened" => half'[t] = "unopened"
             /\ half'[s] = "queued" => half'[t] \in {"unopened", "queued"}
  <2>0. /\ half[s] = "unopened" => half[t] = "unopened"
        /\ half[s] = "queued" => half[t] \in {"unopened", "queued"}
        /\ s \in Nat /\ t \in Nat /\ s \in Streams /\ t \in Streams
    BY <1>0, <1>2 DEF OpenInv
  <2>1. ASSUME NEW u \in Streams, PeerOpen(u)
        PROVE  /\ half'[s] = "unopened" => half'[t] = "unopened"
               /\ half'[s] = "queued" => half'[t] \in {"unopened", "queued"}
    <3>1. \A v \in Streams :
            half'[v] = IF half[v] = "unopened" /\ v <= u
                            /\ (v \in Uni <=> u \in Uni)
                         THEN "queued" ELSE half[v]
      BY <2>1 DEF PeerOpen
    <3>2. u \in Nat /\ (t <= u => s <= u)
      BY <1>0, <1>2, <2>0
    <3> QED
      BY <1>2, <2>0, <3>1, <3>2
  <2>2. CASE UNCHANGED half
    BY <2>0, <2>2
  <2>3. CASE Peer \/ ImplicitClose \/ App \/ UNCHANGED vars
    BY ZenonT(30), <2>1, <2>2, <2>3
       DEF Peer, ImplicitClose, PeerSend, PeerSendPart, PeerFinish, PeerReset,
           ConnLost, App, Recv, RecvNone, DropIncoming, DropConnection,
           AppLock, AppUnlock, DropStream, Close, vars
  <2>4. ASSUME NEW u \in Uni, UniAccept(u)
        PROVE  /\ half'[s] = "unopened" => half'[t] = "unopened"
               /\ half'[s] = "queued" => half'[t] \in {"unopened", "queued"}
    <3>1. /\ half' = [half EXCEPT ![u] = "open"] /\ half[u] = "queued"
          /\ \A v \in Uni : v < u => half[v] # "queued"
      BY <2>4 DEF UniAccept, FirstQueued
    <3>2. half'[s] \in {"unopened", "queued"} => s # u /\ half'[s] = half[s]
      BY <1>0, <2>0, <3>1
    <3>3. half'[t] = IF t = u THEN "open" ELSE half[t]
      BY <1>0, <2>0, <3>1
    <3> QED
      BY <1>2, <2>0, <3>1, <3>2, <3>3
  <2>5. CASE UniStep \/ UniSend
    <3>1. CASE \E u \in Uni : UniAccept(u)
      BY <2>4, <3>1
    <3>2. CASE UniReadEnd \/ UniReadOther \/ UniReadFails
      <4>1. half' = [half EXCEPT ![uniCur] = "dropped"] /\ Reading(uniCur)
        BY <3>2 DEF UniReadEnd, UniReadOther, UniReadFails, UniReads, Drop,
                    UniHand, Reading
      <4>2. \A v \in Uni : \/ half'[v] = half[v]
                           \/ Reading(v) /\ half'[v] = "dropped"
        BY <1>0, <4>1
      <4> QED
        BY ZenonT(30), <2>0, <4>2 DEF Reading
    <3>3. CASE UniStop
      <4>1. \A v \in Uni : \/ half'[v] = half[v]
                           \/ Reading(v) /\ half'[v] = "dropped"
        BY <1>0, <3>3 DEF UniStop, UniHand, Reading
      <4> QED
        BY <2>0, <4>1 DEF Reading
    <3> QED
      BY ZenonT(30), <2>2, <2>5, <3>1, <3>2, <3>3
         DEF UniStep, UniSourceEnds, UniSourceFails, UniReadMsg, UniSendFails,
             UniNotAlive, UniSend
  <2>6. CASE BiStep \/ \E b \in Bi : HandlerStep(b)
    BY ZenonT(30), <2>0, <2>6, BiFrame
  <2> QED
    BY <2>3, <2>5, <2>6 DEF Next, HandlerStep
<1>3. ASSUME biPc' # "running", rxOpen', NEW b \in Bi PROVE half'[b] # "queued"
  <2>0. rxOpen /\ b \in Streams
    BY <1>0, <1>3, StepKeeps
  <2>1. CASE biPc # "running"
    <3>1. conn # "Alive"
      BY <2>0, <2>1 DEF EndInv, HandlesDropped, TypeOK, ListenerTypeOK
    <3>2. half[b] # "queued"
      BY <2>0, <2>1 DEF OpenInv
    <3> QED
      BY <2>0, <3>1, <3>2, HalfSteps
  <2>2. CASE biPc = "running"
    <3>1. BiSourceEnds \/ BiSourceFails \/ BiNotAlive
      <4>1. ~(Peer \/ ImplicitClose \/ App \/ UNCHANGED vars)
        BY <1>3, <2>2, OutsideFrame
      <4>2. ~(UniStep \/ UniSend)
        BY ZenonT(30), <1>3, <2>2, UniFrame
      <4>3. ASSUME NEW c \in Bi, HandlerStep(c) PROVE FALSE
        BY ZenonT(30), <1>3, <2>2, <4>3
           DEF HandlerStep, Handler, BiReadEnd, BiReadFrame, BiReadFails,
               BiReadResponse, BiReadReq, BiSendFails, BiSend, BiLock, BiReply
      <4>4. BiStep
        BY <4>1, <4>2, <4>3 DEF Next, HandlerStep
      <4> QED
        BY ZenonT(30), <1>3, <2>2, <4>4 DEF BiStep, BiAccept, BiDrained
    <3>2. half[b] # "queued"
      BY ZenonT(30), <2>0, <3>1
         DEF BiSourceEnds, BiSourceFails, BiNotAlive, SourceEnds, SourceFails,
             Exhausted, NotAlive
    <3>3. conn # "Alive"
      BY ZenonT(30), <2>0, <3>1
         DEF BiSourceEnds, BiSourceFails, BiNotAlive, SourceEnds, SourceFails,
             Exhausted, NotAlive
    <3> QED
      BY <2>0, <3>2, <3>3, HalfSteps
  <2> QED
    BY ZenonT(30), <2>1, <2>2
<1> QED
  BY <1>1, <1>2, <1>3 DEF OpenInv

-----------------------------------------------------------------------------
(***************************************************************************)
(* How a stream is given up, and what is known of it then.                 *)
(***************************************************************************)

\* The end of a stream is read only behind a whole frame; the loss of the
\* connection only where the peer has not ended the stream.
LEMMA ReadAtEnd ==
  ASSUME TypeOK, NEW s \in Streams
  PROVE  /\ read_from_stream(s) = "None" /\ half[s] # "eof" => ~partial[s]
         /\ read_from_stream(s) = "ConnectionLost" => ending[s] = "open"
<1> DEFINE r == read_from_stream(s)
<1>1. /\ inbox[s] \in Seq(FrameKinds) /\ pos[s] \in Nat /\ Len(inbox[s]) \in Nat
      /\ pos[s] <= Len(inbox[s]) /\ ending[s] \in {"open", "finished", "reset"}
  BY DEF TypeOK, QuinnTypeOK, ReadTypeOK
<1>2. CASE pos[s] < Len(inbox[s])
  <2>1. r \in FrameKinds
    BY <1>1, <1>2 DEF read_from_stream
  <2> QED
    BY <2>1 DEF FrameKinds
<1>3. CASE pos[s] = Len(inbox[s]) /\ half[s] = "eof"
  <2>1. r = "None"
    BY <1>1, <1>3 DEF read_from_stream
  <2> QED
    BY <1>3, <2>1
<1>4. CASE pos[s] = Len(inbox[s]) /\ half[s] # "eof"
  <2>1. r = IF ending[s] = "reset" THEN "StreamLost"
            ELSE IF ending[s] = "finished"
                   THEN IF partial[s] THEN "Serialization" ELSE "None"
            ELSE IF conn = "Alive" THEN "Pending" ELSE ReadAfterLoss(s)
    BY <1>1, <1>4 DEF read_from_stream
  <2> QED
    BY <1>1, <2>1 DEF ReadAfterLoss
<1> QED
  BY <1>1, <1>2, <1>3, <1>4

\* A task ends with streams unread when nobody receives; the bi listener does so
\* when the connection fails as well.
Abandoned(s) == ~rxOpen \/ (s \in Bi /\ Failed)

\* Any other stream is given up at its end, or with an error of its own in hand
\* or in the channel.
EndsReading(s) ==
  \/ read_from_stream(s) = "None" /\ UNCHANGED pos
  \/ s = uniCur /\ (UniReadOther \/ UniReadFails)
  \/ s \in Bi /\ BiReadFails(s)
  \/ s \in Bi /\ BiSend(s) /\ LostInHand(s)

\* There is no other way to give up a stream.
LEMMA ClosesStream ==
  ASSUME TypeOK, UniHand, BiHand, [Next]_vars, NEW s \in Streams,
         Reading(s), half'[s] # half[s]
  PROVE  /\ Abandoned(s) \/ EndsReading(s)
         /\ UNCHANGED <<conn, inbox, partial, ending, rxOpen>>
<1> USE DEF quinnVars, uniVars, biVars, chanVars, appVars
<1>0. /\ half \in [Streams -> {"unopened", "queued", "open", "eof", "dropped"}]
      /\ uniCur \in Uni \cup {0} /\ 0 \notin Streams
      /\ Uni \subseteq Streams /\ Bi \subseteq Streams
  BY StreamSets DEF TypeOK, ListenerTypeOK, QuinnTypeOK
<1>1. ~(Peer \/ ImplicitClose \/ App \/ UNCHANGED vars)
  BY ZenonT(30), OutsideFrame DEF Reading
<1>2. CASE UniStep \/ UniSend
  <2>1. ~\E t \in Uni : UniAccept(t)
    BY ZenonT(30), <1>0 DEF UniAccept, FirstQueued, Reading
  <2>2. CASE UniReadEnd
    BY <1>0, <2>2, UniFrame DEF UniReadEnd, UniReads, Drop, EndsReading, UniStep
  <2>3. CASE UniReadOther \/ UniReadFails
    BY ZenonT(30), <1>0, <2>3, UniFrame
       DEF UniReadOther, UniReadFails, Drop, EndsReading, UniStep
  <2>4. CASE UniSendFails \/ UniNotAlive
    BY ZenonT(30), <2>4, UniFrame
       DEF UniSendFails, UniNotAlive, ChanClosed, NotAlive, UniStep, Abandoned
  <2>5. ~UniSend
    <3> SUFFICES ASSUME UniSend, LostInHand(0), UniStop PROVE FALSE
      BY ZenonT(30) DEF UniSend, LostInHand
    <3> QED
      BY ZenonT(30), <1>0 DEF UniStop, UniHand
  <2> QED
    BY <1>2, <2>1, <2>2, <2>3, <2>4, <2>5
       DEF UniStep, UniSourceEnds, UniSourceFails, UniReadMsg
<1>3. CASE BiStep
  <2>1. ~\E b \in Bi : BiAccept(b)
    BY <1>0 DEF BiAccept, FirstQueued, Reading
  <2>2. BiSourceFails \/ BiNotAlive
    BY ZenonT(30), <1>3, <2>1 DEF BiStep, BiSourceEnds, BiDrained
  <2>3. s \in Bi
    BY <2>2 DEF BiSourceFails, BiNotAlive, BiStop
  <2> QED
    BY ZenonT(30), <1>3, <2>2, <2>3, BiFrame
       DEF BiSourceFails, BiNotAlive, SourceFails, Exhausted, NotAlive, Failed,
           Abandoned
<1>4. ASSUME NEW b \in Bi, HandlerStep(b)
      PROVE  /\ Abandoned(s) \/ EndsReading(s)
             /\ UNCHANGED <<conn, inbox, partial, ending, rxOpen>>
  <2>1. \/ BiReadEnd(b) \/ BiReadFails(b) \/ BiSendFails(b)
        \/ BiSend(b) /\ LostInHand(b)
    BY ZenonT(30), <1>4
       DEF HandlerStep, Handler, BiReadFrame, BiReadResponse, BiReadReq,
                BiSend, BiLock, BiReply, LostInHand
  <2>2. b = s
    BY <1>0, <2>1 DEF BiReadEnd, BiReadFails, BiSendFails, BiSend, Drop
  <2>3. ~rxOpen \/ EndsReading(s)
    BY ZenonT(30), <2>1, <2>2
       DEF BiReadEnd, BiReads, BiSendFails, ChanClosed, EndsReading
  <2> QED
    BY ZenonT(30), <1>4, <2>3, BiFrame DEF Abandoned
<1> QED
  BY <1>1, <1>2, <1>3, <1>4 DEF Next, HandlerStep

\* Frames are read from open streams only.
LEMMA PosKept ==
  ASSUME TypeOK, UniHand, BiHand, [Next]_vars, NEW s \in Streams, ~Reading(s)
  PROVE  pos'[s] = pos[s]
<1> USE DEF quinnVars, uniVars, biVars, chanVars, appVars
<1>0. /\ pos \in [Streams -> Nat]
      /\ uniCur \in Uni \cup {0} /\ 0 \notin Streams
      /\ Uni \subseteq Streams /\ Bi \subseteq Streams
  BY ZenonT(30), StreamSets DEF TypeOK, ListenerTypeOK, ReadTypeOK
<1>1. CASE Peer \/ ImplicitClose \/ App \/ UNCHANGED vars
  BY <1>1, OutsideFrame
<1>2. CASE UniStep \/ UniSend
  <2>1. UNCHANGED pos \/ (Advance(uniCur) /\ uniCur # 0)
    BY ZenonT(30), <1>2
       DEF UniStep, UniAccept, UniSourceEnds, UniSourceFails, UniReadMsg,
           UniReadEnd, UniReadOther, UniReadFails, UniSendFails, UniNotAlive,
           UniSend, UniReads
  <2> QED
    BY <1>0, <2>1 DEF Advance, UniHand, Reading
<1>3. CASE BiStep
  BY ZenonT(30), <1>3
     DEF BiStep, BiAccept, BiSourceEnds, BiDrained, BiSourceFails, BiNotAlive,
         BiStop
<1>4. ASSUME NEW b \in Bi, HandlerStep(b) PROVE pos'[s] = pos[s]
  <2>1. UNCHANGED pos \/ (Advance(b) /\ Active(b))
    BY ZenonT(30), <1>4
       DEF HandlerStep, Handler, BiReadEnd, BiReadFrame, BiReadFails,
                BiReadResponse, BiReadReq, BiSendFails, BiSend, BiLock, BiReply,
                BiReads, Active
  <2> QED
    BY <1>0, <2>1 DEF Advance, BiHand
<1> QED
  BY ZenonT(30), <1>1, <1>2, <1>3, <1>4 DEF Next, HandlerStep

\* An error in hand stays there until it is sent, unless nobody receives or the
\* connection failed.
LEMMA ErrorKept ==
  ASSUME TypeOK, UniHand, BiHand, [Next]_vars,
         NEW t \in Bi \cup {0}, IsError(item[t])
  PROVE  item'[t] = item[t] \/ Sent(t) \/ ~rxOpen \/ Failed
<1> USE DEF quinnVars, uniVars, biVars, chanVars, appVars
<1>1. CASE Peer \/ ImplicitClose \/ App \/ UNCHANGED vars
  BY ZenonT(30), <1>1, OutsideFrame
<1>2. CASE UniStep \/ UniSend
  <2>1. CASE t = 0
    <3>1. uniPc = "send"
      BY <2>1 DEF UniHand
    <3>2. UniSendFails \/ UniSend
      BY ZenonT(30), <1>2, <3>1
         DEF UniStep, UniAccept, UniSourceEnds, UniSourceFails, UniReadMsg,
             UniReadEnd, UniReadOther, UniReadFails, UniNotAlive, UniReads
    <3> QED
      BY <2>1, <3>2 DEF UniSendFails, ChanClosed, UniSend
  <2>2. CASE t \in Bi
    BY ZenonT(30), <1>2, <2>2, UniFrame
  <2> QED
    BY ZenonT(30), <2>1, <2>2
<1>3. CASE BiStep
  <2>1. CASE UNCHANGED item
    BY <2>1
  <2>2. CASE BiSourceFails \/ BiNotAlive
    BY ZenonT(30), <2>2
       DEF BiSourceFails, BiNotAlive, SourceFails, Exhausted, NotAlive,
                Failed
  <2> QED
    BY <1>3, <2>1, <2>2 DEF BiStep, BiAccept, BiSourceEnds, BiDrained
<1>4. ASSUME NEW b \in Bi, HandlerStep(b)
      PROVE  item'[t] = item[t] \/ Sent(t) \/ ~rxOpen \/ Failed
  <2>1. CASE t = b
    <3>1. task[b] = "send"
      BY <2>1 DEF BiHand
    <3>2. BiSendFails(b) \/ BiSend(b)
      BY ZenonT(30), <1>4, <3>1
         DEF HandlerStep, Handler, BiReadEnd, BiReadFrame, BiReadFails,
             BiReadResponse, BiReadReq, BiLock, BiReply, BiReads
    <3> QED
      BY ZenonT(30), <2>1, <3>2 DEF BiSendFails, ChanClosed, BiSend
  <2>2. CASE t # b /\ t \in Bi
    BY ZenonT(30), <1>4, <2>2, HandlerFrame
  <2>3. CASE t = 0
    BY ZenonT(30), <1>4, <2>3, BiFrame DEF Abandoned
  <2> QED
    BY ZenonT(30), <2>1, <2>2, <2>3
<1> QED
  BY ZenonT(30), <1>1, <1>2, <1>3, <1>4 DEF Next, HandlerStep

\* An error of stream s is in the channel or on its way to it, or it need not
\* be: nobody receives, or the connection failed.
Told(s) ==
  \/ \E i \in 1 .. Len(log) : ErrorOf(log[i], s)
  \/ \E t \in Bi \cup {0} : ErrorOf(item[t], s)
  \/ ~rxOpen \/ Failed

\* A message that was cut in two on a stream that is read no more is told of.
CutInv ==
  \A s \in Streams : partial[s] /\ half[s] \in {"eof", "dropped"} => Told(s)

\* What was told of stays so.
LEMMA ToldKept ==
  ASSUME TypeOK, UniHand, BiHand, [Next]_vars, NEW s \in Streams, Told(s)
  PROVE  Told(s)'
<1>1. /\ Len(log) \in Nat /\ Len(log') \in Nat /\ Len(log) <= Len(log')
      /\ \A i \in 1 .. Len(log) : log'[i] = log[i]
  BY ZenonT(30), LogKept
<1>2. (~rxOpen => ~rxOpen') /\ (Failed => Failed')
  BY ZenonT(30), StepKeeps DEF Failed
<1>3. ASSUME NEW i \in 1 .. Len(log), ErrorOf(log[i], s) PROVE Told(s)'
  <2>1. i \in 1 .. Len(log') /\ log'[i] = log[i]
    BY <1>1
  <2> QED
    BY ZenonT(30), <1>3, <2>1 DEF Told, ErrorOf, IsError
<1>4. ASSUME NEW t \in Bi \cup {0}, ErrorOf(item[t], s) PROVE Told(s)'
  <2>1. CASE item'[t] = item[t]
    BY ZenonT(30), <1>4, <2>1 DEF Told, ErrorOf, IsError
  <2>2. CASE Sent(t)
    <3>1. /\ Len(log') = Len(log) + 1 /\ log'[Len(log) + 1] = item[t]
      BY <2>2, SentTypeOK
    <3>2. Len(log) + 1 \in 1 .. Len(log')
      BY <1>1, <3>1
    <3> QED
      BY ZenonT(30), <1>4, <3>1, <3>2 DEF Told, ErrorOf, IsError
  <2>3. CASE ~rxOpen \/ Failed
    BY <1>2, <2>3 DEF Told
  <2> QED
    BY ZenonT(30), <1>4, <2>1, <2>2, <2>3, ErrorKept DEF ErrorOf
<1>5. CASE ~rxOpen \/ Failed
  BY <1>2, <1>5 DEF Told
<1> QED
  BY ZenonT(30), <1>3, <1>4, <1>5 DEF Told

\* Every step keeps CutInv.
LEMMA CutInvNext ==
  ASSUME TypeOK, UniHand, BiHand, CutInv, [Next]_vars
  PROVE  CutInv'
<1> SUFFICES ASSUME NEW s \in Streams, partial'[s],
                    half'[s] \in {"eof", "dropped"}
             PROVE  Told(s)'
  BY DEF CutInv
<1> USE DEF quinnVars, uniVars, biVars, chanVars, appVars
<1>1. CASE half[s] \in {"eof", "dropped"}
  <2>1. partial[s]
    BY ZenonT(30), <1>1, StreamKept
  <2> QED
    BY <1>1, <2>1, ToldKept DEF CutInv
<1>2. CASE half[s] \notin {"eof", "dropped"}
  <2>0. /\ Reading(s) /\ half[s] = "open" /\ half'[s] # half[s]
    BY ZenonT(30), <1>2, HalfSteps DEF Reading
  <2>1. /\ ~rxOpen \/ Failed \/ EndsReading(s)
        /\ UNCHANGED <<conn, inbox, partial, ending, rxOpen>>
    BY ZenonT(30), <2>0, ClosesStream DEF Abandoned
  <2>2. /\ item \in [Bi \cup {0} -> Items] /\ Len(log) \in Nat
    BY DEF TypeOK, ListenerTypeOK, ChanTypeOK
  <2>3. CASE ~rxOpen \/ Failed
    BY ZenonT(30), <2>1, <2>3 DEF Told, Failed
  <2>4. read_from_stream(s) # "None"
    BY <2>0, <2>1, ReadAtEnd
  <2>5. CASE s = uniCur /\ (UniReadOther \/ UniReadFails)
    <3>1. PICK r \in ReadErrors : Hand(0, r, s)
      BY ZenonT(30), <2>5
         DEF UniReadOther, UniReadFails, UniReads, ReadErrors
    <3>2. item'[0] = Item(r, s, pos[s] + 1)
      BY ZenonT(30), <2>2, <3>1 DEF Hand
    <3>3. ErrorOf(item'[0], s)
      BY <3>2 DEF Item, ErrorOf, IsError
    <3> QED
      BY ZenonT(30), <3>3 DEF Told, ErrorOf, IsError
  <2>6. CASE s \in Bi /\ BiReadFails(s)
    <3>1. ErrorOf(item'[s], s)
      BY ZenonT(30), <2>2, <2>6
         DEF BiReadFails, BiReads, Hand, Item, ErrorOf, IsError
    <3> QED
      BY ZenonT(30), <2>6, <3>1 DEF Told, ErrorOf, IsError
  <2>7. CASE s \in Bi /\ BiSend(s) /\ LostInHand(s)
    <3>1. ErrorOf(item[s], s)
      BY ZenonT(30), <2>7 DEF LostInHand, BiHand, ErrorOf, IsError, ReadErrors
    <3>2. Told(s)
      BY <2>7, <3>1 DEF Told
    <3> QED
      BY ZenonT(30), <3>2, ToldKept
  <2> QED
    BY <2>1, <2>3, <2>4, <2>5, <2>6, <2>7 DEF EndsReading
<1> QED
  BY <1>1, <1>2

\* Once next has returned None nothing changes any more for the application.
LEMMA EosSettled ==
  ASSUME TypeOK, EndInv, eos, [Next]_vars
  PROVE  UNCHANGED <<conn, half, inbox, partial, ending, log, taken, eos>>
<1> USE DEF quinnVars, uniVars, biVars, chanVars, appVars
<1>0. /\ conn # "Alive" /\ uniPc = "done" /\ biPc = "done" /\ taken = Len(log)
      /\ \A b \in Bi : task[b] \in {"idle", "end"}
  BY ZenonT(30) DEF EndInv
<1>1. ~Peer /\ ~ImplicitClose /\ ~Close
  BY <1>0 DEF Peer, ImplicitClose, PeerOpen, PeerSend, PeerSendPart, PeerFinish,
              PeerReset, Arriving, ConnLost, Close
<1>2. ~UniStep /\ ~UniSend
  BY ZenonT(30), <1>0
     DEF UniStep, UniAccept, UniSourceEnds, UniSourceFails, UniReadMsg,
              UniReadEnd, UniReadOther, UniReadFails, UniSendFails, UniNotAlive,
              UniSend, UniReads
<1>3. ~BiStep
  BY <1>0 DEF BiStep, BiAccept, BiSourceEnds, BiDrained, BiSourceFails,
              BiNotAlive
<1>4. ~\E b \in Bi : HandlerStep(b)
  BY ZenonT(30), <1>0
     DEF HandlerStep, Handler, BiReadEnd, BiReadFrame, BiReadFails,
              BiReadResponse, BiReadReq, BiSendFails, BiSend, BiLock, BiReply,
              BiReads
<1>5. ASSUME NEW keep \in BOOLEAN PROVE ~Recv(keep)
  <2>1. Len(log) \in Nat
    BY DEF TypeOK, ChanTypeOK
  <2>2. ~(taken < Len(log))
    BY <1>0, <2>1
  <2> QED
    BY ZenonT(30), <2>2 DEF Recv
<1>6. CASE App
  BY ZenonT(30), <1>1, <1>5, <1>6
     DEF App, RecvNone, DropIncoming, DropConnection, AppLock, AppUnlock,
         DropStream
<1>7. CASE UNCHANGED vars
  BY <1>7 DEF vars
<1> QED
  BY ZenonT(30), <1>1, <1>2, <1>3, <1>4, <1>6, <1>7 DEF Next, HandlerStep

\* Only RecvNone makes next return None.
LEMMA EosBegins ==
  ASSUME ~eos, eos', [Next]_vars
  PROVE  RecvNone
<1> USE DEF quinnVars, uniVars, biVars, chanVars, appVars, ListenersUnchanged
<1>1. CASE Peer \/ ImplicitClose
  BY ZenonT(30), <1>1
     DEF Peer, ImplicitClose, PeerOpen, PeerSend, PeerSendPart, PeerFinish,
              PeerReset, ConnLost
<1>2. CASE UniStep \/ UniSend
  BY ZenonT(30), <1>2
     DEF UniStep, UniAccept, UniSourceEnds, UniSourceFails, UniReadMsg,
              UniReadEnd, UniReadOther, UniReadFails, UniSendFails, UniNotAlive,
              UniSend, Sent
<1>3. CASE BiStep
  BY ZenonT(30), <1>3
     DEF BiStep, BiAccept, BiSourceEnds, BiDrained, BiSourceFails,
              BiNotAlive, BiStop
<1>4. CASE \E b \in Bi : HandlerStep(b)
  BY ZenonT(30), <1>4
     DEF HandlerStep, Handler, BiReadEnd, BiReadFrame, BiReadFails,
              BiReadResponse, BiReadReq, BiSendFails, BiSend, BiLock, BiReply,
              Sent
<1>5. CASE App
  BY ZenonT(30), <1>5
     DEF App, Recv, DropIncoming, DropConnection, Close, ConnLost, AppLock,
              AppUnlock, DropStream
<1>6. CASE UNCHANGED vars
  BY <1>6 DEF vars
<1> QED
  BY <1>1, <1>2, <1>3, <1>4, <1>5, <1>6 DEF Next, HandlerStep

\* The invariants on the hands of the tasks hold in every state.
LEMMA HandCorrect == Spec => [](TypeOK /\ EndInv /\ UniHand /\ BiHand)
<1>1. Init => UniHand /\ BiHand
  BY StreamSets
     DEF Init, UniHand, BiHand, IsError, ReadErrors, LostInHand, Reading, Active,
         NoItem, Item
<1> QED
  BY <1>1, TypeCorrect, EndInvInit, EndInvNext, UniHandNext, BiHandNext, PTL
     DEF Spec

\* Of a message that was cut in two on a stream that was read, the application
\* has received an error when its messages end: that of the stream, or that of
\* the failed connection.
THEOREM CutMessageReportedHolds == Spec => []CutMessageReported
<1>1. Init => CutInv /\ CutMessageReported
  BY DEF Init, CutInv, CutMessageReported
<1>2. ASSUME TypeOK, EndInv, UniHand, BiHand, CutInv, CutMessageReported,
             [Next]_vars
      PROVE  CutInv' /\ CutMessageReported'
  <2>1. CutInv'
    BY <1>2, CutInvNext
  <2>2. CASE eos
    BY ZenonT(30), <1>2, <2>1, <2>2, EosSettled DEF CutMessageReported
  <2>3. CASE ~eos /\ eos'
    <3>1. RecvNone
      BY <1>2, <2>3, EosBegins
    <3>2. /\ UNCHANGED <<conn, half, partial, log, taken, item>>
          /\ rxOpen /\ taken = Len(log) /\ uniPc = "done" /\ biPc = "done"
      BY ZenonT(30), <3>1 DEF RecvNone, quinnVars
    <3>3. \A t \in Bi \cup {0} : ~IsError(item[t])
      BY ZenonT(30), <1>2, <3>2 DEF UniHand, BiHand, EndInv
    <3>4. ASSUME NEW s \in Streams, partial[s], half[s] = "dropped"
          PROVE  \E i \in 1 .. Len(log) :
                   \/ log[i].res # "UserMsg" /\ log[i].stream = s
                   \/ log[i].res = "ConnectionLost" /\ ~Benign(conn)
      <4>1. Told(s)
        BY ZenonT(30), <1>2, <3>4 DEF CutInv
      <4>2. CASE Failed
        BY <1>2, <3>2, <4>2 DEF EndInv, LossLogged, Failed
      <4>3. CASE \E i \in 1 .. Len(log) : ErrorOf(log[i], s)
        BY <4>3 DEF ErrorOf, IsError, ReadErrors
      <4> QED
        BY <3>2, <3>3, <4>1, <4>2, <4>3 DEF Told, ErrorOf
    <3> QED
      BY <2>1, <3>2, <3>4 DEF CutMessageReported
  <2>4. CASE ~eos'
    BY <2>1, <2>4 DEF CutMessageReported
  <2> QED
    BY <2>1, <2>2, <2>3, <2>4
<1> QED
  BY <1>1, <1>2, HandCorrect, PTL DEF Spec

-----------------------------------------------------------------------------
(***************************************************************************)
(* What is left unread when the listeners end.                             *)
(***************************************************************************)

\* A stream was read to its end, or up to the frame it was given up for.
AllRead(s) ==
  \/ pos[s] = Len(inbox[s])
  \/ s \in Uni /\ pos[s] >= 1 /\ inbox[s][pos[s]] # "UserMsg"

\* A stream that was given up because the loss of the connection cut its last
\* message in two.
CutAt(t) ==
  t \in Uni /\ half[t] = "dropped" /\ partial[t] /\ ending[t] = "open"

\* A handler is told of the loss of the connection behind the last frame.
LossAtEnd ==
  \A b \in Bi : LostInHand(b) => conn # "Alive" /\ pos[b] = Len(inbox[b])

\* No stream is given up before it is read, unless it is abandoned.
DroppedRead ==
  \A s \in Streams : half[s] = "dropped" => AllRead(s) \/ Abandoned(s)

\* The uni listener is told of the loss by a failure or by a cut message.
CutOrFailed == LostInHand(0) => Failed \/ CutAt(item[0].stream)

\* Streams the uni listener never took are behind a cut message.
BehindCut ==
  uniPc = "done" /\ rxOpen =>
    \A s \in Uni : half[s] = "queued" => Failed \/ ~Clean(s)

LeftInv == LossAtEnd /\ DroppedRead /\ CutOrFailed /\ BehindCut

\* Every step keeps LossAtEnd.
LEMMA LossAtEndNext ==
  ASSUME TypeOK, BiHand, LossAtEnd, [Next]_vars
  PROVE  LossAtEnd'
<1> USE DEF quinnVars, uniVars, biVars, chanVars, appVars
<1>0. /\ item \in [Bi \cup {0} -> Items] /\ Bi \subseteq Streams
      /\ \A b \in Bi : b # 0
  BY StreamSets DEF TypeOK, ListenerTypeOK
<1> SUFFICES ASSUME NEW b \in Bi, LostInHand(b)'
             PROVE  conn' # "Alive" /\ pos'[b] = Len(inbox'[b])
  BY DEF LossAtEnd
<1>1. ASSUME item'[b] = item[b], pos'[b] = pos[b]
      PROVE  conn' # "Alive" /\ pos'[b] = Len(inbox'[b])
  <2>1. conn # "Alive" /\ pos[b] = Len(inbox[b])
    BY ZenonT(30), <1>1 DEF LossAtEnd, LostInHand
  <2>2. conn' = conn /\ inbox'[b] = inbox[b]
    BY ZenonT(30), <1>0, <2>1, StepKeeps, StreamKept
  <2> QED
    BY <1>1, <2>1, <2>2
<1>2. CASE Peer \/ ImplicitClose \/ App \/ UNCHANGED vars
  BY ZenonT(30), <1>1, <1>2, OutsideFrame
<1>3. CASE UniStep \/ UniSend
  BY <1>1, <1>3, UniFrame
<1>4. CASE BiStep
  <2>1. CASE BiStop
    BY <1>0, <2>1 DEF BiStop, LostInHand, NoItem, Item
  <2> QED
    BY ZenonT(30), <1>1, <1>4, <2>1
       DEF BiStep, BiAccept, BiSourceEnds, BiDrained, BiSourceFails, BiNotAlive
<1>5. ASSUME NEW c \in Bi, HandlerStep(c), c # b
      PROVE  conn' # "Alive" /\ pos'[b] = Len(inbox'[b])
  BY ZenonT(30), <1>1, <1>5, HandlerFrame
<1>6. CASE HandlerStep(b)
  <2>1. CASE UNCHANGED <<item, pos>>
    BY <1>1, <2>1
  <2>2. CASE BiReadFails(b)
    <3>1. /\ item'[b].res = read_from_stream(b) /\ UNCHANGED <<conn, pos, inbox>>
      BY <1>0, <2>2 DEF BiReadFails, Hand, Item
    <3>2. read_from_stream(b) = "ConnectionLost"
      BY ZenonT(30), <3>1 DEF LostInHand
    <3> QED
      BY ZenonT(30), <1>0, <3>1, <3>2, ReadResult DEF FrameKinds
  <2>3. ~BiReadFrame(b) /\ ~BiReadReq(b)
    BY <1>0 DEF BiReadFrame, BiReadReq, BiReads, Hand, Item, LostInHand
  <2>4. ~BiReadResponse(b)
    BY ZenonT(30)
       DEF BiReadResponse, BiReads, BiHand, LostInHand, IsError, ReadErrors
  <2>5. ~BiSend(b) /\ ~BiSendFails(b) /\ ~BiReply(b)
    BY <1>0 DEF BiSend, BiSendFails, BiReply, Sent, NoItem, Item, LostInHand
  <2> QED
    BY ZenonT(30), <1>6, <2>1, <2>2, <2>3, <2>4, <2>5
       DEF HandlerStep, Handler, BiReadEnd, BiLock
<1> QED
  BY <1>2, <1>3, <1>4, <1>5, <1>6 DEF Next, HandlerStep

\* Every step keeps DroppedRead.
LEMMA DroppedReadNext ==
  ASSUME TypeOK, UniHand, BiHand, LossAtEnd, DroppedRead, [Next]_vars
  PROVE  DroppedRead'
<1> USE DEF quinnVars, uniVars, biVars, chanVars, appVars
<1> SUFFICES ASSUME NEW s \in Streams, half'[s] = "dropped"
             PROVE  AllRead(s)' \/ Abandoned(s)'
  BY DEF DroppedRead
<1>0. /\ Abandoned(s) => Abandoned(s)'
      /\ pos \in [Streams -> Nat]
  BY ZenonT(30), StepKeeps DEF Abandoned, Failed, TypeOK, ReadTypeOK
<1>1. CASE half[s] = "dropped"
  <2>1. pos'[s] = pos[s] /\ inbox'[s] = inbox[s]
    BY ZenonT(30), <1>1, PosKept, StreamKept DEF Reading
  <2> QED
    BY <1>0, <1>1, <2>1 DEF DroppedRead, AllRead
<1>2. CASE half[s] # "dropped"
  <2>0. /\ Reading(s) /\ half'[s] # half[s]
    BY ZenonT(30), <1>2, HalfSteps
  <2>1. /\ Abandoned(s) \/ EndsReading(s)
        /\ UNCHANGED inbox
    BY <2>0, ClosesStream
  <2>2. CASE read_from_stream(s) = "None" /\ UNCHANGED pos
    BY ZenonT(30), <2>1, <2>2, ReadResult DEF AllRead, FrameKinds
  <2>3. CASE s = uniCur /\ UniReadFails
    <3>1. read_from_stream(s) \in ReadErrors /\ UNCHANGED pos
      BY ZenonT(30), <2>3 DEF UniReadFails, UniReads
    <3> QED
      BY ZenonT(30), <2>1, <3>1, ReadResult DEF AllRead, FrameKinds, ReadErrors
  <2>4. CASE s = uniCur /\ UniReadOther
    <3>1. /\ read_from_stream(s) \in FrameKinds \ {"UserMsg"} /\ Advance(s)
          /\ s \in Uni
      BY <2>4 DEF UniReadOther, UniReads, TypeOK, ListenerTypeOK
    <3>2. inbox[s][pos[s] + 1] # "UserMsg"
      BY ZenonT(30), <3>1, ReadResult
    <3>3. pos'[s] = pos[s] + 1 /\ pos[s] + 1 >= 1
      BY <1>0, <3>1 DEF Advance
    <3> QED
      BY ZenonT(30), <2>1, <3>1, <3>2, <3>3 DEF AllRead
  <2>5. ~(s \in Bi /\ BiReadFails(s))
    BY ZenonT(30), <1>2 DEF BiReadFails, TypeOK, QuinnTypeOK
  <2>6. CASE s \in Bi /\ BiSend(s) /\ LostInHand(s)
    <3>1. pos[s] = Len(inbox[s]) /\ UNCHANGED pos
      BY ZenonT(30), <2>6 DEF LossAtEnd, BiSend
    <3> QED
      BY ZenonT(30), <2>1, <3>1 DEF AllRead
  <2> QED
    BY ZenonT(30), <1>0, <2>1, <2>2, <2>3, <2>4, <2>5, <2>6 DEF EndsReading
<1> QED
  BY ZenonT(30), <1>1, <1>2

\* Every step keeps CutOrFailed.
LEMMA CutOrFailedNext ==
  ASSUME TypeOK, EndInv, UniHand, BiHand, CutOrFailed, [Next]_vars
  PROVE  CutOrFailed'
<1> USE DEF quinnVars, uniVars, biVars, chanVars, appVars
<1>0. /\ item \in [Bi \cup {0} -> Items] /\ Uni \subseteq Streams
      /\ half \in [Streams -> {"unopened", "queued", "open", "eof", "dropped"}]
      /\ uniCur \in Uni \cup {0} /\ partial \in [Streams -> BOOLEAN]
  BY StreamSets DEF TypeOK, ListenerTypeOK, QuinnTypeOK
<1> SUFFICES ASSUME LostInHand(0)' PROVE (Failed \/ CutAt(item[0].stream))'
  BY ZenonT(30) DEF CutOrFailed
<1>1. ASSUME item'[0] = item[0] PROVE (Failed \/ CutAt(item[0].stream))'
  <2>1. LostInHand(0)
    BY ZenonT(30), <1>1 DEF LostInHand
  <2>2. Failed => Failed'
    BY ZenonT(30), StepKeeps DEF Failed
  <2>3. ASSUME NEW t \in Uni, CutAt(t) PROVE CutAt(t)'
    <3>1. t \in Uni /\ t \in Streams /\ half[t] = "dropped"
      BY ZenonT(30), <1>0, <2>3 DEF CutAt
    <3>2. half'[t] = "dropped"
      BY ZenonT(30), <3>1, HalfSteps DEF Reading
    <3>3. partial'[t] = partial[t] /\ ending'[t] = ending[t]
      BY ZenonT(30), <3>1, StreamKept
    <3> QED
      BY <2>3, <3>1, <3>2, <3>3 DEF CutAt
  <2> QED
    BY <1>1, <2>1, <2>2, <2>3 DEF CutOrFailed, CutAt
<1>2. CASE Peer \/ ImplicitClose \/ App \/ UNCHANGED vars
  BY <1>1, <1>2, OutsideFrame
<1>3. CASE BiStep \/ \E b \in Bi : HandlerStep(b)
  BY ZenonT(30), <1>1, <1>3, BiFrame
<1>4. CASE UniStep \/ UniSend
  <2>1. CASE UNCHANGED item
    BY <1>1, <2>1
  <2>2. CASE UniSourceFails
    BY ZenonT(30), <2>2 DEF UniSourceFails, SourceFails, Exhausted, Failed
  <2>3. ~UniReadMsg /\ ~UniReadOther
    BY <1>0 DEF UniReadMsg, UniReadOther, Hand, Item, LostInHand
  <2>4. ~UniSend /\ ~UniSendFails
    BY <1>0 DEF UniSend, UniSendFails, Sent, NoItem, Item, LostInHand
  <2>5. CASE UniReadFails
    <3>1. /\ item'[0].res = read_from_stream(uniCur) /\ item'[0].stream = uniCur
          /\ UNCHANGED <<conn, partial, ending>> /\ uniCur \in Uni
          /\ half' = [half EXCEPT ![uniCur] = "dropped"]
      BY <1>0, <2>5 DEF UniReadFails, UniReads, Hand, Item, Drop
    <3>2. read_from_stream(uniCur) = "ConnectionLost" /\ uniCur \in Streams
      BY ZenonT(30), <1>0, <3>1 DEF LostInHand
    <3>3. /\ conn # "Alive" /\ (~Benign(conn) \/ partial[uniCur])
          /\ ending[uniCur] = "open"
      BY ZenonT(30), <3>2, ReadResult, ReadAtEnd
    <3>4. half'[uniCur] = "dropped"
      BY <1>0, <3>1, <3>2
    <3> QED
      BY ZenonT(30), <3>1, <3>3, <3>4 DEF Failed, CutAt
  <2> QED
    BY <1>4, <2>1, <2>2, <2>3, <2>4, <2>5
       DEF UniStep, UniAccept, UniSourceEnds, UniReadEnd, UniNotAlive
<1> QED
  BY ZenonT(30), <1>2, <1>3, <1>4 DEF Next, HandlerStep

\* Every step keeps BehindCut.
LEMMA BehindCutNext ==
  ASSUME TypeOK, EndInv, UniHand, BiHand, OpenInv, CutOrFailed, BehindCut,
         [Next]_vars
  PROVE  BehindCut'
<1> USE DEF quinnVars, uniVars, biVars, chanVars, appVars
<1>0. /\ Uni \subseteq Streams /\ Uni \subseteq Nat /\ 0 \notin Uni
      /\ half \in [Streams -> {"unopened", "queued", "open", "eof", "dropped"}]
  BY ZenonT(30), StreamSets DEF TypeOK, QuinnTypeOK
<1> SUFFICES ASSUME uniPc' = "done", rxOpen', NEW s \in Uni, half'[s] = "queued"
             PROVE  Failed' \/ ~Clean(s)'
  BY ZenonT(30) DEF BehindCut
<1>1. CASE uniPc = "done"
  <2>1. rxOpen /\ conn # "Alive" /\ s \in Streams
    BY ZenonT(30), <1>0, <1>1, StepKeeps DEF EndInv
  <2>2. half[s] = "queued"
    BY ZenonT(30), <2>1, HalfSteps
  <2>3. /\ conn' = conn
        /\ \A t \in Uni : partial'[t] = partial[t] /\ ending'[t] = ending[t]
    BY <1>0, <2>1, StepKeeps, StreamKept
  <2> QED
    BY ZenonT(30), <1>1, <2>1, <2>2, <2>3 DEF BehindCut, Failed, Clean
<1>2. CASE uniPc # "done"
  <2>1. UniSourceEnds \/ UniSendFails \/ UniNotAlive \/ (UniSend /\ LostInHand(0))
    <3>1. ~(Peer \/ ImplicitClose \/ App \/ UNCHANGED vars)
      BY <1>2, OutsideFrame
    <3>2. ~(BiStep \/ \E b \in Bi : HandlerStep(b))
      BY ZenonT(30), <1>2, BiFrame
    <3> QED
      BY ZenonT(30), <1>2, <3>1, <3>2
         DEF Next, HandlerStep, UniStep, UniAccept, UniSourceFails, UniReadMsg,
             UniReadEnd, UniReadOther, UniReadFails, UniSend, LostInHand
  <2>2. ~UniSendFails /\ ~UniNotAlive
    BY ZenonT(30) DEF UniSendFails, UniNotAlive, ChanClosed, NotAlive
  <2>3. ~UniSourceEnds
    BY ZenonT(30) DEF UniSourceEnds, SourceEnds, Exhausted
  <2>4. UniSend /\ LostInHand(0)
    BY ZenonT(30), <2>1, <2>2, <2>3
  <2>5. /\ UNCHANGED <<conn, partial, ending>> /\ half[s] = "queued"
    BY <1>0, <2>4 DEF UniSend, UniStop, LostInHand
  <2>6. ASSUME NEW t \in Uni, CutAt(t) PROVE ~Clean(s)
    <3>1. half[t] = "dropped" /\ partial[t] /\ ending[t] = "open"
      BY ZenonT(30), <2>6 DEF CutAt
    <3>2. ~(s < t) /\ s # t
      BY <2>5, <3>1 DEF OpenInv
    <3>3. s \in Nat /\ t \in Nat
      BY ZenonT(30), <1>0
    <3>4. t < s
      BY <3>2, <3>3
    <3> QED
      BY ZenonT(30), <3>1, <3>4 DEF Clean
  <2>7. Failed \/ ~Clean(s)
    BY <2>4, <2>6 DEF CutOrFailed, CutAt
  <2> QED
    BY <2>5, <2>7 DEF Failed, Clean
<1> QED
  BY <1>1, <1>2

\* The invariants on what is read and left unread hold in every state.
LEMMA LeftCorrect ==
  Spec => [](TypeOK /\ EndInv /\ UniHand /\ BiHand /\ OpenInv /\ LeftInv)
<1>1. Init => OpenInv /\ LeftInv
  <2> SUFFICES ASSUME Init PROVE OpenInv /\ LeftInv
    BY ZenonT(30)
  <2>1. /\ \A s \in Streams : half[s] = "unopened" /\ inbox[s] = <<>>
        /\ \A t \in Bi \cup {0} : item[t].res = "None"
        /\ uniPc = "next" /\ biPc = "running"
    BY DEF Init, NoItem, Item
  <2> QED
    BY <2>1, StreamSets
       DEF OpenInv, LeftInv, LossAtEnd, DroppedRead, CutOrFailed, BehindCut,
           LostInHand
<1>2. ASSUME TypeOK, EndInv, UniHand, BiHand, OpenInv, LeftInv, [Next]_vars
      PROVE  OpenInv' /\ LeftInv'
  BY <1>2, OpenInvNext, LossAtEndNext, DroppedReadNext, CutOrFailedNext,
     BehindCutNext DEF LeftInv
<1> QED
  BY <1>1, <1>2, HandCorrect, PTL DEF Spec

\* Every message that arrived whole before a benign end of the connection has
\* been received when next returns None, unless its stream was given up for an
\* earlier frame or the listener stopped at an earlier, cut stream.
THEOREM BenignLossCompleteHolds == Spec => []BenignLossComplete
<1>1. Init => BenignLossComplete
  BY DEF Init, BenignLossComplete
<1>2. ASSUME TypeOK, EndInv, UniHand, BiHand, OpenInv, LeftInv, PcInv,
             NothingSkipped, BenignLossComplete, [Next]_vars
      PROVE  BenignLossComplete'
  <2>1. CASE eos
    BY ZenonT(30), <1>2, <2>1, EosSettled
       DEF BenignLossComplete, Clean, Reached, InLog
  <2>2. CASE ~eos /\ eos'
    <3>1. RecvNone
      BY <1>2, <2>2, EosBegins
    <3>2. /\ UNCHANGED <<conn, inbox, partial, ending, log>>
          /\ rxOpen /\ uniPc = "done" /\ biPc = "done" /\ conn # "Alive"
      BY <1>2, <3>1 DEF RecvNone, quinnVars, EndInv
    <3>3. \A b \in Bi : task[b] \in {"idle", "end"}
      BY ZenonT(30), <1>2, <3>2 DEF EndInv
    <3>4. /\ Streams = Uni \cup Bi /\ 0 \notin Uni
          /\ half \in [Streams -> {"unopened", "queued", "open", "eof",
                                   "dropped"}]
      BY <1>2, StreamSets, ConstantsAssumption
         DEF TypeOK, QuinnTypeOK, Uni, Bi, Streams
    <3>5. ASSUME Benign(conn), NEW s \in Streams, Clean(s),
                 NEW k \in DOMAIN inbox[s], inbox[s][k] = "UserMsg",
                 Reached(s, k)
          PROVE  InLog(s, k)
      <4>0. /\ DOMAIN inbox[s] = 1 .. Len(inbox[s]) /\ Len(inbox[s]) \in Nat
            /\ k \in 1 .. Len(inbox[s]) /\ pos[s] \in Nat
        BY <1>2 DEF TypeOK, QuinnTypeOK, ReadTypeOK
      <4>1. half[s] \notin {"open", "eof"}
        BY <1>2, <3>2, <3>3, <3>4 DEF UniHand, BiHand, Reading, Active
      <4>2. half[s] # "unopened"
        <5>0. 1 .. Len(inbox[s]) # 1 .. 0
          BY <4>0
        <5>1. inbox[s] # <<>>
          BY <5>0
        <5> QED
          BY <1>2, <5>1 DEF OpenInv
      <4>3. half[s] # "queued"
        BY <1>2, <3>2, <3>4, <3>5 DEF OpenInv, LeftInv, BehindCut, Failed
      <4>4. half[s] = "dropped"
        BY <3>4, <4>1, <4>2, <4>3
      <4>5. AllRead(s)
        BY ZenonT(30), <1>2, <3>2, <3>5, <4>4
           DEF LeftInv, DroppedRead, Abandoned, Failed
      <4>6. k \in 1 .. pos[s]
        <5>1. CASE pos[s] = Len(inbox[s])
          BY ZenonT(30), <4>0, <5>1
        <5>2. CASE s \in Uni /\ pos[s] >= 1 /\ inbox[s][pos[s]] # "UserMsg"
          <6>1. pos[s] \notin 1 .. k
            BY <3>5, <5>2 DEF Reached
          <6> QED
            BY <4>0, <5>2, <6>1
        <5> QED
          BY ZenonT(30), <4>5, <5>1, <5>2 DEF AllRead
      <4>7. ~InHand(s, k)
        <5>1. \A t \in Bi \cup {0} : ~IsMsg(item[t])
          BY <1>2, <3>2, <3>3 DEF PcInv
        <5>2. Item("UserMsg", s, k).res = "UserMsg"
          BY DEF Item
        <5> QED
          BY ZenonT(30), <5>1, <5>2 DEF InHand, IsMsg
      <4> QED
        BY ZenonT(30), <1>2, <3>2, <3>5, <4>6, <4>7 DEF NothingSkipped
    <3> QED
      BY <3>2, <3>5 DEF BenignLossComplete, Clean, Reached, InLog
  <2>3. CASE ~eos'
    BY ZenonT(30), <2>3 DEF BenignLossComplete
  <2> QED
    BY <2>1, <2>2, <2>3
<1> QED
  BY <1>1, <1>2, LeftCorrect, InvCorrect, NothingSkippedHolds, PTL DEF Spec

-----------------------------------------------------------------------------
(***************************************************************************)
(* No request is forgotten.                                                *)
(***************************************************************************)
\* A handle that was dropped stays so.
LEMMA TxStays ==
  ASSUME [Next]_vars, txOpen'
  PROVE  txOpen
<1> USE DEF quinnVars, uniVars, biVars, chanVars, appVars, ListenersUnchanged
<1> SUFFICES ASSUME ~txOpen PROVE UNCHANGED txOpen
  BY ZenonT(30)
<1>1. Peer \/ ImplicitClose \/ App => UNCHANGED txOpen
  BY ZenonT(30)
     DEF Peer, ImplicitClose, PeerOpen, PeerSend, PeerSendPart, PeerFinish,
         PeerReset, ConnLost, App, Recv, RecvNone, DropIncoming,
         DropConnection, AppLock, AppUnlock, DropStream, Close
<1>2. UniStep \/ UniSend => UNCHANGED txOpen
  BY ZenonT(30)
     DEF UniStep, UniAccept, UniSourceEnds, UniSourceFails, UniReadMsg,
         UniReadEnd, UniReadOther, UniReadFails, UniSendFails, UniNotAlive,
         UniSend
<1>3. BiStep => UNCHANGED txOpen
  BY ZenonT(30)
     DEF BiStep, BiAccept, BiSourceEnds, BiDrained, BiSourceFails,
         BiNotAlive, BiStop
<1>4. (\E b \in Bi : HandlerStep(b)) => UNCHANGED txOpen
  BY ZenonT(30)
     DEF HandlerStep, Handler, BiReadEnd, BiReadFrame, BiReadFails,
         BiReadResponse, BiReadReq, BiSendFails, BiSend, BiLock, BiReply
<1>5. UNCHANGED vars => UNCHANGED txOpen
  BY ZenonT(30) DEF vars
<1> QED
  BY ZenonT(30), <1>1, <1>2, <1>3, <1>4, <1>5 DEF Next, HandlerStep

\* Handlers stay dropped.
LEMMA HandlersStayDropped ==
  ASSUME TypeOK, [Next]_vars, HandlersDropped
  PROVE  HandlersDropped'
<1>1. CASE Failed
  BY ZenonT(30), <1>1, StepKeeps DEF HandlersDropped, Failed
<1>2. CASE HandlesDropped
  <2>1. ~txOpen' /\ ~rxOpen' /\ biPc' = "done"
    BY ZenonT(30), <1>2, StepKeeps, TxStays DEF HandlersDropped, HandlesDropped
  <2> QED
    BY ZenonT(30), <2>1 DEF HandlersDropped, HandlesDropped
<1> QED
  BY ZenonT(30), <1>1, <1>2 DEF HandlersDropped

\* A handler passes over no request, and gives one up only when it is dropped.
PassesNone(b) ==
  /\ \/ pos'[b] = pos[b]
     \/ /\ pos'[b] = pos[b] + 1 /\ inbox'[b] = inbox[b]
        /\ inbox[b][pos[b] + 1] \notin Requests
  /\ \/ task[b] \notin {"lock", "reply"}
     \/ task'[b] \in {"lock", "reply"} /\ item'[b] = item[b]
     \/ HandlersDropped'

\* Every step takes a request of stream b in hand, answers it, or does neither.
LEMMA RequestMoves ==
  ASSUME TypeOK, PcInv, [Next]_vars, NEW b \in Bi
  PROVE  PassesNone(b) \/ BiReadReq(b) \/ BiReply(b)
<1> USE DEF quinnVars, uniVars, biVars, chanVars, appVars
<1>0. /\ task \in [Bi -> {"idle", "read", "send", "lock", "reply", "end"}]
      /\ pos \in [Streams -> Nat] /\ b \in Streams
      /\ item \in [Bi \cup {0} -> Items]
  BY ZenonT(30), StreamSets DEF TypeOK, ListenerTypeOK, ReadTypeOK
<1>1. ASSUME task'[b] = task[b], item'[b] = item[b], pos'[b] = pos[b]
      PROVE  PassesNone(b)
  BY ZenonT(30), <1>1 DEF PassesNone
<1>2. CASE Peer \/ ImplicitClose \/ App \/ UNCHANGED vars
  BY ZenonT(30), <1>1, <1>2, OutsideFrame
<1>3. CASE UniStep \/ UniSend
  BY ZenonT(30), <1>1, <1>3, UniFrame
<1>4. CASE BiStep
  <2>1. CASE BiSourceFails \/ BiNotAlive
    <3>1. pos' = pos /\ biPc' = "done" /\ UNCHANGED <<conn, rxOpen, txOpen>>
          /\ (Failed \/ HandlesDropped)
      BY ZenonT(30), <2>1 DEF BiSourceFails, BiNotAlive, BiStop, SourceFails, Exhausted,
                  Failed, NotAlive, HandlesDropped
    <3> QED
      BY ZenonT(30), <3>1 DEF PassesNone, HandlersDropped, Failed, HandlesDropped
  <2>2. CASE BiSourceEnds \/ BiDrained
    BY ZenonT(30), <1>1, <2>2 DEF BiSourceEnds, BiDrained
  <2>3. ASSUME NEW c \in Bi, BiAccept(c) PROVE PassesNone(b)
    <3>1. task[c] = "idle"
      BY ZenonT(30), <2>3 DEF PcInv, Early, BiAccept, FirstQueued
    <3>2. UNCHANGED <<pos, item>> /\ task' = [task EXCEPT ![c] = "read"]
      BY ZenonT(30), <2>3 DEF BiAccept, Goto
    <3>3. CASE c = b
      BY ZenonT(30), <3>1, <3>2, <3>3 DEF PassesNone
    <3>4. CASE c # b
      BY ZenonT(30), <1>0, <1>1, <3>2, <3>4
    <3> QED
      BY ZenonT(30), <3>3, <3>4
  <2> QED
    BY ZenonT(30), <1>4, <2>1, <2>2, <2>3 DEF BiStep
<1>5. ASSUME NEW c \in Bi, HandlerStep(c), c # b PROVE PassesNone(b)
  BY ZenonT(30), <1>1, <1>5, HandlerFrame
<1>6. CASE HandlerStep(b)
  <2>1. CASE BiReadEnd(b) \/ BiReadFails(b)
    BY ZenonT(30), <2>1 DEF BiReadEnd, BiReadFails, BiReads, PassesNone
  <2>2. CASE BiReadFrame(b) \/ BiReadResponse(b)
    <3>1. /\ read_from_stream(b) \in {"UserMsg", "Malformed", "Response"}
          /\ task[b] = "read" /\ pos'[b] = pos[b] + 1 /\ inbox' = inbox
      BY ZenonT(30), <1>0, <2>2
         DEF BiReadFrame, BiReadResponse, BiReads, Advance
    <3>2. inbox[b][pos[b] + 1] = read_from_stream(b)
      BY <1>0, <3>1, ReadResult DEF FrameKinds
    <3> QED
      BY ZenonT(30), <3>1, <3>2 DEF PassesNone, Requests
  <2>3. CASE BiSendFails(b) \/ BiSend(b)
    BY ZenonT(30), <2>3 DEF BiSendFails, BiSend, PassesNone
  <2>4. CASE BiLock(b)
    <3>1. UNCHANGED <<pos, item>> /\ task'[b] = "reply"
      BY ZenonT(30), <1>0, <2>4 DEF BiLock, Goto
    <3> QED
      BY ZenonT(30), <3>1 DEF PassesNone
  <2> QED
    BY ZenonT(30), <1>6, <2>1, <2>2, <2>3, <2>4 DEF HandlerStep, Handler
<1> QED
  BY ZenonT(30), <1>2, <1>3, <1>4, <1>5, <1>6 DEF Next, HandlerStep

\* What was replied to stays so.
LEMMA RepliesKept ==
  ASSUME TypeOK, [Next]_vars, NEW b \in Bi, NEW k, Replied(b, k)
  PROVE  Replied(b, k)'
<1>0. /\ replies \in [Bi -> Seq([to : Nat, res : ReplyKinds])]
      /\ NoRequest(b) \/ BiReadReq(b) \/ BiReply(b)
  BY ZenonT(30), RequestSteps DEF TypeOK, ListenerTypeOK
<1>1. CASE NoRequest(b) \/ BiReadReq(b)
  BY ZenonT(30), <1>1 DEF NoRequest, BiReadReq, Replied
<1>2. CASE BiReply(b)
  <2>1. PICK x : replies' = [replies EXCEPT ![b] = Append(@, x)]
    BY ZenonT(30), <1>2 DEF BiReply
  <2>2. replies'[b] = Append(replies[b], x)
    BY ZenonT(30), <1>0, <2>1
  <2>3. replies[b] \in Seq([to : Nat, res : ReplyKinds])
    BY ZenonT(30), <1>0
  <2>4. Mentions(Append(replies[b], x), k)
    BY ZenonT(30), <2>3, MentionsMore DEF Replied
  <2> QED
    BY ZenonT(30), <2>2, <2>4 DEF Replied
<1> QED
  BY ZenonT(30), <1>0, <1>1, <1>2

\* A request that was read is answered, or being answered, unless the handlers
\* were dropped with the connection.
THEOREM RequestsServedHolds == Spec => []RequestsServed
<1>1. Init => RequestsServed
  <2> SUFFICES ASSUME Init, NEW b \in Bi PROVE 1 .. pos[b] = {}
    BY ZenonT(30) DEF RequestsServed
  <2>1. pos[b] = 0
    BY StreamSets DEF Init
  <2> QED
    BY <2>1
<1>2. ASSUME TypeOK, PcInv, RequestsServed, [Next]_vars,
             NEW b \in Bi, NEW k \in 1 .. pos'[b], inbox'[b][k] \in Requests
      PROVE  Replied(b, k)' \/ InWork(b, k)' \/ HandlersDropped'
  <2>0. /\ b \in Streams /\ pos[b] \in Nat /\ pos \in [Streams -> Nat]
        /\ item \in [Bi \cup {0} -> Items]
        /\ task \in [Bi -> {"idle", "read", "send", "lock", "reply", "end"}]
        /\ replies \in [Bi -> Seq([to : Nat, res : ReplyKinds])]
    BY ZenonT(30), <1>2, StreamSets DEF TypeOK, ListenerTypeOK, ReadTypeOK
  <2>1. k \in 1 .. pos[b] =>
          Replied(b, k) \/ InWork(b, k) \/ HandlersDropped
    BY ZenonT(30), <1>2, <2>0, StepKeeps DEF RequestsServed
  <2>2. CASE PassesNone(b)
    <3>1. k \in 1 .. pos[b]
      <4>1. CASE pos'[b] = pos[b]
        BY ZenonT(30), <1>2, <4>1
      <4>2. CASE /\ pos'[b] = pos[b] + 1 /\ inbox'[b] = inbox[b]
                 /\ inbox[b][pos[b] + 1] \notin Requests
        <5>1. k # pos[b] + 1
          BY ZenonT(30), <1>2, <4>2
        <5> QED
          BY ZenonT(30), <1>2, <2>0, <4>2, <5>1, UpToNext
      <4> QED
        BY ZenonT(30), <2>2, <4>1, <4>2 DEF PassesNone
    <3>2. InWork(b, k) => InWork(b, k)' \/ HandlersDropped'
      BY ZenonT(30), <2>2 DEF InWork, PassesNone
    <3> QED
      BY ZenonT(30), <1>2, <2>1, <3>1, <3>2, RepliesKept, HandlersStayDropped
  <2>3. CASE BiReadReq(b)
    <3>1. /\ task[b] = "read" /\ task'[b] = "lock"
          /\ item'[b] = Item(read_from_stream(b), b, pos[b] + 1)
          /\ pos'[b] = pos[b] + 1
      BY ZenonT(30), <2>0, <2>3 DEF BiReadReq, BiReads, Hand, Advance, Goto
    <3>2. CASE k = pos[b] + 1
      <4>1. item'[b].idx = pos[b] + 1
        BY <3>1 DEF Item
      <4> QED
        BY ZenonT(30), <3>1, <3>2, <4>1 DEF InWork
    <3>3. CASE k \in 1 .. pos[b]
      BY ZenonT(30), <1>2, <2>1, <3>1, <3>3, RepliesKept, HandlersStayDropped
         DEF InWork
    <3> QED
      BY ZenonT(30), <1>2, <2>0, <3>1, <3>2, <3>3, UpToNext
  <2>4. CASE BiReply(b)
    <3>1. PICK res : replies' = [replies EXCEPT ![b] =
                        Append(@, [to |-> item[b].idx, res |-> res])]
      BY ZenonT(30), <2>4 DEF BiReply
    <3>2. pos' = pos
      BY ZenonT(30), <2>4 DEF BiReply
    <3>3. replies'[b] = Append(replies[b], [to |-> item[b].idx, res |-> res])
      BY ZenonT(30), <2>0, <3>1
    <3>4. CASE InWork(b, k)
      <4>1. replies[b] \in Seq([to : Nat, res : ReplyKinds])
        BY ZenonT(30), <2>0
      <4>2. Mentions(Append(replies[b], [to |-> item[b].idx, res |-> res]),
                     item[b].idx)
        BY ZenonT(30), <4>1, MentionsNew
      <4> QED
        BY ZenonT(30), <3>3, <3>4, <4>2 DEF Replied, InWork
    <3> QED
      BY ZenonT(30), <1>2, <2>1, <3>2, <3>4, RepliesKept, HandlersStayDropped
  <2> QED
    BY ZenonT(30), <1>2, <2>2, <2>3, <2>4, RequestMoves
<1>3. TypeOK /\ PcInv /\ RequestsServed /\ [Next]_vars => RequestsServed'
  BY ZenonT(30), <1>2 DEF RequestsServed
<1> QED
  BY <1>1, <1>3, InvCorrect, PTL DEF Spec
=============================================================================
