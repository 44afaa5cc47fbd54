---------------------- MODULE ConnectionIncomingProofs ----------------------
(***************************************************************************)
(* Theorems about ConnectionIncoming, for every number of streams, frames  *)
(* and channel slots.                                                      *)
(***************************************************************************)
EXTENDS ConnectionIncoming, TLAPS

\* Unidirectional and bidirectional streams are disjoint sets of positive
\* numbers; 0 stands for no stream and for the uni listener.
LEMMA StreamSets ==
  /\ Uni \subseteq Streams /\ Bi \subseteq Streams
  /\ Uni \cap Bi = {} /\ 0 \notin Streams
  /\ Streams \subseteq Nat
BY ConstantsAssumption DEF Uni, Bi, Streams

\* The variables have their types when the connection has been set up.
LEMMA InitTypeOK == Init => TypeOK
<1> SUFFICES ASSUME Init PROVE TypeOK
  OBVIOUS
<1>1. /\ << >> \in Seq(FrameKinds) /\ << >> \in Seq(Items)
      /\ << >> \in Seq([to : Nat, res : ReplyKinds]) /\ Len(<< >>) = 0
  OBVIOUS
<1>2. NoItem \in Items
  BY DEF NoItem, Item, Items
<1>3. QuinnTypeOK
  BY <1>1 DEF Init, QuinnTypeOK
<1>4. ReadTypeOK
  BY <1>1 DEF Init, ReadTypeOK
<1>5. ListenerTypeOK
  BY <1>1, <1>2 DEF Init, ListenerTypeOK
<1>6. ChanTypeOK
  BY <1>1, ConstantsAssumption DEF Init, ChanTypeOK
<1>7. AppTypeOK
  BY Zenon DEF Init, AppTypeOK
<1> QED
  BY <1>3, <1>4, <1>5, <1>6, <1>7 DEF TypeOK

\* Nothing that quinn or the peer does changes the state of the listeners.
LEMMA ListenersKept ==
  TypeOK /\ ListenersUnchanged => ListenerTypeOK' /\ ChanTypeOK' /\ AppTypeOK'
<1> USE DEF ListenersUnchanged, uniVars, biVars, chanVars, appVars
<1> SUFFICES ASSUME TypeOK, ListenersUnchanged
             PROVE  ListenerTypeOK' /\ ChanTypeOK' /\ AppTypeOK'
  OBVIOUS
<1>1. ListenerTypeOK'
  BY Zenon DEF TypeOK, ListenerTypeOK
<1>2. ChanTypeOK'
  BY DEF TypeOK, ChanTypeOK
<1>3. AppTypeOK'
  BY DEF TypeOK, AppTypeOK
<1> QED
  BY <1>1, <1>2, <1>3

\* Steps of quinn and the peer keep the type invariant.
LEMMA PeerTypeOK == TypeOK /\ (Peer \/ ImplicitClose) => TypeOK'
<1> SUFFICES ASSUME TypeOK, Peer \/ ImplicitClose PROVE TypeOK'
  OBVIOUS
<1>0. ListenersUnchanged
  BY DEF Peer, ImplicitClose, PeerOpen, PeerSend, PeerSendPart, PeerFinish,
         PeerReset, ConnLost
<1> USE DEF ListenersUnchanged, quinnVars
<1>1. ASSUME NEW s \in Streams, PeerOpen(s) PROVE QuinnTypeOK' /\ ReadTypeOK'
  BY <1>1 DEF TypeOK, QuinnTypeOK, ReadTypeOK, PeerOpen
<1>2. ASSUME NEW s \in Streams, NEW k \in Kinds, PeerSend(s, k)
      PROVE  QuinnTypeOK' /\ ReadTypeOK'
  <2>1. inbox[s] \in Seq(FrameKinds) /\ k \in FrameKinds
    BY <1>2, ConstantsAssumption DEF TypeOK, QuinnTypeOK
  <2>2. /\ Append(inbox[s], k) \in Seq(FrameKinds)
        /\ Len(Append(inbox[s], k)) = Len(inbox[s]) + 1
    BY <2>1
  <2>3. inbox' \in [Streams -> Seq(FrameKinds)]
    BY <1>2, <2>2 DEF TypeOK, QuinnTypeOK, PeerSend
  <2>4. partial' \in [Streams -> BOOLEAN]
    BY <1>2 DEF TypeOK, QuinnTypeOK, PeerSend
  <2>5. QuinnTypeOK'
    BY <1>2, <2>3, <2>4 DEF TypeOK, QuinnTypeOK, PeerSend
  <2>6. \A t \in Streams : pos[t] <= Len(inbox'[t])
    BY <1>2, <2>1, <2>2 DEF TypeOK, QuinnTypeOK, ReadTypeOK, PeerSend
  <2> QED
    BY <1>2, <2>5, <2>6 DEF TypeOK, ReadTypeOK, PeerSend
<1>3. ASSUME NEW s \in Streams, PeerSendPart(s)
      PROVE  QuinnTypeOK' /\ ReadTypeOK'
  BY <1>3 DEF TypeOK, QuinnTypeOK, ReadTypeOK, PeerSendPart
<1>4. ASSUME NEW s \in Streams, PeerFinish(s) PROVE QuinnTypeOK' /\ ReadTypeOK'
  BY <1>4 DEF TypeOK, QuinnTypeOK, ReadTypeOK, PeerFinish
<1>5. ASSUME NEW s \in Streams, PeerReset(s) PROVE QuinnTypeOK' /\ ReadTypeOK'
  <2>1. inbox[s] \in Seq(FrameKinds) /\ pos[s] \in 0 .. Len(inbox[s])
    BY <1>5 DEF TypeOK, QuinnTypeOK, ReadTypeOK
  <2>2. /\ SubSeq(inbox[s], 1, pos[s]) \in Seq(FrameKinds)
        /\ Len(SubSeq(inbox[s], 1, pos[s])) = pos[s]
    BY <2>1
  <2>3. inbox' \in [Streams -> Seq(FrameKinds)]
    BY <1>5, <2>2 DEF TypeOK, QuinnTypeOK, PeerReset
  <2>4. partial' \in [Streams -> BOOLEAN]
    BY <1>5 DEF TypeOK, QuinnTypeOK, PeerReset
  <2>5. QuinnTypeOK'
    BY <1>5, <2>3, <2>4 DEF TypeOK, QuinnTypeOK, PeerReset
  <2>6. \A t \in Streams : pos[t] <= Len(inbox'[t])
    BY <1>5, <2>1, <2>2 DEF TypeOK, QuinnTypeOK, ReadTypeOK, PeerReset
  <2> QED
    BY <1>5, <2>5, <2>6 DEF TypeOK, ReadTypeOK, PeerReset
<1>6. ASSUME NEW e \in QuinnErrors, ConnLost(e)
      PROVE  QuinnTypeOK' /\ ReadTypeOK'
  BY <1>6 DEF TypeOK, QuinnTypeOK, ReadTypeOK, ConnLost
<1>7. "LocallyClosed" \in QuinnErrors
  BY DEF QuinnErrors
<1>8. QuinnTypeOK' /\ ReadTypeOK'
  BY <1>1, <1>2, <1>3, <1>4, <1>5, <1>6, <1>7, ConstantsAssumption
     DEF Peer, ImplicitClose
<1> QED
  BY <1>0, <1>8, ListenersKept DEF TypeOK

\* What read_from_stream returns: a frame only if one has arrived, an error or
\* the end of the stream only once all frames are read, and the loss of the
\* connection only if it is lost and not benign, or cut a frame in two.
LEMMA ReadResult ==
  ASSUME TypeOK, NEW s \in Streams
  PROVE  LET r == read_from_stream(s) IN
         /\ r \in FrameKinds \cup ReadErrors \cup {"None", "Pending"}
         /\ r \in FrameKinds => pos[s] < Len(inbox[s]) /\ r = inbox[s][pos[s]+1]
         /\ r \notin FrameKinds => pos[s] = Len(inbox[s])
         /\ r = "ConnectionLost" =>
              /\ conn # "Alive"
              /\ ~Benign(conn) \/ partial[s]
<1> DEFINE r == read_from_stream(s)
<1>1. /\ inbox[s] \in Seq(FrameKinds) /\ pos[s] \in Nat /\ Len(inbox[s]) \in Nat
      /\ pos[s] <= Len(inbox[s])
  BY DEF TypeOK, QuinnTypeOK, ReadTypeOK
<1>2. CASE pos[s] < Len(inbox[s])
  <2>1. r = inbox[s][pos[s] + 1]
    BY <1>1, <1>2 DEF read_from_stream
  <2>2. inbox[s][pos[s] + 1] \in FrameKinds
    BY <1>1, <1>2
  <2> QED
    BY <1>2, <2>1, <2>2 DEF FrameKinds
<1>3. CASE pos[s] = Len(inbox[s]) /\ half[s] = "eof"
  <2>1. r = "None"
    BY <1>1, <1>3 DEF read_from_stream
  <2> QED
    BY <1>3, <2>1 DEF FrameKinds
<1>4. CASE pos[s] = Len(inbox[s]) /\ half[s] # "eof"
  <2>1. r = IF ending[s] = "reset" THEN "StreamLost"
            ELSE IF ending[s] = "finished"
                   THEN IF partial[s] THEN "Serialization" ELSE "None"
            ELSE IF conn = "Alive" THEN "Pending" ELSE ReadAfterLoss(s)
    BY <1>1, <1>4 DEF read_from_stream
  <2>2. \/ ReadAfterLoss(s) = "None"
        \/ /\ ReadAfterLoss(s) = "ConnectionLost"
           /\ ~Benign(conn) \/ partial[s]
    BY DEF ReadAfterLoss
  <2>3. \/ r \in {"StreamLost", "Serialization", "None", "Pending"}
        \/ /\ r = "ConnectionLost" /\ conn # "Alive"
           /\ ~Benign(conn) \/ partial[s]
    BY <2>1, <2>2
  <2> QED
    BY <1>4, <2>3 DEF FrameKinds, ReadErrors
<1> QED
  BY <1>1, <1>2, <1>3, <1>4

\* Taking a result in hand and advancing past a frame keep their types.
LEMMA HandTypeOK ==
  ASSUME TypeOK, NEW t \in Bi \cup {0}, NEW s \in Streams,
         NEW r \in Results \cup {"None", "EchoReq", "VerificationReq"},
         Hand(t, r, s)
  PROVE  item' \in [Bi \cup {0} -> Items]
<1>1. Item(r, s, pos[s] + 1) \in Items
  BY DEF Item, Items, TypeOK, ReadTypeOK
<1> QED
  BY <1>1 DEF Hand, TypeOK, ListenerTypeOK

\* Reading one frame further on a stream keeps the type of the positions.
LEMMA AdvanceTypeOK ==
  ASSUME TypeOK, NEW s \in Streams, read_from_stream(s) \in FrameKinds,
         Advance(s), UNCHANGED inbox
  PROVE  ReadTypeOK'
<1>1. pos[s] < Len(inbox[s])
  BY ReadResult
<1>2. inbox[s] \in Seq(FrameKinds) /\ pos \in [Streams -> Nat]
  BY DEF TypeOK, QuinnTypeOK, ReadTypeOK
<1>3. \A t \in Streams : pos'[t] = IF t = s THEN pos[s] + 1 ELSE pos[t]
  BY <1>2 DEF Advance
<1>4. pos' \in [Streams -> Nat]
  BY <1>2 DEF Advance
<1>5. pos'[s] <= Len(inbox[s])
  <2>1. Len(inbox[s]) \in Nat /\ pos[s] \in Nat
    BY <1>2
  <2> QED
    BY <1>1, <1>3, <2>1
<1> QED
  BY SMTT(30), <1>3, <1>4, <1>5 DEF TypeOK, ReadTypeOK

\* Sending a result from task t appends it to the channel.
LEMMA SentTypeOK ==
  ASSUME TypeOK, NEW t \in Bi \cup {0}, Sent(t)
  PROVE  /\ ChanTypeOK'
         /\ item' \in [Bi \cup {0} -> Items]
         /\ Len(log') = Len(log) + 1
         /\ log'[Len(log) + 1] = item[t]
         /\ \A i \in 1 .. Len(log) : log'[i] = log[i]
         /\ DOMAIN log' = 1 .. Len(log) + 1 /\ DOMAIN log = 1 .. Len(log)
         /\ Len(log) \in Nat
<1>1. item[t] \in Items /\ log \in Seq(Items) /\ Len(log) \in Nat
  BY DEF TypeOK, ListenerTypeOK, ChanTypeOK
<1>2. /\ log' \in Seq(Items) /\ Len(log') = Len(log) + 1
      /\ log'[Len(log) + 1] = item[t]
      /\ \A i \in 1 .. Len(log) : log'[i] = log[i]
      /\ DOMAIN log' = 1 .. Len(log) + 1 /\ DOMAIN log = 1 .. Len(log)
  BY <1>1 DEF Sent
<1>3. NoItem \in Items
  BY DEF NoItem, Item, Items
<1>4. item' \in [Bi \cup {0} -> Items]
  BY <1>3 DEF Sent, TypeOK, ListenerTypeOK
<1>5. ChanTypeOK'
  BY <1>1, <1>2, ConstantsAssumption
     DEF Sent, ChanHasRoom, ChanTypeOK, TypeOK
<1> QED
  BY <1>1, <1>2, <1>4, <1>5

\* A step of the uni listener keeps the types.
LEMMA UniTypeOK == TypeOK /\ (UniStep \/ UniSend) => TypeOK'
<1> SUFFICES ASSUME TypeOK, UniStep \/ UniSend PROVE TypeOK'
  OBVIOUS
<1> USE StreamSets DEF quinnVars, uniVars, biVars, chanVars, appVars
<1>a. AppTypeOK'
  BY ZenonT(30)
     DEF UniStep, UniAccept, UniSourceEnds, UniSourceFails, UniReadMsg,
         UniReadEnd, UniReadOther, UniReadFails, UniSendFails, UniNotAlive,
         UniSend, Sent, TypeOK, AppTypeOK
<1>b. UNCHANGED quinnVars /\ UNCHANGED biVars
  BY DEF UniStep, UniAccept, UniSourceEnds, UniSourceFails, UniReadMsg,
         UniReadEnd, UniReadOther, UniReadFails, UniSendFails, UniNotAlive,
         UniSend
<1>c. UniStep => ChanTypeOK'
  BY Zenon DEF UniStep, UniAccept, UniSourceEnds, UniSourceFails, UniReadMsg,
         UniReadEnd, UniReadOther, UniReadFails, UniSendFails, UniNotAlive,
         TypeOK, ChanTypeOK
<1>d. NoItem \in Items /\ Item("ConnectionLost", 0, 0) \in Items
  BY DEF NoItem, Item, Items, Results
<1> DEFINE Kept == /\ half' \in [Streams -> {"unopened", "queued", "open",
                                             "eof", "dropped"}]
                   /\ ReadTypeOK'
                   /\ item' \in [Bi \cup {0} -> Items]
                   /\ uniPc' \in {"next", "send", "done"}
                   /\ uniCur' \in Uni \cup {0}
<1> USE DEF TypeOK, QuinnTypeOK, ReadTypeOK, ListenerTypeOK
<1>1. ASSUME NEW s \in Uni, UniAccept(s) PROVE Kept
  BY <1>1 DEF UniAccept
<1>2. ASSUME UniSourceEnds PROVE Kept
  BY <1>2 DEF UniSourceEnds
<1>3. ASSUME UniSourceFails PROVE Kept
  BY <1>3, <1>d DEF UniSourceFails
<1>4. ASSUME UniReadMsg PROVE Kept
  <2>1. uniCur \in Streams /\ read_from_stream(uniCur) \in FrameKinds
    BY <1>4 DEF UniReadMsg, UniReads, FrameKinds
  <2>2. ReadTypeOK'
    BY Zenon, <1>4, <2>1, AdvanceTypeOK DEF UniReadMsg
  <2>3. item' \in [Bi \cup {0} -> Items]
    BY Zenon, <1>4, <2>1, HandTypeOK DEF UniReadMsg, Results
  <2> QED
    BY <1>4, <2>2, <2>3 DEF UniReadMsg
<1>5. ASSUME UniReadEnd PROVE Kept
  BY Zenon, <1>5 DEF UniReadEnd, Drop
<1>6. ASSUME UniReadOther PROVE Kept
  <2>1. uniCur \in Streams /\ read_from_stream(uniCur) \in FrameKinds
    BY <1>6 DEF UniReadOther, UniReads
  <2>2. ReadTypeOK'
    BY Zenon, <1>6, <2>1, AdvanceTypeOK DEF UniReadOther
  <2>3. item' \in [Bi \cup {0} -> Items]
    BY Zenon, <1>6, <2>1, HandTypeOK DEF UniReadOther, Results
  <2> QED
    BY SMTT(30), <1>6, <2>2, <2>3 DEF UniReadOther, Drop
<1>7. ASSUME UniReadFails PROVE Kept
  <2>1. uniCur \in Streams /\ read_from_stream(uniCur) \in Results
    BY <1>7 DEF UniReadFails, UniReads, ReadErrors, Results
  <2>2. item' \in [Bi \cup {0} -> Items]
    BY Zenon, <1>7, <2>1, HandTypeOK DEF UniReadFails
  <2> QED
    BY Zenon, <1>7, <2>2 DEF UniReadFails, Drop
<1>8. ASSUME UniSendFails PROVE Kept
  BY <1>8, <1>d DEF UniSendFails, UniStop
<1>9. ASSUME UniNotAlive PROVE Kept
  BY <1>9 DEF UniNotAlive, UniStop
<1>10. ASSUME UniSend PROVE Kept /\ ChanTypeOK'
  <2>1. ChanTypeOK' /\ item' \in [Bi \cup {0} -> Items]
    BY Zenon, <1>10, SentTypeOK DEF UniSend
  <2> QED
    BY <1>10, <2>1 DEF UniSend, UniStop
<1>11. Kept
  BY ZenonT(30), <1>1, <1>2, <1>3, <1>4, <1>5, <1>6, <1>7, <1>8, <1>9, <1>10
     DEF UniStep
<1>12. QuinnTypeOK' /\ ListenerTypeOK'
  BY Zenon, <1>b, <1>11
<1> QED
  BY ZenonT(40), <1>a, <1>c, <1>10, <1>11, <1>12

\* A step of the bi listener or of one of its handlers keeps the types.
LEMMA BiTypeOK ==
  ASSUME TypeOK, NEW b \in Bi,
         \/ BiAccept(b) \/ BiReadEnd(b) \/ BiReadFrame(b) \/ BiReadFails(b)
         \/ BiReadResponse(b) \/ BiReadReq(b) \/ BiSendFails(b)
         \/ BiSend(b) \/ BiLock(b) \/ BiReply(b)
  PROVE  TypeOK'
<1> USE StreamSets DEF quinnVars, uniVars, biVars, chanVars, appVars, Goto, Drop
<1>a. AppTypeOK'
  BY ZenonT(30)
     DEF BiAccept, BiReadEnd, BiReadFrame, BiReadFails, BiReadResponse,
         BiReadReq, BiSendFails, BiSend, BiLock, BiReply, Sent, TypeOK,
         AppTypeOK
<1>b. UNCHANGED quinnVars /\ UNCHANGED uniVars /\ UNCHANGED biPc
  BY DEF BiAccept, BiReadEnd, BiReadFrame, BiReadFails, BiReadResponse,
         BiReadReq, BiSendFails, BiSend, BiLock, BiReply
<1>c. ChanTypeOK'
  <2>1. CASE BiSend(b)
    BY ZenonT(40), <2>1, SentTypeOK DEF BiSend
  <2>2. CASE ~BiSend(b)
    BY <2>2 DEF BiAccept, BiReadEnd, BiReadFrame, BiReadFails, BiReadResponse,
           BiReadReq, BiSendFails, BiLock, BiReply, TypeOK, ChanTypeOK
  <2> QED
    BY <2>1, <2>2
<1>d. NoItem \in Items
  BY DEF NoItem, Item, Items
<1> DEFINE Kept == /\ half' \in [Streams -> {"unopened", "queued", "open",
                                             "eof", "dropped"}]
                   /\ ReadTypeOK'
                   /\ item' \in [Bi \cup {0} -> Items]
                   /\ task' \in [Bi -> {"idle", "read", "send", "lock",
                                        "reply", "end"}]
                   /\ lock' \in [Bi -> {"free", "handler", "app"}]
                   /\ replies' \in [Bi -> Seq([to : Nat, res : ReplyKinds])]
<1> USE DEF TypeOK, QuinnTypeOK, ReadTypeOK, ListenerTypeOK
<1>1. ASSUME BiAccept(b) PROVE Kept
  BY Zenon, <1>1 DEF BiAccept
<1>2. ASSUME BiReadEnd(b) PROVE Kept
  BY Zenon, <1>2 DEF BiReadEnd
<1>3. ASSUME BiReadFrame(b) PROVE Kept
  <2>1. read_from_stream(b) \in FrameKinds
    BY <1>3 DEF BiReadFrame, BiReads, FrameKinds
  <2>2. ReadTypeOK'
    BY Zenon, <1>3, <2>1, AdvanceTypeOK DEF BiReadFrame
  <2>3. item' \in [Bi \cup {0} -> Items]
    BY Zenon, <1>3, <2>1, HandTypeOK DEF BiReadFrame, Results
  <2> QED
    BY Zenon, <1>3, <2>2, <2>3 DEF BiReadFrame
<1>4. ASSUME BiReadFails(b) PROVE Kept
  <2>1. read_from_stream(b) \in Results
    BY <1>4 DEF BiReadFails, BiReads, ReadErrors, Results
  <2>2. item' \in [Bi \cup {0} -> Items]
    BY Zenon, <1>4, <2>1, HandTypeOK DEF BiReadFails
  <2> QED
    BY Zenon, <1>4, <2>2 DEF BiReadFails
<1>5. ASSUME BiReadResponse(b) PROVE Kept
  <2>1. read_from_stream(b) \in FrameKinds
    BY <1>5 DEF BiReadResponse, BiReads, FrameKinds
  <2>2. ReadTypeOK'
    BY Zenon, <1>5, <2>1, AdvanceTypeOK DEF BiReadResponse
  <2> QED
    BY Zenon, <1>5, <2>2 DEF BiReadResponse
<1>6. ASSUME BiReadReq(b) PROVE Kept
  <2>1. /\ read_from_stream(b) \in FrameKinds
        /\ read_from_stream(b) \in Results \cup {"None", "EchoReq",
                                                 "VerificationReq"}
    BY <1>6 DEF BiReadReq, BiReads, FrameKinds
  <2>2. ReadTypeOK'
    BY Zenon, <1>6, <2>1, AdvanceTypeOK DEF BiReadReq
  <2>3. item' \in [Bi \cup {0} -> Items]
    BY Zenon, <1>6, <2>1, HandTypeOK DEF BiReadReq
  <2> QED
    BY Zenon, <1>6, <2>2, <2>3 DEF BiReadReq
<1>7. ASSUME BiSendFails(b) PROVE Kept
  BY Zenon, <1>7, <1>d DEF BiSendFails
<1>8. ASSUME BiSend(b) PROVE Kept
  <2>1. item' \in [Bi \cup {0} -> Items]
    BY Zenon, <1>8, SentTypeOK DEF BiSend
  <2> QED
    BY Zenon, <1>8, <2>1 DEF BiSend
<1>9. ASSUME BiLock(b) PROVE Kept
  BY Zenon, <1>9 DEF BiLock
<1>10. ASSUME BiReply(b) PROVE Kept
  <2>1. PICK res \in {"Failed"} \cup
                     (IF conn = "Alive" THEN Answers(item[b].res) ELSE {}) :
          replies' = [replies EXCEPT ![b] =
                        Append(@, [to |-> item[b].idx, res |-> res])]
    BY Zenon, <1>10 DEF BiReply
  <2>2. res \in ReplyKinds
    BY <2>1 DEF Answers, ReplyKinds
  <2> DEFINE reply == [to |-> item[b].idx, res |-> res]
  <2>3. item[b] \in Items /\ item[b].idx \in Nat
    BY DEF Items
  <2>4. reply \in [to : Nat, res : ReplyKinds]
    BY Zenon, <2>2, <2>3
  <2>5. replies' = [replies EXCEPT ![b] = Append(replies[b], reply)]
    BY <2>1
  <2> DEFINE R == [to : Nat, res : ReplyKinds]
  <2>6. reply \in R /\ replies \in [Bi -> Seq(R)]
    BY Zenon, <2>4
  <2> HIDE DEF reply, R
  <2>7. Append(replies[b], reply) \in Seq(R)
    BY <2>6
  <2>8. replies' \in [Bi -> Seq(R)]
    BY <2>5, <2>6, <2>7
  <2> USE DEF R
  <2> QED
    BY Zenon, <1>10, <1>d, <2>8 DEF BiReply
<1>11. Kept
  BY Zenon, <1>1, <1>2, <1>3, <1>4, <1>5, <1>6, <1>7, <1>8, <1>9, <1>10
<1>12. QuinnTypeOK' /\ ListenerTypeOK'
  BY Zenon, <1>b, <1>11
<1> QED
  BY Zenon, <1>a, <1>c, <1>11, <1>12

\* The bi listener's own steps and the application's keep the types.
LEMMA BiStopTypeOK == TypeOK /\ (BiSourceEnds \/ BiDrained \/ BiStop) => TypeOK'
<1> SUFFICES ASSUME TypeOK, BiSourceEnds \/ BiDrained \/ BiStop PROVE TypeOK'
  OBVIOUS
<1> USE StreamSets DEF quinnVars, uniVars, biVars, chanVars, appVars
<1>1. ReadTypeOK' /\ ChanTypeOK' /\ AppTypeOK'
  <2>1. UNCHANGED <<quinnVars, pos, chanVars, appVars>>
    BY DEF BiSourceEnds, BiDrained, BiStop
  <2>2. ReadTypeOK'
    BY <2>1 DEF TypeOK, ReadTypeOK
  <2>3. ChanTypeOK'
    BY <2>1 DEF TypeOK, ChanTypeOK
  <2>4. AppTypeOK'
    BY <2>1 DEF TypeOK, AppTypeOK
  <2> QED
    BY <2>2, <2>3, <2>4
<1>2. NoItem \in Items
  BY DEF NoItem, Item, Items
<1>3. QuinnTypeOK'
  BY DEF BiSourceEnds, BiDrained, BiStop, TypeOK, QuinnTypeOK
<1>4. ListenerTypeOK'
  <2>1. CASE BiStop
    BY Zenon, <2>1, <1>2 DEF BiStop, LocksReleased, TypeOK, ListenerTypeOK
  <2>2. CASE BiSourceEnds \/ BiDrained
    BY SMTT(30), <2>2 DEF BiSourceEnds, BiDrained, TypeOK, ListenerTypeOK
  <2> QED
    BY <2>1, <2>2
<1> QED
  BY <1>1, <1>3, <1>4 DEF TypeOK

\* Steps of the application keep the type invariant.
LEMMA AppStepTypeOK == TypeOK /\ App => TypeOK'
<1> SUFFICES ASSUME TypeOK, App PROVE TypeOK'
  OBVIOUS
<1>1. CASE Close
  <2>1. "LocallyClosed" \in QuinnErrors /\ ConnLost("LocallyClosed")
    BY <1>1 DEF QuinnErrors, Close
  <2>2. QuinnTypeOK' /\ ReadTypeOK' /\ ListenersUnchanged
    BY <2>1 DEF ConnLost, TypeOK, QuinnTypeOK, ReadTypeOK, ListenersUnchanged
  <2> QED
    BY <2>2, ListenersKept DEF TypeOK
<1> USE DEF quinnVars, uniVars, biVars, chanVars, appVars
<1>2. ASSUME ~Close PROVE QuinnTypeOK' /\ ReadTypeOK'
  <2>1. UNCHANGED <<quinnVars, half, pos>>
    BY ZenonT(30), <1>2
       DEF App, Recv, RecvNone, DropIncoming, DropConnection, AppLock,
                AppUnlock, DropStream
  <2> QED
    BY ZenonT(30), <2>1 DEF TypeOK, QuinnTypeOK, ReadTypeOK
<1>3. ASSUME ~Close PROVE ListenerTypeOK'
  <2>1. UNCHANGED <<uniVars, biPc, task, replies, item>>
    BY <1>3 DEF App, Recv, RecvNone, DropIncoming, DropConnection, AppLock,
                AppUnlock, DropStream
  <2>2. lock' \in [Bi -> {"free", "handler", "app"}]
    BY ZenonT(40), <1>3
       DEF App, Recv, RecvNone, DropIncoming, DropConnection, AppLock,
           AppUnlock, DropStream, TypeOK, ListenerTypeOK
  <2> QED
    BY Zenon, <2>1, <2>2 DEF TypeOK, ListenerTypeOK
<1>4. ASSUME ~Close PROVE ChanTypeOK'
  <2>1. \/ UNCHANGED <<log, taken>>
        \/ UNCHANGED log /\ taken < Len(log) /\ taken' = taken + 1
    BY Zenon, <1>4
       DEF App, Recv, RecvNone, DropIncoming, DropConnection, AppLock,
           AppUnlock, DropStream
  <2>2. Len(log) \in Nat /\ taken \in Nat
    BY DEF TypeOK, ChanTypeOK
  <2> QED
    BY <2>1, <2>2, ConstantsAssumption DEF TypeOK, ChanTypeOK
<1>5. ASSUME ~Close PROVE AppTypeOK'
  <2>1. ASSUME NEW keep \in BOOLEAN, Recv(keep) PROVE AppTypeOK'
    BY <2>1 DEF Recv, TypeOK, AppTypeOK
  <2>2. CASE RecvNone
    BY <2>2 DEF RecvNone, TypeOK, AppTypeOK
  <2>3. CASE DropIncoming \/ DropConnection
    BY Zenon, <2>3 DEF DropIncoming, DropConnection, TypeOK, AppTypeOK
  <2>4. ASSUME NEW b \in Bi, AppLock(b) \/ AppUnlock(b) \/ DropStream(b)
        PROVE  AppTypeOK'
    BY Zenon, <2>4 DEF AppLock, AppUnlock, DropStream, TypeOK, AppTypeOK
  <2> QED
    BY <1>5, <2>1, <2>2, <2>3, <2>4 DEF App
<1> QED
  BY <1>1, <1>2, <1>3, <1>4, <1>5 DEF TypeOK

\* Every step keeps the type invariant.
LEMMA NextTypeOK == TypeOK /\ [Next]_vars => TypeOK'
<1> SUFFICES ASSUME TypeOK, [Next]_vars PROVE TypeOK'
  OBVIOUS
<1>1. CASE UNCHANGED vars
  <2>1. ListenersUnchanged /\ UNCHANGED <<conn, half, inbox, partial, ending, pos>>
    BY <1>1 DEF vars, ListenersUnchanged, quinnVars
  <2> QED
    BY <2>1, ListenersKept DEF TypeOK, QuinnTypeOK, ReadTypeOK
<1>2. CASE BiStep
  BY <1>2, BiTypeOK, BiStopTypeOK DEF BiStep, BiSourceFails, BiNotAlive
<1>3. ASSUME NEW b \in Bi, Handler(b) \/ BiSend(b) \/ BiLock(b) \/ BiReply(b)
      PROVE  TypeOK'
  BY <1>3, BiTypeOK DEF Handler
<1> QED
  BY <1>1, <1>2, <1>3, PeerTypeOK, UniTypeOK, AppStepTypeOK DEF Next

\* In every state of every behaviour the variables have their types, reading
\* never runs ahead of what arrived, and the channel is within its bound.
THEOREM TypeCorrect == Spec => []TypeOK
BY InitTypeOK, NextTypeOK, PTL DEF Spec

-----------------------------------------------------------------------------
(***************************************************************************)
(* How the listeners end, and what the application has been told by then.  *)
(***************************************************************************)
LostInHand(t) == item[t].res = "ConnectionLost"
LossLogged    == \E i \in 1 .. Len(log) : log[i].res = "ConnectionLost"

\* While ConnectionIncoming is alive, the uni listener ends only when the
\* connection does, and not before it has sent the error of a failure; the bi
\* listener ends when the connection does or both handles are dropped, and
\* leaves no handler running.
EndInv ==
  /\ LostInHand(0) => conn # "Alive"
  /\ uniPc = "done" /\ rxOpen => conn # "Alive" /\ (Failed => LossLogged)
  /\ biPc = "draining" => conn # "Alive"
  /\ biPc = "done" => /\ conn # "Alive" \/ HandlesDropped
                      /\ \A b \in Bi : task[b] \in {"idle", "end"}
  /\ eos => /\ uniPc = "done" /\ biPc = "done" /\ taken = Len(log)
            /\ conn # "Alive" /\ (Failed => LossLogged)

\* EndInv holds when the connection is made.
LEMMA EndInvInit == Init => EndInv
BY DEF Init, EndInv, LostInHand, NoItem, Item, HandlesDropped

\* Every step keeps EndInv.
LEMMA EndInvNext == TypeOK /\ EndInv /\ [Next]_vars => EndInv'
<1> SUFFICES ASSUME TypeOK, EndInv, [Next]_vars PROVE EndInv'
  OBVIOUS
<1> USE DEF quinnVars, uniVars, biVars, chanVars, appVars, ListenersUnchanged
<1> DEFINE Same == UNCHANGED <<uniPc, biPc, task, item, log, taken, eos,
                               rxOpen, txOpen>>
<1>1. ASSUME Same, UNCHANGED conn PROVE EndInv'
  BY <1>1 DEF EndInv, LostInHand, LossLogged, Failed, HandlesDropped
<1>2. ASSUME NEW e \in QuinnErrors, ConnLost(e) PROVE EndInv'
  <2>1. conn = "Alive" /\ conn' # "Alive" /\ Same
    BY <1>2 DEF ConnLost, QuinnErrors
  <2> QED
    BY <2>1 DEF EndInv, LostInHand, LossLogged, Failed, HandlesDropped
<1>3. CASE Peer \/ ImplicitClose
  <2>1. CASE \E e \in QuinnErrors : ConnLost(e)
    BY <1>2, <2>1
  <2>2. CASE ~ \E e \in QuinnErrors : ConnLost(e)
    <3>1. "LocallyClosed" \in QuinnErrors
      BY SMTT(30) DEF QuinnErrors
    <3>2. Same /\ UNCHANGED conn
      BY SMTT(30), <1>3, <2>2, <3>1, ConstantsAssumption
         DEF Peer, ImplicitClose, PeerOpen, PeerSend, PeerSendPart, PeerFinish,
             PeerReset
    <3> QED
      BY <1>1, <3>2
  <2> QED
    BY <2>1, <2>2
<1>4. CASE UniStep
  <2>1. UNCHANGED <<biPc, task, log, taken, eos, rxOpen, txOpen, conn>>
    BY ZenonT(30), <1>4
       DEF UniStep, UniAccept, UniSourceEnds, UniSourceFails, UniReadMsg,
           UniReadEnd, UniReadOther, UniReadFails, UniSendFails, UniNotAlive
  <2>2. uniPc # "done"
    BY ZenonT(30), <1>4
       DEF UniStep, UniAccept, UniSourceEnds, UniSourceFails, UniReadMsg,
           UniReadEnd, UniReadOther, UniReadFails, UniSendFails,
           UniNotAlive, UniReads
  <2>3. uniPc' = "done" => ~rxOpen \/ (conn # "Alive" /\ Benign(conn))
    BY ZenonT(30), <1>4, <2>2
       DEF UniStep, UniAccept, UniSourceEnds, UniSourceFails, UniReadMsg,
           UniReadEnd, UniReadOther, UniReadFails, UniSendFails, UniNotAlive,
           SourceEnds, Exhausted, ChanClosed, NotAlive, UniReads
  <2>4. LostInHand(0)' => conn # "Alive"
    <3>1. CASE UniReadFails
      <4>1. uniCur \in Streams
        BY <3>1, StreamSets DEF UniReadFails, UniReads, TypeOK, ListenerTypeOK
      <4>2. item'[0].res = read_from_stream(uniCur)
        BY <3>1 DEF UniReadFails, Hand, Item, TypeOK, ListenerTypeOK
      <4> QED
        BY Zenon, <4>1, <4>2, ReadResult DEF LostInHand
    <3>2. CASE UniSourceFails
      BY <3>2 DEF UniSourceFails, SourceFails, Exhausted
    <3>3. CASE UniReadMsg \/ UniReadOther \/ UniSendFails
      BY <3>3 DEF UniReadMsg, UniReadOther, UniSendFails, Hand, Item, NoItem,
                  LostInHand, TypeOK, ListenerTypeOK
    <3>4. CASE UNCHANGED item
      BY <3>4 DEF EndInv, LostInHand
    <3> QED
      BY <1>4, <3>1, <3>2, <3>3, <3>4
         DEF UniStep, UniAccept, UniSourceEnds, UniReadEnd, UniNotAlive
  <2>5. ~eos'
    BY Zenon, <2>1, <2>2 DEF EndInv
  <2>6. (uniPc = "done" /\ rxOpen => conn # "Alive" /\ (Failed => LossLogged))'
    BY <2>1, <2>3 DEF Failed
  <2>7. (biPc = "draining" => conn # "Alive")'
    BY <2>1 DEF EndInv
  <2>8. (biPc = "done" => /\ conn # "Alive" \/ HandlesDropped
                          /\ \A b \in Bi : task[b] \in {"idle", "end"})'
    BY <2>1 DEF EndInv, HandlesDropped
  <2>9. (LostInHand(0) => conn # "Alive")'
    BY <2>1, <2>4
  <2> QED
    BY Zenon, <2>5, <2>6, <2>7, <2>8, <2>9 DEF EndInv
<1>5. CASE UniSend
  <2>1. /\ UNCHANGED <<biPc, task, taken, eos, rxOpen, txOpen, conn>>
        /\ uniPc = "send"
        /\ uniPc' = "done" => LostInHand(0)
        /\ Sent(0)
    BY <1>5 DEF UniSend, UniStop, Sent, LostInHand
  <2>2. ~LostInHand(0)'
    BY <2>1 DEF Sent, LostInHand, NoItem, Item, TypeOK, ListenerTypeOK
  <2>3. LostInHand(0) => LossLogged'
    <3>1. /\ Len(log') = Len(log) + 1 /\ log'[Len(log) + 1] = item[0]
          /\ Len(log) \in Nat
      BY SMTT(30), <2>1, SentTypeOK
    <3> QED
      BY <3>1 DEF LostInHand, LossLogged
  <2> QED
    BY <2>1, <2>2, <2>3 DEF EndInv, Failed, HandlesDropped
<1>6. CASE BiStep
  <2>1. /\ UNCHANGED <<uniPc, log, taken, eos, rxOpen, txOpen, conn>>
        /\ item'[0] = item[0]
    BY <1>6 DEF BiStep, BiAccept, BiSourceEnds, BiDrained, BiSourceFails,
                BiNotAlive, BiStop
  <2>2. biPc # "done"
    BY ZenonT(30), <1>6
       DEF BiStep, BiAccept, BiSourceEnds, BiDrained, BiSourceFails,
           BiNotAlive
  <2>3. /\ biPc' = "draining" => conn # "Alive"
        /\ biPc' = "done" => conn # "Alive" \/ HandlesDropped
    BY ZenonT(30), <1>6
       DEF BiStep, BiAccept, BiSourceEnds, BiDrained, BiSourceFails,
           BiNotAlive, BiStop, SourceEnds, SourceFails, Exhausted, NotAlive,
           HandlesDropped, EndInv
  <2>4. biPc' = "done" => \A b \in Bi : task'[b] \in {"idle", "end"}
    BY <1>6 DEF BiStep, BiAccept, BiSourceEnds, BiDrained, BiSourceFails,
                BiNotAlive, BiStop
  <2> QED
    BY ZenonT(30), <2>1, <2>2, <2>3, <2>4
       DEF EndInv, LostInHand, LossLogged, Failed, HandlesDropped
<1>7. ASSUME NEW b \in Bi, Handler(b) \/ BiSend(b) \/ BiLock(b) \/ BiReply(b)
      PROVE  EndInv'
  <2>1. /\ UNCHANGED <<uniPc, biPc, taken, eos, rxOpen, txOpen, conn>>
        /\ task[b] \notin {"idle", "end"}
    BY Zenon, <1>7
       DEF Handler, BiReadEnd, BiReadFrame, BiReadFails, BiReadResponse,
           BiReadReq, BiSendFails, BiSend, BiLock, BiReply, BiReads, Sent
  <2>2. biPc # "done" /\ ~eos
    BY <2>1 DEF EndInv
  <2>3. item'[0] = item[0]
    BY ZenonT(40), <1>7, StreamSets
       DEF Handler, BiReadEnd, BiReadFrame, BiReadFails, BiReadResponse,
           BiReadReq, BiSendFails, BiSend, BiLock, BiReply, Hand, Sent,
           TypeOK, ListenerTypeOK
  <2>4. LossLogged => LossLogged'
    <3>1. CASE BiSend(b)
      <4>1. /\ Len(log') = Len(log) + 1 /\ Len(log) \in Nat
            /\ \A i \in 1 .. Len(log) : log'[i] = log[i]
        BY Zenon, <3>1, SentTypeOK DEF BiSend
      <4> QED
        BY <4>1 DEF LossLogged
    <3>2. CASE ~BiSend(b)
      BY Zenon, <1>7, <3>2
         DEF Handler, BiReadEnd, BiReadFrame, BiReadFails, BiReadResponse,
             BiReadReq, BiSendFails, BiLock, BiReply, LossLogged
    <3> QED
      BY <3>1, <3>2
  <2> QED
    BY Zenon, <2>1, <2>2, <2>3, <2>4
       DEF EndInv, LostInHand, Failed, HandlesDropped
<1>8. CASE App
  <2>1. CASE Close
    BY <1>2, <2>1 DEF Close, QuinnErrors
  <2>2. ASSUME NEW keep \in BOOLEAN, Recv(keep) PROVE EndInv'
    <3>1. /\ UNCHANGED <<conn, uniPc, biPc, task, item, log, eos, rxOpen,
                          txOpen>>
          /\ taken < Len(log)
      BY Zenon, <2>2 DEF Recv
    <3>2. ~eos
      BY <3>1 DEF EndInv, TypeOK, ChanTypeOK
    <3> QED
      BY Zenon, <3>1, <3>2
         DEF EndInv, LostInHand, LossLogged, Failed, HandlesDropped
  <2>3. CASE RecvNone
    BY Zenon, <2>3 DEF RecvNone, EndInv, LostInHand, LossLogged, Failed,
                HandlesDropped
  <2>4. CASE DropIncoming \/ DropConnection
    <3>1. /\ UNCHANGED <<conn, uniPc, biPc, task, item, log, taken, eos>>
          /\ rxOpen' => rxOpen
          /\ HandlesDropped => HandlesDropped'
      BY <2>4 DEF DropIncoming, DropConnection, HandlesDropped
    <3> QED
      BY Zenon, <3>1 DEF EndInv, LostInHand, LossLogged, Failed
  <2>5. ASSUME NEW b \in Bi, AppLock(b) \/ AppUnlock(b) \/ DropStream(b)
        PROVE  EndInv'
    <3>1. Same /\ UNCHANGED conn
      BY <2>5 DEF AppLock, AppUnlock, DropStream
    <3> QED
      BY ZenonT(30), <1>1, <3>1
  <2> QED
    BY <1>8, <2>1, <2>2, <2>3, <2>4, <2>5 DEF App
<1>9. CASE UNCHANGED vars
  BY <1>1, <1>9 DEF vars
<1> QED
  BY <1>3, <1>4, <1>5, <1>6, <1>7, <1>8, <1>9 DEF Next

\* The end of the incoming messages means the end of the connection.
THEOREM EndMeansLostHolds == Spec => []EndMeansLost
<1>1. EndInv => EndMeansLost
  BY DEF EndInv, EndMeansLost
<1> QED
  BY <1>1, TypeCorrect, EndInvInit, EndInvNext, PTL DEF Spec

\* The bi listener runs until the connection ends or both handles are dropped.
THEOREM BiListensWhileHeldHolds == Spec => []BiListensWhileHeld
<1>1. EndInv => BiListensWhileHeld
  BY DEF EndInv, BiListensWhileHeld
<1> QED
  BY <1>1, TypeCorrect, EndInvInit, EndInvNext, PTL DEF Spec

\* listen_on_bi_streams may rely on listen_on_uni_streams to propagate the
\* failure of the connection.
THEOREM LossPropagatedHolds == Spec => []LossPropagated
<1>1. EndInv => LossPropagated
  BY DEF EndInv, LossPropagated, LossLogged, Failed
<1> QED
  BY <1>1, TypeCorrect, EndInvInit, EndInvNext, PTL DEF Spec

-----------------------------------------------------------------------------
(***************************************************************************)
(* How messages move from the streams to the channel, and in which order.  *)
(***************************************************************************)
IsMsg(x) == x.res = "UserMsg"
Early(b) == half[b] \in {"unopened", "queued"}

\* A task has a message in hand only while it waits to send it, and there is no
\* handler for a stream that was not accepted.
PcInv ==
  /\ IsMsg(item[0]) => uniPc = "send"
  /\ \A b \in Bi : IsMsg(item[b]) => task[b] = "send"
  /\ \A b \in Bi : Early(b) => task[b] = "idle"

\* Task t is the one that reads stream s.
ReadsFor(t, s) == (t = 0 /\ s \in Uni) \/ (s \in Bi /\ t = s)

\* Messages in the channel lie behind the position of their stream, in order,
\* and before the one in hand, which is the last one read.
OrderInv ==
  /\ \A t \in Bi \cup {0} : IsMsg(item[t]) =>
       /\ ReadsFor(t, item[t].stream)
       /\ item[t].idx = pos[item[t].stream]
  /\ \A i \in 1 .. Len(log) : IsMsg(log[i]) =>
       /\ log[i].stream \in Streams
       /\ log[i].idx <= pos[log[i].stream]
  /\ \A i \in 1 .. Len(log), t \in Bi \cup {0} :
       IsMsg(log[i]) /\ IsMsg(item[t]) /\ log[i].stream = item[t].stream
         => log[i].idx < item[t].idx
  /\ InOrder

\* PcInv holds when the connection is made.
LEMMA PcInvInit == Init => PcInv
BY StreamSets DEF Init, PcInv, IsMsg, NoItem, Item, Early

\* Every step keeps PcInv.
LEMMA PcInvNext == TypeOK /\ PcInv /\ [Next]_vars => PcInv'
<1> SUFFICES ASSUME TypeOK, PcInv, [Next]_vars PROVE PcInv'
  OBVIOUS
<1> USE DEF quinnVars, uniVars, biVars, chanVars, appVars, ListenersUnchanged
<1>0. /\ item \in [Bi \cup {0} -> Items] /\ task \in [Bi -> {"idle", "read",
              "send", "lock", "reply", "end"}]
      /\ half \in [Streams -> {"unopened", "queued", "open", "eof", "dropped"}]
      /\ uniCur \in Uni \cup {0}
  BY DEF TypeOK, ListenerTypeOK, QuinnTypeOK
<1>1. ASSUME UNCHANGED <<uniPc, task, item>>,
             \A b \in Bi : Early(b)' => Early(b)
      PROVE  PcInv'
  BY <1>1 DEF PcInv, IsMsg
<1>2. CASE Peer \/ ImplicitClose
  <2>1. UNCHANGED <<uniPc, task, item>>
    BY ZenonT(30), <1>2
       DEF Peer, ImplicitClose, PeerOpen, PeerSend, PeerSendPart,
                PeerFinish, PeerReset, ConnLost
  <2>2. \A b \in Bi : Early(b)' => Early(b)
    <3>1. CASE UNCHANGED half
      BY <3>1 DEF Early
    <3>2. ASSUME NEW s \in Streams, PeerOpen(s)
          PROVE  \A b \in Bi : Early(b)' => Early(b)
      BY <1>0, <3>2, StreamSets DEF PeerOpen, Early
    <3> QED
      BY <1>2, <3>1, <3>2 DEF Peer, ImplicitClose, PeerSend, PeerSendPart,
                              PeerFinish, PeerReset, ConnLost
  <2> QED
    BY ZenonT(30), <1>1, <2>1, <2>2
<1>3. CASE UniStep \/ UniSend
  <2>1. UNCHANGED task
    BY ZenonT(20), <1>3
       DEF UniStep, UniAccept, UniSourceEnds, UniSourceFails, UniReadMsg,
           UniReadEnd, UniReadOther, UniReadFails, UniSendFails, UniNotAlive,
           UniSend
  <2>2. \A b \in Bi : half'[b] = half[b]
    BY ZenonT(20), <1>0, <1>3, StreamSets
       DEF UniStep, UniAccept, UniSourceEnds, UniSourceFails, UniReadMsg,
           UniReadEnd, UniReadOther, UniReadFails, UniSendFails, UniNotAlive,
           UniSend, UniStop, Drop, UniReads
  <2>3. \A b \in Bi : item'[b] = item[b]
    BY ZenonT(20), <1>0, <1>3, StreamSets
       DEF UniStep, UniAccept, UniSourceEnds, UniSourceFails, UniReadMsg,
           UniReadEnd, UniReadOther, UniReadFails, UniSendFails, UniNotAlive,
           UniSend, Hand, Sent
  <2>4. IsMsg(item'[0]) => uniPc' = "send"
    <3>1. CASE uniPc' = "send"
      BY ZenonT(30), <3>1
    <3>2. CASE UniSend \/ UniSendFails
      BY <1>0, <3>2 DEF UniSend, UniSendFails, Sent, NoItem, Item, IsMsg
    <3>3. CASE UNCHANGED item /\ uniPc # "send"
      BY <3>3 DEF PcInv
    <3>4. \/ uniPc' = "send" \/ UniSend \/ UniSendFails
          \/ uniPc = "next" /\ UNCHANGED item
      BY ZenonT(30), <1>3
         DEF UniStep, UniAccept, UniSourceEnds, UniSourceFails, UniReadMsg,
             UniReadEnd, UniReadOther, UniReadFails, UniNotAlive, UniReads
    <3> QED
      BY <3>1, <3>2, <3>3, <3>4
  <2> QED
    BY ZenonT(20), <2>1, <2>2, <2>3, <2>4 DEF PcInv, Early, IsMsg
<1>4. ASSUME NEW b \in Bi, BiAccept(b) PROVE PcInv'
  BY ZenonT(30), <1>0, <1>4, StreamSets
     DEF BiAccept, FirstQueued, Goto, PcInv, Early, IsMsg
<1>5. CASE BiSourceEnds \/ BiDrained
  <2>1. UNCHANGED <<uniPc, task, item, half>>
    BY ZenonT(30), <1>5 DEF BiSourceEnds, BiDrained
  <2> QED
    BY <1>1, <2>1 DEF Early
<1>6. CASE BiStop
  <2>1. /\ uniPc' = uniPc /\ item'[0] = item[0]
        /\ \A b \in Bi : ~IsMsg(item'[b])
    BY ZenonT(30), <1>6, StreamSets DEF BiStop, IsMsg, NoItem, Item
  <2>2. \A b \in Bi :
          Early(b)' => Early(b) /\ (task[b] = "idle" => task'[b] = "idle")
    BY ZenonT(30), <1>0, <1>6, StreamSets DEF BiStop, Early
  <2> QED
    BY <2>1, <2>2 DEF PcInv, IsMsg
<1>7. ASSUME NEW b \in Bi, Handler(b) \/ BiSend(b) \/ BiLock(b) \/ BiReply(b)
      PROVE  PcInv'
  <2> USE DEF Goto, Drop, Hand, Sent
  <2>1. /\ uniPc' = uniPc
        /\ \A c \in Bi \ {b} : task'[c] = task[c] /\ half'[c] = half[c]
    BY ZenonT(60), <1>0, <1>7, StreamSets
       DEF Handler, BiReadEnd, BiReadFrame, BiReadFails, BiReadResponse,
           BiReadReq, BiSendFails, BiSend, BiLock, BiReply
  <2>2. \A t \in (Bi \cup {0}) \ {b} : item'[t] = item[t]
    BY ZenonT(60), <1>0, <1>7
       DEF Handler, BiReadEnd, BiReadFrame, BiReadFails, BiReadResponse,
           BiReadReq, BiSendFails, BiSend, BiLock, BiReply
  <2> DEFINE Here == /\ IsMsg(item'[b]) => task'[b] = "send"
                     /\ Early(b)' => task'[b] = "idle"
  <2>3. task[b] # "idle" /\ ~Early(b) /\ half[b] \notin {"unopened", "queued"}
    <3>1. task[b] \in {"read", "send", "lock", "reply"}
      BY ZenonT(30), <1>7
         DEF Handler, BiReadEnd, BiReadFrame, BiReadFails, BiReadResponse,
             BiReadReq, BiSendFails, BiSend, BiLock, BiReply, BiReads
    <3> QED
      BY <3>1 DEF PcInv, Early
  <2>4. Here
    <3> USE <1>0, <2>3, StreamSets DEF Early
    <3>0. IsMsg(item[b]) => task[b] = "send"
      BY ZenonT(30) DEF PcInv
    <3>1. CASE BiReadEnd(b)
      BY ZenonT(30), <3>0, <3>1 DEF BiReadEnd, BiReads
    <3>2. CASE BiReadFrame(b)
      BY <3>0, <3>2 DEF BiReadFrame, BiReads
    <3>3. CASE BiReadFails(b)
      BY <3>0, <3>3 DEF BiReadFails, BiReads
    <3>4. CASE BiReadResponse(b)
      BY ZenonT(30), <3>0, <3>4 DEF BiReadResponse, BiReads
    <3>5. CASE BiReadReq(b)
      BY ZenonT(30), <3>0, <3>5 DEF BiReadReq, BiReads, Item, IsMsg
    <3>6. CASE BiSendFails(b)
      BY ZenonT(30), <3>0, <3>6 DEF BiSendFails, NoItem, Item, IsMsg
    <3>7. CASE BiSend(b)
      BY <3>0, <3>7 DEF BiSend, NoItem, Item, IsMsg
    <3>8. CASE BiLock(b)
      BY ZenonT(30), <3>0, <3>8 DEF BiLock
    <3>9. CASE BiReply(b)
      BY <3>0, <3>9 DEF BiReply, NoItem, Item, IsMsg
    <3> QED
      BY <1>7, <3>1, <3>2, <3>3, <3>4, <3>5, <3>6, <3>7, <3>8, <3>9 DEF Handler
  <2> QED
    BY <2>1, <2>2, <2>4, StreamSets DEF PcInv, Early, IsMsg
<1>8. CASE App
  <2>1. UNCHANGED <<uniPc, task, item, half>>
    BY ZenonT(30), <1>8
       DEF App, Recv, RecvNone, DropIncoming, DropConnection, AppLock,
                AppUnlock, DropStream, Close, ConnLost
  <2> QED
    BY <1>1, <2>1 DEF Early
<1>9. CASE UNCHANGED vars
  BY ZenonT(30), <1>1, <1>9 DEF vars, Early
<1> QED
  BY <1>2, <1>3, <1>4, <1>5, <1>6, <1>7, <1>8, <1>9
     DEF Next, BiStep, BiSourceFails, BiNotAlive

-----------------------------------------------------------------------------
(***************************************************************************)
(* What a step does to the messages on their way: it leaves them alone, or *)
(* is one of the following.                                                *)
(***************************************************************************)
\* Task t takes the result of reading stream s in hand: a message or a request
\* past which it has advanced, or an error.
Takes(t, s) ==
  \E r \in Results \cup {"EchoReq", "VerificationReq"} :
    /\ ~IsMsg(item[t])
    /\ item' = [item EXCEPT ![t] = Item(r, s, pos[s] + 1)]
    /\ \/ Advance(s) /\ (inbox[s][pos[s] + 1] = "UserMsg" => r = "UserMsg")
       \/ UNCHANGED pos /\ r # "UserMsg"
    /\ r = "ConnectionLost" => conn # "Alive" /\ (~Benign(conn) \/ partial[s])
    /\ UNCHANGED <<inbox, log>>

\* The handler of b, with nothing to send, passes over a frame that is no
\* message.
Passes(b) ==
  /\ ~IsMsg(item[b])
  /\ Advance(b) /\ inbox[b][pos[b] + 1] # "UserMsg"
  /\ UNCHANGED <<inbox, item, log>>

\* Task t puts what it has in hand in the channel.
Puts(t) == Sent(t) /\ UNCHANGED pos

\* Task t gives up what it has in hand: no message, unless nobody receives.
Leaves(t) ==
  /\ \/ item' = [item EXCEPT ![t] = NoItem]
     \/ item' = [item EXCEPT ![t] = Item("ConnectionLost", 0, 0)] /\ Failed
  /\ IsMsg(item[t]) => ~rxOpen
  /\ UNCHANGED <<pos, log>>

\* The handlers are dropped with what they have in hand, when nobody receives
\* or the connection failed.
Abandons ==
  /\ item' = [t \in Bi \cup {0} |-> IF t = 0 THEN item[0] ELSE NoItem]
  /\ biPc' = "done"
  /\ ~rxOpen \/ Failed
  /\ UNCHANGED <<pos, log>>

Effect ==
  \/ UNCHANGED <<item, pos, log>>
  \/ \E t \in Bi \cup {0}, s \in Streams : ReadsFor(t, s) /\ Takes(t, s)
  \/ \E b \in Bi : Passes(b)
  \/ \E t \in Bi \cup {0} : Puts(t) \/ Leaves(t)
  \/ Abandons

\* Every step has one of these effects.
LEMMA StepEffect == TypeOK /\ PcInv /\ [Next]_vars => Effect
<1> SUFFICES ASSUME TypeOK, PcInv, [Next]_vars PROVE Effect
  OBVIOUS
<1> USE DEF quinnVars, uniVars, biVars, chanVars, appVars, ListenersUnchanged
<1> DEFINE Still == UNCHANGED <<item, pos, log>>
<1>1. Peer \/ ImplicitClose \/ App \/ UNCHANGED vars => Still
  <2>1. Peer \/ ImplicitClose => Still
    BY ZenonT(30)
       DEF Peer, ImplicitClose, PeerOpen, PeerSend, PeerSendPart, PeerFinish,
           PeerReset, ConnLost
  <2>2. App => Still
    BY ZenonT(30)
       DEF App, Recv, RecvNone, DropIncoming, DropConnection, AppLock,
           AppUnlock, DropStream, Close, ConnLost
  <2>3. UNCHANGED vars => Still
    BY DEF vars
  <2> QED
    BY <2>1, <2>2, <2>3
<1>2. BiStep => Still \/ Abandons
  <2>1. BiSourceFails \/ BiNotAlive => Abandons
    BY ZenonT(30) DEF BiSourceFails, BiNotAlive, BiStop, Abandons, SourceFails,
                      Exhausted, NotAlive, Failed
  <2> QED
    BY ZenonT(30), <2>1 DEF BiStep, BiAccept, BiSourceEnds, BiDrained
<1>3. ASSUME UniStep \/ UniSend PROVE Effect
  <2>1. CASE UniSend
    BY ZenonT(30), <2>1 DEF UniSend, Puts, Effect
  <2>2. CASE UniSourceFails
    <3>1. ~IsMsg(item[0])
      BY <2>2 DEF PcInv, UniSourceFails
    <3>2. Leaves(0)
      BY <2>2, <3>1
         DEF UniSourceFails, SourceFails, Exhausted, Failed, Leaves
    <3> QED
      BY <3>2 DEF Effect
  <2>3. CASE UniSendFails
    <3>1. Leaves(0)
      BY <2>3 DEF UniSendFails, ChanClosed, Leaves
    <3> QED
      BY <3>1 DEF Effect
  <2>4. CASE UniReadMsg \/ UniReadOther \/ UniReadFails
    <3>1. /\ uniCur \in Uni /\ uniCur \in Streams /\ uniPc = "next"
          /\ UNCHANGED <<inbox, log>>
      BY <2>4, StreamSets DEF UniReadMsg, UniReadOther, UniReadFails, UniReads,
                              TypeOK, ListenerTypeOK
    <3>2. ~IsMsg(item[0])
      BY <3>1 DEF PcInv
    <3>3. Takes(0, uniCur)
      <4>1. CASE UniReadMsg
        BY ZenonT(20), <3>1, <3>2, <4>1
           DEF Takes, UniReadMsg, Hand, Results
      <4>2. CASE UniReadOther
        <5>1. inbox[uniCur][pos[uniCur] + 1] # "UserMsg"
          BY ZenonT(30), <3>1, <4>2, ReadResult DEF UniReadOther, UniReads
        <5> QED
          BY ZenonT(20), <3>1, <3>2, <4>2, <5>1
             DEF Takes, UniReadOther, Hand, Results
      <4>3. CASE UniReadFails
        <5> DEFINE r == read_from_stream(uniCur)
        <5>1. /\ r \in ReadErrors
              /\ r = "ConnectionLost" =>
                   conn # "Alive" /\ (~Benign(conn) \/ partial[uniCur])
          BY ZenonT(30), <3>1, <4>3, ReadResult DEF UniReadFails, UniReads
        <5>2. /\ item' = [item EXCEPT ![0] = Item(r, uniCur, pos[uniCur] + 1)]
              /\ UNCHANGED pos
          BY <4>3 DEF UniReadFails, Hand
        <5> HIDE DEF r
        <5> QED
          BY ZenonT(30), <3>1, <3>2, <5>1, <5>2 DEF Takes, Results, ReadErrors
      <4> QED
        BY <2>4, <4>1, <4>2, <4>3
    <3> QED
      BY ZenonT(30), <3>1, <3>3 DEF Effect, ReadsFor
  <2>5. CASE Still
    BY <2>5 DEF Effect
  <2> QED
    BY <1>3, <2>1, <2>2, <2>3, <2>4, <2>5
       DEF UniStep, UniAccept, UniSourceEnds, UniReadEnd, UniNotAlive
<1>4. ASSUME NEW b \in Bi, Handler(b) \/ BiSend(b) \/ BiLock(b) \/ BiReply(b)
      PROVE  Effect
  <2>0. b \in Streams /\ ReadsFor(b, b) /\ (IsMsg(item[b]) => task[b] = "send")
    BY StreamSets DEF ReadsFor, PcInv
  <2> DEFINE r == read_from_stream(b)
  <2>1. CASE BiSend(b)
    BY ZenonT(30), <2>1 DEF BiSend, Puts, Effect
  <2>2. CASE BiSendFails(b) \/ BiReply(b)
    <3>1. Leaves(b)
      BY <2>0, <2>2 DEF BiSendFails, BiReply, ChanClosed, Leaves
    <3> QED
      BY ZenonT(30), <3>1 DEF Effect
  <2>3. CASE BiReadResponse(b)
    <3>1. Passes(b)
      BY ZenonT(30), <2>0, <2>3, ReadResult
         DEF BiReadResponse, BiReads, Passes, FrameKinds
    <3> QED
      BY <3>1 DEF Effect
  <2>4. CASE BiReadFrame(b) \/ BiReadReq(b)
    <3>1. /\ ~IsMsg(item[b])
          /\ r \in {"UserMsg", "Malformed", "EchoReq", "VerificationReq"}
          /\ Advance(b) /\ UNCHANGED <<inbox, log>>
      BY ZenonT(30), <2>0, <2>4 DEF BiReadFrame, BiReadReq, BiReads
    <3>2. r = inbox[b][pos[b] + 1]
      BY ZenonT(20), <2>0, <3>1, ReadResult DEF FrameKinds
    <3>3. \E x \in Results \cup {"EchoReq", "VerificationReq"} :
            /\ item' = [item EXCEPT ![b] = Item(x, b, pos[b] + 1)]
            /\ r = "UserMsg" => x = "UserMsg"
            /\ x # "ConnectionLost"
      BY ZenonT(30), <2>4, <3>1
         DEF BiReadFrame, BiReadReq, BiReads, Hand, Results
    <3>4. Takes(b, b)
      BY ZenonT(30), <3>1, <3>2, <3>3 DEF Takes
    <3> QED
      BY ZenonT(20), <2>0, <3>4 DEF Effect
  <2>5. CASE BiReadFails(b)
    <3>1. /\ ~IsMsg(item[b]) /\ r \in ReadErrors
          /\ UNCHANGED <<inbox, pos, log>>
          /\ item' = [item EXCEPT ![b] = Item(r, b, pos[b] + 1)]
      BY ZenonT(30), <2>0, <2>5 DEF BiReadFails, BiReads, Hand
    <3>2. r = "ConnectionLost" =>
            conn # "Alive" /\ (~Benign(conn) \/ partial[b])
      BY ZenonT(30), <2>0, ReadResult
    <3> HIDE DEF r
    <3>3. Takes(b, b)
      BY ZenonT(30), <3>1, <3>2 DEF Takes, Results, ReadErrors
    <3> QED
      BY ZenonT(30), <2>0, <3>3 DEF Effect
  <2>6. CASE BiReadEnd(b) \/ BiLock(b)
    BY <2>6 DEF BiReadEnd, BiLock, Effect
  <2> QED
    BY <1>4, <2>1, <2>2, <2>3, <2>4, <2>5, <2>6 DEF Handler
<1> QED
  BY <1>1, <1>2, <1>3, <1>4 DEF Next, Effect

-----------------------------------------------------------------------------
(***************************************************************************)
(* The order of the messages of one stream.                                *)
(***************************************************************************)

\* A stream is read by one task only.
LEMMA OneReader ==
  ASSUME NEW t, NEW u, NEW s, ReadsFor(t, s), ReadsFor(u, s)
  PROVE  t = u /\ s \in Streams
BY ZenonT(30), StreamSets DEF ReadsFor

\* Every step keeps the order.
LEMMA OrderInvNext == TypeOK /\ OrderInv /\ Effect => OrderInv'
<1> SUFFICES ASSUME TypeOK, OrderInv, Effect PROVE OrderInv'
  OBVIOUS
<1> DEFINE T == Bi \cup {0}
<1>0. /\ item \in [T -> Items] /\ pos \in [Streams -> Nat]
      /\ log \in Seq(Items) /\ Len(log) \in Nat /\ DOMAIN log = 1 .. Len(log)
      /\ \A t \in T : item[t].idx \in Nat
      /\ \A i \in 1 .. Len(log) : log[i].idx \in Nat
  <2>1. /\ item \in [T -> Items] /\ pos \in [Streams -> Nat]
        /\ log \in Seq(Items) /\ Len(log) \in Nat /\ DOMAIN log = 1 .. Len(log)
    BY DEF TypeOK, ReadTypeOK, ListenerTypeOK, ChanTypeOK
  <2>2. \A x \in Items : x.idx \in Nat
    BY DEF Items
  <2>3. /\ \A t \in T : item[t] \in Items
        /\ \A i \in 1 .. Len(log) : log[i] \in Items
    BY <2>1
  <2> QED
    BY Zenon, <2>1, <2>2, <2>3
<1> DEFINE Own(t) == IsMsg(item[t]) => /\ ReadsFor(t, item[t].stream)
                                       /\ item[t].idx = pos[item[t].stream]
           Past(i) == IsMsg(log[i]) => /\ log[i].stream \in Streams
                                       /\ log[i].idx <= pos[log[i].stream]
           Before(i, t) == IsMsg(log[i]) /\ IsMsg(item[t])
                             /\ log[i].stream = item[t].stream
                             => log[i].idx < item[t].idx
<1>1. /\ \A t \in T : Own(t)
      /\ \A i \in 1 .. Len(log) : Past(i)
      /\ \A i \in 1 .. Len(log), t \in T : Before(i, t)
      /\ InOrder
  BY ZenonT(30) DEF OrderInv
<1>2. ASSUME UNCHANGED log, \A t \in T : Own(t)',
             \A s \in Streams : pos[s] <= pos'[s] /\ pos'[s] \in Nat,
             \A i \in 1 .. Len(log), t \in T : Before(i, t)'
      PROVE  OrderInv'
  <2>1. InOrder'
    BY ZenonT(20), <1>1, <1>2 DEF InOrder
  <2>2. \A i \in 1 .. Len(log) : Past(i)'
    <3> SUFFICES ASSUME NEW i \in 1 .. Len(log), IsMsg(log[i])
                 PROVE  log[i].stream \in Streams
                        /\ log[i].idx <= pos'[log[i].stream]
      BY ZenonT(30), <1>2 DEF IsMsg
    <3> DEFINE s == log[i].stream
    <3>1. s \in Streams /\ log[i].idx <= pos[s]
      BY <1>1
    <3>2. log[i].idx \in Nat /\ pos[s] \in Nat
      BY Zenon, <1>0, <3>1
    <3>3. pos'[s] \in Nat /\ pos[s] <= pos'[s]
      BY Zenon, <1>2, <3>1
    <3> HIDE DEF s
    <3>4. log[i].idx <= pos'[s]
      BY <3>1, <3>2, <3>3
    <3> QED
      BY Zenon, <3>1, <3>4 DEF s
  <2> QED
    BY <1>2, <2>1, <2>2 DEF OrderInv
<1>3. ASSUME UNCHANGED <<pos, log>>,
             \A t \in T : IsMsg(item'[t]) => item'[t] = item[t]
      PROVE  OrderInv'
  <2>1. \A t \in T : Own(t)'
    BY ZenonT(30), <1>1, <1>3 DEF IsMsg
  <2>2. \A i \in 1 .. Len(log), t \in T : Before(i, t)'
    BY <1>1, <1>3 DEF IsMsg
  <2> QED
    <3>1. \A s \in Streams : pos[s] <= pos'[s] /\ pos'[s] \in Nat
      BY <1>0, <1>3
    <3> QED
      BY ZenonT(30), <1>2, <1>3, <2>1, <2>2, <3>1
<1>4. ASSUME NEW t \in T, NEW s \in Streams, ReadsFor(t, s), Takes(t, s)
      PROVE  OrderInv'
  <2>1. PICK r \in Results \cup {"EchoReq", "VerificationReq"} :
          /\ ~IsMsg(item[t]) /\ UNCHANGED log
          /\ item' = [item EXCEPT ![t] = Item(r, s, pos[s] + 1)]
          /\ Advance(s) \/ (UNCHANGED pos /\ r # "UserMsg")
    BY ZenonT(30), <1>4 DEF Takes
  <2>2. \A u \in T : item'[u] = IF u = t THEN Item(r, s, pos[s] + 1)
                                ELSE item[u]
    BY ZenonT(30), <1>0, <2>1
  <2>3. CASE UNCHANGED pos /\ r # "UserMsg"
    BY <1>3, <2>1, <2>2, <2>3 DEF IsMsg, Item
  <2>4. CASE Advance(s)
    <3>1. \A q \in Streams : /\ pos'[q] = IF q = s THEN pos[s] + 1 ELSE pos[q]
                             /\ pos[q] \in Nat
      BY <1>0, <2>4 DEF Advance
    <3>2. /\ Item(r, s, pos[s] + 1).stream = s
          /\ Item(r, s, pos[s] + 1).idx = pos[s] + 1
      BY ZenonT(30) DEF Item
    <3>3. \A u \in T : Own(u)'
      <4> SUFFICES ASSUME NEW u \in T, IsMsg(item'[u])
                   PROVE  /\ ReadsFor(u, item'[u].stream)
                          /\ item'[u].idx = pos'[item'[u].stream]
        BY ZenonT(30) DEF ReadsFor, IsMsg
      <4>1. CASE u = t
        BY <1>4, <2>2, <3>1, <3>2, <4>1
      <4>2. CASE u # t
        <5>1. item'[u] = item[u] /\ Own(u) /\ IsMsg(item[u])
          BY ZenonT(20), <1>1, <2>2, <4>2
        <5>2. item[u].stream # s /\ item[u].stream \in Streams
          BY ZenonT(20), <1>4, <4>2, <5>1, OneReader
        <5> QED
          BY ZenonT(30), <3>1, <5>1, <5>2
      <4> QED
        BY <4>1, <4>2
    <3>4. \A i \in 1 .. Len(log), u \in T : Before(i, u)'
      <4> SUFFICES ASSUME NEW i \in 1 .. Len(log), NEW u \in T,
                          IsMsg(log[i]), IsMsg(item'[u]),
                          log[i].stream = item'[u].stream
                   PROVE  log[i].idx < item'[u].idx
        BY ZenonT(30), <2>1 DEF IsMsg
      <4>1. CASE u = t
        <5>1. log[i].stream = s /\ item'[u].idx = pos[s] + 1
          BY ZenonT(20), <2>2, <3>2, <4>1
        <5>2. log[i].idx <= pos[s] /\ log[i].idx \in Nat /\ pos[s] \in Nat
          BY ZenonT(30), <1>0, <1>1, <5>1
        <5> QED
          BY <5>1, <5>2
      <4>2. CASE u # t
        BY ZenonT(30), <1>1, <2>2, <4>2
      <4> QED
        BY ZenonT(30), <4>1, <4>2
    <3>5. \A q \in Streams : pos[q] <= pos'[q] /\ pos'[q] \in Nat
      BY <3>1
    <3> QED
      BY ZenonT(30), <1>2, <2>1, <3>3, <3>4, <3>5
  <2> QED
    BY <2>1, <2>3, <2>4
<1>5. ASSUME NEW b \in Bi, Passes(b) PROVE OrderInv'
  <2>1. /\ \A q \in Streams : /\ pos'[q] = IF q = b THEN pos[b] + 1 ELSE pos[q]
                              /\ pos[q] \in Nat
        /\ ~IsMsg(item[b]) /\ UNCHANGED <<item, log>>
    BY <1>0, <1>5, StreamSets DEF Passes, Advance
  <2>2. \A u \in T : Own(u)'
    <3> SUFFICES ASSUME NEW u \in T, IsMsg(item[u])
                 PROVE  /\ ReadsFor(u, item[u].stream)
                        /\ item[u].idx = pos'[item[u].stream]
      BY ZenonT(30), <2>1 DEF ReadsFor, IsMsg
    <3>1. Own(u) /\ u # b /\ ReadsFor(b, b)
      BY ZenonT(30), <1>1, <2>1 DEF ReadsFor
    <3>2. item[u].stream # b /\ item[u].stream \in Streams
      BY ZenonT(30), <3>1, OneReader
    <3> QED
      BY ZenonT(30), <2>1, <3>1, <3>2
  <2>3. \A i \in 1 .. Len(log), u \in T : Before(i, u)'
    BY ZenonT(30), <1>1, <2>1 DEF IsMsg
  <2>4. \A q \in Streams : pos[q] <= pos'[q] /\ pos'[q] \in Nat
    BY <2>1
  <2> QED
    BY ZenonT(30), <1>2, <2>1, <2>2, <2>3, <2>4
<1>6. ASSUME NEW t \in T, Puts(t) PROVE OrderInv'
  <2>1. /\ Len(log') = Len(log) + 1 /\ log'[Len(log) + 1] = item[t]
        /\ \A i \in 1 .. Len(log) : log'[i] = log[i]
        /\ DOMAIN log' = 1 .. Len(log) + 1
    BY ZenonT(20), <1>6, SentTypeOK DEF Puts
  <2>2. /\ \A u \in T : item'[u] = IF u = t THEN NoItem ELSE item[u]
        /\ UNCHANGED pos /\ ~IsMsg(NoItem)
    BY ZenonT(30), <1>0, <1>6 DEF Puts, Sent, NoItem, Item, IsMsg
  <2>3. \A u \in T : Own(u)'
    BY ZenonT(30), <1>1, <2>2 DEF ReadsFor, IsMsg
  <2>4. \A i \in 1 .. Len(log') : Past(i)'
    <3> SUFFICES ASSUME NEW i \in 1 .. Len(log) + 1, IsMsg(log'[i])
                 PROVE  /\ log'[i].stream \in Streams
                        /\ log'[i].idx <= pos[log'[i].stream]
      BY ZenonT(30), <2>1, <2>2 DEF IsMsg
    <3>1. CASE i \in 1 .. Len(log)
      BY ZenonT(30), <1>1, <2>1, <3>1
    <3>2. CASE i = Len(log) + 1
      <4>1. log'[i] = item[t] /\ Own(t)
        BY <1>1, <2>1, <3>2
      <4>2. item[t].stream \in Streams /\ item[t].idx = pos[item[t].stream]
        BY <4>1, OneReader
      <4> QED
        BY <1>0, <4>1, <4>2
    <3>3. i \in 1 .. Len(log) \/ i = Len(log) + 1
      BY <1>0
    <3> QED
      BY <3>1, <3>2, <3>3
  <2>5. \A i \in 1 .. Len(log'), u \in T : Before(i, u)'
    <3> SUFFICES ASSUME NEW i \in 1 .. Len(log) + 1, NEW u \in T,
                        IsMsg(log'[i]), IsMsg(item'[u]),
                        log'[i].stream = item'[u].stream
                 PROVE  log'[i].idx < item'[u].idx
      BY <2>1 DEF IsMsg
    <3>1. u # t /\ item'[u] = item[u] /\ Own(u)
      BY ZenonT(20), <1>1, <2>2
    <3>2. CASE i \in 1 .. Len(log)
      BY ZenonT(20), <1>1, <2>1, <3>1, <3>2
    <3>3. CASE i = Len(log) + 1
      <4>1. Own(t) /\ log'[i] = item[t]
        BY <1>1, <2>1, <3>3
      <4> QED
        BY ZenonT(30), <3>1, <4>1, OneReader
    <3> QED
      BY <1>0, <3>2, <3>3
  <2>6. InOrder'
    <3> SUFFICES ASSUME NEW i \in 1 .. Len(log) + 1,
                        NEW j \in 1 .. Len(log) + 1,
                        i < j, IsMsg(log'[i]), IsMsg(log'[j]),
                        log'[i].stream = log'[j].stream
                 PROVE  log'[i].idx < log'[j].idx
      BY ZenonT(30), <2>1 DEF InOrder, IsMsg
    <3>1. i \in 1 .. Len(log) /\ log'[i] = log[i]
      BY <1>0, <2>1
    <3>2. CASE j = Len(log) + 1
      BY ZenonT(20), <1>1, <2>1, <3>1, <3>2
    <3>3. CASE j \in 1 .. Len(log)
      BY ZenonT(20), <1>0, <1>1, <2>1, <3>1, <3>3 DEF InOrder, IsMsg
    <3>4. Len(log) \in Nat
      BY <1>0
    <3>5. j \in 1 .. Len(log) \/ j = Len(log) + 1
      BY <3>4
    <3> QED
      BY ZenonT(30), <3>2, <3>3, <3>5
  <2> QED
    BY ZenonT(30), <2>3, <2>4, <2>5, <2>6 DEF OrderInv
<1>7. ASSUME NEW t \in T, Leaves(t) PROVE OrderInv'
  <2>1. \A u \in T : IsMsg(item'[u]) => item'[u] = item[u]
    BY <1>0, <1>7 DEF Leaves, NoItem, Item, IsMsg
  <2> QED
    BY ZenonT(30), <1>3, <1>7, <2>1 DEF Leaves
<1>8. CASE Abandons
  <2>1. \A u \in T : IsMsg(item'[u]) => item'[u] = item[u]
    BY <1>0, <1>8 DEF Abandons, NoItem, Item, IsMsg
  <2> QED
    BY ZenonT(30), <1>3, <1>8, <2>1 DEF Abandons
<1>9. CASE UNCHANGED <<item, pos, log>>
  BY <1>3, <1>9
<1> QED
  BY <1>4, <1>5, <1>6, <1>7, <1>8, <1>9 DEF Effect

\* The invariants so far hold in every state.
LEMMA InvCorrect == Spec => [](TypeOK /\ PcInv /\ OrderInv)
<1>1. Init => OrderInv
  <2>1. Init => \A t \in Bi \cup {0} : ~IsMsg(item[t])
    BY DEF Init, IsMsg, NoItem, Item
  <2>2. Init => 1 .. Len(log) = {} /\ DOMAIN log = {}
    BY DEF Init
  <2> QED
    BY ZenonT(30), <2>1, <2>2 DEF OrderInv, InOrder
<1>2. TypeOK /\ PcInv /\ OrderInv /\ [Next]_vars => OrderInv'
  BY StepEffect, OrderInvNext
<1> QED
  BY <1>1, <1>2, TypeCorrect, PcInvInit, PcInvNext, PTL DEF Spec

\* The messages of one stream enter the channel in the order they were sent,
\* none of them twice.
THEOREM InOrderHolds == Spec => []InOrder
<1>1. OrderInv => InOrder
  BY DEF OrderInv
<1> QED
  BY <1>1, InvCorrect, PTL
=============================================================================
