--------------------------- MODULE WireMsgProofs ---------------------------
(***************************************************************************)
(* Theorems about WireMsg, for every number of values a byte may have.     *)
(***************************************************************************)
EXTENDS WireMsg, SequenceTheorems, WellFoundedInduction, TLAPS

\* Division by Base: the quotient of a number below Base * m is below m, the
\* remainder is a byte, and together they give the number back.
LEMMA Quotient ==
  ASSUME NEW n \in Nat, NEW m \in Nat, NEW q \in Int, NEW r \in 0 .. Base - 1,
         n = Base * q + r, n < Base * m
  PROVE  q \in 0 .. m - 1 /\ q * Base + r = n
<1>1. q >= 0
  BY WireAssumption
<1>2. q < m
  <2>1. SUFFICES ASSUME q >= m PROVE FALSE
    OBVIOUS
  <2>2. Base * q >= Base * m
    BY <2>1, WireAssumption
  <2> QED
    BY <2>2, WireAssumption
<1>3. q * Base = Base * q
  BY WireAssumption
<1> QED
  BY <1>1, <1>2, <1>3, WireAssumption

\* The same for the operators \div and %.
LEMMA DivMod ==
  ASSUME NEW n \in Nat, NEW m \in Nat, n < Base * m,
         NEW q, NEW r, q = n \div Base, r = n % Base
  PROVE  q \in 0 .. m - 1 /\ r \in Byte /\ q * Base + r = n
<1>1. q \in Int /\ r \in 0 .. Base - 1 /\ n = Base * q + r
  BY WireAssumption
<1> QED
  BY <1>1, Quotient DEF Byte

\* The bytes of the length of a message give the length back.
LEMMA LengthRoundTrip ==
  ASSUME NEW n \in 0 .. U32 - 1
  PROVE  LET b == to_be_bytes4(n) IN
         /\ b[1] \in Byte /\ b[2] \in Byte /\ b[3] \in Byte /\ b[4] \in Byte
         /\ from_be_bytes4(b[1], b[2], b[3], b[4]) = n
<1> DEFINE B2 == Base * Base
           B3 == B2 * Base
<1>1. B2 \in Nat /\ B3 \in Nat /\ U32 = Base * B3 /\ B3 = Base * B2
  BY WireAssumption DEF U32
<1>2. n \in Nat /\ n < Base * B3 /\ Base \in Nat
  BY <1>1, WireAssumption
<1>3. PICK n3, d : n3 = n \div Base /\ d = n % Base
  OBVIOUS
<1>4. PICK n2, c : n2 = n3 \div Base /\ c = n3 % Base
  OBVIOUS
<1>5. PICK n1, b : n1 = n2 \div Base /\ b = n2 % Base
  OBVIOUS
<1>6. to_be_bytes4(n) = <<n1, b, c, d>>
  BY <1>3, <1>4, <1>5, Zenon DEF to_be_bytes4
<1> HIDE DEF B2, B3
<1>7. n3 \in 0 .. B3 - 1 /\ d \in Byte /\ n3 * Base + d = n
  BY <1>1, <1>2, <1>3, DivMod, Zenon
<1>8. n3 \in Nat /\ n3 < Base * B2
  BY <1>1, <1>7
<1>9. n2 \in 0 .. B2 - 1 /\ c \in Byte /\ n2 * Base + c = n3
  BY <1>1, <1>8, <1>4, DivMod, Zenon
<1>10. n2 \in Nat /\ n2 < Base * Base
  BY <1>1, <1>9 DEF B2
<1>11. n1 \in Byte /\ b \in Byte /\ n1 * Base + b = n2
  BY <1>2, <1>10, <1>5, DivMod, Zenon DEF Byte
<1>12. from_be_bytes4(n1, b, c, d) = n
  BY <1>7, <1>9, <1>11, Zenon DEF from_be_bytes4
<1> QED
  BY <1>6, <1>7, <1>9, <1>11, <1>12

\* The two bytes of the version give it back.
LEMMA VersionRoundTrip ==
  ASSUME NEW n \in 0 .. Base * Base - 1
  PROVE  LET b == to_be_bytes2(n) IN
         /\ b[1] \in Byte /\ b[2] \in Byte
         /\ from_be_bytes2(b[1], b[2]) = n
<1>1. n \in Nat /\ n < Base * Base /\ Base \in Nat
  BY WireAssumption
<1>2. PICK q, r : q = n \div Base /\ r = n % Base
  OBVIOUS
<1>3. q \in Byte /\ r \in Byte /\ q * Base + r = n
  BY <1>1, <1>2, DivMod, Zenon DEF Byte
<1>4. to_be_bytes2(n) = <<q, r>>
  BY <1>2, Zenon DEF to_be_bytes2
<1> QED
  BY <1>3, <1>4 DEF from_be_bytes2

Headers == [version : 0 .. Base * Base - 1, data_len : 0 .. U32 - 1,
            usr_msg_flag : Byte]

\* MsgHeader::from_bytes undoes MsgHeader::to_bytes for every header: the
\* reader learns the length of the data and the flag that were written, for
\* every length that MsgHeader::new accepts.
THEOREM HeaderRoundTrip ==
  ASSUME NEW h \in Headers
  PROVE  /\ to_bytes(h) \in [1 .. MSG_HEADER_LEN -> Byte]
         /\ from_bytes(to_bytes(h)) = h
<1> DEFINE v == to_be_bytes2(h.version)  d == to_be_bytes4(h.data_len)
<1>1. /\ v[1] \in Byte /\ v[2] \in Byte
      /\ from_be_bytes2(v[1], v[2]) = h.version
  BY VersionRoundTrip DEF Headers
<1>2. /\ d[1] \in Byte /\ d[2] \in Byte /\ d[3] \in Byte /\ d[4] \in Byte
      /\ from_be_bytes4(d[1], d[2], d[3], d[4]) = h.data_len
  BY LengthRoundTrip DEF Headers
<1>3. to_bytes(h) = <<v[1], v[2], d[1], d[2], d[3], d[4], h.usr_msg_flag, 0, 0>>
  BY DEF to_bytes
<1> HIDE DEF v, d
<1>4. h.usr_msg_flag \in Byte /\ 0 \in Byte
  BY WireAssumption DEF Headers, Byte
<1>5. to_bytes(h) \in [1 .. MSG_HEADER_LEN -> Byte]
  BY <1>1, <1>2, <1>3, <1>4 DEF MSG_HEADER_LEN
<1>6. from_bytes(to_bytes(h)) = [version |-> h.version, data_len |-> h.data_len,
                                 usr_msg_flag |-> h.usr_msg_flag]
  BY <1>1, <1>2, <1>3 DEF from_bytes
<1> QED
  BY <1>5, <1>6 DEF Headers
-----------------------------------------------------------------------------
(***************************************************************************)
(* Where the frames end.  FrameEnd is a recursive function of the messages *)
(* sent, so its equation is proved first, by induction on the number of    *)
(* frames.                                                                 *)
(***************************************************************************)

\* A set that holds 0 and the successor of each of its numbers holds them all.
LEMMA NatSetInduction ==
  ASSUME NEW S, 0 \in S, \A n \in Nat : n \in S => n + 1 \in S
  PROVE  \A n \in Nat : n \in S
<1> DEFINE T == Nat \ S  R == OpToRel(<, Nat)
<1>1. SUFFICES ASSUME T # {} PROVE FALSE
  OBVIOUS
<1>2. PICK x \in T : \A y \in T : ~(<<y, x>> \in R)
  <2>1. IsWellFoundedOn(R, Nat)
    BY NatLessThanWellFounded, Zenon
  <2>2. T \subseteq Nat
    OBVIOUS
  <2> HIDE DEF T, R
  <2> QED BY <1>1, <2>1, <2>2, WFMin, Zenon
<1>3. x \in Nat /\ x # 0 /\ x - 1 \in Nat
  OBVIOUS
<1>4. <<x - 1, x>> \in R
  BY <1>3, SMT DEF OpToRel
<1>5. x - 1 \in S
  BY <1>2, <1>3, <1>4, Zenon
<1> QED BY <1>3, <1>5

\* The end of frame k of the messages s, if f gives the ends of those before.
EndAfter(f, s, k) ==
  IF k = 0 THEN 0 ELSE f[k - 1] + MSG_HEADER_LEN + Len(Data(s[k]))

EndsOf(s) == CHOOSE f : f = [k \in Nat |-> EndAfter(f, s, k)]

\* The ends of the first n frames exist.
LEMMA EndsExist ==
  ASSUME NEW s
  PROVE  \A n \in Nat : \E f : f = [k \in 0 .. n |-> EndAfter(f, s, k)]
<1> DEFINE S == {n \in Nat : \E f : f = [k \in 0 .. n |-> EndAfter(f, s, k)]}
<1>1. 0 \in S
  <2> DEFINE f == [k \in 0 .. 0 |-> 0]
  <2>1. f = [k \in 0 .. 0 |-> EndAfter(f, s, k)]
    BY DEF EndAfter
  <2> QED BY <2>1
<1>2. ASSUME NEW n \in Nat, n \in S PROVE n + 1 \in S
  <2>1. PICK f : f = [k \in 0 .. n |-> EndAfter(f, s, k)]
    BY <1>2
  <2> DEFINE g == [k \in 0 .. n + 1 |-> IF k <= n THEN f[k] ELSE EndAfter(f, s, k)]
  <2>2. ASSUME NEW k \in 0 .. n + 1 PROVE g[k] = EndAfter(g, s, k)
    <3>1. g[k] = EndAfter(f, s, k)
      BY <2>1
    <3>2. k # 0 => k - 1 \in 0 .. n + 1 /\ k - 1 <= n
      OBVIOUS
    <3>3. k # 0 => g[k - 1] = f[k - 1]
      BY <3>2
    <3> HIDE DEF g
    <3> QED BY <3>1, <3>3 DEF EndAfter
  <2>3. g = [k \in 0 .. n + 1 |-> EndAfter(g, s, k)]
    <3>1. g = [k \in 0 .. n + 1 |-> g[k]]
      OBVIOUS
    <3> HIDE DEF g
    <3> QED BY <2>2, <3>1, Zenon
  <2> HIDE DEF g
  <2>4. n + 1 \in Nat
    OBVIOUS
  <2> QED BY <2>3, <2>4
<1>3. \A n \in Nat : n \in S
  <2> HIDE DEF S
  <2> QED BY <1>1, <1>2, NatSetInduction
<1> QED BY <1>3

\* f gives the ends of the first n frames of s; s and t agree up to n.
AreEnds(f, s, n) == \A k \in 0 .. n : f[k] = EndAfter(f, s, k)
Agree(s, t, n)   == \A k \in 1 .. n : s[k] = t[k]

\* They depend only on these frames.
LEMMA EndsAgree ==
  ASSUME NEW s, NEW t, NEW n \in Nat, NEW m \in Nat, n <= m, NEW f, NEW g,
         Agree(s, t, n), AreEnds(f, s, n), AreEnds(g, t, m)
  PROVE  \A k \in 0 .. n : f[k] = g[k]
<1> USE DEF Agree, AreEnds
<1> DEFINE S == {k \in Nat : k <= n => f[k] = g[k]}
<1>1. 0 \in S
  <2>1. f[0] = 0 /\ g[0] = 0
    BY DEF EndAfter
  <2> QED BY <2>1
<1>2. ASSUME NEW k \in Nat, k \in S PROVE k + 1 \in S
  <2> SUFFICES ASSUME k + 1 <= n PROVE f[k + 1] = g[k + 1]
    OBVIOUS
  <2>1. f[k] = g[k] /\ k + 1 \in 0 .. n /\ k + 1 \in 0 .. m
        /\ s[k + 1] = t[k + 1]
    BY <1>2
  <2>2. f[k + 1] = EndAfter(f, s, k + 1) /\ g[k + 1] = EndAfter(g, t, k + 1)
    BY <2>1
  <2>3. k + 1 # 0 /\ (k + 1) - 1 = k
    OBVIOUS
  <2> QED BY <2>1, <2>2, <2>3 DEF EndAfter
<1>3. \A k \in Nat : k \in S
  <2> HIDE DEF S
  <2> QED BY <1>1, <1>2, NatSetInduction
<1> QED BY <1>3

\* The ends of all frames satisfy the equation that defines them.
LEMMA EndsUnfold ==
  ASSUME NEW s
  PROVE  \A k \in Nat : EndsOf(s)[k] = EndAfter(EndsOf(s), s, k)
<1> DEFINE A(n) == CHOOSE f : f = [k \in 0 .. n |-> EndAfter(f, s, k)]
           F == [n \in Nat |-> A(n)[n]]
<1>1. ASSUME NEW n \in Nat
      PROVE  A(n) = [k \in 0 .. n |-> EndAfter(A(n), s, k)]
  <2>1. \E f : f = [k \in 0 .. n |-> EndAfter(f, s, k)]
    BY EndsExist, Zenon
  <2> QED BY <2>1, Zenon
<1>2. ASSUME NEW n \in Nat
      PROVE  \A k \in 0 .. n : A(n)[k] = EndAfter(A(n), s, k)
  <2> DEFINE a == A(n)
  <2>1. a = [k \in 0 .. n |-> EndAfter(a, s, k)]
    BY <1>1
  <2> HIDE DEF a
  <2>2. \A k \in 0 .. n : a[k] = EndAfter(a, s, k)
    BY <2>1, Zenon
  <2> QED BY <2>2 DEF a
<1> HIDE DEF A
<1>3. ASSUME NEW n \in Nat PROVE F[n] = EndAfter(F, s, n)
  <2>1. F[n] = EndAfter(A(n), s, n)
    BY <1>2
  <2>2. CASE n = 0
    BY <2>1, <2>2 DEF EndAfter
  <2>3. CASE n # 0
    <3>1. n - 1 \in Nat /\ n - 1 <= n /\ n - 1 \in 0 .. n - 1
      BY <2>3
    <3>2. A(n - 1)[n - 1] = A(n)[n - 1]
      <4>1. \A k \in 0 .. n - 1 : A(n - 1)[k] = EndAfter(A(n - 1), s, k)
        BY <3>1, <1>2
      <4>2. \A k \in 0 .. n : A(n)[k] = EndAfter(A(n), s, k)
        BY <1>2
      <4>3. /\ AreEnds(A(n - 1), s, n - 1) /\ AreEnds(A(n), s, n)
            /\ Agree(s, s, n - 1)
        BY <4>1, <4>2, Zenon DEF AreEnds, Agree
      <4>4. \A k \in 0 .. n - 1 : A(n - 1)[k] = A(n)[k]
        BY <3>1, <4>3, EndsAgree
      <4> QED BY <3>1, <4>4
    <3>3. F[n - 1] = A(n)[n - 1]
      BY <3>1, <3>2
    <3> HIDE DEF F
    <3> QED BY <2>1, <2>3, <3>3 DEF EndAfter
  <2> QED BY <2>2, <2>3
<1>4. F = [n \in Nat |-> EndAfter(F, s, n)]
  <2>1. F = [n \in Nat |-> F[n]]
    OBVIOUS
  <2> HIDE DEF F
  <2> QED BY <1>3, <2>1, Zenon
<1>5. EndsOf(s) = [k \in Nat |-> EndAfter(EndsOf(s), s, k)]
  <2> HIDE DEF F
  <2> QED BY <1>4, Zenon DEF EndsOf
<1> DEFINE e == EndsOf(s)
<1>6. e = [k \in Nat |-> EndAfter(e, s, k)]
  BY <1>5
<1> HIDE DEF e
<1>7. \A k \in Nat : e[k] = EndAfter(e, s, k)
  BY <1>6, Zenon
<1> QED BY <1>7 DEF e

\* The ends of frames in this and in the next state.
LEMMA FrameEndIs == FrameEnd = EndsOf(sent) /\ FrameEnd' = EndsOf(sent')
BY DEF FrameEnd, EndsOf, EndAfter

-----------------------------------------------------------------------------
(***************************************************************************)
(* Messages and their frames.                                              *)
(***************************************************************************)
HeaderOf(m) == Header(Len(Data(m)), Flag(m))
Frame(m)    == to_bytes(HeaderOf(m)) \o Data(m)

\* A user message carries bytes, and is given back by its data.
LEMMA UserData ==
  ASSUME NEW m \in UserMsgs
  PROVE  /\ m.kind = "UserMsg" /\ m.data \in Seq(Byte)
         /\ m = Message("UserMsg", m.data)
<1>1. PICK n \in Lens : m = Message("UserMsg", [i \in 1 .. n |-> 1])
  BY DEF UserMsgs
<1>2. n \in Nat /\ 1 \in Byte
  BY WireAssumption DEF Byte
<1>3. [i \in 1 .. n |-> 1] \in Seq(Byte)
  BY <1>2
<1> QED BY <1>1, <1>3 DEF Message

\* bincode writes the index of the variant of a control message.
LEMMA ControlCode ==
  ASSUME NEW v \in Variants
  PROVE  LET c == serialize(Message(v[1], <<>>)) IN
         /\ c \in Seq(Byte) /\ Len(c) = 4
         /\ c[2] * Base + c[1] = v[2]
<1>1. v[2] \in 0 .. 3 /\ \A w \in Variants : w[1] = v[1] => w = v
  BY DEF Variants
<1>2. (CHOOSE w \in Variants : w[1] = v[1]) = v
  BY <1>1
<1> DEFINE q == v[2] \div Base  r == v[2] % Base
<1>3. serialize(Message(v[1], <<>>)) = <<r, q, 0, 0>>
  BY <1>2, Zenon DEF serialize, Message
<1>4. q \in 0 .. 1 /\ r \in Byte /\ q * Base + r = v[2]
  <2>1. v[2] \in Nat /\ 2 \in Nat /\ v[2] < Base * 2
    BY <1>1, WireAssumption
  <2> QED BY <2>1, DivMod
<1> HIDE DEF q, r
<1>5. q \in Byte /\ 0 \in Byte
  BY <1>4, WireAssumption DEF Byte
<1> DEFINE c == <<r, q, 0, 0>>
<1>6. c \in Seq(Byte) /\ Len(c) = 4
  BY <1>4, <1>5
<1>7. c[1] = r /\ c[2] = q
  OBVIOUS
<1> HIDE DEF c
<1>8. c[2] * Base + c[1] = v[2]
  BY <1>4, <1>7, Zenon
<1> QED BY <1>3, <1>6, <1>8, Zenon DEF c

\* Reading the data of a control message yields the message.
LEMMA DeserializeInverts ==
  ASSUME NEW m \in ControlMsgs
  PROVE  deserialize(serialize(m)) = m
<1>1. PICK v \in Variants : m = Message(v[1], <<>>)
  BY DEF ControlMsgs
<1>2. ASSUME NEW o \in ControlMsgs, serialize(o) = serialize(m)
      PROVE  o = m
  <2>1. PICK w \in Variants : o = Message(w[1], <<>>)
    BY DEF ControlMsgs
  <2>2. w[2] = v[2]
    BY <1>1, <1>2, <2>1, ControlCode
  <2>3. w = v
    BY <2>2 DEF Variants
  <2> QED BY <1>1, <2>1, <2>3
<1> DEFINE found == {o \in ControlMsgs : serialize(o) = serialize(m)}
<1>3. found = {m}
  BY <1>2
<1>4. (CHOOSE o \in found : TRUE) = m
  BY <1>3
<1> QED BY <1>3, <1>4, Zenon DEF deserialize

\* The data of every message are bytes.
LEMMA DataBytes ==
  ASSUME NEW m \in Msgs
  PROVE  Data(m) \in Seq(Byte)
<1>1. CASE m \in UserMsgs
  BY <1>1, UserData DEF Data
<1>2. CASE m \in ControlMsgs
  <2>1. PICK v \in Variants : m = Message(v[1], <<>>)
    BY <1>2 DEF ControlMsgs
  <2>2. m.kind # "UserMsg"
    BY <2>1 DEF Message, Variants
  <2> QED BY <2>1, <2>2, ControlCode DEF Data
<1> QED BY <1>1, <1>2 DEF Msgs

\* What the reader makes of the header and the data of a message.
LEMMA DecodeOutcome ==
  ASSUME NEW m \in Msgs
  PROVE  Decode(HeaderOf(m), Data(m)) = Outcome(m)
<1> DEFINE h == HeaderOf(m)
<1>1. h.usr_msg_flag = Flag(m)
  BY DEF HeaderOf, Header
<1> HIDE DEF h
<1>2. CASE Data(m) = <<>>
  BY <1>2 DEF Decode, Outcome, h
<1>3. CASE Data(m) # <<>> /\ m \in UserMsgs
  <2>1. Flag(m) = USER_MSG_FLAG /\ Data(m) = m.data
        /\ m = Message("UserMsg", m.data)
    BY <1>3, UserData DEF Flag, Data
  <2>2. Decode(h, Data(m)) = Message("UserMsg", Data(m))
    BY <1>1, <1>3, <2>1
    DEF Decode, USER_MSG_FLAG, ECHO_SRVC_MSG_FLAG
  <2> QED BY <1>3, <2>1, <2>2 DEF h, Outcome
<1>4. CASE Data(m) # <<>> /\ m \in ControlMsgs
  <2>1. m.kind # "UserMsg"
    BY <1>4 DEF ControlMsgs, Message, Variants
  <2>2. Flag(m) = ECHO_SRVC_MSG_FLAG /\ Data(m) = serialize(m)
    BY <2>1 DEF Flag, Data
  <2>3. Decode(h, Data(m)) = deserialize(Data(m))
    BY <1>1, <1>4, <2>2
    DEF Decode, USER_MSG_FLAG, ECHO_SRVC_MSG_FLAG
  <2> QED BY <1>4, <2>2, <2>3, DeserializeInverts DEF h, Outcome
<1> QED BY <1>2, <1>3, <1>4 DEF Msgs

\* A frame is the nine bytes of the header and the data behind them.
LEMMA FrameBytes ==
  ASSUME NEW m \in Msgs, Len(Data(m)) < U32
  PROVE  /\ HeaderOf(m) \in Headers
         /\ Frame(m) \in Seq(Byte)
         /\ Len(Frame(m)) = MSG_HEADER_LEN + Len(Data(m))
         /\ \A i \in 1 .. MSG_HEADER_LEN : Frame(m)[i] = to_bytes(HeaderOf(m))[i]
         /\ \A i \in 1 .. Len(Data(m)) :
              Frame(m)[MSG_HEADER_LEN + i] = Data(m)[i]
<1> DEFINE h == HeaderOf(m)  b == to_bytes(h)
<1>1. Data(m) \in Seq(Byte) /\ Len(Data(m)) \in Nat
  BY DataBytes
<1>2. Flag(m) \in Byte /\ 1 \in 0 .. Base * Base - 1
  <2>1. Base * Base >= 2
    BY WireAssumption
  <2> QED BY <2>1, WireAssumption
          DEF Flag, USER_MSG_FLAG, ECHO_SRVC_MSG_FLAG, Byte
<1>3. Len(Data(m)) \in 0 .. U32 - 1
  BY <1>1, WireAssumption DEF U32
<1>4. h \in Headers
  BY <1>2, <1>3 DEF HeaderOf, Header, Headers, MSG_PROTOCOL_VERSION
<1>5. b \in [1 .. MSG_HEADER_LEN -> Byte]
  BY <1>4, HeaderRoundTrip
<1>6. Frame(m) = b \o Data(m)
  BY DEF Frame
<1> HIDE DEF h, b
<1>7. b \in Seq(Byte) /\ Len(b) = MSG_HEADER_LEN
  <2>1. MSG_HEADER_LEN \in Nat
    BY DEF MSG_HEADER_LEN
  <2>2. b \in Seq(Byte)
    BY <1>5, <2>1, SeqDef
  <2>3. DOMAIN b = 1 .. MSG_HEADER_LEN /\ DOMAIN b = 1 .. Len(b)
        /\ Len(b) \in Nat
    BY <1>5, <2>2, LenProperties
  <2> QED BY <2>1, <2>2, <2>3
<1>8. /\ Frame(m) \in Seq(Byte)
      /\ Len(Frame(m)) = MSG_HEADER_LEN + Len(Data(m))
      /\ \A i \in 1 .. MSG_HEADER_LEN : Frame(m)[i] = b[i]
      /\ \A i \in 1 .. Len(Data(m)) : Frame(m)[MSG_HEADER_LEN + i] = Data(m)[i]
  <2> DEFINE d == Data(m)  n == MSG_HEADER_LEN
  <2>1. n \in Nat
    BY DEF MSG_HEADER_LEN
  <2> HIDE DEF d, n
  <2>2. /\ b \o d \in Seq(Byte) /\ Len(b \o d) = n + Len(d)
        /\ \A i \in 1 .. n + Len(d) :
             (b \o d)[i] = IF i <= n THEN b[i] ELSE d[i - n]
    BY <1>1, <1>7, ConcatProperties DEF d, n
  <2>3. ASSUME NEW i \in 1 .. n PROVE (b \o d)[i] = b[i]
    BY <1>1, <2>1, <2>2 DEF d
  <2>4. ASSUME NEW i \in 1 .. Len(d) PROVE (b \o d)[n + i] = d[i]
    <3>1. n + i \in 1 .. n + Len(d) /\ ~(n + i <= n) /\ (n + i) - n = i
      BY <1>1, <2>1 DEF d
    <3> QED BY <2>2, <3>1
  <2> QED BY <1>6, <2>2, <2>3, <2>4, Zenon DEF d, n
<1> QED BY <1>4, <1>8, Zenon DEF h, b

-----------------------------------------------------------------------------
(***************************************************************************)
(* The type invariant.                                                     *)
(***************************************************************************)

\* What a task writes is a message, and no task has the name of the free mutex.
LEMMA WriterMsgs ==
  ASSUME NEW w \in Writers
  PROVE  MayWrite(w) \subseteq Msgs /\ w # "none"
<1>1. w \in {"app", "handler", "endpoint"}
  BY WireAssumption
<1>2. \/ w = "app" /\ MayWrite(w) = UserMsgs
      \/ w # "app" /\ MayWrite(w) \subseteq ControlMsgs
  BY <1>1 DEF MayWrite
<1> QED BY <1>1, <1>2 DEF Msgs

\* A header made of bytes announces a natural number of bytes.
LEMMA LengthIsNat ==
  ASSUME NEW h \in [1 .. MSG_HEADER_LEN -> Byte]
  PROVE  from_bytes(h).data_len \in Nat
<1>1. h[3] \in Nat /\ h[4] \in Nat /\ h[5] \in Nat /\ h[6] \in Nat
  BY WireAssumption DEF MSG_HEADER_LEN, Byte
<1>2. \A a, b \in Nat : a * Base + b \in Nat
  BY WireAssumption
<1>3. from_be_bytes4(h[3], h[4], h[5], h[6]) \in Nat
  BY <1>1, <1>2, Zenon DEF from_be_bytes4
<1> QED BY <1>3 DEF from_bytes

\* A frame that is begun: its header fits, and what is to write is its frame.
LEMMA BeginFrame ==
  ASSUME NEW w \in Writers, NEW m \in MayWrite(w), Begin(w, m)
  PROVE  /\ m \in Msgs /\ Len(Data(m)) < U32
         /\ todo' = Frame(m)
<1>1. PICK h \in MsgHeader_new(Len(Data(m)), Flag(m)) :
        todo' = to_bytes(h) \o Data(m)
  BY DEF Begin
<1>2. Len(Data(m)) < U32 /\ h = HeaderOf(m)
  BY <1>1 DEF MsgHeader_new, HeaderOf
<1> QED BY <1>1, <1>2, WriterMsgs DEF Frame

\* The order in which bytes are put together does not matter.
LEMMA JoinBytes ==
  \A s, t, u \in Seq(Byte) : (s \o t) \o u = s \o (t \o u)
BY ConcatAssociative, SMT

\* write_all splits what is to write: the bytes of the stream stay the same.
LEMMA WriteBytes ==
  ASSUME WireTypeOK, NEW n \in 1 .. Len(todo), Write(n)
  PROVE  /\ wire' \in Seq(Byte) /\ todo' \in Seq(Byte)
         /\ Len(wire') = Len(wire) + n /\ Len(todo') = Len(todo) - n
         /\ \A i \in 1 .. Len(wire) : wire'[i] = wire[i]
         /\ wire' \o todo' = wire \o todo
<1>1. /\ todo \in Seq(Byte) /\ wire \in Seq(Byte)
      /\ Len(todo) \in Nat /\ Len(wire) \in Nat
  BY DEF WireTypeOK
<1> DEFINE a == SubSeq(todo, 1, n)  b == SubSeq(todo, n + 1, Len(todo))
<1>2. wire' = wire \o a /\ todo' = b
  BY DEF Write
<1>3. a \in Seq(Byte) /\ Len(a) = n
  <2>1. \A i \in 1 .. n : todo[i] \in Byte
    BY <1>1
  <2> QED BY <2>1, <1>1, SubSeqProperties
<1>4. b \in Seq(Byte) /\ Len(b) = Len(todo) - n
  <2>1. \A i \in n + 1 .. Len(todo) : todo[i] \in Byte
    BY <1>1
  <2>2. /\ n + 1 \in Int /\ Len(todo) \in Int
        /\ (IF n + 1 <= Len(todo) THEN Len(todo) - (n + 1) + 1 ELSE 0)
             = Len(todo) - n
    BY <1>1
  <2> QED BY <2>1, <2>2, SubSeqProperties
<1>5. a \o b = todo
  <2>1. /\ 1 \in 1 .. Len(todo) + 1 /\ n \in 1 - 1 .. Len(todo)
        /\ Len(todo) \in n .. Len(todo)
    BY <1>1
  <2>2. a \o b = SubSeq(todo, 1, Len(todo))
    BY <1>1, <2>1, ConcatAdjacentSubSeq
  <2> QED BY <1>1, <2>2, SubSeqFull
<1> HIDE DEF a, b
<1>6. wire' \o todo' = wire \o todo
  <2>1. (wire \o a) \o b = wire \o (a \o b)
    BY <1>1, <1>3, <1>4, JoinBytes, Zenon
  <2> QED BY <1>2, <1>5, <2>1, Zenon
<1>7. /\ wire \o a \in Seq(Byte) /\ Len(wire \o a) = Len(wire) + n
      /\ \A i \in 1 .. Len(wire) + n :
           (wire \o a)[i] = IF i <= Len(wire) THEN wire[i] ELSE a[i - Len(wire)]
  BY <1>1, <1>3, ConcatProperties, Zenon
<1>8. \A i \in 1 .. Len(wire) : (wire \o a)[i] = wire[i]
  BY <1>1, <1>7
<1> QED BY <1>2, <1>4, <1>6, <1>7, <1>8, Zenon

\* The steps of the tasks that write keep the type invariant.
LEMMA WriterType ==
  ASSUME WireTypeOK, Writer
  PROVE  WireTypeOK'
<1>0. /\ \A w \in Writers : w # "none"
      /\ MaxCalls \in Nat /\ Len(wire) \in Nat /\ Len(todo) \in Nat
  BY WriterMsgs, WireAssumption DEF WireTypeOK
<1> USE DEF quinnVars, readerVars, writerVars
<1>1. ASSUME NEW w \in Writers, NEW m \in MayWrite(w), Refuse(w, m)
      PROVE  WireTypeOK'
  BY <1>0, <1>1 DEF WireTypeOK, Refuse
<1>2. ASSUME NEW w \in Writers, NEW m \in MayWrite(w), Begin(w, m)
      PROVE  WireTypeOK'
  <2>1. m \in Msgs /\ todo' \in Seq(Byte) /\ todo' # <<>>
    <3>1. m \in Msgs /\ Len(Data(m)) < U32 /\ todo' = Frame(m)
      BY <1>2, BeginFrame
    <3>2. Len(Data(m)) \in Nat
      BY <3>1, DataBytes
    <3>3. /\ Frame(m) \in Seq(Byte)
          /\ Len(Frame(m)) = MSG_HEADER_LEN + Len(Data(m))
      BY <3>1, FrameBytes
    <3>4. Len(Frame(m)) # 0
      BY <3>2, <3>3 DEF MSG_HEADER_LEN
    <3> QED BY <3>1, <3>3, <3>4
  <2>2. sent' \in Seq(Msgs) /\ lock' # "none" /\ lock' \in owners'
        /\ owners' = owners /\ calls' \in 0 .. MaxCalls
    BY <1>0, <1>2, <2>1 DEF WireTypeOK, Begin
  <2>3. UNCHANGED <<wire, quinnVars, readerVars>>
    BY <1>2 DEF Begin
  <2> QED BY <2>1, <2>2, <2>3 DEF WireTypeOK
<1>3. ASSUME NEW n \in 1 .. Len(todo), Write(n)
      PROVE  WireTypeOK'
  <2>1. /\ wire' \in Seq(Byte) /\ todo' \in Seq(Byte)
        /\ Len(wire') = Len(wire) + n /\ Len(todo') = Len(todo) - n
    BY <1>3, WriteBytes
  <2>2. todo' = <<>> <=> n = Len(todo)
    BY <1>0, <2>1
  <2>3. lock' = IF n = Len(todo) THEN "none" ELSE lock
    BY <1>3 DEF Write, LockAfter
  <2>4. lock # "none"
    BY <1>3 DEF Write
  <2>5. UNCHANGED <<sent, owners, calls, quinnVars, readerVars>>
    BY <1>3 DEF Write
  <2>6. lock' \in owners' \cup {"none"} /\ (lock' = "none") = (todo' = <<>>)
    BY <2>2, <2>3, <2>4, <2>5 DEF WireTypeOK
  <2>7. arrived' <= Len(wire')
    BY <1>0, <2>1, <2>5 DEF WireTypeOK
  <2> QED BY <2>1, <2>5, <2>6, <2>7 DEF WireTypeOK
<1>4. ASSUME WriteFails PROVE WireTypeOK'
  BY <1>0, <1>4 DEF WireTypeOK, WriteFails
<1>5. ASSUME AppDrops PROVE WireTypeOK'
  BY <1>0, <1>5 DEF WireTypeOK, AppDrops
<1>6. ASSUME DropHandler PROVE WireTypeOK'
  <2>1. /\ owners' = owners \ {"handler"}
        /\ \/ lock = "handler" /\ lock' = "none" /\ todo' = <<>>
           \/ lock # "handler" /\ UNCHANGED <<lock, todo>>
        /\ UNCHANGED <<sent, calls, wire, quinnVars, readerVars>>
    BY <1>6, Zenon DEF DropHandler
  <2>2. /\ owners' \subseteq Writers /\ lock' \in owners' \cup {"none"}
        /\ todo' \in Seq(Byte) /\ (lock' = "none") = (todo' = <<>>)
    <3>1. CASE lock = "handler" /\ lock' = "none" /\ todo' = <<>>
      BY <2>1, <3>1 DEF WireTypeOK
    <3>2. CASE lock # "handler" /\ UNCHANGED <<lock, todo>>
      BY <2>1, <3>2, Zenon DEF WireTypeOK
    <3> QED BY <2>1, <3>1, <3>2
  <2>3. UNCHANGED <<sent, calls, wire, quinnVars, readerVars>>
    BY <2>1
  <2> QED BY <2>2, <2>3 DEF WireTypeOK
<1>7. ASSUME Finish PROVE WireTypeOK'
  <2>1. ended' = "finished" /\ UNCHANGED <<writerVars, arrived, readerVars>>
    BY <1>7 DEF Finish
  <2> QED BY <2>1 DEF WireTypeOK
<1> QED BY <1>1, <1>2, <1>3, <1>4, <1>5, <1>6, <1>7 DEF Writer

\* The steps of quinn and of the reader keep the type invariant.
LEMMA ReaderType ==
  ASSUME WireTypeOK, Quinn \/ Reader
  PROVE  WireTypeOK'
<1>0. /\ Len(wire) \in Nat /\ MSG_HEADER_LEN = 9
      /\ 0 \in Byte /\ \A i \in 1 .. Len(wire) : wire[i] \in Byte
  <2>1. 0 \in Byte
    BY WireAssumption DEF Byte
  <2>2. Len(wire) \in Nat /\ \A i \in 1 .. Len(wire) : wire[i] \in Byte
    BY DEF WireTypeOK
  <2> QED BY <2>1, <2>2 DEF MSG_HEADER_LEN
<1> USE DEF quinnVars, readerVars, writerVars
<1>1. ASSUME NEW n \in 1 .. Len(wire) - arrived, Arrive(n)
      PROVE  WireTypeOK'
  BY <1>0, <1>1 DEF WireTypeOK, Arrive
<1>2. ASSUME NEW e \in Losses, Lose(e) PROVE WireTypeOK'
  BY <1>0, <1>2 DEF WireTypeOK, Lose
<1>3. ASSUME NEW n \in 1 .. MSG_HEADER_LEN, ReadFirst(n)
      PROVE  WireTypeOK'
  <2>1. /\ rd' = rd + n /\ rd + n <= arrived
        /\ need' = MSG_HEADER_LEN - n /\ rpc' \in {"header", "data"}
        /\ UNCHANGED <<writerVars, quinnVars>>
    BY <1>3 DEF ReadFirst
  <2>2. rd' \in Nat /\ need' \in 0 .. MSG_HEADER_LEN - 1
    BY <1>0, <2>1 DEF WireTypeOK
  <2>3. header' \in [1 .. MSG_HEADER_LEN -> Byte]
    <3>1. ASSUME NEW i \in 1 .. MSG_HEADER_LEN
          PROVE  (IF i <= n THEN wire[rd + i] ELSE 0) \in Byte
      <4>1. i <= n => rd + i \in 1 .. Len(wire)
        BY <1>0, <2>1 DEF WireTypeOK
      <4> QED BY <1>0, <4>1
    <3>2. header' = [i \in 1 .. MSG_HEADER_LEN |->
                       IF i <= n THEN wire[rd + i] ELSE 0]
      BY <1>3 DEF ReadFirst
    <3> QED BY <3>1, <3>2
  <2> QED BY <2>1, <2>2, <2>3 DEF WireTypeOK
<1>4. ASSUME ReadRest PROVE WireTypeOK'
  <2>1. /\ rd' = rd + need /\ rd + need <= arrived
        /\ need' = 0 /\ rpc' = "data"
        /\ UNCHANGED <<writerVars, quinnVars>>
    BY <1>4 DEF ReadRest, Readable
  <2>2. rd' \in Nat /\ need' \in 0 .. MSG_HEADER_LEN - 1
    BY <1>0, <2>1 DEF WireTypeOK
  <2>3. header' \in [1 .. MSG_HEADER_LEN -> Byte]
    <3> DEFINE At(i) == i - (MSG_HEADER_LEN - need)
    <3>1. ASSUME NEW i \in 1 .. MSG_HEADER_LEN
          PROVE  (IF At(i) > 0 THEN wire[rd + At(i)] ELSE header[i]) \in Byte
      <4>1. At(i) > 0 => rd + At(i) \in 1 .. Len(wire)
        BY <1>0, <2>1 DEF WireTypeOK
      <4>2. header[i] \in Byte
        BY DEF WireTypeOK
      <4> HIDE DEF At
      <4> QED BY <1>0, <4>1, <4>2
    <3>2. header' = [i \in 1 .. MSG_HEADER_LEN |->
                       IF At(i) > 0 THEN wire[rd + At(i)] ELSE header[i]]
      BY <1>4 DEF ReadRest
    <3> HIDE DEF At
    <3> QED BY <3>1, <3>2
  <2> QED BY <2>1, <2>2, <2>3 DEF WireTypeOK
<1>5. ASSUME ReadData PROVE WireTypeOK'
  <2> DEFINE len == from_bytes(header).data_len
  <2>1. len \in Nat
    BY LengthIsNat DEF WireTypeOK
  <2>2. /\ rd' = rd + len /\ rd + len <= arrived
        /\ rpc' = "first" /\ header' = Empty /\ need' = 0
        /\ UNCHANGED <<writerVars, quinnVars>>
    BY <1>5 DEF ReadData, Readable
  <2> HIDE DEF len
  <2>3. Empty \in [1 .. MSG_HEADER_LEN -> Byte] /\ rd' \in Nat
        /\ need' \in 0 .. MSG_HEADER_LEN - 1
    BY <1>0, <2>1, <2>2 DEF Empty, WireTypeOK
  <2> QED BY <2>2, <2>3 DEF WireTypeOK
<1>6. ASSUME ReadEnd PROVE WireTypeOK'
  BY <1>6 DEF WireTypeOK, ReadEnd
<1> QED BY <1>1, <1>2, <1>3, <1>4, <1>5, <1>6 DEF Quinn, Reader

\* The state of the stream always has its type: the reader never runs ahead of
\* the bytes that arrived, nor these of the bytes written, and the mutex is
\* held exactly while a part of a frame is still to be written.
THEOREM WireTypeCorrect == Spec => []WireTypeOK
<1>1. Init => WireTypeOK
  <2> SUFFICES ASSUME Init PROVE WireTypeOK
    OBVIOUS
  <2>1. Empty \in [1 .. MSG_HEADER_LEN -> Byte]
    BY WireAssumption DEF Empty, Byte
  <2> QED BY <2>1, WireAssumption DEF Init, WireTypeOK, MSG_HEADER_LEN
<1>2. WireTypeOK /\ [Next]_vars => WireTypeOK'
  <2>1. WireTypeOK /\ UNCHANGED vars => WireTypeOK'
    BY DEF WireTypeOK, vars, writerVars, quinnVars, readerVars
  <2> QED BY <2>1, WriterType, ReaderType DEF Next
<1> QED BY <1>1, <1>2, PTL DEF Spec

-----------------------------------------------------------------------------
(***************************************************************************)
(* The bytes of the stream.  What was written and what its owner has still *)
(* to write are the frames of the messages sent, one behind the other;     *)
(* only the last one may be cut, and nothing is written behind it then.    *)
(***************************************************************************)

\* The end of every frame is a number, and the next frame ends its length later.
LEMMA EndFacts ==
  ASSUME NEW s \in Seq(Msgs)
  PROVE  /\ EndsOf(s)[0] = 0
         /\ \A k \in 1 .. Len(s) :
              EndsOf(s)[k] = EndsOf(s)[k - 1] + MSG_HEADER_LEN + Len(Data(s[k]))
         /\ \A k \in 0 .. Len(s) : EndsOf(s)[k] \in Nat
<1> DEFINE e == EndsOf(s)
<1>0. Len(s) \in Nat /\ \A k \in 1 .. Len(s) : s[k] \in Msgs
  OBVIOUS
<1>1. \A k \in Nat : e[k] = EndAfter(e, s, k)
  BY EndsUnfold
<1> HIDE DEF e
<1>2. e[0] = 0
  BY <1>1 DEF EndAfter
<1>3. \A k \in 1 .. Len(s) : e[k] = e[k - 1] + MSG_HEADER_LEN + Len(Data(s[k]))
  BY <1>0, <1>1 DEF EndAfter
<1> DEFINE S == {k \in Nat : k <= Len(s) => e[k] \in Nat}
<1>4. ASSUME NEW k \in Nat, k \in S PROVE k + 1 \in S
  <2> SUFFICES ASSUME k + 1 <= Len(s) PROVE e[k + 1] \in Nat
    OBVIOUS
  <2>1. k + 1 \in 1 .. Len(s) /\ (k + 1) - 1 = k /\ e[k] \in Nat
    BY <1>0, <1>4
  <2>2. Data(s[k + 1]) \in Seq(Byte)
    BY <1>0, <2>1, DataBytes
  <2>3. Len(Data(s[k + 1])) \in Nat
    BY <2>2
  <2>4. e[k + 1] = e[k] + MSG_HEADER_LEN + Len(Data(s[k + 1]))
    BY <1>3, <2>1
  <2> QED BY <2>1, <2>3, <2>4 DEF MSG_HEADER_LEN
<1>5. \A k \in Nat : k \in S
  <2>1. 0 \in S
    BY <1>2
  <2> HIDE DEF S
  <2> QED BY <1>4, <2>1, NatSetInduction
<1>6. \A k \in 0 .. Len(s) : e[k] \in Nat
  BY <1>0, <1>5
<1> QED BY <1>2, <1>3, <1>6 DEF e

\* A message that is sent leaves the ends of the frames before it.
LEMMA EndsAppend ==
  ASSUME NEW s \in Seq(Msgs), NEW m \in Msgs
  PROVE  \A k \in 0 .. Len(s) : EndsOf(Append(s, m))[k] = EndsOf(s)[k]
<1> DEFINE t == Append(s, m)
<1>1. Len(s) \in Nat /\ \A k \in 1 .. Len(s) : s[k] = t[k]
  OBVIOUS
<1>2. AreEnds(EndsOf(s), s, Len(s)) /\ AreEnds(EndsOf(t), t, Len(s))
  BY <1>1, EndsUnfold DEF AreEnds
<1>3. Agree(s, t, Len(s)) /\ Len(s) <= Len(s)
  BY <1>1 DEF Agree
<1> HIDE DEF t
<1>4. \A k \in 0 .. Len(s) : EndsOf(s)[k] = EndsOf(t)[k]
  BY <1>1, <1>2, <1>3, EndsAgree
<1> QED BY <1>4 DEF t

Bytes == wire \o todo

\* The bytes b are the frames of the messages s, the last one cut or not.
Framed(b, s) ==
  LET e == EndsOf(s) IN
  /\ Len(b) <= e[Len(s)]
  /\ \A k \in 1 .. Len(s) :
       /\ Len(Data(s[k])) < U32
       /\ \A i \in 1 .. MSG_HEADER_LEN + Len(Data(s[k])) :
            e[k - 1] + i <= Len(b) => b[e[k - 1] + i] = Frame(s[k])[i]

\* All frames of s but the last one end within n bytes.
Within(n, s) == \A k \in 1 .. Len(s) : EndsOf(s)[k - 1] <= n

\* A whole frame behind whole frames.
LEMMA FramedAppend ==
  ASSUME NEW b \in Seq(Byte), NEW s \in Seq(Msgs), NEW m \in Msgs,
         Len(Data(m)) < U32, Framed(b, s), Within(Len(b), s),
         Len(b) = EndsOf(s)[Len(s)]
  PROVE  /\ Framed(b \o Frame(m), Append(s, m))
         /\ Within(Len(b), Append(s, m))
         /\ Len(b \o Frame(m)) = EndsOf(Append(s, m))[Len(Append(s, m))]
<1> DEFINE t == Append(s, m)  e == EndsOf(s)  g == EndsOf(t)  n == Len(s)
           f == Frame(m)  c == b \o f  D(k) == Len(Data(t[k]))
<1>1. /\ n \in Nat /\ t \in Seq(Msgs) /\ Len(t) = n + 1
      /\ t[n + 1] = m /\ \A k \in 1 .. n : t[k] = s[k] /\ s[k] \in Msgs
  OBVIOUS
<1>2. /\ \A k \in 0 .. n : e[k] \in Nat /\ g[k] = e[k]
      /\ \A k \in 1 .. n + 1 : g[k] = g[k - 1] + MSG_HEADER_LEN + D(k)
  <2>1. \A k \in 0 .. n : e[k] \in Nat
    BY EndFacts
  <2>2. \A k \in 0 .. n : g[k] = e[k]
    BY EndsAppend
  <2>3. \A k \in 1 .. Len(t) : g[k] = g[k - 1] + MSG_HEADER_LEN + D(k)
    BY <1>1, EndFacts, Zenon
  <2> QED BY <1>1, <2>1, <2>2, <2>3
<1>3. \A k \in 1 .. n + 1 : D(k) \in Nat
  <2>1. \A k \in 1 .. n + 1 : t[k] \in Msgs
    BY <1>1
  <2>2. \A k \in 1 .. n + 1 : Data(t[k]) \in Seq(Byte)
    BY <2>1, DataBytes
  <2> QED BY <2>2, LenProperties
<1>4. f \in Seq(Byte) /\ Len(f) = MSG_HEADER_LEN + D(n + 1)
  BY <1>1, FrameBytes
<1>5. Len(b) \in Nat /\ Len(b) = e[n] /\ \A k \in 1 .. n : e[k - 1] <= Len(b)
  BY DEF Within
<1>6. /\ \A k \in 1 .. n : D(k) < U32
      /\ \A k \in 1 .. n : \A i \in 1 .. MSG_HEADER_LEN + D(k) :
           e[k - 1] + i <= Len(b) => b[e[k - 1] + i] = Frame(t[k])[i]
  BY <1>1 DEF Framed
<1> HIDE DEF t, e, g, n, f, D
<1>7. /\ c \in Seq(Byte) /\ Len(c) = Len(b) + Len(f)
      /\ \A i \in 1 .. Len(b) + Len(f) :
           c[i] = IF i <= Len(b) THEN b[i] ELSE f[i - Len(b)]
  BY <1>4, ConcatProperties, Zenon
<1> HIDE DEF c
<1>8. Len(c) = g[n + 1] /\ Len(f) \in Nat /\ Len(c) <= Len(c)
  <2>1. n \in 0 .. n /\ n + 1 \in 1 .. n + 1 /\ (n + 1) - 1 = n
    BY <1>1
  <2>2. g[n + 1] = e[n] + MSG_HEADER_LEN + D(n + 1) /\ D(n + 1) \in Nat
    BY <1>2, <1>3, <2>1
  <2>3. /\ Len(c) = Len(b) + Len(f) /\ Len(f) = MSG_HEADER_LEN + D(n + 1)
        /\ Len(b) = e[n] /\ Len(b) \in Nat /\ MSG_HEADER_LEN \in Nat
    BY <1>4, <1>5, <1>7 DEF MSG_HEADER_LEN
  <2> QED BY <2>2, <2>3
<1>9. ASSUME NEW k \in 1 .. n + 1
      PROVE  /\ D(k) < U32 /\ g[k - 1] <= Len(b)
             /\ \A i \in 1 .. MSG_HEADER_LEN + D(k) :
                  g[k - 1] + i <= Len(c) => c[g[k - 1] + i] = Frame(t[k])[i]
  <2>1. CASE k = n + 1
    <3>1. D(k) < U32 /\ g[k - 1] = Len(b) /\ Frame(t[k]) = f
      BY <1>1, <1>2, <1>5, <2>1 DEF D, f
    <3>2. ASSUME NEW i \in 1 .. MSG_HEADER_LEN + D(k) PROVE c[Len(b) + i] = f[i]
      <4>1. /\ Len(b) + i \in 1 .. Len(b) + Len(f) /\ ~(Len(b) + i <= Len(b))
            /\ (Len(b) + i) - Len(b) = i
        BY <1>3, <1>4, <1>5, <2>1 DEF MSG_HEADER_LEN
      <4> QED BY <1>7, <4>1
    <3> QED BY <1>5, <3>1, <3>2
  <2>2. CASE k \in 1 .. n
    <3>1. k - 1 \in 0 .. n /\ k \in 0 .. n /\ g[k - 1] = e[k - 1]
      BY <1>1, <1>2, <2>2
    <3>2. e[k] <= Len(b)
      <4>1. CASE k = n
        BY <1>5, <1>2, <3>1, <4>1
      <4>2. CASE k # n
        <5>1. k + 1 \in 1 .. n /\ (k + 1) - 1 = k
          BY <1>1, <2>2, <4>2
        <5> QED BY <1>5, <5>1
      <4> QED BY <4>1, <4>2
    <3>3. ASSUME NEW i \in 1 .. MSG_HEADER_LEN + D(k)
          PROVE  c[g[k - 1] + i] = Frame(t[k])[i]
      <4>1. e[k] = e[k - 1] + MSG_HEADER_LEN + D(k) /\ e[k - 1] \in Nat
            /\ D(k) \in Nat
        BY <1>2, <1>3, <2>2, <3>1
      <4>2. e[k - 1] + i \in 1 .. Len(b) + Len(f) /\ e[k - 1] + i <= Len(b)
        <5>1. i \in Nat /\ i >= 1 /\ i <= MSG_HEADER_LEN + D(k)
              /\ MSG_HEADER_LEN \in Nat
          BY <4>1 DEF MSG_HEADER_LEN
        <5>2. e[k - 1] + i <= e[k]
          BY <4>1, <5>1
        <5>3. Len(b) \in Nat /\ Len(f) \in Nat /\ e[k] \in Nat
          BY <1>2, <1>5, <1>8, <3>1
        <5> DEFINE x == e[k - 1]  y == e[k]  z == Len(b)  v == Len(f)
        <5>4. /\ x \in Nat /\ y \in Nat /\ z \in Nat /\ v \in Nat
              /\ x + i <= y /\ y <= z
          BY <3>2, <4>1, <5>2, <5>3, Zenon
        <5> HIDE DEF x, y, z, v
        <5>5. x + i \in 1 .. z + v /\ x + i <= z
          BY <5>1, <5>4
        <5> QED BY <5>5 DEF x, z, v
      <4>3. c[e[k - 1] + i] = b[e[k - 1] + i]
        BY <1>7, <4>2, Zenon
      <4> QED BY <1>6, <2>2, <3>1, <4>2, <4>3
    <3>4. D(k) < U32 /\ g[k - 1] <= Len(b)
      BY <1>5, <1>6, <2>2, <3>1
    <3> QED BY <3>3, <3>4
  <2> QED BY <1>1, <2>1, <2>2
<1>10. /\ Len(c) <= g[Len(t)] /\ Len(c) = g[Len(t)]
       /\ \A k \in 1 .. Len(t) :
            /\ D(k) < U32 /\ g[k - 1] <= Len(b)
            /\ \A i \in 1 .. MSG_HEADER_LEN + D(k) :
                 g[k - 1] + i <= Len(c) => c[g[k - 1] + i] = Frame(t[k])[i]
  BY <1>1, <1>8, <1>9, Zenon
<1> QED BY <1>10, Zenon DEF Framed, Within, t, g, c, f, D

\* Bytes that are dropped cut the last frame.
LEMMA FramedCut ==
  ASSUME NEW b \in Seq(Byte), NEW c \in Seq(Byte), NEW s \in Seq(Msgs),
         Framed(b \o c, s)
  PROVE  Framed(b, s)
<1> DEFINE e == EndsOf(s)  a == b \o c  D(k) == Len(Data(s[k]))
<1>1. /\ Len(b) \in Nat /\ Len(c) \in Nat /\ Len(s) \in Nat
      /\ \A k \in 0 .. Len(s) : e[k] \in Nat
  BY EndFacts
<1>2. /\ Len(a) = Len(b) + Len(c)
      /\ \A i \in 1 .. Len(b) + Len(c) :
           a[i] = IF i <= Len(b) THEN b[i] ELSE c[i - Len(b)]
  BY ConcatProperties
<1>3. /\ Len(a) <= e[Len(s)]
      /\ \A k \in 1 .. Len(s) :
           /\ D(k) < U32
           /\ \A i \in 1 .. MSG_HEADER_LEN + D(k) :
                e[k - 1] + i <= Len(a) => a[e[k - 1] + i] = Frame(s[k])[i]
  BY Zenon DEF Framed
<1> HIDE DEF e, a, D
<1>4. Len(b) <= e[Len(s)]
  BY <1>1, <1>2, <1>3
<1>5. ASSUME NEW k \in 1 .. Len(s), NEW i \in 1 .. MSG_HEADER_LEN + D(k),
             e[k - 1] + i <= Len(b)
      PROVE  b[e[k - 1] + i] = Frame(s[k])[i]
  <2>1. e[k - 1] \in Nat /\ i \in Nat /\ i > 0
    BY <1>1
  <2>2. e[k - 1] + i \in 1 .. Len(b) + Len(c) /\ e[k - 1] + i <= Len(a)
    BY <1>1, <1>2, <1>5, <2>1
  <2>3. a[e[k - 1] + i] = b[e[k - 1] + i]
    BY <1>2, <1>5, <2>2
  <2> QED BY <1>3, <2>2, <2>3
<1> QED BY <1>3, <1>4, <1>5, Zenon DEF Framed, e, D

FrameInv ==
  /\ Framed(Bytes, sent) /\ Within(Len(wire), sent)
  /\ ended = "open" /\ owners # {} => Len(Bytes) = EndsOf(sent)[Len(sent)]

\* The steps of the tasks that write keep FrameInv, if no application outlives
\* the listener.
LEMMA FrameInvWriter ==
  ASSUME AppOutlives = FALSE, WireTypeOK, FrameInv, Writer
  PROVE  FrameInv'
<1>0. /\ wire \in Seq(Byte) /\ todo \in Seq(Byte) /\ sent \in Seq(Msgs)
      /\ Len(wire) \in Nat /\ Len(todo) \in Nat
      /\ lock = "none" => todo = <<>>
      /\ wire \o <<>> = wire
  BY ConcatEmptySeq DEF WireTypeOK
<1>1. ASSUME NEW w \in Writers, NEW m \in MayWrite(w), Refuse(w, m)
      PROVE  FrameInv'
  <2>1. UNCHANGED <<sent, owners, todo, wire, ended>>
    BY <1>1 DEF Refuse, quinnVars
  <2> QED BY <2>1, Zenon DEF FrameInv, Bytes, Within
<1>2. ASSUME NEW w \in Writers, NEW m \in MayWrite(w), Begin(w, m)
      PROVE  FrameInv'
  <2>1. m \in Msgs /\ Len(Data(m)) < U32 /\ todo' = Frame(m)
    BY <1>2, BeginFrame
  <2>2. /\ w \in owners /\ lock = "none" /\ ended = "open"
        /\ wire' = wire /\ sent' = Append(sent, m)
    BY <1>2 DEF Begin
  <2>3. Bytes = wire /\ Bytes' = wire \o Frame(m)
    BY <1>0, <2>1, <2>2, Zenon DEF Bytes
  <2>4. /\ Framed(wire, sent) /\ Within(Len(wire), sent)
        /\ Len(wire) = EndsOf(sent)[Len(sent)]
    BY <2>2, <2>3, Zenon DEF FrameInv
  <2>5. /\ Framed(wire \o Frame(m), Append(sent, m))
        /\ Within(Len(wire), Append(sent, m))
        /\ Len(wire \o Frame(m))
             = EndsOf(Append(sent, m))[Len(Append(sent, m))]
    BY <1>0, <2>1, <2>4, FramedAppend, Zenon
  <2>6. Framed(Bytes', sent') /\ Within(Len(wire'), sent')
        /\ Len(Bytes') = EndsOf(sent')[Len(sent')]
    BY <2>2, <2>3, <2>5, Zenon
  <2> QED BY <2>6, Zenon DEF FrameInv, Within, Framed
<1>3. ASSUME NEW n \in 1 .. Len(todo), Write(n)
      PROVE  FrameInv'
  <2>1. Bytes' = Bytes /\ Len(wire') = Len(wire) + n
    BY <1>3, WriteBytes, Zenon DEF Bytes
  <2>2. UNCHANGED <<sent, owners, ended>>
    BY <1>3 DEF Write, quinnVars
  <2>3. Within(Len(wire'), sent)
    <3>1. ASSUME NEW k \in 1 .. Len(sent)
          PROVE  EndsOf(sent)[k - 1] <= Len(wire')
      <4>1. EndsOf(sent)[k - 1] <= Len(wire)
        BY DEF FrameInv, Within
      <4>2. k - 1 \in 0 .. Len(sent)
        BY <1>0
      <4>3. EndsOf(sent)[k - 1] \in Nat
        BY <1>0, <4>2, EndFacts
      <4> QED BY <1>0, <2>1, <4>1, <4>3
    <3> QED BY <3>1 DEF Within
  <2> QED BY <2>1, <2>2, <2>3, Zenon DEF FrameInv, Within
<1>4. ASSUME /\ todo' = <<>> \/ todo' = todo
             /\ UNCHANGED <<sent, wire>>
             /\ ended' = "open" /\ owners' # {} =>
                  ended = "open" /\ owners # {} /\ todo' = todo
      PROVE  FrameInv'
  <2>1. Framed(Bytes', sent')
    <3>1. CASE todo' = todo
      BY <1>4, <3>1, Zenon DEF FrameInv, Bytes
    <3>2. CASE todo' = <<>>
      <4>1. Framed(wire, sent)
        BY <1>0, FramedCut DEF FrameInv, Bytes
      <4> QED BY <1>0, <1>4, <3>2, <4>1, Zenon DEF Bytes
    <3> QED BY <1>4, <3>1, <3>2
  <2>2. ended' = "open" /\ owners' # {} =>
          Len(Bytes') = EndsOf(sent')[Len(sent')]
    BY <1>4, Zenon DEF FrameInv, Bytes
  <2> QED BY <1>4, <2>1, <2>2, Zenon DEF FrameInv, Within
<1>5. ASSUME WriteFails PROVE FrameInv'
  BY <1>4, <1>5 DEF WriteFails, quinnVars
<1>6. ASSUME AppDrops PROVE FrameInv'
  BY <1>4, <1>6 DEF AppDrops, quinnVars
<1>7. ASSUME DropHandler PROVE FrameInv'
  <2>1. "handler" \in owners /\ "app" \notin owners
    BY <1>7, Zenon DEF DropHandler
  <2>2. owners' = {}
    <3>1. owners \subseteq {"app", "handler"}
      BY <2>1, WireAssumption DEF WireTypeOK
    <3>2. owners' = owners \ {"handler"}
      BY <1>7, Zenon DEF DropHandler
    <3> QED BY <2>1, <3>1, <3>2
  <2>3. (todo' = <<>> \/ todo' = todo) /\ UNCHANGED <<sent, wire>>
    BY <1>7, Zenon DEF DropHandler
  <2> QED BY <1>4, <2>2, <2>3
<1>8. ASSUME Finish PROVE FrameInv'
  BY <1>4, <1>8 DEF Finish, writerVars
<1> QED BY <1>1, <1>2, <1>3, <1>5, <1>6, <1>7, <1>8 DEF Writer

\* The steps of quinn and of the reader keep FrameInv.
LEMMA FrameInvReader ==
  ASSUME FrameInv, Quinn \/ Reader \/ UNCHANGED vars
  PROVE  FrameInv'
<1>1. /\ UNCHANGED <<sent, owners, todo, wire>>
      /\ ended' = "open" => ended = "open"
  BY DEF Quinn, Reader, Arrive, Lose, ReadFirst, ReadRest, ReadData, ReadEnd,
         vars, writerVars, quinnVars
<1> QED BY <1>1, Zenon DEF FrameInv, Bytes, Within

(***************************************************************************)
(* The reader.  It stands in the frame of the message it will return next, *)
(* and what it has of the header are the bytes at the start of this frame. *)
(***************************************************************************)
Start == EndsOf(sent)[Len(got)]

ReaderInv ==
  /\ got \in Seq(Msgs \cup {Failure}) /\ Len(got) <= Len(sent)
  /\ ended = "finished" => arrived = Len(wire)
  /\ rpc # "done" =>
       /\ over = "open"
       /\ rd = Start + (IF rpc = "first" THEN 0 ELSE MSG_HEADER_LEN - need)
  /\ rpc = "data" => need = 0
  /\ rpc \in {"header", "data"} =>
       /\ Len(got) < Len(sent)
       /\ \A i \in 1 .. MSG_HEADER_LEN - need : header[i] = wire[Start + i]
  /\ rpc = "done" => over # "open" /\ ended # "open"
  /\ over = "None" => Start = arrived

\* The reader stands at a number of bytes, and the bytes written are frames.
LEMMA ReaderAt ==
  ASSUME WireTypeOK, FrameInv, ReaderInv
  PROVE  /\ sent \in Seq(Msgs) /\ Len(sent) \in Nat /\ Len(got) \in Nat
         /\ Start \in Nat /\ Len(wire) \in Nat
         /\ Framed(wire, sent)
         /\ Start < Len(wire) => Len(got) < Len(sent)
<1>1. /\ wire \in Seq(Byte) /\ todo \in Seq(Byte) /\ sent \in Seq(Msgs)
      /\ Len(wire) \in Nat /\ Len(sent) \in Nat
  BY DEF WireTypeOK
<1>2. Len(got) \in Nat /\ Len(got) <= Len(sent)
  BY DEF ReaderInv
<1>3. Len(got) \in 0 .. Len(sent)
  BY <1>1, <1>2
<1>4. Start \in Nat
  BY <1>1, <1>3, EndFacts DEF Start
<1>5. Framed(wire, sent)
  BY <1>1, FramedCut DEF FrameInv, Bytes
<1>6. Len(wire) <= EndsOf(sent)[Len(sent)]
  BY <1>5, Zenon DEF Framed
<1>7. Start < Len(wire) => Len(got) # Len(sent)
  <2> SUFFICES ASSUME Start < Len(wire), Len(got) = Len(sent) PROVE FALSE
    OBVIOUS
  <2>1. Len(wire) <= Start
    BY <1>6 DEF Start
  <2> QED BY <1>1, <1>4, <2>1
<1> QED BY <1>1, <1>2, <1>4, <1>5, <1>7

\* What keeps ReaderInv: bytes and messages are only added, and nothing moves
\* once the reader has seen the end.
LEMMA ReaderKept ==
  ASSUME WireTypeOK, FrameInv, ReaderInv, UNCHANGED readerVars,
         sent' = sent \/ \E m \in Msgs : sent' = Append(sent, m),
         \A i \in 1 .. Len(wire) : wire'[i] = wire[i],
         ended' = "finished" => arrived' = Len(wire'),
         rpc = "done" => UNCHANGED <<arrived, ended>>
  PROVE  ReaderInv'
<1>0. /\ sent \in Seq(Msgs) /\ Len(sent) \in Nat /\ Len(got) \in Nat
      /\ Start \in Nat /\ Len(wire) \in Nat
  BY ReaderAt
<1>1. UNCHANGED <<rpc, header, need, rd, got, over>>
  BY DEF readerVars
<1>2. Len(got) <= Len(sent) /\ Len(got) \in 0 .. Len(sent)
  BY <1>0 DEF ReaderInv
<1>3. Start' = Start /\ Len(sent') \in Nat /\ Len(sent) <= Len(sent')
  <2>1. CASE sent' = sent
    BY <1>0, <1>1, <2>1 DEF Start
  <2>2. ASSUME NEW m \in Msgs, sent' = Append(sent, m)
        PROVE  Start' = Start /\ Len(sent') \in Nat /\ Len(sent) <= Len(sent')
    <3>1. EndsOf(Append(sent, m))[Len(got)] = EndsOf(sent)[Len(got)]
      BY <1>0, <1>2, EndsAppend
    <3>2. Start' = Start
      BY <1>1, <2>2, <3>1, Zenon DEF Start
    <3>3. Len(sent') = Len(sent) + 1
      BY <1>0, <2>2
    <3> QED BY <1>0, <3>2, <3>3
  <2> QED BY <2>1, <2>2
<1>4. ASSUME rpc \in {"header", "data"}, NEW i \in 1 .. MSG_HEADER_LEN - need
      PROVE  header[i] = wire'[Start + i]
  <2>1. /\ rd = Start + (MSG_HEADER_LEN - need) /\ rd <= Len(wire)
        /\ header[i] = wire[Start + i]
        /\ need \in 0 .. MSG_HEADER_LEN - 1
    BY <1>0, <1>4 DEF ReaderInv, WireTypeOK
  <2>2. Start + i \in 1 .. Len(wire)
    BY <1>0, <2>1 DEF MSG_HEADER_LEN
  <2> QED BY <2>1, <2>2
<1>5. over = "None" => rpc = "done"
  BY DEF ReaderInv
<1>6. got' \in Seq(Msgs \cup {Failure}) /\ Len(got') <= Len(sent')
  BY <1>0, <1>1, <1>2, <1>3 DEF ReaderInv
<1>7. rpc' # "done" =>
        /\ over' = "open"
        /\ rd' = Start' + (IF rpc' = "first" THEN 0 ELSE MSG_HEADER_LEN - need')
  BY <1>1, <1>3 DEF ReaderInv
<1>8. rpc' \in {"header", "data"} =>
        /\ Len(got') < Len(sent')
        /\ \A i \in 1 .. MSG_HEADER_LEN - need' : header'[i] = wire'[Start' + i]
  <2>1. rpc \in {"header", "data"} => Len(got) < Len(sent')
    BY <1>0, <1>3 DEF ReaderInv
  <2> QED BY <1>1, <1>3, <1>4, <2>1
<1>9. /\ rpc' = "data" => need' = 0
      /\ rpc' = "done" => over' # "open" /\ ended' # "open"
      /\ over' = "None" => Start' = arrived'
  BY <1>1, <1>3, <1>5 DEF ReaderInv
<1> QED BY <1>6, <1>7, <1>8, <1>9 DEF ReaderInv

\* The steps of the tasks that write and of quinn keep ReaderInv.
LEMMA ReaderInvWriter ==
  ASSUME WireTypeOK, FrameInv, ReaderInv, Writer \/ Quinn
  PROVE  ReaderInv'
<1>0. rpc = "done" => ended # "open"
  BY DEF ReaderInv
<1>1. ASSUME NEW w \in Writers, NEW m \in MayWrite(w), Refuse(w, m)
      PROVE  ReaderInv'
  BY <1>0, <1>1, ReaderKept DEF Refuse, quinnVars
<1>2. ASSUME NEW w \in Writers, NEW m \in MayWrite(w), Begin(w, m)
      PROVE  ReaderInv'
  <2>1. m \in Msgs
    BY WriterMsgs
  <2>2. /\ ended = "open" /\ sent' = Append(sent, m)
        /\ UNCHANGED <<wire, quinnVars, readerVars>>
    BY <1>2 DEF Begin
  <2> QED BY <1>0, <2>1, <2>2, ReaderKept DEF quinnVars
<1>3. ASSUME NEW n \in 1 .. Len(todo), Write(n) PROVE ReaderInv'
  <2>1. \A i \in 1 .. Len(wire) : wire'[i] = wire[i]
    BY <1>3, WriteBytes
  <2>2. ended = "open" /\ UNCHANGED <<sent, quinnVars, readerVars>>
    BY <1>3 DEF Write
  <2> QED BY <1>0, <2>1, <2>2, ReaderKept DEF quinnVars
<1>4. ASSUME UNCHANGED <<sent, wire, quinnVars, readerVars>> PROVE ReaderInv'
  <2>1. ended = "finished" => arrived = Len(wire)
    BY DEF ReaderInv
  <2> QED BY <1>4, <2>1, ReaderKept DEF quinnVars
<1>5. ASSUME WriteFails \/ AppDrops \/ DropHandler PROVE ReaderInv'
  BY <1>4, <1>5, Zenon DEF WriteFails, AppDrops, DropHandler
<1>6. ASSUME Finish PROVE ReaderInv'
  BY <1>0, <1>6, ReaderKept DEF Finish, writerVars
<1>7. ASSUME NEW n \in 1 .. Len(wire) - arrived, Arrive(n) PROVE ReaderInv'
  BY <1>0, <1>7, ReaderKept DEF Arrive, writerVars
<1>8. ASSUME NEW e \in Losses, Lose(e) PROVE ReaderInv'
  <2>1. e # "finished"
    BY WireAssumption
  <2> QED BY <1>0, <1>8, <2>1, ReaderKept DEF Lose, writerVars
<1> QED BY <1>1, <1>2, <1>3, <1>5, <1>6, <1>7, <1>8 DEF Writer, Quinn

\* The reads of a header keep ReaderInv.
LEMMA ReaderInvHeader ==
  ASSUME WireTypeOK, FrameInv, ReaderInv,
         (\E n \in 1 .. MSG_HEADER_LEN : ReadFirst(n)) \/ ReadRest
  PROVE  ReaderInv'
<1>0. /\ Len(sent) \in Nat /\ Len(got) \in Nat /\ Start \in Nat
      /\ Len(wire) \in Nat /\ MSG_HEADER_LEN = 9
      /\ Start < Len(wire) => Len(got) < Len(sent)
      /\ rd \in Nat /\ rd <= arrived /\ arrived <= Len(wire) /\ arrived \in Nat
      /\ need \in 0 .. MSG_HEADER_LEN - 1
  BY ReaderAt DEF WireTypeOK, MSG_HEADER_LEN
<1>1. SUFFICES
        /\ UNCHANGED <<sent, wire, arrived, ended, got, over>>
        /\ rpc # "done" /\ rpc' \in {"header", "data"}
        /\ rd' = Start + (MSG_HEADER_LEN - need')
        /\ rpc' = "data" => need' = 0
        /\ Len(got) < Len(sent)
        /\ \A i \in 1 .. MSG_HEADER_LEN - need' : header'[i] = wire[Start + i]
  <2> SUFFICES ASSUME
        /\ UNCHANGED <<sent, wire, arrived, ended, got, over>>
        /\ rpc # "done" /\ rpc' \in {"header", "data"}
        /\ rd' = Start + (MSG_HEADER_LEN - need')
        /\ rpc' = "data" => need' = 0
        /\ Len(got) < Len(sent)
        /\ \A i \in 1 .. MSG_HEADER_LEN - need' : header'[i] = wire[Start + i]
               PROVE ReaderInv'
    BY Zenon
  <2>1. Start' = Start
    BY Zenon DEF Start
  <2> QED BY <2>1 DEF ReaderInv
<1>2. ASSUME NEW n \in 1 .. MSG_HEADER_LEN, ReadFirst(n)
      PROVE  /\ UNCHANGED <<sent, wire, arrived, ended, got, over>>
             /\ rpc # "done" /\ rpc' \in {"header", "data"}
             /\ rd' = Start + (MSG_HEADER_LEN - need')
             /\ rpc' = "data" => need' = 0
             /\ Len(got) < Len(sent)
             /\ \A i \in 1 .. MSG_HEADER_LEN - need' :
                  header'[i] = wire[Start + i]
  <2>1. /\ rpc = "first" /\ rd + n <= arrived
        /\ header' = [i \in 1 .. MSG_HEADER_LEN |->
                        IF i <= n THEN wire[rd + i] ELSE 0]
        /\ need' = MSG_HEADER_LEN - n /\ rd' = rd + n
        /\ rpc' = IF n = MSG_HEADER_LEN THEN "data" ELSE "header"
        /\ UNCHANGED <<sent, wire, arrived, ended, got, over>>
    BY <1>2 DEF ReadFirst, HeaderFull, writerVars, quinnVars
  <2>2. rd = Start
    BY <1>0, <2>1 DEF ReaderInv
  <2>3. MSG_HEADER_LEN - need' = n /\ Start < Len(wire)
    BY <1>0, <2>1, <2>2
  <2>4. \A i \in 1 .. n : header'[i] = wire[Start + i]
    BY <1>0, <2>1, <2>2
  <2> QED BY <1>0, <2>1, <2>2, <2>3, <2>4
<1>3. ASSUME ReadRest
      PROVE  /\ UNCHANGED <<sent, wire, arrived, ended, got, over>>
             /\ rpc # "done" /\ rpc' \in {"header", "data"}
             /\ rd' = Start + (MSG_HEADER_LEN - need')
             /\ rpc' = "data" => need' = 0
             /\ Len(got) < Len(sent)
             /\ \A i \in 1 .. MSG_HEADER_LEN - need' :
                  header'[i] = wire[Start + i]
  <2> DEFINE At(i) == i - (MSG_HEADER_LEN - need)
  <2>1. /\ rpc = "header"
        /\ header' = [i \in 1 .. MSG_HEADER_LEN |->
                        IF At(i) > 0 THEN wire[rd + At(i)] ELSE header[i]]
        /\ need' = 0 /\ rd' = rd + need /\ rpc' = "data"
        /\ UNCHANGED <<sent, wire, arrived, ended, got, over>>
    BY <1>3 DEF ReadRest, writerVars, quinnVars
  <2>2. /\ rd = Start + (MSG_HEADER_LEN - need) /\ Len(got) < Len(sent)
        /\ \A i \in 1 .. MSG_HEADER_LEN - need : header[i] = wire[Start + i]
    BY <2>1 DEF ReaderInv
  <2>3. ASSUME NEW i \in 1 .. MSG_HEADER_LEN PROVE header'[i] = wire[Start + i]
    <3>1. CASE At(i) > 0
      <4>1. rd + At(i) = Start + i
        BY <1>0, <2>2
      <4> HIDE DEF At
      <4> QED BY <2>1, <3>1, <4>1
    <3>2. CASE ~(At(i) > 0)
      <4>1. i \in 1 .. MSG_HEADER_LEN - need
        BY <1>0, <3>2
      <4> HIDE DEF At
      <4> QED BY <2>1, <2>2, <3>2, <4>1
    <3> QED BY <3>1, <3>2
  <2>4. MSG_HEADER_LEN - need' = MSG_HEADER_LEN
        /\ rd' = Start + (MSG_HEADER_LEN - need')
    BY <1>0, <2>1, <2>2
  <2> QED BY <2>1, <2>2, <2>3, <2>4
<1> QED BY <1>2, <1>3

\* The reader that has a whole header knows the length of the data, and reads
\* the message that was sent.
LEMMA ReadsMessage ==
  ASSUME WireTypeOK, FrameInv, ReaderInv, ReadData
  PROVE  /\ Len(got) < Len(sent) /\ over = "open"
         /\ got' = Append(got, Outcome(sent[Len(got) + 1]))
         /\ rd' = EndsOf(sent)[Len(got) + 1]
<1> DEFINE k == Len(got) + 1  m == sent[k]  e == EndsOf(sent)
           len == Len(Data(m))
<1>0. /\ sent \in Seq(Msgs) /\ Len(sent) \in Nat /\ Len(got) \in Nat
      /\ Start \in Nat /\ Len(wire) \in Nat /\ Framed(wire, sent)
  BY ReaderAt
<1>1. /\ rpc = "data" /\ need = 0 /\ Len(got) < Len(sent) /\ over = "open"
      /\ rd = Start + MSG_HEADER_LEN
      /\ \A i \in 1 .. MSG_HEADER_LEN : header[i] = wire[Start + i]
  <2>1. rpc = "data"
    BY DEF ReadData
  <2>2. need = 0 /\ MSG_HEADER_LEN - need = MSG_HEADER_LEN
    BY <2>1 DEF ReaderInv, MSG_HEADER_LEN
  <2> QED BY <2>1, <2>2 DEF ReaderInv
<1>2. k \in 1 .. Len(sent) /\ k - 1 = Len(got) /\ m \in Msgs /\ e[k - 1] = Start
  BY <1>0, <1>1 DEF Start
<1>3. Data(m) \in Seq(Byte) /\ len \in Nat
  BY <1>2, DataBytes
<1>4. /\ len < U32
      /\ \A i \in 1 .. MSG_HEADER_LEN + len :
           Start + i <= Len(wire) => wire[Start + i] = Frame(m)[i]
  BY <1>0, <1>2, Zenon DEF Framed
<1>5. e[k] = Start + MSG_HEADER_LEN + len
  BY <1>0, <1>2, EndFacts
<1>6. /\ HeaderOf(m) \in Headers
      /\ \A i \in 1 .. MSG_HEADER_LEN : Frame(m)[i] = to_bytes(HeaderOf(m))[i]
      /\ \A i \in 1 .. len : Frame(m)[MSG_HEADER_LEN + i] = Data(m)[i]
  BY <1>2, <1>4, FrameBytes
<1> HIDE DEF k, m, e, len
<1>7. /\ rd <= Len(wire) /\ MSG_HEADER_LEN = 9 /\ rd = Start + 9
      /\ Start \in Nat /\ Len(wire) \in Nat /\ len \in Nat
  BY <1>0, <1>1, <1>3 DEF WireTypeOK, MSG_HEADER_LEN
<1>8. header = to_bytes(HeaderOf(m))
  <2>1. ASSUME NEW i \in 1 .. MSG_HEADER_LEN
        PROVE  header[i] = to_bytes(HeaderOf(m))[i]
    <3>1. i \in 1 .. MSG_HEADER_LEN + len /\ Start + i <= Len(wire)
      BY <1>7
    <3> QED BY <1>1, <1>4, <1>6, <3>1
  <2> DEFINE b == to_bytes(HeaderOf(m))
  <2>2. /\ header \in [1 .. MSG_HEADER_LEN -> Byte]
        /\ b \in [1 .. MSG_HEADER_LEN -> Byte]
    BY <1>6, HeaderRoundTrip DEF WireTypeOK
  <2>3. \A i \in 1 .. MSG_HEADER_LEN : header[i] = b[i]
    BY <2>1
  <2> HIDE DEF b
  <2>4. header = b
    <3>1. /\ header = [i \in 1 .. MSG_HEADER_LEN |-> header[i]]
          /\ b = [i \in 1 .. MSG_HEADER_LEN |-> b[i]]
      BY <2>2, Zenon
    <3>2. [i \in 1 .. MSG_HEADER_LEN |-> header[i]]
            = [i \in 1 .. MSG_HEADER_LEN |-> b[i]]
      BY <2>3, Zenon
    <3> QED BY <3>1, <3>2, Zenon
  <2> QED BY <2>4 DEF b
<1>9. from_bytes(header) = HeaderOf(m)
  BY <1>6, <1>8, HeaderRoundTrip
<1>10. from_bytes(header).data_len = len
  BY <1>9 DEF HeaderOf, Header, len
<1>11. /\ rd + len <= Len(wire) /\ rd' = rd + len
       /\ got' = Append(got, Decode(HeaderOf(m), SubSeq(wire, rd + 1, rd + len)))
  <2>1. rd + len <= arrived
    BY <1>10 DEF ReadData, Readable
  <2>2. rd + len <= Len(wire)
    BY <1>0, <1>3, <2>1 DEF WireTypeOK
  <2> QED BY <1>9, <1>10, <2>2 DEF ReadData
<1>12. SubSeq(wire, rd + 1, rd + len) = Data(m)
  <2> DEFINE d == SubSeq(wire, rd + 1, rd + len)
  <2>1. rd + 1 \in Int /\ rd + len \in Int /\ rd \in Nat
    BY <1>3 DEF WireTypeOK
  <2>2. \A i \in rd + 1 .. rd + len : wire[i] \in Byte
    <3>1. wire \in Seq(Byte)
      BY DEF WireTypeOK
    <3>2. ASSUME NEW i \in rd + 1 .. rd + len PROVE i \in 1 .. Len(wire)
      BY <1>0, <1>3, <1>11, <2>1
    <3> QED BY <3>1, <3>2, ElementOfSeq
  <2>3. /\ d \in Seq(Byte) /\ Len(d) = IF rd + 1 <= rd + len
                                          THEN (rd + len) - (rd + 1) + 1 ELSE 0
        /\ \A i \in 1 .. (rd + len) - (rd + 1) + 1 :
             d[i] = wire[(rd + 1) + i - 1]
    BY <2>1, <2>2, SubSeqProperties
  <2>4. Len(d) = len
    BY <1>3, <2>1, <2>3
  <2>5. ASSUME NEW i \in 1 .. len PROVE d[i] = Data(m)[i]
    <3>1. /\ i \in 1 .. (rd + len) - (rd + 1) + 1
          /\ (rd + 1) + i - 1 = Start + (MSG_HEADER_LEN + i)
          /\ MSG_HEADER_LEN + i \in 1 .. MSG_HEADER_LEN + len
          /\ Start + (MSG_HEADER_LEN + i) <= Len(wire)
      <4>1. rd + len <= Len(wire)
        BY <1>11
      <4> QED BY <1>7, <4>1
    <3>2. d[i] = wire[Start + (MSG_HEADER_LEN + i)]
      BY <2>3, <3>1
    <3>3. wire[Start + (MSG_HEADER_LEN + i)] = Frame(m)[MSG_HEADER_LEN + i]
      BY <1>4, <3>1
    <3> QED BY <1>6, <3>2, <3>3, Zenon
  <2> HIDE DEF d
  <2>6. d = Data(m)
    BY <1>3, <2>3, <2>4, <2>5, SeqEqual DEF len
  <2> QED BY <2>6 DEF d
<1>13. got' = Append(got, Outcome(m))
  BY <1>2, <1>11, <1>12, DecodeOutcome, Zenon
<1>14. rd' = e[k]
  BY <1>0, <1>1, <1>3, <1>5, <1>7, <1>11
<1> QED BY <1>1, <1>13, <1>14 DEF k, m, e

\* The read of the data and the end of the stream keep ReaderInv.
LEMMA ReaderInvData ==
  ASSUME WireTypeOK, FrameInv, ReaderInv, ReadData
  PROVE  ReaderInv'
<1> DEFINE k == Len(got) + 1  o == Outcome(sent[k])
<1>1. /\ sent \in Seq(Msgs) /\ Len(sent) \in Nat /\ Len(got) \in Nat
  BY ReaderAt
<1>2. /\ Len(got) < Len(sent) /\ over = "open" /\ got' = Append(got, o)
      /\ rd' = EndsOf(sent)[k]
  BY ReadsMessage
<1>3. /\ rpc' = "first" /\ need' = 0
      /\ UNCHANGED <<sent, wire, arrived, ended, over>>
  BY DEF ReadData, writerVars, quinnVars
<1>4. got \in Seq(Msgs \cup {Failure}) /\ o \in Msgs \cup {Failure}
  BY <1>1, <1>2 DEF ReaderInv, Outcome
<1> HIDE DEF o
<1>5. got' \in Seq(Msgs \cup {Failure}) /\ Len(got') = k /\ k <= Len(sent)
  BY <1>1, <1>2, <1>4
<1>6. Start' = rd' /\ rd' \in Nat
  <2>1. Start' = EndsOf(sent)[k]
    BY <1>3, <1>5 DEF Start
  <2>2. k \in 0 .. Len(sent)
    BY <1>1, <1>5
  <2> QED BY <1>1, <1>2, <2>1, <2>2, EndFacts
<1>7. ended' = "finished" => arrived' = Len(wire')
  BY <1>3 DEF ReaderInv
<1>8. rd' = Start' + 0
  <2>1. \A x \in Nat : x + 0 = x
    OBVIOUS
  <2> QED BY <1>6, <2>1, Zenon
<1> QED BY <1>2, <1>3, <1>5, <1>7, <1>8 DEF ReaderInv

\* The same for the end of the stream.
LEMMA ReaderInvEnd ==
  ASSUME WireTypeOK, FrameInv, ReaderInv, ReadEnd
  PROVE  ReaderInv' /\ over' # "open"
<1>1. /\ ended # "open" /\ rpc' = "done" /\ over' = EndOfStream(rpc = "first")
      /\ UNCHANGED <<sent, wire, arrived, ended, got>>
      /\ rpc = "first" => rd = arrived
      /\ rpc # "done"
  BY DEF ReadEnd, writerVars, quinnVars
<1>2. Start' = Start /\ Start \in Nat
  BY <1>1, ReaderAt DEF Start
<1>3. ended \in {"finished", "reset", "benign", "failed"}
  BY <1>1, WireAssumption DEF WireTypeOK
<1>4. over' # "open" /\ (over' = "None" => rpc = "first")
  <2>1. CASE ended = "finished"
    BY <1>1, <2>1, Zenon DEF EndOfStream
  <2>2. CASE ended = "reset"
    BY <1>1, <2>2, Zenon DEF EndOfStream
  <2>3. CASE ended = "benign"
    BY <1>1, <2>3, Zenon DEF EndOfStream
  <2>4. CASE ended = "failed"
    BY <1>1, <2>4, Zenon DEF EndOfStream
  <2> QED BY <1>3, <2>1, <2>2, <2>3, <2>4
<1>5. rpc = "first" => rd = Start
  BY <1>2 DEF ReaderInv
<1> QED BY <1>1, <1>2, <1>4, <1>5 DEF ReaderInv

-----------------------------------------------------------------------------
WireInv == WireTypeOK /\ FrameInv /\ ReaderInv

\* WireInv is an invariant, if no application outlives the listener.
LEMMA WireInvariant == AppOutlives = FALSE => (Spec => []WireInv)
<1> SUFFICES ASSUME AppOutlives = FALSE PROVE Spec => []WireInv
  BY Zenon
<1>1. Init => FrameInv /\ ReaderInv
  <2> SUFFICES ASSUME Init PROVE FrameInv /\ ReaderInv
    OBVIOUS
  <2>1. /\ sent = <<>> /\ wire = <<>> /\ todo = <<>> /\ got = <<>>
        /\ rpc = "first" /\ over = "open" /\ ended = "open" /\ rd = 0
        /\ arrived = 0
    BY DEF Init
  <2>2. EndsOf(sent)[0] = 0
    <3>1. <<>> \in Seq(Msgs)
      BY EmptySeq
    <3> QED BY <2>1, <3>1, EndFacts, Zenon
  <2>3. Len(sent) = 0 /\ Len(wire) = 0 /\ Len(got) = 0 /\ Len(Bytes) = 0
    BY <2>1 DEF Bytes
  <2>4. FrameInv
    BY <2>2, <2>3 DEF FrameInv, Framed, Within
  <2>5. ReaderInv
    BY <2>1, <2>2, <2>3 DEF ReaderInv, Start
  <2> QED BY <2>4, <2>5
<1>2. WireTypeOK /\ FrameInv /\ ReaderInv /\ [Next]_vars
        => FrameInv' /\ ReaderInv'
  <2> SUFFICES ASSUME WireTypeOK, FrameInv, ReaderInv, [Next]_vars
               PROVE  FrameInv' /\ ReaderInv'
    OBVIOUS
  <2>1. FrameInv'
    BY FrameInvWriter, FrameInvReader, Zenon DEF Next
  <2>2. CASE Writer \/ Quinn
    BY <2>1, <2>2, ReaderInvWriter
  <2>3. CASE Reader
    BY <2>1, <2>3, ReaderInvHeader, ReaderInvData, ReaderInvEnd DEF Reader
  <2>4. CASE UNCHANGED vars
    <3>1. ended = "finished" => arrived = Len(wire)
      BY DEF ReaderInv
    <3> QED BY <2>1, <2>4, <3>1, ReaderKept
            DEF vars, writerVars, quinnVars
  <2> QED BY <2>2, <2>3, <2>4 DEF Next
<1> QED BY <1>1, <1>2, WireTypeCorrect, PTL DEF Spec, WireInv

\* For every Base, every set of lengths and any number of calls: the reader
\* sees a clean end of the stream only where a frame ends, and behind all that
\* was written if the stream was finished, unless an application holds the
\* stream longer than the listener.
THEOREM CutReportedHolds == AppOutlives = FALSE => (Spec => []CutReported)
<1>1. WireInv => CutReported
  <2> SUFFICES ASSUME WireInv, over = "None"
               PROVE  /\ arrived = FrameEnd[Len(got)]
                      /\ ended = "finished" => Len(wire) = FrameEnd[Len(got)]
    BY DEF CutReported
  <2>1. Start = FrameEnd[Len(got)]
    BY FrameEndIs DEF Start
  <2> QED BY <2>1 DEF WireInv, ReaderInv
<1> QED BY <1>1, WireInvariant, PTL

\* For every Base, every set of lengths and any number of calls: what the reader
\* returns are the messages written, in their order and each once, whatever the
\* pieces in which the bytes arrive and wherever the stream is lost, unless an
\* application holds the stream longer than the listener.
THEOREM InSyncHolds == AppOutlives = FALSE => (Spec => InSync)
<1> SUFFICES ASSUME AppOutlives = FALSE PROVE Spec => InSync
  BY Zenon
<1>1. Init => Stream!Init
  BY DEF Init, Stream!Init
<1>2. WireInv /\ WireInv' /\ [Next]_vars => [Stream!Next]_(Stream!vars)
  <2> SUFFICES ASSUME WireInv, [Next]_vars
               PROVE  Stream!Next \/ UNCHANGED <<sent, got, over # "open">>
    BY DEF Stream!vars
  <2>0. WireTypeOK /\ FrameInv /\ ReaderInv
    BY DEF WireInv
  <2>1. ASSUME NEW w \in Writers, NEW m \in MayWrite(w), Begin(w, m)
        PROVE  Stream!Next
    <3>1. m \in Msgs
      BY WriterMsgs
    <3>2. Stream!Send(m)
      BY <2>1 DEF Begin, readerVars, Stream!Send
    <3> QED BY <3>1, <3>2 DEF Stream!Next
  <2>2. ASSUME ReadData PROVE Stream!Next
    <3>1. /\ Len(got) < Len(sent) /\ over = "open"
          /\ got' = Append(got, Outcome(sent[Len(got) + 1]))
      BY <2>0, <2>2, ReadsMessage
    <3>2. UNCHANGED <<sent, over>>
      BY <2>2 DEF ReadData, writerVars
    <3> QED BY <3>1, <3>2 DEF Stream!Next, Stream!Receive
  <2>3. ASSUME ReadEnd PROVE Stream!Next
    <3>1. over' # "open" /\ UNCHANGED <<sent, got>>
      BY <2>0, <2>3, ReaderInvEnd DEF ReadEnd, writerVars
    <3> QED BY <3>1 DEF Stream!Next, Stream!End
  <2>4. ASSUME UNCHANGED <<sent, got, over>>
        PROVE  UNCHANGED <<sent, got, over # "open">>
    BY <2>4
  <2>5. CASE Writer
    BY <2>1, <2>4, <2>5, Zenon
    DEF Writer, Refuse, Write, WriteFails, AppDrops, DropHandler, Finish,
        readerVars, writerVars
  <2>6. CASE Quinn
    BY <2>4, <2>6 DEF Quinn, Arrive, Lose, readerVars, writerVars
  <2>7. CASE Reader
    BY <2>2, <2>3, <2>4, <2>7 DEF Reader, ReadFirst, ReadRest, writerVars
  <2>8. CASE UNCHANGED vars
    BY <2>4, <2>8 DEF vars, readerVars, writerVars
  <2> QED BY <2>5, <2>6, <2>7, <2>8 DEF Next
<1>3. Spec => []WireInv
  BY WireInvariant
<1> QED BY <1>1, <1>2, <1>3, PTL DEF Spec, InSync, Stream!Spec
=============================================================================
