------------------------- MODULE PacketBytesProofs -------------------------
(***************************************************************************)
(* Lemmas about the bytes of packets.                                      *)
(***************************************************************************)
EXTENDS PacketBytes, SequenceTheorems, TLAPS

Bytes == [val : Nat, at : Int \X Int]

\* Bytes are bytes.
LEMMA ByteType ==
  ASSUME NEW val \in Nat, NEW k \in Int, NEW i \in Int
  PROVE  Byte(val, k, i) \in Bytes
BY DEF Byte, Bytes

\* So is what bzero leaves.
LEMMA ZeroType == Zero \in Bytes
BY ByteType DEF Zero

\* MQTTPacket_encode writes one digit or two (lengths below 128 * 128).
LEMMA LengthType ==
  ASSUME NEW k \in Nat, NEW n \in Nat, Base \in Nat \ {0, 1}
  PROVE  Length(k, n) \in Seq(Bytes) /\ Len(Length(k, n)) \in {1, 2}
<1>1. n % Base \in Nat /\ n \div Base \in Nat
  <2>1. n \in Int /\ Base \in Nat \ {0} OBVIOUS
  <2> QED BY <2>1
<1>2. Byte(n, k, -1) \in Bytes BY ByteType
<1>3. ASSUME NEW v \in Nat, NEW i \in {1, 2} PROVE Byte(v, k, -i) \in Bytes
  BY <1>3, ByteType
<1>4. Byte(Base + (n % Base), k, -1) \in Bytes /\ Byte(n \div Base, k, -2) \in Bytes
  <2>1. Base + (n % Base) \in Nat BY <1>1
  <2> QED BY <1>1, <1>3, <2>1
<1> QED BY <1>2, <1>4 DEF Length

\* The body is as many bytes as the length says.
LEMMA BodyType ==
  ASSUME NEW k \in Nat, NEW n \in Nat, Base \in Nat \ {0, 1}
  PROVE  Body(k, n) \in Seq(Bytes) /\ Len(Body(k, n)) = n
<1>1. Base + 1 \in Nat OBVIOUS
<1>2. \A i \in 1..n : Byte(BodyByte, k, i) \in Bytes BY <1>1, ByteType DEF BodyByte
<1> QED BY <1>2 DEF Body

\* A packet on the wire is a sequence of bytes.
LEMMA OnWireType ==
  ASSUME NEW k \in Nat, NEW n \in Nat, Base \in Nat \ {0, 1}
  PROVE  OnWire(k, n) \in Seq(Bytes)
<1>1. <<Header(k)>> \in Seq(Bytes) BY ByteType DEF Header
<1>2. Length(k, n) \in Seq(Bytes) /\ Body(k, n) \in Seq(Bytes) BY LengthType, BodyType
<1> QED BY <1>1, <1>2 DEF OnWire

-----------------------------------------------------------------------------
(* A stream of whole packets.  s are the packets that were sent, numbered from 1. *)

IsPacket(p, k) == p = Packet(k, Len(p.body)) /\ Len(p.body) \in Nat
Numbered(s) == \A k \in 1..Len(s) : IsPacket(s[k], k)
Wire(s, k) == OnWire(k, Len(s[k].body))

\* The bytes of w are those of the packets from the i-th: the k-th begins behind off[k].
Places(w, s, i, off) ==
  /\ off \in [i..Len(s) + 1 -> Nat] /\ off[i] = 0 /\ off[Len(s) + 1] = Len(w)
  /\ \A a, b \in i..Len(s) + 1 : a <= b => off[a] <= off[b]
  /\ \A k \in i..Len(s) :
       /\ off[k + 1] = off[k] + Len(Wire(s, k))
       /\ \A j \in 1..Len(Wire(s, k)) : w[off[k] + j] = Wire(s, k)[j]
Carries(w, s, i) == \E off : Places(w, s, i, off)

\* One sequence behind another.
LEMMA ConcatFacts ==
  ASSUME NEW S, NEW s \in Seq(S), NEW t \in Seq(S)
  PROVE  /\ s \o t \in Seq(S) /\ Len(s) \in Nat /\ Len(t) \in Nat /\ Len(s \o t) = Len(s) + Len(t)
         /\ \A i \in 1..Len(s) : (s \o t)[i] = s[i]
         /\ \A i \in 1..Len(t) : (s \o t)[Len(s) + i] = t[i]
OBVIOUS

\* The bytes of a packet are as many as its header, its length and its body.
LEMMA OnWireLen ==
  ASSUME NEW k \in Nat, NEW n \in Nat, Base \in Nat \ {0, 1}
  PROVE  /\ OnWire(k, n) \in Seq(Bytes)
         /\ Len(OnWire(k, n)) = 1 + Len(Length(k, n)) + n
         /\ OnWire(k, n)[1] = Header(k)
         /\ \A j \in 1..Len(Length(k, n)) : OnWire(k, n)[1 + j] = Length(k, n)[j]
         /\ \A j \in 1..n : OnWire(k, n)[1 + Len(Length(k, n)) + j] = Body(k, n)[j]
<1> DEFINE h == <<Header(k)>>
           l == Length(k, n)
           b == Body(k, n)
<1>1. h \in Seq(Bytes) /\ Len(h) = 1 /\ h[1] = Header(k) BY ByteType DEF Header
<1>2. l \in Seq(Bytes) /\ Len(l) \in {1, 2} BY LengthType
<1>3. b \in Seq(Bytes) /\ Len(b) = n BY BodyType
<1>4. OnWire(k, n) = (h \o l) \o b BY DEF OnWire
<1> HIDE DEF h, l, b
<1>5. /\ h \o l \in Seq(Bytes) /\ Len(h \o l) = 1 + Len(l)
      /\ (h \o l)[1] = h[1] /\ \A j \in 1..Len(l) : (h \o l)[1 + j] = l[j]
  <2>1. h \in Seq(Bytes) /\ l \in Seq(Bytes) BY <1>1, <1>2
  <2>2. /\ h \o l \in Seq(Bytes) /\ Len(h \o l) = Len(h) + Len(l)
        /\ \A i \in 1..Len(h) : (h \o l)[i] = h[i]
        /\ \A i \in 1..Len(l) : (h \o l)[Len(h) + i] = l[i]
    BY <2>1, ConcatFacts
  <2> QED BY <1>1, <2>2
<1> DEFINE hl == h \o l
<1>6. hl \in Seq(Bytes) /\ Len(hl) = 1 + Len(l) /\ Len(l) \in 1..2 BY <1>2, <1>5
<1> HIDE DEF hl
<1>7. /\ hl \o b \in Seq(Bytes) /\ Len(hl \o b) = 1 + Len(l) + n
      /\ (hl \o b)[1] = hl[1]
      /\ \A j \in 1..Len(l) : (hl \o b)[1 + j] = hl[1 + j]
      /\ \A j \in 1..n : (hl \o b)[1 + Len(l) + j] = b[j]
  BY <1>3, <1>6
<1> QED BY <1>1, <1>4, <1>5, <1>7 DEF hl, l, b

\* Nothing is what is left when every packet was read.
LEMMA CarriesNone == ASSUME NEW S, NEW s \in Seq(S) PROVE Carries(<<>>, s, Len(s) + 1)
<1> DEFINE off == [k \in Len(s) + 1..Len(s) + 1 |-> 0]
<1>1. Len(s) \in Nat OBVIOUS
<1>2. Places(<<>>, s, Len(s) + 1, off) BY <1>1 DEF Places
<1> QED BY <1>2 DEF Carries

\* One packet more.
LEMMA CarriesMore ==
  ASSUME NEW S, NEW s \in Seq(S), NEW w \in Seq(Bytes), NEW i \in 1..Len(s) + 1,
         NEW n \in Nat, Packet(Len(s) + 1, n) \in S, Base \in Nat \ {0, 1},
         Carries(w, s, i)
  PROVE  Carries(w \o OnWire(Len(s) + 1, n), Append(s, Packet(Len(s) + 1, n)), i)
<1> DEFINE m == Len(s)
           p == Packet(m + 1, n)
           t == Append(s, p)
           o == OnWire(m + 1, n)
           v == w \o o
<1>1. m \in Nat /\ i \in 1..m + 1 OBVIOUS
<1>2. o \in Seq(Bytes)
  <2>1. m + 1 \in Nat BY <1>1
  <2> QED BY <2>1, OnWireType
<1>3. t \in Seq(S) /\ Len(t) = m + 1 /\ t[m + 1] = p /\ \A k \in 1..m : t[k] = s[k]
  OBVIOUS
<1>4. p.body = Body(m + 1, n) /\ Len(p.body) = n BY DEF Packet, Result, Body
<1>5. Wire(t, m + 1) = o /\ \A k \in 1..m : Wire(t, k) = Wire(s, k) BY <1>3, <1>4 DEF Wire
<1>6. PICK off : Places(w, s, i, off) BY DEF Carries
<1> DEFINE new == [k \in i..m + 2 |-> IF k = m + 2 THEN Len(w) + Len(o) ELSE off[k]]
<1> HIDE DEF p, t, o
<1>7. /\ Len(w) \in Nat /\ Len(o) \in Nat /\ Len(v) = Len(w) + Len(o)
      /\ \A j \in 1..Len(w) : v[j] = w[j]
      /\ \A j \in 1..Len(o) : v[Len(w) + j] = o[j]
  BY <1>2
<1> HIDE DEF v
<1>8. /\ off \in [i..m + 1 -> Nat] /\ off[i] = 0 /\ off[m + 1] = Len(w)
      /\ \A a, b \in i..m + 1 : a <= b => off[a] <= off[b]
      /\ \A k \in i..m :
           /\ off[k + 1] = off[k] + Len(Wire(s, k))
           /\ \A j \in 1..Len(Wire(s, k)) : w[off[k] + j] = Wire(s, k)[j]
  BY <1>6 DEF Places
<1> HIDE DEF m
<1>9. /\ new \in [i..m + 2 -> Nat] /\ new[i] = 0 /\ new[m + 2] = Len(v)
      /\ \A k \in i..m + 1 : new[k] = off[k]
  BY <1>1, <1>7, <1>8
<1> HIDE DEF new
<1>10. \A a, b \in i..m + 2 : a <= b => new[a] <= new[b]
  <2> SUFFICES ASSUME NEW a \in i..m + 2, NEW b \in i..m + 2, a <= b PROVE new[a] <= new[b]
    OBVIOUS
  <2>1. CASE b # m + 2
    <3>1. a \in i..m + 1 /\ b \in i..m + 1 BY <1>1, <2>1
    <3> QED BY <1>8, <1>9, <3>1
  <2>2. CASE b = m + 2 /\ a # m + 2
    <3>1. a \in i..m + 1 /\ m + 1 \in i..m + 1 BY <1>1, <2>2
    <3>2. off[a] <= off[m + 1] BY <1>8, <3>1
    <3>3. off[a] \in Nat BY <1>8, <3>1
    <3> QED BY <1>7, <1>8, <1>9, <2>2, <3>1, <3>2, <3>3
  <2>3. CASE b = m + 2 /\ a = m + 2 BY <1>9, <2>3, <1>7
  <2> QED BY <2>1, <2>2, <2>3
<1>11. ASSUME NEW k \in i..m + 1
       PROVE  /\ new[k + 1] = new[k] + Len(Wire(t, k))
              /\ \A j \in 1..Len(Wire(t, k)) : v[new[k] + j] = Wire(t, k)[j]
  <2>1. CASE k = m + 1
    <3>1. new[k + 1] = Len(w) + Len(o) /\ new[k] = Len(w) BY <1>1, <1>7, <1>8, <1>9, <2>1
    <3> QED BY <1>5, <1>7, <2>1, <3>1
  <2>2. CASE k # m + 1
    <3>1. k \in i..m /\ k \in 1..m /\ k + 1 \in i..m + 1 /\ k \in i..m + 1 /\ m + 1 \in i..m + 1
      BY <1>1, <2>2
    <3>2. Wire(t, k) = Wire(s, k) BY <1>5, <3>1
    <3>3. new[k] = off[k] /\ new[k + 1] = off[k + 1] BY <1>9, <3>1
    <3>4. off[k + 1] = off[k] + Len(Wire(s, k)) /\ off[k + 1] <= Len(w) /\ off[k] \in Nat
      <4>1. off[k + 1] <= off[m + 1] BY <1>1, <1>8, <3>1
      <4> QED BY <1>8, <3>1, <4>1
    <3>5. ASSUME NEW j \in 1..Len(Wire(s, k)) PROVE v[off[k] + j] = Wire(s, k)[j]
      <4>1. w[off[k] + j] = Wire(s, k)[j] BY <1>8, <3>1
      <4>2. off[k] + j \in 1..Len(w)
        <5>1. off[k + 1] \in Nat BY <1>8, <3>1
        <5>2. Len(Wire(s, k)) = off[k + 1] - off[k] BY <1>8, <3>1, <3>4, <5>1
        <5>3. j \in 1..(off[k + 1] - off[k]) BY <5>2
        <5>4. off[k] \in Nat /\ off[k + 1] <= Len(w) /\ Len(w) \in Nat BY <1>7, <3>4
        <5> QED BY <5>1, <5>3, <5>4
      <4> QED BY <1>7, <4>1, <4>2
    <3> QED BY <3>2, <3>3, <3>4, <3>5
  <2> QED BY <2>1, <2>2
<1>12. Places(v, t, i, new)
  <2>1. Len(t) + 1 = m + 2 BY <1>1, <1>3 DEF m
  <2> QED BY <1>1, <1>3, <1>9, <1>10, <1>11, <2>1 DEF Places, m
<1> QED BY <1>12 DEF Carries, v, t, o, p, m

\* A byte is of the first packet that was not read, which begins the stream.
LEMMA CarriesFirst ==
  ASSUME NEW S, NEW s \in Seq(S), NEW w \in Seq(Bytes), NEW i \in 1..Len(s) + 1,
         Carries(w, s, i), Len(w) # 0
  PROVE  /\ i \in 1..Len(s) /\ Len(Wire(s, i)) <= Len(w)
         /\ \A j \in 1..Len(Wire(s, i)) : w[j] = Wire(s, i)[j]
<1> DEFINE m == Len(s)
<1>1. m \in Nat /\ i \in 1..m + 1 /\ Len(w) \in Nat OBVIOUS
<1>2. PICK off : Places(w, s, i, off) BY DEF Carries
<1>3. /\ off \in [i..m + 1 -> Nat] /\ off[i] = 0 /\ off[m + 1] = Len(w)
      /\ \A a, b \in i..m + 1 : a <= b => off[a] <= off[b]
      /\ \A k \in i..m :
           /\ off[k + 1] = off[k] + Len(Wire(s, k))
           /\ \A j \in 1..Len(Wire(s, k)) : w[off[k] + j] = Wire(s, k)[j]
  BY <1>2 DEF Places
<1> HIDE DEF m
<1>4. i # m + 1 BY <1>3
<1>5. i \in i..m /\ i + 1 \in i..m + 1 /\ m + 1 \in i..m + 1 /\ i + 1 <= m + 1 BY <1>1, <1>4
<1>6. off[i + 1] <= Len(w) BY <1>3, <1>5
<1>7. off[i + 1] = 0 + Len(Wire(s, i)) /\ off[i + 1] \in Nat BY <1>3, <1>5
<1>8. Len(Wire(s, i)) = off[i + 1]
  <2>1. Wire(s, i) \in Seq(Bytes) \/ Wire(s, i) \notin Seq(Bytes) OBVIOUS
  <2> QED BY <1>7
<1>9. ASSUME NEW j \in 1..Len(Wire(s, i)) PROVE w[j] = Wire(s, i)[j]
  <2>1. w[0 + j] = Wire(s, i)[j] BY <1>3, <1>5
  <2>2. 0 + j = j BY <1>8, <1>7
  <2> QED BY <2>1, <2>2
<1> QED BY <1>1, <1>4, <1>5, <1>6, <1>8, <1>9 DEF m

\* What follows it carries the packets that follow.
LEMMA CarriesRest ==
  ASSUME NEW S, NEW s \in Seq(S), NEW w \in Seq(Bytes), NEW v \in Seq(Bytes), NEW c \in Seq(Bytes),
         NEW i \in 1..Len(s), Carries(w, s, i), c \o v = w, Len(Wire(s, i)) = Len(c)
  PROVE  Carries(v, s, i + 1)
<1> DEFINE m == Len(s)
           z == Len(c)
<1>0. m \in Nat /\ i \in 1..m /\ c \in Seq(Bytes) /\ v \in Seq(Bytes) OBVIOUS
<1>a. /\ Len(c) \in Nat /\ Len(v) \in Nat /\ Len(c \o v) = Len(c) + Len(v)
      /\ \A j \in 1..Len(v) : (c \o v)[Len(c) + j] = v[j]
  BY <1>0, ConcatFacts
<1>b. w = c \o v OBVIOUS
<1>c. /\ z \in Nat /\ Len(w) = z + Len(v) /\ Len(v) \in Nat
      /\ \A j \in 1..Len(v) : w[z + j] = v[j]
  BY <1>a, <1>b, Zenon
<1>1. /\ m \in Nat /\ i \in 1..m /\ Len(w) \in Nat /\ z \in Nat /\ Len(w) = z + Len(v)
      /\ Len(v) \in Nat /\ \A j \in 1..Len(v) : w[z + j] = v[j]
  BY <1>0, <1>c
<1>2. PICK off : Places(w, s, i, off) BY DEF Carries
<1>3. /\ off \in [i..m + 1 -> Nat] /\ off[i] = 0 /\ off[m + 1] = Len(w)
      /\ \A a, b \in i..m + 1 : a <= b => off[a] <= off[b]
      /\ \A k \in i..m :
           /\ off[k + 1] = off[k] + Len(Wire(s, k))
           /\ \A j \in 1..Len(Wire(s, k)) : w[off[k] + j] = Wire(s, k)[j]
  BY <1>2 DEF Places
<1>z. z = Len(Wire(s, i)) OBVIOUS
<1> HIDE DEF m, z
<1> DEFINE new == [k \in i + 1..m + 1 |-> off[k] - z]
<1>4. i \in i..m /\ i + 1 \in i..m + 1 /\ m + 1 \in i..m + 1 BY <1>1
<1>5. off[i + 1] = z
  <2>1. off[i + 1] = off[i] + z BY <1>3, <1>4, <1>z
  <2> QED BY <1>1, <1>3, <2>1
<1>6. ASSUME NEW k \in i + 1..m + 1
      PROVE  k \in i..m + 1 /\ off[k] \in Nat /\ off[k] >= z /\ new[k] = off[k] - z
  <2>1. k \in i..m + 1 /\ i + 1 <= k BY <1>1
  <2>2. off[k] \in Nat /\ off[i + 1] <= off[k] BY <1>3, <1>4, <2>1
  <2> QED BY <1>1, <1>5, <2>1, <2>2
<1>7. /\ new \in [i + 1..m + 1 -> Nat] /\ new[i + 1] = 0 /\ new[m + 1] = Len(v)
  <2>1. new \in [i + 1..m + 1 -> Nat]
    <3>1. \A k \in i + 1..m + 1 : off[k] - z \in Nat BY <1>1, <1>6
    <3> QED BY <3>1
  <2>2. i + 1 \in i + 1..m + 1 /\ m + 1 \in i + 1..m + 1 BY <1>1
  <2>3. new[i + 1] = 0 BY <1>1, <1>5, <1>6, <2>2
  <2>4. new[m + 1] = Len(v)
    <3>1. new[m + 1] = Len(w) - z BY <1>3, <1>6, <2>2
    <3> QED BY <1>1, <3>1
  <2> QED BY <2>1, <2>3, <2>4
<1> HIDE DEF new
<1>8. \A a, b \in i + 1..m + 1 : a <= b => new[a] <= new[b]
  <2> SUFFICES ASSUME NEW a \in i + 1..m + 1, NEW b \in i + 1..m + 1, a <= b
               PROVE  new[a] <= new[b]
    OBVIOUS
  <2>1. off[a] <= off[b] BY <1>3, <1>6
  <2>2. off[a] \in Nat /\ off[b] \in Nat /\ new[a] = off[a] - z /\ new[b] = off[b] - z BY <1>6
  <2>3. off[a] - z <= off[b] - z BY <1>1, <2>1, <2>2
  <2> QED BY <2>2, <2>3
<1>9. ASSUME NEW k \in i + 1..m
      PROVE  /\ new[k + 1] = new[k] + Len(Wire(s, k))
             /\ \A j \in 1..Len(Wire(s, k)) : v[new[k] + j] = Wire(s, k)[j]
  <2>1. k \in i..m /\ k \in i + 1..m + 1 /\ k + 1 \in i + 1..m + 1 /\ m + 1 \in i + 1..m + 1
    BY <1>1
  <2>2. off[k] \in Nat /\ off[k + 1] \in Nat /\ off[k] >= z
        /\ new[k] = off[k] - z /\ new[k + 1] = off[k + 1] - z
    BY <1>6, <2>1
  <2>3. Len(Wire(s, k)) = off[k + 1] - off[k]
    <3>1. off[k + 1] = off[k] + Len(Wire(s, k)) BY <1>3, <2>1
    <3>2. PICK a \in Nat : a = off[k] BY <2>2
    <3>3. PICK b \in Nat : b = off[k + 1] BY <2>2
    <3>4. b = a + Len(Wire(s, k)) BY <3>1, <3>2, <3>3
    <3>5. Len(Wire(s, k)) = b - a BY <3>4
    <3> QED BY <3>2, <3>3, <3>5
  <2>4. off[k + 1] <= Len(w) BY <1>3, <1>6, <2>1
  <2>5. ASSUME NEW j \in 1..Len(Wire(s, k)) PROVE v[new[k] + j] = Wire(s, k)[j]
    <3>1. j \in 1..(off[k + 1] - off[k]) BY <2>3
    <3>2. new[k] + j \in 1..Len(v) /\ z + (new[k] + j) = off[k] + j
      <4>1. PICK a \in Nat : a = off[k] BY <2>2
      <4>2. PICK b \in Nat : b = off[k + 1] BY <2>2
      <4>3. a >= z /\ b <= z + Len(v) /\ j \in 1..b - a /\ new[k] = a - z
        BY <1>1, <2>2, <2>4, <3>1, <4>1, <4>2
      <4>4. (a - z) + j \in 1..Len(v) /\ z + ((a - z) + j) = a + j BY <1>1, <4>3
      <4> QED BY <4>1, <4>3, <4>4
    <3>3. w[off[k] + j] = Wire(s, k)[j] BY <1>3, <2>1
    <3> QED BY <1>1, <3>2, <3>3
  <2>6. new[k + 1] = new[k] + (off[k + 1] - off[k]) BY <1>1, <2>2
  <2> QED BY <2>3, <2>5, <2>6
<1>10. Places(v, s, i + 1, new)
  BY <1>1, <1>7, <1>8, <1>9 DEF Places, m
<1> QED BY <1>10 DEF Carries

\* The front of a sequence and what follows it.
LEMMA SplitFacts ==
  ASSUME NEW S, NEW w \in Seq(S), NEW n \in 0..Len(w)
  PROVE  /\ SubSeq(w, 1, n) \in Seq(S) /\ Len(SubSeq(w, 1, n)) = n
         /\ \A j \in 1..n : SubSeq(w, 1, n)[j] = w[j]
         /\ SubSeq(w, n + 1, Len(w)) \in Seq(S) /\ Len(SubSeq(w, n + 1, Len(w))) = Len(w) - n
         /\ \A j \in 1..Len(w) - n : SubSeq(w, n + 1, Len(w))[j] = w[n + j]
<1>1. SubSeq(w, 1, n) \in Seq(S) /\ Len(SubSeq(w, 1, n)) = n OBVIOUS
<1>2. \A j \in 1..n : SubSeq(w, 1, n)[j] = w[j] OBVIOUS
<1>3. SubSeq(w, n + 1, Len(w)) \in Seq(S) OBVIOUS
<1>4. Len(SubSeq(w, n + 1, Len(w))) = Len(w) - n OBVIOUS
<1>5. \A j \in 1..Len(w) - n : SubSeq(w, n + 1, Len(w))[j] = w[n + j] OBVIOUS
<1> QED BY <1>1, <1>2, <1>3, <1>4, <1>5

\* A piece of j bytes, taken from the front of w, is put behind c: then d was taken and v is left,
\* and together they are what they were.
Moved(c, w, d, v, j) ==
  /\ d \in Seq(Bytes) /\ v \in Seq(Bytes) /\ c \o w \in Seq(Bytes) /\ d \o v = c \o w
  /\ Len(c) \in Nat /\ Len(d) = Len(c) + j /\ Len(d) <= Len(c \o w) /\ Len(c \o w) \in Nat
  /\ \A i \in 1..Len(d) : d[i] = (c \o w)[i]
  /\ \A i \in 1..Len(c) : d[i] = c[i] /\ (c \o w)[i] = c[i]
  /\ \A i \in 1..j : d[Len(c) + i] = w[i] /\ (c \o w)[Len(c) + i] = w[i]
LEMMA PieceMoves ==
  ASSUME NEW c \in Seq(Bytes), NEW w \in Seq(Bytes), NEW n \in 1..Len(w)
  PROVE  Moved(c, w, c \o SubSeq(w, 1, n), SubSeq(w, n + 1, Len(w)), n)
<1> DEFINE a == SubSeq(w, 1, n)
           b == SubSeq(w, n + 1, Len(w))
<1>1. /\ Len(w) \in Nat /\ Len(c) \in Nat /\ n \in 1..Len(w)
      /\ a \in Seq(Bytes) /\ Len(a) = n /\ \A j \in 1..n : a[j] = w[j]
      /\ b \in Seq(Bytes) /\ Len(b) = Len(w) - n /\ \A j \in 1..Len(w) - n : b[j] = w[n + j]
  <2>1. Len(w) \in Nat /\ Len(c) \in Nat /\ n \in 0..Len(w) OBVIOUS
  <2> QED BY <2>1, SplitFacts
<1> HIDE DEF a, b
<1> DEFINE d == c \o a
<1>2. /\ d \in Seq(Bytes) /\ Len(d) = Len(c) + n
      /\ \A j \in 1..Len(c) : d[j] = c[j]
      /\ \A j \in 1..n : d[Len(c) + j] = w[j]
  <2>1. c \in Seq(Bytes) /\ a \in Seq(Bytes) BY <1>1
  <2>2. /\ d \in Seq(Bytes) /\ Len(d) = Len(c) + Len(a)
        /\ \A j \in 1..Len(c) : d[j] = c[j]
        /\ \A j \in 1..Len(a) : d[Len(c) + j] = a[j]
    BY <2>1, ConcatFacts
  <2> QED BY <1>1, <2>2
<1> HIDE DEF d
<1> DEFINE u == d \o b
           v == c \o w
<1>3. /\ u \in Seq(Bytes) /\ Len(u) = Len(d) + (Len(w) - n)
      /\ \A j \in 1..Len(d) : u[j] = d[j]
      /\ \A j \in 1..Len(w) - n : u[Len(d) + j] = b[j]
  <2>1. d \in Seq(Bytes) /\ b \in Seq(Bytes) BY <1>1, <1>2
  <2>2. /\ u \in Seq(Bytes) /\ Len(u) = Len(d) + Len(b)
        /\ \A j \in 1..Len(d) : u[j] = d[j]
        /\ \A j \in 1..Len(b) : u[Len(d) + j] = b[j]
    BY <2>1, ConcatFacts
  <2> QED BY <1>1, <2>2
<1>4. /\ v \in Seq(Bytes) /\ Len(v) = Len(c) + Len(w)
      /\ \A j \in 1..Len(c) : v[j] = c[j]
      /\ \A j \in 1..Len(w) : v[Len(c) + j] = w[j]
  BY <1>1, ConcatFacts
<1> HIDE DEF u, v
<1>5. Len(u) = Len(v) BY <1>1, <1>2, <1>3, <1>4
<1>6. ASSUME NEW j \in 1..Len(v) PROVE u[j] = v[j]
  <2>1. CASE j \in 1..Len(c)
    <3>1. j \in 1..Len(d) BY <1>1, <1>2, <2>1
    <3> QED BY <1>2, <1>3, <1>4, <2>1, <3>1
  <2>2. CASE j \in Len(c) + 1..Len(c) + n
    <3>1. PICK i \in 1..n : j = Len(c) + i
      <4>1. j - Len(c) \in 1..n /\ j = Len(c) + (j - Len(c)) BY <1>1, <2>2
      <4> QED BY <4>1
    <3>2. j \in 1..Len(d) /\ i \in 1..Len(w) BY <1>1, <1>2, <2>2
    <3> QED BY <1>2, <1>3, <1>4, <3>1, <3>2
  <2>3. CASE j \in Len(c) + n + 1..Len(c) + Len(w)
    <3>1. PICK i \in 1..Len(w) - n : j = Len(c) + n + i
      <4>1. j - (Len(c) + n) \in 1..Len(w) - n /\ j = Len(c) + n + (j - (Len(c) + n))
        BY <1>1, <2>3
      <4> QED BY <4>1
    <3>2. u[j] = w[n + i]
      <4>1. j = Len(d) + i BY <1>1, <1>2, <3>1
      <4> QED BY <1>1, <1>3, <4>1
    <3>3. v[j] = w[n + i]
      <4>1. n + i \in 1..Len(w) /\ j = Len(c) + (n + i) BY <1>1, <3>1
      <4> QED BY <1>4, <4>1
    <3> QED BY <3>2, <3>3
  <2> QED BY <1>1, <1>4, <2>1, <2>2, <2>3
<1>7. u = v BY <1>3, <1>4, <1>5, <1>6, SeqEqual
<1>8. ASSUME NEW j \in 1..Len(d) PROVE d[j] = v[j] BY <1>1, <1>3, <1>7
<1>9. /\ d \in Seq(Bytes) /\ b \in Seq(Bytes) /\ v \in Seq(Bytes) /\ d \o b = v
      /\ Len(c) \in Nat /\ Len(d) = Len(c) + n /\ Len(d) <= Len(v) /\ Len(v) \in Nat
  BY <1>1, <1>2, <1>4, <1>7 DEF u
<1>10. \A i \in 1..Len(c) : d[i] = c[i] /\ v[i] = c[i] BY <1>2, <1>4
<1>11. \A i \in 1..n : d[Len(c) + i] = w[i] /\ v[Len(c) + i] = w[i] BY <1>1, <1>2, <1>4
<1>12. c \o w = v BY DEF v
<1>13. Moved(c, w, d, b, n) BY <1>8, <1>9, <1>10, <1>11, <1>12 DEF Moved
<1> QED BY <1>13 DEF d, a, b

\* The digits of a length give it back.
LEMMA DigitsGiveLength ==
  ASSUME NEW k \in Nat, NEW n \in 0..(Base * Base - 1), Base \in Nat \ {0, 1}
  PROVE  /\ Length(k, n) \in Seq(Bytes) /\ Len(Length(k, n)) = Len(Length(0, n))
         /\ n < Base =>
              Len(Length(k, n)) = 1 /\ Length(k, n)[1].val = n /\ 0 + (n % Base) * 1 = n
         /\ n >= Base =>
              /\ Len(Length(k, n)) = 2
              /\ Length(k, n)[1].val >= Base /\ Length(k, n)[1].val % Base = n % Base
              /\ Length(k, n)[2].val < Base /\ n % Base \in Nat
              /\ (n % Base) + (Length(k, n)[2].val % Base) * Base = n
<1>1. n \in Nat /\ Base \in Nat \ {0} /\ n < Base * Base OBVIOUS
<1>2. Length(k, n) \in Seq(Bytes) BY <1>1, LengthType
<1>3. CASE n < Base
  <2>1. Length(k, n) = <<Byte(n, k, -1)>> /\ Length(0, n) = <<Byte(n, 0, -1)>>
    BY <1>3 DEF Length
  <2>2. Byte(n, k, -1).val = n BY DEF Byte
  <2>3. 0 + (n % Base) * 1 = n BY <1>1, <1>3
  <2> QED BY <1>1, <1>2, <1>3, <2>1, <2>2, <2>3
<1>4. CASE n >= Base
  <2> DEFINE q == n \div Base
             r == n % Base
  <2>1. q \in Nat /\ r \in Nat /\ r < Base /\ n = Base * q + r BY <1>1
  <2>2. Length(k, n) = <<Byte(Base + r, k, -1), Byte(q, k, -2)>>
        /\ Length(0, n) = <<Byte(Base + r, 0, -1), Byte(q, 0, -2)>>
    BY <1>1, <1>4 DEF Length
  <2>3. Byte(Base + r, k, -1).val = Base + r /\ Byte(q, k, -2).val = q BY DEF Byte
  <2> HIDE DEF q, r
  <2>4. q < Base BY <1>1, <2>1
  <2>5. q % Base = q BY <1>1, <2>1, <2>4
  <2>6. r + (q % Base) * Base = n BY <1>1, <2>1, <2>5
  <2>7. (Base + r) % Base = r /\ Base + r >= Base BY <1>1, <2>1
  <2>8. /\ Len(Length(k, n)) = 2 /\ Len(Length(0, n)) = 2
        /\ Length(k, n)[1].val = Base + r /\ Length(k, n)[2].val = q
    BY <2>2, <2>3
  <2>9. n % Base = r BY DEF r
  <2>10. Length(k, n)[1].val >= Base /\ Length(k, n)[1].val % Base = n % Base
    BY <2>7, <2>8, <2>9
  <2>11. Length(k, n)[2].val < Base /\ n % Base \in Nat BY <2>1, <2>4, <2>8, <2>9
  <2>12. (n % Base) + (Length(k, n)[2].val % Base) * Base = n BY <2>6, <2>8, <2>9
  <2>13. ~(n < Base) BY <1>1, <1>4
  <2> QED BY <1>2, <1>4, <2>8, <2>10, <2>11, <2>12, <2>13
<1> QED BY <1>1, <1>3, <1>4

\* A stream that begins with a packet begins with its header, its length and its body.
LEMMA StreamBegins ==
  ASSUME NEW k \in Nat, NEW n \in Nat, Base \in Nat \ {0, 1}, NEW w \in Seq(Bytes),
         \A j \in 1..Len(OnWire(k, n)) : w[j] = OnWire(k, n)[j]
  PROVE  /\ OnWire(k, n) \in Seq(Bytes) /\ Len(Length(k, n)) \in Nat
         /\ Len(OnWire(k, n)) = 1 + Len(Length(k, n)) + n
         /\ w[1] = Header(k)
         /\ \A j \in 1..Len(Length(k, n)) : w[1 + j] = Length(k, n)[j]
         /\ \A j \in 1..n : w[1 + Len(Length(k, n)) + j] = Body(k, n)[j]
<1>1. /\ OnWire(k, n) \in Seq(Bytes)
      /\ Len(OnWire(k, n)) = 1 + Len(Length(k, n)) + n
      /\ OnWire(k, n)[1] = Header(k)
      /\ \A j \in 1..Len(Length(k, n)) : OnWire(k, n)[1 + j] = Length(k, n)[j]
      /\ \A j \in 1..n : OnWire(k, n)[1 + Len(Length(k, n)) + j] = Body(k, n)[j]
  BY OnWireLen
<1>2. PICK l \in Nat : l = Len(Length(k, n))
  <2>1. Length(k, n) \in Seq(Bytes) BY LengthType
  <2> QED BY <2>1
<1>3. PICK z \in Nat : z = Len(OnWire(k, n)) BY <1>1
<1>4. z = 1 + l + n BY <1>1, <1>2, <1>3
<1>5. /\ 1 \in 1..z /\ \A j \in 1..l : 1 + j \in 1..z
      /\ \A j \in 1..n : 1 + l + j \in 1..z
  BY <1>4
<1> QED BY <1>1, <1>2, <1>3, <1>5

\* w are the packets of s from the k-th, and more than nothing.
Begins(s, w, k, n) ==
  /\ w \in Seq(Bytes) /\ k \in 1..Len(s) + 1 /\ Numbered(s) /\ Carries(w, s, k) /\ Len(w) # 0
  /\ n \in Nat /\ Len(s[k].body) = n /\ Base \in Nat \ {0, 1}
\* w begins with the k-th packet, whose body has n bytes.
StartsWith(w, k, n) ==
  /\ OnWire(k, n) \in Seq(Bytes) /\ Len(Length(k, n)) \in Nat
  /\ Len(OnWire(k, n)) = 1 + Len(Length(k, n)) + n /\ Len(OnWire(k, n)) <= Len(w)
  /\ w[1] = Header(k)
  /\ \A j \in 1..Len(Length(k, n)) : w[1 + j] = Length(k, n)[j]
  /\ \A j \in 1..n : w[1 + Len(Length(k, n)) + j] = Body(k, n)[j]
IsAt(s, k, n) ==
  /\ k \in 1..Len(s) /\ s[k] = Packet(k, n) /\ Len(s[k].body) = n
  /\ Wire(s, k) = OnWire(k, n)

\* The packet that begins a stream: its bytes are there, in their places.
LEMMA FirstPacket ==
  ASSUME NEW S, NEW s \in Seq(S), NEW w, NEW k, NEW n, Begins(s, w, k, n)
  PROVE  IsAt(s, k, n) /\ StartsWith(w, k, n)
<1>1. s \in Seq(S) OBVIOUS
<1>2. /\ w \in Seq(Bytes) /\ k \in 1..Len(s) + 1 /\ Numbered(s) /\ Carries(w, s, k) /\ Len(w) # 0
      /\ n \in Nat /\ Len(s[k].body) = n /\ Base \in Nat \ {0, 1}
  BY DEF Begins
<1>3. /\ k \in 1..Len(s) /\ Len(Wire(s, k)) <= Len(w)
      /\ \A j \in 1..Len(Wire(s, k)) : w[j] = Wire(s, k)[j]
  BY <1>1, <1>2, CarriesFirst
<1>4. Wire(s, k) = OnWire(k, n) BY <1>2 DEF Wire
<1>5. s[k] = Packet(k, n) BY <1>2, <1>3 DEF Numbered, IsPacket
<1>6. k \in Nat BY <1>3
<1>7. \A j \in 1..Len(OnWire(k, n)) : w[j] = OnWire(k, n)[j] BY <1>3, <1>4
<1>8. /\ OnWire(k, n) \in Seq(Bytes) /\ Len(Length(k, n)) \in Nat
      /\ Len(OnWire(k, n)) = 1 + Len(Length(k, n)) + n
      /\ w[1] = Header(k)
  BY <1>2, <1>6, <1>7, StreamBegins
<1>9. \A j \in 1..Len(Length(k, n)) : w[1 + j] = Length(k, n)[j]
  BY <1>2, <1>6, <1>7, StreamBegins
<1>10. \A j \in 1..n : w[1 + Len(Length(k, n)) + j] = Body(k, n)[j]
  BY <1>2, <1>6, <1>7, StreamBegins
<1> QED BY <1>2, <1>3, <1>4, <1>5, <1>8, <1>9, <1>10 DEF IsAt, StartsWith

\* The packets that were not handed out, and one more.
LEMMA QueueGrows ==
  ASSUME NEW S, NEW s \in Seq(S), NEW p \in S, NEW t \in 0..Len(s)
  PROVE  SubSeq(Append(s, p), t + 1, Len(s) + 1) = Append(SubSeq(s, t + 1, Len(s)), p)
<1> DEFINE m == Len(s)
           a == SubSeq(Append(s, p), t + 1, m + 1)
           b == SubSeq(s, t + 1, m)
<1>1. m \in Nat /\ t \in 0..m OBVIOUS
<1>2. /\ a \in Seq(S) /\ Len(a) = m + 1 - t
      /\ \A i \in 1..m + 1 - t : a[i] = Append(s, p)[t + i]
  OBVIOUS
<1>3. b \in Seq(S) /\ Len(b) = m - t /\ \A i \in 1..m - t : b[i] = s[t + i] OBVIOUS
<1>4. \A i \in 1..m : Append(s, p)[i] = s[i] OBVIOUS
<1>5. Append(s, p)[m + 1] = p OBVIOUS
<1> HIDE DEF a, b, m
<1>6. /\ Append(b, p) \in Seq(S) /\ Len(Append(b, p)) = m - t + 1
      /\ \A i \in 1..m - t : Append(b, p)[i] = b[i]
      /\ Append(b, p)[m - t + 1] = p
  BY <1>1, <1>3
<1>7. ASSUME NEW i \in 1..Len(a) PROVE a[i] = Append(b, p)[i]
  <2>1. CASE i \in 1..m - t
    <3>1. t + i \in 1..m /\ i \in 1..m + 1 - t BY <1>1, <2>1
    <3>2. a[i] = s[t + i] BY <1>2, <1>4, <3>1
    <3>3. Append(b, p)[i] = s[t + i] BY <1>3, <1>6, <2>1
    <3> QED BY <3>2, <3>3
  <2>2. CASE i = m - t + 1
    <3>1. t + i = m + 1 /\ i \in 1..m + 1 - t BY <1>1, <2>2
    <3>2. a[i] = p
      <4>1. a[i] = Append(s, p)[t + i] BY <1>2, <3>1
      <4> QED BY <1>5, <3>1, <4>1
    <3>3. Append(b, p)[i] = p BY <1>6, <2>2, Zenon
    <3> QED BY <3>2, <3>3
  <2>3. i \in 1..m + 1 - t BY <1>2
  <2>4. i \in 1..m - t \/ i = m - t + 1 BY <1>1, <2>3
  <2> QED BY <2>1, <2>2, <2>4
<1>8. Len(a) = Len(Append(b, p)) BY <1>1, <1>2, <1>6
<1>9. a = Append(b, p) BY <1>2, <1>6, <1>7, <1>8, SeqEqual
<1> QED BY <1>9 DEF a, b, m

\* The first of them, and those behind it.
LEMMA QueueShrinks ==
  ASSUME NEW S, NEW s \in Seq(S), NEW t \in 0..Len(s) - 1
  PROVE  /\ SubSeq(s, t + 1, Len(s)) # <<>>
         /\ Head(SubSeq(s, t + 1, Len(s))) = s[t + 1]
         /\ Tail(SubSeq(s, t + 1, Len(s))) = SubSeq(s, t + 2, Len(s))
<1> DEFINE m == Len(s)
           a == SubSeq(s, t + 1, m)
           b == SubSeq(s, t + 2, m)
<1>1. m \in Nat /\ t \in 0..m - 1 OBVIOUS
<1>2. a \in Seq(S) /\ Len(a) = m - t /\ \A i \in 1..m - t : a[i] = s[t + i] OBVIOUS
<1>3. b \in Seq(S) /\ Len(b) = m - t - 1 /\ \A i \in 1..m - t - 1 : b[i] = s[t + 1 + i] OBVIOUS
<1> HIDE DEF a, b, m
<1>4. a # <<>> BY <1>1, <1>2
<1>5. Head(a) = s[t + 1] BY <1>1, <1>2, <1>4
<1>6. /\ Tail(a) \in Seq(S) /\ Len(Tail(a)) = m - t - 1
      /\ \A i \in 1..m - t - 1 : Tail(a)[i] = a[i + 1]
  BY <1>1, <1>2, <1>4
<1>7. ASSUME NEW i \in 1..Len(b) PROVE Tail(a)[i] = b[i]
  <2>1. i \in 1..m - t - 1 /\ i + 1 \in 1..m - t /\ t + (i + 1) = t + 1 + i BY <1>1, <1>3
  <2> QED BY <1>2, <1>3, <1>6, <2>1
<1>8. Tail(a) = b BY <1>3, <1>6, <1>7, SeqEqual
<1> QED BY <1>4, <1>5, <1>8 DEF a, b, m

\* What decodenb makes of the digits behind the header.
LEMMA DigitRead ==
  ASSUME NEW k \in Nat, NEW n \in 0..(Base * Base - 1), Base \in Nat \ {0, 1}, NEW w,
         StartsWith(w, k, n)
  PROVE  /\ w[2].val < Base => Len(Length(0, n)) = 1 /\ 0 + (w[2].val % Base) * 1 = n
         /\ w[2].val >= Base =>
              /\ Len(Length(0, n)) = 2 /\ w[3].val < Base
              /\ (w[2].val % Base) + (w[3].val % Base) * Base = n
<1> DEFINE l == Length(k, n)
<1>1. \A j \in 1..Len(l) : w[1 + j] = l[j] BY DEF StartsWith
<1>2. ASSUME Len(l) = 1 \/ Len(l) = 2 PROVE w[2] = l[1]
  <2>1. 1 \in 1..Len(l) BY <1>2
  <2>2. w[1 + 1] = l[1] BY <1>1, <2>1
  <2> QED BY <2>2
<1>3. Len(l) = Len(Length(0, n)) BY DigitsGiveLength
<1>4. CASE n < Base
  <2>1. Len(l) = 1 /\ l[1].val = n /\ 0 + (n % Base) * 1 = n BY <1>4, DigitsGiveLength
  <2>2. ~(n >= Base) BY <1>4
  <2> HIDE DEF l
  <2> QED BY <1>2, <1>3, <1>4, <2>1, <2>2
<1>5. CASE n >= Base
  <2>1. /\ Len(l) = 2 /\ l[1].val >= Base /\ l[1].val % Base = n % Base
        /\ l[2].val < Base
        /\ (n % Base) + (l[2].val % Base) * Base = n
    BY <1>5, DigitsGiveLength
  <2>2. w[3] = l[2]
    <3>1. 2 \in 1..Len(l) BY <2>1
    <3>2. w[1 + 2] = l[2] BY <1>1, <3>1
    <3> QED BY <3>2
  <2>3. l[1].val \in Nat
    <3>1. l \in Seq(Bytes) BY DigitsGiveLength
    <3>2. 1 \in 1..Len(l) BY <2>1
    <3>3. l[1] \in Bytes BY <3>1, <3>2
    <3> QED BY <3>3 DEF Bytes
  <2> HIDE DEF l
  <2>4. ~(l[1].val < Base) BY <2>1, <2>3
  <2> QED BY <1>2, <1>3, <2>1, <2>2, <2>4
<1> QED BY <1>4, <1>5

\* What is known of the bytes taken of a packet whose length was read: g and n are the sizes of
\* its length and its body, b the bytes of the body so far.
Known(c, h, g, b, n) ==
  /\ c \in Seq(Bytes) /\ b \in Seq(Bytes) /\ g \in Nat /\ n \in Nat /\ Len(b) <= n
  /\ Len(c) = 1 + g + Len(b) /\ c[1] = h
  /\ \A j \in 1..Len(b) : c[1 + g + j] = b[j]

\* A piece more of the body.
LEMMA PieceIsBody ==
  ASSUME NEW c, NEW h, NEW g, NEW b, NEW n, Known(c, h, g, b, n),
         NEW w \in Seq(Bytes), NEW j \in 1..Len(w), Len(b) + j <= n
  PROVE  /\ Moved(c, w, c \o SubSeq(w, 1, j), SubSeq(w, j + 1, Len(w)), j)
         /\ Known(c \o SubSeq(w, 1, j), h, g, b \o SubSeq(w, 1, j), n)
         /\ Len(b \o SubSeq(w, 1, j)) = Len(b) + j
<1> DEFINE d == c \o SubSeq(w, 1, j)
           e == b \o SubSeq(w, 1, j)
           v == SubSeq(w, j + 1, Len(w))
<1>1. /\ c \in Seq(Bytes) /\ b \in Seq(Bytes) /\ g \in Nat /\ n \in Nat
      /\ Len(c) = 1 + g + Len(b) /\ c[1] = h
      /\ \A i \in 1..Len(b) : c[1 + g + i] = b[i]
  BY DEF Known
<1>2. Moved(c, w, d, v, j) /\ Moved(b, w, e, v, j) BY <1>1, PieceMoves
<1>3. /\ Len(d) = Len(c) + j /\ d \in Seq(Bytes)
      /\ \A i \in 1..Len(c) : d[i] = c[i]
      /\ \A i \in 1..j : d[Len(c) + i] = w[i]
  BY <1>2 DEF Moved
<1>4. /\ Len(e) = Len(b) + j /\ e \in Seq(Bytes)
      /\ \A i \in 1..Len(b) : e[i] = b[i]
      /\ \A i \in 1..j : e[Len(b) + i] = w[i]
  BY <1>2 DEF Moved
<1> HIDE DEF d, e, v
<1>5. PICK l \in Nat : l = Len(b) BY <1>1
<1>6. Len(c) = 1 + g + l /\ Len(d) = 1 + g + l + j /\ Len(e) = l + j /\ j \in Nat
  BY <1>1, <1>3, <1>4, <1>5
<1>7. d[1] = h
  <2>1. 1 \in 1..Len(c) BY <1>1, <1>6
  <2> QED BY <1>1, <1>3, <2>1
<1>8. ASSUME NEW i \in 1..Len(e) PROVE d[1 + g + i] = e[i]
  <2>1. CASE i \in 1..l
    <3>1. 1 + g + i \in 1..Len(c) /\ i \in 1..Len(b) BY <1>1, <1>5, <1>6, <2>1
    <3>2. d[1 + g + i] = c[1 + g + i] BY <1>3, <3>1
    <3>3. e[i] = b[i] BY <1>4, <3>1
    <3> QED BY <1>1, <3>1, <3>2, <3>3
  <2>2. CASE i \in l + 1..l + j
    <3>1. PICK a \in 1..j : i = l + a
      <4>1. i - l \in 1..j /\ i = l + (i - l) BY <1>5, <2>2
      <4> QED BY <4>1
    <3>2. 1 + g + i = 1 + g + l + a BY <1>1, <1>5, <3>1
    <3>3. d[1 + g + l + a] = w[a] BY <1>3, <1>6, <3>1
    <3>4. e[l + a] = w[a] BY <1>4, <1>5, <3>1
    <3> QED BY <3>1, <3>2, <3>3, <3>4
  <2> QED BY <1>5, <1>6, <2>1, <2>2
<1>9. Len(e) <= n BY <1>4
<1>10. Len(d) = 1 + g + Len(e) BY <1>1, <1>5, <1>6
<1>11. Known(d, h, g, e, n) BY <1>1, <1>3, <1>4, <1>7, <1>8, <1>9, <1>10 DEF Known
<1> QED BY <1>2, <1>4, <1>11 DEF d, e, v

\* When nothing is missing, what was taken is the packet.
Whole(c, h, g, b, n) == Known(c, h, g, b, n) /\ Len(b) = n
Agrees(c, w) == \A i \in 1..Len(c) : c[i] = w[i]
Makes(c, h, b, k, n) == Result("packet", h, b) = Packet(k, n) /\ Len(OnWire(k, n)) = Len(c)
LEMMA BodyIsWhole ==
  ASSUME NEW c, NEW h, NEW b, NEW k \in Nat, NEW n, NEW w, Base \in Nat \ {0, 1},
         StartsWith(w, k, n), Whole(c, h, Len(Length(k, n)), b, n), Agrees(c, w)
  PROVE  Makes(c, h, b, k, n)
<1>1. PICK g \in Nat : g = Len(Length(k, n)) BY DEF Whole, Known
<1>2. Len(Length(k, n)) = g /\ \A i \in 1..Len(c) : c[i] = w[i] BY <1>1 DEF Agrees
<1>3. Known(c, h, g, b, n) /\ Len(b) = n BY <1>1 DEF Whole
<1>4. /\ b \in Seq(Bytes) /\ Len(c) = 1 + g + n /\ c[1] = h /\ n \in Nat
      /\ \A j \in 1..n : c[1 + g + j] = b[j]
  BY <1>3 DEF Known
<1>5. /\ Len(OnWire(k, n)) = 1 + g + n /\ w[1] = Header(k)
      /\ \A j \in 1..n : w[1 + g + j] = Body(k, n)[j]
  BY <1>2 DEF StartsWith
<1>6. h = Header(k)
  <2>1. 1 \in 1..Len(c) BY <1>1, <1>4
  <2> QED BY <1>2, <1>4, <1>5, <2>1
<1>7. Body(k, n) \in Seq(Bytes) /\ Len(Body(k, n)) = n BY <1>4, BodyType
<1>8. ASSUME NEW j \in 1..n PROVE b[j] = Body(k, n)[j]
  <2>1. 1 + g + j \in 1..Len(c)
    <3>1. PICK z \in Nat : z = Len(c) BY <1>4
    <3>2. z = 1 + g + n BY <1>4, <3>1
    <3>3. 1 + g + j \in 1..z BY <1>1, <1>4, <3>2
    <3> QED BY <3>1, <3>3
  <2>2. c[1 + g + j] = w[1 + g + j] BY <1>2, <2>1
  <2> QED BY <1>4, <1>5, <2>2
<1>9. b = Body(k, n)
  <2>1. Len(b) = n BY <1>3
  <2> QED BY <1>4, <1>7, <1>8, <2>1, SeqEqual
<1>10. Result("packet", h, b) = Packet(k, n) BY <1>6, <1>9 DEF Packet
<1>11. Len(OnWire(k, n)) = Len(c) BY <1>4, <1>5
<1> QED BY <1>10, <1>11 DEF Makes
=============================================================================
