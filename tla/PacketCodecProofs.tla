-------------------------- MODULE PacketCodecProofs --------------------------
(***************************************************************************)
(* Theorems about PacketCodec and TopicMatch, for every base of the        *)
(* lengths, all strings, payloads, buffers and alphabets.                  *)
(***************************************************************************)
EXTENDS PacketCodec, SequenceTheorems, WellFoundedInduction, TLAPS

\* t lies in s from byte i on, and ends before byte j.
At(s, i, t, j) ==
  /\ i \in Nat \ {0} /\ j = i + Len(t) /\ j <= Len(s) + 1
  /\ \A k \in 1..Len(t) : s[i + k - 1] = t[k]

\* One sequence behind another.
LEMMA ConcatFacts ==
  ASSUME NEW S, NEW s \in Seq(S), NEW t \in Seq(S)
  PROVE  /\ s \o t \in Seq(S) /\ Len(s) \in Nat /\ Len(t) \in Nat /\ Len(s \o t) = Len(s) + Len(t)
         /\ \A i \in 1..Len(s) : (s \o t)[i] = s[i]
         /\ \A i \in 1..Len(t) : (s \o t)[Len(s) + i] = t[i]
OBVIOUS

\* A sequence lies in itself.
LEMMA AtAll == ASSUME NEW S, NEW s \in Seq(S) PROVE At(s, 1, s, Len(s) + 1)
BY DEF At

\* What lies behind another.
LEMMA AtConcat ==
  ASSUME NEW S, NEW s \in Seq(S), NEW a \in Seq(S), NEW b \in Seq(S), NEW i, NEW j,
         At(s, i, a \o b, j)
  PROVE  At(s, i, a, i + Len(a)) /\ At(s, i + Len(a), b, j)
<1>1. /\ Len(a \o b) = Len(a) + Len(b) /\ Len(a) \in Nat /\ Len(b) \in Nat /\ Len(s) \in Nat
      /\ \A k \in 1..Len(a) : (a \o b)[k] = a[k]
      /\ \A k \in 1..Len(b) : (a \o b)[Len(a) + k] = b[k]
  BY ConcatFacts
<1> DEFINE c == a \o b
<1>2. /\ i \in Nat \ {0} /\ j = i + Len(c) /\ j <= Len(s) + 1
      /\ \A k \in 1..Len(c) : s[i + k - 1] = c[k]
  BY DEF At
<1>3. /\ Len(c) = Len(a) + Len(b)
      /\ \A k \in 1..Len(a) : c[k] = a[k]
      /\ \A k \in 1..Len(b) : c[Len(a) + k] = b[k]
  BY <1>1
<1> HIDE DEF c
<1>4. \A k \in 1..Len(a) : s[i + k - 1] = a[k]
  <2> TAKE k \in 1..Len(a)
  <2>1. k \in 1..Len(c) BY <1>1, <1>3
  <2> QED BY <1>2, <1>3, <2>1
<1>5. \A k \in 1..Len(b) : s[(i + Len(a)) + k - 1] = b[k]
  <2> TAKE k \in 1..Len(b)
  <2>1. Len(a) + k \in 1..Len(c) /\ (i + Len(a)) + k - 1 = i + (Len(a) + k) - 1
    BY <1>1, <1>2, <1>3
  <2> QED BY <1>2, <1>3, <2>1
<1> QED BY <1>1, <1>2, <1>3, <1>4, <1>5 DEF At

\* What lies in a sequence can be cut out.
LEMMA AtSubSeq ==
  ASSUME NEW S, NEW s \in Seq(S), NEW t \in Seq(S), NEW i, NEW j, At(s, i, t, j)
  PROVE  /\ SubSeq(s, i, j - 1) = t /\ i \in Nat \ {0} /\ j = i + Len(t) /\ j <= Len(s) + 1
         /\ Len(t) \in Nat /\ Len(s) \in Nat
<1>1. /\ i \in Nat \ {0} /\ j = i + Len(t) /\ j <= Len(s) + 1
      /\ \A k \in 1..Len(t) : s[i + k - 1] = t[k]
  BY DEF At
<1>2. Len(t) \in Nat /\ Len(s) \in Nat OBVIOUS
<1>3. \A k \in i..j - 1 : s[k] \in S BY <1>1, <1>2
<1>4. /\ SubSeq(s, i, j - 1) \in Seq(S)
      /\ Len(SubSeq(s, i, j - 1)) = Len(t)
      /\ \A k \in 1..Len(t) : SubSeq(s, i, j - 1)[k] = s[i + k - 1]
  <2>1. i \in Int /\ j - 1 \in Int /\ (j - 1) - i + 1 = Len(t) BY <1>1, <1>2
  <2>2. /\ SubSeq(s, i, j - 1) \in Seq(S)
        /\ Len(SubSeq(s, i, j - 1)) = IF i <= j - 1 THEN (j - 1) - i + 1 ELSE 0
        /\ \A k \in 1..(j - 1) - i + 1 : SubSeq(s, i, j - 1)[k] = s[i + k - 1]
    BY <1>3, <2>1, SubSeqProperties
  <2> QED BY <1>1, <1>2, <2>1, <2>2
<1>5. \A k \in 1..Len(t) : SubSeq(s, i, j - 1)[k] = t[k] BY <1>1, <1>4
<1>6. SubSeq(s, i, j - 1) = t BY <1>4, <1>5, SeqEqual
<1> QED BY <1>1, <1>2, <1>6

\* A byte.
LEMMA AtByte ==
  ASSUME NEW s \in Seq(Nat), NEW x \in Nat, NEW i, NEW j, At(s, i, <<x>>, j)
  PROVE  s[i] = x /\ j = i + 1
BY DEF At

\* Two bytes.
LEMMA AtBytes ==
  ASSUME NEW s \in Seq(Nat), NEW x \in Nat, NEW y \in Nat, NEW i, NEW j, At(s, i, <<x, y>>, j)
  PROVE  s[i] = x /\ s[i + 1] = y /\ j = i + 2 /\ i \in Nat \ {0} /\ j <= Len(s) + 1
<1>1. Len(<<x, y>>) = 2 /\ <<x, y>>[1] = x /\ <<x, y>>[2] = y OBVIOUS
<1>2. /\ i \in Nat \ {0} /\ j = i + 2 /\ j <= Len(s) + 1
      /\ \A k \in 1..2 : s[i + k - 1] = <<x, y>>[k]
  BY <1>1 DEF At
<1> QED BY <1>1, <1>2

\* A number of 16 bits is a number.
LEMMA WordType == \A n : n \in Word <=> n \in Nat /\ n <= MaxWord
<1>1. MaxWord \in Nat BY SMT DEF MaxWord
<1> QED BY <1>1 DEF Word

\* A number of 16 bits is two bytes.
LEMMA IntBytes ==
  ASSUME NEW n \in Word
  PROVE  \E x, y \in Nat : writeInt(n) = <<x, y>> /\ n = 256 * x + y /\ TwoBytes(n) = <<x, y>>
<1> DEFINE x == n \div 256
           y == n % 256
<1>1. x \in Nat /\ y \in Nat /\ n = 256 * x + y BY WordType
<1>2. writeInt(n) = <<x, y>> /\ TwoBytes(n) = <<x, y>> BY DEF writeInt, TwoBytes
<1> HIDE DEF x, y
<1> QED BY <1>1, <1>2, Zenon

\* They are a sequence.
LEMMA IntType ==
  ASSUME NEW n \in Word
  PROVE  writeInt(n) \in Seq(Nat) /\ Len(writeInt(n)) = 2 /\ TwoBytes(n) = writeInt(n)
<1>1. PICK x, y \in Nat : writeInt(n) = <<x, y>> /\ TwoBytes(n) = <<x, y>> BY IntBytes
<1> QED BY <1>1

\* readInt undoes writeInt.
LEMMA AtInt ==
  ASSUME NEW s \in Seq(Nat), NEW n \in Word, NEW i, NEW j, At(s, i, writeInt(n), j)
  PROVE  /\ readInt(SubSeq(s, i, i + 1)) = n /\ j = i + 2 /\ i \in Nat \ {0} /\ j <= Len(s) + 1
         /\ 256 * s[i] + s[i + 1] = n
<1>1. PICK x, y \in Nat : writeInt(n) = <<x, y>> /\ n = 256 * x + y BY IntBytes
<1>2. At(s, i, <<x, y>>, j) BY <1>1
<1>3. s[i] = x /\ s[i + 1] = y /\ j = i + 2 /\ i \in Nat \ {0} /\ j <= Len(s) + 1
  BY <1>2, AtBytes
<1>4. SubSeq(s, i, j - 1) = <<x, y>>
  <2> DEFINE b == <<x, y>>
  <2>1. b \in Seq(Nat) /\ At(s, i, b, j) BY <1>2
  <2> HIDE DEF b
  <2>2. SubSeq(s, i, j - 1) = b BY <2>1, AtSubSeq
  <2> QED BY <2>2 DEF b
<1>5. j - 1 = i + 1 BY <1>3
<1>6. readInt(<<x, y>>) = n BY <1>1 DEF readInt
<1> QED BY <1>1, <1>3, <1>4, <1>5, <1>6

\* A string is its length in two bytes and its characters.
LEMMA StringType ==
  ASSUME NEW t \in Seq(Nat), Len(t) \in Word
  PROVE  writeMQTTString(t) \in Seq(Nat) /\ Len(writeMQTTString(t)) = Len(t) + 2
<1> DEFINE n == writeInt(Len(t))
<1>1. n \in Seq(Nat) /\ Len(n) = 2 BY IntType
<1>2. writeMQTTString(t) = n \o t BY DEF writeMQTTString
<1> HIDE DEF n
<1>3. n \o t \in Seq(Nat) /\ Len(n \o t) = Len(n) + Len(t) BY <1>1, ConcatFacts
<1> QED BY <1>1, <1>2, <1>3

\* readMQTTLenString undoes writeMQTTString.
LEMMA AtString ==
  ASSUME NEW s \in Seq(Nat), NEW t \in Seq(Nat), Len(t) \in Word, NEW i, NEW j,
         At(s, i, writeMQTTString(t), j)
  PROVE  /\ readMQTTLenString(s, i) = <<t>> /\ j = i + 2 + Len(t) /\ i \in Nat \ {0}
         /\ j <= Len(s) + 1
<1> DEFINE n == writeInt(Len(t))
<1>1. n \in Seq(Nat) /\ Len(n) = 2 BY IntType
<1>2. At(s, i, n \o t, j) BY DEF writeMQTTString
<1>3. At(s, i, n, i + 2) /\ At(s, i + 2, t, j)
  <2> HIDE DEF n
  <2> QED BY <1>1, <1>2, AtConcat
<1>4. readInt(SubSeq(s, i, i + 1)) = Len(t) /\ i \in Nat \ {0} BY <1>3, AtInt
<1>5. SubSeq(s, i + 2, j - 1) = t /\ j = (i + 2) + Len(t) /\ j <= Len(s) + 1 /\ Len(s) \in Nat
  BY <1>3, AtSubSeq
<1>6. ~(Len(s) - i < 1) /\ ~(i + 1 + Len(t) > Len(s)) /\ j - 1 = i + 1 + Len(t)
  BY <1>4, <1>5
<1>7. readMQTTLenString(s, i) = <<SubSeq(s, i + 2, i + 1 + Len(t))>>
  BY <1>4, <1>6 DEF readMQTTLenString
<1> QED BY <1>4, <1>5, <1>6, <1>7

-----------------------------------------------------------------------------
(* Remaining lengths *)

\* The base of the digits.
LEMMA BaseType == Base \in Nat /\ Base >= 3
BY CodecAssumption

\* A number is a digit and the rest.
LEMMA DivMod ==
  ASSUME NEW n \in Nat
  PROVE  \E q \in Nat, r \in 0..Base - 1 : n \div Base = q /\ n % Base = r /\ n = Base * q + r
<1> DEFINE q == n \div Base
           r == n % Base
<1>1. q \in Nat /\ r \in 0..Base - 1 /\ n = Base * q + r BY BaseType
<1>2. n \div Base = q /\ n % Base = r OBVIOUS
<1> HIDE DEF q, r
<1> QED BY <1>1, <1>2, Zenon

\* The rest is as much smaller as the base is large.
LEMMA Below ==
  ASSUME NEW q \in Nat, NEW r \in 0..Base - 1, NEW X \in Nat
  PROVE  Base * q + r < Base * X <=> q < X
<1> USE BaseType
<1>1. ASSUME q < X PROVE Base * q + r < Base * X
  <2>1. PICK d \in Nat : X = q + 1 + d
    <3>1. X - q - 1 \in Nat /\ X = q + 1 + (X - q - 1) BY <1>1
    <3> QED BY <3>1
  <2>2. Base * X = Base * q + Base + Base * d BY <2>1
  <2>3. Base * d \in Nat /\ Base * q \in Nat OBVIOUS
  <2> QED BY <2>2, <2>3
<1>2. ASSUME ~(q < X) PROVE ~(Base * q + r < Base * X)
  <2>1. PICK d \in Nat : q = X + d
    <3>1. q - X \in Nat /\ q = X + (q - X) BY <1>2
    <3> QED BY <3>1
  <2>2. Base * q = Base * X + Base * d BY <2>1
  <2>3. Base * d \in Nat /\ Base * X \in Nat OBVIOUS
  <2> QED BY <2>2, <2>3
<1> QED BY <1>1, <1>2

\* The remainder and the quotient are the digit and the rest.
LEMMA DivUnique ==
  ASSUME NEW d \in Nat \ {0}, NEW q \in Nat, NEW r \in 0..d - 1
  PROVE  (d * q + r) \div d = q /\ (d * q + r) % d = r
OBVIOUS

\* A digit that is not the last one.
LEMMA MoreDigit ==
  ASSUME NEW r \in 0..Base - 1
  PROVE  (Base + r) % Base = r /\ r % Base = r
<1>1. Base \in Nat \ {0} /\ Base * 1 + r = Base + r /\ Base * 0 + r = r BY BaseType
<1> QED BY <1>1, DivUnique

\* t is the digits of l: v[j] is the number the digits from the j-th on stand for.
IsLength(t, l) ==
  \E v \in Seq(Nat) :
    /\ Len(v) = Len(t) /\ Len(v) \in 1..4 /\ v[1] = l
    /\ v[Len(v)] = t[Len(v)] /\ t[Len(v)] < Base
    /\ \A j \in 1..Len(v) - 1 : \E r \in 0..Base - 1 : t[j] = Base + r /\ v[j] = r + Base * v[j + 1]

\* The last digit.
LEMMA LastIsLength ==
  ASSUME NEW l \in Nat, l < Base
  PROVE  IsLength(<<l>>, l)
<1> DEFINE t == <<l>>
<1>1. t \in Seq(Nat) /\ Len(t) = 1 /\ t[1] = l OBVIOUS
<1> HIDE DEF t
<1>2. 1..Len(t) - 1 = {} BY <1>1
<1>3. /\ Len(t) \in 1..4 /\ t[1] = l /\ t[Len(t)] < Base
      /\ \A j \in 1..Len(t) - 1 : \E r \in 0..Base - 1 :
           t[j] = Base + r /\ t[j] = r + Base * t[j + 1]
  BY <1>1, <1>2
<1>4. IsLength(t, l) BY <1>1, <1>3, Zenon DEF IsLength
<1> QED BY <1>4 DEF t

\* One digit more.
LEMMA MoreIsLength ==
  ASSUME NEW t \in Seq(Nat), NEW q \in Nat, IsLength(t, q), Len(t) <= 3, NEW r \in 0..Base - 1
  PROVE  IsLength(<<Base + r>> \o t, Base * q + r)
<1>1. PICK v \in Seq(Nat) :
         /\ Len(v) = Len(t) /\ Len(v) \in 1..4 /\ v[1] = q
         /\ v[Len(v)] = t[Len(v)] /\ t[Len(v)] < Base
         /\ \A j \in 1..Len(v) - 1 :
              \E x \in 0..Base - 1 : t[j] = Base + x /\ v[j] = x + Base * v[j + 1]
  BY DEF IsLength
<1> DEFINE l == Base * q + r
           b == Base + r
<1>2. l \in Nat /\ b \in Nat BY BaseType
<1>3. l = r + Base * q BY BaseType
<1>4. b = Base + r OBVIOUS
<1> HIDE DEF l, b
<1> DEFINE w == <<l>> \o v
           u == <<b>> \o t
<1>5. /\ w \in Seq(Nat) /\ Len(w) = 1 + Len(v) /\ w[1] = l
      /\ \A j \in 1..Len(v) : w[1 + j] = v[j]
  <2>1. <<l>> \in Seq(Nat) /\ Len(<<l>>) = 1 /\ <<l>>[1] = l BY <1>2
  <2> QED BY <2>1, ConcatFacts
<1>6. /\ u \in Seq(Nat) /\ Len(u) = 1 + Len(t) /\ u[1] = b
      /\ \A j \in 1..Len(t) : u[1 + j] = t[j]
  <2>1. <<b>> \in Seq(Nat) /\ Len(<<b>>) = 1 /\ <<b>>[1] = b BY <1>2
  <2> QED BY <2>1, ConcatFacts
<1> HIDE DEF w, u
<1>7. Len(w) = Len(u) /\ Len(w) \in 1..4 /\ w[1] = l
  <2>1. Len(v) \in 1..3 /\ Len(v) = Len(t)
    <3>1. Len(v) \in 1..4 /\ Len(v) = Len(t) BY <1>1, Zenon
    <3> DEFINE n == Len(v)
    <3>2. n \in 1..4 /\ n <= 3 BY <3>1, Zenon
    <3> HIDE DEF n
    <3>3. n \in 1..3 BY ONLY <3>2
    <3> QED BY <3>1, <3>3 DEF n
  <2>2. Len(w) = 1 + Len(v) /\ Len(u) = 1 + Len(t) /\ w[1] = l BY <1>5, <1>6, Zenon
  <2>3. Len(w) = Len(u) /\ w[1] = l BY <2>1, <2>2, Zenon
  <2> DEFINE n == Len(v)
  <2>4. n \in 1..3 BY <2>1, Zenon
  <2> HIDE DEF n
  <2>5. 1 + n \in 1..4 BY ONLY <2>4
  <2> QED BY <2>2, <2>3, <2>5, Zenon DEF n
<1>8. w[Len(w)] = u[Len(w)] /\ u[Len(w)] < Base
  <2>1. Len(v) \in 1..Len(v) /\ Len(t) \in 1..Len(t) BY <1>1
  <2>2. w[1 + Len(v)] = v[Len(v)] /\ u[1 + Len(t)] = t[Len(t)] BY <1>5, <1>6, <2>1
  <2> QED BY <1>1, <1>5, <1>6, <2>2
<1>9. \A j \in 1..Len(w) - 1 : \E x \in 0..Base - 1 : u[j] = Base + x /\ w[j] = x + Base * w[j + 1]
  <2> TAKE j \in 1..Len(w) - 1
  <2>1. CASE j = 1
    <3>1. 1 \in 1..Len(v) BY <1>1
    <3>2. w[1 + 1] = q BY <1>1, <1>5, <3>1
    <3>3. u[j] = Base + r /\ w[j] = r + Base * w[j + 1] BY <1>3, <1>4, <1>5, <1>6, <2>1, <3>2
    <3> QED BY <3>3
  <2>2. CASE j # 1
    <3>1. j - 1 \in 1..Len(v) - 1 /\ 1 + (j - 1) = j /\ 1 + j = j + 1 /\ j \in 1..Len(v)
      BY <1>1, <1>5, <2>2
    <3>2. PICK x \in 0..Base - 1 : t[j - 1] = Base + x /\ v[j - 1] = x + Base * v[(j - 1) + 1]
      BY <1>1, <3>1
    <3>3. j - 1 \in 1..Len(v) /\ j - 1 \in 1..Len(t) /\ (j - 1) + 1 = j BY <1>1, <3>1
    <3>4. w[1 + (j - 1)] = v[j - 1] /\ u[1 + (j - 1)] = t[j - 1] /\ w[1 + j] = v[j]
      BY <1>5, <1>6, <3>1, <3>3
    <3>5. u[j] = Base + x /\ w[j] = x + Base * w[j + 1] BY <3>1, <3>2, <3>3, <3>4
    <3> QED BY <3>5
  <2> QED BY <2>1, <2>2
<1>10. IsLength(u, l) BY <1>5, <1>7, <1>8, <1>9 DEF IsLength
<1> QED BY <1>10 DEF u, l, b

\* MQTTPacket_encode for lengths of at most one, two, three and four digits.
Digits1(l) == <<l>>
Digits2(l) == IF l < Base THEN <<l>> ELSE <<Base + (l % Base)>> \o Digits1(l \div Base)
Digits3(l) == IF l < Base THEN <<l>> ELSE <<Base + (l % Base)>> \o Digits2(l \div Base)
Digits4(l) == IF l < Base THEN <<l>> ELSE <<Base + (l % Base)>> \o Digits3(l \div Base)

\* Behind the first of them.
LEMMA Rest ==
  ASSUME NEW l \in Nat, NEW X \in Nat, l < Base * X
  PROVE  l \div Base \in Nat /\ l \div Base < X
<1>1. PICK q \in Nat, r \in 0..Base - 1 : l \div Base = q /\ l = Base * q + r BY DivMod
<1> QED BY <1>1, Below

\* Powers of the base.
LEMMA Powers ==
  /\ Base * Base \in Nat /\ Base * Base * Base \in Nat /\ Base * Base * Base * Base \in Nat
  /\ Base * Base * Base = Base * (Base * Base)
  /\ Base * Base * Base * Base = Base * (Base * Base * Base)
  /\ Base < Base * Base /\ Base * Base < Base * Base * Base
  /\ Base * Base * Base < Base * Base * Base * Base
<1> DEFINE b2 == Base * Base
           b3 == b2 * Base
           b4 == b3 * Base
<1>1. \A x \in Nat \ {0} : x * Base \in Nat \ {0} /\ x < x * Base /\ x * Base = Base * x
  <2> TAKE x \in Nat \ {0}
  <2>1. PICK b \in Nat \ {0} : Base = b + 1
    <3>1. Base - 1 \in Nat \ {0} /\ Base = (Base - 1) + 1 BY BaseType
    <3> QED BY <3>1
  <2>2. x * Base = x * b + x /\ x * b \in Nat \ {0} BY <2>1
  <2> QED BY <2>1, <2>2
<1>2. Base \in Nat \ {0} BY BaseType
<1>3. b2 \in Nat \ {0} /\ Base < b2 BY <1>1, <1>2
<1> HIDE DEF b2
<1>4. b3 \in Nat \ {0} /\ b2 < b3 /\ b3 = Base * b2 BY <1>1, <1>3
<1> HIDE DEF b3
<1>5. b4 \in Nat \ {0} /\ b3 < b4 /\ b4 = Base * b3 BY <1>1, <1>4
<1> HIDE DEF b4
<1> QED BY <1>3, <1>4, <1>5 DEF b2, b3, b4

\* Where fewer digits are enough, more of them say the same.
LEMMA FewerDigits ==
  ASSUME NEW l \in Nat
  PROVE  /\ l < Base => Digits2(l) = Digits1(l)
         /\ l < Base * Base => Digits3(l) = Digits2(l)
         /\ l < Base * Base * Base => Digits4(l) = Digits3(l)
<1>1. \A n \in Nat : n < Base => Digits2(n) = Digits1(n) BY DEF Digits1, Digits2
<1>2. \A n \in Nat : n < Base * Base => Digits3(n) = Digits2(n)
  <2> TAKE n \in Nat
  <2> HAVE n < Base * Base
  <2>1. n \div Base \in Nat /\ n \div Base < Base BY BaseType, Rest
  <2> QED BY <1>1, <2>1 DEF Digits2, Digits3
<1>3. \A n \in Nat : n < Base * Base * Base => Digits4(n) = Digits3(n)
  <2> TAKE n \in Nat
  <2> HAVE n < Base * Base * Base
  <2>1. n \div Base \in Nat /\ n \div Base < Base * Base BY Powers, Rest
  <2> QED BY <1>2, <2>1 DEF Digits3, Digits4
<1> QED BY <1>1, <1>2, <1>3

\* MQTTPacket_encode writes these digits.
LEMMA EncodeDigits ==
  ASSUME NEW l \in 0..MaxRemLen
  PROVE  MQTTPacket_encode[l] = Digits4(l)
<1> DEFINE D == 0..MaxRemLen
           step(f, n) == IF n < Base THEN <<n>> ELSE <<Base + (n % Base)>> \o f[n \div Base]
           e == [n \in D |-> Digits4(n)]
<1>1. \A n \in D : n \in Nat /\ n \div Base \in D /\ n < Base * Base * Base * Base
      /\ n \div Base \in Nat /\ n \div Base < Base * Base * Base
  <2> TAKE n \in D
  <2>1. n \in Nat /\ n < Base * Base * Base * Base BY Powers DEF MaxRemLen
  <2>2. n \div Base \in Nat /\ n \div Base < Base * Base * Base BY <2>1, Powers, Rest
  <2>3. n \div Base \in D BY <2>2, Powers DEF MaxRemLen
  <2> QED BY <2>1, <2>2, <2>3
<1>2. \A n \in D : step(e, n) = Digits4(n)
  <2> TAKE n \in D
  <2>1. e[n \div Base] = Digits3(n \div Base) BY <1>1, FewerDigits
  <2> HIDE DEF e
  <2> QED BY <2>1 DEF Digits4
<1>3. e = [n \in D |-> step(e, n)] BY <1>2
<1>4. MQTTPacket_encode = CHOOSE f : f = [n \in D |-> step(f, n)] BY DEF MQTTPacket_encode
<1>5. MQTTPacket_encode = [n \in D |-> step(MQTTPacket_encode, n)]
  <2> HIDE DEF e, D, step
  <2> QED BY <1>3, <1>4, Zenon
<1>6. \A n \in D : MQTTPacket_encode[n] = step(MQTTPacket_encode, n)
  <2> HIDE DEF step
  <2> QED BY <1>5, Zenon
<1> DEFINE enc == MQTTPacket_encode
<1>7. \A n \in D : enc[n] = IF n < Base THEN <<n>> ELSE <<Base + (n % Base)>> \o enc[n \div Base]
  BY <1>6
<1> HIDE DEF enc
<1>8. \A n \in D : n < Base => enc[n] = Digits1(n) BY <1>7 DEF Digits1
<1>9. \A n \in D : n < Base * Base => enc[n] = Digits2(n)
  <2> TAKE n \in D
  <2> HAVE n < Base * Base
  <2>1. n \div Base \in D /\ n \div Base < Base BY <1>1, BaseType, Rest
  <2> QED BY <1>7, <1>8, <2>1 DEF Digits2
<1>10. \A n \in D : n < Base * Base * Base => enc[n] = Digits3(n)
  <2> TAKE n \in D
  <2> HAVE n < Base * Base * Base
  <2>1. n \div Base \in D /\ n \div Base < Base * Base BY <1>1, Powers, Rest
  <2> QED BY <1>7, <1>9, <2>1 DEF Digits3
<1>11. \A n \in D : enc[n] = Digits4(n)
  <2> TAKE n \in D
  <2>1. n \div Base \in D /\ n \div Base < Base * Base * Base BY <1>1
  <2> QED BY <1>7, <1>10, <2>1 DEF Digits4
<1> QED BY <1>11 DEF enc

\* How many digits a length has.
DigitCount(l) == IF l < Base THEN 1 ELSE IF l < Base * Base THEN 2
                 ELSE IF l < Base * Base * Base THEN 3 ELSE 4

\* The digits of a length with at most one more than another.
LEMMA OneMore ==
  ASSUME NEW l \in Nat, ~(l < Base), NEW t \in Seq(Nat), IsLength(t, l \div Base), Len(t) <= 3
  PROVE  /\ <<Base + (l % Base)>> \o t \in Seq(Nat) /\ IsLength(<<Base + (l % Base)>> \o t, l)
         /\ Len(<<Base + (l % Base)>> \o t) = 1 + Len(t)
<1>1. PICK q \in Nat, r \in 0..Base - 1 : l \div Base = q /\ l % Base = r /\ l = Base * q + r
  BY DivMod
<1>2. IsLength(<<Base + r>> \o t, Base * q + r)
  <2>1. IsLength(t, q) BY <1>1
  <2> QED BY <2>1, MoreIsLength
<1> DEFINE b == Base + r
<1>3. b \in Nat BY BaseType
<1>4. b = Base + (l % Base) BY <1>1
<1>5. IsLength(<<b>> \o t, l) BY <1>1, <1>2
<1> HIDE DEF b
<1>6. <<b>> \in Seq(Nat) /\ Len(<<b>>) = 1 BY <1>3
<1>7. <<b>> \o t \in Seq(Nat) /\ Len(<<b>> \o t) = 1 + Len(t) BY <1>6, ConcatFacts
<1> QED BY <1>4, <1>5, <1>7

\* MQTTPacket_encode writes the digits of a length, and no more than it needs.
LEMMA EncodeType ==
  ASSUME NEW l \in 0..MaxRemLen
  PROVE  /\ MQTTPacket_encode[l] \in Seq(Nat) /\ IsLength(MQTTPacket_encode[l], l)
         /\ Len(MQTTPacket_encode[l]) = DigitCount(l) /\ DigitCount(l) \in 1..4
<1> DEFINE Good(t, n) == t \in Seq(Nat) /\ IsLength(t, n) /\ Len(t) = DigitCount(n)
<1>0. ASSUME NEW n \in Nat, n < Base PROVE Good(<<n>>, n)
  <2>1. IsLength(<<n>>, n) BY <1>0, LastIsLength
  <2>2. <<n>> \in Seq(Nat) /\ Len(<<n>>) = 1 /\ DigitCount(n) = 1 BY <1>0 DEF DigitCount
  <2> QED BY <2>1, <2>2
<1>1. \A n \in Nat : n < Base => Good(Digits1(n), n) BY <1>0 DEF Digits1
<1>1a. \A n : Len(Digits1(n)) = 1 /\ Len(Digits1(n)) <= 3 BY DEF Digits1
<1>2. \A n \in Nat : n < Base * Base => Good(Digits2(n), n)
  <2> TAKE n \in Nat
  <2> HAVE n < Base * Base
  <2>1. CASE n < Base BY <1>0, <2>1 DEF Digits2
  <2>2. CASE ~(n < Base)
    <3>1. n \div Base \in Nat /\ n \div Base < Base BY BaseType, Rest
    <3>2. Good(Digits1(n \div Base), n \div Base) BY <1>1, <3>1
    <3>3. DigitCount(n \div Base) = 1 /\ DigitCount(n) = 2 BY <2>2, <3>1 DEF DigitCount
    <3>4. /\ Digits1(n \div Base) \in Seq(Nat) /\ IsLength(Digits1(n \div Base), n \div Base)
          /\ Len(Digits1(n \div Base)) = 1
      BY <3>2, <3>3
    <3>4a. Len(Digits1(n \div Base)) <= 3 BY <1>1a
    <3>5. Digits2(n) = <<Base + (n % Base)>> \o Digits1(n \div Base) BY <2>2 DEF Digits2
    <3> HIDE DEF Good
    <3>6. /\ Digits2(n) \in Seq(Nat) /\ IsLength(Digits2(n), n) /\ Len(Digits2(n)) = 2
      BY <2>2, <3>1, <3>4, <3>4a, <3>5, OneMore
    <3> QED BY <3>3, <3>6 DEF Good
  <2> QED BY <2>1, <2>2
<1>3. \A n \in Nat : n < Base * Base * Base => Good(Digits3(n), n)
  <2> TAKE n \in Nat
  <2> HAVE n < Base * Base * Base
  <2>1. CASE n < Base BY <1>0, <2>1 DEF Digits3
  <2>2. CASE ~(n < Base)
    <3>1. n \div Base \in Nat /\ n \div Base < Base * Base BY Powers, Rest
    <3>2. Good(Digits2(n \div Base), n \div Base) BY <1>2, <3>1
    <3>3. DigitCount(n) = 1 + DigitCount(n \div Base) /\ DigitCount(n \div Base) \in 1..2
      <4>1. PICK q \in Nat, r \in 0..Base - 1 : n \div Base = q /\ n = Base * q + r BY DivMod
      <4>2. n < Base * Base <=> q < Base BY <4>1, BaseType, Below
      <4>3. q < Base * Base BY <3>1, <4>1
      <4>4. DigitCount(q) = IF q < Base THEN 1 ELSE 2 BY <4>3 DEF DigitCount
      <4>5. DigitCount(n) = IF q < Base THEN 2 ELSE 3 BY <2>2, <4>2 DEF DigitCount
      <4> QED BY <4>1, <4>4, <4>5
    <3>4. /\ Digits2(n \div Base) \in Seq(Nat) /\ IsLength(Digits2(n \div Base), n \div Base)
          /\ Len(Digits2(n \div Base)) = DigitCount(n \div Base)
      BY <3>2
    <3>5. Digits3(n) = <<Base + (n % Base)>> \o Digits2(n \div Base) BY <2>2 DEF Digits3
    <3> HIDE DEF Good
    <3>6. Len(Digits2(n \div Base)) <= 3 BY <3>3, <3>4
    <3>7. /\ Digits3(n) \in Seq(Nat) /\ IsLength(Digits3(n), n)
          /\ Len(Digits3(n)) = 1 + Len(Digits2(n \div Base))
      BY <2>2, <3>4, <3>5, <3>6, OneMore
    <3> QED BY <3>3, <3>4, <3>7 DEF Good
  <2> QED BY <2>1, <2>2
<1>4. \A n \in Nat : n < Base * Base * Base * Base => Good(Digits4(n), n) /\ DigitCount(n) \in 1..4
  <2> TAKE n \in Nat
  <2> HAVE n < Base * Base * Base * Base
  <2>0. DigitCount(n) \in 1..4 BY DEF DigitCount
  <2>1. CASE n < Base BY <1>0, <2>0, <2>1 DEF Digits4
  <2>2. CASE ~(n < Base)
    <3>1. n \div Base \in Nat /\ n \div Base < Base * Base * Base BY Powers, Rest
    <3>2. Good(Digits3(n \div Base), n \div Base) BY <1>3, <3>1
    <3>3. DigitCount(n) = 1 + DigitCount(n \div Base) /\ DigitCount(n \div Base) \in 1..3
      <4>1. PICK q \in Nat, r \in 0..Base - 1 : n \div Base = q /\ n = Base * q + r BY DivMod
      <4>2. n < Base * Base <=> q < Base BY <4>1, BaseType, Below
      <4>3. n < Base * Base * Base <=> q < Base * Base BY <4>1, Powers, Below
      <4>4. q < Base * Base * Base BY <3>1, <4>1
      <4> QED BY <2>2, <4>1, <4>2, <4>3, <4>4 DEF DigitCount
    <3>4. /\ Digits3(n \div Base) \in Seq(Nat) /\ IsLength(Digits3(n \div Base), n \div Base)
          /\ Len(Digits3(n \div Base)) = DigitCount(n \div Base)
      BY <3>2
    <3>5. Digits4(n) = <<Base + (n % Base)>> \o Digits3(n \div Base) BY <2>2 DEF Digits4
    <3> HIDE DEF Good
    <3>6. Len(Digits3(n \div Base)) <= 3 BY <3>3, <3>4
    <3>7. /\ Digits4(n) \in Seq(Nat) /\ IsLength(Digits4(n), n)
          /\ Len(Digits4(n)) = 1 + Len(Digits3(n \div Base))
      BY <2>2, <3>4, <3>5, <3>6, OneMore
    <3> QED BY <2>0, <3>3, <3>4, <3>7 DEF Good
  <2> QED BY <2>1, <2>2
<1>5. l \in Nat /\ l < Base * Base * Base * Base BY Powers DEF MaxRemLen
<1> QED BY <1>4, <1>5, EncodeDigits

\* Digits finds the end of the digits s begins with, and MQTTPacket_decode what they stand for.
LEMMA ReadsLength ==
  ASSUME NEW s \in Seq(Nat), NEW t \in Seq(Nat), NEW l, IsLength(t, l),
         \A j \in 1..Len(t) : s[j] = t[j]
  PROVE  Digits(s) = Len(t) /\ MQTTPacket_decode(s) = l
<1>1. PICK v \in Seq(Nat) :
         /\ Len(v) = Len(t) /\ Len(v) \in 1..4 /\ v[1] = l
         /\ v[Len(v)] = t[Len(v)] /\ t[Len(v)] < Base
         /\ \A j \in 1..Len(v) - 1 :
              \E r \in 0..Base - 1 : t[j] = Base + r /\ v[j] = r + Base * v[j + 1]
  BY DEF IsLength
<1> DEFINE k == Len(v)
<1>2. k \in 1..4 /\ k = Len(t) /\ v[1] = l /\ v[k] = t[k] /\ t[k] < Base BY <1>1, Zenon
<1>2a. k \in 1..4 /\ k = Len(t) BY <1>2
<1>3. \A j \in 1..k - 1 : \E r \in 0..Base - 1 : t[j] = Base + r /\ v[j] = r + Base * v[j + 1]
  BY <1>1
<1>4. \A j \in 1..k : t[j] \in Nat /\ v[j] \in Nat BY <1>2
<1> HIDE DEF k
<1>5. \A j \in 1..k - 1 : t[j] >= Base
  <2> TAKE j \in 1..k - 1
  <2>1. PICK r \in 0..Base - 1 : t[j] = Base + r BY <1>3
  <2> QED BY <2>1, BaseType
<1>6. Digits(s) = k
  <2> DEFINE Ends(n) == (n = 4 \/ s[n] < Base) /\ \A j \in 1..(n - 1) : s[j] >= Base
  <2>1. k \in 1..4 /\ Ends(k)
    <3>1. k \in 1..Len(t) BY <1>2
    <3>2. s[k] < Base BY <1>2, <3>1
    <3>3. \A j \in 1..k - 1 : s[j] >= Base
      <4> TAKE j \in 1..k - 1
      <4>1. j \in 1..Len(t) BY <1>2
      <4> QED BY <1>5, <4>1
    <3> QED BY <1>2, <3>2, <3>3
  <2>1a. \A n \in 1..4 : n < k => n \in 1..k - 1 /\ n # 4 /\ n \in 1..Len(t)
    <3>1. k \in 1..4 BY <1>2a
    <3>2. \A n \in 1..4 : n < k => n \in 1..k - 1 /\ n # 4 BY <3>1
    <3>3. \A n \in 1..4 : n < k => n \in 1..k BY <3>1
    <3> QED BY <1>2a, <3>2, <3>3
  <2>2. ASSUME NEW n \in 1..4, Ends(n) PROVE n = k
    <3>1. CASE n < k
      <4>1. n \in 1..k - 1 /\ n # 4 /\ n \in 1..Len(t) BY <2>1a, <3>1
      <4>2. s[n] < Base /\ s[n] = t[n] BY <2>2, <4>1
      <4>3. t[n] >= Base /\ t[n] \in Nat
        <5>1. n \in 1..k BY <4>1, <1>2
        <5> QED BY <1>4, <1>5, <4>1, <5>1
      <4> QED BY <4>2, <4>3, BaseType
    <3>2. CASE n > k
      <4>1. k \in 1..n - 1 /\ k \in 1..Len(t) /\ k \in 1..k BY <1>2a, <3>2
      <4>2. s[k] >= Base /\ s[k] = t[k] BY <2>2, <4>1
      <4>3. t[k] < Base /\ t[k] \in Nat BY <1>2, <1>4, <4>1
      <4> QED BY <4>2, <4>3, BaseType
    <3> QED BY <1>2, <3>1, <3>2
  <2>3. Digits(s) = CHOOSE n \in 1..4 : Ends(n) BY DEF Digits
  <2> HIDE DEF Ends
  <2> QED BY <2>1, <2>2, <2>3
<1> DEFINE step(f, i) == (s[i] % Base) + (IF i < Digits(s) THEN Base * f[i + 1] ELSE 0)
           e == [i \in 1..k |-> v[i]]
           value == CHOOSE f : f = [i \in 1..k |-> step(f, i)]
<1>7. \A i \in 1..k : i < k => \E r \in 0..Base - 1 : s[i] % Base = r /\ v[i] = r + Base * v[i + 1]
  <2> TAKE i \in 1..k
  <2> HAVE i < k
  <2>1. i \in 1..k - 1 /\ i \in 1..Len(t) BY <1>2
  <2>2. PICK r \in 0..Base - 1 : t[i] = Base + r /\ v[i] = r + Base * v[i + 1] BY <1>3, <2>1
  <2>3. s[i] = Base + r BY <2>1, <2>2
  <2>4. s[i] % Base = r BY <2>3, MoreDigit
  <2> QED BY <2>2, <2>4
<1>8. s[k] % Base = v[k]
  <2>1. k \in 1..Len(t) /\ k \in 1..k BY <1>2
  <2>2. s[k] = v[k] /\ v[k] \in 0..Base - 1 BY <1>2, <1>4, <2>1, BaseType
  <2> QED BY <2>2, MoreDigit
<1>9. \A i \in 1..k : step(e, i) = v[i]
  <2> TAKE i \in 1..k
  <2>1. CASE i < k
    <3>1. PICK r \in 0..Base - 1 : s[i] % Base = r /\ v[i] = r + Base * v[i + 1] BY <1>7, <2>1
    <3>2. e[i + 1] = v[i + 1] BY <1>2, <2>1
    <3>3. step(e, i) = r + Base * v[i + 1]
      <4> HIDE DEF e
      <4> QED BY <1>6, <2>1, <3>1, <3>2
    <3> QED BY <3>1, <3>3
  <2>2. CASE ~(i < k)
    <3>1. i = k BY <1>2, <2>2
    <3>2. v[k] \in Nat /\ step(e, i) = v[k] + 0 BY <1>2, <1>4, <1>6, <1>8, <3>1
    <3> QED BY <3>1, <3>2
  <2> QED BY <2>1, <2>2
<1>10. e = [i \in 1..k |-> step(e, i)] BY <1>9
<1>11. value = [i \in 1..k |-> step(value, i)]
  <2>1. \E f : f = [i \in 1..k |-> step(f, i)] BY <1>10
  <2> HIDE DEF step, e
  <2> QED BY <2>1, Zenon
<1>12. MQTTPacket_decode(s) = value[1] BY <1>6 DEF MQTTPacket_decode
<1>13. \A i \in 1..k : value[i] = step(value, i)
  <2> HIDE DEF value, step
  <2> QED BY <1>11, Zenon
<1> HIDE DEF value
<1>14. value[k] = v[k]
  <2>1. k \in 1..k /\ ~(k < k) /\ v[k] \in Nat BY <1>2, <1>4
  <2>2. value[k] = v[k] + 0 BY <1>6, <1>8, <1>13, <2>1
  <2> QED BY <2>1, <2>2
<1>15. \A i \in 1..k : i < k /\ value[i + 1] = v[i + 1] => value[i] = v[i]
  <2> TAKE i \in 1..k
  <2> HAVE i < k /\ value[i + 1] = v[i + 1]
  <2>1. PICK r \in 0..Base - 1 : s[i] % Base = r /\ v[i] = r + Base * v[i + 1] BY <1>7
  <2>2. value[i] = r + Base * v[i + 1] BY <1>6, <1>13, <2>1
  <2> QED BY <2>1, <2>2
<1>16. value[1] = v[1]
  <2> HIDE DEF step, e
  <2>1. CASE k = 1 BY <1>14, <2>1
  <2>2. CASE k = 2 BY <1>14, <1>15, <2>2
  <2>3. CASE k = 3 BY <1>14, <1>15, <2>3
  <2>4. CASE k = 4 BY <1>14, <1>15, <2>4
  <2>5. k \in {1, 2, 3, 4}
    <3>1. k \in 1..4 BY <1>2, Zenon
    <3> HIDE DEF k
    <3> QED BY ONLY <3>1
  <2> HIDE DEF k
  <2> QED BY <2>1, <2>2, <2>3, <2>4, <2>5, Zenon
<1> QED BY <1>2, <1>6, <1>12, <1>16

\* A length of at most four digits.
IsRemLen(l) == l \in 0..MaxRemLen

\* Remaining lengths with up to four digits.
LEMMA RemLenRange ==
  ASSUME NEW l \in Nat, l < Base * Base * Base * Base
  PROVE  IsRemLen(l)
BY Powers DEF MaxRemLen, IsRemLen

\* Digits one behind the other.
LEMMA TwoDigits == ASSUME NEW x \in Nat, NEW y \in Nat PROVE <<x>> \o <<y>> = <<x, y>>
<1>1. /\ <<x>> \in Seq(Nat) /\ Len(<<x>>) = 1 /\ <<x>>[1] = x
      /\ <<y>> \in Seq(Nat) /\ Len(<<y>>) = 1 /\ <<y>>[1] = y
  OBVIOUS
<1>2. <<x, y>> \in Seq(Nat) /\ Len(<<x, y>>) = 2 /\ <<x, y>>[1] = x /\ <<x, y>>[2] = y OBVIOUS
<1> DEFINE a == <<x>>
           b == <<y>>
           c == <<x, y>>
           d == a \o b
<1>3. /\ d \in Seq(Nat) /\ Len(d) = Len(a) + Len(b)
      /\ \A i \in 1..Len(a) : d[i] = a[i]
      /\ \A i \in 1..Len(b) : d[Len(a) + i] = b[i]
  <2>1. a \in Seq(Nat) /\ b \in Seq(Nat) BY <1>1
  <2> HIDE DEF a, b
  <2> QED BY <2>1, ConcatFacts
<1>4. a \in Seq(Nat) /\ b \in Seq(Nat) /\ Len(a) = 1 /\ Len(b) = 1 /\ a[1] = x /\ b[1] = y
  BY <1>1
<1>5. c \in Seq(Nat) /\ Len(c) = 2 /\ c[1] = x /\ c[2] = y BY <1>2
<1> HIDE DEF a, b, c, d
<1>6. Len(d) = 2 /\ d[1] = x /\ d[2] = y BY <1>3, <1>4
<1>7. \A i \in 1..Len(d) : d[i] = c[i] BY <1>5, <1>6
<1>8. d = c BY <1>3, <1>5, <1>6, <1>7, SeqEqual
<1> QED BY <1>8 DEF a, b, c, d

\* The same, of three numbers.
LEMMA ThreeDigits ==
  ASSUME NEW x \in Nat, NEW y \in Nat, NEW z \in Nat
  PROVE  <<x>> \o <<y, z>> = <<x, y, z>>
<1> DEFINE a == <<x>>
           b == <<y, z>>
           c == <<x, y, z>>
           d == a \o b
<1>1. a \in Seq(Nat) /\ b \in Seq(Nat) /\ Len(a) = 1 /\ Len(b) = 2 /\ a[1] = x
      /\ b[1] = y /\ b[2] = z
  OBVIOUS
<1>2. c \in Seq(Nat) /\ Len(c) = 3 /\ c[1] = x /\ c[2] = y /\ c[3] = z OBVIOUS
<1>3. /\ d \in Seq(Nat) /\ Len(d) = Len(a) + Len(b)
      /\ \A i \in 1..Len(a) : d[i] = a[i]
      /\ \A i \in 1..Len(b) : d[Len(a) + i] = b[i]
  <2>1. a \in Seq(Nat) /\ b \in Seq(Nat) BY <1>1
  <2> HIDE DEF a, b
  <2> QED BY <2>1, ConcatFacts
<1> HIDE DEF a, b, c, d
<1>6. Len(d) = 3 /\ d[1] = x /\ d[2] = y /\ d[3] = z BY <1>1, <1>3
<1>7. \A i \in 1..Len(d) : d[i] = c[i] BY <1>2, <1>6
<1>8. d = c BY <1>2, <1>3, <1>6, <1>7, SeqEqual
<1> QED BY <1>8 DEF a, b, c, d

\* A packet of which the body is as long as announced: whoever takes off the fixed header has
\* the body, and has all of it.
LEMMA Framed ==
  ASSUME NEW h \in Nat, NEW body \in Seq(Nat), NEW l \in Nat, IsRemLen(l), Len(body) = l,
         NEW s, s = Bytes(h, l, body)
  PROVE  /\ s \in Seq(Nat) /\ s # <<>> /\ s[1] = h
         /\ Len(s) = 1 + DigitCount(l) + l
         /\ Digits(Tail(s)) = DigitCount(l)
         /\ Data(s) = body /\ Complete(s)
<1> DEFINE t == MQTTPacket_encode[l]
           k == DigitCount(l)
<1>1. t \in Seq(Nat) /\ IsLength(t, l) /\ Len(t) = k /\ k \in 1..4
  BY EncodeType DEF IsRemLen
<1>2. s = (<<h>> \o t) \o body BY DEF Bytes
<1> HIDE DEF t, k
<1>4. <<h>> \in Seq(Nat) /\ Len(<<h>>) = 1 OBVIOUS
<1>5. <<h>> \o t \in Seq(Nat) /\ Len(<<h>> \o t) = 1 + k BY <1>1, <1>4, ConcatFacts
<1>6. s \in Seq(Nat) /\ Len(s) = 1 + k + l BY <1>1, <1>2, <1>5, ConcatFacts
<1>7. At(s, 1, <<h>> \o t, 2 + k) /\ At(s, 2 + k, body, Len(s) + 1)
  <2>1. At(s, 1, (<<h>> \o t) \o body, Len(s) + 1) BY <1>2, <1>6, AtAll
  <2>2. At(s, 1, <<h>> \o t, 1 + Len(<<h>> \o t))
        /\ At(s, 1 + Len(<<h>> \o t), body, Len(s) + 1)
    BY <1>5, <1>6, <2>1, AtConcat
  <2>3. 1 + Len(<<h>> \o t) = 2 + k BY <1>1, <1>5
  <2> QED BY <2>2, <2>3
<1>8. At(s, 1, <<h>>, 2) /\ At(s, 2, t, 2 + k)
  <2>1. At(s, 1, <<h>>, 1 + Len(<<h>>)) /\ At(s, 1 + Len(<<h>>), t, 2 + k)
    BY <1>1, <1>4, <1>6, <1>7, AtConcat
  <2>2. 1 + Len(<<h>>) = 2 BY <1>4
  <2> QED BY <2>1, <2>2
<1>9. s[1] = h BY <1>6, <1>8, AtByte
<1>10. s # <<>> /\ k \in Nat
  <2>1. k \in 1..4 BY <1>1
  <2> QED BY <1>6, <2>1
<1>11. /\ Tail(s) \in Seq(Nat) /\ Len(Tail(s)) = k + l
       /\ \A j \in 1..k : Tail(s)[j] = s[j + 1]
  <2>1. /\ Tail(s) \in Seq(Nat) /\ Len(Tail(s)) = Len(s) - 1
        /\ \A j \in 1..Len(Tail(s)) : Tail(s)[j] = s[j + 1]
    BY <1>6, <1>10, HeadTailProperties
  <2>2. Len(s) - 1 = k + l /\ \A j \in 1..k : j \in 1..k + l BY <1>1, <1>6
  <2> QED BY <2>1, <2>2
<1>12. \A j \in 1..Len(t) : Tail(s)[j] = t[j]
  <2> TAKE j \in 1..Len(t)
  <2>1. s[2 + j - 1] = t[j] BY <1>8 DEF At
  <2>2. 2 + j - 1 = j + 1 /\ j \in 1..k BY <1>1
  <2> QED BY <1>11, <2>1, <2>2
<1>13. Digits(Tail(s)) = k /\ MQTTPacket_decode(Tail(s)) = l
  <2> DEFINE u == Tail(s)
  <2>1. u \in Seq(Nat) /\ \A j \in 1..Len(t) : u[j] = t[j] BY <1>11, <1>12
  <2> HIDE DEF u
  <2>2. Digits(u) = Len(t) /\ MQTTPacket_decode(u) = l BY <1>1, <2>1, ReadsLength
  <2> QED BY <1>1, <2>2 DEF u
<1>14. Data(s) = body
  <2> DEFINE i == 2 + k
             e == Len(s) + 1
  <2>1. SubSeq(s, i, e - 1) = body
    <3>1. At(s, i, body, e) BY <1>7
    <3> HIDE DEF i, e
    <3>2. s \in Seq(Nat) /\ body \in Seq(Nat) BY <1>6
    <3>3. SubSeq(s, i, e - 1) = body BY ONLY <3>1, <3>2, AtSubSeq
    <3> QED BY <3>3
  <2>2. i = k + 2 /\ e - 1 = k + 1 + l
    <3>1. k \in Nat BY <1>10
    <3>2. Len(s) = 1 + k + l BY <1>6
    <3> QED BY <3>1, <3>2
  <2> QED BY <1>13, <2>1, <2>2 DEF Data
<1>15. Complete(s) BY <1>6, <1>13 DEF Complete
<1> QED BY <1>6, <1>9, <1>10, <1>13, <1>14, <1>15 DEF k

\* A number divided by the base twice.
LEMMA DivTwice ==
  ASSUME NEW n \in Nat
  PROVE  n \div (Base * Base) = (n \div Base) \div Base
<1>1. PICK q \in Nat, r \in 0..Base - 1 : n \div Base = q /\ n = Base * q + r BY DivMod
<1>2. PICK p \in Nat, t \in 0..Base - 1 : q \div Base = p /\ q = Base * p + t BY DivMod
<1> DEFINE d == Base * Base
           u == Base * t + r
<1>3. Base * t + r < Base * Base BY <1>2, BaseType, Below
<1>4. d \in Nat \ {0} /\ u \in 0..d - 1
  <2>1. d \in Nat \ {0} BY BaseType
  <2>2. u \in Nat /\ u < d BY <1>3, BaseType
  <2> HIDE DEF u, d
  <2> QED BY <2>1, <2>2
<1>5. n = d * p + u BY <1>1, <1>2, BaseType
<1> HIDE DEF d, u
<1>6. n \div d = p BY <1>4, <1>5, DivUnique
<1> QED BY <1>1, <1>2, <1>6 DEF d

\* The peer's shortest digits are those of MQTTPacket_encode.
LEMMA PeerEncodes ==
  ASSUME NEW n \in Nat, n < Base * Base * Base
  PROVE  PeerDigits(n) = MQTTPacket_encode[n] /\ IsRemLen(n)
<1>1. n < Base * Base * Base * Base /\ IsRemLen(n)
  <2>1. n < Base * Base * Base * Base BY Powers
  <2> QED BY <2>1, RemLenRange
<1>2. MQTTPacket_encode[n] = Digits3(n) BY <1>1, EncodeDigits, FewerDigits DEF IsRemLen
<1> DEFINE q == n \div Base
           b == Base + (n % Base)
<1>3. q \in Nat /\ b \in Nat
  <2>1. PICK x \in Nat, r \in 0..Base - 1 : q = x /\ n % Base = r BY DivMod
  <2> QED BY <2>1, BaseType
<1>4. n < Base * Base <=> q < Base
  <2>1. PICK x \in Nat, r \in 0..Base - 1 : q = x /\ n = Base * x + r BY DivMod
  <2> QED BY <2>1, BaseType, Below
<1>5. n \div (Base * Base) = q \div Base BY DivTwice
<1>6. Digits3(n) = IF n < Base THEN <<n>> ELSE <<b>> \o Digits2(q) BY DEF Digits3
<1>7. PeerDigits(n) = IF n < Base THEN <<n>> ELSE IF n < Base * Base THEN <<b, q>>
                      ELSE <<b, Base + (q % Base), q \div Base>>
  BY <1>5 DEF PeerDigits
<1> HIDE DEF b
<1>8. CASE n < Base BY <1>1, <1>2, <1>6, <1>7, <1>8
<1>9. CASE ~(n < Base) /\ n < Base * Base
  <2>1. Digits2(q) = <<q>> BY <1>4, <1>9 DEF Digits2
  <2>2. <<b>> \o <<q>> = <<b, q>> BY <1>3, TwoDigits
  <2> QED BY <1>1, <1>2, <1>6, <1>7, <1>9, <2>1, <2>2
<1>10. CASE ~(n < Base) /\ ~(n < Base * Base)
  <2> DEFINE c == Base + (q % Base)
             e == q \div Base
  <2>1. c \in Nat /\ e \in Nat
    <3>1. PICK x \in Nat, r \in 0..Base - 1 : e = x /\ q % Base = r BY <1>3, DivMod
    <3> QED BY <3>1, BaseType
  <2>2. Digits2(q) = <<c>> \o <<e>> BY <1>4, <1>10 DEF Digits2, Digits1
  <2>3. PeerDigits(n) = <<b, c, e>> BY <1>7, <1>10
  <2> HIDE DEF c, e
  <2>4. <<c>> \o <<e>> = <<c, e>> BY <2>1, TwoDigits
  <2>5. <<b>> \o <<c, e>> = <<b, c, e>> BY <1>3, <2>1, ThreeDigits
  <2> QED BY <1>1, <1>2, <1>6, <1>10, <2>2, <2>3, <2>4, <2>5
<1> QED BY <1>1, <1>8, <1>9, <1>10

\* A set of numbers that is not empty has a least one.
LEMMA Least ==
  ASSUME NEW F, F \subseteq Nat, F # {}
  PROVE  \E m \in F : \A n \in F : m <= n
<1> DEFINE less == {p \in Nat \X Nat : p[1] < p[2]}
<1>1. IsWellFoundedOn(less, Nat) BY NatLessThanWellFounded, Zenon DEF OpToRel
<1>2. PICK m \in F : \A n \in F : ~(<<n, m>> \in less)
  <2> HIDE DEF less
  <2> QED BY <1>1, WFMin
<1>3. \A n \in F : n \in Nat /\ m \in Nat /\ ~(n < m) BY <1>2
<1>4. \A n \in F : m <= n BY <1>3
<1> QED BY <1>4

\* Induction: a set that holds 0, and with every number the next one, holds all of them.
LEMMA Induction ==
  ASSUME NEW T, 0 \in T, \A n \in Nat : n \in T => n + 1 \in T
  PROVE  Nat \subseteq T
<1> DEFINE F == Nat \ T
<1>1. SUFFICES ASSUME F # {} PROVE FALSE OBVIOUS
<1>2. F \subseteq Nat OBVIOUS
<1>3. PICK m \in F : \A n \in F : m <= n
  <2> HIDE DEF F
  <2> QED BY <1>1, <1>2, Least
<1>4. m \in Nat \ {0} BY <1>2
<1>5. m - 1 \in Nat /\ ~(m <= m - 1) /\ (m - 1) + 1 = m BY <1>4
<1>6. m - 1 \in T BY <1>3, <1>5
<1>7. m \in T BY <1>5, <1>6
<1> QED BY <1>7

\* G tells the value at i from the values behind i.
Backward(lo, hi, V, G) ==
  /\ G \in [lo..hi -> [[lo..hi -> V] -> V]]
  /\ \A i \in lo..hi : \A f, g \in [lo..hi -> V] :
       (\A j \in (i + 1)..hi : f[j] = g[j]) => G[i][f] = G[i][g]
\* f takes these values.
Solves(lo, hi, G, f) == \A i \in lo..hi : f[i] = G[i][f]

\* A recursion from the end of lo..hi has a solution.
LEMMA Recursion ==
  ASSUME NEW lo \in Int, NEW hi \in Int, NEW V, NEW v \in V, NEW G, Backward(lo, hi, V, G)
  PROVE  \E f \in [lo..hi -> V] : Solves(lo, hi, G, f)
<1> DEFINE D == lo..hi
           Upto(f, n) == \A i \in D : hi - i < n => f[i] = G[i][f]
           T == {n \in Nat : \E f \in [D -> V] : Upto(f, n)}
<1>0. /\ G \in [D -> [[D -> V] -> V]]
      /\ \A i \in D : \A f, g \in [D -> V] :
           (\A j \in (i + 1)..hi : f[j] = g[j]) => G[i][f] = G[i][g]
  BY DEF Backward
<1>1. 0 \in T
  <2> DEFINE f == [i \in D |-> v]
  <2>1. f \in [D -> V] OBVIOUS
  <2>2. \A i \in D : ~(hi - i < 0) OBVIOUS
  <2>3. Upto(f, 0) BY <2>2
  <2> HIDE DEF f
  <2> QED BY <2>1, <2>3
<1>2. ASSUME NEW n \in Nat, n \in T PROVE n + 1 \in T
  <2>1. PICK f \in [D -> V] : Upto(f, n) BY <1>2
  <2>2. CASE hi - n < lo
    <3>1. \A i \in D : hi - i < n BY <2>2
    <3>2. Upto(f, n + 1) BY <2>1, <3>1
    <3> QED BY <3>2
  <2>3. CASE ~(hi - n < lo)
    <3> DEFINE k == hi - n
    <3>1. k \in D /\ k \in Int BY <2>3
    <3> DEFINE g == [f EXCEPT ![k] = G[k][f]]
    <3>2. G[k][f] \in V BY <1>0, <3>1
    <3>3. g \in [D -> V] /\ g[k] = G[k][f] /\ \A i \in D : i # k => g[i] = f[i]
      <4> HIDE DEF D, k
      <4> QED BY <3>1, <3>2
    <3> HIDE DEF g
    <3>4. Upto(g, n + 1)
      <4> SUFFICES ASSUME NEW i \in D, hi - i < n + 1 PROVE g[i] = G[i][g] OBVIOUS
      <4>1. \A j \in (i + 1)..hi : g[j] = f[j]
        <5> TAKE j \in (i + 1)..hi
        <5>1. j \in D /\ j # k OBVIOUS
        <5> QED BY <3>3, <5>1
      <4>2. G[i][g] = G[i][f] BY <1>0, <3>3, <4>1
      <4>3. CASE i = k BY <3>3, <4>2, <4>3
      <4>4. CASE i # k
        <5>1. hi - i < n BY <4>4
        <5>2. f[i] = G[i][f] BY <2>1, <5>1
        <5> QED BY <3>3, <4>2, <4>4, <5>2
      <4> QED BY <4>3, <4>4
    <3> QED BY <3>3, <3>4
  <2> QED BY <2>2, <2>3
<1>3. Nat \subseteq T
  <2> HIDE DEF T
  <2> QED BY <1>1, <1>2, Induction
<1>4. \E n \in Nat : hi - lo < n
  <2>1. CASE hi < lo
    <3>1. hi - lo < 0 /\ 0 \in Nat BY <2>1
    <3> QED BY <3>1
  <2>2. CASE ~(hi < lo)
    <3>1. hi - lo + 1 \in Nat /\ hi - lo < hi - lo + 1 BY <2>2
    <3> QED BY <3>1
  <2> QED BY <2>1, <2>2
<1>5. PICK n \in Nat : hi - lo < n BY <1>4
<1>6. PICK f \in [D -> V] : Upto(f, n) BY <1>3, <1>5
<1>7. \A i \in D : hi - i < n BY <1>5
<1>8. \A i \in D : f[i] = G[i][f] BY <1>6, <1>7
<1> QED BY <1>8 DEF Solves

-----------------------------------------------------------------------------
(* What is written is as long as announced. *)

\* The strings and names of the packets.
LEMMA StringsType ==
  ASSUME NEW s \in Strings
  PROVE  s \in Seq(Nat) /\ Len(s) \in StringLens /\ Len(s) \in Word /\ Len(s) \in Nat
<1>1. PICK n \in StringLens : s = [i \in 1..n |-> 97] BY DEF Strings
<1>2. n \in Word BY CodecAssumption
<1>3. n \in Nat BY <1>2, WordType
<1>4. s \in Seq(Nat) /\ Len(s) = n BY <1>1, <1>3
<1> QED BY <1>2, <1>3, <1>4

\* Topic names are short sequences of letters.
LEMMA NamesType ==
  ASSUME NEW s \in TopicNames
  PROVE  s \in Seq(Nat) /\ Len(s) \in 0..MaxNameLen /\ Len(s) \in Word /\ Len(s) \in Nat
<1>1. PICK n \in 0..MaxNameLen : s \in [1..n -> Letters] BY DEF TopicNames
<1>2. MaxNameLen \in Word BY CodecAssumption
<1>3. Letters \subseteq Nat BY CodecAssumption
<1>4. n \in Nat /\ n \in Word
  <2>1. MaxNameLen \in Nat /\ MaxNameLen <= MaxWord /\ MaxWord \in Nat
    BY <1>2, WordType, SMT DEF MaxWord
  <2> QED BY <2>1, WordType
<1>5. s \in [1..n -> Nat] BY <1>1, <1>3
<1>6. s \in Seq(Nat) /\ Len(s) = n BY <1>4, <1>5
<1> QED BY <1>1, <1>4, <1>6

\* Which packets a peer or the client writes, and how.
Wrote(b, header, body) ==
  /\ header \in Nat /\ body \in Seq(Nat) /\ Len(body) \in Nat /\ IsRemLen(Len(body))
  /\ b = Bytes(header, Len(body), body)

\* Whoever takes off the fixed header of a packet has its body, and all of it.
LEMMA Unframed ==
  ASSUME NEW b, NEW header, NEW body, Wrote(b, header, body)
  PROVE  /\ b # <<>> /\ b[1] = header /\ TypeOf(b) = header \div 16 /\ Data(b) = body /\ Complete(b)
         /\ Len(b) = 1 + DigitCount(Len(body)) + Len(body)
         /\ Digits(Tail(b)) = DigitCount(Len(body))
<1> DEFINE l == Len(body)
<1>1. header \in Nat /\ body \in Seq(Nat) /\ l \in Nat /\ IsRemLen(l) /\ b = Bytes(header, l, body)
  BY DEF Wrote
<1>2. Len(body) = l OBVIOUS
<1> HIDE DEF l
<1>3. /\ b \in Seq(Nat) /\ b # <<>> /\ b[1] = header
      /\ Len(b) = 1 + DigitCount(l) + l
      /\ Digits(Tail(b)) = DigitCount(l)
      /\ Data(b) = body /\ Complete(b)
  BY <1>1, <1>2, Framed
<1>4. TypeOf(b) = header \div 16 BY <1>3 DEF TypeOf
<1> QED BY <1>3, <1>4 DEF l

\* The parts of a body.
LEMMA TwoParts ==
  ASSUME NEW S, NEW a1 \in Seq(S), NEW a2 \in Seq(S), NEW d, d = a1 \o a2
  PROVE  /\ d \in Seq(S) /\ Len(d) = Len(a1) + Len(a2)
         /\ At(d, 1, a1, 1 + Len(a1)) /\ At(d, 1 + Len(a1), a2, Len(d) + 1)
<1>1. d \in Seq(S) /\ Len(d) = Len(a1) + Len(a2) BY ConcatFacts
<1>2. At(d, 1, a1 \o a2, Len(d) + 1) BY <1>1, AtAll
<1> QED BY <1>1, <1>2, AtConcat

\* Three sequences lie in d, one behind the other, and fill it.
LieThree(d, a1, a2, a3) ==
  \E i, j \in Nat : At(d, 1, a1, i) /\ At(d, i, a2, j) /\ At(d, j, a3, Len(d) + 1)

\* So they do in their concatenation.
LEMMA ThreeParts ==
  ASSUME NEW S, NEW a1 \in Seq(S), NEW a2 \in Seq(S), NEW a3 \in Seq(S),
         NEW d, d = (a1 \o a2) \o a3
  PROVE  /\ d \in Seq(S) /\ Len(d) = Len(a1) + Len(a2) + Len(a3)
         /\ LieThree(d, a1, a2, a3)
<1> DEFINE b == a1 \o a2
<1>1. b \in Seq(S) /\ Len(b) = Len(a1) + Len(a2) /\ Len(a1) \in Nat /\ Len(a2) \in Nat
  BY ConcatFacts
<1>2. d = b \o a3 OBVIOUS
<1>3. b = a1 \o a2 OBVIOUS
<1> HIDE DEF b
<1>4. /\ d \in Seq(S) /\ Len(d) = Len(b) + Len(a3)
      /\ At(d, 1, b, 1 + Len(b)) /\ At(d, 1 + Len(b), a3, Len(d) + 1)
  <2>1. b \in Seq(S) BY <1>1
  <2> QED BY <1>2, <2>1, TwoParts
<1>5. At(d, 1, a1, 1 + Len(a1)) /\ At(d, 1 + Len(a1), a2, 1 + Len(b))
  <2>1. d \in Seq(S) /\ At(d, 1, a1 \o a2, 1 + Len(b)) BY <1>3, <1>4
  <2> QED BY <2>1, AtConcat
<1>6. 1 + Len(a1) \in Nat /\ 1 + Len(b) \in Nat BY <1>1
<1>7. Len(d) = Len(a1) + Len(a2) + Len(a3) BY <1>1, <1>4
<1>8. LieThree(d, a1, a2, a3) BY <1>4, <1>5, <1>6, Zenon DEF LieThree
<1> QED BY <1>4, <1>7, <1>8

\* Where the seven parts of a CONNECT lie.
Lie(d, a1, a2, a3, a4, a5, a6, a7) ==
  \E i2, i3, i4, i5, i6, i7 \in Nat :
    /\ At(d, 1, a1, i2) /\ At(d, i2, a2, i3) /\ At(d, i3, a3, i4) /\ At(d, i4, a4, i5)
    /\ At(d, i5, a5, i6) /\ At(d, i6, a6, i7) /\ At(d, i7, a7, Len(d) + 1)

\* The seven parts of a CONNECT.
LEMMA SevenParts ==
  ASSUME NEW S, NEW a1 \in Seq(S), NEW a2 \in Seq(S), NEW a3 \in Seq(S), NEW a4 \in Seq(S),
         NEW a5 \in Seq(S), NEW a6 \in Seq(S), NEW a7 \in Seq(S),
         NEW d, d = (((((a1 \o a2) \o a3) \o a4) \o a5) \o a6) \o a7
  PROVE  /\ d \in Seq(S)
         /\ Len(d) = Len(a1) + Len(a2) + Len(a3) + Len(a4) + Len(a5) + Len(a6) + Len(a7)
         /\ Lie(d, a1, a2, a3, a4, a5, a6, a7)
<1> DEFINE b3 == (a1 \o a2) \o a3
           b5 == (b3 \o a4) \o a5
<1>1. d = (b5 \o a6) \o a7 OBVIOUS
<1>2. b3 \in Seq(S) /\ Len(b3) = Len(a1) + Len(a2) + Len(a3) BY ThreeParts
<1>3. b5 = (b3 \o a4) \o a5 /\ b3 = (a1 \o a2) \o a3 OBVIOUS
<1> HIDE DEF b3, b5
<1>4. b5 \in Seq(S) /\ Len(b5) = Len(b3) + Len(a4) + Len(a5)
  <2>1. b3 \in Seq(S) BY <1>2
  <2> QED BY <1>3, <2>1, ThreeParts
<1>5. d \in Seq(S) /\ Len(d) = Len(b5) + Len(a6) + Len(a7)
  <2>1. b5 \in Seq(S) BY <1>4
  <2> QED BY <1>1, <2>1, ThreeParts
<1>6. PICK i6, i7 \in Nat : At(d, 1, b5, i6) /\ At(d, i6, a6, i7) /\ At(d, i7, a7, Len(d) + 1)
  <2>1. b5 \in Seq(S) BY <1>4
  <2>2. LieThree(d, b5, a6, a7) BY <1>1, <2>1, ThreeParts
  <2> QED BY <2>2, Zenon DEF LieThree
<1>7. PICK i4, i5 \in Nat : At(d, 1, b3, i4) /\ At(d, i4, a4, i5) /\ At(d, i5, a5, i6)
  <2>1. d \in Seq(S) /\ b3 \in Seq(S) BY <1>2, <1>5
  <2>2. b3 \o a4 \in Seq(S) BY <2>1, ConcatFacts
  <2>3. At(d, 1, (b3 \o a4) \o a5, i6) BY <1>3, <1>6
  <2>4. At(d, 1, b3 \o a4, 1 + Len(b3 \o a4)) /\ At(d, 1 + Len(b3 \o a4), a5, i6)
    BY <2>1, <2>2, <2>3, AtConcat
  <2>5. At(d, 1, b3, 1 + Len(b3)) /\ At(d, 1 + Len(b3), a4, 1 + Len(b3 \o a4))
    BY <2>1, <2>4, AtConcat
  <2>6. 1 + Len(b3) \in Nat /\ 1 + Len(b3 \o a4) \in Nat BY <2>1, <2>2
  <2> QED BY <2>4, <2>5, <2>6
<1>8. PICK i2, i3 \in Nat : At(d, 1, a1, i2) /\ At(d, i2, a2, i3) /\ At(d, i3, a3, i4)
  <2>1. d \in Seq(S) BY <1>5
  <2>2. a1 \o a2 \in Seq(S) BY ConcatFacts
  <2>3. At(d, 1, (a1 \o a2) \o a3, i4) BY <1>3, <1>7
  <2>4. At(d, 1, a1 \o a2, 1 + Len(a1 \o a2)) /\ At(d, 1 + Len(a1 \o a2), a3, i4)
    BY <2>1, <2>2, <2>3, AtConcat
  <2>5. At(d, 1, a1, 1 + Len(a1)) /\ At(d, 1 + Len(a1), a2, 1 + Len(a1 \o a2))
    BY <2>1, <2>4, AtConcat
  <2>6. 1 + Len(a1) \in Nat /\ 1 + Len(a1 \o a2) \in Nat BY <2>2
  <2> QED BY <2>4, <2>5, <2>6
<1>9. Len(d) = Len(a1) + Len(a2) + Len(a3) + Len(a4) + Len(a5) + Len(a6) + Len(a7)
  <2>1. /\ Len(a1) \in Nat /\ Len(a2) \in Nat /\ Len(a3) \in Nat /\ Len(a4) \in Nat
        /\ Len(a5) \in Nat /\ Len(a6) \in Nat /\ Len(a7) \in Nat
    OBVIOUS
  <2> QED BY <1>2, <1>4, <1>5, <2>1
<1>10. Lie(d, a1, a2, a3, a4, a5, a6, a7) BY <1>6, <1>7, <1>8, Zenon DEF Lie
<1> QED BY <1>5, <1>9, <1>10

\* The fields of a header byte.
LEMMA HeaderBits ==
  ASSUME NEW type \in 0..15, NEW dup \in 0..1, NEW qos \in 0..2, NEW retain \in 0..1,
         NEW h, h = MQTTHeader(type, dup, qos, retain)
  PROVE  /\ h \in Nat /\ h \div 16 = type /\ Bit(h, 3) = dup
         /\ Bit(h, 1) + 2 * Bit(h, 2) = qos /\ Bit(h, 0) = retain
<1>0. h = 16 * type + 8 * dup + 2 * qos + retain BY DEF MQTTHeader
<1>1. h \in Nat /\ h \div 16 = type BY <1>0, SMT
<1>2. h \div 8 = 2 * type + dup BY <1>0, SMT
<1>3. h \div 4 = 4 * type + 2 * dup + (IF qos = 2 THEN 1 ELSE 0) BY <1>0, SMT
<1>4. h \div 2 = 8 * type + 4 * dup + qos BY <1>0, SMT
<1>5. Bit(h, 3) = dup BY <1>2, SMT DEF Bit
<1>6. Bit(h, 2) = IF qos = 2 THEN 1 ELSE 0 BY <1>3, SMT DEF Bit
<1>7. Bit(h, 1) = IF qos = 1 THEN 1 ELSE 0 BY <1>4, SMT DEF Bit
<1>8. Bit(h, 0) = retain BY <1>0, SMT DEF Bit
<1>9. Bit(h, 1) + 2 * Bit(h, 2) = qos BY <1>6, <1>7
<1> QED BY <1>1, <1>5, <1>8, <1>9

\* The flags of a CONNECT: clean session, will, its retain flag, password and user name.
LEMMA FlagBits ==
  ASSUME NEW c \in 0..1, NEW w \in 0..1, NEW r \in 0..1, NEW p \in 0..1, NEW u \in 0..1,
         NEW f, f = 2 * c + 64 * p + 128 * u + (IF w = 0 THEN 0 ELSE 4 + 8 + 32 * r)
  PROVE  /\ f \in Nat /\ Bit(f, 1) = c /\ Bit(f, 2) = w /\ Bit(f, 6) = p /\ Bit(f, 7) = u
         /\ w = 1 => Bit(f, 3) + 2 * Bit(f, 4) = 1 /\ Bit(f, 5) = r
<1> DEFINE x == IF w = 0 THEN 0 ELSE r
<1>0. x \in 0..1 /\ x <= w /\ f = 2 * c + 4 * w + 8 * w + 32 * x + 64 * p + 128 * u OBVIOUS
<1> HIDE DEF x
<1>1. f \in Nat BY <1>0
<1>2. f \div 2 = c + 2 * w + 4 * w + 16 * x + 32 * p + 64 * u BY <1>0, SMT
<1>3. f \div 4 = w + 2 * w + 8 * x + 16 * p + 32 * u BY <1>0, SMT
<1>4. f \div 8 = w + 4 * x + 8 * p + 16 * u BY <1>0, SMT
<1>5. f \div 16 = 2 * x + 4 * p + 8 * u BY <1>0, SMT
<1>6. f \div 32 = x + 2 * p + 4 * u BY <1>0, SMT
<1>7. f \div 64 = p + 2 * u BY <1>0, SMT
<1>8. f \div 128 = u BY <1>0, SMT
<1>9. Bit(f, 1) = c BY <1>2, <1>0, SMT DEF Bit
<1>10. Bit(f, 2) = w BY <1>3, <1>0, SMT DEF Bit
<1>11. Bit(f, 3) = w BY <1>4, <1>0, SMT DEF Bit
<1>12. Bit(f, 4) = 0 BY <1>5, <1>0, SMT DEF Bit
<1>13. Bit(f, 5) = x BY <1>6, <1>0, SMT DEF Bit
<1>14. Bit(f, 6) = p BY <1>7, <1>0, SMT DEF Bit
<1>15. Bit(f, 7) = u BY <1>8, <1>0, SMT DEF Bit
<1>16. w = 1 => x = r BY DEF x
<1> QED BY <1>1, <1>9, <1>10, <1>11, <1>12, <1>13, <1>14, <1>15, <1>16

\* An optional string is there or not.
LEMMA OptionalType ==
  ASSUME NEW opt \in Optional(Strings)
  PROVE  /\ opt = <<>> \/ \E x \in Strings : opt = <<x>>
         /\ opt \in Seq(Seq(Nat)) /\ Len(opt) \in 0..1
         /\ writeOptional(opt) \in Seq(Nat) /\ Len(writeOptional(opt)) = OptionalLength(opt)
         /\ OptionalLength(opt) = 0 \/ \E n \in StringLens : OptionalLength(opt) = n + 2
<1>1. opt = <<>> \/ \E x \in Strings : opt = <<x>> BY DEF Optional
<1>2. CASE opt = <<>>
  <2>1. writeOptional(opt) = <<>> /\ OptionalLength(opt) = 0
    BY <1>2 DEF writeOptional, OptionalLength
  <2>2. <<>> \in Seq(Nat) /\ Len(<<>>) = 0 /\ opt \in Seq(Seq(Nat)) /\ Len(opt) = 0 BY <1>2
  <2> QED BY <1>1, <2>1, <2>2
<1>3. ASSUME NEW x \in Strings, opt = <<x>>
      PROVE  /\ opt \in Seq(Seq(Nat)) /\ Len(opt) \in 0..1
             /\ writeOptional(opt) \in Seq(Nat) /\ Len(writeOptional(opt)) = OptionalLength(opt)
             /\ \E n \in StringLens : OptionalLength(opt) = n + 2
  <2>1. x \in Seq(Nat) /\ Len(x) \in StringLens /\ Len(x) \in Word BY StringsType
  <2>2. opt[1] = x /\ opt # <<>> BY <1>3
  <2>3. writeOptional(opt) = writeMQTTString(x) /\ OptionalLength(opt) = Len(x) + 2
    BY <2>2 DEF writeOptional, OptionalLength
  <2>4. writeMQTTString(x) \in Seq(Nat) /\ Len(writeMQTTString(x)) = Len(x) + 2
    BY <2>1, StringType
  <2>5. opt \in Seq(Seq(Nat)) /\ Len(opt) \in 0..1 BY <1>3, <2>1
  <2> QED BY <2>1, <2>3, <2>4, <2>5
<1> QED BY <1>1, <1>2, <1>3

\* The packets of the client, by kind.
Connects ==
  [type : {CONNECT}, MQTTVersion : {3, 4}, cleansession : 0..1,
   keepAliveInterval : KeepAlives, clientID : Strings, will : Optional(Wills),
   username : Optional(Strings), password : Optional(Strings)]

\* The will's bytes in a CONNECT.
WillBytes(o) ==
  IF o.will = <<>> THEN <<>>
  ELSE writeMQTTString(o.will[1].topicName) \o writeMQTTString(o.will[1].message)
\* How many bytes those are.
WillLength(o) ==
  IF o.will = <<>> THEN 0 ELSE Len(o.will[1].topicName) + 2 + Len(o.will[1].message) + 2

\* A will is there or not.
LEMMA WillType ==
  ASSUME NEW o \in Connects
  PROVE  /\ o.will = <<>> \/ \E x \in Wills : o.will = <<x>>
         /\ WillBytes(o) \in Seq(Nat) /\ Len(WillBytes(o)) = WillLength(o)
         /\ WillLength(o) = 0 \/ \E m, n \in StringLens : WillLength(o) = m + 2 + n + 2
<1>1. o.will = <<>> \/ \E x \in Wills : o.will = <<x>> BY DEF Connects, Optional
<1>2. CASE o.will = <<>>
  <2>1. WillBytes(o) = <<>> /\ WillLength(o) = 0 BY <1>2 DEF WillBytes, WillLength
  <2>2. <<>> \in Seq(Nat) /\ Len(<<>>) = 0 OBVIOUS
  <2> QED BY <1>1, <2>1, <2>2
<1>3. ASSUME NEW x \in Wills, o.will = <<x>>
      PROVE  /\ WillBytes(o) \in Seq(Nat) /\ Len(WillBytes(o)) = WillLength(o)
             /\ \E m, n \in StringLens : WillLength(o) = m + 2 + n + 2
  <2>1. x.topicName \in Strings /\ x.message \in Strings BY DEF Wills
  <2> DEFINE t == x.topicName
             m == x.message
             wt == writeMQTTString(t)
             wm == writeMQTTString(m)
  <2>2. /\ t \in Seq(Nat) /\ Len(t) \in StringLens /\ Len(t) \in Word /\ Len(t) \in Nat
        /\ m \in Seq(Nat) /\ Len(m) \in StringLens /\ Len(m) \in Word /\ Len(m) \in Nat
    BY <2>1, StringsType
  <2>3. o.will[1] = x /\ o.will # <<>> BY <1>3
  <2>4. WillBytes(o) = wt \o wm /\ WillLength(o) = Len(t) + 2 + Len(m) + 2
    BY <2>3 DEF WillBytes, WillLength
  <2>5. wt \in Seq(Nat) /\ Len(wt) = Len(t) + 2 /\ wm \in Seq(Nat) /\ Len(wm) = Len(m) + 2
    BY <2>2, StringType
  <2> HIDE DEF t, m, wt, wm
  <2>6. wt \o wm \in Seq(Nat) /\ Len(wt \o wm) = Len(wt) + Len(wm) BY <2>5, ConcatFacts
  <2>7. Len(wt) + Len(wm) = Len(t) + 2 + Len(m) + 2 BY <2>2, <2>5
  <2> QED BY <2>2, <2>4, <2>6, <2>7
<1> QED BY <1>1, <1>2, <1>3

\* The fields of a CONNECT.
LEMMA ConnectFields ==
  ASSUME NEW o \in Connects
  PROVE  /\ o.type = CONNECT /\ o.MQTTVersion \in {3, 4} /\ o.cleansession \in 0..1
         /\ o.keepAliveInterval \in Word /\ o.clientID \in Strings
         /\ o.username \in Optional(Strings) /\ o.password \in Optional(Strings)
         /\ ConnectFlags(o) \in Nat
<1>1. /\ o.type = CONNECT /\ o.MQTTVersion \in {3, 4} /\ o.cleansession \in 0..1
      /\ o.keepAliveInterval \in KeepAlives /\ o.clientID \in Strings
      /\ o.username \in Optional(Strings) /\ o.password \in Optional(Strings)
  BY DEF Connects
<1>2. o.keepAliveInterval \in Word BY <1>1, CodecAssumption
<1>3. Len(o.username) \in 0..1 /\ Len(o.password) \in 0..1 BY <1>1, OptionalType
<1>4. (IF o.will = <<>> THEN 0 ELSE 4 + 8 * o.will[1].qos + 32 * o.will[1].retained) \in Nat
  <2>1. CASE o.will = <<>> BY <2>1
  <2>2. ASSUME NEW x \in Wills, o.will = <<x>>
        PROVE  (IF o.will = <<>> THEN 0
                ELSE 4 + 8 * o.will[1].qos + 32 * o.will[1].retained) \in Nat
    <3>1. o.will[1] = x /\ x.qos = 1 /\ x.retained \in 0..1 BY <2>2 DEF Wills
    <3> QED BY <3>1
  <2> QED BY <2>1, <2>2, WillType
<1> DEFINE w == IF o.will = <<>> THEN 0 ELSE 4 + 8 * o.will[1].qos + 32 * o.will[1].retained
           p == Len(o.password)
           u == Len(o.username)
           c == o.cleansession
<1>5. ConnectFlags(o) = 2 * c + 64 * p + 128 * u + w BY DEF ConnectFlags
<1>6. c \in 0..1 /\ p \in 0..1 /\ u \in 0..1 /\ w \in Nat BY <1>1, <1>3, <1>4
<1> HIDE DEF w, p, u, c
<1>7. ConnectFlags(o) \in Nat BY <1>5, <1>6
<1> QED BY <1>1, <1>2, <1>7

\* Five strings fit into a packet of four digits.
LEMMA FiveStrings ==
  ASSUME NEW M \in Nat, NEW a \in Nat, NEW b \in Nat, NEW c \in Nat, NEW d \in Nat,
         NEW f \in 0..12, 12 + 5 * a < M, 12 + 5 * d < M, 12 + 5 * c < M,
         b = 0 \/ \E m, n \in Nat : b = m + n /\ 12 + 5 * m < M /\ 12 + 5 * n < M
  PROVE  f + a + b + c + d < M
<1>1. CASE b = 0 BY <1>1
<1>2. CASE b # 0
  <2>1. PICK m, n \in Nat : b = m + n /\ 12 + 5 * m < M /\ 12 + 5 * n < M BY <1>2
  <2> QED BY <2>1
<1> QED BY <1>1, <1>2

\* The parts of a CONNECT, and where they lie.
LEMMA ConnectParts ==
  ASSUME NEW o \in Connects
  PROVE  /\ ConnectBody(o) \in Seq(Nat) /\ Len(ConnectBody(o)) = connectLength(o)
         /\ connectLength(o) \in Nat /\ IsRemLen(connectLength(o))
         /\ Lie(ConnectBody(o), writeMQTTString(ProtocolName(o.MQTTVersion)),
                <<o.MQTTVersion, ConnectFlags(o)>>, writeInt(o.keepAliveInterval),
                writeMQTTString(o.clientID), WillBytes(o), writeOptional(o.username),
                writeOptional(o.password))
<1> DEFINE n == ProtocolName(o.MQTTVersion)
           a1 == writeMQTTString(n)
           a2 == <<o.MQTTVersion, ConnectFlags(o)>>
           a3 == writeInt(o.keepAliveInterval)
           a4 == writeMQTTString(o.clientID)
           a5 == WillBytes(o)
           a6 == writeOptional(o.username)
           a7 == writeOptional(o.password)
           l1 == IF o.MQTTVersion = 3 THEN 12 ELSE 10
           l4 == Len(o.clientID) + 2
           l6 == OptionalLength(o.username)
           l7 == OptionalLength(o.password)
           M == Base * Base * Base * Base
           d == ConnectBody(o)
<1>1. n \in Seq(Nat) /\ Len(n) \in Word /\ Len(n) + 6 = l1
  <2>1. o.MQTTVersion \in {3, 4} BY ConnectFields
  <2>2. CASE o.MQTTVersion = 4
    <3>1. n = <<77, 81, 84, 84>> BY <2>2 DEF ProtocolName
    <3>2. n \in Seq(Nat) /\ Len(n) = 4 BY <3>1
    <3>3. 4 \in Word BY WordType, SMT DEF MaxWord
    <3>4. l1 = 10 BY <2>2
    <3>5. Len(n) + 6 = l1
      <4> HIDE DEF n, l1
      <4> QED BY <3>2, <3>4
    <3> HIDE DEF n, l1
    <3> QED BY <3>2, <3>3, <3>5
  <2>3. CASE o.MQTTVersion = 3
    <3>1. n = <<77, 81, 73, 115, 100, 112>> BY <2>3 DEF ProtocolName
    <3>2. n \in Seq(Nat) /\ Len(n) = 6 BY <3>1
    <3>3. 6 \in Word BY WordType, SMT DEF MaxWord
    <3>4. l1 = 12 BY <2>3
    <3>5. Len(n) + 6 = l1
      <4> HIDE DEF n, l1
      <4> QED BY <3>2, <3>4
    <3> HIDE DEF n, l1
    <3> QED BY <3>2, <3>3, <3>5
  <2> QED BY <2>1, <2>2, <2>3
<1>2. a1 \in Seq(Nat) /\ Len(a1) = Len(n) + 2
  <2> HIDE DEF n
  <2> QED BY <1>1, StringType
<1>3. a2 \in Seq(Nat) /\ Len(a2) = 2
  <2>1. o.MQTTVersion \in Nat /\ ConnectFlags(o) \in Nat BY ConnectFields
  <2> QED BY <2>1
<1>4. a3 \in Seq(Nat) /\ Len(a3) = 2 BY ConnectFields, IntType
<1>5. /\ a4 \in Seq(Nat) /\ Len(a4) = l4
      /\ Len(o.clientID) \in StringLens /\ Len(o.clientID) \in Nat
  <2>1. o.clientID \in Seq(Nat) /\ Len(o.clientID) \in Word /\ Len(o.clientID) \in StringLens
        /\ Len(o.clientID) \in Nat
    BY ConnectFields, StringsType
  <2> QED BY <2>1, StringType
<1>6. a5 \in Seq(Nat) /\ Len(a5) = WillLength(o) BY WillType
<1>7. /\ a6 \in Seq(Nat) /\ Len(a6) = l6 /\ a7 \in Seq(Nat) /\ Len(a7) = l7
  BY ConnectFields, OptionalType
<1>8. d = (((((a1 \o a2) \o a3) \o a4) \o a5) \o a6) \o a7 BY DEF ConnectBody, WillBytes
<1>9. connectLength(o) = l1 + l4 + WillLength(o) + l6 + l7
  <2>1. connectLength(o) = l1 + Len(o.clientID) + 2 + WillLength(o) + l6 + l7
    BY DEF connectLength, WillLength
  <2>2. l1 \in Nat /\ Len(o.clientID) \in Nat /\ WillLength(o) \in Nat /\ l6 \in Nat /\ l7 \in Nat
    BY <1>5, <1>6, <1>7
  <2> HIDE DEF l1, l6, l7
  <2> QED BY <2>1, <2>2
<1> HIDE DEF n, a1, a2, a3, a4, a5, a6, a7, d, l6, l7
<1>10. /\ a1 \in Seq(Nat) /\ a2 \in Seq(Nat) /\ a3 \in Seq(Nat) /\ a4 \in Seq(Nat)
       /\ a5 \in Seq(Nat) /\ a6 \in Seq(Nat) /\ a7 \in Seq(Nat)
  BY <1>2, <1>3, <1>4, <1>5, <1>6, <1>7
<1>11. /\ d \in Seq(Nat)
       /\ Len(d) = Len(a1) + Len(a2) + Len(a3) + Len(a4) + Len(a5) + Len(a6) + Len(a7)
  BY <1>8, <1>10, SevenParts
<1>12. Lie(d, a1, a2, a3, a4, a5, a6, a7)
  BY <1>8, <1>10, SevenParts
<1>13. Len(d) = connectLength(o)
  <2>1. Len(n) \in Nat /\ l1 = Len(n) + 6 /\ l4 \in Nat /\ WillLength(o) \in Nat /\ l6 \in Nat
        /\ l7 \in Nat
    BY <1>1, <1>5, <1>6, <1>7, <1>10
  <2> HIDE DEF l1, l4
  <2> QED BY <1>2, <1>3, <1>4, <1>5, <1>6, <1>7, <1>9, <1>11, <2>1
<1>14. connectLength(o) < M
  <2>0. M \in Nat BY Powers
  <2>1. \A k \in StringLens : k \in Nat /\ k + 2 \in Nat /\ 12 + 5 * (k + 2) < M
    BY LengthAssumption, CodecAssumption, WordType
  <2>2. ASSUME NEW opt \in Optional(Strings)
        PROVE  OptionalLength(opt) \in Nat /\ 12 + 5 * OptionalLength(opt) < M
    <3>1. PICK k \in StringLens : TRUE BY <1>5
    <3>2. CASE OptionalLength(opt) = 0
      <4> HIDE DEF M
      <4> QED BY <2>0, <2>1, <3>1, <3>2
    <3>3. CASE \E m \in StringLens : OptionalLength(opt) = m + 2
      <4> HIDE DEF M
      <4> QED BY <2>0, <2>1, <3>3
    <3> QED BY <3>2, <3>3, OptionalType
  <2>3. l6 \in Nat /\ 12 + 5 * l6 < M /\ l7 \in Nat /\ 12 + 5 * l7 < M
    BY <2>2, ConnectFields DEF l6, l7
  <2>4. l4 \in Nat /\ 12 + 5 * l4 < M BY <1>5, <2>1
  <2>5. WillLength(o) = 0
        \/ \E x, y \in Nat : WillLength(o) = x + y /\ 12 + 5 * x < M /\ 12 + 5 * y < M
    <3>1. CASE WillLength(o) = 0 BY <3>1
    <3>2. ASSUME NEW x \in StringLens, NEW y \in StringLens, WillLength(o) = x + 2 + y + 2
          PROVE  \E u, v \in Nat : WillLength(o) = u + v /\ 12 + 5 * u < M /\ 12 + 5 * v < M
      <4>1. /\ x + 2 \in Nat /\ 12 + 5 * (x + 2) < M /\ y + 2 \in Nat /\ 12 + 5 * (y + 2) < M
            /\ x \in Nat /\ y \in Nat
        BY <2>1
      <4>2. WillLength(o) = (x + 2) + (y + 2) BY <3>2, <4>1
      <4> QED BY <4>1, <4>2
    <3> QED BY <3>1, <3>2, WillType
  <2>6. l1 \in 0..12 OBVIOUS
  <2>7. WillLength(o) \in Nat BY <1>6, <1>10
  <2> HIDE DEF M, l1, l4
  <2>8. l1 + l4 + WillLength(o) + l6 + l7 < M BY <2>0, <2>3, <2>4, <2>5, <2>6, <2>7, FiveStrings
  <2> QED BY <1>9, <2>8
<1>15. connectLength(o) \in Nat BY <1>11, <1>13
<1>16. IsRemLen(connectLength(o)) BY <1>14, <1>15, RemLenRange
<1>17. d = ConnectBody(o) BY DEF d
<1> QED BY <1>11, <1>12, <1>13, <1>15, <1>16, <1>17 DEF n, a1, a2, a3, a4, a5, a6, a7

\* The sum over no strings, over one and over two.
LEMMA SizeOfNone == SizeOf(<<>>) = 0
<1> DEFINE D == {}
           iter == CHOOSE iter : iter = [s \in SUBSET D |->
                     IF s = {} THEN 0
                     ELSE iter[s \ {CHOOSE i \in s : TRUE}] + 2 + Len(<<>>[CHOOSE i \in s : TRUE])]
           e == [s \in SUBSET D |-> 0]
<1>1. SizeOf(<<>>) = iter[D]
  <2>1. DOMAIN <<>> = {} OBVIOUS
  <2> QED BY <2>1 DEF SizeOf, FoldSeq, FoldFunction, FoldFunctionOnSet, MapThenFoldSet
<1>2. e = [s \in SUBSET D |->
             IF s = {} THEN 0
             ELSE e[s \ {CHOOSE i \in s : TRUE}] + 2 + Len(<<>>[CHOOSE i \in s : TRUE])]
  BY SUBSET D = {{}}
<1> HIDE DEF e
<1>3. iter = [s \in SUBSET D |->
               IF s = {} THEN 0
               ELSE iter[s \ {CHOOSE i \in s : TRUE}] + 2 + Len(<<>>[CHOOSE i \in s : TRUE])]
  BY <1>2, Zenon
<1> HIDE DEF iter
<1>4. iter[{}] = 0 BY <1>3, Zenon
<1> QED BY <1>1, <1>4

\* The bytes that one string takes, and two.
LEMMA SizeOfOne ==
  ASSUME NEW x, Len(x) \in Nat
  PROVE  SizeOf(<<x>>) = 2 + Len(x)
<1> DEFINE D == {1}
           pick(s) == CHOOSE i \in s : TRUE
           iter == CHOOSE iter : iter = [s \in SUBSET D |->
                     IF s = {} THEN 0
                     ELSE iter[s \ {CHOOSE i \in s : TRUE}] + 2 + Len(<<x>>[CHOOSE i \in s : TRUE])]
           e == [s \in SUBSET D |-> IF s = {} THEN 0 ELSE 0 + 2 + Len(x)]
<1>1. SizeOf(<<x>>) = iter[D]
  BY DEF SizeOf, FoldSeq, FoldFunction, FoldFunctionOnSet, MapThenFoldSet
<1>2. \A s \in SUBSET D : s = {} \/ s = {1} OBVIOUS
<1>3. pick({1}) = 1 /\ {1} \ {1} = {} /\ <<x>>[1] = x OBVIOUS
<1>4. e = [s \in SUBSET D |->
             IF s = {} THEN 0 ELSE e[s \ {pick(s)}] + 2 + Len(<<x>>[pick(s)])]
  <2>1. e[{}] = 0 OBVIOUS
  <2> HIDE DEF pick
  <2> SUFFICES ASSUME NEW s \in SUBSET D, s # {} 
      PROVE 0 + 2 + Len(x) = e[s \ {pick(s)}] + 2 + Len(<<x>>[pick(s)])
    BY Zenon
  <2>2. s = {1} BY <1>2
  <2> QED BY <1>3, <2>1, <2>2
<1> HIDE DEF e
<1>5. iter = [s \in SUBSET D |->
               IF s = {} THEN 0 ELSE iter[s \ {pick(s)}] + 2 + Len(<<x>>[pick(s)])]
  BY <1>4, Zenon
<1> HIDE DEF iter, pick
<1>6. iter[{}] = 0 /\ iter[{1}] = iter[{1} \ {pick({1})}] + 2 + Len(<<x>>[pick({1})])
  BY <1>5, Zenon
<1> QED BY <1>1, <1>3, <1>6

LEMMA SizeOfTwo ==
  ASSUME NEW x, Len(x) \in Nat, NEW y, Len(y) \in Nat
  PROVE  SizeOf(<<x, y>>) = 4 + Len(x) + Len(y)
<1> DEFINE D == {1, 2}
           z == <<x, y>>
           pick(s) == CHOOSE i \in s : TRUE
           iter == CHOOSE iter : iter = [s \in SUBSET D |->
                     IF s = {} THEN 0
                     ELSE iter[s \ {CHOOSE i \in s : TRUE}] + 2 + Len(z[CHOOSE i \in s : TRUE])]
           w(i) == IF i = 1 THEN Len(x) ELSE Len(y)
           e == [s \in SUBSET D |-> IF s = {} THEN 0 ELSE IF s = D THEN 4 + Len(x) + Len(y)
                                    ELSE 2 + w(pick(s))]
<1>0. /\ 0 + 2 + Len(x) = 2 + Len(x) /\ 0 + 2 + Len(y) = 2 + Len(y)
      /\ (2 + Len(y)) + 2 + Len(x) = 4 + Len(x) + Len(y)
      /\ (2 + Len(x)) + 2 + Len(y) = 4 + Len(x) + Len(y)
  OBVIOUS
<1>1. SizeOf(z) = iter[D]
  <2>1. DOMAIN z = D OBVIOUS
  <2> HIDE DEF z
  <2> QED BY <2>1, Zenon DEF SizeOf, FoldSeq, FoldFunction, FoldFunctionOnSet, MapThenFoldSet
<1>2. \A s \in SUBSET D : s = {} \/ s = {1} \/ s = {2} \/ s = D OBVIOUS
<1>3. pick({1}) = 1 /\ pick({2}) = 2 /\ pick(D) \in D /\ z[1] = x /\ z[2] = y OBVIOUS
<1> HIDE DEF z
<1>4. e = [s \in SUBSET D |->
             IF s = {} THEN 0 ELSE e[s \ {pick(s)}] + 2 + Len(z[pick(s)])]
  <2>1. e[{}] = 0 /\ e[{1}] = 2 + Len(x) /\ e[{2}] = 2 + Len(y) /\ e[D] = 4 + Len(x) + Len(y)
    BY <1>3
  <2> HIDE DEF pick
  <2>2. ASSUME NEW s \in SUBSET D, s # {}
        PROVE e[s] = e[s \ {pick(s)}] + 2 + Len(z[pick(s)])
    <3>1. CASE s = {1}
      <4>1. s \ {pick(s)} = {} /\ z[pick(s)] = x BY <1>3, <3>1
      <4> HIDE DEF D, e
      <4> QED BY <1>0, <2>1, <3>1, <4>1, Zenon
    <3>2. CASE s = {2}
      <4>1. s \ {pick(s)} = {} /\ z[pick(s)] = y BY <1>3, <3>2
      <4> HIDE DEF D, e
      <4> QED BY <1>0, <2>1, <3>2, <4>1, Zenon
    <3>3. CASE s = D /\ pick(D) = 1
      <4>1. s \ {pick(s)} = {2} /\ z[pick(s)] = x BY <1>3, <3>3
      <4> HIDE DEF D, e
      <4> QED BY <1>0, <2>1, <3>3, <4>1, Zenon
    <3>4. CASE s = D /\ pick(D) = 2
      <4>1. s \ {pick(s)} = {1} /\ z[pick(s)] = y BY <1>3, <3>4
      <4> HIDE DEF D, e
      <4> QED BY <1>0, <2>1, <3>4, <4>1, Zenon
    <3> QED BY <1>2, <1>3, <2>2, <3>1, <3>2, <3>3, <3>4
  <2>3. e = [s \in SUBSET D |-> e[s]] BY Zenon
  <2> HIDE DEF e
  <2> QED BY <2>1, <2>2, <2>3, Zenon
<1> HIDE DEF e
<1>5. iter = [s \in SUBSET D |->
               IF s = {} THEN 0 ELSE iter[s \ {pick(s)}] + 2 + Len(z[pick(s)])]
  BY <1>4, Zenon
<1> HIDE DEF iter, pick
<1>6. /\ iter[{}] = 0
      /\ \A s \in SUBSET D : s # {} => iter[s] = iter[s \ {pick(s)}] + 2 + Len(z[pick(s)])
  BY <1>5, Zenon
<1>7. iter[{1}] = 2 + Len(x) /\ iter[{2}] = 2 + Len(y)
  <2>1. /\ {1} \ {pick({1})} = {} /\ {2} \ {pick({2})} = {}
        /\ {1} \in SUBSET D /\ {2} \in SUBSET D /\ {1} # {} /\ {2} # {}
    BY <1>3
  <2> HIDE DEF D
  <2> QED BY <1>0, <1>3, <1>6, <2>1, Zenon
<1>8. iter[D] = 4 + Len(x) + Len(y)
  <2>1. iter[D] = iter[D \ {pick(D)}] + 2 + Len(z[pick(D)]) BY <1>6
  <2>2. CASE pick(D) = 1
    <3>1. D \ {pick(D)} = {2} /\ z[pick(D)] = x BY <1>3, <2>2
    <3> HIDE DEF D
    <3> QED BY <1>0, <1>7, <2>1, <3>1, Zenon
  <2>3. CASE pick(D) = 2
    <3>1. D \ {pick(D)} = {1} /\ z[pick(D)] = y BY <1>3, <2>3
    <3> HIDE DEF D
    <3> QED BY <1>0, <1>7, <2>1, <3>1, Zenon
  <2> QED BY <1>3, <2>2, <2>3
<1> QED BY <1>1, <1>8 DEF z

\* One sequence flattened, and two.
LEMMA FlattenOne == ASSUME NEW q, Len(q) = 1 PROVE FlattenSeq(q) = q[1]
<1> DEFINE flatten == CHOOSE flatten : flatten = [i \in 1..1 |->
                        IF i = 1 THEN q[i] ELSE flatten[i - 1] \o q[i]]
           e == [i \in 1..1 |-> q[1]]
<1>1. FlattenSeq(q) = flatten[1] BY DEF FlattenSeq
<1>2. e = [i \in 1..1 |-> IF i = 1 THEN q[i] ELSE e[i - 1] \o q[i]] OBVIOUS
<1> HIDE DEF e
<1>3. flatten = [i \in 1..1 |-> IF i = 1 THEN q[i] ELSE flatten[i - 1] \o q[i]] BY <1>2, Zenon
<1> HIDE DEF flatten
<1> QED BY <1>1, <1>3

\* Two pieces, one behind the other.
LEMMA FlattenTwo == ASSUME NEW q, Len(q) = 2 PROVE FlattenSeq(q) = q[1] \o q[2]
<1> DEFINE flatten == CHOOSE flatten : flatten = [i \in 1..2 |->
                        IF i = 1 THEN q[i] ELSE flatten[i - 1] \o q[i]]
           e == [i \in 1..2 |-> IF i = 1 THEN q[1] ELSE q[1] \o q[2]]
<1>1. FlattenSeq(q) = flatten[2] BY DEF FlattenSeq
<1>2. e = [i \in 1..2 |-> IF i = 1 THEN q[i] ELSE e[i - 1] \o q[i]]
  <2>1. e[1] = q[1] OBVIOUS
  <2>2. \A i \in 1..2 : i = 1 \/ (i = 2 /\ i - 1 = 1) BY SMT
  <2> QED BY <2>1, <2>2
<1> HIDE DEF e
<1>3. flatten = [i \in 1..2 |-> IF i = 1 THEN q[i] ELSE flatten[i - 1] \o q[i]] BY <1>2, Zenon
<1> HIDE DEF flatten
<1>4. flatten[1] = q[1] BY <1>3
<1>5. flatten[2] = flatten[2 - 1] \o q[2] BY <1>3
<1>6. 2 - 1 = 1 OBVIOUS
<1> QED BY <1>1, <1>4, <1>5, <1>6

\* A list is one or two.
LEMMA ListCases ==
  ASSUME NEW R, NEW q \in Lists(R)
  PROVE  (\E x \in R : q = <<x>>) \/ (\E x, y \in R : q = <<x, y>>)
BY DEF Lists

\* What SUBSCRIBE and UNSUBSCRIBE are made of.
Requested == [topicFilter : Strings, requestedQoS : 0..2]
Subscribes == [type : {SUBSCRIBE}, dup : 0..1, packetid : PacketIds, requests : Lists(Requested)]
Unsubscribes == [type : {UNSUBSCRIBE}, dup : 0..1, packetid : PacketIds,
                 topicFilters : Lists(Strings)]

\* What a filter and its QoS are written as.
Request(r) == writeMQTTString(r.topicFilter) \o <<r.requestedQoS>>

\* A filter takes three bytes more than its characters.
LEMMA RequestType ==
  ASSUME NEW r \in Requested
  PROVE  /\ r.topicFilter \in Strings /\ Len(r.topicFilter) \in Nat /\ r.requestedQoS \in 0..2
         /\ Request(r) \in Seq(Nat) /\ Len(Request(r)) = Len(r.topicFilter) + 3
<1>1. r.topicFilter \in Strings /\ r.requestedQoS \in 0..2 BY DEF Requested
<1>2. r.topicFilter \in Seq(Nat) /\ Len(r.topicFilter) \in Word /\ Len(r.topicFilter) \in Nat
  BY <1>1, StringsType
<1> DEFINE s == writeMQTTString(r.topicFilter)
           b == <<r.requestedQoS>>
<1>3. s \in Seq(Nat) /\ Len(s) = Len(r.topicFilter) + 2 BY <1>2, StringType
<1>4. b \in Seq(Nat) /\ Len(b) = 1 BY <1>1
<1>5. Request(r) = s \o b BY DEF Request
<1> HIDE DEF s, b
<1>6. s \o b \in Seq(Nat) /\ Len(s \o b) = Len(s) + Len(b) BY <1>3, <1>4, ConcatFacts
<1>7. Len(s) + Len(b) = Len(r.topicFilter) + 3 BY <1>2, <1>3, <1>4
<1> QED BY <1>1, <1>2, <1>5, <1>6, <1>7

\* A SUBSCRIBE of one filter and of two.
LEMMA SubscribeOne ==
  ASSUME NEW p \in Subscribes, NEW x \in Requested, p.requests = <<x>>
  PROVE  /\ subscribeLength(p.requests) = 2 + Len(Request(x))
         /\ subscribeBody(p) = writeInt(p.packetid) \o Request(x)
<1>1. Len(x.topicFilter) \in Nat /\ Len(Request(x)) = Len(x.topicFilter) + 3 BY RequestType
<1>2. [i \in DOMAIN p.requests |-> p.requests[i].topicFilter] = <<x.topicFilter>> OBVIOUS
<1>3. Len(p.requests) = 1 OBVIOUS
<1>4. SizeOf(<<x.topicFilter>>) = 2 + Len(x.topicFilter) BY <1>1, SizeOfOne
<1>5. subscribeLength(p.requests) = 2 + (2 + Len(x.topicFilter)) + 1
  BY <1>2, <1>3, <1>4 DEF subscribeLength
<1>6. subscribeLength(p.requests) = 2 + Len(Request(x)) BY <1>1, <1>5
<1> DEFINE q == [i \in DOMAIN p.requests |->
                  writeMQTTString(p.requests[i].topicFilter) \o <<p.requests[i].requestedQoS>>]
<1>7. Len(q) = 1 /\ q[1] = Request(x) BY DEF Request
<1>8. subscribeBody(p) = writeInt(p.packetid) \o FlattenSeq(q) BY DEF subscribeBody
<1> HIDE DEF q
<1>9. FlattenSeq(q) = Request(x) BY <1>7, FlattenOne
<1> QED BY <1>6, <1>8, <1>9

\* The same, of two filters.
LEMMA SubscribeTwo ==
  ASSUME NEW p \in Subscribes, NEW x \in Requested, NEW y \in Requested, p.requests = <<x, y>>
  PROVE  /\ subscribeLength(p.requests) = 2 + Len(Request(x)) + Len(Request(y))
         /\ subscribeBody(p) = writeInt(p.packetid) \o (Request(x) \o Request(y))
<1>1. /\ Len(x.topicFilter) \in Nat /\ Len(Request(x)) = Len(x.topicFilter) + 3
      /\ Len(y.topicFilter) \in Nat /\ Len(Request(y)) = Len(y.topicFilter) + 3
  BY RequestType
<1>2. [i \in DOMAIN p.requests |-> p.requests[i].topicFilter] = <<x.topicFilter, y.topicFilter>>
  OBVIOUS
<1>3. Len(p.requests) = 2 OBVIOUS
<1>4. SizeOf(<<x.topicFilter, y.topicFilter>>) = 4 + Len(x.topicFilter) + Len(y.topicFilter)
  BY <1>1, SizeOfTwo
<1>5. subscribeLength(p.requests) = 2 + (4 + Len(x.topicFilter) + Len(y.topicFilter)) + 2
  BY <1>2, <1>3, <1>4 DEF subscribeLength
<1>6. subscribeLength(p.requests) = 2 + Len(Request(x)) + Len(Request(y))
  <2> DEFINE a == Len(x.topicFilter)
             b == Len(y.topicFilter)
  <2>1. /\ a \in Nat /\ b \in Nat /\ Len(Request(x)) = a + 3 /\ Len(Request(y)) = b + 3
        /\ subscribeLength(p.requests) = 2 + (4 + a + b) + 2
    BY <1>1, <1>5
  <2> HIDE DEF a, b
  <2>2. 2 + (4 + a + b) + 2 = 2 + (a + 3) + (b + 3) BY <2>1
  <2> QED BY <2>1, <2>2, Zenon
<1> DEFINE q == [i \in DOMAIN p.requests |->
                  writeMQTTString(p.requests[i].topicFilter) \o <<p.requests[i].requestedQoS>>]
<1>7. Len(q) = 2 /\ q[1] = Request(x) /\ q[2] = Request(y)
  <2>1. 1 \in DOMAIN p.requests /\ 2 \in DOMAIN p.requests /\ DOMAIN p.requests = 1..2
        /\ p.requests[1] = x /\ p.requests[2] = y OBVIOUS
  <2>2. q[1] = Request(x) /\ q[2] = Request(y) BY <2>1, Zenon DEF Request
  <2>3. Len(q) = 2 BY <2>1
  <2> QED BY <2>2, <2>3
<1>8. subscribeBody(p) = writeInt(p.packetid) \o FlattenSeq(q) BY DEF subscribeBody
<1> HIDE DEF q
<1>9. FlattenSeq(q) = Request(x) \o Request(y) BY <1>7, FlattenTwo
<1> QED BY <1>6, <1>8, <1>9

\* An UNSUBSCRIBE likewise.
LEMMA UnsubscribeOne ==
  ASSUME NEW p \in Unsubscribes, NEW x \in Strings, p.topicFilters = <<x>>
  PROVE  /\ unsubscribeLength(p.topicFilters) = 4 + Len(x)
         /\ unsubscribeBody(p) = writeInt(p.packetid) \o writeMQTTString(x)
<1>1. Len(x) \in Nat BY StringsType
<1>2. SizeOf(<<x>>) = 2 + Len(x) BY <1>1, SizeOfOne
<1>3. unsubscribeLength(p.topicFilters) = 4 + Len(x) BY <1>1, <1>2 DEF unsubscribeLength
<1> DEFINE q == [i \in DOMAIN p.topicFilters |-> writeMQTTString(p.topicFilters[i])]
<1>4. Len(q) = 1 /\ q[1] = writeMQTTString(x) OBVIOUS
<1>5. unsubscribeBody(p) = writeInt(p.packetid) \o FlattenSeq(q) BY DEF unsubscribeBody
<1> HIDE DEF q
<1>6. FlattenSeq(q) = writeMQTTString(x) BY <1>4, FlattenOne
<1> QED BY <1>3, <1>5, <1>6

\* The same, of two filters.
LEMMA UnsubscribeTwo ==
  ASSUME NEW p \in Unsubscribes, NEW x \in Strings, NEW y \in Strings, p.topicFilters = <<x, y>>
  PROVE  /\ unsubscribeLength(p.topicFilters) = 6 + Len(x) + Len(y)
         /\ unsubscribeBody(p) =
              writeInt(p.packetid) \o (writeMQTTString(x) \o writeMQTTString(y))
<1>1. Len(x) \in Nat /\ Len(y) \in Nat BY StringsType
<1>2. SizeOf(<<x, y>>) = 4 + Len(x) + Len(y) BY <1>1, SizeOfTwo
<1>3. unsubscribeLength(p.topicFilters) = 6 + Len(x) + Len(y)
  BY <1>1, <1>2 DEF unsubscribeLength
<1> DEFINE q == [i \in DOMAIN p.topicFilters |-> writeMQTTString(p.topicFilters[i])]
<1>4. Len(q) = 2 /\ q[1] = writeMQTTString(x) /\ q[2] = writeMQTTString(y) OBVIOUS
<1>5. unsubscribeBody(p) = writeInt(p.packetid) \o FlattenSeq(q) BY DEF unsubscribeBody
<1> HIDE DEF q
<1>6. FlattenSeq(q) = writeMQTTString(x) \o writeMQTTString(y) BY <1>4, FlattenTwo
<1> QED BY <1>3, <1>5, <1>6

\* A body as long as announced, in four digits.
Announced(body, l) == body \in Seq(Nat) /\ l \in Nat /\ Len(body) = l /\ IsRemLen(l)

\* Lengths of one digit.
LEMMA SmallLengths == \A l \in 0..9 : IsRemLen(l)
<1>1. Base * Base \in Nat /\ Base * Base >= 9
  <2>1. Base * Base >= 3 * Base BY BaseType, SMT
  <2> QED BY <2>1, BaseType, Powers
<1>2. Base * Base * Base * Base \in Nat /\ Base * Base * Base * Base > 9 BY <1>1, Powers
<1> DEFINE M == Base * Base * Base * Base
<1>3. M \in Nat /\ M > 9 BY <1>2
<1>4. \A l \in 0..9 : l \in Nat /\ l < M
  <2> HIDE DEF M
  <2> QED BY <1>3
<1> QED BY <1>4, RemLenRange

\* The body of a CONNECT is as long as announced.
LEMMA ConnectWritten ==
  ASSUME NEW o \in Connects
  PROVE  Announced(ConnectBody(o), connectLength(o))
BY ConnectParts DEF Announced

\* Two filters, of the client's strings, fit.
LEMMA TwoStrings ==
  ASSUME NEW x \in Strings, NEW y \in Strings, NEW n \in Nat, n <= 8 + Len(x) + Len(y)
  PROVE  IsRemLen(n)
<1> DEFINE M == Base * Base * Base * Base
           a == Len(x)
           b == Len(y)
<1>1. a \in StringLens /\ b \in StringLens /\ a \in Nat /\ b \in Nat BY StringsType
<1>2. M \in Nat /\ 12 + 5 * (a + 2) < M /\ 12 + 5 * (b + 2) < M
  BY <1>1, LengthAssumption, Powers
<1>3. n < M
  <2> HIDE DEF M, a, b
  <2>1. n <= 8 + a + b BY DEF a, b
  <2> QED BY <1>1, <1>2, <2>1
<1> QED BY <1>3, RemLenRange

\* So is that of a SUBSCRIBE,
LEMMA SubscribeWritten ==
  ASSUME NEW p \in Subscribes
  PROVE  Announced(subscribeBody(p), subscribeLength(p.requests))
<1> DEFINE id == writeInt(p.packetid)
           body == subscribeBody(p)
           l == subscribeLength(p.requests)
<1>1. p.requests \in Lists(Requested) /\ p.packetid \in Word
  BY CodecAssumption DEF Subscribes
<1>2. id \in Seq(Nat) /\ Len(id) = 2 BY <1>1, IntType
<1>3. ASSUME NEW x \in Requested, p.requests = <<x>> PROVE Announced(body, l)
  <2> DEFINE r == Request(x)
             f == x.topicFilter
  <2>1. f \in Strings /\ r \in Seq(Nat) /\ Len(r) = Len(f) + 3 /\ Len(f) \in Nat BY RequestType
  <2>2. body = id \o r /\ l = 2 + Len(r) BY <1>3, SubscribeOne
  <2> HIDE DEF id, body, l, r, f
  <2>3. body \in Seq(Nat) /\ Len(body) = Len(id) + Len(r) BY <1>2, <2>1, <2>2, ConcatFacts
  <2>4. l \in Nat /\ l <= 8 + Len(f) + Len(f) /\ Len(body) = l BY <1>2, <2>1, <2>2, <2>3
  <2> QED BY <2>1, <2>3, <2>4, TwoStrings DEF Announced
<1>4. ASSUME NEW x \in Requested, NEW y \in Requested, p.requests = <<x, y>>
      PROVE  Announced(body, l)
  <2> DEFINE r == Request(x)
             f == x.topicFilter
             s == Request(y)
             g == y.topicFilter
             t == r \o s
  <2>1. /\ f \in Strings /\ r \in Seq(Nat) /\ Len(r) = Len(f) + 3 /\ Len(f) \in Nat
        /\ g \in Strings /\ s \in Seq(Nat) /\ Len(s) = Len(g) + 3 /\ Len(g) \in Nat
    BY RequestType
  <2>2. body = id \o t /\ l = 2 + Len(r) + Len(s) BY <1>4, SubscribeTwo
  <2> HIDE DEF id, body, l, r, f, s, g
  <2>3. t \in Seq(Nat) /\ Len(t) = Len(r) + Len(s) BY <2>1, ConcatFacts
  <2> HIDE DEF t
  <2>4. body \in Seq(Nat) /\ Len(body) = Len(id) + Len(t) BY <1>2, <2>2, <2>3, ConcatFacts
  <2>5. l = 8 + Len(f) + Len(g) /\ Len(body) = 8 + Len(f) + Len(g)
    <3> DEFINE a == Len(f)
               b == Len(g)
    <3>1. a \in Nat /\ b \in Nat /\ Len(r) = a + 3 /\ Len(s) = b + 3 BY <2>1
    <3> HIDE DEF a, b
    <3>2. l = 8 + a + b /\ Len(body) = 8 + a + b BY <1>2, <2>2, <2>3, <2>4, <3>1
    <3> QED BY <3>2 DEF a, b
  <2>6. l \in Nat /\ l <= 8 + Len(f) + Len(g) /\ Len(body) = l BY <2>1, <2>5
  <2> QED BY <2>1, <2>4, <2>6, TwoStrings DEF Announced
<1> QED BY <1>1, <1>3, <1>4, ListCases

\* and that of an UNSUBSCRIBE.
LEMMA UnsubscribeWritten ==
  ASSUME NEW p \in Unsubscribes
  PROVE  Announced(unsubscribeBody(p), unsubscribeLength(p.topicFilters))
<1> DEFINE id == writeInt(p.packetid)
           body == unsubscribeBody(p)
           l == unsubscribeLength(p.topicFilters)
<1>1. p.topicFilters \in Lists(Strings) /\ p.packetid \in Word
  BY CodecAssumption DEF Unsubscribes
<1>2. id \in Seq(Nat) /\ Len(id) = 2 BY <1>1, IntType
<1>3. ASSUME NEW x \in Strings, p.topicFilters = <<x>> PROVE Announced(body, l)
  <2> DEFINE r == writeMQTTString(x)
  <2>1. x \in Seq(Nat) /\ Len(x) \in Word /\ Len(x) \in Nat BY StringsType
  <2>2. r \in Seq(Nat) /\ Len(r) = Len(x) + 2 BY <2>1, StringType
  <2>3. body = id \o r /\ l = 4 + Len(x) BY <1>3, UnsubscribeOne
  <2> HIDE DEF id, body, l, r
  <2>4. body \in Seq(Nat) /\ Len(body) = Len(id) + Len(r) BY <1>2, <2>2, <2>3, ConcatFacts
  <2>5. l \in Nat /\ l <= 8 + Len(x) + Len(x) /\ Len(body) = l
    BY <1>2, <2>1, <2>2, <2>3, <2>4
  <2> QED BY <2>4, <2>5, TwoStrings DEF Announced
<1>4. ASSUME NEW x \in Strings, NEW y \in Strings, p.topicFilters = <<x, y>>
      PROVE  Announced(body, l)
  <2> DEFINE r == writeMQTTString(x)
             s == writeMQTTString(y)
             t == r \o s
  <2>1. /\ x \in Seq(Nat) /\ Len(x) \in Word /\ Len(x) \in Nat
        /\ y \in Seq(Nat) /\ Len(y) \in Word /\ Len(y) \in Nat
    BY StringsType
  <2>2. r \in Seq(Nat) /\ Len(r) = Len(x) + 2 /\ s \in Seq(Nat) /\ Len(s) = Len(y) + 2
    BY <2>1, StringType
  <2>3. body = id \o t /\ l = 6 + Len(x) + Len(y) BY <1>4, UnsubscribeTwo
  <2> HIDE DEF id, body, l, r, s
  <2>4. t \in Seq(Nat) /\ Len(t) = Len(r) + Len(s) BY <2>2, ConcatFacts
  <2> HIDE DEF t
  <2>5. body \in Seq(Nat) /\ Len(body) = Len(id) + Len(t) BY <1>2, <2>3, <2>4, ConcatFacts
  <2>6. l \in Nat /\ l <= 8 + Len(x) + Len(y) /\ Len(body) = l
    BY <1>2, <2>1, <2>2, <2>3, <2>4, <2>5
  <2> QED BY <2>5, <2>6, TwoStrings DEF Announced
<1> QED BY <1>1, <1>3, <1>4, ListCases

\* A message, of the client or of its peer.
Message(p) ==
  /\ p = [type |-> PUBLISH, dup |-> 0, qos |-> p.qos, retained |-> p.retained,
          packetid |-> p.packetid, topicName |-> p.topicName, payload |-> p.payload]
  /\ p.qos \in 0..2 /\ p.retained \in 0..1 /\ p.packetid \in Word
  /\ p.qos = 0 <=> p.packetid = 0
  /\ p.topicName \in Seq(Nat) /\ Len(p.topicName) \in Word /\ Len(p.topicName) \in Nat
  /\ p.payload \in Seq(Nat) /\ Len(p.payload) \in Nat

\* A PUBLISH is a message, whoever sends it.
LEMMA PublishesType ==
  ASSUME NEW T, \A t \in T : t \in Seq(Nat) /\ Len(t) \in Word /\ Len(t) \in Nat,
         NEW L, L \subseteq Nat, NEW p \in Publishes(T, L)
  PROVE  Message(p) /\ p.topicName \in T /\ Len(p.payload) \in L
<1> DEFINE P == {[i \in 1..n |-> 0] : n \in L}
           R == [type : {PUBLISH}, dup : {0}, qos : 0..2, retained : 0..1,
                 packetid : PacketIds \cup {0}, topicName : T, payload : P]
<1>1. p \in R /\ (p.qos = 0 <=> p.packetid = 0) BY DEF Publishes
<1>2. p.packetid \in Word
  <2>1. 0 \in Word BY WordType, SMT DEF MaxWord
  <2> QED BY <1>1, <2>1, CodecAssumption
<1>3. p.payload \in Seq(Nat) /\ Len(p.payload) \in L /\ Len(p.payload) \in Nat
  <2>1. PICK n \in L : p.payload = [i \in 1..n |-> 0] BY <1>1
  <2>2. n \in Nat OBVIOUS
  <2> QED BY <2>1, <2>2
<1>4. p = [type |-> PUBLISH, dup |-> 0, qos |-> p.qos, retained |-> p.retained,
           packetid |-> p.packetid, topicName |-> p.topicName, payload |-> p.payload]
  <2>1. p = [type |-> p.type, dup |-> p.dup, qos |-> p.qos, retained |-> p.retained,
             packetid |-> p.packetid, topicName |-> p.topicName, payload |-> p.payload]
    BY <1>1
  <2>2. p.type = PUBLISH /\ p.dup = 0 BY <1>1
  <2> QED BY <2>1, <2>2, Zenon
<1>5. p.qos \in 0..2 /\ p.retained \in 0..1 /\ p.topicName \in T BY <1>1
<1> QED BY <1>1, <1>2, <1>3, <1>4, <1>5 DEF Message

\* The packet id of a message, and how much of it is written.
IdBytes(p) == IF p.qos > 0 THEN writeInt(p.packetid) ELSE <<>>

\* The name, the id and the payload fill the body of a PUBLISH.
LEMMA PublishParts ==
  ASSUME NEW p, Message(p)
  PROVE  /\ PublishBody(p) \in Seq(Nat)
         /\ Len(PublishBody(p)) = publishLength(p.qos, p.topicName, Len(p.payload))
         /\ publishLength(p.qos, p.topicName, Len(p.payload)) \in Nat
         /\ publishLength(p.qos, p.topicName, Len(p.payload))
              <= 4 + Len(p.topicName) + Len(p.payload)
         /\ IdBytes(p) \in Seq(Nat) /\ Len(IdBytes(p)) = IF p.qos > 0 THEN 2 ELSE 0
         /\ LieThree(PublishBody(p), writeMQTTString(p.topicName), IdBytes(p), p.payload)
<1> DEFINE s == writeMQTTString(p.topicName)
           b == IdBytes(p)
           d == PublishBody(p)
           n == Len(p.topicName)
           m == Len(p.payload)
           k == IF p.qos > 0 THEN 2 ELSE 0
           l == publishLength(p.qos, p.topicName, Len(p.payload))
<1>1. p.qos \in 0..2 /\ p.packetid \in Word BY DEF Message
<1>2. s \in Seq(Nat) /\ Len(s) = n + 2
  <2>1. p.topicName \in Seq(Nat) /\ Len(p.topicName) \in Word BY DEF Message
  <2> QED BY <2>1, StringType
<1>3. b \in Seq(Nat) /\ Len(b) = k
  <2>1. CASE p.qos > 0
    <3>1. b = writeInt(p.packetid) /\ k = 2 BY <2>1 DEF IdBytes
    <3> QED BY <1>1, <3>1, IntType
  <2>2. CASE ~(p.qos > 0)
    <3>1. b = <<>> /\ k = 0 BY <2>2 DEF IdBytes
    <3> QED BY <3>1
  <2> QED BY <2>1, <2>2
<1>4. p.payload \in Seq(Nat) /\ m \in Nat /\ n \in Nat BY DEF Message
<1>5. d = (s \o b) \o p.payload BY DEF PublishBody, IdBytes
<1>6. k \in {0, 2} OBVIOUS
<1>7. l = 2 + n + m + k BY DEF publishLength
<1> HIDE DEF s, b, d, n, m, k, l
<1>8. /\ d \in Seq(Nat) /\ Len(d) = Len(s) + Len(b) + Len(p.payload)
      /\ LieThree(d, s, b, p.payload)
  <2> DEFINE e == p.payload
  <2>1. s \in Seq(Nat) /\ b \in Seq(Nat) /\ e \in Seq(Nat) BY <1>2, <1>3, <1>4
  <2>2. d = (s \o b) \o e BY <1>5
  <2> HIDE DEF e
  <2>3. d \in Seq(Nat) /\ Len(d) = Len(s) + Len(b) + Len(e) /\ LieThree(d, s, b, e)
    <3>1. d \in Seq(Nat) BY <2>1, <2>2, ThreeParts
    <3>2. Len(d) = Len(s) + Len(b) + Len(e) BY <2>1, <2>2, ThreeParts
    <3>3. LieThree(d, s, b, e) BY <2>1, <2>2, ThreeParts
    <3> QED BY <3>1, <3>2, <3>3
  <2> QED BY <2>3 DEF e
<1>9. Len(p.payload) = m BY DEF m
<1>10. Len(d) = l /\ l \in Nat /\ l <= 4 + n + m
  BY <1>2, <1>3, <1>4, <1>6, <1>7, <1>8, <1>9
<1> QED BY <1>3, <1>8, <1>10 DEF s, b, d, n, m, k, l

\* A message the client publishes.
LEMMA PublishWritten ==
  ASSUME NEW p \in Publishes(Strings, PayloadLens)
  PROVE  /\ Message(p)
         /\ Announced(PublishBody(p), publishLength(p.qos, p.topicName, Len(p.payload)))
<1> DEFINE M == Base * Base * Base * Base
           n == Len(p.topicName)
           m == Len(p.payload)
           l == publishLength(p.qos, p.topicName, Len(p.payload))
<1>1. \A t \in Strings : t \in Seq(Nat) /\ Len(t) \in Word /\ Len(t) \in Nat BY StringsType
<1>2. PayloadLens \subseteq Nat BY CodecAssumption
<1>3. Message(p) /\ p.topicName \in Strings /\ m \in PayloadLens
  BY <1>1, <1>2, PublishesType
<1>4. n \in StringLens /\ n \in Nat /\ m \in Nat BY <1>2, <1>3, StringsType
<1>5. M \in Nat /\ 4 + n + m < M BY <1>3, <1>4, LengthAssumption, Powers
<1>6. /\ PublishBody(p) \in Seq(Nat) /\ Len(PublishBody(p)) = l /\ l \in Nat
      /\ l <= 4 + n + m
  BY <1>3, PublishParts
<1>7. l < M
  <2> HIDE DEF M, n, m, l
  <2> QED BY <1>4, <1>5, <1>6
<1>8. IsRemLen(l)
  <2> HIDE DEF l
  <2> QED BY <1>6, <1>7, RemLenRange
<1> HIDE DEF l
<1>9. Announced(PublishBody(p), l) BY <1>6, <1>8 DEF Announced
<1> QED BY <1>3, <1>9 DEF l

\* The header of a message.
LEMMA PublishHeads ==
  ASSUME NEW p, Message(p), NEW h, h = PublishHeader(p)
  PROVE  /\ h \in Nat /\ h \div 16 = PUBLISH /\ Bit(h, 3) = 0
         /\ Bit(h, 1) + 2 * Bit(h, 2) = p.qos /\ Bit(h, 0) = p.retained
         /\ PeerHeader(p) = h
<1>1. p.qos \in 0..2 /\ p.retained \in 0..1 BY DEF Message
<1>2. p.dup = 0 /\ p.type = 3
  <2>1. p.dup = 0 /\ p.type = PUBLISH BY DEF Message
  <2> QED BY <2>1 DEF PUBLISH
<1>4. PeerHeader(p) = 16 * 3 + (8 * 0 + 2 * p.qos + p.retained)
  BY <1>2, SMT DEF PeerHeader, PUBLISH, PUBREL
<1> DEFINE q == p.qos
           r == p.retained
           ty == p.type
           dp == p.dup
<1>5. /\ q \in 0..2 /\ r \in 0..1 /\ ty \in 0..15 /\ dp \in 0..1
      /\ h = MQTTHeader(ty, dp, q, r)
  BY <1>1, <1>2 DEF PublishHeader, PUBLISH
<1>6. ty = 3 /\ dp = 0 BY <1>2
<1> HIDE DEF q, r, ty, dp
<1>7. /\ h \in Nat /\ h \div 16 = ty /\ Bit(h, 3) = dp
      /\ Bit(h, 1) + 2 * Bit(h, 2) = q /\ Bit(h, 0) = r
  BY <1>5, HeaderBits
<1>8. 16 * 3 + (8 * 0 + 2 * q + r) = h BY <1>5, <1>6 DEF MQTTHeader
<1> QED BY <1>4, <1>6, <1>7, <1>8 DEF q, r, PUBLISH

\* A message is read as it was written.
LEMMA PublishRead ==
  ASSUME NEW p, Message(p)
  PROVE  MQTTDeserialize_publish(PublishHeader(p), PublishBody(p)) = p
<1> DEFINE h == PublishHeader(p)
           d == PublishBody(p)
           t == p.topicName
           b == IdBytes(p)
           at == 3 + Len(t)
<1>1. /\ p.qos \in 0..2 /\ p.packetid \in Word /\ t \in Seq(Nat) /\ Len(t) \in Word
      /\ Len(t) \in Nat /\ p.payload \in Seq(Nat) /\ (p.qos = 0 <=> p.packetid = 0)
  BY DEF Message
<1>2. /\ d \in Seq(Nat) /\ b \in Seq(Nat) BY PublishParts
<1>3. PICK i, j \in Nat : /\ At(d, 1, writeMQTTString(t), i) /\ At(d, i, b, j)
                          /\ At(d, j, p.payload, Len(d) + 1)
  <2>1. LieThree(d, writeMQTTString(t), b, p.payload) BY PublishParts
  <2> HIDE DEF d, t, b
  <2> QED BY <2>1, Zenon DEF LieThree
<1>4. /\ Bit(h, 3) = 0 /\ Bit(h, 1) + 2 * Bit(h, 2) = p.qos /\ Bit(h, 0) = p.retained
  BY PublishHeads
<1>5. p = [type |-> PUBLISH, dup |-> 0, qos |-> p.qos, retained |-> p.retained,
           packetid |-> p.packetid, topicName |-> t, payload |-> p.payload]
  BY DEF Message
<1>6. /\ readMQTTLenString(d, 1) = <<t>> /\ i = at
  <2> HIDE DEF h, d, t, b
  <2>1. readMQTTLenString(d, 1) = <<t>> /\ i = 1 + 2 + Len(t) BY <1>1, <1>2, <1>3, AtString
  <2> QED BY <1>1, <2>1
<1>7. j = at + (IF p.qos > 0 THEN 2 ELSE 0)
      /\ (IF p.qos > 0 THEN readInt(SubSeq(d, at, at + 1)) ELSE 0) = p.packetid
  <2>1. CASE p.qos > 0
    <3>1. b = writeInt(p.packetid) BY <2>1 DEF IdBytes
    <3> HIDE DEF h, d, t, b
    <3>2. At(d, i, writeInt(p.packetid), j) BY <1>3, <3>1
    <3> HIDE DEF at
    <3>3. readInt(SubSeq(d, at, at + 1)) = p.packetid /\ j = at + 2
      BY <1>1, <1>2, <1>6, <3>2, AtInt
    <3> QED BY <2>1, <3>3
  <2>2. CASE ~(p.qos > 0)
    <3>1. b = <<>> BY <2>2 DEF IdBytes
    <3>2. p.packetid = 0 BY <1>1, <2>2
    <3>3. j = i + Len(b) BY <1>3 DEF At
    <3>4. Len(b) = 0 BY <3>1
    <3> HIDE DEF h, d, b
    <3> QED BY <1>1, <1>6, <2>2, <3>2, <3>3, <3>4
  <2> QED BY <2>1, <2>2
<1> DEFINE e == at + (IF p.qos > 0 THEN 2 ELSE 0)
<1>8. SubSeq(d, e, Len(d)) = p.payload
  <2> HIDE DEF h, d, t, b
  <2> DEFINE z == Len(d) + 1
             m == p.payload
  <2>1. d \in Seq(Nat) /\ m \in Seq(Nat) /\ At(d, j, m, z) BY <1>1, <1>2, <1>3
  <2>2. z - 1 = Len(d) BY <1>2
  <2> HIDE DEF z, m
  <2>3. SubSeq(d, j, z - 1) = m BY <2>1, AtSubSeq
  <2> QED BY <1>7, <2>2, <2>3 DEF m
<1> HIDE DEF h, d, b
<1>9. MQTTDeserialize_publish(h, d) =
        [type |-> PUBLISH, dup |-> Bit(h, 3), qos |-> Bit(h, 1) + 2 * Bit(h, 2),
         retained |-> Bit(h, 0),
         packetid |-> IF Bit(h, 1) + 2 * Bit(h, 2) > 0
                      THEN readInt(SubSeq(d, 3 + Len(t), 3 + Len(t) + 1)) ELSE 0,
         topicName |-> t,
         payload |-> SubSeq(d, 3 + Len(t) + (IF Bit(h, 1) + 2 * Bit(h, 2) > 0 THEN 2 ELSE 0),
                            Len(d))]
  <2>1. <<t>> # <<>> /\ <<t>>[1] = t OBVIOUS
  <2> HIDE DEF t
  <2> QED BY <1>6, <2>1, Zenon DEF MQTTDeserialize_publish
<1> QED BY <1>4, <1>5, <1>7, <1>8, <1>9, Zenon DEF h, d

\* The header of a packet other than a message.
LEMMA Header ==
  ASSUME NEW type \in 0..15, NEW dup \in 0..1, NEW qos \in 0..1
  PROVE  /\ MQTTHeader(type, dup, qos, 0) \in Nat
         /\ MQTTHeader(type, dup, qos, 0) \div 16 = type
         /\ Bit(MQTTHeader(type, dup, qos, 0), 3) = dup
<1>1. qos \in 0..2 /\ 0 \in 0..1 OBVIOUS
<1> DEFINE h == MQTTHeader(type, dup, qos, 0)
<1>2. h = MQTTHeader(type, dup, qos, 0) OBVIOUS
<1> HIDE DEF h
<1>3. h \in Nat /\ h \div 16 = type /\ Bit(h, 3) = dup BY <1>1, <1>2, HeaderBits
<1> QED BY <1>3 DEF h

\* The first byte of an acknowledgement has its type.
LEMMA AckHeads ==
  ASSUME NEW type \in {UNSUBACK} \cup Acks
  PROVE  AckHeader(type) \in Nat /\ AckHeader(type) \div 16 = type /\ type \in 0..15
<1> DEFINE q == IF type = PUBREL THEN 1 ELSE 0
<1>1. type \in 0..15 /\ 0 \in 0..1 /\ q \in 0..1
  BY DEF Acks, UNSUBACK, PUBACK, PUBREC, PUBREL, PUBCOMP
<1>2. AckHeader(type) = MQTTHeader(type, 0, q, 0) BY DEF AckHeader
<1> HIDE DEF q
<1> QED BY <1>1, <1>2, Header

\* A packet id is read as it was written, and what follows it.
LEMMA AckWritten ==
  ASSUME NEW id \in Word
  PROVE  Announced(writeInt(id), 2)
<1>1. 2 \in 0..9 /\ 2 \in Nat OBVIOUS
<1>2. IsRemLen(2) BY <1>1, SmallLengths
<1> QED BY <1>1, <1>2, IntType DEF Announced

\* An acknowledgement is read as it was written.
LEMMA AckRead ==
  ASSUME NEW id \in Word, NEW type
  PROVE  MQTTDeserialize_ack(type, writeInt(id)) = [type |-> type, packetid |-> id]
<1> DEFINE d == writeInt(id)
<1>1. d \in Seq(Nat) /\ Len(d) = 2 BY IntType
<1>2. readInt(d) = id
  <2>1. PICK x, y \in Nat : d = <<x, y>> /\ id = 256 * x + y BY IntBytes
  <2> HIDE DEF d
  <2> QED BY <2>1 DEF readInt
<1> HIDE DEF d
<1>3. ~(Len(d) < 2) BY <1>1
<1>4. MQTTDeserialize_ack(type, d) = [type |-> type, packetid |-> id]
  BY <1>2, <1>3, Zenon DEF MQTTDeserialize_ack
<1> QED BY <1>4 DEF d

\* An id is found before the codes that follow it.
LEMMA IdParts ==
  ASSUME NEW id \in Word, NEW codes \in Seq(Nat)
  PROVE  /\ writeInt(id) \o codes \in Seq(Nat)
         /\ Len(writeInt(id) \o codes) = 2 + Len(codes)
         /\ readInt(writeInt(id) \o codes) = id
         /\ At(writeInt(id) \o codes, 3, codes, Len(writeInt(id) \o codes) + 1)
         /\ SubSeq(writeInt(id) \o codes, 3, Len(writeInt(id) \o codes)) = codes
<1> DEFINE i == writeInt(id)
           d == i \o codes
<1>1. i \in Seq(Nat) /\ Len(i) = 2 BY IntType
<1>2. d = i \o codes OBVIOUS
<1> HIDE DEF i, d
<1>3. d \in Seq(Nat) /\ Len(d) = Len(i) + Len(codes)
  <2>1. i \in Seq(Nat) BY <1>1
  <2>2. i \o codes \in Seq(Nat) /\ Len(i \o codes) = Len(i) + Len(codes) BY <2>1, ConcatFacts
  <2> QED BY <1>2, <2>2
<1>4. At(d, 1, i, 1 + Len(i)) /\ At(d, 1 + Len(i), codes, Len(d) + 1)
  BY <1>1, <1>2, TwoParts
<1>5. 1 + Len(i) = 3 BY <1>1
<1>6. At(d, 1, i, 3) /\ At(d, 3, codes, Len(d) + 1) BY <1>4, <1>5
<1>7. 256 * d[1] + d[1 + 1] = id
  <2>1. d \in Seq(Nat) BY <1>3
  <2>2. At(d, 1, writeInt(id), 3) BY <1>6 DEF i
  <2>3. \A k, j : At(d, k, writeInt(id), j) => 256 * d[k] + d[k + 1] = id
    BY <2>1, AtInt
  <2> QED BY <2>2, <2>3, Zenon
<1>8. readInt(d) = id
  <2>1. 1 + 1 = 2 OBVIOUS
  <2> QED BY <1>7, <2>1, Zenon DEF readInt
<1> DEFINE z == Len(d) + 1
<1>9. At(d, 3, codes, z) /\ z - 1 = Len(d) BY <1>3, <1>6
<1> HIDE DEF z
<1>10. SubSeq(d, 3, z - 1) = codes
  <2>1. d \in Seq(Nat) /\ At(d, 3, codes, z) BY <1>3, <1>9
  <2> QED BY <2>1, AtSubSeq
<1>11. Len(d) = 2 + Len(codes) BY <1>1, <1>3
<1> QED BY <1>3, <1>6, <1>8, <1>9, <1>10, <1>11 DEF d, i

\* A SUBACK is read as it was written, unless it has more codes than there is room for,
LEMMA SubackRead ==
  ASSUME NEW id \in Word, NEW codes \in Seq(Nat)
  PROVE  MQTTDeserialize_suback(MaxCount, writeInt(id) \o codes)
           = IF Len(codes) > MaxCount THEN Overrun
             ELSE [type |-> SUBACK, packetid |-> id, grantedQoSs |-> codes]
<1> DEFINE d == writeInt(id) \o codes
<1>1. d = writeInt(id) \o codes OBVIOUS
<1> HIDE DEF d
<1>2. /\ d \in Seq(Nat) /\ Len(d) = 2 + Len(codes) /\ readInt(d) = id
      /\ SubSeq(d, 3, Len(d)) = codes
  BY <1>1, IdParts
<1> DEFINE count  == Len(d) - 2
           stored == IF count > MaxCount THEN MaxCount + 1 ELSE count
<1>3. count = Len(codes) /\ ~(count < 0) /\ (stored > MaxCount <=> Len(codes) > MaxCount)
  <2>1. Len(codes) \in Nat OBVIOUS
  <2> DEFINE n == Len(codes)
  <2> HIDE DEF n
  <2>2. n \in Nat /\ count = n BY <1>2, <2>1 DEF n
  <2>3. ~(count < 0) /\ (stored > MaxCount <=> n > MaxCount) BY <2>2 DEF MaxCount
  <2> QED BY <2>2, <2>3 DEF n
<1>4. MQTTDeserialize_suback(MaxCount, d)
        = IF count < 0 THEN Malformed
          ELSE IF stored > MaxCount THEN Overrun
          ELSE [type |-> SUBACK, packetid |-> readInt(d), grantedQoSs |-> SubSeq(d, 3, Len(d))]
  BY Zenon DEF MQTTDeserialize_suback
<1> HIDE DEF count, stored
<1>5. MQTTDeserialize_suback(MaxCount, d)
        = IF Len(codes) > MaxCount THEN Overrun
          ELSE [type |-> SUBACK, packetid |-> id, grantedQoSs |-> codes]
  BY <1>2, <1>3, <1>4, Zenon
<1> QED BY <1>5 DEF d

\* and so is a CONNACK.
LEMMA ConnackRead ==
  ASSUME NEW sp \in 0..1, NEW rc \in 0..5
  PROVE  /\ MQTTDeserialize_connack(<<128 * sp, rc>>)
              = [type |-> CONNACK, sessionPresent |-> sp, connack_rc |-> rc]
         /\ Announced(<<128 * sp, rc>>, 2)
<1> DEFINE x == 128 * sp
           d == <<x, rc>>
<1>1. x \in Nat /\ Bit(x, 7) = sp BY SMT DEF Bit
<1> HIDE DEF x
<1>2. d \in Seq(Nat) /\ Len(d) = 2 /\ d[1] = x /\ d[2] = rc /\ ~(Len(d) < 2) BY <1>1
<1>3. 2 \in 0..9 /\ 2 \in Nat OBVIOUS
<1>4. IsRemLen(2) BY <1>3, SmallLengths
<1> HIDE DEF d
<1>5. MQTTDeserialize_connack(d) = [type |-> CONNACK, sessionPresent |-> sp, connack_rc |-> rc]
  BY <1>1, <1>2, Zenon DEF MQTTDeserialize_connack
<1>6. Announced(d, 2) BY <1>2, <1>3, <1>4 DEF Announced
<1> QED BY <1>5, <1>6 DEF d, x

\* A string that is read lies in the bytes it is read from.
LEMMA ReadString ==
  ASSUME NEW s \in Seq(Nat), NEW i \in Nat \ {0}, readMQTTLenString(s, i) # <<>>
  PROVE  \E t \in Seq(Nat) : readMQTTLenString(s, i) = <<t>> /\ i + 2 + Len(t) <= Len(s) + 1
<1>1. Len(s) \in Nat OBVIOUS
<1>2. ~(Len(s) - i < 1) BY Zenon DEF readMQTTLenString
<1> DEFINE n == readInt(SubSeq(s, i, i + 1))
           t == SubSeq(s, i + 2, i + 1 + n)
<1>3. ~(i + 1 + n > Len(s)) /\ readMQTTLenString(s, i) = <<t>>
  BY <1>2, Zenon DEF readMQTTLenString
<1>4. n \in Nat
  <2> DEFINE k == i + 1
             b == SubSeq(s, i, k)
  <2>1. /\ i \in Int /\ k \in Int /\ k - i + 1 = 2 /\ i <= k
        /\ \A j \in i..k : s[j] \in Nat
        /\ i + 1 - 1 = i /\ i + 2 - 1 = k
    BY <1>1, <1>2
  <2>2. k \in i..k /\ i \in i..k BY <2>1
  <2>3. s[i] \in Nat /\ s[k] \in Nat BY <2>1, <2>2
  <2>4. \A j \in 1..(k - i + 1) : b[j] = s[i + j - 1]
    <3> HIDE DEF k
    <3> QED BY <2>1, SubSeqProperties DEF b
  <2>5. b[1] = s[i] /\ b[2] = s[k]
    <3>1. 1 \in 1..(k - i + 1) /\ 2 \in 1..(k - i + 1) BY <2>1
    <3> HIDE DEF b, k
    <3>2. b[1] = s[i + 1 - 1] /\ b[2] = s[i + 2 - 1] BY <2>4, <3>1, Zenon
    <3>3. i + 1 - 1 = i /\ i + 2 - 1 = k BY <2>1
    <3> QED BY ONLY <3>2, <3>3, Zenon
  <2>6. n = 256 * b[1] + b[2] BY DEF readInt
  <2> HIDE DEF b, k, n
  <2>7. b[1] \in Nat /\ b[2] \in Nat BY <2>3, <2>5, Zenon
  <2> QED BY ONLY <2>6, <2>7
<1>5. t \in Seq(Nat) /\ Len(t) = n
  <2> DEFINE a == i + 2
             e == i + 1 + n
  <2> HIDE DEF n
  <2>1. a \in Int /\ e \in Int /\ e - a + 1 = n /\ e <= Len(s) /\ a >= 1 BY <1>1, <1>3, <1>4
  <2>2. t = SubSeq(s, a, e) OBVIOUS
  <2> HIDE DEF a, e, t
  <2>3. \A j \in a..e : s[j] \in Nat BY <1>1, <2>1
  <2>4. /\ SubSeq(s, a, e) \in Seq(Nat)
        /\ Len(SubSeq(s, a, e)) = IF a <= e THEN e - a + 1 ELSE 0
    BY <2>1, <2>3, SubSeqProperties
  <2>5. (IF a <= e THEN e - a + 1 ELSE 0) = n BY <1>4, <2>1
  <2> QED BY <2>2, <2>4, <2>5
<1> HIDE DEF n, t
<1>6. i + 2 + Len(t) <= Len(s) + 1 BY <1>1, <1>3, <1>4, <1>5
<1> QED BY <1>3, <1>5, <1>6

\* What the peer's loop over the strings computes, from byte i0 on.
PeerLoop(d, i0, from) ==
  \A i \in i0..(Len(d) + 1) :
    from[i] = IF i = Len(d) + 1 THEN <<>>
              ELSE LET string == readMQTTLenString(d, i) IN
                   IF string = <<>> THEN <<>>
                   ELSE string \o from[i + 2 + Len(string[1])]

\* There is such a function, and PeerStrings is its value at the first byte.
LEMMA PeerStringsLoop ==
  ASSUME NEW d \in Seq(Nat), NEW i0 \in 1..Len(d) + 1
  PROVE  \E from : PeerStrings(d, i0) = from[i0] /\ PeerLoop(d, i0, from)
<1> DEFINE hi == Len(d) + 1
           D == i0..hi
           V == Seq(Seq(Nat))
           value(i, f) == IF i = Len(d) + 1 THEN <<>>
                          ELSE LET string == readMQTTLenString(d, i) IN
                               IF string = <<>> THEN <<>>
                               ELSE string \o f[i + 2 + Len(string[1])]
           G == [i \in D |-> [f \in [D -> V] |-> value(i, f)]]
<1>1. hi \in Int /\ i0 \in Int /\ i0 \in D /\ Len(d) \in Nat OBVIOUS
<1>2. <<>> \in V OBVIOUS
<1>3. ASSUME NEW i \in D, NEW f \in [D -> V]
      PROVE  /\ value(i, f) \in V
             /\ \A g \in [D -> V] : (\A j \in (i + 1)..hi : f[j] = g[j]) => value(i, f) = value(i, g)
  <2>1. CASE i = Len(d) + 1
    <3>1. \A g : value(i, g) = <<>> BY <2>1, Zenon
    <3> QED BY <1>2, <3>1
  <2>2. CASE i # Len(d) + 1 /\ readMQTTLenString(d, i) = <<>>
    <3>1. \A g : value(i, g) = <<>> BY <2>2, Zenon
    <3> QED BY <1>2, <3>1
  <2>3. CASE i # Len(d) + 1 /\ readMQTTLenString(d, i) # <<>>
    <3>1. i \in Nat \ {0} BY <1>1
    <3>2. PICK t \in Seq(Nat) : /\ readMQTTLenString(d, i) = <<t>>
                                /\ i + 2 + Len(t) <= Len(d) + 1
      BY <2>3, <3>1, ReadString
    <3> DEFINE j == i + 2 + Len(t)
               tt == <<t>>
    <3>3. j \in D /\ j \in (i + 1)..hi BY <1>1, <3>1, <3>2
    <3>4. tt[1] = t /\ tt # <<>> /\ tt \in V OBVIOUS
    <3>5. readMQTTLenString(d, i) = tt BY <3>2
    <3> HIDE DEF tt
    <3>6. \A g : value(i, g) = tt \o g[i + 2 + Len(t)] BY <2>3, <3>4, <3>5, Zenon
    <3>7. \A g : value(i, g) = tt \o g[j] BY <3>6
    <3> HIDE DEF j, V, D, value, hi
    <3>8. f[j] \in V BY <3>3
    <3>9. tt \o f[j] \in V BY <3>4, <3>8 DEF V
    <3> QED BY <3>3, <3>7, <3>9
  <2> QED BY <2>1, <2>2, <2>3
<1> HIDE DEF value
<1>4. G \in [D -> [[D -> V] -> V]] BY <1>3
<1>5. \A i \in D : \A f, g \in [D -> V] :
        (\A j \in (i + 1)..hi : f[j] = g[j]) => G[i][f] = G[i][g]
  <2> HIDE DEF hi, D, V
  <2> QED BY <1>3
<1>6. \A i \in D : \A f \in [D -> V] : G[i][f] = value(i, f) OBVIOUS
<1> HIDE DEF G, V, hi
<1>7. Backward(i0, hi, V, G) BY <1>4, <1>5, Zenon DEF Backward
<1>8. PICK e \in [D -> V] : \A i \in D : e[i] = value(i, e)
  <2>1. PICK e \in [D -> V] : Solves(i0, hi, G, e) BY <1>1, <1>2, <1>7, Recursion
  <2>2. \A i \in D : e[i] = G[i][e] BY <2>1, Zenon DEF Solves
  <2> QED BY <1>6, <2>2
<1> HIDE DEF D
<1>9. e = [i \in D |-> value(i, e)] BY <1>8
<1> DEFINE from == CHOOSE from : from = [i \in D |-> value(i, from)]
<1>10. from = [i \in D |-> value(i, from)] BY <1>9, Zenon
<1>11. PeerStrings(d, i0) = from[i0] BY Zenon DEF PeerStrings, D, value, hi
<1> HIDE DEF from
<1>12. \A i \in D : from[i] = value(i, from) BY <1>10
<1>13. PeerLoop(d, i0, from) BY <1>12, Zenon DEF PeerLoop, D, value, hi
<1> QED BY <1>11, <1>13

\* One list of elements of R, or none.
Lists1(R) == {<<>>} \cup {<<l>> : l \in Seq(R)}

\* What the server's loop over the filters of an UNSUBSCRIBE computes.
FiltersLoop(d, from) ==
  \A i \in 3..(Len(d) + 1) :
    from[i] = IF i > Len(d) THEN << <<>> >>
              ELSE LET filter == readMQTTLenString(d, i)
                       next == i + 2 + Len(filter[1])
                   IN IF filter = <<>> \/ from[next] = <<>> THEN <<>>
                      ELSE << filter \o from[next][1] >>

\* There is such a function, and TopicFilters is its value at the third byte.
LEMMA TopicFiltersLoop ==
  ASSUME NEW d \in Seq(Nat), Len(d) >= 2
  PROVE  \E from : TopicFilters(d) = from[3] /\ FiltersLoop(d, from)
<1> DEFINE hi == Len(d) + 1
           D == 3..hi
           V == Lists1(Seq(Nat))
           value(i, f) ==
             IF i > Len(d) THEN << <<>> >>
             ELSE LET filter == readMQTTLenString(d, i)
                      next == i + 2 + Len(filter[1])
                  IN IF filter = <<>> \/ f[next] = <<>> THEN <<>>
                     ELSE << filter \o f[next][1] >>
           G == [i \in D |-> [f \in [D -> V] |-> value(i, f)]]
<1>1. hi \in Int /\ 3 \in Int /\ 3 \in D /\ Len(d) \in Nat OBVIOUS
<1>2. <<>> \in V /\ << <<>> >> \in V
  <2> DEFINE none == <<>>
  <2>1. none \in Seq(Seq(Nat)) OBVIOUS
  <2> HIDE DEF none
  <2>2. <<none>> \in V BY <2>1 DEF Lists1
  <2>3. <<>> \in V BY DEF Lists1
  <2> QED BY <2>2, <2>3 DEF none
<1>3. ASSUME NEW i \in D, NEW f \in [D -> V]
      PROVE  /\ value(i, f) \in V
             /\ \A g \in [D -> V] : (\A j \in (i + 1)..hi : f[j] = g[j]) => value(i, f) = value(i, g)
  <2>1. CASE i > Len(d)
    <3>1. \A g : value(i, g) = << <<>> >> BY <2>1, Zenon
    <3> QED BY <1>2, <3>1
  <2>2. CASE ~(i > Len(d)) /\ readMQTTLenString(d, i) = <<>>
    <3>1. \A g : value(i, g) = <<>> BY <2>2, Zenon
    <3> QED BY <1>2, <3>1
  <2>3. CASE ~(i > Len(d)) /\ readMQTTLenString(d, i) # <<>>
    <3>1. i \in Nat \ {0} BY <1>1
    <3>2. PICK t \in Seq(Nat) : /\ readMQTTLenString(d, i) = <<t>>
                                /\ i + 2 + Len(t) <= Len(d) + 1
      BY <2>3, <3>1, ReadString
    <3> DEFINE tt == <<t>>
               k == i + 2 + Len(t)
               j == k
    <3>3. Len(t) \in Nat OBVIOUS
    <3>4. tt[1] = t /\ tt # <<>> /\ tt \in Seq(Seq(Nat)) OBVIOUS
    <3>5. readMQTTLenString(d, i) = tt BY <3>2
    <3> HIDE DEF tt
    <3>6. \A g : value(i, g) = IF g[i + 2 + Len(t)] = <<>> THEN <<>>
                               ELSE << tt \o g[i + 2 + Len(t)][1] >>
      BY <2>3, <3>4, <3>5, Zenon
    <3>7. \A g : value(i, g) = IF g[j] = <<>> THEN <<>> ELSE << tt \o g[j][1] >>
      BY <3>6
    <3>8. j \in D /\ j \in (i + 1)..hi BY <1>1, <3>1, <3>2, <3>3
    <3> HIDE DEF j, V, D, value, hi
    <3>9. f[j] \in V BY <3>8
    <3>10. value(i, f) \in V
      <4>1. CASE f[j] = <<>> BY <1>2, <3>7, <4>1
      <4>2. ASSUME NEW l \in Seq(Seq(Nat)), f[j] = <<l>> PROVE value(i, f) \in V
        <5>1. f[j] # <<>> /\ f[j][1] = l BY <4>2
        <5>2. value(i, f) = <<tt \o l>> BY <3>7, <5>1
        <5>3. tt \o l \in Seq(Seq(Nat)) BY <3>4
        <5> QED BY <5>2, <5>3 DEF V, Lists1
      <4> QED BY <3>9, <4>1, <4>2 DEF V, Lists1
    <3> QED BY <3>7, <3>8, <3>10
  <2> QED BY <2>1, <2>2, <2>3
<1> HIDE DEF value
<1>4. G \in [D -> [[D -> V] -> V]] BY <1>3
<1>5. \A i \in D : \A f, g \in [D -> V] :
        (\A j \in (i + 1)..hi : f[j] = g[j]) => G[i][f] = G[i][g]
  <2> HIDE DEF hi, D, V
  <2> QED BY <1>3
<1>6. \A i \in D : \A f \in [D -> V] : G[i][f] = value(i, f) OBVIOUS
<1> HIDE DEF G, V, hi
<1>7. Backward(3, hi, V, G) BY <1>4, <1>5, Zenon DEF Backward
<1>8. PICK e \in [D -> V] : \A i \in D : e[i] = value(i, e)
  <2>1. PICK e \in [D -> V] : Solves(3, hi, G, e) BY <1>1, <1>2, <1>7, Recursion
  <2>2. \A i \in D : e[i] = G[i][e] BY <2>1, Zenon DEF Solves
  <2> QED BY <1>6, <2>2
<1> HIDE DEF D
<1>9. e = [i \in D |-> value(i, e)] BY <1>8
<1> DEFINE from == CHOOSE from : from = [i \in D |-> value(i, from)]
<1>10. from = [i \in D |-> value(i, from)] BY <1>9, Zenon
<1>11. TopicFilters(d) = from[3] BY Zenon DEF TopicFilters, D, value, hi
<1> HIDE DEF from
<1>12. \A i \in D : from[i] = value(i, from) BY <1>10
<1>13. FiltersLoop(d, from) BY <1>12, Zenon DEF FiltersLoop, D, value, hi
<1> QED BY <1>11, <1>13

\* What the server's loop over the requests of a SUBSCRIBE computes.
RequestsLoop(d, from) ==
  \A i \in 3..(Len(d) + 1) :
    from[i] = IF i > Len(d) THEN << <<>> >>
              ELSE LET filter == readMQTTLenString(d, i)
                       at     == i + 2 + Len(filter[1])
                   IN IF filter = <<>> \/ at > Len(d) \/ from[at + 1] = <<>> THEN <<>>
                      ELSE << <<[topicFilter |-> filter[1], requestedQoS |-> d[at]]>>
                                \o from[at + 1][1] >>

\* There is such a function, and Requests is its value at the third byte.
LEMMA RequestsAreRead ==
  ASSUME NEW d \in Seq(Nat), Len(d) >= 2
  PROVE  \E from : Requests(d) = from[3] /\ RequestsLoop(d, from)
<1> DEFINE hi == Len(d) + 1
           D == 3..hi
           V == Lists1([topicFilter : Seq(Nat), requestedQoS : Nat])
           value(i, f) ==
             IF i > Len(d) THEN << <<>> >>
             ELSE LET filter == readMQTTLenString(d, i)
                      at     == i + 2 + Len(filter[1])
                  IN IF filter = <<>> \/ at > Len(d) \/ f[at + 1] = <<>> THEN <<>>
                     ELSE << <<[topicFilter |-> filter[1], requestedQoS |-> d[at]]>>
                               \o f[at + 1][1] >>
           G == [i \in D |-> [f \in [D -> V] |-> value(i, f)]]
<1>1. hi \in Int /\ 3 \in Int /\ 3 \in D /\ Len(d) \in Nat OBVIOUS
<1>2. <<>> \in V /\ << <<>> >> \in V
  <2> DEFINE none == <<>>
  <2>1. none \in Seq([topicFilter : Seq(Nat), requestedQoS : Nat]) OBVIOUS
  <2> HIDE DEF none
  <2>2. <<none>> \in V BY <2>1 DEF Lists1
  <2>3. <<>> \in V BY DEF Lists1
  <2> QED BY <2>2, <2>3 DEF none
<1>3. ASSUME NEW i \in D, NEW f \in [D -> V]
      PROVE  /\ value(i, f) \in V
             /\ \A g \in [D -> V] : (\A j \in (i + 1)..hi : f[j] = g[j]) => value(i, f) = value(i, g)
  <2>1. CASE i > Len(d)
    <3>1. \A g : value(i, g) = << <<>> >> BY <2>1, Zenon
    <3> QED BY <1>2, <3>1
  <2>2. CASE ~(i > Len(d)) /\ readMQTTLenString(d, i) = <<>>
    <3>1. \A g : value(i, g) = <<>> BY <2>2, Zenon
    <3> QED BY <1>2, <3>1
  <2>3. CASE ~(i > Len(d)) /\ readMQTTLenString(d, i) # <<>>
    <3>1. i \in Nat \ {0} BY <1>1
    <3>2. PICK t \in Seq(Nat) : /\ readMQTTLenString(d, i) = <<t>>
                                /\ i + 2 + Len(t) <= Len(d) + 1
      BY <2>3, <3>1, ReadString
    <3> DEFINE tt == <<t>>
               k == i + 2 + Len(t)
               j == k + 1
    <3>3. Len(t) \in Nat OBVIOUS
    <3>4. tt[1] = t /\ tt # <<>> /\ tt \in Seq(Seq(Nat)) OBVIOUS
    <3>5. readMQTTLenString(d, i) = tt BY <3>2
    <3> HIDE DEF tt
    <3>6. \A g : value(i, g) =
                 IF i + 2 + Len(t) > Len(d) \/ g[i + 2 + Len(t) + 1] = <<>> THEN <<>>
                 ELSE << <<[topicFilter |-> t, requestedQoS |-> d[i + 2 + Len(t)]]>>
                           \o g[i + 2 + Len(t) + 1][1] >>
      BY <2>3, <3>4, <3>5, Zenon
    <3> DEFINE r == <<[topicFilter |-> t, requestedQoS |-> d[k]]>>
    <3>7. \A g : value(i, g) = IF k > Len(d) \/ g[j] = <<>> THEN <<>> ELSE << r \o g[j][1] >>
      BY <3>6
    <3>8. CASE k > Len(d)
      <4> HIDE DEF k, value
      <4>1. \A g : value(i, g) = <<>> BY <3>7, <3>8
      <4> QED BY <1>2, <4>1
    <3>9. CASE ~(k > Len(d))
      <4>1. j \in D /\ j \in (i + 1)..hi BY <1>1, <3>1, <3>2, <3>3, <3>9
      <4>2. k \in 1..Len(d) BY <1>1, <3>1, <3>3, <3>9
      <4>3. r \in Seq([topicFilter : Seq(Nat), requestedQoS : Nat])
        <5> HIDE DEF k
        <5>1. d[k] \in Nat BY <4>2
        <5> QED BY <5>1
      <4> HIDE DEF j, k, V, D, value, hi, r
      <4>4. \A g : value(i, g) = IF g[j] = <<>> THEN <<>> ELSE << r \o g[j][1] >>
        BY <3>7, <3>9
      <4>5. f[j] \in V BY <4>1
      <4>6. value(i, f) \in V
        <5>1. CASE f[j] = <<>> BY <1>2, <4>4, <5>1
        <5>2. ASSUME NEW l \in Seq([topicFilter : Seq(Nat), requestedQoS : Nat]), f[j] = <<l>>
              PROVE  value(i, f) \in V
          <6>1. f[j] # <<>> /\ f[j][1] = l BY <5>2
          <6>2. value(i, f) = <<r \o l>> BY <4>4, <6>1
          <6>3. r \o l \in Seq([topicFilter : Seq(Nat), requestedQoS : Nat]) BY <4>3
          <6> QED BY <6>2, <6>3 DEF V, Lists1
        <5> QED BY <4>5, <5>1, <5>2 DEF V, Lists1
      <4> QED BY <4>1, <4>4, <4>6
    <3> QED BY <3>8, <3>9
  <2> QED BY <2>1, <2>2, <2>3
<1> HIDE DEF value
<1>4. G \in [D -> [[D -> V] -> V]] BY <1>3
<1>5. \A i \in D : \A f, g \in [D -> V] :
        (\A j \in (i + 1)..hi : f[j] = g[j]) => G[i][f] = G[i][g]
  <2> HIDE DEF hi, D, V
  <2> QED BY <1>3
<1>6. \A i \in D : \A f \in [D -> V] : G[i][f] = value(i, f) OBVIOUS
<1> HIDE DEF G, V, hi
<1>7. Backward(3, hi, V, G) BY <1>4, <1>5, Zenon DEF Backward
<1>8. PICK e \in [D -> V] : \A i \in D : e[i] = value(i, e)
  <2>1. PICK e \in [D -> V] : Solves(3, hi, G, e) BY <1>1, <1>2, <1>7, Recursion
  <2>2. \A i \in D : e[i] = G[i][e] BY <2>1, Zenon DEF Solves
  <2> QED BY <1>6, <2>2
<1> HIDE DEF D
<1>9. e = [i \in D |-> value(i, e)] BY <1>8
<1> DEFINE from == CHOOSE from : from = [i \in D |-> value(i, from)]
<1>10. from = [i \in D |-> value(i, from)] BY <1>9, Zenon
<1>11. Requests(d) = from[3] BY Zenon DEF Requests, D, value, hi
<1> HIDE DEF from
<1>12. \A i \in D : from[i] = value(i, from) BY <1>10
<1>13. RequestsLoop(d, from) BY <1>12, Zenon DEF RequestsLoop, D, value, hi
<1> QED BY <1>11, <1>13

\* A sequence of one.
One(x) == <<x>>

\* It has one element, and the empty sequence behind it changes nothing.
LEMMA OneFacts ==
  ASSUME NEW x
  PROVE  /\ Len(One(x)) = 1 /\ One(x)[1] = x /\ One(x) # <<>> /\ One(x) \o <<>> = One(x)
         /\ \A S : x \in S => One(x) \in Seq(S)
<1>1. Len(One(x)) = 1 /\ One(x)[1] = x /\ One(x) # <<>> BY DEF One
<1>2. \A S : x \in S => One(x) \in Seq(S) BY DEF One
<1>3. One(x) \o <<>> = One(x)
  <2>1. x \in {x} OBVIOUS
  <2>2. One(x) \in Seq({x}) BY <1>2, <2>1
  <2> QED BY <2>2
<1> QED BY <1>1, <1>2, <1>3

\* Two of them make a pair.
LEMMA OneAndOne ==
  ASSUME NEW x, NEW y
  PROVE  One(x) \o One(y) = <<x, y>>
<1> DEFINE S == {x, y}
           s == One(x) \o One(y)
           t == <<x, y>>
<1>1. s \in Seq(S) /\ Len(s) = 2 BY DEF One
<1>2. t \in Seq(S) /\ Len(t) = 2 /\ t[1] = x /\ t[2] = y OBVIOUS
<1>3. s[1] = x /\ s[2] = y
  <2>1. s[1] = x BY DEF One
  <2>2. s[2] = y BY DEF One
  <2> QED BY <2>1, <2>2
<1> HIDE DEF s, t
<1>4. \A i \in 1..Len(s) : s[i] = t[i]
  <2>1. \A i \in 1..2 : i = 1 \/ i = 2 BY SMT
  <2> QED BY <1>1, <1>2, <1>3, <2>1
<1>5. s = t BY <1>1, <1>2, <1>4, SeqEqual
<1> QED BY <1>5 DEF s, t

\* One turn of each loop.
LEMMA FilterStep ==
  ASSUME NEW d \in Seq(Nat), NEW from, FiltersLoop(d, from), NEW x \in Seq(Nat), Len(x) \in Word,
         NEW i, i >= 3, NEW j, At(d, i, writeMQTTString(x), j), NEW l, from[j] = One(l)
  PROVE  from[i] = One(One(x) \o l)
<1>1. /\ readMQTTLenString(d, i) = <<x>> /\ j = i + 2 + Len(x) /\ i \in Nat \ {0}
      /\ j <= Len(d) + 1
  BY AtString
<1>2. Len(x) \in Nat /\ Len(d) \in Nat OBVIOUS
<1>3. i \in 3..(Len(d) + 1) /\ ~(i > Len(d)) BY <1>1, <1>2
<1> DEFINE f == <<x>>
           m == <<l>>
<1>4. f # <<>> /\ f[1] = x /\ m # <<>> /\ m[1] = l OBVIOUS
<1>5. readMQTTLenString(d, i) = f /\ from[i + 2 + Len(x)] = m BY <1>1 DEF One
<1> HIDE DEF f, m
<1>6. from[i] = << f \o m[1] >> BY <1>3, <1>4, <1>5, Zenon DEF FiltersLoop
<1> QED BY <1>4, <1>6 DEF f, One

\* One filter with its QoS is read, and the loop goes on behind it.
LEMMA RequestStep ==
  ASSUME NEW d \in Seq(Nat), NEW from, RequestsLoop(d, from), NEW r \in Requested,
         NEW i, i >= 3, NEW j, At(d, i, Request(r), j), NEW l, from[j] = One(l)
  PROVE  from[i] = One(One([topicFilter |-> r.topicFilter, requestedQoS |-> r.requestedQoS]) \o l)
<1> DEFINE x == r.topicFilter
           s == writeMQTTString(x)
           b == <<r.requestedQoS>>
           k == i + Len(s)
<1>1. r.topicFilter \in Strings /\ r.requestedQoS \in 0..2 BY DEF Requested
<1>2. x \in Seq(Nat) /\ Len(x) \in Word /\ Len(x) \in Nat BY <1>1, StringsType
<1>3. s \in Seq(Nat) /\ b \in Seq(Nat) BY <1>1, <1>2, StringType
<1>4. At(d, i, s, k) /\ At(d, k, b, j)
  <2>1. At(d, i, s \o b, j) BY DEF Request
  <2> HIDE DEF s, b
  <2> QED BY <1>3, <2>1, AtConcat
<1>5. /\ readMQTTLenString(d, i) = <<x>> /\ k = i + 2 + Len(x) /\ i \in Nat \ {0}
      /\ k <= Len(d) + 1
  <2> HIDE DEF x, k
  <2> QED BY <1>2, <1>4, AtString
<1>6. d[k] = r.requestedQoS /\ j = k + 1 /\ j <= Len(d) + 1
  <2> DEFINE q == r.requestedQoS
  <2>1. q \in Nat /\ At(d, k, <<q>>, j) BY <1>1, <1>4
  <2> HIDE DEF k, q
  <2>2. d[k] = q /\ j = k + 1 BY <2>1, AtByte
  <2>3. j <= Len(d) + 1 BY <1>4 DEF At
  <2> QED BY <2>2, <2>3 DEF q
<1>7. Len(x) \in Nat /\ Len(d) \in Nat BY <1>2
<1> HIDE DEF k, s
<1>8. i \in 3..(Len(d) + 1) /\ ~(i > Len(d)) /\ ~(k > Len(d))
  <2> DEFINE n == Len(d)
             y == Len(x)
  <2>1. n \in Nat /\ y \in Nat /\ i \in Nat /\ k = i + 2 + y /\ j = k + 1 /\ j <= n + 1
    BY <1>5, <1>6, <1>7
  <2> HIDE DEF n, y
  <2>2. i \in 3..(n + 1) /\ ~(i > n) /\ ~(k > n) BY <2>1
  <2> QED BY <2>2 DEF n
<1> DEFINE f == <<x>>
           m == <<l>>
<1>9. f # <<>> /\ f[1] = x /\ m # <<>> /\ m[1] = l OBVIOUS
<1>10. readMQTTLenString(d, i) = f /\ i + 2 + Len(x) = k /\ from[k + 1] = m BY <1>5, <1>6 DEF One
<1> HIDE DEF f, m, x
<1>11. from[i] = << <<[topicFilter |-> x, requestedQoS |-> d[k]]>> \o m[1] >>
  BY <1>8, <1>9, <1>10, Zenon DEF RequestsLoop
<1> QED BY <1>6, <1>9, <1>11 DEF x, One

\* One string is read, and the loop goes on behind it.
LEMMA PeerStep ==
  ASSUME NEW d \in Seq(Nat), NEW i0 \in Nat, NEW from, PeerLoop(d, i0, from),
         NEW x \in Seq(Nat), Len(x) \in Word,
         NEW i \in Nat, i >= i0, NEW j \in Nat, At(d, i, writeMQTTString(x), j)
  PROVE  from[i] = One(x) \o from[j]
<1>1. /\ readMQTTLenString(d, i) = <<x>> /\ j = i + 2 + Len(x) /\ i \in Nat \ {0}
      /\ j <= Len(d) + 1
  BY AtString
<1>2. Len(x) \in Nat /\ Len(d) \in Nat OBVIOUS
<1>3. i \in i0..(Len(d) + 1) /\ i # Len(d) + 1 BY <1>1, <1>2
<1> DEFINE f == <<x>>
<1>4. f # <<>> /\ f[1] = x OBVIOUS
<1>5. readMQTTLenString(d, i) = f BY <1>1
<1> HIDE DEF f
<1>6. from[i] = f \o from[i + 2 + Len(x)] BY <1>3, <1>4, <1>5, Zenon DEF PeerLoop
<1> QED BY <1>1, <1>6 DEF f, One

\* The end of each loop.
LEMMA LoopEnds ==
  ASSUME NEW d \in Seq(Nat), Len(d) >= 2, NEW from
  PROVE  /\ FiltersLoop(d, from) => from[Len(d) + 1] = One(<<>>)
         /\ RequestsLoop(d, from) => from[Len(d) + 1] = One(<<>>)
         /\ \A i0 \in Nat : i0 <= Len(d) + 1 /\ PeerLoop(d, i0, from) => from[Len(d) + 1] = <<>>
<1> DEFINE e == Len(d) + 1
<1>1. e \in 3..e /\ e > Len(d) /\ \A i0 \in Nat : i0 <= e => e \in i0..e OBVIOUS
<1>2. FiltersLoop(d, from) => from[e] = One(<<>>) BY <1>1, Zenon DEF FiltersLoop, One
<1>3. RequestsLoop(d, from) => from[e] = One(<<>>) BY <1>1, Zenon DEF RequestsLoop, One
<1>4. \A i0 \in Nat : i0 <= e /\ PeerLoop(d, i0, from) => from[e] = <<>>
  BY <1>1, Zenon DEF PeerLoop
<1> QED BY <1>2, <1>3, <1>4

\* The server reads the filters of an UNSUBSCRIBE as they were written.
LEMMA FiltersRead ==
  ASSUME NEW d \in Seq(Nat), Len(d) >= 2, NEW q \in Lists(Strings), NEW t \in Seq(Nat),
         At(d, 3, t, Len(d) + 1),
         \A x \in Strings : q = <<x>> => t = writeMQTTString(x),
         \A x, y \in Strings : q = <<x, y>> => t = writeMQTTString(x) \o writeMQTTString(y)
  PROVE  TopicFilters(d) = <<q>>
<1>1. PICK from : TopicFilters(d) = from[3] /\ FiltersLoop(d, from) BY TopicFiltersLoop
<1> DEFINE e == Len(d) + 1
           none == <<>>
<1>2. from[e] = One(none) BY <1>1, LoopEnds
<1>3. At(d, 3, t, e) OBVIOUS
<1> HIDE DEF e
<1> DEFINE I == {i \in Nat : i >= 3}
<1>4. \A x \in Strings : \A i, j, l : i \in I /\ At(d, i, writeMQTTString(x), j)
         /\ from[j] = One(l) => from[i] = One(One(x) \o l)
  <2> TAKE x \in Strings
  <2> TAKE i, j, l
  <2>1. x \in Seq(Nat) /\ Len(x) \in Word BY StringsType
  <2>2. HAVE i \in I /\ At(d, i, writeMQTTString(x), j) /\ from[j] = One(l)
  <2>3. /\ FiltersLoop(d, from) /\ x \in Seq(Nat) /\ Len(x) \in Word /\ i >= 3
        /\ At(d, i, writeMQTTString(x), j) /\ from[j] = One(l)
    BY <1>1, <2>1, <2>2
  <2> QED BY <2>3, FilterStep
<1>5. 3 \in I OBVIOUS
<1>6. ASSUME NEW x \in Strings, q = <<x>> PROVE from[3] = <<q>>
  <2> HIDE DEF I, none
  <2>1. At(d, 3, writeMQTTString(x), e) BY <1>3, <1>6
  <2>2. from[3] = One(One(x) \o none) BY <1>2, <1>4, <1>5, <2>1
  <2>3. One(x) \o none = One(x) BY OneFacts, Zenon DEF none
  <2> QED BY <1>6, <2>2, <2>3 DEF One
<1>7. ASSUME NEW x \in Strings, NEW y \in Strings, q = <<x, y>> PROVE from[3] = <<q>>
  <2> DEFINE s == writeMQTTString(x)
             u == writeMQTTString(y)
             j == 3 + Len(s)
  <2>1. x \in Seq(Nat) /\ Len(x) \in Word /\ y \in Seq(Nat) /\ Len(y) \in Word BY StringsType
  <2>2. s \in Seq(Nat) /\ u \in Seq(Nat) BY <2>1, StringType
  <2>3. At(d, 3, s \o u, e) BY <1>3, <1>7
  <2>4. At(d, 3, s, j) /\ At(d, j, u, e)
    <3> HIDE DEF s, u
    <3> QED BY <2>2, <2>3, AtConcat
  <2>5. j \in I
    <3>1. Len(s) \in Nat BY <2>2
    <3> QED BY <3>1
  <2>6. One(y) \o none = One(y) BY OneFacts, Zenon
  <2>10. One(x) \o One(y) = <<x, y>> BY OneAndOne, Zenon
  <2> HIDE DEF j, I, none
  <2>7. from[j] = One(One(y) \o none) BY <1>2, <1>4, <2>4, <2>5
  <2>8. from[j] = One(One(y)) BY <2>6, <2>7
  <2>9. from[3] = One(One(x) \o One(y)) BY <1>4, <1>5, <2>4, <2>8
  <2> QED BY <1>7, <2>10, <2>9 DEF One
<1> QED BY <1>1, <1>6, <1>7, ListCases

\* The server reads an UNSUBSCRIBE as it was written,
LEMMA UnsubscribeRead ==
  ASSUME NEW p \in Unsubscribes
  PROVE  MQTTDeserialize_unsubscribe(MQTTHeader(UNSUBSCRIBE, p.dup, 1, 0), unsubscribeBody(p)) = p
<1> DEFINE h == MQTTHeader(UNSUBSCRIBE, p.dup, 1, 0)
           d == unsubscribeBody(p)
           id == p.packetid
           q == p.topicFilters
<1>1. id \in Word /\ q \in Lists(Strings) /\ p.dup \in 0..1 BY CodecAssumption DEF Unsubscribes
<1>2. p = [type |-> UNSUBSCRIBE, dup |-> p.dup, packetid |-> id, topicFilters |-> q]
  BY DEF Unsubscribes
<1>3. Bit(h, 3) = p.dup
  <2>1. UNSUBSCRIBE \in 0..15 /\ 1 \in 0..1 BY DEF UNSUBSCRIBE
  <2> QED BY <1>1, <2>1, Header
<1>4. /\ \A x \in Strings : q = <<x>> => d = writeInt(id) \o writeMQTTString(x)
      /\ \A x, y \in Strings : q = <<x, y>> =>
           d = writeInt(id) \o (writeMQTTString(x) \o writeMQTTString(y))
  BY UnsubscribeOne, UnsubscribeTwo
<1> HIDE DEF h, d, id, q
<1>5. ASSUME NEW t \in Seq(Nat), d = writeInt(id) \o t,
             \A x \in Strings : q = <<x>> => t = writeMQTTString(x),
             \A x, y \in Strings : q = <<x, y>> => t = writeMQTTString(x) \o writeMQTTString(y)
      PROVE  TopicFilters(d) = <<q>> /\ readInt(d) = id
  <2>1. d \in Seq(Nat) /\ readInt(d) = id /\ Len(d) = 2 + Len(t) /\ At(d, 3, t, Len(d) + 1)
    BY <1>1, <1>5, IdParts
  <2>2. Len(d) >= 2
    <3>1. Len(t) \in Nat OBVIOUS
    <3> QED BY <2>1, <3>1
  <2>3. TopicFilters(d) = <<q>> BY <1>1, <1>5, <2>1, <2>2, FiltersRead
  <2> QED BY <2>1, <2>3
<1>6. TopicFilters(d) = <<q>> /\ readInt(d) = id
  <2>1. ASSUME NEW x \in Strings, q = <<x>> PROVE TopicFilters(d) = <<q>> /\ readInt(d) = id
    <3> DEFINE t == writeMQTTString(x)
    <3>1. x \in Seq(Nat) /\ Len(x) \in Word BY StringsType
    <3>2. t \in Seq(Nat) /\ d = writeInt(id) \o t BY <1>4, <2>1, <3>1, StringType
    <3>3. \A y \in Strings : q = <<y>> => t = writeMQTTString(y) BY <2>1
    <3>4. \A y, z \in Strings : q # <<y, z>> BY <2>1
    <3> HIDE DEF t
    <3> QED BY <1>5, <3>2, <3>3, <3>4
  <2>2. ASSUME NEW x \in Strings, NEW y \in Strings, q = <<x, y>>
        PROVE  TopicFilters(d) = <<q>> /\ readInt(d) = id
    <3> DEFINE t == writeMQTTString(x) \o writeMQTTString(y)
    <3>1. x \in Seq(Nat) /\ Len(x) \in Word /\ y \in Seq(Nat) /\ Len(y) \in Word
      BY StringsType
    <3>2. t \in Seq(Nat)
      <4>1. writeMQTTString(x) \in Seq(Nat) /\ writeMQTTString(y) \in Seq(Nat)
        BY <3>1, StringType
      <4> QED BY <4>1, ConcatFacts
    <3>3. d = writeInt(id) \o t BY <1>4, <2>2
    <3>4. \A z \in Strings : q # <<z>> BY <2>2
    <3>5. \A w, z \in Strings : q = <<w, z>> => t = writeMQTTString(w) \o writeMQTTString(z)
      BY <2>2
    <3> HIDE DEF t
    <3> QED BY <1>5, <3>2, <3>3, <3>4, <3>5
  <2> QED BY <1>1, <2>1, <2>2, ListCases
<1>7. <<q>> # <<>> /\ <<q>>[1] = q OBVIOUS
<1>8. MQTTDeserialize_unsubscribe(h, d) =
        [type |-> UNSUBSCRIBE, dup |-> Bit(h, 3), packetid |-> readInt(d), topicFilters |-> q]
  BY <1>6, <1>7, Zenon DEF MQTTDeserialize_unsubscribe
<1> QED BY <1>2, <1>3, <1>6, <1>8, Zenon DEF h, d

\* The server reads the requests of a SUBSCRIBE as they were written.
LEMMA RequestsReadBack ==
  ASSUME NEW d \in Seq(Nat), Len(d) >= 2, NEW q \in Lists(Requested), NEW t \in Seq(Nat),
         At(d, 3, t, Len(d) + 1),
         \A x \in Requested : q = <<x>> => t = Request(x),
         \A x, y \in Requested : q = <<x, y>> => t = Request(x) \o Request(y)
  PROVE  Requests(d) = <<q>>
<1>1. PICK from : Requests(d) = from[3] /\ RequestsLoop(d, from) BY RequestsAreRead
<1> DEFINE e == Len(d) + 1
           none == <<>>
<1>2. from[e] = One(none) BY <1>1, LoopEnds
<1>3. At(d, 3, t, e) OBVIOUS
<1> HIDE DEF e
<1> DEFINE I == {i \in Nat : i >= 3}
<1>4. \A x \in Requested : \A i, j, l : i \in I /\ At(d, i, Request(x), j)
         /\ from[j] = One(l) => from[i] = One(One(x) \o l)
  <2> TAKE x \in Requested
  <2> TAKE i, j, l
  <2>1. /\ Request(x) \in Seq(Nat)
        /\ One([topicFilter |-> x.topicFilter, requestedQoS |-> x.requestedQoS]) = One(x)
    BY RequestType DEF Requested
  <2>2. HAVE i \in I /\ At(d, i, Request(x), j) /\ from[j] = One(l)
  <2>3. /\ RequestsLoop(d, from) /\ i >= 3
        /\ At(d, i, Request(x), j) /\ from[j] = One(l)
    BY <1>1, <2>1, <2>2
  <2>4. from[i] = One(One([topicFilter |-> x.topicFilter, requestedQoS |-> x.requestedQoS]) \o l)
    BY <2>3, RequestStep
  <2> QED BY <2>1, <2>4
<1>5. 3 \in I OBVIOUS
<1>6. ASSUME NEW x \in Requested, q = <<x>> PROVE from[3] = <<q>>
  <2> HIDE DEF I, none
  <2>1. At(d, 3, Request(x), e) BY <1>3, <1>6
  <2>2. from[3] = One(One(x) \o none) BY <1>2, <1>4, <1>5, <2>1
  <2>3. One(x) \o none = One(x) BY OneFacts, Zenon DEF none
  <2> QED BY <1>6, <2>2, <2>3 DEF One
<1>7. ASSUME NEW x \in Requested, NEW y \in Requested, q = <<x, y>> PROVE from[3] = <<q>>
  <2> DEFINE s == Request(x)
             u == Request(y)
             j == 3 + Len(s)
  <2>1. Request(x) \in Seq(Nat) /\ Request(y) \in Seq(Nat) BY RequestType
  <2>2. s \in Seq(Nat) /\ u \in Seq(Nat) BY <2>1, RequestType
  <2>3. At(d, 3, s \o u, e) BY <1>3, <1>7
  <2>4. At(d, 3, s, j) /\ At(d, j, u, e)
    <3> HIDE DEF s, u
    <3> QED BY <2>2, <2>3, AtConcat
  <2>5. j \in I
    <3>1. Len(s) \in Nat BY <2>2
    <3> QED BY <3>1
  <2>6. One(y) \o none = One(y) BY OneFacts, Zenon
  <2>10. One(x) \o One(y) = <<x, y>> BY OneAndOne, Zenon
  <2> HIDE DEF j, I, none
  <2>7. from[j] = One(One(y) \o none) BY <1>2, <1>4, <2>4, <2>5
  <2>8. from[j] = One(One(y)) BY <2>6, <2>7
  <2>9. from[3] = One(One(x) \o One(y)) BY <1>4, <1>5, <2>4, <2>8
  <2> QED BY <1>7, <2>10, <2>9 DEF One
<1> QED BY <1>1, <1>6, <1>7, ListCases

\* and a SUBSCRIBE.
LEMMA SubscribeRead ==
  ASSUME NEW p \in Subscribes
  PROVE  MQTTDeserialize_subscribe(MQTTHeader(SUBSCRIBE, p.dup, 1, 0), subscribeBody(p)) = p
<1> DEFINE h == MQTTHeader(SUBSCRIBE, p.dup, 1, 0)
           d == subscribeBody(p)
           id == p.packetid
           q == p.requests
<1>1. id \in Word /\ q \in Lists(Requested) /\ p.dup \in 0..1 BY CodecAssumption DEF Subscribes
<1>2. p = [type |-> SUBSCRIBE, dup |-> p.dup, packetid |-> id, requests |-> q]
  BY DEF Subscribes
<1>3. Bit(h, 3) = p.dup
  <2>1. SUBSCRIBE \in 0..15 /\ 1 \in 0..1 BY DEF SUBSCRIBE
  <2> QED BY <1>1, <2>1, Header
<1>4. /\ \A x \in Requested : q = <<x>> => d = writeInt(id) \o Request(x)
      /\ \A x, y \in Requested : q = <<x, y>> =>
           d = writeInt(id) \o (Request(x) \o Request(y))
  BY SubscribeOne, SubscribeTwo
<1> HIDE DEF h, d, id, q
<1>5. ASSUME NEW t \in Seq(Nat), d = writeInt(id) \o t,
             \A x \in Requested : q = <<x>> => t = Request(x),
             \A x, y \in Requested : q = <<x, y>> => t = Request(x) \o Request(y)
      PROVE  Requests(d) = <<q>> /\ readInt(d) = id
  <2>1. d \in Seq(Nat) /\ readInt(d) = id /\ Len(d) = 2 + Len(t) /\ At(d, 3, t, Len(d) + 1)
    BY <1>1, <1>5, IdParts
  <2>2. Len(d) >= 2
    <3>1. Len(t) \in Nat OBVIOUS
    <3> QED BY <2>1, <3>1
  <2>3. Requests(d) = <<q>> BY <1>1, <1>5, <2>1, <2>2, RequestsReadBack
  <2> QED BY <2>1, <2>3
<1>6. Requests(d) = <<q>> /\ readInt(d) = id
  <2>1. ASSUME NEW x \in Requested, q = <<x>> PROVE Requests(d) = <<q>> /\ readInt(d) = id
    <3> DEFINE t == Request(x)
    <3>1. Request(x) \in Seq(Nat) BY RequestType
    <3>2. t \in Seq(Nat) /\ d = writeInt(id) \o t BY <1>4, <2>1, <3>1, RequestType
    <3>3. \A y \in Requested : q = <<y>> => t = Request(y) BY <2>1
    <3>4. \A y, z \in Requested : q # <<y, z>> BY <2>1
    <3> HIDE DEF t
    <3> QED BY <1>5, <3>2, <3>3, <3>4
  <2>2. ASSUME NEW x \in Requested, NEW y \in Requested, q = <<x, y>>
        PROVE  Requests(d) = <<q>> /\ readInt(d) = id
    <3> DEFINE t == Request(x) \o Request(y)
    <3>1. Request(x) \in Seq(Nat) /\ Request(y) \in Seq(Nat) BY RequestType
    <3>2. t \in Seq(Nat)
      <4>1. Request(x) \in Seq(Nat) /\ Request(y) \in Seq(Nat)
        BY <3>1, RequestType
      <4> QED BY <4>1, ConcatFacts
    <3>3. d = writeInt(id) \o t BY <1>4, <2>2
    <3>4. \A z \in Requested : q # <<z>> BY <2>2
    <3>5. \A w, z \in Requested : q = <<w, z>> => t = Request(w) \o Request(z)
      BY <2>2
    <3> HIDE DEF t
    <3> QED BY <1>5, <3>2, <3>3, <3>4, <3>5
  <2> QED BY <1>1, <2>1, <2>2, ListCases
<1>7. <<q>> # <<>> /\ <<q>>[1] = q OBVIOUS
<1>8. MQTTDeserialize_subscribe(h, d) =
        [type |-> SUBSCRIBE, dup |-> Bit(h, 3), packetid |-> readInt(d), requests |-> q]
  BY <1>6, <1>7, Zenon DEF MQTTDeserialize_subscribe
<1> QED BY <1>2, <1>3, <1>6, <1>8, Zenon DEF h, d

\* Where the fields of a CONNECT are found.
NameEnd(o) == 3 + Len(ProtocolName(o.MQTTVersion))
\* The fixed part of a CONNECT, and where its strings begin.
ConnectAt(o, d, i5, i6, i7) ==
  /\ d \in Seq(Nat) /\ NameEnd(o) \in Nat
  /\ readMQTTLenString(d, 1) = One(ProtocolName(o.MQTTVersion))
  /\ d[NameEnd(o)] = o.MQTTVersion /\ d[NameEnd(o) + 1] = ConnectFlags(o)
  /\ readInt(SubSeq(d, NameEnd(o) + 2, NameEnd(o) + 3)) = o.keepAliveInterval
  /\ At(d, NameEnd(o) + 4, writeMQTTString(o.clientID), i5)
  /\ At(d, i5, WillBytes(o), i6) /\ At(d, i6, writeOptional(o.username), i7)
  /\ At(d, i7, writeOptional(o.password), Len(d) + 1)

\* They are where the writer put them.
LEMMA ConnectIsAt ==
  ASSUME NEW o \in Connects
  PROVE  \E i5, i6, i7 \in Nat : ConnectAt(o, ConnectBody(o), i5, i6, i7)
<1> DEFINE d == ConnectBody(o)
           nm == ProtocolName(o.MQTTVersion)
           v == o.MQTTVersion
           f == ConnectFlags(o)
           k == o.keepAliveInterval
           at == NameEnd(o)
<1>1. d \in Seq(Nat) BY ConnectParts
<1>2. PICK i2, i3, i4, i5, i6, i7 \in Nat :
        /\ At(d, 1, writeMQTTString(nm), i2) /\ At(d, i2, <<v, f>>, i3) /\ At(d, i3, writeInt(k), i4)
        /\ At(d, i4, writeMQTTString(o.clientID), i5)
        /\ At(d, i5, WillBytes(o), i6) /\ At(d, i6, writeOptional(o.username), i7)
        /\ At(d, i7, writeOptional(o.password), Len(d) + 1)
  <2>1. Lie(d, writeMQTTString(nm), <<v, f>>, writeInt(k), writeMQTTString(o.clientID),
            WillBytes(o), writeOptional(o.username), writeOptional(o.password))
    BY ConnectParts
  <2> HIDE DEF d, nm, v, f, k
  <2> QED BY <2>1, Zenon DEF Lie
<1>3. v \in {3, 4} /\ f \in Nat /\ k \in Word BY ConnectFields
<1>4. nm \in Seq(Nat) /\ Len(nm) \in Word /\ Len(nm) \in Nat
  <2>1. CASE v = 4
    <3>1. nm = <<77, 81, 84, 84>> BY <2>1 DEF ProtocolName
    <3>2. nm \in Seq(Nat) /\ Len(nm) = 4 BY <3>1
    <3>3. 4 \in Word BY WordType, SMT DEF MaxWord
    <3> HIDE DEF nm
    <3> QED BY <3>2, <3>3
  <2>2. CASE v = 3
    <3>1. nm = <<77, 81, 73, 115, 100, 112>> BY <2>2 DEF ProtocolName
    <3>2. nm \in Seq(Nat) /\ Len(nm) = 6 BY <3>1
    <3>3. 6 \in Word BY WordType, SMT DEF MaxWord
    <3> HIDE DEF nm
    <3> QED BY <3>2, <3>3
  <2> QED BY <1>3, <2>1, <2>2
<1>5. at = 3 + Len(nm) BY DEF NameEnd
<1> HIDE DEF d, nm, v, f, k, at
<1>6. readMQTTLenString(d, 1) = <<nm>> /\ i2 = at
  <2>1. readMQTTLenString(d, 1) = <<nm>> /\ i2 = 1 + 2 + Len(nm) BY <1>1, <1>2, <1>4, AtString
  <2> QED BY <1>4, <1>5, <2>1
<1>7. d[i2] = v /\ d[i2 + 1] = f /\ i3 = i2 + 2
  <2>1. v \in Nat /\ f \in Nat BY <1>3
  <2>2. At(d, i2, <<v, f>>, i3) BY <1>2
  <2> QED BY <1>1, <2>1, <2>2, AtBytes
<1>8. readInt(SubSeq(d, i3, i3 + 1)) = k /\ i4 = i3 + 2
  <2>1. At(d, i3, writeInt(k), i4) BY <1>2
  <2> QED BY <1>1, <1>3, <2>1, AtInt
<1>9. i3 = at + 2 /\ i3 + 1 = at + 3 /\ i4 = at + 4 /\ at \in Nat BY <1>4, <1>5, <1>6, <1>7, <1>8
<1>10. /\ d[at] = v /\ d[at + 1] = f /\ readInt(SubSeq(d, at + 2, at + 3)) = k
       /\ At(d, at + 4, writeMQTTString(o.clientID), i5)
  BY <1>2, <1>6, <1>7, <1>8, <1>9, Zenon
<1>11. ConnectAt(o, d, i5, i6, i7)
  BY <1>1, <1>2, <1>6, <1>9, <1>10, Zenon DEF ConnectAt, One, nm, v, f, k, at
<1> QED BY <1>11 DEF d

\* The bits of the flags.
LEMMA ConnectBits ==
  ASSUME NEW o \in Connects, NEW f, f = ConnectFlags(o)
  PROVE  /\ Bit(f, 1) = o.cleansession /\ Bit(f, 2) = Len(o.will)
         /\ Bit(f, 6) = Len(o.password) /\ Bit(f, 7) = Len(o.username)
         /\ Len(o.will) \in 0..1 /\ Len(o.password) \in 0..1 /\ Len(o.username) \in 0..1
         /\ \A x : o.will = One(x) =>
              Bit(f, 3) + 2 * Bit(f, 4) = x.qos /\ Bit(f, 5) = x.retained
<1> DEFINE c == o.cleansession
           p == Len(o.password)
           u == Len(o.username)
           w == Len(o.will)
<1>1. c \in 0..1 /\ p \in 0..1 /\ u \in 0..1 BY ConnectFields, OptionalType
<1>2. CASE o.will = <<>>
  <2>1. w = 0 /\ 0 \in 0..1 BY <1>2
  <2>2. f = 2 * c + 64 * p + 128 * u + (IF w = 0 THEN 0 ELSE 4 + 8 + 32 * 0)
    BY <1>2, <2>1 DEF ConnectFlags
  <2>3. \A x : o.will # One(x) BY <1>2 DEF One
  <2> HIDE DEF c, p, u, w
  <2>4. /\ Bit(f, 1) = c /\ Bit(f, 2) = w /\ Bit(f, 6) = p /\ Bit(f, 7) = u
    BY <1>1, <2>1, <2>2, FlagBits
  <2> QED BY <1>1, <2>1, <2>3, <2>4 DEF c, p, u, w
<1>3. ASSUME NEW x \in Wills, o.will = <<x>>
      PROVE  /\ Bit(f, 1) = c /\ Bit(f, 2) = w /\ Bit(f, 6) = p /\ Bit(f, 7) = u /\ w = 1
             /\ Bit(f, 3) + 2 * Bit(f, 4) = x.qos /\ Bit(f, 5) = x.retained
  <2> DEFINE r == x.retained
             q == x.qos
  <2>1. w = 1 /\ o.will[1] = x /\ o.will # <<>> BY <1>3
  <2>2. q = 1 /\ r \in 0..1 BY DEF Wills
  <2>3. ConnectFlags(o) = 2 * c + 64 * p + 128 * u + (4 + 8 * q + 32 * r)
    BY <2>1 DEF ConnectFlags
  <2> HIDE DEF c, p, u, w, r, q
  <2>4. f = 2 * c + 64 * p + 128 * u + (IF w = 0 THEN 0 ELSE 4 + 8 + 32 * r)
    BY <1>1, <2>1, <2>2, <2>3
  <2>5. w \in 0..1 BY <2>1
  <2>6. /\ Bit(f, 1) = c /\ Bit(f, 2) = w /\ Bit(f, 6) = p /\ Bit(f, 7) = u
        /\ w = 1 => Bit(f, 3) + 2 * Bit(f, 4) = 1 /\ Bit(f, 5) = r
    BY <1>1, <2>2, <2>4, <2>5, FlagBits
  <2> QED BY <2>1, <2>2, <2>6 DEF r, q
<1>4. \A x, y : One(x) = One(y) => x = y BY DEF One
<1>5. \A x : <<x>> = One(x) BY DEF One
<1>6. ASSUME NEW x \in Wills, o.will = <<x>>
      PROVE  \A y : o.will = One(y) => Bit(f, 3) + 2 * Bit(f, 4) = y.qos /\ Bit(f, 5) = y.retained
  <2>1. \A y : o.will = One(y) => y = x BY <1>4, <1>5, <1>6
  <2> QED BY <1>3, <1>6, <2>1
<1>7. CASE \E x \in Wills : o.will = <<x>>
  BY <1>1, <1>3, <1>6, <1>7
<1> QED BY <1>2, <1>7, WillType

\* The strings of a will.
WillStrings(o) ==
  IF o.will = <<>> THEN <<>> ELSE <<o.will[1].topicName, o.will[1].message>>

\* The will is where it was written.
LEMMA WillRead ==
  ASSUME NEW o \in Connects, NEW d \in Seq(Nat), NEW i, NEW j, At(d, i, WillBytes(o), j)
  PROVE  /\ readWill(Len(o.will), d, i) = WillStrings(o) /\ j = i + SizeOf(WillStrings(o))
         /\ Len(WillStrings(o)) = 2 * Len(o.will) /\ WillStrings(o) \in Seq(Seq(Nat))
         /\ \A x : o.will = One(x) =>
              WillStrings(o)[1] = x.topicName /\ WillStrings(o)[2] = x.message
<1>1. CASE o.will = <<>>
  <2>1. WillStrings(o) = <<>> /\ WillBytes(o) = <<>> /\ Len(o.will) = 0
    BY <1>1 DEF WillStrings, WillBytes
  <2>2. readWill(0, d, i) = <<>>
    <3> DEFINE none == <<>>
    <3>1. none \o none = none OBVIOUS
    <3>2. readWill(0, d, i) = none \o none BY Zenon DEF readWill
    <3> QED BY <3>1, <3>2
  <2>3. Len(<<>>) = 0 /\ <<>> \in Seq(Seq(Nat)) OBVIOUS
  <2>4. j = i + 0 BY <2>1, <2>3 DEF At
  <2>5. \A x : o.will # One(x) BY <1>1 DEF One
  <2>6. Len(WillStrings(o)) = 2 * Len(o.will) BY <2>1, <2>3
  <2> QED BY <2>1, <2>2, <2>3, <2>4, <2>5, <2>6, SizeOfNone
<1>2. ASSUME NEW x \in Wills, o.will = <<x>>
      PROVE  /\ readWill(Len(o.will), d, i) = WillStrings(o) /\ j = i + SizeOf(WillStrings(o))
             /\ Len(WillStrings(o)) = 2 * Len(o.will) /\ WillStrings(o) \in Seq(Seq(Nat))
             /\ WillStrings(o)[1] = x.topicName /\ WillStrings(o)[2] = x.message
  <2> DEFINE t == x.topicName
             m == x.message
             wt == writeMQTTString(t)
             wm == writeMQTTString(m)
             k == i + Len(wt)
             s == <<t, m>>
  <2>1. /\ t \in Seq(Nat) /\ Len(t) \in Word /\ Len(t) \in Nat
        /\ m \in Seq(Nat) /\ Len(m) \in Word /\ Len(m) \in Nat
    <3>1. t \in Strings /\ m \in Strings BY DEF Wills
    <3> QED BY <3>1, StringsType
  <2>2. o.will[1] = x /\ o.will # <<>> /\ Len(o.will) = 1 BY <1>2
  <2>3. WillBytes(o) = wt \o wm BY <2>2 DEF WillBytes
  <2>4. WillStrings(o) = s BY <2>2 DEF WillStrings
  <2>5. s \in Seq(Seq(Nat)) /\ Len(s) = 2 /\ s[1] = t /\ s[2] = m BY <2>1
  <2>6. wt \in Seq(Nat) /\ wm \in Seq(Nat) BY <2>1, StringType
  <2>7. At(d, i, wt, k) /\ At(d, k, wm, j)
    <3>1. At(d, i, wt \o wm, j) BY <2>3
    <3> HIDE DEF wt, wm
    <3> QED BY <2>6, <3>1, AtConcat
  <2> HIDE DEF t, m, k
  <2>8. readMQTTLenString(d, i) = <<t>> /\ k = i + 2 + Len(t) /\ i \in Nat
    BY <2>1, <2>7, AtString
  <2>9. readMQTTLenString(d, k) = <<m>> /\ j = k + 2 + Len(m) BY <2>1, <2>7, AtString
  <2>10. SizeOf(s) = 4 + Len(t) + Len(m) BY <2>1, SizeOfTwo
  <2>11. j = i + SizeOf(s)
    <3> DEFINE a == Len(t)
               b == Len(m)
    <3>1. a \in Nat /\ b \in Nat /\ k = i + 2 + a /\ j = k + 2 + b /\ SizeOf(s) = 4 + a + b
      BY <2>1, <2>8, <2>9, <2>10
    <3> HIDE DEF a, b, s
    <3> QED BY <2>8, <3>1
  <2>12. readWill(1, d, i) = s
    <3>1. One(t) # <<>> /\ One(t)[1] = t BY OneFacts, Zenon
    <3>2. readMQTTLenString(d, i) = One(t) /\ readMQTTLenString(d, i + 2 + Len(t)) = One(m)
      BY <2>8, <2>9 DEF One
    <3>3. readWill(1, d, i) = One(t) \o One(m)
      <4>1. 1 # 0 OBVIOUS
      <4> QED BY <3>1, <3>2, <4>1, Zenon DEF readWill
    <3> QED BY <3>3, OneAndOne
  <2>13. Len(s) = 2 * Len(o.will) BY <2>2, <2>5
  <2> HIDE DEF s
  <2> QED BY <2>2, <2>4, <2>5, <2>11, <2>12, <2>13 DEF t, m
<1>3. CASE \E x \in Wills : o.will = <<x>>
  <2>1. PICK x \in Wills : o.will = <<x>> BY <1>3
  <2>2. \A y : o.will = One(y) => y = x BY <2>1 DEF One
  <2> QED BY <1>2, <2>1, <2>2
<1> QED BY <1>1, <1>3, WillType

\* A credential is where it was written.
LEMMA CredentialAt ==
  ASSUME NEW d \in Seq(Nat), NEW opt \in Optional(Strings), NEW i, NEW j,
         At(d, i, writeOptional(opt), j)
  PROVE  /\ j = i + SizeOf(opt) /\ i \in Nat /\ j \in Nat
         /\ opt = <<>> => j = i
         /\ opt # <<>> => /\ readMQTTLenString(d, i) = opt /\ opt = One(opt[1])
                          /\ Len(opt) = 1 /\ Len(opt[1]) \in Nat /\ opt[1] \in Strings
                          /\ j = i + 2 + Len(opt[1])
<1>0. i \in Nat /\ j \in Nat
  <2>1. writeOptional(opt) \in Seq(Nat) BY OptionalType
  <2> DEFINE b == writeOptional(opt)
  <2>2. b \in Seq(Nat) /\ At(d, i, b, j) BY <2>1
  <2> HIDE DEF b
  <2>3. i \in Nat /\ j = i + Len(b) /\ Len(b) \in Nat BY <2>2, AtSubSeq
  <2> QED BY <2>3
<1>1. CASE opt = <<>>
  <2>1. writeOptional(opt) = <<>> /\ Len(<<>>) = 0 BY <1>1 DEF writeOptional
  <2>2. j = i + 0 BY <2>1 DEF At
  <2>3. j = i BY <1>0, <2>2
  <2> QED BY <1>0, <1>1, <2>2, <2>3, SizeOfNone
<1>2. ASSUME NEW x \in Strings, opt = <<x>>
      PROVE  /\ j = i + SizeOf(opt) /\ opt # <<>> /\ opt = One(opt[1]) /\ Len(opt) = 1
             /\ readMQTTLenString(d, i) = opt /\ Len(opt[1]) \in Nat /\ opt[1] \in Strings
             /\ j = i + 2 + Len(opt[1])
  <2>1. x \in Seq(Nat) /\ Len(x) \in Word /\ Len(x) \in Nat BY StringsType
  <2>2. opt[1] = x /\ opt # <<>> /\ Len(opt) = 1 BY <1>2
  <2>3. At(d, i, writeMQTTString(x), j) BY <2>2 DEF writeOptional
  <2>4. readMQTTLenString(d, i) = <<x>> /\ j = i + 2 + Len(x) BY <2>1, <2>3, AtString
  <2>5. SizeOf(opt) = 2 + Len(x) BY <1>2, <2>1, SizeOfOne
  <2>6. i + 2 + Len(x) = i + (2 + Len(x)) BY <1>0, <2>1
  <2>7. opt = One(x) BY <1>2 DEF One
  <2> QED BY <1>2, <2>1, <2>2, <2>4, <2>5, <2>6, <2>7
<1>3. CASE \E x \in Strings : opt = <<x>> BY <1>0, <1>2, <1>3
<1> QED BY <1>1, <1>3, OptionalType

\* A credential is read, but for an empty one that nothing follows.
LEMMA CredentialRead ==
  ASSUME NEW d \in Seq(Nat), NEW opt \in Optional(Strings), NEW i, NEW j,
         At(d, i, writeOptional(opt), j)
  PROVE  readCredential(Len(opt), d, i)
           = IF opt # <<>> /\ opt[1] = <<>> /\ j = Len(d) + 1 THEN <<>> ELSE opt
<1>1. i \in Nat /\ j \in Nat BY CredentialAt
<1>2. CASE opt = <<>>
  <2>1. Len(opt) = 0 /\ 0 # 1 BY <1>2
  <2>2. readCredential(Len(opt), d, i) = <<>> BY <2>1, Zenon DEF readCredential
  <2> QED BY <1>2, <2>2
<1>3. CASE opt # <<>>
  <2> DEFINE x == opt[1]
             n == Len(x)
             m == Len(d)
  <2>1. /\ readMQTTLenString(d, i) = opt /\ Len(opt) = 1 /\ n \in Nat /\ x \in Strings
        /\ j = i + 2 + n
    BY <1>3, CredentialAt
  <2>2. j <= m + 1 /\ m \in Nat BY DEF At
  <2>3. x \in Seq(Nat) BY <2>1, StringsType
  <2>4. n = 0 <=> x = <<>>
    <3> HIDE DEF x
    <3> QED BY <2>3
  <2> HIDE DEF x, n
  <2>5. Len(d) - i + 1 >= 3 <=> ~(n = 0 /\ j = m + 1) BY <1>1, <2>1, <2>2
  <2> HIDE DEF m
  <2>6. readCredential(Len(opt), d, i) = IF Len(d) - i + 1 >= 3 THEN opt ELSE <<>>
    <3> DEFINE long == Len(d) - i + 1 >= 3
    <3>1. readCredential(Len(opt), d, i) = IF Len(opt) = 1 /\ long
                                           THEN readMQTTLenString(d, i) ELSE <<>>
      BY Zenon DEF readCredential
    <3> HIDE DEF long
    <3>2. readCredential(Len(opt), d, i) = IF long THEN opt ELSE <<>> BY <2>1, <3>1
    <3> QED BY <3>2 DEF long
  <2>7. readCredential(Len(opt), d, i) = IF n = 0 /\ j = m + 1 THEN <<>> ELSE opt
    BY <2>5, <2>6
  <2> QED BY <1>3, <2>4, <2>7 DEF x, m
<1> QED BY <1>2, <1>3

\* The server side refuses credentials as Refused tells, and reads all others.
RefusedPair(un, pw) ==
  \/ un = <<>> /\ pw # <<>>
  \/ un \o pw # <<>> /\ Last(un \o pw) = <<>>

\* The server reads the user name and the password, or refuses them.
LEMMA CredentialsRead ==
  ASSUME NEW d \in Seq(Nat), NEW un \in Optional(Strings), NEW pw \in Optional(Strings),
         NEW i, NEW j, At(d, i, writeOptional(un), j), At(d, j, writeOptional(pw), Len(d) + 1),
         NEW U, U = readCredential(Len(un), d, i),
         NEW K, K = readCredential(Len(pw), d, i + SizeOf(U))
  PROVE  /\ (Len(U) # Len(un) \/ Len(K) # Len(pw) \/ (Len(pw) = 1 /\ Len(un) = 0))
            <=> RefusedPair(un, pw)
         /\ ~RefusedPair(un, pw) => U = un /\ K = pw
<1>0. Len(d) \in Nat OBVIOUS
<1>1. /\ un # <<>> => Len(un) = 1 /\ un = One(un[1])
      /\ pw # <<>> => Len(pw) = 1 /\ pw = One(pw[1]) /\ Len(pw[1]) \in Nat
                      /\ Len(d) + 1 = j + 2 + Len(pw[1])
      /\ pw = <<>> => Len(d) + 1 = j
      /\ j = i + SizeOf(un) /\ j \in Nat
  <2>1. /\ un # <<>> => Len(un) = 1 /\ un = One(un[1])
        /\ j = i + SizeOf(un) /\ j \in Nat
    BY CredentialAt
  <2> DEFINE e == Len(d) + 1
  <2>2. At(d, j, writeOptional(pw), e) OBVIOUS
  <2> HIDE DEF e
  <2>3. pw # <<>> => /\ Len(pw) = 1 /\ pw = One(pw[1]) /\ Len(pw[1]) \in Nat
                     /\ e = j + 2 + Len(pw[1])
    BY <2>2, CredentialAt
  <2>4. pw = <<>> => e = j BY <2>2, CredentialAt
  <2> QED BY <2>1, <2>3, <2>4 DEF e
<1>2. Len(<<>>) = 0 OBVIOUS
<1>3. /\ U = IF un # <<>> /\ un[1] = <<>> /\ j = Len(d) + 1 THEN <<>> ELSE un
      /\ readCredential(Len(pw), d, j) = IF pw # <<>> /\ pw[1] = <<>> THEN <<>> ELSE pw
  <2>1. U = IF un # <<>> /\ un[1] = <<>> /\ j = Len(d) + 1 THEN <<>> ELSE un
    BY CredentialRead
  <2>2. readCredential(Len(pw), d, j)
          = IF pw # <<>> /\ pw[1] = <<>> /\ Len(d) + 1 = Len(d) + 1 THEN <<>> ELSE pw
    BY CredentialRead
  <2> QED BY <2>1, <2>2
<1>4. CASE pw = <<>>
  <2>1. K = <<>>
    <3>1. Len(pw) = 0 /\ 0 # 1 BY <1>4
    <3> QED BY <3>1, Zenon DEF readCredential
  <2>2. un \o pw = un
    <3>1. un \in Seq(Seq(Nat)) BY OptionalType
    <3> QED BY <1>4, <3>1
  <2>3. j = Len(d) + 1 BY <1>1, <1>4
  <2>4. CASE un = <<>>
    <3>1. U = un BY <1>3, <2>4
    <3>2. ~RefusedPair(un, pw) BY <1>4, <2>2, <2>4, Zenon DEF RefusedPair
    <3>3. Len(U) = Len(un) /\ Len(K) = Len(pw) /\ Len(pw) = 0 BY <1>2, <1>4, <2>1, <3>1
    <3>4. 0 # 1 OBVIOUS
    <3> QED BY <1>4, <2>1, <3>1, <3>2, <3>3, <3>4, Zenon
  <2>5. CASE un # <<>>
    <3>1. Last(un) = un[1] BY <1>1, <2>5 DEF Last
    <3>2. RefusedPair(un, pw) <=> un[1] = <<>>
      BY <1>4, <2>2, <2>5, <3>1, Zenon DEF RefusedPair
    <3>3. U = IF un[1] = <<>> THEN <<>> ELSE un BY <1>3, <2>3, <2>5
    <3>4. Len(K) = Len(pw) /\ Len(pw) = 0 /\ Len(un) = 1 BY <1>1, <1>2, <1>4, <2>1, <2>5
    <3>5. Len(U) = Len(un) <=> un[1] # <<>>
      <4>1. CASE un[1] = <<>> BY <1>2, <3>3, <3>4, <4>1
      <4>2. CASE un[1] # <<>> BY <3>3, <4>2
      <4> QED BY <4>1, <4>2
    <3>6. 0 # 1 OBVIOUS
    <3> QED BY <1>4, <2>1, <3>2, <3>3, <3>4, <3>5, <3>6
  <2> QED BY <2>4, <2>5
<1>5. CASE pw # <<>>
  <2>1. j # Len(d) + 1
    <3> DEFINE e == Len(d) + 1
               n == Len(pw[1])
    <3>1. e = j + 2 + n /\ n \in Nat /\ j \in Nat BY <1>1, <1>5
    <3> HIDE DEF e, n
    <3>2. j # e BY <3>1
    <3> QED BY <3>2 DEF e
  <2>2. U = un BY <1>3, <2>1
  <2>3. K = readCredential(Len(pw), d, j) BY <1>1, <2>2
  <2>4. K = IF pw[1] = <<>> THEN <<>> ELSE pw BY <1>3, <1>5, <2>3
  <2>5. CASE un = <<>>
    <3>1. Len(pw) = 1 /\ Len(un) = 0 BY <1>1, <1>2, <1>5, <2>5
    <3>2. RefusedPair(un, pw) BY <1>5, <2>5, Zenon DEF RefusedPair
    <3> QED BY <3>1, <3>2
  <2>6. CASE un # <<>>
    <3> DEFINE x == un[1]
               y == pw[1]
    <3>1. un \o pw # <<>> /\ Last(un \o pw) = y
      <4>1. un \o pw = <<x, y>> BY <1>1, <1>5, <2>6, OneAndOne, Zenon
      <4> HIDE DEF x, y
      <4>2. <<x, y>> # <<>> /\ Last(<<x, y>>) = y BY DEF Last
      <4> QED BY <4>1, <4>2
    <3>2. RefusedPair(un, pw) <=> y = <<>> BY <2>6, <3>1, Zenon DEF RefusedPair
    <3>3. Len(pw) = 1 /\ Len(un) = 1 /\ Len(U) = Len(un) BY <1>1, <1>5, <2>2, <2>6
    <3>4. Len(K) = Len(pw) <=> y # <<>>
      <4>1. CASE y = <<>>
        <5>1. K = <<>> BY <2>4, <4>1
        <5>2. Len(K) = 0 BY <1>2, <5>1
        <5>3. 0 # 1 OBVIOUS
        <5> QED BY <3>3, <4>1, <5>2, <5>3, Zenon
      <4>2. CASE y # <<>> BY <2>4, <4>2
      <4> QED BY <4>1, <4>2
    <3>5. 0 # 1 OBVIOUS
    <3> QED BY <2>2, <2>4, <3>2, <3>3, <3>4, <3>5
  <2> QED BY <2>5, <2>6
<1> QED BY <1>4, <1>5

\* Every CONNECT whose user name and password the server side does not refuse is read as it
\* was written, but for the version.
LEMMA ConnectRead ==
  ASSUME NEW o \in Connects
  PROVE  MQTTDeserialize_connect(ConnectBody(o))
           = IF Refused(o) THEN Malformed ELSE HandedOut(o)
<1> DEFINE d   == ConnectBody(o)
           P   == readMQTTLenString(d, 1)
           at  == 3 + Len(P[1])
           f   == d[at + 1]
           w   == Bit(f, 2)
           C   == readMQTTLenString(d, at + 4)
           aw  == at + 4 + SizeOf(C)
           W   == readWill(w, d, aw)
           au  == aw + SizeOf(W)
           U   == readCredential(Bit(f, 7), d, au)
           K   == readCredential(Bit(f, 6), d, au + SizeOf(U))
           bad == \/ P = <<>> \/ ~MQTTPacket_checkVersion(P[1], d[at])
                  \/ C = <<>> \/ Len(W) # 2 * w
                  \/ Len(U) # Bit(f, 7) \/ Len(K) # Bit(f, 6)
                  \/ Bit(f, 6) = 1 /\ Bit(f, 7) = 0
           all == [type |-> CONNECT, MQTTVersion |-> InitialVersion, cleansession |-> Bit(f, 1),
                   keepAliveInterval |-> readInt(SubSeq(d, at + 2, at + 3)), clientID |-> C[1],
                   will |-> IF w = 0 THEN <<>>
                            ELSE <<[topicName |-> W[1], message |-> W[2],
                                    retained |-> Bit(f, 5), qos |-> Bit(f, 3) + 2 * Bit(f, 4)]>>,
                   username |-> U, password |-> K]
           un  == o.username
           pw  == o.password
<1>1. MQTTDeserialize_connect(d) = IF bad THEN Malformed ELSE all
  BY Zenon DEF MQTTDeserialize_connect
<1>2. PICK i5, i6, i7 \in Nat : ConnectAt(o, d, i5, i6, i7) BY ConnectIsAt
<1>3. /\ d \in Seq(Nat) /\ NameEnd(o) \in Nat /\ P = One(ProtocolName(o.MQTTVersion))
      /\ d[NameEnd(o)] = o.MQTTVersion /\ d[NameEnd(o) + 1] = ConnectFlags(o)
      /\ readInt(SubSeq(d, NameEnd(o) + 2, NameEnd(o) + 3)) = o.keepAliveInterval
      /\ At(d, NameEnd(o) + 4, writeMQTTString(o.clientID), i5)
      /\ At(d, i5, WillBytes(o), i6) /\ At(d, i6, writeOptional(un), i7)
      /\ At(d, i7, writeOptional(pw), Len(d) + 1)
  BY <1>2, Zenon DEF ConnectAt
<1>4. o.MQTTVersion \in {3, 4} /\ o.clientID \in Strings /\ un \in Optional(Strings)
      /\ pw \in Optional(Strings) /\ o.type = CONNECT
  BY ConnectFields
<1> HIDE DEF d
<1>5. P # <<>> /\ P[1] = ProtocolName(o.MQTTVersion) /\ at = NameEnd(o)
  <2>1. P # <<>> /\ P[1] = ProtocolName(o.MQTTVersion) BY <1>3, OneFacts, Zenon
  <2> QED BY <2>1 DEF NameEnd
<1> HIDE DEF P, at
<1>6. f = ConnectFlags(o) /\ d[at] = o.MQTTVersion BY <1>3, <1>5
<1> HIDE DEF f
<1>7. /\ Bit(f, 1) = o.cleansession /\ w = Len(o.will) /\ Bit(f, 6) = Len(pw)
      /\ Bit(f, 7) = Len(un) /\ Len(pw) \in 0..1 /\ Len(un) \in 0..1 /\ Len(o.will) \in 0..1
      /\ \A x : o.will = One(x) =>
           Bit(f, 3) + 2 * Bit(f, 4) = x.qos /\ Bit(f, 5) = x.retained
  BY <1>6, ConnectBits
<1>8. MQTTPacket_checkVersion(P[1], d[at])
  BY <1>4, <1>5, <1>6 DEF MQTTPacket_checkVersion, SamePrefix
<1>9. C = One(o.clientID) /\ C # <<>> /\ C[1] = o.clientID /\ aw = i5
  <2> DEFINE x == o.clientID
             a == at + 4
  <2>1. x \in Seq(Nat) /\ Len(x) \in Word /\ Len(x) \in Nat BY <1>4, StringsType
  <2>2. At(d, a, writeMQTTString(x), i5) BY <1>3, <1>5
  <2> HIDE DEF x, a
  <2>3. readMQTTLenString(d, a) = <<x>> /\ i5 = a + 2 + Len(x) /\ a \in Nat
    BY <1>3, <2>1, <2>2, AtString
  <2>4. SizeOf(One(x)) = 2 + Len(x) BY <2>1, SizeOfOne DEF One
  <2>5. C = One(x) BY <2>3 DEF One, a
  <2>6. C # <<>> /\ C[1] = x BY <2>5, OneFacts, Zenon
  <2>7. i5 = a + SizeOf(C) BY <2>1, <2>3, <2>4, <2>5
  <2> QED BY <2>5, <2>6, <2>7 DEF x, a
<1> HIDE DEF C, aw, w
<1>10. /\ W = WillStrings(o) /\ au = i6 /\ Len(W) = 2 * w
       /\ \A x : o.will = One(x) => W[1] = x.topicName /\ W[2] = x.message
  BY <1>3, <1>7, <1>9, WillRead
<1> HIDE DEF W, au
<1>11. (IF w = 0 THEN <<>>
        ELSE <<[topicName |-> W[1], message |-> W[2],
                retained |-> Bit(f, 5), qos |-> Bit(f, 3) + 2 * Bit(f, 4)]>>) = o.will
  <2>1. CASE o.will = <<>> BY <1>7, <2>1
  <2>2. ASSUME NEW x \in Wills, o.will = <<x>>
        PROVE  <<[topicName |-> W[1], message |-> W[2],
                  retained |-> Bit(f, 5), qos |-> Bit(f, 3) + 2 * Bit(f, 4)]>> = o.will /\ w = 1
    <3>1. o.will = One(x) BY <2>2 DEF One
    <3>2. w = 1 BY <1>7, <2>2
    <3>3. /\ W[1] = x.topicName /\ W[2] = x.message
          /\ Bit(f, 3) + 2 * Bit(f, 4) = x.qos /\ Bit(f, 5) = x.retained
      BY <1>7, <1>10, <3>1
    <3>4. x = [topicName |-> x.topicName, message |-> x.message,
               retained |-> x.retained, qos |-> x.qos]
      BY DEF Wills
    <3>5. x = [topicName |-> W[1], message |-> W[2],
               retained |-> Bit(f, 5), qos |-> Bit(f, 3) + 2 * Bit(f, 4)]
      BY <3>3, <3>4, Zenon
    <3> QED BY <2>2, <3>2, <3>5, Zenon
  <2>3. CASE \E x \in Wills : o.will = <<x>>
    <3>1. 1 # 0 OBVIOUS
    <3> QED BY <2>2, <2>3, <3>1, Zenon
  <2> QED BY <2>1, <2>3, WillType
<1>12. readInt(SubSeq(d, at + 2, at + 3)) = o.keepAliveInterval BY <1>3, <1>5
<1>13. ASSUME U = un, K = pw PROVE all = HandedOut(o)
  <2>1. HandedOut(o)
          = [type |-> CONNECT, MQTTVersion |-> InitialVersion,
             cleansession |-> o.cleansession, keepAliveInterval |-> o.keepAliveInterval,
             clientID |-> o.clientID, will |-> o.will, username |-> un, password |-> pw]
    <3>1. HandedOut(o) = [o EXCEPT !.MQTTVersion = InitialVersion] BY <1>4 DEF HandedOut
    <3>2. [o EXCEPT !.MQTTVersion = InitialVersion]
            = [type |-> o.type, MQTTVersion |-> InitialVersion,
               cleansession |-> o.cleansession, keepAliveInterval |-> o.keepAliveInterval,
               clientID |-> o.clientID, will |-> o.will, username |-> un, password |-> pw]
      BY DEF Connects
    <3> QED BY <1>4, <3>1, <3>2, Zenon
  <2> HIDE DEF U, K, un, pw
  <2> QED BY <1>6, <1>7, <1>9, <1>11, <1>12, <1>13, <2>1, Zenon
<1>14. bad <=> (Len(U) # Len(un) \/ Len(K) # Len(pw) \/ (Len(pw) = 1 /\ Len(un) = 0))
  <2> HIDE DEF U, K, un, pw
  <2>1. Len(W) = 2 * w /\ P # <<>> /\ C # <<>> /\ MQTTPacket_checkVersion(P[1], d[at])
    BY <1>5, <1>8, <1>9, <1>10
  <2> QED BY <1>7, <2>1, Zenon
<1> HIDE DEF bad, all
<1>15. U = readCredential(Len(un), d, i6) /\ K = readCredential(Len(pw), d, i6 + SizeOf(U))
  BY <1>7, <1>10
<1> HIDE DEF U, K
<1>16. /\ (Len(U) # Len(un) \/ Len(K) # Len(pw) \/ (Len(pw) = 1 /\ Len(un) = 0))
         <=> RefusedPair(un, pw)
       /\ ~RefusedPair(un, pw) => U = un /\ K = pw
  <2>1. /\ d \in Seq(Nat) /\ un \in Optional(Strings) /\ pw \in Optional(Strings)
        /\ At(d, i6, writeOptional(un), i7) /\ At(d, i7, writeOptional(pw), Len(d) + 1)
    BY <1>3, <1>4
  <2> HIDE DEF un, pw
  <2> QED BY <1>15, <2>1, CredentialsRead
<1>17. Refused(o) <=> RefusedPair(un, pw) BY <1>4 DEF Refused, RefusedPair
<1> QED BY <1>1, <1>13, <1>14, <1>16, <1>17, Zenon DEF d

\* The strings the peer finds where they were written.
LEMMA OptionalStep ==
  ASSUME NEW d \in Seq(Nat), NEW i0 \in Nat, NEW from, PeerLoop(d, i0, from),
         NEW opt \in Optional(Strings), NEW i \in Nat, i >= i0, NEW j \in Nat,
         At(d, i, writeOptional(opt), j),
         from[j] \in Seq(Seq(Nat))
  PROVE  from[i] = opt \o from[j] /\ from[i] \in Seq(Seq(Nat)) /\ j \in Nat /\ j >= i0
<1> DEFINE r == from[j]
<1>1. j = i + SizeOf(opt) /\ i \in Nat /\ j \in Nat BY CredentialAt
<1>2. opt \in Seq(Seq(Nat)) /\ r \in Seq(Seq(Nat)) BY OptionalType
<1>3. CASE opt = <<>>
  <2>1. j = i BY <1>3, CredentialAt
  <2>2. opt \o r = r BY <1>2, <1>3
  <2> QED BY <1>1, <1>2, <2>1, <2>2
<1>4. ASSUME NEW x \in Strings, opt = <<x>> PROVE from[i] = opt \o r /\ j >= i
  <2>1. x \in Seq(Nat) /\ Len(x) \in Word /\ Len(x) \in Nat BY StringsType
  <2>2. opt[1] = x /\ opt # <<>> BY <1>4
  <2>3. At(d, i, writeMQTTString(x), j) BY <2>2 DEF writeOptional
  <2>4. from[i] = One(x) \o from[j] BY <2>1, <2>3, PeerStep
  <2>5. j = i + 2 + Len(x) BY <2>1, <2>3, AtString
  <2>6. j >= i BY <1>1, <2>1, <2>5
  <2> QED BY <1>4, <2>4, <2>6, Zenon DEF One
<1>5. CASE \E x \in Strings : opt = <<x>>
  <2>1. from[i] = opt \o r /\ j >= i BY <1>4, <1>5
  <2>2. opt \o r \in Seq(Seq(Nat)) BY <1>2, ConcatFacts
  <2> QED BY <1>1, <2>1, <2>2
<1> QED BY <1>3, <1>5, OptionalType

\* The loop of the peer reads the strings of the will.
LEMMA WillStep ==
  ASSUME NEW d \in Seq(Nat), NEW i0 \in Nat, NEW from, PeerLoop(d, i0, from),
         NEW o \in Connects, NEW i \in Nat, i >= i0, NEW j \in Nat, At(d, i, WillBytes(o), j),
         from[j] \in Seq(Seq(Nat))
  PROVE  from[i] = WillStrings(o) \o from[j] /\ from[i] \in Seq(Seq(Nat))
<1> DEFINE r == from[j]
           ws == WillStrings(o)
<1>1. ws \in Seq(Seq(Nat)) /\ r \in Seq(Seq(Nat)) BY WillRead
<1>2. CASE o.will = <<>>
  <2>1. ws = <<>> /\ WillBytes(o) = <<>> BY <1>2 DEF WillStrings, WillBytes
  <2>2. j = i
    <3>1. At(d, i, <<>>, j) BY <2>1
    <3>2. i \in Nat /\ j = i + 0 BY <3>1 DEF At
    <3> QED BY <3>2
  <2>3. ws \o r = r BY <1>1, <2>1
  <2> QED BY <1>1, <2>2, <2>3
<1>3. ASSUME NEW x \in Wills, o.will = <<x>> PROVE from[i] = ws \o r
  <2> DEFINE t == x.topicName
             m == x.message
             wt == writeMQTTString(t)
             wm == writeMQTTString(m)
             k == i + Len(wt)
  <2>1. /\ t \in Seq(Nat) /\ Len(t) \in Word /\ Len(t) \in Nat
        /\ m \in Seq(Nat) /\ Len(m) \in Word /\ Len(m) \in Nat
    <3>1. t \in Strings /\ m \in Strings BY DEF Wills
    <3> QED BY <3>1, StringsType
  <2>2. o.will[1] = x /\ o.will # <<>> BY <1>3
  <2>3. WillBytes(o) = wt \o wm BY <2>2 DEF WillBytes
  <2>4. ws = <<t, m>> BY <2>2 DEF WillStrings
  <2>5. wt \in Seq(Nat) /\ wm \in Seq(Nat) BY <2>1, StringType
  <2>6. At(d, i, wt, k) /\ At(d, k, wm, j)
    <3>1. At(d, i, wt \o wm, j) BY <2>3
    <3> HIDE DEF wt, wm
    <3> QED BY <2>5, <3>1, AtConcat
  <2> HIDE DEF t, m, k, r
  <2>7. k = i + 2 + Len(t) /\ k \in Nat BY <2>1, <2>6, AtString
  <2>8. k >= i0 BY <2>1, <2>7
  <2>9. from[i] = One(t) \o from[k] BY <2>1, <2>6, <2>7, PeerStep
  <2>10. from[k] = One(m) \o r BY <2>1, <2>6, <2>7, <2>8, PeerStep DEF r
  <2>11. One(t) \in Seq(Seq(Nat)) /\ One(m) \in Seq(Seq(Nat)) BY <2>1, OneFacts
  <2>12. (One(t) \o One(m)) \o r = One(t) \o (One(m) \o r)
    <3> DEFINE a == One(t)
               b == One(m)
               T == Seq(Nat)
    <3>1. a \in Seq(T) /\ b \in Seq(T) /\ r \in Seq(T) BY <1>1, <2>11 DEF r
    <3> HIDE DEF a, b, T
    <3>2. (a \o b) \o r = a \o (b \o r) BY <3>1, ConcatAssociative
    <3> QED BY <3>2 DEF a, b
  <2> QED BY <2>4, <2>9, <2>10, <2>12, OneAndOne, Zenon
<1>4. CASE \E x \in Wills : o.will = <<x>>
  <2>1. from[i] = ws \o r BY <1>3, <1>4
  <2>2. ws \o r \in Seq(Seq(Nat)) BY <1>1, ConcatFacts
  <2> QED BY <2>1, <2>2
<1> QED BY <1>2, <1>4, WillType

\* All the strings of a CONNECT.
LEMMA ConnectStrings ==
  ASSUME NEW o \in Connects, NEW d, NEW i5 \in Nat, NEW i6 \in Nat, NEW i7 \in Nat,
         ConnectAt(o, d, i5, i6, i7)
  PROVE  PeerStrings(d, NameEnd(o) + 4)
           = One(o.clientID) \o (WillStrings(o) \o (o.username \o o.password))
<1> DEFINE a == NameEnd(o) + 4
           e == Len(d) + 1
           c == o.clientID
           un == o.username
           pw == o.password
           V == Seq(Seq(Nat))
<1>1. /\ d \in Seq(Nat) /\ At(d, a, writeMQTTString(c), i5)
      /\ At(d, i5, WillBytes(o), i6) /\ At(d, i6, writeOptional(un), i7)
      /\ At(d, i7, writeOptional(pw), e)
  BY Zenon DEF ConnectAt
<1>2. /\ c \in Seq(Nat) /\ Len(c) \in Word /\ Len(c) \in Nat
      /\ un \in Optional(Strings) /\ pw \in Optional(Strings) /\ pw \in V
  <2>1. c \in Strings /\ un \in Optional(Strings) /\ pw \in Optional(Strings) BY ConnectFields
  <2> QED BY <2>1, StringsType, OptionalType
<1>3. i5 = a + 2 + Len(c) /\ a \in Nat \ {0} /\ i5 <= e
  <2> HIDE DEF a, c
  <2> QED BY <1>1, <1>2, AtString DEF e
<1>4. WillBytes(o) \in Seq(Nat) /\ writeOptional(un) \in Seq(Nat) /\ writeOptional(pw) \in Seq(Nat)
  BY <1>2, WillType, OptionalType
<1>5. i6 >= i5 /\ i7 >= i6 /\ e >= i7 /\ e \in Nat
  <2>1. /\ i6 = i5 + Len(WillBytes(o)) /\ Len(WillBytes(o)) \in Nat
        /\ i7 = i6 + Len(writeOptional(un)) /\ Len(writeOptional(un)) \in Nat
        /\ e = i7 + Len(writeOptional(pw)) /\ Len(writeOptional(pw)) \in Nat
    BY <1>1, <1>4, AtSubSeq
  <2> HIDE DEF e
  <2> QED BY <2>1
<1>6. a \in 1..e /\ i5 >= a /\ i6 >= a /\ i7 >= a /\ a <= e /\ e \in Nat /\ Len(d) >= 2 /\ a >= a
  <2>1. Len(d) \in Nat /\ e = Len(d) + 1 BY <1>1
  <2>2. i5 >= a BY <1>2, <1>3
  <2> HIDE DEF a, e
  <2>3. a \in Nat /\ a >= 1 BY <1>3
  <2> DEFINE n == Len(d)
             m == Len(c)
  <2>4. n \in Nat /\ e = n + 1 /\ m \in Nat /\ i5 = a + 2 + m BY <1>2, <1>3, <2>1
  <2> HIDE DEF n, m
  <2>5. a \in 1..e /\ a <= e /\ a >= a BY <1>5, <2>2, <2>3, <2>4
  <2>6. i6 >= a /\ i7 >= a BY <1>5, <2>2, <2>3
  <2>7. n >= 2 BY <1>5, <2>3, <2>4
  <2> QED BY <1>5, <2>2, <2>5, <2>6, <2>7 DEF n
<1>7. PICK from : PeerStrings(d, a) = from[a] /\ PeerLoop(d, a, from)
  BY <1>1, <1>6, PeerStringsLoop
<1> HIDE DEF a, c, un, pw
<1>8. from[e] = <<>>
  <2>1. a \in Nat /\ a <= Len(d) + 1 BY <1>3, <1>6 DEF e
  <2> QED BY <1>1, <1>6, <1>7, <2>1, LoopEnds DEF e
<1> HIDE DEF e
<1> HIDE DEF V
<1>9. from[i7] = pw \o from[e] /\ from[i7] \in V
  <2>1. /\ d \in Seq(Nat) /\ a \in Nat /\ PeerLoop(d, a, from) /\ pw \in Optional(Strings)
        /\ i7 >= a /\ At(d, i7, writeOptional(pw), e) /\ from[e] \in Seq(Seq(Nat))
        /\ e \in Nat
    <3>1. from[e] \in Seq(Seq(Nat)) BY <1>8
    <3> QED BY <1>1, <1>2, <1>3, <1>6, <1>7, <3>1
  <2> QED BY <2>1, OptionalStep DEF V
<1>10. from[i6] = un \o from[i7] /\ from[i6] \in V
  <2>1. /\ d \in Seq(Nat) /\ a \in Nat /\ PeerLoop(d, a, from) /\ un \in Optional(Strings)
        /\ i6 >= a /\ At(d, i6, writeOptional(un), i7) /\ from[i7] \in Seq(Seq(Nat))
    BY <1>1, <1>2, <1>3, <1>6, <1>7, <1>9 DEF V
  <2>2. from[i6] = un \o from[i7] BY <2>1, OptionalStep
  <2>3. from[i6] \in Seq(Seq(Nat)) BY <2>1, OptionalStep
  <2> QED BY <2>2, <2>3 DEF V
<1>11. from[i5] = WillStrings(o) \o from[i6]
  <2>1. /\ d \in Seq(Nat) /\ a \in Nat /\ PeerLoop(d, a, from)
        /\ i5 >= a /\ At(d, i5, WillBytes(o), i6) /\ from[i6] \in Seq(Seq(Nat))
    BY <1>1, <1>3, <1>6, <1>7, <1>10 DEF V
  <2> QED BY <2>1, WillStep
<1>12. from[a] = One(c) \o from[i5]
  <2>1. /\ d \in Seq(Nat) /\ a \in Nat /\ PeerLoop(d, a, from) /\ a >= a
        /\ At(d, a, writeMQTTString(c), i5) /\ c \in Seq(Nat) /\ Len(c) \in Word
    BY <1>1, <1>2, <1>3, <1>6, <1>7
  <2> QED BY <2>1, PeerStep
<1>13. from[i7] = pw BY <1>2, <1>8, <1>9
<1> QED BY <1>7, <1>10, <1>11, <1>12, <1>13, Zenon DEF a, c, un, pw

\* A peer that goes by the protocol reads every CONNECT as it was written.
LEMMA PeerConnectRead ==
  ASSUME NEW o \in Connects
  PROVE  PeerConnect(ConnectBody(o)) = o
<1> DEFINE d     == ConnectBody(o)
           name  == readMQTTLenString(d, 1)
           at    == 3 + Len(name[1])
           flags == d[at + 1]
           ss    == PeerStrings(d, at + 4)
           w     == Bit(flags, 2)
           user  == 2 + 2 * w
           pass  == user + Bit(flags, 7)
           bad   == name # <<ProtocolName(d[at])>> \/ Len(ss) # pass + Bit(flags, 6) - 1
           all   == [type |-> CONNECT, MQTTVersion |-> d[at], cleansession |-> Bit(flags, 1),
                     keepAliveInterval |-> readInt(SubSeq(d, at + 2, at + 3)), clientID |-> ss[1],
                     will |-> IF w = 0 THEN <<>>
                              ELSE <<[topicName |-> ss[2], message |-> ss[3],
                                      retained |-> Bit(flags, 5),
                                      qos |-> Bit(flags, 3) + 2 * Bit(flags, 4)]>>,
                     username |-> SubSeq(ss, user, pass - 1),
                     password |-> SubSeq(ss, pass, Len(ss))]
           un    == o.username
           pw    == o.password
           ws    == WillStrings(o)
           c     == o.clientID
           V     == Seq(Nat)
<1>1. PeerConnect(d) = IF bad THEN Malformed ELSE all BY Zenon DEF PeerConnect
<1>2. PICK i5, i6, i7 \in Nat : ConnectAt(o, d, i5, i6, i7) BY ConnectIsAt
<1>3. /\ d \in Seq(Nat) /\ NameEnd(o) \in Nat /\ name = One(ProtocolName(o.MQTTVersion))
      /\ d[NameEnd(o)] = o.MQTTVersion /\ d[NameEnd(o) + 1] = ConnectFlags(o)
      /\ readInt(SubSeq(d, NameEnd(o) + 2, NameEnd(o) + 3)) = o.keepAliveInterval
      /\ At(d, i5, WillBytes(o), i6)
  BY <1>2, Zenon DEF ConnectAt
<1>4. c \in V /\ un \in Seq(V) /\ pw \in Seq(V) /\ o.type = CONNECT
  <2>1. c \in Strings /\ un \in Optional(Strings) /\ pw \in Optional(Strings) BY ConnectFields
  <2> QED BY <2>1, ConnectFields, StringsType, OptionalType
<1> HIDE DEF d
<1>5. at = NameEnd(o)
  <2>1. name[1] = ProtocolName(o.MQTTVersion) BY <1>3, OneFacts, Zenon
  <2> QED BY <2>1 DEF NameEnd
<1> HIDE DEF name, at
<1>6. flags = ConnectFlags(o) /\ d[at] = o.MQTTVersion BY <1>3, <1>5
<1>7. name = <<ProtocolName(d[at])>> BY <1>3, <1>6 DEF One
<1> HIDE DEF flags
<1>8. /\ Bit(flags, 1) = o.cleansession /\ w = Len(o.will) /\ Bit(flags, 6) = Len(pw)
      /\ Bit(flags, 7) = Len(un) /\ w \in 0..1 /\ Len(un) \in 0..1 /\ Len(pw) \in 0..1
      /\ \A x : o.will = One(x) =>
           Bit(flags, 3) + 2 * Bit(flags, 4) = x.qos /\ Bit(flags, 5) = x.retained
  BY <1>6, ConnectBits
<1>9. /\ ws \in Seq(V) /\ Len(ws) = 2 * w
      /\ \A x : o.will = One(x) => ws[1] = x.topicName /\ ws[2] = x.message
  BY <1>3, <1>8, WillRead
<1>10. ss = One(c) \o (ws \o (un \o pw)) BY <1>2, <1>5, ConnectStrings
<1> HIDE DEF ss, w, un, pw, ws, c, V
<1>11. /\ At(ss, 1, One(c), 2) /\ At(ss, 2, ws, user) /\ At(ss, user, un, pass)
       /\ At(ss, pass, pw, Len(ss) + 1) /\ ss \in Seq(V)
  <2> DEFINE up == un \o pw
             wup == ws \o up
  <2>1. up \in Seq(V) BY <1>4, ConcatFacts
  <2>2. wup \in Seq(V) BY <1>9, <2>1, ConcatFacts
  <2>3. One(c) \in Seq(V) /\ Len(One(c)) = 1 BY <1>4, OneFacts
  <2>4. ss \in Seq(V) BY <1>10, <2>2, <2>3, ConcatFacts
  <2> DEFINE e == Len(ss) + 1
  <2>5. At(ss, 1, One(c) \o wup, e) BY <1>10, <2>4, AtAll
  <2> HIDE DEF e, wup
  <2>6. At(ss, 1, One(c), 1 + Len(One(c))) /\ At(ss, 1 + Len(One(c)), wup, e)
    BY <2>2, <2>3, <2>4, <2>5, AtConcat
  <2>7. At(ss, 1, One(c), 2) /\ At(ss, 2, wup, e) BY <2>3, <2>6
  <2>8. At(ss, 2, ws \o up, e) BY <2>7 DEF wup
  <2> HIDE DEF up
  <2>9. At(ss, 2, ws, 2 + Len(ws)) /\ At(ss, 2 + Len(ws), up, e)
    BY <1>9, <2>1, <2>4, <2>8, AtConcat
  <2>10. At(ss, 2, ws, user) /\ At(ss, user, un \o pw, e) BY <1>9, <2>9 DEF up
  <2>11. At(ss, user, un, user + Len(un)) /\ At(ss, user + Len(un), pw, e)
    <3> HIDE DEF user
    <3> QED BY <1>4, <2>4, <2>10, AtConcat
  <2> QED BY <1>8, <2>4, <2>7, <2>10, <2>11 DEF e
<1> HIDE DEF user, pass
<1>12. ss[1] = c /\ SubSeq(ss, user, pass - 1) = un
  <2>1. ss[1] = c
    <3>1. Len(One(c)) = 1 /\ One(c)[1] = c /\ 1 \in 1..1 /\ 1 + 1 - 1 = 1 BY OneFacts
    <3> QED BY <1>11, <3>1, Zenon DEF At
  <2> QED BY <1>4, <1>11, <2>1, AtSubSeq
<1>13. SubSeq(ss, pass, Len(ss)) = pw /\ Len(ss) = pass + Bit(flags, 6) - 1
  <2> DEFINE e == Len(ss) + 1
  <2>1. Len(ss) \in Nat BY <1>11
  <2>2. e - 1 = Len(ss) BY <2>1
  <2>3. At(ss, pass, pw, e) BY <1>11
  <2> HIDE DEF e
  <2>4. SubSeq(ss, pass, e - 1) = pw /\ pass \in Nat /\ e = pass + Len(pw) /\ Len(pw) \in Nat
    BY <1>4, <1>11, <2>3, AtSubSeq
  <2>5. Len(ss) = pass + Len(pw) - 1 BY <2>1, <2>2, <2>4
  <2> QED BY <1>8, <2>2, <2>4, <2>5
<1>14. (IF w = 0 THEN <<>>
        ELSE <<[topicName |-> ss[2], message |-> ss[3],
                retained |-> Bit(flags, 5), qos |-> Bit(flags, 3) + 2 * Bit(flags, 4)]>>) = o.will
  <2>1. CASE o.will = <<>> BY <1>8, <2>1
  <2>2. ASSUME NEW x \in Wills, o.will = <<x>>
        PROVE  <<[topicName |-> ss[2], message |-> ss[3], retained |-> Bit(flags, 5),
                  qos |-> Bit(flags, 3) + 2 * Bit(flags, 4)]>> = o.will /\ w = 1
    <3>1. o.will = One(x) BY <2>2 DEF One
    <3>2. w = 1 BY <1>8, <2>2
    <3>3. ss[2] = ws[1] /\ ss[3] = ws[2]
      <4>1. Len(ws) = 2 /\ \A k \in 1..Len(ws) : ss[2 + k - 1] = ws[k]
        BY <1>9, <1>11, <3>2 DEF At
      <4>2. 1 \in 1..2 /\ 2 \in 1..2 /\ 2 + 1 - 1 = 2 /\ 2 + 2 - 1 = 3 OBVIOUS
      <4> QED BY <4>1, <4>2, Zenon
    <3>4. /\ ss[2] = x.topicName /\ ss[3] = x.message
          /\ Bit(flags, 3) + 2 * Bit(flags, 4) = x.qos /\ Bit(flags, 5) = x.retained
      BY <1>8, <1>9, <3>1, <3>3
    <3>5. x = [topicName |-> x.topicName, message |-> x.message,
               retained |-> x.retained, qos |-> x.qos]
      BY DEF Wills
    <3>6. x = [topicName |-> ss[2], message |-> ss[3],
               retained |-> Bit(flags, 5), qos |-> Bit(flags, 3) + 2 * Bit(flags, 4)]
      BY <3>4, <3>5, Zenon
    <3> QED BY <2>2, <3>2, <3>6, Zenon
  <2>3. CASE \E x \in Wills : o.will = <<x>>
    <3>1. 1 # 0 OBVIOUS
    <3> QED BY <2>2, <2>3, <3>1, Zenon
  <2> QED BY <2>1, <2>3, WillType
<1>15. readInt(SubSeq(d, at + 2, at + 3)) = o.keepAliveInterval BY <1>3, <1>5
<1>16. all = o
  <2>1. o = [type |-> CONNECT, MQTTVersion |-> o.MQTTVersion,
             cleansession |-> o.cleansession, keepAliveInterval |-> o.keepAliveInterval,
             clientID |-> c, will |-> o.will, username |-> un, password |-> pw]
    <3>1. o = [type |-> o.type, MQTTVersion |-> o.MQTTVersion,
               cleansession |-> o.cleansession, keepAliveInterval |-> o.keepAliveInterval,
               clientID |-> c, will |-> o.will, username |-> un, password |-> pw]
      BY DEF Connects, c, un, pw
    <3> QED BY <1>4, <3>1, Zenon
  <2> QED BY <1>6, <1>8, <1>12, <1>13, <1>14, <1>15, <2>1, Zenon
<1>17. ~bad BY <1>7, <1>13
<1> HIDE DEF bad, all
<1> QED BY <1>1, <1>16, <1>17, Zenon DEF d

\* What is sent to the client, and how it lies in b.
SentConnack(p, b) ==
  \E sp \in 0..1, rc \in 0..5 :
    /\ p = [type |-> CONNACK, sessionPresent |-> sp, connack_rc |-> rc]
    /\ Wrote(b, MQTTHeader(CONNACK, 0, 0, 0), <<128 * sp, rc>>)
\* A SUBACK, an acknowledgement or a message of the peer, and how it lies in b.
SentSuback(p, b) ==
  \E id \in Word, codes \in Seq(Nat) :
    /\ p = [type |-> SUBACK, packetid |-> id, grantedQoSs |-> codes]
    /\ Wrote(b, MQTTHeader(SUBACK, 0, 0, 0), writeInt(id) \o codes)
SentAck(p, b) ==
  \E type \in {UNSUBACK} \cup Acks, id \in Word :
    p = [type |-> type, packetid |-> id] /\ Wrote(b, AckHeader(type), writeInt(id))
SentMessage(p, b) == Message(p) /\ Wrote(b, PublishHeader(p), PublishBody(p))
\* Any of them.
Sent(p, b) == SentConnack(p, b) \/ SentSuback(p, b) \/ SentAck(p, b) \/ SentMessage(p, b)

\* What the client reads of it.
ReadOf(b) ==
  CASE TypeOf(b) = CONNACK  -> MQTTDeserialize_connack(Data(b))
    [] TypeOf(b) = SUBACK   -> MQTTDeserialize_suback(MaxCount, Data(b))
    [] TypeOf(b) = UNSUBACK -> MQTTDeserialize_unsuback(Data(b))
    [] TypeOf(b) = PUBLISH  -> MQTTDeserialize_publish(b[1], Data(b))
    [] TypeOf(b) \in Acks   -> MQTTDeserialize_ack(TypeOf(b), Data(b))

\* The types are apart.
LEMMA ReadByType ==
  ASSUME NEW b
  PROVE  /\ TypeOf(b) = CONNACK => ReadOf(b) = MQTTDeserialize_connack(Data(b))
         /\ TypeOf(b) = SUBACK => ReadOf(b) = MQTTDeserialize_suback(MaxCount, Data(b))
         /\ TypeOf(b) = UNSUBACK => ReadOf(b) = MQTTDeserialize_unsuback(Data(b))
         /\ TypeOf(b) = PUBLISH => ReadOf(b) = MQTTDeserialize_publish(b[1], Data(b))
         /\ TypeOf(b) \in Acks => ReadOf(b) = MQTTDeserialize_ack(TypeOf(b), Data(b))
<1> DEFINE t == TypeOf(b)
           r1 == MQTTDeserialize_connack(Data(b))
           r2 == MQTTDeserialize_suback(MaxCount, Data(b))
           r3 == MQTTDeserialize_unsuback(Data(b))
           r4 == MQTTDeserialize_publish(b[1], Data(b))
           r5 == MQTTDeserialize_ack(TypeOf(b), Data(b))
<1>1. ReadOf(b) = CASE t = 2 -> r1 [] t = 9 -> r2 [] t = 11 -> r3 [] t = 3 -> r4
                    [] t \in {4, 5, 6, 7} -> r5
  BY DEF ReadOf, CONNACK, SUBACK, UNSUBACK, PUBLISH, Acks, PUBACK, PUBREC, PUBREL, PUBCOMP
<1> HIDE DEF t, r1, r2, r3, r4, r5
<1>2. /\ t = 2 => ReadOf(b) = r1
      /\ t = 9 => ReadOf(b) = r2
      /\ t = 11 => ReadOf(b) = r3
      /\ t = 3 => ReadOf(b) = r4
      /\ t \in {4, 5, 6, 7} => ReadOf(b) = r5
  BY <1>1
<1> QED BY <1>2 DEF t, r1, r2, r3, r4, r5, CONNACK, SUBACK, UNSUBACK, PUBLISH, Acks, PUBACK,
           PUBREC, PUBREL, PUBCOMP

\* The client reads what was sent, if it has the room.
LEMMA SentRead ==
  ASSUME NEW p, NEW b, Sent(p, b)
  PROVE  ReadOf(b) = IF TooManyCodes(p) THEN Overrun ELSE p
<1>0. p.type # SUBACK => ~TooManyCodes(p) BY Zenon DEF TooManyCodes
<1>1. CASE SentConnack(p, b)
  <2>1. PICK sp \in 0..1, rc \in 0..5 :
          /\ p = [type |-> CONNACK, sessionPresent |-> sp, connack_rc |-> rc]
          /\ Wrote(b, MQTTHeader(CONNACK, 0, 0, 0), <<128 * sp, rc>>)
    BY <1>1 DEF SentConnack
  <2>2. Data(b) = <<128 * sp, rc>> /\ TypeOf(b) = MQTTHeader(CONNACK, 0, 0, 0) \div 16
    BY <2>1, Unframed
  <2>3. MQTTHeader(CONNACK, 0, 0, 0) \div 16 = CONNACK
    <3>1. CONNACK \in 0..15 /\ 0 \in 0..1 BY DEF CONNACK
    <3> QED BY <3>1, Header
  <2>4. ReadOf(b) = p BY <2>1, <2>2, <2>3, ReadByType, ConnackRead
  <2>5. p.type # SUBACK BY <2>1 DEF CONNACK, SUBACK
  <2> QED BY <1>0, <2>4, <2>5, Zenon
<1>2. CASE SentSuback(p, b)
  <2>1. PICK id \in Word, codes \in Seq(Nat) :
          /\ p = [type |-> SUBACK, packetid |-> id, grantedQoSs |-> codes]
          /\ Wrote(b, MQTTHeader(SUBACK, 0, 0, 0), writeInt(id) \o codes)
    BY <1>2 DEF SentSuback
  <2>2. Data(b) = writeInt(id) \o codes /\ TypeOf(b) = MQTTHeader(SUBACK, 0, 0, 0) \div 16
    BY <2>1, Unframed
  <2>3. MQTTHeader(SUBACK, 0, 0, 0) \div 16 = SUBACK
    <3>1. SUBACK \in 0..15 /\ 0 \in 0..1 BY DEF SUBACK
    <3> QED BY <3>1, Header
  <2>4. ReadOf(b) = MQTTDeserialize_suback(MaxCount, writeInt(id) \o codes)
    BY <2>2, <2>3, ReadByType
  <2>5. ReadOf(b) = IF Len(codes) > MaxCount THEN Overrun ELSE p
    BY <2>1, <2>4, SubackRead, Zenon
  <2>6. p.type = SUBACK /\ p.grantedQoSs = codes BY <2>1
  <2> QED BY <2>5, <2>6, Zenon DEF TooManyCodes
<1>3. CASE SentAck(p, b)
  <2>1. PICK type \in {UNSUBACK} \cup Acks, id \in Word :
          p = [type |-> type, packetid |-> id] /\ Wrote(b, AckHeader(type), writeInt(id))
    BY <1>3 DEF SentAck
  <2>2. Data(b) = writeInt(id) /\ TypeOf(b) = type BY <2>1, Unframed, AckHeads
  <2>3. MQTTDeserialize_ack(type, Data(b)) = p BY <2>1, <2>2, AckRead
  <2>4. ReadOf(b) = p BY <2>1, <2>2, <2>3, ReadByType DEF MQTTDeserialize_unsuback
  <2>5. p.type # SUBACK
    BY <2>1 DEF SUBACK, UNSUBACK, Acks, PUBACK, PUBREC, PUBREL, PUBCOMP
  <2> QED BY <1>0, <2>4, <2>5, Zenon
<1>4. CASE SentMessage(p, b)
  <2>1. Message(p) /\ Wrote(b, PublishHeader(p), PublishBody(p)) BY <1>4 DEF SentMessage
  <2>2. Data(b) = PublishBody(p) /\ b[1] = PublishHeader(p) /\ TypeOf(b) = PUBLISH
    BY <2>1, Unframed, PublishHeads
  <2>3. ReadOf(b) = p BY <2>1, <2>2, ReadByType, PublishRead
  <2>4. p.type # SUBACK BY <2>1 DEF Message, SUBACK, PUBLISH
  <2> QED BY <1>0, <2>3, <2>4, Zenon
<1> QED BY <1>1, <1>2, <1>3, <1>4 DEF Sent

\* What the client writes, and how it lies in b.
WroteConnect(p, b) ==
  p \in Connects /\ Wrote(b, MQTTHeader(CONNECT, 0, 0, 0), ConnectBody(p))
WroteSubscribe(p, b) ==
  p \in Subscribes /\ Wrote(b, MQTTHeader(SUBSCRIBE, p.dup, 1, 0), subscribeBody(p))
WroteUnsubscribe(p, b) ==
  p \in Unsubscribes /\ Wrote(b, MQTTHeader(UNSUBSCRIBE, p.dup, 1, 0), unsubscribeBody(p))
WroteAck(p, b) ==
  \E type \in Acks, id \in Word :
    p = [type |-> type, packetid |-> id] /\ Wrote(b, AckHeader(type), writeInt(id))
WroteZero(p, b) ==
  \E type \in {PINGREQ, DISCONNECT} :
    p = [type |-> type] /\ Wrote(b, MQTTHeader(type, 0, 0, 0), <<>>)
\* Any of them.
Written(p, b) ==
  \/ WroteConnect(p, b) \/ WroteSubscribe(p, b) \/ WroteUnsubscribe(p, b)
  \/ SentMessage(p, b) \/ WroteAck(p, b) \/ WroteZero(p, b)

\* What the server side reads of it.
ServedOf(b) ==
  IF ~Complete(b) THEN Malformed
  ELSE CASE TypeOf(b) = CONNECT -> MQTTDeserialize_connect(Data(b))
         [] TypeOf(b) = SUBSCRIBE -> MQTTDeserialize_subscribe(b[1], Data(b))
         [] TypeOf(b) = UNSUBSCRIBE -> MQTTDeserialize_unsubscribe(b[1], Data(b))
         [] TypeOf(b) = PUBLISH -> MQTTDeserialize_publish(b[1], Data(b))
         [] TypeOf(b) \in Acks  -> MQTTDeserialize_ack(TypeOf(b), Data(b))
         [] OTHER -> [type |-> TypeOf(b)]

\* By the type of the packet.
LEMMA ServedByType ==
  ASSUME NEW b, Complete(b)
  PROVE  /\ TypeOf(b) = CONNECT => ServedOf(b) = MQTTDeserialize_connect(Data(b))
         /\ TypeOf(b) = SUBSCRIBE => ServedOf(b) = MQTTDeserialize_subscribe(b[1], Data(b))
         /\ TypeOf(b) = UNSUBSCRIBE => ServedOf(b) = MQTTDeserialize_unsubscribe(b[1], Data(b))
         /\ TypeOf(b) = PUBLISH => ServedOf(b) = MQTTDeserialize_publish(b[1], Data(b))
         /\ TypeOf(b) \in Acks => ServedOf(b) = MQTTDeserialize_ack(TypeOf(b), Data(b))
         /\ TypeOf(b) \in {PINGREQ, DISCONNECT} => ServedOf(b) = [type |-> TypeOf(b)]
<1> DEFINE t == TypeOf(b)
           r1 == MQTTDeserialize_connect(Data(b))
           r2 == MQTTDeserialize_subscribe(b[1], Data(b))
           r3 == MQTTDeserialize_unsubscribe(b[1], Data(b))
           r4 == MQTTDeserialize_publish(b[1], Data(b))
           r5 == MQTTDeserialize_ack(TypeOf(b), Data(b))
           r6 == [type |-> TypeOf(b)]
<1>1. ServedOf(b) = CASE t = 1 -> r1 [] t = 8 -> r2 [] t = 10 -> r3 [] t = 3 -> r4
                      [] t \in {4, 5, 6, 7} -> r5 [] OTHER -> r6
  BY DEF ServedOf, CONNECT, SUBSCRIBE, UNSUBSCRIBE, PUBLISH, Acks, PUBACK, PUBREC, PUBREL, PUBCOMP
<1> HIDE DEF t, r1, r2, r3, r4, r5, r6
<1>2. /\ t = 1 => ServedOf(b) = r1
      /\ t = 8 => ServedOf(b) = r2
      /\ t = 10 => ServedOf(b) = r3
      /\ t = 3 => ServedOf(b) = r4
      /\ t \in {4, 5, 6, 7} => ServedOf(b) = r5
      /\ t \in {12, 14} => ServedOf(b) = r6
  BY <1>1
<1> QED BY <1>2 DEF t, r1, r2, r3, r4, r5, r6, CONNECT, SUBSCRIBE, UNSUBSCRIBE, PUBLISH, Acks,
           PUBACK, PUBREC, PUBREL, PUBCOMP, PINGREQ, DISCONNECT

\* The server reads what was written, but for the credentials it refuses and the version.
LEMMA WrittenRead ==
  ASSUME NEW p, NEW b, Written(p, b)
  PROVE  /\ ServedOf(b) = IF Refused(p) THEN Malformed ELSE HandedOut(p)
         /\ Complete(b)
         /\ TypeOf(b) = CONNECT => PeerConnect(Data(b)) = p /\ p.type = CONNECT
<1>0. \A h \in 0..1, q \in 0..1, t \in {CONNECT, SUBSCRIBE, UNSUBSCRIBE, PINGREQ, DISCONNECT} :
        MQTTHeader(t, h, q, 0) \div 16 = t
  <2>1. {CONNECT, SUBSCRIBE, UNSUBSCRIBE, PINGREQ, DISCONNECT} \subseteq 0..15
    BY DEF CONNECT, SUBSCRIBE, UNSUBSCRIBE, PINGREQ, DISCONNECT
  <2> QED BY <2>1, Header
<1>1. CASE WroteConnect(p, b)
  <2>1. p \in Connects /\ Wrote(b, MQTTHeader(CONNECT, 0, 0, 0), ConnectBody(p))
    BY <1>1 DEF WroteConnect
  <2>2. Data(b) = ConnectBody(p) /\ Complete(b) /\ TypeOf(b) = CONNECT
    <3>1. 0 \in 0..1 OBVIOUS
    <3> QED BY <1>0, <2>1, <3>1, Unframed
  <2> QED BY <2>1, <2>2, ServedByType, ConnectRead, PeerConnectRead,
            ConnectFields
<1>2. CASE WroteSubscribe(p, b)
  <2>1. p \in Subscribes /\ Wrote(b, MQTTHeader(SUBSCRIBE, p.dup, 1, 0), subscribeBody(p))
    BY <1>2 DEF WroteSubscribe
  <2>2. p.dup \in 0..1 /\ p.type = SUBSCRIBE BY <2>1 DEF Subscribes
  <2>3. /\ Data(b) = subscribeBody(p) /\ Complete(b) /\ TypeOf(b) = SUBSCRIBE
        /\ b[1] = MQTTHeader(SUBSCRIBE, p.dup, 1, 0)
    <3>1. 1 \in 0..1 OBVIOUS
    <3> QED BY <1>0, <2>1, <2>2, <3>1, Unframed
  <2>4. SUBSCRIBE # CONNECT BY DEF SUBSCRIBE, CONNECT
  <2>5. ServedOf(b) = p BY <2>1, <2>3, ServedByType, SubscribeRead
  <2> QED BY <2>2, <2>3, <2>4, <2>5, Zenon DEF Refused, HandedOut
<1>3. CASE WroteUnsubscribe(p, b)
  <2>1. /\ p \in Unsubscribes
        /\ Wrote(b, MQTTHeader(UNSUBSCRIBE, p.dup, 1, 0), unsubscribeBody(p))
    BY <1>3 DEF WroteUnsubscribe
  <2>2. p.dup \in 0..1 /\ p.type = UNSUBSCRIBE BY <2>1 DEF Unsubscribes
  <2>3. /\ Data(b) = unsubscribeBody(p) /\ Complete(b) /\ TypeOf(b) = UNSUBSCRIBE
        /\ b[1] = MQTTHeader(UNSUBSCRIBE, p.dup, 1, 0)
    <3>1. 1 \in 0..1 OBVIOUS
    <3> QED BY <1>0, <2>1, <2>2, <3>1, Unframed
  <2>4. UNSUBSCRIBE # CONNECT BY DEF UNSUBSCRIBE, CONNECT
  <2>5. ServedOf(b) = p BY <2>1, <2>3, ServedByType, UnsubscribeRead
  <2> QED BY <2>2, <2>3, <2>4, <2>5, Zenon DEF Refused, HandedOut
<1>4. CASE SentMessage(p, b)
  <2>1. Message(p) /\ Wrote(b, PublishHeader(p), PublishBody(p)) BY <1>4 DEF SentMessage
  <2>2. /\ Data(b) = PublishBody(p) /\ b[1] = PublishHeader(p) /\ TypeOf(b) = PUBLISH
        /\ Complete(b)
    BY <2>1, Unframed, PublishHeads
  <2>3. p.type = PUBLISH BY <2>1 DEF Message
  <2>4. PUBLISH # CONNECT BY DEF PUBLISH, CONNECT
  <2>5. ServedOf(b) = p BY <2>1, <2>2, ServedByType, PublishRead
  <2> QED BY <2>2, <2>3, <2>4, <2>5, Zenon DEF Refused, HandedOut
<1>5. CASE WroteAck(p, b)
  <2>1. PICK type \in Acks, id \in Word :
          p = [type |-> type, packetid |-> id] /\ Wrote(b, AckHeader(type), writeInt(id))
    BY <1>5 DEF WroteAck
  <2>2. Data(b) = writeInt(id) /\ TypeOf(b) = type /\ Complete(b) BY <2>1, Unframed, AckHeads
  <2>3. MQTTDeserialize_ack(type, Data(b)) = p BY <2>1, <2>2, AckRead
  <2>4. p.type = type BY <2>1
  <2>5. type # CONNECT BY DEF Acks, PUBACK, PUBREC, PUBREL, PUBCOMP, CONNECT
  <2>6. ServedOf(b) = p BY <2>1, <2>2, <2>3, ServedByType
  <2> QED BY <2>2, <2>4, <2>5, <2>6, Zenon DEF Refused, HandedOut
<1>6. CASE WroteZero(p, b)
  <2>1. PICK type \in {PINGREQ, DISCONNECT} :
          p = [type |-> type] /\ Wrote(b, MQTTHeader(type, 0, 0, 0), <<>>)
    BY <1>6 DEF WroteZero
  <2>2. TypeOf(b) = type /\ Complete(b)
    <3>1. 0 \in 0..1 OBVIOUS
    <3> QED BY <1>0, <2>1, <3>1, Unframed
  <2>3. p.type = type BY <2>1
  <2>4. type # CONNECT BY DEF PINGREQ, DISCONNECT, CONNECT
  <2>5. ServedOf(b) = p BY <2>1, <2>2, ServedByType
  <2> QED BY <2>2, <2>3, <2>4, <2>5, Zenon DEF Refused, HandedOut
<1> QED BY <1>1, <1>2, <1>3, <1>4, <1>5, <1>6 DEF Written

\* What MQTTPacket_len announces is what is written, or one byte more.
LEMMA Measured ==
  ASSUME NEW l \in Nat
  PROVE  MQTTPacket_len(l) \in {1 + DigitCount(l) + l, 2 + DigitCount(l) + l}
<1> DEFINE a == Base
           b == Base * Base
           c == Base * Base * Base
           n == l + 1
<1>1. a \in Nat /\ b \in Nat /\ c \in Nat /\ a < b /\ b < c - 1
  <2>1. a \in Nat /\ b \in Nat /\ c \in Nat /\ a >= 3 /\ a < b /\ c = a * b BY BaseType, Powers
  <2> HIDE DEF a, b, c
  <2>2. a * b >= 3 * b BY <2>1, SMT
  <2> QED BY <2>1, <2>2
<1>2. MQTTPacket_len(l) = n + (IF n < a THEN 1 ELSE IF n < b THEN 2 ELSE IF n < c - 1 THEN 3 ELSE 4)
  BY Zenon DEF MQTTPacket_len
<1>3. DigitCount(l) = IF l < a THEN 1 ELSE IF l < b THEN 2 ELSE IF l < c THEN 3 ELSE 4
  BY Zenon DEF DigitCount
<1> DEFINE k == DigitCount(l)
           m == MQTTPacket_len(l)
           x == IF l + 1 < a THEN 1 ELSE IF l + 1 < b THEN 2 ELSE IF l + 1 < c - 1 THEN 3 ELSE 4
<1>4. k = IF l < a THEN 1 ELSE IF l < b THEN 2 ELSE IF l < c THEN 3 ELSE 4 BY <1>3
<1>5. m = (l + 1) + x BY <1>2
<1> HIDE DEF a, b, c, k, m
<1>6. k \in 1..4 /\ (x = k \/ x = k + 1)
  <2>1. CASE l < a BY <1>1, <1>4, <2>1
  <2>2. CASE ~(l < a) /\ l < b BY <1>1, <1>4, <2>2
  <2>3. CASE ~(l < b) /\ l < c BY <1>1, <1>4, <2>3
  <2>4. CASE ~(l < c) BY <1>1, <1>4, <2>4
  <2> QED BY <2>1, <2>2, <2>3, <2>4
<1> HIDE DEF x
<1>7. m = 1 + k + l \/ m = 2 + k + l BY <1>5, <1>6
<1> QED BY <1>7 DEF k, m

-----------------------------------------------------------------------------
(* What the peer sends *)

\* A packet of the peer is framed as the client would frame it.
LEMMA PeerFramed ==
  ASSUME NEW header \in Nat, NEW body \in Seq(Nat), Len(body) < Base * Base * Base
  PROVE  Wrote(<<header>> \o PeerDigits(Len(body)) \o body, header, body)
<1> DEFINE n == Len(body)
<1>1. n \in Nat /\ n < Base * Base * Base OBVIOUS
<1> HIDE DEF n
<1>2. PeerDigits(n) = MQTTPacket_encode[n] /\ IsRemLen(n) BY <1>1, PeerEncodes
<1>3. <<header>> \o PeerDigits(n) \o body = Bytes(header, n, body) BY <1>2 DEF Bytes
<1>4. IsRemLen(Len(body)) /\ Len(body) \in Nat BY <1>1, <1>2 DEF n
<1>5. <<header>> \o PeerDigits(Len(body)) \o body = Bytes(header, Len(body), body) BY <1>3 DEF n
<1> QED BY <1>4, <1>5, Zenon DEF Wrote

\* The body of a packet of the peer, by its type.
LEMMA PeerBodies ==
  ASSUME NEW p
  PROVE  /\ p.type = CONNACK => PeerBody(p) = <<p.sessionPresent, p.connack_rc>>
         /\ p.type = SUBACK => PeerBody(p) = TwoBytes(p.packetid) \o p.grantedQoSs
         /\ p.type = PUBLISH =>
              PeerBody(p) = TwoBytes(Len(p.topicName)) \o p.topicName
                              \o (IF p.qos > 0 THEN TwoBytes(p.packetid) ELSE <<>>) \o p.payload
         /\ p.type \in {UNSUBACK} \cup Acks => PeerBody(p) = TwoBytes(p.packetid)
<1> DEFINE t == p.type
           r1 == <<p.sessionPresent, p.connack_rc>>
           r2 == TwoBytes(p.packetid) \o p.grantedQoSs
           r3 == TwoBytes(Len(p.topicName)) \o p.topicName
                   \o (IF p.qos > 0 THEN TwoBytes(p.packetid) ELSE <<>>) \o p.payload
           r4 == TwoBytes(p.packetid)
<1>1. PeerBody(p) = CASE t = 2 -> r1 [] t = 9 -> r2 [] t = 3 -> r3 [] OTHER -> r4
  BY DEF PeerBody, CONNACK, SUBACK, PUBLISH
<1> HIDE DEF t, r1, r2, r3, r4
<1>2. /\ t = 2 => PeerBody(p) = r1
      /\ t = 9 => PeerBody(p) = r2
      /\ t = 3 => PeerBody(p) = r3
      /\ t \in {11, 4, 5, 6, 7} => PeerBody(p) = r4
  BY <1>1
<1> QED BY <1>2 DEF t, r1, r2, r3, r4, CONNACK, SUBACK, UNSUBACK, PUBLISH, Acks, PUBACK, PUBREC,
           PUBREL, PUBCOMP

\* The peer's packets are those that are read.
LEMMA PeerWrites ==
  ASSUME NEW p \in PeerPackets
  PROVE  Sent(p, <<PeerHeader(p)>> \o PeerDigits(Len(PeerBody(p))) \o PeerBody(p))
<1> DEFINE h == PeerHeader(p)
           d == PeerBody(p)
           b == <<h>> \o PeerDigits(Len(d)) \o d
           M == Base * Base * Base
<1>1. M \in Nat /\ MaxNameLen \in Nat /\ 5 + MaxNameLen < M
  <2>1. MaxNameLen \in Nat BY CodecAssumption, WordType
  <2> QED BY <2>1, LengthAssumption, Powers
<1>2. ASSUME NEW header \in Nat, NEW body \in Seq(Nat), h = header, d = body,
             Len(body) <= 5 + MaxNameLen
      PROVE  Wrote(b, header, body)
  <2> DEFINE n == Len(body)
  <2>1. n \in Nat /\ n <= 5 + MaxNameLen BY <1>2
  <2>2. n < M
    <3> HIDE DEF n, M
    <3> QED BY <1>1, <2>1
  <2>3. Len(body) < Base * Base * Base BY <2>2
  <2> HIDE DEF h, d
  <2> QED BY <1>2, <2>3, PeerFramed
<1>3. CASE p \in [type : {CONNACK}, sessionPresent : {0}, connack_rc : 0..5]
  <2> DEFINE rc == p.connack_rc
             body == <<128 * 0, rc>>
             header == MQTTHeader(CONNACK, 0, 0, 0)
  <2>1. rc \in 0..5 /\ p.type = CONNACK /\ p.sessionPresent = 0
        /\ p = [type |-> CONNACK, sessionPresent |-> 0, connack_rc |-> rc]
    BY <1>3
  <2>2. d = body
    <3>1. d = <<p.sessionPresent, p.connack_rc>> BY <2>1, PeerBodies
    <3>2. 128 * 0 = 0 OBVIOUS
    <3> QED BY <2>1, <3>1, <3>2, Zenon
  <2>3. h = header /\ header \in Nat
    BY <2>1, SMT DEF PeerHeader, MQTTHeader, CONNACK, PUBLISH, PUBREL
  <2>4. body \in Seq(Nat) /\ Len(body) = 2 BY <2>1
  <2>5. Len(body) <= 5 + MaxNameLen BY <1>1, <2>4
  <2> HIDE DEF h, d, b, body, header
  <2>6. Wrote(b, header, body) BY <1>2, <2>2, <2>3, <2>4, <2>5
  <2>7. SentConnack(p, b)
    <3>1. 0 \in 0..1 OBVIOUS
    <3> QED BY <2>1, <2>6, <3>1, Zenon DEF SentConnack, header, body
  <2> QED BY <2>7 DEF Sent, b, h, d
<1>4. CASE p \in [type : {SUBACK}, packetid : PacketIds,
                  grantedQoSs : {<<q>> : q \in {0, 1, 2, 128}}]
  <2> DEFINE id == p.packetid
             codes == p.grantedQoSs
             body == writeInt(id) \o codes
             header == MQTTHeader(SUBACK, 0, 0, 0)
  <2>1. /\ p = [type |-> SUBACK, packetid |-> id, grantedQoSs |-> codes] /\ p.type = SUBACK
        /\ id \in PacketIds /\ codes \in {<<q>> : q \in {0, 1, 2, 128}}
    BY <1>4
  <2>2. codes \in Seq(Nat) /\ Len(codes) = 1 /\ id \in Word
    <3>1. PICK q \in {0, 1, 2, 128} : codes = <<q>> BY <2>1
    <3> HIDE DEF codes
    <3> QED BY <2>1, <3>1, CodecAssumption
  <2>3. d = body
    <3>2. d = TwoBytes(id) \o codes BY <2>1, PeerBodies
    <3>3. TwoBytes(id) = writeInt(id) BY <2>2, IntType
    <3> QED BY <3>2, <3>3, Zenon
  <2>4. h = header /\ header \in Nat
    BY <2>1, SMT DEF PeerHeader, MQTTHeader, SUBACK, PUBLISH, PUBREL
  <2>5. body \in Seq(Nat) /\ Len(body) = 3
    <3> HIDE DEF id, codes, body
    <3>1. body \in Seq(Nat) /\ Len(body) = 2 + Len(codes) BY <2>2, IdParts DEF body
    <3> QED BY <2>2, <3>1
  <2>6. Len(body) <= 5 + MaxNameLen BY <1>1, <2>5
  <2> HIDE DEF h, d, b, body, header, id, codes
  <2>7. Wrote(b, header, body) BY <1>2, <2>3, <2>4, <2>5, <2>6
  <2>8. SentSuback(p, b) BY <2>1, <2>2, <2>7, Zenon DEF SentSuback, header, body
  <2> QED BY <2>8 DEF Sent, b, h, d
<1>5. CASE p \in [type : {UNSUBACK} \cup Acks, packetid : PacketIds]
  <2> DEFINE id == p.packetid
             type == p.type
             body == writeInt(id)
             header == AckHeader(type)
  <2>1. /\ p = [type |-> type, packetid |-> id] /\ type \in {UNSUBACK} \cup Acks
        /\ id \in PacketIds
    BY <1>5
  <2>2. id \in Word BY <2>1, CodecAssumption
  <2>3. body \in Seq(Nat) /\ Len(body) = 2 /\ header \in Nat BY <2>1, <2>2, IntType, AckHeads
  <2>4. d = body
    <3>2. d = TwoBytes(id) BY <2>1, PeerBodies
    <3> QED BY <2>2, <3>2, IntType
  <2>5. h = header
    <3>1. type # PUBLISH /\ type \in Nat
      BY <2>1 DEF PUBLISH, UNSUBACK, Acks, PUBACK, PUBREC, PUBREL, PUBCOMP
    <3>2. h = 16 * type + IF type = PUBREL THEN 2 ELSE 0 BY <3>1 DEF PeerHeader
    <3>3. header = 16 * type + 8 * 0 + 2 * (IF type = PUBREL THEN 1 ELSE 0) + 0
      BY DEF AckHeader, MQTTHeader
    <3> HIDE DEF h, header, type
    <3> QED BY <3>1, <3>2, <3>3
  <2>6. Len(body) <= 5 + MaxNameLen BY <1>1, <2>3
  <2> HIDE DEF h, d, b, body, header, id, type
  <2>7. Wrote(b, header, body) BY <1>2, <2>3, <2>4, <2>5, <2>6
  <2>8. SentAck(p, b) BY <2>1, <2>2, <2>7, Zenon DEF SentAck, header, body
  <2> QED BY <2>8 DEF Sent, b, h, d
<1>6. CASE p \in Publishes(TopicNames, {1})
  <2> DEFINE body == PublishBody(p)
             header == PublishHeader(p)
             n == Len(p.topicName)
  <2>1. Message(p) /\ p.topicName \in TopicNames /\ Len(p.payload) = 1
    <3>1. \A t \in TopicNames : t \in Seq(Nat) /\ Len(t) \in Word /\ Len(t) \in Nat BY NamesType
    <3>2. {1} \subseteq Nat OBVIOUS
    <3>3. Message(p) /\ p.topicName \in TopicNames /\ Len(p.payload) \in {1}
      BY <1>6, <3>1, <3>2, PublishesType
    <3> QED BY <3>3
  <2>2. header \in Nat /\ h = header BY <2>1, PublishHeads
  <2>3. d = body
    <3>1. p.type = PUBLISH /\ p.packetid \in Word /\ Len(p.topicName) \in Word BY <2>1 DEF Message
    <3>3. d = TwoBytes(Len(p.topicName)) \o p.topicName
                \o (IF p.qos > 0 THEN TwoBytes(p.packetid) ELSE <<>>) \o p.payload
      BY <3>1, PeerBodies
    <3>4. TwoBytes(Len(p.topicName)) = writeInt(Len(p.topicName))
          /\ TwoBytes(p.packetid) = writeInt(p.packetid)
      BY <3>1, IntType
    <3> QED BY <3>3, <3>4, Zenon DEF PublishBody, writeMQTTString
  <2>4. body \in Seq(Nat) /\ Len(body) <= 5 + MaxNameLen
    <3>1. /\ body \in Seq(Nat) /\ Len(body) = publishLength(p.qos, p.topicName, Len(p.payload))
          /\ publishLength(p.qos, p.topicName, Len(p.payload)) <= 4 + n + 1
          /\ publishLength(p.qos, p.topicName, Len(p.payload)) \in Nat
      BY <2>1, PublishParts
    <3>2. n \in Nat /\ n <= MaxNameLen BY <1>1, <2>1, NamesType
    <3> DEFINE l == publishLength(p.qos, p.topicName, Len(p.payload))
    <3> HIDE DEF l, n, body
    <3>3. l <= 4 + n + 1 /\ l \in Nat /\ Len(body) = l BY <3>1 DEF l
    <3>4. l <= 5 + MaxNameLen BY <1>1, <3>2, <3>3
    <3> QED BY <3>1, <3>3, <3>4
  <2> HIDE DEF h, d, b, body, header
  <2>5. Wrote(b, header, body) BY <1>2, <2>2, <2>3, <2>4
  <2>6. SentMessage(p, b) BY <2>1, <2>5 DEF SentMessage, header, body
  <2> QED BY <2>6 DEF Sent, b, h, d
<1> QED BY <1>3, <1>4, <1>5, <1>6 DEF PeerPackets

\* What lies in the buffer at each stage; Fits is inductive by itself, and the two readings
\* follow from the bytes.
CodecInv ==
  /\ stage = "idle" => needed = 0
  /\ stage = "received" /\ buf # <<>> => Sent(packet, buf)
  /\ stage = "written" /\ buf # <<>> => Written(packet, buf)
  /\ Fits /\ RoundTrip /\ ServerUnderstands

\* A writer whose limit is what the packet takes, or one more, keeps to its buffer.
LEMMA SerializeFits ==
  ASSUME NEW to, NEW p, NEW header \in Nat, NEW l, NEW limit \in Nat, NEW body,
         Announced(body, l), CodecAssumption,
         SerializeTo(to, p, header, l, limit, body)
  PROVE  /\ stage' = to /\ packet' = p
         /\ buf' # <<>> => Wrote(buf', header, body)
         /\ to = "written" /\ limit \in {1 + DigitCount(l) + l, 2 + DigitCount(l) + l} => Fits'
         /\ to = "received" /\ limit = l => Fits'
<1> DEFINE bytes == Bytes(header, l, body)
           k == DigitCount(l)
<1>1. body \in Seq(Nat) /\ l \in Nat /\ Len(body) = l /\ IsRemLen(l) BY DEF Announced
<1>2. Wrote(bytes, header, body)
  <2>1. IsRemLen(Len(body)) /\ Len(body) \in Nat /\ bytes = Bytes(header, Len(body), body)
    BY <1>1
  <2> HIDE DEF bytes
  <2> QED BY <1>1, <2>1, Zenon DEF Wrote
<1>3. bytes # <<>> /\ Len(bytes) = 1 + k + l /\ Digits(Tail(bytes)) = k
  <2> HIDE DEF bytes
  <2> QED BY <1>1, <1>2, Unframed
<1>4. k \in Nat BY DEF DigitCount
<1>5. stage' = to /\ packet' = p /\ needed' = Len(bytes) BY DEF SerializeTo
<1>6. PICK size \in BufSizes : /\ buflen' = size
                               /\ buf' = IF limit > size THEN <<>> ELSE bytes
  BY DEF SerializeTo
<1> HIDE DEF bytes, k
<1>7. size \in Nat BY <1>6, CodecAssumption
<1>8. buf' # <<>> => Wrote(buf', header, body) BY <1>2, <1>6
<1>9. CASE limit > size
  <2>1. buf' = <<>> BY <1>6, <1>9
  <2>2. limit \in {1 + k + l, 2 + k + l} => needed' >= buflen'
    BY <1>1, <1>3, <1>4, <1>5, <1>6, <1>7, <1>9
  <2>3. limit = l => needed' >= buflen' BY <1>1, <1>3, <1>4, <1>5, <1>6, <1>7, <1>9
  <2>4. needed' >= buflen' => Fits' BY <2>1 DEF Fits
  <2> QED BY <1>5, <1>8, <2>2, <2>3, <2>4 DEF k
<1>10. CASE ~(limit > size)
  <2>1. buf' = bytes /\ buf' # <<>> BY <1>3, <1>6, <1>10
  <2>2. Len(buf') = 1 + k + l /\ Digits(Tail(buf')) = k BY <1>3, <2>1
  <2>3. limit \in {1 + k + l, 2 + k + l} => Len(buf') <= buflen'
    BY <1>1, <1>4, <1>6, <1>7, <1>10, <2>2
  <2>4. limit = l => Len(buf') <= buflen' + (1 + k) BY <1>1, <1>4, <1>6, <1>7, <1>10, <2>2
  <2>5. to = "written" /\ Len(buf') <= buflen' => Fits'
    <3>1. buflen' + 0 = buflen' BY <1>6, <1>7
    <3> QED BY <1>5, <2>1, <3>1, Zenon DEF Fits
  <2>6. to = "received" /\ Len(buf') <= buflen' + (1 + k) => Fits'
    <3>1. "received" # "written" OBVIOUS
    <3> QED BY <1>5, <2>1, <2>2, <3>1, Zenon DEF Fits
  <2> QED BY <1>5, <1>8, <2>3, <2>4, <2>5, <2>6 DEF k
<1> QED BY <1>9, <1>10

\* What the client writes, by any of its functions.
LEMMA WrittenStep ==
  ASSUME NEW p, NEW header \in Nat, NEW l, NEW limit \in Nat, NEW body, Announced(body, l),
         limit \in {1 + DigitCount(l) + l, 2 + DigitCount(l) + l},
         \A b : Wrote(b, header, body) => Written(p, b),
         Serialize(p, header, l, limit, body)
  PROVE  CodecInv'
<1>1. SerializeTo("written", p, header, l, limit, body) BY DEF Serialize
<1>2. /\ stage' = "written" /\ packet' = p /\ Fits'
      /\ buf' # <<>> => Wrote(buf', header, body)
  BY <1>1, CodecAssumption, SerializeFits
<1>3. buf' # <<>> => Written(packet', buf') BY <1>2
<1> QED BY <1>2, <1>3 DEF CodecInv, RoundTrip, ServerUnderstands

\* What the server side answers.
LEMMA AnswerStep ==
  ASSUME NEW p, NEW header \in Nat, NEW l, NEW body, Announced(body, l),
         \A b : Wrote(b, header, body) => Sent(p, b),
         SerializeTo("received", p, header, l, l, body)
  PROVE  CodecInv'
<1>1. l \in Nat BY DEF Announced
<1>2. /\ stage' = "received" /\ packet' = p /\ Fits'
      /\ buf' # <<>> => Wrote(buf', header, body)
  BY <1>1, CodecAssumption, SerializeFits
<1>3. buf' # <<>> => Sent(packet', buf') BY <1>2
<1> QED BY <1>2, <1>3 DEF CodecInv, RoundTrip, ServerUnderstands

\* A length as MQTTPacket_len tells it.
LEMMA LimitType ==
  ASSUME NEW l \in Nat
  PROVE  /\ MQTTPacket_len(l) \in Nat
         /\ MQTTPacket_len(l) \in {1 + DigitCount(l) + l, 2 + DigitCount(l) + l}
<1>1. DigitCount(l) \in Nat BY DEF DigitCount
<1> DEFINE k == DigitCount(l)
           m == MQTTPacket_len(l)
<1>2. k \in Nat /\ m \in {1 + k + l, 2 + k + l} BY <1>1, Measured
<1> HIDE DEF k, m
<1>3. m \in Nat BY <1>2
<1> QED BY <1>2, <1>3 DEF k, m

\* Small lengths take one digit.
LEMMA DigitCountSmall ==
  DigitCount(0) = 1 /\ DigitCount(2) = 1
BY BaseType DEF DigitCount

\* No packet is there at first.
LEMMA CodecInit == Init => CodecInv
BY DEF Init, CodecInv, Fits, RoundTrip, ServerUnderstands

\* Every step keeps the invariant.
LEMMA CodecNext ==
  ASSUME CodecInv, [Next]_vars
  PROVE  CodecInv'
<1>1. ASSUME SerializeConnect PROVE CodecInv'
  <2>1. PICK o \in Connects :
          Serialize(o, MQTTHeader(CONNECT, 0, 0, 0), connectLength(o),
                    MQTTPacket_len(connectLength(o)), ConnectBody(o))
    BY <1>1 DEF SerializeConnect, Connects
  <2> DEFINE h == MQTTHeader(CONNECT, 0, 0, 0)
             l == connectLength(o)
             body == ConnectBody(o)
             limit == MQTTPacket_len(l)
  <2>2. h \in Nat
    <3>1. CONNECT \in 0..15 /\ 0 \in 0..1 BY DEF CONNECT
    <3> QED BY <3>1, Header
  <2>3. Announced(body, l) BY ConnectWritten
  <2>4. \A b : Wrote(b, h, body) => Written(o, b) BY Zenon DEF Written, WroteConnect
  <2>5. Serialize(o, h, l, limit, body) BY <2>1
  <2> HIDE DEF h, l, body
  <2>6. l \in Nat BY <2>3 DEF Announced
  <2>7. limit \in Nat /\ limit \in {1 + DigitCount(l) + l, 2 + DigitCount(l) + l}
    BY <2>6, LimitType
  <2> HIDE DEF limit
  <2> QED BY <2>2, <2>3, <2>4, <2>5, <2>7, WrittenStep
<1>2. ASSUME SerializeSubscribe PROVE CodecInv'
  <2>1. PICK p \in Subscribes :
          Serialize(p, MQTTHeader(SUBSCRIBE, p.dup, 1, 0), subscribeLength(p.requests),
                    MQTTPacket_len(subscribeLength(p.requests)), subscribeBody(p))
    BY <1>2 DEF SerializeSubscribe, Subscribes, Requested
  <2> DEFINE h == MQTTHeader(SUBSCRIBE, p.dup, 1, 0)
             l == subscribeLength(p.requests)
             body == subscribeBody(p)
             limit == MQTTPacket_len(l)
  <2>2. h \in Nat
    <3>1. SUBSCRIBE \in 0..15 /\ p.dup \in 0..1 /\ 1 \in 0..1 BY DEF SUBSCRIBE, Subscribes
    <3> QED BY <3>1, Header
  <2>3. Announced(body, l) BY SubscribeWritten
  <2>4. \A b : Wrote(b, h, body) => Written(p, b) BY Zenon DEF Written, WroteSubscribe
  <2>5. Serialize(p, h, l, limit, body) BY <2>1
  <2> HIDE DEF h, l, body
  <2>6. l \in Nat BY <2>3 DEF Announced
  <2>7. limit \in Nat /\ limit \in {1 + DigitCount(l) + l, 2 + DigitCount(l) + l}
    BY <2>6, LimitType
  <2> HIDE DEF limit
  <2> QED BY <2>2, <2>3, <2>4, <2>5, <2>7, WrittenStep
<1>3. ASSUME SerializeUnsubscribe PROVE CodecInv'
  <2>1. PICK p \in Unsubscribes :
          Serialize(p, MQTTHeader(UNSUBSCRIBE, p.dup, 1, 0), unsubscribeLength(p.topicFilters),
                    MQTTPacket_len(unsubscribeLength(p.topicFilters)), unsubscribeBody(p))
    BY <1>3 DEF SerializeUnsubscribe, Unsubscribes
  <2> DEFINE h == MQTTHeader(UNSUBSCRIBE, p.dup, 1, 0)
             l == unsubscribeLength(p.topicFilters)
             body == unsubscribeBody(p)
             limit == MQTTPacket_len(l)
  <2>2. h \in Nat
    <3>1. UNSUBSCRIBE \in 0..15 /\ p.dup \in 0..1 /\ 1 \in 0..1 BY DEF UNSUBSCRIBE, Unsubscribes
    <3> QED BY <3>1, Header
  <2>3. Announced(body, l) BY UnsubscribeWritten
  <2>4. \A b : Wrote(b, h, body) => Written(p, b) BY Zenon DEF Written, WroteUnsubscribe
  <2>5. Serialize(p, h, l, limit, body) BY <2>1
  <2> HIDE DEF h, l, body
  <2>6. l \in Nat BY <2>3 DEF Announced
  <2>7. limit \in Nat /\ limit \in {1 + DigitCount(l) + l, 2 + DigitCount(l) + l}
    BY <2>6, LimitType
  <2> HIDE DEF limit
  <2> QED BY <2>2, <2>3, <2>4, <2>5, <2>7, WrittenStep
<1>4. ASSUME SerializePublish PROVE CodecInv'
  <2>1. PICK p \in Publishes(Strings, PayloadLens) :
          Serialize(p, PublishHeader(p), publishLength(p.qos, p.topicName, Len(p.payload)),
                    MQTTPacket_len(publishLength(p.qos, p.topicName, Len(p.payload))),
                    PublishBody(p))
    BY <1>4 DEF SerializePublish
  <2> DEFINE h == PublishHeader(p)
             l == publishLength(p.qos, p.topicName, Len(p.payload))
             body == PublishBody(p)
             limit == MQTTPacket_len(l)
  <2>2. h \in Nat /\ Announced(body, l) /\ Message(p) BY PublishWritten, PublishHeads
  <2>3. \A b : Wrote(b, h, body) => Written(p, b) BY <2>2, Zenon DEF Written, SentMessage
  <2>4. Serialize(p, h, l, limit, body) BY <2>1
  <2> HIDE DEF h, l, body
  <2>5. l \in Nat BY <2>2 DEF Announced
  <2>6. limit \in Nat /\ limit \in {1 + DigitCount(l) + l, 2 + DigitCount(l) + l}
    BY <2>5, LimitType
  <2> HIDE DEF limit
  <2> QED BY <2>2, <2>3, <2>4, <2>6, WrittenStep
<1>5. ASSUME SerializeAck PROVE CodecInv'
  <2>1. PICK p \in [type : Acks, packetid : PacketIds] :
          Serialize(p, AckHeader(p.type), 2, 4, writeInt(p.packetid))
    BY <1>5 DEF SerializeAck
  <2>2. /\ p = [type |-> p.type, packetid |-> p.packetid] /\ p.type \in Acks
        /\ p.packetid \in PacketIds
    OBVIOUS
  <2>3. p.packetid \in Word BY <2>2, CodecAssumption
  <2> DEFINE h == AckHeader(p.type)
             body == writeInt(p.packetid)
             limit == 4
  <2>4. h \in Nat /\ Announced(body, 2) BY <2>2, <2>3, AckHeads, AckWritten
  <2>5. \A b : Wrote(b, h, body) => Written(p, b) BY <2>2, <2>3, Zenon DEF Written, WroteAck
  <2>6. Serialize(p, h, 2, limit, body) BY <2>1
  <2>7. limit \in Nat /\ limit \in {1 + DigitCount(2) + 2, 2 + DigitCount(2) + 2}
    BY DigitCountSmall
  <2> HIDE DEF h, body, limit
  <2> QED BY <2>4, <2>5, <2>6, <2>7, WrittenStep
<1>6. ASSUME SerializeZero PROVE CodecInv'
  <2>1. PICK p \in [type : {PINGREQ, DISCONNECT}] :
          Serialize(p, MQTTHeader(p.type, 0, 0, 0), 0, 2, <<>>)
    BY <1>6 DEF SerializeZero
  <2>2. p = [type |-> p.type] /\ p.type \in {PINGREQ, DISCONNECT} OBVIOUS
  <2> DEFINE h == MQTTHeader(p.type, 0, 0, 0)
             body == <<>>
             limit == 2
  <2>3. h \in Nat
    <3>1. p.type \in 0..15 /\ 0 \in 0..1 BY <2>2 DEF PINGREQ, DISCONNECT
    <3> QED BY <3>1, Header
  <2>4. Announced(body, 0)
    <3>1. 0 \in 0..9 /\ 0 \in Nat /\ <<>> \in Seq(Nat) /\ Len(<<>>) = 0 OBVIOUS
    <3> QED BY <3>1, SmallLengths DEF Announced
  <2>5. \A b : Wrote(b, h, body) => Written(p, b) BY <2>2, Zenon DEF Written, WroteZero
  <2>6. Serialize(p, h, 0, limit, body) BY <2>1
  <2>7. limit \in Nat /\ limit \in {1 + DigitCount(0) + 0, 2 + DigitCount(0) + 0}
    BY DigitCountSmall
  <2> HIDE DEF h, body, limit
  <2> QED BY <2>3, <2>4, <2>5, <2>6, <2>7, WrittenStep
<1>7. ASSUME PeerSends PROVE CodecInv'
  <2>1. /\ stage = "idle" /\ stage' = "received" /\ needed' = needed
        /\ \E p \in PeerPackets :
             /\ packet' = p
             /\ buf' = <<PeerHeader(p)>> \o PeerDigits(Len(PeerBody(p))) \o PeerBody(p)
    BY <1>7 DEF PeerSends
  <2>2. Sent(packet', buf') BY <2>1, PeerWrites
  <2>3. needed' = 0 BY <2>1 DEF CodecInv
  <2>4. Fits' BY <2>3 DEF Fits
  <2> QED BY <2>1, <2>2, <2>4 DEF CodecInv, RoundTrip, ServerUnderstands
<1>8. ASSUME MQTTSerialize_connack PROVE CodecInv'
  <2>1. PICK p \in [type : {CONNACK}, sessionPresent : 0..1, connack_rc : 0..5] :
          SerializeTo("received", p, MQTTHeader(CONNACK, 0, 0, 0), 2, 2,
                      <<128 * p.sessionPresent, p.connack_rc>>)
    BY <1>8 DEF MQTTSerialize_connack
  <2> DEFINE sp == p.sessionPresent
             rc == p.connack_rc
             h == MQTTHeader(CONNACK, 0, 0, 0)
             body == <<128 * sp, rc>>
  <2>2. /\ p = [type |-> CONNACK, sessionPresent |-> sp, connack_rc |-> rc]
        /\ sp \in 0..1 /\ rc \in 0..5
    OBVIOUS
  <2>3. h \in Nat
    <3>1. CONNACK \in 0..15 /\ 0 \in 0..1 BY DEF CONNACK
    <3> QED BY <3>1, Header
  <2>4. SerializeTo("received", p, h, 2, 2, body) BY <2>1
  <2> HIDE DEF sp, rc
  <2>5. Announced(body, 2) BY <2>2, ConnackRead
  <2>6. \A b : Wrote(b, h, body) => Sent(p, b) BY <2>2, Zenon DEF Sent, SentConnack
  <2> HIDE DEF h, body
  <2> QED BY <2>3, <2>4, <2>5, <2>6, AnswerStep
<1>9. ASSUME MQTTSerialize_suback PROVE CodecInv'
  <2>1. PICK p \in [type : {SUBACK}, packetid : PacketIds, grantedQoSs : Lists({0, 1, 2, 128})] :
          SerializeTo("received", p, MQTTHeader(SUBACK, 0, 0, 0), 2 + Len(p.grantedQoSs),
                      2 + Len(p.grantedQoSs), writeInt(p.packetid) \o p.grantedQoSs)
    BY <1>9 DEF MQTTSerialize_suback
  <2> DEFINE id == p.packetid
             codes == p.grantedQoSs
             h == MQTTHeader(SUBACK, 0, 0, 0)
             l == 2 + Len(codes)
             body == writeInt(id) \o codes
  <2>2. /\ p = [type |-> SUBACK, packetid |-> id, grantedQoSs |-> codes]
        /\ id \in PacketIds /\ codes \in Lists({0, 1, 2, 128})
    OBVIOUS
  <2>3. h \in Nat
    <3>1. SUBACK \in 0..15 /\ 0 \in 0..1 BY DEF SUBACK
    <3> QED BY <3>1, Header
  <2>4. SerializeTo("received", p, h, l, l, body) BY <2>1
  <2> HIDE DEF id, codes
  <2>5. id \in Word BY <2>2, CodecAssumption
  <2>6. codes \in Seq(Nat) /\ Len(codes) \in 1..2
    <3>1. \/ \E x \in {0, 1, 2, 128} : codes = <<x>>
          \/ \E x, y \in {0, 1, 2, 128} : codes = <<x, y>>
      BY <2>2 DEF Lists
    <3>2. ASSUME NEW x \in {0, 1, 2, 128}, codes = <<x>> PROVE codes \in Seq(Nat) /\ Len(codes) = 1
      BY <3>2
    <3>3. ASSUME NEW x \in {0, 1, 2, 128}, NEW y \in {0, 1, 2, 128}, codes = <<x, y>>
          PROVE  codes \in Seq(Nat) /\ Len(codes) = 2
      BY <3>3
    <3>4. 1 \in 1..2 /\ 2 \in 1..2 OBVIOUS
    <3> QED BY <3>1, <3>2, <3>3, <3>4
  <2>7. Announced(body, l)
    <3>1. body \in Seq(Nat) /\ Len(body) = l BY <2>5, <2>6, IdParts
    <3>2. l \in 0..9 /\ l \in Nat
      <4> DEFINE n == Len(codes)
      <4>1. n \in 1..2 /\ l = 2 + n BY <2>6
      <4> HIDE DEF n, l
      <4> QED BY <4>1
    <3> HIDE DEF body, l
    <3> QED BY <3>1, <3>2, SmallLengths DEF Announced
  <2>8. \A b : Wrote(b, h, body) => Sent(p, b)
    BY <2>2, <2>5, <2>6, Zenon DEF Sent, SentSuback
  <2> HIDE DEF h, body, l
  <2> QED BY <2>3, <2>4, <2>7, <2>8, AnswerStep
<1>10. ASSUME MQTTSerialize_unsuback PROVE CodecInv'
  <2>1. PICK p \in [type : {UNSUBACK}, packetid : PacketIds] :
          SerializeTo("received", p, MQTTHeader(UNSUBACK, 0, 0, 0), 2, 2, writeInt(p.packetid))
    BY <1>10 DEF MQTTSerialize_unsuback
  <2> DEFINE id == p.packetid
             h == MQTTHeader(UNSUBACK, 0, 0, 0)
             body == writeInt(id)
  <2>2. p = [type |-> UNSUBACK, packetid |-> id] /\ id \in PacketIds OBVIOUS
  <2>3. id \in Word BY <2>2, CodecAssumption
  <2>4. UNSUBACK \in {UNSUBACK} \cup Acks /\ h = AckHeader(UNSUBACK)
    <3>1. UNSUBACK # PUBREL BY DEF UNSUBACK, PUBREL
    <3> QED BY <3>1 DEF AckHeader
  <2>5. h \in Nat BY <2>4, AckHeads
  <2>6. Announced(body, 2) BY <2>3, AckWritten
  <2>7. SerializeTo("received", p, h, 2, 2, body) BY <2>1
  <2>8. \A b : Wrote(b, h, body) => Sent(p, b)
    <3> HIDE DEF id, h
    <3> QED BY <2>2, <2>3, <2>4, Zenon DEF Sent, SentAck
  <2> HIDE DEF h, body
  <2> QED BY <2>5, <2>6, <2>7, <2>8, AnswerStep
<1>11. ASSUME ClientReads PROVE CodecInv'
  <2>1. /\ stage = "received" /\ buf # <<>> /\ stage' = "read"
        /\ packet' = packet /\ buf' = buf /\ got' = ReadOf(buf)
    BY <1>11, Zenon DEF ClientReads, ReadOf
  <2>2. Sent(packet, buf) BY <2>1 DEF CodecInv
  <2>3. got' = IF TooManyCodes(packet') THEN Overrun ELSE packet'
    <3>1. ReadOf(buf) = IF TooManyCodes(packet) THEN Overrun ELSE packet BY <2>2, SentRead
    <3> QED BY <2>1, <3>1, Zenon
  <2> QED BY <2>1, <2>3 DEF CodecInv, Fits, RoundTrip, ServerUnderstands
<1>12. ASSUME PeerReads PROVE CodecInv'
  <2>1. /\ stage = "written" /\ buf # <<>> /\ TypeOf(buf) = CONNECT /\ stage' = "read"
        /\ got' = (IF Complete(buf) THEN PeerConnect(Data(buf)) ELSE Malformed)
        /\ packet' = packet
    BY <1>12 DEF PeerReads
  <2>2. Written(packet, buf) BY <2>1 DEF CodecInv
  <2>3. Complete(buf) /\ PeerConnect(Data(buf)) = packet /\ packet.type = CONNECT
    BY <2>1, <2>2, WrittenRead
  <2>4. CONNECT # SUBACK BY DEF CONNECT, SUBACK
  <2>5. got' = IF TooManyCodes(packet') THEN Overrun ELSE packet'
    BY <2>1, <2>3, <2>4, Zenon DEF TooManyCodes
  <2> QED BY <2>1, <2>5 DEF CodecInv, Fits, RoundTrip, ServerUnderstands
<1>13. ASSUME ServerReads PROVE CodecInv'
  <2>1. /\ stage = "written" /\ buf # <<>> /\ stage' = "served"
        /\ packet' = packet /\ got' = ServedOf(buf)
    BY <1>13, Zenon DEF ServerReads, ServedOf
  <2>2. Written(packet, buf) BY <2>1 DEF CodecInv
  <2>3. ServedOf(buf) = IF Refused(packet) THEN Malformed ELSE HandedOut(packet)
    BY <2>2, WrittenRead
  <2>4. got' = IF Refused(packet') THEN Malformed ELSE HandedOut(packet') BY <2>1, <2>3, Zenon
  <2> QED BY <2>1, <2>4 DEF CodecInv, Fits, RoundTrip, ServerUnderstands
<1>14. ASSUME NextPacket PROVE CodecInv'
  BY <1>14 DEF NextPacket, CodecInv, Fits, RoundTrip, ServerUnderstands
<1>15. ASSUME UNCHANGED vars PROVE CodecInv'
  BY <1>15 DEF vars, CodecInv, Fits, RoundTrip, ServerUnderstands
<1> QED BY <1>1, <1>2, <1>3, <1>4, <1>5, <1>6, <1>7, <1>8, <1>9, <1>10, <1>11, <1>12, <1>13,
           <1>14, <1>15 DEF Next

\* What lies in the buffer is the packet its writer was given, whole, as long as announced and
\* in its place, and what was read of it is that packet, as far as its reader hands it out.
THEOREM CodecInvariance == Spec => []CodecInv
<1>1. Init => CodecInv BY CodecInit
<1>2. CodecInv /\ [Next]_vars => CodecInv' BY CodecNext
<1> QED BY <1>1, <1>2, PTL DEF Spec

\* A packet that the client writes lies in the buffer it was measured for, and one it refuses
\* would have filled it; an answer of the server side runs past its buffer by no more than its
\* fixed header.
THEOREM PacketsFit == Spec => []Fits
<1>1. CodecInv => Fits BY DEF CodecInv
<1> QED BY <1>1, CodecInvariance, PTL

\* The client gets what the peer or the server side was given to send, and a peer of the
\* protocol the CONNECT the client was given; a SUBACK of too many codes overruns its array.
THEOREM PacketsRoundTrip == Spec => []RoundTrip
<1>1. CodecInv => RoundTrip BY DEF CodecInv
<1> QED BY <1>1, CodecInvariance, PTL

\* The server side gets every packet the client was given, but for the credentials it refuses
\* and the version, which it does not hand out.
THEOREM PacketsAreServed == Spec => []ServerUnderstands
<1>1. CodecInv => ServerUnderstands BY DEF CodecInv
<1> QED BY <1>1, CodecInvariance, PTL

-----------------------------------------------------------------------------
(* Handlers *)

\* A number before a sequence.
LEMMA BeforeFacts ==
  ASSUME NEW c \in Nat, NEW x \in Seq(Nat)
  PROVE  /\ One(c) \o x \in Seq(Nat) /\ Len(One(c) \o x) = Len(x) + 1 /\ One(c) \o x # <<>>
         /\ (One(c) \o x)[1] = c /\ \A i \in 1..Len(x) : (One(c) \o x)[i + 1] = x[i]
<1> DEFINE o == One(c)
           y == o \o x
<1>1. o \in Seq(Nat) /\ Len(o) = 1 /\ o[1] = c BY OneFacts
<1> HIDE DEF o
<1>2. /\ y \in Seq(Nat) /\ Len(x) \in Nat /\ Len(y) = Len(o) + Len(x)
      /\ \A i \in 1..Len(o) : y[i] = o[i]
      /\ \A i \in 1..Len(x) : y[Len(o) + i] = x[i]
  <2>1. o \in Seq(Nat) BY <1>1
  <2> QED BY <2>1, ConcatFacts
<1> HIDE DEF y
<1>3. Len(y) = Len(x) + 1 /\ y[1] = c BY <1>1, <1>2
<1>4. \A i \in 1..Len(x) : y[i + 1] = x[i] BY <1>1, <1>2
<1>5. y # <<>> BY <1>2, <1>3
<1> QED BY <1>2, <1>3, <1>4, <1>5 DEF y, o

\* It can be taken off again.
LEMMA BeforeInjective ==
  ASSUME NEW c \in Nat, NEW x \in Seq(Nat), NEW y \in Seq(Nat), One(c) \o x = One(c) \o y
  PROVE  x = y
<1>1. Len(x) + 1 = Len(y) + 1 BY BeforeFacts
<1>2. Len(x) \in Nat /\ Len(y) \in Nat OBVIOUS
<1>3. Len(x) = Len(y) BY <1>1, <1>2
<1>4. \A i \in 1..Len(x) : x[i] = y[i]
  <2> TAKE i \in 1..Len(x)
  <2>1. (One(c) \o x)[i + 1] = x[i] BY BeforeFacts
  <2>2. i \in 1..Len(y) BY <1>3
  <2>3. (One(c) \o y)[i + 1] = y[i] BY <2>2, BeforeFacts
  <2> QED BY <2>1, <2>3
<1> QED BY <1>3, <1>4, SeqEqual

\* One number remains only with nothing behind it.
LEMMA BeforeOne ==
  ASSUME NEW c \in Nat, NEW x \in Seq(Nat), NEW d \in Nat
  PROVE  One(c) \o x = One(d) <=> c = d /\ x = <<>>
<1>1. One(d) \o <<>> = One(d) /\ Len(One(d)) = 1 /\ One(d)[1] = d BY OneFacts
<1>2. ASSUME One(c) \o x = One(d) PROVE c = d /\ x = <<>>
  <2>1. Len(One(c) \o x) = Len(x) + 1 /\ (One(c) \o x)[1] = c BY BeforeFacts
  <2>2. Len(x) + 1 = 1 /\ c = d BY <1>1, <1>2, <2>1
  <2> QED BY <2>2
<1> QED BY <1>1, <1>2

\* The first of the levels replaced.
LEMMA LongerFirst ==
  ASSUME NEW r \in Seq(Seq(Nat)), r # <<>>, NEW x \in Seq(Nat)
  PROVE  /\ One(x) \o Tail(r) \in Seq(Seq(Nat)) /\ Len(One(x) \o Tail(r)) = Len(r)
         /\ (One(x) \o Tail(r))[1] = x
         /\ \A k \in 2..Len(r) : (One(x) \o Tail(r))[k] = r[k]
<1> DEFINE o == One(x)
           t == Tail(r)
           l == o \o t
<1>1. o \in Seq(Seq(Nat)) /\ Len(o) = 1 /\ o[1] = x BY OneFacts
<1>2. /\ t \in Seq(Seq(Nat)) /\ Len(t) = Len(r) - 1 /\ Len(r) \in Nat \ {0}
      /\ \A k \in 1..(Len(r) - 1) : t[k] = r[k + 1]
  OBVIOUS
<1> HIDE DEF o, t
<1>3. /\ l \in Seq(Seq(Nat)) /\ Len(l) = Len(o) + Len(t)
      /\ \A i \in 1..Len(o) : l[i] = o[i]
      /\ \A i \in 1..Len(t) : l[Len(o) + i] = t[i]
  <2>1. o \in Seq(Seq(Nat)) /\ t \in Seq(Seq(Nat)) BY <1>1, <1>2
  <2> QED BY <2>1, ConcatFacts
<1>0. Len(t) \in Nat BY <1>2
<1> HIDE DEF l
<1>4. Len(l) = Len(r) /\ l[1] = x BY <1>1, <1>2, <1>3
<1>5. \A k \in 2..Len(r) : l[k] = r[k]
  <2> TAKE k \in 2..Len(r)
  <2>1. k - 1 \in 1..(Len(r) - 1) /\ (k - 1) + 1 = k /\ 1 + (k - 1) = k BY <1>2
  <2>2. t[k - 1] = r[k] /\ l[1 + (k - 1)] = t[k - 1] BY <1>1, <1>2, <1>3, <2>1
  <2> QED BY <2>1, <2>2
<1> QED BY <1>3, <1>4, <1>5 DEF l, o, t

\* One more level in front.
LEMMA OneMoreLevel ==
  ASSUME NEW r \in Seq(Seq(Nat)), NEW x \in Seq(Nat)
  PROVE  /\ One(x) \o r \in Seq(Seq(Nat)) /\ Len(One(x) \o r) = Len(r) + 1
         /\ (One(x) \o r)[1] = x
         /\ \A k \in 1..Len(r) : (One(x) \o r)[k + 1] = r[k]
<1> DEFINE o == One(x)
           l == o \o r
<1>1. o \in Seq(Seq(Nat)) /\ Len(o) = 1 /\ o[1] = x BY OneFacts
<1> HIDE DEF o
<1>2. /\ l \in Seq(Seq(Nat)) /\ Len(l) = Len(o) + Len(r) /\ Len(r) \in Nat
      /\ \A i \in 1..Len(o) : l[i] = o[i]
      /\ \A i \in 1..Len(r) : l[Len(o) + i] = r[i]
  <2>1. o \in Seq(Seq(Nat)) BY <1>1
  <2> QED BY <2>1, ConcatFacts
<1> HIDE DEF l
<1>3. Len(l) = Len(r) + 1 /\ l[1] = x /\ \A k \in 1..Len(r) : l[k + 1] = r[k]
  BY <1>1, <1>2
<1> QED BY <1>2, <1>3 DEF l, o

\* How the levels of a suffix follow from those of the next shorter one: a separator begins a
\* level, any other character goes to the first.
NextLevel(a, b) == Len(a) = Len(b) + 1 /\ a[1] = <<>> /\ \A k \in 1..Len(b) : a[k + 1] = b[k]
\* Lists that differ in their first element only.
SameButFirst(a, b) == Len(a) = Len(b) /\ \A k \in 2..Len(b) : a[k] = b[k]
\* A character is put before the first level.
NextLetter(c, a, b) == SameButFirst(a, b) /\ a[1] = One(c) \o b[1]

\* What the recursion of Levels computes.
Splits(s, l) ==
  \A i \in 1..(Len(s) + 1) :
    /\ l[i] \in Seq(Seq(Nat)) /\ l[i] # <<>>
    /\ i > Len(s) => l[i] = One(<<>>)
    /\ i <= Len(s) /\ s[i] = Separator => NextLevel(l[i], l[i + 1])
    /\ i <= Len(s) /\ s[i] # Separator => NextLetter(s[i], l[i], l[i + 1])

\* There is such a function, and Levels is its value at the first character.
LEMMA LevelsLoop ==
  ASSUME NEW s \in Seq(Nat)
  PROVE  \E l : Levels(s) = l[1] /\ Splits(s, l)
<1> DEFINE hi == Len(s) + 1
           D == 1..hi
           V == Seq(Seq(Nat)) \ {<<>>}
           value(i, f) ==
             IF i > Len(s) THEN << <<>> >>
             ELSE IF s[i] = Separator THEN << <<>> >> \o f[i + 1]
                  ELSE << <<s[i]>> \o f[i + 1][1] >> \o Tail(f[i + 1])
           G == [i \in D |-> [f \in [D -> V] |-> value(i, f)]]
<1>0. <<>> \in Seq(Nat) OBVIOUS
<1>1. hi \in Int /\ 1 \in Int /\ 1 \in D /\ Len(s) \in Nat OBVIOUS
<1>2. One(<<>>) \in V /\ Len(One(<<>>)) = 1
  <2> DEFINE none == <<>>
  <2>1. none \in Seq(Nat) OBVIOUS
  <2> HIDE DEF none
  <2>2. One(none) \in Seq(Seq(Nat)) /\ One(none) # <<>> /\ Len(One(none)) = 1 BY <2>1, OneFacts
  <2> QED BY <2>2 DEF none
<1>3. \A i, f : i > Len(s) => value(i, f) = One(<<>>) BY DEF One
<1>4. \A i, f : ~(i > Len(s)) /\ s[i] = Separator => value(i, f) = One(<<>>) \o f[i + 1]
  BY DEF One
<1>5. \A i, f : ~(i > Len(s)) /\ s[i] # Separator =>
        value(i, f) = One(One(s[i]) \o f[i + 1][1]) \o Tail(f[i + 1])
  BY DEF One
<1> HIDE DEF value
<1>6. ASSUME NEW i \in D, ~(i > Len(s)), NEW f, f[i + 1] \in V
      PROVE  /\ value(i, f) \in V
             /\ s[i] = Separator => NextLevel(value(i, f), f[i + 1])
             /\ s[i] # Separator => NextLetter(s[i], value(i, f), f[i + 1])
  <2> DEFINE r == f[i + 1]
  <2>1. r \in Seq(Seq(Nat)) /\ r # <<>> /\ Len(r) \in Nat \ {0} BY <1>6
  <2>2. s[i] \in Nat
    <3>1. i \in 1..Len(s) BY <1>1, <1>6
    <3> QED BY <3>1
  <2>3. CASE s[i] = Separator
    <3> DEFINE e == <<>>
               v == One(e) \o r
    <3>1. e \in Seq(Nat) OBVIOUS
    <3>2. value(i, f) = v BY <1>4, <1>6, <2>3
    <3> HIDE DEF r, e
    <3>3. v \in Seq(Seq(Nat)) /\ Len(v) = Len(r) + 1 /\ v[1] = e
          /\ \A k \in 1..Len(r) : v[k + 1] = r[k]
      BY <2>1, <3>1, OneMoreLevel
    <3> HIDE DEF v
    <3>4. v # <<>> BY <2>1, <3>3
    <3>5. NextLevel(v, r) BY <3>3, Zenon DEF NextLevel, e
    <3> QED BY <2>3, <3>2, <3>3, <3>4, <3>5 DEF r
  <2>4. CASE s[i] # Separator
    <3> DEFINE h == r[1]
               x == One(s[i]) \o h
               v == One(x) \o Tail(r)
    <3>1. value(i, f) = v BY <1>5, <1>6, <2>4
    <3>2. h \in Seq(Nat)
      <4> HIDE DEF r
      <4> QED BY <2>1
    <3> HIDE DEF h
    <3>3. x \in Seq(Nat) BY <2>2, <3>2, BeforeFacts
    <3> HIDE DEF r, x
    <3>4. /\ v \in Seq(Seq(Nat)) /\ Len(v) = Len(r) /\ v[1] = x
          /\ \A k \in 2..Len(r) : v[k] = r[k]
      BY <2>1, <3>3, LongerFirst
    <3> HIDE DEF v
    <3>5. v # <<>> BY <2>1, <3>4
    <3>6. NextLetter(s[i], v, r) BY <3>4, Zenon DEF NextLetter, SameButFirst, x, h
    <3> QED BY <2>4, <3>1, <3>4, <3>5, <3>6 DEF r
  <2> QED BY <2>3, <2>4
<1>7. ASSUME NEW i \in D, NEW f \in [D -> V]
      PROVE  /\ value(i, f) \in V
             /\ \A g \in [D -> V] : (\A j \in (i + 1)..hi : f[j] = g[j]) => value(i, f) = value(i, g)
  <2>1. CASE i > Len(s) BY <1>2, <1>3, <2>1
  <2>2. CASE ~(i > Len(s))
    <3>1. i + 1 \in D /\ i + 1 \in (i + 1)..hi BY <1>1, <2>2
    <3>2. f[i + 1] \in V
      <4> HIDE DEF D, V
      <4> QED BY <3>1
    <3>3. value(i, f) \in V BY <1>6, <2>2, <3>2
    <3>4. \A g : f[i + 1] = g[i + 1] => value(i, f) = value(i, g)
      BY <1>4, <1>5, <2>2, Zenon
    <3> HIDE DEF D, V, hi
    <3> QED BY <3>1, <3>3, <3>4
  <2> QED BY <2>1, <2>2
<1>8. G \in [D -> [[D -> V] -> V]]
  <2> HIDE DEF D, V
  <2> QED BY <1>7
<1>9. \A i \in D : \A f, g \in [D -> V] :
        (\A j \in (i + 1)..hi : f[j] = g[j]) => G[i][f] = G[i][g]
  <2> HIDE DEF hi, D, V
  <2> QED BY <1>7
<1>10. \A i \in D : \A f \in [D -> V] : G[i][f] = value(i, f) OBVIOUS
<1> HIDE DEF G, V, hi
<1>11. Backward(1, hi, V, G) BY <1>8, <1>9, Zenon DEF Backward
<1>12. PICK e \in [D -> V] : \A i \in D : e[i] = value(i, e)
  <2>1. PICK e \in [D -> V] : Solves(1, hi, G, e) BY <1>1, <1>2, <1>11, Recursion
  <2>2. \A i \in D : e[i] = G[i][e] BY <2>1, Zenon DEF Solves
  <2> QED BY <1>10, <2>2
<1> HIDE DEF D
<1>13. e = [i \in D |-> value(i, e)] BY <1>12
<1> DEFINE levels == CHOOSE levels : levels = [i \in D |-> value(i, levels)]
<1>14. levels = [i \in D |-> value(i, levels)] BY <1>13, Zenon
<1>15. Levels(s) = levels[1] BY Zenon DEF Levels, D, value, hi
<1> HIDE DEF levels
<1>16. \A i \in D : levels[i] = value(i, levels) BY <1>14
<1>17. \A n \in Nat : \A i \in D : hi - i < n => levels[i] \in V
  <2> DEFINE P(n) == \A i \in D : hi - i < n => levels[i] \in V
             T == {n \in Nat : P(n)}
  <2>1. 0 \in T
    <3>1. \A i \in D : ~(hi - i < 0) BY <1>1 DEF D
    <3> QED BY <3>1
  <2>2. ASSUME NEW n \in Nat, n \in T PROVE n + 1 \in T
    <3> SUFFICES ASSUME NEW i \in D, hi - i < n + 1 PROVE levels[i] \in V OBVIOUS
    <3>1. levels[i] = value(i, levels) BY <1>16
    <3>2. CASE i > Len(s) BY <1>2, <1>3, <3>1, <3>2
    <3>3. CASE ~(i > Len(s))
      <4>1. i + 1 \in D /\ hi - (i + 1) < n BY <1>1, <3>3 DEF D, hi
      <4>2. levels[i + 1] \in V BY <2>2, <4>1
      <4> QED BY <1>6, <3>1, <3>3, <4>2
    <3> QED BY <3>2, <3>3
  <2> HIDE DEF P, T
  <2>3. Nat \subseteq T BY <2>1, <2>2, Induction
  <2>4. \A n \in Nat : P(n) BY <2>3 DEF T
  <2> QED BY <2>4 DEF P
<1>18. \A i \in D : levels[i] \in V
  <2> TAKE i \in D
  <2>1. hi - i < hi /\ hi \in Nat BY <1>1 DEF D, hi
  <2> QED BY <1>17, <2>1
<1>19. ASSUME NEW i \in D
       PROVE  /\ levels[i] \in Seq(Seq(Nat)) /\ levels[i] # <<>>
              /\ i > Len(s) => levels[i] = One(<<>>)
              /\ i <= Len(s) /\ s[i] = Separator => NextLevel(levels[i], levels[i + 1])
              /\ i <= Len(s) /\ s[i] # Separator => NextLetter(s[i], levels[i], levels[i + 1])
  <2>1. levels[i] \in Seq(Seq(Nat)) /\ levels[i] # <<>> BY <1>18 DEF V
  <2>2. levels[i] = value(i, levels) BY <1>16
  <2>3. CASE i > Len(s)
    <3>1. ~(i <= Len(s)) BY <1>1, <2>3 DEF D
    <3> QED BY <1>3, <2>1, <2>2, <2>3, <3>1
  <2>4. CASE ~(i > Len(s))
    <3>1. i + 1 \in D BY <1>1, <2>4 DEF D, hi
    <3>2. levels[i + 1] \in V BY <1>18, <3>1
    <3>3. /\ s[i] = Separator => NextLevel(levels[i], levels[i + 1])
          /\ s[i] # Separator => NextLetter(s[i], levels[i], levels[i + 1])
      BY <1>6, <2>2, <2>4, <3>2
    <3> QED BY <2>1, <2>4, <3>3
  <2> QED BY <2>3, <2>4
<1>20. Splits(s, levels) BY <1>19, Zenon DEF Splits, D, hi
<1> QED BY <1>15, <1>20

\* '+' takes a character that is no separator, and what follows it in its level.
LEMMA LevelEndFacts ==
  ASSUME NEW name \in Seq(Nat), NEW n \in 1..Len(name)
  PROVE  LET m == LevelEnd(name, n) IN
         /\ m \in n..Len(name)
         /\ m = Len(name) \/ name[m + 1] = Separator
         /\ \A i \in (n + 1)..m : name[i] # Separator
<1> DEFINE F == {m \in n..Len(name) : m = Len(name) \/ name[m + 1] = Separator}
<1>1. Len(name) \in Nat /\ n \in Nat OBVIOUS
<1>2. Len(name) \in F /\ F \subseteq Nat BY <1>1
<1>3. PICK m \in F : \A i \in F : m <= i
  <2> HIDE DEF F
  <2> QED BY <1>2, Least
<1>4. m \in n..Len(name) /\ (m = Len(name) \/ name[m + 1] = Separator) BY <1>3
<1>5. \A i \in (n + 1)..m : name[i] # Separator
  <2> SUFFICES ASSUME NEW i \in (n + 1)..m, name[i] = Separator PROVE FALSE OBVIOUS
  <2>1. i - 1 \in n..Len(name) /\ (i - 1) + 1 = i /\ ~(m <= i - 1) BY <1>1, <1>4
  <2>2. i - 1 \in F BY <2>1
  <2> QED BY <1>3, <2>1, <2>2
<1> QED BY <1>4, <1>5, Zenon DEF LevelEnd

\* What the recursion of isTopicMatched computes.
MatchLoop(filter, name, matched) ==
  \A f \in 1..(Len(filter) + 1) : \A n \in 1..(Len(name) + 1) :
    matched[f][n] =
      IF f > Len(filter) \/ n > Len(name) THEN f > Len(filter) /\ n > Len(name)
      ELSE IF Differ(filter[f], name[n]) THEN FALSE
      ELSE matched[f + 1][CASE filter[f] = OneLevel -> LevelEnd(name, n) + 1
                            [] filter[f] = AnyLevels -> Len(name) + 1
                            [] OTHER -> n + 1]

\* There is such a function, and isTopicMatched is its value at both beginnings.
LEMMA MatchedLoop ==
  ASSUME NEW filter \in Seq(Nat), NEW name \in Seq(Nat)
  PROVE  \E matched :
           isTopicMatched(filter, name) = matched[1][1] /\ MatchLoop(filter, name, matched)
<1> DEFINE hi == Len(filter) + 1
           D == 1..hi
           E == 1..(Len(name) + 1)
           V == [E -> BOOLEAN]
           cell(f, n, g) ==
             IF f > Len(filter) \/ n > Len(name) THEN f > Len(filter) /\ n > Len(name)
             ELSE IF Differ(filter[f], name[n]) THEN FALSE
             ELSE g[f + 1][CASE filter[f] = OneLevel -> LevelEnd(name, n) + 1
                             [] filter[f] = AnyLevels -> Len(name) + 1
                             [] OTHER -> n + 1]
           value(f, g) == [n \in E |-> cell(f, n, g)]
           G == [f \in D |-> [g \in [D -> V] |-> value(f, g)]]
<1>1. /\ hi \in Int /\ 1 \in Int /\ 1 \in D /\ 1 \in E
      /\ Len(filter) \in Nat /\ Len(name) \in Nat
  OBVIOUS
<1>2. [n \in E |-> FALSE] \in V OBVIOUS
<1>3. ASSUME NEW f \in D, NEW g \in [D -> V], NEW n \in E PROVE cell(f, n, g) \in BOOLEAN
  <2>1. CASE f > Len(filter) \/ n > Len(name) BY <2>1
  <2>2. CASE ~(f > Len(filter) \/ n > Len(name))
    <3>1. f + 1 \in D /\ n \in 1..Len(name) BY <1>1, <2>2
    <3>2. /\ LevelEnd(name, n) \in n..Len(name) /\ n \in Nat /\ n <= Len(name)
      BY <1>1, <3>1, LevelEndFacts
    <3>3. LevelEnd(name, n) + 1 \in E /\ Len(name) + 1 \in E /\ n + 1 \in E BY <1>1, <3>2
    <3>4. g[f + 1] \in V
      <4> HIDE DEF D, V
      <4> QED BY <3>1
    <3>5. \A k \in E : g[f + 1][k] \in BOOLEAN
      <4> HIDE DEF E
      <4> QED BY <3>4
    <3> HIDE DEF E
    <3> QED BY <2>2, <3>3, <3>5, Zenon
  <2> QED BY <2>1, <2>2
<1>4. ASSUME NEW f \in D, NEW g \in [D -> V], NEW h \in [D -> V],
             \A j \in (f + 1)..hi : g[j] = h[j]
      PROVE  value(f, g) = value(f, h)
  <2>1. CASE f > Len(filter) BY <2>1
  <2>2. CASE ~(f > Len(filter))
    <3>1. f + 1 \in (f + 1)..hi BY <1>1, <2>2
    <3>2. g[f + 1] = h[f + 1] BY <1>4, <3>1
    <3> QED BY <3>2
  <2> QED BY <2>1, <2>2
<1> HIDE DEF cell
<1>5. G \in [D -> [[D -> V] -> V]]
  <2>1. \A f \in D : \A g \in [D -> V] : value(f, g) \in V
    <3> HIDE DEF D, E
    <3> QED BY <1>3
  <2> HIDE DEF D, V, value
  <2> QED BY <2>1
<1>6. \A f \in D : \A g, h \in [D -> V] :
        (\A j \in (f + 1)..hi : g[j] = h[j]) => G[f][g] = G[f][h]
  <2> HIDE DEF hi, D, V, value
  <2> QED BY <1>4
<1>7. \A f \in D : \A g \in [D -> V] : G[f][g] = value(f, g) OBVIOUS
<1> HIDE DEF G, V, hi
<1>8. Backward(1, hi, V, G) BY <1>5, <1>6, Zenon DEF Backward
<1>9. PICK e \in [D -> V] : \A f \in D : e[f] = value(f, e)
  <2>1. PICK e \in [D -> V] : Solves(1, hi, G, e)
    <3> DEFINE v == [n \in E |-> FALSE]
    <3>1. v \in V BY <1>2
    <3> HIDE DEF v
    <3> QED BY <1>1, <3>1, <1>8, Recursion
  <2>2. \A f \in D : e[f] = G[f][e] BY <2>1, Zenon DEF Solves
  <2> QED BY <1>7, <2>2
<1> HIDE DEF D, value
<1>10. e = [f \in D |-> value(f, e)] BY <1>9
<1> DEFINE matched == CHOOSE matched : matched = [f \in D |-> value(f, matched)]
<1>11. matched = [f \in D |-> value(f, matched)] BY <1>10, Zenon
<1>12. isTopicMatched(filter, name) = matched[1][1]
  BY Zenon DEF isTopicMatched, D, E, value, cell, hi
<1> HIDE DEF matched
<1>13. \A f \in D : matched[f] = value(f, matched) BY <1>11
<1>14. \A f \in D : \A n \in E : matched[f][n] = cell(f, n, matched)
  <2> HIDE DEF E
  <2> QED BY <1>13 DEF value
<1>15. MatchLoop(filter, name, matched) BY <1>14, Zenon DEF MatchLoop, D, E, cell, hi
<1> QED BY <1>12, <1>15

\* A list of levels: there is always one.
LevelList(l) == l \in Seq(Seq(Nat)) /\ l # <<>>

\* Matches and Correct, of the levels.
LastOf(f) == IF EndsInAny(f) THEN Len(f) - 1 ELSE Len(f)
LevelsMatch(f, n) ==
  /\ IF EndsInAny(f) THEN Len(n) >= LastOf(f) ELSE Len(n) = LastOf(f)
  /\ \A k \in 1..LastOf(f) : f[k] \in {n[k], <<OneLevel>>}
\* A level without wildcards, and a filter with them in their places only.
NoWildcard(x) == \A i \in 1..Len(x) : x[i] \notin Wildcards
CorrectLevels(f) ==
  \A k \in 1..Len(f) : \/ NoWildcard(f[k])
                       \/ f[k] = <<OneLevel>>
                       \/ f[k] = <<AnyLevels>> /\ k = Len(f)

\* Matches and Correct say this of the levels of a filter and a name.
LEMMA LevelsMatchAll ==
  ASSUME NEW filter, NEW name, NEW f, NEW n, f = Levels(filter), n = Levels(name)
  PROVE  /\ Matches(filter, name) <=> LevelsMatch(f, n)
         /\ Correct(filter) <=> CorrectLevels(f)
BY Zenon DEF Matches, LevelsMatch, LastOf, Correct, CorrectLevels, NoWildcard

\* Of no level, of '+' and of '#'.
LEMMA LevelTypes ==
  /\ <<OneLevel>> \in Seq(Nat) /\ <<AnyLevels>> \in Seq(Nat) /\ <<OneLevel>> # <<AnyLevels>>
  /\ <<OneLevel>> # <<>> /\ <<AnyLevels>> # <<>> /\ <<>> \in Seq(Nat)
  /\ ~NoWildcard(<<OneLevel>>) /\ ~NoWildcard(<<AnyLevels>>) /\ NoWildcard(<<>>)
BY DEF OneLevel, AnyLevels, NoWildcard, Wildcards

\* Its levels are sequences.
LEMMA LevelListType ==
  ASSUME NEW l, LevelList(l)
  PROVE  Len(l) \in Nat \ {0} /\ \A k \in 1..Len(l) : l[k] \in Seq(Nat)
BY DEF LevelList

\* Both sides begin a level.
LEMMA BothNext ==
  ASSUME NEW f, LevelList(f), NEW g, LevelList(g), NEW n, LevelList(n), NEW m, LevelList(m),
         NextLevel(f, g)
  PROVE  /\ EndsInAny(f) <=> EndsInAny(g)
         /\ CorrectLevels(f) => CorrectLevels(g)
         /\ NextLevel(n, m) => (LevelsMatch(f, n) <=> LevelsMatch(g, m))
<1>1. /\ Len(f) \in Nat \ {0} /\ Len(g) \in Nat \ {0} /\ Len(n) \in Nat \ {0}
      /\ Len(m) \in Nat \ {0}
  BY LevelListType
<1>2. Len(f) = Len(g) + 1 /\ f[1] = <<>> /\ \A k \in 1..Len(g) : f[k + 1] = g[k] BY DEF NextLevel
<1>3. EndsInAny(f) <=> EndsInAny(g)
  <2>1. f[Len(g) + 1] = g[Len(g)] BY <1>1, <1>2
  <2> QED BY <1>2, <2>1, Zenon DEF EndsInAny
<1>4. ASSUME CorrectLevels(f) PROVE CorrectLevels(g)
  <2> SUFFICES ASSUME NEW k \in 1..Len(g)
               PROVE  NoWildcard(g[k]) \/ g[k] = <<OneLevel>> \/ (g[k] = <<AnyLevels>> /\ k = Len(g))
    BY Zenon DEF CorrectLevels
  <2>1. k + 1 \in 1..Len(f) /\ (k + 1 = Len(f) => k = Len(g)) BY <1>1, <1>2
  <2>2. f[k + 1] = g[k] BY <1>2
  <2>3. NoWildcard(g[k]) \/ g[k] = <<OneLevel>> \/ (g[k] = <<AnyLevels>> /\ k + 1 = Len(f))
    BY <1>4, <2>1, <2>2, Zenon DEF CorrectLevels
  <2> QED BY <2>1, <2>3
<1>5. ASSUME NextLevel(n, m) PROVE LevelsMatch(f, n) <=> LevelsMatch(g, m)
  <2>1. Len(n) = Len(m) + 1 /\ n[1] = <<>> /\ \A k \in 1..Len(m) : n[k + 1] = m[k]
    BY <1>5 DEF NextLevel
  <2> DEFINE a == LastOf(f)
             b == LastOf(g)
             p == <<OneLevel>>
             any == EndsInAny(f)
  <2>2. a = b + 1 /\ a \in Nat /\ b \in Nat /\ b <= Len(g) BY <1>1, <1>2, <1>3 DEF LastOf
  <2>3. ~EndsInAny(g) => b = Len(g) BY DEF LastOf
  <2>4. LevelsMatch(f, n) <=> /\ IF EndsInAny(f) THEN Len(n) >= a ELSE Len(n) = a
                              /\ \A k \in 1..a : f[k] \in {n[k], p}
    BY DEF LevelsMatch
  <2>5. LevelsMatch(g, m) <=> /\ IF EndsInAny(g) THEN Len(m) >= b ELSE Len(m) = b
                              /\ \A k \in 1..b : g[k] \in {m[k], p}
    BY DEF LevelsMatch
  <2> HIDE DEF a, b, p
  <2>6. (IF EndsInAny(f) THEN Len(n) >= a ELSE Len(n) = a)
        <=> (IF EndsInAny(g) THEN Len(m) >= b ELSE Len(m) = b)
    BY <1>1, <1>3, <2>1, <2>2
  <2>7. ASSUME IF EndsInAny(g) THEN Len(m) >= b ELSE Len(m) = b
        PROVE  (\A k \in 1..a : f[k] \in {n[k], p}) <=> (\A k \in 1..b : g[k] \in {m[k], p})
    <3>0. b <= Len(m) BY <1>1, <2>2, <2>7
    <3>1. \A k \in 1..b : k + 1 \in 1..a /\ f[k + 1] = g[k] /\ n[k + 1] = m[k]
      BY <1>1, <1>2, <2>1, <2>2, <3>0
    <3>2. \A k \in 1..a : k = 1 \/ (k - 1 \in 1..b /\ (k - 1) + 1 = k) BY <2>2
    <3>3. f[1] = n[1] BY <1>2, <2>1
    <3>4. ASSUME \A k \in 1..a : f[k] \in {n[k], p} PROVE \A k \in 1..b : g[k] \in {m[k], p}
      <4> TAKE k \in 1..b
      <4>1. f[k + 1] \in {n[k + 1], p} BY <3>1, <3>4
      <4> QED BY <3>1, <4>1, Zenon
    <3>5. ASSUME \A k \in 1..b : g[k] \in {m[k], p} PROVE \A k \in 1..a : f[k] \in {n[k], p}
      <4> TAKE k \in 1..a
      <4>1. CASE k = 1 BY <3>3, <4>1, Zenon
      <4>2. CASE k # 1
        <5>1. k - 1 \in 1..b /\ (k - 1) + 1 = k BY <3>2, <4>2
        <5>2. g[k - 1] \in {m[k - 1], p} BY <3>5, <5>1
        <5>3. f[k] = g[k - 1] /\ n[k] = m[k - 1] BY <3>1, <5>1
        <5> QED BY <5>2, <5>3, Zenon
      <4> QED BY <4>1, <4>2
    <3> QED BY <3>4, <3>5
  <2> QED BY <2>4, <2>5, <2>6, <2>7
<1> QED BY <1>3, <1>4, <1>5

\* A place that is not the first.
LEMMA FromTwo == \A l \in Nat \ {0} : l # 1 => l \in 2..l
OBVIOUS

\* Both sides differ from the next in their first level only.
LEMMA SameTails ==
  ASSUME NEW f, LevelList(f), NEW g, LevelList(g), NEW n, LevelList(n), NEW m, LevelList(m),
         SameButFirst(f, g), f[1] # <<AnyLevels>>, g[1] # <<AnyLevels>>
  PROVE  /\ EndsInAny(f) <=> EndsInAny(g)
         /\ CorrectLevels(f) /\ NoWildcard(g[1]) => CorrectLevels(g)
         /\ /\ SameButFirst(n, m)
            /\ (f[1] = n[1] \/ f[1] = <<OneLevel>>) <=> (g[1] = m[1] \/ g[1] = <<OneLevel>>)
            => (LevelsMatch(f, n) <=> LevelsMatch(g, m))
<1>1. /\ Len(f) \in Nat \ {0} /\ Len(g) \in Nat \ {0} /\ Len(n) \in Nat \ {0}
      /\ Len(m) \in Nat \ {0}
  BY LevelListType
<1>2. Len(f) = Len(g) /\ \A k \in 2..Len(g) : f[k] = g[k] BY DEF SameButFirst
<1>3. EndsInAny(f) <=> EndsInAny(g)
  <2>1. CASE Len(g) = 1
    <3>1. f[Len(f)] = f[1] /\ g[Len(g)] = g[1] BY <1>2, <2>1
    <3> QED BY <3>1 DEF EndsInAny
  <2>2. CASE Len(g) # 1
    <3>1. Len(g) \in 2..Len(g) BY <1>1, <2>2, FromTwo, Zenon
    <3> QED BY <1>2, <3>1, Zenon DEF EndsInAny
  <2> QED BY <2>1, <2>2
<1>4. ASSUME CorrectLevels(f), NoWildcard(g[1]) PROVE CorrectLevels(g)
  <2> SUFFICES ASSUME NEW k \in 1..Len(g)
               PROVE  NoWildcard(g[k]) \/ g[k] = <<OneLevel>> \/ (g[k] = <<AnyLevels>> /\ k = Len(g))
    BY Zenon DEF CorrectLevels
  <2>1. CASE k = 1 BY <1>4, <2>1, Zenon
  <2>2. CASE k # 1
    <3>1. k \in 2..Len(g) BY <1>1, <2>2
    <3>2. k \in 1..Len(f) /\ f[k] = g[k] BY <1>2, <3>1
    <3> QED BY <1>2, <1>4, <3>2, Zenon DEF CorrectLevels
  <2> QED BY <2>1, <2>2
<1>5. ASSUME SameButFirst(n, m),
             (f[1] = n[1] \/ f[1] = <<OneLevel>>) <=> (g[1] = m[1] \/ g[1] = <<OneLevel>>)
      PROVE  LevelsMatch(f, n) <=> LevelsMatch(g, m)
  <2> DEFINE a == LastOf(f)
             p == <<OneLevel>>
             Fits1(k) == f[k] \in {n[k], p}
             Fits2(k) == g[k] \in {m[k], p}
             Long == IF EndsInAny(f) THEN Len(n) >= a ELSE Len(n) = a
  <2>1. Len(n) = Len(m) /\ \A k \in 2..Len(m) : n[k] = m[k] BY <1>5 DEF SameButFirst
  <2>2. a = LastOf(g) /\ a \in Nat /\ a <= Len(g) BY <1>1, <1>2, <1>3 DEF LastOf
  <2>3. LevelsMatch(f, n) <=> Long /\ \A k \in 1..a : Fits1(k) BY DEF LevelsMatch
  <2>4. LevelsMatch(g, m) <=> Long /\ \A k \in 1..a : Fits2(k)
    BY <1>3, <2>1, <2>2, Zenon DEF LevelsMatch
  <2>5. ASSUME Long, NEW k \in 1..a PROVE Fits1(k) <=> Fits2(k)
    <3>1. CASE k = 1 BY <1>5, <3>1, Zenon
    <3>2. CASE k # 1
      <4>1. a <= Len(m) BY <1>1, <2>1, <2>2, <2>5
      <4>2. k \in 2..Len(g) /\ k \in 2..Len(m) BY <1>1, <2>2, <3>2, <4>1
      <4>3. f[k] = g[k] /\ n[k] = m[k] BY <1>2, <2>1, <4>2
      <4> QED BY <4>3, Zenon
    <3> QED BY <3>1, <3>2
  <2> HIDE DEF Fits1, Fits2, Long, a
  <2> QED BY <2>3, <2>4, <2>5, Zenon
<1> QED BY <1>3, <1>4, <1>5

\* Both sides begin with the same letter.
LEMMA BothLetter ==
  ASSUME NEW f, LevelList(f), NEW g, LevelList(g), NEW n, LevelList(n), NEW m, LevelList(m),
         NEW c \in Nat, c \notin Wildcards, NextLetter(c, f, g), CorrectLevels(f)
  PROVE  /\ CorrectLevels(g) /\ (EndsInAny(f) <=> EndsInAny(g)) /\ f[1] # <<OneLevel>>
         /\ f[1] # <<AnyLevels>> /\ g[1] # <<OneLevel>> /\ g[1] # <<AnyLevels>>
         /\ NextLetter(c, n, m) => (LevelsMatch(f, n) <=> LevelsMatch(g, m))
<1>1. f[1] = One(c) \o g[1] /\ SameButFirst(f, g) BY DEF NextLetter
<1>2. 1 \in 1..Len(f) /\ 1 \in 1..Len(g) /\ 1 \in 1..Len(n) /\ 1 \in 1..Len(m) BY LevelListType
<1>3. g[1] \in Seq(Nat) /\ n[1] \in Seq(Nat) /\ m[1] \in Seq(Nat) BY <1>2, LevelListType
<1>4. OneLevel \in Nat /\ AnyLevels \in Nat /\ c # OneLevel /\ c # AnyLevels
  BY DEF OneLevel, AnyLevels, Wildcards
<1>5. f[1] # <<OneLevel>> /\ f[1] # <<AnyLevels>>
  <2>1. \A d \in Nat : One(c) \o g[1] = One(d) => c = d BY <1>3, BeforeOne
  <2>2. f[1] # One(OneLevel) /\ f[1] # One(AnyLevels) BY <1>1, <1>4, <2>1, Zenon
  <2> QED BY <2>2 DEF One
<1>6. NoWildcard(f[1]) BY <1>2, <1>5, Zenon DEF CorrectLevels
<1> DEFINE x == f[1]
           y == g[1]
<1>8. y \in Seq(Nat) /\ Len(y) \in Nat BY <1>3
<1>7. Len(x) = Len(y) + 1 /\ \A i \in 1..Len(y) : x[i + 1] = y[i]
  <2>1. x = One(c) \o y BY <1>1
  <2> HIDE DEF x, y
  <2>2. /\ Len(One(c) \o y) = Len(y) + 1
        /\ \A i \in 1..Len(y) : (One(c) \o y)[i + 1] = y[i]
    BY <1>8, BeforeFacts
  <2> QED BY <2>1, <2>2, Zenon
<1>9. NoWildcard(y)
  <2> HIDE DEF x, y
  <2> SUFFICES ASSUME NEW i \in 1..Len(y) PROVE y[i] \notin Wildcards BY DEF NoWildcard
  <2>1. i + 1 \in 1..Len(x) BY <1>7, <1>8
  <2>2. x[i + 1] \notin Wildcards BY <1>6, <2>1, Zenon DEF NoWildcard, x
  <2> QED BY <1>7, <2>2
<1>10. g[1] # <<OneLevel>> /\ g[1] # <<AnyLevels>> BY <1>9, LevelTypes
<1>11. CorrectLevels(g) /\ (EndsInAny(f) <=> EndsInAny(g))
  BY <1>1, <1>5, <1>9, <1>10, SameTails
<1>12. ASSUME NextLetter(c, n, m) PROVE LevelsMatch(f, n) <=> LevelsMatch(g, m)
  <2>1. n[1] = One(c) \o m[1] /\ SameButFirst(n, m) BY <1>12 DEF NextLetter
  <2>2. f[1] = n[1] <=> g[1] = m[1]
    <3>1. f[1] = n[1] => g[1] = m[1] BY <1>1, <1>3, <2>1, BeforeInjective
    <3> QED BY <1>1, <2>1, <3>1
  <2>3. (f[1] = n[1] \/ f[1] = <<OneLevel>>) <=> (g[1] = m[1] \/ g[1] = <<OneLevel>>)
    BY <1>5, <1>10, <2>2
  <2> QED BY <1>1, <1>5, <1>10, <2>1, <2>3, SameTails
<1> QED BY <1>5, <1>10, <1>11, <1>12

\* A wildcard stands alone in its level.
LEMMA Alone ==
  ASSUME NEW f, LevelList(f), NEW g, LevelList(g), NEW c \in Wildcards, NextLetter(c, f, g),
         CorrectLevels(f)
  PROVE  /\ f[1] = <<c>> /\ g[1] = <<>> /\ Len(f) = Len(g) /\ Len(f) \in Nat \ {0}
         /\ c = AnyLevels => Len(f) = 1
<1>1. f[1] = One(c) \o g[1] /\ Len(f) = Len(g) BY DEF NextLetter, SameButFirst
<1>2. 1 \in 1..Len(f) /\ 1 \in 1..Len(g) /\ Len(f) \in Nat \ {0} BY LevelListType
<1>3. g[1] \in Seq(Nat) BY <1>2, LevelListType
<1>4. OneLevel \in Nat /\ AnyLevels \in Nat /\ c \in Nat /\ OneLevel # AnyLevels
  BY DEF OneLevel, AnyLevels, Wildcards
<1> DEFINE x == f[1]
           y == g[1]
<1>5. Len(x) = Len(y) + 1 /\ x[1] = c BY <1>1, <1>3, <1>4, BeforeFacts
<1>6. y \in Seq(Nat) /\ Len(y) \in Nat BY <1>3
<1>7. ~NoWildcard(x)
  <2> HIDE DEF x, y
  <2>1. 1 \in 1..Len(x) BY <1>5, <1>6
  <2> QED BY <1>5, <2>1, Zenon DEF NoWildcard
<1>8. f[1] = <<OneLevel>> \/ (f[1] = <<AnyLevels>> /\ 1 = Len(f))
  BY <1>2, <1>7, Zenon DEF CorrectLevels
<1>9. \A d \in Nat : f[1] = <<d>> => c = d /\ g[1] = <<>>
  <2>1. \A d \in Nat : One(c) \o y = One(d) => c = d /\ y = <<>>
    <3> HIDE DEF y
    <3>1. c \in Nat /\ y \in Seq(Nat) BY <1>4, <1>6
    <3> QED BY <3>1, BeforeOne
  <2>2. \A d \in Nat : f[1] = One(d) => c = d /\ g[1] = <<>> BY <1>1, <2>1, Zenon
  <2> QED BY <2>2, Zenon DEF One
<1> QED BY <1>1, <1>2, <1>4, <1>8, <1>9

\* What deliverMessage may leave out: an empty level behind the first character, the parent
\* of '#', and a level that '+' or '#' would have to begin with.
Clean(a, b) ==
  /\ \A k \in 2..Len(b) : b[k] # <<>>
  /\ b[1] = <<>> => a[1] = <<>>
  /\ ~(EndsInAny(a) /\ Len(b) < Len(a))
\* x answers whether the levels a match b.
RightAnswer(a, b, x) ==
  CorrectLevels(a) => (x => LevelsMatch(a, b)) /\ (LevelsMatch(a, b) /\ Clean(a, b) => x)

\* A first level that is not '#' decides.
LEMMA FirstMatch ==
  ASSUME NEW a, LevelList(a), NEW b, LevelsMatch(a, b), a[1] # <<AnyLevels>>
  PROVE  a[1] = b[1] \/ a[1] = <<OneLevel>>
<1> DEFINE l == LastOf(a)
<1>1. Len(a) \in Nat \ {0} BY LevelListType
<1>2. 1 \in 1..l
  <2>1. CASE EndsInAny(a)
    <3> DEFINE k == Len(a)
    <3>1. k # 1 BY <2>1, Zenon DEF EndsInAny
    <3>2. l = k - 1 BY <2>1, Zenon DEF LastOf
    <3>3. k \in Nat \ {0} BY <1>1
    <3> HIDE DEF k, l
    <3> QED BY <3>1, <3>2, <3>3
  <2>2. CASE ~EndsInAny(a)
    <3>1. l = Len(a) BY <2>2, Zenon DEF LastOf
    <3> QED BY <1>1, <3>1
  <2> QED BY <2>1, <2>2
<1>3. a[1] \in {b[1], <<OneLevel>>} BY <1>2, Zenon DEF LevelsMatch
<1> QED BY <1>3, Zenon

\* A separator in both: the answer for what follows is right here too.
LEMMA RightLevel ==
  ASSUME NEW a, LevelList(a), NEW f, LevelList(f), NEW b, LevelList(b), NEW n, LevelList(n),
         NextLevel(a, f), NextLevel(b, n), NEW x, RightAnswer(f, n, x)
  PROVE  RightAnswer(a, b, x)
<1>1. /\ EndsInAny(a) <=> EndsInAny(f)
      /\ CorrectLevels(a) => CorrectLevels(f)
      /\ LevelsMatch(a, b) <=> LevelsMatch(f, n)
  BY BothNext
<1>2. ASSUME Clean(a, b) PROVE Clean(f, n)
  <2>1. /\ Len(a) \in Nat \ {0} /\ Len(f) \in Nat \ {0} /\ Len(b) \in Nat \ {0}
        /\ Len(n) \in Nat \ {0}
    BY LevelListType
  <2>2. /\ Len(a) = Len(f) + 1 /\ Len(b) = Len(n) + 1
        /\ \A k \in 1..Len(n) : b[k + 1] = n[k]
    BY DEF NextLevel
  <2>3. \A k \in 1..Len(n) : n[k] # <<>>
    <3> TAKE k \in 1..Len(n)
    <3>1. k + 1 \in 2..Len(b) BY <2>1, <2>2
    <3>2. b[k + 1] # <<>> BY <1>2, <3>1, Zenon DEF Clean
    <3> QED BY <2>2, <3>2
  <2>4. 1 \in 1..Len(n) /\ \A k \in 2..Len(n) : k \in 1..Len(n) BY <2>1
  <2>5. n[1] # <<>> /\ \A k \in 2..Len(n) : n[k] # <<>> BY <2>3, <2>4, Zenon
  <2>6. ~(EndsInAny(f) /\ Len(n) < Len(f))
    <3>1. Len(n) < Len(f) => Len(b) < Len(a) BY <2>1, <2>2
    <3> QED BY <1>1, <1>2, <3>1, Zenon DEF Clean
  <2> QED BY <2>5, <2>6, Zenon DEF Clean
<1> QED BY <1>1, <1>2, Zenon DEF RightAnswer

\* The same character in both: the answer for what follows is right here too.
LEMMA RightLetter ==
  ASSUME NEW a, LevelList(a), NEW f, LevelList(f), NEW b, LevelList(b), NEW n, LevelList(n),
         NEW c \in Nat, c \notin Wildcards, NextLetter(c, a, f), NextLetter(c, b, n),
         NEW x, RightAnswer(f, n, x)
  PROVE  RightAnswer(a, b, x)
<1> SUFFICES ASSUME CorrectLevels(a) PROVE RightAnswer(a, b, x) BY Zenon DEF RightAnswer
<1>1. /\ CorrectLevels(f) /\ (EndsInAny(a) <=> EndsInAny(f))
      /\ LevelsMatch(a, b) <=> LevelsMatch(f, n)
      /\ f[1] # <<OneLevel>> /\ f[1] # <<AnyLevels>>
  BY BothLetter
<1>2. ASSUME Clean(a, b), LevelsMatch(f, n) PROVE Clean(f, n)
  <2>1. /\ Len(a) = Len(f) /\ Len(b) = Len(n) /\ \A k \in 2..Len(n) : b[k] = n[k]
    BY DEF NextLetter, SameButFirst
  <2>2. f[1] = n[1] BY <1>1, <1>2, FirstMatch
  <2>3. \A k \in 2..Len(n) : n[k] # <<>> BY <1>2, <2>1, Zenon DEF Clean
  <2>4. ~(EndsInAny(f) /\ Len(n) < Len(f)) BY <1>1, <1>2, <2>1, Zenon DEF Clean
  <2> QED BY <2>2, <2>3, <2>4, Zenon DEF Clean
<1> QED BY <1>1, <1>2, Zenon DEF RightAnswer

\* A '+' takes the level: the answer for what follows is right here too.
LEMMA RightPlus ==
  ASSUME NEW a, LevelList(a), NEW f, LevelList(f), NEW b, LevelList(b), NEW n, LevelList(n),
         NextLetter(OneLevel, a, f), SameButFirst(b, n), n[1] = <<>>,
         NEW x, RightAnswer(f, n, x)
  PROVE  RightAnswer(a, b, x)
<1> SUFFICES ASSUME CorrectLevels(a) PROVE RightAnswer(a, b, x) BY Zenon DEF RightAnswer
<1>0. OneLevel \in Wildcards BY DEF Wildcards
<1>1. a[1] = <<OneLevel>> /\ f[1] = <<>> BY <1>0, Alone
<1>2. a[1] # <<AnyLevels>> /\ f[1] # <<AnyLevels>> /\ NoWildcard(f[1]) BY <1>1, LevelTypes, Zenon
<1>3. SameButFirst(a, f) BY DEF NextLetter
<1>4. (a[1] = b[1] \/ a[1] = <<OneLevel>>) <=> (f[1] = n[1] \/ f[1] = <<OneLevel>>)
  BY <1>1, Zenon
<1>5. /\ CorrectLevels(f) /\ (EndsInAny(a) <=> EndsInAny(f))
      /\ LevelsMatch(a, b) <=> LevelsMatch(f, n)
  BY <1>2, <1>3, <1>4, SameTails
<1>6. ASSUME Clean(a, b) PROVE Clean(f, n)
  <2>1. /\ Len(a) = Len(f) /\ Len(b) = Len(n) /\ \A k \in 2..Len(n) : b[k] = n[k]
    BY <1>3 DEF SameButFirst
  <2>2. \A k \in 2..Len(n) : n[k] # <<>> BY <1>6, <2>1, Zenon DEF Clean
  <2>3. ~(EndsInAny(f) /\ Len(n) < Len(f)) BY <1>5, <1>6, <2>1, Zenon DEF Clean
  <2> QED BY <1>1, <2>2, <2>3, Zenon DEF Clean
<1> QED BY <1>5, <1>6, Zenon DEF RightAnswer

\* A '#' that stands where it may is the last level, and matches what is left.
LEMMA RightAny ==
  ASSUME NEW a, LevelList(a), NEW f, LevelList(f), NEW b, LevelList(b),
         NextLetter(AnyLevels, a, f), CorrectLevels(a)
  PROVE  LevelsMatch(a, b) /\ Len(f) = 1 /\ f[1] = <<>>
<1>0. AnyLevels \in Wildcards BY DEF Wildcards
<1>1. a[1] = <<AnyLevels>> /\ f[1] = <<>> /\ Len(a) = Len(f) /\ Len(a) = 1 BY <1>0, Alone
<1>2. EndsInAny(a) BY <1>1 DEF EndsInAny
<1>3. LastOf(a) = 0 BY <1>1, <1>2 DEF LastOf
<1>4. Len(b) >= 0 /\ 1..0 = {} BY LevelListType
<1>5. LevelsMatch(a, b) BY <1>2, <1>3, <1>4 DEF LevelsMatch
<1> QED BY <1>1, <1>5

\* No character of the filter, or of the name, can follow.
LEMMA WrongEnd ==
  ASSUME NEW a, LevelList(a), NEW b, LevelList(b), a = One(<<>>), b[1] # <<>> \/ Len(b) # 1
  PROVE  RightAnswer(a, b, FALSE)
<1>1. a[1] = <<>> /\ Len(a) = 1 BY OneFacts
<1>2. ~EndsInAny(a) /\ a[1] # <<AnyLevels>>
  <2>1. <<>> # <<AnyLevels>> BY LevelTypes
  <2> QED BY <1>1, <2>1, Zenon DEF EndsInAny
<1>3. ASSUME LevelsMatch(a, b) PROVE FALSE
  <2>1. Len(b) = 1 BY <1>1, <1>2, <1>3, Zenon DEF LevelsMatch, LastOf
  <2>2. a[1] = b[1] \/ a[1] = <<OneLevel>> BY <1>2, <1>3, FirstMatch
  <2>3. <<>> # <<OneLevel>> BY LevelTypes
  <2> QED BY <1>1, <2>1, <2>2, <2>3, Zenon
<1> QED BY <1>3, Zenon DEF RightAnswer

\* Nothing is left of both: they match.
LEMMA RightEnd == RightAnswer(One(<<>>), One(<<>>), TRUE)
<1> DEFINE a == One(<<>>)
<1>1. a[1] = <<>> /\ Len(a) = 1 BY OneFacts
<1>2. <<>> # <<AnyLevels>> BY LevelTypes
<1> HIDE DEF a
<1>3. ~EndsInAny(a) BY <1>1, <1>2, Zenon DEF EndsInAny
<1>4. LevelsMatch(a, a) BY <1>1, <1>3, Zenon DEF LevelsMatch, LastOf
<1> QED BY <1>4, Zenon DEF RightAnswer, a

\* The filter's next character is no separator, but the name's level is at its end.
LEMMA WrongLetter ==
  ASSUME NEW a, LevelList(a), NEW f, LevelList(f), NEW b, LevelList(b), NEW c \in Nat,
         NextLetter(c, a, f), b[1] = <<>>
  PROVE  RightAnswer(a, b, FALSE)
<1>1. a[1] = One(c) \o f[1] BY DEF NextLetter
<1>2. f[1] \in Seq(Nat)
  <2>1. 1 \in 1..Len(f) BY LevelListType
  <2> QED BY <2>1, LevelListType
<1>3. a[1] # <<>> BY <1>1, <1>2, BeforeFacts
<1>4. ~Clean(a, b) BY <1>3, Zenon DEF Clean
<1> QED BY <1>4, Zenon DEF RightAnswer

\* It is one, and the name's level is not at its end.
LEMMA WrongLevel ==
  ASSUME NEW a, LevelList(a), NEW f, NextLevel(a, f), NEW b, LevelList(b),
         b[1] # <<>> \/ Len(b) = 1, LevelList(f)
  PROVE  RightAnswer(a, b, FALSE)
<1>1. a[1] = <<>> /\ Len(a) = Len(f) + 1 BY DEF NextLevel
<1>2. <<>> # <<AnyLevels>> /\ <<>> # <<OneLevel>> BY LevelTypes
<1>3. Len(f) \in Nat \ {0} BY LevelListType
<1>4. ASSUME LevelsMatch(a, b), Clean(a, b) PROVE FALSE
  <2>1. a[1] = b[1] \/ a[1] = <<OneLevel>> BY <1>1, <1>2, <1>4, FirstMatch
  <2>2. Len(b) = 1 BY <1>1, <1>2, <2>1, Zenon
  <2>3. Len(b) # Len(a) /\ Len(b) < Len(a) BY <1>1, <1>3, <2>2
  <2>4. EndsInAny(a) BY <1>4, <2>3, Zenon DEF LevelsMatch, LastOf
  <2> QED BY <1>4, <2>3, <2>4, Zenon DEF Clean
<1>5. ASSUME LevelsMatch(a, b) PROVE ~Clean(a, b) BY <1>4, <1>5
<1> QED BY <1>5, Zenon DEF RightAnswer

\* Two letters differ.
LEMMA OtherLetter ==
  ASSUME NEW a, LevelList(a), NEW f, LevelList(f), NEW b, LevelList(b), NEW n, LevelList(n),
         NEW c \in Nat, c \notin Wildcards, NextLetter(c, a, f),
         NEW d \in Nat, NextLetter(d, b, n), c # d
  PROVE  RightAnswer(a, b, FALSE)
<1> SUFFICES ASSUME CorrectLevels(a) PROVE ~LevelsMatch(a, b) BY Zenon DEF RightAnswer
<1>1. a[1] # <<OneLevel>> /\ a[1] # <<AnyLevels>> BY BothLetter
<1>2. a[1] = One(c) \o f[1] /\ b[1] = One(d) \o n[1] BY DEF NextLetter
<1>3. f[1] \in Seq(Nat) /\ n[1] \in Seq(Nat)
  <2>1. 1 \in 1..Len(f) /\ 1 \in 1..Len(n) BY LevelListType
  <2> QED BY <2>1, LevelListType
<1>4. (One(c) \o f[1])[1] = c /\ (One(d) \o n[1])[1] = d BY <1>3, BeforeFacts
<1>5. a[1] # b[1] BY <1>2, <1>4
<1>6. ASSUME LevelsMatch(a, b) PROVE FALSE
  <2>1. a[1] = b[1] \/ a[1] = <<OneLevel>> BY <1>1, <1>6, FirstMatch
  <2> QED BY <1>1, <1>5, <2>1
<1> QED BY <1>6

\* Behind the last character there is one empty level, and nowhere else.
LEMMA LastLevel ==
  ASSUME NEW s \in Seq(Nat), NEW l, Splits(s, l), NEW i \in 1..(Len(s) + 1)
  PROVE  /\ LevelList(l[i])
         /\ i > Len(s) <=> (Len(l[i]) = 1 /\ l[i][1] = <<>>)
         /\ i > Len(s) => l[i] = One(<<>>)
         /\ i <= Len(s) => /\ s[i] \in Nat /\ i + 1 \in 1..(Len(s) + 1) /\ LevelList(l[i + 1])
                           /\ s[i] = Separator => NextLevel(l[i], l[i + 1])
                           /\ s[i] # Separator => NextLetter(s[i], l[i], l[i + 1])
                                                  /\ l[i][1] # <<>>
<1>1. LevelList(l[i]) BY DEF Splits, LevelList
<1>2. ASSUME i > Len(s)
      PROVE  l[i] = One(<<>>) /\ Len(l[i]) = 1 /\ l[i][1] = <<>> /\ ~(i <= Len(s))
  <2>1. l[i] = One(<<>>) BY <1>2 DEF Splits
  <2>2. ~(i <= Len(s)) BY <1>2
  <2> QED BY <2>1, <2>2, OneFacts
<1>3. ASSUME i <= Len(s)
      PROVE  /\ s[i] \in Nat /\ i + 1 \in 1..(Len(s) + 1) /\ LevelList(l[i + 1]) /\ ~(i > Len(s))
             /\ s[i] = Separator => NextLevel(l[i], l[i + 1]) /\ Len(l[i]) # 1
             /\ s[i] # Separator => NextLetter(s[i], l[i], l[i + 1]) /\ l[i][1] # <<>>
  <2>1. i \in 1..Len(s) /\ i + 1 \in 1..(Len(s) + 1) /\ ~(i > Len(s)) BY <1>3
  <2>2. s[i] \in Nat BY <2>1
  <2>3. LevelList(l[i + 1]) BY <2>1, Zenon DEF Splits, LevelList
  <2>4. Len(l[i + 1]) \in Nat \ {0} /\ 1 \in 1..Len(l[i + 1]) BY <2>3, LevelListType
  <2>5. ASSUME s[i] = Separator PROVE NextLevel(l[i], l[i + 1]) /\ Len(l[i]) # 1
    <3>1. NextLevel(l[i], l[i + 1]) BY <1>3, <2>5, Zenon DEF Splits
    <3>2. Len(l[i]) = Len(l[i + 1]) + 1 BY <3>1, Zenon DEF NextLevel
    <3> QED BY <2>4, <3>1, <3>2
  <2>6. ASSUME s[i] # Separator PROVE NextLetter(s[i], l[i], l[i + 1]) /\ l[i][1] # <<>>
    <3>1. NextLetter(s[i], l[i], l[i + 1]) BY <1>3, <2>6, Zenon DEF Splits
    <3>2. l[i][1] = One(s[i]) \o l[i + 1][1] BY <3>1, Zenon DEF NextLetter
    <3>3. l[i + 1][1] \in Seq(Nat) BY <2>3, <2>4, LevelListType
    <3>4. One(s[i]) \o l[i + 1][1] # <<>> BY <2>2, <3>3, BeforeFacts
    <3> QED BY <3>1, <3>2, <3>4
  <2> QED BY <2>1, <2>2, <2>3, <2>5, <2>6
<1>4. i > Len(s) \/ i <= Len(s) OBVIOUS
<1> QED BY <1>1, <1>2, <1>3, <1>4

\* What '+' leaves of a name: the same levels, but for the first, which is empty.
LEMMA LevelRest ==
  ASSUME NEW s \in Seq(Nat), NEW l, Splits(s, l), NEW n \in 1..Len(s), s[n] # Separator
  PROVE  LET e == LevelEnd(s, n) + 1 IN
         e \in 1..(Len(s) + 1) /\ SameButFirst(l[n], l[e]) /\ l[e][1] = <<>>
<1> DEFINE m == LevelEnd(s, n)
           T == {k \in Nat : n + k <= m + 1 => SameButFirst(l[n], l[n + k])}
<1>1. /\ m \in n..Len(s)
      /\ m = Len(s) \/ s[m + 1] = Separator
      /\ \A i \in (n + 1)..m : s[i] # Separator
  BY LevelEndFacts
<1> HIDE DEF m
<1>2. n \in Nat \ {0} /\ Len(s) \in Nat /\ m \in Nat /\ n <= m /\ m <= Len(s) BY <1>1
<1>3. 0 \in T
  <2>1. n + 0 = n BY <1>2
  <2>2. SameButFirst(l[n], l[n + 0]) BY <2>1 DEF SameButFirst
  <2> QED BY <2>2
<1>4. ASSUME NEW k \in Nat, k \in T PROVE k + 1 \in T
  <2> SUFFICES ASSUME n + (k + 1) <= m + 1 PROVE SameButFirst(l[n], l[n + (k + 1)]) OBVIOUS
  <2> DEFINE i == n + k
  <2>1. i \in Nat /\ i >= n /\ i <= m /\ n + (k + 1) = i + 1 /\ i <= Len(s) BY <1>2
  <2>2. SameButFirst(l[n], l[i])
    <3>1. n + k <= m + 1 BY <1>2
    <3>2. n + k <= m + 1 => SameButFirst(l[n], l[n + k]) BY <1>4, Zenon
    <3> QED BY <3>1, <3>2
  <2> HIDE DEF i
  <2>3. i \in 1..(Len(s) + 1) BY <1>2, <2>1
  <2>4. s[i] # Separator
    <3>1. CASE i = n BY <3>1, Zenon
    <3>2. CASE i # n
      <4>1. i \in (n + 1)..m BY <1>2, <2>1, <3>2
      <4> QED BY <1>1, <4>1
    <3> QED BY <3>1, <3>2
  <2>5. SameButFirst(l[i], l[i + 1]) BY <2>1, <2>3, <2>4, LastLevel DEF NextLetter
  <2>6. SameButFirst(l[n], l[i + 1]) BY <2>2, <2>5 DEF SameButFirst
  <2> QED BY <2>1, <2>6
<1>5. SameButFirst(l[n], l[m + 1])
  <2> HIDE DEF T
  <2>1. Nat \subseteq T BY <1>3, <1>4, Induction
  <2>2. m + 1 - n \in Nat /\ n + (m + 1 - n) = m + 1 BY <1>2
  <2>3. m + 1 - n \in T BY <2>1, <2>2
  <2> QED BY <1>2, <2>2, <2>3 DEF T
<1>6. m + 1 \in 1..(Len(s) + 1) BY <1>2
<1>7. l[m + 1][1] = <<>>
  <2>1. CASE m = Len(s)
    <3>1. m + 1 > Len(s) BY <1>2, <2>1
    <3> QED BY <1>6, <3>1, LastLevel
  <2>2. CASE m # Len(s)
    <3>1. m + 1 <= Len(s) /\ s[m + 1] = Separator BY <1>1, <1>2, <2>2
    <3>2. NextLevel(l[m + 1], l[(m + 1) + 1]) BY <1>6, <3>1, LastLevel
    <3> QED BY <3>2, Zenon DEF NextLevel
  <2> QED BY <2>1, <2>2
<1> QED BY <1>5, <1>6, <1>7 DEF m

\* The answer for each suffix of the filter and each of the name, from the answers for the
\* filter's next one.
LEMMA RightCell ==
  ASSUME NEW filter \in Seq(Nat), NEW name \in Seq(Nat), NEW matched,
         MatchLoop(filter, name, matched),
         NEW lf, Splits(filter, lf), NEW ln, Splits(name, ln),
         NEW f \in 1..(Len(filter) + 1), NEW n \in 1..(Len(name) + 1),
         f <= Len(filter) =>
           \A k \in 1..(Len(name) + 1) : RightAnswer(lf[f + 1], ln[k], matched[f + 1][k])
  PROVE  RightAnswer(lf[f], ln[n], matched[f][n])
<1> DEFINE x == matched[f][n]
<1>1. /\ LevelList(lf[f])
      /\ f > Len(filter) => lf[f] = One(<<>>)
      /\ f <= Len(filter) =>
           /\ filter[f] \in Nat /\ f + 1 \in 1..(Len(filter) + 1) /\ LevelList(lf[f + 1])
           /\ filter[f] = Separator => NextLevel(lf[f], lf[f + 1])
           /\ filter[f] # Separator => NextLetter(filter[f], lf[f], lf[f + 1])
  BY LastLevel
<1>2. /\ LevelList(ln[n])
      /\ n > Len(name) <=> (Len(ln[n]) = 1 /\ ln[n][1] = <<>>)
      /\ n > Len(name) => ln[n] = One(<<>>)
      /\ n <= Len(name) =>
           /\ name[n] \in Nat /\ n + 1 \in 1..(Len(name) + 1) /\ LevelList(ln[n + 1])
           /\ name[n] = Separator => NextLevel(ln[n], ln[n + 1])
           /\ name[n] # Separator => NextLetter(name[n], ln[n], ln[n + 1]) /\ ln[n][1] # <<>>
  BY LastLevel
<1>3. (f > Len(filter) <=> ~(f <= Len(filter))) /\ (n > Len(name) <=> ~(n <= Len(name)))
  OBVIOUS
<1>4. x = IF f > Len(filter) \/ n > Len(name) THEN f > Len(filter) /\ n > Len(name)
          ELSE IF Differ(filter[f], name[n]) THEN FALSE
          ELSE matched[f + 1][CASE filter[f] = OneLevel -> LevelEnd(name, n) + 1
                                [] filter[f] = AnyLevels -> Len(name) + 1
                                [] OTHER -> n + 1]
  BY Zenon DEF MatchLoop
<1>5. /\ Separator \notin Wildcards /\ OneLevel \in Wildcards /\ AnyLevels \in Wildcards
      /\ OneLevel # AnyLevels
      /\ \A c : c \in Wildcards <=> c = OneLevel \/ c = AnyLevels
  BY DEF Separator, OneLevel, AnyLevels, Wildcards
<1> HIDE DEF x
<1>6. CASE f > Len(filter)
  <2>1. CASE n > Len(name)
    <3>1. x <=> TRUE BY <1>4, <1>6, <2>1, Zenon
    <3> QED BY <1>1, <1>2, <1>6, <2>1, <3>1, RightEnd, Zenon DEF RightAnswer, x
  <2>2. CASE ~(n > Len(name))
    <3>1. x <=> FALSE BY <1>4, <1>6, <2>2, Zenon
    <3>2. ln[n][1] # <<>> \/ Len(ln[n]) # 1 BY <1>2, <2>2, Zenon
    <3>3. RightAnswer(lf[f], ln[n], FALSE) BY <1>1, <1>2, <1>6, <3>2, WrongEnd
    <3> QED BY <3>1, <3>3, Zenon DEF RightAnswer, x
  <2> QED BY <2>1, <2>2
<1>7. CASE ~(f > Len(filter)) /\ n > Len(name)
  <2>1. x <=> FALSE BY <1>4, <1>7, Zenon
  <2>2. Len(ln[n]) = 1 /\ ln[n][1] = <<>> BY <1>2, <1>7, Zenon
  <2>3. RightAnswer(lf[f], ln[n], FALSE)
    <3>1. CASE filter[f] = Separator
      <4>1. NextLevel(lf[f], lf[f + 1]) /\ LevelList(lf[f + 1]) BY <1>1, <1>3, <1>7, <3>1, Zenon
      <4> QED BY <1>1, <1>2, <2>2, <4>1, WrongLevel
    <3>2. CASE filter[f] # Separator
      <4>1. NextLetter(filter[f], lf[f], lf[f + 1]) /\ LevelList(lf[f + 1]) /\ filter[f] \in Nat
        BY <1>1, <1>3, <1>7, <3>2, Zenon
      <4> QED BY <1>1, <1>2, <2>2, <4>1, WrongLetter
    <3> QED BY <3>1, <3>2
  <2> QED BY <2>1, <2>3, Zenon DEF RightAnswer, x
<1>8. CASE ~(f > Len(filter)) /\ ~(n > Len(name))
  <2> DEFINE a == lf[f]
             g == lf[f + 1]
             b == ln[n]
             m == ln[n + 1]
             c == filter[f]
             d == name[n]
  <2>1. /\ LevelList(a) /\ LevelList(g) /\ c \in Nat
        /\ c = Separator => NextLevel(a, g)
        /\ c # Separator => NextLetter(c, a, g)
    BY <1>1, <1>3, <1>8, Zenon
  <2>2. /\ LevelList(b) /\ LevelList(m) /\ d \in Nat /\ n + 1 \in 1..(Len(name) + 1)
        /\ d = Separator => NextLevel(b, m)
        /\ d # Separator => NextLetter(d, b, m) /\ b[1] # <<>>
    BY <1>2, <1>3, <1>8, Zenon
  <2>3. \A k \in 1..(Len(name) + 1) : RightAnswer(g, ln[k], matched[f + 1][k])
    BY <1>3, <1>8, Zenon
  <2>4. /\ Differ(c, d) => (x <=> FALSE)
        /\ ~Differ(c, d) /\ c = OneLevel => x = matched[f + 1][LevelEnd(name, n) + 1]
        /\ ~Differ(c, d) /\ c = AnyLevels => x = matched[f + 1][Len(name) + 1]
        /\ ~Differ(c, d) /\ c # OneLevel /\ c # AnyLevels => x = matched[f + 1][n + 1]
    <3>1. Differ(c, d) => (x <=> FALSE) BY <1>4, <1>8, Zenon
    <3>2. ASSUME ~Differ(c, d)
          PROVE  x = matched[f + 1][CASE c = OneLevel -> LevelEnd(name, n) + 1
                                      [] c = AnyLevels -> Len(name) + 1
                                      [] OTHER -> n + 1]
      BY <1>4, <1>8, <3>2, Zenon
    <3> QED BY <1>5, <3>1, <3>2, Zenon
  <2> HIDE DEF a, g, b, m, c, d
  <2>5. CASE d = Separator /\ c # Separator
    <3>1. x <=> FALSE BY <2>4, <2>5, Zenon DEF Differ
    <3>2. b[1] = <<>> BY <2>2, <2>5 DEF NextLevel
    <3>3. RightAnswer(a, b, FALSE) BY <2>1, <2>2, <2>5, <3>2, WrongLetter
    <3> QED BY <3>1, <3>3, Zenon DEF RightAnswer, x, a, b
  <2>6. CASE ~(d = Separator /\ c # Separator) /\ c \notin Wildcards /\ c # d
    <3>1. x <=> FALSE BY <2>4, <2>6, Zenon DEF Differ
    <3>2. RightAnswer(a, b, FALSE)
      <4>1. CASE c = Separator
        <5>1. NextLevel(a, g) /\ b[1] # <<>> BY <2>1, <2>2, <2>6, <4>1
        <5> QED BY <2>1, <2>2, <5>1, WrongLevel
      <4>2. CASE c # Separator
        <5>1. NextLetter(c, a, g) /\ NextLetter(d, b, m) /\ c \notin Wildcards /\ c # d
          BY <2>1, <2>2, <2>6, <4>2
        <5> QED BY <2>1, <2>2, <5>1, OtherLetter
      <4> QED BY <4>1, <4>2
    <3> QED BY <3>1, <3>2, Zenon DEF RightAnswer, x, a, b
  <2>7. CASE d # Separator /\ c = OneLevel
    <3> DEFINE e == LevelEnd(name, n) + 1
               y == matched[f + 1][e]
    <3>1. x = y
      <4>1. ~Differ(c, d) BY <1>5, <2>7, Zenon DEF Differ
      <4> QED BY <2>4, <2>7, <4>1, Zenon
    <3>2. e \in 1..(Len(name) + 1) /\ SameButFirst(b, ln[e]) /\ ln[e][1] = <<>>
      <4>1. n \in 1..Len(name) /\ name[n] # Separator BY <1>8, <2>7 DEF d
      <4> QED BY <4>1, LevelRest DEF b
    <3> HIDE DEF e, y
    <3>3. RightAnswer(g, ln[e], y) BY <2>3, <3>2 DEF y
    <3>4. LevelList(ln[e]) BY <3>2, LastLevel
    <3>5. NextLetter(OneLevel, a, g) BY <1>5, <2>1, <2>7
    <3>6. RightAnswer(a, b, y) BY <2>1, <2>2, <3>2, <3>3, <3>4, <3>5, RightPlus
    <3> QED BY <3>1, <3>6, Zenon DEF x, a, b
  <2>8. CASE d # Separator /\ c = AnyLevels
    <3> DEFINE e == Len(name) + 1
               y == matched[f + 1][e]
    <3>1. x = y
      <4>1. ~Differ(c, d) BY <1>5, <2>8, Zenon DEF Differ
      <4> QED BY <2>4, <2>8, <4>1, Zenon
    <3>2. ASSUME CorrectLevels(a) PROVE LevelsMatch(a, b) /\ (y <=> TRUE)
      <4>1. NextLetter(AnyLevels, a, g) BY <1>5, <2>1, <2>8
      <4>2. LevelsMatch(a, b) /\ Len(g) = 1 /\ g[1] = <<>> BY <2>1, <2>2, <3>2, <4>1, RightAny
      <4>3. f + 1 \in 1..(Len(filter) + 1) /\ e \in 1..(Len(name) + 1) /\ e > Len(name)
        BY <1>1, <1>3, <1>8
      <4>4. f + 1 > Len(filter) BY <4>2, <4>3, LastLevel DEF g
      <4>5. y <=> TRUE
        <5> DEFINE i == f + 1
        <5> HIDE DEF i, e
        <5>1. i \in 1..(Len(filter) + 1) /\ e \in 1..(Len(name) + 1) /\ i > Len(filter)
              /\ e > Len(name)
          BY <4>3, <4>4 DEF i
        <5> QED BY <5>1, Zenon DEF MatchLoop, i
      <4> QED BY <4>2, <4>5
    <3> HIDE DEF y
    <3>3. RightAnswer(a, b, y) BY <3>2, Zenon DEF RightAnswer
    <3> QED BY <3>1, <3>3, Zenon DEF x, a, b
  <2>9. CASE c = d /\ c \notin Wildcards
    <3> DEFINE y == matched[f + 1][n + 1]
    <3>1. x = y
      <4>1. ~Differ(c, d) /\ c # OneLevel /\ c # AnyLevels BY <1>5, <2>9, Zenon DEF Differ
      <4> QED BY <2>4, <4>1, Zenon
    <3>2. RightAnswer(g, m, y) BY <2>2, <2>3 DEF m
    <3> HIDE DEF y
    <3>3. CASE c = Separator
      <4>1. NextLevel(a, g) /\ NextLevel(b, m) BY <2>1, <2>2, <2>9, <3>3
      <4>2. RightAnswer(a, b, y) BY <2>1, <2>2, <3>2, <4>1, RightLevel
      <4> QED BY <3>1, <4>2, Zenon DEF x, a, b
    <3>4. CASE c # Separator
      <4>1. NextLetter(c, a, g) /\ NextLetter(c, b, m) BY <2>1, <2>2, <2>9, <3>4
      <4>2. RightAnswer(a, b, y) BY <2>1, <2>2, <2>9, <3>2, <4>1, RightLetter
      <4> QED BY <3>1, <4>2, Zenon DEF x, a, b
    <3> QED BY <3>3, <3>4
  <2> QED BY <1>5, <2>5, <2>6, <2>7, <2>8, <2>9, Zenon
<1> QED BY <1>6, <1>7, <1>8

\* The answer is right wherever the comparison stands.
LEMMA RightAnswers ==
  ASSUME NEW filter \in Seq(Nat), NEW name \in Seq(Nat), NEW matched,
         MatchLoop(filter, name, matched),
         NEW lf, Splits(filter, lf), NEW ln, Splits(name, ln)
  PROVE  \A f \in 1..(Len(filter) + 1) : \A n \in 1..(Len(name) + 1) :
           RightAnswer(lf[f], ln[n], matched[f][n])
<1> DEFINE hi == Len(filter) + 1
           D == 1..hi
           E == 1..(Len(name) + 1)
           Row(f) == \A n \in E : RightAnswer(lf[f], ln[n], matched[f][n])
           T == {k \in Nat : \A f \in D : hi - f < k => Row(f)}
<1>1. hi \in Nat /\ Len(filter) \in Nat OBVIOUS
<1>2. 0 \in T
  <2>1. \A f \in D : ~(hi - f < 0) BY <1>1
  <2> QED BY <2>1
<1>3. ASSUME NEW k \in Nat, k \in T PROVE k + 1 \in T
  <2> SUFFICES ASSUME NEW f \in D, hi - f < k + 1 PROVE Row(f) OBVIOUS
  <2>1. ASSUME f <= Len(filter) PROVE Row(f + 1)
    <3>1. f + 1 \in D /\ hi - (f + 1) < k BY <1>1, <2>1
    <3> HIDE DEF Row, D, hi
    <3> QED BY <1>3, <3>1
  <2> QED BY <2>1, RightCell
<1> HIDE DEF T, Row
<1>4. Nat \subseteq T BY <1>2, <1>3, Induction
<1>5. ASSUME NEW f \in D PROVE Row(f)
  <2>1. hi - f < hi BY <1>1
  <2>2. hi \in T BY <1>1, <1>4
  <2> HIDE DEF D, hi
  <2> QED BY <2>1, <2>2 DEF T
<1> QED BY <1>5 DEF Row

\* A correct filter is told to match only names it matches, and all of them but for those with
\* an empty level and the parent of '#'.
LEMMA TopicsMatched ==
  ASSUME NEW filter \in Seq(Nat), NEW name \in Seq(Nat), Correct(filter)
  PROVE  /\ isTopicMatched(filter, name) => Matches(filter, name)
         /\ /\ Matches(filter, name) /\ NoEmptyLevel(name)
            /\ ~(EndsInAny(Levels(filter)) /\ Len(Levels(name)) < Len(Levels(filter)))
            => isTopicMatched(filter, name)
<1>1. PICK lf : Levels(filter) = lf[1] /\ Splits(filter, lf) BY LevelsLoop
<1>2. PICK ln : Levels(name) = ln[1] /\ Splits(name, ln) BY LevelsLoop
<1>3. PICK matched : isTopicMatched(filter, name) = matched[1][1] /\ MatchLoop(filter, name, matched)
  BY MatchedLoop
<1>4. 1 \in 1..(Len(filter) + 1) /\ 1 \in 1..(Len(name) + 1) OBVIOUS
<1> DEFINE a == Levels(filter)
           b == Levels(name)
           x == isTopicMatched(filter, name)
<1>5. RightAnswer(a, b, x)
  <2>1. RightAnswer(lf[1], ln[1], matched[1][1]) BY <1>1, <1>2, <1>3, <1>4, RightAnswers
  <2> QED BY <1>1, <1>2, <1>3, <2>1
<1>6. LevelList(b) BY <1>2, <1>4, LastLevel
<1> HIDE DEF a, b, x
<1>7. Matches(filter, name) <=> LevelsMatch(a, b) BY LevelsMatchAll DEF a, b
<1>8. CorrectLevels(a) BY LevelsMatchAll DEF a
<1>9. NoEmptyLevel(name) /\ ~(EndsInAny(a) /\ Len(b) < Len(a)) => Clean(a, b)
  <2>1. \A k \in 2..Len(b) : k \in 1..Len(b) BY <1>6, LevelListType
  <2>2. 1 \in 1..Len(b) BY <1>6, LevelListType
  <2> QED BY <2>1, <2>2, Zenon DEF NoEmptyLevel, Clean, b
<1>10. x => Matches(filter, name) BY <1>5, <1>7, <1>8, Zenon DEF RightAnswer
<1>11. Matches(filter, name) /\ NoEmptyLevel(name) /\ ~(EndsInAny(a) /\ Len(b) < Len(a)) => x
  BY <1>5, <1>7, <1>8, <1>9, Zenon DEF RightAnswer
<1> QED BY <1>10, <1>11 DEF a, b, x

\* A name without wildcards is told to match itself.
LEMMA SameName ==
  ASSUME NEW name \in Seq(Nat), NoWildcard(name)
  PROVE  isTopicMatched(name, name)
<1>1. PICK matched : isTopicMatched(name, name) = matched[1][1] /\ MatchLoop(name, name, matched)
  BY MatchedLoop
<1> DEFINE hi == Len(name) + 1
           D == 1..hi
           T == {k \in Nat : \A f \in D : hi - f < k => (matched[f][f] <=> TRUE)}
<1>2. hi \in Nat /\ Len(name) \in Nat OBVIOUS
<1>3. 0 \in T
  <2>1. \A f \in D : ~(hi - f < 0) BY <1>2
  <2> QED BY <2>1
<1>4. ASSUME NEW k \in Nat, k \in T PROVE k + 1 \in T
  <2> SUFFICES ASSUME NEW f \in D, hi - f < k + 1 PROVE matched[f][f] <=> TRUE OBVIOUS
  <2>1. matched[f][f] =
          IF f > Len(name) \/ f > Len(name) THEN f > Len(name) /\ f > Len(name)
          ELSE IF Differ(name[f], name[f]) THEN FALSE
          ELSE matched[f + 1][CASE name[f] = OneLevel -> LevelEnd(name, f) + 1
                                [] name[f] = AnyLevels -> Len(name) + 1
                                [] OTHER -> f + 1]
    BY <1>1, Zenon DEF MatchLoop
  <2>2. CASE f > Len(name) BY <2>1, <2>2, Zenon
  <2>3. CASE ~(f > Len(name))
    <3>1. f \in 1..Len(name) /\ f + 1 \in D /\ hi - (f + 1) < k BY <1>2, <2>3
    <3>2. name[f] \notin Wildcards BY <3>1, Zenon DEF NoWildcard
    <3>3. name[f] # OneLevel /\ name[f] # AnyLevels BY <3>2 DEF Wildcards
    <3>4. ~Differ(name[f], name[f]) BY Zenon DEF Differ
    <3>5. matched[f][f] = matched[f + 1][f + 1] BY <2>1, <2>3, <3>3, <3>4, Zenon
    <3>6. matched[f + 1][f + 1] <=> TRUE
      <4> HIDE DEF D, hi
      <4> QED BY <1>4, <3>1, Zenon
    <3> QED BY <3>5, <3>6, Zenon
  <2> QED BY <2>2, <2>3
<1> HIDE DEF T
<1>5. Nat \subseteq T BY <1>3, <1>4, Induction
<1>6. hi - 1 < hi /\ 1 \in D /\ hi \in T BY <1>2, <1>5
<1>7. matched[1][1] <=> TRUE
  <2> HIDE DEF hi, D
  <2> QED BY <1>6, Zenon DEF T
<1> QED BY <1>1, <1>7, Zenon

\* The filters of the handlers are correct sequences.
LEMMA FiltersType ==
  ASSUME NEW filter \in Filters
  PROVE  filter \in Seq(Nat) /\ Correct(filter)
<1>1. PICK n \in 1..MaxFilterLen : filter \in [1..n -> Letters \cup Wildcards] BY DEF Filters
<1>2. Letters \cup Wildcards \subseteq Nat
  BY CodecAssumption DEF Wildcards, OneLevel, AnyLevels
<1>3. n \in Nat BY CodecAssumption
<1>4. filter \in [1..n -> Nat] BY <1>1, <1>2
<1>5. filter \in Seq(Nat) BY <1>3, <1>4
<1> QED BY <1>5 DEF Filters

\* The names of messages have no wildcards.
LEMMA NamesAreLetters ==
  ASSUME NEW s \in TopicNames
  PROVE  s \in Seq(Nat) /\ NoWildcard(s)
<1>1. PICK n \in 0..MaxNameLen : s \in [1..n -> Letters] BY DEF TopicNames
<1>2. s \in Seq(Nat) /\ Len(s) \in Nat BY NamesType
<1>3. n \in Nat
  <2>1. MaxNameLen \in Word BY CodecAssumption
  <2>2. MaxNameLen \in Nat BY <2>1, WordType
  <2> QED BY <2>2
<1>4. DOMAIN s = 1..n /\ DOMAIN s = 1..Len(s) BY <1>1, <1>2
<1>5. \A i \in 1..Len(s) : s[i] \in Letters BY <1>1, <1>4
<1>6. \A i \in 1..Len(s) : s[i] \notin Wildcards BY <1>5, CodecAssumption
<1> QED BY <1>2, <1>6 DEF NoWildcard

\* The handlers that are called for a name.
LEMMA HandlersAreRight ==
  ASSUME NEW filter \in Filters, NEW name \in TopicNames
  PROVE  /\ Handles(filter, name) => Matches(filter, name)
         /\ /\ Matches(filter, name) /\ NoEmptyLevel(name)
            /\ ~(EndsInAny(Levels(filter)) /\ Len(Levels(name)) < Len(Levels(filter)))
            => Handles(filter, name)
<1>1. filter \in Seq(Nat) /\ Correct(filter) BY FiltersType
<1>2. name \in Seq(Nat) /\ NoWildcard(name) BY NamesAreLetters
<1>3. /\ isTopicMatched(filter, name) => Matches(filter, name)
      /\ /\ Matches(filter, name) /\ NoEmptyLevel(name)
         /\ ~(EndsInAny(Levels(filter)) /\ Len(Levels(name)) < Len(Levels(filter)))
         => isTopicMatched(filter, name)
  BY <1>1, <1>2, TopicsMatched
<1>4. ASSUME name = filter PROVE isTopicMatched(filter, name)
  <2>1. isTopicMatched(name, name) BY <1>2, SameName
  <2> QED BY <1>4, <2>1, Zenon
<1> QED BY <1>3, <1>4, Zenon DEF Handles

\* The messages of the peer have names without wildcards.
NamesInv ==
  stage \in {"received", "read"} /\ packet.type = PUBLISH => packet.topicName \in TopicNames

\* Every step keeps that.
LEMMA NamesNext ==
  ASSUME CodecInv', NamesInv, [Next]_vars
  PROVE  NamesInv'
<1>1. ASSUME NEW p, NEW h, NEW l, NEW limit, NEW body, Serialize(p, h, l, limit, body)
      PROVE  NamesInv'
  BY <1>1 DEF Serialize, SerializeTo, NamesInv
<1>2. ASSUME NEW p, NEW h, NEW l, NEW limit, NEW body, SerializeTo("received", p, h, l, limit, body),
             p.type # PUBLISH
      PROVE  NamesInv'
  BY <1>2 DEF SerializeTo, NamesInv
<1>3. CASE SerializeConnect \/ SerializeSubscribe \/ SerializeUnsubscribe
  BY <1>1, <1>3, Zenon DEF SerializeConnect, SerializeSubscribe, SerializeUnsubscribe
<1>4. CASE SerializePublish \/ SerializeAck \/ SerializeZero
  BY <1>1, <1>4, Zenon DEF SerializePublish, SerializeAck, SerializeZero
<1>5. CASE PeerSends
  <2>1. PICK p \in PeerPackets : packet' = p BY <1>5 DEF PeerSends
  <2>2. p.type = PUBLISH => p \in Publishes(TopicNames, {1})
    BY DEF PeerPackets, PUBLISH, CONNACK, SUBACK, UNSUBACK, Acks, PUBACK, PUBREC, PUBREL, PUBCOMP
  <2>3. p \in Publishes(TopicNames, {1}) => p.topicName \in TopicNames BY DEF Publishes
  <2> QED BY <2>1, <2>2, <2>3 DEF NamesInv
<1>6. CASE MQTTSerialize_connack
  <2>1. PICK p \in [type : {CONNACK}, sessionPresent : 0..1, connack_rc : 0..5] :
          SerializeTo("received", p, MQTTHeader(CONNACK, 0, 0, 0), 2, 2,
                      <<128 * p.sessionPresent, p.connack_rc>>)
    BY <1>6 DEF MQTTSerialize_connack
  <2>2. p.type # PUBLISH BY DEF CONNACK, PUBLISH
  <2> QED BY <1>2, <2>1, <2>2
<1>7. CASE MQTTSerialize_suback
  <2>1. PICK p \in [type : {SUBACK}, packetid : PacketIds, grantedQoSs : Lists({0, 1, 2, 128})] :
          SerializeTo("received", p, MQTTHeader(SUBACK, 0, 0, 0), 2 + Len(p.grantedQoSs),
                      2 + Len(p.grantedQoSs), writeInt(p.packetid) \o p.grantedQoSs)
    BY <1>7 DEF MQTTSerialize_suback
  <2>2. p.type # PUBLISH BY DEF SUBACK, PUBLISH
  <2> QED BY <1>2, <2>1, <2>2
<1>8. CASE MQTTSerialize_unsuback
  <2>1. PICK p \in [type : {UNSUBACK}, packetid : PacketIds] :
          SerializeTo("received", p, MQTTHeader(UNSUBACK, 0, 0, 0), 2, 2, writeInt(p.packetid))
    BY <1>8 DEF MQTTSerialize_unsuback
  <2>2. p.type # PUBLISH BY DEF UNSUBACK, PUBLISH
  <2> QED BY <1>2, <2>1, <2>2
<1>9. CASE ClientReads BY <1>9 DEF ClientReads, NamesInv
<1>10. CASE PeerReads
  <2>1. stage' = "read" /\ got' = IF Complete(buf) THEN PeerConnect(Data(buf)) ELSE Malformed
    BY <1>10 DEF PeerReads
  <2>2. \A d : PeerConnect(d).type # PUBLISH BY DEF PeerConnect, Malformed, CONNECT, PUBLISH
  <2>3. got'.type # PUBLISH BY <2>1, <2>2 DEF Malformed, PUBLISH
  <2>4. got' = IF TooManyCodes(packet') THEN Overrun ELSE packet' BY <2>1 DEF CodecInv, RoundTrip
  <2>5. TooManyCodes(packet') => packet'.type # PUBLISH BY DEF TooManyCodes, SUBACK, PUBLISH
  <2>6. packet'.type # PUBLISH BY <2>3, <2>4, <2>5, Zenon
  <2> QED BY <2>6 DEF NamesInv
<1>11. CASE ServerReads BY <1>11 DEF ServerReads, NamesInv
<1>12. CASE NextPacket BY <1>12 DEF NextPacket, NamesInv
<1>13. CASE UNCHANGED vars BY <1>13 DEF vars, NamesInv
<1> QED BY <1>3, <1>4, <1>5, <1>6, <1>7, <1>8, <1>9, <1>10, <1>11, <1>12, <1>13 DEF Next

\* deliverMessage calls no handler whose filter does not match the name, and every one whose
\* filter does, but for names with an empty level and for the parent of '#'.
THEOREM HandlersMatch == Spec => []RightHandlers
<1>1. Init => NamesInv BY DEF Init, NamesInv
<1>2. CodecInv /\ NamesInv => RightHandlers
  <2> SUFFICES ASSUME RoundTrip, NamesInv, stage = "read", got.type = PUBLISH, NEW filter \in Filters
      PROVE  LET name == got.topicName
                 parent == EndsInAny(Levels(filter)) /\ Len(Levels(name)) < Len(Levels(filter))
             IN /\ Handles(filter, name) => Matches(filter, name)
                /\ Matches(filter, name) /\ NoEmptyLevel(name) /\ ~parent => Handles(filter, name)
    BY DEF CodecInv, RightHandlers
  <2>1. got = packet
    <3>1. got = IF TooManyCodes(packet) THEN Overrun ELSE packet BY DEF RoundTrip
    <3>2. Overrun.type # PUBLISH BY DEF Overrun, PUBLISH
    <3> QED BY <3>1, <3>2, Zenon
  <2>2. got.topicName \in TopicNames BY <2>1 DEF NamesInv
  <2> QED BY <2>2, HandlersAreRight
<1>3. NamesInv /\ CodecInv' /\ [Next]_vars => NamesInv' BY NamesNext
<1> QED BY <1>1, <1>2, <1>3, CodecInvariance, PTL DEF Spec
=============================================================================
