---------------------- MODULE NonBlockingReaderProofs ----------------------
(***************************************************************************)
(* Theorems about NonBlockingReader, for every size of the caller's buffer *)
(* and every stream of packets.                                            *)
(***************************************************************************)
EXTENDS NonBlockingReader, PacketBytesProofs

\* The invariant: what is read is a natural number, and the rest fits.
NonBlockingInv ==
  /\ wire \in Seq(Bytes)
  /\ sent \in Seq(Packets)
  /\ state \in {0, 1, 2} /\ len \in Nat /\ rem_len \in Nat /\ multiplier \in Nat
  /\ RestFits

\* Init gives it.
LEMMA InitInv == Init => NonBlockingInv
BY DEF Init, NonBlockingInv, RestFits

\* A packet more on the wire does not touch the reader.
LEMMA PeerInv ==
  ASSUME NonBlockingInv, (\E n \in BodyLengths : PeerSends(n)) \/ PeerLeaves
  PROVE  NonBlockingInv'
<1>1. ASSUME NEW n \in BodyLengths, PeerSends(n) PROVE NonBlockingInv'
  <2> DEFINE k == Len(sent) + 1
  <2>1. k \in Nat /\ k \in 1..MaxPackets
    BY <1>1, NonBlockingAssumption DEF PeerSends, NonBlockingInv
  <2> HIDE DEF k
  <2>2. /\ wire' = wire \o OnWire(k, n) /\ sent' = Append(sent, Packet(k, n))
        /\ UNCHANGED trp
    BY <1>1 DEF PeerSends, k
  <2>3. Base \in Nat \ {0, 1} /\ n \in Nat BY NonBlockingAssumption
  <2>4. OnWire(k, n) \in Seq(Bytes) BY <2>1, <2>3, OnWireType
  <2>5. Packet(k, n) \in Packets BY <2>1 DEF Packets
  <2> QED BY <2>2, <2>4, <2>5 DEF NonBlockingInv, RestFits, trp
<1>2. CASE PeerLeaves BY <1>2 DEF PeerLeaves, NonBlockingInv, RestFits, trp
<1> QED BY <1>1, <1>2

\* getfn leaves the wire a sequence of bytes, and hands out its first.
LEMMA GetsType ==
  ASSUME wire \in Seq(Bytes), NEW n \in Nat, NEW k \in Nat, Gets(n, k)
  PROVE  wire' \in Seq(Bytes) /\ k \in 1..n /\ wire[1].val \in Nat
<1>1. k \in 1..n /\ k <= Len(wire) /\ wire' = SubSeq(wire, k + 1, Len(wire)) BY DEF Gets
<1>2. 1 \in 1..Len(wire) BY <1>1
<1>3. wire[1] \in Bytes BY <1>2
<1>4. wire[1].val \in Nat BY <1>3 DEF Bytes
<1>5. wire' \in Seq(Bytes) BY <1>1
<1> QED BY <1>1, <1>4, <1>5

\* A length that is accepted leaves room for the rest.
LEMMA AllReadFits ==
  ASSUME NEW n \in Nat, AllRead(n)
  PROVE  state' \in {0, 2} /\ len' \in Nat /\ rem_len' \in Nat /\ RestFits'
<1>1. Base \in Nat \ {0, 1} /\ BufLen \in Nat BY NonBlockingAssumption
<1>2. Len(Length(0, n)) \in {1, 2} BY <1>1, LengthType
<1> QED BY <1>1, <1>2 DEF AllRead, GivesUp, Exit, RestFits

\* The header and the length.
LEMMA LengthInv ==
  ASSUME NonBlockingInv, ReadHeader \/ TooManyTries \/ ReadLength
  PROVE  NonBlockingInv'
<1>0. wire \in Seq(Bytes) /\ Base \in Nat BY NonBlockingAssumption DEF NonBlockingInv
<1>1. CASE ReadHeader
  <2>1. wire' \in Seq(Bytes) BY <1>0, <1>1, GetsType DEF ReadHeader, CallAgain, Fails
  <2> QED BY <1>1, <2>1 DEF ReadHeader, CallAgain, Fails, Exit, NonBlockingInv, RestFits
<1>2. CASE TooManyTries
  BY <1>2 DEF TooManyTries, GivesUp, Exit, NonBlockingInv, RestFits, peer
<1>3. CASE ReadLength
  <2> DEFINE n == SoFar(rem_len, 0)
             m == SoFar(multiplier, 1)
  <2>1. n \in Nat /\ m \in Nat BY DEF SoFar, NonBlockingInv
  <2>2. sent' = sent BY <1>3 DEF ReadLength
  <2> HIDE DEF n, m
  <2>3. \/ Gets(1, 1) /\ multiplier' = m * Base
           /\ LET v == n + (wire[1].val % Base) * m
              IN AllRead(v) \/ (rem_len' = v /\ len' = len + 1 /\ UNCHANGED state)
        \/ UNCHANGED <<wire, state>> /\ len' = len + 1 /\ rem_len' = n /\ multiplier' = m
        \/ UNCHANGED wire /\ state' = 0 /\ len' = len + 1 /\ rem_len' = n /\ multiplier' = m
    BY <1>3 DEF ReadLength, CallAgain, Fails, GivesUp, Exit, n, m
  <2>4. state = 1 BY <1>3 DEF ReadLength
  <2>5. CASE Gets(1, 1) /\ multiplier' = m * Base
             /\ LET v == n + (wire[1].val % Base) * m
                IN AllRead(v) \/ (rem_len' = v /\ len' = len + 1 /\ UNCHANGED state)
    <3> DEFINE v == n + (wire[1].val % Base) * m
    <3>1. wire' \in Seq(Bytes) /\ wire[1].val \in Nat BY <1>0, <2>5, GetsType
    <3>2. wire[1].val % Base \in Nat
      <4>1. wire[1].val \in Int /\ Base \in Nat \ {0} BY <3>1, NonBlockingAssumption
      <4> QED BY <4>1
    <3>3. v \in Nat
      <4>1. (wire[1].val % Base) * m \in Nat BY <2>1, <3>2
      <4> QED BY <2>1, <4>1
    <3>4. m * Base \in Nat BY <1>0, <2>1
    <3>5. AllRead(v) \/ (rem_len' = v /\ len' = len + 1 /\ UNCHANGED state) BY <2>5
    <3> HIDE DEF v
    <3> QED
      BY <2>2, <2>4, <2>5, <3>1, <3>3, <3>4, <3>5, AllReadFits DEF NonBlockingInv, RestFits
  <2> QED BY <2>1, <2>2, <2>3, <2>4, <2>5 DEF NonBlockingInv, RestFits
<1> QED BY <1>1, <1>2, <1>3

\* The rest, in pieces.
LEMMA RestInv ==
  ASSUME NonBlockingInv, ReadRest
  PROVE  NonBlockingInv'
<1>1. wire \in Seq(Bytes) /\ rem_len \in Nat /\ len \in Nat /\ BufLen \in Nat
  BY NonBlockingAssumption DEF NonBlockingInv
<1>2. state = 2 /\ UNCHANGED <<sent, multiplier>> /\ len + rem_len <= BufLen
  BY DEF ReadRest, NonBlockingInv, RestFits
<1>3. ASSUME NEW k \in 1..rem_len, Gets(rem_len, k), rem_len' = rem_len - k, len' = len + k,
             state' \in {0, 2}
      PROVE  NonBlockingInv'
  <2>1. wire' \in Seq(Bytes) BY <1>1, <1>3, GetsType
  <2>2. rem_len' \in Nat /\ len' \in Nat /\ len' + rem_len' <= BufLen BY <1>1, <1>2, <1>3
  <2> QED BY <1>2, <1>3, <2>1, <2>2 DEF NonBlockingInv, RestFits
<1>4. ASSUME UNCHANGED <<wire, len, rem_len>>, state' \in {0, 2} PROVE NonBlockingInv'
  BY <1>1, <1>2, <1>4 DEF NonBlockingInv, RestFits
<1>5. \/ \E k \in 1..rem_len : Gets(rem_len, k) /\ rem_len' = rem_len - k /\ len' = len + k
                               /\ state' \in {0, 2}
      \/ UNCHANGED <<wire, len, rem_len>> /\ state' \in {0, 2}
  BY <1>2 DEF ReadRest, CallAgain, Fails, GivesUp, Exit
<1> QED BY <1>3, <1>4, <1>5

\* Every step keeps it.
LEMMA InvStep == ASSUME NonBlockingInv, [Next]_vars PROVE NonBlockingInv'
<1>1. CASE UNCHANGED vars BY <1>1 DEF vars, peer, trp, NonBlockingInv, RestFits
<1> QED BY <1>1, PeerInv, LengthInv, RestInv DEF Next, readnb

\* For every buffer, number base and stream of packets, whatever the pieces getfn gives, the
\* rest of a packet is only asked for where it fits behind its header.
THEOREM RestAlwaysFits == Spec => []RestFits
<1>1. NonBlockingInv /\ [Next]_vars => NonBlockingInv' BY InvStep
<1>2. NonBlockingInv => RestFits BY DEF NonBlockingInv
<1> QED BY <1>1, <1>2, InitInv, PTL DEF Spec

-----------------------------------------------------------------------------
(* The channel of whole packets.  Until a packet is given up, the bytes the reader has taken  *)
(* of the current packet and those on the wire are the packets that were not handed out.      *)

\* c are the bytes of the current packet that were taken: what is known of them.
Consumed(c) ==
  \/ state = 0 /\ c = <<>>
  \/ /\ state = 1 /\ body = <<>> /\ Len(c) = 1 /\ c[1] = header
     /\ len = 0 \/ (rem_len = 0 /\ multiplier = 1)
  \/ /\ state = 1 /\ body = <<>> /\ Len(c) = 2 /\ c[1] = header
     /\ len # 0 /\ multiplier = Base /\ c[2].val >= Base /\ c[2].val % Base = rem_len
  \/ /\ state = 2
     /\ \E n \in Nat :
          /\ rem_len = n - Len(body) /\ n = Len(sent[taken + 1].body)
          /\ Known(c, header, Len(Length(0, n)), body, n)
Carried == \E c \in Seq(Bytes) : Consumed(c) /\ Carries(c \o wire, sent, taken + 1)
Kept == ~broken => taken <= Len(sent) /\ Carried
StreamInv ==
  /\ body \in Seq(Bytes) /\ header \in Bytes
  /\ taken \in Nat /\ broken \in BOOLEAN /\ Numbered(sent)
  /\ Kept
StreamTypes == NonBlockingInv /\ StreamInv

\* The packet a byte is of, and its bytes.
Current(k) == k = taken + 1
LEMMA CurrentPacket ==
  ASSUME StreamTypes, ~broken, NEW k, Current(k), NEW w \in Seq(Bytes),
         Carries(w, sent, k), Len(w) # 0
  PROVE  \E n \in 0..(Base * Base - 1) : IsAt(sent, k, n) /\ StartsWith(w, k, n)
<1> DEFINE n == Len(sent[k].body)
<1>1. /\ sent \in Seq(Packets) /\ taken \in Nat /\ taken <= Len(sent)
      /\ Numbered(sent) /\ Base \in Nat \ {0, 1}
  BY NonBlockingAssumption DEF StreamTypes, NonBlockingInv, StreamInv, Kept
<1>2. k \in 1..Len(sent) + 1 BY <1>1 DEF Current
<1>3. k \in 1..Len(sent) BY <1>1, <1>2, CarriesFirst
<1>4. n \in BodyLengths
  <2>1. sent[k] \in Packets BY <1>1, <1>3
  <2>2. PICK a \in 1..MaxPackets, b \in BodyLengths : sent[k] = Packet(a, b)
    BY <2>1 DEF Packets
  <2>3. sent[k].body = Body(a, b) BY <2>2 DEF Packet, Result
  <2>4. b \in Nat BY NonBlockingAssumption
  <2>5. Len(Body(a, b)) = b BY <2>4 DEF Body
  <2> QED BY <2>3, <2>5
<1>5. n \in Nat /\ n \in 0..(Base * Base - 1) BY <1>4, NonBlockingAssumption
<1>6. Len(sent[k].body) = n /\ w \in Seq(Bytes) /\ Carries(w, sent, k) /\ Len(w) # 0 OBVIOUS
<1> HIDE DEF n
<1>7. Begins(sent, w, k, n) BY <1>1, <1>2, <1>5, <1>6 DEF Begins
<1>8. IsAt(sent, k, n) /\ StartsWith(w, k, n) BY <1>1, <1>7, FirstPacket
<1> QED BY <1>5, <1>8

\* getfn moves bytes from the wire to the reader.
LEMMA GetsMoves ==
  ASSUME wire \in Seq(Bytes), NEW m, NEW j \in Nat, Gets(m, j), NEW c \in Seq(Bytes)
  PROVE  \E d \in Seq(Bytes) : Moved(c, wire, d, wire', j)
<1>1. j \in 1..Len(wire) /\ wire' = SubSeq(wire, j + 1, Len(wire)) BY DEF Gets
<1>2. Moved(c, wire, c \o SubSeq(wire, 1, j), SubSeq(wire, j + 1, Len(wire)), j)
  BY <1>1, PieceMoves
<1>3. c \o SubSeq(wire, 1, j) \in Seq(Bytes) BY <1>2 DEF Moved
<1> QED BY <1>1, <1>2, <1>3

\* What does not depend on the packets: types, and what is given up stays given up.
LEMMA StreamTypeStep ==
  ASSUME StreamTypes, [Next]_vars
  PROVE  /\ body' \in Seq(Bytes) /\ header' \in Bytes
         /\ taken' \in Nat /\ broken' \in BOOLEAN /\ Numbered(sent') /\ (broken => broken')
<1>1. /\ wire \in Seq(Bytes) /\ sent \in Seq(Packets) /\ body \in Seq(Bytes) /\ header \in Bytes
      /\ taken \in Nat /\ broken \in BOOLEAN /\ Numbered(sent) /\ rem_len \in Nat
  BY DEF StreamTypes, NonBlockingInv, StreamInv
<1>2. CASE UNCHANGED vars BY <1>1, <1>2 DEF vars, peer
<1>3. ASSUME NEW n \in BodyLengths, PeerSends(n)
      PROVE  /\ Numbered(sent') /\ UNCHANGED <<body, header, taken, broken>>
  <2> DEFINE m == Len(sent)
             p == Packet(m + 1, n)
  <2>1. n \in Nat /\ m \in Nat BY <1>1, NonBlockingAssumption
  <2>2. sent' = Append(sent, p) BY <1>3 DEF PeerSends
  <2>3. IsPacket(p, m + 1)
    <3>1. p.body = Body(m + 1, n) /\ Len(p.body) = n BY <2>1 DEF Packet, Result, Body
    <3> QED BY <2>1, <3>1 DEF IsPacket
  <2> HIDE DEF p
  <2>4. Len(sent') = m + 1 /\ sent'[m + 1] = p /\ \A k \in 1..m : sent'[k] = sent[k]
    BY <1>1, <2>2
  <2>5. \A k \in 1..m : IsPacket(sent[k], k) BY <1>1 DEF Numbered
  <2> HIDE DEF m
  <2>6. \A k \in 1..m + 1 : k = m + 1 \/ k \in 1..m BY <2>1
  <2>7. \A k \in 1..m + 1 : IsPacket(sent'[k], k) BY <2>3, <2>4, <2>5, <2>6
  <2>8. Numbered(sent') BY <2>4, <2>7 DEF Numbered
  <2> QED BY <1>3, <2>8 DEF PeerSends
<1>4. CASE PeerLeaves BY <1>1, <1>4 DEF PeerLeaves
<1>5. CASE ReadHeader
  <2>1. header' \in Bytes /\ body' \in Seq(Bytes)
    <3>1. CASE Gets(1, 1) /\ header' = wire[1] /\ body' = <<>>
      <4>1. 1 \in 1..Len(wire) BY <1>1, <3>1 DEF Gets
      <4> QED BY <1>1, <3>1, <4>1
    <3>2. CASE UNCHANGED <<header, body>> BY <1>1, <3>2
    <3> QED BY <1>5, <3>1, <3>2 DEF ReadHeader
  <2> QED BY <1>1, <1>5, <2>1 DEF ReadHeader
<1>6. CASE TooManyTries BY <1>1, <1>6 DEF TooManyTries, GivesUp, peer
<1>7. CASE ReadLength
  <2>1. UNCHANGED <<sent, header, body>> BY <1>7 DEF ReadLength
  <2>2. UNCHANGED taken /\ broken' \in {TRUE, broken}
    BY <1>7 DEF ReadLength, AllRead, GivesUp, Fails, CallAgain
  <2> QED BY <1>1, <2>1, <2>2
<1>8. CASE ReadRest
  <2>1. UNCHANGED <<sent, header>> BY <1>8 DEF ReadRest
  <2>2. taken' \in {taken, taken + 1} /\ broken' \in {TRUE, broken}
    BY <1>8 DEF ReadRest, GivesUp
  <2>3. body' \in Seq(Bytes)
    <3>1. ASSUME NEW k \in 1..rem_len, Gets(rem_len, k), body' = body \o SubSeq(wire, 1, k)
          PROVE  body' \in Seq(Bytes)
      <4>1. k \in 1..Len(wire) BY <1>1, <3>1 DEF Gets
      <4>2. body \o SubSeq(wire, 1, k) \in Seq(Bytes) BY <1>1, <4>1, PieceMoves DEF Moved
      <4> QED BY <3>1, <4>2
    <3> QED BY <1>1, <1>8, <3>1 DEF ReadRest
  <2>4. taken' \in Nat BY <1>1, <2>2
  <2>5. broken' = TRUE \/ broken' = broken BY <2>2
  <2>6. broken' \in BOOLEAN /\ (broken => broken')
    <3>1. broken \in BOOLEAN BY <1>1
    <3>2. CASE broken' = TRUE BY <3>2
    <3>3. CASE broken' = broken BY <3>1, <3>3
    <3> QED BY <2>5, <3>2, <3>3
  <2> QED BY <1>1, <2>1, <2>3, <2>4, <2>6
<1> QED BY <1>1, <1>2, <1>3, <1>4, <1>5, <1>6, <1>7, <1>8 DEF Next, readnb

\* What is on its way may move to the reader as long as the reader knows what it has.
LEMMA KeepsCarried ==
  ASSUME StreamTypes, ~broken, UNCHANGED <<sent, taken>>,
         NEW c \in Seq(Bytes), Carries(c \o wire, sent, taken + 1),
         NEW d \in Seq(Bytes), d \o wire' = c \o wire, Consumed(d)'
  PROVE  Kept'
<1>1. taken <= Len(sent) BY DEF StreamTypes, StreamInv, Kept
<1>2. Carries(d \o wire', sent', taken' + 1) OBVIOUS
<1>3. Carried' BY <1>2 DEF Carried
<1> QED BY <1>1, <1>3 DEF Kept

\* A step that hands out no packet reads nothing of the channel.
LEMMA QuietStep ==
  ASSUME ~broken, UNCHANGED <<sent, taken, broken>>, last' = last \/ last' \in Results
  PROVE  [Stream!Next]_(Stream!stream)
<1>1. CASE last' = last BY <1>1 DEF Stream!stream
<1>2. CASE last' \in Results
  <2>1. Stream!ReadsNone(last') BY <1>2 DEF Stream!ReadsNone
  <2> QED BY <1>2, <2>1 DEF Stream!Next
<1> QED BY <1>1, <1>2

\* A packet that is given up ends the promise.
LEMMA BreakStep == ASSUME broken' PROVE Kept' /\ [Stream!Next]_(Stream!stream)
BY DEF Kept, Stream!Next, Stream!Breaks

\* A packet more behind those the broker has sent.
LEMMA SendStep ==
  ASSUME StreamTypes, ~broken, NEW n \in BodyLengths, PeerSends(n)
  PROVE  Kept' /\ [Stream!Next]_(Stream!stream)
<1> DEFINE m == Len(sent)
           p == Packet(m + 1, n)
           o == OnWire(m + 1, n)
<1>1. /\ wire \in Seq(Bytes) /\ sent \in Seq(Packets) /\ taken \in Nat /\ taken <= Len(sent)
      /\ Carried /\ Base \in Nat \ {0, 1} /\ n \in Nat /\ m \in Nat
  BY NonBlockingAssumption DEF StreamTypes, NonBlockingInv, StreamInv, Kept
<1>2. /\ sent' = Append(sent, p) /\ wire' = wire \o o /\ m < MaxPackets
      /\ UNCHANGED <<state, len, rem_len, multiplier, header, body, last, taken, broken>>
  BY DEF PeerSends, trp
<1>3. p \in Packets
  <2>1. m + 1 \in 1..MaxPackets BY <1>1, <1>2, NonBlockingAssumption
  <2> QED BY <2>1 DEF Packets
<1>4. o \in Seq(Bytes)
  <2>1. m + 1 \in Nat BY <1>1
  <2> QED BY <1>1, <2>1, OnWireType
<1>5. PICK c \in Seq(Bytes) : Consumed(c) /\ Carries(c \o wire, sent, taken + 1)
  BY <1>1 DEF Carried
<1>6. Carries((c \o wire) \o o, Append(sent, p), taken + 1)
  <2>1. c \o wire \in Seq(Bytes) /\ taken + 1 \in 1..m + 1 BY <1>1
  <2> QED BY <1>1, <1>3, <1>5, <2>1, CarriesMore
<1>7. (c \o wire) \o o = c \o (wire \o o) BY <1>1, <1>4
<1>8. Carries(c \o wire', sent', taken' + 1)
  <2> HIDE DEF p, o
  <2>1. Carries(c \o (wire \o o), Append(sent, p), taken + 1) BY <1>6, <1>7
  <2> QED BY <1>2, <2>1
<1> HIDE DEF p, o
<1>9. Len(sent') = m + 1 /\ \A i \in 1..m : sent'[i] = sent[i] BY <1>1, <1>2, <1>3
<1>10. Consumed(c)'
  <2>1. CASE state # 2 BY <1>2, <1>5, <2>1 DEF Consumed
  <2>2. CASE state = 2
    <3>1. Len(c \o wire) # 0 /\ c \o wire \in Seq(Bytes) /\ taken + 1 \in 1..Len(sent) + 1
      <4>1. PICK z \in Nat : Known(c, header, Len(Length(0, z)), body, z)
        BY <1>5, <2>2 DEF Consumed
      <4>2. PICK g \in Nat : g = Len(Length(0, z)) BY <4>1 DEF Known
      <4>3. Len(c) = 1 + g + Len(body) /\ Len(body) \in Nat BY <4>1, <4>2 DEF Known
      <4>4. Len(c) # 0 BY <4>2, <4>3
      <4>5. Len(c \o wire) = Len(c) + Len(wire) /\ Len(c) \in Nat /\ Len(wire) \in Nat
        BY <1>1, ConcatFacts
      <4> QED BY <1>1, <4>4, <4>5
    <3>2. taken + 1 \in 1..Len(sent) BY <1>1, <1>5, <3>1, CarriesFirst
    <3>3. sent'[taken' + 1] = sent[taken + 1] BY <1>2, <1>9, <3>2
    <3> QED BY <1>2, <1>5, <2>2, <3>3 DEF Consumed
  <2> QED BY <2>1, <2>2
<1>11. Kept'
  <2>1. Carried' BY <1>8, <1>10 DEF Carried
  <2> QED BY <1>1, <1>2, <1>9, <2>1 DEF Kept
<1>12. Stream!Send(p)
  <2> DEFINE q == IF taken <= Len(sent) THEN SubSeq(sent, taken + 1, Len(sent)) ELSE <<>>
  <2>1. q = SubSeq(sent, taken + 1, m) BY <1>1
  <2>2. q' = SubSeq(Append(sent, p), taken + 1, m + 1)
    <3>1. taken' = taken /\ sent' = Append(sent, p) /\ Len(sent') = m + 1 BY <1>2, <1>9
    <3>2. taken' <= Len(sent') BY <1>1, <3>1
    <3>3. q' = SubSeq(sent', taken' + 1, Len(sent')) BY <3>2
    <3> QED BY <3>1, <3>3
  <2>3. SubSeq(Append(sent, p), taken + 1, m + 1) = Append(SubSeq(sent, taken + 1, m), p)
    <3>1. taken \in 0..Len(sent) BY <1>1
    <3> QED BY <1>1, <1>3, <3>1, QueueGrows
  <2>4. q' = Append(q, p) BY <2>1, <2>2, <2>3
  <2>5. ~broken /\ UNCHANGED <<last, broken>> BY <1>2
  <2> QED BY <2>4, <2>5 DEF Stream!Send
<1> QED BY <1>3, <1>11, <1>12 DEF Stream!Next

\* The first byte of a packet.
LEMMA HeaderStep ==
  ASSUME StreamTypes, ~broken, ReadHeader
  PROVE  Kept' /\ [Stream!Next]_(Stream!stream)
<1>1. wire \in Seq(Bytes) /\ Carried BY DEF StreamTypes, NonBlockingInv, StreamInv, Kept
<1>2. state = 0 /\ UNCHANGED <<sent, taken, broken>> BY DEF ReadHeader
<1>3. PICK c \in Seq(Bytes) : Consumed(c) /\ Carries(c \o wire, sent, taken + 1)
  BY <1>1 DEF Carried
<1>4. c = <<>> BY <1>2, <1>3 DEF Consumed
<1>5. CASE Gets(1, 1) /\ header' = wire[1] /\ body' = <<>> /\ len' = 0 /\ state' = 1
           /\ UNCHANGED last
  <2>1. PICK d \in Seq(Bytes) : Moved(c, wire, d, wire', 1) BY <1>1, <1>5, GetsMoves
  <2>2. Len(d) = 1 /\ d[1] = header' /\ d \o wire' = c \o wire
    <3>1. Len(c) = 0 BY <1>4
    <3>2. Len(d) = Len(c) + 1 /\ d[Len(c) + 1] = wire[1] /\ d \o wire' = c \o wire
      BY <2>1 DEF Moved
    <3> QED BY <1>5, <3>1, <3>2
  <2>3. Consumed(d)' BY <1>5, <2>2 DEF Consumed
  <2>4. Kept' BY <1>2, <1>3, <2>2, <2>3, KeepsCarried
  <2> QED BY <1>2, <1>5, <2>4, QuietStep
<1>6. CASE UNCHANGED wire /\ state' = 0 /\ last' \in Results
  <2>1. Consumed(c)' BY <1>4, <1>6 DEF Consumed
  <2>2. c \o wire' = c \o wire BY <1>6
  <2>3. Kept' BY <1>2, <1>3, <2>1, <2>2, KeepsCarried
  <2> QED BY <1>2, <1>6, <2>3, QuietStep
<1> QED BY <1>2, <1>5, <1>6 DEF ReadHeader, CallAgain, Fails, Exit, Results

\* The length is known: what follows is the body.
LEMMA LengthDone ==
  ASSUME StreamTypes, ~broken, UNCHANGED <<sent, header, body>>, body = <<>>,
         NEW n \in Nat, AllRead(n), n = Len(sent[taken + 1].body),
         NEW c \in Seq(Bytes), Carries(c \o wire, sent, taken + 1),
         NEW d \in Seq(Bytes), d \o wire' = c \o wire,
         Len(d) = 1 + Len(Length(0, n)), d[1] = header
  PROVE  Kept' /\ [Stream!Next]_(Stream!stream)
<1>1. CASE GivesUp
  <2>1. broken' BY <1>1 DEF GivesUp
  <2> QED BY <2>1, BreakStep
<1>2. CASE state' = 2 /\ rem_len' = n /\ UNCHANGED <<last, taken, broken>>
  <2>1. Base \in Nat \ {0, 1} /\ 0 \in Nat BY NonBlockingAssumption
  <2>2. PICK g \in Nat : g = Len(Length(0, n)) BY <2>1, LengthType
  <2>3. body' = <<>> /\ d[1] = header' /\ Len(d) = 1 + g BY <2>2
  <2>4. Known(d, header', Len(Length(0, n)), body', n) BY <2>2, <2>3 DEF Known
  <2>5. rem_len' = n - Len(body') /\ n = Len(sent'[taken' + 1].body) BY <1>2, <2>3
  <2>6. Consumed(d)' BY <1>2, <2>4, <2>5 DEF Consumed
  <2>7. Kept' BY <1>2, <2>6, KeepsCarried
  <2> QED BY <1>2, <2>7, QuietStep
<1> QED BY <1>1, <1>2 DEF AllRead

\* The remaining length, digit by digit.
LEMMA LengthStep ==
  ASSUME StreamTypes, ~broken, ReadLength
  PROVE  Kept' /\ [Stream!Next]_(Stream!stream)
<1> DEFINE n == SoFar(rem_len, 0)
           m == SoFar(multiplier, 1)
<1>1. /\ wire \in Seq(Bytes) /\ Carried /\ len \in Nat /\ Base \in Nat \ {0, 1} /\ taken \in Nat
  BY NonBlockingAssumption DEF StreamTypes, NonBlockingInv, StreamInv, Kept
<1>2. state = 1 /\ UNCHANGED <<sent, header, body>> BY DEF ReadLength
<1>3. PICK c \in Seq(Bytes) : Consumed(c) /\ Carries(c \o wire, sent, taken + 1)
  BY <1>1 DEF Carried
<1>4. body = <<>> /\ c[1] = header BY <1>2, <1>3 DEF Consumed
<1>5. \/ Len(c) = 1 /\ n = 0 /\ m = 1
      \/ Len(c) = 2 /\ len # 0 /\ m = Base /\ c[2].val >= Base /\ n = c[2].val % Base
  BY <1>2, <1>3 DEF Consumed, SoFar
<1> HIDE DEF n, m
<1>6. CASE UNCHANGED <<wire, state, taken, broken>> /\ last' = Nothing
           /\ len' = len + 1 /\ rem_len' = n /\ multiplier' = m
  <2>1. len' # 0 BY <1>1, <1>6
  <2>2. state' = 1 /\ body' = <<>> /\ c[1] = header' BY <1>2, <1>4, <1>6
  <2>3. Consumed(c)' BY <1>5, <1>6, <2>1, <2>2 DEF Consumed
  <2>4. c \o wire' = c \o wire BY <1>6
  <2>5. Kept' BY <1>2, <1>3, <1>6, <2>3, <2>4, KeepsCarried
  <2> QED BY <1>2, <1>6, <2>5, QuietStep DEF Results
<1>7. CASE GivesUp
  <2>1. broken' BY <1>7 DEF GivesUp
  <2> QED BY <2>1, BreakStep
<1>8. ASSUME Gets(1, 1), multiplier' = m * Base,
             LET b == wire[1].val
                 v == n + (b % Base) * m
             IN \/ b < Base /\ AllRead(v)
                \/ /\ b >= Base /\ rem_len' = v /\ len' = len + 1
                   /\ UNCHANGED <<state, last, taken, broken>>
      PROVE  Kept' /\ [Stream!Next]_(Stream!stream)
  <2> DEFINE b == wire[1].val
             w == c \o wire
  <2>1. PICK d \in Seq(Bytes) : Moved(c, wire, d, wire', 1) BY <1>1, <1>8, GetsMoves
  <2>2. /\ w \in Seq(Bytes) /\ Len(d) = Len(c) + 1 /\ d \o wire' = w /\ Len(w) \in Nat
        /\ Len(d) <= Len(w)
        /\ \A i \in 1..Len(c) : d[i] = c[i] /\ w[i] = c[i]
        /\ d[Len(c) + 1] = wire[1] /\ w[Len(c) + 1] = wire[1]
    BY <2>1 DEF Moved
  <2>3. b \in Nat
    <3>1. 1 \in 1..Len(wire) BY <1>8 DEF Gets
    <3>2. wire[1] \in Bytes BY <1>1, <3>1
    <3> QED BY <3>2 DEF Bytes
  <2> HIDE DEF w
  <2>4. Len(w) # 0 BY <1>5, <2>2
  <2>5. PICK k \in Nat : Current(k) BY <1>1 DEF Current
  <2>6. Carries(w, sent, k) BY <1>3, <2>5 DEF Current, w
  <2>7. PICK z \in 0..(Base * Base - 1) : IsAt(sent, k, z) /\ StartsWith(w, k, z)
    BY <2>2, <2>4, <2>5, <2>6, CurrentPacket
  <2>8. z \in Nat /\ z = Len(sent[taken + 1].body) BY <2>5, <2>7 DEF IsAt, Current
  <2>9. /\ w[2].val < Base => Len(Length(0, z)) = 1 /\ 0 + (w[2].val % Base) * 1 = z
        /\ w[2].val >= Base =>
             /\ Len(Length(0, z)) = 2 /\ w[3].val < Base
             /\ (w[2].val % Base) + (w[3].val % Base) * Base = z
    BY <1>1, <2>7, DigitRead
  <2>10. d[1] = header
    <3>1. 1 \in 1..Len(c) BY <1>5
    <3> QED BY <1>4, <2>2, <3>1
  <2>11. CASE Len(c) = 1
    <3>1. w[2] = wire[1] /\ d[2] = wire[1] /\ Len(d) = 2 /\ n = 0 /\ m = 1 BY <1>5, <2>2, <2>11
    <3>2. CASE b < Base
      <4>1. Len(Length(0, z)) = 1 /\ 0 + (b % Base) * 1 = z BY <2>9, <3>1, <3>2
      <4>2. AllRead(n + (b % Base) * m) BY <1>8, <2>3, <3>2, <1>1
      <4>3. AllRead(z)
        <5>1. n + (b % Base) * m = z BY <3>1, <4>1, Zenon
        <5> HIDE DEF b
        <5> QED BY <4>2, <5>1, Zenon
      <4>4. Len(Length(0, z)) = 1 /\ Len(d) = 2 BY <3>1, <4>1
      <4>5. Len(d) = 1 + Len(Length(0, z))
        <5>1. Len(d) = 1 + 1 BY <4>4
        <5> QED BY <4>4, <5>1, Zenon
      <4> QED BY <1>2, <1>3, <1>4, <2>2, <2>8, <2>10, <4>3, <4>5, LengthDone DEF w
    <3>3. CASE b >= Base
      <4>1. /\ rem_len' = n + (b % Base) * m /\ len' = len + 1
            /\ UNCHANGED <<state, last, taken, broken>>
        BY <1>1, <1>8, <2>3, <3>3
      <4>2. rem_len' = b % Base
        <5>1. b % Base \in Nat
          <6>1. Base \in Nat \ {0} /\ b \in Int BY <1>1, <2>3
          <6> QED BY <6>1
        <5> QED BY <3>1, <4>1, <5>1
      <4>3. multiplier' = Base BY <1>1, <1>8, <3>1
      <4>4. len' # 0 /\ state' = 1 /\ body' = <<>> /\ d[1] = header'
        BY <1>1, <1>2, <1>4, <2>10, <4>1
      <4>5. d[2].val >= Base /\ d[2].val % Base = rem_len' BY <3>1, <3>3, <4>2
      <4>6. Consumed(d)' BY <3>1, <4>3, <4>4, <4>5 DEF Consumed
      <4>7. Kept' BY <1>2, <1>3, <2>2, <4>1, <4>6, KeepsCarried DEF w
      <4> QED BY <1>2, <4>1, <4>7, QuietStep
    <3> QED BY <1>1, <2>3, <3>2, <3>3
  <2>12. CASE Len(c) = 2
    <3>1. /\ c[2].val >= Base /\ m = Base /\ n = c[2].val % Base
      BY <1>5, <2>12
    <3>2. w[2] = c[2] /\ w[3] = wire[1] /\ Len(d) = 3 BY <2>2, <2>12
    <3>3. Len(Length(0, z)) = 2 /\ b < Base /\ n + (b % Base) * m = z BY <2>9, <3>1, <3>2
    <3>4. AllRead(n + (b % Base) * m) BY <1>1, <1>8, <2>3, <3>3
    <3>5. AllRead(z)
      <4> HIDE DEF b
      <4> QED BY <3>3, <3>4, Zenon
    <3>6. Len(Length(0, z)) = 2 /\ Len(d) = 3 BY <3>2, <3>3
    <3>7. Len(d) = 1 + Len(Length(0, z))
      <4>1. Len(d) = 1 + 2 BY <3>6
      <4> QED BY <3>6, <4>1, Zenon
    <3> QED BY <1>2, <1>3, <1>4, <2>2, <2>8, <2>10, <3>5, <3>7, LengthDone DEF w
  <2> QED BY <1>5, <2>11, <2>12
<1> QED BY <1>6, <1>7, <1>8 DEF ReadLength, CallAgain, Fails, n, m

\* The rest of a packet, in pieces.  The last piece hands out the packet the broker has sent.
LEMMA RestStep ==
  ASSUME StreamTypes, ~broken, ReadRest
  PROVE  Kept' /\ [Stream!Next]_(Stream!stream)
<1>1. /\ wire \in Seq(Bytes) /\ sent \in Seq(Packets) /\ Carried /\ Base \in Nat \ {0, 1}
      /\ taken \in Nat /\ taken <= Len(sent) /\ rem_len \in Nat /\ body \in Seq(Bytes)
  BY NonBlockingAssumption DEF StreamTypes, NonBlockingInv, StreamInv, Kept
<1>2. state = 2 /\ UNCHANGED <<sent, header>> BY DEF ReadRest
<1>3. PICK c \in Seq(Bytes) : Consumed(c) /\ Carries(c \o wire, sent, taken + 1)
  BY <1>1 DEF Carried
<1>4. PICK n \in Nat : /\ rem_len = n - Len(body) /\ n = Len(sent[taken + 1].body)
                       /\ Known(c, header, Len(Length(0, n)), body, n)
  BY <1>2, <1>3 DEF Consumed
<1>5. CASE UNCHANGED <<wire, state, rem_len, body, taken, broken>> /\ last' = Nothing
  <2>1. Consumed(c)' BY <1>2, <1>4, <1>5 DEF Consumed
  <2>2. c \o wire' = c \o wire BY <1>5
  <2>3. Kept' BY <1>2, <1>3, <1>5, <2>1, <2>2, KeepsCarried
  <2> QED BY <1>2, <1>5, <2>3, QuietStep DEF Results
<1>6. CASE GivesUp
  <2>1. broken' BY <1>6 DEF GivesUp
  <2> QED BY <2>1, BreakStep
<1>7. ASSUME NEW j \in 1..rem_len, Gets(rem_len, j),
             body' = body \o SubSeq(wire, 1, j), rem_len' = rem_len - j, UNCHANGED broken,
             \/ j = rem_len /\ Exit(Result("packet", header, body')) /\ taken' = taken + 1
             \/ j < rem_len /\ last' = Nothing /\ UNCHANGED <<state, taken>>
      PROVE  Kept' /\ [Stream!Next]_(Stream!stream)
  <2> DEFINE w == c \o wire
  <2>1. j \in 1..Len(wire) /\ wire' = SubSeq(wire, j + 1, Len(wire)) BY <1>7 DEF Gets
  <2>2. Len(body) + j <= n
    <3>1. PICK l \in Nat : l = Len(body) BY <1>1
    <3>2. rem_len = n - l BY <1>4, <3>1
    <3> QED BY <1>1, <1>7, <3>1, <3>2
  <2>3. PICK d : /\ Moved(c, wire, d, wire', j) /\ Known(d, header, Len(Length(0, n)), body', n)
                 /\ Len(body') = Len(body) + j
    BY <1>1, <1>4, <1>7, <2>1, <2>2, PieceIsBody
  <2>4. d \in Seq(Bytes) /\ d \o wire' = w BY <2>3 DEF Moved
  <2>5. CASE j < rem_len /\ last' = Nothing /\ UNCHANGED <<state, taken>>
    <3>1. rem_len' = n - Len(body')
      <4>1. PICK l \in Nat : l = Len(body) BY <1>1
      <4>2. rem_len' = (n - l) - j /\ Len(body') = l + j BY <1>4, <1>7, <2>3, <4>1
      <4> QED BY <4>2
    <3>2. Consumed(d)' BY <1>2, <1>4, <2>3, <2>5, <3>1 DEF Consumed
    <3>3. Kept' BY <1>2, <1>3, <2>4, <2>5, <3>2, KeepsCarried
    <3> QED BY <1>2, <1>7, <2>5, <3>3, QuietStep DEF Results
  <2>6. CASE j = rem_len /\ Exit(Result("packet", header, body')) /\ taken' = taken + 1
    <3>1. /\ w \in Seq(Bytes) /\ Len(w) \in Nat /\ Len(d) <= Len(w) /\ Len(c) \in Nat
          /\ Len(d) = Len(c) + j /\ \A i \in 1..Len(d) : d[i] = w[i]
      BY <2>3 DEF Moved
    <3> HIDE DEF w
    <3>2. Len(w) # 0 BY <1>1, <1>7, <3>1
    <3>3. PICK k \in Nat : Current(k) BY <1>1 DEF Current
    <3>4. Carries(w, sent, k) BY <1>3, <3>3 DEF Current, w
    <3>5. PICK z \in 0..(Base * Base - 1) : IsAt(sent, k, z) /\ StartsWith(w, k, z)
      BY <3>1, <3>2, <3>3, <3>4, CurrentPacket
    <3>6. n \in 0..(Base * Base - 1) /\ IsAt(sent, k, n) /\ StartsWith(w, k, n)
      <4>1. z = n BY <1>4, <3>3, <3>5 DEF IsAt, Current
      <4> QED BY <3>5, <4>1
    <3>7. Len(body') = n
      <4>1. PICK l \in Nat : l = Len(body) BY <1>1
      <4>2. j = n - l /\ Len(body') = l + j BY <1>4, <2>3, <2>6, <4>1
      <4> QED BY <4>2
    <3>8. Result("packet", header, body') = Packet(k, n) /\ Len(OnWire(k, n)) = Len(d)
      <4>1. Len(Length(k, n)) = Len(Length(0, n)) BY <1>1, <3>6, DigitsGiveLength
      <4>2. Whole(d, header, Len(Length(k, n)), body', n) BY <2>3, <3>7, <4>1, Zenon DEF Whole
      <4>3. Agrees(d, w) BY <3>1 DEF Agrees
      <4>4. StartsWith(w, k, n) /\ Base \in Nat \ {0, 1} /\ k \in Nat BY <1>1, <3>6
      <4>5. Makes(d, header, body', k, n) BY <4>2, <4>3, <4>4, BodyIsWhole
      <4> QED BY <4>5 DEF Makes
    <3>9. k \in 1..Len(sent) /\ sent[k] = Packet(k, n) /\ Len(Wire(sent, k)) = Len(d)
      BY <3>6, <3>8 DEF IsAt
    <3>10. Carries(wire', sent, k + 1)
      <4>1. wire' \in Seq(Bytes) BY <2>3 DEF Moved
      <4> QED BY <1>1, <2>4, <3>1, <3>4, <3>9, <4>1, CarriesRest
    <3>11. Kept'
      <4>1. <<>> \o wire' = wire' /\ <<>> \in Seq(Bytes)
        <5>1. wire' \in Seq(Bytes) BY <2>3 DEF Moved
        <5> QED BY <5>1
      <4>2. Carries(<<>> \o wire', sent', taken' + 1)
        <5>1. taken' + 1 = k + 1 BY <1>1, <2>6, <3>3 DEF Current
        <5> QED BY <1>2, <3>10, <4>1, <5>1
      <4>3. Consumed(<<>>)' BY <2>6 DEF Consumed, Exit
      <4>4. Carried' BY <4>1, <4>2, <4>3 DEF Carried
      <4>5. taken' <= Len(sent') BY <1>1, <1>2, <2>6, <3>3, <3>9 DEF Current
      <4> QED BY <4>4, <4>5 DEF Kept
    <3>12. Stream!Read
      <4> DEFINE q == IF taken <= Len(sent) THEN SubSeq(sent, taken + 1, Len(sent)) ELSE <<>>
      <4>1. taken \in 0..Len(sent) - 1 BY <1>1, <3>3, <3>9 DEF Current
      <4>2. q = SubSeq(sent, taken + 1, Len(sent)) BY <1>1
      <4>3. q' = SubSeq(sent, taken + 2, Len(sent))
        <5>1. taken' = taken + 1 /\ sent' = sent /\ taken' <= Len(sent') BY <1>2, <2>6, <4>1
        <5>2. q' = SubSeq(sent', taken' + 1, Len(sent')) BY <5>1
        <5>3. taken' + 1 = taken + 2 BY <1>1, <5>1
        <5> QED BY <5>1, <5>2, <5>3
      <4>4. q # <<>> /\ Head(q) = sent[taken + 1] /\ Tail(q) = q'
        <5>1. /\ SubSeq(sent, taken + 1, Len(sent)) # <<>>
              /\ Head(SubSeq(sent, taken + 1, Len(sent))) = sent[taken + 1]
              /\ Tail(SubSeq(sent, taken + 1, Len(sent))) = SubSeq(sent, taken + 2, Len(sent))
          BY <1>1, <4>1, QueueShrinks
        <5> HIDE DEF q
        <5> QED BY <4>2, <4>3, <5>1
      <4>5. last' = sent[taken + 1] BY <2>6, <3>3, <3>8, <3>9 DEF Exit, Current
      <4> QED BY <1>7, <4>4, <4>5 DEF Stream!Read
    <3> QED BY <3>11, <3>12 DEF Stream!Next
  <2> QED BY <1>7, <2>5, <2>6
<1> QED BY <1>5, <1>6, <1>7 DEF ReadRest, CallAgain, Fails

\* Init is an empty channel.
LEMMA InitStream == Init => StreamTypes /\ Stream!Init
<1> SUFFICES ASSUME Init PROVE StreamTypes /\ Stream!Init
  OBVIOUS
<1>1. NonBlockingInv BY InitInv
<1>2. Carries(<<>> \o wire, sent, taken + 1)
  <2>1. sent \in Seq(Packets) /\ Len(sent) = 0 /\ taken = 0 /\ wire = <<>> BY DEF Init
  <2>2. Carries(<<>>, sent, 0 + 1) BY <2>1, CarriesNone
  <2>3. <<>> \o wire = <<>> BY <2>1
  <2> QED BY <2>1, <2>2, <2>3
<1>3. Carried
  <2>1. Consumed(<<>>) BY DEF Init, Consumed
  <2>2. <<>> \in Seq(Bytes) OBVIOUS
  <2> QED BY <1>2, <2>1, <2>2 DEF Carried
<1>4. StreamInv
  <2>1. Numbered(sent) BY DEF Init, Numbered
  <2>2. header \in Bytes BY ZeroType DEF Init
  <2>3. body \in Seq(Bytes) /\ taken \in Nat BY DEF Init
  <2>a. broken \in BOOLEAN BY DEF Init
  <2>4. taken <= Len(sent) BY DEF Init
  <2> QED BY <1>3, <2>1, <2>2, <2>3, <2>a, <2>4 DEF StreamInv, Kept
<1>5. Stream!Init BY DEF Init, Stream!Init, Results
<1> QED BY <1>1, <1>4, <1>5 DEF StreamTypes

\* Every step is one of the channel, or none.
LEMMA StreamStep ==
  ASSUME StreamTypes, [Next]_vars
  PROVE  StreamInv' /\ [Stream!Next]_(Stream!stream)
<1>1. /\ body' \in Seq(Bytes) /\ header' \in Bytes
      /\ taken' \in Nat /\ broken' \in BOOLEAN /\ Numbered(sent') /\ (broken => broken')
  BY StreamTypeStep
<1>2. Kept' /\ [Stream!Next]_(Stream!stream)
  <2>1. CASE broken
    <3>1. broken' BY <1>1, <2>1
    <3> QED BY <3>1, BreakStep
  <2>2. CASE ~broken
    <3>1. CASE UNCHANGED vars
      <4>1. /\ Kept /\ UNCHANGED <<wire, sent, state, len, rem_len, multiplier>>
            /\ UNCHANGED <<header, body, last, taken, broken>>
        BY <3>1 DEF StreamTypes, StreamInv, vars, peer, trp
      <4> QED BY <4>1 DEF Kept, Carried, Consumed, Stream!stream
    <3>2. CASE PeerLeaves
      <4>1. /\ Kept /\ UNCHANGED <<wire, sent, state, len, rem_len, multiplier>>
            /\ UNCHANGED <<header, body, last, taken, broken>>
        BY <3>2 DEF StreamTypes, StreamInv, PeerLeaves, trp
      <4> QED BY <4>1 DEF Kept, Carried, Consumed, Stream!stream
    <3>3. CASE TooManyTries
      <4>1. broken' BY <3>3 DEF TooManyTries, GivesUp
      <4> QED BY <4>1, BreakStep
    <3> QED
      BY <2>2, <3>1, <3>2, <3>3, SendStep, HeaderStep, LengthStep, RestStep DEF Next, readnb
  <2> QED BY <2>1, <2>2
<1> QED BY <1>1, <1>2 DEF StreamInv

\* For every buffer, number base and stream of packets: in whatever pieces the bytes come, the
\* reader implements the channel that hands out each packet whole, once and in order, until it
\* has to give one up.
THEOREM WholePackets == Spec => StreamSpec
<1>1. StreamTypes /\ [Next]_vars => StreamTypes' /\ [Stream!Next]_(Stream!stream)
  BY InvStep, StreamStep DEF StreamTypes
<1>2. Init => StreamTypes /\ Stream!Init BY InitStream
<1> QED BY <1>1, <1>2, PTL DEF Spec, StreamSpec, Stream!Spec
=============================================================================
