------------------------- MODULE NonBlockingReader -------------------------
(***************************************************************************)
(* MQTTPacket_readnb and MQTTPacket_decodenb of MQTTPacket.c, the packet   *)
(* library's reader for transports that do not wait.  getfn gives -1 for   *)
(* an error, 0 for "call again", or bytes (MQTTPacket.h:118); between two  *)
(* calls all that is known of the packet is in MQTTTransport.              *)
(*                                                                         *)
(* A step is one use of getfn and what follows it up to the next one: a    *)
(* call that ends with 0 and the next call continue where a loop would.    *)
(* The firmware reads with readPacket and does not use this reader.        *)
(***************************************************************************)
EXTENDS PacketBytes

CONSTANTS
  BodyLengths,   \* lengths of the packets that are sent, after their header
  MaxPackets,    \* bound on the packets sent
  MaxDigits,     \* MAX_NO_OF_REMAINING_LENGTH_BYTES, 4 in the code
  BufLen         \* the caller's buffer

ASSUME NonBlockingAssumption ==
  /\ Base \in Nat \ {0, 1} /\ BodyLengths \subseteq 0..(Base * Base - 1)
  /\ MaxPackets \in Nat /\ MaxDigits \in Nat \ {0, 1} /\ BufLen \in Nat

VARIABLES
  wire, open,      \* bytes on their way, and whether the peer is there
  sent,            \* packets sent
  \* MQTTTransport
  state,           \* 0: header, 1: remaining length, 2: the rest
  len,             \* uses of getfn for the length; from state 2 on the bytes in the buffer
  rem_len, multiplier,
  \* the caller's buffer and the result
  header, body,
  last,            \* what the last call ended with
  \* history
  taken,           \* packets handed out
  broken           \* whether a packet has been given up in its middle

peer == <<wire, open, sent>>
trp == <<state, len, rem_len, multiplier>>
vars == <<peer, trp, header, body, last, taken, broken>>

-----------------------------------------------------------------------------
PeerSends(n) ==
  /\ open /\ Len(sent) < MaxPackets
  /\ sent' = Append(sent, Packet(Len(sent) + 1, n))
  /\ wire' = wire \o OnWire(Len(sent) + 1, n)
  /\ UNCHANGED <<open, trp, header, body, last, taken, broken>>
PeerLeaves ==
  /\ open /\ open' = FALSE
  /\ UNCHANGED <<wire, sent, trp, header, body, last, taken, broken>>

-----------------------------------------------------------------------------
(* getfn, asked for n bytes. *)

Gets(n, k) == k \in 1..n /\ k <= Len(wire) /\ wire' = SubSeq(wire, k + 1, Len(wire))
CallAgain == last' = Nothing /\ UNCHANGED wire
Fails == ~open /\ wire = <<>> /\ UNCHANGED wire

\* exit: the next call begins a packet.
Exit(result) == state' = 0 /\ last' = result
\* An error in the middle of a packet loses the packet.
GivesUp == Exit(ReadFailed) /\ broken' = TRUE /\ UNCHANGED taken

-----------------------------------------------------------------------------
ReadHeader ==
  /\ state = 0
  /\ \/ Gets(1, 1) /\ header' = wire[1] /\ body' = <<>> /\ len' = 0 /\ state' = 1 /\ UNCHANGED last
     \/ CallAgain /\ UNCHANGED <<state, len, header, body>>
     \/ Fails /\ Exit(ReadFailed) /\ UNCHANGED <<len, header, body>>
  /\ UNCHANGED <<open, sent, rem_len, multiplier, taken, broken>>

\* Mutant: the header and the length are not counted.
Mutant_AllRead(n) ==
  IF n > BufLen THEN GivesUp /\ rem_len' = n /\ len' = 1 + Len(Length(0, n))
  ELSE state' = 2 /\ rem_len' = n /\ len' = 1 + Len(Length(0, n)) /\ UNCHANGED <<last, taken, broken>>
\* The length is known: the whole packet must fit into the buffer.
AllRead(n) ==
  LET digits == Len(Length(0, n)) IN
  /\ rem_len' = n /\ len' = 1 + digits
  /\ \/ n + 1 + digits > BufLen /\ GivesUp
     \/ n + 1 + digits <= BufLen /\ state' = 2 /\ UNCHANGED <<last, taken, broken>>

\* decodenb: every use of getfn counts against MaxDigits, also one that got nothing.
TooManyTries ==
  /\ state = 1 /\ len + 1 > MaxDigits /\ len' = len + 1 /\ GivesUp
  /\ UNCHANGED <<peer, rem_len, multiplier, header, body>>

\* Mutant: they keep what the packet before has left.
Mutant_SoFar(field, first) == field
\* The fields are initialised on the first call.
SoFar(field, first) == IF len = 0 THEN first ELSE field
ReadLength ==
  LET n == SoFar(rem_len, 0)
      m == SoFar(multiplier, 1)
  IN
  /\ state = 1 /\ len + 1 <= MaxDigits
  /\ \/ /\ Gets(1, 1) /\ multiplier' = m * Base
        /\ LET c == wire[1].val
               v == n + (c % Base) * m
           IN \/ c < Base /\ AllRead(v)
              \/ c >= Base /\ rem_len' = v /\ len' = len + 1 /\ UNCHANGED <<state, last, taken, broken>>
     \/ CallAgain /\ len' = len + 1 /\ rem_len' = n /\ multiplier' = m /\ UNCHANGED <<state, taken, broken>>
     \/ Fails /\ GivesUp /\ len' = len + 1 /\ rem_len' = n /\ multiplier' = m
  /\ UNCHANGED <<open, sent, header, body>>

\* The rest may come in pieces; each but the last ends a call with 0.  getfn gives 0 bytes
\* when it is asked for none, which is "call again".
ReadRest ==
  /\ state = 2
  /\ \/ \E k \in 1..rem_len :
          /\ Gets(rem_len, k)
          /\ body' = body \o SubSeq(wire, 1, k) /\ rem_len' = rem_len - k /\ len' = len + k
          /\ \/ k = rem_len /\ Exit(Result("packet", header, body')) /\ taken' = taken + 1
             \/ k < rem_len /\ last' = Nothing /\ UNCHANGED <<state, taken>>
          /\ UNCHANGED broken
     \/ CallAgain /\ UNCHANGED <<state, len, rem_len, body, taken, broken>>
     \/ Fails /\ GivesUp /\ UNCHANGED <<len, rem_len, body>>
  /\ UNCHANGED <<open, sent, multiplier, header>>

-----------------------------------------------------------------------------
Init ==
  /\ wire = <<>> /\ open = TRUE /\ sent = <<>>
  /\ state = 0 /\ len = 0 /\ rem_len = 0 /\ multiplier = 1
  /\ header = Zero /\ body = <<>> /\ last = Nothing /\ taken = 0 /\ broken = FALSE

readnb == ReadHeader \/ TooManyTries \/ ReadLength \/ ReadRest
Next == (\E n \in BodyLengths : PeerSends(n)) \/ PeerLeaves \/ readnb
Spec == Init /\ [][Next]_vars

\* The caller calls again, and bytes that are there are some time given.
FairSpec == Spec /\ WF_vars(readnb) /\ WF_vars(readnb /\ wire' # wire)

-----------------------------------------------------------------------------
(* Properties. *)

\* What is announced after the length always fits behind what is in the buffer, however the
\* length came in pieces (MQTTPacket.c:386-391).
RestFits == state = 2 => rem_len >= 0 /\ len + rem_len <= BufLen

\* Pieces and pauses do not change what is read: the calls implement the channel of whole
\* packets, until one is given up in its middle.
Packets == {Packet(k, n) : k \in 1..MaxPackets, n \in BodyLengths}
Results == {Nothing, ReadFailed}
Stream == INSTANCE PacketStream WITH
  queue <- IF taken <= Len(sent) THEN SubSeq(sent, taken + 1, Len(sent)) ELSE <<>>
StreamSpec == Stream!Spec

\* Packets come out in the end, up to the first one without a body: of that one the length is
\* read and the rest, of no bytes, is asked for again for ever (MQTTPacket.c:395-398).
HasBody(k) == sent[k].body # <<>>
PacketsComeOut ==
  \A k \in 1..MaxPackets :
    (k <= Len(sent) /\ \A i \in 1..k : HasBody(i)) ~> (taken >= k \/ broken)
=============================================================================
