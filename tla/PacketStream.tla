---------------------------- MODULE PacketStream ----------------------------
(***************************************************************************)
(* What cycle takes readPacket for: a channel that hands out the packets   *)
(* the broker has sent, each one whole, once and in order, or tells that   *)
(* there is none.  The promise ends when a packet has come apart.          *)
(***************************************************************************)
EXTENDS Naturals, Sequences

CONSTANTS
  Packets,   \* what the broker may send
  Results    \* what a read may end with besides a packet

VARIABLES
  queue,     \* packets sent and not read
  last,      \* what the last read ended with
  broken     \* whether a packet has come apart

stream == <<queue, last, broken>>

Send(p) == ~broken /\ queue' = Append(queue, p) /\ UNCHANGED <<last, broken>>
Read == ~broken /\ queue # <<>> /\ last' = Head(queue) /\ queue' = Tail(queue) /\ UNCHANGED broken
ReadsNone(r) == ~broken /\ last' = r /\ UNCHANGED <<queue, broken>>
\* From here on anything may be read.
Breaks == broken' = TRUE

Init == queue = <<>> /\ last \in Results /\ broken = FALSE
Next ==
  \/ \E p \in Packets : Send(p)
  \/ Read
  \/ \E r \in Results : ReadsNone(r)
  \/ Breaks
Spec == Init /\ [][Next]_stream
=============================================================================
