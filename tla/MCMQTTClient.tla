---------------------------- MODULE MCMQTTClient ----------------------------
(***************************************************************************)
(* MQTTClient for TLC.                                                     *)
(***************************************************************************)
EXTENDS MQTTClient

CONSTANT MaxUnacked   \* bound on the requests of a session that end unacknowledged
ASSUME MaxUnackedAssumption == MaxUnacked \in Nat

\* States with more are checked and not explored further.
FewUnacked == Cardinality(unacked) <= MaxUnacked
=============================================================================
