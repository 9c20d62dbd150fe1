----------------------------- MODULE MCSensors -----------------------------
(* Sensors with temperatures that tell the bytes and the signs apart. *)
EXTENDS Sensors

MCTemperatures == {-16, 0, 1, 400, 2000}
=============================================================================
