--------------------------- MODULE MCStormSignal ---------------------------
(* One device, a proxy that counts and one that does not.  A counter can   *)
(* grow past the cap between two readings.                                 *)
EXTENDS StormSignal
=============================================================================
