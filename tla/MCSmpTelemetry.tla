--------------------------- MODULE MCSmpTelemetry ---------------------------
(* SmpTelemetry on a few addresses and a small table.                      *)
EXTENDS SmpTelemetry, TLC

Symmetric == Permutations(Addresses)
=============================================================================
