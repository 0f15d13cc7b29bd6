---------------------------- MODULE MCIncidents ----------------------------
(* Incidents of one device and two proxies.                                *)
EXTENDS Incidents, TLC

Symmetry == Permutations(Proxies)
=============================================================================
