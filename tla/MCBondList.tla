----------------------------- MODULE MCBondList -----------------------------
(* BondList for two addresses, with one bond that fits into the list. *)
EXTENDS BondList
=============================================================================
