----------------------------- MODULE MCSlotTable -----------------------------
(* SlotTable with two clients that share devices.                          *)
EXTENDS SlotTable, TLC

Symmetric == Permutations(Clients) \cup Permutations(Addresses) \cup Permutations(ConnIds)
=============================================================================
