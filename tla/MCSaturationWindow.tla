------------------------- MODULE MCSaturationWindow -------------------------
(* A window of three ticks, scrolled over twice.                           *)
EXTENDS SaturationWindow
=============================================================================
