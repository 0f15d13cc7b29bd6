-------------------------- MODULE MCFailureWindow --------------------------
(* FailureWindow on a few addresses and proxies.                           *)
EXTENDS FailureWindow
=============================================================================
