-------------------------- MODULE MCProxyTracking --------------------------
(* ProxyTracking on two proxies.  The proxies of Steady come and go, share *)
(* every snapshot, save and refresh, but are never retired or forgotten.   *)
EXTENDS ProxyTracking

CONSTANT Steady

MCNext == Next /\ touched' \cap Steady = {}

MCSpec == Init /\ [][MCNext]_vars

MCFairSpec == MCSpec /\ Fairness
=============================================================================
