-------------------------- MODULE MCPushScheduler --------------------------
(* PushScheduler on two threads and a few events.                          *)
EXTENDS PushScheduler
=============================================================================
