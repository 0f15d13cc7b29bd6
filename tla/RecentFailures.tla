--------------------------- MODULE RecentFailures ---------------------------
(***************************************************************************)
(* What a failure window promises: it answers every question about an      *)
(* address from exactly the failures of the last Window ticks, the oldest  *)
(* of them included, as if each failure vanished by itself.                *)
(***************************************************************************)
EXTENDS Integers, FiniteSets

CONSTANTS
  Addresses,  (* Device addresses.                                           *)
  Proxies,    (* Proxies that can measure a failure.                         *)
  Inferred,   (* The source of a failure nobody measured.                    *)
  Window      (* window_s, in ticks.                                         *)

VARIABLES
  now,        (* The clock.                                                  *)
  booked,     (* Failures so far; they are numbered in order.                *)
  live,       (* The failures still inside the window.                       *)
  answer      (* The last answer given.                                      *)

log == <<now, booked, live, answer>>

Sources == Proxies \cup {Inferred}

Failure(n, a, t, s) == [id |-> n, address |-> a, at |-> t, source |-> s]

Alive(f, t) == f.at >= t - Window

(* count, sources and count_by_source for the failures of one address.     *)
Answer(failures) ==
  [count |-> Cardinality(failures),
   sources |-> {f.source : f \in failures} \ {Inferred},
   bySource |-> [p \in Proxies |-> Cardinality({f \in failures : f.source = p})]]

Start ==
  /\ now = 0
  /\ booked = 0
  /\ live = {}
  /\ answer = Answer({})

Book(a, s) ==
  /\ booked' = booked + 1
  /\ live' = live \cup {Failure(booked + 1, a, now, s)}
  /\ UNCHANGED <<now, answer>>

Ask(a) ==
  /\ answer' = Answer({f \in live : f.address = a})
  /\ UNCHANGED <<now, booked, live>>

Pass ==
  /\ now' = now + 1
  /\ live' = {f \in live : Alive(f, now + 1)}
  /\ UNCHANGED <<booked, answer>>

Move ==
  \/ \E a \in Addresses : Ask(a) \/ \E s \in Sources : Book(a, s)
  \/ Pass

Promise == Start /\ [][Move]_log
=============================================================================
