--------------------------- MODULE FailureWindow ---------------------------
(***************************************************************************)
(* The rolling window of connection failures and of proxy reboots: a queue *)
(* per address, which drops its aged-out head whenever it is touched.  A   *)
(* queue nobody asks about keeps failures that are long gone; a queue that *)
(* is empty is not kept at all (the empty sequence stands for no queue).   *)
(***************************************************************************)
EXTENDS Integers, Sequences, FiniteSets

CONSTANTS
  Addresses,  (* Device addresses, or proxies for the reboot window.         *)
  Proxies,    (* Proxies that can measure a failure.                         *)
  Inferred,   (* source = None: a failure nobody measured.                   *)
  Window,     (* window_s, in ticks.                                         *)
  MaxBooked,  (* Bound on the failures of a behaviour.                       *)
  MaxTime     (* Bound on the clock.                                         *)

ASSUME WindowAssumption ==
  /\ Window \in Nat
  /\ MaxBooked \in Nat
  /\ MaxTime \in Nat
  /\ Inferred \notin Proxies

VARIABLES
  events,     (* _events: the queue of each address, oldest failure first.   *)
  now,        (* The clock.                                                  *)
  booked,     (* History: failures so far; they are numbered in order.       *)
  answer      (* The last answer given.                                      *)

vars == <<events, now, booked, answer>>

Sources == Proxies \cup {Inferred}

Failure(n, a, t, s) == [id |-> n, address |-> a, at |-> t, source |-> s]

Failures ==
  [id : 1..MaxBooked, address : Addresses, at : 0..MaxTime, source : Sources]

-----------------------------------------------------------------------------
(* Definitions named _mutant are plausible mistakes in the next            *)
(* definition, which the runs must refute.                                 *)

Stale_mutant(f) == f.at <= now - Window

Stale(f) == f.at < now - Window

(* _evict: how many failures leave at the head, up to the first that is    *)
(* not stale.                                                              *)
Leaving(q) ==
  CHOOSE n \in 0..Len(q) :
    /\ \A i \in 1..n : Stale(q[i])
    /\ n < Len(q) => ~Stale(q[n + 1])

Evicted_mutant(q) == IF q # <<>> /\ Stale(q[1]) THEN Tail(q) ELSE q

Evicted(q) == SubSeq(q, Leaving(q) + 1, Len(q))

(* count, sources and count_by_source of an evicted queue.                 *)
AnswerFrom(q) ==
  [count |-> Len(q),
   sources |-> {q[i].source : i \in 1..Len(q)} \ {Inferred},
   bySource |-> [p \in Proxies |-> Cardinality({i \in 1..Len(q) : q[i].source = p})]]

Init ==
  /\ events = [a \in Addresses |-> <<>>]
  /\ now = 0
  /\ booked = 0
  /\ answer = AnswerFrom(<<>>)

(* record *)
Record(a, s) ==
  /\ booked < MaxBooked
  /\ booked' = booked + 1
  /\ events' = [events EXCEPT ![a] = Evicted(Append(@, Failure(booked + 1, a, now, s)))]
  /\ UNCHANGED <<now, answer>>

(* count, sources or count_by_source: reading evicts.                      *)
Read(a) ==
  /\ events' = [events EXCEPT ![a] = Evicted(@)]
  /\ answer' = AnswerFrom(Evicted(events[a]))
  /\ UNCHANGED <<now, booked>>

Swept == [a \in Addresses |-> Evicted(events[a])]

(* addresses: every queue evicts, and the empty ones are gone.             *)
Sweep ==
  /\ events' = Swept
  /\ UNCHANGED <<now, booked, answer>>

Tick ==
  /\ now < MaxTime
  /\ now' = now + 1
  /\ UNCHANGED <<events, booked, answer>>

Next ==
  \/ \E a \in Addresses : Read(a) \/ \E s \in Sources : Record(a, s)
  \/ Sweep
  \/ Tick

Spec == Init /\ [][Next]_vars

-----------------------------------------------------------------------------
TypeOK ==
  /\ events \in [Addresses -> Seq(Failures)]
  /\ now \in 0..MaxTime
  /\ booked \in 0..MaxBooked
  /\ answer \in [count : Nat, sources : SUBSET Proxies, bySource : [Proxies -> Nat]]

(* Queues are in the order of the clock and of the bookings.               *)
Ordered(q) ==
  \A i, j \in 1..Len(q) : i < j => q[i].id < q[j].id /\ q[i].at <= q[j].at

InOrder == \A a \in Addresses : Ordered(events[a])

(* The failures of a queue, and those of them that are not stale.          *)
Kept(q) == {q[i] : i \in 1..Len(q)}

Fresh(q) == {f \in Kept(q) : ~Stale(f)}

(* "the store does not accumulate stale deques in the 24/7 loop": a sweep  *)
(* leaves no failure that is gone, and keeps every one that is not.        *)
SweepCleans ==
  [][Sweep => \A a \in Addresses : Kept(events'[a]) = Fresh(events[a])]_vars

Live == UNION {Fresh(events[a]) : a \in Addresses}

(* Lazy eviction cannot be told from failures that vanish by themselves:   *)
(* the window keeps the promise of RecentFailures.                         *)
Log == INSTANCE RecentFailures WITH live <- Live

KeepsPromise == Log!Promise
=============================================================================
