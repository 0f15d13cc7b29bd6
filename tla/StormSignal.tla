---------------------------- MODULE StormSignal ----------------------------
(***************************************************************************)
(* How failed connections become storms.  A device holds a slot on a proxy *)
(* and loses it again; some proxies count every pairing that failed, with  *)
(* a slot of Home Assistant's or without one, and for the slots of all     *)
(* others the integration infers a failure from a release that leaves the  *)
(* device unavailable.  Both kinds of evidence are booked into one window  *)
(* by a snapshot, which may find the counters of a proxy, or the whole     *)
(* device registry, unreadable.                                            *)
(***************************************************************************)
EXTENDS Integers, Sequences, FiniteSets

CONSTANTS
  Addresses,       (* Addresses of Bluetooth devices.                        *)
  Proxies,         (* Sources of proxies.                                    *)
  Counting,        (* Those that count failed pairings.                      *)
  Inferred,        (* source = None: a failure nobody measured.              *)
  StormThreshold,  (* Failures of a device that make a storm.                *)
  BondThreshold,   (* Refusals on one proxy that tell of a missing bond.     *)
  MaxRefused,      (* Bound on the failed pairings of an address in a run.   *)
  MaxPlain,        (* Bound on its connections to proxies that do not count. *)
  MaxCount,        (* Bound on a counter.                                    *)
  MaxBlind         (* Bound on the unreadable slots of an address in a run.  *)

ASSUME StormAssumption ==
  /\ IsFiniteSet(Proxies)
  /\ Counting \subseteq Proxies
  /\ Inferred \notin Proxies
  /\ StormThreshold \in Nat \ {0}
  /\ BondThreshold \in Nat \ {0}
  /\ MaxRefused \in Nat
  /\ MaxPlain \in Nat
  /\ MaxCount \in Nat
  /\ MaxBlind \in Nat

VARIABLES
  held,        (* The addresses with a slot on each proxy.                   *)
  counts,      (* The failures each proxy has counted since it booted.       *)
  dead,        (* Addresses whose entities are all unavailable.              *)
  previous,    (* ReleaseTracker._previous                                   *)
  pending,     (* ReleaseTracker._pending                                    *)
  baseline,    (* CounterDeltas._baseline, None where it has none.           *)
  window,      (* The storm window: what each snapshot booked, oldest first. *)
  uncapped,    (* History: the same without a cap on the replay.             *)
  refused,     (* History: failed pairings counted in this run.              *)
  unmeasured,  (* History: connections ended in this run on proxies that do  *)
               (* not count.                                                 *)
  inferred,    (* History: failures inferred in this run.                    *)
  blind        (* History: how often an address was remembered as unmeasured *)
               (* only because a counting proxy could not be read.           *)

radio == <<held, counts, dead>>
tracker == <<previous, pending, baseline>>
books == <<window, uncapped>>
history == <<refused, unmeasured, inferred, blind>>
vars == <<radio, tracker, books, history>>

None == -1

Sources == Proxies \cup {Inferred}

Holders(a) == {p \in Proxies : a \in held[p]}

Zero == [a \in Addresses |-> 0]

Unarmed == [p \in Proxies |-> [a \in Addresses |-> None]]

Init ==
  /\ held \in [Proxies -> SUBSET Addresses]
  /\ counts = [p \in Proxies |-> Zero]
  /\ dead \in SUBSET Addresses
  /\ previous = {}
  /\ pending = {}
  /\ baseline = Unarmed
  /\ window = <<>>
  /\ uncapped = <<>>
  /\ refused = Zero
  /\ unmeasured = Zero
  /\ inferred = Zero
  /\ blind = Zero

-----------------------------------------------------------------------------
(* The world. *)

PlainHolders(a) == Holders(a) \ Counting

Connect(p, a) ==
  /\ a \notin held[p]
  /\ p \in Counting \/ unmeasured[a] + Cardinality(PlainHolders(a)) < MaxPlain
  /\ held' = [held EXCEPT ![p] = @ \cup {a}]
  /\ UNCHANGED <<counts, dead, tracker, books, history>>

(* A pairing with a on p fails and is counted: once or many times on one   *)
(* link, which need not be one of Home Assistant's and need not end.       *)
Refuse(p, a) ==
  /\ p \in Counting
  /\ counts[p][a] < MaxCount
  /\ refused[a] < MaxRefused
  /\ counts' = [counts EXCEPT ![p][a] = @ + 1]
  /\ refused' = [refused EXCEPT ![a] = @ + 1]
  /\ UNCHANGED <<held, dead, tracker, books, unmeasured, inferred, blind>>

(* The connections of the addresses in lost end on p, well or badly.       *)
Ending(p, lost) ==
  /\ held' = [held EXCEPT ![p] = @ \ lost]
  /\ unmeasured' = [a \in Addresses |->
       IF p \notin Counting /\ a \in held[p] \cap lost THEN unmeasured[a] + 1 ELSE unmeasured[a]]

Drop(p, a) ==
  /\ a \in held[p]
  /\ Ending(p, {a})
  /\ UNCHANGED <<counts, dead, tracker, books, refused, inferred, blind>>

Reboot(p) ==
  /\ Ending(p, Addresses)
  /\ counts' = [counts EXCEPT ![p] = Zero]
  /\ UNCHANGED <<dead, tracker, books, refused, inferred, blind>>

(* Entity states settle on their own time.                                 *)
Settle(a) ==
  /\ dead' = IF a \in dead THEN dead \ {a} ELSE dead \cup {a}
  /\ UNCHANGED <<held, counts, tracker, books, history>>

-----------------------------------------------------------------------------
(* A snapshot.  It reads the counters of the proxies in read, and takes    *)
(* the devices in lost for dead.  Definitions named _mutant are plausible  *)
(* mistakes in the next definition, which the runs must refute.            *)

Allocated == UNION {held[p] : p \in Proxies}

Measured(read) == UNION {held[p] : p \in read}

Remembered_mutant(read) == Allocated

Remembered(read) == Allocated \ Measured(read)

Released == previous \ Allocated

Undecided_mutant(lost) == Released

(* Released while it looked alive: judged once more, by the next snapshot. *)
Undecided(lost) == Released \ lost

One(condition) == IF condition THEN 1 ELSE 0

(* ReleaseTracker.update: the releases that count as failures.             *)
Inferences(lost) ==
  [a \in Addresses |-> One(a \in (pending \ Allocated) \cap lost)
                         + One(a \in Released \cap lost)]

(* The addresses remembered although only counting proxies hold them.      *)
Mistaken(read) ==
  {a \in Allocated \ (Measured(read) \cup previous) : Holders(a) \subseteq Counting}

(* CounterDeltas.update; an address that never failed is not in the text.  *)
NewEvents(p, a) ==
  IF baseline[p][a] # None /\ baseline[p][a] < counts[p][a]
  THEN counts[p][a] - baseline[p][a] ELSE 0

Rearmed(read) ==
  [p \in Proxies |-> [a \in Addresses |->
     IF p \in read /\ counts[p][a] > 0 THEN counts[p][a] ELSE baseline[p][a]]]

Cap_mutant == StormThreshold

(* "the cap takes the max and stays correct however the two are tuned".    *)
Cap == IF StormThreshold > BondThreshold THEN StormThreshold ELSE BondThreshold

Capped(n) == IF n < Cap THEN n ELSE Cap

(* What the snapshot books, by address and source.                         *)
Bookings(read, lost) ==
  [a \in Addresses |-> [s \in Sources |->
     IF s = Inferred THEN Inferences(lost)[a]
     ELSE IF s \in read THEN NewEvents(s, a) ELSE 0]]

Replayed(b) ==
  [a \in Addresses |-> [s \in Sources |-> IF s = Inferred THEN b[a][s] ELSE Capped(b[a][s])]]

(* What a snapshot books has one time, and ages out together.              *)
Book(b) ==
  IF \E a \in Addresses, s \in Sources : b[a][s] > 0
  THEN /\ window' = Append(window, Replayed(b))
       /\ uncapped' = Append(uncapped, b)
  ELSE UNCHANGED books

(* coordinator._snapshot, the part of it that feeds the storm window.      *)
Take(read, lost) ==
  /\ \A a \in Mistaken(read) : blind[a] < MaxBlind
  /\ previous' = Remembered(read)
  /\ pending' = Undecided(lost)
  /\ baseline' = Rearmed(read)
  /\ Book(Bookings(read, lost))
  /\ inferred' = [a \in Addresses |-> inferred[a] + Inferences(lost)[a]]
  /\ blind' = [a \in Addresses |-> blind[a] + One(a \in Mistaken(read))]
  /\ UNCHANGED <<radio, refused, unmeasured>>

(* Sensors may be unavailable, or their text beyond parsing.               *)
Snapshot == \E read \in SUBSET Counting : Take(read, dead)

(* No registry: every device reads as alive.  A proxy is still found by    *)
(* its scanner's config entry, so its counters may be read all the same.   *)
DegradedSnapshot == \E read \in SUBSET Counting : Take(read, {})

(* The oldest bookings leave the window.                                   *)
Expire ==
  /\ window # <<>>
  /\ window' = Tail(window)
  /\ uncapped' = Tail(uncapped)
  /\ UNCHANGED <<radio, tracker, history>>

(* A new coordinator, with a tracker, a window and baselines of its own.   *)
Reload ==
  /\ previous' = {}
  /\ pending' = {}
  /\ baseline' = Unarmed
  /\ window' = <<>>
  /\ uncapped' = <<>>
  /\ refused' = Zero
  /\ unmeasured' = Zero
  /\ inferred' = Zero
  /\ blind' = Zero
  /\ UNCHANGED radio

Next ==
  \/ \E p \in Proxies : Reboot(p) \/ \E a \in Addresses : Connect(p, a) \/ Refuse(p, a) \/ Drop(p, a)
  \/ \E a \in Addresses : Settle(a)
  \/ Snapshot
  \/ DegradedSnapshot
  \/ Expire
  \/ Reload

Spec == Init /\ [][Next]_vars

-----------------------------------------------------------------------------
Batches == [Addresses -> [Sources -> Nat]]

TypeOK ==
  /\ held \in [Proxies -> SUBSET Addresses]
  /\ counts \in [Proxies -> [Addresses -> 0..MaxCount]]
  /\ dead \in SUBSET Addresses
  /\ previous \in SUBSET Addresses
  /\ pending \in SUBSET Addresses
  /\ baseline \in [Proxies -> [Addresses -> {None} \cup 1..MaxCount]]
  /\ window \in Seq(Batches)
  /\ uncapped \in Seq(Batches) /\ Len(uncapped) = Len(window)
  /\ refused \in [Addresses -> 0..MaxRefused]
  /\ unmeasured \in [Addresses -> Nat]
  /\ inferred \in [Addresses -> Nat]
  /\ blind \in [Addresses -> 0..MaxBlind]

(* The failures a window holds of address a from the given sources, told   *)
(* apart by the batch and the source they came with.                       *)
Failures(w, a, sources) ==
  UNION {{<<i, s>>} \X (1..w[i][a][s]) : i \in DOMAIN w, s \in sources}

Total(w, a, sources) == Cardinality(Failures(w, a, sources))

(* "feeding one window": whatever mixture of proxies a device connects     *)
(* through, and however the snapshots fall, the window holds at most one   *)
(* failure for every pairing a proxy counted and every connection that     *)
(* ended on a proxy that does not count, apart from the connections a      *)
(* counting proxy had while it could not be read.  A device that is simply *)
(* gone, or whose connections end well, cannot reach a threshold.          *)
StormNeedsChurn ==
  \A a \in Addresses : Total(uncapped, a, Sources) <= refused[a] + unmeasured[a] + blind[a]

(* A failure is inferred only from a connection to a proxy that does not   *)
(* count, with the same exception.                                         *)
InferredIsUnmeasured ==
  \A a \in Addresses : inferred[a] <= unmeasured[a] + blind[a]

(* "the extra iterations buy nothing": no cap on a replay changes a        *)
(* verdict, neither of the storm detector nor of the bond detector, now or *)
(* after any of the bookings have aged out.                                *)
CappingIsInvisible ==
  \A a \in Addresses :
    /\ Total(window, a, Sources) >= StormThreshold
         <=> Total(uncapped, a, Sources) >= StormThreshold
    /\ \A p \in Proxies :
         Total(window, a, {p}) >= BondThreshold <=> Total(uncapped, a, {p}) >= BondThreshold

(* "Their releases are never inferred: (...) inferring it too would count  *)
(* one failure twice": no exception for counters that cannot be read.      *)
NeverTwice ==
  \A a \in Addresses : Total(uncapped, a, Sources) <= refused[a] + unmeasured[a]
=============================================================================
