---------------------------- MODULE SmpTelemetry ----------------------------
(***************************************************************************)
(* One proxy's pairing failures, from the firmware's table to the storm    *)
(* window: the component counts failures per address in a small table and  *)
(* publishes the counters; Home Assistant sees the last text it was sent;  *)
(* the integration turns the counters it reads into new failures, against  *)
(* a baseline per address.  Proxy reboots, full tables, lost connections,  *)
(* unreadable fields and restarts of Home Assistant come in between.       *)
(***************************************************************************)
EXTENDS Integers, FiniteSets

CONSTANTS
  Addresses,    (* Device addresses that may fail to pair.                   *)
  TableSize,    (* MAX_SMP_ADDRESSES.                                        *)
  MaxCount,     (* UINT32_MAX, the ceiling of a counter.                     *)
  ClockMod,     (* 2^32: where the firmware's millisecond clock wraps.       *)
  MaxFailures,  (* Bound on the failures of one address.                     *)
  MaxAge        (* Bound on the age of a table entry.                        *)

ASSUME SmpAssumption ==
  /\ TableSize \in Nat \ {0}
  /\ MaxCount \in Nat \ {0}
  /\ ClockMod \in Nat \ {0}
  /\ MaxFailures \in Nat
  /\ MaxAge \in Nat

VARIABLES
  counts,     (* The firmware's counters; 0 for an address without an entry. *)
  age,        (* Ticks since each entry was last updated.                    *)
  shown,      (* The counters in the text Home Assistant last received.      *)
  online,     (* Whether the text sensor is available.                       *)
  baseline,   (* CounterDeltas: the last counter read, or None.              *)
  reported,   (* History: failures handed to the storm window.               *)
  happened,   (* History: failures that happened.                            *)
  disturbed   (* History: counters lost, on either side, since last read.    *)
              (* A counter is lost by a reboot or an eviction, a baseline by *)
              (* a restart; a read puts it right unless the text it reads is *)
              (* from before the loss.                                       *)

firmware == <<counts, age>>
entity == <<shown, online>>
integration == <<baseline, reported>>
vars == <<firmware, entity, integration, happened, disturbed>>

None == -1

InTable == {a \in Addresses : counts[a] > 0}

Init ==
  /\ counts = [a \in Addresses |-> 0]
  /\ age = [a \in Addresses |-> 0]
  /\ shown = [a \in Addresses |-> 0]
  /\ online = FALSE
  /\ baseline = [a \in Addresses |-> None]
  /\ reported = [a \in Addresses |-> 0]
  /\ happened = [a \in Addresses |-> 0]
  /\ disturbed = {}

-----------------------------------------------------------------------------
(* The firmware.  Definitions named _mutant are plausible mistakes in the  *)
(* next definition, which the runs must refute.                            *)

Bump_mutant(n) == n + 1

(* A counter saturates.                                                    *)
Bump(n) == IF n < MaxCount THEN n + 1 ELSE n

SeenAge_mutant(a) ==
  IF age[a] % ClockMod < ClockMod \div 2 THEN age[a] % ClockMod
  ELSE (age[a] % ClockMod) - ClockMod

(* The unsigned difference of the clock and the entry's stamp.             *)
SeenAge(a) == age[a] % ClockMod

(* The entries that look least recently updated.                           *)
Victims == {v \in InTable : \A a \in InTable : SeenAge(a) <= SeenAge(v)}

(* The table after a failure of a, with the entries of dropped gone.       *)
Recorded(a, dropped) ==
  /\ counts' = [b \in Addresses |-> IF b = a THEN Bump(counts[a])
                                    ELSE IF b \in dropped THEN 0 ELSE counts[b]]
  /\ age' = [b \in Addresses |-> IF b \in dropped \cup {a} THEN 0 ELSE age[b]]
  /\ disturbed' = disturbed \cup dropped

(* gap_event_handler: record_smp_failure_, and a publication that reaches  *)
(* Home Assistant with Deliver or Connect.                                 *)
Fail(a) ==
  /\ happened[a] < MaxFailures
  /\ happened' = [happened EXCEPT ![a] = @ + 1]
  /\ IF a \in InTable \/ Cardinality(InTable) < TableSize
     THEN Recorded(a, {})
     ELSE \E v \in Victims : Recorded(a, {v})
  /\ UNCHANGED <<entity, integration>>

(* The proxy reboots with an empty table.                                  *)
Reboot ==
  /\ counts' = [a \in Addresses |-> 0]
  /\ age' = [a \in Addresses |-> 0]
  /\ disturbed' = Addresses
  /\ UNCHANGED <<entity, integration, happened>>

Tick ==
  /\ \A a \in Addresses : age[a] < MaxAge
  /\ age' = [a \in Addresses |-> IF a \in InTable THEN age[a] + 1 ELSE 0]
  /\ UNCHANGED <<counts, entity, integration, happened, disturbed>>

-----------------------------------------------------------------------------
(* The entity.  The text sent is the one of the moment it is sent.         *)

Deliver ==
  /\ online
  /\ shown' = counts
  /\ UNCHANGED <<firmware, online, integration, happened, disturbed>>

Connect ==
  /\ ~online
  /\ online' = TRUE
  /\ shown' = counts
  /\ UNCHANGED <<firmware, integration, happened, disturbed>>

Disconnect ==
  /\ online
  /\ online' = FALSE
  /\ UNCHANGED <<firmware, shown, integration, happened, disturbed>>

-----------------------------------------------------------------------------
(* The integration. *)

NewEvents_mutant(reading) ==
  [a \in Addresses |->
     IF a \in DOMAIN reading /\ baseline[a] < reading[a]
     THEN reading[a] - (IF baseline[a] = None THEN 0 ELSE baseline[a]) ELSE 0]

(* CounterDeltas.update: an increase over a known baseline is new.         *)
NewEvents(reading) ==
  [a \in Addresses |->
     IF a \in DOMAIN reading /\ baseline[a] # None /\ baseline[a] < reading[a]
     THEN reading[a] - baseline[a] ELSE 0]

Rearmed_mutant(reading) ==
  [a \in Addresses |-> IF a \in DOMAIN reading THEN reading[a] ELSE None]

(* An address the reading does not have keeps its baseline.                *)
Rearmed(reading) ==
  [a \in Addresses |-> IF a \in DOMAIN reading THEN reading[a] ELSE baseline[a]]

(* What the text shows for the addresses whose fields parse.               *)
Reading(parsed) == [a \in parsed |-> shown[a]]

Fields == {a \in Addresses : shown[a] > 0}

(* A snapshot reads the sensor; an unavailable one changes nothing.        *)
ReadFields(parsed) ==
  /\ online
  /\ reported' = [a \in Addresses |-> reported[a] + NewEvents(Reading(parsed))[a]]
  /\ baseline' = Rearmed(Reading(parsed))
  /\ disturbed' = disturbed \ {a \in parsed : shown[a] <= counts[a]}
  /\ UNCHANGED <<firmware, entity, happened>>

Read == \E parsed \in SUBSET Fields : ReadFields(parsed)

(* CounterDeltas.forget, or a new coordinator after a reload or restart.   *)
Forget ==
  /\ baseline' = [a \in Addresses |-> None]
  /\ disturbed' = Addresses
  /\ UNCHANGED <<firmware, entity, reported, happened>>

Next ==
  \/ \E a \in Addresses : Fail(a)
  \/ Reboot
  \/ Tick
  \/ Deliver
  \/ Connect
  \/ Disconnect
  \/ Read
  \/ Forget

Spec == Init /\ [][Next]_vars

-----------------------------------------------------------------------------
TypeOK ==
  /\ counts \in [Addresses -> 0..MaxCount]
  /\ age \in [Addresses -> 0..MaxAge]
  /\ shown \in [Addresses -> 0..MaxCount]
  /\ online \in BOOLEAN
  /\ baseline \in [Addresses -> {None} \cup 1..MaxCount]
  /\ reported \in [Addresses -> Nat]
  /\ happened \in [Addresses -> 0..MaxFailures]
  /\ disturbed \in SUBSET Addresses

(* "Every difference between what happened and what is reported is an      *)
(* under-count": over any reboots, evictions, disconnections, unreadable   *)
(* fields and restarts, no failure is reported twice or out of thin air.   *)
NeverOvercounted == \A a \in Addresses : reported[a] <= happened[a]

(* While no entry is older than the clock can tell, an address that loses  *)
(* its entry to another was not updated after one that keeps it.           *)
EvictsOldest ==
  [][\A v, a \in Addresses :
       /\ counts[v] > 0 /\ counts'[v] = 0 /\ counts[a] > 0 /\ counts'[a] > 0
       /\ age[v] < ClockMod /\ age[a] < ClockMod
       => age[v] >= age[a]]_vars

(* How far y is above x.                                                   *)
Rise(x, y) == IF x < y THEN y - x ELSE 0

(* What the storm window can still be told of address a: the rise from the *)
(* baseline to the text, and from the text to the counter.  Without a      *)
(* baseline the text is about to become one.                               *)
Pending(a) ==
  (IF baseline[a] = None THEN 0 ELSE Rise(baseline[a], shown[a]))
    + Rise(shown[a], counts[a])

(* Once an address has a baseline, and until its counter is lost or at the *)
(* ceiling, every failure is reported or on its way to be: texts that      *)
(* overtake each other, lost connections and unreadable fields lose none.  *)
NothingSlips ==
  [][\A a \in Addresses :
       /\ baseline[a] # None
       /\ counts[a] < MaxCount \/ happened'[a] = happened[a]
       /\ a \notin disturbed /\ a \notin disturbed'
       => (reported[a] + Pending(a))' - happened'[a]
            = reported[a] + Pending(a) - happened[a]]_vars
=============================================================================
