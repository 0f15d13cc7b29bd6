------------------------ MODULE SmpTelemetry_proofs ------------------------
(***************************************************************************)
(* No failure is reported twice, for any addresses, any size of the        *)
(* firmware's table and any width of its counters and its clock.           *)
(***************************************************************************)
EXTENDS SmpTelemetry, TLAPS

(* Everything reported, or still to be, did happen.                        *)
Covered == \A a \in Addresses : reported[a] + Pending(a) <= happened[a]

LEMMA BumpType ==
  ASSUME SmpAssumption, NEW n \in 0..MaxCount
  PROVE  Bump(n) \in 1..MaxCount /\ Bump(n) <= n + 1 /\ n <= Bump(n)
BY DEF Bump, SmpAssumption

(* A reading hands over natural numbers and leaves legal baselines.        *)
LEMMA ReadingFacts ==
  ASSUME SmpAssumption, TypeOK, NEW parsed \in SUBSET Fields, NEW a \in Addresses
  PROVE  /\ a \in parsed =>
              /\ Rearmed(Reading(parsed))[a] = shown[a]
              /\ shown[a] \in 1..MaxCount
              /\ NewEvents(Reading(parsed))[a] =
                   IF baseline[a] = None THEN 0 ELSE Rise(baseline[a], shown[a])
         /\ a \notin parsed =>
              /\ Rearmed(Reading(parsed))[a] = baseline[a]
              /\ NewEvents(Reading(parsed))[a] = 0
<1>1. DOMAIN Reading(parsed) = parsed /\ \A b \in parsed : Reading(parsed)[b] = shown[b]
  BY DEF Reading
<1>2. a \in parsed => shown[a] \in 1..MaxCount
  BY DEF Fields, TypeOK, SmpAssumption
<1> QED
  BY <1>1, <1>2 DEF Rearmed, NewEvents, Rise

(* A failure writes legal counters and ages, and loses at most what was    *)
(* counted: only the failing address counts up, and by one.                *)
LEMMA FailFacts ==
  ASSUME SmpAssumption, TypeOK, NEW a \in Addresses, Fail(a)
  PROVE  /\ counts' \in [Addresses -> 0..MaxCount]
         /\ age' \in [Addresses -> 0..MaxAge]
         /\ disturbed' \in SUBSET Addresses
         /\ counts'[a] <= counts[a] + 1
         /\ \A b \in Addresses \ {a} : counts'[b] <= counts[b]
<1>1. PICK dropped \in SUBSET Addresses : Recorded(a, dropped)
  BY DEF Fail, Victims, InTable
<1>2. counts[a] \in 0..MaxCount
  BY DEF TypeOK
<1>3. Bump(counts[a]) \in 0..MaxCount /\ Bump(counts[a]) <= counts[a] + 1
  BY <1>2, BumpType
<1>4. 0 \in 0..MaxCount /\ 0 \in 0..MaxAge
  BY DEF SmpAssumption
<1>5. counts' \in [Addresses -> 0..MaxCount]
  BY <1>1, <1>3, <1>4 DEF Recorded, TypeOK
<1>6. age' \in [Addresses -> 0..MaxAge]
  BY <1>1, <1>4 DEF Recorded, TypeOK
<1>7. disturbed' \in SUBSET Addresses
  BY <1>1 DEF Recorded, TypeOK
<1>8. counts'[a] <= counts[a] + 1 /\ \A b \in Addresses \ {a} : counts'[b] <= counts[b]
  BY <1>1, <1>3 DEF Recorded, TypeOK
<1> QED
  BY <1>5, <1>6, <1>7, <1>8

LEMMA TypeStep ==
  ASSUME SmpAssumption, TypeOK, [Next]_vars
  PROVE  TypeOK'
<1>1. ASSUME NEW a \in Addresses, Fail(a) PROVE TypeOK'
  <2>1. happened' \in [Addresses -> 0..MaxFailures]
    BY <1>1 DEF Fail, TypeOK, SmpAssumption
  <2>2. UNCHANGED <<shown, online, baseline, reported>>
    BY <1>1 DEF Fail, entity, integration
  <2> QED
    BY <1>1, <2>1, <2>2, FailFacts DEF TypeOK
<1>2. CASE Reboot
  BY <1>2 DEF Reboot, TypeOK, SmpAssumption, entity, integration
<1>3. CASE Tick
  <2>1. age' \in [Addresses -> 0..MaxAge]
    BY <1>3 DEF Tick, TypeOK, SmpAssumption
  <2> QED
    BY <1>3, <2>1 DEF Tick, TypeOK, entity, integration
<1>4. CASE Deliver
  BY <1>4 DEF Deliver, TypeOK, firmware, integration
<1>5. CASE Connect \/ Disconnect
  <2>1. online' \in BOOLEAN /\ (shown' = shown \/ shown' = counts)
    BY <1>5 DEF Connect, Disconnect
  <2>2. UNCHANGED <<counts, age, baseline, reported, happened, disturbed>>
    BY <1>5 DEF Connect, Disconnect, firmware, integration
  <2> QED
    BY <2>1, <2>2 DEF TypeOK
<1>6. ASSUME NEW parsed \in SUBSET Fields, ReadFields(parsed) PROVE TypeOK'
  <2>1. \A a \in Addresses : NewEvents(Reading(parsed))[a] \in Nat
    <3> SUFFICES ASSUME NEW a \in Addresses PROVE NewEvents(Reading(parsed))[a] \in Nat
      OBVIOUS
    <3>1. shown[a] \in Int /\ (baseline[a] # None => baseline[a] \in Int)
      BY DEF TypeOK
    <3> QED
      BY <3>1, ReadingFacts DEF Rise
  <2>2. \A a \in Addresses : Rearmed(Reading(parsed))[a] \in {None} \cup 1..MaxCount
    <3> SUFFICES ASSUME NEW a \in Addresses
                 PROVE  Rearmed(Reading(parsed))[a] \in {None} \cup 1..MaxCount
      OBVIOUS
    <3> QED
      BY ReadingFacts DEF TypeOK
  <2>3. reported' \in [Addresses -> Nat]
    BY <1>6, <2>1 DEF ReadFields, TypeOK
  <2>4. baseline' \in [Addresses -> {None} \cup 1..MaxCount]
    BY <1>6, <2>2 DEF ReadFields, Rearmed
  <2> QED
    BY <1>6, <2>3, <2>4 DEF ReadFields, TypeOK, firmware, entity
<1>7. CASE Forget
  BY <1>7 DEF Forget, TypeOK, firmware, entity
<1>8. CASE UNCHANGED vars
  BY <1>8 DEF vars, firmware, entity, integration, TypeOK
<1> QED
  BY <1>1, <1>2, <1>3, <1>4, <1>5, <1>6, <1>7, <1>8 DEF Next, Read

(* Types, for any addresses, table size, counter and clock width.          *)
THEOREM TypeCorrect == Spec => []TypeOK
<1>1. Init => TypeOK
  <2> SUFFICES ASSUME Init PROVE TypeOK
    OBVIOUS
  <2>1. 0 \in 0..MaxCount /\ 0 \in 0..MaxAge /\ 0 \in 0..MaxFailures
    BY SmpAssumption DEF SmpAssumption
  <2>2. online \in BOOLEAN
    BY DEF Init
  <2> QED
    BY <2>1, <2>2 DEF Init, TypeOK
<1>2. TypeOK /\ [Next]_vars => TypeOK'
  BY SmpAssumption, TypeStep
<1> QED
  BY <1>1, <1>2, PTL DEF Spec

(* A step that leaves the integration alone covers address a still when    *)
(* the counter rises no more than the failures do, and the text either     *)
(* stays or catches up with the counter.                                   *)
LEMMA FirmwareCovers ==
  ASSUME TypeOK, TypeOK', Covered, NEW a \in Addresses,
         reported'[a] = reported[a], baseline'[a] = baseline[a],
         \/ shown'[a] = shown[a] /\ counts'[a] - counts[a] <= happened'[a] - happened[a]
         \/ shown'[a] = counts[a] /\ counts'[a] = counts[a],
         happened[a] <= happened'[a]
  PROVE  reported'[a] + Pending(a)' <= happened'[a]
<1>1. /\ counts[a] \in Nat /\ shown[a] \in Nat /\ reported[a] \in Nat /\ happened[a] \in Nat
      /\ counts'[a] \in Nat /\ shown'[a] \in Nat /\ happened'[a] \in Nat
      /\ baseline[a] # None => baseline[a] \in Nat
  BY DEF TypeOK
<1>2. reported[a] + Pending(a) <= happened[a]
  BY DEF Covered
<1> QED
  BY <1>1, <1>2 DEF Pending, Rise

LEMMA CoveredStep ==
  ASSUME SmpAssumption, TypeOK, TypeOK', Covered, [Next]_vars
  PROVE  Covered'
<1> SUFFICES ASSUME NEW a \in Addresses
             PROVE  reported'[a] + Pending(a)' <= happened'[a]
  BY DEF Covered
<1>0. /\ counts[a] \in Nat /\ shown[a] \in Nat /\ reported[a] \in Nat /\ happened[a] \in Nat
      /\ counts'[a] \in Nat /\ shown'[a] \in Nat /\ happened'[a] \in Nat
      /\ baseline[a] # None => baseline[a] \in Nat
  BY DEF TypeOK
<1>1. ASSUME NEW f \in Addresses, Fail(f)
      PROVE  reported'[a] + Pending(a)' <= happened'[a]
  <2>1. UNCHANGED <<shown, baseline, reported>>
    BY <1>1 DEF Fail, entity, integration
  <2>2. happened'[a] = IF a = f THEN happened[a] + 1 ELSE happened[a]
    BY <1>1 DEF Fail, TypeOK
  <2>3. counts'[a] - counts[a] <= happened'[a] - happened[a]
    BY <1>0, <1>1, <2>2, FailFacts
  <2> QED
    BY <1>0, <2>1, <2>2, <2>3, FirmwareCovers
<1>2. CASE Reboot
  <2>1. counts'[a] = 0 /\ UNCHANGED <<shown, baseline, reported, happened>>
    BY <1>2 DEF Reboot, entity, integration
  <2> QED
    BY <1>0, <2>1, FirmwareCovers
<1>3. CASE Tick \/ Disconnect \/ UNCHANGED vars
  <2>1. UNCHANGED <<counts, shown, baseline, reported, happened>>
    BY <1>3 DEF Tick, Disconnect, vars, firmware, entity, integration
  <2> QED
    BY <1>0, <2>1, FirmwareCovers
<1>4. CASE Deliver \/ Connect
  <2>1. shown' = counts /\ UNCHANGED <<counts, baseline, reported, happened>>
    BY <1>4 DEF Deliver, Connect, firmware, integration
  <2> QED
    BY <1>0, <2>1, FirmwareCovers
<1>5. ASSUME NEW parsed \in SUBSET Fields, ReadFields(parsed)
      PROVE  reported'[a] + Pending(a)' <= happened'[a]
  <2>1. /\ reported'[a] = reported[a] + NewEvents(Reading(parsed))[a]
        /\ baseline'[a] = Rearmed(Reading(parsed))[a]
        /\ UNCHANGED <<counts, shown, happened>>
    BY <1>5 DEF ReadFields, firmware, entity
  <2>2. reported[a] + Pending(a) <= happened[a]
    BY DEF Covered
  <2>3. CASE a \in parsed
    <3>1. baseline'[a] = shown[a] /\ shown[a] # None
      BY <1>0, <2>1, <2>3, ReadingFacts DEF None
    <3>2. reported'[a] = reported[a] + IF baseline[a] = None THEN 0
                                       ELSE Rise(baseline[a], shown[a])
      BY <2>1, <2>3, ReadingFacts
    <3> QED
      BY <1>0, <2>1, <2>2, <3>1, <3>2 DEF Pending, Rise
  <2>4. CASE a \notin parsed
    <3>1. baseline'[a] = baseline[a] /\ reported'[a] = reported[a]
      BY <1>0, <2>1, <2>4, ReadingFacts
    <3> QED
      BY <1>0, <2>1, <2>2, <3>1 DEF Pending
  <2> QED
    BY <2>3, <2>4
<1>6. CASE Forget
  <2>1. baseline'[a] = None /\ UNCHANGED <<counts, shown, reported, happened>>
    BY <1>6 DEF Forget, firmware, entity
  <2>2. reported[a] + Pending(a) <= happened[a]
    BY DEF Covered
  <2> QED
    BY <1>0, <2>1, <2>2 DEF Pending, Rise
<1> QED
  BY <1>1, <1>2, <1>3, <1>4, <1>5, <1>6 DEF Next, Read

(* Through any failures, evictions, saturation, reboots, lost connections, *)
(* unreadable fields and restarts, no failure is reported twice.           *)
THEOREM UnderCount == Spec => []NeverOvercounted
<1>1. Init => Covered
  BY DEF Init, Covered, Pending, Rise
<1>2. TypeOK /\ TypeOK' /\ Covered /\ [Next]_vars => Covered'
  BY SmpAssumption, CoveredStep
<1>3. TypeOK /\ Covered => NeverOvercounted
  <2> SUFFICES ASSUME TypeOK, Covered, NEW a \in Addresses PROVE reported[a] <= happened[a]
    BY DEF NeverOvercounted
  <2>1. /\ counts[a] \in Nat /\ shown[a] \in Nat /\ reported[a] \in Nat /\ happened[a] \in Nat
        /\ baseline[a] # None => baseline[a] \in Nat
    BY DEF TypeOK
  <2> QED
    BY <2>1 DEF Covered, Pending, Rise
<1> QED
  BY <1>1, <1>2, <1>3, TypeCorrect, PTL DEF Spec

-----------------------------------------------------------------------------
(* An undisturbed address climbs from the baseline over the text to the    *)
(* counter.                                                                *)
Climbs(a) ==
  /\ shown[a] <= counts[a]
  /\ baseline[a] # None => baseline[a] <= shown[a]

Orderly == \A a \in Addresses : a \notin disturbed => Climbs(a)

(* What a failure does to the addresses that keep their counter.           *)
LEMMA FailKeeps ==
  ASSUME SmpAssumption, TypeOK, NEW f \in Addresses, Fail(f), NEW a \in Addresses,
         a \notin disturbed'
  PROVE  /\ a \notin disturbed
         /\ a # f => counts'[a] = counts[a] /\ happened'[a] = happened[a]
         /\ a = f => counts'[a] = Bump(counts[a]) /\ happened'[a] = happened[a] + 1
<1>1. PICK dropped \in SUBSET Addresses : Recorded(f, dropped)
  BY DEF Fail, Victims, InTable
<1> QED
  BY <1>1 DEF Recorded, Fail, TypeOK

LEMMA OrderlyStep ==
  ASSUME SmpAssumption, TypeOK, Orderly, [Next]_vars
  PROVE  Orderly'
<1> SUFFICES ASSUME NEW a \in Addresses, a \notin disturbed' PROVE Climbs(a)'
  BY DEF Orderly
<1>0. /\ counts[a] \in 0..MaxCount /\ shown[a] \in Nat
      /\ baseline[a] # None => baseline[a] \in Nat
  BY DEF TypeOK
<1>1. ASSUME NEW f \in Addresses, Fail(f) PROVE Climbs(a)'
  <2>1. UNCHANGED <<shown, baseline>>
    BY <1>1 DEF Fail, entity, integration
  <2>2. a \notin disturbed /\ counts[a] <= counts'[a] /\ counts'[a] \in Nat
    BY <1>0, <1>1, FailKeeps, BumpType
  <2> QED
    BY <1>0, <2>1, <2>2 DEF Orderly, Climbs
<1>2. CASE Reboot \/ Forget
  BY <1>2 DEF Reboot, Forget
<1>3. CASE Tick \/ Disconnect \/ UNCHANGED vars
  <2>1. UNCHANGED <<counts, shown, baseline, disturbed>>
    BY <1>3 DEF Tick, Disconnect, vars, firmware, entity, integration
  <2> QED
    BY <2>1 DEF Orderly, Climbs
<1>4. CASE Deliver \/ Connect
  <2>1. shown' = counts /\ UNCHANGED <<counts, baseline, disturbed>>
    BY <1>4 DEF Deliver, Connect, firmware, integration
  <2> QED
    BY <1>0, <2>1 DEF Orderly, Climbs
<1>5. ASSUME NEW parsed \in SUBSET Fields, ReadFields(parsed) PROVE Climbs(a)'
  <2>1. /\ UNCHANGED <<counts, shown>> /\ baseline'[a] = Rearmed(Reading(parsed))[a]
        /\ disturbed' = disturbed \ {b \in parsed : shown[b] <= counts[b]}
    BY <1>5 DEF ReadFields, firmware, entity
  <2>2. CASE a \in parsed
    <3>1. baseline'[a] = shown[a]
      BY <2>1, <2>2, ReadingFacts
    <3>2. shown[a] <= counts[a]
      BY <2>1 DEF Orderly, Climbs
    <3> QED
      BY <1>0, <2>1, <3>1, <3>2 DEF Climbs
  <2>3. CASE a \notin parsed
    <3>1. baseline'[a] = baseline[a] /\ a \notin disturbed
      BY <2>1, <2>3, ReadingFacts
    <3> QED
      BY <2>1, <3>1 DEF Orderly, Climbs
  <2> QED
    BY <2>2, <2>3
<1> QED
  BY <1>1, <1>2, <1>3, <1>4, <1>5 DEF Next, Read

(* A step moves what is reported or pending exactly as much as failures.   *)
LEMMA BalanceStep ==
  ASSUME SmpAssumption, TypeOK, TypeOK', Orderly, Orderly', Next, NEW a \in Addresses,
         baseline[a] # None, counts[a] < MaxCount \/ happened'[a] = happened[a],
         a \notin disturbed, a \notin disturbed'
  PROVE  (reported[a] + Pending(a))' - happened'[a] = reported[a] + Pending(a) - happened[a]
<1>0. /\ counts[a] \in 0..MaxCount /\ shown[a] \in Nat /\ baseline[a] \in Nat
      /\ reported[a] \in Nat /\ happened[a] \in Nat
      /\ baseline[a] <= shown[a] /\ shown[a] <= counts[a]
  BY DEF TypeOK, Orderly, Climbs
<1>1. Pending(a) = counts[a] - baseline[a]
  BY <1>0 DEF Pending, Rise
<1>2. ASSUME baseline'[a] # None
      PROVE  Pending(a)' = counts'[a] - baseline'[a]
  <2>1. /\ counts'[a] \in Nat /\ shown'[a] \in Nat /\ baseline'[a] \in Nat
        /\ baseline'[a] <= shown'[a] /\ shown'[a] <= counts'[a]
    BY <1>2 DEF TypeOK, Orderly, Climbs
  <2> QED
    BY <1>2, <2>1 DEF Pending, Rise
<1>3. ASSUME NEW f \in Addresses, Fail(f)
      PROVE  /\ baseline'[a] = baseline[a] /\ reported'[a] = reported[a]
             /\ counts'[a] - counts[a] = happened'[a] - happened[a]
  <2>1. UNCHANGED <<baseline, reported>>
    BY <1>3 DEF Fail, integration
  <2>2. a = f => counts[a] < MaxCount
    BY <1>0, <1>3, FailKeeps
  <2>3. counts'[a] - counts[a] = happened'[a] - happened[a]
    BY <1>0, <1>3, <2>2, FailKeeps DEF Bump
  <2> QED
    BY <2>1, <2>3
<1>4. CASE \E f \in Addresses : Fail(f)
  <2>1. /\ baseline'[a] = baseline[a] /\ reported'[a] = reported[a]
        /\ counts'[a] - counts[a] = happened'[a] - happened[a]
    BY <1>3, <1>4
  <2>2. counts'[a] \in Nat /\ happened'[a] \in Nat
    BY DEF TypeOK
  <2> QED
    BY <1>0, <1>1, <1>2, <2>1, <2>2
<1>5. CASE Reboot \/ Forget
  BY <1>5 DEF Reboot, Forget
<1>6. CASE Tick \/ Disconnect \/ Deliver \/ Connect
  <2>1. UNCHANGED <<counts, baseline, reported, happened>>
    BY <1>6 DEF Tick, Disconnect, Deliver, Connect, firmware, entity, integration
  <2> QED
    BY <1>0, <1>1, <1>2, <2>1
<1>7. ASSUME NEW parsed \in SUBSET Fields, ReadFields(parsed)
      PROVE  /\ UNCHANGED <<counts, happened>>
             /\ \/ baseline'[a] = baseline[a] /\ reported'[a] = reported[a]
                \/ /\ baseline'[a] = shown[a]
                   /\ reported'[a] = reported[a] + (shown[a] - baseline[a])
  <2>1. /\ UNCHANGED <<counts, happened>> /\ baseline'[a] = Rearmed(Reading(parsed))[a]
        /\ reported'[a] = reported[a] + NewEvents(Reading(parsed))[a]
    BY <1>7 DEF ReadFields, firmware
  <2> QED
    BY <1>0, <2>1, ReadingFacts DEF Rise
<1>8. CASE Read
  BY <1>0, <1>1, <1>2, <1>7, <1>8 DEF Read, None
<1> QED
  BY <1>4, <1>5, <1>6, <1>8 DEF Next

(* Every failure of an address with a baseline is reported or on its way,  *)
(* whatever order texts, connections and readings come in.                 *)
THEOREM AllAccountedFor == Spec => NothingSlips
<1>1. Init => Orderly
  BY DEF Init, Orderly, Climbs, None
<1>2. TypeOK /\ Orderly /\ [Next]_vars => Orderly'
  BY SmpAssumption, OrderlyStep
<1>3. TypeOK /\ TypeOK' /\ Orderly /\ Orderly' /\ [Next]_vars =>
        [\A a \in Addresses :
           /\ baseline[a] # None
           /\ counts[a] < MaxCount \/ happened'[a] = happened[a]
           /\ a \notin disturbed /\ a \notin disturbed'
           => (reported[a] + Pending(a))' - happened'[a]
                = reported[a] + Pending(a) - happened[a]]_vars
  BY SmpAssumption, BalanceStep
<1> QED
  BY <1>1, <1>2, <1>3, TypeCorrect, PTL DEF Spec, NothingSlips

-----------------------------------------------------------------------------
(* An address loses its entry to another only if it is the least recently  *)
(* updated, as long as no entry is older than the clock: the unsigned      *)
(* difference is the age.                                                  *)
THEOREM DropsOldest == Spec => EvictsOldest
<1>1. ASSUME SmpAssumption, NEW n \in Nat, n < ClockMod
      PROVE  n % ClockMod = n
  BY <1>1 DEF SmpAssumption
<1>2. ASSUME TypeOK, Next, NEW v \in Addresses, NEW a \in Addresses,
             counts[v] > 0, counts'[v] = 0, counts[a] > 0, counts'[a] > 0,
             age[v] < ClockMod, age[a] < ClockMod
      PROVE  age[v] >= age[a]
  <2>1. ASSUME NEW f \in Addresses, Fail(f) PROVE age[v] >= age[a]
    <3>1. counts[f] \in 0..MaxCount /\ Bump(counts[f]) > 0
      BY <1>2, SmpAssumption, BumpType DEF TypeOK
    <3>2. PICK w \in Victims : Recorded(f, {w})
      <4>1. ~Recorded(f, {})
        BY <1>2, <3>1 DEF Recorded
      <4> QED
        BY <2>1, <4>1 DEF Fail
    <3>3. v = w
      BY <1>2, <3>1, <3>2 DEF Recorded
    <3>4. SeenAge(a) <= SeenAge(v)
      BY <1>2, <3>2, <3>3 DEF Victims, InTable
    <3>5. SeenAge(a) = age[a] /\ SeenAge(v) = age[v] /\ age[a] \in Nat /\ age[v] \in Nat
      BY <1>1, <1>2, SmpAssumption DEF SeenAge, TypeOK
    <3> QED
      BY <3>4, <3>5
  <2>2. CASE Reboot
    BY <1>2, <2>2 DEF Reboot
  <2>3. CASE Tick \/ Deliver \/ Connect \/ Disconnect \/ Read \/ Forget
    <3>1. counts' = counts
      BY <2>3 DEF Tick, Deliver, Connect, Disconnect, Read, ReadFields, Forget, firmware
    <3> QED
      BY <1>2, <3>1
  <2> QED
    BY <1>2, <2>1, <2>2, <2>3 DEF Next
<1>3. TypeOK /\ [Next]_vars =>
        [\A v, a \in Addresses :
           /\ counts[v] > 0 /\ counts'[v] = 0 /\ counts[a] > 0 /\ counts'[a] > 0
           /\ age[v] < ClockMod /\ age[a] < ClockMod
           => age[v] >= age[a]]_vars
  BY <1>2
<1> QED
  BY <1>3, TypeCorrect, PTL DEF Spec, EvictsOldest
=============================================================================
