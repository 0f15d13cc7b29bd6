-------------------------- MODULE Incidents_proofs --------------------------
(***************************************************************************)
(* Proofs about Incidents, for any devices, proxies and thresholds.        *)
(***************************************************************************)
EXTENDS Incidents, FiniteSetTheorems, TLAPS

-----------------------------------------------------------------------------
(* Incidents and keys. *)

LEMMA KeysOfParts ==
  ASSUME NEW S, NEW T
  PROVE  /\ Keys(S \cup T) = Keys(S) \cup Keys(T)
         /\ S \subseteq T => Keys(S) \subseteq Keys(T)
BY DEF Keys

(* The verdicts on a device are incidents.                                 *)
LEMMA DeviceIncidents ==
  ASSUME IncidentsAssumption, NEW a \in Addresses, NEW r \in Readings
  PROVE  OfAddress(a, r) \subseteq {i \in AllIncidents : i.about = a /\ i.kind \in DeviceKinds}
<1> DEFINE here == {i \in AllIncidents : i.about = a /\ i.kind \in DeviceKinds}
<1>1. r.holders \subseteq Proxies /\ r.idle \subseteq Proxies /\ a \notin Proxies
  BY DEF Readings, IncidentsAssumption
<1>2. Deadlocks(a, r) \subseteq here
  <2> SUFFICES ASSUME Cardinality(r.holders) >= 2
               PROVE  Incident("deadlock", a, r.holders, "heuristic") \in here
    BY DEF Deadlocks
  <2>1. r.holders # {}
    <3>1. Cardinality({}) = 0
      BY FS_EmptySet
    <3> QED
      BY <3>1
  <2> QED
    BY <1>1, <2>1 DEF Incident, AllIncidents, DeviceKinds, ProxyKinds
<1>3. GhostSlots(a, r) \subseteq here
  BY <1>1 DEF GhostSlots, Incident, AllIncidents, DeviceKinds, ProxyKinds
<1>4. Storms(a, r) \subseteq here
  <2> DEFINE measurers == {p \in Proxies : r.refused[p] > 0}
             storm == Incident("storm", a, measurers, IF measurers = {} THEN "heuristic" ELSE "smp")
  <2>1. storm \in here
    <3> HIDE DEF measurers
    <3>1. measurers \in SUBSET Proxies
      BY DEF measurers
    <3> QED
      BY <1>1, <3>1 DEF Incident, AllIncidents, DeviceKinds, ProxyKinds
  <2>2. Storms(a, r) \subseteq {storm}
    BY DEF Storms
  <2> QED
    BY <2>1, <2>2
<1>5. BondsLost(a, r) \subseteq here
  BY <1>1 DEF BondsLost, Incident, AllIncidents, DeviceKinds, ProxyKinds
<1>6. IdleSlots(a, r) \subseteq here
  BY <1>1 DEF IdleSlots, Incident, AllIncidents, DeviceKinds, ProxyKinds
<1> QED
  BY <1>2, <1>3, <1>4, <1>5, <1>6 DEF OfAddress

(* The verdicts on proxies are incidents.                                  *)
LEMMA ProxyIncidents ==
  ASSUME IncidentsAssumption, NEW missing \in SUBSET Proxies, NEW deaf \in SUBSET Proxies,
         NEW rebooting \in SUBSET Proxies
  PROVE  Offline(missing) \cup Stalled(deaf) \cup RebootStorms(rebooting)
           \subseteq {i \in AllIncidents : i.about \in Proxies /\ i.sources = {i.about} /\ i.kind \in ProxyKinds}
<1>1. \A p \in Proxies : p \notin Addresses
  BY DEF IncidentsAssumption
<1> QED
  BY <1>1 DEF Offline, Stalled, RebootStorms, Incident, AllIncidents, DeviceKinds, ProxyKinds

-----------------------------------------------------------------------------
(* Precedence. *)

(* The rules never chain: what outranks something is outranked by nothing. *)
LEMMA NoChain ==
  ASSUME NEW i, NEW j, NEW k, Outranks(j, i)
  PROVE  ~Outranks(k, j)
BY DEF Outranks

LEMMA DedupedFacts ==
  ASSUME NEW list
  PROVE  /\ Deduped(list) \subseteq list
         /\ Deduped(Deduped(list)) = Deduped(list)
         /\ \A i \in list \ Deduped(list) : \E j \in Deduped(list) : Outranks(j, i)
<1>1. Deduped(list) \subseteq list
  BY DEF Deduped
<1>2. Deduped(Deduped(list)) = Deduped(list)
  BY <1>1 DEF Deduped
<1>3. \A i \in list \ Deduped(list) : \E j \in Deduped(list) : Outranks(j, i)
  BY NoChain DEF Deduped
<1> QED
  BY <1>1, <1>2, <1>3

-----------------------------------------------------------------------------
(* Two verdicts of one snapshot with the same key are the same verdict.    *)
Distinct(list) == \A i, j \in list : Key(i) = Key(j) => i = j

LEMMA DeviceDistinct ==
  ASSUME IncidentsAssumption, NEW a \in Addresses, NEW r \in Readings
  PROVE  Distinct(OfAddress(a, r))
<1> SUFFICES ASSUME NEW i \in OfAddress(a, r), NEW j \in OfAddress(a, r), Key(i) = Key(j)
             PROVE  i = j
  BY DEF Distinct
<1>1. i.kind = j.kind
  BY DEF Key
<1>2. i.kind # "storm" => i.sources = j.sources
  BY <1>1 DEF Key
<1>3. CASE i \in Deadlocks(a, r)
  <2>1. i.kind = "deadlock" /\ j.kind = "deadlock"
    BY <1>1, <1>3 DEF Deadlocks, Incident
  <2>2. j \in Deadlocks(a, r)
    BY <2>1 DEF OfAddress, GhostSlots, Storms, BondsLost, IdleSlots, Incident
  <2> QED
    BY <1>3, <2>2 DEF Deadlocks
<1>4. CASE i \in Storms(a, r)
  <2>1. i.kind = "storm" /\ j.kind = "storm"
    BY <1>1, <1>4 DEF Storms, Incident
  <2>2. j \in Storms(a, r)
    BY <2>1 DEF OfAddress, GhostSlots, Deadlocks, BondsLost, IdleSlots, Incident
  <2> QED
    BY <1>4, <2>2 DEF Storms
<1>5. CASE i \in BondsLost(a, r)
  <2>1. i.kind = "bond_lost" /\ j.kind = "bond_lost"
    BY <1>1, <1>5 DEF BondsLost, Incident
  <2>2. j \in BondsLost(a, r)
    BY <2>1 DEF OfAddress, GhostSlots, Deadlocks, Storms, IdleSlots, Incident
  <2>3. i.sources = j.sources
    BY <1>2, <2>1
  <2> QED
    BY <1>5, <2>2, <2>3 DEF BondsLost, Incident
<1>6. CASE i \in GhostSlots(a, r) \cup IdleSlots(a, r)
  <2>1. i.kind = "ghost_slot" /\ j.kind = "ghost_slot"
    BY <1>1, <1>6 DEF GhostSlots, IdleSlots, Incident
  <2>2. j \in GhostSlots(a, r) \cup IdleSlots(a, r)
    BY <2>1 DEF OfAddress, BondsLost, Deadlocks, Storms, Incident
  <2>3. i.sources = j.sources
    BY <1>2, <2>1
  <2>4. i.evidence = j.evidence
    BY <1>6, <2>2 DEF GhostSlots, IdleSlots, Incident
  <2> QED
    BY <1>6, <2>2, <2>3, <2>4 DEF GhostSlots, IdleSlots, Incident
<1> QED
  BY <1>3, <1>4, <1>5, <1>6 DEF OfAddress

LEMMA VerdictsDistinct ==
  ASSUME IncidentsAssumption, NEW devices \in DeviceVerdicts, NEW missing \in SUBSET Proxies,
         NEW deaf \in SUBSET Proxies, NEW rebooting \in SUBSET Proxies
  PROVE  /\ Distinct(devices \cup Offline(missing) \cup Stalled(deaf) \cup RebootStorms(rebooting))
         /\ devices \cup Offline(missing) \cup Stalled(deaf) \cup RebootStorms(rebooting)
              \subseteq AllIncidents
<1> DEFINE proxies == Offline(missing) \cup Stalled(deaf) \cup RebootStorms(rebooting)
<1>1. PICK r \in [Addresses -> Readings] : devices = UNION {OfAddress(a, r[a]) : a \in Addresses}
  BY DEF DeviceVerdicts
<1>2. \A a \in Addresses : r[a] \in Readings
  BY <1>1
<1>3. \A a \in Addresses : \A i \in OfAddress(a, r[a]) :
        i \in AllIncidents /\ i.about = a /\ i.kind \in DeviceKinds
  BY <1>2, DeviceIncidents
<1>4. \A i \in proxies : /\ i \in AllIncidents /\ i.about \in Proxies
                         /\ i.sources = {i.about} /\ i.kind \in ProxyKinds
  BY ProxyIncidents
<1>5. \A i \in devices \cup proxies : i \in AllIncidents
  BY <1>1, <1>3, <1>4
<1>6. ASSUME NEW i \in devices, NEW j \in devices, Key(i) = Key(j)
      PROVE  i = j
  <2>1. PICK a \in Addresses : i \in OfAddress(a, r[a])
    BY <1>1
  <2>2. PICK b \in Addresses : j \in OfAddress(b, r[b])
    BY <1>1
  <2>3. a = b
    BY <1>3, <1>6, <2>1, <2>2 DEF Key
  <2> QED
    BY <1>2, <1>6, <2>1, <2>2, <2>3, DeviceDistinct DEF Distinct
<1>7. ASSUME NEW i \in proxies, NEW j \in proxies, Key(i) = Key(j)
      PROVE  i = j
  <2>1. i.kind = j.kind /\ i.about = j.about
    BY <1>7 DEF Key
  <2>2. i.sources = j.sources
    BY <1>4, <2>1
  <2>3. i.evidence = "heuristic" /\ j.evidence = "heuristic"
    BY DEF Offline, Stalled, RebootStorms, Incident
  <2>4. i \in AllIncidents /\ j \in AllIncidents
    BY <1>4
  <2> QED
    BY <2>1, <2>2, <2>3, <2>4 DEF AllIncidents
<1>8. ASSUME NEW i \in devices, NEW j \in proxies PROVE Key(i) # Key(j)
  <2>1. i.kind \in DeviceKinds /\ j.kind \in ProxyKinds
    BY <1>1, <1>3, <1>4
  <2> QED
    BY <2>1 DEF Key, DeviceKinds, ProxyKinds
<1> QED
  <2> HIDE DEF proxies
  <2>1. \A i, j \in devices \cup proxies : Key(i) = Key(j) => i = j
    BY <1>6, <1>7, <1>8
  <2>2. devices \cup proxies =
          devices \cup Offline(missing) \cup Stalled(deaf) \cup RebootStorms(rebooting)
    BY DEF proxies
  <2> QED
    BY <1>5, <2>1, <2>2 DEF Distinct

-----------------------------------------------------------------------------
(* The inductive invariant: the published list is what the precedence      *)
(* leaves of verdicts with distinct keys, and every surface shows its keys.*)
IncidentsInv ==
  /\ TypeOK
  /\ Distinct(found)
  /\ published = Deduped(found)
  /\ SurfacesAgree

(* An update of the notifications shows the keys of its list.              *)
LEMMA NotifyStep ==
  ASSUME IncidentsInv, NEW list, Deduped(list) = list, Notify(list)
  PROVE  active' = Keys(list) /\ shown' = Keys(list)
<1>1. active = shown
  BY DEF IncidentsInv, SurfacesAgree
<1> QED
  BY <1>1 DEF Notify

(* An update of the events leaves the keys of its list open, and opens or  *)
(* resolves exactly the keys that make the difference.                     *)
LEMMA FireStep ==
  ASSUME IncidentsInv, NEW list \in SUBSET AllIncidents, Deduped(list) = list, FireEvents(list)
  PROVE  /\ open' \in SUBSET Payloads /\ KeysOf(open') = Keys(list)
         /\ believed' = Keys(list)
         /\ first' = FALSE
         /\ open \ open' = {e \in open : Key(e.incident) \notin Keys(list)}
         /\ \A e \in open' \ open : e.incident \in list /\ Key(e.incident) \notin KeysOf(open)
         /\ \A i \in list : Key(i) \notin KeysOf(open) => \E e \in open' \ open : e.incident = i
<1> DEFINE resolved == {e \in open : Key(e.incident) \notin Keys(list)}
           new      == {i \in list : \A e \in open : Key(e.incident) # Key(i)}
           opened   == {[incident |-> i, initial |-> first] : i \in new}
<1>1. /\ open' = (open \ resolved) \cup opened
      /\ first' = FALSE
      /\ Heard(resolved, opened)
  BY DEF FireEvents
<1>2. open \in SUBSET Payloads /\ first \in BOOLEAN
      /\ believed = KeysOf(open)
  BY DEF IncidentsInv, TypeOK, SurfacesAgree
<1>3. \A i \in new : i \in list /\ Key(i) \notin KeysOf(open)
  BY DEF KeysOf
<1>4. \A i \in list : Key(i) \notin KeysOf(open) => i \in new
  BY DEF KeysOf
<1> HIDE DEF new
<1>5. \A e \in opened : e.incident \in new /\ e \in Payloads
  BY <1>2, <1>3 DEF Payloads
<1>6. \A i \in new : \E e \in opened : e.incident = i
  <2> SUFFICES ASSUME NEW i \in new PROVE \E e \in opened : e.incident = i
    OBVIOUS
  <2> WITNESS [incident |-> i, initial |-> first] \in opened
  <2> QED
    OBVIOUS
<1>7. KeysOf(opened) = Keys(list) \ KeysOf(open)
  BY <1>3, <1>4, <1>5, <1>6 DEF KeysOf, Keys
<1> HIDE DEF opened
<1>8. \A e \in opened : e \notin open
  BY <1>3, <1>5 DEF KeysOf
<1>9. KeysOf(open \ resolved) = KeysOf(open) \cap Keys(list)
  BY DEF KeysOf
<1>10. KeysOf(resolved) = KeysOf(open) \ Keys(list)
  BY DEF KeysOf
<1>11. KeysOf(open') = KeysOf(open \ resolved) \cup KeysOf(opened)
  BY <1>1 DEF KeysOf
<1>12. KeysOf(open') = Keys(list)
  BY <1>7, <1>9, <1>11
<1>13. believed' = Keys(list)
  BY <1>1, <1>2, <1>7, <1>10 DEF Heard
<1>14. open' \in SUBSET Payloads
  BY <1>1, <1>2, <1>5
<1>15. open \ open' = resolved
  BY <1>1, <1>8
<1>16. \A e \in open' \ open : e.incident \in list /\ Key(e.incident) \notin KeysOf(open)
  BY <1>1, <1>3, <1>5
<1>17. \A i \in list : Key(i) \notin KeysOf(open) => \E e \in open' \ open : e.incident = i
  BY <1>1, <1>4, <1>6, <1>8
<1> QED
  BY <1>1, <1>12, <1>13, <1>14, <1>15, <1>16, <1>17

(* A snapshot publishes a list that every surface follows.                 *)
LEMMA PublishStep ==
  ASSUME IncidentsAssumption, IncidentsInv, NEW missing \in SUBSET Proxies, Publish(missing)
  PROVE  /\ found' \in SUBSET AllIncidents /\ published' \in SUBSET AllIncidents
         /\ Distinct(found)' /\ published' = Deduped(found') /\ Deduped(published') = published'
         /\ active' = Keys(published') /\ shown' = Keys(published')
         /\ FireEvents(published')
<1>1. PICK deaf \in SUBSET (Proxies \ gone), rebooting \in SUBSET Proxies, devices \in DeviceVerdicts :
        /\ found' = devices \cup (Offline(missing) \cup Stalled(deaf) \cup RebootStorms(rebooting))
        /\ published' = Deduped(found')
        /\ Notify(published')
        /\ FireEvents(published')
  BY DEF Publish
<1>2. found' = devices \cup Offline(missing) \cup Stalled(deaf) \cup RebootStorms(rebooting)
  BY <1>1
<1>3. found' \in SUBSET AllIncidents /\ Distinct(found')
  BY <1>2, VerdictsDistinct
<1>4. Distinct(found)'
  BY <1>3 DEF Distinct, Key
<1>5. published' \in SUBSET AllIncidents /\ Deduped(published') = published'
  <2> PICK list : list = found'
    OBVIOUS
  <2>1. Deduped(list) \subseteq list /\ Deduped(Deduped(list)) = Deduped(list)
    BY DedupedFacts
  <2> QED
    BY <1>1, <1>3, <2>1
<1>6. active' = Keys(published') /\ shown' = Keys(published')
  <2> PICK list : list = published'
    OBVIOUS
  <2> QED
    BY <1>1, <1>5, NotifyStep
<1> QED
  BY <1>1, <1>3, <1>4, <1>5, <1>6

LEMMA PublishPreserves ==
  ASSUME IncidentsAssumption, IncidentsInv, NEW missing \in SUBSET Proxies, Publish(missing),
         running' \in BOOLEAN, gone' \in SUBSET Proxies, waited' \in SUBSET Proxies
  PROVE  IncidentsInv'
<1>1. /\ found' \in SUBSET AllIncidents /\ published' \in SUBSET AllIncidents
      /\ Distinct(found)' /\ published' = Deduped(found') /\ Deduped(published') = published'
      /\ active' = Keys(published') /\ shown' = Keys(published')
      /\ FireEvents(published')
  BY PublishStep
<1>2. /\ open' \in SUBSET Payloads /\ KeysOf(open') = Keys(published')
      /\ believed' = Keys(published') /\ first' = FALSE
  <2> PICK list : list = published'
    OBVIOUS
  <2> QED
    BY <1>1, FireStep
<1>3. Keys(published') \in SUBSET Keys(AllIncidents)
  BY <1>1 DEF Keys
<1>4. TypeOK'
  BY <1>1, <1>2, <1>3 DEF TypeOK
<1>5. SurfacesAgree'
  BY <1>1, <1>2 DEF SurfacesAgree
<1> QED
  BY <1>1, <1>4, <1>5 DEF IncidentsInv

LEMMA EmptySurfaces ==
  /\ Keys({}) = {} /\ KeysOf({}) = {} /\ Deduped({}) = {} /\ Distinct({})
BY DEF Keys, KeysOf, Deduped, Distinct

LEMMA IncidentsInit == Init => IncidentsInv
BY EmptySurfaces DEF Init, IncidentsInv, TypeOK, SurfacesAgree

(* Whatever ends a run ends with nothing on display.                       *)
LEMMA ForgottenStep ==
  ASSUME IncidentsInv, Forgotten, shown' = {}
  PROVE  IncidentsInv'
BY EmptySurfaces DEF Forgotten, IncidentsInv, TypeOK, SurfacesAgree

(* A step of the world leaves the integration alone.                       *)
LEMMA WorldStep ==
  ASSUME IncidentsInv, UNCHANGED <<found, published, active, shown, first, open, believed>>,
         running' \in BOOLEAN, gone' \in SUBSET Proxies, waited' \in SUBSET Proxies
  PROVE  IncidentsInv'
<1>1. TypeOK'
  BY DEF IncidentsInv, TypeOK
<1>2. SurfacesAgree'
  BY DEF IncidentsInv, SurfacesAgree, Keys, KeysOf, Key
<1>3. Distinct(found)' /\ published' = Deduped(found')
  BY DEF IncidentsInv, Distinct, Key
<1> QED
  BY <1>1, <1>2, <1>3 DEF IncidentsInv

LEMMA IncidentsStep ==
  ASSUME IncidentsAssumption, IncidentsInv, [Next]_vars
  PROVE  IncidentsInv'
<1>0. /\ running \in BOOLEAN /\ gone \in SUBSET Proxies /\ waited \in SUBSET Proxies
  BY DEF IncidentsInv, TypeOK
<1>1. ASSUME NEW p \in Proxies, Leave(p) PROVE IncidentsInv'
  BY <1>0, <1>1, WorldStep DEF Leave
<1>2. ASSUME NEW p \in Proxies, Return(p) PROVE IncidentsInv'
  BY <1>0, <1>2, WorldStep DEF Return
<1>3. ASSUME NEW p \in Proxies, Wait(p) PROVE IncidentsInv'
  BY <1>0, <1>3, WorldStep DEF Wait
<1>4. CASE Setup
  BY <1>0, <1>4, PublishPreserves DEF Setup
<1>5. CASE Snapshot
  <2> PICK missing \in SUBSET Proxies : missing = waited'
    BY <1>0, <1>5 DEF Snapshot
  <2> QED
    BY <1>0, <1>5, PublishPreserves DEF Snapshot
<1>6. CASE Unload
  <2>1. shown' = {} /\ Forgotten
    BY <1>6 DEF Unload, IncidentsInv, SurfacesAgree
  <2> QED
    BY <2>1, ForgottenStep
<1>7. CASE Restart
  BY <1>7, ForgottenStep DEF Restart
<1>8. CASE UNCHANGED vars
  BY <1>0, <1>8, WorldStep DEF vars, alerts
<1> QED
  BY <1>1, <1>2, <1>3, <1>4, <1>5, <1>6, <1>7, <1>8 DEF Next

LEMMA IncidentsAlways == Spec => []IncidentsInv
<1>1. IncidentsInv /\ [Next]_vars => IncidentsInv'
  BY IncidentsAssumption, IncidentsStep
<1> QED
  BY <1>1, IncidentsInit, PTL DEF Spec

-----------------------------------------------------------------------------
(* Types, for any devices, proxies and thresholds.                         *)
THEOREM TypeCorrect == Spec => []TypeOK
<1>1. IncidentsInv => TypeOK
  BY DEF IncidentsInv
<1> QED
  BY <1>1, IncidentsAlways, PTL

(* A verdict that is not published is explained by one that is.            *)
THEOREM PrecedenceIsSound == Spec => []NoFaultLost
<1>1. IncidentsInv => NoFaultLost
  BY DedupedFacts DEF IncidentsInv, NoFaultLost
<1> QED
  BY <1>1, IncidentsAlways, PTL

(* No two published incidents share a key.                                 *)
THEOREM KeysIdentify == Spec => []DistinctKeys
<1>1. IncidentsInv => DistinctKeys
  BY DedupedFacts DEF IncidentsInv, DistinctKeys, Distinct
<1> QED
  BY <1>1, IncidentsAlways, PTL

(* Notifications, open events and what a listener has put together agree   *)
(* with the published list at every moment.                                *)
THEOREM SurfacesFollow == Spec => []SurfacesAgree
<1>1. IncidentsInv => SurfacesAgree
  BY DEF IncidentsInv
<1> QED
  BY <1>1, IncidentsAlways, PTL

(* A storm that goes on fires nothing, and every other fault is announced  *)
(* once, on each proxy that has it.                                        *)
THEOREM AlertsAreFaults == Spec => AlertsFollowFaults
<1>1. ASSUME IncidentsAssumption, IncidentsInv, [Next]_vars, ~UNCHANGED vars, running, running'
      PROVE  /\ \A a \in Addresses : StormOf(a, published) /\ StormOf(a, published') =>
                  ~StormOf(a, {e.incident : e \in Opened \cup Resolved})
             /\ \A j \in {k \in published' : k.kind # "storm"} :
                  (\E i \in published : SameFault(i, j))
                    <=> ~\E e \in Opened : SameFault(e.incident, j)
  <2>1. KeysOf(open) = Keys(published) /\ open \in SUBSET Payloads
    BY <1>1 DEF IncidentsInv, SurfacesAgree, TypeOK
  <2>2. \A i, j : i.kind # "storm" /\ j.kind # "storm" => (SameFault(i, j) <=> Key(i) = Key(j))
    BY DEF SameFault, Key
  <2>3. \A i, j : i.kind = "storm" /\ j.kind = "storm" => (i.about = j.about <=> Key(i) = Key(j))
    BY DEF Key
  <2>4. \A i, j : Key(i) = Key(j) => i.kind = j.kind
    BY DEF Key
  <2>5. CASE Snapshot
    <3> PICK missing \in SUBSET Proxies : missing = waited'
      BY <1>1, <2>5 DEF Snapshot, IncidentsInv, TypeOK
    <3>1. Publish(missing)
      BY <2>5 DEF Snapshot
    <3> PICK list : list = published'
      OBVIOUS
    <3>2. list \in SUBSET AllIncidents /\ Deduped(list) = list /\ FireEvents(list)
      BY <1>1, <3>1, PublishStep
    <3>3. /\ open \ open' = {e \in open : Key(e.incident) \notin Keys(list)}
          /\ \A e \in open' \ open : e.incident \in list /\ Key(e.incident) \notin KeysOf(open)
          /\ \A i \in list : Key(i) \notin KeysOf(open) => \E e \in open' \ open : e.incident = i
      <4>1. IncidentsInv
        BY <1>1
      <4> QED
        BY <4>1, <3>2, FireStep
    <3>4. ASSUME NEW a \in Addresses, StormOf(a, published), StormOf(a, list)
          PROVE  ~StormOf(a, {e.incident : e \in Opened \cup Resolved})
      <4>1. PICK i \in published : i.kind = "storm" /\ i.about = a
        BY <3>4 DEF StormOf
      <4>2. PICK j \in list : j.kind = "storm" /\ j.about = a
        BY <3>4 DEF StormOf
      <4>3. ASSUME NEW e \in Opened \cup Resolved, e.incident.kind = "storm", e.incident.about = a
            PROVE  FALSE
        <5>1. Key(e.incident) = Key(i) /\ Key(e.incident) = Key(j)
          BY <2>3, <4>1, <4>2, <4>3
        <5>2. Key(e.incident) \in KeysOf(open) /\ Key(e.incident) \in Keys(list)
          BY <2>1, <5>1 DEF Keys
        <5> QED
          BY <1>1, <3>3, <4>3, <5>2 DEF Opened, Resolved
      <4> QED
        BY <4>3 DEF StormOf
    <3>5. ASSUME NEW j \in list, j.kind # "storm"
          PROVE  (\E i \in published : SameFault(i, j))
                   <=> ~\E e \in Opened : SameFault(e.incident, j)
      <4>1. (\E i \in published : SameFault(i, j)) <=> Key(j) \in KeysOf(open)
        <5>1. (\E i \in published : SameFault(i, j)) <=> Key(j) \in Keys(published)
          <6>1. \A i : SameFault(i, j) <=> Key(i) = Key(j)
            BY <2>2, <2>4, <3>5 DEF SameFault
          <6> QED
            BY <6>1 DEF Keys
        <5> QED
          BY <2>1, <5>1
      <4>2. (\E e \in Opened : SameFault(e.incident, j)) <=> Key(j) \notin KeysOf(open)
        <5>1. \A e : SameFault(e.incident, j) <=> Key(e.incident) = Key(j)
          BY <2>2, <2>4, <3>5 DEF SameFault
        <5>2. ASSUME NEW e \in Opened, SameFault(e.incident, j) PROVE Key(j) \notin KeysOf(open)
          BY <3>3, <5>1, <5>2 DEF Opened
        <5>3. ASSUME Key(j) \notin KeysOf(open) PROVE \E e \in Opened : SameFault(e.incident, j)
          BY <3>3, <5>3 DEF Opened, SameFault
        <5> QED
          BY <5>2, <5>3
      <4> QED
        BY <4>1, <4>2
    <3> QED
      BY <3>4, <3>5
  <2>6. CASE UNCHANGED <<published, open>>
    <3>1. Opened = {} /\ Resolved = {}
      BY <2>6 DEF Opened, Resolved
    <3> QED
      BY <2>6, <3>1 DEF StormOf, SameFault
  <2> QED
    BY <1>1, <2>5, <2>6 DEF Next, Leave, Return, Wait, Setup, Unload, Restart, Forgotten
<1>2. IncidentsInv /\ [Next]_vars =>
        [running /\ running' =>
           /\ \A a \in Addresses : StormOf(a, published) /\ StormOf(a, published') =>
                ~StormOf(a, {e.incident : e \in Opened \cup Resolved})
           /\ \A j \in {k \in published' : k.kind # "storm"} :
                (\E i \in published : SameFault(i, j))
                  <=> ~\E e \in Opened : SameFault(e.incident, j)]_vars
  BY <1>1, IncidentsAssumption
<1> QED
  BY <1>2, IncidentsAlways, PTL DEF Spec, AlertsFollowFaults
=============================================================================
