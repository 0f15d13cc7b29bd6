----------------------- MODULE ProxyTracking_proofs ------------------------
(***************************************************************************)
(* The type invariant and the three safety invariants of ProxyTracking,    *)
(* for every set of proxies and every value of the four bounds.            *)
(***************************************************************************)
EXTENDS ProxyTracking, TLAPS

(* The parts of the coordinator's memory a snapshot starts from.           *)
MemoryType(la, wa, sAge, pend) ==
  /\ la \in [Proxies -> Ages(OfflineGrace)]
  /\ wa \in [Proxies -> Ages(RetireAfter)]
  /\ sAge \in 0..SaveInterval
  /\ pend \in BOOLEAN

(* An age that grows up to its bound stays an age.                         *)
LEMMA OlderType ==
  ASSUME NEW cap \in Nat, NEW STATE ages, ages \in [Proxies -> Ages(cap)]
  PROVE  Older(ages, cap) \in [Proxies -> Ages(cap)]
<1>1. \A p \in Proxies : ages[p] \in Ages(cap)
  OBVIOUS
<1>2. \A a \in Ages(cap) : (IF a \in 0..(cap - 1) THEN a + 1 ELSE a) \in Ages(cap)
  BY DEF Ages, Absent
<1> QED
  BY <1>1, <1>2 DEF Older

(* Time neither starts nor stops the tracking of a proxy.                  *)
LEMMA OlderTracked ==
  ASSUME NEW cap \in Nat, NEW STATE ages, ages \in [Proxies -> Ages(cap)]
  PROVE  Tracked(Older(ages, cap)) = Tracked(ages)
<1>1. \A p \in Proxies : ages[p] \in Ages(cap)
  OBVIOUS
<1>2. \A a \in Ages(cap) :
        (IF a \in 0..(cap - 1) THEN a + 1 ELSE a) # Absent <=> a # Absent
  BY DEF Ages, Absent
<1>3. \A p \in Proxies : Older(ages, cap)[p] # Absent <=> ages[p] # Absent
  BY <1>1, <1>2 DEF Older
<1> QED
  BY <1>3 DEF Tracked

(* Nothing stamped is an age map of any bound.                             *)
LEMMA NobodyType ==
  ASSUME NEW cap \in Nat
  PROVE  Nobody \in [Proxies -> Ages(cap)]
BY DEF Nobody, Ages

(* Stamping the registered scanners keeps an age map an age map.           *)
LEMMA StampSeenType ==
  ASSUME NEW cap \in Nat, NEW STATE ages, ages \in [Proxies -> Ages(cap)]
  PROVE  StampSeen(ages) \in [Proxies -> Ages(cap)]
BY DEF StampSeen, Ages

(* Forgetting one proxy keeps an age map an age map.                       *)
LEMMA WithoutType ==
  ASSUME NEW cap \in Nat, NEW STATE ages, ages \in [Proxies -> Ages(cap)], NEW p \in Proxies
  PROVE  Without(ages, p) \in [Proxies -> Ages(cap)]
BY DEF Without, Ages

(* A snapshot taken from a well-typed memory leaves one behind, and lists  *)
(* exactly the proxies it tracks or that are registered.                   *)
LEMMA SnapshotFacts ==
  ASSUME BoundsAssumption,
         registered \in SUBSET Proxies, raised \in SUBSET Proxies,
         NEW STATE la, NEW STATE wa, NEW STATE sAge, NEW STATE pend,
         MemoryType(la, wa, sAge, pend),
         Snapshot(la, wa, sAge, pend)
  PROVE  /\ MemoryType(lastOnline', lastSeenWall', saveAge', savePending')
         /\ sincePoll' = 0
         /\ data' \in [online : SUBSET Proxies, gone : SUBSET Proxies]
         /\ offline' \in SUBSET Proxies
         /\ raised' \in SUBSET Proxies
         /\ Tracked(lastOnline') = Tracked(la) \cup registered
         /\ Listed(data') = Tracked(la) \cup registered
         /\ raised' \subseteq Tracked(la) \cup registered
         /\ lastSeenWall' = StampSeen(wa)
         /\ pend => savePending'
<1> DEFINE seen == StampSeen(la)
           wall == StampSeen(wa)
           gone == Tracked(seen) \ registered
<1>1. seen \in [Proxies -> Ages(OfflineGrace)] /\ wall \in [Proxies -> Ages(RetireAfter)]
  BY StampSeenType DEF MemoryType, BoundsAssumption
<1>2. Tracked(seen) = Tracked(la) \cup registered
  <2>1. \A p \in Proxies : seen[p] = IF p \in registered THEN 0 ELSE la[p]
    BY DEF StampSeen
  <2>2. 0 # Absent
    BY DEF Absent
  <2>3. \A p \in Proxies : seen[p] # Absent <=> la[p] # Absent \/ p \in registered
    BY <2>1, <2>2
  <2> HIDE DEF seen
  <2> QED
    BY <2>3 DEF Tracked
<1>3. lastOnline' = seen /\ lastSeenWall' = wall /\ sincePoll' = 0
  BY DEF Snapshot
<1>4. saveAge' \in 0..SaveInterval /\ savePending' \in BOOLEAN
  BY DEF Snapshot, MemoryType, BoundsAssumption
<1>5. data' = [online |-> registered, gone |-> gone]
  BY DEF Snapshot
<1>6. offline' \subseteq gone
  BY DEF Snapshot, OfflineProxies
<1>7. raised' \subseteq gone
  <2>1. raised' = ReconcileRepairs(RetirementCandidates(gone, wall))
    BY DEF Snapshot
  <2>2. ReconcileRepairs(RetirementCandidates(gone, wall)) \subseteq gone
    BY DEF ReconcileRepairs, RetirementCandidates
  <2> QED
    BY <2>1, <2>2
<1>8. gone \subseteq Proxies
  BY DEF Tracked
<1>9. Listed(data') = Tracked(la) \cup registered
  BY <1>2, <1>5 DEF Listed
<1>10. pend => savePending'
  BY DEF Snapshot
<1> QED
  BY <1>1, <1>2, <1>3, <1>4, <1>5, <1>6, <1>7, <1>8, <1>9, <1>10 DEF MemoryType

(* The platforms know afterwards exactly what the snapshot lists, and the  *)
(* newly listed proxies have their entities and device.                    *)
LEMMA AddNewProxiesFacts ==
  ASSUME NEW STATE kn, NEW STATE ents, NEW STATE devs, NEW STATE late,
         AddNewProxies(kn, ents, devs, late)
  PROVE  /\ known' = Listed(data')
         /\ entities' = (ents \cup (Listed(data') \ kn)) \ late
         /\ devices' = (devs \cup (Listed(data') \ kn)) \ late
BY DEF AddNewProxies

(* What a snapshot published to the platforms leaves well typed.           *)
PublishedType ==
  /\ sincePoll \in 0..PollInterval
  /\ data \in [online : SUBSET Proxies, gone : SUBSET Proxies]
  /\ offline \in SUBSET Proxies
  /\ raised \in SUBSET Proxies
  /\ known \in SUBSET Proxies
  /\ entities \in SUBSET Proxies
  /\ devices \in SUBSET Proxies

(* A snapshot of the running coordinator and what it publishes.            *)
LEMMA RefreshFacts ==
  ASSUME BoundsAssumption, TypeOK,
         Snapshot(lastOnline, lastSeenWall, saveAge, savePending),
         AddNewProxies(known, entities, devices, {})
  PROVE  /\ MemoryType(lastOnline', lastSeenWall', saveAge', savePending')
         /\ PublishedType'
         /\ Tracked(lastOnline') = Tracked(lastOnline) \cup registered
         /\ Listed(data') = Tracked(lastOnline')
         /\ raised' \subseteq Tracked(lastOnline')
         /\ known' = Tracked(lastOnline')
         /\ devices' = devices \cup (Tracked(lastOnline') \ known)
         /\ lastSeenWall' = StampSeen(lastSeenWall)
         /\ savePending => savePending'
<1>1. MemoryType(lastOnline, lastSeenWall, saveAge, savePending)
  BY DEF TypeOK, MemoryType
<1>2. registered \in SUBSET Proxies /\ raised \in SUBSET Proxies
      /\ entities \in SUBSET Proxies /\ devices \in SUBSET Proxies
  BY DEF TypeOK
<1>3. /\ MemoryType(lastOnline', lastSeenWall', saveAge', savePending')
      /\ sincePoll' = 0
      /\ data' \in [online : SUBSET Proxies, gone : SUBSET Proxies]
      /\ offline' \in SUBSET Proxies
      /\ raised' \in SUBSET Proxies
      /\ Tracked(lastOnline') = Tracked(lastOnline) \cup registered
      /\ Listed(data') = Tracked(lastOnline) \cup registered
      /\ raised' \subseteq Tracked(lastOnline) \cup registered
      /\ lastSeenWall' = StampSeen(lastSeenWall)
      /\ savePending => savePending'
  BY <1>1, <1>2, SnapshotFacts
<1>4. /\ known' = Listed(data')
      /\ entities' = entities \cup (Listed(data') \ known)
      /\ devices' = devices \cup (Listed(data') \ known)
  BY AddNewProxiesFacts
<1>5. Listed(data') \subseteq Proxies
  BY <1>3, <1>2 DEF Tracked
<1>6. 0 \in 0..PollInterval
  BY DEF BoundsAssumption
<1>7. PublishedType'
  BY <1>2, <1>3, <1>4, <1>5, <1>6 DEF PublishedType
<1> QED
  BY <1>3, <1>4, <1>7

(* Forgetting a proxy and asking for a refresh: either the refresh ran, or *)
(* it is owed and nothing was published yet.                               *)
LEMMA ForgetFacts ==
  ASSUME BoundsAssumption, TypeOK, NEW p \in Proxies,
         NEW STATE ents, NEW STATE devs, NEW STATE late,
         ents \in SUBSET Proxies, devs \in SUBSET Proxies,
         ForgetAndRefresh(p, ents, devs, late)
  PROVE  /\ MemoryType(lastOnline', lastSeenWall', saveAge', savePending')
         /\ PublishedType'
         /\ \/ /\ debounce' = "cooling"
               /\ Tracked(lastOnline') = (Tracked(lastOnline) \ {p}) \cup registered
               /\ Listed(data') = Tracked(lastOnline')
               /\ raised' \subseteq Tracked(lastOnline')
               /\ known' = Tracked(lastOnline')
               /\ devices' = (devs \cup (Tracked(lastOnline') \ known)) \ late
               /\ lastSeenWall' = StampSeen(Without(lastSeenWall, p))
            \/ /\ debounce' = "pending"
               /\ Tracked(lastOnline') = Tracked(lastOnline) \ {p}
               /\ known' = known
               /\ devices' = devs \ late
               /\ lastSeenWall' = Without(lastSeenWall, p)
         /\ savePending \/ lastSeenWall[p] # Absent => savePending'
<1> DEFINE la == Without(lastOnline, p)
           wa == Without(lastSeenWall, p)
           sAge == IF ForcesSave(p) THEN 0 ELSE saveAge
           pend == savePending \/ ForcesSave(p)
<1>1. registered \in SUBSET Proxies /\ raised \in SUBSET Proxies
  BY DEF TypeOK
<1>2. MemoryType(la, wa, sAge, pend)
  <2>1. la \in [Proxies -> Ages(OfflineGrace)] /\ wa \in [Proxies -> Ages(RetireAfter)]
    BY WithoutType DEF TypeOK, BoundsAssumption
  <2>2. sAge \in 0..SaveInterval
    BY DEF TypeOK, BoundsAssumption
  <2>3. pend \in BOOLEAN
    BY DEF TypeOK, ForcesSave
  <2> HIDE DEF la, wa, sAge, pend
  <2> QED
    BY <2>1, <2>2, <2>3 DEF MemoryType
<1>3. Tracked(la) = Tracked(lastOnline) \ {p}
  <2>1. \A q \in Proxies : la[q] = IF q = p THEN Absent ELSE lastOnline[q]
    BY DEF Without, TypeOK
  <2> HIDE DEF la
  <2> QED
    BY <2>1 DEF Tracked
<1>4. lastSeenWall[p] # Absent => pend
  BY DEF ForcesSave
<1>5. CASE debounce = "idle"
  <2>1. /\ Snapshot(la, wa, sAge, pend)
        /\ AddNewProxies(known, ents, devs, late)
        /\ debounce' = "cooling"
    BY <1>5 DEF ForgetAndRefresh
  <2> HIDE DEF la, wa, sAge, pend
  <2>2. /\ MemoryType(lastOnline', lastSeenWall', saveAge', savePending')
        /\ sincePoll' = 0
        /\ data' \in [online : SUBSET Proxies, gone : SUBSET Proxies]
        /\ offline' \in SUBSET Proxies
        /\ raised' \in SUBSET Proxies
        /\ Tracked(lastOnline') = Tracked(la) \cup registered
        /\ Listed(data') = Tracked(la) \cup registered
        /\ raised' \subseteq Tracked(la) \cup registered
        /\ lastSeenWall' = StampSeen(wa)
        /\ pend => savePending'
    BY <1>1, <1>2, <2>1, SnapshotFacts
  <2>3. /\ known' = Listed(data')
        /\ entities' = (ents \cup (Listed(data') \ known)) \ late
        /\ devices' = (devs \cup (Listed(data') \ known)) \ late
    BY <2>1, AddNewProxiesFacts
  <2>4. Listed(data') \subseteq Proxies
    BY <2>2, <1>1 DEF Tracked
  <2>5. 0 \in 0..PollInterval
    BY DEF BoundsAssumption
  <2>6. PublishedType'
    BY <2>2, <2>3, <2>4, <2>5 DEF PublishedType
  <2>7. savePending => pend
    BY DEF pend
  <2>8. lastSeenWall' = StampSeen(Without(lastSeenWall, p))
    BY <2>2 DEF wa
  <2> QED
    BY <1>3, <1>4, <2>1, <2>2, <2>3, <2>6, <2>7, <2>8
<1>6. CASE debounce # "idle"
  <2>1. /\ lastOnline' = la /\ lastSeenWall' = wa
        /\ saveAge' = sAge /\ savePending' = pend
        /\ entities' = ents \ late /\ devices' = devs \ late
        /\ debounce' = "pending"
        /\ UNCHANGED <<published, known>>
    BY <1>6 DEF ForgetAndRefresh
  <2>2. PublishedType'
    BY <2>1 DEF PublishedType, TypeOK, published
  <2>3. savePending => pend
    OBVIOUS
  <2>4. lastSeenWall' = Without(lastSeenWall, p)
    BY <2>1
  <2> HIDE DEF la, wa, sAge, pend
  <2>5. MemoryType(lastOnline', lastSeenWall', saveAge', savePending')
    BY <1>2, <2>1 DEF MemoryType
  <2>6. Tracked(lastOnline') = Tracked(lastOnline) \ {p}
    BY <1>3, <2>1
  <2> QED
    BY <1>4, <2>1, <2>2, <2>3, <2>4, <2>5, <2>6
<1> QED
  BY <1>5, <1>6

(* The coordinator a setup builds: it remembers the proxies with a device, *)
(* has the file's retirement clocks, or none when the file is unreadable,  *)
(* and lists what it tracks.                                               *)
LEMMA SetupFacts ==
  ASSUME BoundsAssumption, TypeOK, Setup
  PROVE  /\ MemoryType(lastOnline', lastSeenWall', saveAge', savePending')
         /\ PublishedType'
         /\ Tracked(lastOnline') = devices \cup registered
         /\ Listed(data') = Tracked(lastOnline')
         /\ raised' \subseteq Tracked(lastOnline')
         /\ known' = Tracked(lastOnline')
         /\ devices' = Tracked(lastOnline')
         /\ \/ lastSeenWall' = StampSeen(store)
            \/ lastSeenWall' = StampSeen(Nobody) /\ (store = Nobody \/ unread')
<1> DEFINE la == RememberProxies(Nobody)
<1>1. PICK readable \in BOOLEAN :
        /\ Snapshot(la, LoadLastSeen(la, readable), SaveInterval, FALSE)
        /\ unread' = (~readable /\ store # Nobody)
  BY DEF Setup
<1>2. AddNewProxies({}, {}, devices, {})
  BY DEF Setup
<1>3. registered \in SUBSET Proxies /\ raised \in SUBSET Proxies
      /\ devices \in SUBSET Proxies
  BY DEF TypeOK
<1>4. la = [p \in Proxies |-> IF p \in devices THEN 0 ELSE Absent]
  BY DEF RememberProxies, Nobody
<1>5. LoadLastSeen(la, readable) \in [Proxies -> Ages(RetireAfter)]
  <2>1. Nobody \in [Proxies -> Ages(RetireAfter)]
    BY NobodyType DEF BoundsAssumption
  <2> QED
    BY <1>1, <2>1 DEF LoadLastSeen, TypeOK
<1>6. la \in [Proxies -> Ages(OfflineGrace)] /\ Tracked(la) = devices
  <2>1. 0 \in Ages(OfflineGrace) /\ Absent \in Ages(OfflineGrace) /\ 0 # Absent
    BY DEF Ages, Absent, BoundsAssumption
  <2> QED
    BY <1>3, <1>4, <2>1 DEF Tracked
<1>7. MemoryType(la, LoadLastSeen(la, readable), SaveInterval, FALSE)
  BY <1>5, <1>6 DEF MemoryType, BoundsAssumption
<1> HIDE DEF la
<1>8. Snapshot(la, LoadLastSeen(la, readable), SaveInterval, FALSE)
  BY <1>1
<1>9. \/ LoadLastSeen(la, readable) = store
      \/ LoadLastSeen(la, readable) = Nobody /\ (store = Nobody \/ unread')
  BY <1>1 DEF LoadLastSeen
<1>10. /\ MemoryType(lastOnline', lastSeenWall', saveAge', savePending')
       /\ sincePoll' = 0
       /\ data' \in [online : SUBSET Proxies, gone : SUBSET Proxies]
       /\ offline' \in SUBSET Proxies
       /\ raised' \in SUBSET Proxies
       /\ Tracked(lastOnline') = Tracked(la) \cup registered
       /\ Listed(data') = Tracked(la) \cup registered
       /\ raised' \subseteq Tracked(la) \cup registered
       /\ lastSeenWall' = StampSeen(LoadLastSeen(la, readable))
  BY <1>3, <1>7, <1>8, SnapshotFacts
<1>11. /\ known' = Listed(data')
       /\ entities' = Listed(data')
       /\ devices' = devices \cup Listed(data')
  BY <1>2, AddNewProxiesFacts
<1>12. 0 \in 0..PollInterval
  BY DEF BoundsAssumption
<1>13. PublishedType'
  BY <1>3, <1>6, <1>10, <1>11, <1>12 DEF PublishedType
<1> QED
  BY <1>6, <1>9, <1>10, <1>11, <1>13

-----------------------------------------------------------------------------
(* The type invariant. *)

(* Every variable keeps its type: MemoryType and PublishedType are the     *)
(* parts of TypeOK a snapshot changes.                                     *)
LEMMA TypeStep ==
  ASSUME BoundsAssumption, TypeOK, [Next]_vars
  PROVE  TypeOK'
<1> USE DEF TypeOK, disk
<1>1. CASE Tick
  <2>1. OfflineGrace \in Nat /\ RetireAfter \in Nat
    BY DEF BoundsAssumption
  <2>2. /\ lastOnline' \in [Proxies -> Ages(OfflineGrace)]
        /\ lastSeenWall' \in [Proxies -> Ages(RetireAfter)]
        /\ store' \in [Proxies -> Ages(RetireAfter)]
    BY <1>1, <2>1, OlderType DEF Tick
  <2>3. saveAge' \in 0..SaveInterval /\ sincePoll' \in 0..PollInterval
    BY <1>1 DEF Tick, BoundsAssumption
  <2> QED
    BY <1>1, <2>2, <2>3 DEF Tick, surfaces, history
<1>2. CASE HassStarted
  <2>1. 0 \in Ages(OfflineGrace) /\ Absent \in Ages(OfflineGrace)
    BY DEF Ages, BoundsAssumption
  <2> QED
    BY <1>2, <2>1 DEF HassStarted, published, surfaces, history
<1>3. CASE WriteStore
  BY <1>3 DEF WriteStore, published, surfaces, history
<1>4. CASE Setup
  <2>1. unread' \in BOOLEAN
    BY <1>4 DEF Setup
  <2> QED
    BY <1>4, <2>1, SetupFacts DEF Setup, MemoryType, PublishedType, history
<1>5. ASSUME TearDown, started' \in BOOLEAN, store' \in {store, PendingWrite},
             devices' \in SUBSET Proxies, savedDevices' \in SUBSET Proxies,
             retired' \in SUBSET Proxies
      PROVE  TypeOK'
  <2>1. Nobody \in [Proxies -> Ages(OfflineGrace)]
        /\ Nobody \in [Proxies -> Ages(RetireAfter)]
    BY NobodyType DEF BoundsAssumption
  <2>2. SaveInterval \in 0..SaveInterval /\ 0 \in 0..PollInterval
    BY DEF BoundsAssumption
  <2>3. store' \in [Proxies -> Ages(RetireAfter)]
    BY <1>5 DEF PendingWrite
  <2> QED
    BY <1>5, <2>1, <2>2, <2>3 DEF TearDown, NoData
<1>6. CASE Unload
  BY <1>5, <1>6 DEF Unload
<1>7. CASE Stop
  BY <1>5, <1>7 DEF Stop
<1>8. CASE Crash
  BY <1>5, <1>8 DEF Crash
<1>9. CASE Refresh
  BY <1>9, RefreshFacts DEF Refresh, MemoryType, PublishedType, history
<1>10. CASE DebounceTimer
  <2>1. CASE debounce = "pending"
    BY <1>10, <2>1, RefreshFacts DEF DebounceTimer, MemoryType, PublishedType, history
  <2>2. CASE debounce = "cooling"
    BY <1>10, <2>2 DEF DebounceTimer, memory, published, surfaces, history
  <2> QED
    BY <1>10, <2>1, <2>2 DEF DebounceTimer
<1>11. ASSUME NEW p \in Proxies, Register(p) PROVE TypeOK'
  BY <1>11 DEF Register, memory, published, surfaces
<1>12. ASSUME NEW p \in Proxies, Unregister(p) PROVE TypeOK'
  BY <1>12 DEF Unregister, memory, published, surfaces, history
<1>13. ASSUME NEW p \in Proxies, NEW STATE ents, NEW STATE devs, NEW STATE late,
              ents \in SUBSET Proxies, devs \in SUBSET Proxies,
              ForgetAndRefresh(p, ents, devs, late),
              retired' \in SUBSET Proxies, touched' \in SUBSET Proxies,
              UNCHANGED <<registered, started, loaded, disk>>
       PROVE  TypeOK'
  BY <1>13, ForgetFacts DEF MemoryType, PublishedType
<1>14. ASSUME NEW p \in Proxies, RetireProxy(p) PROVE TypeOK'
  BY <1>13, <1>14 DEF RetireProxy, Remembering
<1>15. ASSUME NEW p \in Proxies, ForgetOnline(p) PROVE TypeOK'
  BY <1>13, <1>15 DEF ForgetOnline
<1>16. ASSUME NEW p \in Proxies, DeleteDevice(p) PROVE TypeOK'
  BY <1>13, <1>16 DEF DeleteDevice, Remembering
<1>17. CASE UNCHANGED vars
  BY <1>17 DEF vars, memory, published, surfaces, history
<1>18. CASE WriteRegistry
  BY <1>18 DEF WriteRegistry, memory, published, surfaces, history
<1> QED
  BY <1>1, <1>2, <1>3, <1>4, <1>6, <1>7, <1>8, <1>9, <1>10, <1>11, <1>12,
     <1>14, <1>15, <1>16, <1>17, <1>18 DEF Next

(* Init establishes the types.                                             *)
LEMMA TypeInit ==
  ASSUME BoundsAssumption, Init
  PROVE  TypeOK
<1>1. Nobody \in [Proxies -> Ages(OfflineGrace)]
      /\ Nobody \in [Proxies -> Ages(RetireAfter)]
  BY NobodyType DEF BoundsAssumption
<1>2. SaveInterval \in 0..SaveInterval /\ 0 \in 0..PollInterval
  BY DEF BoundsAssumption
<1>3. NoData \in [online : SUBSET Proxies, gone : SUBSET Proxies]
  BY DEF NoData
<1>4. lastOnline \in [Proxies -> Ages(OfflineGrace)]
      /\ lastSeenWall \in [Proxies -> Ages(RetireAfter)]
      /\ store \in [Proxies -> Ages(RetireAfter)]
  BY <1>1 DEF Init
<1>5. saveAge \in 0..SaveInterval /\ sincePoll \in 0..PollInterval
  BY <1>2 DEF Init
<1>6. data \in [online : SUBSET Proxies, gone : SUBSET Proxies]
  BY <1>3 DEF Init
<1>7. started \in BOOLEAN /\ loaded \in BOOLEAN /\ savePending \in BOOLEAN
  BY DEF Init
<1>8. debounce \in {"idle", "cooling", "pending"}
  BY DEF Init
<1>9. /\ registered \in SUBSET Proxies /\ devices \in SUBSET Proxies
      /\ offline \in SUBSET Proxies /\ raised \in SUBSET Proxies
      /\ known \in SUBSET Proxies /\ entities \in SUBSET Proxies
      /\ retired \in SUBSET Proxies /\ touched \in SUBSET Proxies
      /\ savedDevices \in SUBSET Proxies /\ unread \in BOOLEAN
  BY DEF Init
<1> QED
  BY <1>4, <1>5, <1>6, <1>7, <1>8, <1>9 DEF TypeOK

(* Types, for every set of proxies and every value of the bounds.          *)
THEOREM TypeCorrect == Spec => []TypeOK
<1>1. Init => TypeOK
  BY BoundsAssumption, TypeInit
<1>2. TypeOK /\ [Next]_vars => TypeOK'
  BY BoundsAssumption, TypeStep
<1> QED
  BY <1>1, <1>2, PTL DEF Spec

-----------------------------------------------------------------------------
(* A proxy retired while gone stays gone. *)

(* The history variable holds only proxies that have not registered since. *)
RetiredInv ==
  /\ RetiredStaysGone
  /\ retired \cap registered = {}

(* One step keeps retired proxies away from the registry, the tracking and *)
(* the snapshot.                                                           *)
LEMMA RetiredStep ==
  ASSUME BoundsAssumption, TypeOK, RetiredInv, [Next]_vars
  PROVE  RetiredInv'
<1> USE DEF RetiredInv, RetiredStaysGone, disk
<1>1. CASE Tick
  <2>1. Tracked(lastOnline') = Tracked(lastOnline)
    BY <1>1, OlderTracked DEF Tick, TypeOK, BoundsAssumption
  <2> QED
    BY <1>1, <2>1 DEF Tick, surfaces, history
<1>2. CASE HassStarted
  <2>1. Tracked(lastOnline') \subseteq Tracked(lastOnline)
    BY <1>2 DEF HassStarted, Tracked
  <2> QED
    BY <1>2, <2>1 DEF HassStarted, published, surfaces, history
<1>3. CASE WriteStore
  BY <1>3 DEF WriteStore, published, surfaces, history
<1>4. CASE Setup
  BY <1>4, SetupFacts DEF Setup, history
<1>5. ASSUME TearDown, retired' \subseteq retired, retired' \cap devices' = {}
      PROVE  RetiredInv'
  BY <1>5 DEF TearDown, Nobody, Tracked, NoData, Listed
<1>6. CASE Unload
  BY <1>5, <1>6 DEF Unload
<1>7. CASE Stop
  BY <1>5, <1>7 DEF Stop
<1>8. CASE Crash
  BY <1>5, <1>8 DEF Crash
<1>9. CASE Refresh
  BY <1>9, RefreshFacts DEF Refresh, history
<1>10. CASE DebounceTimer
  <2>1. CASE debounce = "pending"
    BY <1>10, <2>1, RefreshFacts DEF DebounceTimer, history
  <2>2. CASE debounce = "cooling"
    BY <1>10, <2>2 DEF DebounceTimer, memory, published, surfaces, history
  <2> QED
    BY <1>10, <2>1, <2>2 DEF DebounceTimer
<1>11. ASSUME NEW p \in Proxies, Register(p) PROVE RetiredInv'
  BY <1>11 DEF Register, memory, published, surfaces
<1>12. ASSUME NEW p \in Proxies, Unregister(p) PROVE RetiredInv'
  BY <1>12 DEF Unregister, memory, published, surfaces, history
<1>13. ASSUME NEW p \in Proxies, NEW STATE ents, NEW STATE devs, NEW STATE late,
              ents \in SUBSET Proxies, devs \in SUBSET devices,
              ForgetAndRefresh(p, ents, devs, late),
              registered' = registered,
              \/ retired' = retired
              \/ retired' = retired \cup {p} /\ p \notin registered
                 /\ (p \notin devs \/ p \in late)
       PROVE  RetiredInv'
  <2>1. devs \in SUBSET Proxies
    BY <1>13 DEF TypeOK
  <2>2. \/ /\ debounce' = "cooling"
           /\ Tracked(lastOnline') = (Tracked(lastOnline) \ {p}) \cup registered
           /\ Listed(data') = Tracked(lastOnline')
           /\ raised' \subseteq Tracked(lastOnline')
           /\ devices' = (devs \cup (Tracked(lastOnline') \ known)) \ late
        \/ /\ debounce' = "pending"
           /\ Tracked(lastOnline') = Tracked(lastOnline) \ {p}
           /\ devices' = devs \ late
    BY <1>13, <2>1, ForgetFacts
  <2>3. \A q \in retired' : q \notin registered
    BY <1>13
  <2>4. \A q \in retired' : q \notin Tracked(lastOnline')
    BY <1>13, <2>2, <2>3
  <2>5. \A q \in retired' : q \notin devices'
    BY <1>13, <2>2, <2>3, <2>4
  <2>6. \A q \in retired' :
          q \in Listed(data') \cup raised' => debounce' = "pending"
    BY <2>2, <2>4
  <2> QED
    BY <1>13, <2>3, <2>4, <2>5, <2>6
<1>14. ASSUME NEW p \in Proxies, RetireProxy(p) PROVE RetiredInv'
  <2>1. entities \ {p} \in SUBSET Proxies /\ devices \ {p} \in SUBSET devices
    BY DEF TypeOK
  <2> QED
    BY <1>13, <1>14, <2>1 DEF RetireProxy, Remembering
<1>15. ASSUME NEW p \in Proxies, ForgetOnline(p) PROVE RetiredInv'
  <2>1. entities \in SUBSET Proxies /\ devices \in SUBSET devices
    BY DEF TypeOK
  <2> QED
    BY <1>13, <1>15, <2>1 DEF ForgetOnline
<1>16. ASSUME NEW p \in Proxies, DeleteDevice(p) PROVE RetiredInv'
  <2>1. entities \in SUBSET Proxies /\ devices \in SUBSET devices
    BY DEF TypeOK
  <2> QED
    BY <1>13, <1>16, <2>1 DEF DeleteDevice, Remembering
<1>17. CASE UNCHANGED vars
  BY <1>17 DEF vars, memory, published, surfaces, history
<1>18. CASE WriteRegistry
  BY <1>18 DEF WriteRegistry, memory, published, surfaces, history
<1> QED
  BY <1>1, <1>2, <1>3, <1>4, <1>6, <1>7, <1>8, <1>9, <1>10, <1>11, <1>12,
     <1>14, <1>15, <1>16, <1>17, <1>18 DEF Next

(* No reload, clean restart or late refresh undoes a retirement, and no    *)
(* power cut does once the registry was saved without the device, for      *)
(* every set of proxies and every value of the bounds.                     *)
THEOREM RetirementIsFinal == Spec => []RetiredStaysGone
<1>1. Init => RetiredInv
  BY DEF Init, RetiredInv, RetiredStaysGone
<1>2. TypeOK /\ RetiredInv /\ [Next]_vars => RetiredInv'
  BY BoundsAssumption, RetiredStep
<1>3. RetiredInv => RetiredStaysGone
  BY DEF RetiredInv
<1> QED
  BY <1>1, <1>2, <1>3, TypeCorrect, PTL DEF Spec

-----------------------------------------------------------------------------
(* The registry is the memory of the next run. *)

(* The platforms only skip a listed proxy when it has its device.          *)
RegistryInv ==
  /\ MemoryMatchesRegistry
  /\ loaded => known \ touched \subseteq devices

(* One step keeps tracking and the device registry in agreement.           *)
LEMMA RegistryStep ==
  ASSUME BoundsAssumption, TypeOK, RegistryInv, [Next]_vars
  PROVE  RegistryInv'
<1> USE DEF RegistryInv, MemoryMatchesRegistry, disk
<1>1. CASE Tick
  <2>1. Tracked(lastOnline') = Tracked(lastOnline)
    BY <1>1, OlderTracked DEF Tick, TypeOK, BoundsAssumption
  <2> QED
    BY <1>1, <2>1 DEF Tick, surfaces, history
<1>2. CASE HassStarted
  <2>1. 0 # Absent
    BY DEF Absent
  <2>2. Tracked(lastOnline') = Tracked(lastOnline)
    BY <1>2, <2>1 DEF HassStarted, Tracked
  <2> QED
    BY <1>2, <2>2 DEF HassStarted, published, surfaces, history
<1>3. CASE WriteStore
  BY <1>3 DEF WriteStore, published, surfaces, history
<1>4. CASE Setup
  BY <1>4, SetupFacts DEF Setup, history
<1>5. ASSUME TearDown PROVE RegistryInv'
  BY <1>5 DEF TearDown
<1>6. CASE Unload
  BY <1>5, <1>6 DEF Unload
<1>7. CASE Stop
  BY <1>5, <1>7 DEF Stop
<1>8. CASE Crash
  BY <1>5, <1>8 DEF Crash
<1>9. CASE Refresh
  BY <1>9, RefreshFacts DEF Refresh, history
<1>10. CASE DebounceTimer
  <2>1. CASE debounce = "pending"
    BY <1>10, <2>1, RefreshFacts DEF DebounceTimer, history
  <2>2. CASE debounce = "cooling"
    BY <1>10, <2>2 DEF DebounceTimer, memory, published, surfaces, history
  <2> QED
    BY <1>10, <2>1, <2>2 DEF DebounceTimer
<1>11. ASSUME NEW p \in Proxies, Register(p) PROVE RegistryInv'
  BY <1>11 DEF Register, memory, published, surfaces
<1>12. ASSUME NEW p \in Proxies, Unregister(p) PROVE RegistryInv'
  BY <1>12 DEF Unregister, memory, published, surfaces, history
<1>13. ASSUME NEW p \in Proxies, NEW STATE ents, NEW STATE devs, NEW STATE late,
              loaded, loaded' = loaded,
              ents \in SUBSET Proxies,
              devs \in SUBSET devices, devices \ {p} \subseteq devs,
              late \subseteq {p},
              ForgetAndRefresh(p, ents, devs, late),
              touched' = touched \cup {p}
       PROVE  RegistryInv'
  <2>1. devs \in SUBSET Proxies
    BY <1>13 DEF TypeOK
  <2>2. \/ /\ Tracked(lastOnline') = (Tracked(lastOnline) \ {p}) \cup registered
           /\ known' = Tracked(lastOnline')
           /\ devices' = (devs \cup (Tracked(lastOnline') \ known)) \ late
        \/ /\ Tracked(lastOnline') = Tracked(lastOnline) \ {p}
           /\ known' = known
           /\ devices' = devs \ late
    BY <1>13, <2>1, ForgetFacts
  <2>3. SUFFICES ASSUME NEW q \in Proxies \ touched'
                 PROVE  /\ q \in devices' <=> q \in Tracked(lastOnline')
                        /\ q \in known' => q \in devices'
    BY <1>13, ForgetFacts, <2>1 DEF PublishedType
  <2>4. q # p /\ q \notin touched
    BY <1>13
  <2>5. (q \in devices <=> q \in Tracked(lastOnline)) /\ (q \in known => q \in devices)
    BY <1>13, <2>4
  <2>6. q \in devs <=> q \in devices
    BY <1>13, <2>4
  <2> QED
    BY <1>13, <2>2, <2>4, <2>5, <2>6
<1>14. ASSUME NEW p \in Proxies, RetireProxy(p) PROVE RegistryInv'
  <2>1. /\ entities \ {p} \in SUBSET Proxies /\ devices \ {p} \in SUBSET devices
        /\ {} \subseteq {p}
    BY DEF TypeOK
  <2> QED
    BY <1>13, <1>14, <2>1 DEF RetireProxy, Remembering
<1>15. ASSUME NEW p \in Proxies, ForgetOnline(p) PROVE RegistryInv'
  <2>1. entities \in SUBSET Proxies /\ devices \in SUBSET devices /\ {} \subseteq {p}
    BY DEF TypeOK
  <2> QED
    BY <1>13, <1>15, <2>1 DEF ForgetOnline
<1>16. ASSUME NEW p \in Proxies, DeleteDevice(p) PROVE RegistryInv'
  <2>1. entities \in SUBSET Proxies /\ devices \in SUBSET devices /\ {p} \subseteq {p}
    BY DEF TypeOK
  <2> QED
    BY <1>13, <1>16, <2>1 DEF DeleteDevice, Remembering
<1>17. CASE UNCHANGED vars
  BY <1>17 DEF vars, memory, published, surfaces, history
<1>18. CASE WriteRegistry
  BY <1>18 DEF WriteRegistry, memory, published, surfaces, history
<1> QED
  BY <1>1, <1>2, <1>3, <1>4, <1>6, <1>7, <1>8, <1>9, <1>10, <1>11, <1>12,
     <1>14, <1>15, <1>16, <1>17, <1>18 DEF Next

(* Seen online once, remembered for good: a proxy the user has not         *)
(* forgotten in this run is tracked exactly when it has a device.          *)
THEOREM RememberedForGood == Spec => []MemoryMatchesRegistry
<1>1. Init => RegistryInv
  BY DEF Init, RegistryInv, MemoryMatchesRegistry
<1>2. TypeOK /\ RegistryInv /\ [Next]_vars => RegistryInv'
  BY BoundsAssumption, RegistryStep
<1>3. RegistryInv => MemoryMatchesRegistry
  BY DEF RegistryInv
<1> QED
  BY <1>1, <1>2, <1>3, TypeCorrect, PTL DEF Spec

-----------------------------------------------------------------------------
(* The file never knows more than the coordinator. *)

(* One step keeps the file behind the map unless a write is on its way.    *)
LEMMA DiskStep ==
  ASSUME BoundsAssumption, TypeOK, DiskNeverAhead, [Next]_vars
  PROVE  DiskNeverAhead'
<1> USE DEF DiskNeverAhead, disk
<1>0. \A p \in Proxies : lastSeenWall[p] \in Ages(RetireAfter)
                       /\ store[p] \in Ages(RetireAfter)
  BY DEF TypeOK
<1>1. CASE Tick
  <2>1. \A a, b \in Ages(RetireAfter) :
          LET older(c) == IF c \in 0..(RetireAfter - 1) THEN c + 1 ELSE c
          IN  /\ a # Absent <=> older(a) # Absent
              /\ b # Absent <=> older(b) # Absent
              /\ a <= b => older(a) <= older(b)
    BY DEF Ages, Absent, BoundsAssumption
  <2>2. /\ lastSeenWall' = Older(lastSeenWall, RetireAfter)
        /\ store' = Older(store, RetireAfter)
        /\ loaded' = loaded /\ savePending' = savePending /\ unread' = unread
    BY <1>1 DEF Tick
  <2> QED
    BY <1>0, <2>1, <2>2 DEF Older
<1>2. ASSUME UNCHANGED <<store, loaded, unread>>, savePending => savePending',
             lastSeenWall' = lastSeenWall \/ lastSeenWall' = StampSeen(lastSeenWall)
      PROVE  DiskNeverAhead'
  <2>1. \A p \in Proxies : lastSeenWall'[p] \in {lastSeenWall[p], 0}
    BY <1>2 DEF StampSeen
  <2>2. \A a \in Ages(RetireAfter) : a # Absent => 0 # Absent /\ 0 <= a
    BY DEF Ages, Absent, BoundsAssumption
  <2> QED
    BY <1>0, <1>2, <2>1, <2>2
<1>3. CASE WriteStore
  <2>1. \A a \in Ages(RetireAfter) : a <= a
    BY DEF Ages, Absent, BoundsAssumption
  <2> QED
    BY <1>0, <1>3, <2>1 DEF WriteStore
<1>4. CASE Setup
  <2>1. store' = store
    BY <1>4 DEF Setup
  <2>2. PICK start \in {store, Nobody} :
          /\ lastSeenWall' = StampSeen(start)
          /\ \/ start = store
             \/ start = Nobody /\ (store = Nobody \/ unread')
    <3>1. \/ lastSeenWall' = StampSeen(store)
          \/ lastSeenWall' = StampSeen(Nobody) /\ (store = Nobody \/ unread')
      BY <1>4, SetupFacts
    <3> QED
      BY <3>1
  <2>3. \A p \in Proxies : lastSeenWall'[p] \in {start[p], 0}
    BY <2>2 DEF StampSeen
  <2>4. \A p \in Proxies : \/ start[p] = store[p]
                           \/ start[p] = Absent /\ (store[p] = Absent \/ unread')
    BY <2>2 DEF Nobody
  <2>5. \A a \in Ages(RetireAfter) : a # Absent => 0 # Absent /\ 0 <= a /\ a <= a
    BY DEF Ages, Absent, BoundsAssumption
  <2> QED
    BY <1>0, <2>1, <2>3, <2>4, <2>5
<1>5. ASSUME TearDown PROVE DiskNeverAhead'
  BY <1>5 DEF TearDown
<1>6. ASSUME NEW p \in Proxies, NEW STATE ents, NEW STATE devs, NEW STATE late,
             ents \in SUBSET Proxies, devs \in SUBSET Proxies,
             ForgetAndRefresh(p, ents, devs, late), UNCHANGED <<store, loaded, unread>>
      PROVE  DiskNeverAhead'
  <2>1. /\ \/ lastSeenWall' = StampSeen(Without(lastSeenWall, p))
           \/ lastSeenWall' = Without(lastSeenWall, p)
        /\ savePending \/ lastSeenWall[p] # Absent => savePending'
    BY <1>6, ForgetFacts
  <2>2. CASE savePending'
    BY <2>2
  <2>3. CASE ~savePending'
    <3>1. ~savePending /\ lastSeenWall[p] = Absent
      BY <2>1, <2>3
    <3>2. Without(lastSeenWall, p) = lastSeenWall
      BY <3>1 DEF Without, TypeOK
    <3> QED
      BY <1>2, <1>6, <2>1, <3>1, <3>2
  <2>4. savePending' \in BOOLEAN
    BY <1>6, ForgetFacts DEF MemoryType
  <2> QED
    BY <2>2, <2>3
<1>7. CASE HassStarted
  BY <1>2, <1>7 DEF HassStarted
<1>8. CASE Refresh
  BY <1>2, <1>8, RefreshFacts DEF Refresh
<1>9. CASE DebounceTimer
  <2>1. CASE debounce = "pending"
    BY <1>2, <1>9, <2>1, RefreshFacts DEF DebounceTimer
  <2>2. CASE debounce = "cooling"
    BY <1>2, <1>9, <2>2 DEF DebounceTimer, memory
  <2> QED
    BY <1>9, <2>1, <2>2 DEF DebounceTimer
<1>10. ASSUME NEW p \in Proxies, Register(p) \/ Unregister(p) PROVE DiskNeverAhead'
  BY <1>2, <1>10 DEF Register, Unregister, memory
<1>11. ASSUME NEW p \in Proxies, RetireProxy(p) PROVE DiskNeverAhead'
  BY <1>6, <1>11 DEF RetireProxy, TypeOK
<1>12. ASSUME NEW p \in Proxies, ForgetOnline(p) PROVE DiskNeverAhead'
  BY <1>6, <1>12 DEF ForgetOnline, TypeOK
<1>13. ASSUME NEW p \in Proxies, DeleteDevice(p) PROVE DiskNeverAhead'
  BY <1>6, <1>13 DEF DeleteDevice, TypeOK
<1>14. CASE WriteRegistry \/ UNCHANGED vars
  BY <1>2, <1>14 DEF WriteRegistry, vars, memory
<1> QED
  BY <1>1, <1>3, <1>4, <1>5, <1>7, <1>8, <1>9, <1>10, <1>11, <1>12, <1>13, <1>14
     DEF Next, Unload, Stop, Crash

(* With no write on its way, the file knows no proxy the coordinator has   *)
(* forgotten and no later sighting than the coordinator's own, but for the *)
(* proxies of a file this setup could not read.                            *)
THEOREM FileIsBehind == Spec => []DiskNeverAhead
<1>1. Init => DiskNeverAhead
  BY DEF Init, DiskNeverAhead
<1>2. TypeOK /\ DiskNeverAhead /\ [Next]_vars => DiskNeverAhead'
  BY BoundsAssumption, DiskStep
<1> QED
  BY <1>1, <1>2, TypeCorrect, PTL DEF Spec
=============================================================================
