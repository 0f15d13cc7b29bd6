------------------------ MODULE SlotVerdicts_proofs ------------------------
(***************************************************************************)
(* What a snapshot says of the slots: one judge for each of them, for any  *)
(* registry of any devices, any proxies and addresses; and, in the second  *)
(* part of this module, for how long a proxy had none free, for any window *)
(* and any pattern of readings.                                            *)
(***************************************************************************)
EXTENDS SlotVerdicts, SaturationWindow, FiniteSetTheorems, WellFoundedInduction, TLAPS

(* Every set of naturals that is not empty has a least element.            *)
LEMMA LeastNat ==
  ASSUME NEW T, T \subseteq Nat, T # {}
  PROVE  \E m \in T : \A k \in T : m <= k
<1> DEFINE R == OpToRel(<, Nat)
<1>1. IsWellFoundedOn(R, Nat)
  BY NatLessThanWellFounded
<1>2. \A x, y \in Nat : <<x, y>> \in R <=> x < y
  BY DEF OpToRel
<1> HIDE DEF R
<1>3. PICK m \in T : \A k \in T : ~(<<k, m>> \in R)
  <2>1. \E m \in T : \A k \in T : ~(<<k, m>> \in R)
    BY <1>1, WFMin, Zenon
  <2> QED
    BY <2>1
<1>4. ASSUME NEW k \in T PROVE m <= k
  <2>1. k \in Nat /\ m \in Nat
    OBVIOUS
  <2>2. ~(k < m)
    BY <1>2, <1>3, <2>1
  <2> QED
    BY <2>1, <2>2
<1> QED
  BY <1>3, <1>4

-----------------------------------------------------------------------------
(* The index of a registry.                                                *)

(* In a finite set of devices that is not empty one is first in the walk   *)
(* and one is last.                                                        *)
LEMMA PlacesExtreme ==
  ASSUME NEW r \in Registry, NEW S \in SUBSET Devices, S # {}
  PROVE  /\ \E d \in S : \A e \in S : r.place[d] <= r.place[e]
         /\ \E d \in S : \A e \in S : r.place[d] >= r.place[e]
<1> DEFINE First(T) == \E d \in T : \A e \in T : r.place[d] <= r.place[e]
           Last(T) == \E d \in T : \A e \in T : r.place[d] >= r.place[e]
           R == StrictSubsetOrdering(Devices)
           F == FiniteSubsetsOf(Devices)
           Bad == {T \in F : T # {} /\ ~(First(T) /\ Last(T))}
<1>1. IsWellFoundedOn(R, F)
  BY FS_StrictSubsetOrderingWellFounded
<1>2. \A T \in SUBSET Devices : T \in F
  BY DevicesAssumption, FS_Subset DEF FiniteSubsetsOf
<1>3. \A T, U \in SUBSET Devices : T \subseteq U /\ T # U => <<T, U>> \in R
  BY DEF StrictSubsetOrdering
<1>4. \A T \in F : T \in SUBSET Devices
  BY DEF FiniteSubsetsOf
<1>5. \A d \in Devices : r.place[d] \in Nat
  BY DEF Registry
<1> HIDE DEF R, F
<1>6. SUFFICES Bad = {}
  BY <1>2
<1>7. SUFFICES ASSUME Bad # {} PROVE FALSE
  OBVIOUS
<1>8. PICK T \in Bad : \A U \in Bad : ~(<<U, T>> \in R)
  <2>1. \E T \in Bad : \A U \in Bad : ~(<<U, T>> \in R)
    BY <1>1, <1>7, WFMin, Zenon
  <2> QED
    BY <2>1
<1>9. T \in SUBSET Devices /\ T # {}
  BY <1>4
<1>10. PICK x \in T : TRUE
  BY <1>9
<1>11. T \ {x} \notin Bad
  BY <1>3, <1>8, <1>9, <1>10
<1>12. CASE T \ {x} = {}
  BY <1>5, <1>9, <1>10, <1>12
<1>13. CASE T \ {x} # {}
  <2>1. First(T \ {x}) /\ Last(T \ {x})
    BY <1>2, <1>9, <1>11, <1>13
  <2>2. First(T)
    BY <1>5, <1>9, <1>10, <2>1
  <2>3. Last(T)
    BY <1>5, <1>9, <1>10, <2>1
  <2> QED
    BY <2>2, <2>3
<1> QED
  BY <1>12, <1>13

(* Whichever pass an address comes from, the index has it for a device     *)
(* that claims it.                                                         *)
LEMMA IndexFacts ==
  ASSUME NEW r \in Registry, NEW mac \in Macs
  PROVE  /\ mac \in DOMAIN Peripherals(r) <=> Answerable(r, mac) # {}
         /\ mac \in DOMAIN Peripherals(r) => Peripherals(r)[mac] \in Answerable(r, mac)
<1>1. /\ mac \in Claimed(r.bluetooth) <=> Claimants(r.bluetooth, mac) # {}
      /\ mac \in Claimed(r.identifiers) <=> Claimants(r.identifiers, mac) # {}
  BY DEF Claimed, Claimants
<1>2. /\ Claimants(r.bluetooth, mac) \in SUBSET Devices
      /\ Claimants(r.identifiers, mac) \in SUBSET Devices
  BY DEF Claimants
<1>3. mac \in Claimed(r.bluetooth) => Connected(r)[mac] \in Claimants(r.bluetooth, mac)
  BY <1>1, <1>2, PlacesExtreme DEF Connected, Latest
<1>4. mac \in Claimed(r.identifiers) => Identified(r)[mac] \in Claimants(r.identifiers, mac)
  BY <1>1, <1>2, PlacesExtreme DEF Identified, Earliest
<1>5. /\ DOMAIN Connected(r) = Claimed(r.bluetooth)
      /\ DOMAIN Identified(r) = Claimed(r.identifiers)
  BY DEF Connected, Identified
<1>6. /\ DOMAIN Peripherals(r) = Claimed(r.bluetooth) \cup Claimed(r.identifiers)
      /\ mac \in DOMAIN Peripherals(r) => Peripherals(r)[mac] =
           IF mac \in Claimed(r.bluetooth) THEN Connected(r)[mac] ELSE Identified(r)[mac]
  BY <1>5 DEF Peripherals, Over
<1> QED
  BY <1>1, <1>3, <1>4, <1>6 DEF Answerable

(* An address is resolved when a device may answer for it and the registry *)
(* can be read, and then to such a device.                                 *)
LEMMA ResolvedFacts ==
  ASSUME TypeOK, NEW a \in Addresses
  PROVE  /\ Resolved(a) <=> failing # "devices" /\ Answerable(registry, a) # {}
         /\ Resolved(a) => PeripheralIndex[a] \in Answerable(registry, a)
<1>1. registry \in Registry /\ a \in Macs
  BY VerdictsAssumption DEF TypeOK
<1>2. CASE failing = "devices"
  BY <1>2 DEF Resolved, PeripheralIndex, Nothing
<1>3. CASE failing # "devices"
  BY <1>1, <1>3, IndexFacts DEF Resolved, PeripheralIndex
<1> QED
  BY <1>2, <1>3

-----------------------------------------------------------------------------
(* What each verdict says, of states of the right types.                   *)

(* A slot is a ghost exactly when its address is resolved, the states can  *)
(* be read, and they are all dead.                                         *)
LEMMA GhostFacts ==
  ASSUME NEW s
  PROVE  s \in Ghosts <=>
           /\ s \in held
           /\ Resolved(s[2])
           /\ failing # "entities"
           /\ entities[PeripheralIndex[s[2]]] # {}
           /\ entities[PeripheralIndex[s[2]]] \subseteq DeadStates
  BY DEF Ghosts, Alive, IsDeviceAlive

LEMMA GhostsHaveGone == TypeOK => GhostsAreGone
<1> SUFFICES ASSUME TypeOK, NEW s \in Ghosts
             PROVE  \E d \in Answerable(registry, s[2]) :
                      entities[d] # {} /\ entities[d] \subseteq DeadStates
  BY DEF GhostsAreGone
<1>1. s[2] \in Addresses
  BY GhostFacts DEF TypeOK, Slots
<1>2. PeripheralIndex[s[2]] \in Answerable(registry, s[2])
  BY <1>1, GhostFacts, ResolvedFacts
<1> QED
  BY <1>2, GhostFacts

LEMMA LeaksSaid == TypeOK => LeaksAreSaid
<1> SUFFICES ASSUME TypeOK, NEW s \in held, Gone(s[2]), s \notin Ghosts, ~degraded
             PROVE  Flagged(Holders)
  BY DEF LeaksAreSaid
<1>1. s[2] \in Addresses /\ s[2] \in Holders
  BY DEF TypeOK, Slots, Holders
<1>2. CASE failing = "devices"
  BY <1>2 DEF Flagged
<1>3. CASE failing # "devices"
  <2>1. Resolved(s[2]) /\ PeripheralIndex[s[2]] \in Answerable(registry, s[2])
    BY <1>1, <1>3, ResolvedFacts DEF Gone
  <2>2. failing = "entities"
    BY <2>1, GhostFacts DEF Gone
  <2> QED
    BY <1>1, <2>1, <2>2 DEF Flagged
<1> QED
  BY <1>2, <1>3

LEMMA OneJudges == TypeOK => OneJudge
<1> SUFFICES ASSUME TypeOK PROVE OneJudge
  OBVIOUS
<1>1. \A s \in IdleSlots : s[2] \in Addresses /\ ~Resolved(s[2])
  BY DEF IdleSlots, Managed, Resolved, TypeOK, Slots
<1>2. Ghosts \cap IdleSlots = {}
  BY <1>1, GhostFacts
<1>3. failing # "devices" => \A s \in IdleSlots : Answerable(registry, s[2]) = {}
  BY <1>1, ResolvedFacts
<1> QED
  BY <1>2, <1>3 DEF OneJudge

-----------------------------------------------------------------------------
(* The types are inductive: a proxy whose sensors have no reading has none *)
(* of an idle slot.                                                        *)

LEMMA TypeInit == Init => TypeOK
  BY VerdictsAssumption DEF Init, TypeOK, Lookups

LEMMA MeasureStep ==
  ASSUME NEW p \in Proxies
  PROVE  TypeOK /\ (Measure(p) \/ Mute(p)) => TypeOK'
<1> SUFFICES ASSUME TypeOK, Measure(p) \/ Mute(p) PROVE TypeOK'
  OBVIOUS
<1>1. \A s \in idle : s[1] \notin mute
  BY DEF TypeOK
<1>2. CASE Measure(p)
  <2>1. PICK as \in SUBSET Addresses : idle' = {s \in idle : s[1] # p} \cup ({p} \X as)
    BY <1>2 DEF Measure
  <2>2. idle' \subseteq Slots
    BY <2>1 DEF TypeOK, Slots
  <2>3. \A s \in idle' : s[1] \notin mute'
    BY <1>1, <1>2, <2>1 DEF Measure
  <2> QED
    BY <1>2, <2>2, <2>3 DEF Measure, TypeOK
<1>3. CASE Mute(p)
  <2>1. \A s \in idle' : s[1] \notin mute'
    BY <1>1, <1>3 DEF Mute
  <2> QED
    BY <1>3, <2>1 DEF Mute, TypeOK
<1> QED
  BY <1>2, <1>3

LEMMA TypeStep == TypeOK /\ [Next]_vars => TypeOK'
<1> SUFFICES ASSUME TypeOK, [Next]_vars PROVE TypeOK'
  OBVIOUS
<1> USE DEF TypeOK
<1>1. CASE Snapshot
  BY <1>1 DEF Snapshot, Flagged, world
<1>2. CASE Reload
  BY <1>2 DEF Reload, world
<1>3. ASSUME NEW s \in Slots, Connect(s) \/ Release(s) PROVE TypeOK'
  BY <1>3 DEF Connect, Release
<1>4. ASSUME NEW p \in Proxies, Measure(p) \/ Mute(p) PROVE TypeOK'
  BY <1>4, MeasureStep
<1>5. CASE ChangeRegistry
  BY <1>5, VerdictsAssumption DEF ChangeRegistry
<1>6. ASSUME NEW d \in Others, ChangeEntities(d) PROVE TypeOK'
  BY <1>6 DEF ChangeEntities, Others
<1>7. CASE Fail
  BY <1>7 DEF Fail
<1>8. CASE Recover
  BY <1>8 DEF Recover, Lookups
<1>9. CASE UNCHANGED vars
  BY <1>9 DEF vars, world
<1> QED
  BY <1>1, <1>2, <1>3, <1>4, <1>5, <1>6, <1>7, <1>8, <1>9 DEF Next

-----------------------------------------------------------------------------
(* The variables keep their types, in the model's world as in the code.    *)
LEMMA TypeCorrect == Spec => []TypeOK
<1>1. Init => TypeOK
  BY TypeInit
<1>2. TypeOK /\ [Next]_vars => TypeOK'
  BY TypeStep
<1> QED
  BY <1>1, <1>2, PTL DEF Spec

(* A slot is called a ghost only for a device that may answer for it and   *)
(* is gone, in whatever order the registry is walked and whoever else has  *)
(* the address.                                                            *)
THEOREM GhostsAreReal == Spec => []GhostsAreGone
  BY TypeCorrect, GhostsHaveGone, PTL

(* A slot held for a device that is gone is reported, or the verdicts are  *)
(* said to be degraded, whichever lookup raises.                           *)
THEOREM NoSilentLeak == Spec => []LeaksAreSaid
  BY TypeCorrect, LeaksSaid, PTL

(* No slot is judged twice, and the idle measurement decides about no      *)
(* address a device answers for.                                           *)
THEOREM JudgedOnce == Spec => []OneJudge
  BY TypeCorrect, OneJudges, PTL

-----------------------------------------------------------------------------
(***************************************************************************)
(* The window of one proxy's saturation. The changes kept cover the        *)
(* window, and tell what a log of every tick would, for any window and any *)
(* clock.                                                                  *)
(***************************************************************************)

(* Entries in the order of their times, each telling of a change.          *)
Alternating(q) ==
  \A i \in 1..(Len(q) - 1) : q[i].at < q[i + 1].at /\ q[i].saturated # q[i + 1].saturated

(* While a reading can still be recorded, no entry is from this moment.    *)
CoverInv ==
  /\ SaturationTypeOK
  /\ CoversWindow
  /\ fresh /\ transitions # <<>> => transitions[Len(transitions)].at < now

(* What is left of a queue without its first n elements.                   *)
LEMMA Suffix ==
  ASSUME NEW S, NEW q \in Seq(S), NEW n \in 0..Len(q)
  PROVE  /\ SubSeq(q, n + 1, Len(q)) \in Seq(S)
         /\ Len(SubSeq(q, n + 1, Len(q))) = Len(q) - n
         /\ \A i \in 1..(Len(q) - n) :
              n + i \in 1..Len(q) /\ SubSeq(q, n + 1, Len(q))[i] = q[n + i]
<1>1. Len(q) \in Nat
  OBVIOUS
<1>2. \A i \in (n + 1)..Len(q) : q[i] \in S
  BY <1>1
<1>3. /\ SubSeq(q, n + 1, Len(q)) \in Seq(S)
      /\ Len(SubSeq(q, n + 1, Len(q))) = Len(q) - n
  BY <1>1, <1>2
<1>4. ASSUME NEW i \in 1..(Len(q) - n)
      PROVE  n + i \in 1..Len(q) /\ SubSeq(q, n + 1, Len(q))[i] = q[n + i]
  BY <1>1
<1> QED
  BY <1>3, <1>4

(* _evict stops, and keeps the entry in force.                             *)
LEMMA LeavingChanges ==
  ASSUME SaturationAssumption, now \in Nat, NEW q \in Seq(Transition), q # <<>>
  PROVE  /\ Leaving(q) \in 0..(Len(q) - 1)
         /\ \A i \in 1..Leaving(q) : q[i + 1].at <= Cutoff
         /\ Leaving(q) < Len(q) - 1 => q[Leaving(q) + 2].at > Cutoff
<1> DEFINE Stops == {k \in Nat : k = Len(q) - 1 \/ (k < Len(q) - 1 /\ ~(q[k + 2].at <= Cutoff))}
<1>0. Len(q) \in Nat /\ Len(q) > 0
  OBVIOUS
<1>1. Len(q) - 1 \in Stops
  BY <1>0
<1>2. PICK n \in Stops : \A k \in Stops : n <= k
  <2> HIDE DEF Stops
  <2>1. Stops \subseteq Nat
    BY DEF Stops
  <2> QED
    BY <1>1, <2>1, LeastNat
<1>3. n \in 0..(Len(q) - 1)
  BY <1>0, <1>2
<1>4. ASSUME NEW i \in 1..n PROVE q[i + 1].at <= Cutoff
  <2>1. i - 1 \in Nat /\ i - 1 < n /\ (i - 1) + 2 = i + 1
    BY <1>3, <1>4
  <2>2. i - 1 \notin Stops
    BY <1>2, <2>1
  <2> QED
    BY <1>0, <1>3, <2>1, <2>2
<1>5. n < Len(q) - 1 => ~(q[n + 2].at <= Cutoff)
  BY <1>2
<1>6. n < Len(q) - 1 => q[n + 2].at > Cutoff
  <2>1. Cutoff \in Int
    BY DEF Cutoff, SaturationAssumption
  <2>2. n < Len(q) - 1 => q[n + 2] \in Transition
    BY <1>0, <1>3
  <2>3. n < Len(q) - 1 => q[n + 2].at \in Int
    BY <2>2 DEF Transition, SaturationAssumption
  <2> QED
    BY <1>5, <2>1, <2>3
<1> HIDE DEF Stops
<1> QED
  BY <1>3, <1>4, <1>6 DEF Leaving

(* What is left is the end of the list, and of what goes, all but nothing  *)
(* is followed by an entry that is old as well.                            *)
LEMMA EvictedSuffix ==
  ASSUME SaturationAssumption, now \in Nat, NEW q \in Seq(Transition), q # <<>>
  PROVE  \E n \in 0..(Len(q) - 1) :
           /\ \A i \in 1..n : q[i + 1].at <= Cutoff
           /\ Evicted(q) \in Seq(Transition) /\ Len(Evicted(q)) = Len(q) - n
           /\ \A i \in 1..(Len(q) - n) : n + i \in 1..Len(q) /\ Evicted(q)[i] = q[n + i]
<1> DEFINE n == Leaving(q)
           e == Evicted(q)
<1>1. /\ n \in 0..(Len(q) - 1) /\ Len(q) \in Nat /\ Len(q) > 0
      /\ \A i \in 1..n : q[i + 1].at <= Cutoff
  BY LeavingChanges
<1> HIDE DEF n
<1>2. /\ e \in Seq(Transition) /\ Len(e) = Len(q) - n
      /\ \A i \in 1..(Len(q) - n) : n + i \in 1..Len(q) /\ e[i] = q[n + i]
  <2>1. e = SubSeq(q, n + 1, Len(q)) /\ n \in 0..Len(q)
    BY <1>1 DEF n, Evicted
  <2> QED
    BY <1>1, <2>1, Suffix
<1> QED
  BY <1>1, <1>2

(* Eviction keeps the order and the last entry, and a first entry that is  *)
(* either the old one or old enough.                                       *)
LEMMA EvictedChanges ==
  ASSUME SaturationAssumption, now \in Nat,
         NEW q \in Seq(Transition), q # <<>>, Alternating(q)
  PROVE  /\ Evicted(q) \in Seq(Transition) /\ Evicted(q) # <<>>
         /\ Alternating(Evicted(q))
         /\ Evicted(q)[Len(Evicted(q))] = q[Len(q)]
         /\ Evicted(q)[1] = q[1] \/ Evicted(q)[1].at <= Cutoff
<1> DEFINE e == Evicted(q)
<1> HIDE DEF e
<1>0. PICK n \in 0..(Len(q) - 1) :
        /\ \A i \in 1..n : q[i + 1].at <= Cutoff
        /\ e \in Seq(Transition) /\ Len(e) = Len(q) - n
        /\ \A i \in 1..(Len(q) - n) : n + i \in 1..Len(q) /\ e[i] = q[n + i]
  BY EvictedSuffix DEF e
<1>1. n \in Nat /\ Len(q) \in Nat /\ Len(q) > 0
  BY <1>0
<1>2. /\ e \in Seq(Transition) /\ Len(e) = Len(q) - n
      /\ \A i \in 1..Len(e) : n + i \in 1..Len(q) /\ e[i] = q[n + i]
  BY <1>0
<1>3. Alternating(e)
  <2> SUFFICES ASSUME NEW i \in 1..(Len(e) - 1)
               PROVE  e[i].at < e[i + 1].at /\ e[i].saturated # e[i + 1].saturated
    BY DEF Alternating
  <2>1. /\ i \in 1..Len(e) /\ i + 1 \in 1..Len(e) /\ n + i \in 1..(Len(q) - 1)
        /\ n + (i + 1) = (n + i) + 1
    BY <1>1, <1>2
  <2> QED
    BY <1>2, <2>1 DEF Alternating
<1>4. Len(e) \in 1..Len(e) /\ 1 \in 1..Len(e) /\ n + Len(e) = Len(q) /\ e # <<>>
  BY <1>1, <1>2
<1>5. e[Len(e)] = q[Len(q)] /\ e[1] = q[n + 1]
  BY <1>2, <1>4
<1>6. e[1] = q[1] \/ e[1].at <= Cutoff
  <2>1. CASE n = 0
    BY <1>5, <2>1
  <2>2. CASE n # 0
    BY <1>0, <1>1, <1>5, <2>2
  <2> QED
    BY <2>1, <2>2
<1> QED
  BY <1>2, <1>3, <1>4, <1>5, <1>6 DEF e

(* A reading adds an entry only when it is a change.                       *)
LEMMA NotedFacts ==
  ASSUME SaturationAssumption, CoverInv, fresh
  PROVE  /\ Noted(transitions) \in Seq(Transition) /\ Noted(transitions) # <<>>
         /\ Alternating(Noted(transitions))
         /\ Noted(transitions)[Len(Noted(transitions))].at <= now
         /\ transitions # <<>> => Noted(transitions)[1] = transitions[1]
         /\ transitions = <<>> => Noted(transitions)[1].at = now
<1> PICK q \in Seq(Transition) : q = transitions
  BY DEF CoverInv, SaturationTypeOK
<1> PICK new \in Transition : new = [at |-> now, saturated |-> full]
  BY DEF CoverInv, SaturationTypeOK, Transition
<1>1. /\ Len(q) \in Nat /\ now \in Nat /\ Alternating(q)
      /\ q # <<>> => q[Len(q)].at < now
  BY DEF CoverInv, SaturationTypeOK, CoversWindow, Alternating, SaturationAssumption
<1>2. CASE Changed(q)
  <2>1. PICK r : r = Append(q, new)
    OBVIOUS
  <2>2. /\ r \in Seq(Transition) /\ Len(r) = Len(q) + 1 /\ r[Len(q) + 1] = new
        /\ \A i \in 1..Len(q) : r[i] = q[i]
    BY <1>1, <2>1
  <2>3. q # <<>> => q[Len(q)].at < new.at /\ q[Len(q)].saturated # new.saturated
    BY <1>1, <1>2 DEF Changed
  <2>4. Alternating(r)
    <3> SUFFICES ASSUME NEW i \in 1..(Len(r) - 1)
                 PROVE  r[i].at < r[i + 1].at /\ r[i].saturated # r[i + 1].saturated
      BY DEF Alternating
    <3>1. CASE i = Len(q)
      BY <1>1, <2>2, <2>3, <3>1
    <3>2. CASE i # Len(q)
      BY <1>1, <2>2, <3>2 DEF Alternating
    <3> QED
      BY <3>1, <3>2
  <2>5. Noted(q) = r
    BY <1>2, <2>1 DEF Noted
  <2>6. q # <<>> => r[1] = q[1]
    BY <1>1, <2>2
  <2>7. q = <<>> => r[1] = new
    BY <2>2
  <2>8. r # <<>> /\ r[Len(r)] = new /\ new.at = now
    BY <1>1, <2>2
  <2> QED
    BY <1>1, <2>2, <2>4, <2>5, <2>6, <2>7, <2>8
<1>3. CASE ~Changed(q)
  <2>1. Noted(q) = q /\ q # <<>>
    BY <1>3 DEF Noted, Changed
  <2>2. q[Len(q)].at \in Nat
    <3>1. q[Len(q)] \in Transition
      BY <1>1, <2>1
    <3> QED
      BY <3>1 DEF Transition, SaturationAssumption
  <2> QED
    BY <1>1, <2>1, <2>2
<1> QED
  BY <1>2, <1>3

LEMMA CoverRecord ==
  ASSUME SaturationAssumption, CoverInv, Record
  PROVE  CoverInv'
<1> PICK q : q = Noted(transitions)
  OBVIOUS
<1> PICK e : e = Evicted(q)
  OBVIOUS
<1>1. /\ listed' = listed /\ full' = full /\ now' = now /\ log' = log
      /\ fresh /\ fresh' = FALSE
      /\ started' = (IF started = None THEN now ELSE started)
      /\ transitions' = e
  BY DEF Record, proxy
<1>2. now \in Nat /\ started \in {None} \cup 0..now /\ now <= MaxTime
  BY DEF CoverInv, SaturationTypeOK, SaturationAssumption
<1>3. /\ q \in Seq(Transition) /\ q # <<>> /\ Alternating(q) /\ q[Len(q)].at <= now
      /\ transitions # <<>> => q[1] = transitions[1]
      /\ transitions = <<>> => q[1].at = now
  BY <1>1, NotedFacts
<1>4. /\ e \in Seq(Transition) /\ e # <<>> /\ Alternating(e) /\ e[Len(e)] = q[Len(q)]
      /\ e[1] = q[1] \/ e[1].at <= Cutoff
  BY <1>2, <1>3, EvictedChanges
<1>5. Cutoff' = Cutoff
  BY <1>1 DEF Cutoff
<1>6. started' \in 0..now /\ started' # None
  BY <1>1, <1>2 DEF None
<1>7. e[1].at = started' \/ e[1].at <= Cutoff
  <2>1. CASE transitions = <<>>
    <3>1. started = None
      BY <2>1 DEF CoverInv, CoversWindow
    <3> QED
      BY <1>1, <1>3, <1>4, <2>1, <3>1
  <2>2. CASE transitions # <<>>
    <3>1. started # None /\ (transitions[1].at = started \/ transitions[1].at <= Cutoff)
      BY <2>2 DEF CoverInv, CoversWindow
    <3> QED
      BY <1>1, <1>3, <1>4, <2>2, <3>1
  <2> QED
    BY <2>1, <2>2
<1>8. SaturationTypeOK'
  BY <1>1, <1>4, <1>6 DEF CoverInv, SaturationTypeOK
<1>9. CoversWindow'
  BY <1>1, <1>3, <1>4, <1>5, <1>6, <1>7 DEF CoversWindow, Alternating
<1> QED
  BY <1>1, <1>8, <1>9 DEF CoverInv

LEMMA CoverTick ==
  ASSUME SaturationAssumption, CoverInv, Tick
  PROVE  CoverInv'
<1>1. /\ listed' = listed /\ full' = full /\ transitions' = transitions /\ started' = started
      /\ now' = now + 1 /\ now < MaxTime
      /\ log' = Append(log, InForce)
      /\ fresh' = TRUE
  BY DEF Tick, proxy, store
<1>2. now \in Nat /\ MaxTime \in Nat /\ started \in {None} \cup 0..now /\ Window \in Nat
  BY DEF CoverInv, SaturationTypeOK, SaturationAssumption
<1>3. log' \in Seq({Unknown, "full", "free"}) /\ Len(log') = now + 1
  <2>1. InForce \in {Unknown, "full", "free"}
    BY DEF InForce
  <2> QED
    BY <1>1, <2>1 DEF CoverInv, SaturationTypeOK
<1>4. SaturationTypeOK'
  <2>1. started' \in {None} \cup 0..now' /\ now' \in 0..MaxTime /\ fresh' \in BOOLEAN
    BY <1>1, <1>2
  <2>2. listed' \in BOOLEAN /\ full' \in BOOLEAN /\ transitions' \in Seq(Transition)
    BY <1>1 DEF CoverInv, SaturationTypeOK
  <2> QED
    BY <1>1, <1>3, <2>1, <2>2 DEF SaturationTypeOK
<1>5. PICK q \in Seq(Transition) : q = transitions
  BY DEF CoverInv, SaturationTypeOK
<1>6. q # <<>> => q[Len(q)].at \in Int /\ q[1].at \in Int
  <2>1. q # <<>> => q[Len(q)] \in Transition /\ q[1] \in Transition
    BY <1>5
  <2> QED
    BY <2>1 DEF Transition
<1>7. q # <<>> => q[Len(q)].at <= now
  BY <1>5 DEF CoverInv, CoversWindow
<1>8. q # <<>> => q[Len(q)].at < now' /\ q[Len(q)].at <= now'
  BY <1>1, <1>2, <1>6, <1>7
<1>9. q # <<>> => q[1].at = started \/ q[1].at <= now' - Window
  <2>1. q # <<>> => q[1].at = started \/ q[1].at <= now - Window
    BY <1>5 DEF CoverInv, CoversWindow, Cutoff
  <2> QED
    BY <1>1, <1>2, <1>6, <2>1
<1>10. CoversWindow'
  <2>1. CoversWindow
    BY DEF CoverInv
  <2> QED
    BY <1>1, <1>5, <1>8, <1>9, <2>1 DEF CoversWindow, Cutoff
<1> QED
  BY <1>1, <1>4, <1>5, <1>8, <1>10 DEF CoverInv

LEMMA CoverForget ==
  ASSUME CoverInv, Forget
  PROVE  CoverInv'
<1>1. /\ listed' = listed /\ full' = full /\ now' = now /\ fresh' = fresh
      /\ transitions' = <<>> /\ started' = None
      /\ log' = [t \in 1..Len(log) |-> Unknown]
  BY DEF Forget, proxy
<1>2. log' \in Seq({Unknown, "full", "free"}) /\ Len(log') = now
  <2>1. Len(log) \in Nat /\ Len(log) = now
    BY DEF CoverInv, SaturationTypeOK
  <2> QED
    BY <1>1, <2>1
<1>3. SaturationTypeOK'
  BY <1>1, <1>2 DEF CoverInv, SaturationTypeOK
<1> QED
  BY <1>1, <1>3 DEF CoverInv, CoversWindow

LEMMA CoverStep ==
  ASSUME SaturationAssumption, CoverInv, [SaturationNext]_saturationVars
  PROVE  CoverInv'
<1>1. CASE Leave \/ Return \/ Allocate \/ UNCHANGED saturationVars
  <2>1. /\ UNCHANGED <<now, transitions, started, fresh, log>>
        /\ listed' \in BOOLEAN /\ full' \in BOOLEAN
    BY <1>1 DEF Leave, Return, Allocate, saturationVars, store, proxy, CoverInv, SaturationTypeOK
  <2> QED
    BY <2>1 DEF CoverInv, SaturationTypeOK, CoversWindow, Cutoff
<1>2. CASE Tick
  BY <1>2, CoverTick
<1>3. CASE Record
  BY <1>3, CoverRecord
<1>4. CASE Forget
  BY <1>4, CoverForget
<1> QED
  BY <1>1, <1>2, <1>3, <1>4 DEF SaturationNext

LEMMA CoverAlways == SaturationSpec => []CoverInv
<1>1. SaturationInit => CoverInv
  BY SaturationAssumption DEF SaturationInit, CoverInv, SaturationTypeOK, CoversWindow
<1>2. CoverInv /\ [SaturationNext]_saturationVars => CoverInv'
  BY SaturationAssumption, CoverStep
<1> QED
  BY <1>1, <1>2, PTL DEF SaturationSpec

(* Types, for any window and clock.                                        *)
THEOREM SaturationTypes == SaturationSpec => []SaturationTypeOK
<1>1. CoverInv => SaturationTypeOK
  BY DEF CoverInv
<1> QED
  BY <1>1, CoverAlways, PTL

(* The changes kept tell the state from the first reading, or from the     *)
(* start of the window, to now: no eviction loses the one in force.        *)
THEOREM WindowIsCovered == SaturationSpec => []CoversWindow
<1>1. CoverInv => CoversWindow
  BY DEF CoverInv, CoversWindow
<1> QED
  BY <1>1, CoverAlways, PTL

-----------------------------------------------------------------------------
(* The entries kept against the log of every tick.  Of a tick inside the   *)
(* window they tell what the log tells: nothing before the first of them,  *)
(* and from there on the state that was in force.                          *)
Told(q, l, t) ==
  /\ q = <<>> \/ t <= q[1].at => l[t] = Unknown
  /\ \A i \in 1..Len(q) :
       q[i].at < t /\ (i < Len(q) => t <= q[i + 1].at)
         => l[t] = IF q[i].saturated THEN "full" ELSE "free"

LogInv ==
  /\ CoverInv
  /\ transitions # <<>> => started <= transitions[1].at
  /\ \A t \in Span : Told(transitions, log, t)

LEMMA TimesAreNat ==
  ASSUME SaturationAssumption, NEW q \in Seq(Transition)
  PROVE  \A i \in 1..Len(q) : q[i].at \in Nat
<1> SUFFICES ASSUME NEW i \in 1..Len(q) PROVE q[i].at \in Nat
  OBVIOUS
<1>1. q[i] \in Transition
  OBVIOUS
<1> QED
  BY <1>1 DEF Transition, SaturationAssumption

(* The order of neighbours is the order of all.                            *)
LEMMA TimesIncrease ==
  ASSUME SaturationAssumption, NEW q \in Seq(Transition), Alternating(q),
         NEW i \in 1..Len(q), NEW j \in 1..Len(q), i < j
  PROVE  q[i].at < q[j].at
<1> SUFFICES ASSUME ~(q[i].at < q[j].at) PROVE FALSE
  OBVIOUS
<1> DEFINE Late == {k \in Nat : k \in 1..Len(q) /\ i < k /\ ~(q[i].at < q[k].at)}
<1>1. \A k \in 1..Len(q) : q[k].at \in Nat
  BY TimesAreNat
<1>2. PICK m \in Late : \A k \in Late : m <= k
  <2>1. Late \subseteq Nat /\ Late # {}
    OBVIOUS
  <2> HIDE DEF Late
  <2> QED
    BY <2>1, LeastNat
<1>3. /\ m - 1 \in Nat /\ m - 1 \in 1..(Len(q) - 1) /\ m - 1 \in 1..Len(q) /\ (m - 1) + 1 = m
      /\ m \in 1..Len(q)
  BY <1>2
<1>4. q[m - 1].at < q[m].at
  BY <1>3 DEF Alternating
<1>5. CASE m - 1 = i
  BY <1>2, <1>4, <1>5
<1>6. CASE m - 1 # i
  <2>1. i < m - 1 /\ m - 1 \notin Late
    BY <1>2, <1>3, <1>6
  <2>2. q[i].at < q[m - 1].at
    BY <1>3, <2>1
  <2> QED
    BY <1>1, <1>2, <1>3, <1>4, <2>2
<1> QED
  BY <1>5, <1>6

(* A reading tells nothing of the ticks that have passed.                  *)
LEMMA ToldNoted ==
  ASSUME SaturationAssumption, now \in Nat, NEW q \in Seq(Transition), NEW l,
         NEW t \in 1..now, Told(q, l, t)
  PROVE  Told(Noted(q), l, t)
<1> PICK r : r = Append(q, [at |-> now, saturated |-> full])
  OBVIOUS
<1>1. /\ Len(q) \in Nat /\ Len(r) = Len(q) + 1 /\ r # <<>>
      /\ r[Len(q) + 1].at = now /\ \A i \in 1..Len(q) : r[i] = q[i]
  OBVIOUS
<1>2. Told(r, l, t)
  <2>1. r = <<>> \/ t <= r[1].at => l[t] = Unknown
    <3>1. CASE q = <<>>
      BY <3>1 DEF Told
    <3>2. CASE q # <<>>
      BY <1>1, <3>2 DEF Told
    <3> QED
      BY <3>1, <3>2
  <2>2. ASSUME NEW i \in 1..Len(r), r[i].at < t, i < Len(r) => t <= r[i + 1].at
        PROVE  l[t] = IF r[i].saturated THEN "full" ELSE "free"
    <3>1. CASE i = Len(q) + 1
      BY <1>1, <2>2, <3>1
    <3>2. CASE i # Len(q) + 1
      <4>1. i \in 1..Len(q) /\ q[i].at < t
        BY <1>1, <2>2, <3>2
      <4>2. i < Len(q) => t <= q[i + 1].at
        BY <1>1, <2>2, <4>1
      <4> QED
        BY <1>1, <4>1, <4>2 DEF Told
    <3> QED
      BY <3>1, <3>2
  <2> QED
    BY <2>1, <2>2 DEF Told
<1> QED
  BY <1>2 DEF Noted

(* What is evicted tells nothing of the ticks inside the window.           *)
LEMMA ToldEvicted ==
  ASSUME SaturationAssumption, now \in Nat, NEW q \in Seq(Transition), q # <<>>, NEW l,
         NEW t \in Span, Told(q, l, t)
  PROVE  Told(Evicted(q), l, t)
<1> PICK e : e = Evicted(q)
  OBVIOUS
<1>0. PICK n \in 0..(Len(q) - 1) :
        /\ \A i \in 1..n : q[i + 1].at <= Cutoff
        /\ e \in Seq(Transition) /\ Len(e) = Len(q) - n
        /\ \A i \in 1..(Len(q) - n) : n + i \in 1..Len(q) /\ e[i] = q[n + i]
  BY EvictedSuffix
<1>1. /\ n \in Nat /\ Len(q) \in Nat /\ Len(q) > 0
      /\ \A i \in 1..n : q[i + 1].at <= Cutoff
  BY <1>0
<1>2. /\ e \in Seq(Transition) /\ Len(e) = Len(q) - n
      /\ \A i \in 1..Len(e) : n + i \in 1..Len(q) /\ e[i] = q[n + i]
  BY <1>0
<1>3. t \in Nat /\ t > Cutoff /\ Cutoff \in Int
  BY DEF Span, Cutoff, SaturationAssumption
<1>4. \A i \in 1..Len(q) : q[i].at \in Nat
  BY TimesAreNat
<1>5. e = <<>> \/ t <= e[1].at => l[t] = Unknown
  <2>1. e # <<>> /\ e[1] = q[n + 1]
    BY <1>0, <1>1, <1>2
  <2>2. CASE n = 0
    BY <2>1, <2>2 DEF Told
  <2>3. CASE n # 0
    <3>1. q[n + 1].at <= Cutoff /\ q[n + 1].at \in Nat
      BY <1>1, <1>4, <2>3
    <3> QED
      BY <1>3, <2>1, <3>1
  <2> QED
    BY <2>2, <2>3
<1>6. ASSUME NEW i \in 1..Len(e), e[i].at < t, i < Len(e) => t <= e[i + 1].at
      PROVE  l[t] = IF e[i].saturated THEN "full" ELSE "free"
  <2>1. n + i \in 1..Len(q) /\ e[i] = q[n + i] /\ n + (i + 1) = (n + i) + 1
    BY <1>1, <1>2
  <2>2. n + i < Len(q) => t <= q[(n + i) + 1].at
    BY <1>0, <1>1, <1>2, <1>6, <2>1
  <2> QED
    BY <1>6, <2>1, <2>2 DEF Told
<1> QED
  BY <1>5, <1>6 DEF Told

LEMMA LogRecord ==
  ASSUME SaturationAssumption, LogInv, Record
  PROVE  LogInv'
<1> PICK q : q = Noted(transitions)
  OBVIOUS
<1> PICK e : e = Evicted(q)
  OBVIOUS
<1>1. /\ now' = now /\ log' = log /\ fresh /\ transitions' = e
      /\ started' = (IF started = None THEN now ELSE started)
      /\ CoverInv /\ CoverInv'
  BY CoverRecord DEF Record, LogInv
<1>2. /\ q \in Seq(Transition) /\ q # <<>> /\ Alternating(q)
      /\ transitions # <<>> => q[1] = transitions[1]
      /\ transitions = <<>> => q[1].at = now
  BY <1>1, NotedFacts
<1>3. /\ now \in Nat /\ started \in {None} \cup 0..now /\ transitions \in Seq(Transition)
      /\ started = None <=> transitions = <<>>
  BY <1>1 DEF CoverInv, SaturationTypeOK, CoversWindow, SaturationAssumption
<1>4. started' <= q[1].at
  BY <1>1, <1>2, <1>3 DEF LogInv
<1>5. e[1].at >= q[1].at
  <2>1. PICK n \in 0..(Len(q) - 1) :
          /\ Len(e) = Len(q) - n
          /\ \A i \in 1..(Len(q) - n) : n + i \in 1..Len(q) /\ e[i] = q[n + i]
    BY <1>2, <1>3, EvictedSuffix
  <2>2. n + 1 \in 1..Len(q) /\ 1 \in 1..Len(q) /\ e[1] = q[n + 1] /\ n \in Nat
    BY <2>1
  <2>3. q[1].at \in Nat /\ (1 < n + 1 => q[1].at < q[n + 1].at)
    BY <1>2, <2>2, TimesAreNat, TimesIncrease
  <2>4. q[n + 1].at \in Nat
    BY <1>2, <2>2, TimesAreNat
  <2> QED
    BY <2>2, <2>3, <2>4
<1>6. Span' = Span
  BY <1>1 DEF Span, Cutoff
<1>7. ASSUME NEW t \in Span PROVE Told(e, log, t)
  <2>1. t \in 1..now /\ Told(transitions, log, t)
    BY <1>7 DEF LogInv, Span
  <2>2. Told(q, log, t)
    BY <1>3, <2>1, ToldNoted
  <2> QED
    BY <1>2, <1>3, <1>7, <2>2, ToldEvicted
<1>8. started' <= e[1].at
  <2>1. started' \in Int /\ q[1].at \in Int /\ e[1].at \in Int
    <3>1. e \in Seq(Transition) /\ e # <<>>
      BY <1>2, <1>3, EvictedChanges
    <3>2. 1 \in 1..Len(q) /\ 1 \in 1..Len(e)
      BY <1>2, <3>1
    <3>3. q[1].at \in Nat /\ e[1].at \in Nat
      BY <1>2, <3>1, <3>2, TimesAreNat
    <3> QED
      BY <1>1, <1>3, <3>3 DEF None
  <2> QED
    BY <1>4, <1>5, <2>1
<1> QED
  BY <1>1, <1>6, <1>7, <1>8 DEF LogInv

LEMMA TimesArePast ==
  ASSUME SaturationAssumption, CoverInv
  PROVE  /\ transitions \in Seq(Transition) /\ Alternating(transitions)
         /\ now \in Nat /\ Window \in Nat \ {0} /\ Len(transitions) \in Nat
         /\ \A i \in 1..Len(transitions) : transitions[i].at \in Nat /\ transitions[i].at <= now
<1> PICK q : q = transitions
  OBVIOUS
<1>1. /\ now \in Nat /\ Window \in Nat \ {0} /\ q \in Seq(Transition) /\ Len(q) \in Nat
      /\ Alternating(q) /\ (q # <<>> => q[Len(q)].at <= now)
  BY DEF CoverInv, SaturationTypeOK, CoversWindow, Alternating, SaturationAssumption
<1>2. ASSUME NEW i \in 1..Len(q) PROVE q[i].at \in Nat /\ q[i].at <= now
  <2>1. Len(q) \in 1..Len(q) /\ q # <<>>
    BY <1>1
  <2>2. q[i].at \in Nat /\ q[Len(q)].at \in Nat
    BY <1>1, <2>1, TimesAreNat
  <2>3. i < Len(q) => q[i].at < q[Len(q)].at
    BY <1>1, <2>1, TimesIncrease
  <2> QED
    BY <1>1, <2>1, <2>2, <2>3
<1> QED
  BY <1>1, <1>2

(* A tick is logged with the state in force, that of the last entry.       *)
LEMMA LogTick ==
  ASSUME SaturationAssumption, LogInv, Tick
  PROVE  LogInv'
<1> PICK q : q = transitions
  OBVIOUS
<1> PICK l : l = Append(log, InForce)
  OBVIOUS
<1>1. now' = now + 1 /\ log' = l /\ transitions' = q /\ started' = started /\ CoverInv /\ CoverInv'
  BY CoverTick DEF Tick, store, LogInv
<1>2. /\ now \in Nat /\ Window \in Nat /\ q \in Seq(Transition) /\ Len(q) \in Nat
      /\ Alternating(q) /\ (q # <<>> => q[Len(q)].at <= now)
  BY <1>1 DEF CoverInv, SaturationTypeOK, CoversWindow, Alternating, SaturationAssumption
<1>3. /\ \A t \in 1..now : l[t] = log[t]
      /\ l[now + 1] = InForce
  <2>1. log \in Seq({Unknown, "full", "free"}) /\ Len(log) = now
    BY <1>1 DEF CoverInv, SaturationTypeOK
  <2> QED
    BY <2>1
<1>4. \A i \in 1..Len(q) : q[i].at \in Nat /\ q[i].at <= now
  BY <1>1, TimesArePast
<1>5. ASSUME NEW t, t \in Span' PROVE Told(q, l, t)
  <2>1. t \in 1..(now + 1) /\ t > now + 1 - Window
    <3>1. Span' = {u \in 1..(now + 1) : u > (now + 1) - Window}
      BY <1>1 DEF Span, Cutoff
    <3> QED
      BY <1>2, <1>5, <3>1
  <2>2. CASE t = now + 1
    <3>1. q = <<>> \/ t <= q[1].at => l[t] = Unknown
      <4>1. CASE q = <<>>
        BY <1>3, <2>2, <4>1 DEF InForce
      <4>2. CASE q # <<>>
        <5>1. 1 \in 1..Len(q)
          BY <1>2, <4>2
        <5>2. q[1].at \in Nat /\ q[1].at <= now
          BY <1>4, <5>1
        <5> QED
          BY <1>2, <2>2, <4>2, <5>2
      <4> QED
        BY <4>1, <4>2
    <3>2. ASSUME NEW i \in 1..Len(q), q[i].at < t, i < Len(q) => t <= q[i + 1].at
          PROVE  l[t] = IF q[i].saturated THEN "full" ELSE "free"
      <4>1. i = Len(q)
        <5> SUFFICES ASSUME i # Len(q) PROVE FALSE
          OBVIOUS
        <5>1. i + 1 \in 1..Len(q) /\ i < Len(q)
          BY <1>2
        <5>2. t <= q[i + 1].at /\ q[i + 1].at \in Nat /\ q[i + 1].at <= now
          BY <1>4, <3>2, <5>1
        <5> QED
          BY <1>2, <2>2, <5>2
      <4>2. q # <<>> /\ InForce = IF q[Len(q)].saturated THEN "full" ELSE "free"
        BY <1>2, <3>2 DEF InForce
      <4> QED
        BY <1>3, <2>2, <4>1, <4>2
    <3> QED
      BY <3>1, <3>2 DEF Told
  <2>3. CASE t # now + 1
    <3>1. t \in 1..now /\ t \in Span
      BY <1>2, <2>1, <2>3 DEF Span, Cutoff
    <3>2. Told(q, log, t)
      BY <3>1 DEF LogInv
    <3> QED
      BY <1>3, <3>1, <3>2 DEF Told
  <2> QED
    BY <2>2, <2>3
<1> QED
  BY <1>1, <1>5 DEF LogInv

LEMMA LogForget ==
  ASSUME SaturationAssumption, LogInv, Forget
  PROVE  LogInv'
<1>1. /\ transitions' = <<>> /\ now' = now /\ log' = [t \in 1..Len(log) |-> Unknown]
      /\ CoverInv /\ CoverInv'
  BY CoverForget DEF Forget, LogInv
<1>2. Span' \subseteq 1..Len(log)
  BY <1>1 DEF Span, CoverInv, SaturationTypeOK
<1>3. \A t \in 1..Len(log) : Told(<<>>, [u \in 1..Len(log) |-> Unknown], t)
  BY DEF Told
<1> QED
  BY <1>1, <1>2, <1>3 DEF LogInv

LEMMA LogStep ==
  ASSUME SaturationAssumption, LogInv, [SaturationNext]_saturationVars
  PROVE  LogInv'
<1>1. CASE Leave \/ Return \/ Allocate \/ UNCHANGED saturationVars
  <2>1. UNCHANGED <<now, transitions, started, fresh, log>>
    BY <1>1 DEF Leave, Return, Allocate, saturationVars, store, proxy
  <2>2. CoverInv'
    BY CoverStep DEF LogInv
  <2> QED
    BY <2>1, <2>2 DEF LogInv, Told, Span, Cutoff
<1>2. CASE Tick
  BY <1>2, LogTick
<1>3. CASE Record
  BY <1>3, LogRecord
<1>4. CASE Forget
  BY <1>4, LogForget
<1> QED
  BY <1>1, <1>2, <1>3, <1>4 DEF SaturationNext

LEMMA LogAlways == SaturationSpec => []LogInv
<1>1. SaturationInit => LogInv
  <2> SUFFICES ASSUME SaturationInit PROVE LogInv
    OBVIOUS
  <2>1. CoverInv
    BY SaturationAssumption DEF SaturationInit, CoverInv, SaturationTypeOK, CoversWindow
  <2>2. transitions = <<>> /\ Span = {}
    BY DEF SaturationInit, Span
  <2> QED
    BY <2>1, <2>2 DEF LogInv
<1>2. LogInv /\ [SaturationNext]_saturationVars => LogInv'
  BY SaturationAssumption, LogStep
<1> QED
  BY <1>1, <1>2, PTL DEF SaturationSpec

-----------------------------------------------------------------------------
(* From the entries to the readings.  A stretch goes from its entry, or    *)
(* from the start of the window, to the next entry, or to now.             *)
LEMMA StretchTimes ==
  ASSUME SaturationAssumption, LogInv, NEW i \in 1..Len(transitions)
  PROVE  /\ From(i) \in Nat /\ Until(i) \in Nat
         /\ From(i) <= Until(i) /\ Until(i) <= now
         /\ transitions[i].at <= From(i) /\ Cutoff <= From(i)
         /\ From(i) = transitions[i].at \/ From(i) = Cutoff
         /\ i < Len(transitions) =>
              /\ Until(i) = transitions[i + 1].at \/ Until(i) = From(i)
              /\ transitions[i + 1].at <= Until(i)
         /\ i = Len(transitions) => Until(i) = now
<1>1. /\ now \in Nat /\ Window \in Nat \ {0} /\ Len(transitions) \in Nat
      /\ transitions[i].at \in Nat /\ transitions[i].at <= now
      /\ i < Len(transitions) => transitions[i + 1].at \in Nat /\ transitions[i + 1].at <= now
  <2>1. i < Len(transitions) => i + 1 \in 1..Len(transitions)
    BY TimesArePast DEF LogInv
  <2> QED
    BY <2>1, TimesArePast DEF LogInv
<1>2. Cutoff \in Int /\ Cutoff < now
  BY <1>1 DEF Cutoff
<1>3. /\ From(i) = IF transitions[i].at < Cutoff THEN Cutoff ELSE transitions[i].at
      /\ From(i) \in Nat /\ From(i) <= now
  BY <1>1, <1>2 DEF From, Most
<1>4. CASE i = Len(transitions)
  <2>1. Until(i) = IF From(i) < now THEN now ELSE From(i)
    BY <1>4 DEF Until, Most
  <2> QED
    BY <1>1, <1>2, <1>3, <1>4, <2>1
<1>5. CASE i # Len(transitions)
  <2>1. /\ Until(i) = IF From(i) < transitions[i + 1].at THEN transitions[i + 1].at
                                                               ELSE From(i)
        /\ i < Len(transitions)
    BY <1>1, <1>5 DEF Until, Most
  <2> QED
    BY <1>1, <1>2, <1>3, <1>5, <2>1
<1> QED
  BY <1>4, <1>5

(* At any tick since the first entry, some entry is in force.              *)
LEMMA SomeInForce ==
  ASSUME SaturationAssumption, LogInv, NEW t \in 1..now,
         transitions # <<>>, transitions[1].at < t
  PROVE  \E i \in 1..Len(transitions) :
           /\ transitions[i].at < t
           /\ i < Len(transitions) => t <= transitions[i + 1].at
<1> PICK q : q = transitions
  OBVIOUS
<1> DEFINE Ahead == {k \in Nat : k \in 1..Len(q) /\ (k < Len(q) => t <= q[k + 1].at)}
<1>1. /\ Len(q) \in Nat /\ Len(q) > 0 /\ now \in Nat
      /\ \A i \in 1..Len(q) : q[i].at \in Nat
  BY TimesArePast DEF LogInv
<1>2. PICK m \in Ahead : \A k \in Ahead : m <= k
  <2>1. Len(q) \in Ahead /\ Ahead \subseteq Nat
    BY <1>1
  <2> HIDE DEF Ahead
  <2> QED
    BY <2>1, LeastNat
<1>3. m \in 1..Len(q) /\ (m < Len(q) => t <= q[m + 1].at)
  BY <1>2
<1>4. q[m].at < t
  <2>1. CASE m = 1
    BY <2>1
  <2>2. CASE m # 1
    <3>1. m - 1 \in Nat /\ m - 1 \in 1..Len(q) /\ m - 1 < Len(q) /\ (m - 1) + 1 = m /\ m - 1 < m
      BY <1>1, <1>3, <2>2
    <3>2. m - 1 \notin Ahead
      BY <1>2, <3>1
    <3>3. ~(t <= q[m].at)
      BY <3>1, <3>2
    <3> QED
      BY <1>1, <1>3, <3>3
  <2> QED
    BY <2>1, <2>2
<1> QED
  BY <1>3, <1>4

(* The ticks spent full are those of the stretches.                        *)
LEMMA FullTick ==
  ASSUME SaturationAssumption, LogInv, NEW t
  PROVE  t \in FullTicks <=>
           t \in Nat /\ \E i \in Stretches : From(i) < t /\ t <= Until(i)
<1>1. /\ now \in Nat /\ Len(transitions) \in Nat /\ Cutoff \in Int
      /\ \A i \in 1..Len(transitions) : transitions[i].at \in Nat
  BY TimesArePast DEF LogInv, Cutoff
<1>2. \A i \in Stretches : i \in 1..Len(transitions) /\ transitions[i].saturated
  BY <1>1, TimesArePast DEF Stretches, LogInv
<1>3. ASSUME t \in FullTicks
      PROVE  t \in Nat /\ \E i \in Stretches : From(i) < t /\ t <= Until(i)
  <2>1. t \in 1..now /\ t > Cutoff /\ log[t] = "full" /\ Told(transitions, log, t)
    BY <1>3 DEF FullTicks, Span, LogInv
  <2>2. transitions # <<>> /\ ~(t <= transitions[1].at)
    BY <2>1 DEF Told, Unknown
  <2>3. transitions[1].at < t
    <3>1. 1 \in 1..Len(transitions)
      BY <1>1, <2>2, TimesArePast DEF LogInv
    <3> QED
      BY <1>1, <2>1, <2>2, <3>1
  <2>4. PICK i \in 1..Len(transitions) :
          /\ transitions[i].at < t
          /\ i < Len(transitions) => t <= transitions[i + 1].at
    BY <2>1, <2>2, <2>3, SomeInForce
  <2>5. transitions[i].saturated
    BY <2>1, <2>4 DEF Told
  <2>6. From(i) < t /\ t <= Until(i)
    <3>1. /\ From(i) \in Nat /\ Until(i) \in Nat /\ Until(i) <= now
          /\ transitions[i].at <= From(i) /\ Cutoff <= From(i)
          /\ From(i) = transitions[i].at \/ From(i) = Cutoff
          /\ i < Len(transitions) =>
               /\ Until(i) = transitions[i + 1].at \/ Until(i) = From(i)
               /\ transitions[i + 1].at <= Until(i)
          /\ i = Len(transitions) => Until(i) = now
      BY StretchTimes
    <3>2. /\ transitions[i].at \in Nat
          /\ i < Len(transitions) => transitions[i + 1].at \in Nat
      <4>1. i < Len(transitions) => i + 1 \in 1..Len(transitions)
        BY <1>1
      <4> QED
        BY <1>1, <4>1
    <3>3. i < Len(transitions) \/ i = Len(transitions)
      BY <1>1
    <3> QED
      BY <1>1, <2>1, <2>4, <3>1, <3>2, <3>3
  <2>7. Until(i) > From(i)
    BY <1>1, <2>1, <2>6, StretchTimes
  <2>8. i \in Stretches
    BY <2>5, <2>7, TimesArePast DEF Stretches, LogInv
  <2> QED
    BY <2>1, <2>6, <2>8
<1>4. ASSUME t \in Nat, NEW i \in Stretches, From(i) < t, t <= Until(i)
      PROVE  t \in FullTicks
  <2>1. i \in 1..Len(transitions) /\ transitions[i].saturated
    BY <1>2
  <2>2. /\ t \in 1..now /\ t > Cutoff /\ transitions[i].at < t
        /\ i < Len(transitions) => t <= transitions[i + 1].at
    <3>1. /\ From(i) \in Nat /\ Until(i) \in Nat /\ Until(i) <= now
          /\ transitions[i].at <= From(i) /\ Cutoff <= From(i)
          /\ From(i) = transitions[i].at \/ From(i) = Cutoff
          /\ i < Len(transitions) =>
               /\ Until(i) = transitions[i + 1].at \/ Until(i) = From(i)
               /\ transitions[i + 1].at <= Until(i)
          /\ i = Len(transitions) => Until(i) = now
      BY <2>1, StretchTimes
    <3>2. /\ transitions[i].at \in Nat
          /\ i < Len(transitions) => transitions[i + 1].at \in Nat
      <4>1. i < Len(transitions) => i + 1 \in 1..Len(transitions)
        BY <1>1, <2>1
      <4> QED
        BY <1>1, <2>1, <4>1
    <3> QED
      BY <1>1, <1>4, <3>1, <3>2
  <2>3. t \in Span
    BY <2>2 DEF Span
  <2>4. Told(transitions, log, t)
    BY <2>3 DEF LogInv
  <2> QED
    BY <2>1, <2>2, <2>3, <2>4 DEF Told, FullTicks
<1> QED
  BY <1>3, <1>4

LEMMA StretchFacts ==
  ASSUME SaturationAssumption, LogInv
  PROVE  \A i \in Stretches :
           /\ i \in 1..Len(transitions) /\ transitions[i].saturated
           /\ From(i) \in Nat /\ Until(i) \in Nat
           /\ From(i) <= Until(i) /\ Until(i) <= now
           /\ Length(i) = Until(i) - From(i) /\ Length(i) \in Nat
           /\ i # Len(transitions) => From(i) < Until(i)
<1> SUFFICES ASSUME NEW i \in Stretches
             PROVE  /\ i \in 1..Len(transitions) /\ transitions[i].saturated
                    /\ From(i) \in Nat /\ Until(i) \in Nat
                    /\ From(i) <= Until(i) /\ Until(i) <= now
                    /\ Length(i) = Until(i) - From(i) /\ Length(i) \in Nat
                    /\ i # Len(transitions) => From(i) < Until(i)
  OBVIOUS
<1>1. /\ i \in 1..Len(transitions) /\ transitions[i].saturated
      /\ Until(i) > From(i) \/ i = Len(transitions)
  BY TimesArePast DEF Stretches, LogInv
<1>2. /\ From(i) \in Nat /\ Until(i) \in Nat
      /\ From(i) <= Until(i) /\ Until(i) <= now
  BY <1>1, StretchTimes
<1>3. Length(i) = Until(i) - From(i) /\ Length(i) \in Nat
  BY <1>2 DEF Length
<1> QED
  BY <1>1, <1>2, <1>3

(* Between two stretches, there was a free slot.                           *)
LEMMA StretchesApart ==
  ASSUME SaturationAssumption, LogInv, NEW i \in Stretches, NEW j \in Stretches, i < j
  PROVE  Until(i) < From(j)
<1> PICK q : q = transitions
  OBVIOUS
<1>1. /\ q \in Seq(Transition) /\ Alternating(q) /\ Len(q) \in Nat
      /\ \A k \in 1..Len(q) : q[k].at \in Nat
  BY TimesArePast DEF LogInv
<1>2. /\ i \in 1..Len(q) /\ q[i].saturated /\ j \in 1..Len(q) /\ q[j].saturated
      /\ From(i) \in Nat /\ Until(i) \in Nat /\ From(j) \in Nat
      /\ i # Len(q) => From(i) < Until(i)
  BY StretchFacts
<1>3. i < Len(q) /\ i + 1 \in 1..Len(q) /\ i \in 1..(Len(q) - 1)
  BY <1>1, <1>2
<1>4. Until(i) = q[i + 1].at
  <2>1. i < Len(q) => Until(i) = q[i + 1].at \/ Until(i) = From(i)
    BY <1>2, StretchTimes
  <2> QED
    BY <1>2, <1>3, <2>1
<1>5. j # i + 1
  BY <1>2, <1>3, <1>1 DEF Alternating
<1>6. q[i + 1].at < q[j].at
  <2>1. i + 1 < j
    BY <1>2, <1>3, <1>5
  <2> QED
    BY <1>1, <1>2, <1>3, <2>1, TimesIncrease
<1>7. q[j].at <= From(j)
  BY <1>2, StretchTimes
<1> QED
  BY <1>1, <1>2, <1>3, <1>4, <1>6, <1>7

(* So a tick belongs to one stretch, and none before or after it is full.  *)
LEMMA StretchEdges ==
  ASSUME SaturationAssumption, LogInv, NEW i \in Stretches
  PROVE  /\ \A j \in Stretches : \A t \in Nat :
              From(i) < t /\ t <= Until(i) /\ From(j) < t /\ t <= Until(j) => i = j
         /\ From(i) \notin FullTicks
         /\ Until(i) + 1 \notin FullTicks
<1>1. /\ i \in Nat /\ From(i) \in Nat /\ Until(i) \in Nat /\ From(i) <= Until(i)
      /\ \A j \in Stretches : j \in Nat /\ From(j) \in Nat /\ Until(j) \in Nat
                                 /\ From(j) <= Until(j)
  BY StretchFacts
<1>2. \A j \in Stretches : /\ i < j => Until(i) < From(j)
                           /\ j < i => Until(j) < From(i)
  BY StretchesApart
<1>3. ASSUME NEW j \in Stretches, NEW t \in Nat,
             From(i) < t, t <= Until(i), From(j) < t, t <= Until(j)
      PROVE  i = j
  BY <1>1, <1>2, <1>3
<1>4. From(i) \notin FullTicks
  <2> SUFFICES ASSUME From(i) \in FullTicks PROVE FALSE
    OBVIOUS
  <2>1. PICK j \in Stretches : From(j) < From(i) /\ From(i) <= Until(j)
    BY FullTick
  <2> QED
    BY <1>1, <1>2, <2>1
<1>5. Until(i) + 1 \notin FullTicks
  <2> SUFFICES ASSUME Until(i) + 1 \in FullTicks PROVE FALSE
    OBVIOUS
  <2>1. PICK j \in Stretches : From(j) < Until(i) + 1 /\ Until(i) + 1 <= Until(j)
    BY FullTick
  <2> QED
    BY <1>1, <1>2, <2>1
<1> QED
  BY <1>3, <1>4, <1>5

LEMMA TicksFinite ==
  ASSUME SaturationAssumption, LogInv
  PROVE  /\ FullTicks \subseteq 1..now /\ IsFiniteSet(FullTicks) /\ now \in Nat
         /\ \A T : T \subseteq 1..now => IsFiniteSet(T)
<1>1. now \in Nat /\ now \in Int /\ 1 \in Int
  BY TimesArePast DEF LogInv
<1>2. IsFiniteSet(1..now)
  BY <1>1, FS_Interval
<1>3. FullTicks \subseteq 1..now
  BY DEF FullTicks, Span
<1> QED
  BY <1>1, <1>2, <1>3, FS_Subset

(* The time in the stretches is the number of full ticks.                  *)
LEMMA SaturatedExact ==
  ASSUME SaturationAssumption, LogInv
  PROVE  Saturated = Cardinality(FullTicks)
<1> DEFINE family == {{i} \X (1..Length(i)) : i \in Stretches}
           S == UNION family
           F == FullTicks
           h == [x \in S |-> From(x[1]) + x[2]]
<1>1. ASSUME NEW x \in S
      PROVE  x = <<x[1], x[2]>> /\ x[1] \in Stretches /\ x[2] \in 1..Length(x[1])
  <2>1. PICK i \in Stretches : x \in {i} \X (1..Length(i))
    BY <1>1
  <2> QED
    BY <2>1
<1>2. ASSUME NEW i \in Stretches, NEW n \in 1..Length(i)
      PROVE  <<i, n>> \in S
  <2> DEFINE box == {i} \X (1..Length(i))
  <2>1. box \in family /\ <<i, n>> \in box
    OBVIOUS
  <2> HIDE DEF family, box
  <2> QED
    BY <2>1
<1>3. \A x \in S : /\ h[x] = From(x[1]) + x[2] /\ h[x] \in F /\ h[x] \in Nat
                   /\ From(x[1]) < h[x] /\ h[x] <= Until(x[1])
  <2> SUFFICES ASSUME NEW x \in S
               PROVE  /\ h[x] = From(x[1]) + x[2] /\ h[x] \in F /\ h[x] \in Nat
                      /\ From(x[1]) < h[x] /\ h[x] <= Until(x[1])
    OBVIOUS
  <2> PICK i, n : i = x[1] /\ n = x[2]
    OBVIOUS
  <2>1. i \in Stretches /\ n \in 1..Length(i) /\ h[x] = From(i) + n
    BY <1>1
  <2> HIDE DEF S, h, F
  <2>2. /\ From(i) \in Nat /\ Until(i) \in Nat
        /\ Length(i) = Until(i) - From(i) /\ Length(i) \in Nat
    BY <2>1, StretchFacts
  <2>3. h[x] \in Nat /\ From(i) < h[x] /\ h[x] <= Until(i)
    BY <2>1, <2>2
  <2>4. h[x] \in F
    BY <2>1, <2>3, FullTick DEF F
  <2> QED
    BY <2>1, <2>3, <2>4
<1>4. ASSUME NEW x \in S, NEW y \in S, h[x] = h[y] PROVE x = y
  <2>1. /\ x = <<x[1], x[2]>> /\ x[1] \in Stretches /\ x[2] \in 1..Length(x[1])
        /\ y = <<y[1], y[2]>> /\ y[1] \in Stretches /\ y[2] \in 1..Length(y[1])
    BY <1>1
  <2> HIDE DEF S, h, F
  <2>2. x[1] = y[1]
    <3>1. /\ h[x] \in Nat /\ From(x[1]) < h[x] /\ h[x] <= Until(x[1])
          /\ From(y[1]) < h[x] /\ h[x] <= Until(y[1])
      BY <1>3, <1>4
    <3> QED
      BY <2>1, <3>1, StretchEdges
  <2>3. x[2] = y[2]
    <3>1. From(x[1]) \in Nat /\ x[2] \in Int /\ y[2] \in Int
      BY <2>1, StretchFacts
    <3>2. From(x[1]) + x[2] = From(x[1]) + y[2]
      BY <1>3, <1>4, <2>2
    <3> QED
      BY <3>1, <3>2
  <2> QED
    BY <2>1, <2>2, <2>3
<1>5. ASSUME NEW t \in F PROVE \E x \in S : h[x] = t
  <2>1. t \in Nat /\ \E i \in Stretches : From(i) < t /\ t <= Until(i)
    BY FullTick
  <2>2. PICK i \in Stretches : From(i) < t /\ t <= Until(i)
    BY <2>1
  <2>3. /\ From(i) \in Nat /\ Until(i) \in Nat
        /\ Length(i) = Until(i) - From(i)
    BY StretchFacts
  <2> PICK n : n = t - From(i)
    OBVIOUS
  <2>4. n \in 1..Length(i) /\ From(i) + n = t
    BY <2>1, <2>2, <2>3
  <2>5. <<i, n>> \in S
    BY <1>2, <2>4
  <2>6. h[<<i, n>>] = t
    BY <2>4, <2>5
  <2> QED
    BY <2>5, <2>6
<1>6. h \in Injection(S, F) /\ h \in Surjection(S, F)
  <2>1. h \in [S -> F]
    BY <1>3
  <2> QED
    BY <1>4, <1>5, <2>1 DEF Injection, IsInjective, Surjection
<1> HIDE DEF h, F, S
<1>7. IsFiniteSet(F)
  BY TicksFinite DEF F
<1>8. IsFiniteSet(S) /\ Cardinality(S) <= Cardinality(F)
  BY <1>6, <1>7, FS_Injection
<1>9. Cardinality(F) <= Cardinality(S)
  BY <1>6, <1>8, FS_Surjection
<1>10. Cardinality(F) \in Nat /\ Cardinality(S) \in Nat
  BY <1>7, <1>8, FS_CardinalityType
<1>11. Cardinality(S) = Cardinality(F)
  BY <1>8, <1>9, <1>10
<1> QED
  BY <1>11 DEF S, F, Saturated

(* The time there were readings is the number of ticks that are known.     *)
LEMMA ObservedExact ==
  ASSUME SaturationAssumption, LogInv
  PROVE  Observed = Cardinality({t \in Span : log[t] # Unknown})
<1> DEFINE Known == {t \in Span : log[t] # Unknown}
<1>1. /\ now \in Nat /\ Window \in Nat \ {0} /\ Len(transitions) \in Nat
      /\ Cutoff = now - Window
      /\ \A i \in 1..Len(transitions) : transitions[i].at \in Nat /\ transitions[i].at <= now
  BY TimesArePast DEF LogInv, Cutoff
<1>2. /\ started \in {None} \cup 0..now /\ (started = None <=> transitions = <<>>)
      /\ transitions # <<>> => /\ started <= transitions[1].at
                               /\ transitions[1].at = started \/ transitions[1].at <= Cutoff
  BY DEF LogInv, CoverInv, SaturationTypeOK, CoversWindow
<1>3. CASE transitions = <<>>
  <2>1. Known = {}
    BY <1>3 DEF LogInv, Told
  <2>2. Observed = 0
    BY <1>2, <1>3 DEF Observed
  <2> QED
    BY <2>1, <2>2, FS_EmptySet
<1>4. CASE transitions # <<>>
  <2> PICK first : first = transitions[1].at
    OBVIOUS
  <2>1. 1 \in 1..Len(transitions) /\ first \in Nat /\ first <= now
    <3>1. 1 \in 1..Len(transitions)
      BY <1>1, <1>4, TimesArePast DEF LogInv
    <3> QED
      BY <1>1, <3>1
  <2>2. /\ started \in 0..now /\ started <= first
        /\ first = started \/ first <= now - Window
        /\ Observed = Least(now - started, Window)
    <3>1. started \in 0..now /\ started # None
      BY <1>2, <1>4
    <3>2. started <= first /\ (first = started \/ first <= Cutoff)
      BY <1>2, <1>4
    <3> QED
      BY <1>1, <3>1, <3>2 DEF Observed
  <2>3. ASSUME NEW t \in 1..now, t > now - Window
        PROVE  log[t] # Unknown <=> first < t
    <3>1. t \in Span /\ Told(transitions, log, t)
      BY <1>1, <2>3 DEF Span, LogInv
    <3>2. CASE first < t
      <4>1. PICK i \in 1..Len(transitions) :
              /\ transitions[i].at < t
              /\ i < Len(transitions) => t <= transitions[i + 1].at
        BY <1>4, <2>3, <3>2, SomeInForce
      <4> QED
        BY <3>1, <3>2, <4>1 DEF Told, Unknown
    <3>3. CASE ~(first < t)
      <4>1. t <= first
        BY <2>1, <2>3, <3>3
      <4> QED
        BY <3>1, <3>3, <4>1 DEF Told
    <3> QED
      BY <3>2, <3>3
  <2> PICK begin : begin = IF first < now - Window THEN now - Window ELSE first
    OBVIOUS
  <2>4. begin \in Nat /\ begin <= now
    BY <1>1, <2>1
  <2>5. ASSUME NEW t PROVE t \in Known <=> t \in (begin + 1)..now
    <3>1. t \in Known <=> t \in 1..now /\ t > now - Window /\ log[t] # Unknown
      BY <1>1 DEF Span
    <3>2. t \in Known <=> t \in 1..now /\ t > now - Window /\ first < t
      BY <2>3, <3>1
    <3> HIDE DEF Known
    <3> QED
      BY <1>1, <2>1, <2>4, <3>2
  <2> HIDE DEF Known
  <2>6. Known = (begin + 1)..now
    BY <2>5
  <2>7. Cardinality((begin + 1)..now) = now - begin
    <3>1. begin + 1 \in Int /\ now \in Int
      BY <1>1, <2>4
    <3>2. Cardinality((begin + 1)..now) = IF begin + 1 > now THEN 0 ELSE now - (begin + 1) + 1
      BY <3>1, FS_Interval
    <3> QED
      BY <1>1, <2>4, <3>2
  <2>8. Observed = now - begin
    BY <1>1, <2>1, <2>2 DEF Least
  <2> QED
    BY <2>6, <2>7, <2>8 DEF Known
<1> QED
  BY <1>3, <1>4

(* The stretches that are not empty begin where full ticks begin; one that *)
(* is empty is in force, and has only just begun.                          *)
LEMMA EpisodesExact ==
  ASSUME SaturationAssumption, LogInv
  PROVE  Episodes = Cardinality({t \in FullTicks : t - 1 \notin FullTicks})
                          + (IF InForce = "full" /\ now \notin FullTicks THEN 1 ELSE 0)
<1> DEFINE Begins == {t \in FullTicks : t - 1 \notin FullTicks}
           Long == {i \in Stretches : From(i) < Until(i)}
           h == [i \in Long |-> From(i) + 1]
           last == Len(transitions)
<1>1. \A i \in Stretches :
        /\ i \in 1..last /\ transitions[i].saturated
        /\ From(i) \in Nat /\ Until(i) \in Nat
        /\ From(i) <= Until(i) /\ Until(i) <= now
        /\ i # last => From(i) < Until(i)
  BY StretchFacts
<1>2. now \in Nat /\ last \in Nat
  BY TimesArePast DEF LogInv
<1>3. ASSUME NEW i \in Long PROVE h[i] \in Begins
  <2>1. i \in Stretches /\ From(i) < Until(i) /\ h[i] = From(i) + 1
    OBVIOUS
  <2>2. From(i) \in Nat /\ Until(i) \in Nat /\ From(i) \notin FullTicks
    BY <1>1, <2>1, StretchEdges
  <2>3. From(i) + 1 \in Nat /\ From(i) < From(i) + 1 /\ From(i) + 1 <= Until(i)
        /\ (From(i) + 1) - 1 = From(i)
    BY <2>1, <2>2
  <2>4. From(i) + 1 \in FullTicks
    BY <2>1, <2>3, FullTick
  <2> QED
    BY <2>1, <2>2, <2>3, <2>4
<1>4. ASSUME NEW i \in Long, NEW j \in Long, h[i] = h[j] PROVE i = j
  <2>1. /\ i \in Stretches /\ From(i) < Until(i)
        /\ j \in Stretches /\ From(j) < Until(j)
        /\ From(i) + 1 = From(j) + 1
    BY <1>4
  <2>2. /\ From(i) \in Nat /\ Until(i) \in Nat
        /\ From(j) \in Nat /\ Until(j) \in Nat
    BY <1>1, <2>1
  <2> PICK t : t = From(i) + 1
    OBVIOUS
  <2>3. /\ t \in Nat /\ From(i) < t /\ t <= Until(i)
        /\ From(j) < t /\ t <= Until(j)
    BY <2>1, <2>2
  <2> HIDE DEF Long, h
  <2> QED
    BY <2>1, <2>3, StretchEdges
<1>5. ASSUME NEW t \in Begins PROVE \E i \in Long : h[i] = t
  <2>1. t \in FullTicks /\ t - 1 \notin FullTicks
    OBVIOUS
  <2>2. PICK i \in Stretches : From(i) < t /\ t <= Until(i)
    BY <2>1, FullTick
  <2>3. From(i) \in Nat /\ Until(i) \in Nat /\ t \in Nat
    BY <1>1, <2>1, FullTick
  <2>4. t = From(i) + 1
    <3> SUFFICES ASSUME t # From(i) + 1 PROVE FALSE
      OBVIOUS
    <3>1. t - 1 \in Nat /\ From(i) < t - 1 /\ t - 1 <= Until(i)
      BY <2>2, <2>3
    <3>2. t - 1 \in FullTicks
      BY <3>1, FullTick
    <3> QED
      BY <2>1, <3>2
  <2>5. i \in Long
    BY <2>2, <2>3
  <2> QED
    BY <2>4, <2>5
<1>6. h \in Injection(Long, Begins) /\ h \in Surjection(Long, Begins)
  <2>1. h \in [Long -> Begins]
    BY <1>3
  <2> QED
    BY <1>4, <1>5, <2>1 DEF Injection, IsInjective, Surjection
<1>7. IsFiniteSet(Begins)
  BY TicksFinite, FS_Subset
<1>8. InForce = "full" <=> last # 0 /\ transitions[last].saturated
  BY <1>2, TimesArePast DEF InForce, Unknown, LogInv
<1>9. /\ Stretches = Long \cup {i \in {last} : i \in Stretches \ Long}
      /\ last \in Stretches <=> InForce = "full"
  <2>1. last \in Stretches <=> last # 0 /\ transitions[last].saturated
    BY <1>2, TimesArePast DEF Stretches, LogInv
  <2> QED
    BY <1>1, <1>8, <2>1
<1>10. last \in Stretches \ Long <=> InForce = "full" /\ now \notin FullTicks
  <2>1. ASSUME last \in Stretches
        PROVE  last \in Long <=> now \in FullTicks
    <3>1. Until(last) = now
      BY <1>1, <2>1, StretchTimes
    <3>2. CASE From(last) < now
      <4>1. now \in FullTicks
        BY <1>2, <2>1, <3>1, <3>2, FullTick
      <4> QED
        BY <2>1, <3>1, <3>2, <4>1
    <3>3. CASE ~(From(last) < now)
      <4>1. From(last) = now
        BY <1>1, <1>2, <2>1, <3>1, <3>3
      <4>2. now \notin FullTicks
        BY <2>1, <4>1, StretchEdges
      <4> QED
        BY <3>1, <3>3, <4>2
    <3> QED
      BY <3>2, <3>3
  <2> QED
    BY <1>9, <2>1
<1> HIDE DEF h, Long, Begins, last
<1>11. IsFiniteSet(Long) /\ Cardinality(Long) <= Cardinality(Begins)
  BY <1>6, <1>7, FS_Injection
<1>12. Cardinality(Begins) <= Cardinality(Long)
  BY <1>6, <1>11, FS_Surjection
<1>13. /\ Cardinality(Begins) \in Nat /\ Cardinality(Long) \in Nat
       /\ Cardinality(Long) = Cardinality(Begins)
  <2>1. Cardinality(Begins) \in Nat /\ Cardinality(Long) \in Nat
    BY <1>7, <1>11, FS_CardinalityType
  <2> QED
    BY <1>11, <1>12, <2>1
<1>14. CASE last \in Stretches \ Long
  <2>1. Stretches = Long \cup {last} /\ last \notin Long
    BY <1>9, <1>14
  <2>2. Cardinality(Stretches) = Cardinality(Long) + 1
    BY <1>11, <2>1, FS_AddElement
  <2> QED
    BY <1>10, <1>13, <1>14, <2>2 DEF Begins, Episodes
<1>15. CASE last \notin Stretches \ Long
  <2>1. Stretches = Long
    BY <1>9, <1>15
  <2> QED
    BY <1>10, <1>13, <1>15, <2>1 DEF Begins, Episodes
<1> QED
  BY <1>14, <1>15

LEMMA MaxIs ==
  ASSUME NEW S \in SUBSET Int, NEW m \in S, \A y \in S : y <= m
  PROVE  Max(S) = m
<1> DEFINE Tops(x) == \A y \in S : x >= y
<1>1. m \in S /\ Tops(m)
  OBVIOUS
<1>2. \A x \in S : Tops(x) => x = m
  OBVIOUS
<1>3. Max(S) = CHOOSE x \in S : Tops(x)
  BY DEF Max
<1> HIDE DEF Tops
<1> QED
  BY <1>1, <1>2, <1>3

(* A run of full ticks stays inside the stretch it begins in.              *)
LEMMA RunsInStretches ==
  ASSUME SaturationAssumption, LogInv,
         NEW x \in Nat, NEW y \in Nat, x <= y, x..y \subseteq FullTicks
  PROVE  \E i \in Stretches : From(i) < x /\ y <= Until(i)
<1>1. x \in FullTicks
  OBVIOUS
<1>2. PICK i \in Stretches : From(i) < x /\ x <= Until(i)
  BY <1>1, FullTick
<1>3. Until(i) \in Nat /\ Until(i) + 1 \notin FullTicks
  BY StretchFacts, StretchEdges
<1>4. y <= Until(i)
  <2> SUFFICES ASSUME ~(y <= Until(i)) PROVE FALSE
    OBVIOUS
  <2>1. Until(i) + 1 \in x..y
    BY <1>2, <1>3
  <2> QED
    BY <1>3, <2>1
<1> QED
  BY <1>2, <1>4

(* The longest stretch is the longest run of full ticks.                   *)
LEMMA LongestExact ==
  ASSUME SaturationAssumption, LogInv
  PROVE  Longest = IF Runs = {} THEN 0 ELSE Max(Runs)
<1> DEFINE Pairs == {y \in FullTicks \X FullTicks :
                       y[1] <= y[2] /\ y[1]..y[2] \subseteq FullTicks}
           Lengths == {Length(i) : i \in Stretches}
           Slack == {k \in Nat : \E i \in Stretches : k = now - Length(i)}
<1>1. \A i \in Stretches :
        /\ From(i) \in Nat /\ Until(i) \in Nat /\ now \in Nat
        /\ From(i) <= Until(i) /\ Until(i) <= now
        /\ Length(i) = Until(i) - From(i) /\ Length(i) \in Nat
  BY StretchFacts, TimesArePast DEF LogInv
<1>2. Lengths \in SUBSET Nat /\ Lengths \in SUBSET Int
  BY <1>1
<1>3. \A t \in FullTicks : t \in Nat
  BY FullTick
<1>4. ASSUME NEW r \in Runs
      PROVE  r \in Int /\ \E i \in Stretches : r <= Length(i)
  <2>1. PICK y \in Pairs : r = y[2] - y[1] + 1
    BY <1>4 DEF Runs
  <2> PICK from, to : from = y[1] /\ to = y[2]
    OBVIOUS
  <2>2. /\ from \in Nat /\ to \in Nat /\ from <= to /\ from..to \subseteq FullTicks
        /\ r = to - from + 1
    BY <1>3, <2>1
  <2>3. PICK i \in Stretches : From(i) < from /\ to <= Until(i)
    BY <2>2, RunsInStretches
  <2>4. r \in Int /\ r <= Length(i)
    BY <1>1, <2>2, <2>3
  <2> QED
    BY <2>4
<1>5. ASSUME NEW i \in Stretches, Length(i) > 0 PROVE Length(i) \in Runs
  <2> PICK from, to : from = From(i) + 1 /\ to = Until(i)
    OBVIOUS
  <2>1. /\ from \in Nat /\ to \in Nat /\ from <= to /\ to - from + 1 = Length(i)
        /\ \A t \in from..to : t \in Nat /\ From(i) < t /\ t <= Until(i)
    BY <1>1, <1>5
  <2>2. from..to \subseteq FullTicks
    BY <2>1, FullTick
  <2>3. from \in FullTicks /\ to \in FullTicks
    BY <2>1, <2>2
  <2> PICK y : y = <<from, to>>
    OBVIOUS
  <2>4. y \in Pairs /\ y[2] - y[1] + 1 = Length(i)
    BY <2>1, <2>2, <2>3
  <2> HIDE DEF Pairs
  <2>5. Runs = {x[2] - x[1] + 1 : x \in Pairs}
    BY DEF Runs, Pairs
  <2> QED
    BY <2>4, <2>5
<1>6. CASE Stretches = {}
  <2>1. Runs = {}
    BY <1>4, <1>6
  <2> QED
    BY <1>6, <2>1 DEF Longest
<1>7. CASE Stretches # {}
  <2>1. PICK i \in Stretches : \A j \in Stretches : Length(j) <= Length(i)
    <3>1. Slack \subseteq Nat /\ Slack # {}
      <4>1. PICK j \in Stretches : TRUE
        BY <1>7
      <4>2. now - Length(j) \in Nat
        BY <1>1
      <4> QED
        BY <4>2
    <3>2. PICK m \in Slack : \A k \in Slack : m <= k
      <4> HIDE DEF Slack
      <4> QED
        BY <3>1, LeastNat
    <3>3. PICK i \in Stretches : m = now - Length(i)
      BY <3>2
    <3>4. ASSUME NEW j \in Stretches PROVE Length(j) <= Length(i)
      <4>1. now - Length(j) \in Nat
        BY <1>1
      <4>2. now - Length(j) \in Slack
        BY <4>1
      <4>3. m <= now - Length(j)
        BY <3>2, <4>2
      <4> QED
        BY <1>1, <3>3, <4>3
    <3> QED
      BY <3>4
  <2>2. Length(i) \in Nat /\ Length(i) \in Lengths /\ \A y \in Lengths : y <= Length(i)
    BY <1>1, <2>1
  <2>3. Longest = Length(i)
    <3>1. Longest = Max(Lengths)
      BY <1>7 DEF Longest
    <3> HIDE DEF Lengths
    <3> QED
      BY <1>2, <2>2, <3>1, MaxIs
  <2>4. \A r \in Runs : r \in Int /\ r <= Length(i)
    <3> SUFFICES ASSUME NEW r \in Runs PROVE r \in Int /\ r <= Length(i)
      OBVIOUS
    <3>1. PICK j \in Stretches : r <= Length(j)
      BY <1>4
    <3>2. r \in Int /\ Length(j) \in Nat /\ Length(j) <= Length(i)
      BY <1>1, <1>4, <2>1
    <3> QED
      BY <2>2, <3>1, <3>2
  <2>5. CASE Length(i) > 0
    <3>1. Length(i) \in Runs
      BY <1>5, <2>5
    <3>2. Runs \in SUBSET Int
      BY <2>4
    <3>3. Max(Runs) = Length(i)
      BY <2>4, <3>1, <3>2, MaxIs
    <3> QED
      BY <2>3, <3>1, <3>3
  <2>6. CASE ~(Length(i) > 0)
    <3>1. Length(i) = 0
      BY <2>2, <2>6
    <3>2. Runs = {}
      <4> SUFFICES ASSUME NEW r \in Runs PROVE FALSE
        OBVIOUS
      <4>1. PICK y \in Pairs : r = y[2] - y[1] + 1
        BY DEF Runs
      <4>2. y[1] \in Nat /\ y[2] \in Nat /\ y[1] <= y[2]
        BY <1>3, <4>1
      <4>3. r >= 1
        BY <4>1, <4>2
      <4> QED
        BY <2>4, <3>1, <4>3
    <3> QED
      BY <2>3, <3>1, <3>2
  <2> QED
    BY <2>5, <2>6
<1> QED
  BY <1>6, <1>7

(* What the sensor shows is what a log of every tick would show: observed  *)
(* and saturated time, the longest stretch and the number of episodes.     *)
THEOREM ReadingsOfTheLog == SaturationSpec => []ReadingsAreExact
<1>1. LogInv => ReadingsAreExact
  BY SaturationAssumption, ObservedExact, SaturatedExact, LongestExact, EpisodesExact
  DEF ReadingsAreExact
<1> QED
  BY <1>1, LogAlways, PTL
=============================================================================
