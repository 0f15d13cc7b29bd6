------------------------- MODULE StormSignal_proofs -------------------------
(***************************************************************************)
(* What is inferred, and what is booked, for any devices, proxies,         *)
(* thresholds and bounds.                                                  *)
(*                                                                         *)
(* Inferences: an account per address, where every judgement still to      *)
(* come, a pending release or a remembered slot, is paid for by a          *)
(* connection that ended on a proxy that does not count, by a slot read    *)
(* blind, or by a slot that is still held on a proxy that does not count.  *)
(*                                                                         *)
(* Bookings: a second account, where every pairing that a proxy counted as *)
(* failed is booked as measured or still due from a counter, never both.   *)
(*                                                                         *)
(* The cap: a batch that was cut reaches either threshold by itself, so    *)
(* the two windows differ only where both are past it.                     *)
(***************************************************************************)
EXTENDS StormSignal, FiniteSetTheorems, TLAPS

Plain(a) == \E p \in Proxies \ Counting : a \in held[p]

Account(a) ==
  /\ inferred[a] + One(a \in pending) <= unmeasured[a] + blind[a]
  /\ a \in previous => inferred[a] + 1 <= unmeasured[a] + blind[a] + One(Plain(a))

StormInv ==
  /\ TypeOK
  /\ previous \cap pending = {}
  /\ \A a \in Addresses : Account(a)

-----------------------------------------------------------------------------
(* What a snapshot books is a number for every address and source.         *)
LEMMA BookingsTyped ==
  ASSUME StormAssumption, TypeOK, NEW read \in SUBSET Counting, NEW lost \in SUBSET Addresses
  PROVE  /\ Bookings(read, lost) \in Batches
         /\ Replayed(Bookings(read, lost)) \in Batches
         /\ \A a \in Addresses : Inferences(lost)[a] \in Nat
<1>1. \A p \in Proxies, a \in Addresses : counts[p][a] \in Nat /\ baseline[p][a] \in Int
  BY DEF TypeOK, StormAssumption, None
<1>2. \A p \in Proxies, a \in Addresses : NewEvents(p, a) \in Nat
  BY <1>1 DEF NewEvents
<1>3. \A a \in Addresses : Inferences(lost)[a] \in Nat
  BY DEF Inferences, One
<1>4. ASSUME NEW a \in Addresses, NEW s \in Sources
      PROVE  Bookings(read, lost)[a][s] \in Nat
  <2>1. CASE s = Inferred
    BY <1>3, <1>4, <2>1 DEF Bookings
  <2>2. CASE s # Inferred
    <3>1. s \in Proxies
      BY <1>4, <2>2 DEF Sources
    <3> QED
      BY <1>2, <1>4, <2>2, <3>1 DEF Bookings
  <2> QED
    BY <2>1, <2>2
<1>5. Bookings(read, lost) \in Batches
  BY <1>4 DEF Bookings, Batches
<1>6. Cap \in Nat
  BY DEF Cap, StormAssumption
<1>7. \A n \in Nat : Capped(n) \in Nat
  BY <1>6 DEF Capped
<1>8. Replayed(Bookings(read, lost)) \in Batches
  BY <1>4, <1>7 DEF Replayed, Batches
<1> QED
  BY <1>3, <1>5, <1>8

LEMMA TypeInit == ASSUME StormAssumption, Init PROVE TypeOK
<1>1. None \in {None} \cup 1..MaxCount /\ 0 \in 0..MaxCount /\ 0 \in 0..MaxBlind /\ 0 \in 0..MaxRefused
  BY DEF StormAssumption
<1> QED
  BY <1>1 DEF Init, TypeOK, Zero, Unarmed, Batches

(* Connections that end leave slots that are slots and counts that count.  *)
LEMMA EndingTyped ==
  ASSUME TypeOK, NEW p \in Proxies, NEW lost \in SUBSET Addresses, Ending(p, lost)
  PROVE  held' \in [Proxies -> SUBSET Addresses] /\ unmeasured' \in [Addresses -> Nat]
<1>1. held' \in [Proxies -> SUBSET Addresses]
  BY DEF Ending, TypeOK
<1>2. unmeasured' \in [Addresses -> Nat]
  BY DEF Ending, TypeOK
<1> QED
  BY <1>1, <1>2

LEMMA TypeWorld ==
  ASSUME StormAssumption, TypeOK, NEW p \in Proxies, NEW a \in Addresses,
         Connect(p, a) \/ Refuse(p, a) \/ Drop(p, a) \/ Settle(a)
  PROVE  TypeOK'
<1>1. CASE Connect(p, a)
  BY <1>1 DEF Connect, TypeOK, tracker, books, history
<1>2. CASE Refuse(p, a)
  <2>1. counts[p][a] + 1 \in 0..MaxCount
    BY <1>2 DEF Refuse, TypeOK, StormAssumption
  <2>2. [counts[p] EXCEPT ![a] = @ + 1] \in [Addresses -> 0..MaxCount]
    BY <2>1 DEF TypeOK
  <2>3. counts' \in [Proxies -> [Addresses -> 0..MaxCount]]
    BY <1>2, <2>2 DEF Refuse, TypeOK
  <2>4. refused' \in [Addresses -> 0..MaxRefused]
    <3>1. refused[a] + 1 \in 0..MaxRefused
      BY <1>2 DEF Refuse, TypeOK, StormAssumption
    <3> QED
      BY <1>2, <3>1 DEF Refuse, TypeOK
  <2> QED
    BY <1>2, <2>3, <2>4 DEF Refuse, TypeOK, tracker, books
<1>3. CASE Drop(p, a)
  <2>1. held' \in [Proxies -> SUBSET Addresses] /\ unmeasured' \in [Addresses -> Nat]
    BY <1>3, EndingTyped DEF Drop
  <2> QED
    BY <1>3, <2>1 DEF Drop, TypeOK, tracker, books
<1>4. CASE Settle(a)
  BY <1>4 DEF Settle, TypeOK, tracker, books, history
<1> QED
  BY <1>1, <1>2, <1>3, <1>4

LEMMA TypeReboot ==
  ASSUME StormAssumption, TypeOK, NEW p \in Proxies, Reboot(p)
  PROVE  TypeOK'
<1>1. Zero \in [Addresses -> 0..MaxCount]
  BY DEF Zero, StormAssumption
<1>2. counts' \in [Proxies -> [Addresses -> 0..MaxCount]]
  BY <1>1 DEF Reboot, TypeOK
<1>3. held' \in [Proxies -> SUBSET Addresses] /\ unmeasured' \in [Addresses -> Nat]
  BY EndingTyped DEF Reboot
<1> QED
  BY <1>2, <1>3 DEF Reboot, TypeOK, tracker, books

LEMMA TypeTake ==
  ASSUME StormAssumption, TypeOK, NEW read \in SUBSET Counting, NEW lost \in SUBSET Addresses,
         Take(read, lost)
  PROVE  TypeOK'
<1>1. previous' \in SUBSET Addresses /\ pending' \in SUBSET Addresses
  BY DEF Take, Remembered, Undecided, Released, Allocated, TypeOK
<1>2. baseline' \in [Proxies -> [Addresses -> {None} \cup 1..MaxCount]]
  <2>1. ASSUME NEW p \in Proxies, NEW a \in Addresses
        PROVE  (IF p \in read /\ counts[p][a] > 0 THEN counts[p][a] ELSE baseline[p][a])
                 \in {None} \cup 1..MaxCount
    BY <2>1 DEF TypeOK, StormAssumption
  <2> QED
    BY <2>1 DEF Take, Rearmed
<1>3. window' \in Seq(Batches) /\ uncapped' \in Seq(Batches) /\ Len(window') = Len(uncapped')
  <2>1. window \in Seq(Batches) /\ uncapped \in Seq(Batches)
    BY DEF TypeOK
  <2>2. Book(Bookings(read, lost))
    BY DEF Take
  <2> PICK b : b = Bookings(read, lost)
    OBVIOUS
  <2>3. b \in Batches /\ Replayed(b) \in Batches
    BY BookingsTyped
  <2>4. Book(b)
    BY <2>2, <2>3
  <2>5. Len(window) = Len(uncapped)
    BY DEF TypeOK
  <2> PICK r : r = Replayed(b)
    OBVIOUS
  <2>6. \/ window' = Append(window, r) /\ uncapped' = Append(uncapped, b)
        \/ window' = window /\ uncapped' = uncapped
    BY <2>4 DEF Book, books
  <2>7. r \in Batches /\ b \in Batches
    BY <2>3
  <2>8. CASE window' = Append(window, r) /\ uncapped' = Append(uncapped, b)
    BY <2>1, <2>5, <2>7, <2>8
  <2>9. CASE window' = window /\ uncapped' = uncapped
    BY <2>1, <2>5, <2>9
  <2> QED
    BY <2>6, <2>8, <2>9
<1>4. inferred' \in [Addresses -> Nat]
  <2>1. ASSUME NEW a \in Addresses PROVE inferred[a] + Inferences(lost)[a] \in Nat
    <3>1. inferred[a] \in Nat /\ Inferences(lost)[a] \in Nat
      BY BookingsTyped DEF TypeOK
    <3> QED
      BY <3>1
  <2> QED
    BY <2>1 DEF Take
<1>5. blind' \in [Addresses -> 0..MaxBlind]
  <2>1. \A a \in Addresses : blind[a] + One(a \in Mistaken(read)) \in 0..MaxBlind
    BY DEF Take, One, TypeOK, StormAssumption
  <2> QED
    BY <2>1 DEF Take
<1>6. UNCHANGED <<held, counts, dead, refused, unmeasured>>
  BY DEF Take, radio
<1> QED
  BY <1>1, <1>2, <1>3, <1>4, <1>5, <1>6 DEF TypeOK

LEMMA TypeStep ==
  ASSUME StormAssumption, TypeOK, [Next]_vars
  PROVE  TypeOK'
<1>1. ASSUME NEW p \in Proxies, Reboot(p) PROVE TypeOK'
  BY <1>1, TypeReboot
<1>2. ASSUME NEW p \in Proxies, NEW a \in Addresses, Connect(p, a) \/ Refuse(p, a) \/ Drop(p, a)
      PROVE  TypeOK'
  BY <1>2, TypeWorld
<1>3. ASSUME NEW a \in Addresses, Settle(a) PROVE TypeOK'
  BY <1>3 DEF Settle, TypeOK, tracker, books, history
<1>4. CASE Snapshot
  <2>1. dead \in SUBSET Addresses
    BY DEF TypeOK
  <2> QED
    BY <1>4, <2>1, TypeTake DEF Snapshot
<1>5. CASE DegradedSnapshot
  <2>1. {} \in SUBSET Addresses
    OBVIOUS
  <2> QED
    BY <1>5, <2>1, TypeTake DEF DegradedSnapshot
<1>6. CASE Expire
  <2>1. window \in Seq(Batches) /\ uncapped \in Seq(Batches) /\ Len(uncapped) = Len(window)
    BY DEF TypeOK
  <2>2. /\ window' \in Seq(Batches) /\ uncapped' \in Seq(Batches)
        /\ Len(uncapped') = Len(window')
    BY <1>6, <2>1 DEF Expire
  <2> QED
    BY <1>6, <2>2 DEF Expire, TypeOK, radio, tracker, history
<1>7. CASE Reload
  <2>1. /\ Zero \in [Addresses -> Nat] /\ Zero \in [Addresses -> 0..MaxBlind]
        /\ Zero \in [Addresses -> 0..MaxRefused]
    BY DEF Zero, StormAssumption
  <2>2. Unarmed \in [Proxies -> [Addresses -> {None} \cup 1..MaxCount]]
    BY DEF Unarmed
  <2> QED
    BY <1>7, <2>1, <2>2 DEF Reload, TypeOK, radio
<1>8. CASE UNCHANGED vars
  BY <1>8 DEF vars, radio, tracker, books, history, TypeOK
<1> QED
  BY <1>1, <1>2, <1>3, <1>4, <1>5, <1>6, <1>7, <1>8 DEF Next

(* Types, for any devices, proxies, thresholds and bounds.                 *)
THEOREM TypeCorrect == Spec => []TypeOK
<1>1. Init => TypeOK
  BY StormAssumption, TypeInit
<1>2. TypeOK /\ [Next]_vars => TypeOK'
  BY StormAssumption, TypeStep
<1> QED
  BY <1>1, <1>2, PTL DEF Spec

-----------------------------------------------------------------------------
(* The tracker's two sets have nothing in common: no release is judged by  *)
(* both of its loops.                                                      *)
LEMMA Apart ==
  ASSUME NEW read \in SUBSET Counting, NEW lost \in SUBSET Addresses, Take(read, lost)
  PROVE  previous' \cap pending' = {}
  BY DEF Take, Remembered, Undecided, Released

(* The accounts after a snapshot.                                          *)
LEMMA AccountTake ==
  ASSUME StormInv, NEW read \in SUBSET Counting, NEW lost \in SUBSET Addresses,
         Take(read, lost), StormAssumption, NEW a \in Addresses
  PROVE  Account(a)'
<1>1. /\ inferred[a] \in Nat /\ unmeasured[a] \in Nat /\ blind[a] \in Nat
      /\ Account(a) /\ previous \cap pending = {}
  BY DEF StormInv, TypeOK, StormAssumption
<1>2. /\ inferred'[a] = inferred[a] + One(a \in (pending \ Allocated) \cap lost)
                         + One(a \in Released \cap lost)
      /\ blind'[a] = blind[a] + One(a \in Mistaken(read))
      /\ unmeasured'[a] = unmeasured[a] /\ held' = held
  <2>1. Inferences(lost)[a] \in Nat
    BY BookingsTyped DEF StormInv
  <2> QED
    BY <1>1, <2>1 DEF Take, Inferences, One, radio
<1>3. Plain(a)' <=> Plain(a)
  BY <1>2 DEF Plain
<1>4. (a \in pending' <=> a \in Released \ lost) /\ (a \in previous' <=> a \in Remembered(read))
  BY DEF Take, Undecided
<1>5. CASE a \in Allocated
  <2>1. a \notin Released /\ a \notin pending \ Allocated
    BY <1>5 DEF Released
  <2>2. inferred'[a] = inferred[a] /\ ~(a \in pending')
    BY <1>1, <1>2, <1>4, <2>1 DEF One
  <2>3. inferred'[a] <= unmeasured'[a] + blind'[a]
    BY <1>1, <1>2, <2>2 DEF Account, One
  <2>4. ASSUME a \in previous'
        PROVE  inferred'[a] + 1 <= unmeasured'[a] + blind'[a] + One(Plain(a)')
    <3>1. a \notin Measured(read)
      BY <1>4, <2>4 DEF Remembered
    <3>2. CASE a \in previous
      BY <1>1, <1>2, <1>3, <2>2, <3>2 DEF Account, One
    <3>3. CASE a \notin previous /\ Plain(a)
      BY <1>1, <1>2, <1>3, <2>2, <3>3 DEF Account, One
    <3>4. CASE a \notin previous /\ ~Plain(a)
      <4>1. Holders(a) \subseteq Counting
        BY <3>4 DEF Plain, Holders
      <4>2. a \in Mistaken(read)
        BY <1>5, <3>1, <3>4, <4>1 DEF Mistaken
      <4> QED
        BY <1>1, <1>2, <2>2, <4>2 DEF Account, One
    <3> QED
      BY <3>2, <3>3, <3>4
  <2> QED
    BY <1>1, <1>2, <2>2, <2>3, <2>4 DEF Account, One
<1>6. CASE a \notin Allocated
  <2>1. ~Plain(a) /\ a \notin Mistaken(read) /\ a \notin previous'
    BY <1>4, <1>6 DEF Plain, Allocated, Mistaken, Remembered
  <2>2. a \in Released <=> a \in previous
    BY <1>6 DEF Released
  <2>3. CASE a \in previous
    <3>1. inferred[a] + 1 <= unmeasured[a] + blind[a]
      BY <1>1, <2>1, <2>3 DEF Account, One
    <3>2. a \notin pending
      BY <1>1, <2>3
    <3>3. inferred'[a] + One(a \in pending') <= inferred[a] + 1
      BY <1>1, <1>2, <1>4, <3>2 DEF One
    <3>4. inferred'[a] \in Nat /\ One(a \in pending') \in Nat
      BY <1>1, <1>2 DEF One
    <3> QED
      BY <1>1, <1>2, <2>1, <3>1, <3>3, <3>4 DEF Account, One
  <2>4. CASE a \notin previous
    <3>1. ~(a \in pending') /\ inferred'[a] <= inferred[a] + One(a \in pending)
      BY <1>1, <1>2, <1>4, <2>2, <2>4 DEF One
    <3>2. inferred'[a] \in Nat
      BY <1>1, <1>2 DEF One
    <3> QED
      BY <1>1, <1>2, <2>1, <3>1, <3>2 DEF Account, One
  <2> QED
    BY <2>3, <2>4
<1> QED
  BY <1>5, <1>6

(* A connection that ends on a proxy that does not count pays for what the *)
(* tracker still remembers of it.                                          *)
LEMMA AccountWorld ==
  ASSUME StormInv, StormAssumption, NEW a \in Addresses,
         UNCHANGED <<previous, pending, inferred, blind>>,
         unmeasured' \in [Addresses -> Nat],
         unmeasured'[a] >= unmeasured[a] + One(Plain(a) /\ ~Plain(a)')
  PROVE  Account(a)'
<1>1. /\ inferred[a] \in Nat /\ unmeasured[a] \in Nat /\ blind[a] \in Nat
      /\ unmeasured'[a] \in Nat /\ Account(a)
  BY DEF StormInv, TypeOK, StormAssumption
<1> QED
  BY <1>1 DEF Account, One

LEMMA StormStep ==
  ASSUME StormAssumption, StormInv, [Next]_vars
  PROVE  StormInv'
<1>1. TypeOK'
  BY TypeStep DEF StormInv
<1>2. ASSUME UNCHANGED <<previous, pending, inferred, blind>>,
             \A a \in Addresses : unmeasured'[a] >= unmeasured[a] + One(Plain(a) /\ ~Plain(a)')
      PROVE  StormInv'
  BY <1>1, <1>2, AccountWorld DEF StormInv, TypeOK
<1>3. \A a \in Addresses : unmeasured[a] \in Nat
  BY DEF StormInv, TypeOK
<1>4. ASSUME NEW p \in Proxies, NEW a \in Addresses, Connect(p, a) PROVE StormInv'
  <2>1. \A b \in Addresses : Plain(b) => Plain(b)'
    BY <1>4 DEF Connect, Plain, StormInv, TypeOK
  <2> QED
    BY <1>2, <1>3, <1>4, <2>1 DEF Connect, One, tracker, history
<1>5. ASSUME NEW p \in Proxies, NEW a \in Addresses, Refuse(p, a) PROVE StormInv'
  <2>1. \A b \in Addresses : Plain(b) => Plain(b)'
    BY <1>5 DEF Refuse, Plain
  <2> QED
    BY <1>2, <1>3, <1>5, <2>1 DEF Refuse, One, tracker
<1>6. ASSUME NEW p \in Proxies, NEW lost \in SUBSET Addresses, Ending(p, lost)
      PROVE  \A b \in Addresses : unmeasured'[b] >= unmeasured[b] + One(Plain(b) /\ ~Plain(b)')
  <2> SUFFICES ASSUME NEW b \in Addresses
               PROVE  unmeasured'[b] >= unmeasured[b] + One(Plain(b) /\ ~Plain(b)')
    OBVIOUS
  <2>1. Plain(b) /\ ~Plain(b)' => p \notin Counting /\ b \in held[p] \cap lost
    BY <1>6 DEF Ending, Plain, StormInv, TypeOK
  <2>2. unmeasured'[b] = IF p \notin Counting /\ b \in held[p] \cap lost
                         THEN unmeasured[b] + 1 ELSE unmeasured[b]
    BY <1>6 DEF Ending
  <2> QED
    BY <1>3, <2>1, <2>2 DEF One
<1>7. ASSUME NEW p \in Proxies, Reboot(p) \/ \E a \in Addresses : Drop(p, a) PROVE StormInv'
  <2>1. PICK lost \in SUBSET Addresses : Ending(p, lost)
    BY <1>7 DEF Reboot, Drop
  <2> QED
    BY <1>2, <1>6, <1>7, <2>1 DEF Reboot, Drop, tracker
<1>8. ASSUME NEW a \in Addresses, Settle(a) PROVE StormInv'
  BY <1>2, <1>3, <1>8 DEF Settle, Plain, One, tracker, history
<1>9. ASSUME NEW read \in SUBSET Counting, NEW lost \in SUBSET Addresses, Take(read, lost)
       PROVE  StormInv'
  <2>1. \A a \in Addresses : Account(a)'
    BY <1>9, AccountTake
  <2>2. (previous \cap pending = {})'
    BY <1>9, Apart
  <2> QED
    BY <1>1, <2>1, <2>2 DEF StormInv
<1>10. CASE Snapshot
  <2>1. dead \in SUBSET Addresses
    BY DEF StormInv, TypeOK
  <2> QED
    BY <1>10, <2>1, <1>9 DEF Snapshot
<1>11. CASE DegradedSnapshot
  <2>1. {} \in SUBSET Addresses
    OBVIOUS
  <2> QED
    BY <1>11, <2>1, <1>9 DEF DegradedSnapshot
<1>12. CASE Expire \/ UNCHANGED vars
  BY <1>2, <1>3, <1>12 DEF Expire, Plain, One, vars, radio, tracker, books, history
<1>13. CASE Reload
  BY <1>1, <1>13 DEF Reload, StormInv, Account, One, Zero
<1> QED
  BY <1>4, <1>5, <1>7, <1>8, <1>10, <1>11, <1>12, <1>13 DEF Next

(* No failure is inferred from a connection to a proxy that counts, apart  *)
(* from one slot for every time a counting proxy could not be read.        *)
THEOREM InferenceIsSound == Spec => []InferredIsUnmeasured
<1>1. Init => StormInv
  BY StormAssumption, TypeInit DEF StormInv, Init, Account, One, Zero
<1>2. StormInv /\ [Next]_vars => StormInv'
  BY StormAssumption, StormStep
<1>3. StormInv => InferredIsUnmeasured
  <2> SUFFICES ASSUME StormInv, NEW a \in Addresses
               PROVE  inferred[a] <= unmeasured[a] + blind[a]
    BY DEF InferredIsUnmeasured
  <2>1. inferred[a] \in Nat /\ unmeasured[a] \in Nat /\ blind[a] \in Nat
    BY StormAssumption DEF StormInv, TypeOK
  <2>2. inferred[a] + One(a \in pending) <= unmeasured[a] + blind[a]
    BY DEF StormInv, Account
  <2> QED
    BY <2>1, <2>2 DEF One
<1> QED
  BY <1>1, <1>2, <1>3, PTL DEF Spec

-----------------------------------------------------------------------------
(* Counting the failures of a window.                                      *)

(* Finitely many numbers have a finite sum.                                *)
Boxes(f) == UNION {{x} \X (1..f[x]) : x \in DOMAIN f}

Weight(f) == Cardinality(Boxes(f))

LEMMA BoxesFinite ==
  ASSUME NEW K, IsFiniteSet(K), NEW f \in [K -> Nat]
  PROVE  /\ IsFiniteSet(UNION {{x} \X (1..f[x]) : x \in K})
         /\ IsFiniteSet(Boxes(f)) /\ Weight(f) \in Nat
<1> DEFINE g == [x \in K |-> {x} \X (1..f[x])]
           boxes == {{x} \X (1..f[x]) : x \in K}
<1>1. ASSUME NEW x \in K PROVE IsFiniteSet({x} \X (1..f[x]))
  <2>1. 1 \in Int /\ f[x] \in Int
    OBVIOUS
  <2>2. IsFiniteSet(1..f[x]) /\ IsFiniteSet({x})
    BY <2>1, FS_Interval, FS_Singleton
  <2> QED
    BY <2>2, FS_Product
<1>2. g \in Surjection(K, boxes)
  BY DEF Surjection
<1>3. IsFiniteSet(boxes)
  <2> HIDE DEF g, boxes
  <2> QED
    BY <1>2, FS_Surjection
<1>4. \A T \in boxes : IsFiniteSet(T)
  BY <1>1
<1> HIDE DEF boxes
<1>5. IsFiniteSet(UNION boxes)
  BY <1>3, <1>4, FS_UNION
<1>6. Boxes(f) = UNION boxes
  BY DEF boxes, Boxes
<1> QED
  BY <1>5, <1>6, FS_CardinalityType DEF boxes, Weight

LEMMA BoxParts ==
  ASSUME NEW K, NEW f \in [K -> Nat], NEW x
  PROVE  x \in Boxes(f) <=> /\ x = <<x[1], x[2]>> /\ x[1] \in K /\ x[2] \in 1..f[x[1]]
<1> DEFINE boxes == {{y} \X (1..f[y]) : y \in K}
<1>1. Boxes(f) = UNION boxes
  BY DEF Boxes
<1>2. ASSUME x \in UNION boxes
      PROVE  /\ x = <<x[1], x[2]>> /\ x[1] \in K /\ x[2] \in 1..f[x[1]]
  <2>1. PICK y \in K : x \in {y} \X (1..f[y])
    BY <1>2
  <2> QED
    BY <2>1
<1>3. ASSUME x = <<x[1], x[2]>>, x[1] \in K, x[2] \in 1..f[x[1]]
      PROVE  x \in UNION boxes
  <2> DEFINE box == {x[1]} \X (1..f[x[1]])
  <2>1. box \in boxes /\ x \in box
    BY <1>3
  <2> HIDE DEF boxes, box
  <2> QED
    BY <2>1
<1> HIDE DEF boxes
<1> QED
  BY <1>1, <1>2, <1>3

(* One more in one place is one more in all, ...                           *)
LEMMA WeightGrows ==
  ASSUME NEW K, IsFiniteSet(K), NEW f \in [K -> Nat], NEW g \in [K -> Nat], NEW q \in K,
         \A x \in K : g[x] <= f[x] + One(x = q)
  PROVE  Weight(g) <= Weight(f) + 1
<1> DEFINE last == <<q, f[q] + 1>>
<1>1. ASSUME NEW x \in Boxes(g) PROVE x \in Boxes(f) \cup {last}
  <2>1. x = <<x[1], x[2]>> /\ x[1] \in K /\ x[2] \in 1..g[x[1]]
    BY <1>1, BoxParts
  <2>2. g[x[1]] \in Nat /\ f[x[1]] \in Nat /\ g[x[1]] <= f[x[1]] + One(x[1] = q)
    BY <2>1
  <2>3. CASE x[2] <= f[x[1]]
    BY <2>1, <2>2, <2>3, BoxParts
  <2>4. CASE ~(x[2] <= f[x[1]])
    <3>1. x[1] = q /\ x[2] = f[q] + 1
      BY <2>1, <2>2, <2>4 DEF One
    <3> QED
      BY <2>1, <3>1
  <2> QED
    BY <2>3, <2>4
<1> HIDE DEF last
<1>2. IsFiniteSet(Boxes(f)) /\ Weight(f) \in Nat /\ Weight(g) \in Nat
  BY BoxesFinite
<1>3. /\ IsFiniteSet(Boxes(f) \cup {last})
      /\ Cardinality(Boxes(f) \cup {last}) <= Cardinality(Boxes(f)) + 1
  <2>1. Cardinality(Boxes(f)) \in Nat
    BY <1>2 DEF Weight
  <2>2. /\ IsFiniteSet(Boxes(f) \cup {last})
        /\ Cardinality(Boxes(f) \cup {last})
             = IF last \in Boxes(f) THEN Cardinality(Boxes(f)) ELSE Cardinality(Boxes(f)) + 1
    BY <1>2, FS_AddElement
  <2> QED
    BY <2>1, <2>2
<1>4. Cardinality(Boxes(g)) <= Cardinality(Boxes(f) \cup {last})
  BY <1>1, <1>3, FS_Subset
<1>5. Cardinality(Boxes(f) \cup {last}) \in Nat
  BY <1>3, FS_CardinalityType
<1> QED
  BY <1>2, <1>3, <1>4, <1>5 DEF Weight

(* ... and what is split into two has no more in both than before.         *)
LEMMA WeightSplits ==
  ASSUME NEW K, IsFiniteSet(K), NEW f \in [K -> Nat], NEW g \in [K -> Nat], NEW h \in [K -> Nat],
         \A x \in K : \/ g[x] <= f[x] /\ h[x] = 0
                      \/ h[x] <= f[x] /\ g[x] = 0
  PROVE  Weight(g) + Weight(h) <= Weight(f)
<1>1. Boxes(g) \subseteq Boxes(f) /\ Boxes(h) \subseteq Boxes(f)
  <2>1. ASSUME NEW x \in Boxes(g) PROVE x \in Boxes(f)
    <3>1. x = <<x[1], x[2]>> /\ x[1] \in K /\ x[2] \in 1..g[x[1]]
      BY <2>1, BoxParts
    <3>2. x[2] \in 1..f[x[1]]
      BY <3>1
    <3> QED
      BY <3>1, <3>2, BoxParts
  <2>2. ASSUME NEW x \in Boxes(h) PROVE x \in Boxes(f)
    <3>1. x = <<x[1], x[2]>> /\ x[1] \in K /\ x[2] \in 1..h[x[1]]
      BY <2>2, BoxParts
    <3>2. x[2] \in 1..f[x[1]]
      BY <3>1
    <3> QED
      BY <3>1, <3>2, BoxParts
  <2> QED
    BY <2>1, <2>2
<1>2. Boxes(g) \cap Boxes(h) = {}
  <2> SUFFICES ASSUME NEW x, x \in Boxes(g), x \in Boxes(h) PROVE FALSE
    OBVIOUS
  <2>1. x[1] \in K /\ x[2] \in 1..g[x[1]] /\ x[2] \in 1..h[x[1]]
    BY BoxParts
  <2> QED
    BY <2>1
<1>3. /\ IsFiniteSet(Boxes(f)) /\ IsFiniteSet(Boxes(g)) /\ IsFiniteSet(Boxes(h))
      /\ Weight(f) \in Nat /\ Weight(g) \in Nat /\ Weight(h) \in Nat
  BY BoxesFinite
<1>4. Cardinality(Boxes(g) \cup Boxes(h)) = Weight(g) + Weight(h) - Cardinality({})
  BY <1>2, <1>3, FS_Union DEF Weight
<1>5. Cardinality(Boxes(g) \cup Boxes(h)) <= Weight(f)
  <2>1. Boxes(g) \cup Boxes(h) \subseteq Boxes(f)
    BY <1>1
  <2> QED
    BY <1>3, <2>1, FS_Subset DEF Weight
<1> QED
  BY <1>3, <1>4, <1>5, FS_EmptySet

LEMMA SourcesFinite == \A sources \in SUBSET Sources : IsFiniteSet(sources)
<1>1. IsFiniteSet(Sources)
  BY StormAssumption, FS_AddElement DEF Sources
<1> QED
  BY <1>1, FS_Subset

(* The failures of a window are each of a batch and of a source ...        *)
LEMMA FailureParts ==
  ASSUME NEW w \in Seq(Batches), NEW a, NEW sources, NEW x \in Failures(w, a, sources)
  PROVE  /\ x = <<<<x[1][1], x[1][2]>>, x[2]>>
         /\ x[1][1] \in 1..Len(w) /\ x[1][2] \in sources
         /\ x[2] \in 1..w[x[1][1]][a][x[1][2]]
<1>1. PICK i \in 1..Len(w), s \in sources : x \in {<<i, s>>} \X (1..w[i][a][s])
  BY DEF Failures
<1>2. PICK n \in 1..w[i][a][s] : x = <<<<i, s>>, n>>
  BY <1>1
<1> QED
  BY <1>2

LEMMA FailureThere ==
  ASSUME NEW w \in Seq(Batches), NEW a, NEW sources,
         NEW i \in 1..Len(w), NEW s \in sources, NEW n \in 1..w[i][a][s]
  PROVE  <<<<i, s>>, n>> \in Failures(w, a, sources)
<1> DEFINE boxes == {{<<j, t>>} \X (1..w[j][a][t]) : j \in DOMAIN w, t \in sources}
           box == {<<i, s>>} \X (1..w[i][a][s])
<1>1. box \in boxes /\ <<<<i, s>>, n>> \in box
  OBVIOUS
<1> HIDE DEF boxes, box
<1>2. <<<<i, s>>, n>> \in UNION boxes
  BY <1>1
<1> QED
  BY <1>2 DEF boxes, Failures

(* ... and finitely many.                                                  *)
LEMMA FailuresFinite ==
  ASSUME NEW w \in Seq(Batches), NEW a \in Addresses, NEW sources \in SUBSET Sources
  PROVE  IsFiniteSet(Failures(w, a, sources)) /\ Total(w, a, sources) \in Nat
<1> DEFINE K == (1..Len(w)) \X sources
           f == [x \in K |-> w[x[1]][a][x[2]]]
<1>1. DOMAIN w = 1..Len(w) /\ Len(w) \in Nat
  OBVIOUS
<1>2. IsFiniteSet(K)
  <2>1. 1 \in Int /\ Len(w) \in Int
    BY <1>1
  <2>2. IsFiniteSet(1..Len(w)) /\ IsFiniteSet(sources)
    BY <2>1, SourcesFinite, FS_Interval
  <2> QED
    BY <2>2, FS_Product
<1>3. f \in [K -> Nat]
  <2>1. ASSUME NEW i \in 1..Len(w), NEW s \in sources PROVE w[i][a][s] \in Nat
    <3>1. w[i] \in Batches
      OBVIOUS
    <3> QED
      BY <3>1 DEF Batches
  <2> QED
    BY <2>1
<1>4. ASSUME NEW y \in Failures(w, a, sources)
      PROVE  y \in UNION {{x} \X (1..f[x]) : x \in K}
  <2>1. PICK i, s, n : y = <<<<i, s>>, n>> /\ i \in 1..Len(w) /\ s \in sources /\ n \in 1..w[i][a][s]
    BY FailureParts
  <2>2. <<i, s>> \in K /\ f[<<i, s>>] = w[i][a][s]
    BY <2>1
  <2>3. y \in {<<i, s>>} \X (1..f[<<i, s>>])
    BY <2>1, <2>2
  <2> QED
    BY <2>2, <2>3
<1>5. IsFiniteSet(Failures(w, a, sources))
  <2> HIDE DEF f, K
  <2>1. IsFiniteSet(UNION {{x} \X (1..f[x]) : x \in K})
    BY <1>2, <1>3, BoxesFinite
  <2> QED
    BY <1>4, <2>1, FS_Subset
<1> QED
  BY <1>5, FS_CardinalityType DEF Total

(* The failures of one batch.                                              *)
Of(b, a, sources) == Boxes([s \in sources |-> b[a][s]])

LEMMA OfFacts ==
  ASSUME NEW b \in Batches, NEW a \in Addresses, NEW sources \in SUBSET Sources
  PROVE  /\ IsFiniteSet(Of(b, a, sources)) /\ Cardinality(Of(b, a, sources)) \in Nat
         /\ \A x \in Of(b, a, sources) :
              x = <<x[1], x[2]>> /\ x[1] \in sources /\ x[2] \in 1..b[a][x[1]]
         /\ \A s \in sources : \A n \in 1..b[a][s] : <<s, n>> \in Of(b, a, sources)
<1> DEFINE f == [s \in sources |-> b[a][s]]
<1>1. f \in [sources -> Nat]
  BY DEF Batches
<1>2. Of(b, a, sources) = Boxes(f) /\ \A s \in sources : f[s] = b[a][s]
  BY DEF Of
<1> HIDE DEF f
<1>3. IsFiniteSet(Of(b, a, sources))
  BY <1>1, <1>2, SourcesFinite, BoxesFinite
<1>4. ASSUME NEW x \in Of(b, a, sources)
      PROVE  x = <<x[1], x[2]>> /\ x[1] \in sources /\ x[2] \in 1..b[a][x[1]]
  <2>1. x = <<x[1], x[2]>> /\ x[1] \in sources /\ x[2] \in 1..f[x[1]]
    BY <1>1, <1>2, <1>4, BoxParts
  <2> QED
    BY <1>2, <2>1
<1>5. ASSUME NEW s \in sources, NEW n \in 1..b[a][s] PROVE <<s, n>> \in Of(b, a, sources)
  <2> PICK x : x = <<s, n>>
    OBVIOUS
  <2>1. x = <<x[1], x[2]>> /\ x[1] \in sources /\ x[2] \in 1..f[x[1]]
    BY <1>2
  <2>2. x \in Boxes(f)
    BY <1>1, <2>1, BoxParts
  <2> QED
    BY <1>2, <2>2
<1> QED
  BY <1>3, <1>4, <1>5, FS_CardinalityType

(* A batch adds at most what it has, ...                                   *)
LEMMA AppendCounts ==
  ASSUME NEW w \in Seq(Batches), NEW b \in Batches,
         NEW a \in Addresses, NEW sources \in SUBSET Sources
  PROVE  Total(Append(w, b), a, sources) <= Total(w, a, sources) + Cardinality(Of(b, a, sources))
<1> DEFINE old == Failures(w, a, sources)
           batch == Of(b, a, sources)
           h == [y \in batch |-> <<<<Len(w) + 1, y[1]>>, y[2]>>]
           new == {h[y] : y \in batch}
<1> PICK v : v = Append(w, b)
  OBVIOUS
<1>1. /\ v \in Seq(Batches) /\ Len(w) \in Nat /\ Len(v) = Len(w) + 1
      /\ v[Len(w) + 1] = b /\ \A i \in 1..Len(w) : v[i] = w[i]
  OBVIOUS
<1>2. IsFiniteSet(old) /\ IsFiniteSet(batch)
  BY FailuresFinite, OfFacts
<1>3. ASSUME NEW x \in Failures(v, a, sources)
      PROVE  x \in old \cup new
  <2> HIDE DEF old, new, batch, h
  <2>0. v \in Seq(Batches)
    BY <1>1
  <2>1. PICK i, s, n : x = <<<<i, s>>, n>> /\ i \in 1..Len(v) /\ s \in sources /\ n \in 1..v[i][a][s]
    <3>1. /\ x = <<<<x[1][1], x[1][2]>>, x[2]>>
          /\ x[1][1] \in 1..Len(v) /\ x[1][2] \in sources
          /\ x[2] \in 1..v[x[1][1]][a][x[1][2]]
      BY <1>3, <2>0, FailureParts
    <3> QED
      BY <3>1
  <2> USE DEF old, new, batch, h
  <2>2. CASE i <= Len(w)
    <3>1. i \in 1..Len(w) /\ n \in 1..w[i][a][s]
      BY <1>1, <2>1, <2>2
    <3> QED
      BY <2>1, <3>1, FailureThere
  <2>3. CASE ~(i <= Len(w))
    <3>1. i = Len(w) + 1 /\ n \in 1..b[a][s]
      BY <1>1, <2>1, <2>3
    <3>2. <<s, n>> \in batch
      BY <2>1, <3>1, OfFacts
    <3>3. h[<<s, n>>] = x
      BY <2>1, <3>1, <3>2
    <3> QED
      BY <3>2, <3>3
  <2> QED
    BY <2>2, <2>3
<1>4. IsFiniteSet(new) /\ Cardinality(new) <= Cardinality(batch)
  <2>1. h \in Surjection(batch, new)
    BY DEF Surjection
  <2> HIDE DEF h, new, batch
  <2> QED
    BY <1>2, <2>1, FS_Surjection
<1> HIDE DEF old, new, batch
<1>5. /\ IsFiniteSet(old \cup new)
      /\ Cardinality(old \cup new) = Cardinality(old) + Cardinality(new) - Cardinality(old \cap new)
      /\ Cardinality(Failures(v, a, sources)) <= Cardinality(old \cup new)
  BY <1>2, <1>3, <1>4, FS_Union, FS_Subset
<1>6. /\ Cardinality(old) \in Nat /\ Cardinality(new) \in Nat /\ Cardinality(batch) \in Nat
      /\ Cardinality(old \cap new) \in Nat /\ Cardinality(old \cup new) \in Nat
      /\ Cardinality(Failures(v, a, sources)) \in Nat
  <2>1. IsFiniteSet(old \cap new) /\ IsFiniteSet(Failures(v, a, sources))
    BY <1>1, <1>2, FS_Intersection, FailuresFinite
  <2> QED
    BY <1>2, <1>4, <1>5, <2>1, FS_CardinalityType
<1>7. Cardinality(Failures(v, a, sources)) <= Cardinality(old) + Cardinality(batch)
  BY <1>4, <1>5, <1>6
<1> QED
  BY <1>7 DEF old, batch, Total

(* ... and the rest of a window has no more than the window.               *)
LEMMA TailCounts ==
  ASSUME NEW w \in Seq(Batches), w # <<>>, NEW a \in Addresses, NEW sources \in SUBSET Sources
  PROVE  Total(Tail(w), a, sources) <= Total(w, a, sources)
<1> PICK v : v = Tail(w)
  OBVIOUS
<1>1. /\ v \in Seq(Batches) /\ Len(w) \in Nat /\ Len(v) = Len(w) - 1
      /\ \A i \in 1..Len(v) : v[i] = w[i + 1]
  OBVIOUS
<1> DEFINE old == Failures(w, a, sources)
           rest == Failures(v, a, sources)
           h == [x \in rest |-> <<<<x[1][1] + 1, x[1][2]>>, x[2]>>]
<1>2. \A x \in rest : /\ x = <<<<x[1][1], x[1][2]>>, x[2]>>
                      /\ x[1][1] \in 1..Len(v) /\ x[1][2] \in sources
                      /\ x[2] \in 1..v[x[1][1]][a][x[1][2]]
  <2>1. v \in Seq(Batches)
    BY <1>1
  <2> QED
    BY <2>1, FailureParts
<1>3. ASSUME NEW x \in rest PROVE h[x] \in old
  <2>1. /\ x[1][1] + 1 \in 1..Len(w) /\ x[1][2] \in sources
        /\ x[2] \in 1..w[x[1][1] + 1][a][x[1][2]]
    BY <1>1, <1>2
  <2> QED
    BY <2>1, FailureThere
<1>4. ASSUME NEW x \in rest, NEW y \in rest, h[x] = h[y] PROVE x = y
  <2>1. x[1][1] + 1 = y[1][1] + 1 /\ x[1][2] = y[1][2] /\ x[2] = y[2]
    BY <1>4
  <2>2. x[1][1] = y[1][1]
    BY <1>1, <1>2, <2>1
  <2> QED
    BY <1>2, <2>1, <2>2
<1>5. h \in Injection(rest, old)
  BY <1>3, <1>4 DEF Injection, IsInjective
<1>6. IsFiniteSet(old)
  BY FailuresFinite
<1>7. Cardinality(rest) <= Cardinality(old)
  <2> HIDE DEF h, rest, old
  <2> QED
    BY <1>5, <1>6, FS_Injection
<1> QED
  BY <1>7 DEF Total

-----------------------------------------------------------------------------
(* The books of an address.  Every pairing that a proxy counted as failed  *)
(* is booked as measured, or still to be read from a counter that moved    *)
(* past its baseline, and never both; and a failure booked as inferred was *)
(* inferred in this run.                                                   *)
Due(a) == [p \in Proxies |-> NewEvents(p, a)]

Churn(a) ==
  /\ Total(uncapped, a, Proxies) + Weight(Due(a)) <= refused[a]
  /\ Total(uncapped, a, {Inferred}) <= inferred[a]

ChurnInv ==
  /\ TypeOK
  /\ \A a \in Addresses : Churn(a)

LEMMA ChurnTypes ==
  ASSUME StormAssumption, TypeOK, NEW a \in Addresses
  PROVE  /\ Due(a) \in [Proxies -> Nat] /\ IsFiniteSet(Proxies) /\ Weight(Due(a)) \in Nat
         /\ Total(uncapped, a, Proxies) \in Nat /\ Total(uncapped, a, {Inferred}) \in Nat
         /\ refused[a] \in Nat /\ unmeasured[a] \in Nat /\ inferred[a] \in Nat /\ blind[a] \in Nat
<1>1. \A p \in Proxies : counts[p][a] \in Nat /\ baseline[p][a] \in Int
  BY DEF TypeOK, StormAssumption, None
<1>2. Due(a) \in [Proxies -> Nat] /\ IsFiniteSet(Proxies)
  BY <1>1 DEF NewEvents, Due, StormAssumption
<1>3. Total(uncapped, a, Proxies) \in Nat /\ Total(uncapped, a, {Inferred}) \in Nat
  <2>1. uncapped \in Seq(Batches) /\ Proxies \in SUBSET Sources /\ {Inferred} \in SUBSET Sources
    BY DEF TypeOK, Sources
  <2> QED
    BY <2>1, FailuresFinite
<1>4. refused[a] \in Nat /\ unmeasured[a] \in Nat /\ inferred[a] \in Nat /\ blind[a] \in Nat
  BY DEF TypeOK, StormAssumption
<1> QED
  BY <1>2, <1>3, <1>4, BoxesFinite

(* A step of the world: what is due grows by no more than the failures     *)
(* that were counted.                                                      *)
LEMMA ChurnWorld ==
  ASSUME StormAssumption, ChurnInv, TypeOK', NEW a \in Addresses,
         UNCHANGED <<uncapped, inferred>>, NEW k \in {0, 1},
         refused'[a] = refused[a] + k,
         Weight(Due(a)') <= Weight(Due(a)) + k
  PROVE  Churn(a)'
<1>1. refused'[a] \in Nat
  BY DEF TypeOK, StormAssumption
<1>2. Weight(Due(a)') \in Nat
  <2>1. \A p \in Proxies : counts'[p][a] \in Nat /\ baseline'[p][a] \in Int
    BY DEF TypeOK, StormAssumption, None
  <2>2. Due(a)' \in [Proxies -> Nat] /\ IsFiniteSet(Proxies)
    BY <2>1 DEF NewEvents, Due, StormAssumption
  <2> QED
    BY <2>2, BoxesFinite
<1>3. /\ Weight(Due(a)) \in Nat /\ Total(uncapped, a, Proxies) \in Nat
      /\ refused[a] \in Nat /\ Churn(a)
  BY ChurnTypes DEF ChurnInv
<1>4. Total(uncapped, a, Proxies) + Weight(Due(a)) <= refused[a]
  BY <1>3 DEF Churn
<1>5. Total(uncapped, a, Proxies) + Weight(Due(a)') <= refused'[a]
  BY <1>1, <1>2, <1>3, <1>4
<1>6. uncapped' = uncapped /\ inferred' = inferred /\ Total(uncapped, a, {Inferred}) <= inferred[a]
  BY <1>3 DEF Churn
<1> QED
  BY <1>5, <1>6 DEF Churn

(* Nothing due less than before weighs more.                               *)
LEMMA WeightShrinks ==
  ASSUME NEW K, IsFiniteSet(K), NEW f \in [K -> Nat], NEW g \in [K -> Nat],
         \A x \in K : g[x] <= f[x]
  PROVE  Weight(g) <= Weight(f)
<1> PICK none \in [K -> Nat] : \A x \in K : none[x] = 0
  <2>1. [x \in K |-> 0] \in [K -> Nat] /\ \A x \in K : [y \in K |-> 0][x] = 0
    OBVIOUS
  <2> QED
    BY <2>1
<1>1. Weight(g) + Weight(none) <= Weight(f)
  BY WeightSplits
<1>2. Weight(f) \in Nat /\ Weight(g) \in Nat /\ Weight(none) \in Nat
  BY BoxesFinite
<1> QED
  BY <1>1, <1>2

LEMMA ChurnRefuse ==
  ASSUME StormAssumption, ChurnInv, TypeOK', NEW p \in Proxies, NEW b \in Addresses, Refuse(p, b),
         NEW a \in Addresses
  PROVE  Churn(a)'
<1>1. /\ Due(a) \in [Proxies -> Nat] /\ IsFiniteSet(Proxies) /\ Weight(Due(a)) \in Nat
      /\ refused[a] \in Nat
  BY ChurnTypes DEF ChurnInv
<1>2. /\ UNCHANGED <<uncapped, inferred, baseline>>
      /\ refused' = [refused EXCEPT ![b] = @ + 1] /\ counts' = [counts EXCEPT ![p][b] = @ + 1]
  BY DEF Refuse, tracker, books
<1>3. TypeOK
  BY DEF ChurnInv
<1>4. \A q \in Proxies : /\ counts[q][a] \in Nat /\ baseline[q][a] \in Int
                         /\ counts'[q][a] = counts[q][a] + One(q = p /\ a = b)
  <2>1. \A q \in Proxies : /\ counts[q] \in [Addresses -> 0..MaxCount]
                           /\ baseline[q] \in [Addresses -> {None} \cup 1..MaxCount]
    BY <1>3 DEF TypeOK
  <2>2. \A q \in Proxies : counts[q][a] \in Nat /\ baseline[q][a] \in Int
    BY <2>1 DEF StormAssumption, None
  <2>3. counts \in [Proxies -> [Addresses -> 0..MaxCount]]
    BY <1>3 DEF TypeOK
  <2>4. \A q \in Proxies :
          counts'[q] = IF q = p THEN [counts[p] EXCEPT ![b] = @ + 1] ELSE counts[q]
    BY <1>2, <2>3
  <2>5. \A q \in Proxies :
          counts'[q][a] = IF q = p /\ a = b THEN counts[q][a] + 1 ELSE counts[q][a]
    BY <2>1, <2>4
  <2> QED
    BY <2>2, <2>5 DEF One
<1>5. /\ Due(a)' \in [Proxies -> Nat]
      /\ \A q \in Proxies : Due(a)'[q] <= Due(a)[q] + One(q = p /\ a = b)
  <2>1. \A q \in Proxies : NewEvents(q, a)' \in Nat
                          /\ NewEvents(q, a)' <= NewEvents(q, a) + One(q = p /\ a = b)
    BY <1>2, <1>4 DEF NewEvents, One
  <2> QED
    BY <2>1 DEF Due
<1>6. CASE a = b
  <2>1. \A q \in Proxies : Due(a)'[q] <= Due(a)[q] + One(q = p)
    BY <1>5, <1>6
  <2>2. Weight(Due(a)') <= Weight(Due(a)) + 1
    BY <1>1, <1>5, <2>1, WeightGrows
  <2>3. refused'[a] = refused[a] + 1
    BY <1>1, <1>2, <1>3, <1>6 DEF TypeOK
  <2> QED
    BY <1>2, <2>2, <2>3, ChurnWorld
<1>7. CASE a # b
  <2>1. \A q \in Proxies : Due(a)'[q] <= Due(a)[q]
    BY <1>1, <1>5, <1>7 DEF One
  <2>2. Weight(Due(a)') <= Weight(Due(a))
    BY <1>1, <1>5, <2>1, WeightShrinks
  <2>3. refused'[a] = refused[a] + 0
    BY <1>1, <1>2, <1>3, <1>7 DEF TypeOK
  <2>4. Weight(Due(a)') <= Weight(Due(a)) + 0
    BY <1>1, <2>2
  <2> QED
    BY <1>2, <2>3, <2>4, ChurnWorld
<1> QED
  BY <1>6, <1>7

(* A step that moves no counter up and no baseline.                        *)
LEMMA ChurnQuiet ==
  ASSUME StormAssumption, ChurnInv, TypeOK', NEW a \in Addresses,
         UNCHANGED <<uncapped, inferred, baseline>>,
         refused'[a] = refused[a],
         \A q \in Proxies : counts'[q][a] <= counts[q][a]
  PROVE  Churn(a)'
<1>1. /\ Due(a) \in [Proxies -> Nat] /\ IsFiniteSet(Proxies) /\ Weight(Due(a)) \in Nat
      /\ refused[a] \in Nat
  BY ChurnTypes DEF ChurnInv
<1>2. \A q \in Proxies : counts[q][a] \in Nat /\ counts'[q][a] \in Nat /\ baseline[q][a] \in Int
  BY DEF ChurnInv, TypeOK, StormAssumption, None
<1>3. \A q \in Proxies : NewEvents(q, a)' \in Nat /\ NewEvents(q, a)' <= NewEvents(q, a)
  BY <1>2 DEF NewEvents
<1>4. Due(a)' \in [Proxies -> Nat] /\ \A q \in Proxies : Due(a)'[q] <= Due(a)[q]
  BY <1>3 DEF Due
<1>5. Weight(Due(a)') <= Weight(Due(a)) + 0
  BY <1>1, <1>4, WeightShrinks
<1>6. refused'[a] = refused[a] + 0
  BY <1>1
<1> QED
  BY <1>5, <1>6, ChurnWorld

(* A failure from one source only.                                         *)
LEMMA WeightOne ==
  ASSUME NEW s, NEW f \in [{s} -> Nat]
  PROVE  Weight(f) = f[s]
<1>1. ASSUME NEW x
      PROVE  x \in Boxes(f) <=> x \in {s} \X (1..f[s])
  BY <1>1, BoxParts
<1>2. Boxes(f) = {s} \X (1..f[s])
  BY <1>1, BoxParts DEF Boxes
<1>3. 1 \in Int /\ f[s] \in Int /\ f[s] \in Nat
  OBVIOUS
<1>4. IsFiniteSet(1..f[s]) /\ Cardinality(1..f[s]) = f[s]
  <2>1. Cardinality(1..f[s]) = IF 1 > f[s] THEN 0 ELSE f[s] - 1 + 1
    BY <1>3, FS_Interval
  <2> QED
    BY <1>3, <2>1, FS_Interval
<1>5. IsFiniteSet({s}) /\ Cardinality({s}) = 1
  BY FS_Singleton
<1>6. Cardinality({s} \X (1..f[s])) = 1 * f[s]
  BY <1>4, <1>5, FS_Product
<1> QED
  BY <1>2, <1>3, <1>6 DEF Weight

(* What a snapshot books of a counter is no longer due.                    *)
LEMMA BookedOrDue ==
  ASSUME StormAssumption, TypeOK, TypeOK',
         NEW read \in SUBSET Counting, NEW lost \in SUBSET Addresses,
         Take(read, lost), NEW a \in Addresses
  PROVE  Weight(Due(a)') + Cardinality(Of(Bookings(read, lost), a, Proxies)) <= Weight(Due(a))
<1> PICK b : b = [s \in Proxies |-> Bookings(read, lost)[a][s]]
  OBVIOUS
<1>1. /\ Due(a) \in [Proxies -> Nat] /\ IsFiniteSet(Proxies)
      /\ counts' = counts /\ baseline' = Rearmed(read)
  BY ChurnTypes DEF Take, radio
<1>2. \A p \in Proxies : /\ counts[p][a] \in Nat /\ baseline[p][a] \in Int
                         /\ baseline[p][a] = None \/ baseline[p][a] >= 1
  <2>1. \A p \in Proxies : counts[p][a] \in 0..MaxCount /\ baseline[p][a] \in {None} \cup 1..MaxCount
    BY DEF TypeOK
  <2> QED
    BY <2>1 DEF StormAssumption, None
<1>3. \A p \in Proxies : b[p] = IF p \in read THEN NewEvents(p, a) ELSE 0
  BY DEF Bookings, Sources, StormAssumption
<1>4. \A p \in Proxies :
        baseline'[p][a] = IF p \in read /\ counts[p][a] > 0 THEN counts[p][a] ELSE baseline[p][a]
  BY <1>1 DEF Rearmed
<1>5. \A p \in Proxies :
        /\ NewEvents(p, a) \in Nat /\ NewEvents(p, a)' \in Nat
        /\ p \in read => NewEvents(p, a)' = 0
        /\ p \notin read => NewEvents(p, a)' = NewEvents(p, a)
  <2> SUFFICES ASSUME NEW p \in Proxies
               PROVE  /\ NewEvents(p, a) \in Nat /\ NewEvents(p, a)' \in Nat
                      /\ p \in read => NewEvents(p, a)' = 0
                      /\ p \notin read => NewEvents(p, a)' = NewEvents(p, a)
    OBVIOUS
  <2> PICK c : c = counts[p][a]
    OBVIOUS
  <2>1. c \in Nat /\ baseline[p][a] \in Int /\ (baseline[p][a] = None \/ baseline[p][a] >= 1)
    BY <1>2
  <2>2. /\ NewEvents(p, a)
             = IF baseline[p][a] # None /\ baseline[p][a] < c THEN c - baseline[p][a] ELSE 0
        /\ NewEvents(p, a)'
             = IF baseline'[p][a] # None /\ baseline'[p][a] < c THEN c - baseline'[p][a] ELSE 0
    BY <1>1 DEF NewEvents
  <2>3. baseline'[p][a] = IF p \in read /\ c > 0 THEN c ELSE baseline[p][a]
    BY <1>4
  <2> QED
    BY <2>1, <2>2, <2>3 DEF None
<1>6. /\ Due(a)' \in [Proxies -> Nat] /\ b \in [Proxies -> Nat]
      /\ \A p \in Proxies : \/ Due(a)'[p] <= Due(a)[p] /\ b[p] = 0
                            \/ b[p] <= Due(a)[p] /\ Due(a)'[p] = 0
  <2>1. \A p \in Proxies : Due(a)[p] = NewEvents(p, a) /\ Due(a)'[p] = NewEvents(p, a)'
    BY DEF Due
  <2>2. Due(a)' \in [Proxies -> Nat]
    BY <1>5 DEF Due
  <2>3. b \in [Proxies -> Nat]
    BY <1>3, <1>5
  <2> QED
    BY <1>3, <1>5, <2>1, <2>2, <2>3
<1>7. Weight(Due(a)') + Weight(b) <= Weight(Due(a))
  BY <1>1, <1>6, WeightSplits
<1> QED
  BY <1>7 DEF Of, Weight

LEMMA ChurnTake ==
  ASSUME StormAssumption, ChurnInv, TypeOK',
         NEW read \in SUBSET Counting, NEW lost \in SUBSET Addresses,
         Take(read, lost), NEW a \in Addresses
  PROVE  Churn(a)'
<1> PICK b : b = Bookings(read, lost)
  OBVIOUS
<1>1. TypeOK /\ Churn(a)
  BY DEF ChurnInv
<1>2. b \in Batches /\ Inferences(lost)[a] \in Nat
  BY <1>1, BookingsTyped
<1>3. /\ Weight(Due(a)) \in Nat /\ Total(uncapped, a, Proxies) \in Nat
      /\ Total(uncapped, a, {Inferred}) \in Nat
      /\ refused[a] \in Nat /\ unmeasured[a] \in Nat /\ inferred[a] \in Nat
  BY <1>1, ChurnTypes
<1>4. /\ uncapped \in Seq(Batches) /\ Proxies \in SUBSET Sources /\ {Inferred} \in SUBSET Sources
  BY <1>1 DEF TypeOK, Sources
<1>5. /\ refused' = refused
      /\ inferred'[a] = inferred[a] + Inferences(lost)[a]
      /\ uncapped' = Append(uncapped, b) \/ uncapped' = uncapped
  BY DEF Take, Book, books
<1>6. Weight(Due(a)') + Cardinality(Of(b, a, Proxies)) <= Weight(Due(a))
  BY <1>1, BookedOrDue
<1>7. Cardinality(Of(b, a, {Inferred})) = Inferences(lost)[a]
  <2> PICK f : f = [s \in {Inferred} |-> b[a][s]]
    OBVIOUS
  <2>1. f[Inferred] = Inferences(lost)[a]
    BY DEF Bookings, Sources
  <2>2. f \in [{Inferred} -> Nat]
    BY <1>2, <2>1
  <2>3. Weight(f) = f[Inferred]
    BY <2>2, WeightOne
  <2> QED
    BY <2>1, <2>3 DEF Of, Weight
<1>8. Cardinality(Of(b, a, Proxies)) \in Nat
  BY <1>2, <1>4, OfFacts
<1>9. Weight(Due(a)') \in Nat
  <2>1. \A p \in Proxies : counts'[p][a] \in Nat /\ baseline'[p][a] \in Int
    BY DEF TypeOK, StormAssumption, None
  <2>2. Due(a)' \in [Proxies -> Nat] /\ IsFiniteSet(Proxies)
    BY <2>1 DEF NewEvents, Due, StormAssumption
  <2> QED
    BY <2>2, BoxesFinite
<1>10. /\ Total(uncapped', a, Proxies) <= Total(uncapped, a, Proxies) + Cardinality(Of(b, a, Proxies))
       /\ Total(uncapped', a, {Inferred}) <= Total(uncapped, a, {Inferred}) + Inferences(lost)[a]
       /\ Total(uncapped', a, Proxies) \in Nat /\ Total(uncapped', a, {Inferred}) \in Nat
  <2>1. CASE uncapped' = Append(uncapped, b)
    <3>1. /\ Total(uncapped', a, Proxies) <= Total(uncapped, a, Proxies) + Cardinality(Of(b, a, Proxies))
          /\ Total(uncapped', a, {Inferred})
               <= Total(uncapped, a, {Inferred}) + Cardinality(Of(b, a, {Inferred}))
      BY <1>2, <1>4, <2>1, AppendCounts
    <3>2. uncapped' \in Seq(Batches)
      BY DEF TypeOK
    <3> QED
      BY <1>4, <1>7, <3>1, <3>2, FailuresFinite
  <2>2. CASE uncapped' = uncapped
    BY <1>2, <1>3, <1>8, <2>2
  <2> QED
    BY <1>5, <2>1, <2>2
<1>11. Total(uncapped', a, Proxies) + Weight(Due(a)') <= refused'[a]
  <2>1. Total(uncapped, a, Proxies) + Weight(Due(a)) <= refused[a]
    BY <1>1 DEF Churn
  <2> QED
    BY <1>3, <1>5, <1>6, <1>8, <1>9, <1>10, <2>1
<1>12. Total(uncapped', a, {Inferred}) <= inferred'[a]
  <2>1. Total(uncapped, a, {Inferred}) <= inferred[a]
    BY <1>1 DEF Churn
  <2> QED
    BY <1>2, <1>3, <1>5, <1>10, <2>1
<1> QED
  BY <1>11, <1>12 DEF Churn

(* Failures that leave the window only make room.                          *)
LEMMA ChurnExpire ==
  ASSUME StormAssumption, ChurnInv, TypeOK', Expire, NEW a \in Addresses
  PROVE  Churn(a)'
<1>1. TypeOK /\ Churn(a)
  BY DEF ChurnInv
<1>2. /\ uncapped \in Seq(Batches) /\ uncapped # <<>> /\ uncapped' = Tail(uncapped)
      /\ uncapped' \in Seq(Batches)
      /\ Proxies \in SUBSET Sources /\ {Inferred} \in SUBSET Sources
  <2>1. Len(uncapped) = Len(window) /\ window \in Seq(Batches) /\ uncapped \in Seq(Batches)
    BY <1>1 DEF TypeOK
  <2>2. window # <<>> /\ uncapped' = Tail(uncapped)
    BY DEF Expire
  <2> QED
    BY <2>1, <2>2 DEF TypeOK, Sources
<1>3. /\ Total(uncapped', a, Proxies) <= Total(uncapped, a, Proxies)
      /\ Total(uncapped', a, {Inferred}) <= Total(uncapped, a, {Inferred})
      /\ Total(uncapped', a, Proxies) \in Nat /\ Total(uncapped', a, {Inferred}) \in Nat
  BY <1>2, TailCounts, FailuresFinite
<1>4. /\ Weight(Due(a)) \in Nat /\ Total(uncapped, a, Proxies) \in Nat
      /\ Total(uncapped, a, {Inferred}) \in Nat
      /\ refused[a] \in Nat /\ unmeasured[a] \in Nat /\ inferred[a] \in Nat
  BY <1>1, ChurnTypes
<1>5. /\ Due(a)' = Due(a) /\ refused' = refused /\ inferred' = inferred
  BY DEF Expire, Due, NewEvents, radio, tracker, history
<1>6. /\ Total(uncapped, a, Proxies) + Weight(Due(a)) <= refused[a]
      /\ Total(uncapped, a, {Inferred}) <= inferred[a]
  BY <1>1 DEF Churn
<1>7. /\ Total(uncapped', a, Proxies) + Weight(Due(a)) <= refused[a]
      /\ Total(uncapped', a, {Inferred}) <= inferred[a]
  BY <1>3, <1>4, <1>6
<1> QED
  BY <1>5, <1>7 DEF Churn

(* A window that begins, begins with nothing.                              *)
LEMMA ChurnBegins ==
  ASSUME StormAssumption, NEW a \in Addresses,
         uncapped = <<>>, baseline = Unarmed, refused = Zero, inferred = Zero
  PROVE  Churn(a)
<1>1. \A sources : Total(<<>>, a, sources) = 0
  <2>1. \A sources : Failures(<<>>, a, sources) = {}
    BY DEF Failures
  <2> QED
    BY <2>1, FS_EmptySet DEF Total
<1>2. Weight(Due(a)) = 0
  <2>1. Due(a) = [p \in Proxies |-> 0]
    BY DEF Due, NewEvents, Unarmed
  <2>2. Boxes(Due(a)) = {}
    BY <2>1 DEF Boxes
  <2> QED
    BY <2>2, FS_EmptySet DEF Weight
<1>3. refused[a] = 0 /\ inferred[a] = 0
  BY DEF Zero
<1> QED
  BY <1>1, <1>2, <1>3 DEF Churn

LEMMA ChurnStep ==
  ASSUME StormAssumption, ChurnInv, [Next]_vars
  PROVE  ChurnInv'
<1>1. TypeOK /\ TypeOK'
  BY TypeStep DEF ChurnInv
<1> SUFFICES ASSUME NEW a \in Addresses PROVE Churn(a)'
  BY <1>1 DEF ChurnInv
<1>2. /\ \A b \in Addresses : refused[b] \in Nat
      /\ \A q \in Proxies : counts[q][a] \in Nat
  BY <1>1 DEF TypeOK, StormAssumption
<1>3. ASSUME UNCHANGED <<counts, tracker, books, history>> PROVE Churn(a)'
  BY <1>1, <1>2, <1>3, ChurnQuiet DEF tracker, books, history
<1>4. ASSUME NEW p \in Proxies, NEW b \in Addresses, Connect(p, b) PROVE Churn(a)'
  BY <1>3, <1>4 DEF Connect
<1>5. ASSUME NEW p \in Proxies, NEW b \in Addresses, Refuse(p, b) PROVE Churn(a)'
  BY <1>1, <1>5, ChurnRefuse
<1>6. ASSUME NEW p \in Proxies, NEW b \in Addresses, Drop(p, b) PROVE Churn(a)'
  <2>1. UNCHANGED <<uncapped, inferred, baseline, counts, refused>>
    BY <1>6 DEF Drop, tracker, books
  <2> QED
    BY <1>1, <1>2, <2>1, ChurnQuiet
<1>7. ASSUME NEW p \in Proxies, Reboot(p) PROVE Churn(a)'
  <2>1. UNCHANGED <<uncapped, inferred, baseline, refused>>
    BY <1>7 DEF Reboot, tracker, books
  <2>2. \A q \in Proxies : counts'[q][a] <= counts[q][a]
    BY <1>1, <1>2, <1>7 DEF Reboot, TypeOK, Zero
  <2> QED
    BY <1>1, <2>1, <2>2, ChurnQuiet
<1>8. ASSUME NEW b \in Addresses, Settle(b) PROVE Churn(a)'
  BY <1>3, <1>8 DEF Settle
<1>9. CASE Snapshot
  <2>1. dead \in SUBSET Addresses
    BY <1>1 DEF TypeOK
  <2> QED
    BY <1>1, <1>9, <2>1, ChurnTake DEF Snapshot
<1>10. CASE DegradedSnapshot
  <2>1. {} \in SUBSET Addresses
    OBVIOUS
  <2> QED
    BY <1>1, <1>10, <2>1, ChurnTake DEF DegradedSnapshot
<1>11. CASE Expire
  BY <1>1, <1>11, ChurnExpire
<1>12. CASE Reload
  <2>1. (uncapped = <<>> /\ baseline = Unarmed /\ refused = Zero /\ inferred = Zero)'
    BY <1>12 DEF Reload, Zero, Unarmed
  <2>2. (StormAssumption /\ a \in Addresses /\ uncapped = <<>> /\ baseline = Unarmed /\ refused = Zero
           /\ inferred = Zero => Churn(a))'
    BY ChurnBegins, PTL
  <2> QED
    BY <2>1, <2>2
<1>13. CASE UNCHANGED vars
  BY <1>3, <1>13 DEF vars, radio
<1> QED
  BY <1>4, <1>5, <1>6, <1>7, <1>8, <1>9, <1>10, <1>11, <1>12, <1>13 DEF Next

LEMMA ChurnAndStorm ==
  ASSUME StormAssumption, StormInv, ChurnInv
  PROVE  StormNeedsChurn
<1> SUFFICES ASSUME NEW a \in Addresses
             PROVE  Total(uncapped, a, Sources) <= refused[a] + unmeasured[a] + blind[a]
  BY DEF StormNeedsChurn
<1> DEFINE whole == Failures(uncapped, a, Sources)
           read == Failures(uncapped, a, Proxies)
           guessed == Failures(uncapped, a, {Inferred})
<1>1. TypeOK /\ Churn(a) /\ Account(a)
  BY DEF ChurnInv, StormInv
<1>2. uncapped \in Seq(Batches) /\ Proxies \in SUBSET Sources /\ {Inferred} \in SUBSET Sources
  BY <1>1 DEF TypeOK, Sources
<1>3. whole \subseteq read \cup guessed
  BY DEF Failures, Sources
<1>4. /\ IsFiniteSet(read) /\ IsFiniteSet(guessed)
      /\ Cardinality(read) \in Nat /\ Cardinality(guessed) \in Nat /\ Cardinality(whole) \in Nat
  BY <1>2, FailuresFinite DEF Total
<1>5. /\ Weight(Due(a)) \in Nat
      /\ refused[a] \in Nat /\ unmeasured[a] \in Nat /\ inferred[a] \in Nat /\ blind[a] \in Nat
  BY <1>1, ChurnTypes
<1>6. /\ Cardinality(read) + Weight(Due(a)) <= refused[a]
      /\ Cardinality(guessed) <= inferred[a]
  BY <1>1 DEF Churn, Total
<1>7. inferred[a] <= unmeasured[a] + blind[a]
  BY <1>1, <1>5 DEF Account, One
<1> HIDE DEF whole, read, guessed
<1>8. Cardinality(whole) <= Cardinality(read) + Cardinality(guessed)
  <2>1. /\ IsFiniteSet(read \cup guessed) /\ Cardinality(read \cap guessed) \in Nat
        /\ Cardinality(read \cup guessed)
             = Cardinality(read) + Cardinality(guessed) - Cardinality(read \cap guessed)
    BY <1>4, FS_Union, FS_Intersection, FS_CardinalityType
  <2>2. Cardinality(whole) <= Cardinality(read \cup guessed)
    BY <1>3, <2>1, FS_Subset
  <2> QED
    BY <1>4, <2>1, <2>2
<1>9. Cardinality(whole) <= refused[a] + unmeasured[a] + blind[a]
  BY <1>4, <1>5, <1>6, <1>7, <1>8
<1> QED
  BY <1>9 DEF whole, Total

(* A storm is never made of less than it claims: the window holds no more  *)
(* failures of an address than its pairings that proxies counted as failed *)
(* in this run and its connections that ended on proxies that do not       *)
(* count, apart from one for every time a counting proxy could not be      *)
(* read.                                                                   *)
THEOREM StormsAreEarned == Spec => []StormNeedsChurn
<1>1. Init => StormInv /\ ChurnInv
  <2> SUFFICES ASSUME Init PROVE StormInv /\ ChurnInv
    OBVIOUS
  <2>1. TypeOK
    BY StormAssumption, TypeInit
  <2>2. StormInv
    BY <2>1 DEF StormInv, Init, Account, One, Zero
  <2>3. ChurnInv
    BY <2>1, StormAssumption, ChurnBegins DEF ChurnInv, Init
  <2> QED
    BY <2>2, <2>3
<1>2. StormInv /\ ChurnInv /\ [Next]_vars => StormInv' /\ ChurnInv'
  BY StormAssumption, StormStep, ChurnStep
<1>3. StormInv /\ ChurnInv => StormNeedsChurn
  BY StormAssumption, ChurnAndStorm
<1> QED
  BY <1>1, <1>2, <1>3, PTL DEF Spec

-----------------------------------------------------------------------------
(* The cap on the replay.  What is in the window is, booking for booking,  *)
(* the capped form of what an uncapped replay would have put there.        *)
CapInv ==
  /\ TypeOK
  /\ \A i \in 1..Len(uncapped) : window[i] = Replayed(uncapped[i])

LEMMA CapStep ==
  ASSUME StormAssumption, CapInv, [Next]_vars
  PROVE  CapInv'
<1>1. TypeOK'
  BY TypeStep DEF CapInv
<1>2. /\ window \in Seq(Batches) /\ uncapped \in Seq(Batches) /\ Len(uncapped) = Len(window)
      /\ \A i \in 1..Len(uncapped) : window[i] = Replayed(uncapped[i])
  BY DEF CapInv, TypeOK
<1> SUFFICES \A i \in 1..Len(uncapped') : window'[i] = Replayed(uncapped'[i])
  BY <1>1 DEF CapInv, Replayed, Capped, Cap
<1>3. CASE UNCHANGED books
  BY <1>2, <1>3 DEF books
<1>4. ASSUME NEW b, Book(b), b \in Batches, Replayed(b) \in Batches
      PROVE  \A i \in 1..Len(uncapped') : window'[i] = Replayed(uncapped'[i])
  <2> PICK r : r = Replayed(b)
    OBVIOUS
  <2>1. CASE window' = Append(window, r) /\ uncapped' = Append(uncapped, b)
    <3>1. r \in Batches
      BY <1>4
    <3>2. /\ Len(uncapped') = Len(uncapped) + 1 /\ Len(uncapped) \in Nat
          /\ uncapped'[Len(uncapped) + 1] = b /\ window'[Len(uncapped) + 1] = r
          /\ \A i \in 1..Len(uncapped) : uncapped'[i] = uncapped[i] /\ window'[i] = window[i]
      BY <1>2, <1>4, <2>1, <3>1
    <3> SUFFICES ASSUME NEW i \in 1..Len(uncapped') PROVE window'[i] = Replayed(uncapped'[i])
      OBVIOUS
    <3>3. CASE i = Len(uncapped) + 1
      BY <3>2, <3>3
    <3>4. CASE i # Len(uncapped) + 1
      <4>1. i \in 1..Len(uncapped)
        BY <3>2, <3>4
      <4> QED
        BY <1>2, <3>2, <4>1
    <3> QED
      BY <3>3, <3>4
  <2> QED
    BY <1>3, <1>4, <2>1 DEF Book
<1>5. ASSUME NEW read \in SUBSET Counting, NEW lost \in SUBSET Addresses, Take(read, lost)
      PROVE  \A i \in 1..Len(uncapped') : window'[i] = Replayed(uncapped'[i])
  BY <1>4, <1>5, BookingsTyped DEF Take, CapInv
<1>6. CASE Snapshot
  <2>1. dead \in SUBSET Addresses
    BY DEF CapInv, TypeOK
  <2> QED
    BY <1>5, <1>6, <2>1 DEF Snapshot
<1>7. CASE DegradedSnapshot
  <2>1. {} \in SUBSET Addresses
    OBVIOUS
  <2> QED
    BY <1>5, <1>7, <2>1 DEF DegradedSnapshot
<1>8. CASE Expire
  <2>1. window # <<>> /\ window' = Tail(window) /\ uncapped' = Tail(uncapped)
    BY <1>8 DEF Expire
  <2>2. /\ Len(uncapped') = Len(uncapped) - 1 /\ Len(uncapped) \in Nat
        /\ \A i \in 1..Len(uncapped') : uncapped'[i] = uncapped[i + 1] /\ window'[i] = window[i + 1]
    BY <1>2, <2>1
  <2>3. \A i \in 1..Len(uncapped') : i + 1 \in 1..Len(uncapped)
    BY <2>2
  <2> QED
    BY <1>2, <2>2, <2>3
<1>9. CASE Reload
  BY <1>9 DEF Reload
<1> QED
  BY <1>3, <1>6, <1>7, <1>8, <1>9
  DEF Next, Reboot, Connect, Refuse, Drop, Settle, vars

(* Up to the cap, the two windows count the same.                          *)
LEMMA SameUpToCap ==
  ASSUME StormAssumption, CapInv, NEW a \in Addresses, NEW sources \in SUBSET Sources,
         NEW n \in Nat, n <= Cap
  PROVE  Total(window, a, sources) >= n <=> Total(uncapped, a, sources) >= n
<1> DEFINE real == Failures(uncapped, a, sources)
           kept == Failures(window, a, sources)
<1>1. /\ window \in Seq(Batches) /\ uncapped \in Seq(Batches) /\ Len(uncapped) = Len(window)
      /\ Len(uncapped) \in Nat /\ Cap \in Nat
      /\ \A i \in 1..Len(uncapped) : window[i] = Replayed(uncapped[i])
  BY DEF CapInv, TypeOK, Cap, StormAssumption
<1>2. /\ IsFiniteSet(real) /\ IsFiniteSet(kept)
      /\ Cardinality(real) \in Nat /\ Cardinality(kept) \in Nat
  BY <1>1, FailuresFinite DEF Total
<1>3. ASSUME NEW i \in 1..Len(uncapped), NEW s \in sources
      PROVE  /\ uncapped[i][a][s] \in Nat
             /\ \/ window[i][a][s] = uncapped[i][a][s]
                \/ window[i][a][s] = Cap /\ Cap <= uncapped[i][a][s]
  <2>1. uncapped[i][a][s] \in Nat
    BY <1>1 DEF Batches
  <2>2. window[i][a][s] = IF s = Inferred THEN uncapped[i][a][s] ELSE Capped(uncapped[i][a][s])
    <3>1. i \in 1..Len(uncapped) /\ window[i] = Replayed(uncapped[i]) /\ s \in Sources
      BY <1>1
    <3> QED
      BY <3>1 DEF Replayed
  <2> QED
    BY <1>1, <2>1, <2>2 DEF Capped
<1>4. Cardinality(kept) <= Cardinality(real)
  <2>1. ASSUME NEW x \in kept PROVE x \in real
    <3>1. /\ x = <<<<x[1][1], x[1][2]>>, x[2]>>
          /\ x[1][1] \in 1..Len(window) /\ x[1][2] \in sources
          /\ x[2] \in 1..window[x[1][1]][a][x[1][2]]
      BY <1>1, <2>1, FailureParts
    <3>2. x[2] \in 1..uncapped[x[1][1]][a][x[1][2]]
      <4> PICK i, s : i = x[1][1] /\ s = x[1][2]
        OBVIOUS
      <4>1. i \in 1..Len(uncapped) /\ s \in sources
        BY <1>1, <3>1
      <4>2. /\ uncapped[i][a][s] \in Nat
            /\ window[i][a][s] = uncapped[i][a][s] \/ window[i][a][s] <= uncapped[i][a][s]
        BY <1>3, <4>1
      <4>3. x[2] \in 1..window[i][a][s]
        BY <3>1
      <4> HIDE DEF kept, real
      <4>4. x[2] \in 1..uncapped[i][a][s]
        <5>1. window[i][a][s] \in Nat
          BY <1>1, <1>3, <4>1
        <5> QED
          BY <4>2, <4>3, <5>1
      <4> QED
        BY <4>4
    <3>3. <<<<x[1][1], x[1][2]>>, x[2]>> \in real
      BY <1>1, <3>1, <3>2, FailureThere
    <3> QED
      BY <3>1, <3>3
  <2> HIDE DEF kept, real
  <2> QED
    BY <1>2, <2>1, FS_Subset
<1>5. CASE \A i \in 1..Len(uncapped), s \in sources : window[i][a][s] = uncapped[i][a][s]
  <2>1. ASSUME NEW x \in real PROVE x \in kept
    <3>1. /\ x = <<<<x[1][1], x[1][2]>>, x[2]>>
          /\ x[1][1] \in 1..Len(uncapped) /\ x[1][2] \in sources
          /\ x[2] \in 1..uncapped[x[1][1]][a][x[1][2]]
      BY <1>1, <2>1, FailureParts
    <3>2. x[1][1] \in 1..Len(window) /\ x[2] \in 1..window[x[1][1]][a][x[1][2]]
      BY <1>1, <1>5, <3>1
    <3>3. <<<<x[1][1], x[1][2]>>, x[2]>> \in kept
      BY <1>1, <3>1, <3>2, FailureThere
    <3> QED
      BY <3>1, <3>3
  <2> HIDE DEF kept, real
  <2>2. Cardinality(real) <= Cardinality(kept)
    BY <1>2, <2>1, FS_Subset
  <2>3. Cardinality(real) = Cardinality(kept)
    BY <1>2, <1>4, <2>2
  <2> QED
    BY <2>3 DEF kept, real, Total
<1>6. ASSUME NEW i \in 1..Len(uncapped), NEW s \in sources,
             window[i][a][s] = Cap, Cap <= uncapped[i][a][s]
      PROVE  Cardinality(kept) >= Cap
  <2>1. 1 \in Int /\ Cap \in Int
    BY <1>1
  <2>2. IsFiniteSet(1..Cap) /\ Cardinality(1..Cap) = IF 1 > Cap THEN 0 ELSE Cap - 1 + 1
    BY <2>1, FS_Interval
  <2>3. IsFiniteSet({<<i, s>>}) /\ Cardinality({<<i, s>>}) = 1
    BY FS_Singleton
  <2>4. Cardinality({<<i, s>>} \X (1..Cap)) = 1 * Cardinality(1..Cap)
    BY <2>2, <2>3, FS_Product
  <2>5. Cardinality({<<i, s>>} \X (1..Cap)) = Cap
    BY <1>1, <2>2, <2>4
  <2>6. ASSUME NEW x \in {<<i, s>>} \X (1..Cap) PROVE x \in kept
    <3>1. i \in 1..Len(window) /\ x[2] \in 1..window[i][a][s] /\ x = <<<<i, s>>, x[2]>>
      BY <1>1, <1>6
    <3>2. <<<<i, s>>, x[2]>> \in kept
      BY <1>1, <3>1, FailureThere
    <3> QED
      BY <3>1, <3>2
  <2> HIDE DEF kept
  <2> QED
    BY <1>2, <2>5, <2>6, FS_Subset
<1>7. CASE ~(\A i \in 1..Len(uncapped), s \in sources : window[i][a][s] = uncapped[i][a][s])
  <2>1. Cardinality(kept) >= Cap
    BY <1>3, <1>6, <1>7
  <2> HIDE DEF kept, real
  <2>2. Cardinality(kept) >= n /\ Cardinality(real) >= n
    BY <1>1, <1>2, <1>4, <2>1
  <2> QED
    BY <2>2 DEF kept, real, Total
<1> QED
  BY <1>5, <1>7

(* No cap on a replay changes a verdict of either detector.                *)
THEOREM CapsChangeNothing == Spec => []CappingIsInvisible
<1>1. Init => CapInv
  <2> SUFFICES ASSUME Init PROVE CapInv
    OBVIOUS
  <2>1. TypeOK
    BY StormAssumption, TypeInit
  <2> QED
    BY <2>1 DEF CapInv, Init
<1>2. CapInv /\ [Next]_vars => CapInv'
  BY StormAssumption, CapStep
<1>3. CapInv => CappingIsInvisible
  <2> SUFFICES ASSUME CapInv, NEW a \in Addresses
               PROVE  /\ Total(window, a, Sources) >= StormThreshold
                           <=> Total(uncapped, a, Sources) >= StormThreshold
                      /\ \A p \in Proxies : Total(window, a, {p}) >= BondThreshold
                                            <=> Total(uncapped, a, {p}) >= BondThreshold
    BY DEF CappingIsInvisible
  <2>1. /\ StormThreshold \in Nat /\ StormThreshold <= Cap
        /\ BondThreshold \in Nat /\ BondThreshold <= Cap
    BY StormAssumption DEF Cap, StormAssumption
  <2>2. Sources \in SUBSET Sources /\ \A p \in Proxies : {p} \in SUBSET Sources
    BY DEF Sources
  <2> QED
    BY StormAssumption, <2>1, <2>2, SameUpToCap
<1> QED
  BY <1>1, <1>2, <1>3, PTL DEF Spec
=============================================================================
