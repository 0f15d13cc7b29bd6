------------------------ MODULE FailureWindow_proofs ------------------------
(***************************************************************************)
(* What a lost bond is judged by. The failure window keeps its promise for *)
(* any addresses, any proxies, any window and any clock; and, in the       *)
(* second part of this module, the list of bonds accuses nobody who is on  *)
(* it.                                                                     *)
(***************************************************************************)
EXTENDS FailureWindow, BondList, FiniteSetTheorems, WellFoundedInduction, TLAPS

(* Every set of naturals that is not empty has a least element.            *)
LEMMA LeastNat ==
  ASSUME NEW T, T \subseteq Nat, T # {}
  PROVE  \E m \in T : \A k \in T : m <= k
<1> DEFINE R == OpToRel(<, Nat)
<1>1. IsWellFoundedOn(R, Nat)
  BY NatLessThanWellFounded
<1>2. \A x, y \in Nat : <<x, y>> \in R <=> x < y
  BY DEF OpToRel
<1> HIDE DEF R
<1>3. PICK m \in T : \A k \in T : ~(<<k, m>> \in R)
  <2>1. \E m \in T : \A k \in T : ~(<<k, m>> \in R)
    BY <1>1, WFMin, Zenon
  <2> QED
    BY <2>1
<1>4. ASSUME NEW k \in T PROVE m <= k
  <2>1. k \in Nat /\ m \in Nat
    OBVIOUS
  <2>2. ~(k < m)
    BY <1>2, <1>3, <2>1
  <2> QED
    BY <2>1, <2>2
<1> QED
  BY <1>3, <1>4

(* What is left of a queue without its first n elements.                   *)
LEMMA Suffix ==
  ASSUME NEW S, NEW q \in Seq(S), NEW n \in 0..Len(q)
  PROVE  /\ SubSeq(q, n + 1, Len(q)) \in Seq(S)
         /\ Len(SubSeq(q, n + 1, Len(q))) = Len(q) - n
         /\ \A i \in 1..(Len(q) - n) :
              n + i \in 1..Len(q) /\ SubSeq(q, n + 1, Len(q))[i] = q[n + i]
<1>1. Len(q) \in Nat
  OBVIOUS
<1>2. \A i \in (n + 1)..Len(q) : q[i] \in S
  BY <1>1
<1>3. /\ SubSeq(q, n + 1, Len(q)) \in Seq(S)
      /\ Len(SubSeq(q, n + 1, Len(q))) = Len(q) - n
  BY <1>1, <1>2
<1>4. ASSUME NEW i \in 1..(Len(q) - n)
      PROVE  n + i \in 1..Len(q) /\ SubSeq(q, n + 1, Len(q))[i] = q[n + i]
  BY <1>1
<1> QED
  BY <1>3, <1>4

(* _evict stops, at the first failure that is not stale.                   *)
LEMMA LeavingFacts ==
  ASSUME NEW q, q \in Seq(Failures)
  PROVE  /\ Leaving(q) \in 0..Len(q)
         /\ \A i \in 1..Leaving(q) : Stale(q[i])
         /\ Leaving(q) < Len(q) => ~Stale(q[Leaving(q) + 1])
<1> DEFINE Stops == {k \in Nat : k = Len(q) \/ (k < Len(q) /\ ~Stale(q[k + 1]))}
<1>0. Len(q) \in Nat
  OBVIOUS
<1>1. Len(q) \in Stops
  BY <1>0
<1>2. PICK n \in Stops : \A k \in Stops : n <= k
  <2> HIDE DEF Stops
  <2>1. Stops \subseteq Nat
    BY DEF Stops
  <2> QED
    BY <1>1, <2>1, LeastNat
<1>3. n \in 0..Len(q)
  BY <1>0, <1>2
<1>4. ASSUME NEW i \in 1..n PROVE Stale(q[i])
  <2>1. i - 1 \in Nat /\ i - 1 < n
    BY <1>3, <1>4
  <2>2. i - 1 \notin Stops
    BY <1>2, <2>1
  <2> QED
    BY <1>0, <1>3, <2>1, <2>2
<1>5. n < Len(q) => ~Stale(q[n + 1])
  BY <1>2
<1> HIDE DEF Stops
<1> QED
  BY <1>3, <1>4, <1>5 DEF Leaving

(* A queue in order, of failures of the past.                              *)
Proper(q, a) ==
  /\ q \in Seq(Failures)
  /\ Ordered(q)
  /\ \A i \in 1..Len(q) : q[i].address = a /\ q[i].id <= booked /\ q[i].at <= now

WindowInv == TypeOK /\ \A a \in Addresses : Proper(events[a], a)

(* Eviction takes out the failures that are gone, and nothing else.        *)
LEMMA EvictedFacts ==
  ASSUME WindowAssumption, NEW q, q \in Seq(Failures), Ordered(q), now \in Nat
  PROVE  /\ Evicted(q) \in Seq(Failures)
         /\ Ordered(Evicted(q))
         /\ Kept(Evicted(q)) = Fresh(q)
         /\ \A i \in 1..Len(Evicted(q)) : \E j \in 1..Len(q) : Evicted(q)[i] = q[j]
<1> DEFINE n == Leaving(q)
           e == Evicted(q)
<1>1. /\ n \in 0..Len(q) /\ Len(q) \in Nat
      /\ \A i \in 1..n : Stale(q[i])
      /\ n < Len(q) => ~Stale(q[n + 1])
  BY LeavingFacts
<1>2. \A i \in 1..Len(q) : q[i] \in Failures
  OBVIOUS
<1> HIDE DEF n
<1>3. /\ e \in Seq(Failures) /\ Len(e) = Len(q) - n
      /\ \A i \in 1..Len(e) : n + i \in 1..Len(q) /\ e[i] = q[n + i]
  <2>1. e = SubSeq(q, n + 1, Len(q))
    BY DEF n, Evicted
  <2> HIDE DEF e
  <2>2. /\ SubSeq(q, n + 1, Len(q)) \in Seq(Failures)
        /\ Len(SubSeq(q, n + 1, Len(q))) = Len(q) - n
        /\ \A i \in 1..(Len(q) - n) :
             n + i \in 1..Len(q) /\ SubSeq(q, n + 1, Len(q))[i] = q[n + i]
    BY <1>1, Suffix
  <2> QED
    BY <2>1, <2>2
<1> HIDE DEF e
<1>4. Ordered(e)
  <2> SUFFICES ASSUME NEW i \in 1..Len(e), NEW j \in 1..Len(e), i < j
               PROVE  e[i].id < e[j].id /\ e[i].at <= e[j].at
    BY DEF Ordered
  <2>1. n + i \in 1..Len(q) /\ n + j \in 1..Len(q) /\ n + i < n + j
    BY <1>1, <1>3
  <2> QED
    BY <1>3, <2>1 DEF Ordered
<1>5. ASSUME NEW i \in 1..Len(q), i > n PROVE ~Stale(q[i])
  <2>1. ~Stale(q[n + 1]) /\ n + 1 \in 1..Len(q)
    BY <1>1, <1>5
  <2>2. q[n + 1].at \in Int /\ q[i].at \in Int
    BY <1>2, <2>1 DEF Failures
  <2>3. q[n + 1].at <= q[i].at
    <3>1. CASE i = n + 1
      BY <2>2, <3>1
    <3>2. CASE n + 1 < i
      BY <2>1, <3>2 DEF Ordered
    <3> QED
      BY <1>1, <1>5, <3>1, <3>2
  <2> QED
    BY <2>1, <2>2, <2>3 DEF Stale, WindowAssumption
<1>6. Kept(e) \subseteq Fresh(q)
  BY <1>1, <1>3, <1>5 DEF Kept, Fresh
<1>7. Fresh(q) \subseteq Kept(e)
  <2> SUFFICES ASSUME NEW i \in 1..Len(q), ~Stale(q[i]) PROVE q[i] \in Kept(e)
    BY DEF Fresh, Kept
  <2>1. i > n
    BY <1>1
  <2>2. i - n \in 1..Len(e) /\ e[i - n] = q[i]
    BY <1>1, <1>3, <2>1
  <2> QED
    BY <2>2 DEF Kept
<1> QED
  BY <1>3, <1>4, <1>6, <1>7 DEF e

(* Positions of a queue and the failures at them are equally many, as no   *)
(* failure is in a queue twice.                                            *)
LEMMA CountFacts ==
  ASSUME NEW q, q \in Seq(Failures), Ordered(q), NEW I, I \subseteq 1..Len(q)
  PROVE  Cardinality({q[i] : i \in I}) = Cardinality(I) /\ Cardinality(I) \in Nat
<1> DEFINE T == {q[i] : i \in I}
           f == [i \in I |-> q[i]]
<1>1. IsFiniteSet(I) /\ Cardinality(I) \in Nat
  <2>1. IsFiniteSet(1..Len(q))
    BY FS_Interval
  <2> QED
    BY <2>1, FS_Subset, FS_CardinalityType
<1>2. ASSUME NEW i \in I, NEW j \in I, i # j PROVE q[i] # q[j]
  <2>1. i \in 1..Len(q) /\ j \in 1..Len(q) /\ (i < j \/ j < i)
    BY <1>2
  <2>2. q[i].id # q[j].id
    <3>1. q[i] \in Failures /\ q[j] \in Failures
      BY <2>1
    <3>2. q[i].id \in Int /\ q[j].id \in Int
      BY <3>1 DEF Failures
    <3> QED
      BY <2>1, <3>2 DEF Ordered
  <2> QED
    BY <2>2
<1>3. f \in [I -> T] /\ (\A i, j \in I : f[i] = f[j] => i = j)
      /\ (\A t \in T : \E i \in I : f[i] = t)
  BY <1>2
<1> HIDE DEF f, T
<1>4. f \in Bijection(I, T)
  BY <1>3 DEF Bijection, Injection, Surjection, IsInjective
<1>5. ExistsBijection(I, T)
  BY <1>4 DEF ExistsBijection
<1>6. Cardinality(T) = Cardinality(I)
  BY <1>1, <1>5, FS_Bijection
<1> QED
  BY <1>1, <1>6 DEF T

(* An answer from a queue is the answer from its failures.                 *)
LEMMA AnswerFacts ==
  ASSUME NEW q, q \in Seq(Failures), Ordered(q)
  PROVE  /\ AnswerFrom(q) = Log!Answer(Kept(q))
         /\ AnswerFrom(q) \in [count : Nat, sources : SUBSET Proxies, bySource : [Proxies -> Nat]]
<1>1. Len(q) \in Nat /\ \A i \in 1..Len(q) : q[i] \in Failures
  OBVIOUS
<1>2. Cardinality(Kept(q)) = Len(q)
  <2>1. Cardinality(1..Len(q)) = IF 1 > Len(q) THEN 0 ELSE Len(q) - 1 + 1
    <3>1. 1 \in Int /\ Len(q) \in Int
      BY <1>1
    <3> QED
      BY <3>1, FS_Interval, Zenon
  <2>2. Cardinality(1..Len(q)) = Len(q)
    BY <1>1, <2>1
  <2> QED
    BY <2>2, CountFacts DEF Kept
<1>3. {f.source : f \in Kept(q)} = {q[i].source : i \in 1..Len(q)}
  BY DEF Kept
<1>4. ASSUME NEW p \in Proxies
      PROVE  /\ Cardinality({f \in Kept(q) : f.source = p}) =
                   Cardinality({i \in 1..Len(q) : q[i].source = p})
             /\ Cardinality({i \in 1..Len(q) : q[i].source = p}) \in Nat
  <2> DEFINE I == {i \in 1..Len(q) : q[i].source = p}
  <2>1. {f \in Kept(q) : f.source = p} = {q[i] : i \in I}
    BY DEF Kept
  <2>2. I \subseteq 1..Len(q)
    OBVIOUS
  <2> HIDE DEF I
  <2>3. Cardinality({q[i] : i \in I}) = Cardinality(I) /\ Cardinality(I) \in Nat
    BY <2>2, CountFacts
  <2> QED
    BY <2>1, <2>3 DEF I
<1>5. [p \in Proxies |-> Cardinality({i \in 1..Len(q) : q[i].source = p})] =
        [p \in Proxies |-> Cardinality({f \in Kept(q) : f.source = p})]
  BY <1>4
<1>6. AnswerFrom(q) = Log!Answer(Kept(q))
  <2>1. Log!Answer(Kept(q)) =
          [count |-> Cardinality(Kept(q)),
           sources |-> {f.source : f \in Kept(q)} \ {Inferred},
           bySource |-> [p \in Proxies |-> Cardinality({f \in Kept(q) : f.source = p})]]
    BY Zenon DEF Log!Answer, Log!Cardinality, Cardinality
  <2> QED
    BY <1>2, <1>3, <1>5, <2>1, Zenon DEF AnswerFrom
<1>7. {q[i].source : i \in 1..Len(q)} \ {Inferred} \in SUBSET Proxies
  BY <1>1 DEF Failures, Sources
<1>8. [p \in Proxies |-> Cardinality({i \in 1..Len(q) : q[i].source = p})] \in [Proxies -> Nat]
  BY <1>4
<1> QED
  BY <1>1, <1>6, <1>7, <1>8 DEF AnswerFrom

(* A failure booked now goes to the end of a queue in order, as a fresh    *)
(* one.                                                                    *)
LEMMA AppendFacts ==
  ASSUME WindowAssumption, TypeOK, booked < MaxBooked,
         NEW a \in Addresses, NEW s \in Sources, NEW q, Proper(q, a)
  PROVE  LET f == Failure(booked + 1, a, now, s)
         IN  /\ f \in Failures /\ ~Stale(f)
             /\ Append(q, f) \in Seq(Failures) /\ Ordered(Append(q, f))
             /\ Fresh(Append(q, f)) = Fresh(q) \cup {f}
             /\ \A i \in 1..Len(Append(q, f)) :
                   /\ Append(q, f)[i].address = a
                   /\ Append(q, f)[i].id <= booked + 1
                   /\ Append(q, f)[i].at <= now
<1> DEFINE f == Failure(booked + 1, a, now, s)
           r == Append(q, f)
<1>1. f \in Failures /\ ~Stale(f)
  BY DEF Failure, Failures, TypeOK, Stale, WindowAssumption
<1>2. f.address = a /\ f.id = booked + 1 /\ f.at = now
  BY DEF Failure
<1> HIDE DEF f
<1>3. /\ q \in Seq(Failures) /\ Len(q) \in Nat /\ r \in Seq(Failures)
      /\ Len(r) = Len(q) + 1 /\ r[Len(q) + 1] = f
      /\ \A i \in 1..Len(q) : r[i] = q[i] /\ q[i] \in Failures
  BY <1>1 DEF Proper
<1> HIDE DEF r
<1>4. Kept(r) = Kept(q) \cup {f}
  BY <1>3 DEF Kept
<1>5. Fresh(r) = Fresh(q) \cup {f}
  BY <1>1, <1>4 DEF Fresh
<1>6. \A i \in 1..Len(q) : q[i].id \in Nat /\ q[i].at \in Nat
  <2>1. \A g \in Failures : g.id \in Nat /\ g.at \in Nat
    BY DEF Failures, WindowAssumption
  <2> QED
    BY <1>3, <2>1
<1>7. booked \in Nat /\ now \in Nat
  BY DEF TypeOK
<1>8. Ordered(r)
  <2> SUFFICES ASSUME NEW i \in 1..Len(r), NEW j \in 1..Len(r), i < j
               PROVE  r[i].id < r[j].id /\ r[i].at <= r[j].at
    BY DEF Ordered
  <2>1. i \in 1..Len(q)
    BY <1>3
  <2>2. CASE j \in 1..Len(q)
    BY <1>3, <2>1, <2>2 DEF Proper, Ordered
  <2>3. CASE j = Len(q) + 1
    BY <1>2, <1>3, <1>6, <1>7, <2>1, <2>3 DEF Proper
  <2> QED
    BY <1>3, <2>2, <2>3
<1>9. \A i \in 1..Len(r) : r[i].address = a /\ r[i].id <= booked + 1 /\ r[i].at <= now
  BY <1>2, <1>3, <1>6, <1>7 DEF Proper
<1> QED
  BY <1>1, <1>3, <1>5, <1>8, <1>9 DEF f, r

-----------------------------------------------------------------------------
(* Eviction leaves a proper queue, and does not change what is fresh.      *)
LEMMA EvictedProper ==
  ASSUME WindowAssumption, TypeOK, NEW a \in Addresses, NEW q, q \in Seq(Failures), Ordered(q),
         NEW n \in Nat,
         \A i \in 1..Len(q) : q[i].address = a /\ q[i].id <= n /\ q[i].at <= now
  PROVE  /\ Evicted(q) \in Seq(Failures) /\ Ordered(Evicted(q))
         /\ \A i \in 1..Len(Evicted(q)) :
               /\ Evicted(q)[i].address = a
               /\ Evicted(q)[i].id <= n
               /\ Evicted(q)[i].at <= now
         /\ Kept(Evicted(q)) = Fresh(q) /\ Fresh(Evicted(q)) = Fresh(q)
<1>1. now \in Nat
  BY DEF TypeOK, WindowAssumption
<1>2. /\ Evicted(q) \in Seq(Failures) /\ Ordered(Evicted(q))
      /\ Kept(Evicted(q)) = Fresh(q)
      /\ \A i \in 1..Len(Evicted(q)) : \E j \in 1..Len(q) : Evicted(q)[i] = q[j]
  BY <1>1, EvictedFacts
<1>3. Fresh(Evicted(q)) = Fresh(q)
  BY <1>2 DEF Fresh
<1> QED
  BY <1>2, <1>3

(* A change of one queue changes what is live by what is fresh in it.      *)
LEMMA LiveChange ==
  ASSUME now' = now, events \in [Addresses -> Seq(Failures)], NEW a \in Addresses,
         NEW STATE e, events' = [events EXCEPT ![a] = e],
         NEW F, Fresh(e) = Fresh(events[a]) \cup F
  PROVE  Live' = Live \cup F
<1>1. \A b \in Addresses : Fresh(events[b])' = Fresh(events'[b])
  BY DEF Fresh, Kept, Stale
<1>2. \A b \in Addresses \ {a} : events'[b] = events[b]
  OBVIOUS
<1>3. events'[a] = e
  OBVIOUS
<1>4. Live' = UNION {Fresh(events'[b]) : b \in Addresses}
  BY <1>1 DEF Live
<1> QED
  BY <1>2, <1>3, <1>4 DEF Live

LEMMA RecordStep ==
  ASSUME WindowAssumption, WindowInv, NEW a \in Addresses, NEW s \in Sources, Record(a, s)
  PROVE  WindowInv' /\ Log!Book(a, s)
<1> DEFINE f == Failure(booked + 1, a, now, s)
           r == Append(events[a], f)
<1>1. TypeOK /\ Proper(events[a], a) /\ booked \in Nat /\ now \in Nat /\ booked < MaxBooked
  BY DEF WindowInv, TypeOK, Record
<1>2. /\ r \in Seq(Failures) /\ Ordered(r) /\ Fresh(r) = Fresh(events[a]) \cup {f}
      /\ \A i \in 1..Len(r) : r[i].address = a /\ r[i].id <= booked + 1 /\ r[i].at <= now
  BY <1>1, AppendFacts
<1>3. /\ booked' = booked + 1 /\ UNCHANGED <<now, answer>>
      /\ events' = [events EXCEPT ![a] = Evicted(r)]
  BY DEF Record
<1> HIDE DEF r
<1>4. /\ Evicted(r) \in Seq(Failures) /\ Ordered(Evicted(r))
      /\ \A i \in 1..Len(Evicted(r)) :
            /\ Evicted(r)[i].address = a
            /\ Evicted(r)[i].id <= booked + 1
            /\ Evicted(r)[i].at <= now
      /\ Fresh(Evicted(r)) = Fresh(events[a]) \cup {f}
  <2> DEFINE n == booked + 1
  <2>1. n \in Nat
    BY <1>1
  <2>2. \A i \in 1..Len(r) : r[i].address = a /\ r[i].id <= n /\ r[i].at <= now
    BY <1>2
  <2> HIDE DEF n
  <2>3. /\ Evicted(r) \in Seq(Failures) /\ Ordered(Evicted(r))
        /\ \A i \in 1..Len(Evicted(r)) :
              /\ Evicted(r)[i].address = a
              /\ Evicted(r)[i].id <= n
              /\ Evicted(r)[i].at <= now
        /\ Fresh(Evicted(r)) = Fresh(r)
    BY <1>1, <1>2, <2>1, <2>2, EvictedProper
  <2> QED
    BY <1>2, <2>3 DEF n
<1> DEFINE e == Evicted(r)
<1> HIDE DEF e, f
<1>5. events' \in [Addresses -> Seq(Failures)]
  BY <1>1, <1>3, <1>4 DEF e, TypeOK
<1>6. TypeOK'
  BY <1>1, <1>3, <1>5 DEF TypeOK, WindowAssumption
<1>7. \A b \in Addresses : Proper(events[b], b)'
  <2> SUFFICES ASSUME NEW b \in Addresses PROVE Proper(events[b], b)'
    OBVIOUS
  <2>1. CASE b = a
    <3>1. events'[b] = e
      BY <1>1, <1>3, <2>1 DEF e, TypeOK
    <3> QED
      BY <1>3, <1>4, <2>1, <3>1 DEF Proper, Ordered, e
  <2>2. CASE b # a
    <3>1. events'[b] = events[b]
      BY <1>1, <1>3, <2>2 DEF TypeOK
    <3>2. Proper(events[b], b)
      BY DEF WindowInv
    <3>3. \A i \in 1..Len(events[b]) : events[b][i].id \in Nat
      <4>1. \A g \in Failures : g.id \in Nat
        BY DEF Failures, WindowAssumption
      <4> QED
        BY <3>2, <4>1 DEF Proper
    <3> QED
      BY <1>1, <1>3, <3>1, <3>2, <3>3 DEF Proper, Ordered
  <2> QED
    BY <2>1, <2>2
<1>8. Live' = Live \cup {f}
  BY <1>1, <1>3, <1>4, LiveChange DEF e, TypeOK
<1>9. Log!Book(a, s)
  BY <1>3, <1>8 DEF Log!Book, Log!Failure, Failure, f
<1> QED
  BY <1>6, <1>7, <1>9 DEF WindowInv

(* The live failures of an address are the fresh ones of its queue.        *)
LEMMA LiveOf ==
  ASSUME WindowInv, NEW a \in Addresses
  PROVE  {f \in Live : f.address = a} = Fresh(events[a])
<1>1. ASSUME NEW b \in Addresses, NEW f \in Fresh(events[b]) PROVE f.address = b
  BY <1>1 DEF WindowInv, Proper, Fresh, Kept
<1> QED
  BY <1>1 DEF Live

(* Evicting the queue of an address leaves what its readers see.           *)
LEMMA EvictedHere ==
  ASSUME WindowAssumption, WindowInv, NEW a \in Addresses
  PROVE  /\ Evicted(events[a]) \in Seq(Failures) /\ Ordered(Evicted(events[a]))
         /\ \A i \in 1..Len(Evicted(events[a])) :
               /\ Evicted(events[a])[i].address = a
               /\ Evicted(events[a])[i].id <= booked
               /\ Evicted(events[a])[i].at <= now
         /\ Kept(Evicted(events[a])) = Fresh(events[a])
         /\ Fresh(Evicted(events[a])) = Fresh(events[a])
<1> DEFINE q == events[a]
           n == booked
<1>1. /\ TypeOK /\ q \in Seq(Failures) /\ Ordered(q) /\ now \in Nat /\ n \in Nat
      /\ \A i \in 1..Len(q) : q[i].address = a /\ q[i].id <= n /\ q[i].at <= now
  BY DEF WindowInv, TypeOK, Proper
<1> HIDE DEF q, n
<1>2. /\ Evicted(q) \in Seq(Failures) /\ Ordered(Evicted(q))
      /\ \A i \in 1..Len(Evicted(q)) :
            /\ Evicted(q)[i].address = a
            /\ Evicted(q)[i].id <= n
            /\ Evicted(q)[i].at <= now
      /\ Kept(Evicted(q)) = Fresh(q)
      /\ Fresh(Evicted(q)) = Fresh(q)
  BY <1>1, EvictedProper
<1> QED
  BY <1>2 DEF q, n

LEMMA ReadStep ==
  ASSUME WindowAssumption, WindowInv, NEW a \in Addresses, Read(a)
  PROVE  WindowInv' /\ Log!Ask(a)
<1> DEFINE e == Evicted(events[a])
<1>1. TypeOK /\ Proper(events[a], a) /\ booked \in Nat /\ now \in Nat
  BY DEF WindowInv, TypeOK
<1>2. /\ e \in Seq(Failures) /\ Ordered(e)
      /\ \A i \in 1..Len(e) : e[i].address = a /\ e[i].id <= booked /\ e[i].at <= now
      /\ Kept(e) = Fresh(events[a]) /\ Fresh(e) = Fresh(events[a]) \cup {}
  BY <1>1, EvictedHere
<1>3. /\ UNCHANGED <<now, booked>> /\ answer' = AnswerFrom(e)
      /\ events' = [events EXCEPT ![a] = e]
  BY DEF Read
<1> HIDE DEF e
<1>4. /\ answer' = Log!Answer(Kept(e))
      /\ answer' \in [count : Nat, sources : SUBSET Proxies, bySource : [Proxies -> Nat]]
  BY <1>2, <1>3, AnswerFacts
<1>5. events' \in [Addresses -> Seq(Failures)]
  BY <1>1, <1>2, <1>3 DEF TypeOK
<1>6. TypeOK'
  BY <1>1, <1>3, <1>4, <1>5 DEF TypeOK
<1>7. \A b \in Addresses : Proper(events[b], b)'
  <2> SUFFICES ASSUME NEW b \in Addresses PROVE Proper(events[b], b)'
    OBVIOUS
  <2>1. events'[b] = IF b = a THEN e ELSE events[b]
    BY <1>1, <1>3 DEF TypeOK
  <2>2. Proper(events[b], b)
    BY DEF WindowInv
  <2>3. CASE b = a
    BY <1>2, <1>3, <2>1, <2>3 DEF Proper, Ordered
  <2>4. CASE b # a
    BY <1>3, <2>1, <2>2, <2>4 DEF Proper, Ordered
  <2> QED
    BY <2>3, <2>4
<1>8. Live' = Live
  <2>1. Live' = Live \cup {}
    BY <1>1, <1>2, <1>3, LiveChange DEF TypeOK
  <2> QED
    BY <2>1
<1>9. answer' = Log!Answer({f \in Live : f.address = a})
  BY <1>2, <1>4, LiveOf
<1> QED
  BY <1>3, <1>6, <1>7, <1>8, <1>9 DEF WindowInv, Log!Ask

LEMMA SweepStep ==
  ASSUME WindowAssumption, WindowInv, Sweep
  PROVE  /\ WindowInv' /\ UNCHANGED <<now, booked, Live, answer>>
         /\ \A a \in Addresses : Kept(events'[a]) = Fresh(events[a])
<1>1. TypeOK /\ booked \in Nat /\ now \in Nat
      /\ \A a \in Addresses : events[a] \in Seq(Failures) /\ Proper(events[a], a)
  BY DEF WindowInv, TypeOK
<1>2. ASSUME NEW a \in Addresses
      PROVE  /\ Evicted(events[a]) \in Seq(Failures) /\ Ordered(Evicted(events[a]))
             /\ \A i \in 1..Len(Evicted(events[a])) :
                   /\ Evicted(events[a])[i].address = a
                   /\ Evicted(events[a])[i].id <= booked
                   /\ Evicted(events[a])[i].at <= now
             /\ Kept(Evicted(events[a])) = Fresh(events[a])
             /\ Fresh(Evicted(events[a])) = Fresh(events[a])
  BY <1>1, <1>2, EvictedHere
<1>3. /\ UNCHANGED <<now, booked, answer>>
      /\ \A a \in Addresses : events'[a] = Evicted(events[a])
      /\ events' \in [Addresses -> Seq(Failures)]
  BY <1>2 DEF Sweep, Swept
<1>4. TypeOK'
  BY <1>1, <1>3 DEF TypeOK
<1>5. \A a \in Addresses : Proper(events[a], a)'
  BY <1>2, <1>3 DEF Proper, Ordered
<1>6. \A a \in Addresses : Fresh(events[a])' = Fresh(events[a])
  <2> SUFFICES ASSUME NEW a \in Addresses PROVE Fresh(events[a])' = Fresh(events[a])
    OBVIOUS
  <2>1. Fresh(events[a])' = Fresh(events'[a])
    BY <1>3 DEF Fresh, Kept, Stale
  <2> QED
    BY <1>2, <1>3, <2>1
<1>7. Live' = Live
  BY <1>6 DEF Live
<1> QED
  BY <1>2, <1>3, <1>4, <1>5, <1>7 DEF WindowInv

LEMMA TickStep ==
  ASSUME WindowAssumption, WindowInv, Tick
  PROVE  WindowInv' /\ Log!Pass
<1>1. TypeOK /\ now \in Nat /\ now < MaxTime /\ now' = now + 1
      /\ UNCHANGED <<events, booked, answer>>
  BY DEF WindowInv, TypeOK, Tick
<1>2. \A g \in Failures : g.at \in Nat
  BY DEF Failures, WindowAssumption
<1>3. TypeOK'
  BY <1>1 DEF TypeOK, WindowAssumption
<1>4. ASSUME NEW a \in Addresses PROVE Proper(events[a], a)'
  <2>1. Proper(events[a], a)
    BY DEF WindowInv
  <2>2. \A i \in 1..Len(events[a]) : events[a][i].at \in Nat
    BY <1>2, <2>1 DEF Proper
  <2> QED
    BY <1>1, <2>1, <2>2 DEF Proper, Ordered
<1>5. ASSUME NEW g \in Failures
      PROVE  /\ ~Stale(g)' <=> Log!Alive(g, now + 1)
             /\ Log!Alive(g, now + 1) => ~Stale(g)
  <2>1. g.at \in Nat
    BY <1>2
  <2> QED
    BY <1>1, <2>1 DEF Stale, Log!Alive, WindowAssumption
<1>6. \A a \in Addresses : Kept(events[a]) \subseteq Failures
  BY DEF WindowInv, Proper, Kept
<1>7. \A a \in Addresses : Fresh(events[a])' = {f \in Fresh(events[a]) : Log!Alive(f, now + 1)}
  <2> SUFFICES ASSUME NEW a \in Addresses
               PROVE  Fresh(events[a])' = {f \in Fresh(events[a]) : Log!Alive(f, now + 1)}
    OBVIOUS
  <2>1. Kept(events[a])' = Kept(events[a])
    BY <1>1 DEF Kept
  <2>2. Fresh(events[a])' = {f \in Kept(events[a]) : ~Stale(f)'}
    BY <2>1 DEF Fresh, Stale
  <2> QED
    BY <1>5, <1>6, <2>2 DEF Fresh
<1>8. Live' = {f \in Live : Log!Alive(f, now + 1)}
  BY <1>7 DEF Live
<1> QED
  BY <1>1, <1>3, <1>4, <1>8 DEF WindowInv, Log!Pass

LEMMA WindowInit ==
  ASSUME WindowAssumption, Init
  PROVE  WindowInv /\ Log!Start
<1> DEFINE none == <<>>
<1>1. none \in Seq(Failures) /\ Len(none) = 0 /\ Ordered(none) /\ Kept(none) = {}
  BY DEF Ordered, Kept
<1> HIDE DEF none
<1>2. events = [a \in Addresses |-> none] /\ now = 0 /\ booked = 0 /\ answer = AnswerFrom(none)
  BY DEF Init, none
<1>3. /\ answer = Log!Answer({})
      /\ answer \in [count : Nat, sources : SUBSET Proxies, bySource : [Proxies -> Nat]]
  BY <1>1, <1>2, AnswerFacts
<1>4. TypeOK
  BY <1>1, <1>2, <1>3 DEF TypeOK, WindowAssumption
<1>5. \A a \in Addresses : Proper(events[a], a)
  BY <1>1, <1>2 DEF Proper
<1>6. Live = {}
  BY <1>1, <1>2 DEF Live, Fresh
<1> QED
  BY <1>2, <1>3, <1>4, <1>5, <1>6 DEF WindowInv, Log!Start

LEMMA WindowStep ==
  ASSUME WindowAssumption, WindowInv, [Next]_vars
  PROVE  WindowInv' /\ [Log!Move]_(Log!log)
<1>1. ASSUME NEW a \in Addresses, NEW s \in Sources, Record(a, s)
      PROVE  WindowInv' /\ Log!Move
  BY <1>1, RecordStep DEF Log!Move, Log!Sources, Sources
<1>2. ASSUME NEW a \in Addresses, Read(a) PROVE WindowInv' /\ Log!Move
  BY <1>2, ReadStep DEF Log!Move
<1>3. CASE Sweep
  BY <1>3, SweepStep DEF Log!log
<1>4. CASE Tick
  BY <1>4, TickStep DEF Log!Move
<1>5. CASE UNCHANGED vars
  <2>1. UNCHANGED <<events, now, booked, answer>>
    BY <1>5 DEF vars
  <2>2. WindowInv'
    BY <2>1 DEF WindowInv, TypeOK, Proper, Ordered
  <2>3. Live' = Live
    BY <2>1 DEF Live, Fresh, Kept, Stale
  <2> QED
    BY <2>1, <2>2, <2>3 DEF Log!log
<1> QED
  BY <1>1, <1>2, <1>3, <1>4, <1>5 DEF Next

LEMMA WindowAlways == Spec => []WindowInv
<1>1. Init => WindowInv
  BY WindowAssumption, WindowInit
<1>2. WindowInv /\ [Next]_vars => WindowInv'
  BY WindowAssumption, WindowStep
<1> QED
  BY <1>1, <1>2, PTL DEF Spec

(* Types, for any addresses, proxies, window and bounds.                   *)
THEOREM TypeCorrect == Spec => []TypeOK
<1>1. WindowInv => TypeOK
  BY DEF WindowInv
<1> QED
  BY <1>1, WindowAlways, PTL

(* Every queue is in the order of the clock and of the bookings, so the    *)
(* head is the oldest: evicting from the head cannot miss a stale failure. *)
THEOREM QueuesInOrder == Spec => []InOrder
<1>1. WindowInv => InOrder
  BY DEF WindowInv, Proper, InOrder
<1> QED
  BY <1>1, WindowAlways, PTL

(* A sweep leaves exactly the failures that are not stale.                 *)
THEOREM SweepLeavesFresh == Spec => SweepCleans
<1>1. WindowInv /\ [Next]_vars =>
        [Sweep => \A a \in Addresses : Kept(events'[a]) = Fresh(events[a])]_vars
  BY WindowAssumption, SweepStep
<1> QED
  BY <1>1, WindowAlways, PTL DEF Spec, SweepCleans

(* The window, which evicts only what it touches, implements the log that  *)
(* forgets each failure by itself: no question tells them apart.           *)
THEOREM LazyIsInvisible == Spec => KeepsPromise
<1>1. Init => Log!Start
  BY WindowAssumption, WindowInit
<1>2. WindowInv /\ [Next]_vars => [Log!Move]_(Log!log)
  BY WindowAssumption, WindowStep
<1> QED
  BY <1>1, <1>2, WindowAlways, PTL DEF Spec, KeepsPromise, Log!Promise

-----------------------------------------------------------------------------
(***************************************************************************)
(* The list of bonds, from the proxy's store to an accusation. Nobody is   *)
(* accused but of what happened, for any number of addresses and any       *)
(* length of the list.                                                     *)
(***************************************************************************)

(* What is read off a state has every address but some that lacked a bond. *)
Covers(state, lacked) ==
  state.kind = "list" => Peers \ state.bonds \subseteq lacked

(* It has to hold of the firmware's sensor, too: the next connection sends *)
(* what that has.                                                          *)
BondInv ==
  /\ BondTypeOK
  /\ Covers(published, lackedP)
  /\ Covers(shown, lackedS)

(* A state without a reading covers whatever lacked a bond.                *)
LEMMA WithoutFacts ==
  ASSUME NEW kind \in {"unknown", "unavailable", "garbled"}
  PROVE  /\ Without(kind) \in SensorState
         /\ \A lacked : Covers(Without(kind), lacked)
  BY DEF Without, SensorState, Covers

(* The text of a list covers those that are not in the store.              *)
LEMMA TextFacts ==
  ASSUME store \in SUBSET Peers
  PROVE  Text \in SensorState /\ Covers(Text, Peers \ store)
<1>1. CASE foreign /\ store # {}
  BY <1>1, WithoutFacts DEF Text
<1>2. CASE ~(foreign /\ store # {})
  BY <1>2 DEF Text, SensorState, Covers
<1> QED
  BY <1>1, <1>2

(* The accused lack a bond on the list that is shown.                      *)
LEMMA VerdictFacts ==
  ASSUME BondTypeOK
  PROVE  /\ Verdict \subseteq refused
         /\ \A lacked : Covers(shown, lacked) => Verdict \subseteq lacked
<1>1. ASSUME NEW a \in Verdict
      PROVE  a \in refused /\ shown.kind = "list" /\ a \notin shown.bonds
  <2>1. PICK s \in States : s.kind = "list" /\ a \in Suspects(s.bonds)
    BY <1>1 DEF Verdict, Readings
  <2>2. s = shown
    BY <2>1 DEF States, Without
  <2> QED
    BY <2>1, <2>2 DEF Suspects
<1>2. \A a \in Verdict : a \in Peers
  BY <1>1 DEF BondTypeOK
<1> QED
  BY <1>1, <1>2 DEF Covers

LEMMA BondStart == BondInit => BondInv
<1> SUFFICES ASSUME BondInit PROVE BondInv
  OBVIOUS
<1>1. Without("unknown") \in SensorState /\ \A lacked : Covers(Without("unknown"), lacked)
  BY WithoutFacts
<1> QED
  BY <1>1 DEF BondInit, BondInv, BondTypeOK

-----------------------------------------------------------------------------
(* One lemma for each action that changes what a sensor shows, or what     *)
(* lacked a bond since.                                                    *)

LEMMA BondReboot == BondInv /\ Reboot => BondInv'
<1> SUFFICES ASSUME BondInv, Reboot PROVE BondInv'
  OBVIOUS
<1>1. Boot \in SensorState /\ \A lacked : Covers(Boot, lacked)
  BY WithoutFacts DEF Boot
<1>2. published' \in SensorState /\ Covers(published', lackedP')
  BY <1>1 DEF Reboot
<1>3. Covers(shown', lackedS')
  BY DEF Reboot, BondInv, history, Covers
<1>4. BondTypeOK'
  BY <1>2 DEF Reboot, BondInv, BondTypeOK, integration, history
<1> QED
  BY <1>2, <1>3, <1>4 DEF BondInv, Covers

LEMMA BondPublish == BondInv /\ Publish => BondInv'
<1> SUFFICES ASSUME BondInv, Publish PROVE BondInv'
  OBVIOUS
<1>1. published' \in SensorState /\ Covers(published', lackedP')
  BY TextFacts DEF Publish, Tell, BondInv, BondTypeOK
<1>2. shown' \in SensorState /\ Covers(shown', lackedS')
  <2>1. CASE link = "up"
    BY <1>1, <2>1 DEF Publish
  <2>2. CASE link # "up"
    BY <2>2 DEF Publish, BondInv, BondTypeOK, Covers
  <2> QED
    BY <2>1, <2>2
<1>3. lackedP' \in SUBSET Peers /\ lackedS' \in SUBSET Peers
  BY DEF Publish, BondInv, BondTypeOK
<1>4. BondTypeOK'
  BY <1>1, <1>2, <1>3 DEF Publish, BondInv, BondTypeOK, integration
<1> QED
  BY <1>1, <1>2, <1>4 DEF BondInv, Covers

LEMMA UnbondStep == ASSUME NEW a \in Peers PROVE BondInv /\ Unbond(a) => BondInv'
<1> SUFFICES ASSUME BondInv, Unbond(a) PROVE BondInv'
  OBVIOUS
<1>1. BondTypeOK'
  BY DEF Unbond, BondInv, BondTypeOK, entity, integration
<1>2. Covers(published, lackedP') /\ Covers(shown, lackedS')
  BY DEF Unbond, BondInv, Covers
<1> QED
  BY <1>1, <1>2 DEF Unbond, entity, BondInv, Covers

LEMMA BondConnect == BondInv /\ Connect => BondInv'
<1> SUFFICES ASSUME BondInv, Connect PROVE BondInv'
  OBVIOUS
<1>1. BondTypeOK'
  BY DEF Connect, BondInv, BondTypeOK, firmware, integration
<1> QED
  BY <1>1 DEF Connect, BondInv, Covers, firmware

LEMMA BondSnapshot == BondInv /\ Snapshot => BondInv'
<1> SUFFICES ASSUME BondInv, Snapshot PROVE BondInv'
  OBVIOUS
<1>1. accused' \in SUBSET Peers
  BY VerdictFacts DEF Snapshot, BondInv, BondTypeOK
<1>2. BondTypeOK'
  BY <1>1 DEF Snapshot, BondInv, BondTypeOK, firmware, entity, history
<1> QED
  BY <1>2 DEF Snapshot, BondInv, Covers, firmware, entity, history

LEMMA BondStep == BondInv /\ [BondNext]_bondVars => BondInv'
<1> SUFFICES ASSUME BondInv, [BondNext]_bondVars PROVE BondInv'
  OBVIOUS
<1> USE DEF BondInv, BondTypeOK, Covers, firmware, entity, integration, history
<1>1. CASE Reboot
  BY <1>1, BondReboot
<1>2. CASE StackUp
  BY <1>2 DEF StackUp
<1>3. CASE Publish
  BY <1>3, BondPublish
<1>4. CASE Lose
  BY <1>4 DEF Lose
<1>5. CASE Notice
  BY <1>5 DEF Notice
<1>6. CASE Connect
  BY <1>6, BondConnect
<1>7. CASE Snapshot
  BY <1>7, BondSnapshot
<1>8. CASE Restart
  BY <1>8 DEF Restart
<1>9. ASSUME NEW a \in Peers, Bond(a) \/ Refuse(a) \/ Age(a) PROVE BondInv'
  <2>1. CASE Bond(a)
    BY <2>1 DEF Bond
  <2>2. CASE Refuse(a)
    BY <2>2 DEF Refuse
  <2>3. CASE Age(a)
    BY <2>3 DEF Age
  <2> QED
    BY <1>9, <2>1, <2>2, <2>3
<1>10. ASSUME NEW a \in Peers, Unbond(a) PROVE BondInv'
  BY <1>10, UnbondStep
<1>11. CASE UNCHANGED bondVars
  BY <1>11 DEF bondVars
<1> QED
  BY <1>1, <1>2, <1>3, <1>4, <1>5, <1>6, <1>7, <1>8, <1>9, <1>10, <1>11 DEF BondNext

-----------------------------------------------------------------------------
(* What is read off the sensors has every address that had a bond ever     *)
(* since the list was read, however the firmware reboots and links are     *)
(* lost.                                                                   *)
THEOREM BondCorrect == BondSpec => []BondInv
<1>1. BondInit => BondInv
  BY BondStart
<1>2. BondInv /\ [BondNext]_bondVars => BondInv'
  BY BondStep
<1> QED
  BY <1>1, <1>2, PTL DEF BondSpec

(* The variables keep their types.                                         *)
THEOREM BondTypeCorrect == BondSpec => []BondTypeOK
<1>1. BondInv => BondTypeOK
  BY DEF BondInv
<1> QED
  BY <1>1, BondCorrect, PTL

(* A snapshot accuses an address of having lost its bond only when it had  *)
(* none at some moment since the list it is judged by was read.            *)
THEOREM BondAccusations == BondSpec => []AccusedLackedBond
<1>1. BondInv => AccusedLackedBond
  BY VerdictFacts DEF BondInv, AccusedLackedBond, AccusedLackedBond
<1> QED
  BY <1>1, BondCorrect, PTL
=============================================================================
