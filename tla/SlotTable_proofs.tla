-------------------------- MODULE SlotTable_proofs --------------------------
(***************************************************************************)
(* What the firmware shows of its connections, for any number of clients,  *)
(* connection ids and devices, any queue and any clock.                    *)
(***************************************************************************)
EXTENDS SlotTable, FiniteSetTheorems, FunctionTheorems, WellFoundedInduction, TLAPS

Kinds == {"connect", "open", "open_failed", "close", "disconnect", "traffic"}

(* Events that are in the queue; an OPEN names a key.                      *)
Events ==
  {e \in [kind : Kinds, key : Keys \cup {<<>>}, address : Addresses] :
     e.kind = "open" => e.key \in Keys}

(* Handling e gives key k a record for a, or takes it away.                *)
Opens(e, k, a) == e.kind = "open" /\ e.key = k /\ e.address = a
Ends(e, k, a) ==
  \/ e.kind = "close" /\ e.key = k
  \/ e.kind = "disconnect" /\ e.address = a
  \/ e.kind = "open" /\ e.key = k /\ e.address # a

Has(t, k, a) == k \in DOMAIN t /\ t[k].address = a

(* The first m events leave k with a record for a: the last of them that   *)
(* concerns it opens it, or it is there and none ends it.                  *)
Stays(i, m, k, a) == \A j \in (i + 1)..m : ~Ends(queue[j], k, a)
Kept(m, k, a) ==
  \/ \E i \in 1..m : Opens(queue[i], k, a) /\ Stays(i, m, k, a)
  \/ Has(table, k, a) /\ Stays(0, m, k, a)

Holds(c, a) == held[c] # None /\ held[c].address = a

(* The record of c is no older than its last traffic, or will be renewed.  *)
Timed(c) ==
  \/ \E i \in 1..Len(queue) :
       queue[i].key = held[c].key /\ queue[i].kind \in {"open", "traffic"}
  \/ held[c].key \in DOMAIN table /\ table[held[c].key].age <= quiet[c]

TableOK(t) ==
  /\ DOMAIN t \subseteq Keys
  /\ IsFiniteSet(DOMAIN t)
  /\ Cardinality(DOMAIN t) <= TableSize
  /\ \A k \in DOMAIN t : t[k] \in [address : Addresses, age : 0..MaxAge]

TypeInv ==
  /\ TypeOK
  /\ TableOK(table)
  /\ queue \in Seq(Events)
  /\ \A c \in Clients : held[c] # None => held[c].key[1] = c

(* Every connection will have its record, with a true time ...             *)
HoldInv ==
  \A c \in Clients : held[c] # None =>
    Kept(Len(queue), held[c].key, held[c].address) /\ Timed(c)

(* ... and every record that will be left is for a device that is held.    *)
ListInv ==
  /\ \A k \in Keys, a \in Addresses :
       Kept(Len(queue), k, a) => \E c \in Clients : Holds(c, a)
  /\ Shown(text) = Shown(Fields(table))

-----------------------------------------------------------------------------
(* Natural numbers. *)

(* Every set of naturals that is not empty has a least element.            *)
LEMMA LeastNat ==
  ASSUME NEW T, T \subseteq Nat, T # {}
  PROVE  \E m \in T : \A k \in T : m <= k
<1> DEFINE R == OpToRel(<, Nat)
<1>1. IsWellFoundedOn(R, Nat)
  BY NatLessThanWellFounded
<1>2. \A x, y \in Nat : <<x, y>> \in R <=> x < y
  BY DEF OpToRel
<1> HIDE DEF R
<1>3. PICK m \in T : \A k \in T : ~(<<k, m>> \in R)
  <2>1. \E m \in T : \A k \in T : ~(<<k, m>> \in R)
    BY <1>1, WFMin, Zenon
  <2> QED
    BY <2>1
<1>4. ASSUME NEW k \in T PROVE m <= k
  <2>1. k \in Nat /\ m \in Nat
    OBVIOUS
  <2>2. ~(k < m)
    BY <1>2, <1>3, <2>1
  <2> QED
    BY <2>1, <2>2
<1> QED
  BY <1>3, <1>4

(* A set of naturals that has 0, and with each number the next, has all of *)
(* them.                                                                   *)
LEMMA AllNaturals ==
  ASSUME NEW S, 0 \in S, \A n \in Nat : n \in S => n + 1 \in S
  PROVE  Nat \subseteq S
<1> SUFFICES ASSUME Nat \ S # {} PROVE FALSE
  OBVIOUS
<1>1. PICK m \in Nat \ S : \A n \in Nat \ S : m <= n
  BY LeastNat
<1>2. m # 0 /\ m - 1 \in Nat
  BY <1>1
<1>3. m - 1 \in S
  BY <1>1, <1>2
<1> QED
  BY <1>1, <1>2, <1>3

-----------------------------------------------------------------------------
(* What handling one event does.                                           *)

(* Part of a table that is within its bounds is, too.                      *)
LEMMA RestrictType ==
  ASSUME NEW t, TableOK(t), NEW S \in SUBSET DOMAIN t
  PROVE  /\ TableOK(Restrict(t, S))
         /\ DOMAIN Restrict(t, S) = S
         /\ \A k \in S : Restrict(t, S)[k] = t[k]
<1>1. /\ DOMAIN Restrict(t, S) = S
      /\ \A k \in S : Restrict(t, S)[k] = t[k]
  BY DEF Restrict
<1>2. IsFiniteSet(S) /\ Cardinality(S) <= Cardinality(DOMAIN t) /\ Cardinality(S) \in Nat
      /\ Cardinality(DOMAIN t) \in Nat
  BY FS_Subset, FS_CardinalityType DEF TableOK
<1>3. Cardinality(S) <= TableSize
  BY <1>2, SlotAssumption DEF TableOK
<1> QED
  BY <1>1, <1>2, <1>3 DEF TableOK

(* open_slot_ keeps the table within its bounds, and every other record.   *)
LEMMA OpenedFacts ==
  ASSUME NEW t, TableOK(t), NEW k \in Keys, NEW a \in Addresses
  PROVE  /\ TableOK(Opened(t, k, a))
         /\ \A i : i # k =>
              /\ i \in DOMAIN Opened(t, k, a) <=> i \in DOMAIN t
              /\ i \in DOMAIN t => Opened(t, k, a)[i] = t[i]
         /\ k \in DOMAIN Opened(t, k, a) => Opened(t, k, a)[k] = Fresh(a)
         /\ k \in DOMAIN t \/ Cardinality(DOMAIN t) < TableSize => k \in DOMAIN Opened(t, k, a)
<1>1. CASE k \in DOMAIN t \/ Cardinality(DOMAIN t) < TableSize
  <2> DEFINE new == [i \in DOMAIN t \cup {k} |-> IF i = k THEN Fresh(a) ELSE t[i]]
  <2>1. Opened(t, k, a) = new
    BY <1>1 DEF Opened
  <2>2. DOMAIN new = DOMAIN t \cup {k} /\ \A i \in DOMAIN t \cup {k} : new[i] = IF i = k THEN Fresh(a) ELSE t[i]
    OBVIOUS
  <2> HIDE DEF new
  <2>3. /\ IsFiniteSet(DOMAIN t \cup {k})
        /\ Cardinality(DOMAIN t \cup {k}) =
             IF k \in DOMAIN t THEN Cardinality(DOMAIN t) ELSE Cardinality(DOMAIN t) + 1
    BY FS_AddElement DEF TableOK
  <2>4. Cardinality(DOMAIN t) \in Nat
    BY FS_CardinalityType DEF TableOK
  <2>5. Cardinality(DOMAIN t \cup {k}) <= TableSize
    BY <1>1, <2>3, <2>4, SlotAssumption DEF TableOK
  <2>6. Fresh(a) \in [address : Addresses, age : 0..MaxAge]
    BY SlotAssumption DEF Fresh
  <2>7. TableOK(new)
    BY <2>2, <2>3, <2>5, <2>6 DEF TableOK
  <2> QED
    BY <2>1, <2>2, <2>7
<1>2. CASE ~(k \in DOMAIN t \/ Cardinality(DOMAIN t) < TableSize)
  BY <1>2 DEF Opened
<1> QED
  BY <1>1, <1>2

(* Every event keeps the table within its bounds.                          *)
LEMMA HandledType ==
  ASSUME NEW t, TableOK(t), NEW e \in Events
  PROVE  TableOK(Handled(t, e))
<1> e.kind \in Kinds /\ e.address \in Addresses
  BY DEF Events
<1>1. CASE e.kind = "open"
  BY <1>1, OpenedFacts DEF Handled, Events
<1>2. CASE e.kind = "close"
  BY <1>2, RestrictType DEF Handled, Closed
<1>3. CASE e.kind = "disconnect"
  BY <1>3, RestrictType DEF Handled, ClosedForAddress
<1>4. CASE e.kind = "traffic"
  <2>1. CASE e.key \in DOMAIN t
    <3> DEFINE new == [t EXCEPT ![e.key].age = 0]
    <3>1. Handled(t, e) = new
      BY <1>4, <2>1 DEF Handled, Touched
    <3>2. DOMAIN new = DOMAIN t /\ \A i \in DOMAIN t :
            new[i] = IF i = e.key THEN [t[i] EXCEPT !.age = 0] ELSE t[i]
      OBVIOUS
    <3>3. \A i \in DOMAIN t : [t[i] EXCEPT !.age = 0] \in [address : Addresses, age : 0..MaxAge]
      BY SlotAssumption DEF TableOK
    <3> HIDE DEF new
    <3>4. TableOK(new)
      BY <3>2, <3>3 DEF TableOK
    <3> QED
      BY <3>1, <3>4
  <2>2. CASE e.key \notin DOMAIN t
    BY <1>4, <2>2 DEF Handled, Touched
  <2> QED
    BY <2>1, <2>2
<1>5. CASE e.kind \notin {"open", "close", "disconnect", "traffic"}
  BY <1>5 DEF Handled
<1> QED
  BY <1>1, <1>2, <1>3, <1>4, <1>5

(* A record that is there afterwards was opened, or was there and did not  *)
(* end; ...                                                                *)
LEMMA HandledHas ==
  ASSUME NEW t, TableOK(t), NEW e \in Events, NEW k \in Keys, NEW a \in Addresses,
         Has(Handled(t, e), k, a)
  PROVE  Opens(e, k, a) \/ (Has(t, k, a) /\ ~Ends(e, k, a))
<1> e.kind \in Kinds /\ e.address \in Addresses
  BY DEF Events
<1> USE DEF Has, Opens, Ends
<1>1. CASE e.kind = "open"
  <2>1. e.key \in Keys /\ Handled(t, e) = Opened(t, e.key, e.address)
    BY <1>1 DEF Handled, Events
  <2> DEFINE new == Opened(t, e.key, e.address)
  <2>2. /\ \A i : i # e.key =>
             /\ i \in DOMAIN new <=> i \in DOMAIN t
             /\ i \in DOMAIN t => new[i] = t[i]
        /\ e.key \in DOMAIN new => new[e.key] = Fresh(e.address)
        /\ e.key \in DOMAIN t => e.key \in DOMAIN new
    BY <2>1, OpenedFacts
  <2>3. Fresh(e.address).address = e.address /\ Fresh(e.address).age = 0
    BY DEF Fresh
  <2> HIDE DEF new
  <2>4. Handled(t, e) = new
    BY <2>1 DEF new
  <2> QED
    BY <1>1, <2>2, <2>3, <2>4
<1>2. CASE e.kind = "close"
  BY <1>2 DEF Handled, Closed, Restrict
<1>3. CASE e.kind = "disconnect"
  BY <1>3 DEF Handled, ClosedForAddress, Restrict
<1>4. CASE e.kind = "traffic"
  BY <1>4 DEF Handled, Touched
<1>5. CASE e.kind \notin {"open", "close", "disconnect", "traffic"}
  BY <1>5 DEF Handled
<1> QED
  BY <1>1, <1>2, <1>3, <1>4, <1>5

(* ... it is there if it did not end, and then no older, and new where the *)
(* event is one of its key that renews it; ...                             *)
LEMMA HandledKeeps ==
  ASSUME NEW t, TableOK(t), NEW e \in Events, NEW k \in Keys, NEW a \in Addresses,
         Has(t, k, a), ~Ends(e, k, a)
  PROVE  /\ Has(Handled(t, e), k, a)
         /\ Handled(t, e)[k].age \in {0, t[k].age}
         /\ e.key = k /\ e.kind \in {"open", "traffic"} => Handled(t, e)[k].age = 0
<1> e.kind \in Kinds /\ e.address \in Addresses
  BY DEF Events
<1> USE DEF Has, Ends
<1>1. CASE e.kind = "open"
  <2>1. e.key \in Keys /\ Handled(t, e) = Opened(t, e.key, e.address)
    BY <1>1 DEF Handled, Events
  <2> DEFINE new == Opened(t, e.key, e.address)
  <2>2. /\ \A i : i # e.key =>
             /\ i \in DOMAIN new <=> i \in DOMAIN t
             /\ i \in DOMAIN t => new[i] = t[i]
        /\ e.key \in DOMAIN new => new[e.key] = Fresh(e.address)
        /\ e.key \in DOMAIN t => e.key \in DOMAIN new
    BY <2>1, OpenedFacts
  <2>3. Fresh(e.address).address = e.address /\ Fresh(e.address).age = 0
    BY DEF Fresh
  <2> HIDE DEF new
  <2>4. Handled(t, e) = new
    BY <2>1 DEF new
  <2> QED
    BY <1>1, <2>2, <2>3, <2>4
<1>2. CASE e.kind = "close"
  BY <1>2 DEF Handled, Closed, Restrict
<1>3. CASE e.kind = "disconnect"
  BY <1>3 DEF Handled, ClosedForAddress, Restrict
<1>4. CASE e.kind = "traffic"
  <2>1. t[k] \in [address : Addresses, age : 0..MaxAge]
    BY DEF TableOK
  <2> QED
    BY <1>4, <2>1 DEF Handled, Touched
<1>5. CASE e.kind \notin {"open", "close", "disconnect", "traffic"}
  BY <1>5 DEF Handled
<1> QED
  BY <1>1, <1>2, <1>3, <1>4, <1>5

(* ... and it is there, and new, if it was opened and there was room.      *)
LEMMA HandledOpens ==
  ASSUME NEW t, TableOK(t), NEW e \in Events, NEW k \in Keys, NEW a \in Addresses,
         Opens(e, k, a), k \in DOMAIN t \/ Cardinality(DOMAIN t) < TableSize
  PROVE  Has(Handled(t, e), k, a) /\ Handled(t, e)[k].age = 0
<1>1. e.key = k /\ e.address = a /\ Handled(t, e) = Opened(t, k, a)
  BY DEF Opens, Handled
<1>2. k \in DOMAIN Opened(t, k, a) /\ Opened(t, k, a)[k] = Fresh(a)
  BY OpenedFacts
<1>3. Fresh(a).address = a /\ Fresh(a).age = 0
  BY DEF Fresh
<1> QED
  BY <1>1, <1>2, <1>3 DEF Has

-----------------------------------------------------------------------------
(* What a longer and a shorter queue mean for the records.                 *)

LEMMA LongerQueue ==
  ASSUME queue \in Seq(Events), NEW events \in Seq(Events), queue' = queue \o events
  PROVE  /\ queue' \in Seq(Events)
         /\ Len(queue) \in Nat /\ Len(events) \in Nat
         /\ Len(queue') = Len(queue) + Len(events)
         /\ \A i \in 1..Len(queue) : queue'[i] = queue[i]
         /\ \A i \in 1..Len(events) : queue'[Len(queue) + i] = events[i]
  OBVIOUS

(* New events keep a record that none of them ends, ...                    *)
LEMMA EnqueueKeeps ==
  ASSUME queue \in Seq(Events), NEW events \in Seq(Events), queue' = queue \o events,
         NEW k, NEW a, Has(table, k, a) => Has(table', k, a),
         \A i \in 1..Len(events) : ~Ends(events[i], k, a),
         Kept(Len(queue), k, a)
  PROVE  Kept(Len(queue), k, a)'
<1>1. /\ Len(queue) \in Nat /\ Len(events) \in Nat
      /\ Len(queue') = Len(queue) + Len(events)
      /\ \A i \in 1..Len(queue) : queue'[i] = queue[i]
      /\ \A i \in 1..Len(events) : queue'[Len(queue) + i] = events[i]
  BY LongerQueue
<1>2. ASSUME NEW i \in 0..Len(queue), Stays(i, Len(queue), k, a)
      PROVE  Stays(i, Len(queue), k, a)'
  <2>1. SUFFICES ASSUME NEW j \in (i + 1)..Len(queue')
                 PROVE  ~Ends(queue'[j], k, a)
    BY DEF Stays, Ends
  <2>2. CASE j <= Len(queue)
    BY <1>1, <1>2, <2>2 DEF Stays
  <2>3. CASE j > Len(queue)
    <3>1. j - Len(queue) \in 1..Len(events) /\ j = Len(queue) + (j - Len(queue))
      BY <1>1, <2>3
    <3>2. queue'[j] = events[j - Len(queue)]
      BY <1>1, <3>1
    <3> QED
      BY <3>1, <3>2
  <2> QED
    BY <1>1, <2>2, <2>3
<1>3. CASE Has(table, k, a) /\ Stays(0, Len(queue), k, a)
  BY <1>1, <1>2, <1>3 DEF Kept, Has
<1>4. ASSUME NEW i \in 1..Len(queue), Opens(queue[i], k, a), Stays(i, Len(queue), k, a)
      PROVE  Kept(Len(queue), k, a)'
  <2>1. i \in 1..Len(queue') /\ Opens(queue'[i], k, a)
    BY <1>1, <1>4
  <2>2. Stays(i, Len(queue), k, a)'
    BY <1>1, <1>2, <1>4
  <2> QED
    BY <2>1, <2>2 DEF Kept, Opens
<1> QED
  BY <1>3, <1>4 DEF Kept

(* ... and leave one only if they open it, or none ends what was kept.     *)
LEMMA EnqueueKept ==
  ASSUME queue \in Seq(Events), NEW events \in Seq(Events), queue' = queue \o events,
         NEW k, NEW a, Has(table', k, a) => Has(table, k, a),
         Kept(Len(queue), k, a)'
  PROVE  \/ \E i \in 1..Len(events) : Opens(events[i], k, a)
         \/ /\ Kept(Len(queue), k, a)
            /\ \A i \in 1..Len(events) : ~Ends(events[i], k, a)
<1>1. /\ Len(queue) \in Nat /\ Len(events) \in Nat
      /\ Len(queue') = Len(queue) + Len(events)
      /\ \A i \in 1..Len(queue) : queue'[i] = queue[i]
      /\ \A i \in 1..Len(events) : queue'[Len(queue) + i] = events[i]
  BY LongerQueue
<1>2. ASSUME NEW i \in 0..Len(queue), Stays(i, Len(queue), k, a)'
      PROVE  /\ Stays(i, Len(queue), k, a)
             /\ \A j \in 1..Len(events) : ~Ends(events[j], k, a)
  <2>1. \A j \in (i + 1)..Len(queue') : ~Ends(queue'[j], k, a)
    BY <1>2 DEF Stays, Ends
  <2>2. \A j \in (i + 1)..Len(queue) : ~Ends(queue[j], k, a)
    BY <1>1, <2>1
  <2>3. ASSUME NEW j \in 1..Len(events) PROVE ~Ends(events[j], k, a)
    <3>1. Len(queue) + j \in (i + 1)..Len(queue')
      BY <1>1
    <3> QED
      BY <1>1, <2>1, <3>1
  <2> QED
    BY <2>2, <2>3 DEF Stays
<1>3. CASE Has(table, k, a)' /\ Stays(0, Len(queue), k, a)'
  BY <1>1, <1>2, <1>3 DEF Kept, Has
<1>4. ASSUME NEW i \in 1..Len(queue'), Opens(queue'[i], k, a), Stays(i, Len(queue), k, a)'
      PROVE  \/ \E j \in 1..Len(events) : Opens(events[j], k, a)
             \/ /\ Kept(Len(queue), k, a)
                /\ \A j \in 1..Len(events) : ~Ends(events[j], k, a)
  <2>1. CASE i <= Len(queue)
    <3>1. i \in 1..Len(queue) /\ i \in 0..Len(queue) /\ Opens(queue[i], k, a)
      BY <1>1, <1>4, <2>1
    <3>2. /\ Stays(i, Len(queue), k, a)
          /\ \A j \in 1..Len(events) : ~Ends(events[j], k, a)
      BY <1>2, <1>4, <3>1
    <3> QED
      BY <3>1, <3>2 DEF Kept
  <2>2. CASE i > Len(queue)
    <3>1. i - Len(queue) \in 1..Len(events) /\ i = Len(queue) + (i - Len(queue))
      BY <1>1, <2>2
    <3>2. Opens(events[i - Len(queue)], k, a)
      BY <1>1, <1>4, <3>1
    <3> QED
      BY <3>1, <3>2
  <2> QED
    BY <1>1, <2>1, <2>2
<1> QED
  BY <1>3, <1>4 DEF Kept, Opens

-----------------------------------------------------------------------------
LEMMA ShorterQueue ==
  ASSUME queue \in Seq(Events), queue # <<>>, queue' = Tail(queue)
  PROVE  /\ queue' \in Seq(Events)
         /\ Len(queue) \in Nat \ {0}
         /\ Len(queue') = Len(queue) - 1
         /\ Head(queue) = queue[1] /\ Head(queue) \in Events
         /\ \A i \in 1..Len(queue') : queue'[i] = queue[i + 1]
  OBVIOUS

(* What stays from the second event on stays from the first when that is   *)
(* gone.                                                                   *)
LEMMA StaysShifts ==
  ASSUME queue \in Seq(Events), queue # <<>>, queue' = Tail(queue),
         NEW k, NEW a, NEW i \in 0..Len(queue')
  PROVE  Stays(i, Len(queue), k, a)' <=> Stays(i + 1, Len(queue), k, a)
<1>1. /\ Len(queue) \in Nat \ {0}
      /\ Len(queue') = Len(queue) - 1
      /\ \A j \in 1..Len(queue') : queue'[j] = queue[j + 1]
  BY ShorterQueue
<1>2. ASSUME Stays(i + 1, Len(queue), k, a), NEW j \in (i + 1)..Len(queue')
      PROVE  ~Ends(queue'[j], k, a)
  BY <1>1, <1>2 DEF Stays
<1>3. ASSUME \A j \in (i + 1)..Len(queue') : ~Ends(queue'[j], k, a),
             NEW j \in (i + 2)..Len(queue)
      PROVE  ~Ends(queue[j], k, a)
  <2>1. j - 1 \in (i + 1)..Len(queue') /\ queue'[j - 1] = queue[j]
    BY <1>1
  <2> QED
    BY <1>3, <2>1
<1> QED
  BY <1>1, <1>2, <1>3 DEF Stays, Ends

(* Handling the oldest event invents no record, ...                        *)
LEMMA HandleKept ==
  ASSUME TypeInv, queue # <<>>, queue' = Tail(queue), table' = Handled(table, Head(queue)),
         NEW k \in Keys, NEW a \in Addresses, Kept(Len(queue), k, a)'
  PROVE  Kept(Len(queue), k, a)
<1>1. /\ Len(queue) \in Nat \ {0}
      /\ Len(queue') = Len(queue) - 1
      /\ Head(queue) = queue[1] /\ Head(queue) \in Events
      /\ \A j \in 1..Len(queue') : queue'[j] = queue[j + 1]
  BY ShorterQueue DEF TypeInv
<1>2. ASSUME NEW i \in 1..Len(queue'), Opens(queue'[i], k, a), Stays(i, Len(queue), k, a)'
      PROVE  Kept(Len(queue), k, a)
  <2>1. i + 1 \in 1..Len(queue) /\ Opens(queue[i + 1], k, a)
    BY <1>1, <1>2
  <2>2. Stays(i + 1, Len(queue), k, a)
    BY <1>1, <1>2, StaysShifts DEF TypeInv
  <2> QED
    BY <2>1, <2>2 DEF Kept
<1>3. CASE Has(table, k, a)' /\ Stays(0, Len(queue), k, a)'
  <2>1. Stays(1, Len(queue), k, a)
    <3>1. 0 \in 0..Len(queue') /\ 0 + 1 = 1
      BY <1>1
    <3> QED
      BY <1>3, <3>1, StaysShifts DEF TypeInv
  <2>2. Opens(queue[1], k, a) \/ (Has(table, k, a) /\ ~Ends(queue[1], k, a))
    BY <1>1, <1>3, HandledHas DEF TypeInv, Has
  <2>3. CASE Opens(queue[1], k, a)
    BY <1>1, <2>1, <2>3 DEF Kept
  <2>4. CASE Has(table, k, a) /\ ~Ends(queue[1], k, a)
    <3>1. Stays(0, Len(queue), k, a)
      BY <1>1, <2>1, <2>4 DEF Stays
    <3> QED
      BY <2>4, <3>1 DEF Kept
  <2> QED
    BY <2>2, <2>3, <2>4
<1> QED
  BY <1>2, <1>3 DEF Kept, Opens

(* The firmware has room for the record an event opens.                    *)
RoomFor(t, e) ==
  e.kind = "open" => e.key \in DOMAIN t \/ Cardinality(DOMAIN t) < TableSize

(* ... and loses none that is not to end, if there was room for it.        *)
LEMMA HandleKeeps ==
  ASSUME TypeInv, queue # <<>>, queue' = Tail(queue), table' = Handled(table, Head(queue)),
         RoomFor(table, Head(queue)),
         NEW k \in Keys, NEW a \in Addresses, Kept(Len(queue), k, a)
  PROVE  Kept(Len(queue), k, a)'
<1>1. /\ Len(queue) \in Nat \ {0}
      /\ Len(queue') = Len(queue) - 1
      /\ Head(queue) = queue[1] /\ Head(queue) \in Events
      /\ \A j \in 1..Len(queue') : queue'[j] = queue[j + 1]
  BY ShorterQueue DEF TypeInv
<1>2. ASSUME Has(table', k, a), Stays(1, Len(queue), k, a)
      PROVE  Kept(Len(queue), k, a)'
  <2>1. 0 \in 0..Len(queue') /\ 0 + 1 = 1
    BY <1>1
  <2>2. Stays(0, Len(queue), k, a)'
    BY <1>2, <2>1, StaysShifts DEF TypeInv
  <2> QED
    BY <1>2, <2>2 DEF Kept, Has
<1>3. ASSUME NEW i \in 1..Len(queue), Opens(queue[i], k, a), Stays(i, Len(queue), k, a)
      PROVE  Kept(Len(queue), k, a)'
  <2>1. CASE i = 1
    <3>1. Has(table', k, a)
      BY <1>1, <1>3, <2>1, HandledOpens DEF TypeInv, RoomFor, Opens
    <3> QED
      BY <1>2, <1>3, <2>1, <3>1
  <2>2. CASE i # 1
    <3>1. i - 1 \in 1..Len(queue') /\ (i - 1) + 1 = i
      BY <1>1, <2>2
    <3>2. Opens(queue'[i - 1], k, a)
      BY <1>1, <1>3, <3>1
    <3>3. Stays(i - 1, Len(queue), k, a)'
      BY <1>3, <3>1, StaysShifts DEF TypeInv
    <3> QED
      BY <3>1, <3>2, <3>3 DEF Kept, Opens
  <2> QED
    BY <2>1, <2>2
<1>4. CASE Has(table, k, a) /\ Stays(0, Len(queue), k, a)
  <2>1. ~Ends(queue[1], k, a) /\ Stays(1, Len(queue), k, a)
    BY <1>1, <1>4 DEF Stays
  <2>2. Has(table', k, a)
    BY <1>1, <1>4, <2>1, HandledKeeps DEF TypeInv
  <2> QED
    BY <1>2, <2>1, <2>2
<1> QED
  BY <1>3, <1>4 DEF Kept

-----------------------------------------------------------------------------
(* The events of the stack.                                                *)

(* A key is no empty one, so that a connection is never None.              *)
LEMMA KeyFacts ==
  /\ \A k \in Keys : k # <<>> /\ k[1] \in Clients
  /\ \A c \in Connections : c # None
<1>1. \A k \in Keys : k # <<>> /\ k[1] \in Clients
  BY DEF Keys
<1>2. \A c \in Connections : c.key \in Keys /\ None.key = <<>>
  BY DEF Connections, None
<1> QED
  BY <1>1, <1>2

LEMMA EventType ==
  ASSUME NEW a \in Addresses, NEW kind \in Kinds, NEW key \in Keys \cup {<<>>},
         kind = "open" => key \in Keys
  PROVE  /\ Event(kind, key, a) \in Events
         /\ Event(kind, key, a).kind = kind
         /\ Event(kind, key, a).key = key
         /\ Event(kind, key, a).address = a
  BY DEF Event, Events

(* What an opening brings ends with the OPEN.                              *)
LEMMA OpeningFacts ==
  ASSUME NEW k \in Keys, NEW a \in Addresses
  PROVE  LET events == Append(LinkUp(a), Event("open", k, a))
         IN /\ events \in Seq(Events)
            /\ Len(events) \in 1..2
            /\ events[Len(events)] = Event("open", k, a)
            /\ \A i \in 1..Len(events) :
                 events[i] \in {Event("connect", <<>>, a), Event("open", k, a)}
<1>1. Event("open", k, a) \in Events
  BY EventType DEF Kinds
<1>2. Event("connect", <<>>, a) \in Events
  BY EventType DEF Kinds
<1>3. CASE Holders(a) = {}
  BY <1>1, <1>2, <1>3 DEF LinkUp
<1>4. CASE Holders(a) # {}
  BY <1>1, <1>4 DEF LinkUp
<1> QED
  BY <1>3, <1>4

(* The CLOSE events of clients that lose their connections.                *)
LEMMA ClosesFacts ==
  ASSUME TypeInv, NEW holders \in SUBSET Clients, \A c \in holders : held[c] # None,
         NEW closes \in Closes(holders)
  PROVE  /\ closes \in Seq(Events)
         /\ \A i \in 1..Len(closes) : \E c \in holders :
              closes[i] = Event("close", held[c].key, held[c].address)
<1>1. PICK told \in SUBSET holders :
        closes \in SetToSeqs({Event("close", held[c].key, held[c].address) : c \in told})
  BY DEF Closes
<1> DEFINE S == {Event("close", held[c].key, held[c].address) : c \in told}
           f == [c \in told |-> Event("close", held[c].key, held[c].address)]
<1>2. f \in Surjection(told, S)
  BY DEF Surjection
<1>3. IsFiniteSet(told)
  BY SlotAssumption, FS_Subset
<1>4. IsFiniteSet(S)
  BY <1>2, <1>3, FS_Surjection
<1>5. \A e \in S : e \in Events /\ \E c \in holders : e = Event("close", held[c].key, held[c].address)
  <2>1. ASSUME NEW c \in told
        PROVE  Event("close", held[c].key, held[c].address) \in Events
    <3>1. held[c] \in Connections
      BY DEF TypeInv, TypeOK
    <3>2. held[c].key \in Keys /\ held[c].address \in Addresses
      BY <3>1 DEF Connections
    <3> QED
      BY <3>2, EventType DEF Kinds
  <2> QED
    BY <2>1
<1> HIDE DEF S
<1>6. Cardinality(S) \in Nat
  BY <1>4, FS_CardinalityType
<1>7. closes \in [1..Cardinality(S) -> S]
  BY <1>1 DEF S, SetToSeqs
<1>8. closes \in Seq(S) /\ Len(closes) = Cardinality(S)
  BY <1>6, <1>7
<1>9. closes \in Seq(Events)
  BY <1>5, <1>8
<1>10. \A i \in 1..Len(closes) : closes[i] \in S
  BY <1>7, <1>8
<1> QED
  BY <1>5, <1>9, <1>10

(* A connection whose client opens nothing keeps its record through a step *)
(* of the stack unless an event of the step ends it.                       *)
LEMMA StackHolds ==
  ASSUME TypeInv, HoldInv, NEW events \in Seq(Events), queue' = queue \o events,
         table' = table,
         \A c \in Clients : held'[c] # None =>
           \/ /\ held'[c] = held[c]
              /\ \/ quiet'[c] = quiet[c]
                 \/ \E i \in 1..Len(events) :
                      events[i].kind = "traffic" /\ events[i].key = held[c].key
              /\ \A i \in 1..Len(events) : ~Ends(events[i], held[c].key, held[c].address)
           \/ /\ Len(events) # 0
              /\ Opens(events[Len(events)], held'[c].key, held'[c].address)
  PROVE  HoldInv'
<1>1. /\ Len(queue) \in Nat /\ Len(events) \in Nat
      /\ Len(queue') = Len(queue) + Len(events)
      /\ \A i \in 1..Len(queue) : queue'[i] = queue[i]
      /\ \A i \in 1..Len(events) : queue'[Len(queue) + i] = events[i]
  BY LongerQueue DEF TypeInv
<1>2. SUFFICES ASSUME NEW c \in Clients, held'[c] # None
               PROVE  Kept(Len(queue), held[c].key, held[c].address)' /\ Timed(c)'
  BY DEF HoldInv, Kept, Stays, Ends, Has, Opens, Timed
<1>3. CASE /\ held'[c] = held[c]
           /\ \/ quiet'[c] = quiet[c]
              \/ \E i \in 1..Len(events) :
                   events[i].kind = "traffic" /\ events[i].key = held[c].key
           /\ \A i \in 1..Len(events) : ~Ends(events[i], held[c].key, held[c].address)
  <2> DEFINE k == held[c].key
             a == held[c].address
  <2>1. Kept(Len(queue), k, a) /\ Timed(c)
    BY <1>2, <1>3 DEF HoldInv
  <2>2. PICK k0, a0 : k0 = k /\ a0 = a
    OBVIOUS
  <2>3. Kept(Len(queue), k0, a0)'
    <3>1. Kept(Len(queue), k0, a0) /\ \A i \in 1..Len(events) : ~Ends(events[i], k0, a0)
      BY <1>3, <2>1, <2>2
    <3> QED
      BY <3>1, EnqueueKeeps DEF TypeInv, Has
  <2>4. Kept(Len(queue), held[c].key, held[c].address)'
    BY <1>3, <2>2, <2>3
  <2>5. CASE \E i \in 1..Len(queue) :
               queue[i].key = k /\ queue[i].kind \in {"open", "traffic"}
    <3>1. PICK i \in 1..Len(queue) : queue[i].key = k /\ queue[i].kind \in {"open", "traffic"}
      BY <2>5
    <3>2. i \in 1..Len(queue') /\ queue'[i] = queue[i]
      BY <1>1
    <3> QED
      BY <1>3, <2>4, <3>1, <3>2 DEF Timed
  <2>6. CASE \E i \in 1..Len(events) : events[i].kind = "traffic" /\ events[i].key = k
    <3>1. PICK i \in 1..Len(events) : events[i].kind = "traffic" /\ events[i].key = k
      BY <2>6
    <3>2. Len(queue) + i \in 1..Len(queue') /\ queue'[Len(queue) + i] = events[i]
      BY <1>1
    <3> QED
      BY <1>3, <2>4, <3>1, <3>2 DEF Timed
  <2>7. CASE /\ k \in DOMAIN table /\ table[k].age <= quiet[c]
             /\ quiet'[c] = quiet[c]
    BY <1>3, <2>4, <2>7 DEF Timed
  <2> QED
    BY <1>3, <2>1, <2>5, <2>6, <2>7 DEF Timed
<1>4. CASE /\ Len(events) # 0
           /\ Opens(events[Len(events)], held'[c].key, held'[c].address)
  <2> DEFINE n == Len(queue')
  <2>1. n \in 1..n /\ queue'[n] = events[Len(events)]
    BY <1>1, <1>4
  <2>2. \A j \in (n + 1)..n : FALSE
    BY <1>1
  <2> QED
    BY <1>4, <2>1, <2>2 DEF Kept, Stays, Timed, Opens
<1> QED
  BY <1>2, <1>3, <1>4

(* No event of the stack leaves a record without a holder.                 *)
LEMMA StackLists ==
  ASSUME TypeInv, ListInv, NEW events \in Seq(Events), queue' = queue \o events,
         table' = table, text' = text,
         \A k \in Keys, a \in Addresses :
           /\ (\E i \in 1..Len(events) : Opens(events[i], k, a)) => \E c \in Clients : Holds(c, a)'
           /\ (\A i \in 1..Len(events) : ~Ends(events[i], k, a)) /\ (\E c \in Clients : Holds(c, a))
                => \E c \in Clients : Holds(c, a)'
  PROVE  ListInv'
<1>1. ASSUME NEW k \in Keys, NEW a \in Addresses, Kept(Len(queue), k, a)'
      PROVE  \E c \in Clients : Holds(c, a)'
  <2>1. \/ \E i \in 1..Len(events) : Opens(events[i], k, a)
        \/ /\ Kept(Len(queue), k, a)
           /\ \A i \in 1..Len(events) : ~Ends(events[i], k, a)
    BY <1>1, EnqueueKept DEF TypeInv, Has
  <2> QED
    BY <2>1 DEF ListInv
<1> QED
  BY <1>1 DEF ListInv

-----------------------------------------------------------------------------
(* One lemma for each action of the stack.                                 *)

(* Each step keeps the types, and what holds of the records once it holds. *)
Preserved ==
  /\ TypeInv'
  /\ HoldInv => HoldInv'
  /\ ListInv => ListInv'

(* A step of the stack that leaves the firmware alone keeps the types if   *)
(* the connections have theirs.                                            *)
LEMMA StackTypes ==
  ASSUME TypeInv, NEW events \in Seq(Events), Enqueue(events), UNCHANGED firmware,
         held' \in [Clients -> Connections \cup {None}],
         quiet' \in [Clients -> 0..MaxAge],
         \A c \in Clients : held'[c] # None => held'[c].key[1] = c
  PROVE  TypeInv'
<1>1. queue' = queue \o events /\ Len(queue) + Len(events) <= MaxQueue
  BY DEF Enqueue
<1>2. queue' \in Seq(Events) /\ Len(queue') <= MaxQueue
  BY <1>1, LongerQueue DEF TypeInv
<1>3. \A i \in 1..Len(queue') : queue'[i] \in Events /\ queue'[i].address \in Addresses
  BY <1>2 DEF Events
<1> QED
  BY <1>2, <1>3 DEF TypeInv, TypeOK, TableOK, firmware

LEMMA OpenStep ==
  ASSUME NEW c0 \in Clients, NEW k0 \in Keys, NEW a0 \in Addresses
  PROVE  TypeInv /\ Open(c0, k0, a0) => Preserved
<1> SUFFICES ASSUME TypeInv, Open(c0, k0, a0) PROVE Preserved
  OBVIOUS
<1> USE DEF Preserved
<1> DEFINE opening == Append(LinkUp(a0), Event("open", k0, a0))
<1>0. PICK events : events = opening
  OBVIOUS
<1>1. /\ events \in Seq(Events)
      /\ Len(events) \in 1..2
      /\ events[Len(events)] = Event("open", k0, a0)
      /\ \A i \in 1..Len(events) :
           events[i] \in {Event("connect", <<>>, a0), Event("open", k0, a0)}
  BY <1>0, OpeningFacts
<1>2. Enqueue(events) /\ queue' = queue \o events /\ UNCHANGED firmware /\ table' = table /\ text' = text
  BY <1>0 DEF Open, Enqueue, firmware
<1> HIDE DEF opening
<1>3. k0[1] = c0 /\ held[c0] = None
  BY DEF Open
<1>4. /\ held \in [Clients -> Connections \cup {None}]
      /\ quiet \in [Clients -> 0..MaxAge]
      /\ \A c \in Clients : held[c] # None => held[c].key[1] = c
  BY DEF TypeInv, TypeOK
<1>5. [key |-> k0, address |-> a0] \in Connections
  BY DEF Connections
<1>6. /\ held' \in [Clients -> Connections \cup {None}]
      /\ held'[c0] = [key |-> k0, address |-> a0]
      /\ \A c \in Clients : c # c0 => held'[c] = held[c]
  BY <1>4, <1>5 DEF Open
<1>7. /\ quiet' \in [Clients -> 0..MaxAge]
      /\ \A c \in Clients : c # c0 => quiet'[c] = quiet[c]
  BY <1>4, SlotAssumption DEF Open
<1>8. TypeInv'
  <2>1. \A c \in Clients : held'[c] # None => held'[c].key[1] = c
    BY <1>3, <1>4, <1>6
  <2> QED
    BY <1>1, <1>2, <1>6, <1>7, <2>1, StackTypes
<1>9. ASSUME NEW k, NEW a, NEW i \in 1..Len(events)
      PROVE  /\ Opens(events[i], k, a) => k = k0 /\ a = a0
             /\ k # k0 => ~Ends(events[i], k, a)
  BY <1>1, <1>9 DEF Event, Opens, Ends
<1>10. HoldInv => HoldInv'
  <2>1. ASSUME NEW c \in Clients, held'[c] # None, c # c0
        PROVE  /\ held'[c] = held[c] /\ quiet'[c] = quiet[c]
               /\ \A i \in 1..Len(events) : ~Ends(events[i], held[c].key, held[c].address)
    <3>1. held'[c] = held[c] /\ quiet'[c] = quiet[c]
      BY <1>6, <1>7, <2>1
    <3>2. held[c].key # k0
      BY <1>3, <1>4, <2>1, <3>1
    <3> QED
      BY <1>9, <3>1, <3>2
  <2>2. Opens(Event("open", k0, a0), k0, a0)
    <3>1. "open" \in Kinds /\ k0 \in Keys \cup {<<>>}
      BY DEF Kinds
    <3>2. /\ Event("open", k0, a0).kind = "open"
          /\ Event("open", k0, a0).key = k0
          /\ Event("open", k0, a0).address = a0
      BY <3>1, EventType
    <3> QED
      BY <3>2 DEF Opens
  <2>3. Opens(events[Len(events)], held'[c0].key, held'[c0].address)
    BY <1>1, <1>6, <2>2
  <2>4. Len(events) # 0
    BY <1>1
  <2> QED
    BY <1>1, <1>2, <2>1, <2>3, <2>4, StackHolds
<1>11. Holds(c0, a0)'
  BY <1>5, <1>6, KeyFacts DEF Holds
<1>12. \A c \in Clients, a \in Addresses : Holds(c, a) => Holds(c, a)'
  BY <1>3, <1>6 DEF Holds
<1>13. ListInv => ListInv'
  BY <1>1, <1>2, <1>9, <1>11, <1>12, StackLists
<1> QED
  BY <1>8, <1>10, <1>13

LEMMA OpenFailsStep ==
  ASSUME NEW c0 \in Clients, NEW k0 \in Keys, NEW a0 \in Addresses
  PROVE  TypeInv /\ OpenFails(c0, k0, a0) => Preserved
<1> SUFFICES ASSUME TypeInv, OpenFails(c0, k0, a0) PROVE Preserved
  OBVIOUS
<1> USE DEF Preserved
<1>1. Event("open_failed", k0, a0) \in Events /\ Event("open_failed", k0, a0).kind = "open_failed"
  BY EventType DEF Kinds
<1>2. PICK events : events = <<Event("open_failed", k0, a0)>>
  OBVIOUS
<1>3. /\ events \in Seq(Events)
      /\ \A i \in 1..Len(events) : events[i].kind = "open_failed"
  BY <1>1, <1>2
<1>4. /\ Enqueue(events) /\ queue' = queue \o events /\ UNCHANGED firmware
      /\ held' = held /\ quiet' = quiet /\ table' = table /\ text' = text
  BY <1>2 DEF OpenFails, Enqueue, stack, firmware
<1>5. TypeInv'
  BY <1>3, <1>4, StackTypes DEF TypeInv, TypeOK
<1>6. \A k, a : \A i \in 1..Len(events) : ~Opens(events[i], k, a) /\ ~Ends(events[i], k, a)
  BY <1>3 DEF Opens, Ends
<1>7. HoldInv => HoldInv'
  BY <1>3, <1>4, <1>6, StackHolds
<1>8. ListInv => ListInv'
  BY <1>3, <1>4, <1>6, StackLists DEF Holds
<1> QED
  BY <1>5, <1>7, <1>8

LEMMA TrafficStep ==
  ASSUME NEW c0 \in Clients
  PROVE  TypeInv /\ Traffic(c0) => Preserved
<1> SUFFICES ASSUME TypeInv, Traffic(c0) PROVE Preserved
  OBVIOUS
<1> USE DEF Preserved
<1> DEFINE traffic == Event("traffic", held[c0].key, held[c0].address)
<1>1. held[c0].key \in Keys /\ held[c0].address \in Addresses
  BY DEF Traffic, TypeInv, TypeOK, Connections
<1>2. traffic \in Events /\ traffic.kind = "traffic" /\ traffic.key = held[c0].key
  BY <1>1, EventType DEF Kinds
<1>3. PICK events : events = <<traffic>>
  OBVIOUS
<1>4. Enqueue(events) /\ queue' = queue \o events
  BY <1>3 DEF Traffic, Enqueue
<1> HIDE DEF traffic
<1>5. /\ events \in Seq(Events) /\ Len(events) = 1 /\ events[1] = traffic
      /\ \A i \in 1..Len(events) : events[i].kind = "traffic" /\ events[i].key = held[c0].key
  BY <1>2, <1>3
<1>6. /\ held' = held /\ table' = table /\ text' = text /\ UNCHANGED firmware
      /\ \A c \in Clients : c # c0 => quiet'[c] = quiet[c]
      /\ quiet' \in [Clients -> 0..MaxAge]
  BY SlotAssumption DEF Traffic, firmware, TypeInv, TypeOK
<1>7. TypeInv'
  BY <1>4, <1>5, <1>6, StackTypes DEF TypeInv, TypeOK
<1>8. \A k, a : \A i \in 1..Len(events) : ~Opens(events[i], k, a) /\ ~Ends(events[i], k, a)
  BY <1>5 DEF Opens, Ends
<1>9. \A c \in Clients : quiet'[c] = quiet[c] \/ \E i \in 1..Len(events) :
         events[i].kind = "traffic" /\ events[i].key = held[c].key
  BY <1>5, <1>6
<1>10. HoldInv => HoldInv'
  BY <1>4, <1>5, <1>6, <1>8, <1>9, StackHolds
<1>11. ListInv => ListInv'
  BY <1>4, <1>5, <1>6, <1>8, StackLists DEF Holds
<1> QED
  BY <1>7, <1>10, <1>11

(* Events that only close keys of clients that let go end no other record, *)
(* and open none.                                                          *)
LEMMA ClosesEnd ==
  ASSUME TypeInv, NEW gone \in SUBSET Clients, \A h \in gone : held[h] # None,
         NEW e, \E h \in gone : e = Event("close", held[h].key, held[h].address)
  PROVE  /\ \A k, a : ~Opens(e, k, a)
         /\ \A c \in Clients : held[c] # None /\ c \notin gone =>
              ~Ends(e, held[c].key, held[c].address)
<1>1. PICK h \in gone : e = Event("close", held[h].key, held[h].address)
  OBVIOUS
<1>2. e.kind = "close" /\ e.key = held[h].key
  BY <1>1 DEF Event
<1>3. \A c \in Clients : held[c] # None => held[c].key[1] = c
  BY DEF TypeInv
<1> QED
  BY <1>2, <1>3 DEF Opens, Ends

LEMMA ReleaseStep ==
  ASSUME NEW c0 \in Clients
  PROVE  TypeInv /\ Release(c0) => Preserved
<1> SUFFICES ASSUME TypeInv, Release(c0) PROVE Preserved
  OBVIOUS
<1> USE DEF Preserved
<1>1. PICK closes \in Closes({c0}) : Enqueue(closes)
  BY DEF Release
<1>2. held[c0] # None
  BY DEF Release
<1>3. /\ closes \in Seq(Events)
      /\ \A i \in 1..Len(closes) : \E h \in {c0} :
           closes[i] = Event("close", held[h].key, held[h].address)
  BY <1>1, <1>2, ClosesFacts
<1>4. /\ queue' = queue \o closes /\ UNCHANGED firmware /\ table' = table /\ text' = text
  BY <1>1 DEF Enqueue, Release, firmware
<1>5. /\ held' \in [Clients -> Connections \cup {None}]
      /\ held'[c0] = None
      /\ \A c \in Clients : c # c0 => held'[c] = held[c] /\ quiet'[c] = quiet[c]
      /\ quiet' \in [Clients -> 0..MaxAge]
  BY SlotAssumption DEF Release, TypeInv, TypeOK
<1>6. TypeInv'
  <2>1. \A c \in Clients : held'[c] # None => held'[c].key[1] = c
    BY <1>5 DEF TypeInv
  <2> QED
    BY <1>1, <1>3, <1>4, <1>5, <2>1, StackTypes
<1>7. ASSUME NEW i \in 1..Len(closes)
      PROVE  /\ \A k, a : ~Opens(closes[i], k, a)
             /\ \A c \in Clients : held[c] # None /\ c # c0 =>
                  ~Ends(closes[i], held[c].key, held[c].address)
  <2>1. {c0} \in SUBSET Clients /\ \A h \in {c0} : held[h] # None
    BY <1>2
  <2>2. \E h \in {c0} : closes[i] = Event("close", held[h].key, held[h].address)
    BY <1>3
  <2>3. \A c : c # c0 <=> c \notin {c0}
    OBVIOUS
  <2> QED
    BY <2>1, <2>2, <2>3, ClosesEnd
<1>8. HoldInv => HoldInv'
  BY <1>3, <1>4, <1>5, <1>7, StackHolds
<1>9. ASSUME NEW c \in Clients, NEW a \in Addresses, Holds(c, a)
      PROVE  \E d \in Clients : Holds(d, a)'
  <2>1. CASE c # c0
    BY <1>5, <1>9, <2>1 DEF Holds
  <2>2. CASE c = c0
    <3>1. c0 \in Holders(a) /\ Holders(a) # {c0}
      BY <1>9, <2>2 DEF Holds, Holders, Release
    <3>2. PICK d \in Holders(a) : d # c0
      BY <3>1
    <3> QED
      BY <1>5, <3>2 DEF Holders, Holds
  <2> QED
    BY <2>1, <2>2
<1>10. ListInv => ListInv'
  BY <1>3, <1>4, <1>7, <1>9, StackLists
<1> QED
  BY <1>6, <1>8, <1>10

LEMMA DropStep ==
  ASSUME NEW a0 \in Addresses
  PROVE  TypeInv /\ Drop(a0) => Preserved
<1> SUFFICES ASSUME TypeInv, Drop(a0) PROVE Preserved
  OBVIOUS
<1> USE DEF Preserved
<1> DEFINE down == Event("disconnect", <<>>, a0)
<1>1. PICK closes \in Closes(Holders(a0)) : Enqueue(Append(closes, down))
  BY DEF Drop
<1>2. Holders(a0) \in SUBSET Clients /\ \A c \in Holders(a0) : held[c] # None
  BY DEF Holders
<1>3. /\ closes \in Seq(Events)
      /\ \A i \in 1..Len(closes) : \E h \in Holders(a0) :
           closes[i] = Event("close", held[h].key, held[h].address)
  BY <1>1, <1>2, ClosesFacts
<1>4. down \in Events /\ down.kind = "disconnect" /\ down.address = a0
  BY EventType DEF Kinds
<1> HIDE DEF down
<1>5. PICK events : events = Append(closes, down)
  OBVIOUS
<1>6. /\ events \in Seq(Events)
      /\ Len(events) = Len(closes) + 1 /\ Len(closes) \in Nat
      /\ events[Len(events)] = down
      /\ \A i \in 1..Len(closes) : events[i] = closes[i]
  BY <1>3, <1>4, <1>5
<1>7. /\ Enqueue(events) /\ queue' = queue \o events /\ UNCHANGED firmware
      /\ table' = table /\ text' = text
  BY <1>1, <1>5 DEF Enqueue, Drop, firmware
<1>8. /\ held' \in [Clients -> Connections \cup {None}]
      /\ \A c \in Holders(a0) : held'[c] = None
      /\ \A c \in Clients \ Holders(a0) : held'[c] = held[c] /\ quiet'[c] = quiet[c]
      /\ quiet' \in [Clients -> 0..MaxAge]
  BY <1>2, SlotAssumption DEF Drop, TypeInv, TypeOK
<1>9. TypeInv'
  <2>1. \A c \in Clients : held'[c] # None => held'[c].key[1] = c
    BY <1>8 DEF TypeInv
  <2> QED
    BY <1>6, <1>7, <1>8, <2>1, StackTypes
<1>10. ASSUME NEW i \in 1..Len(events)
       PROVE  /\ \A k, a : ~Opens(events[i], k, a)
              /\ \A c \in Clients : held[c] # None /\ c \notin Holders(a0) =>
                   ~Ends(events[i], held[c].key, held[c].address)
  <2>1. CASE i <= Len(closes)
    <3>1. \E h \in Holders(a0) : events[i] = Event("close", held[h].key, held[h].address)
      BY <1>3, <1>6, <2>1
    <3> QED
      BY <1>2, <3>1, ClosesEnd
  <2>2. CASE i > Len(closes)
    <3>1. events[i] = down
      BY <1>6, <2>2
    <3>2. \A c \in Clients : held[c] # None /\ c \notin Holders(a0) => held[c].address # a0
      BY DEF Holders
    <3> QED
      BY <1>4, <3>1, <3>2 DEF Opens, Ends
  <2> QED
    BY <1>6, <2>1, <2>2
<1>11. HoldInv => HoldInv'
  BY <1>6, <1>7, <1>8, <1>10, StackHolds
<1>12. ASSUME NEW k \in Keys, NEW c \in Clients, NEW a \in Addresses, Holds(c, a),
              \A i \in 1..Len(events) : ~Ends(events[i], k, a)
       PROVE  Holds(c, a)'
  <2>1. a # a0
    BY <1>4, <1>6, <1>12 DEF Ends
  <2> QED
    BY <1>8, <1>12, <2>1 DEF Holds, Holders
<1>13. ListInv => ListInv'
  BY <1>6, <1>7, <1>10, <1>12, StackLists
<1> QED
  BY <1>9, <1>11, <1>13

-----------------------------------------------------------------------------
(* The firmware, and time.                                                 *)

(* What a table would have the integration read.                           *)
LEMMA FieldsFacts ==
  ASSUME NEW t, TableOK(t)
  PROVE  /\ \A f \in Fields(t) : f \in [address : Addresses, idle : 0..(ClockMod - 1)]
         /\ Shown(Fields(t)) = {t[k].address : k \in DOMAIN t}
<1>1. ASSUME NEW k \in DOMAIN t
      PROVE  Idle(t[k].age) \in 0..(ClockMod - 1)
  <2>1. t[k].age \in Nat
    BY SlotAssumption DEF TableOK
  <2> QED
    BY <2>1, SlotAssumption DEF Idle
<1>2. \A f \in Fields(t) : f \in [address : Addresses, idle : 0..(ClockMod - 1)]
  BY <1>1 DEF Fields, TableOK
<1>3. Shown(Fields(t)) = {t[k].address : k \in DOMAIN t}
  <2>1. ASSUME NEW f \in Fields(t) PROVE f.address \in {t[k].address : k \in DOMAIN t}
    BY DEF Fields
  <2>2. ASSUME NEW k \in DOMAIN t PROVE \E f \in Fields(t) : f.address = t[k].address
    <3> DEFINE f == [address |-> t[k].address, idle |-> Idle(t[k].age)]
    <3>1. f \in Fields(t) /\ f.address = t[k].address
      BY DEF Fields
    <3> QED
      BY <3>1
  <2> QED
    BY <2>1, <2>2 DEF Shown
<1> QED
  BY <1>2, <1>3

LEMMA TickStep == TypeInv /\ Tick => Preserved
<1> SUFFICES ASSUME TypeInv, Tick PROVE Preserved
  OBVIOUS
<1> USE DEF Preserved
<1>1. held' = held /\ queue' = queue /\ text' = text
  BY DEF Tick
<1>2. /\ DOMAIN table' = DOMAIN table
      /\ \A k \in DOMAIN table : table'[k] = [table[k] EXCEPT !.age = @ + 1]
  BY DEF Tick
<1>3. \A k \in DOMAIN table : /\ table[k] \in [address : Addresses, age : 0..MaxAge]
                              /\ table[k].age < MaxAge
  BY DEF Tick, TypeInv, TableOK
<1>4. \A k \in DOMAIN table : /\ table'[k] \in [address : Addresses, age : 0..MaxAge]
                              /\ table'[k].address = table[k].address
                              /\ table'[k].age = table[k].age + 1
  BY <1>2, <1>3, SlotAssumption
<1>5. TableOK(table')
  BY <1>2, <1>4 DEF TypeInv, TableOK
<1>6. quiet' \in [Clients -> 0..MaxAge]
  BY SlotAssumption DEF Tick, TypeInv, TypeOK
<1>7. TypeInv'
  BY <1>1, <1>5, <1>6 DEF TypeInv, TypeOK, TableOK
<1>8. \A k, a : Kept(Len(queue), k, a)' <=> Kept(Len(queue), k, a)
  BY <1>1, <1>2, <1>4 DEF Kept, Stays, Ends, Opens, Has
<1>9. ASSUME NEW c \in Clients, held[c] # None, Timed(c)
      PROVE  Timed(c)'
  <2>1. quiet'[c] = quiet[c] + 1 /\ quiet[c] \in Nat
    BY <1>9, SlotAssumption DEF Tick, TypeInv, TypeOK
  <2>2. \A k \in DOMAIN table : table[k].age \in Nat
    BY <1>3, SlotAssumption
  <2> QED
    BY <1>1, <1>2, <1>4, <1>9, <2>1, <2>2 DEF Timed
<1>10. HoldInv => HoldInv'
  <2> SUFFICES ASSUME HoldInv, NEW c \in Clients, held'[c] # None
               PROVE  (Kept(Len(queue), held[c].key, held[c].address) /\ Timed(c))'
    BY DEF HoldInv
  <2>1. PICK k, a : k = held[c].key /\ a = held[c].address
    OBVIOUS
  <2>2. Kept(Len(queue), k, a) /\ Timed(c)
    BY <1>1, <2>1 DEF HoldInv
  <2>3. Kept(Len(queue), k, a)'
    BY <1>8, <2>2
  <2>4. Timed(c)'
    BY <1>1, <1>9, <2>2
  <2>5. k = held'[c].key /\ a = held'[c].address
    BY <1>1, <2>1
  <2> QED
    BY <2>3, <2>4, <2>5
<1>11. ListInv => ListInv'
  <2>1. Shown(Fields(table')) = Shown(Fields(table))
    <3>1. /\ Shown(Fields(table)) = {table[k].address : k \in DOMAIN table}
          /\ Shown(Fields(table')) = {table'[k].address : k \in DOMAIN table'}
      BY <1>5, FieldsFacts DEF TypeInv
    <3> QED
      BY <1>2, <1>4, <3>1
  <2>2. \A c \in Clients, a \in Addresses : Holds(c, a)' <=> Holds(c, a)
    BY <1>1 DEF Holds
  <2> QED
    BY <1>1, <1>8, <2>1, <2>2 DEF ListInv
<1> QED
  BY <1>7, <1>10, <1>11

LEMMA UpdateStep == TypeInv /\ Update => Preserved
<1> SUFFICES ASSUME TypeInv, Update PROVE Preserved
  OBVIOUS
<1>1. held' = held /\ quiet' = quiet /\ queue' = queue /\ table' = table /\ text' = Fields(table)
  BY DEF Update, stack
<1>2. TypeInv'
  BY <1>1, FieldsFacts DEF TypeInv, TypeOK, TableOK
<1>3. HoldInv => HoldInv'
  BY <1>1 DEF HoldInv, Kept, Stays, Ends, Opens, Has, Timed
<1>4. ListInv => ListInv'
  BY <1>1 DEF ListInv, Kept, Stays, Ends, Opens, Has, Holds
<1> QED
  BY <1>2, <1>3, <1>4 DEF Preserved

(* Nothing is held and nothing recorded at the start, ...                  *)
LEMMA SlotInit == Init => TypeInv /\ HoldInv /\ ListInv
<1> SUFFICES ASSUME Init PROVE TypeInv /\ HoldInv /\ ListInv
  OBVIOUS
<1> USE DEF Init
<1>1. DOMAIN table = {} /\ Len(queue) = 0
  OBVIOUS
<1>2. TableOK(table)
  BY <1>1, FS_EmptySet, SlotAssumption DEF TableOK
<1>3. TypeInv
  BY <1>1, <1>2, SlotAssumption DEF TypeInv, TypeOK, TableOK
<1>4. HoldInv
  BY DEF HoldInv
<1>5. ListInv
  <2>1. \A k, a : ~Kept(Len(queue), k, a)
    BY <1>1 DEF Kept, Has
  <2>2. Fields(table) = {}
    BY <1>1 DEF Fields
  <2> QED
    BY <2>1, <2>2 DEF ListInv
<1> QED
  BY <1>3, <1>4, <1>5

(* ... and after a reboot.                                                 *)
LEMMA RebootStep == Reboot => TypeInv' /\ HoldInv' /\ ListInv'
<1>1. Reboot => Init'
  <2> SUFFICES ASSUME Reboot PROVE Init'
    OBVIOUS
  <2>1. Fields(<<>>) = {}
    BY DEF Fields
  <2> QED
    BY <2>1 DEF Reboot, Init
<1>2. (Init => TypeInv /\ HoldInv /\ ListInv)'
  BY SlotInit, PTL
<1> QED
  BY <1>1, <1>2

(* An event that brings no record and takes none is not published, ...     *)
LEMMA HandleShows ==
  ASSUME TypeInv, Handle, Shown(text) = Shown(Fields(table))
  PROVE  Shown(text') = Shown(Fields(table'))
<1> DEFINE e == Head(queue)
<1>1. e \in Events /\ table' = Handled(table, e)
  BY ShorterQueue DEF Handle, TypeInv
<1>2. text' = IF e.kind \in Membership THEN Fields(table') ELSE text
  BY DEF Handle
<1> HIDE DEF e
<1>3. CASE e.kind \in Membership
  BY <1>2, <1>3
<1>4. CASE e.kind \notin Membership
  <2>1. text' = text
    BY <1>2, <1>4
  <2>2. TableOK(table) /\ TableOK(table')
    BY <1>1, HandledType DEF TypeInv
  <2>3. DOMAIN table' = DOMAIN table /\ \A k \in DOMAIN table : table'[k].address = table[k].address
    <3>1. CASE e.kind = "traffic"
      <4>1. table' = Touched(table, e.key)
        BY <1>1, <3>1 DEF Handled
      <4>2. \A k \in DOMAIN table : table[k] \in [address : Addresses, age : 0..MaxAge]
        BY <2>2 DEF TableOK
      <4> QED
        BY <4>1, <4>2 DEF Touched
    <3>2. CASE e.kind # "traffic"
      BY <1>1, <1>4, <3>2 DEF Handled, Membership
    <3> QED
      BY <3>1, <3>2
  <2>4. /\ Shown(Fields(table)) = {table[k].address : k \in DOMAIN table}
        /\ Shown(Fields(table')) = {table'[k].address : k \in DOMAIN table'}
    BY <2>2, FieldsFacts
  <2> QED
    BY <2>1, <2>3, <2>4
<1> QED
  BY <1>3, <1>4

(* ... an event for the key of a connection renews its record, and another *)
(* leaves its time alone.                                                  *)
LEMMA HandleTimes ==
  ASSUME TypeInv, Handle, RoomFor(table, Head(queue)),
         NEW c \in Clients, held[c] # None,
         Kept(Len(queue), held[c].key, held[c].address), Timed(c)
  PROVE  Timed(c)'
<1> DEFINE k == held[c].key
           a == held[c].address
<1>1. /\ queue # <<>> /\ queue' = Tail(queue) /\ table' = Handled(table, Head(queue))
      /\ held' = held /\ quiet' = quiet
  BY DEF Handle, stack
<1>2. /\ Len(queue) \in Nat \ {0}
      /\ Len(queue') = Len(queue) - 1
      /\ Head(queue) = queue[1] /\ Head(queue) \in Events
      /\ \A j \in 1..Len(queue') : queue'[j] = queue[j + 1]
  BY <1>1, ShorterQueue DEF TypeInv
<1>3. held[c] \in Connections /\ k \in Keys /\ a \in Addresses /\ quiet[c] \in Nat
  BY SlotAssumption DEF TypeInv, TypeOK, Connections
<1>4. ASSUME NEW i \in 2..Len(queue), queue[i].key = k, queue[i].kind \in {"open", "traffic"}
      PROVE  Timed(c)'
  <2>1. i - 1 \in 1..Len(queue') /\ queue'[i - 1] = queue[i]
    BY <1>2
  <2> QED
    BY <1>1, <1>4, <2>1 DEF Timed
<1>5. ASSUME k \in DOMAIN table', table'[k].age <= quiet[c]
      PROVE  Timed(c)'
  BY <1>1, <1>5 DEF Timed
<1>6. CASE Opens(queue[1], k, a)
  <2>1. Has(table', k, a) /\ table'[k].age = 0
    BY <1>1, <1>2, <1>3, <1>6, HandledOpens DEF TypeInv, RoomFor, Opens
  <2> QED
    BY <1>3, <1>5, <2>1 DEF Has
<1>7. CASE \E i \in 2..Len(queue) : Opens(queue[i], k, a)
  BY <1>4, <1>7 DEF Opens
<1>8. CASE Has(table, k, a) /\ ~Ends(queue[1], k, a)
  <2>1. /\ Has(table', k, a)
        /\ table'[k].age \in {0, table[k].age}
        /\ queue[1].key = k /\ queue[1].kind \in {"open", "traffic"} => table'[k].age = 0
    BY <1>1, <1>2, <1>3, <1>8, HandledKeeps DEF TypeInv
  <2>2. k \in DOMAIN table'
    BY <2>1 DEF Has
  <2>3. CASE \E i \in 1..Len(queue) : queue[i].key = k /\ queue[i].kind \in {"open", "traffic"}
    <3>1. PICK i \in 1..Len(queue) : queue[i].key = k /\ queue[i].kind \in {"open", "traffic"}
      BY <2>3
    <3>2. CASE i = 1
      BY <1>3, <1>5, <2>1, <2>2, <3>1, <3>2
    <3>3. CASE i # 1
      BY <1>4, <3>1, <3>3
    <3> QED
      BY <3>2, <3>3
  <2>4. CASE k \in DOMAIN table /\ table[k].age <= quiet[c]
    BY <1>3, <1>5, <2>1, <2>2, <2>4
  <2> QED
    BY <2>3, <2>4 DEF Timed
<1>9. \/ Opens(queue[1], k, a)
      \/ \E i \in 2..Len(queue) : Opens(queue[i], k, a)
      \/ Has(table, k, a) /\ ~Ends(queue[1], k, a)
  <2>1. CASE \E i \in 1..Len(queue) : Opens(queue[i], k, a)
    <3>1. PICK i \in 1..Len(queue) : Opens(queue[i], k, a)
      BY <2>1
    <3>2. i = 1 \/ i \in 2..Len(queue)
      BY <1>2
    <3> QED
      BY <3>1, <3>2
  <2>2. CASE Has(table, k, a) /\ Stays(0, Len(queue), k, a)
    BY <1>2, <2>2 DEF Stays
  <2> QED
    BY <2>1, <2>2 DEF Kept
<1> QED
  BY <1>6, <1>7, <1>8, <1>9

LEMMA HandleStep ==
  TypeInv /\ Handle => /\ TypeInv'
                       /\ RoomFor(table, Head(queue)) /\ HoldInv => HoldInv'
                       /\ ListInv => ListInv'
<1> SUFFICES ASSUME TypeInv, Handle
             PROVE  /\ TypeInv'
                    /\ RoomFor(table, Head(queue)) /\ HoldInv => HoldInv'
                    /\ ListInv => ListInv'
  OBVIOUS
<1>1. /\ queue # <<>> /\ queue' = Tail(queue) /\ table' = Handled(table, Head(queue))
      /\ held' = held /\ quiet' = quiet
      /\ text' = IF Head(queue).kind \in Membership THEN Fields(table') ELSE text
  BY DEF Handle, stack
<1>2. /\ queue' \in Seq(Events)
      /\ Len(queue) \in Nat \ {0} /\ Len(queue') = Len(queue) - 1
      /\ Head(queue) \in Events
  BY <1>1, ShorterQueue DEF TypeInv
<1>3. TableOK(table')
  BY <1>1, <1>2, HandledType DEF TypeInv
<1>4. TypeInv'
  <2>1. \A i \in 1..Len(queue') : queue'[i].address \in Addresses
    BY <1>2 DEF Events
  <2>2. Len(queue') <= MaxQueue
    BY <1>2, SlotAssumption DEF TypeInv, TypeOK
  <2>3. \A f \in text' : f \in [address : Addresses, idle : 0..(ClockMod - 1)]
    BY <1>1, <1>3, FieldsFacts DEF TypeInv, TypeOK
  <2> QED
    BY <1>1, <1>2, <1>3, <2>1, <2>2, <2>3 DEF TypeInv, TypeOK, TableOK
<1>5. ASSUME RoomFor(table, Head(queue)), HoldInv, NEW c \in Clients, held'[c] # None
      PROVE  (Kept(Len(queue), held[c].key, held[c].address) /\ Timed(c))'
  <2>1. PICK k, a : k = held[c].key /\ a = held[c].address
    OBVIOUS
  <2>2. Kept(Len(queue), k, a) /\ Timed(c) /\ held[c] # None
    BY <1>1, <1>5, <2>1 DEF HoldInv
  <2>3. k \in Keys /\ a \in Addresses
    BY <2>1, <2>2 DEF TypeInv, TypeOK, Connections
  <2>4. Kept(Len(queue), k, a)'
    BY <1>1, <1>5, <2>2, <2>3, HandleKeeps
  <2>5. Timed(c)'
    BY <1>5, <2>1, <2>2, HandleTimes
  <2>6. k = held'[c].key /\ a = held'[c].address
    BY <1>1, <2>1
  <2> QED
    BY <2>4, <2>5, <2>6
<1>6. RoomFor(table, Head(queue)) /\ HoldInv => HoldInv'
  BY <1>5 DEF HoldInv
<1>7. ListInv => ListInv'
  <2>1. SUFFICES ASSUME ListInv PROVE ListInv'
    OBVIOUS
  <2>2. ASSUME NEW k \in Keys, NEW a \in Addresses, Kept(Len(queue), k, a)'
        PROVE  \E c \in Clients : Holds(c, a)'
    <3>1. Kept(Len(queue), k, a)
      BY <1>1, <2>2, HandleKept
    <3> QED
      BY <1>1, <2>1, <3>1 DEF ListInv, Holds
  <2>3. Shown(text') = Shown(Fields(table'))
    BY <2>1, HandleShows DEF ListInv
  <2> QED
    BY <2>2, <2>3 DEF ListInv
<1> QED
  BY <1>4, <1>6, <1>7

-----------------------------------------------------------------------------
(* Every step. *)

LEMMA SlotStep ==
  TypeInv /\ [Next]_vars =>
    /\ TypeInv'
    /\ HoldInv /\ (Handle => RoomFor(table, Head(queue))) => HoldInv'
    /\ ListInv => ListInv'
<1> SUFFICES ASSUME TypeInv, [Next]_vars
             PROVE  /\ TypeInv'
                    /\ HoldInv /\ (Handle => RoomFor(table, Head(queue))) => HoldInv'
                    /\ ListInv => ListInv'
  OBVIOUS
<1> USE DEF Preserved
<1>1. ASSUME NEW c \in Clients, NEW k \in Keys, NEW a \in Addresses,
             Open(c, k, a) \/ OpenFails(c, k, a)
      PROVE  Preserved
  BY <1>1, OpenStep, OpenFailsStep
<1>2. ASSUME NEW c \in Clients, Release(c) \/ Traffic(c)
      PROVE  Preserved
  BY <1>2, ReleaseStep, TrafficStep
<1>3. ASSUME NEW a \in Addresses, Drop(a)
      PROVE  Preserved
  BY <1>3, DropStep
<1>4. CASE Tick
  BY <1>4, TickStep
<1>5. CASE Handle
  BY <1>5, HandleStep
<1>6. CASE Update
  BY <1>6, UpdateStep
<1>7. CASE Reboot
  BY <1>7, RebootStep
<1>8. CASE UNCHANGED vars
  <2>1. /\ held' = held /\ quiet' = quiet /\ queue' = queue /\ table' = table /\ text' = text
    BY <1>8 DEF vars, stack, firmware
  <2>2. TypeInv'
    BY <2>1 DEF TypeInv, TypeOK, TableOK
  <2>3. HoldInv => HoldInv'
    BY <2>1 DEF HoldInv, Kept, Stays, Ends, Opens, Has, Timed
  <2>4. ListInv => ListInv'
    BY <2>1 DEF ListInv, Kept, Stays, Ends, Opens, Has, Holds
  <2> QED
    BY <2>2, <2>3, <2>4
<1> QED
  BY <1>1, <1>2, <1>3, <1>4, <1>5, <1>6, <1>7, <1>8 DEF Next

(* The variables keep their types; the events that wait and the keys of    *)
(* the connections have theirs.                                            *)
THEOREM SlotTypes == Spec => []TypeInv
<1>1. Init => TypeInv
  BY SlotInit
<1>2. TypeInv /\ [Next]_vars => TypeInv'
  BY SlotStep
<1> QED
  BY <1>1, <1>2, PTL DEF Spec

(* Among others, the table never has more records than its size, and no    *)
(* published silence is out of what the parser of the integration accepts, *)
(* wherever the clock wraps.                                               *)
THEOREM TypeCorrect == Spec => []TypeOK
<1>1. TypeInv => TypeOK
  BY DEF TypeInv
<1> QED
  BY <1>1, SlotTypes, PTL

-----------------------------------------------------------------------------
(* What is published of silence.                                           *)

(* What the integration reads of a device is at most what any record of it *)
(* has.                                                                    *)
LEMMA ReadingFacts ==
  ASSUME NEW t, TableOK(t), NEW k \in DOMAIN t
  PROVE  /\ Reading(Fields(t))[t[k].address] \in Nat
         /\ Reading(Fields(t))[t[k].address] <= t[k].age
<1> DEFINE a == t[k].address
           S == {f.idle : f \in {g \in Fields(t) : g.address = a}}
<1>1. t[k] \in [address : Addresses, age : 0..MaxAge] /\ t[k].age \in Nat
  BY SlotAssumption DEF TableOK
<1>2. Idle(t[k].age) \in S /\ a \in Shown(Fields(t))
  <2> DEFINE f == [address |-> a, idle |-> Idle(t[k].age)]
  <2>1. f \in Fields(t)
    BY DEF Fields
  <2>2. f.address = a /\ f.idle = Idle(t[k].age)
    OBVIOUS
  <2> HIDE DEF f
  <2> QED
    BY <2>1, <2>2 DEF Shown
<1>3. S \subseteq Nat
  BY FieldsFacts, SlotAssumption
<1>5. Reading(Fields(t))[a] = Min(S)
  BY <1>2 DEF Reading
<1> HIDE DEF S
<1>6. Min(S) \in S /\ \A x \in S : Min(S) <= x
  BY <1>2, <1>3, LeastNat DEF Min
<1>7. Idle(t[k].age) \in Nat /\ Idle(t[k].age) <= t[k].age
  BY <1>1, SlotAssumption DEF Idle
<1>8. Min(S) \in Nat /\ Min(S) <= Idle(t[k].age)
  BY <1>2, <1>3, <1>6
<1> QED
  BY <1>1, <1>5, <1>7, <1>8

(* What SilenceIsReal says of one step.                                    *)
SilentStep ==
  text' # text =>
    \A c \in Clients :
      \/ held'[c] = None
      \/ held'[c].address \notin Shown(text')
      \/ \E i \in 1..Len(queue') : queue'[i].key = held'[c].key
      \/ Reading(text')[held'[c].address] <= quiet'[c]

LEMMA SilenceStep == [Next]_vars /\ TypeInv' /\ HoldInv' => SilentStep
<1> SUFFICES ASSUME [Next]_vars, TypeInv', HoldInv', text' # text,
                    NEW c \in Clients, held'[c] # None,
                    \A i \in 1..Len(queue') : queue'[i].key # held'[c].key
             PROVE  Reading(text')[held'[c].address] <= quiet'[c]
  BY DEF SilentStep
<1>1. text' = Fields(table')
  BY DEF Next, Open, OpenFails, Release, Traffic, Drop, Tick, Handle, Update, Reboot,
         vars, firmware
<1>2. Kept(Len(queue), held[c].key, held[c].address)' /\ Timed(c)'
  BY DEF HoldInv
<1>3. Has(table', held'[c].key, held'[c].address)
  BY <1>2 DEF Kept, Opens, Has
<1>4. held'[c].key \in DOMAIN table' /\ table'[held'[c].key].age <= quiet'[c]
      /\ table'[held'[c].key].address = held'[c].address
  BY <1>2, <1>3 DEF Timed, Has
<1>5. TableOK(table')
  BY DEF TypeInv, TableOK
<1>6. PICK n : n = Reading(text')[held'[c].address]
  OBVIOUS
<1>7. n \in Nat /\ n <= table'[held'[c].key].age
  BY <1>1, <1>4, <1>5, <1>6, ReadingFacts
<1>8. table'[held'[c].key].age \in Nat /\ quiet'[c] \in Nat
  BY <1>4, <1>5, SlotAssumption DEF TableOK, TypeInv, TypeOK
<1>9. n <= quiet'[c]
  BY <1>4, <1>7, <1>8
<1> QED
  BY <1>6, <1>9

(* As long as no OPEN finds the table full, which the firmware reports as  *)
(* not reachable, ...                                                      *)
Roomy == [][Handle => RoomFor(table, Head(queue))]_vars

(* ... no device is published as silent for longer than any connection to  *)
(* it, whichever records of it are stale.                                  *)
THEOREM SilenceWithRoom == Spec /\ Roomy => SilenceIsReal
<1>1. Init => TypeInv /\ HoldInv
  BY SlotInit
<1>2. /\ TypeInv /\ HoldInv
      /\ [Next]_vars
      /\ [Handle => RoomFor(table, Head(queue))]_vars
      => TypeInv' /\ HoldInv'
  <2>1. SUFFICES ASSUME TypeInv, HoldInv, [Next]_vars,
                        [Handle => RoomFor(table, Head(queue))]_vars
                 PROVE  TypeInv' /\ HoldInv'
    OBVIOUS
  <2>2. CASE UNCHANGED vars
    <3>1. ~Handle
      <4>1. SUFFICES ASSUME Handle PROVE FALSE
        OBVIOUS
      <4>2. queue' = Tail(queue) /\ queue # <<>> /\ queue' = queue
        BY <2>2, <4>1 DEF Handle, vars
      <4> QED
        BY <2>1, <4>2, ShorterQueue DEF TypeInv
    <3> QED
      BY <2>1, <3>1, SlotStep
  <2>3. CASE Handle => RoomFor(table, Head(queue))
    BY <2>1, <2>3, SlotStep
  <2> QED
    BY <2>1, <2>2, <2>3
<1>3. [Next]_vars /\ TypeInv' /\ HoldInv' => [SilentStep]_vars
  BY SilenceStep
<1>4. [][SilentStep]_vars => SilenceIsReal
  BY DEF SilentStep, SilenceIsReal
<1> QED
  BY <1>1, <1>2, <1>3, <1>4, PTL DEF Spec, Roomy
-----------------------------------------------------------------------------
(* What is listed.                                                         *)

(* The recursive definition of After has a solution, ...                   *)
LEMMA AfterExists ==
  ASSUME NEW n \in Nat
  PROVE  \E f : f = [i \in 0..n |-> IF i = 0 THEN table ELSE Handled(f[i - 1], queue[i])]
<1> DEFINE Solves(f, m) ==
             f = [i \in 0..m |-> IF i = 0 THEN table ELSE Handled(f[i - 1], queue[i])]
           S == {m \in Nat : \E f : Solves(f, m)}
<1>1. 0 \in S
  <2> DEFINE f == [i \in 0..0 |-> table]
  <2>1. Solves(f, 0)
    OBVIOUS
  <2> QED
    BY <2>1
<1>2. ASSUME NEW m \in Nat, m \in S PROVE m + 1 \in S
  <2>1. PICK g : Solves(g, m)
    BY <1>2
  <2> DEFINE f == [i \in 0..(m + 1) |-> IF i <= m THEN g[i] ELSE Handled(g[m], queue[m + 1])]
             h == [i \in 0..(m + 1) |-> IF i = 0 THEN table ELSE Handled(f[i - 1], queue[i])]
  <2>2. ASSUME NEW i \in 0..(m + 1) PROVE f[i] = h[i]
    <3>1. CASE i <= m
      <4>1. f[i] = g[i] /\ g[i] = IF i = 0 THEN table ELSE Handled(g[i - 1], queue[i])
        BY <2>1, <3>1
      <4>2. i # 0 => f[i - 1] = g[i - 1]
        BY <3>1
      <4> QED
        BY <4>1, <4>2
    <3>2. CASE i = m + 1
      <4>1. f[i] = Handled(g[m], queue[m + 1]) /\ f[i - 1] = g[m] /\ i # 0
        BY <3>2
      <4> QED
        BY <3>2, <4>1
    <3> QED
      BY <3>1, <3>2
  <2>3. Solves(f, m + 1)
    BY <2>2
  <2> HIDE DEF f
  <2>4. \E u : Solves(u, m + 1)
    BY <2>3
  <2> QED
    BY <2>4
<1> HIDE DEF S
<1>3. Nat \subseteq S
  BY <1>1, <1>2, AllNaturals
<1> QED
  BY <1>3 DEF S

(* ... and starts with the table, and handles one event after another.     *)
LEMMA AfterFacts ==
  ASSUME TypeInv
  PROVE  /\ After[0] = table
         /\ \A i \in 1..Len(queue) : After[i] = Handled(After[i - 1], queue[i])
<1>1. Len(queue) \in Nat
  BY DEF TypeInv
<1>2. After = [i \in 0..Len(queue) |->
                IF i = 0 THEN table ELSE Handled(After[i - 1], queue[i])]
  BY <1>1, AfterExists DEF After
<1> QED
  BY <1>1, <1>2

(* What one more event does to the records that are kept.                  *)
LEMMA KeptStep ==
  ASSUME NEW m \in Nat, NEW k, NEW a
  PROVE  Kept(m + 1, k, a) <=>
           Opens(queue[m + 1], k, a) \/ (Kept(m, k, a) /\ ~Ends(queue[m + 1], k, a))
<1>1. \A i \in 0..m : Stays(i, m + 1, k, a) <=>
                        Stays(i, m, k, a) /\ ~Ends(queue[m + 1], k, a)
  <2>1. \A i \in 0..m : (i + 1)..(m + 1) = ((i + 1)..m) \cup {m + 1}
    OBVIOUS
  <2> QED
    BY <2>1 DEF Stays
<1>2. Stays(m + 1, m + 1, k, a)
  BY DEF Stays
<1>3. ASSUME NEW i \in 1..(m + 1) PROVE i \in 1..m \/ i = m + 1
  OBVIOUS
<1>4. 1..m \subseteq 0..m /\ 1..m \subseteq 1..(m + 1) /\ m + 1 \in 1..(m + 1) /\ 0 \in 0..m
  OBVIOUS
<1>5. Opens(queue[m + 1], k, a) => Kept(m + 1, k, a)
  BY <1>2, <1>4 DEF Kept
<1> QED
  BY <1>1, <1>3, <1>4, <1>5 DEF Kept

(* Every event that waits will find a record free, if it needs one.        *)
WaitingHasRoom == \A i \in 1..Len(queue) : RoomFor(After[i - 1], queue[i])

(* What is kept is what the table will have.                               *)
LEMMA AfterHas ==
  ASSUME TypeInv, WaitingHasRoom, NEW n \in 0..Len(queue)
  PROVE  /\ TableOK(After[n])
         /\ \A k \in Keys, a \in Addresses : Has(After[n], k, a) <=> Kept(n, k, a)
<1> DEFINE Good(m) ==
             /\ TableOK(After[m])
             /\ \A k \in Keys, a \in Addresses : Has(After[m], k, a) <=> Kept(m, k, a)
           S == {m \in Nat : m <= Len(queue) => Good(m)}
<1>1. Len(queue) \in Nat /\ queue \in Seq(Events)
  BY DEF TypeInv
<1>2. 0 \in S
  <2>1. \A k, a : Stays(0, 0, k, a)
    BY DEF Stays
  <2>2. \A k, a : Kept(0, k, a) <=> Has(table, k, a)
    BY <2>1 DEF Kept
  <2> QED
    BY <2>2, AfterFacts DEF TypeInv
<1>3. ASSUME NEW m \in Nat, m \in S PROVE m + 1 \in S
  <2> SUFFICES ASSUME m + 1 <= Len(queue) PROVE Good(m + 1)
    OBVIOUS
  <2>1. Good(m)
    BY <1>1, <1>3
  <2>2. m + 1 \in 1..Len(queue) /\ (m + 1) - 1 = m
    BY <1>1
  <2>3. PICK t, e : t = After[m] /\ e = queue[m + 1]
    OBVIOUS
  <2>4. e \in Events
    BY <1>1, <2>2, <2>3
  <2>5. After[m + 1] = Handled(t, e)
    BY <2>2, <2>3, AfterFacts
  <2>6. RoomFor(t, e)
    BY <2>2, <2>3 DEF WaitingHasRoom
  <2>7. TableOK(t) /\ TableOK(After[m + 1])
    BY <2>1, <2>3, <2>4, <2>5, HandledType
  <2>8. ASSUME NEW k \in Keys, NEW a \in Addresses
        PROVE  Has(After[m + 1], k, a) <=> Kept(m + 1, k, a)
    <3>1. Has(t, k, a) <=> Kept(m, k, a)
      BY <2>1, <2>3
    <3>2. Has(Handled(t, e), k, a) => Opens(e, k, a) \/ (Has(t, k, a) /\ ~Ends(e, k, a))
      BY <2>4, <2>7, HandledHas
    <3>3. Has(t, k, a) /\ ~Ends(e, k, a) => Has(Handled(t, e), k, a)
      BY <2>4, <2>7, HandledKeeps
    <3>4. Opens(e, k, a) => Has(Handled(t, e), k, a)
      BY <2>4, <2>6, <2>7, HandledOpens DEF RoomFor, Opens
    <3>5. Kept(m + 1, k, a) <=> Opens(e, k, a) \/ (Kept(m, k, a) /\ ~Ends(e, k, a))
      BY <2>3, KeptStep
    <3> QED
      BY <2>5, <3>1, <3>2, <3>3, <3>4, <3>5
  <2> QED
    BY <2>7, <2>8
<1> HIDE DEF S
<1>4. Nat \subseteq S
  BY <1>2, <1>3, AllNaturals
<1>5. n \in S /\ n <= Len(queue)
  BY <1>1, <1>4
<1> QED
  BY <1>5 DEF S

LEMMA ListedIsHeld ==
  TypeInv /\ HoldInv /\ ListInv /\ WaitingHasRoom => ShowsWhatIsHeld
<1> SUFFICES ASSUME TypeInv, HoldInv, ListInv, WaitingHasRoom
             PROVE  Settled = {held[c].address : c \in {d \in Clients : held[d] # None}}
  BY DEF ListInv, ShowsWhatIsHeld
<1>1. PICK n, t : n = Len(queue) /\ t = After[n]
  OBVIOUS
<1>2. n \in 0..Len(queue)
  BY <1>1 DEF TypeInv
<1>3. /\ TableOK(t)
      /\ \A k \in Keys, a \in Addresses : Has(t, k, a) <=> Kept(n, k, a)
  BY <1>1, <1>2, AfterHas
<1>4. Settled = {t[k].address : k \in DOMAIN t}
  BY <1>1, <1>3, FieldsFacts DEF Settled
<1>5. ASSUME NEW c \in Clients, held[c] # None
      PROVE  \E k \in DOMAIN t : t[k].address = held[c].address
  <2>1. PICK k, a : k = held[c].key /\ a = held[c].address
    OBVIOUS
  <2>2. k \in Keys /\ a \in Addresses
    BY <1>5, <2>1 DEF TypeInv, TypeOK, Connections
  <2>3. Has(t, k, a)
    BY <1>1, <1>3, <1>5, <2>1, <2>2 DEF HoldInv
  <2> QED
    BY <2>1, <2>3 DEF Has
<1>6. ASSUME NEW k \in DOMAIN t
      PROVE  \E c \in Clients : held[c] # None /\ held[c].address = t[k].address
  <2>1. PICK a : a = t[k].address
    OBVIOUS
  <2>2. k \in Keys /\ a \in Addresses
    BY <1>3, <2>1 DEF TableOK
  <2>3. Kept(n, k, a)
    BY <1>3, <2>1, <2>2 DEF Has
  <2> QED
    BY <1>1, <2>1, <2>2, <2>3 DEF ListInv, Holds
<1> QED
  BY <1>4, <1>5, <1>6

(* A record that will be found free for the first event is free now.       *)
LEMMA RoomToHandle == TypeInv /\ WaitingHasRoom => (Handle => RoomFor(table, Head(queue)))
<1> SUFFICES ASSUME TypeInv, WaitingHasRoom, Handle PROVE RoomFor(table, Head(queue))
  OBVIOUS
<1>1. 1 \in 1..Len(queue) /\ 1 - 1 = 0 /\ Head(queue) = queue[1]
  BY ShorterQueue DEF TypeInv, Handle
<1>2. RoomFor(After[0], queue[1])
  BY <1>1 DEF WaitingHasRoom
<1> QED
  BY <1>1, <1>2, AfterFacts

(* As long as every OPEN that waits will find a record free, the firmware  *)
(* is on its way to list exactly the devices that are held, through shared *)
(* links, reused ids, links that return before their end is handled, and   *)
(* missed CLOSE events.                                                    *)
THEOREM ListWithRoom == Spec /\ []WaitingHasRoom => []ShowsWhatIsHeld
<1>1. Init => TypeInv /\ HoldInv /\ ListInv
  BY SlotInit
<1>2. TypeInv /\ HoldInv /\ ListInv /\ WaitingHasRoom /\ [Next]_vars
      => TypeInv' /\ HoldInv' /\ ListInv'
  BY SlotStep, RoomToHandle
<1> QED
  BY <1>1, <1>2, ListedIsHeld, PTL DEF Spec
=============================================================================
