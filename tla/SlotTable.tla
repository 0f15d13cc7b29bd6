------------------------------ MODULE SlotTable ------------------------------
(***************************************************************************)
(* The connections of one proxy, from the Bluetooth stack to the text the  *)
(* integration reads: the stack queues the events of its GATT clients, the *)
(* firmware keeps a record per connection with the time of its last        *)
(* traffic, and publishes how long each has been silent.  Several clients  *)
(* may hold the same device; the stack tells every client when a link      *)
(* comes up or goes down, and a CLOSE may be missed.                       *)
(***************************************************************************)
EXTENDS Integers, Sequences, FiniteSets, Functions, FiniteSetsExt, SequencesExt

CONSTANTS
  Clients,     (* Registered GATT clients, one connection each at a time.    *)
  ConnIds,     (* Connection ids, unique within a client only.               *)
  Addresses,   (* Devices.                                                   *)
  TableSize,   (* MAX_TRACKED_SLOTS.                                         *)
  ClockMod,    (* 2^32: where the firmware's millisecond clock wraps.        *)
  MaxQueue,    (* Bound on the events that wait.                             *)
  MaxAge       (* Bound on the silence of a connection.                      *)

ASSUME SlotAssumption ==
  /\ IsFiniteSet(Clients)
  /\ TableSize \in Nat \ {0}
  /\ ClockMod \in Nat \ {0}
  /\ MaxQueue \in Nat
  /\ MaxAge \in Nat

VARIABLES
  held,    (* The connection of each client: a key and a device, or None.    *)
  quiet,   (* Ticks since traffic last passed on each client's connection.   *)
  queue,   (* Events that wait for the firmware's loop, oldest first.        *)
  table,   (* slots_: the record of each key that has one.                   *)
  text     (* The fields last published.                                     *)

stack == <<held, quiet>>
firmware == <<table, text>>
vars == <<stack, queue, firmware>>

None == [key |-> <<>>, address |-> <<>>]

(* (gattc_if << 16) | conn_id.                                             *)
Keys == Clients \X ConnIds

Connections == [key : Keys, address : Addresses]

Init ==
  /\ held = [c \in Clients |-> None]
  /\ quiet = [c \in Clients |-> 0]
  /\ queue = <<>>
  /\ table = <<>>
  /\ text = {}

-----------------------------------------------------------------------------
(* The stack.  Its events name a key, a device, or both.                   *)

Event(kind, key, address) == [kind |-> kind, key |-> key, address |-> address]

(* ESPHome fans the events out of the stack in the order they occur.       *)
Enqueue(events) ==
  /\ Len(queue) + Len(events) <= MaxQueue
  /\ queue' = queue \o events

Holders(a) == {c \in Clients : held[c] # None /\ held[c].address = a}

(* One CONNECT stands for the copies every client receives back to back.   *)
LinkUp(a) == IF Holders(a) = {} THEN <<Event("connect", <<>>, a)>> ELSE <<>>

(* A client opens a device, under an id the stack chooses; opening a link  *)
(* that is already up brings no CONNECT.                                   *)
Open(c, k, a) ==
  /\ held[c] = None
  /\ k[1] = c
  /\ held' = [held EXCEPT ![c] = [key |-> k, address |-> a]]
  /\ quiet' = [quiet EXCEPT ![c] = 0]
  /\ Enqueue(Append(LinkUp(a), Event("open", k, a)))
  /\ UNCHANGED firmware

OpenFails(c, k, a) ==
  /\ held[c] = None
  /\ k[1] = c
  /\ Enqueue(<<Event("open_failed", k, a)>>)
  /\ UNCHANGED <<stack, firmware>>

(* A CLOSE, in any order, for each client that lost its connection, unless *)
(* it is missed.                                                           *)
Closes(holders) ==
  UNION {SetToSeqs({Event("close", held[c].key, held[c].address) : c \in told}) :
           told \in SUBSET holders}

(* One client lets go of a device that another still holds.                *)
Release(c) ==
  /\ held[c] # None
  /\ Holders(held[c].address) # {c}
  /\ \E closes \in Closes({c}) : Enqueue(closes)
  /\ held' = [held EXCEPT ![c] = None]
  /\ quiet' = [quiet EXCEPT ![c] = 0]
  /\ UNCHANGED firmware

(* A link goes down, and with it every connection that used it.            *)
Drop(a) ==
  /\ Holders(a) # {}
  /\ \E closes \in Closes(Holders(a)) :
       Enqueue(Append(closes, Event("disconnect", <<>>, a)))
  /\ held' = [c \in Clients |-> IF c \in Holders(a) THEN None ELSE held[c]]
  /\ quiet' = [c \in Clients |-> IF c \in Holders(a) THEN 0 ELSE quiet[c]]
  /\ UNCHANGED firmware

(* A read, a write or a notification on the connection of c.               *)
Traffic(c) ==
  /\ held[c] # None
  /\ quiet' = [quiet EXCEPT ![c] = 0]
  /\ Enqueue(<<Event("traffic", held[c].key, held[c].address)>>)
  /\ UNCHANGED <<held, firmware>>

Tick ==
  /\ \A c \in Clients : quiet[c] < MaxAge
  /\ \A k \in DOMAIN table : table[k].age < MaxAge
  /\ quiet' = [c \in Clients |-> IF held[c] = None THEN 0 ELSE quiet[c] + 1]
  /\ table' = [k \in DOMAIN table |-> [table[k] EXCEPT !.age = @ + 1]]
  /\ UNCHANGED <<held, queue, text>>

-----------------------------------------------------------------------------
(* The firmware.  Definitions named _mutant are plausible mistakes in the  *)
(* next definition, which the runs must refute.                            *)

Fresh(a) == [address |-> a, age |-> 0]

(* open_slot_: the record the key has, or a free one, or none.             *)
Opened(t, k, a) ==
  IF k \in DOMAIN t \/ Cardinality(DOMAIN t) < TableSize
  THEN [i \in DOMAIN t \cup {k} |-> IF i = k THEN Fresh(a) ELSE t[i]]
  ELSE t

Closed(t, k) == Restrict(t, DOMAIN t \ {k})

ClosedForAddress_mutant(t, a) ==
  LET stale == {k \in DOMAIN t : t[k].address = a}
  IN  IF stale = {} THEN t ELSE Closed(t, CHOOSE k \in stale : TRUE)

(* close_slots_for_address_.                                               *)
ClosedForAddress(t, a) == Restrict(t, {k \in DOMAIN t : t[k].address # a})

Touched(t, k) == IF k \in DOMAIN t THEN [t EXCEPT ![k].age = 0] ELSE t

(* gattc_event_handler: a CONNECT and an OPEN that failed leave no trace.  *)
Handled(t, e) ==
  CASE e.kind = "open"       -> Opened(t, e.key, e.address)
    [] e.kind = "close"      -> Closed(t, e.key)
    [] e.kind = "disconnect" -> ClosedForAddress(t, e.address)
    [] e.kind = "traffic"    -> Touched(t, e.key)
    [] OTHER                 -> t

Idle_mutant(age) ==
  IF age % ClockMod < ClockMod \div 2 THEN age % ClockMod ELSE (age % ClockMod) - ClockMod

(* The unsigned difference of the clock and the record's stamp.            *)
Idle(age) == age % ClockMod

(* publish_slots_: one field per record.                                   *)
Fields(t) == {[address |-> t[k].address, idle |-> Idle(t[k].age)] : k \in DOMAIN t}

Membership == {"open", "close", "disconnect"}

Handle ==
  /\ queue # <<>>
  /\ queue' = Tail(queue)
  /\ table' = Handled(table, Head(queue))
  /\ text' = IF Head(queue).kind \in Membership THEN Fields(table') ELSE text
  /\ UNCHANGED stack

(* A reboot ends every connection; setup publishes the empty table.        *)
Reboot ==
  /\ held' = [c \in Clients |-> None]
  /\ quiet' = [c \in Clients |-> 0]
  /\ queue' = <<>>
  /\ table' = <<>>
  /\ text' = Fields(table')

(* The periodic tick, which keeps the idle times advancing.                *)
Update ==
  /\ text' = Fields(table)
  /\ UNCHANGED <<stack, queue, table>>

Next ==
  \/ \E c \in Clients, k \in Keys, a \in Addresses : Open(c, k, a) \/ OpenFails(c, k, a)
  \/ \E c \in Clients : Release(c) \/ Traffic(c)
  \/ \E a \in Addresses : Drop(a)
  \/ Tick
  \/ Handle
  \/ Update
  \/ Reboot

Spec == Init /\ [][Next]_vars

-----------------------------------------------------------------------------
(* What the integration reads. *)

Shown(fields) == {f.address : f \in fields}

Reading_mutant(fields) ==
  [a \in Shown(fields) |-> Max({f.idle : f \in {g \in fields : g.address = a}})]

(* parse_idle_seconds: the latest traffic of any record is the answer.     *)
Reading(fields) ==
  [a \in Shown(fields) |-> Min({f.idle : f \in {g \in fields : g.address = a}})]

-----------------------------------------------------------------------------
TypeOK ==
  /\ held \in [Clients -> Connections \cup {None}]
  /\ quiet \in [Clients -> 0..MaxAge]
  /\ Len(queue) <= MaxQueue
  /\ \A i \in 1..Len(queue) : queue[i].address \in Addresses
  /\ DOMAIN table \subseteq Keys
  /\ Cardinality(DOMAIN table) <= TableSize
  /\ \A k \in DOMAIN table : table[k] \in [address : Addresses, age : 0..MaxAge]
  /\ \A f \in text : f \in [address : Addresses, idle : 0..(ClockMod - 1)]

(* The table with the first i of the waiting events handled.               *)
After[i \in 0..Len(queue)] ==
  IF i = 0 THEN table ELSE Handled(After[i - 1], queue[i])

(* The devices the table would list with every waiting event handled.      *)
Settled == Shown(Fields(After[Len(queue)]))

(* Whatever waits, the firmware is on its way to list exactly the devices  *)
(* its clients hold, through shared links, reused ids, links that return   *)
(* before their end is handled, and missed CLOSE events; and once nothing  *)
(* waits that is what the integration reads.                               *)
ShowsWhatIsHeld ==
  /\ Settled = {held[c].address : c \in {d \in Clients : held[d] # None}}
  /\ Shown(text) = Shown(Fields(table))

(* A device is never published as silent for longer than any client's      *)
(* connection to it has been, but for what waits to be handled: not by the *)
(* record of another client, nor by one that was never closed, nor where   *)
(* the clock wraps.                                                        *)
SilenceIsReal ==
  [][text' # text =>
       \A c \in Clients :
         \/ held'[c] = None
         \/ held'[c].address \notin Shown(text')
         \/ \E i \in 1..Len(queue') : queue'[i].key = held'[c].key
         \/ Reading(text')[held'[c].address] <= quiet'[c]]_vars
=============================================================================
