----------------------- MODULE PushScheduler_proofs ------------------------
(***************************************************************************)
(* What follows from the calls of habluetooth: the order of pushes and     *)
(* bookings and the quiet after a shutdown, for any number of threads, any *)
(* number of events and any settle time; and, in the second part of this   *)
(* module, a true route for each slot.                                     *)
(***************************************************************************)
EXTENDS PushScheduler, ConnectionPath, FiniteSetTheorems, WellFoundedInduction, TLAPS

(* Types, and: a thread in a callback is in it for an event that happened. *)
TypeInv ==
  /\ TypeOK
  /\ \A t \in Threads : pc[t] # "idle" => ev[t] \in 1..world

(* Handing over a callback puts it behind all the others.                  *)
LEMMA CallSoonFacts ==
  ASSUME TypeOK, NEW STATE cb, cb \in Callbacks, queue' = CallSoon(cb)
  PROVE  /\ queue' \in Seq(Callbacks)
         /\ Len(queue') = Len(queue) + 1
         /\ \A i \in 1..Len(queue) : queue'[i] = queue[i]
         /\ queue'[Len(queue) + 1] = cb
BY DEF TypeOK, CallSoon

(* Running a callback takes the oldest one out.                            *)
LEMMA RunFacts ==
  ASSUME TypeOK, queue # <<>>, queue' = Tail(queue)
  PROVE  /\ Head(queue) \in Callbacks
         /\ Head(queue) = queue[1]
         /\ queue' \in Seq(Callbacks)
         /\ Len(queue') = Len(queue) - 1
         /\ Len(queue) \in Nat \ {0}
         /\ \A i \in 1..Len(queue') : i + 1 \in 1..Len(queue) /\ queue'[i] = queue[i + 1]
BY DEF TypeOK

(* Types are kept by every step.                                           *)
LEMMA TypeStep ==
  ASSUME SettleAssumption, TypeInv, [Next]_vars
  PROVE  TypeInv'
<1> USE DEF TypeInv, TypeOK
<1>1. ASSUME NEW t \in Threads, Event(t) PROVE TypeInv'
  <2>1. world' = world + 1 /\ world + 1 \in 1..MaxEvents
    BY <1>1 DEF Event, SettleAssumption
  <2>2. ev' = [ev EXCEPT ![t] = world + 1] /\ ev' \in [Threads -> 0..MaxEvents]
    BY <1>1, <2>1 DEF Event, SettleAssumption
  <2>3. leaving' \in SUBSET (1..MaxEvents)
    BY <1>1, <2>1 DEF Event
  <2>4. pc' \in [Threads -> Steps] /\ \A u \in Threads \ {t} : pc'[u] = pc[u]
    BY <1>1 DEF Event, Goto, Steps
  <2>5. \A u \in Threads : pc'[u] # "idle" => ev'[u] \in 1..world'
    BY <2>1, <2>2, <2>4
  <2>6. stopped' \in BOOLEAN /\ stopping' \in BOOLEAN
    BY <1>1 DEF Event, flags
  <2>7. queue' = queue /\ handle' = handle /\ published' = published /\ quiet' = quiet
    BY <1>1 DEF Event
  <2>8. booked' = booked /\ standsFor' = standsFor /\ owed' = owed
    BY <1>1 DEF Event
  <2>9. TypeOK'
    BY <2>1, <2>2, <2>3, <2>4, <2>6, <2>7, <2>8
  <2> QED
    BY <2>5, <2>9
<1>2. ASSUME NEW t \in Threads, RecordReboot(t) PROVE TypeInv'
  <2>1. ev[t] \in 1..MaxEvents
    BY <1>2 DEF RecordReboot, SettleAssumption
  <2>2. pc' \in [Threads -> Steps] /\ \A u \in Threads \ {t} : pc'[u] = pc[u]
    BY <1>2 DEF RecordReboot, Goto, Steps
  <2>3. pc[t] # "idle"
    BY <1>2 DEF RecordReboot
  <2>4. owed' \in SUBSET (1..MaxEvents)
    BY <1>2, <2>1 DEF RecordReboot
  <2> QED
    BY <1>2, <2>2, <2>3, <2>4 DEF RecordReboot, flags
<1>3. ASSUME NEW t \in Threads, NEW what \in {"record", "schedule"},
             pc[t] # "idle", queue' = CallSoon([do |-> what, event |-> ev[t]]),
             pc' \in [Threads -> Steps], \A u \in Threads \ {t} : pc'[u] = pc[u],
             UNCHANGED <<world, ev, handle, flags, published, booked, history>>
      PROVE  TypeInv'
  <2>1. ev[t] \in 1..MaxEvents
    BY <1>3 DEF SettleAssumption
  <2>2. queue' \in Seq(Callbacks)
    BY <1>3, <2>1, CallSoonFacts DEF Callbacks
  <2> QED
    BY <1>3, <2>2 DEF flags, history
<1>4. ASSUME NEW t \in Threads, QueueRecord(t) PROVE TypeInv'
  BY <1>3, <1>4 DEF QueueRecord, Goto, Steps
<1>5. ASSUME NEW t \in Threads, HandlePush(t) PROVE TypeInv'
  <2>1. pc' \in [Threads -> Steps] /\ \A u \in Threads \ {t} : pc'[u] = pc[u]
    BY <1>5 DEF HandlePush, Goto, Steps
  <2> QED
    BY <1>5, <2>1 DEF HandlePush, flags, history
<1>6. ASSUME NEW t \in Threads, QueueSchedule(t) PROVE TypeInv'
  BY <1>3, <1>6 DEF QueueSchedule, Goto, Steps
<1>7. CASE RunCallback
  <2>1. Head(queue) \in Callbacks /\ queue' \in Seq(Callbacks)
    BY <1>7, RunFacts DEF RunCallback
  <2>2. Head(queue).event \in 1..MaxEvents
    BY <2>1 DEF Callbacks
  <2>3. Settle \in 0..Settle
    BY DEF SettleAssumption
  <2>4. handle' \in {None} \cup 0..Settle
    BY <1>7, <2>3 DEF RunCallback, Delay
  <2>5. booked' \in SUBSET (1..MaxEvents) /\ standsFor' \in SUBSET (1..MaxEvents)
    BY <1>7, <2>2 DEF RunCallback
  <2> QED
    BY <1>7, <2>1, <2>4, <2>5 DEF RunCallback, threads, flags
<1>8. CASE PushSnapshot
  <2>1. 0 \in 0..Settle
    BY DEF SettleAssumption
  <2> QED
    BY <1>8, <2>1 DEF PushSnapshot, threads, flags
<1>9. CASE Poll
  BY <1>9 DEF Poll, threads, flags, history
<1>10. CASE StopHass
  BY <1>10 DEF StopHass, threads, history
<1>11. CASE Shutdown
  BY <1>11 DEF Shutdown, threads, HandleAtShutdown
<1>12. CASE Tick
  <2>1. handle' \in {None} \cup 0..Settle
    BY <1>12 DEF Tick, SettleAssumption, None
  <2>2. quiet' \in 0..Settle
    BY <1>12 DEF Tick, SettleAssumption
  <2> QED
    BY <1>12, <2>1, <2>2 DEF Tick, threads, flags
<1>13. CASE UNCHANGED vars
  BY <1>13 DEF vars, threads, flags, history
<1> QED
  BY <1>1, <1>2, <1>4, <1>5, <1>6, <1>7, <1>8, <1>9, <1>10, <1>11, <1>12, <1>13
     DEF Next, ThreadStep

(* Init establishes the types.                                             *)
LEMMA TypeInit ==
  ASSUME SettleAssumption, Init
  PROVE  TypeInv
<1>1. 0 \in 0..MaxEvents /\ Settle \in 0..Settle
  BY DEF SettleAssumption
<1>2. queue \in Seq(Callbacks)
  BY DEF Init
<1>3. world \in 0..MaxEvents /\ published \in 0..MaxEvents /\ quiet \in 0..Settle
      /\ ev \in [Threads -> 0..MaxEvents]
  BY <1>1 DEF Init
<1>4. pc \in [Threads -> Steps] /\ \A t \in Threads : pc[t] = "idle"
  BY DEF Init, Steps
<1>5. stopped \in BOOLEAN /\ stopping \in BOOLEAN /\ handle \in {None} \cup 0..Settle
  BY DEF Init
<1>6. booked = {} /\ standsFor = {} /\ owed = {} /\ leaving = {}
  BY DEF Init
<1> QED
  BY <1>2, <1>3, <1>4, <1>5, <1>6 DEF TypeInv, TypeOK

(* Both hold at every moment.                                              *)
LEMMA TypesAlways == Spec => []TypeInv
<1>1. Init => TypeInv
  BY SettleAssumption, TypeInit
<1>2. TypeInv /\ [Next]_vars => TypeInv'
  BY SettleAssumption, TypeStep
<1> QED
  BY <1>1, <1>2, PTL DEF Spec

(* Types, for any number of threads and events and any settle time.        *)
THEOREM TypeCorrect == Spec => []TypeOK
<1>1. TypeInv => TypeOK
  BY DEF TypeInv
<1> QED
  BY <1>1, TypesAlways, PTL

-----------------------------------------------------------------------------
(* Whether the callback waits at position i of a queue.                    *)
Waits(q, i, what, n) == i \in 1..Len(q) /\ q[i].do = what /\ q[i].event = n

(* Nothing is known of an event that has not happened yet.                 *)
NoForesight ==
  /\ standsFor \subseteq 1..world
  /\ owed \subseteq 1..world
  /\ leaving \subseteq 1..world
  /\ \A i \in 1..Len(queue) : queue[i].event \in 1..world

(* Each event is called back by one thread.                                *)
Apart ==
  \A t, u \in Threads :
    t # u /\ pc[t] # "idle" /\ pc[u] # "idle" => ev[t] # ev[u]

(* A thread that has still to book its removal has not asked for a         *)
(* snapshot for it.                                                        *)
NotYetPushed ==
  \A t \in Threads :
    pc[t] \in {"removed", "recording"} =>
      /\ ev[t] \notin standsFor
      /\ \A i \in 1..Len(queue) : ~Waits(queue, i, "schedule", ev[t])
      /\ pc[t] = "removed" => ev[t] \notin owed

(* The booking of an owed removal is done, or waits ahead of its push.     *)
RecordAhead ==
  /\ \A n \in owed : \A i \in 1..Len(queue) :
       Waits(queue, i, "schedule", n) =>
         n \in booked \/ \E j \in 1..(i - 1) : Waits(queue, j, "record", n)
  /\ \A t \in Threads :
       pc[t] \in {"pushing", "scheduling"} /\ ev[t] \in owed =>
         \/ ev[t] \in booked
         \/ \E j \in 1..Len(queue) : Waits(queue, j, "record", ev[t])

OrderInv == NoForesight /\ Apart /\ NotYetPushed /\ RecordAhead /\ RebootBookedFirst

(* A change touches a thread alone when the queue and the history stay.    *)
LEMMA OrderEvent ==
  ASSUME TypeInv, OrderInv, NEW t \in Threads, Event(t)
  PROVE  OrderInv'
<1>1. world \in Nat /\ world' = world + 1 /\ ev'[t] = world' /\ pc'[t] \in {"removed", "pushing"}
  BY DEF Event, Goto, TypeInv, TypeOK
<1>2. \A u \in Threads \ {t} : pc'[u] = pc[u] /\ ev'[u] = ev[u]
  BY DEF Event, Goto, TypeInv, TypeOK
<1>3. queue' = queue /\ standsFor' = standsFor /\ owed' = owed /\ booked' = booked
  BY DEF Event
<1>4. \A u \in Threads : pc[u] # "idle" => ev[u] \in 1..world
  BY DEF TypeInv
<1>5. world' \notin standsFor /\ world' \notin owed
      /\ \A i \in 1..Len(queue) : queue[i].event # world'
  BY <1>1 DEF OrderInv, NoForesight
<1>6. leaving' \subseteq 1..world' /\ 1..world \subseteq 1..world'
  <2>1. 1..world \subseteq 1..world' /\ world' \in 1..world'
    BY <1>1
  <2>2. leaving' = leaving \/ leaving' = leaving \cup {world'}
    BY DEF Event
  <2> QED
    BY <2>1, <2>2 DEF OrderInv, NoForesight
<1>7. NoForesight'
  BY <1>3, <1>6 DEF OrderInv, NoForesight
<1>8. Apart'
  BY <1>1, <1>2, <1>4 DEF OrderInv, Apart
<1>9. NotYetPushed'
  BY <1>1, <1>2, <1>3, <1>5 DEF OrderInv, NotYetPushed, Waits
<1>10. RecordAhead'
  BY <1>1, <1>2, <1>3, <1>5 DEF OrderInv, RecordAhead, Waits
<1> QED
  BY <1>3, <1>7, <1>8, <1>9, <1>10 DEF OrderInv, RebootBookedFirst

(* The removal becomes owed before anything was pushed for it.             *)
LEMMA OrderRecordReboot ==
  ASSUME TypeInv, OrderInv, NEW t \in Threads, RecordReboot(t)
  PROVE  OrderInv'
<1>1. pc[t] = "removed" /\ ev[t] \in 1..world
  BY DEF RecordReboot, TypeInv
<1>2. /\ pc'[t] \in {"recording", "pushing"}
      /\ pc'[t] = "pushing" => owed' = owed
      /\ owed' = owed \/ owed' = owed \cup {ev[t]}
  BY DEF RecordReboot, Goto, TypeInv, TypeOK, MayRecord
<1>3. \A u \in Threads \ {t} : pc'[u] = pc[u]
  BY DEF RecordReboot, Goto, TypeInv, TypeOK
<1>4. /\ queue' = queue /\ standsFor' = standsFor /\ leaving' = leaving
      /\ booked' = booked /\ ev' = ev /\ world' = world
  BY DEF RecordReboot
<1>5. \A u \in Threads \ {t} : pc[u] # "idle" => ev[u] # ev[t]
  BY <1>1 DEF OrderInv, Apart
<1>6. NoForesight'
  BY <1>1, <1>2, <1>4 DEF OrderInv, NoForesight
<1>7. Apart'
  BY <1>1, <1>2, <1>3, <1>4 DEF OrderInv, Apart
<1>8. NotYetPushed'
  BY <1>1, <1>2, <1>3, <1>4, <1>5 DEF OrderInv, NotYetPushed, Waits
<1>9. RecordAhead'
  BY <1>1, <1>2, <1>3, <1>4, <1>5 DEF OrderInv, RecordAhead, NotYetPushed, Waits
<1>10. RebootBookedFirst'
  BY <1>1, <1>2, <1>4 DEF OrderInv, NotYetPushed, RebootBookedFirst
<1> QED
  BY <1>6, <1>7, <1>8, <1>9, <1>10 DEF OrderInv

(* The booking goes to the end of the queue; its thread pushes after it.   *)
LEMMA OrderQueueRecord ==
  ASSUME SettleAssumption, TypeInv, OrderInv, NEW t \in Threads, QueueRecord(t)
  PROVE  OrderInv'
<1>1. pc[t] = "recording" /\ ev[t] \in 1..world /\ world \in 0..MaxEvents
  BY DEF QueueRecord, TypeInv, TypeOK
<1> DEFINE cb == [do |-> "record", event |-> ev[t]]
<1>2. cb \in Callbacks /\ queue' = CallSoon(cb)
  BY <1>1 DEF QueueRecord, Callbacks, SettleAssumption
<1>3. /\ Len(queue) \in Nat /\ Len(queue') = Len(queue) + 1
      /\ \A i \in 1..Len(queue) : queue'[i] = queue[i]
      /\ queue'[Len(queue) + 1] = cb
  <2>1. TypeOK
    BY DEF TypeInv
  <2> HIDE DEF cb
  <2> QED
    BY <1>2, <2>1, CallSoonFacts DEF TypeOK
<1>4. pc'[t] = "pushing" /\ \A u \in Threads \ {t} : pc'[u] = pc[u]
  BY DEF QueueRecord, Goto, TypeInv, TypeOK
<1>5. /\ standsFor' = standsFor /\ leaving' = leaving /\ owed' = owed
      /\ booked' = booked /\ ev' = ev /\ world' = world
  BY DEF QueueRecord, history
<1>6. NoForesight'
  BY <1>1, <1>3, <1>5 DEF OrderInv, NoForesight
<1>7. Apart'
  BY <1>1, <1>4, <1>5 DEF OrderInv, Apart
<1>8. NotYetPushed'
  BY <1>1, <1>3, <1>4, <1>5 DEF OrderInv, NotYetPushed, Waits
<1>9. RecordAhead'
  BY <1>1, <1>3, <1>4, <1>5 DEF OrderInv, RecordAhead, Waits
<1> QED
  BY <1>5, <1>6, <1>7, <1>8, <1>9 DEF OrderInv, RebootBookedFirst

(* A thread moving on between pushing, scheduling and idle.                *)
LEMMA OrderHandlePush ==
  ASSUME TypeInv, OrderInv, NEW t \in Threads, HandlePush(t)
  PROVE  OrderInv'
<1>1. pc[t] = "pushing" /\ pc'[t] \in {"idle", "scheduling"}
  BY DEF HandlePush, Goto, TypeInv, TypeOK
<1>2. \A u \in Threads \ {t} : pc'[u] = pc[u]
  BY DEF HandlePush, Goto, TypeInv, TypeOK
<1>3. UNCHANGED <<queue, standsFor, leaving, owed, booked, ev, world>>
  BY DEF HandlePush, history
<1> QED
  BY <1>1, <1>2, <1>3
     DEF OrderInv, NoForesight, Apart, NotYetPushed, RecordAhead, RebootBookedFirst, Waits

(* The push goes to the end of the queue, behind its booking.              *)
LEMMA OrderQueueSchedule ==
  ASSUME SettleAssumption, TypeInv, OrderInv, NEW t \in Threads, QueueSchedule(t)
  PROVE  OrderInv'
<1>1. pc[t] = "scheduling" /\ ev[t] \in 1..world /\ world \in 0..MaxEvents
  BY DEF QueueSchedule, TypeInv, TypeOK
<1> DEFINE cb == [do |-> "schedule", event |-> ev[t]]
<1>2. cb \in Callbacks /\ queue' = CallSoon(cb)
  BY <1>1 DEF QueueSchedule, Callbacks, SettleAssumption
<1>3. /\ Len(queue) \in Nat /\ Len(queue') = Len(queue) + 1
      /\ \A i \in 1..Len(queue) : queue'[i] = queue[i]
      /\ queue'[Len(queue) + 1] = cb
  <2>1. TypeOK
    BY DEF TypeInv
  <2> HIDE DEF cb
  <2> QED
    BY <1>2, <2>1, CallSoonFacts DEF TypeOK
<1>4. pc'[t] = "idle" /\ \A u \in Threads \ {t} : pc'[u] = pc[u]
  BY DEF QueueSchedule, Goto, TypeInv, TypeOK
<1>5. /\ standsFor' = standsFor /\ leaving' = leaving /\ owed' = owed
      /\ booked' = booked /\ ev' = ev /\ world' = world
  BY DEF QueueSchedule, history
<1>6. NoForesight'
  BY <1>1, <1>3, <1>5 DEF OrderInv, NoForesight
<1>7. Apart'
  BY <1>1, <1>4, <1>5 DEF OrderInv, Apart
<1>8. NotYetPushed'
  BY <1>1, <1>3, <1>4, <1>5 DEF OrderInv, Apart, NotYetPushed, Waits
<1>9. RecordAhead'
  BY <1>1, <1>3, <1>4, <1>5 DEF OrderInv, RecordAhead, Waits
<1> QED
  BY <1>5, <1>6, <1>7, <1>8, <1>9 DEF OrderInv, RebootBookedFirst

(* The oldest callback runs: a booking that the rest of the queue may rely *)
(* on becomes done, a push finds its booking done.                         *)
LEMMA OrderRunCallback ==
  ASSUME TypeInv, OrderInv, RunCallback
  PROVE  OrderInv'
<1>1. /\ Len(queue) \in Nat \ {0} /\ Len(queue') = Len(queue) - 1
      /\ \A i \in 1..Len(queue') : i + 1 \in 1..Len(queue) /\ queue'[i] = queue[i + 1]
      /\ Head(queue) = queue[1] /\ Head(queue) \in Callbacks
  BY RunFacts DEF RunCallback, TypeInv
<1> DEFINE n == queue[1].event
<1>2. queue[1].do \in {"record", "schedule"} /\ n \in 1..world
  BY <1>1 DEF Callbacks, OrderInv, NoForesight
<1>3. UNCHANGED <<world, pc, ev, owed, leaving>>
  BY DEF RunCallback, threads
<1>4. \A what, m : \A i \in 1..Len(queue') :
        Waits(queue', i, what, m) <=> Waits(queue, i + 1, what, m)
  BY <1>1 DEF Waits
<1>5. \A what, m : \A i \in 1..Len(queue) :
        Waits(queue, i, what, m) /\ i # 1 =>
          i - 1 \in 1..Len(queue') /\ Waits(queue', i - 1, what, m)
  BY <1>1 DEF Waits
<1>6. CASE queue[1].do = "record"
  <2>1. booked' = booked \cup {n} /\ standsFor' = standsFor
    BY <1>1, <1>6 DEF RunCallback
  <2> HIDE DEF n
  <2>2. NoForesight'
    BY <1>1, <1>3, <2>1 DEF OrderInv, NoForesight
  <2>3. NotYetPushed' /\ Apart'
    BY <1>1, <1>3, <1>4, <2>1 DEF OrderInv, NotYetPushed, Apart
  <2>4. ASSUME NEW m \in owed, NEW j \in 1..Len(queue), Waits(queue, j, "record", m)
        PROVE  m \in booked' \/ (j - 1 \in 1..Len(queue') /\ Waits(queue', j - 1, "record", m))
    BY <1>5, <2>1, <2>4 DEF n, Waits
  <2>5. ASSUME NEW m \in owed, NEW i \in 1..Len(queue'), Waits(queue', i, "schedule", m)
        PROVE  m \in booked' \/ \E j \in 1..(i - 1) : Waits(queue', j, "record", m)
    <3>1. Waits(queue, i + 1, "schedule", m) /\ i + 1 \in 1..Len(queue)
      BY <1>1, <1>4, <2>5
    <3>2. m \in booked \/ \E j \in 1..i : Waits(queue, j, "record", m)
      BY <3>1 DEF OrderInv, RecordAhead
    <3>3. ASSUME NEW j \in 1..i, Waits(queue, j, "record", m)
          PROVE  m \in booked' \/ \E k \in 1..(i - 1) : Waits(queue', k, "record", m)
      <4>1. j \in 1..Len(queue)
        BY <1>1
      <4>2. m \in booked' \/ (j - 1 \in 1..Len(queue') /\ Waits(queue', j - 1, "record", m))
        BY <2>4, <3>3, <4>1
      <4> QED
        BY <4>1, <4>2
    <3> QED
      BY <2>1, <3>2, <3>3
  <2>6. ASSUME NEW t \in Threads, pc[t] \in {"pushing", "scheduling"}, ev[t] \in owed
        PROVE  ev[t] \in booked' \/ \E j \in 1..Len(queue') : Waits(queue', j, "record", ev[t])
    BY <2>1, <2>4, <2>6 DEF OrderInv, RecordAhead
  <2>7. RecordAhead'
    BY <1>3, <2>5, <2>6 DEF RecordAhead
  <2> QED
    BY <1>3, <2>1, <2>2, <2>3, <2>7 DEF OrderInv, RebootBookedFirst
<1>7. CASE queue[1].do = "schedule"
  <2>1. /\ booked' = booked
        /\ standsFor' = standsFor \/ standsFor' = standsFor \cup {n}
    BY <1>1, <1>7 DEF RunCallback
  <2>2. Waits(queue, 1, "schedule", n) /\ \A j \in 1..Len(queue) :
          \A m : Waits(queue, j, "record", m) => j # 1
    BY <1>1, <1>7 DEF Waits
  <2> HIDE DEF n
  <2>3. n \in owed => n \in booked
    BY <1>1, <2>2 DEF OrderInv, RecordAhead
  <2>4. NoForesight'
    BY <1>1, <1>2, <1>3, <2>1 DEF OrderInv, NoForesight
  <2>5. \A t \in Threads : pc[t] \in {"removed", "recording"} => ev[t] # n
    BY <1>1, <2>2 DEF OrderInv, NotYetPushed
  <2>6. NotYetPushed' /\ Apart'
    BY <1>1, <1>3, <1>4, <2>1, <2>5 DEF OrderInv, NotYetPushed, Apart
  <2>7. ASSUME NEW m \in owed, NEW i \in 1..Len(queue'), Waits(queue', i, "schedule", m)
        PROVE  m \in booked' \/ \E j \in 1..(i - 1) : Waits(queue', j, "record", m)
    <3>1. Waits(queue, i + 1, "schedule", m) /\ i + 1 \in 1..Len(queue)
      BY <1>1, <1>4, <2>7
    <3>2. m \in booked \/ \E j \in 1..i : Waits(queue, j, "record", m)
      BY <3>1 DEF OrderInv, RecordAhead
    <3>3. ASSUME NEW j \in 1..i, Waits(queue, j, "record", m)
          PROVE  \E k \in 1..(i - 1) : Waits(queue', k, "record", m)
      <4>1. j \in 1..Len(queue)
        BY <1>1
      <4>2. j # 1
        BY <2>2, <3>3, <4>1
      <4>3. j - 1 \in 1..(i - 1) /\ Waits(queue', j - 1, "record", m)
        BY <1>5, <3>3, <4>1, <4>2
      <4> QED
        BY <4>3
    <3> QED
      BY <2>1, <3>2, <3>3
  <2>8. ASSUME NEW t \in Threads, pc[t] \in {"pushing", "scheduling"}, ev[t] \in owed
        PROVE  ev[t] \in booked' \/ \E j \in 1..Len(queue') : Waits(queue', j, "record", ev[t])
    BY <1>5, <2>1, <2>2, <2>8 DEF OrderInv, RecordAhead
  <2>9. RecordAhead'
    BY <1>3, <2>7, <2>8 DEF RecordAhead
  <2> QED
    BY <1>3, <2>1, <2>3, <2>4, <2>6, <2>9 DEF OrderInv, RebootBookedFirst
<1> QED
  BY <1>2, <1>6, <1>7

(* Every other step leaves the queue, the threads and the bookings alone.  *)
LEMMA OrderOther ==
  ASSUME TypeInv, OrderInv,
         UNCHANGED <<world, pc, ev, queue, booked, owed, leaving>>,
         standsFor' \subseteq standsFor
  PROVE  OrderInv'
<1>1. NoForesight' /\ Apart'
  BY DEF OrderInv, NoForesight, Apart
<1>2. NotYetPushed'
  BY DEF OrderInv, NotYetPushed, Waits
<1>3. RecordAhead'
  BY DEF OrderInv, RecordAhead, Waits
<1>4. RebootBookedFirst'
  BY DEF OrderInv, RebootBookedFirst
<1> QED
  BY <1>1, <1>2, <1>3, <1>4 DEF OrderInv

LEMMA OrderStep ==
  ASSUME TypeInv, OrderInv, [Next]_vars
  PROVE  OrderInv'
<1>1. ASSUME NEW t \in Threads, Event(t) \/ ThreadStep(t) PROVE OrderInv'
  BY <1>1, SettleAssumption, OrderEvent, OrderRecordReboot, OrderQueueRecord,
     OrderHandlePush, OrderQueueSchedule DEF ThreadStep
<1>2. CASE RunCallback
  BY <1>2, OrderRunCallback
<1>3. CASE PushSnapshot
  BY <1>3, OrderOther DEF PushSnapshot, threads
<1>4. CASE Poll
  BY <1>4, OrderOther DEF Poll, threads, history
<1>5. CASE StopHass
  BY <1>5, OrderOther DEF StopHass, threads, history
<1>6. CASE Shutdown
  BY <1>6, OrderOther DEF Shutdown, threads
<1>7. CASE Tick
  BY <1>7, OrderOther DEF Tick, threads
<1>8. CASE UNCHANGED vars
  BY <1>8, OrderOther DEF vars, threads, history
<1> QED
  BY <1>1, <1>2, <1>3, <1>4, <1>5, <1>6, <1>7, <1>8 DEF Next

(* The timer never stands for a removal whose reboot is still on its way:  *)
(* for any number of threads, in any interleaving with the loop, the       *)
(* booking of a removal is done or ahead of its push.                      *)
THEOREM BookedBeforeShown == Spec => []RebootBookedFirst
<1>1. Init => OrderInv
  BY DEF Init, OrderInv, NoForesight, Apart, NotYetPushed, RecordAhead,
         RebootBookedFirst, Waits
<1>2. TypeInv /\ OrderInv /\ [Next]_vars => OrderInv'
  BY OrderStep
<1>3. OrderInv => RebootBookedFirst
  BY DEF OrderInv
<1> QED
  BY <1>1, <1>2, <1>3, TypesAlways, PTL DEF Spec

-----------------------------------------------------------------------------
(* A booking, done or still on its way, is of an owed removal, and none of *)
(* those was made while Home Assistant was stopping.                       *)
PhantomInv ==
  /\ booked \subseteq owed
  /\ \A i \in 1..Len(queue) : queue[i].do = "record" => queue[i].event \in owed
  /\ \A t \in Threads : pc[t] = "recording" => ev[t] \in owed
  /\ owed \cap leaving = {}
  /\ stopping \/ leaving = {}

LEMMA PhantomStep ==
  ASSUME TypeInv, OrderInv, PhantomInv, [Next]_vars
  PROVE  PhantomInv'
<1> USE DEF PhantomInv
<1>1. ASSUME NEW t \in Threads, Event(t) PROVE PhantomInv'
  <2>1. world + 1 \notin owed
    BY DEF OrderInv, NoForesight, TypeInv, TypeOK
  <2>2. pc'[t] # "recording" /\ \A u \in Threads \ {t} : pc'[u] = pc[u] /\ ev'[u] = ev[u]
    BY <1>1 DEF Event, Goto, TypeInv, TypeOK
  <2>3. UNCHANGED <<queue, booked, owed, stopping>>
    BY <1>1 DEF Event, flags
  <2>4. leaving' = leaving \/ (stopping /\ leaving' = leaving \cup {world + 1})
    BY <1>1 DEF Event
  <2> QED
    BY <2>1, <2>2, <2>3, <2>4
<1>2. ASSUME NEW t \in Threads, RecordReboot(t) PROVE PhantomInv'
  <2>1. \A u \in Threads \ {t} : pc'[u] = pc[u]
    BY <1>2 DEF RecordReboot, Goto, TypeInv, TypeOK
  <2>2. UNCHANGED <<queue, booked, stopping, leaving, ev>>
    BY <1>2 DEF RecordReboot, flags
  <2>3. CASE MayRecord(t)
    BY <1>2, <2>1, <2>2, <2>3 DEF RecordReboot, MayRecord
  <2>4. CASE ~MayRecord(t)
    <3>1. pc'[t] = "pushing" /\ owed' = owed
      BY <1>2, <2>4 DEF RecordReboot, Goto, TypeInv, TypeOK
    <3> QED
      BY <2>1, <2>2, <3>1
  <2> QED
    BY <2>3, <2>4
<1>3. ASSUME NEW t \in Threads, NEW what \in {"record", "schedule"}, pc[t] # "idle",
             queue' = CallSoon([do |-> what, event |-> ev[t]]),
             what = "record" => ev[t] \in owed
      PROVE  \A i \in 1..Len(queue') : queue'[i].do = "record" => queue'[i].event \in owed
  <2> DEFINE cb == [do |-> what, event |-> ev[t]]
  <2>1. cb \in Callbacks /\ TypeOK
    BY <1>3 DEF TypeInv, TypeOK, Callbacks, SettleAssumption
  <2>2. /\ Len(queue) \in Nat /\ Len(queue') = Len(queue) + 1
        /\ \A i \in 1..Len(queue) : queue'[i] = queue[i]
        /\ queue'[Len(queue) + 1] = cb
    <3> HIDE DEF cb
    <3> QED
      BY <1>3, <2>1, CallSoonFacts DEF cb, TypeOK
  <2> QED
    BY <1>3, <2>2
<1>4. ASSUME NEW t \in Threads, QueueRecord(t) PROVE PhantomInv'
  <2>1. pc'[t] # "recording" /\ \A u \in Threads \ {t} : pc'[u] = pc[u]
    BY <1>4 DEF QueueRecord, Goto, TypeInv, TypeOK
  <2>2. UNCHANGED <<booked, owed, leaving, stopping, ev>>
    BY <1>4 DEF QueueRecord, flags, history
  <2>3. \A i \in 1..Len(queue') : queue'[i].do = "record" => queue'[i].event \in owed
    BY <1>3, <1>4 DEF QueueRecord
  <2> QED
    BY <2>1, <2>2, <2>3
<1>5. ASSUME NEW t \in Threads, HandlePush(t) PROVE PhantomInv'
  <2>1. pc'[t] # "recording" /\ \A u \in Threads \ {t} : pc'[u] = pc[u]
    BY <1>5 DEF HandlePush, Goto, TypeInv, TypeOK
  <2> QED
    BY <1>5, <2>1 DEF HandlePush, flags, history
<1>6. ASSUME NEW t \in Threads, QueueSchedule(t) PROVE PhantomInv'
  <2>1. pc'[t] # "recording" /\ \A u \in Threads \ {t} : pc'[u] = pc[u]
    BY <1>6 DEF QueueSchedule, Goto, TypeInv, TypeOK
  <2>2. UNCHANGED <<booked, owed, leaving, stopping, ev>>
    BY <1>6 DEF QueueSchedule, flags, history
  <2>3. \A i \in 1..Len(queue') : queue'[i].do = "record" => queue'[i].event \in owed
    BY <1>3, <1>6 DEF QueueSchedule
  <2> QED
    BY <2>1, <2>2, <2>3
<1>7. CASE RunCallback
  <2>1. /\ Len(queue) \in Nat \ {0} /\ Head(queue) = queue[1]
        /\ \A i \in 1..Len(queue') : i + 1 \in 1..Len(queue) /\ queue'[i] = queue[i + 1]
    BY <1>7, RunFacts DEF RunCallback, TypeInv
  <2>2. booked' = booked \/ (queue[1].do = "record" /\ booked' = booked \cup {queue[1].event})
    BY <1>7, <2>1 DEF RunCallback
  <2>3. UNCHANGED <<pc, ev, stopping, owed, leaving>>
    BY <1>7 DEF RunCallback, threads, flags
  <2> QED
    BY <2>1, <2>2, <2>3
<1>8. CASE StopHass
  BY <1>8 DEF StopHass, threads, history
<1>9. CASE PushSnapshot \/ Poll \/ Shutdown \/ Tick \/ UNCHANGED vars
  BY <1>9 DEF PushSnapshot, Poll, Shutdown, Tick, vars, threads, flags, history
<1> QED
  BY <1>1, <1>2, <1>4, <1>5, <1>6, <1>7, <1>8, <1>9 DEF Next, ThreadStep

(* No removal a stopping Home Assistant makes is ever booked as a reboot,  *)
(* although the flag is read on another thread than the one that books.    *)
THEOREM StoppingBooksNothing == Spec => []NoPhantomReboots
<1>1. Init => OrderInv /\ PhantomInv
  BY DEF Init, OrderInv, NoForesight, Apart, NotYetPushed, RecordAhead,
         RebootBookedFirst, PhantomInv, Waits
<1>2. TypeInv /\ OrderInv /\ PhantomInv /\ [Next]_vars => OrderInv' /\ PhantomInv'
  BY OrderStep, PhantomStep
<1>3. PhantomInv => NoPhantomReboots
  BY DEF PhantomInv, NoPhantomReboots
<1> QED
  BY <1>1, <1>2, <1>3, TypesAlways, PTL DEF Spec

-----------------------------------------------------------------------------
(* After the shutdown no timer is armed; an armed one was set when the     *)
(* last snapshot was at most as far back as the timer has run.             *)
TimerInv ==
  /\ stopped => handle = None
  /\ handle # None => quiet + handle >= Settle

LEMMA TimerStep ==
  ASSUME SettleAssumption, TypeInv, TimerInv, [Next]_vars
  PROVE  TimerInv'
<1> USE DEF TimerInv
<1>1. ASSUME NEW t \in Threads, Event(t) \/ ThreadStep(t) PROVE TimerInv'
  <2>1. UNCHANGED <<handle, stopped, quiet>>
    BY <1>1 DEF Event, ThreadStep, RecordReboot, QueueRecord, HandlePush,
                QueueSchedule, flags, history
  <2> QED
    BY <2>1
<1>2. CASE RunCallback
  <2>1. handle' = handle \/ (~stopped /\ handle' = Settle)
    BY <1>2 DEF RunCallback, Arms, Delay
  <2>2. UNCHANGED <<stopped, quiet>> /\ quiet \in Nat
    BY <1>2 DEF RunCallback, flags, TypeInv, TypeOK
  <2>3. stopped' => handle' = None
    BY <2>1, <2>2
  <2> QED
    BY <2>1, <2>2, <2>3 DEF SettleAssumption
<1>3. CASE PushSnapshot
  BY <1>3 DEF PushSnapshot, None
<1>4. CASE Poll \/ StopHass \/ UNCHANGED vars
  <2>1. UNCHANGED <<handle, stopped, quiet>>
    BY <1>4 DEF Poll, StopHass, vars, flags, history
  <2> QED
    BY <2>1
<1>5. CASE Shutdown
  BY <1>5 DEF Shutdown, HandleAtShutdown
<1>6. CASE Tick
  <2>1. stopped' => handle' = None
    BY <1>6 DEF Tick, flags
  <2>2. handle' # None => quiet' + handle' >= Settle
    BY <1>6 DEF Tick, TypeInv, TypeOK, None, SettleAssumption
  <2> QED
    BY <2>1, <2>2
<1> QED
  BY <1>1, <1>2, <1>3, <1>4, <1>5, <1>6 DEF Next

LEMMA TimerAlways == Spec => [](TypeInv /\ TimerInv)
<1>1. Init => TimerInv
  BY DEF Init, TimerInv
<1>2. TypeInv /\ TimerInv /\ [Next]_vars => TimerInv'
  BY SettleAssumption, TimerStep
<1> QED
  BY <1>1, <1>2, TypesAlways, PTL DEF Spec

(* Whatever callbacks are on their way when the coordinator is shut down,  *)
(* none of them arms a timer or publishes a snapshot.                      *)
THEOREM ShutdownIsQuiet == Spec => QuietAfterShutdown
<1>1. TimerInv /\ [Next]_vars => [stopped => handle' = None /\ published' = published]_vars
  <2> SUFFICES ASSUME TimerInv, Next, stopped
               PROVE  handle' = None /\ published' = published
    BY DEF vars
  <2>1. handle = None
    BY DEF TimerInv
  <2>2. ASSUME NEW t \in Threads, Event(t) \/ ThreadStep(t)
        PROVE  handle' = handle /\ published' = published
    BY <2>2 DEF Event, ThreadStep, RecordReboot, QueueRecord, HandlePush, QueueSchedule
  <2>3. CASE RunCallback
    BY <2>1, <2>3 DEF RunCallback, Arms
  <2>4. CASE StopHass
    BY <2>1, <2>4 DEF StopHass
  <2>5. CASE Tick
    BY <2>1, <2>5 DEF Tick
  <2> QED
    BY <2>1, <2>2, <2>3, <2>4, <2>5 DEF Next, PushSnapshot, Poll, Shutdown, None
<1> QED
  BY <1>1, TimerAlways, PTL DEF Spec, QuietAfterShutdown

(* Two push snapshots are at least the settle time apart, however fast     *)
(* habluetooth calls back.                                                 *)
THEOREM BurstsCostOneSnapshot == Spec => SnapshotsSpaced
<1>1. TypeInv /\ TimerInv => [PushSnapshot => quiet >= Settle]_vars
  BY DEF TypeInv, TypeOK, TimerInv, PushSnapshot, None
<1> QED
  BY <1>1, TimerAlways, PTL DEF SnapshotsSpaced

-----------------------------------------------------------------------------
(***************************************************************************)
(* The path of the connection behind a slot. A route tells how its         *)
(* connection was heard, for any proxies, any devices and any strength of  *)
(* signal.                                                                 *)
(***************************************************************************)

(* What RouteOfItsConnection says of one route.                            *)
Tells(s) ==
  LET route == paths[s]
      bar == IF route.stronger = NoSource THEN route.rssi + ClearlyStronger - 1
             ELSE signal[<<route.stronger, s[2]>>]
  IN /\ route.rssi = signal[s]
     /\ route.stronger # NoSource => bar - route.rssi >= ClearlyStronger
     /\ \A p \in Proxies \ {s[1]} : signal[<<p, s[2]>>] > bar => <<p, s[2]>> \in forgotten

(* It has to hold of the slots that are not held, too: one that is taken   *)
(* again before the next snapshot keeps its route.                         *)
PathInv ==
  /\ PathTypeOK
  /\ \A s \in DOMAIN paths \ moved : paths[s] # NoPath => Tells(s)

-----------------------------------------------------------------------------
(* The best reading exists.                                                *)

(* q heard it no better than p: a tie goes to the greater address.         *)
Under(readings, q, p) ==
  readings[q] < readings[p] \/ (readings[q] = readings[p] /\ q <= p)

(* Every set of readings that is not empty has a best one.                 *)
LEMMA BestExists ==
  ASSUME NEW S, IsFiniteSet(S), S \subseteq Nat, S # {},
         NEW readings, \A q \in S : readings[q] \in Int
  PROVE  \E p \in S : \A q \in S : Under(readings, q, p)
<1> DEFINE R == StrictSubsetOrdering(S)
           F == FiniteSubsetsOf(S)
           Bad == {T \in F : T # {} /\ ~\E p \in T : \A q \in T : Under(readings, q, p)}
<1>1. IsWellFoundedOn(R, F)
  BY FS_StrictSubsetOrderingWellFounded
<1>2. \A T \in SUBSET S : T \in F
  BY FS_Subset DEF FiniteSubsetsOf
<1>3. \A T, U \in SUBSET S : T \subseteq U /\ T # U => <<T, U>> \in R
  BY DEF StrictSubsetOrdering
<1>4. \A T \in F : T \in SUBSET S
  BY DEF FiniteSubsetsOf
<1> HIDE DEF R, F
<1>5. SUFFICES Bad = {}
  BY <1>2
<1>6. SUFFICES ASSUME Bad # {} PROVE FALSE
  OBVIOUS
<1>7. PICK T \in Bad : \A U \in Bad : ~(<<U, T>> \in R)
  <2>1. \E T \in Bad : \A U \in Bad : ~(<<U, T>> \in R)
    BY <1>1, <1>6, WFMin, Zenon
  <2> QED
    BY <2>1
<1>8. T \in SUBSET S /\ T # {}
  BY <1>4
<1>9. PICK x \in T : TRUE
  BY <1>8
<1>10. T \ {x} \notin Bad
  BY <1>3, <1>7, <1>8, <1>9
<1>11. CASE T \ {x} = {}
  <2>1. \A q \in T : Under(readings, q, x)
    BY <1>8, <1>9, <1>11 DEF Under
  <2> QED
    BY <2>1
<1>12. CASE T \ {x} # {}
  <2>1. PICK p \in T \ {x} : \A q \in T \ {x} : Under(readings, q, p)
    BY <1>2, <1>8, <1>10, <1>12
  <2>2. CASE Under(readings, x, p)
    BY <2>1, <2>2
  <2>3. CASE ~Under(readings, x, p)
    <3>1. \A q \in T : Under(readings, q, x)
      BY <1>8, <2>1, <2>3 DEF Under
    <3> QED
      BY <3>1
  <2> QED
    BY <2>2, <2>3
<1> QED
  BY <1>11, <1>12

(* Best names one of others, whom none of them heard better.               *)
LEMMA BestFacts ==
  ASSUME PathAssumption, NEW others \in SUBSET Proxies, others # {},
         NEW readings, \A q \in others : readings[q] \in Int
  PROVE  /\ Best(others, readings) \in others
         /\ \A q \in others : readings[q] <= readings[Best(others, readings)]
<1> DEFINE IsBest(p) == \A q \in others : Under(readings, q, p)
<1>0. IsFiniteSet(Proxies) /\ Proxies \subseteq Nat
  BY DEF PathAssumption, IsFiniteSet
<1>1. IsFiniteSet(others) /\ others \subseteq Nat
  BY <1>0, FS_Subset
<1>2. \E p \in others : IsBest(p)
  BY <1>1, BestExists
<1>3. Best(others, readings) = CHOOSE p \in others : IsBest(p)
  BY DEF Best, Under
<1>4. Best(others, readings) \in others /\ IsBest(Best(others, readings))
  BY <1>2, <1>3
<1>5. ASSUME NEW q \in others PROVE readings[q] <= readings[Best(others, readings)]
  <2>1. Under(readings, q, Best(others, readings))
    BY <1>4
  <2>2. readings[q] \in Int /\ readings[Best(others, readings)] \in Int
    BY <1>4
  <2> QED
    BY <2>1, <2>2 DEF Under
<1> QED
  BY <1>4, <1>5

-----------------------------------------------------------------------------
(* A route as it is read.                                                  *)

(* What is heard of a are the signals nobody has forgotten.                *)
LEMMA HeardFacts ==
  ASSUME PathTypeOK, NEW a \in Addresses
  PROVE  /\ DOMAIN Heard(a) \subseteq Proxies
         /\ \A p \in DOMAIN Heard(a) : Heard(a)[p] = signal[<<p, a>>] /\ Heard(a)[p] \in Rssi
         /\ \A p \in Proxies :
              p \in DOMAIN Heard(a) <=> signal[<<p, a>>] # NoRssi /\ <<p, a>> \notin forgotten
  BY DEF Heard, PathTypeOK, Slots

(* What a reading says of the signals: the holder's is its own, and the    *)
(* one it names was clearly stronger and the best of those still known.    *)
LEMMA ReadingTells ==
  ASSUME PathAssumption, PathTypeOK, NEW s \in Slots, NEW full \in SUBSET Proxies
  PROVE  /\ ReadPath(s, full) \in Routes \cup {NoPath}
         /\ ReadPath(s, full) # NoPath =>
              LET route == ReadPath(s, full)
                  bar == IF route.stronger = NoSource THEN route.rssi + ClearlyStronger - 1
                         ELSE signal[<<route.stronger, s[2]>>]
              IN /\ route.rssi = signal[s]
                 /\ route.stronger # NoSource => bar - route.rssi >= ClearlyStronger
                 /\ \A p \in Proxies \ {s[1]} :
                      signal[<<p, s[2]>>] > bar => <<p, s[2]>> \in forgotten
<1>1. CASE failing \/ s[1] \notin DOMAIN Heard(s[2])
  BY <1>1 DEF ReadPath, JudgePath
<1>2. CASE ~failing /\ s[1] \in DOMAIN Heard(s[2])
  <2> DEFINE readings == Heard(s[2])
             others == DOMAIN readings \ {s[1]}
             rssi == readings[s[1]]
             clear == {q \in others : readings[q] - rssi >= ClearlyStronger}
             named == IF clear = {} THEN NoSource ELSE Best(others, readings)
  <2>1. s[1] \in Proxies /\ s[2] \in Addresses /\ s = <<s[1], s[2]>>
    BY DEF Slots
  <2>2. /\ DOMAIN readings \subseteq Proxies
        /\ \A p \in DOMAIN readings : readings[p] = signal[<<p, s[2]>>] /\ readings[p] \in Rssi
        /\ \A p \in Proxies : p \in DOMAIN readings <=>
             signal[<<p, s[2]>>] # NoRssi /\ <<p, s[2]>> \notin forgotten
    BY <2>1, HeardFacts
  <2>3. ReadPath(s, full) = [rssi |-> rssi, stronger |-> named, full |-> named \in full]
    BY <1>2 DEF ReadPath, JudgePath, Route
  <2>4. /\ ReadPath(s, full).rssi = rssi
        /\ ReadPath(s, full).stronger = named
        /\ rssi \in Rssi /\ named \in Proxies \cup {NoSource} => ReadPath(s, full) \in Routes
    BY <2>3 DEF Routes
  <2> HIDE DEF readings
  <2>5. \A p \in DOMAIN readings : readings[p] \in Int /\ readings[p] > NoRssi
    BY <2>2 DEF NoRssi, PathAssumption
  <2>6. rssi = signal[s] /\ rssi \in Rssi
    BY <1>2, <2>1, <2>2 DEF readings
  <2>7. \A p \in Proxies : signal[<<p, s[2]>>] \in Int
    <3>1. \A level \in Rssi \cup {NoRssi} : level \in Int
      BY DEF NoRssi, PathAssumption
    <3>2. \A p \in Proxies : signal[<<p, s[2]>>] \in Rssi \cup {NoRssi}
      BY <2>1 DEF PathTypeOK, Slots
    <3> QED
      BY <3>1, <3>2
  <2>8. CASE clear = {}
    <3>1. named = NoSource
      BY <2>8
    <3>2. ASSUME NEW p \in Proxies \ {s[1]}, signal[<<p, s[2]>>] > rssi + ClearlyStronger - 1
          PROVE  <<p, s[2]>> \in forgotten
      <4>1. SUFFICES ASSUME <<p, s[2]>> \notin forgotten PROVE FALSE
        OBVIOUS
      <4>2. signal[<<p, s[2]>>] # NoRssi
        BY <2>5, <3>2, <1>2 DEF NoRssi, readings, PathAssumption
      <4>3. p \in others /\ readings[p] = signal[<<p, s[2]>>]
        BY <2>2, <4>1, <4>2
      <4>4. readings[p] - rssi >= ClearlyStronger
        BY <2>5, <3>2, <4>3, <1>2 DEF readings, PathAssumption
      <4> QED
        BY <2>8, <4>3, <4>4
    <3> QED
      BY <2>6, <2>4, <3>1, <3>2
  <2>9. CASE clear # {}
    <3> DEFINE best == Best(others, readings)
    <3>1. others \in SUBSET Proxies /\ others # {} /\ \A q \in others : readings[q] \in Int
      BY <2>2, <2>5, <2>9
    <3>2. best \in others /\ \A q \in others : readings[q] <= readings[best]
      BY <3>1, BestFacts
    <3> HIDE DEF best
    <3>3. named = best /\ best \in Proxies /\ best # NoSource
      BY <2>9, <3>1, <3>2 DEF best, NoSource, PathAssumption
    <3>4. readings[best] = signal[<<best, s[2]>>]
      BY <2>2, <3>2
    <3>5. readings[best] - rssi >= ClearlyStronger
      <4>1. PICK q \in others : readings[q] - rssi >= ClearlyStronger
        BY <2>9
      <4> QED
        BY <2>5, <3>2, <4>1, <1>2 DEF readings, PathAssumption
    <3>6. ASSUME NEW p \in Proxies \ {s[1]}, signal[<<p, s[2]>>] > signal[<<best, s[2]>>]
          PROVE  <<p, s[2]>> \in forgotten
      <4>1. SUFFICES ASSUME <<p, s[2]>> \notin forgotten PROVE FALSE
        OBVIOUS
      <4>2. signal[<<p, s[2]>>] # NoRssi
        BY <2>5, <3>2, <3>4, <3>6 DEF NoRssi
      <4>3. p \in others /\ readings[p] = signal[<<p, s[2]>>]
        BY <2>2, <4>1, <4>2
      <4> QED
        BY <2>5, <3>2, <3>4, <3>6, <4>3
    <3> QED
      BY <2>6, <2>4, <3>3, <3>4, <3>5, <3>6
  <2> QED
    BY <2>8, <2>9
<1> QED
  BY <1>1, <1>2

-----------------------------------------------------------------------------
(* Steps that leave the routes alone.                                      *)

LEMMA PathsInit == PathInit => PathInv
  BY DEF PathInit, PathInv, PathTypeOK, Slots, NoSource, NoRssi

(* A route still tells of its connection as long as nothing is heard of    *)
(* the device and nothing forgotten is known again.                        *)
LEMMA TellsOn ==
  ASSUME NEW s \in DOMAIN paths, Tells(s), paths' = paths, signal' = signal,
         forgotten \subseteq forgotten'
  PROVE  Tells(s)'
  BY DEF Tells

LEMMA PathSnapshot ==
  ASSUME PathAssumption
  PROVE  PathInv /\ Snapshot => PathInv'
<1> SUFFICES ASSUME PathInv, Snapshot PROVE PathInv'
  OBVIOUS
<1> USE DEF PathInv
<1>1. PICK full \in SUBSET Proxies : paths' = Updated(full)
  BY DEF Snapshot
<1>2. /\ DOMAIN paths' = held
      /\ \A s \in held : paths'[s] =
           IF s \in DOMAIN paths THEN paths[s] ELSE ReadPath(s, full)
  BY <1>1 DEF Updated, Known, Settled
<1>3. held \subseteq Slots
  BY DEF PathTypeOK
<1>4. \A s \in held : paths'[s] \in Routes \cup {NoPath}
  BY <1>2, <1>3, ReadingTells DEF PathTypeOK
<1>5. PathTypeOK'
  BY <1>2, <1>4 DEF Snapshot, PathTypeOK, radio
<1>6. signal' = signal /\ forgotten' = forgotten /\ moved' = moved \cap held
  BY DEF Snapshot, radio
<1>7. ASSUME NEW s \in held, s \notin moved', paths'[s] # NoPath
      PROVE  Tells(s)'
  <2>1. CASE s \in DOMAIN paths
    <3>1. s \notin moved /\ paths'[s] = paths[s]
      BY <1>2, <1>6, <1>7, <2>1
    <3>2. Tells(s)
      BY <1>7, <2>1, <3>1
    <3> QED
      BY <1>6, <3>1, <3>2 DEF Tells
  <2>2. CASE s \notin DOMAIN paths
    <3>1. paths'[s] = ReadPath(s, full) /\ s \in Slots
      BY <1>2, <1>3, <2>2
    <3> QED
      BY <1>6, <1>7, <3>1, ReadingTells DEF Tells
  <2> QED
    BY <2>1, <2>2
<1> QED
  BY <1>2, <1>5, <1>7

LEMMA PathAdvertise ==
  ASSUME NEW s \in Slots
  PROVE  PathInv /\ Advertise(s) => PathInv'
<1> SUFFICES ASSUME PathInv, Advertise(s) PROVE PathInv'
  OBVIOUS
<1> USE DEF PathInv
<1>1. PathTypeOK'
  BY DEF Advertise, PathTypeOK
<1>2. ASSUME NEW t \in DOMAIN paths \ moved', paths[t] # NoPath
      PROVE  Tells(t)'
  <2>1. t \notin moved /\ t[2] # s[2]
    BY <1>2 DEF Advertise
  <2>2. Tells(t)
    BY <1>2, <2>1
  <2>3. t \in Slots /\ s = <<s[1], s[2]>> /\ s # t
    BY <1>2, <2>1 DEF PathTypeOK, Slots
  <2>4. \A p \in Proxies \cup {NoSource} : <<p, t[2]>> # s
    BY <2>1
  <2>5. /\ signal'[t] = signal[t]
        /\ \A p \in Proxies : signal'[<<p, t[2]>>] = signal[<<p, t[2]>>]
    BY <2>3, <2>4 DEF Advertise, PathTypeOK, Slots
  <2>6. \A p \in Proxies : <<p, t[2]>> \in forgotten => <<p, t[2]>> \in forgotten'
    BY <2>4 DEF Advertise
  <2>7. paths' = paths /\ paths[t].stronger \in Proxies \cup {NoSource}
    BY <1>2 DEF Advertise, PathTypeOK, Routes
  <2> QED
    BY <2>2, <2>5, <2>6, <2>7 DEF Tells
<1>3. paths' = paths
  BY DEF Advertise
<1> QED
  BY <1>1, <1>2, <1>3

LEMMA PathConnect ==
  ASSUME NEW s \in Slots
  PROVE  PathInv /\ Connect(s) => PathInv'
<1> SUFFICES ASSUME PathInv, Connect(s) PROVE PathInv'
  OBVIOUS
<1> USE DEF PathInv
<1>1. s[1] \in Proxies /\ s[2] \in Addresses
  BY DEF Slots
<1>2. PathTypeOK'
  BY <1>1 DEF Connect, PathTypeOK
<1>3. ASSUME NEW t \in DOMAIN paths, t \notin moved', paths[t] # NoPath
      PROVE  Tells(t)'
  BY <1>3, TellsOn DEF Connect
<1> QED
  BY <1>2, <1>3 DEF Connect

LEMMA PathStep ==
  ASSUME PathAssumption
  PROVE  PathInv /\ [PathNext]_pathVars => PathInv'
<1> SUFFICES ASSUME PathInv, [PathNext]_pathVars PROVE PathInv'
  OBVIOUS
<1> USE DEF PathInv, radio
<1>1. ASSUME PathTypeOK', paths' = paths, signal' = signal, forgotten \subseteq forgotten',
             moved' = moved
      PROVE  PathInv'
  BY <1>1, TellsOn
<1>2. CASE Snapshot
  BY <1>2, PathSnapshot
<1>3. CASE Reload
  BY <1>3 DEF Reload, PathTypeOK
<1>4. ASSUME NEW s \in Slots, Advertise(s) \/ Forget(s) \/ Connect(s) \/ Release(s)
      PROVE  PathInv'
  <2>1. CASE Advertise(s)
    BY <2>1, PathAdvertise
  <2>2. CASE Forget(s)
    BY <1>1, <2>2 DEF Forget, PathTypeOK
  <2>3. CASE Connect(s)
    BY <2>3, PathConnect
  <2>4. CASE Release(s)
    BY <1>1, <2>4 DEF Release, PathTypeOK
  <2> QED
    BY <1>4, <2>1, <2>2, <2>3, <2>4
<1>5. ASSUME NEW a \in Addresses, Lose(a) PROVE PathInv'
  BY <1>1, <1>5 DEF Lose, PathTypeOK
<1>6. CASE Break
  BY <1>1, <1>6 DEF Break, PathTypeOK
<1>7. CASE UNCHANGED pathVars
  BY <1>1, <1>7 DEF pathVars, PathTypeOK
<1> QED
  BY <1>2, <1>3, <1>4, <1>5, <1>6, <1>7 DEF PathNext

-----------------------------------------------------------------------------
(* The routes the tracker knows tell of their connections, held or not.    *)
THEOREM PathsCorrect == PathSpec => []PathInv
<1>1. PathInit => PathInv
  BY PathsInit
<1>2. PathInv /\ [PathNext]_pathVars => PathInv'
  BY PathAssumption, PathStep
<1> QED
  BY <1>1, <1>2, PTL DEF PathSpec

(* The variables keep their types: among others, a route names a proxy.    *)
THEOREM PathTypes == PathSpec => []PathTypeOK
<1>1. PathInv => PathTypeOK
  BY DEF PathInv
<1> QED
  BY <1>1, PathsCorrect, PTL

(* What a snapshot publishes of a route is how its connection was heard    *)
(* before the device fell silent, and which proxy had heard it clearly     *)
(* better, whatever the scanners forget, the links lose and the slots      *)
(* outlive.                                                                *)
THEOREM RoutesAreTrue == PathSpec => []RouteOfItsConnection
<1>1. PathInv => RouteOfItsConnection
  BY DEF PathInv, Tells, RouteOfItsConnection, Published
<1> QED
  BY <1>1, PathsCorrect, PTL
=============================================================================
