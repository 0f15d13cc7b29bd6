--------------------------- MODULE PushScheduler ---------------------------
(***************************************************************************)
(* How a change in habluetooth becomes a snapshot.  habluetooth calls back *)
(* on any thread; the callbacks check a flag and hop onto the event loop   *)
(* with call_soon_threadsafe; the loop books reboots, and arms one timer   *)
(* for a burst of pushes; the timer takes the snapshot.  Home Assistant    *)
(* may be stopping, and the coordinator may be shut down, at any point in  *)
(* between.  Events are numbered in the order habluetooth made them, so a  *)
(* snapshot is the number of the last event it can see.                    *)
(***************************************************************************)
EXTENDS Integers, Sequences

CONSTANTS
  Threads,    (* Threads habluetooth may call back on.                       *)
  MaxEvents,  (* Bound on the events of a behaviour.                         *)
  Settle      (* _PUSH_SETTLE_S, in ticks.                                   *)

ASSUME SettleAssumption == Settle \in Nat /\ MaxEvents \in Nat

VARIABLES
  world,      (* Events so far.                                              *)
  pc,         (* Where each thread is in the callback of its event.          *)
  ev,         (* The event each thread is calling back for.                  *)
  queue,      (* Callbacks handed to the loop, in order.                     *)
  handle,     (* _push_handle: ticks until the timer is due, or None.        *)
  stopped,    (* _stopped.                                                   *)
  stopping,   (* hass.is_stopping.                                           *)
  published,  (* The last event the published snapshot can see.              *)
  booked,     (* Events in the reboot window.                                *)
  quiet,      (* History: ticks since the last push snapshot, up to Settle.  *)
  standsFor,  (* History: the pushes the armed timer stands for.             *)
  owed,       (* History: removals whose booking was not refused.            *)
  leaving     (* History: events made while Home Assistant was stopping.     *)

threads == <<pc, ev>>
flags == <<stopped, stopping>>
history == <<quiet, standsFor, owed, leaving>>
vars == <<world, threads, queue, handle, flags, published, booked, history>>

None == -1

Steps == {"idle", "removed", "recording", "pushing", "scheduling"}

Callbacks == [do : {"record", "schedule"}, event : 1..MaxEvents]

Init ==
  /\ world = 0
  /\ pc = [t \in Threads |-> "idle"]
  /\ ev = [t \in Threads |-> 0]
  /\ queue = <<>>
  /\ handle = None
  /\ stopped = FALSE
  /\ stopping = FALSE
  /\ published = 0
  /\ booked = {}
  /\ quiet = Settle
  /\ standsFor = {}
  /\ owed = {}
  /\ leaving = {}

-----------------------------------------------------------------------------
(* A habluetooth thread.  Definitions named _mutant are plausible mistakes *)
(* in the next definition, which the runs must refute.                     *)

CallSoon_mutant(cb) == <<cb>> \o queue

(* call_soon_threadsafe: the loop runs callbacks in the order it got them. *)
CallSoon(cb) == Append(queue, cb)

Goto(t, step) == pc' = [pc EXCEPT ![t] = step]

(* ScannerAdapter._handle is called for a removal, or, with a push only,   *)
(* for any other scanner or allocation change.  Nothing is called once the *)
(* adapters are stopped.                                                   *)
Event(t) ==
  /\ pc[t] = "idle"
  /\ ~stopped
  /\ world < MaxEvents
  /\ world' = world + 1
  /\ ev' = [ev EXCEPT ![t] = world + 1]
  /\ \E step \in {"removed", "pushing"} : Goto(t, step)
  /\ leaving' = IF stopping THEN leaving \cup {world + 1} ELSE leaving
  /\ UNCHANGED <<queue, handle, flags, published, booked, quiet, standsFor, owed>>

MayRecord_mutant(t) == ~stopped

MayRecord(t) == ~stopped /\ ~stopping

(* _record_reboot reads the flags ...                                      *)
RecordReboot(t) ==
  /\ pc[t] = "removed"
  /\ Goto(t, IF MayRecord(t) THEN "recording" ELSE "pushing")
  /\ owed' = IF MayRecord(t) THEN owed \cup {ev[t]} ELSE owed
  /\ UNCHANGED <<world, ev, queue, handle, flags, published, booked,
                 quiet, standsFor, leaving>>

(* ... and queues the booking, perhaps after they have changed.            *)
QueueRecord(t) ==
  /\ pc[t] = "recording"
  /\ queue' = CallSoon([do |-> "record", event |-> ev[t]])
  /\ Goto(t, "pushing")
  /\ UNCHANGED <<world, ev, handle, flags, published, booked, history>>

(* _handle_push, which runs after the booking was queued.                  *)
HandlePush(t) ==
  /\ pc[t] = "pushing"
  /\ Goto(t, IF stopped THEN "idle" ELSE "scheduling")
  /\ UNCHANGED <<world, ev, queue, handle, flags, published, booked, history>>

QueueSchedule(t) ==
  /\ pc[t] = "scheduling"
  /\ queue' = CallSoon([do |-> "schedule", event |-> ev[t]])
  /\ Goto(t, "idle")
  /\ UNCHANGED <<world, ev, handle, flags, published, booked, history>>

ThreadStep(t) ==
  \/ RecordReboot(t)
  \/ QueueRecord(t)
  \/ HandlePush(t)
  \/ QueueSchedule(t)

-----------------------------------------------------------------------------
(* The event loop. *)

Arms_mutant == ~stopped /\ ~stopping /\ handle = None

(* _schedule_push_snapshot: a push is absorbed by a timer already armed.   *)
Arms == ~stopped /\ handle = None

Delay_mutant == 0

Delay_late_mutant == Settle + 1

(* call_later(_PUSH_SETTLE_S, ...).                                        *)
Delay == Settle

RunCallback ==
  /\ queue # <<>>
  /\ queue' = Tail(queue)
  /\ LET cb == Head(queue)
     IN  IF cb.do = "record"
         THEN /\ booked' = booked \cup {cb.event}
              /\ UNCHANGED <<handle, standsFor>>
         ELSE /\ handle' = IF Arms THEN Delay ELSE handle
              /\ standsFor' = IF stopped THEN standsFor
                              ELSE standsFor \cup {cb.event}
              /\ UNCHANGED booked
  /\ UNCHANGED <<world, threads, flags, published, quiet, owed, leaving>>

(* _push_snapshot: drop the handle, then publish unless shut down.         *)
PushSnapshot ==
  /\ handle = 0
  /\ handle' = None
  /\ published' = IF stopped THEN published ELSE world
  /\ standsFor' = {}
  /\ quiet' = 0
  /\ UNCHANGED <<world, threads, queue, flags, booked, owed, leaving>>

(* The poll backstop of the coordinator.                                   *)
Poll ==
  /\ ~stopped
  /\ published' = world
  /\ UNCHANGED <<world, threads, queue, handle, flags, booked, history>>

StopHass ==
  /\ ~stopping
  /\ stopping' = TRUE
  /\ UNCHANGED <<world, threads, queue, handle, stopped, published, booked, history>>

HandleAtShutdown_mutant == handle

(* An armed timer is cancelled.                                            *)
HandleAtShutdown == None

(* async_shutdown, on a reload or when Home Assistant stops.               *)
Shutdown ==
  /\ ~stopped
  /\ stopped' = TRUE
  /\ handle' = HandleAtShutdown
  /\ standsFor' = {}
  /\ UNCHANGED <<world, threads, queue, stopping, published, booked, quiet,
                 owed, leaving>>

(* A due timer is run before the clock moves on.                           *)
Tick ==
  /\ handle # 0
  /\ handle' = IF handle = None THEN None ELSE handle - 1
  /\ quiet' = IF quiet < Settle THEN quiet + 1 ELSE quiet
  /\ UNCHANGED <<world, threads, queue, flags, published, booked,
                 standsFor, owed, leaving>>

Next ==
  \/ RunCallback
  \/ PushSnapshot
  \/ Poll
  \/ StopHass
  \/ Shutdown
  \/ Tick
  \/ \E t \in Threads : Event(t) \/ ThreadStep(t)

Spec == Init /\ [][Next]_vars

(* Threads finish their callbacks, the loop drains its queue and its       *)
(* timers fire.  Polls are not assumed: the push path must do alone.       *)
Fairness ==
  /\ WF_vars(RunCallback)
  /\ WF_vars(PushSnapshot)
  /\ WF_vars(Tick)
  /\ \A t \in Threads : WF_vars(ThreadStep(t))

FairSpec == Spec /\ Fairness

-----------------------------------------------------------------------------
TypeOK ==
  /\ world \in 0..MaxEvents
  /\ pc \in [Threads -> Steps]
  /\ ev \in [Threads -> 0..MaxEvents]
  /\ queue \in Seq(Callbacks)
  /\ handle \in {None} \cup 0..Settle
  /\ stopped \in BOOLEAN
  /\ stopping \in BOOLEAN
  /\ published \in 0..MaxEvents
  /\ booked \in SUBSET (1..MaxEvents)
  /\ quiet \in 0..Settle
  /\ standsFor \in SUBSET (1..MaxEvents)
  /\ owed \in SUBSET (1..MaxEvents)
  /\ leaving \in SUBSET (1..MaxEvents)

(* "The loop runs record-before-snapshot": the push snapshot that stands   *)
(* for a removal finds that removal in the reboot window.                  *)
RebootBookedFirst == standsFor \cap owed \subseteq booked

(* A Home Assistant that is stopping removes every scanner; none of those  *)
(* removals is ever booked as a reboot.                                    *)
NoPhantomReboots == booked \cap leaving = {}

(* Nothing is published, and no timer armed, after the shutdown, whatever  *)
(* was on its way to the loop.                                             *)
QuietAfterShutdown ==
  [][stopped => handle' = None /\ published' = published]_vars

(* A burst costs one registry walk: push snapshots are at least the settle *)
(* time apart.                                                             *)
SnapshotsSpaced == [][PushSnapshot => quiet >= Settle]_vars

(* Every change is in a published snapshot sooner or later, by the push    *)
(* path alone, unless the coordinator is shut down first.                  *)
EveryChangeShown ==
  \A n \in 1..MaxEvents : world >= n ~> (published >= n \/ stopped)
=============================================================================
