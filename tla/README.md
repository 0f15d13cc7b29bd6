# Verification of BlueSight

BlueSight is a Home Assistant integration that watches the Bluetooth proxies of
an installation: which connection slots are held and by what, which devices
fail to connect, which proxies are full, silent or gone. An optional ESPHome
component runs on the proxies and measures what Home Assistant cannot see.

This directory holds TLA+ models of the parts of BlueSight that keep state,
the TLC configurations that check them on small instances, and TLAPS proofs of
the properties that matter most for every value of the constants.
`PROJECT.json` links every definition to the source lines it models and lists
the runs, the theorems, the hazards and the mistakes each property was tried
against: for each property a definition `X_mutant` stands beside a definition
`X`, and putting it in X's place makes the property fail.

Paths below are relative to `src/`; `bluesight/` is
`custom_components/bluesight/`, `firmware/` is `esphome/components/bluesight/`.

## 1. Inventory

| Component | State it keeps | What changes it | What makes it correct |
|---|---|---|---|
| Proxy tracking, retirement (`coordinator.py`, `__init__.py`, `proxy_retirement.py`, `sensor.py`) | two clocks per proxy, one of them persisted; raised Repairs; known sources and entities; a device per proxy in Home Assistant's registry | snapshots, scanners that come and go, the user retiring, forgetting or deleting a proxy, delayed writes, setup, reload, stop, crash | a retired proxy stays gone once that is saved; a proxy is remembered exactly while it has a device; the file never runs ahead; a gone proxy is reported and asked about; a returned one is cleared |
| Push scheduling (`coordinator.py`, `adapter.py`) | one timer handle, a stopped flag, the reboot window | habluetooth callbacks on any thread, the loop, the timer, polls, shutdown | bookings precede their snapshot; nothing runs after the shutdown; bursts cost one walk; no change is missed |
| SMP failure counting (`firmware/bluesight.cpp`, `telemetry.py`) | counters per address in a table of eight; baselines per proxy and address | failures, reboots, evictions, readings, lost sensors, reloads | no failure counted twice, none lost that could be kept |
| Connection slots (`firmware/bluesight.cpp`, `telemetry.py`) | a record per GATT connection, with the time of its last traffic | GATT client events, some broadcast, some missed | what is published settles on what is held; no device looks more silent than it is |
| Failure and reboot windows (`window.py`) | a queue of stamped failures per address | bookings, questions, sweeps | lazy eviction is invisible; nothing stale is kept for ever |
| Storm evidence (`storm_signal.py`, `coordinator_data.py`) | slots and releases remembered from earlier snapshots | snapshots, readable or not | one failure is not booked twice; the cap on replayed counts changes no verdict |
| Saturation (`saturation.py`) | changes of "no free slot" per proxy | snapshots, eviction, forgetting | the published readings are those of a full log |
| Incidents (`detector.py`, `incident_policy.py`, `model.py`) | none: a function of the snapshot | | precedence loses no fault; two faults never share an identity |
| Notifications, events (`notify.py`, `events.py`) | what is displayed, what is open | every published list, unload | both show the published list at all times; events follow faults |
| Connection path (`path.py`) | the route read when a slot first appeared | snapshots, slots taken and released | a route that is shown is that of the connection in the slot |
| Device index, availability (`device_index.py`, `availability.py`) | none, but a degraded flag | registries that change, lookups that raise | a ghost is never a slot whose possible devices are all at work; no leak goes unsaid; a slot has one judge |
| Bond list (`firmware/bluesight.cpp`, `telemetry.py`, `telemetry_reader.py`) | the sensor's last list, on the proxy and in Home Assistant | updates, reboots, lost links, snapshots | nobody is accused who had a bond; a lasting loss is found, an accusation ends |
| Entities, rendering, locale, configuration, diagnostics, the card and its registration, code generation | views of the above | | |

How they interact. habluetooth calls back on its own threads; the adapter turns
the calls into pushes and reboot bookings, which hop onto the event loop. The
loop takes snapshots, on a push or a poll. One snapshot reads scanners,
allocations, the device and entity registries and the text sensors of the
ESPHome component, in that order; it advances every tracker (clocks, saturation,
paths, released slots, counters) and feeds the failure window, from which the
detectors draw incidents. The precedence rules thin them out, and the published
list drives notifications, events, Repairs and entities. The user acts on the
result through a service, a Repair and the device page, which change the
trackers and ask for another snapshot. The firmware runs on its own, behind a
connection that may be lost and a clock that wraps.

What is hard about it:

* threads, the loop and timers interleave around flags read early and used late
  (push scheduling), and user actions race the snapshot they are judged on
  (retirement);
* evidence of one failure arrives by two routes, late, cumulative, or not at all
  (counters, releases), over reboots on either side;
* two clocks, a throttled file, reloads and crashes decide what is remembered;
* state is evicted lazily and read at any time (windows);
* what is judged is read once, or from a registry, a sensor or a scanner that
  lags, fails or forgets (routes, verdicts on slots, bonds);
* identities decide what is announced again (incident keys);
* broadcast and missed Bluetooth events, keys that are reused, and 32-bit clocks
  (slots, counters).

## 2. Plan

In order of importance. Modules 1 to 11 are written.

1. `ProxyTracking`: what is remembered of a proxy, and what the user may do to it.
2. `PushScheduler`: from a callback to a snapshot.
3. `SmpTelemetry`: a counter's way from the proxy to the storm window.
4. `FailureWindow`, with `RecentFailures` as what it promises.
5. `Incidents`: detectors, precedence, identity, notifications and events.
6. `StormSignal`: counters, releases and the window together.
7. `SaturationWindow`: readings from a log of changes.
8. `SlotTable`: the connections of a proxy.
9. `SlotVerdicts`, on `DeviceIndex`: which device answers for a slot's address,
   and who judges the slot.
10. `BondList`: a bond's way from the proxy's store to an accusation.
11. `ConnectionPath`: the route of a slot.
12. Theorems: the types of every module, and every invariant and action property
    of the runs, are proved (section 6). What is left is to prove `SlotTable`'s
    two promises from a bound on missed CLOSE events that keeps its table from
    filling up, instead of from the room itself.

The models are kept apart where the code's interfaces are narrow: the trackers
meet only inside one snapshot, each one is called once in it, and what passes
between them is the published data. `StormSignal` is the composition where they
do influence each other: counters, releases and the window. `SlotVerdicts` is
the other: the two detectors that may judge one slot, and the two indexes they
ask.

`FailureWindow` refines the abstract `RecentFailures`. The other specifications
state their promises as properties, because what they promise is a relation
between what happened (history variables) and what is shown, with no state of
its own.

## 3. The models

A module states the component; `MC<module>` gives it finite constants; the
theorems are in `<module>_proofs`. Three proof modules have a second part for a
component that borders on theirs: `PushScheduler_proofs` has the theorems of
`ConnectionPath` (what habluetooth tells), `SlotVerdicts_proofs` those of
`SaturationWindow` (what a snapshot says of slots), and `FailureWindow_proofs`
those of `BondList` (what a lost bond is judged by). As one module extends both,
these three call their specification `PathSpec`, `SaturationSpec` and `BondSpec`,
and so on. History variables, marked so in their
comments, are never read by an action; they only let a property refer to what
happened.

**ProxyTracking.** A stamp is kept as its age, which is all the code ever reads
of it, and an age stops growing at the largest bound it is compared with, so no
horizon is needed. `Setup` is `async_setup_entry` in its order (remember, load,
first snapshot, entities); `Snapshot` is the part of `_snapshot` that moves the
clocks, with the incident, the Repair reconciliation and the entity listeners
that follow in the same turn of the loop; `RetireProxy`, `ForgetOnline` and
`DeleteDevice` are the three ways of the user; the debounced refresh they ask
for is a step of its own (`DebounceTimer`), as are the delayed write of the
last-seen file (`WriteStore`), the delayed save of the device registry, which is
Home Assistant's (`WriteRegistry`), a clean stop, which makes both, and a crash,
which loses both: the devices are then those last saved, and a proxy whose
retirement was not is not gone. An unreadable file may be met at any setup. It
leaves the memory empty and stays as it is, until the next write replaces it
(`unread` is history, and tells that time apart).

**PushScheduler.** Each habluetooth thread runs through its callback in atomic
pieces: read the flags, queue the booking, read the flag again, queue the push.
The loop takes callbacks in order. A snapshot is the number of the last event it
can see, so a property can say what a snapshot stands for.

**SmpTelemetry.** The firmware's table (bounded, evicting the oldest by an
unsigned age), the text as Home Assistant last received it, and the baselines.
A text is delivered at any later time, or never while the proxy is offline; any
fields of it may fail to parse. `Forget` is also a reload.

**SlotTable.** The stack keeps what each client really holds; the events it
raises wait in a queue; `Handled` is `gattc_event_handler` on the table, and
`Handle` publishes when the set of slots changed. The stack tells every client
when a link comes up (ignored) or goes down (closes by address), and a CLOSE may
be missed. The broadcast copies of one event are one event, as they are handled
back to back and the handler is idempotent.

**FailureWindow / RecentFailures.** A queue per address with lazy eviction, and
the log it promises to be. The boundary (a failure exactly a window old still
counts) is the code's.

**Incidents.** The readings of an address are any that its detectors can be
given, the detectors map them to incidents, and `Deduped` is
`dedupe_incidents`. `Publish` is a snapshot and both listeners in their order. An
automation that hears only events is modelled beside them (`believed`). Texts
and names are left out; a proxy that returns was registered again, and one that
is missing is reported when its grace period has run out.

**StormSignal.** Connections begin and end on proxies that count and on proxies
that do not. A proxy that counts counts every failed pairing, several on one
link and those on links without a slot of Home Assistant's included (`Refuse`),
so failures and ended connections are two histories, `refused` and `unmeasured`.
A snapshot reads the counters it can, infers failures from released slots, and
books both; one without a device registry takes every device for alive and may
still read counters. It reads counters directly: the delay of the text is in
`SmpTelemetry`, where it is shown not to count anything twice. Bookings of one
snapshot have one time and age out together. The window without a cap is kept
beside the real one to compare verdicts.

**SaturationWindow.** One proxy, with a clock, the kept changes, and a log with
an entry for every tick to compare with.

**DeviceIndex / SlotVerdicts.** `DeviceIndex` has no state: a registry is a
record of who claims which address, how, and of the order of the walk, and
`Peripherals` and `ProxyDevices` are the passes of `build_device_index` over it.
`SlotVerdicts` asks them for slots that are taken and released, entities and
registries that change, sensors that go mute, and one lookup at a time that
raises. What a snapshot would say (`Ghosts`, `IdleSlots`) is an operator, since
nothing of it is kept but the degraded flag, so the invariants speak of a
snapshot at any moment. The addresses the release tracker asks about besides
are any (they are modelled in `StormSignal`). An error outside
`_AVAILABILITY_ERRORS` ends the snapshot and is left out, as are display names
and identifiers that are no address.

**BondList.** One proxy. A sensor's state is a list or the lack of a reading:
`published` on the proxy, `shown` in Home Assistant, which keeps the old one
while the link is dead and nobody has noticed. A list whose fields do not parse
(`foreign`) is no reading, and a second entity under the same name is always
unavailable. An update that cannot read the store is one that does not happen.
How failures add up to the threshold is in `SmpTelemetry` and `FailureWindow`;
here an address has enough of them, or not. `lackedP` and `lackedS` are history:
who was without a bond at some moment since the list was read.

**ConnectionPath.** The tracker's map, and the radio it is read from: a device
that is connected is silent, each scanner forgets what it has not heard for
long, and a slot may outlive its link. Proxies are numbered in the order of
their addresses, which settles ties. The proxies without a free slot are any in
each snapshot.

Interleaving is at the level of the source: Home Assistant runs the integration
on one event loop, so whatever happens between two `await`s is one action, and
what runs on another thread, on the proxy, in a timer or after an `await` is an
action of its own.

## 4. What the runs show

Every run checks for deadlock: the bounds on clocks and events stop those
actions only, and a poll, a reading, a reboot or a reload remains possible.

| Run | Instance | Shows |
|---|---|---|
| `tracking` | 2 proxies, one of them never retired or forgotten, retirement at age 2, other bounds 1 | `RetiredStaysGone`, `MemoryMatchesRegistry`, `DiskNeverAhead`; `ReconnectClears`, `GoneIsReported`, `AskedDespiteRestarts` under fairness |
| `push` | 2 threads, 3 events, settle time 2 | `RebootBookedFirst`, `NoPhantomReboots`, `QuietAfterShutdown`, `SnapshotsSpaced`; `EveryChangeShown` under fairness |
| `smp` | 3 addresses, table of 2, counters to 2, clock modulo 2 | `NeverOvercounted`, `EvictsOldest`, `NothingSlips` |
| `slots` | 2 clients, 2 ids each, 2 devices, 3 waiting events, clock modulo 2 | `ShowsWhatIsHeld`, `SilenceIsReal` |
| `window` | 2 addresses, 4 failures, 4 ticks, window 1 | `SweepCleans`, `KeepsPromise` (refinement of `RecentFailures`) |
| `incidents` | 1 device, 2 proxies, 2 verdicts per snapshot | `NoFaultLost`, `DistinctKeys`, `SurfacesAgree`, `AlertsFollowFaults` |
| `storm` | 1 device, a counting proxy and a plain one, storm at 2, bond at 3, counters to 5 | `StormNeedsChurn`, `InferredIsUnmeasured`, `CappingIsInvisible` |
| `saturation` | window 3, 7 ticks | `CoversWindow`, `ReadingsAreExact` |
| `verdicts` | 1 address, 2 proxies, 5 devices in 32 registries | `GhostsAreGone`, `LeaksAreSaid`, `OneJudge` |
| `bonds` | 2 addresses, a list of 1 | `AccusedLackedBond`; `AccusationEnds`, `LossIsFound` under fairness |
| `paths` | 1 device, 3 proxies, 2 of them with a slot for it, 2 strengths | `RouteOfItsConnection` |

Why the bounds are enough:

* `tracking`: two proxies, since nothing relates three. They share snapshots,
  saves, loads and refreshes. One of them (`Steady`) comes and goes only, and is
  never retired, forgotten or deleted, which keeps the run small: no step of the
  user's touches two proxies, and the theorems have no such limit. Ages saturate, so behaviours are
  unbounded in time; `RetireAfter` exceeds the other bounds as it does in the
  code.
* `push`: a burst needs two pushes and a third event after its snapshot; two
  threads give every order of two callbacks.
* `smp`: three addresses on two entries force evictions; counters saturate and
  the clock wraps within a run.
* `slots`: two clients share a device or hold one each; two ids per client allow
  a stale key beside a new one; three waiting events hold a whole link loss (two
  CLOSE and a DISCONNECT), and an end that waits behind a new beginning.
* `window`, `saturation`: the clock passes the window more than twice.
* `incidents`: every precedence rule and every clash of keys is about two
  verdicts; proxies are symmetric.
* `storm`: addresses do not influence each other in this pipeline, so one is
  enough. The thresholds differ, so the cap is tested where it is not the
  smaller one, and a counter grows from a baseline of 1 to 5, past the cap of 3,
  between two readings: bookings are really cut (`window = uncapped` is violated
  in this run). One proxy of each kind suffices for every way to mix evidence,
  since a second one of a kind adds evidence of the same sort from another
  source; two unmeasured connections and one slot read blind, beside five
  counted failures, let any of them make a storm. The theorems hold for any
  number of proxies.
* `verdicts`: a verdict is about one address, and the precedence of the passes
  and the order of the walk show between two devices that claim it, in every
  pair of ways. The proxies cover a source that only Home Assistant's scanner
  entry knows and one that is a network address, each beside BlueSight's own
  device for it; the two proxies also hold one slot each for the address.
* `bonds`: two addresses and room for one reach a list too long to tell; nothing
  relates more addresses.
* `paths`: a route relates the holder and the strongest other proxy, and a third
  one makes the choice and its ties; the device reconnects through the same
  proxy and through another. The strengths differ by exactly
  `CLEARLY_STRONGER_DB`.

The runs of `PushScheduler`, `SmpTelemetry`, `SlotTable` and `ConnectionPath`
check the types as well, since mistakes in their code would show there first.
The types of all modules are proved.

### Where code and documentation disagree

One run expects a violation, and its counterexample is a behaviour of the code:

* `tracking_TrackedHasWallClock`: `remember_proxies` starts a retirement clock
  for a remembered proxy that the file does not know, as its comment says
  (`bluesight/coordinator.py:600`), but setup then loads the file and replaces
  the map, so the stamp is lost and the proxy is never asked about until it
  registers again.

Three more are stated in the modules; TLC refutes each when it is named in the
module's configuration.

* `OnlineHasEntities` (`ProxyTracking`): a proxy retired while it is coming back
  is still in the snapshot that follows, stays in `known_sources`, and has no
  entities until a reload, which the comment at `bluesight/sensor.py:56` says
  cannot be.
* `ResolvedAsLastSeen` (`Incidents`): README promises that a resolved event
  carries the incident as it was last seen; it carries the payload it opened
  with (`bluesight/events.py:61`).
* `NeverTwice` (`StormSignal`): README says that on a proxy that counts, counts
  are the only thing feeding the window; a counting proxy whose sensor cannot be
  read in the snapshot that sees its slot is treated as one that does not count,
  and the failure is inferred and later counted. `StormNeedsChurn` and
  `InferredIsUnmeasured` bound the damage: one extra failure for each such slot.
  The counts themselves are of failed pairings, which may be more than the
  connections Home Assistant knows of.

Others were met on the way:

* A proxy that stays offline across a reload is announced again with `initial`
  false, since it is given a new grace period after the first update (README,
  "Events").
* Home Assistant saves its device registry with a delay, and the integration
  forces its own file out at a retirement (`bluesight/coordinator.py:315`). A
  power cut between the two brings the device back without a stamp: the proxy is
  tracked again, and by the first disagreement above it has no retirement clock
  until it registers. `RetiredStaysGone` speaks of retirements that were saved.
* After a load that failed, retiring a proxy of the unread file finds nothing to
  remove and forces no write, so the file names it until the next one. It is
  harmless while the proxy has no device; `DiskNeverAhead` excepts it.
* A proxy that registered again since the last snapshot can still be retired
  (`retire_proxy` judges that snapshot), although README says a registered
  scanner cannot.
* When the bond store holds more than the list can tell, or reading it fails, a
  comment (`firmware/bluesight.cpp:217`) and `docs/esphome-component.md:145`
  call the list unreported. That is so only until the first list: after it
  the sensor keeps the last one, and a bond made since is missing from it.
  `AccusedLackedBond` therefore speaks of the list that is shown.
* `_build_device_index` says that when the registry cannot be read no proxy
  resolves and there is no telemetry (`bluesight/coordinator.py:738`). The
  scanner entries still resolve proxies, and as no address is managed in that
  snapshot, `detect_idle_slots` judges slots of devices that Home Assistant
  could judge. `OneJudge` excepts exactly this.
* `build_device_index` says that its result never depends on the order of the
  registry (`bluesight/device_index.py:164`). It does between two devices that
  claim one address in the same way: the first identifier stays, the last
  connection wins. `GhostsAreGone` therefore says that
  some device that may answer is gone; of two that claim the address in the same
  way, one that works may still have its slot called a ghost on the other's
  account.

## 5. Fairness

Three specifications state fairness; no safety property depends on it.

* `ProxyTracking`: weak fairness of the clock, of the poll once it is due, and
  of a write asked for. Home Assistant's scheduler runs timers that are due.
  Nothing is assumed of the debouncer, of pushes, proxies, users, stops or
  crashes, nor of setups, which the properties name where they need one;
  `AskedDespiteRestarts` holds against a Home Assistant that restarts for ever.
* `PushScheduler`: weak fairness of the loop taking callbacks, of a due timer,
  of the clock and of each thread's callback. Polls are given no fairness, so
  `EveryChangeShown` is shown for the push path alone.
* `BondList`: weak fairness of the Bluetooth stack coming up after a boot, of
  the update (ESPHome's polling, which retries a failed read for ever), of
  Home Assistant noticing a dead link and connecting anew, and of the snapshot
  (the coordinator's poll). Reboots, lost links, pairings, failures and restarts
  are left free; `AccusationEnds` holds against a proxy that reboots for ever.

## 6. What is proved

Each theorem holds for every value of the constants that satisfies the named
assumption of its module. These say that bounds are naturals (and, where the code
needs it, positive), that one set of sources is part of another or disjoint from
it, and that sets the program enumerates (proxies, registry devices, clients of
the stack) are finite. `PathAssumption` adds that a signal strength is above
-127, which is how the adapter says that there is none
(`bluesight/adapter.py:134`).

Every invariant and every action property of the runs is stated by a theorem.

* **ProxyTracking** (`BoundsAssumption`): types; `RetirementIsFinal`, from
  `RetiredInv`, which adds that a retired proxy is not registered, or a snapshot
  would bring it back, and that
  a power cut gives back only what was saved; `RememberedForGood`, from `RegistryInv`, which adds that
  entities are only known for proxies that have a device; `FileIsBehind`, which
  excepts what a setup could not read.
* **PushScheduler** (`SettleAssumption`): types; `BookedBeforeShown`, from
  `OrderInv`: each event is called back by one thread, one that has still to
  book has not yet asked for a snapshot, and a waiting booking is ahead of its
  push in the queue; `StoppingBooksNothing`; `ShutdownIsQuiet` and
  `BurstsCostOneSnapshot`, from `TimerInv`, where the armed timer and the time
  since the last snapshot together cover the settle time.
* **SmpTelemetry** (`SmpAssumption`): types; `UnderCount`, from `Covered`: what
  was reported, plus what can still be reported from the baseline to the text
  and from the text to the counter, is at most what happened; `AllAccountedFor`,
  where that sum keeps pace; `DropsOldest`, with the arithmetic of the clock.
* **FailureWindow** (`WindowAssumption`): types; `QueuesInOrder`, without which
  evicting from the head would miss stale failures; `SweepLeavesFresh`;
  `LazyIsInvisible`, the refinement of `RecentFailures`: a question answers alike
  in both, and every other step is a step of the log or none.
* **Incidents** (`IncidentsAssumption`): types; `PrecedenceIsSound` (what
  outranks an incident is outranked by nothing); `KeysIdentify`, from the
  distinctness of what the detectors find; `SurfacesFollow`; `AlertsAreFaults`.
* **StormSignal** (`StormAssumption`): types; `InferenceIsSound`, from an account
  per address: each judgement still to come is paid for by a connection that
  ended on a proxy that does not count, a slot read blind, or a held slot on a
  proxy that does not count. `StormsAreEarned` needs a second account beside it,
  `ChurnInv`: every pairing that a proxy counted as failed is booked as measured
  or due from a counter that is past its baseline, and never both.
  `CapsChangeNothing`,
  from `CapInv`: booking for booking, the window is the capped form of the
  uncapped one, and a booking that was cut reaches the threshold by itself. The
  failures in a window are counted as the elements of a set, so that totals can
  be compared through bijections and unions instead of induction on sums.
* **SaturationWindow** (`SaturationAssumption`): types; `WindowIsCovered`, from
  `CoverInv`, which adds that a moment has one reading, so that times increase
  strictly; `ReadingsOfTheLog`, from `LogInv`: of each tick in the window the
  entries kept tell what the log tells. From there the four readings follow by
  matching ticks with places in a stretch, runs with stretches and episodes
  with their first ticks; `StretchesApart` (between two stretches there was a
  free slot) makes the matching one to one.
* **SlotTable** (`SlotAssumption`): types; `SilenceWithRoom` and `ListWithRoom`,
  from `HoldInv` (once the waiting events are handled every connection will have
  a record, with a time no older than the connection's silence) and `ListInv`
  (every record that will then be left is for a device that is held). What will
  be left is stated by the last waiting event that concerns a record, which is
  shown to be what handling the events one by one leaves. Both need room: an
  OPEN that meets a full table is not tracked, which the code takes to be
  unreachable. `SilenceWithRoom` assumes that no OPEN that is handled meets a
  full table, `ListWithRoom` that none that waits would.
* **DeviceIndex, SlotVerdicts** (`DevicesAssumption`, `VerdictsAssumption`): types;
  `GhostsAreReal` (some device that may answer is gone) and `NoSilentLeak`, from what each pass of the index can put in
  it (a device that answers for the address, and one for every address that has
  such a device); `JudgedOnce`, as a ghost and an idle slot would need the same
  address managed and not managed in one snapshot. That the first and the last
  device of a walk exist is shown from finiteness.
* **ConnectionPath** (`PathAssumption`): types; `RoutesAreTrue`, from `PathInv`,
  where the promise extends to slots that are known but not held, as one that is
  taken again before the next snapshot keeps its route. That the strongest proxy
  is well defined, ties included, is shown from finiteness.
* **BondList** (`BondAssumption`): types; `BondAccusations`, from `BondInv`: the
  list on the proxy, and the list in Home Assistant, have every address but
  those that lacked a bond since it was read. The first half is needed because a
  new connection sends what the proxy's sensor holds, however old.

The two windows rest on one more fact each: how many entries a queue loses at
its head when it evicts, and what is left of it. Where the code takes a least, a
first or a best element, its existence is shown with the well-foundedness of the
naturals or of finite subsets.

Only model-checked: the six liveness properties, `ReconnectClears`,
`GoneIsReported`, `AskedDespiteRestarts`, `EveryChangeShown`, `AccusationEnds` and
`LossIsFound`. They rest on fairness, hence on `ENABLED`, which the provers do not
handle. TLC also covers what the theorems on `SlotTable` assume of the stack: in
the run, the room is there.

## 7. What is not modelled

* The reading of registries, scanners and states through Home Assistant: pure
  I/O, of which the models keep that it may fail or lag.
* Texts, translations, entity attributes, diagnostics and the card: views of the
  published data.
* The lexical checks of telemetry fields: that a field may be rejected is
  modelled, which strings are is left to the unit tests.
* Names: those of registry devices, users' names for proxies and the attributes
  built from them (`resolve_proxy_names`, `path_attributes`, `allocated_devices`).
* A table in `SlotTable` that is too small: the model drops the OPEN as the code
  does, but the run has a record for every key, and the theorems assume room.
  Nine records are fewer than the keys that clients and ids can make, and a
  missed CLOSE on a link that stays up leaves one behind, so several of them can
  fill the table; a bound on them is not proved.
* A clock that two snapshots read at the same instant in `SaturationWindow`;
  a zero grace period in `Incidents`.
