--------------------------- MODULE ProxyTracking ---------------------------
(***************************************************************************)
(* What BlueSight remembers about the Bluetooth proxies of an              *)
(* installation, and what follows from it: the "offline" incident, the     *)
(* "was this proxy retired?" Repair, and the per-proxy device and          *)
(* entities.  The coordinator keeps one clock per proxy for the incident   *)
(* (monotonic, restarts with the process) and one for the Repair (wall     *)
(* time, persisted).  The user may retire a proxy or forget it, the entry  *)
(* may be reloaded, Home Assistant may stop or lose power.                 *)
(*                                                                         *)
(* A stamp is represented by its age (now - stamp), which is all the code  *)
(* ever reads of it; an age stops growing at the largest bound it is       *)
(* compared with, so the state space is finite without a horizon.          *)
(***************************************************************************)
EXTENDS Integers

CONSTANTS
  Proxies,       (* Sources (MACs) a proxy can have.                         *)
  OfflineGrace,  (* offline_grace_s: age at which absence is an incident.    *)
  SaveInterval,  (* _STORE_SAVE_INTERVAL_S: spacing of the writes asked for. *)
  PollInterval,  (* poll_interval_s: longest time between two snapshots.     *)
  RetireAfter    (* RETIRE_AFTER_S: age at which the Repair is raised.       *)

ASSUME BoundsAssumption ==
  /\ OfflineGrace \in Nat
  /\ SaveInterval \in Nat \ {0}
  /\ PollInterval \in Nat \ {0}
  /\ RetireAfter \in Nat \ {0}

VARIABLES
  registered,    (* habluetooth: scanners registered right now.              *)
  devices,       (* Device registry: proxies that have a BlueSight device.   *)
  started,       (* Home Assistant reached CoreState.running.                *)
  loaded,        (* The config entry is set up.                              *)
  lastOnline,    (* _last_online: age of the last snapshot that saw it.      *)
  lastSeenWall,  (* _last_seen_wall: the same on the wall clock.             *)
  store,         (* The bluesight.proxies file.                              *)
  savedDevices,  (* Device registry as Home Assistant last saved it.         *)
  saveAge,       (* now - _last_save_at.                                     *)
  savePending,   (* async_delay_save was called and has not written yet.     *)
  sincePoll,     (* Age of the last snapshot of a loaded entry.              *)
  data,          (* coordinator.data.proxies_health: online and dropped off. *)
  offline,       (* Sources with a PROXY_OFFLINE incident in data.incidents. *)
  raised,        (* RetirementIssues._raised.                                *)
  known,         (* known_sources of the two entity platforms.               *)
  entities,      (* Sources whose per-proxy entities exist.                  *)
  debounce,      (* The coordinator's request_refresh debouncer.             *)
  retired,       (* History: retired while gone and not back since.          *)
  touched,       (* History: forgotten by the user since the last setup.     *)
  unread         (* History: this setup could not read the file, and nothing *)
                 (* has been written over it since.                          *)

memory == <<lastOnline, lastSeenWall, saveAge, savePending>>
published == <<data, offline, raised, sincePoll>>
surfaces == <<known, entities, devices>>
disk == <<store, savedDevices, unread>>
history == <<retired, touched>>
vars == <<registered, started, loaded, debounce,
          memory, published, surfaces, disk, history>>

-----------------------------------------------------------------------------
Absent == -1

Ages(cap) == {Absent} \cup 0..cap

Nobody == [p \in Proxies |-> Absent]

NoData == [online |-> {}, gone |-> {}]

Older(ages, cap) ==
  [p \in Proxies |-> IF ages[p] \in 0..(cap - 1) THEN ages[p] + 1 ELSE ages[p]]

Tracked(ages) == {p \in Proxies : ages[p] # Absent}

Without_mutant(ages, p) == ages

Without(ages, p) == [ages EXCEPT ![p] = Absent]

StampSeen_mutant(ages) ==
  [p \in Proxies |-> IF ages[p] # Absent \/ p \in registered THEN 0 ELSE Absent]

(* A snapshot stamps every registered scanner on both clocks.              *)
StampSeen(ages) ==
  [p \in Proxies |-> IF p \in registered THEN 0 ELSE ages[p]]

(* The sources of a snapshot.  The code also unions those of the slot      *)
(* allocations, which habluetooth keeps for registered scanners only.      *)
Listed(d) == d.online \cup d.gone

-----------------------------------------------------------------------------
(* Pieces of the handlers.  The definitions whose name ends in _mutant are  *)
(* plausible mistakes in the next definition; the runs must refute them.   *)

(* detect_offline_proxies: missing for at least the grace period.          *)
OfflineProxies(gone, ages) == {p \in gone : ages[p] >= OfflineGrace}

(* retirement_candidates: a proxy the wall clock map knows nothing about   *)
(* is not one.                                                             *)
RetirementCandidates(gone, ages) == {p \in gone : ages[p] >= RetireAfter}

ReconcileRepairs_mutant(wanted) == raised \cup wanted

(* RetirementIssues.async_update: clear what is no longer wanted, raise    *)
(* what is new.                                                            *)
ReconcileRepairs(wanted) ==
  (raised \ (raised \ wanted)) \cup (wanted \ raised)

(* _snapshot and the listeners that reconcile incidents and Repairs with   *)
(* it, from the coordinator memory (la, wa, sAge, pend).                   *)
Snapshot(la, wa, sAge, pend) ==
  LET seen  == StampSeen(la)
      wall  == StampSeen(wa)
      gone  == Tracked(seen) \ registered
      saves == registered # {} /\ sAge >= SaveInterval
  IN  /\ lastOnline' = seen
      /\ lastSeenWall' = wall
      /\ saveAge' = IF saves THEN 0 ELSE sAge
      /\ savePending' = (pend \/ saves)
      /\ sincePoll' = 0
      /\ data' = [online |-> registered, gone |-> gone]
      /\ offline' = OfflineProxies(gone, seen)
      /\ raised' = ReconcileRepairs(RetirementCandidates(gone, wall))

(* _add_new_proxies of both platforms: entities (and with them a device)   *)
(* for the listed proxies it does not know, then forget the unlisted.      *)
(* "late" is what Home Assistant deletes after the listeners have run.     *)
AddNewProxies(kn, ents, devs, late) ==
  LET sources == Listed(data')
      new     == sources \ kn
  IN  /\ known' = (kn \cup new) \cap sources
      /\ entities' = (ents \cup new) \ late
      /\ devices' = (devs \cup new) \ late

ForcesSave_mutant(p) == FALSE

(* Forgetting a proxy the wall clock map held is saved without throttle.   *)
ForcesSave(p) == lastSeenWall[p] # Absent

(* forget_proxy(p) followed by async_request_refresh: at once when the     *)
(* debouncer is idle, at the end of its cooldown otherwise.                *)
ForgetAndRefresh(p, ents, devs, late) ==
  LET la     == Without(lastOnline, p)
      wa     == Without(lastSeenWall, p)
      sAge   == IF ForcesSave(p) THEN 0 ELSE saveAge
      pend   == savePending \/ ForcesSave(p)
  IN  \/ /\ debounce = "idle"
         /\ Snapshot(la, wa, sAge, pend)
         /\ AddNewProxies(known, ents, devs, late)
         /\ debounce' = "cooling"
      \/ /\ debounce # "idle"
         /\ lastOnline' = la
         /\ lastSeenWall' = wa
         /\ saveAge' = sAge
         /\ savePending' = pend
         /\ entities' = ents \ late
         /\ devices' = devs \ late
         /\ debounce' = "pending"
         /\ UNCHANGED <<published, known>>

(* An unload, a stop and a crash leave nothing of the coordinator.         *)
TearDown ==
  /\ loaded
  /\ loaded' = FALSE
  /\ lastOnline' = Nobody
  /\ lastSeenWall' = Nobody
  /\ saveAge' = SaveInterval
  /\ savePending' = FALSE
  /\ sincePoll' = 0
  /\ data' = NoData
  /\ offline' = {}
  /\ raised' = {}
  /\ known' = {}
  /\ entities' = {}
  /\ debounce' = "idle"
  /\ touched' = {}
  /\ unread' = FALSE
  /\ UNCHANGED registered

PendingWrite == IF savePending THEN lastSeenWall ELSE store

-----------------------------------------------------------------------------
Init ==
  /\ registered \in SUBSET Proxies
  /\ devices = {}
  /\ started \in BOOLEAN
  /\ loaded = FALSE
  /\ lastOnline = Nobody
  /\ lastSeenWall = Nobody
  /\ store = Nobody
  /\ savedDevices = {}
  /\ saveAge = SaveInterval
  /\ savePending = FALSE
  /\ sincePoll = 0
  /\ data = NoData
  /\ offline = {}
  /\ raised = {}
  /\ known = {}
  /\ entities = {}
  /\ debounce = "idle"
  /\ retired = {}
  /\ touched = {}
  /\ unread = FALSE

-----------------------------------------------------------------------------
(* The environment. *)

(* The poll backstop takes a snapshot at least every PollInterval.         *)
Tick ==
  /\ sincePoll < PollInterval
  /\ lastOnline' = Older(lastOnline, OfflineGrace)
  /\ lastSeenWall' = Older(lastSeenWall, RetireAfter)
  /\ store' = Older(store, RetireAfter)
  /\ saveAge' = IF saveAge < SaveInterval THEN saveAge + 1 ELSE saveAge
  /\ sincePoll' = IF loaded THEN sincePoll + 1 ELSE 0
  /\ UNCHANGED <<registered, started, loaded, debounce, savePending,
                 data, offline, raised, surfaces, savedDevices, unread,
                 history>>

Register(p) ==
  /\ p \notin registered
  /\ registered' = registered \cup {p}
  /\ retired' = retired \ {p}
  /\ UNCHANGED <<started, loaded, disk, debounce, memory, published,
                 surfaces, touched>>

Unregister(p) ==
  /\ p \in registered
  /\ registered' = registered \ {p}
  /\ UNCHANGED <<started, loaded, disk, debounce, memory, published,
                 surfaces, history>>

(* EVENT_HOMEASSISTANT_STARTED: restart_offline_clock, when the entry was  *)
(* set up before it.                                                       *)
HassStarted ==
  /\ ~started
  /\ started' = TRUE
  /\ lastOnline' = [p \in Proxies |->
                      IF p \in Tracked(lastOnline) THEN 0 ELSE Absent]
  /\ UNCHANGED <<registered, loaded, disk, debounce, lastSeenWall, saveAge,
                 savePending, published, surfaces, history>>

(* The file is written from the map as it is at that moment.               *)
WriteStore ==
  /\ savePending
  /\ store' = lastSeenWall
  /\ savePending' = FALSE
  /\ unread' = FALSE
  /\ UNCHANGED <<registered, started, loaded, debounce, lastOnline,
                 lastSeenWall, saveAge, published, surfaces, savedDevices,
                 history>>

(* Home Assistant saves the device registry some time after a change.      *)
WriteRegistry ==
  /\ savedDevices # devices
  /\ savedDevices' = devices
  /\ UNCHANGED <<registered, started, loaded, debounce, memory, published,
                 surfaces, store, unread, history>>

-----------------------------------------------------------------------------
(* The life of the config entry. *)

RememberProxies_mutant(ages) == ages

(* remember_proxies(own_proxy_records(...)) on a coordinator just built.   *)
RememberProxies(ages) ==
  [p \in Proxies |->
     IF p \in devices /\ ages[p] = Absent THEN 0 ELSE ages[p]]

LoadLastSeen_mutant(ages, readable) ==
  [p \in Proxies |-> IF ages[p] # Absent THEN ages[p] ELSE store[p]]

(* _async_load_last_seen assigns the map: what it held before is gone.     *)
(* An unreadable file counts as an empty one, and stays as it is.          *)
LoadLastSeen(ages, readable) == IF readable THEN store ELSE Nobody

(* async_setup_entry, up to the first publication of incidents, Repairs    *)
(* and entities: remember, load, first snapshot, in that order.            *)
Setup ==
  /\ ~loaded
  /\ loaded' = TRUE
  /\ \E readable \in BOOLEAN :
       /\ Snapshot(RememberProxies(Nobody),
                   LoadLastSeen(RememberProxies(Nobody), readable),
                   SaveInterval, FALSE)
       /\ unread' = (~readable /\ store # Nobody)
  /\ AddNewProxies({}, {}, devices, {})
  /\ debounce' = "idle"
  /\ UNCHANGED <<registered, started, store, savedDevices, history>>

(* A write asked for is issued on the next turn of the loop, so it is on   *)
(* disk before a reload reads the file and before a clean stop ends.       *)
Unload ==
  /\ TearDown
  /\ store' = PendingWrite
  /\ UNCHANGED <<started, devices, savedDevices, retired>>

(* A clean stop also saves the device registry.                            *)
Stop ==
  /\ TearDown
  /\ store' = PendingWrite
  /\ savedDevices' = devices
  /\ started' = FALSE
  /\ UNCHANGED <<devices, retired>>

(* A power cut: a write that was pending is lost, and so is every change   *)
(* of the device registry not yet saved.  A proxy whose removal was among  *)
(* them has its device again: its retirement did not take place.           *)
Crash ==
  /\ TearDown
  /\ started' = FALSE
  /\ devices' = savedDevices
  /\ retired' = retired \ savedDevices
  /\ UNCHANGED <<store, savedDevices>>

-----------------------------------------------------------------------------
(* Snapshots, by poll, by push, or by the debouncer. *)

(* Both replace a refresh the debouncer still owed.                        *)
Refresh ==
  /\ loaded
  /\ Snapshot(lastOnline, lastSeenWall, saveAge, savePending)
  /\ AddNewProxies(known, entities, devices, {})
  /\ debounce' = "idle"
  /\ UNCHANGED <<registered, started, loaded, disk, history>>

DebounceTimer ==
  \/ /\ loaded
     /\ debounce = "pending"
     /\ Snapshot(lastOnline, lastSeenWall, saveAge, savePending)
     /\ AddNewProxies(known, entities, devices, {})
     /\ debounce' = "cooling"
     /\ UNCHANGED <<registered, started, loaded, disk, history>>
  \/ /\ loaded
     /\ debounce = "cooling"
     /\ debounce' = "idle"
     /\ UNCHANGED <<registered, started, loaded, disk, memory, published,
                    surfaces, history>>

-----------------------------------------------------------------------------
(* The user. *)

(* retire_proxy: judged on the last published snapshot.                    *)
StillOnline(p) == p \in data.online

Remembering(p) ==
  /\ retired' = IF p \in registered THEN retired ELSE retired \cup {p}
  /\ touched' = touched \cup {p}

(* async_retire_proxy, from the Repair or the forget_proxy action.         *)
RetireProxy(p) ==
  /\ loaded
  /\ ~StillOnline(p)
  /\ ForgetAndRefresh(p, entities \ {p}, devices \ {p}, {})
  /\ Remembering(p)
  /\ UNCHANGED <<registered, started, loaded, disk>>

(* forget_proxy on a scanner still registered: its device stays.           *)
ForgetOnline(p) ==
  /\ loaded
  /\ StillOnline(p)
  /\ ForgetAndRefresh(p, entities, devices, {})
  /\ touched' = touched \cup {p}
  /\ UNCHANGED <<registered, started, loaded, disk, retired>>

(* async_remove_config_entry_device: Home Assistant deletes the device     *)
(* once the handler, and so the refresh it asked for, has returned.        *)
DeleteDevice(p) ==
  /\ loaded
  /\ p \in devices
  /\ ~StillOnline(p)
  /\ ForgetAndRefresh(p, entities, devices, {p})
  /\ Remembering(p)
  /\ UNCHANGED <<registered, started, loaded, disk>>

-----------------------------------------------------------------------------
Next ==
  \/ Tick
  \/ HassStarted
  \/ WriteStore
  \/ WriteRegistry
  \/ Setup
  \/ Unload
  \/ Stop
  \/ Crash
  \/ Refresh
  \/ DebounceTimer
  \/ \E p \in Proxies :
       \/ Register(p)
       \/ Unregister(p)
       \/ RetireProxy(p)
       \/ ForgetOnline(p)
       \/ DeleteDevice(p)

Spec == Init /\ [][Next]_vars

(* Time passes, the poll backstop runs when it is due and a write asked    *)
(* for is made; what is promised below relies on no push, on no other      *)
(* timer, and on no end of the restarts.                                   *)
Fairness ==
  /\ WF_vars(Tick)
  /\ WF_vars(sincePoll = PollInterval /\ Refresh)
  /\ WF_vars(WriteStore)

FairSpec == Spec /\ Fairness

-----------------------------------------------------------------------------
(* What must hold. *)

TypeOK ==
  /\ registered \in SUBSET Proxies
  /\ devices \in SUBSET Proxies
  /\ started \in BOOLEAN
  /\ loaded \in BOOLEAN
  /\ lastOnline \in [Proxies -> Ages(OfflineGrace)]
  /\ lastSeenWall \in [Proxies -> Ages(RetireAfter)]
  /\ store \in [Proxies -> Ages(RetireAfter)]
  /\ savedDevices \in SUBSET Proxies
  /\ saveAge \in 0..SaveInterval
  /\ savePending \in BOOLEAN
  /\ sincePoll \in 0..PollInterval
  /\ data \in [online : SUBSET Proxies, gone : SUBSET Proxies]
  /\ offline \in SUBSET Proxies
  /\ raised \in SUBSET Proxies
  /\ known \in SUBSET Proxies
  /\ entities \in SUBSET Proxies
  /\ debounce \in {"idle", "cooling", "pending"}
  /\ retired \in SUBSET Proxies
  /\ touched \in SUBSET Proxies
  /\ unread \in BOOLEAN

(* A proxy retired while it was gone stays gone until it registers again:  *)
(* no reload, clean restart or late refresh brings back its device, its    *)
(* tracking, or, once the owed refresh ran, its place in the snapshot, and *)
(* no power cut does once the registry was saved without it.               *)
RetiredStaysGone ==
  \A p \in retired :
    /\ p \notin devices
    /\ p \notin Tracked(lastOnline)
    /\ p \in Listed(data) \cup raised => debounce = "pending"

(* "Seen online once, remembered for good": unless the user forgot it in   *)
(* this run, a proxy is tracked exactly when it has a device, which is     *)
(* what the next run will remember it by.                                  *)
MemoryMatchesRegistry ==
  loaded => \A p \in Proxies \ touched :
              p \in devices <=> p \in Tracked(lastOnline)

(* With no write on its way the file knows no proxy the coordinator has    *)
(* forgotten, and claims no sighting later than the coordinator's own.  A  *)
(* file this setup could not read may still name proxies that were never   *)
(* loaded, until the first write replaces it.                              *)
DiskNeverAhead ==
  loaded /\ ~savePending =>
    \A p \in Proxies :
      store[p] # Absent =>
        \/ unread /\ lastSeenWall[p] = Absent
        \/ lastSeenWall[p] # Absent /\ lastSeenWall[p] <= store[p]

(* A proxy that is back for good loses its incident and its Repair.        *)
ReconnectClears ==
  \A p \in Proxies :
    <>[](loaded /\ p \in registered) => <>[](p \notin raised \cup offline)

(* A tracked proxy that is gone for good ends up reported offline.         *)
GoneIsReported ==
  \A p \in Proxies :
    <>[](loaded /\ p \notin registered /\ p \in Tracked(lastOnline))
      => <>[](p \in offline)

(* However often Home Assistant restarts, a gone proxy that the file still *)
(* knows is asked about, as long as the file can be read: the wall clock   *)
(* is not restarted with the process.                                      *)
AskedDespiteRestarts ==
  \A p \in Proxies :
    /\ <>[](p \in devices /\ p \notin registered /\ store[p] # Absent /\ ~unread)
    /\ []<>loaded
    => []<>(p \in raised)

-----------------------------------------------------------------------------
(* What the repository says and the code does not do (see README).         *)

(* Every tracked proxy has a retirement clock.                             *)
TrackedHasWallClock ==
  loaded => \A p \in Tracked(lastOnline) : lastSeenWall[p] # Absent

(* A proxy that comes back has entities without waiting for a reload: once *)
(* no refresh is owed, every proxy listed online has its entities.         *)
OnlineHasEntities ==
  loaded /\ debounce # "pending" => data.online \subseteq entities
=============================================================================
