----------------------------- MODULE Incidents -----------------------------
(***************************************************************************)
(* From readings to alerts: the detectors judge a snapshot, the precedence *)
(* rules drop the verdicts a better one explains, and two listeners turn   *)
(* the list that is left into persistent notifications and bluesight_      *)
(* incident events, across reloads and restarts.  Proxies come and go, and *)
(* a missing one is reported when its grace period runs out; the readings  *)
(* of the rest of the system are arbitrary.                                *)
(***************************************************************************)
EXTENDS Naturals, FiniteSets, FiniteSetsExt

CONSTANTS
  Addresses,       (* Addresses of Bluetooth devices.                        *)
  Proxies,         (* Sources of proxies.                                    *)
  StormThreshold,  (* Failures of a device that make a storm.                *)
  BondThreshold,   (* Refusals on one proxy that tell of a missing bond.     *)
  MaxCount,        (* Bound on the failures in the window, per origin.       *)
  MaxVerdicts      (* Bound on the verdicts of one snapshot.                 *)

ASSUME IncidentsAssumption ==
  /\ Addresses \cap Proxies = {}
  /\ StormThreshold \in Nat \ {0}
  /\ BondThreshold \in Nat \ {0}
  /\ MaxCount \in Nat
  /\ MaxVerdicts \in Nat

VARIABLES
  running,    (* The entry is loaded.                                        *)
  gone,       (* Proxies that are not registered scanners.                   *)
  waited,     (* Proxies whose offline grace period has run out.             *)
  found,      (* What the detectors found in the last snapshot.              *)
  published,  (* data.incidents: what is left of it after the precedence.    *)
  active,     (* NotificationManager._active_keys                            *)
  shown,      (* Keys with a persistent notification in Home Assistant.      *)
  first,      (* IncidentEvents._first                                       *)
  open,       (* IncidentEvents._open: the payloads incidents opened with.   *)
  believed    (* History: keys an automation that listens since the setup    *)
              (* believes to be open.                                        *)

alerts == <<active, shown, first, open, believed>>

vars == <<running, gone, waited, found, published, alerts>>

-----------------------------------------------------------------------------
(* Incidents. *)

Incident(kind, x, sources, evidence) ==
  [kind |-> kind, about |-> x, sources |-> sources, evidence |-> evidence]

DeviceKinds == {"deadlock", "ghost_slot", "storm", "bond_lost"}

ProxyKinds == {"proxy_offline", "proxy_stalled", "proxy_reboot_storm"}

(* A storm says "smp" exactly when it names who measured it.               *)
AllIncidents ==
  {i \in [kind : DeviceKinds \cup ProxyKinds, about : Addresses \cup Proxies,
          sources : SUBSET Proxies, evidence : {"smp", "heuristic"}] :
     /\ i.kind \in DeviceKinds <=> i.about \in Addresses
     /\ i.kind # "storm" => i.sources # {}
     /\ i.kind = "storm" => (i.evidence = "smp" <=> i.sources # {})}

Key_mutant(i) == <<i.kind, i.about, i.sources>>

(* Incident.key: the sources of a storm are evidence, all others identity. *)
Key(i) == <<i.kind, i.about, IF i.kind = "storm" THEN {} ELSE i.sources>>

Keys(list) == {Key(i) : i \in list}

-----------------------------------------------------------------------------
(* What a snapshot reads of one address: the proxies that hold a slot for  *)
(* it, what Home Assistant can say of its device, the proxies that saw no  *)
(* traffic for too long, its refusals in the window by the proxy that      *)
(* measured them, its inferred failures, and what each proxy tells of its  *)
(* bond.                                                                   *)
Readings ==
  [holders : SUBSET Proxies, device : {"alive", "dead", "unmanaged"},
   idle : SUBSET Proxies, refused : [Proxies -> 0..MaxCount],
   inferred : 0..MaxCount, bond : [Proxies -> {"untold", "held", "missing"}]]

Deadlocks(a, r) ==
  IF Cardinality(r.holders) >= 2
  THEN {Incident("deadlock", a, r.holders, "heuristic")} ELSE {}

GhostSlots(a, r) ==
  {Incident("ghost_slot", a, {p}, "heuristic") :
     p \in {q \in r.holders : r.device = "dead"}}

(* A storm names the proxies that measured any of it.                      *)
Storms(a, r) ==
  LET measurers == {p \in Proxies : r.refused[p] > 0}
  IN  IF MapThenSumSet(LAMBDA p : r.refused[p], measurers) + r.inferred >= StormThreshold
      THEN {Incident("storm", a, measurers, IF measurers = {} THEN "heuristic" ELSE "smp")}
      ELSE {}

(* Only refusals measured by the very proxy that lacks the bond implicate  *)
(* it, and a proxy that tells nothing of its bonds is never implicated.    *)
BondsLost(a, r) ==
  {Incident("bond_lost", a, {p}, "smp") :
     p \in {q \in Proxies : r.bond[q] = "missing" /\ r.refused[q] >= BondThreshold}}

IdleSlots_mutant(a, r) ==
  {Incident("ghost_slot", a, {p}, "smp") : p \in r.idle \cap r.holders}

IdleSlots(a, r) ==
  {Incident("ghost_slot", a, {p}, "smp") :
     p \in {q \in r.idle \cap r.holders : r.device = "unmanaged"}}

OfAddress(a, r) ==
  Deadlocks(a, r) \cup GhostSlots(a, r) \cup Storms(a, r) \cup BondsLost(a, r)
    \cup IdleSlots(a, r)

Offline(missing) == {Incident("proxy_offline", p, {p}, "heuristic") : p \in missing}

Stalled(deaf) == {Incident("proxy_stalled", p, {p}, "heuristic") : p \in deaf}

RebootStorms(rebooting) ==
  {Incident("proxy_reboot_storm", p, {p}, "heuristic") : p \in rebooting}

-----------------------------------------------------------------------------
(* Precedence. *)

Outranks(j, i) ==
  /\ j.about = i.about
  /\ \/ j.kind = "deadlock" /\ i.kind = "ghost_slot"
     \/ j.kind = "bond_lost" /\ i.kind = "storm"
     \/ j.kind = "proxy_offline" /\ i.kind = "proxy_stalled"

Deduped_mutant(list) ==
  {i \in list : ~\E j \in list : j.about = i.about /\ j.kind = "deadlock" /\ j # i}

(* dedupe_incidents *)
Deduped(list) == {i \in list : ~\E j \in list : Outranks(j, i)}

(* The verdicts on devices that some readings lead to.                     *)
DeviceVerdicts ==
  {UNION {OfAddress(a, r[a]) : a \in Addresses} : r \in [Addresses -> Readings]}

-----------------------------------------------------------------------------
(* The listeners. *)

(* NotificationManager.async_update *)
Notify(list) ==
  LET current   == Keys(Deduped(list))
      created   == current \ active
      dismissed == active \ current
  IN  /\ shown' = (shown \cup created) \ dismissed
      /\ active' = current

KeysOf(events) == {Key(e.incident) : e \in events}

(* What an automation learns from the events, in the order they are fired. *)
Heard(resolved, opened) ==
  believed' = (believed \ KeysOf(resolved)) \cup KeysOf(opened)

(* IncidentEvents.async_update: what went resolves with the payload it     *)
(* opened with, and what came opens.                                       *)
FireEvents(list) ==
  LET current  == Deduped(list)
      resolved == {e \in open : Key(e.incident) \notin Keys(current)}
      opened   == {[incident |-> i, initial |-> first] :
                     i \in {j \in current : \A e \in open : Key(e.incident) # Key(j)}}
  IN  /\ open' = (open \ resolved) \cup opened
      /\ first' = FALSE
      /\ Heard(resolved, opened)

(* _snapshot and _publish_incidents: missing proxies whose grace period    *)
(* has run out, any registered ones that hear nothing, any that restart.   *)
Publish(missing) ==
  \E deaf \in SUBSET (Proxies \ gone), rebooting \in SUBSET Proxies :
    LET proxies == Offline(missing) \cup Stalled(deaf) \cup RebootStorms(rebooting)
    IN  \E devices \in DeviceVerdicts :
          /\ Cardinality(devices) + Cardinality(proxies) <= MaxVerdicts
          /\ found' = devices \cup proxies
          /\ published' = Deduped(found')
          /\ Notify(published')
          /\ FireEvents(published')

-----------------------------------------------------------------------------
Init ==
  /\ running = FALSE
  /\ gone \in SUBSET Proxies
  /\ waited = {}
  /\ found = {}
  /\ published = {}
  /\ active = {}
  /\ shown = {}
  /\ first = TRUE
  /\ open = {}
  /\ believed = {}

Leave(p) ==
  /\ p \notin gone
  /\ gone' = gone \cup {p}
  /\ UNCHANGED <<running, waited, found, published, active, shown, first, open,
                 believed>>

Return(p) ==
  /\ p \in gone
  /\ gone' = gone \ {p}
  /\ UNCHANGED <<running, waited, found, published, active, shown, first, open,
                 believed>>

(* The grace period of a missing proxy runs out.                           *)
Wait(p) ==
  /\ running
  /\ p \in gone \ waited
  /\ waited' = waited \cup {p}
  /\ UNCHANGED <<running, gone, found, published, active, shown, first, open,
                 believed>>

(* async_setup_entry: every remembered proxy gets a full grace period, and *)
(* the first snapshot is published to new listeners.                       *)
Setup ==
  /\ ~running
  /\ running' = TRUE
  /\ waited' = {}
  /\ UNCHANGED gone
  /\ Publish({})

(* A poll or a push.                                                       *)
Snapshot ==
  /\ running
  /\ waited' = waited \cap gone
  /\ UNCHANGED <<running, gone>>
  /\ Publish(waited')

(* What remains when the listeners and the coordinator are gone.           *)
Forgotten ==
  /\ running' = FALSE
  /\ waited' = {}
  /\ found' = {}
  /\ published' = {}
  /\ active' = {}
  /\ first' = TRUE
  /\ open' = {}
  /\ believed' = {}
  /\ UNCHANGED gone

Unload_mutant ==
  /\ running
  /\ shown' = shown
  /\ Forgotten

(* The entry is unloaded: notifications are dismissed, no event is fired.  *)
Unload ==
  /\ running
  /\ shown' = shown \ active
  /\ Forgotten

(* Home Assistant stops or crashes, and its notifications with it.         *)
Restart ==
  /\ running
  /\ shown' = {}
  /\ Forgotten

Next ==
  \/ \E p \in Proxies : Leave(p) \/ Return(p) \/ Wait(p)
  \/ Setup
  \/ Snapshot
  \/ Unload
  \/ Restart

Spec == Init /\ [][Next]_vars

-----------------------------------------------------------------------------
Payloads == [incident : AllIncidents, initial : BOOLEAN]

TypeOK ==
  /\ running \in BOOLEAN
  /\ gone \in SUBSET Proxies
  /\ waited \in SUBSET Proxies
  /\ found \in SUBSET AllIncidents
  /\ published \in SUBSET AllIncidents
  /\ active \in SUBSET Keys(AllIncidents)
  /\ shown \in SUBSET Keys(AllIncidents)
  /\ first \in BOOLEAN
  /\ open \in SUBSET Payloads
  /\ believed \in SUBSET Keys(AllIncidents)

(* A verdict that is not published is explained by one that is, on the     *)
(* same device or proxy: the rules never chain, and drop no fault.         *)
NoFaultLost ==
  \A i \in found \ published : \E j \in published : Outranks(j, i)

(* Two published incidents are two faults: no two detectors report one     *)
(* slot, bond or storm under one key.                                      *)
DistinctKeys ==
  \A i, j \in published : Key(i) = Key(j) => i = j

(* At every moment the notifications on display, the incidents the events  *)
(* opened and not resolved, and what an automation that only listens has   *)
(* put together, are the incidents published; an unloaded entry leaves no  *)
(* notification behind.                                                    *)
SurfacesAgree ==
  /\ shown = Keys(published)
  /\ active = shown
  /\ KeysOf(open) = shown
  /\ believed = shown

(* The events of a step that does not end a run.                           *)
Opened == open' \ open

Resolved == IF running' THEN open \ open' ELSE {}

SameFault(i, j) == i.kind = j.kind /\ i.about = j.about /\ i.sources = j.sources

StormOf(x, list) == \E i \in list : i.kind = "storm" /\ i.about = x

(* "a storm whose attribution shifts is still one incident": a storm that  *)
(* goes on fires nothing, whoever measures it and however it began; every  *)
(* other fault is announced once, on each proxy that has it.               *)
AlertsFollowFaults ==
  [][running /\ running' =>
       /\ \A a \in Addresses : StormOf(a, published) /\ StormOf(a, published') =>
            ~StormOf(a, {e.incident : e \in Opened \cup Resolved})
       /\ \A j \in {k \in published' : k.kind # "storm"} :
            (\E i \in published : SameFault(i, j)) <=> ~\E e \in Opened : SameFault(e.incident, j)]_vars

(* "A resolved event carries the incident as it was last seen".            *)
ResolvedAsLastSeen ==
  [][\A e \in Resolved : e.incident \in published]_vars
=============================================================================
