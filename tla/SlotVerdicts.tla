---------------------------- MODULE SlotVerdicts ----------------------------
(***************************************************************************)
(* Who judges a held slot.  A slot whose address a device of the registry  *)
(* answers for is a ghost when that device is gone; the others are judged  *)
(* by how long their proxy measured them idle.  Both questions go through  *)
(* registries that change, and whose lookups may raise.                    *)
(***************************************************************************)
EXTENDS DeviceIndex

CONSTANTS
  Proxies,       (* Sources of the proxies, in Macs.                         *)
  Addresses,     (* Addresses that hold slots, in Macs.                      *)
  Node,          (* Which device each proxy is.                              *)
  Recorded,      (* Proxies whose scanner entry records it.                  *)
  Registries,    (* Registries there may be.                                 *)
  EntityStates   (* Sets of states the entities of a device may have.        *)

ASSUME VerdictsAssumption ==
  /\ Proxies \subseteq Macs
  /\ Addresses \subseteq Macs
  /\ Node \in [Proxies -> Devices]
  /\ Recorded \subseteq Proxies
  /\ Registries \subseteq Registry

VARIABLES
  held,      (* The slots: pairs of a proxy and the address it holds.      *)
  idle,      (* Slots each proxy last measured idle beyond the threshold.  *)
  mute,      (* Proxies whose sensors have no reading.                     *)
  registry,  (* The device registry.                                       *)
  entities,  (* The states of the entities of each device.                 *)
  failing,   (* The lookup that raises, if one does.                       *)
  degraded   (* _availability_degraded.                                    *)

world == <<held, idle, mute, registry, entities, failing>>
vars == <<world, degraded>>

Slots == Proxies \X Addresses
Lookups == {"none", "devices", "scanners", "entities"}

(* Devices that are no proxy: the ones at the other end of a link. *)
Others == Devices \ {Node[p] : p \in Proxies}

Init ==
  /\ held = {}
  /\ idle = {}
  /\ mute = Proxies
  /\ registry \in Registries
  /\ entities = [d \in Devices |-> {}]
  /\ failing = "none"
  /\ degraded = FALSE

-----------------------------------------------------------------------------
(* What a snapshot makes of it.  Definitions named _mutant are plausible   *)
(* mistakes in the next definition, which the runs must refute.            *)

Nothing == [mac \in {} |-> mac]

(* _build_device_index: empty when the registry cannot be read.            *)
PeripheralIndex ==
  IF failing = "devices" THEN Nothing ELSE Peripherals(registry)

ProxyDeviceIndex ==
  ProxyIndex(IF failing = "scanners" THEN Nothing ELSE [p \in Recorded |-> Node[p]],
             IF failing = "devices" THEN Nothing ELSE ProxyDevices(registry))

Resolved(a) == a \in DOMAIN PeripheralIndex

(* _device_is_alive: alive when nobody can tell.                           *)
Alive(a) ==
  \/ ~Resolved(a)
  \/ failing = "entities"
  \/ IsDeviceAlive(entities[PeripheralIndex[a]])

(* detect_ghost_slots. *)
Ghosts == {s \in held : ~Alive(s[2])}

(* read_fleet_telemetry: the proxies whose slot sensor is found and read.  *)
Reporting ==
  {p \in Proxies \cap DOMAIN ProxyDeviceIndex :
     ProxyDeviceIndex[p] = Node[p] /\ failing # "entities" /\ p \notin mute}

Managed_mutant == IF failing = "devices" THEN {} ELSE DOMAIN Connected(registry)

(* DeviceIndex.managed_addresses. *)
Managed == DOMAIN PeripheralIndex

(* detect_idle_slots. *)
IdleSlots ==
  {s \in idle : s[1] \in Reporting /\ s \in held /\ s[2] \notin Managed}

Flagged_mutant(asked) == failing = "entities" /\ \E a \in asked : Resolved(a)

(* _flag_degraded, called where a lookup of the verdict raises.            *)
Flagged(asked) ==
  \/ failing = "devices"
  \/ failing = "entities" /\ \E a \in asked : Resolved(a)

Holders == {s[2] : s \in held}

(* _snapshot: it asks about every address that holds a slot, and the       *)
(* release tracker about some that held one.                               *)
Snapshot ==
  /\ \E released \in SUBSET Addresses :
       degraded' = (degraded \/ Flagged(Holders \cup released))
  /\ UNCHANGED world

Reload ==
  /\ degraded' = FALSE
  /\ UNCHANGED world

-----------------------------------------------------------------------------
(* Home Assistant and the proxies. *)

Connect(s) ==
  /\ s \notin held
  /\ held' = held \cup {s}
  /\ UNCHANGED <<idle, mute, registry, entities, failing, degraded>>

Release(s) ==
  /\ s \in held
  /\ held' = held \ {s}
  /\ UNCHANGED <<idle, mute, registry, entities, failing, degraded>>

(* The slot sensor of p publishes: it may still list a slot that Home      *)
(* Assistant has released, or not yet one it has just taken.               *)
Measure(p) ==
  /\ \E as \in SUBSET Addresses :
       idle' = {s \in idle : s[1] # p} \cup ({p} \X as)
  /\ mute' = mute \ {p}
  /\ UNCHANGED <<held, registry, entities, failing, degraded>>

(* The sensors of p become unavailable: it measures nothing then, and      *)
(* what they showed before is no reading.                                  *)
Mute(p) ==
  /\ p \notin mute
  /\ idle' = {s \in idle : s[1] # p}
  /\ mute' = mute \cup {p}
  /\ UNCHANGED <<held, registry, entities, failing, degraded>>

ChangeRegistry ==
  /\ registry' \in Registries
  /\ UNCHANGED <<held, idle, mute, entities, failing, degraded>>

ChangeEntities(d) ==
  /\ \E states \in EntityStates : entities' = [entities EXCEPT ![d] = states]
  /\ UNCHANGED <<held, idle, mute, registry, failing, degraded>>

Fail ==
  /\ failing = "none"
  /\ failing' \in Lookups \ {"none"}
  /\ UNCHANGED <<held, idle, mute, registry, entities, degraded>>

Recover ==
  /\ failing # "none"
  /\ failing' = "none"
  /\ UNCHANGED <<held, idle, mute, registry, entities, degraded>>

Next ==
  \/ Snapshot
  \/ Reload
  \/ \E s \in Slots : Connect(s) \/ Release(s)
  \/ \E p \in Proxies : Measure(p) \/ Mute(p)
  \/ ChangeRegistry
  \/ \E d \in Others : ChangeEntities(d)
  \/ Fail
  \/ Recover

Spec == Init /\ [][Next]_vars

-----------------------------------------------------------------------------
TypeOK ==
  /\ held \subseteq Slots
  /\ idle \subseteq Slots
  /\ mute \subseteq Proxies \ {s[1] : s \in idle}
  /\ registry \in Registry
  /\ entities \in [Devices -> {{}} \cup EntityStates]
  /\ failing \in Lookups
  /\ degraded \in BOOLEAN

(* The devices of the registry that may answer for an address all are      *)
(* gone, every entity of theirs being unavailable.                         *)
Gone(a) ==
  /\ Answerable(registry, a) # {}
  /\ \A d \in Answerable(registry, a) : entities[d] # {} /\ entities[d] \subseteq DeadStates

(* A slot is called a ghost only when a device that may answer for its     *)
(* address has entities and all are unavailable; a device that merely has  *)
(* the address on its network has no say, nor one identified by it when    *)
(* another declares it.                                                    *)
GhostsAreGone ==
  \A s \in Ghosts :
    \E d \in Answerable(registry, s[2]) :
      entities[d] # {} /\ entities[d] \subseteq DeadStates

(* A slot held for a device that is gone never goes unsaid: a snapshot,    *)
(* whenever it is taken, reports it, or that its verdicts are degraded.    *)
LeaksAreSaid ==
  \A s \in held :
    Gone(s[2]) => s \in Ghosts \/ degraded \/ Flagged(Holders)

(* Home Assistant's verdict and the idle measurement never both report a   *)
(* slot, whatever raises; and the measurement decides about no address     *)
(* that a device of the registry answers for, as long as that can be read. *)
OneJudge ==
  /\ Ghosts \cap IdleSlots = {}
  /\ failing # "devices" =>
       \A s \in IdleSlots : Answerable(registry, s[2]) = {}
=============================================================================
