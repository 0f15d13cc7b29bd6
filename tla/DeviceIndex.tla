----------------------------- MODULE DeviceIndex -----------------------------
(***************************************************************************)
(* Which device of Home Assistant's registry answers for an address.  A    *)
(* registry is a record of the place of each device in the walk and of the *)
(* addresses it has as identifiers, as Bluetooth connections and as network *)
(* connections.  Identifiers that are no MAC never enter an index and are  *)
(* left out.                                                               *)
(***************************************************************************)
EXTENDS Naturals, FiniteSets

CONSTANTS
  Devices,   (* Devices in the registry.                                   *)
  Macs,      (* Addresses they may have.                                   *)
  DeadStates (* States that tell of a dead entity.                         *)

ASSUME DevicesAssumption == IsFiniteSet(Devices)

Claims == [Devices -> SUBSET Macs]

Registry == [place : [Devices -> Nat],
             identifiers : Claims, bluetooth : Claims, network : Claims]

-----------------------------------------------------------------------------
Claimants(claims, mac) == {d \in Devices : mac \in claims[d]}

Claimed(claims) == UNION {claims[d] : d \in Devices}

Earliest(r, ds) == CHOOSE d \in ds : \A e \in ds : r.place[d] <= r.place[e]
Latest(r, ds) == CHOOSE d \in ds : \A e \in ds : r.place[d] >= r.place[e]

(* The first pass keeps the first device it meets, ...                     *)
Identified(r) ==
  [mac \in Claimed(r.identifiers) |-> Earliest(r, Claimants(r.identifiers, mac))]

(* ... the second and the third pass overwrite.                            *)
Connected(r) ==
  [mac \in Claimed(r.bluetooth) |-> Latest(r, Claimants(r.bluetooth, mac))]
Networked(r) ==
  [mac \in Claimed(r.network) |-> Latest(r, Claimants(r.network, mac))]

(* The entries of f, and those of g for the addresses f has not.           *)
Over(f, g) ==
  [mac \in DOMAIN f \cup DOMAIN g |-> IF mac \in DOMAIN f THEN f[mac] ELSE g[mac]]

Peripherals_mutant(r) == Over(Networked(r), Over(Connected(r), Identified(r)))

(* build_device_index: who is at the other end of a Bluetooth link.        *)
Peripherals(r) == Over(Connected(r), Identified(r))

(* build_device_index: which device is a proxy, by its addresses ...       *)
ProxyDevices(r) == Over(Networked(r), Over(Connected(r), Identified(r)))

(* ... and build_proxy_index: by Home Assistant's own records first.       *)
ProxyIndex(records, fallback) == Over(records, fallback)

(* is_device_alive: dead only when every entity with a state says so.      *)
IsDeviceAlive(states) == states = {} \/ ~(states \subseteq DeadStates)

-----------------------------------------------------------------------------
(* Reference, free of the order of the walk: the devices that may answer   *)
(* for an address are those that declare it, or else those identified by   *)
(* it.                                                                     *)
Answerable(r, mac) ==
  IF Claimants(r.bluetooth, mac) # {} THEN Claimants(r.bluetooth, mac)
  ELSE Claimants(r.identifiers, mac)
=============================================================================
