------------------------------ MODULE BondList ------------------------------
(***************************************************************************)
(* One proxy's bonds, from its store to an accusation.  The firmware tells *)
(* its list in a text sensor, whenever it can be read; Home Assistant      *)
(* shows the last text it was sent, for a while after the link is dead; a  *)
(* snapshot accuses the addresses that failed to pair too often and are    *)
(* not on the list.  Reboots, reflashed firmware, lost links, an           *)
(* unreadable store and restarts of Home Assistant come in between.        *)
(***************************************************************************)
EXTENDS Naturals, FiniteSets

CONSTANTS
  Peers,        (* Addresses that may have a bond on this proxy.             *)
  MaxReported   (* MAX_REPORTED_BONDS.                                       *)

ASSUME BondAssumption == MaxReported \in Nat

VARIABLES
  store,      (* Addresses with a bond.                                    *)
  stackUp,    (* Whether Bluedroid is enabled since the boot.              *)
  foreign,    (* Whether the firmware writes fields nobody can parse.      *)
  published,  (* bonds_sensor_: what the firmware last published.          *)
  link,       (* "up", "dead" when Home Assistant has not noticed, "down". *)
  shown,      (* What Home Assistant was last sent.                        *)
  refused,    (* Addresses whose failures in the window reach the          *)
              (* threshold.                                                *)
  accused,    (* Addresses with a BOND_LOST incident.                      *)
  lackedP,    (* History: addresses that had no bond at some moment since  *)
              (* the list last published was read.                         *)
  lackedS     (* History: the same for the list last sent.                 *)

firmware == <<store, stackUp, foreign, published>>
entity == <<link, shown>>
integration == <<refused, accused>>
history == <<lackedP, lackedS>>
bondVars == <<firmware, entity, integration, history>>

(* The states of a sensor: without a reading, or a list of addresses, none *)
(* of which can be parsed when it is garbled.                              *)
SensorState == [kind : {"unknown", "unavailable", "garbled", "list"},
                bonds : SUBSET Peers]

Without(kind) == [kind |-> kind, bonds |-> {}]

BondInit ==
  /\ store \in SUBSET Peers
  /\ stackUp = FALSE
  /\ foreign \in BOOLEAN
  /\ published = Without("unknown")
  /\ link = "down"
  /\ shown = Without("unknown")
  /\ refused = {}
  /\ accused = {}
  /\ lackedP = Peers
  /\ lackedS = Peers

-----------------------------------------------------------------------------
(* The firmware.  Definitions named _mutant are plausible mistakes in the  *)
(* next definition, which the runs must refute.                            *)

Boot_mutant == [kind |-> "list", bonds |-> {}]

(* setup publishes no list before the store can be read.                   *)
Boot == Without("unknown")

(* A reboot, perhaps into other firmware; the store survives it.           *)
Reboot ==
  /\ stackUp' = FALSE
  /\ foreign' \in BOOLEAN
  /\ published' = Boot
  /\ link' = IF link = "up" THEN "dead" ELSE link
  /\ UNCHANGED <<store, shown, integration, history>>

StackUp ==
  /\ ~stackUp
  /\ stackUp' = TRUE
  /\ UNCHANGED <<store, foreign, published, entity, integration, history>>

(* The list as a reader takes it: none if no field parses, unless it has   *)
(* none.                                                                   *)
Text ==
  IF foreign /\ store # {} THEN Without("garbled")
  ELSE [kind |-> "list", bonds |-> store]

Reportable_mutant == stackUp /\ store # {} /\ Cardinality(store) <= MaxReported

(* publish_bonds_ has something to tell.                                   *)
Reportable == stackUp /\ Cardinality(store) <= MaxReported

Tell_mutant == published' = IF published = Boot THEN Text ELSE published

(* publish_if_changed_. *)
Tell == published' = Text

(* publish_bonds_, at the end of the boot's delay and at every update.     *)
Publish ==
  /\ Reportable
  /\ Tell
  /\ lackedP' = Peers \ store
  /\ IF link = "up"
     THEN shown' = published' /\ lackedS' = lackedP'
     ELSE UNCHANGED <<shown, lackedS>>
  /\ UNCHANGED <<store, stackUp, foreign, link, integration>>

Bond(a) ==
  /\ store' = store \cup {a}
  /\ UNCHANGED <<stackUp, foreign, published, entity, integration, history>>

Unbond(a) ==
  /\ store' = store \ {a}
  /\ lackedP' = lackedP \cup {a}
  /\ lackedS' = lackedS \cup {a}
  /\ UNCHANGED <<stackUp, foreign, published, entity, integration>>

-----------------------------------------------------------------------------
(* The link to Home Assistant. *)

Lose ==
  /\ link = "up"
  /\ link' = "dead"
  /\ UNCHANGED <<firmware, shown, integration, history>>

Notice ==
  /\ link = "dead"
  /\ link' = "down"
  /\ UNCHANGED <<firmware, shown, integration, history>>

(* A new connection brings what the sensor has.                            *)
Connect ==
  /\ link = "down"
  /\ link' = "up"
  /\ shown' = published
  /\ lackedS' = lackedP
  /\ UNCHANGED <<firmware, integration, lackedP>>

-----------------------------------------------------------------------------
(* The integration. *)

(* The states of the sensors with the name of the list: one left behind by *)
(* a renaming is unavailable for good, and the live one with the link.     *)
States == {Without("unavailable"), IF link = "down" THEN Without("unavailable") ELSE shown}

Readings_mutant == {s.bonds : s \in States}

(* parse_addresses, and _read: what there is to read among the states.     *)
Readings == {s.bonds : s \in {t \in States : t.kind = "list"}}

Suspects_mutant(list) == refused

(* detect_bond_lost, with a list.                                          *)
Suspects(list) == refused \ list

Verdict == UNION {Suspects(list) : list \in Readings}

(* read_proxy_telemetry and detect_bond_lost, in a snapshot.               *)
Snapshot ==
  /\ accused' = Verdict
  /\ UNCHANGED <<firmware, entity, refused, history>>

(* Enough failures of a inside the window.                                 *)
Refuse(a) ==
  /\ stackUp
  /\ link = "up"
  /\ refused' = refused \cup {a}
  /\ UNCHANGED <<firmware, entity, accused, history>>

Age(a) ==
  /\ refused' = refused \ {a}
  /\ UNCHANGED <<firmware, entity, accused, history>>

(* A reload of the integration, or a restart of Home Assistant, which      *)
(* connects anew.                                                          *)
Restart ==
  /\ refused' = {}
  /\ accused' = {}
  /\ link' \in {link, "down"}
  /\ UNCHANGED <<firmware, shown, history>>

-----------------------------------------------------------------------------
BondNext ==
  \/ Reboot \/ StackUp \/ Publish
  \/ Lose \/ Notice \/ Connect
  \/ Snapshot \/ Restart
  \/ \E a \in Peers : Bond(a) \/ Unbond(a) \/ Refuse(a) \/ Age(a)

(* Boots complete, updates and polls come round, a dead link is noticed    *)
(* and made anew.  An update may fail to read the store, but not all of    *)
(* them to the end of time.                                                *)
Fairness ==
  /\ WF_bondVars(StackUp)
  /\ WF_bondVars(Publish)
  /\ WF_bondVars(Notice)
  /\ WF_bondVars(Connect)
  /\ WF_bondVars(Snapshot)

BondSpec == BondInit /\ [][BondNext]_bondVars
FairBondSpec == BondSpec /\ Fairness

-----------------------------------------------------------------------------
BondTypeOK ==
  /\ store \in SUBSET Peers
  /\ stackUp \in BOOLEAN
  /\ foreign \in BOOLEAN
  /\ published \in SensorState
  /\ link \in {"up", "dead", "down"}
  /\ shown \in SensorState
  /\ refused \in SUBSET Peers
  /\ accused \in SUBSET Peers
  /\ lackedP \in SUBSET Peers
  /\ lackedS \in SUBSET Peers

(* A snapshot, whenever it is taken, accuses an address of having lost its *)
(* bond only when it really had none, at some moment since the list that   *)
(* Home Assistant shows was read: a store that cannot be read, a list too  *)
(* long to tell, a text nobody can parse, a reboot and an entity left      *)
(* behind accuse nobody.                                                   *)
AccusedLackedBond == Verdict \subseteq lackedS

Fits == Cardinality(store) <= MaxReported

(* Once an address is paired again for good, its accusation ends for good, *)
(* whatever reboots and lost links come in between.                        *)
AccusationEnds ==
  \A a \in Peers :
    <>[](a \in store /\ Fits) => <>[](a \notin accused)

(* A bond that stays lost is found: while the proxy stays connected, tells *)
(* lists that can be parsed, and the address keeps failing to pair, it     *)
(* comes to be accused for good.                                           *)
LossIsFound ==
  \A a \in Peers :
    <>[](a \notin store /\ Fits /\ ~foreign /\ link = "up" /\ a \in refused)
      => <>[](a \in accused)
=============================================================================
