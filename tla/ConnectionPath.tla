--------------------------- MODULE ConnectionPath ---------------------------
(***************************************************************************)
(* The route each connection took: how well the proxy that holds a slot    *)
(* heard the device, and which proxy heard it clearly better.  A snapshot  *)
(* reads it when it first meets the slot, from advertisements that stop    *)
(* with the connection and that scanners forget one by one.  Links are     *)
(* lost and their slots left over; slots are released and taken again,     *)
(* seen by a snapshot or not; readings fail; reloads start anew.           *)
(***************************************************************************)
EXTENDS Integers, FiniteSets

CONSTANTS
  Proxies,         (* Proxies with connection slots, in order of address.  *)
  Accepting,       (* Those with a slot left for these devices.            *)
  Addresses,       (* Addresses of the devices that connect.               *)
  Rssi,            (* Signal strengths, in dBm; -127 and below is none.    *)
  ClearlyStronger  (* CLEARLY_STRONGER_DB.                                 *)

ASSUME PathAssumption ==
  /\ Proxies \subseteq Nat \ {0}
  /\ IsFiniteSet(Proxies)
  /\ Accepting \subseteq Proxies
  /\ Rssi \subseteq {level \in Int : level > -127}
  /\ ClearlyStronger \in Nat \ {0}

VARIABLES
  held,      (* The slots: pairs of a proxy and the address it holds.      *)
  linked,    (* The proxy each device is really connected to.              *)
  signal,    (* How each proxy last heard each device.                     *)
  forgotten, (* Pairs whose reading the proxy's scanner dropped since.     *)
  failing,   (* Whether reading the signal raises.                         *)
  paths,     (* PathTracker._paths: a route, or NoPath, per known slot.    *)
  moved      (* History: slots, held or still known to the tracker, whose  *)
             (* device advertised again since it was linked through them.  *)

radio == <<linked, signal, forgotten>>
pathVars == <<held, radio, failing, paths, moved>>

Slots == Proxies \X Addresses

NoSource == 0
NoRssi == -127
NoPath == [rssi |-> NoRssi, stronger |-> NoSource, full |-> FALSE]
Routes == [rssi : Rssi, stronger : Proxies \cup {NoSource}, full : BOOLEAN]

PathInit ==
  /\ held = {}
  /\ linked = [a \in Addresses |-> NoSource]
  /\ signal = [s \in Slots |-> NoRssi]
  /\ forgotten = {}
  /\ failing = FALSE
  /\ paths = [s \in {} |-> NoPath]
  /\ moved = {}

-----------------------------------------------------------------------------
(* The tracker.  Definitions named _mutant are plausible mistakes in the   *)
(* next definition, which the runs must refute.                            *)

(* current_signal_by_proxy: what is still known of how a was heard.        *)
Heard(a) ==
  LET known == {p \in Proxies : signal[<<p, a>>] # NoRssi /\ <<p, a>> \notin forgotten}
  IN [p \in known |-> signal[<<p, a>>]]

(* Who of others heard it best; a tie goes to the greater address.         *)
Best(others, readings) ==
  CHOOSE q \in others : \A o \in others :
    readings[o] < readings[q] \/ (readings[o] = readings[q] /\ o <= q)

Route(rssi, others, readings, full) ==
  LET clear == {q \in others : readings[q] - rssi >= ClearlyStronger}
      named == IF clear = {} THEN NoSource ELSE Best(others, readings)
  IN [rssi |-> rssi, stronger |-> named, full |-> named \in full]

JudgePath_mutant(p, readings, full) ==
  Route(IF p \in DOMAIN readings THEN readings[p] ELSE NoRssi,
        DOMAIN readings \ {p}, readings, full)

(* judge_path: the route through p, and the proxy that heard it clearly    *)
(* better.                                                                 *)
JudgePath(p, readings, full) ==
  IF p \notin DOMAIN readings THEN NoPath
  ELSE Route(readings[p], DOMAIN readings \ {p}, readings, full)

(* PathTracker._read: a reading that raises is none.                       *)
ReadPath(s, full) ==
  IF failing THEN NoPath ELSE JudgePath(s[1], Heard(s[2]), full)

Known_mutant == held \cup DOMAIN paths
Known == held

(* Slots that are not read again, nothing read being an answer too.        *)
Settled == DOMAIN paths

(* PathTracker.update: slots no longer held are dropped, new ones read.    *)
Updated(full) ==
  [s \in Known |-> IF s \in Settled THEN paths[s] ELSE ReadPath(s, full)]

(* The routes a snapshot publishes beside the slots it lists.              *)
Published == {s \in held \cap DOMAIN paths : paths[s] # NoPath}

(* _with_paths, with the proxies that have no free slot as they are then.  *)
Snapshot ==
  /\ \E full \in SUBSET Proxies : paths' = Updated(full)
  /\ moved' = moved \cap held
  /\ UNCHANGED <<held, radio, failing>>

(* A reload or a restart: a new tracker. *)
Reload ==
  /\ paths' = [s \in {} |-> NoPath]
  /\ moved' = moved \cap held
  /\ UNCHANGED <<held, radio, failing>>

-----------------------------------------------------------------------------
(* The radio.  A device that is connected is silent.                       *)

Advertise(s) ==
  /\ linked[s[2]] = NoSource
  /\ \E level \in Rssi : signal' = [signal EXCEPT ![s] = level]
  /\ forgotten' = forgotten \ {s}
  /\ moved' = moved \cup {t \in held \cup DOMAIN paths : t[2] = s[2]}
  /\ UNCHANGED <<held, linked, failing, paths>>

(* A scanner forgets what it has not heard for some minutes.               *)
Forget(s) ==
  /\ signal[s] # NoRssi
  /\ s \notin forgotten
  /\ forgotten' = forgotten \cup {s}
  /\ UNCHANGED <<held, linked, signal, failing, paths, moved>>

Connect(s) ==
  /\ s[1] \in Accepting
  /\ linked[s[2]] = NoSource
  /\ s \notin held
  /\ held' = held \cup {s}
  /\ linked' = [linked EXCEPT ![s[2]] = s[1]]
  /\ moved' = IF s \in DOMAIN paths THEN moved ELSE moved \ {s}
  /\ UNCHANGED <<signal, forgotten, failing, paths>>

(* The link is lost, and its slot stays held.                              *)
Lose(a) ==
  /\ linked[a] # NoSource
  /\ linked' = [linked EXCEPT ![a] = NoSource]
  /\ UNCHANGED <<held, signal, forgotten, failing, paths, moved>>

Release(s) ==
  /\ s \in held
  /\ held' = held \ {s}
  /\ linked' = [a \in Addresses |-> IF s = <<linked[a], a>> THEN NoSource ELSE linked[a]]
  /\ UNCHANGED <<signal, forgotten, failing, paths, moved>>

Break ==
  /\ failing' = ~failing
  /\ UNCHANGED <<held, radio, paths, moved>>

PathNext ==
  \/ Snapshot
  \/ Reload
  \/ \E s \in Slots : Advertise(s) \/ Forget(s) \/ Connect(s) \/ Release(s)
  \/ \E a \in Addresses : Lose(a)
  \/ Break

PathSpec == PathInit /\ [][PathNext]_pathVars

-----------------------------------------------------------------------------
PathTypeOK ==
  /\ held \in SUBSET Slots
  /\ linked \in [Addresses -> Proxies \cup {NoSource}]
  /\ signal \in [Slots -> Rssi \cup {NoRssi}]
  /\ forgotten \in SUBSET Slots
  /\ failing \in BOOLEAN
  /\ DOMAIN paths \in SUBSET Slots
  /\ \A s \in DOMAIN paths : paths[s] \in Routes \cup {NoPath}
  /\ moved \in SUBSET Slots

(* A route tells of the connection that holds the slot, as it was heard    *)
(* before the device fell silent: the strength is that of the holder, the  *)
(* proxy that is named was clearly stronger, and one that was stronger     *)
(* still is left out only if its reading was forgotten.  Slots whose       *)
(* device advertised anew unseen are excepted: a link that was lost and    *)
(* its slot left over, or a slot released and taken again between two      *)
(* snapshots.                                                              *)
RouteOfItsConnection ==
  \A s \in Published \ moved :
    LET route == paths[s]
        bar == IF route.stronger = NoSource THEN route.rssi + ClearlyStronger - 1
               ELSE signal[<<route.stronger, s[2]>>]
    IN /\ route.rssi = signal[s]
       /\ route.stronger # NoSource => bar - route.rssi >= ClearlyStronger
       /\ \A p \in Proxies \ {s[1]} : signal[<<p, s[2]>>] > bar => <<p, s[2]>> \in forgotten
=============================================================================
