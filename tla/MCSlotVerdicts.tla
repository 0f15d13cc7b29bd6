--------------------------- MODULE MCSlotVerdicts ---------------------------
(* SlotVerdicts for one address and two proxies: one is known by its       *)
(* scanner entry, and to the registry only through BlueSight's own device; *)
(* the other is an older one, whose network address is its source.  Two    *)
(* more devices claim the address in every way and order.                  *)
EXTENDS SlotVerdicts, TLC

CONSTANTS d1, d2, n1, n2, own, p1, p2, a1

MCDevices == {d1, d2, n1, n2, own}
MCNode == (p1 :> n1) @@ (p2 :> n2)

Ways == {"identifiers", "bluetooth", "network", "none"}

Claiming(way, ways, others) ==
  [d \in MCDevices |->
     IF d \in {d1, d2} THEN IF ways[d] = way THEN {a1} ELSE {} ELSE others[d]]

None == [d \in MCDevices |-> {}]

MCRegistries ==
  {[place |-> [d \in MCDevices |-> CASE d = first -> 1 [] d \in {d1, d2} \ {first} -> 2
                                     [] d = own -> 3 [] d = n1 -> 4 [] d = n2 -> 5],
    identifiers |-> Claiming("identifiers", ways, [None EXCEPT ![own] = {p1, p2}]),
    bluetooth |-> Claiming("bluetooth", ways, None),
    network |-> Claiming("network", ways, [None EXCEPT ![n2] = {p2}])] :
   ways \in [{d1, d2} -> Ways], first \in {d1, d2}}

MCSymmetry == Permutations({d1, d2})
=============================================================================
