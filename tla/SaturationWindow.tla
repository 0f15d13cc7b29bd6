-------------------------- MODULE SaturationWindow --------------------------
(***************************************************************************)
(* How long one proxy had no free slot, over a rolling window.  Only       *)
(* changes are stored, and those from before the window are dropped, all   *)
(* but the one that is still in force where the window begins.  The proxy  *)
(* may leave and come back: nothing is recorded while it is not listed.    *)
(***************************************************************************)
EXTENDS Integers, Sequences, FiniteSets, FiniteSetsExt

CONSTANTS
  Window,   (* window_s, in ticks.                                           *)
  MaxTime   (* Bound on the clock.                                           *)

ASSUME SaturationAssumption ==
  /\ Window \in Nat \ {0}
  /\ MaxTime \in Nat

VARIABLES
  listed,       (* The proxy's allocations are listed, and it has slots.     *)
  full,         (* It has no free slot.                                      *)
  now,          (* The clock.                                                *)
  transitions,  (* _transitions: each change of state, oldest first.         *)
  started,      (* _started, or None.                                        *)
  fresh,        (* No reading was recorded at this moment yet: two snapshots *)
                (* never have the same time.                                 *)
  log           (* History: the last reading, for each tick passed.          *)

proxy == <<listed, full>>
store == <<transitions, started>>
saturationVars == <<proxy, now, store, fresh, log>>

None == -1

Unknown == "unknown"

SaturationInit ==
  /\ listed \in BOOLEAN
  /\ full \in BOOLEAN
  /\ now = 0
  /\ transitions = <<>>
  /\ started = None
  /\ fresh = TRUE
  /\ log = <<>>

-----------------------------------------------------------------------------
(* The world. *)

Leave ==
  /\ listed
  /\ listed' = FALSE
  /\ UNCHANGED <<full, now, store, fresh, log>>

(* A proxy comes back with as many free slots as it happens to have.       *)
Return ==
  /\ ~listed
  /\ listed' = TRUE
  /\ full' \in BOOLEAN
  /\ UNCHANGED <<now, store, fresh, log>>

Allocate ==
  /\ listed
  /\ full' = ~full
  /\ UNCHANGED <<listed, now, store, fresh, log>>

InForce ==
  IF transitions = <<>> THEN Unknown
  ELSE IF transitions[Len(transitions)].saturated THEN "full" ELSE "free"

Tick ==
  /\ now < MaxTime
  /\ now' = now + 1
  /\ fresh' = TRUE
  /\ log' = Append(log, InForce)
  /\ UNCHANGED <<proxy, store>>

-----------------------------------------------------------------------------
(* Recording.  Definitions named _mutant are plausible mistakes in the     *)
(* next definition, which the runs must refute.                            *)

Cutoff == now - Window

Leaving_mutant(q) ==
  CHOOSE n \in 0..Len(q) :
    /\ \A i \in 1..n : q[i].at <= Cutoff
    /\ n < Len(q) => q[n + 1].at > Cutoff

(* _evict: how many entries go, up to the one in force at the cutoff.      *)
Leaving(q) ==
  CHOOSE n \in 0..(Len(q) - 1) :
    /\ \A i \in 1..n : q[i + 1].at <= Cutoff
    /\ n < Len(q) - 1 => q[n + 2].at > Cutoff

Evicted(q) == SubSeq(q, Leaving(q) + 1, Len(q))

Changed(q) == q = <<>> \/ q[Len(q)].saturated # full

Noted(q) == IF Changed(q) THEN Append(q, [at |-> now, saturated |-> full]) ELSE q

(* record, for a listed proxy that has slots.                              *)
Record ==
  /\ listed
  /\ fresh
  /\ fresh' = FALSE
  /\ started' = IF started = None THEN now ELSE started
  /\ transitions' = Evicted(Noted(transitions))
  /\ UNCHANGED <<proxy, now, log>>

(* forget_proxy, or a new coordinator.                                     *)
Forget ==
  /\ transitions' = <<>>
  /\ started' = None
  /\ log' = [t \in 1..Len(log) |-> Unknown]
  /\ UNCHANGED <<proxy, now, fresh>>

SaturationNext ==
  \/ Leave
  \/ Return
  \/ Allocate
  \/ Tick
  \/ Record
  \/ Forget

SaturationSpec == SaturationInit /\ [][SaturationNext]_saturationVars

-----------------------------------------------------------------------------
(* What the sensor publishes. *)

Least(x, y) == IF x < y THEN x ELSE y

Most(x, y) == IF x < y THEN y ELSE x

Observed == IF started = None THEN 0 ELSE Least(now - started, Window)

(* _stretches: a saturated entry, from the cutoff on, to the next entry or *)
(* to now.                                                                 *)
From(i) == Most(transitions[i].at, Cutoff)

Until(i) ==
  Most(From(i), IF i = Len(transitions) THEN now ELSE transitions[i + 1].at)

Stretches_mutant ==
  {i \in DOMAIN transitions : transitions[i].saturated /\ i < Len(transitions)}

Stretches ==
  {i \in DOMAIN transitions :
     transitions[i].saturated /\ (Until(i) > From(i) \/ i = Len(transitions))}

Length(i) == Until(i) - From(i)

(* The sum of their lengths: the ticks of each of them, told apart by it.  *)
Saturated == Cardinality(UNION {{i} \X (1..Length(i)) : i \in Stretches})

Longest == IF Stretches = {} THEN 0 ELSE Max({Length(i) : i \in Stretches})

Episodes == Cardinality(Stretches)

-----------------------------------------------------------------------------
Transition == [at : 0..MaxTime, saturated : BOOLEAN]

SaturationTypeOK ==
  /\ listed \in BOOLEAN
  /\ full \in BOOLEAN
  /\ now \in 0..MaxTime
  /\ transitions \in Seq(Transition)
  /\ started \in {None} \cup 0..now
  /\ fresh \in BOOLEAN
  /\ log \in Seq({Unknown, "full", "free"}) /\ Len(log) = now

(* "keeping the one in force": the entries alternate, in the order of      *)
(* their times, and tell the state of the proxy from the first reading or  *)
(* from the window's start on, whichever is later.                         *)
CoversWindow ==
  /\ started = None <=> transitions = <<>>
  /\ \A i \in 1..(Len(transitions) - 1) :
       /\ transitions[i].at < transitions[i + 1].at
       /\ transitions[i].saturated # transitions[i + 1].saturated
  /\ transitions # <<>> =>
       /\ transitions[Len(transitions)].at <= now
       /\ transitions[1].at = started \/ transitions[1].at <= Cutoff

(* The ticks inside the window; tick t lasts from t - 1 to t.              *)
Span == {t \in 1..now : t > Cutoff}

FullTicks == {t \in Span : log[t] = "full"}

(* The lengths of the runs of ticks spent full.                            *)
Runs ==
  {x[2] - x[1] + 1 : x \in {y \in FullTicks \X FullTicks :
                               y[1] <= y[2] /\ y[1]..y[2] \subseteq FullTicks}}

(* A few stored changes tell as much as every reading ever taken: the time *)
(* without a free slot, its longest stretch, how often the proxy filled up *)
(* and how long there were readings, all of it inside the window, and at   *)
(* any moment between two snapshots.                                       *)
ReadingsAreExact ==
  /\ Observed = Cardinality({t \in Span : log[t] # Unknown})
  /\ Saturated = Cardinality(FullTicks)
  /\ Longest = IF Runs = {} THEN 0 ELSE Max(Runs)
  /\ Episodes = Cardinality({t \in FullTicks : t - 1 \notin FullTicks})
                  + (IF InForce = "full" /\ now \notin FullTicks THEN 1 ELSE 0)
=============================================================================
