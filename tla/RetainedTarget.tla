--------------------------- MODULE RetainedTarget ---------------------------
(***************************************************************************)
(* What the semantic coordinator promises for ONE target (a heating zone,  *)
(* or the domestic hot water): its last known good value is held through   *)
(* at most TransientGapLimit consecutive omissions, is marked stale from   *)
(* the first of them, and comes back only when the target is observed.     *)
(*                                                                         *)
(* SemanticRetention implements this specification: see its instances      *)
(* DhwTarget and ZoneTarget.                                               *)
(***************************************************************************)
EXTENDS Integers

CONSTANT TransientGapLimit  \* omissions a held value survives

VARIABLES
    held,   \* is a value held for the target?
    gap,    \* consecutive omissions the held value has survived
    stale   \* is the target marked stale?

target == <<held, gap, stale>>

Init ==
    /\ held \in BOOLEAN
    /\ gap = 0
    /\ stale = FALSE

Observe ==
    /\ held' = TRUE
    /\ gap' = 0
    /\ stale' = FALSE

Omit ==
    /\ held
    /\ gap < TransientGapLimit
    /\ gap' = gap + 1
    /\ stale' = TRUE
    /\ UNCHANGED held

Expire ==
    /\ held
    /\ gap >= TransientGapLimit
    /\ held' = FALSE
    /\ gap' = 0
    /\ stale' = TRUE

\* The config entry is reloaded: nothing is carried over to the new runtime.
Reload ==
    /\ held' \in BOOLEAN
    /\ gap' = 0
    /\ stale' = FALSE

Next == Observe \/ Omit \/ Expire \/ Reload

Spec == Init /\ [][Next]_target
=============================================================================
