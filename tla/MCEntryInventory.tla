--------------------------- MODULE MCEntryInventory ---------------------------
(* EntryInventory for devices that a set-up may know or miss: one device   *)
(* that comes and goes and an optional entity that does ("value"), or a    *)
(* second device beside one that is always reported, so that an inventory  *)
(* may be incomplete without being empty ("second"; the second one is the  *)
(* boiler), or a device beside mere sightings ("sighting").  And what one  *)
(* set-up and its clean-up do to the entity registry (EntityRegistry), for *)
(* cases without steps ("registry").                                       *)
EXTENDS EntryInventory

CONSTANTS d1, d2, Subjects

TwoDevices == {d1, d2}
Boiler == {d2}

VARIABLES subject, case

Entities == INSTANCE EntityRegistry

Allows(P, v) ==
    \/ subject = "value" /\ P = {d1}
    \/ subject = "second" /\ d1 \in P /\ Sighting \notin P /\ ~v
    \/ subject = "sighting" /\ d2 \notin P /\ ~v

Leaks == subject \in {"value", "sighting"}

MCInit ==
    /\ subject \in Subjects
    /\ Init
    /\ IF subject = "registry" THEN Entities!IsRegistryCase(case) /\ present = {} /\ admitted /\ ~value
       ELSE case = <<>> /\ Allows(present, value)

MCNext ==
    /\ subject # "registry"
    /\ Next /\ Allows(present', value') /\ (Leaks \/ leaked' = {}) /\ UNCHANGED <<subject, case>>

MCSpec == MCInit /\ [][MCNext]_<<vars, subject, case>>

\* What is restricted is the gateway only, which is under no fairness.  A case
\* has no steps, so that it is no fair behaviour.
MCFairSpec == MCSpec /\ Fairness

\* The entity registry is right after one reload (EntityRegistry)
RegistrySettles == subject = "registry" => Entities!RegistrySettles(case)
\* A set-up's own clean-up leaves the entity of a merged slot (EntityRegistry)
MergedSlotKeepsConnected == subject = "registry" => Entities!MergedSlotKeepsConnected(case)
=============================================================================
