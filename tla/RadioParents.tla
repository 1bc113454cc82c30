----------------------------- MODULE RadioParents -----------------------------
(***************************************************************************)
(* The retained radio inventory (HelianthusRadioDeviceCoordinator), the    *)
(* radio that a zone hangs under (zone_parent.py), and what the config     *)
(* entry does with both: bindings kept over restarts, reloads when the     *)
(* parents changed, and the registry entries of radio slots                *)
(* (entry_setup.py).  The gateway lists slots; a listed slot is active if  *)
(* it is connected or, in the inventory group 0x0C, carries identity       *)
(* evidence.  A slot that is not active is the same to the code as one     *)
(* that is not listed, except for readings that no property is about.      *)
(***************************************************************************)
EXTENDS Integers, FiniteSets

CONSTANTS Zones, Slots,
          Group,       \* slot -> "09", "0a" (remote controls) or "0c"
          Remote,      \* slot -> remote_control_address
          Rank,        \* slot -> place in the order of candidates
          Assigned,    \* slot -> the zone of its zone_assignment, or NoZone
          NoZone, Regulator, None,
          StaleGrace,  \* _RADIO_STALE_GRACE_CYCLES
          MaxChanges   \* bound: changes at the gateway, partial events, restarts

RadioConstants ==
    /\ Group \in [Slots -> {"09", "0a", "0c"}] /\ Remote \in [Slots -> Nat]
    /\ Rank \in [Slots -> Nat] /\ Assigned \in [Slots -> Zones \cup {NoZone}]
    /\ {Regulator, None} \cap Slots = {} /\ Regulator # None /\ NoZone \notin Zones
    /\ StaleGrace \in Nat /\ MaxChanges \in Nat

Mappings == 0 .. 4      \* room_temperature_zone_mapping; 0 stands for none too
RadioMappings == 1 .. 4

VARIABLES
    active,    \* gateway: slots that are active
    mapping,   \* gateway: the mapping each zone is configured with
    age,       \* radio coordinator: stale cycles of a slot; -1: it has none
    zones,     \* semantic coordinator: mapping of each zone
    bindings,  \* zone_parent_bindings_v1, in the entry's data and in memory
    baseline,  \* zone_parent_device_ids of the set-up; None: unresolved
    known,     \* known_radio_bus_keys of the set-up
    registry,  \* device of each zone's climate entity; None: no entity
    entries,   \* radio slots with entities in the registry
    pending,   \* a reload is scheduled
    changes

gateway == <<active, mapping>>
setup == <<baseline, known, registry, entries>>
vars == <<gateway, age, zones, bindings, setup, pending, changes>>

NoBinding == [slot |-> None, mapping |-> 0]

-----------------------------------------------------------------------------
(* The radio a zone hangs under *)

Listed(ages) == {s \in Slots : ages[s] >= 0}

\* The place of a slot among the choices of select_zone_radio_candidate for a
\* zone: the remote control that the mapping means, assigned to the zone, then
\* connected, then carried over as stale; for mapping 1 then any connected one
\* of its group.  NotChosen: the code never takes it
NotChosen == 9

Choice(z, m, ages, s) ==
    LET meant == IF m = 1 THEN Remote[s] = 0 ELSE Remote[s] = m - 1
    IN  IF Group[s] # (IF m = 1 THEN "09" ELSE "0a") \/ ages[s] = -1 THEN NotChosen
        ELSE IF meant THEN IF ages[s] > 0 THEN 3 ELSE IF Assigned[s] = z THEN 1 ELSE 2
        ELSE IF ages[s] > 0 \/ m # 1 THEN NotChosen
        ELSE IF Assigned[s] = z THEN 4 ELSE 5

\* select_zone_radio_candidate: the first choice, and in it the first candidate
SelectZoneRadio(z, m, ages) ==
    LET chosen == {s \in Slots : Choice(z, m, ages, s) # NotChosen}
        before(s, t) == \/ Choice(z, m, ages, s) < Choice(z, m, ages, t)
                        \/ Choice(z, m, ages, s) = Choice(z, m, ages, t) /\ Rank[s] <= Rank[t]
    IN  IF chosen = {} THEN None ELSE CHOOSE s \in chosen : \A t \in chosen : before(s, t)

\* zone_via_device
LiveParent(z, m, ages) ==
    IF m \in RadioMappings THEN SelectZoneRadio(z, m, ages) ELSE Regulator

\* Mutant: a zone whose radio is silent is put under the regulator
ParentOrRegulator(z, m, ages, retained) ==
    LET live == LiveParent(z, m, ages)
    IN  IF live = None THEN Regulator ELSE live

\* build_zone_parent_device_ids with the retained parents: the inventory never
\* counts as complete, so they may always stand in
Parent(z, m, ages, retained) ==
    LET live == LiveParent(z, m, ages)
    IN  IF live = None /\ retained[z].mapping = m THEN retained[z].slot ELSE live

Parents(config, ages, retained) == [z \in Zones |-> Parent(z, config[z], ages, retained)]

\* adopt_current_live_parent_bindings
Adopted(config, ages, retained) ==
    [z \in Zones |->
        LET live == LiveParent(z, config[z], ages)
        IN  IF config[z] \in RadioMappings /\ live # None
            THEN [slot |-> live, mapping |-> config[z]]
            ELSE retained[z]]

\* resolve_retained_parent_bindings: a stored binding counts if the registry
\* has the zone under the same device
Resolved == [z \in Zones |-> IF registry[z] = bindings[z].slot THEN bindings[z] ELSE NoBinding]

Unresolved(parents) == {z \in Zones : parents[z] = None}

ShouldReload(base, current) ==
    IF Unresolved(current) # {}
    THEN \/ Unresolved(base) = {}
         \/ Unresolved(current) # Unresolved(base)
         \/ current # base
    ELSE current # base

-----------------------------------------------------------------------------
(* The radio inventory *)

\* _materialize_snapshot: an active slot is fresh; every other known slot ages
\* by one and is dropped after the grace
Materialize(listed) ==
    [s \in Slots |-> IF s \in listed THEN 0
                     ELSE IF age[s] >= 0 /\ age[s] < StaleGrace THEN age[s] + 1
                     ELSE -1]

\* exportable_radio_bus_keys: what was connected once keeps its identity
Exportable(ages) == Listed(ages)

\* Mutant: a new radio asks for no reload
HandledParentsOnly(config, ages) ==
    \E retained \in {Adopted(config, ages, bindings)} :
    \E current \in {Parents(config, ages, retained)} :
        /\ bindings' = retained
        /\ pending' = (pending \/ ShouldReload(baseline, current))

\* handle_radio_update and handle_semantic_update: both reload when the parents
\* changed or a radio is new
Handled(config, ages) ==
    \E retained \in {Adopted(config, ages, bindings)} :
    \E current \in {Parents(config, ages, retained)} :
        /\ bindings' = retained
        /\ pending' = (pending \/ ShouldReload(baseline, current)
                               \/ Exportable(ages) \ known # {})

RadioSnapshot(listed) ==
    \E ages \in {Materialize(listed)} :
        /\ age' = ages
        /\ Handled(zones, ages)
        /\ UNCHANGED <<gateway, zones, setup>>

RadioPoll == RadioSnapshot(active) /\ UNCHANGED changes

Change == changes < MaxChanges /\ changes' = changes + 1

\* A subscription event is taken for a whole snapshot, whatever it lists
RadioEvent ==
    /\ Change
    /\ \E listed \in SUBSET active : listed # active /\ RadioSnapshot(listed)

\* A poll that is answered without a list of devices, or that a gateway without
\* the radio inventory refuses, forgets every slot at once
RadioForgotten ==
    /\ Change
    /\ age' = [s \in Slots |-> -1]
    /\ Handled(zones, age')
    /\ UNCHANGED <<gateway, zones, setup>>

SemanticPoll ==
    /\ zones' = mapping
    /\ Handled(mapping, age)
    /\ UNCHANGED <<gateway, age, setup, changes>>

-----------------------------------------------------------------------------
(* Set-up *)

Fresh == [s \in Slots |-> IF s \in active THEN 0 ELSE -1]

\* async_setup_entry as far as radios and zones are concerned: both coordinators
\* start empty and poll; zones without a parent get no entity and keep what the
\* registry has; inventory slots that were not seen are removed from the registry
SetUp ==
    \E fresh \in {Fresh}, retained \in {Adopted(mapping, Fresh, Resolved)} :
    \E parents \in {Parents(mapping, fresh, retained)} :
        /\ age' = fresh
        /\ zones' = mapping
        /\ bindings' = retained
        /\ baseline' = parents
        /\ known' = active
        /\ registry' = [z \in Zones |-> IF parents[z] = None THEN registry[z] ELSE parents[z]]
        /\ entries' = {s \in entries \cup active : Group[s] = "0c" => s \in active}
        /\ pending' = FALSE
        /\ UNCHANGED gateway

Reload == pending /\ SetUp /\ UNCHANGED changes

\* Home Assistant is started again
Restart == Change /\ SetUp

GatewayChange ==
    /\ Change
    /\ \/ \E s \in Slots : active' = (active \ {s}) \cup ({s} \ active) /\ UNCHANGED mapping
       \/ \E z \in Zones, m \in {0, 1, 2} : mapping' = [mapping EXCEPT ![z] = m] /\ UNCHANGED active
    /\ UNCHANGED <<age, zones, bindings, setup, pending>>

-----------------------------------------------------------------------------
\* The entry was set up for the first time
Init ==
    /\ active \in SUBSET Slots
    /\ mapping \in [Zones -> {0, 1, 2}]
    /\ age = Fresh
    /\ zones = mapping
    /\ bindings = Adopted(mapping, age, [z \in Zones |-> NoBinding])
    /\ baseline = Parents(mapping, age, bindings)
    /\ known = active
    /\ registry = baseline
    /\ entries = active
    /\ pending = FALSE
    /\ changes = 0

Next ==
    \/ RadioPoll \/ SemanticPoll \/ RadioEvent \/ RadioForgotten
    \/ Reload \/ Restart \/ GatewayChange

Spec == Init /\ [][Next]_vars

\* Both coordinators poll on their own timers; a scheduled reload is a task
FairSpec == Spec /\ WF_vars(RadioPoll) /\ WF_vars(SemanticPoll) /\ WF_vars(Reload)

-----------------------------------------------------------------------------
(* Properties *)

TypeOK ==
    /\ active \subseteq Slots /\ known \subseteq Slots /\ entries \subseteq Slots
    /\ mapping \in [Zones -> Mappings] /\ zones \in [Zones -> Mappings]
    /\ age \in [Slots -> -1 .. StaleGrace]
    /\ bindings \in [Zones -> [slot : Slots \cup {None}, mapping : Mappings]]
    /\ baseline \in [Zones -> Slots \cup {Regulator, None}]
    /\ registry \in [Zones -> Slots \cup {Regulator, None}]
    /\ pending \in BOOLEAN

(* A zone leaves the radio it hangs under only for one that was heard in   *)
(* the same set-up, or for the regulator after its mapping was taken away: *)
(* silence, partial events, restarts and lost radios never move it         *)
(* (zone_parent.py:286-333, entry_setup.py:1455-1480).                     *)
SilenceKeepsParents ==
    [][\A z \in Zones : registry'[z] # registry[z] =>
          IF registry'[z] = Regulator THEN zones'[z] \notin RadioMappings
          ELSE age'[registry'[z]] = 0]_vars

(* When the gateway has stopped changing, reloads stop, every zone whose   *)
(* radio is heard hangs under it, every other zone with a mapping under    *)
(* the radio that its binding names, and every active radio has its        *)
(* entities (entry_setup.py:1609-1668, zone_parent.py:336-358).            *)
ParentsSettle ==
    <>[](/\ ~pending
         /\ \A z \in Zones :
               LET live == LiveParent(z, mapping[z], Fresh)
               IN  /\ live # None => registry[z] = live
                   /\ live = None /\ baseline[z] # None => registry[z] = baseline[z]
         /\ active \subseteq entries)
=============================================================================
