---------------------------- MODULE EntityRegistry ----------------------------
(***************************************************************************)
(* Which entities a set-up creates (sensor_setup.py, binary_sensor.py,     *)
(* number.py, select.py, text.py, date.py, calendar.py, climate.py), and   *)
(* which of them the registry clean-up of the same entry removes, disables *)
(* and enables again (entry_setup.py).  The two read the same data through *)
(* different tables, at different moments: the tables of known devices are *)
(* made when the set-up begins, the platforms read what the coordinators   *)
(* hold when they are set up, and a clean-up what they hold then.          *)
(*                                                                         *)
(* An entity is <<family, instance>>; one member stands for the members of *)
(* a table of fields that are created under one condition.  Data is a      *)
(* record of what the coordinators hold; data.values are the entities      *)
(* whose own field is not null in it.                                      *)
(***************************************************************************)
EXTENDS Integers

Addresses == {"module", "plain"}    \* bus addresses, as a radio slot's class names them
BusKinds == {"absent", "sighting", "boiler", "regulator", "vr71", "other"}
Slots == {"remote", "module"}       \* a slot of group 09 or 0a, and one of 0c
RadioKeys == {"reception_strength", "room_temperature_c", "device_class_address"}
Circuits == {0, 1}
Cylinders == {0, 1}

-----------------------------------------------------------------------------
(* What set-up derives from the data it begins with *)

\* resolved_bus_device_key: a mere sighting has no key
BusKeys(d) == {<<d.bus[a], a>> : a \in {a \in Addresses : d.bus[a] \notin {"absent", "sighting"}}}
HasRole(d, kind) == \E key \in BusKeys(d) : key[1] = kind

\* should_export_radio_device, exportable_radio_bus_keys
Exported(d) ==
    {s \in Slots : LET r == d.radio[s] IN
        /\ r.listed
        /\ r.identity \/ r.class \in {"room", "module"} \/ (s # "module" /\ r.connected)}

\* b524_merge_targets: inventory slots that describe a device on the bus
Merged(d) == {s \in Exported(d) \cap {"module"} : \E key \in BusKeys(d) : key[2] = d.radio[s].class}

Known(d) == [bus |-> BusKeys(d), radio |-> Exported(d), merged |-> Merged(d),
             regulator |-> HasRole(d, "regulator"), boiler |-> HasRole(d, "boiler"),
             vr71 |-> HasRole(d, "vr71"),
             resolved |-> d.zone.listed /\ (IF d.zone.mapping THEN d.zone.resolved
                                            ELSE HasRole(d, "regulator")),
             circuits |-> d.circuits, mode |-> d.mode, cylinders |-> d.cylinders,
             zone |-> d.zone.listed, dhw |-> d.dhw]

-----------------------------------------------------------------------------
(* What the platforms create *)

When(b, entities) == IF b THEN entities ELSE {}
Each(families, instances) == families \X instances

BusEntities(d) == {<<"address", key>> : key \in BusKeys(d)}

\* Mutant: the repair code gets its entity when there is none to show
StatusEntitiesSwapped(d) ==
    {<<"daemon_status", 0>>, <<"adapter_status", 0>>}
        \cup When(~d.repair, {<<"repair_code", 0>>})

\* The optional field of DAEMON_STATUS_FIELDS
StatusEntities(d) ==
    {<<"daemon_status", 0>>, <<"adapter_status", 0>>}
        \cup When(d.repair, {<<"repair_code", 0>>})

\* Sensors, binary sensors, numbers and texts of the boiler on the bus
BoilerEntities(k) ==
    When(k.boiler, Each({"boiler_temperature", "boiler_state", "boiler_diagnostics", "boiler_hours",
                         "boiler_flag", "boiler_number", "boiler_text", "boiler_menu_code"}, {0}))

CircuitEntities(d) ==
    Each({"circuit_sensor", "circuit_pump", "circuit_number", "circuit_room_control"}, d.circuits)

\* Fields that are optional are created only when they have a value; texts
\* and the date do not wait for the data.
SystemEntities(k, d) ==
    When(k.regulator, Each({"system_text", "system_menu_code", "maintenance_date"}, {0}))
        \cup When(k.regulator /\ d.system, Each({"system_sensor", "system_number", "system_flag"}, {0}))
        \cup When(k.regulator /\ d.system, d.values \cap {<<"system_optional", 0>>})

\* A merged slot has no sensors.  A room remote has its three whatever it
\* reports; of any other slot what it reports is shown.
RadioSensors(k, d, s) ==
    LET room == d.radio[s].class = "room"
        key(f) == <<"radio_sensor", <<s, f>>>>
    IN  IF s \in k.merged THEN {}
        ELSE When(room, {key("reception_strength"), key("room_temperature_c")})
             \cup (d.values \cap ({key("reception_strength")}
                                   \cup When(~room /\ s = "module", {key("device_class_address")})))

RadioEntities(k, d) ==
    UNION {{<<"radio_connected", s>>} \cup RadioSensors(k, d, s) : s \in Exported(d)}

SolarEntities(k, d) ==
    When(k.vr71 \/ k.regulator, {<<"fm5_mode", 0>>})
        \cup When(d.mode = "interpreted",
                  Each({"solar_flag"}, {0}) \cup When(d.solar, {<<"solar_sensor", 0>>})
                  \cup Each({"cylinder_temperature", "cylinder_config"}, d.cylinders))

\* A zone that is mapped to a radio waits for it; any other zone hangs under
\* the regulator.
ZoneShown(k, d) ==
    d.zone.listed /\ (k.resolved \/ (~d.zone.mapping /\ k.regulator))

ZoneEntities(k, d) ==
    When(ZoneShown(k, d), Each({"climate", "zone_schedule", "zone_valve", "zone_demand",
                                "zone_valve_position"}, {0}))

\* The state names the overrun, be it null, when the gateway knows the field.
DhwEntities(d) ==
    When(d.dhw, Each({"dhw_schedule", "dhw_demand", "dhw_status"}, {0})
                \cup When(d.overrun, {<<"dhw_overrun", 0>>}))

AdapterEntities(d) ==
    {<<"adapter_hw", 0>>}
        \cup When(d.wifi, {<<"adapter_wifi", 0>>})
        \cup (d.values \cap {<<"adapter_reset", 0>>})

Created(k, d) ==
    UNION {BusEntities(d), StatusEntities(d), BoilerEntities(k), CircuitEntities(d),
           SystemEntities(k, d), RadioEntities(k, d), SolarEntities(k, d), ZoneEntities(k, d),
           DhwEntities(d), AdapterEntities(d), Each({"calendar"}, d.programs)}

-----------------------------------------------------------------------------
(* Sparse entities: enabled while their field has a value *)

\* _is_sparse_entity_candidate
Sparse(e) ==
    e[1] \in {"repair_code", "dhw_demand", "radio_sensor", "solar_sensor", "solar_flag",
              "cylinder_temperature", "cylinder_config", "boiler_temperature", "boiler_hours",
              "boiler_number", "boiler_text", "circuit_sensor", "circuit_number", "adapter_hw",
              "adapter_wifi", "adapter_reset", "zone_demand", "zone_valve_position", "system_text"}

\* _is_sparse_entity_live, over the live keys of each payload
Live(d, e) ==
    CASE e[1] = "repair_code" -> d.repair
      [] e[1] \in {"solar_sensor", "solar_flag"} ->
            d.mode = "interpreted" /\ d.solar /\ e \in d.values
      [] e[1] \in {"cylinder_temperature", "cylinder_config"} ->
            d.mode = "interpreted" /\ e[2] \in d.cylinders /\ e \in d.values
      [] e[1] = "radio_sensor" -> d.radio[e[2][1]].listed /\ e \in d.values
      [] e[1] \in {"circuit_sensor", "circuit_number"} -> e[2] \in d.circuits /\ e \in d.values
      [] e[1] \in {"zone_demand", "zone_valve_position"} -> d.zone.listed /\ e \in d.values
      [] e[1] = "dhw_demand" -> d.dhw /\ e \in d.values
      [] OTHER -> Sparse(e) /\ e \in d.values

\* _attr_entity_registry_enabled_default
EnabledAtFirst(d, e) ==
    /\ e[1] \notin {"boiler_menu_code", "system_menu_code"}
    /\ Sparse(e) => Live(d, e)

\* A registry: the entities in it, and those of them that are enabled.  Home
\* Assistant keeps what it knows of an entity, and registers the new ones.
Empty == [all |-> {}, on |-> {}]
SetUp(registry, d) ==
    LET created == Created(Known(d), d)
    IN  [all |-> registry.all \cup created,
         on |-> registry.on \cup {e \in created \ registry.all : EnabledAtFirst(d, e)}]

-----------------------------------------------------------------------------
(* The clean-up *)

\* should_remove_missing_radio_bus_key: a remote that is gone may come back
MissingSlot(k, s) == s \in k.merged \/ (s = "module" /\ s \notin k.radio)

\* cleanup_obsolete_entity_registry_entries; fans, valves, switches and the
\* numbers of cylinders are removed too, and no platform creates any.
Removed(k, d, e) ==
    \/ e[1] = "repair_code" /\ ~Live(d, e)
    \/ e[1] = "address" /\ e[2] \notin k.bus
    \/ e[1] = "radio_sensor" /\ MissingSlot(k, e[2][1])
    \/ e[1] = "radio_connected" /\ MissingSlot(k, e[2])
    \/ e[1] \in {"cylinder_temperature", "cylinder_config"} /\ e[2] \notin k.cylinders

\* auto_enable_sparse_entities: a missing repair code comes with a reload,
\* and nothing is enabled then
Reappears(registry, d) == <<"repair_code", 0>> \notin registry.all /\ d.repair
ToEnable(registry, d) ==
    IF Reappears(registry, d) THEN {} ELSE {e \in registry.all \ registry.on : Live(d, e)}
EnableAsks(registry, d) == Reappears(registry, d) \/ ToEnable(registry, d) # {}
Enabled(registry, d) == [registry EXCEPT !.on = @ \cup ToEnable(registry, d)]

\* auto_disable_sparse_entities
ToDisable(registry, d) == {e \in registry.on : Sparse(e) /\ ~Live(d, e)}
Disabled(registry, d) == [registry EXCEPT !.on = @ \ ToDisable(registry, d)]

\* run_trusted_cleanup
Purged(registry, k, d) ==
    LET gone == {e \in registry.all : Removed(k, d, e)}
    IN  [all |-> registry.all \ gone, on |-> registry.on \ gone]
CleanedUp(registry, k, d) == Enabled(Disabled(Purged(registry, k, d), d), d)
CleanupAsks(registry, k, d) ==
    \/ ToDisable(Purged(registry, k, d), d) # {}
    \/ EnableAsks(Disabled(Purged(registry, k, d), d), d)

\* The reloads that updates ask for: new devices, circuits, slots, cylinders,
\* zones or hot water, or another mode (zone parents are in RadioParents).
Asks(k, d) ==
    \/ ~(BusKeys(d) \subseteq k.bus) \/ ~(d.circuits \subseteq k.circuits)
    \/ ~(Exported(d) \subseteq k.radio)
    \/ d.mode # k.mode /\ "interpreted" \in {d.mode, k.mode}
    \/ d.mode = "interpreted" /\ ~(d.cylinders \subseteq k.cylinders)
    \/ d.zone.listed /\ ~k.zone
    \/ d.dhw /\ ~k.dhw

-----------------------------------------------------------------------------
(* Cases: the data that the set-up began with and the data since, which    *)
(* differ in one part of the payloads.                                     *)

Slot(listed, connected, class, identity) ==
    [listed |-> listed, connected |-> connected, class |-> class, identity |-> identity]
NoSlot == Slot(FALSE, FALSE, "none", FALSE)
NoZone == [listed |-> FALSE, mapping |-> FALSE, resolved |-> FALSE]
Bare == [bus |-> [a \in Addresses |-> IF a = "plain" THEN "regulator" ELSE "absent"],
         radio |-> [s \in Slots |-> NoSlot], zone |-> NoZone, dhw |-> FALSE, overrun |-> FALSE, circuits |-> {},
         mode |-> "absent", solar |-> FALSE, cylinders |-> {}, repair |-> FALSE, wifi |-> FALSE,
         system |-> TRUE, programs |-> {}, values |-> {}]

ListedSlots == {Slot(TRUE, connected, class, identity) :
                  connected, identity \in BOOLEAN, class \in {"none", "room", "module"}}

BusData ==
    {[Bare EXCEPT !.bus = bus, !.values = values] :
        bus \in [Addresses -> BusKinds], values \in {{}, {<<"system_optional", 0>>}}}

RadioData(s) ==
    {[Bare EXCEPT !.radio[s] = slot, !.bus["module"] = kind, !.values = values] :
        slot \in ListedSlots, kind \in {"absent", "vr71"},
        values \in SUBSET {<<"radio_sensor", <<s, "reception_strength">>>>}}
        \cup {[Bare EXCEPT !.bus["module"] = kind] : kind \in {"absent", "vr71"}}

TargetData ==
    {[Bare EXCEPT !.zone = zone, !.dhw = dhw, !.overrun = overrun, !.values = values] :
        zone \in {NoZone} \cup [listed : {TRUE}, mapping : BOOLEAN, resolved : BOOLEAN],
        dhw, overrun \in BOOLEAN, values \in SUBSET {<<"zone_demand", 0>>}}

SolarData ==
    {[Bare EXCEPT !.mode = mode, !.solar = solar, !.cylinders = cylinders, !.values = values] :
        mode \in {"gpio", "interpreted"}, solar \in BOOLEAN, cylinders \in {{}, {0}, Cylinders},
        values \in SUBSET {<<"solar_flag", 0>>, <<"cylinder_config", 0>>}}

StateData ==
    {[Bare EXCEPT !.repair = repair, !.wifi = wifi, !.system = wifi, !.circuits = circuits, !.values = values] :
        repair, wifi \in BOOLEAN, circuits \in {{}, Circuits},
        values \in SUBSET {<<"adapter_wifi", 0>>, <<"circuit_sensor", 0>>}}

RegistryParts == {BusData, RadioData("remote"), RadioData("module"), TargetData, SolarData, StateData}

IsRegistryCase(c) == \E part \in RegistryParts : c \in [began : part, now : part]

-----------------------------------------------------------------------------
(* Properties *)

\* The connected-state entity of a merged slot sits on the bus device
OfMergedSlot(k, e) == e[1] = "radio_connected" /\ e[2] \in k.merged

\* No clean-up removes what the platforms created, from whatever they read
\* since the set-up began, unless an update already asked for the reload that
\* creates it again; one entity of a merged slot is in MergedSlotKeepsConnected.
CleanupSparesSetUp(c) ==
    LET k == Known(c.began)
    IN  \A e \in Created(k, c.now) : Removed(k, c.now, e) => OfMergedSlot(k, e) \/ Asks(k, c.now)

\* A remote control that is no longer listed keeps its entities
RemotesSurvive(c) ==
    \A e \in Created(Known(c.began), c.began) :
        (e[1] = "radio_connected" /\ e[2] = "remote") => ~Removed(Known(c.now), c.now, e)

\* A registry from any earlier set-up is right after one reload: neither the
\* clean-up of the next set-up nor an update of the same data asks for one
\* more, every sparse entity is enabled exactly while it has a value, and what
\* was created is there.
ReloadsSettle(c) ==
    LET k == Known(c.now)
        once == CleanedUp(SetUp(SetUp(Empty, c.began), c.now), k, c.now)
        twice == SetUp(once, c.now)
        settled == CleanedUp(twice, k, c.now)
    IN  /\ ~CleanupAsks(twice, k, c.now) /\ ~EnableAsks(settled, c.now)
        /\ \A e \in Created(k, c.now) : e \in settled.all \/ OfMergedSlot(k, e)
        /\ \A e \in settled.all : Sparse(e) => (e \in settled.on <=> Live(c.now, e))

RegistrySettles(c) == CleanupSparesSetUp(c) /\ RemotesSurvive(c) /\ ReloadsSettle(c)

\* binary_sensor.py:299 "ADR-027: re-parent to physical bus device for merged
\* B524 slots", and the clean-up of the same data leaves the entity there
\* (entry_setup.py:1170: "remove redundant sensor entities from merged B524
\* slots").
MergedSlotKeepsConnected(c) ==
    \A e \in Created(Known(c.now), c.now) :
        e[1] = "radio_connected" => ~Removed(Known(c.now), c.now, e)

=============================================================================
