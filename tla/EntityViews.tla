----------------------------- MODULE EntityViews -----------------------------
(***************************************************************************)
(* What the entities of sensor.py, binary_sensor.py, calendar.py,          *)
(* climate.py and water_heater.py show of what their coordinator holds,    *)
(* and when they are available; the writes of the last two are in          *)
(* RegisterWrites.  A case is one entity, named for a target (a zone, a    *)
(* circuit, a radio slot) as its set-up spelled it, and the items that the *)
(* coordinator holds now, in the order of the payload.                     *)
(*                                                                         *)
(* An id is "plain" or "alias", two spellings of the entity's target (1,   *)
(* 001 and zone-1, or the number and its digits), "other", or "odd": no    *)
(* id at all.  Values are the cells of ConfigEntities.                     *)
(***************************************************************************)
EXTENDS ConfigEntities, Sequences

CONSTANT Grace   \* _RADIO_STALE_GRACE_CYCLES

ASSUME GraceAssumption == Grace \in Nat

Ids == {"plain", "alias", "other", "odd"}
Item(id, cell, cycles) == [id |-> id, cell |-> cell, cycles |-> cycles]

\* _normalize_zone_id, _parse_optional_int
Norm(id) == IF id = "alias" THEN "plain" ELSE id

\* The items under the very name, or under any spelling of it, and the value
\* of the first that is found
Named(c) == {i \in DOMAIN c.items : c.items[i].id = c.target}
Same(c) == {i \in DOMAIN c.items : /\ c.items[i].id # "odd"
                                   /\ Norm(c.items[i].id) = Norm(c.target)}
First(found) == CHOOSE i \in found : \A j \in found : i <= j
Value(c, found) == IF found = {} THEN None ELSE c.items[First(found)].cell

\* isinstance(value, (bool, int, float, str))
Scalar(v) == IF v.kind = "object" THEN None ELSE v

\* int(value), towards zero
AsInt(v) ==
    CASE v.kind = "finite" -> Finite(IF v.at >= 0 THEN 2 * (v.at \div 2) ELSE -2 * ((-v.at) \div 2))
      [] v.kind \in {"digits", "flag"} -> Finite(v.at)
      [] OTHER -> None

\* float(value) of anything else raises: Home Assistant keeps the state it has
Temperature(v) == IF v.kind \in {"text", "object"} THEN Cell("raises", 0) ELSE AsFloat(v)

Moving(v) == IF AsFloat(v) = None THEN None
             ELSE Cell("flag", IF AsFloat(v).at > 0 THEN 2 ELSE 0)

-----------------------------------------------------------------------------
(* available, the state shown, and the is_stale mark *)

Shows(available, shown) == [available |-> available, shown |-> shown, marked |-> FALSE]

\* semantic_target_available: any spelling of the zone is found
ZoneAvailable(c) == c.success /\ Same(c) # {}

\* semantic_target_is_stale: the coordinator's marks know one spelling only
ZoneMarked(c) == ~c.success \/ c.target \in c.stale

ZoneShows(c, shown) ==
    [available |-> ZoneAvailable(c), shown |-> shown, marked |-> ZoneMarked(c)]

DhwShows(c, shown) ==
    [available |-> c.success /\ c.items # <<>>, shown |-> shown,
     marked |-> ~c.success \/ c.stale # {}]
Dhw(c) == IF c.items = <<>> THEN None ELSE c.items[1].cell

BusAddressSensor(c) == Shows(c.success, Finite(0))

\* A bucket that is gone leaves what the set-up read
StatusSensor(c) == Shows(c.success, IF c.items = <<>> THEN c.fallback ELSE c.items[1].cell)

EEBusAdminSensor(c) ==
    [available |-> c.success, shown |-> IF Dhw(c).kind = "text" THEN Dhw(c) ELSE Cell("text", 1),
     marked |-> ~c.served \/ c.stale # {}]

BoilerSensor(c) ==
    Shows(c.success, CASE c.rule = "raw" -> Dhw(c)
                       [] c.rule = "int" -> AsInt(Dhw(c))
                       [] OTHER -> Scalar(Dhw(c)))

CircuitSensor(c) ==
    Shows(c.success, IF c.rule = "int" THEN AsInt(Value(c, Same(c))) ELSE Scalar(Value(c, Same(c))))

SystemSensor(c) ==
    Shows(c.success, IF c.rule = "int" THEN AsInt(Dhw(c)) ELSE Scalar(Dhw(c)))

\* Mutant of SlotAvailable: a slot is available as long as it is listed
SlotListed(c) == Same(c) # {}

\* A slot that polls have not reported for long enough, whatever the last poll
\* ended in
SlotAvailable(c) == Same(c) # {} /\ c.items[First(Same(c))].cycles < Grace

RadioSensor(c) ==
    Shows(SlotAvailable(c),
          IF c.rule = "int" THEN AsInt(Value(c, Same(c))) ELSE Scalar(Value(c, Same(c))))

\* A mode that is not one of the three is shown as absent
FM5ModeSensor(c) ==
    Shows(c.success, IF Dhw(c).kind = "text" THEN Dhw(c) ELSE Cell("text", 1))

\* Available in the interpreted mode, whatever the last poll ended in
SolarSensor(c) == Shows(c.interpreted, Scalar(Dhw(c)))
CylinderSensor(c) == Shows(c.interpreted, AsFloat(Value(c, Same(c))))

\* Found under its very name, available under any
ZoneSensor(c) ==
    ZoneShows(c, IF c.rule = "float" THEN AsFloat(Value(c, Named(c))) ELSE Value(c, Named(c)))

DhwStatusSensor(c) == DhwShows(c, Dhw(c))

\* compute_total: both what the year and what the day has so far
EnergySensor(c) ==
    Shows(c.success, IF Len(c.items) < 2 \/ \E i \in 1 .. 2 : AsFloat(c.items[i].cell) = None
                     THEN None
                     ELSE Finite(AsFloat(c.items[1].cell).at + AsFloat(c.items[2].cell).at))

AdapterInfoSensor(c) ==
    Shows(c.success, IF c.rule = "float" THEN AsFloat(Dhw(c)) ELSE Dhw(c))

BoilerHoursSensor(c) == Shows(c.success /\ c.served, AsInt(Dhw(c)))

\* A schedule is active when it is the preset of its zone; no zone, no state
ScheduleBinarySensor(c) ==
    ZoneShows(c, IF Named(c) = {} THEN None
                 ELSE Cell("flag", IF Value(c, Named(c)).kind = "text" THEN 2 ELSE 0))
DhwOverrun(c) == DhwShows(c, Only("flag", Dhw(c)))
BoilerFlag(c) == Shows(c.success, Only("flag", Dhw(c)))
CircuitPumpFlag(c) == Shows(c.success, Only("flag", Value(c, Same(c))))
SolarFlag(c) == Shows(c.interpreted, Only("flag", Dhw(c)))
RadioConnected(c) == Shows(SlotAvailable(c), Only("flag", Value(c, Same(c))))
ZoneValveFlag(c) == ZoneShows(c, Moving(Value(c, Named(c))))

\* What may be written to is available under a trusted admission only
Thermostat(c) ==
    [ZoneShows(c, Temperature(Value(c, Same(c)))) EXCEPT !.available = @ /\ c.served]
WaterHeater(c) ==
    [DhwShows(c, Temperature(Dhw(c))) EXCEPT !.available = @ /\ c.served]

ViewOf(c) ==
    CASE c.class = "bus_address" -> BusAddressSensor(c)
      [] c.class = "status" -> StatusSensor(c)
      [] c.class = "eebus_admin" -> EEBusAdminSensor(c)
      [] c.class = "boiler" -> BoilerSensor(c)
      [] c.class = "circuit" -> CircuitSensor(c)
      [] c.class = "system" -> SystemSensor(c)
      [] c.class = "radio" -> RadioSensor(c)
      [] c.class = "fm5_mode" -> FM5ModeSensor(c)
      [] c.class = "solar" -> SolarSensor(c)
      [] c.class = "cylinder" -> CylinderSensor(c)
      [] c.class = "zone" -> ZoneSensor(c)
      [] c.class = "dhw" -> DhwStatusSensor(c)
      [] c.class = "energy" -> EnergySensor(c)
      [] c.class = "adapter" -> AdapterInfoSensor(c)
      [] c.class = "boiler_hours" -> BoilerHoursSensor(c)
      [] c.class = "schedule_flag" -> ScheduleBinarySensor(c)
      [] c.class = "dhw_flag" -> DhwOverrun(c)
      [] c.class = "boiler_flag" -> BoilerFlag(c)
      [] c.class = "circuit_flag" -> CircuitPumpFlag(c)
      [] c.class = "solar_flag" -> SolarFlag(c)
      [] c.class = "radio_flag" -> RadioConnected(c)
      [] c.class = "zone_flag" -> ZoneValveFlag(c)
      [] c.class = "thermostat" -> Thermostat(c)
      [] OTHER -> WaterHeater(c)

ZoneClasses == {"zone", "schedule_flag", "zone_flag", "thermostat"}
Controls == {"thermostat", "water_heater"}
Interpreted == {"solar", "cylinder", "solar_flag"}
FromRadio == {"radio", "radio_flag"}
Views == ZoneClasses \cup Interpreted \cup FromRadio \cup Controls
            \cup {"bus_address", "status", "eebus_admin", "boiler", "circuit", "system", "fm5_mode", "dhw",
                  "energy", "adapter", "boiler_hours", "dhw_flag", "boiler_flag", "circuit_flag"}

-----------------------------------------------------------------------------
(* The calendar: slots of a day are hours, midnight of the next is 24 *)

\* A slot may end at the midnight that ends its day
SlotEnd(hour) == IF hour > 24 THEN 24 ELSE hour

\* _make_event: a slot that ends at or before its start is no event
MakeEvent(slot) ==
    [start |-> IF slot.start > 23 THEN 23 ELSE slot.start, end |-> SlotEnd(slot.end)]
Lasts(e) == e.start < e.end

\* event: the first that holds the hour; [0, 0] is no event
ActiveEvent(slots, hour) ==
    LET event == [i \in DOMAIN slots |-> MakeEvent(slots[i])]
        now == {i \in DOMAIN slots : /\ Lasts(event[i])
                                     /\ event[i].start <= hour /\ hour < event[i].end}
    IN IF now = {} THEN [start |-> 0, end |-> 0] ELSE event[First(now)]

-----------------------------------------------------------------------------
(* The cases *)

ViewCells == {None, Finite(-3), Finite(1), Finite(51), Finite(301), Cell("digits", 2),
              Cell("text", 0), Cell("flag", 0), Cell("flag", 2), Cell("object", 0)}

ItemLists(class) ==
    {<<>>} \cup {<<Item(id, cell, n)>> : id \in Ids, cell \in ViewCells,
                                         n \in IF class \in FromRadio THEN 0 .. Grace ELSE {0}}
           \cup (IF class \in ZoneClasses \cup {"energy", "circuit"}
                 THEN {<<Item(i, Finite(1), 0), Item(j, cell, 0)>> :
                          i \in Ids, j \in {"plain", "other"}, cell \in ViewCells}
                 ELSE {})

IsViewCase(c) ==
    \E class \in Views : \E items \in ItemLists(class),
        rule \in {"raw", "int", "float"}, success \in BOOLEAN, other \in BOOLEAN,
        stale \in {{}, {"plain"}} :
        c = [class |-> class, target |-> "plain", items |-> items, rule |-> rule,
             success |-> success, interpreted |-> other, served |-> other,
             stale |-> stale, fallback |-> Cell("text", 0)]

Slots == [start : {0, 6, 22, 23, 24}, end : {0, 6, 23, 24, 25}]
IsCalendarCase(c) ==
    \E one \in Slots, two \in Slots, hour \in {0, 5, 6, 22, 23} :
        c = [class |-> "calendar", slots |-> <<one, two>>, hour |-> hour]

-----------------------------------------------------------------------------

(***************************************************************************)
(* After a poll that failed, no entity is available but those of the solar *)
(* circuit, the cylinders and the radio slots, which look at the payload   *)
(* only, and a radio slot is available only while it was seen within the   *)
(* grace; thermostats and the water heater only under a trusted admission. *)
(* An available zone entity shows the state of its own zone in the current *)
(* data, whichever other zones there are, and its stale mark; when the     *)
(* zone is there under the name the entity was set up with, a sensor shows *)
(* that one.  A sensor that passes scalars on never shows an object        *)
(* (available and native_value, is_on or current_temperature of the        *)
(* platforms, and semantic_freshness.py).                                  *)
(***************************************************************************)
ViewsHonest(c) ==
    LET v == ViewOf(c)
        Own == {i \in DOMAIN c.items : c.items[i].id = c.target}
    IN /\ v.available /\ ~c.success => c.class \in Interpreted \cup FromRadio
       /\ v.available /\ c.class \in FromRadio =>
             \E i \in DOMAIN c.items : /\ c.items[i].id \in {"plain", "alias"}
                                       /\ c.items[i].cycles < Grace
       /\ v.available /\ c.class \in Controls => c.served
       /\ v.available /\ c.class \in ZoneClasses =>
             /\ \E i \in DOMAIN c.items :
                   /\ c.items[i].id \in {"plain", "alias"}
                   /\ ViewOf([c EXCEPT !.items = <<c.items[i]>>]).shown = v.shown
             /\ v.marked = (c.target \in c.stale)
       /\ v.available /\ c.class \in {"zone", "zone_flag"} /\ Own # {} =>
             \E i \in Own : ViewOf([c EXCEPT !.items = <<c.items[i]>>]).shown = v.shown
       /\ c.class \in {"circuit", "system", "radio", "fm5_mode", "solar"} => v.shown.kind # "object"

(***************************************************************************)
(* The active event of a schedule is one that lasts, holds the current     *)
(* hour, and comes from the first slot that does; while some slot holds    *)
(* the hour there is one, also in the last hour of the day (event,         *)
(* _make_event of calendar.py).                                            *)
(***************************************************************************)
CalendarHonest(c) ==
    LET e == ActiveEvent(c.slots, c.hour)
        Holds(s) == s.start <= c.hour /\ c.hour < s.end
    IN /\ e.end > 0 => e.start <= c.hour /\ c.hour < e.end
       /\ (\E i \in DOMAIN c.slots : Holds(c.slots[i])) => e.end > 0
       /\ Holds(c.slots[1]) => e.start = c.slots[1].start

=============================================================================
