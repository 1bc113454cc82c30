---------------------------- MODULE GatewayQueries ----------------------------
(***************************************************************************)
(* How the polling coordinators of coordinator.py live with gateways of    *)
(* different schemas: which query a refresh sends, which smaller query     *)
(* follows a missing field, which optional parts are switched off, when a  *)
(* query is tried again, and what a refresh that fails leaves published.   *)
(* The coordinators share nothing but the gateway, so a behaviour follows  *)
(* one of them, the focus.  A payload is the set of parts (groups of       *)
(* fields) that it carries; only energy totals have a value.  What is      *)
(* retained of zones and DHW, and of radio slots, is in SemanticRetention  *)
(* and RadioParents.                                                       *)
(***************************************************************************)
EXTENDS Integers, FiniteSets

CONSTANTS Focuses,        \* the coordinators that behaviours may follow
          BoundCooldown,  \* SYSTEM_DHW_BOUND_REPROBE_COOLDOWN_SECONDS, in ticks
          FirstDelay,     \* _ADAPTER_HARDWARE_INFO_REPROBE_INITIAL_DELAY_S, in ticks
          MaxDelay,       \* _ADAPTER_HARDWARE_INFO_REPROBE_MAX_DELAY_S, in ticks
          MaxReading      \* bound: times the energy totals of the gateway grow

\* The parts that a coordinator asks for.  The root of a query comes first: a
\* gateway without the root reports the root only.
Root == [inventory |-> "devices", status |-> "daemon_status", semantic |-> "zones",
         circuits |-> "circuits", fm5 |-> "fm5_semantic_mode", system |-> "system",
         energy |-> "energy_totals", boiler |-> "boiler_status",
         schedules |-> "schedules", adapter |-> "adapter_hardware_info"]
Parts ==
    [inventory |-> {"devices", "addresses", "part_number", "names", "serial"},
     status |-> {"daemon_status", "initiator_address", "bus_admission"},
     semantic |-> {"zones", "promoted", "holiday", "quick_veto", "mapping"},
     circuits |-> {"circuits"},
     fm5 |-> {"fm5_semantic_mode"},
     system |-> {"system", "bound", "gateway", "installer", "sensitive"},
     energy |-> {"energy_totals", "monthly"},
     boiler |-> {"boiler_status", "installer", "sensitive"},
     schedules |-> {"schedules"},
     adapter |-> {"adapter_hardware_info", "details"}]

ASSUME QueryConstants ==
    /\ Focuses \subseteq DOMAIN Root
    /\ BoundCooldown \in Nat \ {0} /\ FirstDelay \in Nat \ {0} /\ MaxDelay \in Nat
    /\ FirstDelay <= MaxDelay /\ MaxReading \in Nat

\* The schemas of a gateway: without the root nothing below it counts, and
\* every gateway has had its devices and its daemon status
Schemas(f) == {s \in SUBSET Parts[f] : Root[f] \in s}
                \cup (IF f \in {"inventory", "status"} THEN {} ELSE {{}})

VARIABLES
    focus,
    schema,    \* gateway: the parts it serves
    link,      \* "up": every query is answered with data or a missing field
    reading,   \* gateway: how far its energy totals have grown
    stage,     \* the query of the refresh that is in flight; "idle"
    asked,     \* the parts that this query asks for
    asOf,      \* the totals when it was sent
    draft,     \* what the refresh has collected so far
    shown,     \* the parts in the coordinator's data
    success,   \* last_update_success
    off,       \* optional parts the coordinator asks for no more
    wait,      \* ticks until it asks again for what was missing
    delay,     \* the next re-probe delay of the adapter information
    total,     \* the energy totals that are shown; -1: None
    lastValid, \* _last_valid_energy_totals; -1: None
    pushed,    \* history: the shown totals came with an event
    due        \* ticks until the scheduled refresh

gateway == <<schema, link, reading>>
query == <<stage, asked, asOf, draft>>
memory == <<off, wait, delay>>
energy == <<total, lastValid, pushed>>
vars == <<focus, gateway, query, shown, success, memory, energy, due>>

\* The parts that a coordinator can stop asking for
Switchable == {"installer", "sensitive", "monthly", "boiler_status", "schedules", "details"}

Answers == {"data", "null", "nothing", "missing", "error", "transport"}

\* The parts of a query that the gateway says it cannot answer
Gone == IF Root[focus] \notin schema THEN {Root[focus]} ELSE asked \ schema

\* What the gateway may do with a query: "nothing" is a response without a
\* payload, "null" a payload whose root is null, "error" a GraphQL error that
\* is not about a field, "transport" every attempt of the client failing
Possible(a) ==
    CASE a = "missing" -> Gone # {}
      [] a = "transport" -> link = "flaky"
      [] a = "data" -> Gone = {}
      [] OTHER -> Gone = {} /\ link = "flaky"

-----------------------------------------------------------------------------
(* Sending a query, and the end of a refresh *)

Send(next, parts) ==
    /\ stage' = next /\ asked' = parts /\ asOf' = reading
    /\ UNCHANGED <<shown, success>>

Close == stage' = "idle" /\ asked' = {} /\ asOf' = 0 /\ draft' = {}

\* DataUpdateCoordinator publishes what the refresh returned
Finish(parts) == Close /\ shown' = parts /\ success' = TRUE

\* UpdateFailed: the data stays and the coordinator is unsuccessful
Fail == Close /\ success' = FALSE /\ UNCHANGED shown

FirstQuery ==
    CASE focus = "inventory" -> <<"v3", Parts[focus]>>
      [] focus = "status" -> <<"full", Parts[focus]>>
      [] focus = "semantic" -> <<"promoted", Parts[focus]>>
      [] focus = "system" -> <<"main", {"system"} \cup (IF wait = 0 THEN {"bound"} ELSE {})>>
      [] focus = "boiler" -> <<"main", {"boiler_status"}>>
      [] OTHER -> <<"main", Parts[focus] \ off>>

\* Mutant of Silent: the adapter information is not asked for again either
SilentOnceOff == off # {} \/ (focus = "adapter" /\ wait > 0)

\* A coordinator that asks nothing: schedules once they were unsupported, the
\* adapter information until its re-probe is due
Silent == (focus = "schedules" /\ off # {}) \/ (focus = "adapter" /\ wait > 0)

Refresh ==
    /\ stage = "idle"
    /\ IF Silent THEN Finish({}) ELSE Send(FirstQuery[1], FirstQuery[2]) /\ draft' = {}
    /\ UNCHANGED <<focus, gateway, memory, energy, due>>

-----------------------------------------------------------------------------
(* Answers *)

Receive(a) == stage # "idle" /\ Possible(a) /\ UNCHANGED <<focus, gateway, due>>

Retry(next, parts) == Send(next, parts) /\ UNCHANGED draft

\* The tiers of the device inventory
TierParts(tier) ==
    Parts["inventory"] \ CASE tier = "noPart" -> {"part_number"}
                           [] tier = "v2" -> {"part_number", "names"}
                           [] tier = "base" -> {"part_number", "names", "serial"}

\* Within a tier the query without addresses comes first.  Only the first tier
\* looks at what else is missing: the others catch every error of the client
\* before they would
SmallerInventory ==
    IF "addresses" \in Gone THEN Retry(stage, asked \ {"addresses"})
    ELSE IF stage # "v3" THEN Fail
    ELSE LET tier == IF "part_number" \in Gone THEN "noPart"
                     ELSE IF "names" \in Gone THEN "v2" ELSE "base"
         IN  Retry(tier, TierParts(tier))

InventoryAnswer(a) ==
    /\ focus = "inventory" /\ Receive(a)
    /\ CASE a = "data" -> Finish(asked)
         [] a = "nothing" -> Finish({})
         [] a = "missing" -> SmallerInventory
         [] OTHER -> Fail
    /\ UNCHANGED <<memory, energy>>

\* A gateway that does not know the fields of the source admission is asked
\* for its status alone, and its admission counts as incompatible
StatusAnswer(a) ==
    /\ focus = "status" /\ Receive(a)
    /\ CASE a \in {"data", "null"} -> Finish(asked)
         [] a = "nothing" -> Finish({})
         [] a = "missing" ->
              IF "initiator_address" \in Gone
              THEN Retry("noInitiator", {"daemon_status", "bus_admission"})
              ELSE Retry("minimal", {"daemon_status"})
         [] OTHER -> Fail
    /\ UNCHANGED <<memory, energy>>

\* One query after the other until one has no missing field
NextSemantic ==
    CASE stage = "promoted" -> <<"holiday", {"zones", "holiday", "quick_veto", "mapping"}>>
      [] stage = "holiday" -> <<"noHoliday", {"zones", "quick_veto", "mapping"}>>
      [] stage = "noHoliday" -> <<"noQuickVeto", {"zones", "mapping"}>>
      [] OTHER -> <<"legacy", {"zones"}>>

SemanticAnswer(a) ==
    /\ focus = "semantic" /\ Receive(a)
    /\ CASE a = "data" -> Finish(asked)
         [] a = "missing" -> IF "zones" \in Gone THEN \E kept \in {{}, shown} : Finish(kept)
                             ELSE Retry(NextSemantic[1], NextSemantic[2])
         [] a = "error" -> Fail
         [] a = "transport" -> Fail \/ (shown # {} /\ Finish(shown))
         [] OTHER -> \E kept \in {{}, shown} : Finish(kept)
    /\ UNCHANGED <<memory, energy>>

\* Circuits and schedules: one query, a missing field is an empty list; the
\* schedules are then never asked for again
OneQueryAnswer(a) ==
    /\ focus \in {"circuits", "schedules"} /\ Receive(a)
    /\ CASE a = "data" -> Finish(asked)
         [] a \in {"null", "nothing", "missing"} -> Finish({})
         [] OTHER -> Fail
    /\ off' = IF focus = "schedules" /\ a = "missing" THEN off \cup {"schedules"} ELSE off
    /\ UNCHANGED <<wait, delay, energy>>

\* Solar and cylinders are read only in the interpreted mode
Fm5Answer(a) ==
    /\ focus = "fm5" /\ Receive(a)
    /\ CASE a = "data" -> Finish(asked) \/ (link = "flaky" /\ Finish({}))
         [] a \in {"null", "nothing", "missing"} -> Finish({})
         [] OTHER -> Fail
    /\ UNCHANGED <<memory, energy>>

-----------------------------------------------------------------------------
(* Optional parts of the system and of the boiler *)

\* The refresh goes on with the optional parts that are not switched off
Continue(parts, left) ==
    LET next == {p \in left : p \notin off} IN
    IF next = {} THEN Finish(parts)
    ELSE /\ draft' = parts
         /\ IF "installer" \in next THEN Send("installer", {"installer"})
            ELSE Send("sensitive", {"sensitive"})

\* Mutant of OffAfter: any answer without data switches the part off
OffAfterFailure(a) == IF a # "data" THEN off \cup {stage} ELSE off

\* next_optional_query_state: only a missing field switches a part off
OffAfter(a) == IF a = "missing" /\ stage \in Gone THEN off \cup {stage} ELSE off

OptionalAnswer(a) ==
    /\ stage \in {"installer", "sensitive"} /\ Receive(a)
    /\ off' = OffAfter(a)
    /\ Continue(IF a = "data" THEN draft \cup {stage} ELSE draft,
                IF stage = "installer" THEN {"sensitive"} ELSE {})
    /\ UNCHANGED <<wait, delay, energy>>

\* A missing bound starts the cooldown and the refresh goes on without it; a
\* full query that is answered ends it
SystemAnswer(a) ==
    /\ focus = "system" /\ stage \in {"main", "legacy"} /\ Receive(a)
    /\ IF a = "missing" /\ "bound" \in Gone
       THEN wait' = BoundCooldown /\ Retry("legacy", {"system"})
       ELSE /\ wait' = IF a \in {"data", "null", "nothing"} /\ "bound" \in asked THEN 0 ELSE wait
            /\ CASE a = "data" -> Send("gateway", {"gateway"}) /\ draft' = asked
                 [] a \in {"error", "transport"} -> Fail
                 [] OTHER -> Finish({})
    /\ UNCHANGED <<off, delay, energy>>

\* The gateway's brand is optional, but another error of this query, a missing
\* root included, fails the whole refresh
MetadataAnswer(a) ==
    /\ stage = "gateway" /\ Receive(a)
    /\ IF a = "error" \/ (a = "missing" /\ "gateway" \notin Gone) THEN Fail
       ELSE Continue(IF a = "data" THEN draft \cup {"gateway"} ELSE draft,
                     {"installer", "sensitive"})
    /\ UNCHANGED <<memory, energy>>

BoilerAnswer(a) ==
    /\ focus = "boiler" /\ stage = "main" /\ Receive(a)
    /\ CASE a = "data" -> Continue({"boiler_status"}, {"installer", "sensitive"})
         [] a \in {"error", "transport"} -> Fail
         [] OTHER -> Finish({})
    /\ off' = CASE a \in {"data", "null"} -> off \ {"boiler_status"}
                [] a \in {"nothing", "missing"} -> off \cup {"boiler_status"}
                [] OTHER -> off
    /\ UNCHANGED <<wait, delay, energy>>

-----------------------------------------------------------------------------
(* Adapter information *)

NextDelay == IF 2 * delay < MaxDelay THEN 2 * delay ELSE MaxDelay

\* _schedule_hardware_info_reprobe, _reset_hardware_info_reprobe
Reprobe == wait' = delay /\ delay' = NextDelay
ResetReprobe == wait' = 0 /\ delay' = FirstDelay

RootGone(a) == a = "missing" /\ Root[focus] \in Gone

\* The first query; after an error it is repeated without the details, unless
\* it was already the minimal one
AdapterAnswer(a) ==
    /\ focus = "adapter" /\ stage = "main" /\ Receive(a)
    /\ off' = IF a = "missing" /\ "details" \in Gone THEN off \cup {"details"} ELSE off
    /\ IF RootGone(a) THEN Reprobe
       ELSE IF a = "data" THEN ResetReprobe ELSE UNCHANGED <<wait, delay>>
    /\ CASE a = "data" -> Finish(asked)
         [] a = "transport" -> Fail
         [] a \in {"missing", "error"} /\ ~RootGone(a) /\ "details" \in asked ->
              Retry("fallback", {"adapter_hardware_info"})
         [] OTHER -> Finish({})
    /\ UNCHANGED energy

\* An answer to the repeated query resets the re-probe before its payload is
\* looked at, and no failure of it fails the refresh
FallbackAnswer(a) ==
    /\ focus = "adapter" /\ stage = "fallback" /\ Receive(a)
    /\ CASE a \in {"data", "null", "nothing"} -> ResetReprobe
         [] RootGone(a) -> Reprobe
         [] OTHER -> UNCHANGED <<wait, delay>>
    /\ Finish(IF a = "data" THEN asked ELSE {})
    /\ UNCHANGED <<off, energy>>

-----------------------------------------------------------------------------
(* Energy totals *)

\* The totals that a refresh returns when it has no valid answer
Held == lastValid

\* Mutant of Valid: only the first complete answer is kept
ValidFirst(value) ==
    lastValid' = (IF lastValid < 0 THEN value ELSE lastValid) /\ total' = value /\ pushed' = FALSE

\* A complete answer becomes the last valid one
Valid(value) == lastValid' = value /\ total' = value /\ pushed' = FALSE

ShownTotals(value) == IF value < 0 THEN {} ELSE {"energy_totals"}

\* No failure fails this refresh: it returns the last valid totals of a poll.
\* The monthly series, once missing, is asked for no more
EnergyAnswer(a) ==
    /\ focus = "energy" /\ Receive(a)
    /\ IF a = "missing" /\ "monthly" \in Gone
       THEN /\ off' = off \cup {"monthly"} /\ Retry("main", {"energy_totals"})
            /\ UNCHANGED energy
       ELSE /\ IF a = "data" THEN \E value \in asOf .. reading : Valid(value)
               ELSE total' = Held /\ pushed' = FALSE /\ UNCHANGED lastValid
            /\ Finish(ShownTotals(total'))
            /\ UNCHANGED off
    /\ UNCHANGED <<wait, delay>>

\* Events of the subscription replace the data and postpone the next refresh,
\* and an energy event leaves the last valid totals as they are
EnergyEvent ==
    /\ focus = "energy" /\ total' = reading /\ pushed' = TRUE
    /\ shown' = {"energy_totals"} /\ success' = TRUE /\ due' = 1
    /\ UNCHANGED <<focus, gateway, query, memory, lastValid>>

BoilerEvent ==
    /\ focus = "boiler" /\ "boiler_status" \in schema
    /\ shown' = shown \cup {"boiler_status"} /\ success' = TRUE /\ due' = 1
    /\ UNCHANGED <<focus, gateway, query, memory, energy>>

-----------------------------------------------------------------------------
(* The gateway and time *)

SchemaChange ==
    /\ \E s \in Schemas(focus) \ {schema} : schema' = s
    /\ UNCHANGED <<focus, link, reading, query, shown, success, memory, energy, due>>

LinkChange ==
    /\ link' = IF link = "up" THEN "flaky" ELSE "up"
    /\ UNCHANGED <<focus, schema, reading, query, shown, success, memory, energy, due>>

Grow ==
    /\ focus = "energy" /\ reading < MaxReading /\ reading' = reading + 1
    /\ UNCHANGED <<focus, schema, link, query, shown, success, memory, energy, due>>

Tick ==
    /\ wait > 0 \/ due > 0
    /\ wait' = (IF wait > 0 THEN wait - 1 ELSE 0) /\ due' = 0
    /\ UNCHANGED <<focus, gateway, query, shown, success, off, delay, energy>>

-----------------------------------------------------------------------------
Init ==
    /\ focus \in Focuses
    /\ schema \in Schemas(focus)
    /\ link \in {"up", "flaky"} /\ reading = 0
    /\ stage = "idle" /\ asked = {} /\ asOf = 0 /\ draft = {}
    /\ shown = {} /\ success = TRUE
    /\ off = {} /\ wait = 0 /\ delay = FirstDelay
    /\ total = -1 /\ lastValid = -1 /\ pushed = FALSE /\ due = 0

Answer ==
    \E a \in Answers :
        \/ InventoryAnswer(a)
        \/ StatusAnswer(a)
        \/ SemanticAnswer(a)
        \/ OneQueryAnswer(a)
        \/ Fm5Answer(a)
        \/ SystemAnswer(a)
        \/ MetadataAnswer(a)
        \/ OptionalAnswer(a)
        \/ BoilerAnswer(a)
        \/ AdapterAnswer(a)
        \/ FallbackAnswer(a)
        \/ EnergyAnswer(a)

Next ==
    \/ Refresh
    \/ Answer
    \/ EnergyEvent
    \/ BoilerEvent
    \/ SchemaChange
    \/ LinkChange
    \/ Grow
    \/ Tick

Spec == Init /\ [][Next]_vars

\* The scheduled refresh happens, each query ends (the client bounds each
\* attempt and their number), and time passes
FairSpec == Spec /\ WF_vars(due = 0 /\ Refresh) /\ WF_vars(Answer) /\ WF_vars(Tick)

-----------------------------------------------------------------------------
TypeOK ==
    /\ focus \in Focuses /\ schema \in Schemas(focus) /\ link \in {"up", "flaky"}
    /\ reading \in 0 .. MaxReading /\ asOf \in 0 .. MaxReading
    /\ stage \in {"idle", "main", "legacy", "gateway", "installer", "sensitive", "fallback",
                  "v3", "noPart", "v2", "base", "full", "noInitiator", "minimal",
                  "promoted", "holiday", "noHoliday", "noQuickVeto"}
    /\ asked \subseteq Parts[focus] /\ draft \subseteq Parts[focus]
    /\ shown \subseteq Parts[focus] /\ success \in BOOLEAN
    /\ off \subseteq Parts[focus] \cap Switchable
    /\ wait \in 0 .. (IF BoundCooldown > MaxDelay THEN BoundCooldown ELSE MaxDelay)
    /\ delay \in FirstDelay .. MaxDelay /\ due \in 0 .. 1
    /\ total \in -1 .. MaxReading /\ lastValid \in -1 .. MaxReading
    /\ pushed \in BOOLEAN

\* A coordinator stops asking for an optional part only when the gateway does not
\* have the field: no timeout, transport failure or resolver error, in whatever
\* order they come between the queries of a refresh and the changes of the
\* gateway, turns a feature of the installation off
SupportLostOnEvidence ==
    [][\A p \in (off' \ off) \ {"boiler_status"} : p \notin schema]_vars

\* Between polls, whatever fails, the energy totals never go back: only totals
\* that an event brought can be replaced by smaller ones (the next poll that
\* fails returns to the last totals that were polled)
TotalsFallOnlyBehindEvents == [][total' < total => pushed]_vars

\* What comes back by itself: the bound, the adapter information, the boiler and
\* the fields of the other queries do, the installer and sensitive parts, the
\* monthly series, the adapter's details and the schedules are lost until the
\* entry is reloaded
ComesBack(f) == Parts[f] \ (Switchable \ {"boiler_status"})

\* Once a gateway serves every field and answers, every part that comes back by
\* itself is shown in the end and stays shown, whatever was missing or failed
\* before, and however events keep postponing the refresh
PartsReturn ==
    <>[](link = "up" /\ schema = Parts[focus])
        => <>[](ComesBack(focus) \subseteq shown)

\* docs/physical-model-metadata-contract.md: a missing field of any tier selects
\* a smaller query, so only a gateway that does not answer fails the inventory
InventoryFallsBack ==
    [][focus = "inventory" /\ success /\ ~success' => link = "flaky"]_vars
=============================================================================
