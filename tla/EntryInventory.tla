---------------------------- MODULE EntryInventory ----------------------------
(***************************************************************************)
(* A config entry between set-ups: what the gateway reports, what a        *)
(* runtime knows, when the registry is cleaned up, and when the entry is   *)
(* reloaded (entry_setup.py, entry_cleanup.py, admission.py).              *)
(*                                                                         *)
(* A set-up reads the inventory once and remembers it as known.  From then *)
(* on listeners compare every update with it: an update with something new *)
(* asks for a reload, once for each runtime; trusted updates without       *)
(* anything new count as evidence, and with enough evidence the registry   *)
(* is cleaned up, once, of what is not known.  Listeners already run while *)
(* the set-up still awaits its platforms, and still run while the entry is *)
(* being unloaded.                                                         *)
(*                                                                         *)
(* One optional entity, disabled while it has no value, stands for those   *)
(* of every platform; the repair-code entity, which exists only while the  *)
(* admission is not trusted, is kept apart.                                *)
(***************************************************************************)
EXTENDS Integers

CONSTANTS
    Devices,        \* keys of bus devices
    Sighting,       \* any devices of an inventory that have no key
    Holders,        \* keys the boiler may be reported under
    Values,         \* of the optional entity: BOOLEAN, has one or not
    EvidenceNeeded, \* trusted updates before a cleanup: 2 in the code
    MaxPending      \* bound: a set-up breaks off only while fewer reloads wait

ASSUME SightingAssumption == Sighting \notin Devices
ASSUME EvidenceAssumption == EvidenceNeeded \in Nat \ {0}
ASSUME ValuesAssumption == Values \subseteq BOOLEAN
ASSUME PendingAssumption == MaxPending \in Nat

VARIABLES
    \* the gateway
    present,    \* the inventory it reports
    admitted,   \* it has selected an active source
    value,      \* the optional entity has a value
    \* what coordinators of the runtime hold
    devs, devsOk,       \* device_coordinator: data, last_update_success
    raw, statusOk,      \* status_coordinator: raw_admission, last_update_success
    live,               \* another coordinator: the optional entity has a value
    \* the runtime and the entry
    phase,      \* of the config entry
    known,      \* known_bus_devices
    ran,        \* cleanup_ran
    asked,      \* reload_scheduled
    count,      \* _admission_cleanup_counts of the entry
    reloads,    \* reload tasks that wait for the entry's set-up lock
    registry,   \* devices, the one that holds the boiler's entities, and
                \* the two entities
    ghosts,     \* runtimes whose set-up failed with listeners running, and
                \* that have not asked for a reload
    leaked      \* what such runtimes hold of the optional entity: has a value

gateway == <<present, admitted, value>>
data == <<devs, devsOk, raw, statusOk, live>>
runtime == <<known, ran, asked>>
vars == <<gateway, data, phase, runtime, count, reloads, registry, ghosts, leaked>>

-----------------------------------------------------------------------------
\* Listeners of the runtime are registered, and its coordinators poll.
Listening == phase \in {"listening", "forwarded", "loaded",
                        "unloading", "failed"}

\* Home Assistant can do nothing more with the entry until it restarts or a
\* user steps in.
Stuck == phase \in {"failed", "torn", "error"}

\* current_bus_device_ids: devices without identity evidence have no key.
Keys(ds) == ds \cap Devices

Inventories == SUBSET (Devices \cup {Sighting})

\* An empty inventory is never trusted; one of mere sightings is not empty.
Effective(r, ds) == r /\ ds # {}
Trusted(r, ok, ds) == ok /\ Effective(r, ds)

\* Mutant: an inventory that is empty leaves the evidence alone.
RecordedIgnoresEmpty(r, ok, ds) ==
    IF ds = {} THEN count
    ELSE IF ~(ok /\ r) THEN 0
    ELSE IF count < EvidenceNeeded THEN count + 1 ELSE count

\* The count only matters up to the evidence needed.
Recorded(r, ok, ds) ==
    IF ~Trusted(r, ok, ds) THEN 0
    ELSE IF count < EvidenceNeeded THEN count + 1 ELSE count

Allowed(n) == n >= EvidenceNeeded

\* The repair code has a value as long as the admission is not trusted.
RepairLive(r, ds) == ~Effective(r, ds)

\* auto_enable_sparse_entities
MustReappear(reg, repairLive) == ~reg.repair /\ repairLive
Enables(reg, repairLive, lv) ==
    ~MustReappear(reg, repairLive) /\ reg.sparse = "disabled" /\ lv
EnableAsks(reg, repairLive, lv) ==
    MustReappear(reg, repairLive) \/ Enables(reg, repairLive, lv)
AfterEnable(reg, repairLive, lv) ==
    [reg EXCEPT !.sparse = IF Enables(reg, repairLive, lv) THEN "enabled" ELSE @]

\* Mutant: whether the entity has a value is not looked at.
DisablesLive(reg, lv) == reg.sparse = "enabled"

\* auto_disable_sparse_entities
Disables(reg, lv) == reg.sparse = "enabled" /\ ~lv

AfterDisable(reg, repairLive, lv) ==
    [reg EXCEPT !.repair = @ /\ repairLive,
                !.sparse = IF Disables(reg, lv) THEN "disabled" ELSE @]

\* run_trusted_cleanup: entities without a value go, then devices that were
\* not known when the runtime was set up and hold no other entity.
CleanupAsks(reg, repairLive, lv) ==
    \/ Disables(reg, lv)
    \/ EnableAsks(AfterDisable(reg, repairLive, lv), repairLive, lv)
AfterCleanup(reg, repairLive, lv) ==
    [AfterEnable(AfterDisable(reg, repairLive, lv), repairLive, lv)
        EXCEPT !.devices = @ \cap (known \cup reg.held)]

\* schedule_reload, once for each runtime.
Asks(b) ==
    IF b /\ ~asked THEN asked' = TRUE /\ reloads' = reloads + 1
                   ELSE UNCHANGED <<asked, reloads>>

MayCleanUp(n) == Allowed(n) /\ ~ran

NoHandlerEffect == UNCHANGED <<asked, reloads, ran, registry>>

\* handle_device_update, for the data of a poll that has just ended.
HandleDevices(ds) ==
    LET n == Recorded(raw, statusOk, ds)
    IN  /\ count' = n
        /\ IF ~(Keys(ds) \subseteq known)
           THEN Asks(TRUE) /\ UNCHANGED <<ran, registry>>
           ELSE IF Keys(ds) # {} /\ MayCleanUp(n)
           THEN /\ registry' = AfterCleanup(registry, RepairLive(raw, ds), live)
                /\ Asks(CleanupAsks(registry, RepairLive(raw, ds), live))
                /\ ran' = TRUE
           ELSE NoHandlerEffect

\* Mutant: a status update does not compare the inventory with what is known.
HandleStatusUnchecked(r, ok) ==
    LET n == Recorded(r, ok, devs)
        enabled == AfterEnable(registry, RepairLive(r, devs), live)
        enableAsks == EnableAsks(registry, RepairLive(r, devs), live)
    IN  /\ count' = n
        /\ IF Keys(devs) # {} /\ MayCleanUp(n)
           THEN /\ registry' = AfterCleanup(enabled, RepairLive(r, devs), live)
                /\ Asks(enableAsks \/ CleanupAsks(enabled, RepairLive(r, devs), live))
                /\ ran' = TRUE
           ELSE registry' = enabled /\ Asks(enableAsks) /\ UNCHANGED ran

\* handle_status_update: what is missing is enabled before the cleanup.
HandleStatus(r, ok) ==
    LET n == Recorded(r, ok, devs)
        enabled == AfterEnable(registry, RepairLive(r, devs), live)
        enableAsks == EnableAsks(registry, RepairLive(r, devs), live)
    IN  /\ count' = n
        /\ IF ~(Keys(devs) \subseteq known)
           THEN Asks(TRUE) /\ UNCHANGED <<ran, registry>>
           ELSE IF Keys(devs) # {} /\ MayCleanUp(n)
           THEN /\ registry' = AfterCleanup(enabled, RepairLive(r, devs), live)
                /\ Asks(enableAsks \/ CleanupAsks(enabled, RepairLive(r, devs), live))
                /\ ran' = TRUE
           ELSE registry' = enabled /\ Asks(enableAsks) /\ UNCHANGED ran

-----------------------------------------------------------------------------
\* A runtime that is gone holds nothing; the next one resets what it asked.
Forgets ==
    /\ devs' = {} /\ devsOk' = TRUE
    /\ raw' = FALSE /\ statusOk' = TRUE
    /\ live' = FALSE
    /\ known' = {} /\ ran' = FALSE /\ UNCHANGED asked

Init ==
    /\ present \in Inventories /\ admitted \in BOOLEAN /\ value \in Values
    /\ devs = {} /\ devsOk = TRUE /\ raw = FALSE /\ statusOk = TRUE /\ live = FALSE
    /\ phase = "refreshing"
    /\ known = {} /\ ran = FALSE /\ asked = FALSE
    /\ count = 0 /\ reloads = 0
    /\ registry = [devices |-> {}, held |-> {}, sparse |-> "absent", repair |-> FALSE]
    /\ ghosts = 0 /\ leaked = {}

\* The gateway changes while nobody looks.
GatewayChanges ==
    /\ \/ present' \in Inventories /\ UNCHANGED <<admitted, value>>
       \/ admitted' = ~admitted /\ UNCHANGED <<present, value>>
       \/ value' \in Values /\ UNCHANGED <<present, admitted>>
    /\ UNCHANGED <<data, phase, runtime, count, reloads, registry, ghosts, leaked>>

\* First refreshes of the coordinators, one after the other.
DevicesRead ==
    /\ phase = "refreshing"
    /\ devs' = present
    /\ phase' = "refreshed"
    /\ UNCHANGED <<gateway, devsOk, raw, statusOk, live, runtime, count, reloads,
                   registry, ghosts, leaked>>

\* Mutant: whether a reload has been asked for outlives the runtime.
EstablishStillAsked ==
    /\ phase = "refreshed"
    /\ raw' = admitted /\ statusOk' = TRUE
    /\ live' = value
    /\ known' = Keys(devs)
    /\ registry' = [registry EXCEPT !.devices = @ \cup Keys(devs)]
    /\ count' = Recorded(admitted, TRUE, devs)
    /\ ran' = FALSE
    /\ phase' = "listening"
    /\ UNCHANGED <<gateway, devs, devsOk, asked, reloads, ghosts, leaked>>

\* The rest of the set-up up to its listeners does not await: devices are
\* registered and remembered, and the inventory counts as evidence.
Establish ==
    /\ phase = "refreshed"
    /\ raw' = admitted /\ statusOk' = TRUE
    /\ live' = value
    /\ known' = Keys(devs)
    /\ registry' = [registry EXCEPT !.devices = @ \cup Keys(devs)]
    /\ count' = Recorded(admitted, TRUE, devs)
    /\ asked' = FALSE
    /\ ran' = FALSE
    /\ phase' = "listening"
    /\ UNCHANGED <<gateway, devs, devsOk, reloads, ghosts, leaked>>

\* A first refresh that fails: Home Assistant sets the entry up again later.
NotReady ==
    /\ phase \in {"refreshing", "refreshed"}
    /\ phase' = "retry"
    /\ Forgets
    /\ UNCHANGED <<gateway, count, reloads, registry, ghosts, leaked>>

RetrySetup ==
    /\ phase = "retry"
    /\ phase' = "refreshing"
    /\ UNCHANGED <<gateway, data, runtime, count, reloads, registry, ghosts, leaked>>

\* Platforms create entities, with the devices they belong to, for what the
\* coordinators hold by then.  Those of the boiler move to the device that it
\* was known as, the first one listed.
CreateEntities ==
    /\ phase = "listening"
    /\ \E held \in IF known \cap Holders = {} THEN {registry.held}
                   ELSE {{key} : key \in known \cap Holders} :
        registry' = [registry EXCEPT
                     !.devices = @ \cup Keys(devs),
                     !.held = held,
                     !.repair = @ \/ RepairLive(raw, devs),
                     !.sparse = IF @ # "absent" THEN @
                                ELSE IF live THEN "enabled" ELSE "disabled"]
    /\ phase' = "forwarded"
    /\ UNCHANGED <<gateway, data, runtime, count, reloads, ghosts, leaked>>

\* The cleanup after the platforms goes by the evidence recorded last, and
\* does not compare the current inventory with what is known.
FinishSetup ==
    /\ phase = "forwarded"
    /\ IF MayCleanUp(count)
       THEN /\ registry' = AfterCleanup(registry, RepairLive(raw, devs), live)
            /\ Asks(CleanupAsks(registry, RepairLive(raw, devs), live))
            /\ ran' = TRUE
       ELSE NoHandlerEffect
    /\ phase' = "loaded"
    /\ UNCHANGED <<gateway, data, known, count, ghosts, leaked>>

\* A step after the listeners raises.  Home Assistant shuts the coordinators
\* down and does not unload; evidence and subscription stay.
SetupFails ==
    /\ phase \in {"listening", "forwarded"}
    /\ ghosts + reloads < MaxPending
    /\ ghosts' = IF asked THEN ghosts ELSE ghosts + 1
    /\ leaked' = leaked \cup {live}
    /\ phase' \in {"retry", "error"}
    /\ Forgets
    /\ UNCHANGED <<gateway, count, reloads, registry>>

\* The subscription of such a runtime delivers to listeners of its own.  They
\* go by what its coordinators hold, which the delivery may have replaced,
\* enable entities again and again, and ask for a reload once.
GhostActs ==
    /\ \E old \in leaked, repairLive \in BOOLEAN : \E lv \in {old, value}, others \in SUBSET {old} :
        /\ leaked' = (leaked \ {old}) \cup {lv} \cup others
        /\ registry' = AfterEnable(registry, repairLive, lv)
    /\ \/ ghosts > 0 /\ ghosts' = ghosts - 1 /\ reloads' = reloads + 1
       \/ UNCHANGED <<ghosts, reloads>>
    /\ UNCHANGED <<gateway, data, phase, runtime, count>>

-----------------------------------------------------------------------------
\* Polls.  A coordinator keeps its data when a poll fails, and tells its
\* listeners of the first failure only.
DevicesAnswered ==
    /\ Listening
    /\ devs' = present
    /\ devsOk' = TRUE
    /\ HandleDevices(present)
    /\ UNCHANGED <<gateway, raw, statusOk, live, phase, known, ghosts, leaked>>

DevicesUnanswered ==
    /\ Listening
    /\ devsOk
    /\ devsOk' = FALSE
    /\ HandleDevices(devs)
    /\ UNCHANGED <<gateway, devs, raw, statusOk, live, phase, known, ghosts, leaked>>

StatusAnswered ==
    /\ Listening
    /\ raw' = admitted
    /\ statusOk' = TRUE
    /\ HandleStatus(admitted, TRUE)
    /\ UNCHANGED <<gateway, devs, devsOk, live, phase, known, ghosts, leaked>>

StatusUnanswered ==
    /\ Listening
    /\ statusOk
    /\ statusOk' = FALSE
    /\ HandleStatus(raw, FALSE)
    /\ UNCHANGED <<gateway, devs, devsOk, raw, live, phase, known, ghosts, leaked>>

\* Any other coordinator whose handler enables entities.
OtherAnswered ==
    /\ Listening
    /\ live' = value
    /\ registry' = AfterEnable(registry, RepairLive(raw, devs), value)
    /\ Asks(EnableAsks(registry, RepairLive(raw, devs), value))
    /\ UNCHANGED <<gateway, devs, devsOk, raw, statusOk, phase, known, ran, count, ghosts, leaked>>

-----------------------------------------------------------------------------
\* A user, an option change or another integration reloads the entry.
ReloadRequested ==
    /\ reloads = 0
    /\ reloads' = 1
    /\ UNCHANGED <<gateway, data, phase, runtime, count, registry, ghosts, leaked>>

\* A reload task gets the lock.  Only a loaded entry is unloaded by its own
\* code; one that could not be unloaded is not reloaded.
ReloadRuns ==
    /\ reloads > 0
    /\ \/ phase = "loaded" /\ phase' = "unloading"
       \/ phase \in {"retry", "error"} /\ phase' = "refreshing"
       \/ phase \in {"failed", "torn"} /\ UNCHANGED phase
    /\ reloads' = reloads - 1
    /\ UNCHANGED <<gateway, data, runtime, count, registry, ghosts, leaked>>

\* Platforms are unloaded, then the runtime is taken apart and its evidence
\* forgotten; the entry is set up again by the same reload.
UnloadEntry ==
    /\ phase = "unloading"
    /\ count' = 0
    /\ Forgets
    /\ phase' = "refreshing"
    /\ UNCHANGED <<gateway, reloads, registry, ghosts, leaked>>

\* A platform refuses: the runtime stays as it is.
UnloadRefused ==
    /\ phase = "unloading"
    /\ phase' = "failed"
    /\ UNCHANGED <<gateway, data, runtime, count, reloads, registry, ghosts, leaked>>

\* A session that cannot be closed: the runtime is gone all the same.
UnloadTorn ==
    /\ phase = "unloading"
    /\ count' = 0
    /\ Forgets
    /\ phase' = "torn"
    /\ UNCHANGED <<gateway, reloads, registry, ghosts, leaked>>

\* Home Assistant restarts; only the registry is stored.
Restart ==
    /\ phase' = "refreshing"
    /\ count' = 0 /\ reloads' = 0
    /\ ghosts' = 0 /\ leaked' = {}
    /\ Forgets
    /\ UNCHANGED <<gateway, registry>>

-----------------------------------------------------------------------------
Environment == GatewayChanges \/ ReloadRequested \/ Restart \/ SetupFails

Setup == DevicesRead \/ Establish \/ CreateEntities \/ FinishSetup
Polls == DevicesAnswered \/ DevicesUnanswered \/ StatusAnswered \/ StatusUnanswered
         \/ OtherAnswered
Unload == UnloadEntry \/ UnloadRefused \/ UnloadTorn

Next ==
    \/ Environment
    \/ Setup \/ NotReady \/ RetrySetup
    \/ Polls \/ GhostActs
    \/ ReloadRuns \/ Unload

Spec == Init /\ [][Next]_vars

\* Polls are timed and now and then answered, also those of a set-up that is
\* tried again and again; the rest is one task that runs when it can.
Fairness ==
    /\ SF_vars(DevicesRead) /\ SF_vars(Establish)
    /\ WF_vars(CreateEntities) /\ WF_vars(FinishSetup)
    /\ WF_vars(RetrySetup) /\ WF_vars(ReloadRuns) /\ WF_vars(Unload)
    /\ WF_vars(DevicesAnswered) /\ WF_vars(StatusAnswered) /\ WF_vars(OtherAnswered)

FairSpec == Spec /\ Fairness

-----------------------------------------------------------------------------
(***************************************************************************)
(* Properties                                                              *)
(***************************************************************************)

\* Types.
TypeOK ==
    /\ present \in Inventories /\ admitted \in BOOLEAN /\ value \in BOOLEAN
    /\ devs \in Inventories /\ devsOk \in BOOLEAN
    /\ raw \in BOOLEAN /\ statusOk \in BOOLEAN /\ live \in BOOLEAN
    /\ phase \in {"refreshing", "refreshed", "listening", "forwarded",
                  "loaded", "unloading", "failed", "torn", "retry", "error"}
    /\ known \subseteq Devices /\ ran \in BOOLEAN /\ asked \in BOOLEAN
    /\ count \in 0..EvidenceNeeded
    /\ reloads \in Nat
    /\ registry \in [devices : SUBSET Devices, held : SUBSET Devices,
                     sparse : {"absent", "enabled", "disabled"}, repair : BOOLEAN]
    /\ ghosts \in 0..MaxPending /\ leaked \subseteq BOOLEAN

\* A runtime asks for a reload only once.  The one it asked for is never lost:
\* until the runtime is unloaded a reload task waits.
AskedReloadPending ==
    phase \in {"listening", "forwarded", "loaded"} /\ asked => reloads > 0

\* Devices leave the registry only with evidence, and evidence always means
\* that the admission is trusted now and the inventory not empty, whichever
\* of the two was polled last and whatever failed between.
CleanupNeedsEvidence ==
    [][registry.devices \ registry'.devices # {}
        => Allowed(count') /\ Trusted(raw', statusOk', devs')]_vars

\* A cleanup that an update brings about never removes a device that is part
\* of the inventory; the one at the end of a set-up is not an update.
UpdateCleanupKeepsReported ==
    [][phase' = phase => devs' \cap (registry.devices \ registry'.devices) = {}]_vars

\* Once the gateway no longer changes, nobody reloads the entry and no set-up
\* breaks off after its listeners run, the entry settles as loaded, knows
\* everything that is reported, and is not reloaded again; unless a leaked
\* runtime still shows a value that is gone, and enables what every clean-up
\* disables.
ReloadsConverge ==
    <>[][~Environment]_vars /\ <>[](TRUE \in leaked => value)
        => <>[](Stuck \/ (phase = "loaded" /\ Keys(present) \subseteq known /\ reloads = 0))
=============================================================================
