# Verification of the Helianthus Home Assistant integration

TLA+ models of `custom_components/helianthus`, the TLC runs that check them on
small instances, and TLAPS proofs of their main properties for every value of
the constants. `PROJECT.json` lists the runs, the source lines of every
definition, the hazards, the findings and the theorems.

To check a run: `tlc -config MCX.cfg MCX.tla`. To check a proof module:
`tlapm XProofs.tla`.

## 1. The system

The integration polls a Helianthus gateway over GraphQL, receives deltas on a
websocket, shows what it learns as Home Assistant entities and devices, and
writes configuration registers of the heating controller. Everything runs on
one event loop: two pieces of code interleave only where one of them awaits,
and that is where the models have their steps.

| Component | State | Operations | What is hard | What makes it correct |
| --- | --- | --- | --- | --- |
| Semantic coordinator (`coordinator.py`), subscription (`subscriptions.py`), freshness (`semantic_freshness.py`) | private cache of zones and DHW, gap counters, stale marks; published payload and health | poll answered / rejected / failed, zone and DHW events, socket life, reload | polls and events interleave; a failed poll empties the cache but not the payload | writes only to targets that were just observed; bounded retention per target |
| Radio inventory (`coordinator.py`), zone parents (`zone_parent.py`, `entry_setup.py`) | slots and their ages; persisted bindings, baseline, device registry | poll, event, set-up, reload, restart | one age fed by polls and events; three sources of a parent that may disagree | silence moves nothing; parents settle |
| All other coordinators (`coordinator.py`, `coordinator_fetch.py`, `coordinator_availability.py`, `energy.py`) | which query to send, what is switched off, cooldown, back-off, held totals | refresh, fallback query, event, reprobe | one bad answer may have a lasting effect | support is lost on evidence, and comes back where that is promised |
| Entry lifecycle and registry cleanup (`entry_setup.py`, `admission.py`) | known inventory, evidence, flags, registry | set-up, updates, cleanup, reload, unload | listeners run during set-up and unload; several coordinators feed one decision; the registry outlives runtimes | no cleanup without evidence; no lost reload, no reload loop |
| Entities' registration (`sensor_setup.py` and the platforms, against the tables of `entry_setup.py`) | entity registry | create, remove, disable, enable | two tables of the same data, read at different moments | the cleanup spares what the platforms create |
| Entry identity (`__init__.py`, `identity.py`, `config_flow.py`) | GUIDs, endpoints, options of entries | verify, migrate, search, refuse, merge, remove; config flow | several entries of one gateway load together, requests time out | one owner for each gateway, options kept |
| PV, storage, EVSE boundaries (`pv_m2m.py`, `storage_m2m.py`, `evse_m2m.py`) | descriptor stores in the options, sessions, data, sensors | open, poll, persist, publish, save options, close | a write of options around an await, closes that raise, crashes before the options reach the disk | a fact keeps its id; sessions are released; only backed facts are shown |
| Register writes (`climate.py`, `water_heater.py`, schedule helpers, `graphql.py`) | a call's progress; the controller's registers | fence, post, retry, next write | an answer may be lost after the write took effect; several writes make one change | prefix of the program; no half-made holiday |
| Configuration entities (`number.py`, `text.py`, `date.py`, `select.py`) | none of their own | read, validate, post | conversions there and back, dynamic bounds | what was asked is shown afterwards |
| Read-only entities (`sensor.py`, `binary_sensor.py`, `calendar.py`) | none of their own | state, availability, attributes | payloads of any shape, several spellings of an id | an entity shows its own target |
| eeBUS pairing broker (`eebus_pairing.py`, `eebus_admin_services.py`, `eebus_admin_coordinator.py`) | reservation, owned action, cached outcome, generation | connect, status, poll, close, abort, expire, reset | many clients around one ownership; answers return in any order | outcomes reach the right poll, late answers harm nobody, the broker becomes free |
| Snapshot coordinator (`semantic_snapshot_coordinator.py`) | tasks, lock, health | start, refresh, close, poll, cancellation anywhere | shielded reads, cancellation while joining | one read, one timer, open polls |
| Migration transaction (`semantic_migration_transaction.py`) | owner, token, journal | migrate, recover, drain, attach | every await may fail, be cancelled or be the last before a crash | one writer, and only the one the journal names |
| Start-up spot check (`smoke_profile.py`) | deadlines, stable window, outcomes, a worker process | Phase A checks, Phase B samples, checklist | two deadlines, a killable request, an admission that flips | OK is earned, failures are kept, it ends |
| Snapshot decoding, migration plan, parity gates, admin client | none of their own | pure functions, I/O | case analysis | agreement with their contracts |

Who calls whom: Home Assistant sets an entry up; `entry_setup.py` verifies its
gateway, builds the coordinators, starts the subscription task, registers
listeners, opens the boundaries and forwards the platforms. Coordinators publish
to listeners synchronously; a listener may ask for a reload, which runs as a task
of its own after the set-up lock is free. Entities read the published payload
and, when they write, look at the fence built from it and from the admission
status. Services, options flow and status coordinator share the pairing broker.
Unload runs `entry_cleanup.py`. The spot check is a program of its own that an
operator runs against the same gateway.

`PROJECT.json` names the hazards line by line. One has no property
(`climate.py:551`); its note says why.

## 2. Modules

One module for each component, an `MC` module with its small sets, one
`.cfg` for each question, and eight `Proofs` modules. A proof module extends the
`MC` module where a run composes several modules, so that it speaks of what that run
checks; the constants stay open.

### Behaviours

**SemanticRetention.** `lastZones`, `zoneGapCycles`, `staleZoneIds`, `lastDhw`,
`dhwGapCycles`, `dhwIsStale` are the coordinator's private fields; `data` and
`lastUpdateSuccess` are what Home Assistant keeps and entities read. `Poll` is
`_async_update_data` in its three outcomes, `ZoneEvent` and `DhwEvent` are
`apply_zone_subscription` and `apply_dhw_subscription` with the merge of
`subscriptions.py`, `Connect` and `SubscriptionEnds` the socket, which never
reconnects. Readings are presence only. `zoneOmissions` and `dhwOmissions` are
history variables: materializations since the target was observed.
`RetainedTarget` is the abstract contract of one target (held, gap, stale);
`DhwTarget` and `ZoneTarget` (in `SemanticZoneRefinement`) are the refinement
mappings.

**RadioParents.** `age` is a slot's stale cycles, -1 once it is forgotten;
`RadioPoll`, `RadioEvent` and `RadioForgotten` are the ways the inventory is
replaced, all through `_materialize_snapshot`. `SelectZoneRadio` is the order of
preference among candidates, `Parent` the fall-back from a live parent to the
retained binding, `SetUp` what a set-up or reload does with both and with the
radio slots' entities, `Handled` what a listener makes of a change. `baseline`
is what the runtime began with, `registry` what Home Assistant has.

**GatewayQueries.** A payload is the set of parts it carries. `stage` is the
query under way, `asked` its parts, `off` what is switched off, `due` and `delay`
the timers. A behaviour follows one coordinator (`focus`), as they share nothing but
the gateway, whose schema changes and whose link comes and goes.
An answer is data, missing fields, a resolver error, a time out or no object.
Events postpone the refresh as `async_set_updated_data` does.

**EntryInventory.** `devs`, `raw`, `live` with their success flags are the
coordinators' data; `known`, `ran`, `asked` the closure variables
`known_bus_devices`, `cleanup_ran`, `reload_scheduled`; `count` the
evidence in `hass.data`, which survives a failed set-up; `registry` survives
restarts. `DevicesRead`, `Establish`, `CreateEntities`, `FinishSetup` are the
stretches of `async_setup_entry` between its awaits. `HandleDevices` and
`HandleStatus` are the listeners, which run whole inside the step that
publishes. An inventory is a set of devices and, possibly, of sightings without an
identity (`Sighting`): these have no key (`Keys`), so that nothing is registered for
them, but an inventory of them is not empty and counts as evidence. `registry.held`
are devices on which some other entity is registered, which the clean-up
leaves alone. `SetupFails` leaves listeners behind: each may ask for one more reload
(`ghosts`), and they enable the optional entity by the data of their own
coordinators (`leaked`) whenever the subscription delivers (`GhostActs`). One
optional entity stands for all sparse entities, which `EntityRegistry` tells apart.

**EntryIdentity.** `guid`, `host`, `options` are the entries', `live` is which gateway
answers at an endpoint. A set-up verifies its entry (`Verified`, `Unverified`, `Migrates`),
asks the other entries' gateways one after the other (`Ask`, `Answer`, each at the endpoint
that was captured before the request), and then gives way (`Refuse`: merge the options,
remove later) or keeps the entry (`Keep`: bind the GUID and the endpoint it read). The
config flow finds a gateway and repairs, adopts (`FlowTries`, `FlowAdopts`) or creates an
entry, with its own requests in between. An option is a pair of its name and the entry that
set it: one name is the entry's own and one is shared by all, on which entries that merge
conflict. `lost` and `strayed` are history variables for the exceptions of the two
properties.

**M2MBoundary.** `phase` and `at` are how far set-up or clean-up has come among the
consumers in `Order`, the platforms and the snapshot behind them included (`forwarding`);
per consumer the options with the store in them, as they are and as they were last written
(`disk`), the session, the data, the poll under way, the sensors. A poll's answer may arrive
after the close. A configuration that a boundary refuses leaves none; platforms or a
snapshot that raise leave the boundaries behind (`SetupFails`), polled for ever if their
sensors exist already (`stuck`); and an unload may raise before it comes to the boundaries
(`CloseNotReached`) or among them (`CloseRaises`). `Loaded` is the reading of the store,
with the older schema and the corrupt one. A crash brings back the options and stores that
were last written. `named` is the history of unique ids that a fact has had, and `unsaved`
the consumers whose asset was changed since the last write: a crash takes such a change
back, and with it what the ids were for.

**RegisterWrites.** A call is a program of writes (`ActivateAway` in the order
of `_activate_away`, `CancelThenMode`, and calls of one or two registers that
nothing else depends on). `WritePosted` and `WriteBlocked` are the fence and
the first post of `_write_ext_register`; `PostFails` and `PostRepeated` the loop of
`GraphQLClient.execute`. `net` holds posts the gateway may still carry out,
also when their sender has given them up. `shown` is what the last poll saw of the
holiday, by which `_cancel_away` decides.

**ActionTerminalBroker.** Fields of `EEBusActionTerminalBroker`, and one
request for each client, whose answer may wait while others' answers return. A
generation snapshot is used for one comparison only, so the model keeps the
clients whose snapshot is current (`captured`, `owners`) and every change of
generation empties the set. The gateway is external: one active action, whose
outcome it may stop reporting.

**SnapshotCoordinator.** Tasks with their asyncio states: a cancelled task is
alive until it has run once more. The lock, the read and the timer tasks,
and each caller's await. The value read is the name of the read.

**MigrationTransaction.** `pc` is the await at which the lock's holder is.
At each one the call succeeds, fails or is cancelled, having taken effect
or not (`Interrupted`), or the process crashes. The journal and the attachment
callbacks are injected in the code and modelled from the contracts it states.
`OwnershipHandoff` is the abstract contract: the writer changes only
through "nobody", and the decision changes only while nobody writes.

**StartupSpotcheck.** Phase A's four checks as functions of the class of an answer,
Phase B as a loop of samples with a clock, a window (`stable`), what was observed,
and a request that is a worker process with a budget (`WorkerSends`, `Receive`,
`RequestTick`). The v1 checklist is a way of its own through the same
checks. `seen` and `trace` are history variables.

### Decisions

Code without state of its own is a set of operators and a set of cases. A case is
an initial state; its property compares the operators with a definition that
does not follow them.

**EntityRegistry.** `Known` and the tables that set-up derives from the data it
begins with; `Created`, the entities that every platform creates from the data it finds;
`Removed`, `ToEnable`, `ToDisable`, what the cleanup does; `Asks`, what updates ask a reload
for. A case is two such data, before and after.

**ConfigEntities.** What each configuration entity shows of a cell of its
payload (`AsFloat`, `AsOption`, `AsCode`), when it is available, its bounds, and what it
posts for what is asked (`InRange`, `Digits`, `Code`, ...). `Took` is the gateway
after the write.

**EntityViews** extends it with what each class of read-only entity, a thermostat
and the water heater show of a list of items, some of which are its own target
under one spelling or another, and with the calendar's events.

**M2MContract.** What the three consumers accept of an answer: candidates,
evaluations, selections and projections, each entry abstracted to the first flaw
it has.

## 3. Runs

Modules that share no state are checked in one run when they answer one
question. The variable `subject` of the MC module then picks, in the initial
state, what a behaviour is about; the others rest. Their fairness is conditional on the
subject. A decision is a state without steps: these runs do not check deadlock,
and neither do `migration`, whose config entries come to rest, and `m2m`, whose
faults and saves are bounded.

| Run | Instance | Checks |
| --- | --- | --- |
| `retention` | three zones and DHW, limit 2; or four radio slots, two zones, grace 3, two changes | both write fences, `ReturnsOnlyWhenObserved`, `ZoneStepsKeepTarget`, `DhwImplementsTarget`, `UnobservedZoneExpires`, `SilenceKeepsParents`, `ParentsSettle` |
| `retention_expired` | two zones | finding 1: `ZoneRetentionBounded` is violated |
| `migration` | one pair of writers; or three config entries, two gateways, two endpoints; or two entries, a config flow and one change | `NoOverlappingWork`, `CommitIsFinal`, `HandsOverThroughDecision`, `OperationEnds`, `OptionsSurvive`, `RefusedHaveOwner` |
| `broker` | one flow, one service, two actions | `OutcomesMatch`, `StaleAnswersHarmless`, `OutcomesKept`, `BusyEnds` |
| `snapshot` | two callers, three reads, two timers | `OneReadOneTimer`, `OpenIsPolled`, `CallsReturn` |
| `entry` | one device and an entity with or without a value; or two devices; or one device and sightings; or pairs of data that differ in one part | `AskedReloadPending`, `CleanupNeedsEvidence`, `UpdateCleanupKeepsReported`, `ReloadsConverge`, `RegistrySettles` |
| `merged_slot` | pairs of data | finding 4: `MergedSlotKeepsConnected` is violated |
| `register_writes` | two calls, overlapping or one after the other | `CallsApplyPrefix`, `SerialHolidayHasEnd`, `CallsReturn` |
| `register_replay` | one call, two retries | finding 2: `NotReplayed` is violated |
| `m2m` | PV and EVSE with two and one facts, room for one descriptor, two assets, one save of EVSE's asset, one fault; or PV alone with two saves; or an answer of two facts | `DescriptorsLast`, `RunsSavedOptions`, `SessionsReleased`, `AnswersBacked` |
| `gateway` | each of ten coordinators; the spot check with two sources; all cases of the entities and the calendar | `SupportLostOnEvidence`, `TotalsFallOnlyBehindEvents`, `PartsReturn`, `VerdictEarned`, `SpotcheckEnds`, `WritesSettle`, `ShowsItsTarget` |
| `inventory_fallback` | the inventory coordinator | finding 3: `InventoryFallsBack` is violated |

Every property of a passing run has a mutant in `PROJECT.json`: a plausible
slip in the code (one gap too many, a guard dropped, dates first, evidence
counted without an inventory, a window kept over a change of source) with which
TLC finds that property violated. The type invariants are conjuncts of
`VerdictEarned`, `DescriptorsLast` and `SilenceKeepsParents`, or theorems.

### What some properties except

A property says what the code achieves; where it stops short, the exception
is named in the property.

- `RunsSavedOptions` excepts options saved while the boundaries are being opened
  (`missed`): the signatures are taken after that, so nobody notices them.
- `DescriptorsLast` excepts a change of the asset: by the user, or by a crash that takes
  the user's back. Of a choice that was not written yet nothing is promised.
- `SessionsReleased` says which sessions an exception may leave: in the step that raises, and only
  those that it does not reach. No step before or after it leaves one, whatever has failed earlier.
- `ReloadsConverge` excepts a leaked runtime that shows for good a value that the gateway
  does not have: it enables what every clean-up disables.
- `SupportLostOnEvidence` excepts the boiler's root field, which one answer
  that is no object switches off and the next refresh on again. `PartsReturn`
  speaks of the parts that come back by themselves: schedules and the details of
  system and boiler do not until the entry is reloaded.
- `TotalsFallOnlyBehindEvents`: totals of an event are not what a failing poll
  holds on to, so that after an event a failing poll shows older ones.
- `RefusedHaveOwner` excepts entries that found another gateway behind an alias
  after their own endpoint had timed out (`strayed`); `OptionsSurvive` excepts the options of
  an owner that was refused itself or replaced by a config flow (`lost`); that no owner's value is
  overwritten is without exception.
- `ShowsItsTarget` lets solar, cylinder and radio entities be available after a failed poll,
  as their `available` looks at the payload only, and asks the stale mark under
  the spelling that the entity was set up with.
- `WritesSettle` excepts NaN, which no comparison refuses.
- `RegistrySettles` excepts the entity of a merged slot (finding 4).

### Bounds

- `TransientGapLimit`, `EvidenceNeeded` (2) and the grace of radio slots (3) have
  the code's values. History counters stop at the limit plus one: the
  properties do not tell larger values apart.
- Three zones: one that an event names, one retained beside it, one expired. Of
  radio slots there is the one each mapping means, another of the same group, and one of
  the inventory group. `MaxChanges` 2: one change that moves something and one
  while it settles; polls, set-ups and reloads are not bounded.
- One flow and one service are every kind of client the broker has; two
  actions are needed for an outcome of the wrong one.
- Two callers of the snapshot coordinator can hold each other up in every way
  the lock allows; three reads are one that runs, one being cancelled and one
  whose value is held; two timers one before and one after a restart.
- `MaxPending` 1: a set-up breaks off with listeners running only while no
  other such reload waits. Reload requests from outside are made while none
  waits; they are idempotent.
- One device suffices for convergence, which compares sets as wholes; two let an
  inventory be incomplete without being empty; a device beside sightings lets an
  inventory be non-empty without a keyed device. Runtimes leak with one device only. Pairs of data in the registry cases
  differ in one part (bus, one radio slot, targets, solar, status): the families of
  different parts read different data, except for the merge of slots with bus
  devices, which is within one part.
- Three entries of two gateways: two that could give way to each other, and one
  that could give way to either. One change (a gateway moves, an entry is disabled, a flow writes)
  beside two entries.
- Two consumers: what a boundary does to one opened before or after it.
  `FactLimit` 1 of two facts reaches the limit; one save, of EVSE's asset, and one fault, from
  empty stores, with any number of polls, reloads and restarts. PV alone starts from any store and has two saves, so that an asset
  can be chosen and given up again, before or after the choice is written.
- Answers of two facts: one has an accounting of its own in each consumer
  (`Special`), the other stands for the rest.
- Times are in units: cooldown 2, back-off 1 then 2, target 2 of 4 with
  requests of up to 2. The doubling and its maximum, a target met just before the deadline,
  and a request that outlives it are all reached.
- Fields are counted in half steps between 0 and 4, texts have up to two characters:
  a value below, at, between and above each bound, and empty, short and long texts.
- `Retries` is 1 in the passing write runs and 2, the code's, in the finding;
  the first and the last retry differ, those between do not. `MaxLate` 1: one
  post beyond its sender's patience, at each moment.

## 4. Fairness

Liveness is checked under weak fairness, and only of these:

- *Retention*: the periodic polls keep happening (Home Assistant's update
  timer) and a scheduled reload runs. Of the semantic gateway's answers and events nothing is assumed;
  `ParentsSettle` holds because `MaxChanges` bounds the changes.
- *Migration*: injected calls return and a writer's callback ends, as the contract in
  `Callbacks` demands; without it a join waits for ever by design.
- *Broker*: time passes, and a request returns or times out (the session has a
  total time out).
- *Snapshot*: a read ends (the client has a time out), and every task that can
  run does.
- *Entry*: set-up steps, reload and unload tasks run; the polls of the three
  kinds of coordinator are answered now and then. The first two set-up steps
  are strongly fair because a failed first refresh disables them again and
  again, and a gateway that answers now and then answers such a set-up too.
  `ReloadsConverge` is conditional on the environment becoming quiet.
- *Writes*: the task of a call runs, a pause ends, and an unanswered post times
  out (10 s each).
- *Gateway*: time passes, a refresh that is due is sent, and a request ends.
  `PartsReturn` is conditional on a link that stays up. The spot check's loop runs
  and its clock advances; of its worker nothing is assumed.

## 5. What is proved

Every safety and every action property of the passing runs is a theorem, for every value
of the constants: any set of zones, devices, clients, callers, calls, entries, consumers
or facts, and any limit, range or grace. So is each abstract specification the runs
refine. The assumptions are the `ASSUME`s of the modules: limits are naturals, evidence
is at least one, distinguished values are distinct, field ranges are whole steps. TLC
evaluates them.

Each proof rests on an inductive invariant; what it adds to the property says why the
code works.

- **SemanticRetentionProofs.** Types and the agreement of payload and cache do
  not suffice: the fences
  also need that whatever is cached is published, that a published zone that
  was missed or dropped is marked stale (`MissedIsStale`), and that the DHW gap
  counts exactly its omissions. From `RetentionInv` follow both fences, the
  bound on DHW, `ReturnsOnlyWhenObserved`, the refinement of
  `RetainedTarget` by DHW and `ZoneStepsKeepTarget`. The bound on zones needs
  `GapCountsOmissions` as well, which only `QuietSpec` (no zone event on a failed poll)
  preserves; that it is false of `Spec` is finding 1. Of the radio slots,
  `SilenceKeepsParents` needs the types only, but of a choice: the candidate that
  `SelectZoneRadio` takes is a least element, so that it is a listed slot, and
  a parent that a set-up keeps is the one the registry has.
- **MigrationTransactionProofs.** The inductive `HandoffInv` says for every await what
  the journal may hold (`JournalAtPoint`) and how far the pair is drained
  (`DrainedAtPoint`). From it follow that the writer is the one the journal names,
  that attachment finds the pair drained, `NoOverlappingWork`, `CommitIsFinal`
  and the refinement of `OwnershipHandoff`. Of the config entries, `EntryInv` says
  that only stored entries are set up and that what a refused one had set is held by
  one that stays. `SettledInv` says what a search may believe while no gateway moves and no
  entry strays: the best owner it found still owns the gateway, and one that is no longer there gave
  way to an earlier one, so that the earliest is there: hence `RefusedHaveOwner`.
- **ActionTerminalBrokerProofs.** A cached outcome is about the owned action if there
  is one, a poll with a current snapshot polls for the owned action, and
  answers name actions. All safety properties of the run follow, and that a flow
  gives up no action but its own.
- **SnapshotCoordinatorProofs.** Every live task is referenced, only the
  lock's holder cancels, joins happen on a closed coordinator, nobody awaits a
  cancelled read while it is open. From it follow the safety properties of the
  run, that a close leaves no task, and that a closed coordinator takes nothing.
- **EntryInventoryProofs.** Evidence is about the data held now
  (`EvidenceCurrent`); without it the cleanup at the end of a set-up could go by
  evidence that no longer holds. Gives the two cleanup properties and
  `AskedReloadPending`. `RegistrySettles` is proved of any two data, not of the run's
  pairs only: what a set-up creates is founded on its tables, the clean-up
  spares what is founded, and after the reload asked for both read the same data.
- **RegisterWritesProofs.** Posts never run ahead of their call, a call that
  has not started has neither posts nor writes, and "accepted" means carried out:
  hence `CallsApplyPrefix`. For serial calls, `SerialInv` adds that at most one call
  is engaged (running or with a post under way) and what it has made of the dates so far:
  hence `SerialHolidayHasEnd`.
- **M2MBoundaryProofs.** `LifeInv` says who may be polling, which boundaries run the saved
  options and which sessions are closed at each point of a set-up or a close;
  `OrphansStep` compares it before and after each step: hence `SessionsReleased`, for any order
  of consumers and any number of exceptions.
  `NameInv` relates descriptors, store, disk and the history of ids: the ids on disk are those in
  use unless the asset was changed since the last write. `AnswersBacked` is
  proved of any answer over any set of facts.
- **GatewayProofs.** Of the queries, `QueryInv` says which stages a coordinator may be in,
  that what a refresh has drafted and asked for are its own parts, and that held totals were polled.
  Of the spot check, `SpotInv` relates the window to the trace of samples and the outcomes to what was
  seen at each step. Configuration entities settle for any range and length, with rounding to even
  within whole-step bounds. Read-only entities and the calendar are honest over lists of
  items and slots of any length: the first match is a least index, and alone it tells the same.

Only model-checked: the liveness properties (`UnobservedZoneExpires`, `ParentsSettle`,
`OperationEnds`, `BusyEnds`, both `CallsReturn`, `ReloadsConverge`, `PartsReturn`,
`SpotcheckEnds`), which are out of the prover's reach, and the violations behind
the findings, which are counterexamples.

Proof attempts changed the models where these were wrong. `NameInv` was not inductive
while the disk kept the stores without the options and a run allowed one save: a crash that takes
back a change of asset was missing. Three operators chose among overlapping conditions
with `CASE`, of which TLC takes the first and TLA+ any; they are `IF`s now (among them
`Rounded`). Searches for a first item are least indices, not folds.

## 6. Findings

1. **Expired zones come back** (`retention_expired`; `coordinator.py:988`). When
   polls fail until the cache is empty, Home Assistant still holds the last
   payload. An event for one zone is merged into that payload and becomes the new
   cache, with all its siblings and without gaps. README.md:161–174 promises that
   a third gap expires a retained value and that one zone's update cannot
   postpone another's expiry. They stay marked stale, so the write fence holds.
2. **An uncertain invoke is replayed** (`register_replay`; `graphql.py:71`).
   `docs/adversarial-runtime-contract.md:50` says of an invoke whose transport
   failed: "Do not automatically replay it". `GraphQLClient.mutation` is
   `execute`, whose loop posts a mutation up to twice more after a time out or
   a connection error. Writes of one value are idempotent and `CallsApplyPrefix`
   holds all the same; but a late duplicate may overtake a newer call, and repeats do not pass
   the fence again.
3. **The smaller inventory queries are out of reach** (`inventory_fallback`;
   `coordinator_fetch.py:54`, `:66`). A missing field is a `GraphQLResponseError`,
   whose handler stands behind the one of its base class: the refresh fails. A
   gateway without one field of the larger tiers gets no inventory at all, where
   `docs/physical-model-metadata-contract.md:90-103` promises the next tier.
4. **A merged slot loses its connected entity** (`merged_slot`;
   `entry_setup.py:1175`). `binary_sensor.py:299` and a test put that entity under
   the bus device; the cleanup after the platforms removes it, since
   `device_ids.py:143` counts every merged slot as missing.

Behaviour the models follow without calling it wrong: two calls on one entity are not
serialised; evidence may be counted twice on one reading of the inventory; the cleanup at
the end of a set-up may remove a device reported meanwhile, which the pending reload
registers again; a set-up that cannot verify its gateway writes back the GUID that it read
before its request (`entry_setup.py:467`), also over one that a flow has repaired meanwhile;
an error other than a missing field in the gateway's metadata fails the whole system refresh
(`coordinator.py:1459`). Of a set-up whose platforms raise, the model of the boundaries ends
in `stuck`, which only a restart leaves: Home Assistant unloads nothing of such an entry.
What is not followed is a user who sets it up again there: that would open the boundaries
once more and fail at the platforms that are still loaded.

## 7. Plan

Done: every component with state is modelled, and every safety and action property that a
passing run checks is proved. What could be added:

1. *More of what the invariants give*: when a boundary's session is open, which drafts
   a refresh may publish.
2. *Conditional bounds*: the age of a radio slot that is still available (from the types
   of RadioParents), the totals after events stop.
3. *Wider data in the `registry` run*, whose theorem already holds of any two data.

New theorems about a module join the proof module of the run that checks it.

## 8. Not modelled, and why

- *The smoke profile's HTTP framing, redaction and command line*: byte-level
  parsing and printing. The verdicts it works towards are modelled.
- *The other scripts and `parity_gate.py`*: they compare files, or drive a
  container from outside; they keep no state that the integration shares.
- *Decoding of typed snapshots* (`semantic_snapshot.py` and its sensors): a pure
  function of one message, all or nothing. The coordinator's life around it is modelled.
- *The migration plan* (`semantic_migration_plan.py`): a listing computed for the
  user from two registries, which the integration does not execute.
- *eeBUS administration*: parsing and validating answers, forms of the pairing
  steps, selection of a candidate. What they decide is which candidate a
  connect names; the broker around it is modelled.
- *Identifiers*: migrations of unique ids from camel case and of bus devices'
  identifiers, one-time renamings within the set-up.
- *Fans, valves and switches* (`fan.py:50`, `valve.py:71`, `switch.py:55`): their platforms create no
  entity at this commit.
- *Modes, presets and attributes of climate and water heater entities*: their
  writes, fences, temperatures, availability and stale marks are modelled; the
  rest are readings of one payload.
- *The window of `climate.py:551`* (a holiday not polled yet is not
  cancelled): the code promises nothing there.
- Logging, translations, names and icons; TLS and sessions below `aiohttp`.
