----------------------------- MODULE M2MBoundary -----------------------------
(***************************************************************************)
(* The PV, storage and EVSE boundaries of one config entry (pv_m2m.py,     *)
(* storage_m2m.py, evse_m2m.py, their set-up and tear-down in              *)
(* entry_setup.py and entry_cleanup.py, their sensors in sensor_setup.py). *)
(* Each boundary has a private HTTPS session and a coordinator; the        *)
(* descriptors of every fact ever seen are kept in the entry's options,    *)
(* and HA writes all options to disk some time after they changed.         *)
(* Home Assistant may die, the set-up of a later boundary, of a platform   *)
(* or of the semantic snapshot may fail, a close may raise, and the user   *)
(* may save other options at any time.                                     *)
(***************************************************************************)
EXTENDS M2MContract, Sequences, SequencesExt

CONSTANTS Order,       \* consumers in the order of set-up and of close
          Assets,      \* asset_ref values
          FactsOf,     \* per consumer: facts its gateway route may report
          FactLimit,   \* M2M_MAX_FACTS
          MaxRevision, \* bound: semantic revision of an EVSE snapshot
          MaxSaves,    \* bound: option changes by the user
          MaxFaults    \* bound: crashes and exceptions

ASSUME BoundaryConstants ==
    /\ Order \in Seq(Consumers) /\ IsInjective(Order) /\ Assets # {}
    /\ FactsOf \in [Consumers -> SUBSET FactIds]
    /\ {FactLimit, MaxRevision} \subseteq Nat \ {0}
    /\ {MaxSaves, MaxFaults} \subseteq Nat

VARIABLES
    phase,    \* of the config entry
    at,       \* position in Order while boundaries are opened or closed
    options,  \* per consumer: enabled and asset_ref
    store,    \* per consumer: descriptor store in entry.options
    disk,     \* options and store as HA last wrote them
    running,  \* per consumer: the options its boundary was opened with
    applied,  \* option signatures in the runtime data
    client,   \* per consumer: its HTTPS session
    polling,  \* consumers with a request under way
    data,     \* per consumer: descriptors and source_available of coordinator.data
    revision, \* _last_semantic_revision of the EVSE coordinator; 0 is None
    sensors,  \* per consumer: facts with a sensor entity
    check,    \* the update listener is to run
    reopen,   \* the unload is part of a reload
    saves, faults,
    missed,   \* history: options were saved while boundaries were opened
    orphans,  \* history: sessions nobody will close
    named,    \* history: unique ids used since an asset_ref was last changed, or
              \* since a crash that took a change of the asset back
    unsaved   \* history: consumers whose asset, in the options or in the store,
              \* was changed since HA last wrote

environment == <<saves, faults, missed, orphans, named, unsaved>>
vars == <<phase, at, options, store, disk, running, applied, client, polling, data,
          revision, sensors, check, reopen, environment>>

Kinds == Range(Order)
Uids == {"none", "built", "legacy"}
NoUids == [f \in FactIds |-> "none"]
Used(uid) == {uid} \ {"none"}
Known(uids) == {f \in FactIds : uids[f] # "none"}

\* NoStore: there is none; "legacy" ids are those of a store of schema 0
Stores == [asset : Assets, schema : {"v0", "v1", "corrupt"}, uids : [FactIds -> Uids]]
NoStore == [asset |-> CHOOSE a \in Assets : TRUE, schema |-> "v1", uids |-> NoUids]
NoData == [uids |-> NoUids, available |-> FALSE]
Off == [enabled |-> FALSE, asset |-> CHOOSE a \in Assets : TRUE]

\* Mutant: the unique ids of a store of schema 0 are built anew
LoadedRebuilt(k, asset) ==
    IF store[k].asset # asset \/ store[k].schema = "corrupt" THEN NoUids
    ELSE [f \in FactIds |-> IF store[k].uids[f] = "legacy" THEN "built" ELSE store[k].uids[f]]

\* _load_descriptor_store: another asset's or an unreadable store counts as
\* empty; EVSE does not know schema 0
ReadStore(from, k, asset) ==
    IF from.asset = asset /\ from.schema # "corrupt" /\ (from.schema = "v0" => k # "evse")
    THEN from.uids ELSE NoUids
Loaded(k, asset) == ReadStore(store[k], k, asset)

-----------------------------------------------------------------------------
\* A store of schema 0 keeps the unique ids it was written with
StartStores(k) ==
    {NoStore} \cup
    {[NoStore EXCEPT !.schema = s, !.uids = [f \in FactIds |-> IF f = Special THEN u ELSE "none"]]
        : s \in {"v0", "corrupt"}, u \in {"legacy"}}

Init ==
    /\ phase = "off" /\ at = 1
    /\ \E on \in SUBSET Kinds : options = [k \in Consumers |-> [Off EXCEPT !.enabled = k \in on]]
    /\ store \in {[k \in Consumers |-> s] : s \in StartStores("pv")}
    /\ disk = [options |-> options, store |-> store]
    /\ running = [k \in Consumers |-> Off]
    /\ applied = running
    /\ client = [k \in Consumers |-> "none"]
    /\ polling = {}
    /\ data = [k \in Consumers |-> NoData]
    /\ revision = 0
    /\ sensors = [k \in Consumers |-> {}]
    /\ check = FALSE /\ reopen = TRUE
    /\ saves = 0 /\ faults = 0
    /\ missed = FALSE /\ orphans = {} /\ unsaved = {}
    /\ named = [k \in Consumers |-> [a \in Assets |->
                    [f \in FactIds |-> IF a # store[k].asset \/ k = "evse" \/ store[k].schema = "corrupt"
                                       THEN {} ELSE Used(store[k].uids[f])]]]

Here == Order[at]

\* The boundaries' sensors, and with them their polls, are there; so is the
\* update listener, unless the set-up failed
Live == phase \in {"forwarding", "loaded", "stuck"}
Listening == phase \in {"forwarding", "loaded"}

OpenSessions == {k \in Kinds : client[k] = "open"}

\* The objects of a set-up are gone with it
Forget ==
    /\ at' = 1 /\ revision' = 0 /\ check' = FALSE
    /\ running' = [k \in Consumers |-> Off] /\ applied' = running'
    /\ client' = [k \in Consumers |-> "none"]
    /\ polling' = {}
    /\ data' = [k \in Consumers |-> NoData]
    /\ sensors' = [k \in Consumers |-> {}]
Faulty == faults < MaxFaults /\ faults' = faults + 1

Saved == [options |-> options, store |-> store]
NoNames == [a \in Assets |-> [f \in FactIds |-> {}]]

-----------------------------------------------------------------------------
(* Opening *)

StartSetup ==
    /\ phase = "off" /\ reopen
    /\ phase' = "opening" /\ at' = 1
    /\ missed' = FALSE
    /\ UNCHANGED <<options, store, disk, running, applied, client, polling, data, revision,
                   sensors, check, reopen, saves, faults, orphans, named, unsaved>>

\* async_setup_..._m2m_boundary up to the first refresh.  Without a TLS context
\* there is no client and the first refresh says configuration_failure at once;
\* a configuration that does not hold leaves no boundary, as a disabled one does
OpenBoundary ==
    /\ phase = "opening" /\ at <= Len(Order)
    /\ Here \notin polling
    /\ running' = [running EXCEPT ![Here] = options[Here]]
    /\ \/ /\ at' = at + 1
          /\ client' = [client EXCEPT ![Here] = "none"]
          /\ data' = [data EXCEPT ![Here] = NoData]
          /\ UNCHANGED <<polling, revision>>
       \/ /\ options[Here].enabled
          /\ data' = [data EXCEPT ![Here] = [NoData EXCEPT !.uids = Loaded(Here, options[Here].asset)]]
          /\ revision' = IF Here = "evse" THEN 0 ELSE revision
          /\ \/ /\ client' = [client EXCEPT ![Here] = "open"]
                /\ polling' = polling \cup {Here}
                /\ UNCHANGED at
             \/ /\ client' = [client EXCEPT ![Here] = "none"]
                /\ at' = at + 1
                /\ UNCHANGED polling
    /\ UNCHANGED <<phase, options, store, disk, applied, sensors, check, reopen, environment>>

\* The signatures are those of the options as they are now; the sensor platform
\* makes a sensor for every descriptor
ForwardPlatforms ==
    /\ phase = "opening" /\ at > Len(Order)
    /\ phase' = "forwarding" /\ at' = 1
    /\ applied' = options
    /\ sensors' = [k \in Consumers |-> Known(data[k].uids)]
    /\ named' = [k \in Consumers |-> [named[k] EXCEPT ![running[k].asset] =
                    [f \in FactIds |-> @[f] \cup Used(data[k].uids[f])]]]
    /\ check' = FALSE
    /\ UNCHANGED <<options, store, disk, running, client, polling, data, revision, reopen,
                   saves, faults, missed, orphans, unsaved>>

\* The platforms and the semantic snapshot are set up
FinishSetup ==
    /\ phase = "forwarding"
    /\ phase' = "loaded"
    /\ UNCHANGED <<at, options, store, disk, running, applied, client, polling, data, revision,
                   sensors, check, reopen, environment>>

\* One of them raises: nobody will close the boundaries.  With the sensor
\* platform there they are still polled, and the entry cannot be set up again
SetupFails ==
    /\ phase = "forwarding"
    /\ Faulty
    /\ orphans' = orphans \cup OpenSessions
    /\ \/ /\ phase' = "stuck" /\ check' = FALSE
          /\ UNCHANGED <<at, running, applied, client, polling, data, revision, sensors>>
       \/ phase' = "off" /\ Forget
    /\ UNCHANGED <<options, store, disk, reopen, saves, missed, named, unsaved>>

-----------------------------------------------------------------------------
(* Refreshes *)

Poll(k) ==
    /\ Live
    /\ running[k].enabled /\ k \notin polling
    /\ client[k] = "open"
    /\ polling' = polling \cup {k}
    /\ UNCHANGED <<phase, at, options, store, disk, running, applied, client, data, revision,
                   sensors, check, reopen, environment>>

\* The set-up goes on after the first refresh
Refreshed(k) ==
    /\ polling' = polling \ {k}
    /\ at' = IF phase = "opening" THEN at + 1 ELSE at

\* Transport, remote and contract errors keep the descriptors and the facts
RefreshFails(k) ==
    /\ k \in polling
    /\ Refreshed(k)
    /\ data' = [data EXCEPT ![k].available = FALSE]
    /\ UNCHANGED <<phase, options, store, disk, running, applied, client, revision,
                   sensors, check, reopen, environment>>

\* Descriptors are added in the order of the snapshot while there is room
Grown(uids, new) ==
    {[f \in FactIds |-> IF f \in added THEN "built" ELSE uids[f]] :
        added \in {s \in SUBSET new :
            Cardinality(s) = IF Cardinality(new) + Cardinality(Known(uids)) <= FactLimit
                             THEN Cardinality(new)
                             ELSE IF Cardinality(Known(uids)) >= FactLimit THEN 0
                             ELSE FactLimit - Cardinality(Known(uids))}}

RevisionAccepted(k, rev) ==
    IF k # "evse" THEN rev = 1 ELSE rev >= revision

\* An EVSE snapshot older than the last one is a contract failure
RefreshStale(k) ==
    /\ k = "evse" /\ revision > 1
    /\ RefreshFails(k)

\* async_persist_..._descriptor_store writes the whole store with the asset the
\* coordinator was made for; then the data are published and the listener of
\* the sensor platform adds sensors for new descriptors
Persisted(k, uids) ==
    IF uids = data[k].uids THEN store
    ELSE [store EXCEPT ![k] = [asset |-> running[k].asset, schema |-> "v1", uids |-> uids]]

Publish(k, uids) ==
    /\ data' = [data EXCEPT ![k] = [uids |-> uids, available |-> TRUE]]
    /\ IF Live
       THEN /\ sensors' = [sensors EXCEPT ![k] = @ \cup Known(uids)]
            /\ named' = [named EXCEPT ![k][running[k].asset] =
                            [f \in FactIds |-> @[f] \cup Used(uids[f])]]
       ELSE UNCHANGED <<sensors, named>>

RefreshSucceeds(k, facts, rev) ==
    /\ k \in polling
    /\ RevisionAccepted(k, rev)
    /\ revision' = IF k = "evse" THEN rev ELSE revision
    /\ \E uids \in Grown(data[k].uids, facts \ Known(data[k].uids)) :
          /\ store' = Persisted(k, uids)
          /\ check' = (check \/ (Listening /\ store' # store))
          /\ unsaved' = IF store'[k].asset # store[k].asset THEN unsaved \cup {k} ELSE unsaved
          /\ Publish(k, uids)
    /\ Refreshed(k)
    /\ UNCHANGED <<phase, options, disk, running, applied, client, reopen,
                   saves, faults, missed, orphans>>

\* The store cannot be written: nothing is published.  In the first refresh that
\* fails the set-up of the entry: this client is closed, the earlier ones are not
PersistFails(k) ==
    /\ k \in polling
    /\ Known(data[k].uids) # FactIds /\ Cardinality(Known(data[k].uids)) < FactLimit
    /\ Faulty
    /\ IF phase = "opening"
       THEN /\ phase' = "off" /\ Forget
            /\ orphans' = orphans \cup (OpenSessions \ {k})
       ELSE /\ polling' = polling \ {k}
            /\ data' = [data EXCEPT ![k].available = FALSE]
            /\ UNCHANGED <<phase, at, running, applied, client, revision, sensors, check, orphans>>
    /\ UNCHANGED <<options, store, disk, reopen, saves, missed, named, unsaved>>

-----------------------------------------------------------------------------
(* Options, reload and close *)

\* The options form keeps the descriptor stores as they are at that moment
SaveOptions(k, enabled, asset) ==
    /\ saves < MaxSaves /\ saves' = saves + 1
    /\ (enabled # options[k].enabled) # (asset # options[k].asset)  \* one field at a time
    /\ options' = [options EXCEPT ![k] = [enabled |-> enabled, asset |-> asset]]
    /\ check' = (check \/ Listening)
    /\ missed' = (missed \/ phase = "opening")
    /\ IF asset = options[k].asset THEN UNCHANGED <<named, unsaved>>
       ELSE /\ named' = [named EXCEPT ![k] = NoNames]
            /\ unsaved' = unsaved \cup {k}
    /\ UNCHANGED <<phase, at, store, disk, running, applied, client, polling, data, revision,
                   sensors, reopen, faults, orphans>>

\* async_unload_platforms removed the sensors and the listeners
StartClose(again) ==
    /\ phase' = "closing" /\ at' = 1 /\ reopen' = again
    /\ sensors' = [k \in Consumers |-> {}]

\* Mutant: the signature leaves the asset out
UpdateListenerEnabledOnly ==
    /\ phase = "loaded" /\ check
    /\ check' = FALSE
    /\ IF \A k \in Kinds : options[k].enabled = applied[k].enabled
       THEN UNCHANGED <<phase, at, reopen, sensors>> ELSE StartClose(TRUE)
    /\ UNCHANGED <<options, store, disk, running, applied, client, polling, data, revision, environment>>

\* _reload_on_pv_m2m_option_change; a reload waits for the set-up to end
UpdateListener ==
    /\ phase = "loaded" /\ check
    /\ check' = FALSE
    /\ IF options = applied THEN UNCHANGED <<phase, at, reopen, sensors>> ELSE StartClose(TRUE)
    /\ UNCHANGED <<options, store, disk, running, applied, client, polling, data, revision, environment>>

\* By the user, to disable the entry or to reload it
Unload ==
    /\ phase = "loaded"
    /\ \E again \in BOOLEAN : StartClose(again)
    /\ UNCHANGED <<options, store, disk, running, applied, client, polling, data, revision, check,
                   environment>>

\* Mutant: the session of a boundary whose source is not available stays open
CloseBoundaryAvailable ==
    /\ phase = "closing" /\ at <= Len(Order)
    /\ at' = at + 1
    /\ data' = [data EXCEPT ![Here].available = FALSE]
    /\ client' = [client EXCEPT ![Here] = IF @ = "open" /\ data[Here].available THEN "closed" ELSE @]
    /\ UNCHANGED <<phase, options, store, disk, running, applied, polling, revision,
                   sensors, check, reopen, environment>>

\* The boundary's async_close: first nothing is available, then the session ends
CloseBoundary ==
    /\ phase = "closing" /\ at <= Len(Order)
    /\ at' = at + 1
    /\ data' = [data EXCEPT ![Here].available = FALSE]
    /\ client' = [client EXCEPT ![Here] = IF @ = "open" THEN "closed" ELSE @]
    /\ UNCHANGED <<phase, options, store, disk, running, applied, polling, revision,
                   sensors, check, reopen, environment>>

\* The close of the admin session or of the snapshot coordinator, before the
\* boundaries, raises: none of them is closed
CloseNotReached ==
    /\ phase = "closing" /\ at = 1
    /\ Faulty
    /\ phase' = "failed"
    /\ orphans' = orphans \cup OpenSessions
    /\ UNCHANGED <<at, options, store, disk, running, applied, client, polling, data, revision,
                   sensors, check, reopen, saves, missed, named, unsaved>>

\* A close that raises leaves the boundaries after it open, and the entry failed
CloseRaises ==
    /\ phase = "closing" /\ at <= Len(Order)
    /\ running[Here].enabled
    /\ Faulty
    /\ phase' = "failed"
    /\ data' = [data EXCEPT ![Here].available = FALSE]
    /\ orphans' = orphans \cup OpenSessions
    /\ UNCHANGED <<at, options, store, disk, running, applied, client, polling, revision,
                   sensors, check, reopen, saves, missed, named, unsaved>>

\* A request cut off by the close has ended by then
FinishClose ==
    /\ phase = "closing" /\ at > Len(Order)
    /\ polling = {}
    /\ phase' = "off" /\ Forget
    /\ orphans' = orphans \cup OpenSessions
    /\ UNCHANGED <<options, store, disk, reopen, saves, faults, missed, named, unsaved>>

\* The user sets the entry up again
Enable ==
    /\ phase = "off" /\ ~reopen
    /\ reopen' = TRUE
    /\ UNCHANGED <<phase, at, options, store, disk, running, applied, client, polling, data,
                   revision, sensors, check, environment>>

\* The delayed write of the config entries
WriteDisk ==
    /\ disk # Saved \/ unsaved # {}
    /\ disk' = Saved /\ unsaved' = {}
    /\ UNCHANGED <<phase, at, options, store, running, applied, client, polling, data, revision,
                   sensors, check, reopen, saves, faults, missed, orphans, named>>

\* Home Assistant dies and starts again from what it wrote
Crash ==
    /\ Faulty
    /\ phase' = "off" /\ reopen' = TRUE
    /\ Forget
    /\ options' = disk.options /\ store' = disk.store
    /\ orphans' = {}
    /\ named' = [k \in Consumers |-> IF k \in unsaved THEN NoNames ELSE named[k]]
    /\ unsaved' = {}
    /\ UNCHANGED <<disk, saves, missed>>

-----------------------------------------------------------------------------
\* facts: the ones that an accepted answer (M2MContract) holds
Next ==
    \/ StartSetup \/ OpenBoundary \/ ForwardPlatforms \/ FinishSetup \/ SetupFails
    \/ \E k \in Kinds : RefreshFails(k) \/ RefreshStale(k)
    \/ \E k \in Kinds : \E facts \in SUBSET FactsOf[k], rev \in 1 .. MaxRevision :
          RefreshSucceeds(k, facts, rev)
    \/ UpdateListener \/ CloseBoundary \/ FinishClose
    \/ \E k \in Kinds : Poll(k) \/ PersistFails(k)
    \/ \E k \in Kinds, enabled \in BOOLEAN, asset \in Assets : SaveOptions(k, enabled, asset)
    \/ Unload \/ CloseNotReached \/ CloseRaises \/ Enable \/ WriteDisk \/ Crash

Spec == Init /\ [][Next]_vars

-----------------------------------------------------------------------------
(* Properties *)

Settings == [enabled : BOOLEAN, asset : Assets]

ControlTypes ==
    /\ phase \in {"off", "opening", "forwarding", "loaded", "stuck", "closing", "failed"}
    /\ at \in 1 .. Len(Order) + 1
    /\ revision \in 0 .. MaxRevision /\ saves \in 0 .. MaxSaves /\ faults \in 0 .. MaxFaults
    /\ check \in BOOLEAN /\ reopen \in BOOLEAN /\ missed \in BOOLEAN
    /\ polling \subseteq Kinds /\ orphans \subseteq Kinds /\ unsaved \subseteq Kinds
SettingTypes ==
    /\ options \in [Consumers -> Settings] /\ running \in [Consumers -> Settings]
    /\ applied \in [Consumers -> Settings]
StoreTypes ==
    /\ store \in [Consumers -> Stores]
    /\ disk \in [options : [Consumers -> Settings], store : [Consumers -> Stores]]
DataTypes ==
    /\ data \in [Consumers -> [uids : [FactIds -> Uids], available : BOOLEAN]]
    /\ sensors \in [Consumers -> SUBSET FactIds]
    /\ client \in [Consumers -> {"none", "open", "closed"}]
NameTypes == named \in [Consumers -> [Assets -> [FactIds -> SUBSET {"built", "legacy"}]]]

TypeOK == ControlTypes /\ SettingTypes /\ StoreTypes /\ DataTypes /\ NameTypes

(* A fact keeps one unique id, also one of an older schema, over restarts, *)
(* reloads, lost writes and failed refreshes, until the user chooses       *)
(* another asset or a crash takes such a choice back; and it has a sensor  *)
(* only if its descriptor is in the store of the asset the boundary was    *)
(* opened for, so that the next start knows it although the gateway may    *)
(* not answer then (pv_m2m.py:314-354, 384-398; the same in storage and    *)
(* EVSE; options_flow.py:161-173).                                         *)
DescriptorsLast ==
    /\ TypeOK
    /\ \A k \in Kinds, a \in Assets, f \in FactIds : \E uid \in Uids : named[k][a][f] \subseteq {uid}
    /\ \A k \in Kinds : sensors[k] # {} =>
          /\ store[k].asset = running[k].asset
          /\ sensors[k] \subseteq Known(store[k].uids)

(* Once the update listener has run, the boundaries run the options that   *)
(* are saved, or else they were saved while the boundaries were opened:    *)
(* the signatures are taken only after the last of them                    *)
(* (entry_setup.py:1761-1807, 1827-1833, 1857-1878).                       *)
RunsSavedOptions ==
    (phase = "loaded" /\ ~check /\ ~missed) => \A k \in Kinds : running[k] = options[k]

(* A session is left that nobody closes only in the very step of an       *)
(* exception, and no more of them than it must: in a close those of the    *)
(* boundaries that it did not get past, in a set-up those of the earlier   *)
(* boundaries.  Every other way out of a set-up, a reload or an unload     *)
(* closes them all (entry_cleanup.py:38-47, pv_m2m.py:399-408).            *)
SessionsReleased ==
    [][\A i \in 1 .. Len(Order) : Order[i] \in orphans' \ orphans =>
          /\ faults' = faults + 1
          /\ phase = "closing" => i >= at
          /\ phase = "opening" => i < at]_vars

=============================================================================
