-------------------------- MODULE SemanticRetention --------------------------
(***************************************************************************)
(* Bounded retention of zone and DHW readings.                             *)
(*                                                                         *)
(* HelianthusSemanticCoordinator (coordinator.py) is fed by two sources    *)
(* that interleave on one event loop: the periodic full poll of the        *)
(* gateway, and the deltas of a websocket subscription (subscriptions.py). *)
(* It keeps a private cache of what it last knew (lastZones, lastDhw) and  *)
(* publishes a payload (data) that entities read through the helpers of    *)
(* semantic_freshness.py.  The two differ after a poll that expires every  *)
(* target on a transport error: the cache is emptied, but the coordinator  *)
(* raises UpdateFailed and Home Assistant keeps the old payload.           *)
(*                                                                         *)
(* Readings are abstracted to presence: a zone is an element of Zones, DHW *)
(* is present or not.  Every zone is spelled one way by the gateway.       *)
(* A config entry that fails its first refresh is not set up, so Init is   *)
(* the state after the first successful one.                               *)
(***************************************************************************)
EXTENDS Integers

CONSTANTS
    Zones,              \* zone ids the gateway may report
    TransientGapLimit   \* _TRANSIENT_GAP_LIMIT, 2 in the code

ASSUME GapLimitAssumption == TransientGapLimit \in Nat

VARIABLES
    lastZones,          \* ids of _last_zones
    zoneGapCycles,      \* _zone_gap_cycles; an absent key reads as 0
    staleZoneIds,       \* _stale_zone_ids
    lastDhw,            \* _last_dhw is not None
    dhwGapCycles,       \* _dhw_gap_cycles
    dhwIsStale,         \* dhw_is_stale
    data,               \* the published payload, kept by Home Assistant
    lastUpdateSuccess,  \* last_update_success, kept by Home Assistant
    subscription,       \* the subscription task of this runtime
    zoneOmissions,      \* history: materializations since z was observed
    dhwOmissions        \* history: materializations since DHW was observed

zoneCache == <<lastZones, zoneGapCycles, staleZoneIds, zoneOmissions>>
dhwCache == <<lastDhw, dhwGapCycles, dhwIsStale, dhwOmissions>>
published == <<data, lastUpdateSuccess>>
vars == <<zoneCache, dhwCache, published, subscription>>

-----------------------------------------------------------------------------
(***************************************************************************)
(* The history counters stop at OmissionCap, the first value past the      *)
(* limit; a target never observed by this runtime starts there.            *)
(***************************************************************************)
OmissionCap == TransientGapLimit + 1

Missed(n) == IF n < OmissionCap THEN n + 1 ELSE n

Payload == [zones : SUBSET Zones, dhw : BOOLEAN]

\* A new coordinator after its first refresh observed the zones S and, when
\* d holds, DHW.
Init ==
    \E S \in SUBSET Zones, d \in BOOLEAN :
        /\ lastZones = S
        /\ zoneGapCycles = [z \in Zones |-> 0]
        /\ staleZoneIds = {}
        /\ zoneOmissions = [z \in Zones |-> IF z \in S THEN 0 ELSE OmissionCap]
        /\ lastDhw = d
        /\ dhwGapCycles = 0
        /\ dhwIsStale = FALSE
        /\ dhwOmissions = IF d THEN 0 ELSE OmissionCap
        /\ data = [zones |-> S, dhw |-> d]
        /\ lastUpdateSuccess = TRUE
        /\ subscription = "connecting"

-----------------------------------------------------------------------------
(***************************************************************************)
(* Materialization: one full-poll answer folded into the cache.            *)
(***************************************************************************)

\* The previous zones an answer without them retains for another cycle.
Retained(S) ==
    {z \in lastZones \ S : zoneGapCycles[z] + 1 <= TransientGapLimit}

\* Mutant: the gap of a retained zone is not carried over.
GapsDropped(S) == [z \in Zones |-> 0]

GapsAfter(S) ==
    [z \in Zones |-> IF z \in Retained(S) THEN zoneGapCycles[z] + 1 ELSE 0]

\* Mutant: a zone that expires is not marked stale.
StaleRetainedOnly(S) == (staleZoneIds \ S) \cap Retained(S)

StaleAfter(S) == (staleZoneIds \ S) \cup (lastZones \ S)

MaterializeZones(S) ==
    /\ lastZones' = S \cup Retained(S)
    /\ zoneGapCycles' = GapsAfter(S)
    /\ staleZoneIds' = StaleAfter(S)
    /\ zoneOmissions' = [z \in Zones |->
            IF z \in S THEN 0 ELSE Missed(zoneOmissions[z])]

\* Mutant: one gap too many.
DhwRetainedOnceMore == lastDhw /\ dhwGapCycles <= TransientGapLimit

\* The same three branches serve a poll and a DHW event: observed, retained
\* within the limit, or dropped.
DhwRetained == lastDhw /\ dhwGapCycles < TransientGapLimit

DhwGapAfter(d) == IF ~d /\ DhwRetained THEN dhwGapCycles + 1 ELSE 0

\* Mutant: a retained value is not marked stale.
DhwStaleUnmarked(d) == ~d /\ dhwIsStale

DhwStaleAfter(d) == ~d /\ (dhwIsStale \/ lastDhw)

MaterializeDhw(d) ==
    /\ lastDhw' = (d \/ DhwRetained)
    /\ dhwGapCycles' = DhwGapAfter(d)
    /\ dhwIsStale' = DhwStaleAfter(d)
    /\ dhwOmissions' = IF d THEN 0 ELSE Missed(dhwOmissions)

-----------------------------------------------------------------------------
(***************************************************************************)
(* The periodic poll.  Nothing is changed between the request and the      *)
(* answer, and Home Assistant stores the result without suspending, so a   *)
(* poll is one step at the time its answer arrives.                        *)
(***************************************************************************)

\* A response with the zones S and the DHW object when d holds.  A schema
\* without the zones or dhw field, and a schema that rejects all five
\* queries for recoverable fields, are the answer ({}, FALSE).
PollAnswered(S, d) ==
    /\ MaterializeZones(S)
    /\ MaterializeDhw(d)
    /\ data' = [zones |-> lastZones', dhw |-> lastDhw']
    /\ lastUpdateSuccess' = TRUE
    /\ UNCHANGED subscription

\* A response error that is not a known schema difference raises UpdateFailed
\* before anything is materialized.
PollRejected ==
    /\ lastUpdateSuccess' = FALSE
    /\ UNCHANGED <<zoneCache, dhwCache, data, subscription>>

\* A transport error materializes an empty answer (_retain_transport_gap).
\* What is left of the cache is published as a success; when nothing is left
\* UpdateFailed is raised and the old payload stays published.
PollTransportError ==
    /\ MaterializeZones({})
    /\ MaterializeDhw(FALSE)
    /\ IF lastZones' # {} \/ lastDhw'
       THEN /\ data' = [zones |-> lastZones', dhw |-> lastDhw']
            /\ lastUpdateSuccess' = TRUE
       ELSE /\ lastUpdateSuccess' = FALSE
            /\ UNCHANGED data
    /\ UNCHANGED subscription

Poll ==
    \/ \E S \in SUBSET Zones, d \in BOOLEAN : PollAnswered(S, d)
    \/ PollRejected
    \/ PollTransportError

-----------------------------------------------------------------------------
(***************************************************************************)
(* The subscription.  Its task ends for good when the socket closes, fails *)
(* or a frame raises; there is no reconnection.  An event is merged into   *)
(* the PUBLISHED payload, and the merged list replaces the private cache.  *)
(***************************************************************************)
Connect ==
    /\ subscription = "connecting"
    /\ subscription' = "open"
    /\ UNCHANGED <<zoneCache, dhwCache, published>>

SubscriptionEnds ==
    /\ subscription \in {"connecting", "open"}
    /\ subscription' = "closed"
    /\ UNCHANGED <<zoneCache, dhwCache, published>>

\* Mutant: the event clears the stale marks of every published zone.
FreshenedAll(U) == staleZoneIds \ (data.zones \cup U)

Freshened(U) == staleZoneIds \ U

GapsOutside(U) == [z \in Zones |-> IF z \in U THEN 0 ELSE zoneGapCycles[z]]

\* A zone frame naming the zones U: one, or none when it carries no usable
\* id.  setdefault(z, 0) leaves zoneGapCycles as it is read.
ZoneEvent(U) ==
    /\ subscription = "open"
    /\ lastZones' = data.zones \cup U
    /\ zoneGapCycles' = GapsOutside(U)
    /\ staleZoneIds' = Freshened(U)
    /\ zoneOmissions' = [z \in Zones |->
            IF z \in U THEN 0 ELSE zoneOmissions[z]]
    /\ data' = [data EXCEPT !.zones = data.zones \cup U]
    /\ UNCHANGED <<dhwCache, lastUpdateSuccess, subscription>>

\* Mutant: publishing an event counts as a successful refresh, the way
\* async_set_updated_data does.
PublishAsRefresh(d) ==
    /\ data' = [data EXCEPT !.dhw = lastDhw']
    /\ lastUpdateSuccess' = TRUE

\* _publish_subscription_data, for the DHW value an event left in the cache.
PublishDhw(d) ==
    /\ data' = [data EXCEPT !.dhw = lastDhw']
    /\ UNCHANGED lastUpdateSuccess

\* A DHW frame: a dictionary when d holds, null otherwise.
DhwEvent(d) ==
    /\ subscription = "open"
    /\ MaterializeDhw(d)
    /\ PublishDhw(d)
    /\ UNCHANGED <<zoneCache, subscription>>

NamedZones == {{}} \cup {{z} : z \in Zones}

-----------------------------------------------------------------------------
\* Unloading and setting up the entry builds a new coordinator; nothing in
\* memory survives.  Options, repairs and new inventory cause it, at any time.
Reload ==
    \E S \in SUBSET Zones, d \in BOOLEAN :
        /\ lastZones' = S
        /\ zoneGapCycles' = [z \in Zones |-> 0]
        /\ staleZoneIds' = {}
        /\ zoneOmissions' = [z \in Zones |-> IF z \in S THEN 0 ELSE OmissionCap]
        /\ lastDhw' = d
        /\ dhwGapCycles' = 0
        /\ dhwIsStale' = FALSE
        /\ dhwOmissions' = IF d THEN 0 ELSE OmissionCap
        /\ data' = [zones |-> S, dhw |-> d]
        /\ lastUpdateSuccess' = TRUE
        /\ subscription' = "connecting"

Next ==
    \/ Poll
    \/ Connect
    \/ SubscriptionEnds
    \/ \E U \in NamedZones : ZoneEvent(U)
    \/ \E d \in BOOLEAN : DhwEvent(d)
    \/ Reload

Spec == Init /\ [][Next]_vars

\* Home Assistant schedules the next poll after each one, and every HTTP
\* attempt is cut off by a timeout, so polls keep completing.
FairSpec == Spec /\ WF_vars(Poll)

\* The same system under the assumption that no zone event arrives while the
\* last poll is a failed one.
QuietNext ==
    \/ Poll
    \/ Connect
    \/ SubscriptionEnds
    \/ lastUpdateSuccess /\ \E U \in NamedZones : ZoneEvent(U)
    \/ \E d \in BOOLEAN : DhwEvent(d)
    \/ Reload

QuietSpec == Init /\ [][QuietNext]_vars

-----------------------------------------------------------------------------
(***************************************************************************)
(* What entities and the schedule helpers read (semantic_freshness.py).    *)
(***************************************************************************)
ZoneAvailable(z) == lastUpdateSuccess /\ z \in data.zones
ZoneStale(z) == ~lastUpdateSuccess \/ z \in staleZoneIds
DhwAvailable == lastUpdateSuccess /\ data.dhw
DhwStale == ~lastUpdateSuccess \/ dhwIsStale

ZoneWriteReady(z) == ZoneAvailable(z) /\ ~ZoneStale(z)
DhwWriteReady == DhwAvailable /\ ~DhwStale

-----------------------------------------------------------------------------
(***************************************************************************)
(* Properties                                                              *)
(***************************************************************************)

\* Types, and the gap counters' range.
TypeOK ==
    /\ lastZones \subseteq Zones
    /\ zoneGapCycles \in [Zones -> 0..TransientGapLimit]
    /\ staleZoneIds \subseteq Zones
    /\ lastDhw \in BOOLEAN
    /\ dhwGapCycles \in 0..TransientGapLimit
    /\ dhwIsStale \in BOOLEAN
    /\ data \in Payload
    /\ lastUpdateSuccess \in BOOLEAN
    /\ subscription \in {"connecting", "open", "closed"}
    /\ zoneOmissions \in [Zones -> 0..OmissionCap]
    /\ dhwOmissions \in 0..OmissionCap

\* While the coordinator reports success, entities read exactly what it
\* would retain: the published payload and the private cache agree, although
\* polls and events write them along different paths.
PublishedMatchesCache ==
    lastUpdateSuccess => data = [zones |-> lastZones, dhw |-> lastDhw]

\* The write fence of the climate entities and schedule helpers: a zone that
\* may be written was observed by the last materialization, or by an event
\* of its own since; retained values, siblings' events and failed polls never
\* open it.
ZoneWriteFenceSound ==
    \A z \in Zones : ZoneWriteReady(z) => zoneOmissions[z] = 0

\* The same fence for DHW, where a null event is an omission too.
DhwWriteFenceSound == DhwWriteReady => dhwOmissions = 0

\* An available DHW reading is at most TransientGapLimit omissions old,
\* however polls, null events and failed refreshes interleave.
DhwRetentionBounded == DhwAvailable => dhwOmissions <= TransientGapLimit

\* README.md: retained values survive two coordinator updates, a third
\* consecutive gap expires them, and updates from one zone cannot postpone a
\* missing sibling's expiry.
ZoneRetentionBounded ==
    \A z \in Zones : ZoneAvailable(z) => zoneOmissions[z] <= TransientGapLimit

\* An expired zone re-enters the cache without having been observed only out
\* of the payload a failed refresh left published.
ReturnsOnlyWhenObserved ==
    [][\A z \in Zones :
        z \notin lastZones /\ z \in lastZones' =>
            \/ zoneOmissions'[z] = 0
            \/ ~lastUpdateSuccess /\ z \in data.zones]_vars

\* Once the subscription is over, a zone the gateway stopped reporting does
\* become unavailable: retention is never for ever.
UnobservedZoneExpires ==
    \A z \in Zones :
        <>[](subscription = "closed" /\ zoneOmissions[z] > 0)
            => <>[]~ZoneAvailable(z)

\* DHW implements the retention contract in every behaviour.
DhwTarget == INSTANCE RetainedTarget
    WITH held <- lastDhw, gap <- dhwGapCycles, stale <- dhwIsStale

DhwImplementsTarget == DhwTarget!Spec
=============================================================================
