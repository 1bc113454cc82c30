---------------------- MODULE SemanticRetentionProofs ----------------------
(***************************************************************************)
(* Proofs about SemanticRetention, for any set of zones and any limit.     *)
(*                                                                         *)
(* RetentionInv is inductive for Spec.  It adds to the invariants the runs *)
(* check the three facts they rest on: a cached zone is published, a       *)
(* published zone that was missed or dropped is marked stale, and the DHW gap counts  *)
(* exactly the omissions while a DHW value is held.  For QuietSpec         *)
(* QuietInv says the same of the zones' gaps, which is false of Spec.      *)
(***************************************************************************)
EXTENDS MCSemanticRetention, WellFoundedInduction, TLAPS

CachedIsPublished == lastZones \subseteq data.zones

MissedIsStale ==
    \A z \in data.zones :
        z \notin lastZones \/ zoneOmissions[z] > 0 => z \in staleZoneIds

DhwGapCountsOmissions ==
    /\ lastDhw => /\ dhwGapCycles = dhwOmissions
                  /\ dhwOmissions > 0 => dhwIsStale
    /\ ~lastDhw => dhwGapCycles = 0

RetentionInv ==
    /\ TypeOK
    /\ PublishedMatchesCache
    /\ CachedIsPublished
    /\ MissedIsStale
    /\ DhwGapCountsOmissions

GapCountsOmissions ==
    \A z \in lastZones : zoneGapCycles[z] = zoneOmissions[z]

QuietInv == RetentionInv /\ GapCountsOmissions

-----------------------------------------------------------------------------
\* The history counters stay in their range.
LEMMA MissedType ==
    ASSUME NEW n \in 0..OmissionCap
    PROVE  Missed(n) \in 0..OmissionCap /\ Missed(n) > 0
  BY GapLimitAssumption DEF Missed, OmissionCap

\* An answer keeps the zone cache well-typed; every cached zone it omits is
\* marked stale, and its gap counter stays within the limit.
LEMMA MaterializeZonesType ==
    ASSUME TypeOK, NEW S \in SUBSET Zones, MaterializeZones(S)
    PROVE  /\ lastZones' \subseteq Zones
           /\ zoneGapCycles' \in [Zones -> 0..TransientGapLimit]
           /\ staleZoneIds' \subseteq Zones
           /\ zoneOmissions' \in [Zones -> 0..OmissionCap]
           /\ \A z \in lastZones' : zoneOmissions'[z] > 0 => z \in staleZoneIds'
  <1>1. \A z \in Retained(S) :
            zoneGapCycles[z] + 1 \in 0..TransientGapLimit /\ z \in lastZones \ S
    BY GapLimitAssumption DEF Retained, TypeOK
  <1>2. zoneGapCycles' \in [Zones -> 0..TransientGapLimit]
    <2>1. \A z \in Zones : (IF z \in Retained(S) THEN zoneGapCycles[z] + 1 ELSE 0)
                              \in 0..TransientGapLimit
      BY <1>1, GapLimitAssumption
    <2>2. QED
      BY <2>1 DEF MaterializeZones, GapsAfter, StaleAfter
  <1>3. zoneOmissions' \in [Zones -> 0..OmissionCap]
    <2>1. \A z \in Zones : (IF z \in S THEN 0 ELSE Missed(zoneOmissions[z]))
                              \in 0..OmissionCap
      BY MissedType, GapLimitAssumption DEF TypeOK, OmissionCap
    <2>2. QED
      BY <2>1 DEF MaterializeZones, GapsAfter, StaleAfter
  <1>4. lastZones' \subseteq Zones /\ staleZoneIds' \subseteq Zones
    BY <1>1 DEF MaterializeZones, GapsAfter, StaleAfter, TypeOK
  <1>5. ASSUME NEW z \in lastZones', zoneOmissions'[z] > 0
        PROVE  z \in staleZoneIds'
    <2>1. z \in Zones
      BY <1>4
    <2>2. z \notin S
      BY <1>5, <2>1 DEF MaterializeZones, GapsAfter, StaleAfter
    <2>3. z \in lastZones \ S
      BY <1>1, <2>2 DEF MaterializeZones, GapsAfter, StaleAfter
    <2>4. QED
      BY <2>3 DEF MaterializeZones, GapsAfter, StaleAfter
  <1>6. QED
    BY <1>2, <1>3, <1>4, <1>5

\* A poll or an event keeps the DHW cache well-typed and its gap counter
\* equal to the omissions.
LEMMA MaterializeDhwInv ==
    ASSUME TypeOK, DhwGapCountsOmissions, NEW d \in BOOLEAN, MaterializeDhw(d)
    PROVE  /\ lastDhw' \in BOOLEAN
           /\ dhwGapCycles' \in 0..TransientGapLimit
           /\ dhwIsStale' \in BOOLEAN
           /\ dhwOmissions' \in 0..OmissionCap
           /\ DhwGapCountsOmissions'
  <1>1. dhwOmissions' \in 0..OmissionCap
    BY MissedType, GapLimitAssumption DEF MaterializeDhw, DhwGapAfter,
        DhwStaleAfter, TypeOK, OmissionCap
  <1>2. dhwGapCycles' \in 0..TransientGapLimit
    BY GapLimitAssumption DEF MaterializeDhw, DhwGapAfter, DhwStaleAfter,
        DhwRetained, TypeOK
  <1>3. lastDhw' \in BOOLEAN /\ dhwIsStale' \in BOOLEAN
    BY DEF MaterializeDhw, DhwGapAfter, DhwStaleAfter
  <1>4. DhwGapCountsOmissions'
    <2>1. CASE d
      BY <2>1 DEF MaterializeDhw, DhwGapAfter, DhwStaleAfter,
          DhwGapCountsOmissions
    <2>2. CASE ~d /\ DhwRetained
      <3>1. dhwGapCycles' = dhwGapCycles + 1
        BY <2>2 DEF MaterializeDhw, DhwGapAfter, DhwStaleAfter
      <3>2. dhwOmissions' = dhwOmissions + 1
        BY <2>2, GapLimitAssumption
           DEF MaterializeDhw, DhwGapAfter, DhwStaleAfter, DhwRetained,
               DhwGapCountsOmissions, TypeOK,
               Missed, OmissionCap
      <3>3. dhwIsStale' /\ lastDhw'
        BY <2>2 DEF MaterializeDhw, DhwGapAfter, DhwStaleAfter, DhwRetained
      <3>4. QED
        BY <2>2, <3>1, <3>2, <3>3 DEF DhwRetained, DhwGapCountsOmissions
    <2>3. CASE ~d /\ ~DhwRetained
      BY <2>3 DEF MaterializeDhw, DhwGapAfter, DhwStaleAfter,
          DhwGapCountsOmissions
    <2>4. QED
      BY <2>1, <2>2, <2>3
  <1>5. QED
    BY <1>1, <1>2, <1>3, <1>4

-----------------------------------------------------------------------------
\* The values a new runtime starts from have their types.
LEMMA FreshTypes ==
    ASSUME NEW S \in SUBSET Zones, NEW d \in BOOLEAN
    PROVE  /\ [z \in Zones |-> 0] \in [Zones -> 0..TransientGapLimit]
           /\ [z \in Zones |-> IF z \in S THEN 0 ELSE OmissionCap]
                  \in [Zones -> 0..OmissionCap]
           /\ 0 \in 0..TransientGapLimit
           /\ (IF d THEN 0 ELSE OmissionCap) \in 0..OmissionCap
           /\ [zones |-> S, dhw |-> d] \in Payload
  <1>1. 0 \in 0..TransientGapLimit /\ 0 \in 0..OmissionCap
        /\ OmissionCap \in 0..OmissionCap
    BY GapLimitAssumption DEF OmissionCap
  <1>2. QED
    BY <1>1 DEF Payload

\* A new runtime satisfies the invariant.
LEMMA InitRetentionInv == Init => RetentionInv
  <1> SUFFICES ASSUME NEW S \in SUBSET Zones, NEW d \in BOOLEAN,
                      lastZones = S,
                      zoneGapCycles = [z \in Zones |-> 0],
                      staleZoneIds = {},
                      zoneOmissions = [z \in Zones |->
                            IF z \in S THEN 0 ELSE OmissionCap],
                      lastDhw = d, dhwGapCycles = 0, dhwIsStale = FALSE,
                      dhwOmissions = IF d THEN 0 ELSE OmissionCap,
                      data = [zones |-> S, dhw |-> d],
                      lastUpdateSuccess = TRUE, subscription = "connecting"
               PROVE  RetentionInv
    BY DEF Init
  <1>1. TypeOK
    BY FreshTypes DEF TypeOK
  <1>2. MissedIsStale
    BY DEF MissedIsStale
  <1>3. QED
    BY <1>1, <1>2 DEF RetentionInv, PublishedMatchesCache, CachedIsPublished,
                      DhwGapCountsOmissions

\* So does one that replaces another.
LEMMA ReloadRetentionInv == Reload => RetentionInv'
  <1> SUFFICES ASSUME NEW S \in SUBSET Zones, NEW d \in BOOLEAN,
                      lastZones' = S,
                      zoneGapCycles' = [z \in Zones |-> 0],
                      staleZoneIds' = {},
                      zoneOmissions' = [z \in Zones |->
                            IF z \in S THEN 0 ELSE OmissionCap],
                      lastDhw' = d, dhwGapCycles' = 0, dhwIsStale' = FALSE,
                      dhwOmissions' = IF d THEN 0 ELSE OmissionCap,
                      data' = [zones |-> S, dhw |-> d],
                      lastUpdateSuccess' = TRUE,
                      subscription' = "connecting"
               PROVE  RetentionInv'
    BY DEF Reload
  <1>1. TypeOK'
    BY FreshTypes DEF TypeOK
  <1>2. MissedIsStale'
    BY DEF MissedIsStale
  <1>3. QED
    BY <1>1, <1>2 DEF RetentionInv, PublishedMatchesCache, CachedIsPublished,
                      DhwGapCountsOmissions

-----------------------------------------------------------------------------
\* An answered poll publishes the cache it leaves.
LEMMA PollAnsweredInv ==
    ASSUME RetentionInv, NEW S \in SUBSET Zones, NEW d \in BOOLEAN,
           PollAnswered(S, d)
    PROVE  RetentionInv'
  <1>. USE DEF RetentionInv, PollAnswered
  <1>1. MaterializeZones(S) /\ MaterializeDhw(d)
    OBVIOUS
  <1>2. data' = [zones |-> lastZones', dhw |-> lastDhw'] /\ data' \in Payload
    BY <1>1, MaterializeZonesType, MaterializeDhwInv DEF Payload
  <1>3. TypeOK'
    BY <1>1, <1>2, MaterializeZonesType, MaterializeDhwInv DEF TypeOK
  <1>4. MissedIsStale'
    BY <1>1, <1>2, MaterializeZonesType DEF MissedIsStale
  <1>5. DhwGapCountsOmissions'
    BY <1>1, MaterializeDhwInv
  <1>6. QED
    BY <1>2, <1>3, <1>4, <1>5 DEF PublishedMatchesCache, CachedIsPublished

\* A transport error publishes what is left of the cache, or leaves the old
\* payload over an empty cache.
LEMMA PollTransportErrorInv ==
    ASSUME RetentionInv, PollTransportError
    PROVE  RetentionInv'
  <1>1. MaterializeZones({}) /\ MaterializeDhw(FALSE) /\ UNCHANGED subscription
    BY DEF PollTransportError
  <1>2. TypeOK /\ MissedIsStale /\ DhwGapCountsOmissions /\ CachedIsPublished
    BY DEF RetentionInv
  <1>3. /\ lastZones' \subseteq Zones
        /\ zoneGapCycles' \in [Zones -> 0..TransientGapLimit]
        /\ staleZoneIds' \subseteq Zones
        /\ zoneOmissions' \in [Zones -> 0..OmissionCap]
        /\ \A z \in lastZones' : zoneOmissions'[z] > 0 => z \in staleZoneIds'
    BY <1>1, <1>2, MaterializeZonesType
  <1>4. /\ lastDhw' \in BOOLEAN
        /\ dhwGapCycles' \in 0..TransientGapLimit
        /\ dhwIsStale' \in BOOLEAN
        /\ dhwOmissions' \in 0..OmissionCap
        /\ DhwGapCountsOmissions'
    BY <1>1, <1>2, MaterializeDhwInv
  <1>5. CASE lastZones' # {} \/ lastDhw'
    <2>1. /\ data' = [zones |-> lastZones', dhw |-> lastDhw']
          /\ lastUpdateSuccess' = TRUE
      BY <1>5 DEF PollTransportError
    <2>2. TypeOK'
      BY <1>1, <1>2, <1>3, <1>4, <2>1 DEF TypeOK, Payload
    <2>3. MissedIsStale'
      BY <1>3, <2>1 DEF MissedIsStale
    <2>4. QED
      BY <1>4, <2>1, <2>2, <2>3
         DEF RetentionInv, PublishedMatchesCache, CachedIsPublished
  <1>6. CASE ~(lastZones' # {} \/ lastDhw')
    <2>1. /\ data' = data
          /\ lastUpdateSuccess' = FALSE
          /\ lastZones' = {}
      BY <1>6 DEF PollTransportError
    <2>2. TypeOK'
      BY <1>1, <1>2, <1>3, <1>4, <2>1 DEF TypeOK, Payload
    <2>3. MissedIsStale'
      <3>1. staleZoneIds' = staleZoneIds \cup lastZones
        BY <1>1 DEF MaterializeZones, GapsAfter, StaleAfter
      <3>2. data.zones \subseteq staleZoneIds'
        BY <1>2, <3>1 DEF MissedIsStale
      <3>3. QED
        BY <2>1, <3>2 DEF MissedIsStale
    <2>4. QED
      BY <1>4, <2>1, <2>2, <2>3
         DEF RetentionInv, PublishedMatchesCache, CachedIsPublished
  <1>7. QED
    BY <1>5, <1>6

\* A zone event adopts the published zones as the cache.
LEMMA ZoneEventInv ==
    ASSUME RetentionInv, NEW U \in NamedZones, ZoneEvent(U)
    PROVE  RetentionInv'
  <1>. USE DEF RetentionInv, ZoneEvent, GapsOutside, Freshened
  <1>1. U \subseteq Zones
    BY DEF NamedZones
  <1>2. data' = [zones |-> data.zones \cup U, dhw |-> data.dhw]
    BY DEF TypeOK, Payload
  <1>3. TypeOK'
    <2>1. zoneGapCycles' \in [Zones -> 0..TransientGapLimit]
      BY GapLimitAssumption DEF TypeOK
    <2>2. zoneOmissions' \in [Zones -> 0..OmissionCap]
      BY GapLimitAssumption DEF TypeOK, OmissionCap
    <2>3. data' \in Payload /\ lastZones' \subseteq Zones
      BY <1>1, <1>2 DEF TypeOK, Payload
    <2>4. QED
      BY <2>1, <2>2, <2>3 DEF TypeOK, dhwCache
  <1>4. MissedIsStale'
    <2>1. ASSUME NEW z \in data'.zones, zoneOmissions'[z] > 0
          PROVE  z \in staleZoneIds'
      BY <1>1, <1>2, <2>1 DEF MissedIsStale, TypeOK, Payload
    <2>2. QED
      BY <1>2, <2>1 DEF MissedIsStale
  <1>5. UNCHANGED <<lastDhw, dhwGapCycles, dhwIsStale, dhwOmissions,
                    lastUpdateSuccess>>
    BY DEF dhwCache
  <1>6. PublishedMatchesCache'
    <2>1. lastUpdateSuccess => data.dhw = lastDhw
      BY DEF PublishedMatchesCache
    <2>2. QED
      BY <1>2, <1>5, <2>1 DEF PublishedMatchesCache
  <1>7. CachedIsPublished' /\ DhwGapCountsOmissions'
    BY <1>2, <1>5 DEF CachedIsPublished, DhwGapCountsOmissions
  <1>8. QED
    BY <1>3, <1>4, <1>6, <1>7

\* A DHW event publishes the DHW cache it leaves.
LEMMA DhwEventInv ==
    ASSUME RetentionInv, NEW d \in BOOLEAN, DhwEvent(d)
    PROVE  RetentionInv'
  <1>. USE DEF RetentionInv, DhwEvent, PublishDhw
  <1>1. /\ lastDhw' \in BOOLEAN
        /\ dhwGapCycles' \in 0..TransientGapLimit
        /\ dhwIsStale' \in BOOLEAN
        /\ dhwOmissions' \in 0..OmissionCap
        /\ DhwGapCountsOmissions'
    BY MaterializeDhwInv
  <1>2. data' = [zones |-> data.zones, dhw |-> lastDhw']
    BY DEF TypeOK, Payload
  <1>3. TypeOK'
    BY <1>1, <1>2 DEF TypeOK, Payload, zoneCache
  <1>4. UNCHANGED <<lastZones, zoneGapCycles, staleZoneIds, zoneOmissions,
                    lastUpdateSuccess>>
    BY DEF zoneCache
  <1>5. PublishedMatchesCache'
    <2>1. lastUpdateSuccess => data.zones = lastZones
      BY DEF PublishedMatchesCache
    <2>2. QED
      BY <1>2, <1>4, <2>1 DEF PublishedMatchesCache
  <1>6. CachedIsPublished' /\ MissedIsStale'
    BY <1>2, <1>4 DEF CachedIsPublished, MissedIsStale
  <1>7. QED
    BY <1>1, <1>3, <1>5, <1>6

\* Every step preserves the invariant.
LEMMA NextRetentionInv == RetentionInv /\ [Next]_vars => RetentionInv'
  <1> SUFFICES ASSUME RetentionInv, [Next]_vars
               PROVE  RetentionInv'
    OBVIOUS
  <1>1. CASE \E S \in SUBSET Zones, d \in BOOLEAN : PollAnswered(S, d)
    BY <1>1, PollAnsweredInv
  <1>2. CASE PollRejected
    BY <1>2 DEF PollRejected, RetentionInv, TypeOK, PublishedMatchesCache,
                CachedIsPublished, MissedIsStale, DhwGapCountsOmissions,
                zoneCache, dhwCache
  <1>3. CASE PollTransportError
    BY <1>3, PollTransportErrorInv
  <1>4. CASE Connect \/ SubscriptionEnds
    BY <1>4 DEF Connect, SubscriptionEnds, RetentionInv, TypeOK,
                PublishedMatchesCache, CachedIsPublished, MissedIsStale,
                DhwGapCountsOmissions, zoneCache, dhwCache, published
  <1>5. CASE \E U \in NamedZones : ZoneEvent(U)
    BY <1>5, ZoneEventInv
  <1>6. CASE \E d \in BOOLEAN : DhwEvent(d)
    BY <1>6, DhwEventInv
  <1>7. CASE Reload
    BY <1>7, ReloadRetentionInv
  <1>8. CASE UNCHANGED vars
    BY <1>8 DEF vars, RetentionInv, TypeOK, PublishedMatchesCache,
                CachedIsPublished, MissedIsStale, DhwGapCountsOmissions,
                zoneCache, dhwCache, published
  <1>9. QED
    BY <1>1, <1>2, <1>3, <1>4, <1>5, <1>6, <1>7, <1>8 DEF Next, Poll

-----------------------------------------------------------------------------
\* The inductive invariant holds throughout.
THEOREM RetentionInvariance == Spec => []RetentionInv
  BY InitRetentionInv, NextRetentionInv, PTL DEF Spec

\* The state has its types and the gap counters their range, for any zones
\* and any limit.
THEOREM RetentionTypeCorrect == Spec => []TypeOK
  <1>1. RetentionInv => TypeOK
    BY DEF RetentionInv
  <1>2. QED
    BY <1>1, RetentionInvariance, PTL

\* While the coordinator reports success the published payload is the cache.
THEOREM PublishedCacheAgree == Spec => []PublishedMatchesCache
  <1>1. RetentionInv => PublishedMatchesCache
    BY DEF RetentionInv
  <1>2. QED
    BY <1>1, RetentionInvariance, PTL

\* A zone that passes the write fence of semantic_freshness.py was observed
\* by the last materialization or by its own event since.
THEOREM ZoneFenceSound == Spec => []ZoneWriteFenceSound
  <1>1. RetentionInv => ZoneWriteFenceSound
    <2> SUFFICES ASSUME RetentionInv, NEW z \in Zones, ZoneWriteReady(z)
                 PROVE  zoneOmissions[z] = 0
      BY DEF ZoneWriteFenceSound
    <2>1. z \in data.zones /\ z \notin staleZoneIds
      BY DEF ZoneWriteReady, ZoneAvailable, ZoneStale
    <2>2. ~(zoneOmissions[z] > 0)
      BY <2>1 DEF RetentionInv, MissedIsStale
    <2>3. zoneOmissions[z] \in 0..OmissionCap
      BY DEF RetentionInv, TypeOK
    <2>4. QED
      BY <2>2, <2>3, GapLimitAssumption DEF OmissionCap
  <1>2. QED
    BY <1>1, RetentionInvariance, PTL

\* The DHW write fence is as sound.
THEOREM DhwFenceSound == Spec => []DhwWriteFenceSound
  <1>1. RetentionInv => DhwWriteFenceSound
    <2> SUFFICES ASSUME RetentionInv, DhwWriteReady
                 PROVE  dhwOmissions = 0
      BY DEF DhwWriteFenceSound
    <2>1. lastUpdateSuccess /\ data.dhw /\ ~dhwIsStale
      BY DEF DhwWriteReady, DhwAvailable, DhwStale
    <2>2. lastDhw
      BY <2>1 DEF RetentionInv, PublishedMatchesCache
    <2>3. ~(dhwOmissions > 0) /\ dhwOmissions \in 0..OmissionCap
      BY <2>1, <2>2 DEF RetentionInv, DhwGapCountsOmissions, TypeOK
    <2>4. QED
      BY <2>3, GapLimitAssumption DEF OmissionCap
  <1>2. QED
    BY <1>1, RetentionInvariance, PTL

\* An available DHW reading is never older than the limit, in any
\* interleaving of polls, null events and failures.
THEOREM DhwBounded == Spec => []DhwRetentionBounded
  <1>1. RetentionInv => DhwRetentionBounded
    <2> SUFFICES ASSUME RetentionInv, DhwAvailable
                 PROVE  dhwOmissions <= TransientGapLimit
      BY DEF DhwRetentionBounded
    <2>1. lastDhw
      BY DEF DhwAvailable, RetentionInv, PublishedMatchesCache
    <2>2. dhwOmissions = dhwGapCycles
      BY <2>1 DEF RetentionInv, DhwGapCountsOmissions
    <2>3. QED
      BY <2>2, GapLimitAssumption DEF RetentionInv, TypeOK
  <1>2. QED
    BY <1>1, RetentionInvariance, PTL

\* An expired zone comes back into the cache only observed, or out of the
\* payload a failed refresh left published.
THEOREM ExpiredStaysExpired == Spec => ReturnsOnlyWhenObserved
  <1> DEFINE Returns(z) == z \notin lastZones /\ z \in lastZones' =>
                              \/ zoneOmissions'[z] = 0
                              \/ ~lastUpdateSuccess /\ z \in data.zones
  <1>1. ASSUME RetentionInv, Next, NEW z \in Zones,
               z \notin lastZones, z \in lastZones'
        PROVE  zoneOmissions'[z] = 0 \/ (~lastUpdateSuccess /\ z \in data.zones)
    <2>1. ASSUME NEW S \in SUBSET Zones, MaterializeZones(S)
          PROVE  zoneOmissions'[z] = 0
      <3>1. z \in S
        BY <1>1, <2>1 DEF MaterializeZones, GapsAfter, StaleAfter, Retained
      <3>2. QED
        BY <2>1, <3>1 DEF MaterializeZones, GapsAfter, StaleAfter
    <2>2. CASE Poll
      BY <1>1, <2>1, <2>2 DEF Poll, PollAnswered, PollRejected,
                              PollTransportError, zoneCache
    <2>3. ASSUME NEW U \in NamedZones, ZoneEvent(U)
          PROVE  zoneOmissions'[z] = 0 \/ (~lastUpdateSuccess /\ z \in data.zones)
      <3>1. CASE z \in U
        BY <2>3, <3>1 DEF ZoneEvent, GapsOutside, Freshened
      <3>2. CASE z \notin U
        <4>1. z \in data.zones
          BY <1>1, <2>3, <3>2 DEF ZoneEvent, GapsOutside, Freshened
        <4>2. lastUpdateSuccess => data.zones = lastZones
          BY <1>1 DEF RetentionInv, PublishedMatchesCache
        <4>3. QED
          BY <1>1, <4>1, <4>2
      <3>3. QED
        BY <3>1, <3>2
    <2>4. CASE Reload
      BY <1>1, <2>4 DEF Reload
    <2>5. CASE Connect \/ SubscriptionEnds \/ \E d \in BOOLEAN : DhwEvent(d)
      BY <1>1, <2>5 DEF Connect, SubscriptionEnds, DhwEvent, PublishDhw,
          zoneCache
    <2>6. QED
      BY <1>1, <2>2, <2>3, <2>4, <2>5 DEF Next
  <1>2. RetentionInv /\ [Next]_vars => [\A z \in Zones : Returns(z)]_vars
    BY <1>1
  <1>3. QED
    BY <1>2, RetentionInvariance, PTL DEF Spec, ReturnsOnlyWhenObserved

-----------------------------------------------------------------------------
\* One materialization is a step of the DHW target's contract.
LEMMA MaterializeDhwRefines ==
    ASSUME RetentionInv, NEW d \in BOOLEAN, MaterializeDhw(d)
    PROVE  DhwTarget!Next \/ UNCHANGED DhwTarget!target
  <1>1. CASE d
    BY <1>1 DEF MaterializeDhw, DhwGapAfter, DhwStaleAfter, DhwTarget!Next,
        DhwTarget!Observe
  <1>2. CASE ~d /\ DhwRetained
    BY <1>2 DEF MaterializeDhw, DhwGapAfter, DhwStaleAfter, DhwRetained,
        DhwTarget!Next, DhwTarget!Omit
  <1>3. CASE ~d /\ lastDhw /\ ~DhwRetained
    <2>1. dhwGapCycles >= TransientGapLimit
      BY <1>3, GapLimitAssumption DEF DhwRetained, RetentionInv, TypeOK
    <2>2. QED
      BY <1>3, <2>1 DEF MaterializeDhw, DhwGapAfter, DhwStaleAfter,
          DhwTarget!Next, DhwTarget!Expire
  <1>4. CASE ~d /\ ~lastDhw
    <2>1. lastDhw = FALSE /\ dhwGapCycles = 0 /\ dhwIsStale \in BOOLEAN
      BY <1>4 DEF RetentionInv, TypeOK, DhwGapCountsOmissions
    <2>2. lastDhw' = FALSE /\ dhwGapCycles' = 0 /\ dhwIsStale' = dhwIsStale
      BY <1>4, <2>1 DEF MaterializeDhw, DhwGapAfter, DhwStaleAfter,
          DhwRetained
    <2>3. QED
      BY <2>1, <2>2 DEF DhwTarget!target
  <1>5. QED
    BY <1>1, <1>2, <1>3, <1>4 DEF DhwRetained

\* DHW implements the retention contract, for any limit.
THEOREM DhwRefinesTarget == Spec => DhwImplementsTarget
  <1>1. Init => DhwTarget!Init
    BY DEF Init, DhwTarget!Init
  <1>2. RetentionInv /\ [Next]_vars => [DhwTarget!Next]_(DhwTarget!target)
    <2> SUFFICES ASSUME RetentionInv, [Next]_vars
                 PROVE  DhwTarget!Next \/ UNCHANGED DhwTarget!target
      OBVIOUS
    <2>1. CASE Poll
      BY <2>1, MaterializeDhwRefines
         DEF Poll, PollAnswered, PollRejected, PollTransportError, dhwCache,
             DhwTarget!target
    <2>2. CASE \E d \in BOOLEAN : DhwEvent(d)
      BY <2>2, MaterializeDhwRefines DEF DhwEvent, PublishDhw
    <2>3. CASE Reload
      BY <2>3 DEF Reload, DhwTarget!Next, DhwTarget!Reload
    <2>4. CASE UNCHANGED dhwCache
      BY <2>4 DEF dhwCache, DhwTarget!target
    <2>5. CASE Connect \/ SubscriptionEnds \/ \E U \in NamedZones : ZoneEvent(U)
      BY <2>4, <2>5 DEF Connect, SubscriptionEnds, ZoneEvent, GapsOutside,
          Freshened
    <2>6. QED
      BY <2>1, <2>2, <2>3, <2>4, <2>5 DEF Next, vars
  <1>3. QED
    BY <1>1, <1>2, RetentionInvariance, PTL
       DEF Spec, DhwImplementsTarget, DhwTarget!Spec

-----------------------------------------------------------------------------
\* An answer keeps every cached zone's gap equal to its omissions.
LEMMA MaterializeZonesCounts ==
    ASSUME TypeOK, GapCountsOmissions, NEW S \in SUBSET Zones,
           MaterializeZones(S)
    PROVE  GapCountsOmissions'
  <1> SUFFICES ASSUME NEW z \in lastZones'
               PROVE  zoneGapCycles'[z] = zoneOmissions'[z]
    BY DEF GapCountsOmissions
  <1>1. z \in Zones
    BY DEF MaterializeZones, GapsAfter, StaleAfter, Retained, TypeOK
  <1>2. CASE z \in S
    BY <1>1, <1>2 DEF MaterializeZones, GapsAfter, StaleAfter, Retained
  <1>3. CASE z \notin S
    <2>1. z \in Retained(S) /\ z \in lastZones
      BY <1>3 DEF MaterializeZones, GapsAfter, StaleAfter, Retained
    <2>2. zoneGapCycles[z] = zoneOmissions[z]
      BY <2>1 DEF GapCountsOmissions
    <2>3. zoneGapCycles[z] \in Nat /\ zoneGapCycles[z] + 1 <= TransientGapLimit
      BY <1>1, <2>1, GapLimitAssumption DEF Retained, TypeOK
    <2>4. Missed(zoneOmissions[z]) = zoneGapCycles[z] + 1
      BY <2>2, <2>3, GapLimitAssumption DEF Missed, OmissionCap
    <2>5. QED
      BY <1>1, <1>3, <2>1, <2>4 DEF MaterializeZones, GapsAfter, StaleAfter
  <1>4. QED
    BY <1>2, <1>3

\* Without zone events on top of a failed poll the gap of a cached zone never
\* restarts unobserved.
LEMMA QuietNextInv == QuietInv /\ [QuietNext]_vars => QuietInv'
  <1> SUFFICES ASSUME QuietInv, [QuietNext]_vars
               PROVE  QuietInv'
    OBVIOUS
  <1>1. RetentionInv'
    <2>1. [Next]_vars
      BY DEF QuietNext, Next
    <2>2. QED
      BY <2>1, NextRetentionInv DEF QuietInv
  <1>2. GapCountsOmissions'
    <2>. USE DEF QuietInv
    <2>1. CASE Poll
      BY <2>1, MaterializeZonesCounts
         DEF Poll, PollAnswered, PollRejected, PollTransportError, zoneCache,
             RetentionInv, GapCountsOmissions
    <2>2. ASSUME lastUpdateSuccess, NEW U \in NamedZones, ZoneEvent(U)
          PROVE  GapCountsOmissions'
      <3>1. data.zones = lastZones /\ lastZones \subseteq Zones
        BY <2>2 DEF RetentionInv, PublishedMatchesCache, TypeOK
      <3>2. U \subseteq Zones
        BY DEF NamedZones
      <3>3. QED
        BY <2>2, <3>1, <3>2 DEF ZoneEvent, GapsOutside, Freshened,
            GapCountsOmissions
    <2>3. CASE Reload
      BY <2>3 DEF Reload, GapCountsOmissions
    <2>4. CASE UNCHANGED zoneCache
      BY <2>4 DEF zoneCache, GapCountsOmissions
    <2>5. CASE Connect \/ SubscriptionEnds \/ \E d \in BOOLEAN : DhwEvent(d)
      BY <2>4, <2>5 DEF Connect, SubscriptionEnds, DhwEvent, PublishDhw
    <2>6. QED
      BY <2>1, <2>2, <2>3, <2>4, <2>5 DEF QuietNext, vars
  <1>3. QED
    BY <1>1, <1>2 DEF QuietInv

\* The README's promise for zones, for any zones and any limit, as long as
\* no zone event arrives on top of a failed poll.
THEOREM ZonesBoundedWhenQuiet == QuietSpec => []ZoneRetentionBounded
  <1>1. Init => QuietInv
    <2>1. Init => GapCountsOmissions
      BY DEF Init, GapCountsOmissions
    <2>2. QED
      BY <2>1, InitRetentionInv DEF QuietInv
  <1>2. QuietInv => ZoneRetentionBounded
    <2> SUFFICES ASSUME QuietInv, NEW z \in Zones, ZoneAvailable(z)
                 PROVE  zoneOmissions[z] <= TransientGapLimit
      BY DEF ZoneRetentionBounded
    <2>1. z \in lastZones
      BY DEF ZoneAvailable, QuietInv, RetentionInv, PublishedMatchesCache
    <2>2. zoneOmissions[z] = zoneGapCycles[z]
      BY <2>1 DEF QuietInv, GapCountsOmissions
    <2>3. QED
      BY <2>2, GapLimitAssumption DEF QuietInv, RetentionInv, TypeOK
  <1>3. QED
    BY <1>1, <1>2, QuietNextInv, PTL DEF QuietSpec

-----------------------------------------------------------------------------
\* A zone that is not cached has no gap.
UncachedHasNoGap == \A z \in Zones \ lastZones : zoneGapCycles[z] = 0

ZoneInv == RetentionInv /\ UncachedHasNoGap

LEMMA InitZoneInv == Init => ZoneInv
  BY InitRetentionInv DEF ZoneInv, UncachedHasNoGap, Init

LEMMA NextZoneInv == ZoneInv /\ [Next]_vars => ZoneInv'
  <1> SUFFICES ASSUME ZoneInv, [Next]_vars
               PROVE  UncachedHasNoGap'
    BY NextRetentionInv DEF ZoneInv
  <1> USE DEF ZoneInv
  <1>1. ASSUME NEW S \in SUBSET Zones, MaterializeZones(S)
        PROVE  UncachedHasNoGap'
    BY <1>1 DEF MaterializeZones, GapsAfter, StaleAfter, UncachedHasNoGap
  <1>2. CASE Poll
    BY <1>1, <1>2 DEF Poll, PollAnswered, PollRejected, PollTransportError,
        zoneCache, UncachedHasNoGap
  <1>3. ASSUME NEW U \in NamedZones, ZoneEvent(U)
        PROVE  UncachedHasNoGap'
    <2>1. lastZones \subseteq lastZones' /\ U \subseteq Zones
      BY <1>3 DEF ZoneEvent, GapsOutside, Freshened, RetentionInv,
          CachedIsPublished, NamedZones
    <2>2. QED
      BY <1>3, <2>1 DEF ZoneEvent, GapsOutside, Freshened, UncachedHasNoGap
  <1>4. CASE Reload
    BY <1>4 DEF Reload, UncachedHasNoGap
  <1>5. CASE UNCHANGED zoneCache
    BY <1>5 DEF zoneCache, UncachedHasNoGap
  <1>6. CASE Connect \/ SubscriptionEnds \/ \E d \in BOOLEAN : DhwEvent(d)
    BY <1>5, <1>6 DEF Connect, SubscriptionEnds, DhwEvent, PublishDhw
  <1>7. QED
    BY <1>2, <1>3, <1>4, <1>5, <1>6 DEF Next, vars

\* One materialization is a step of the contract of every zone.
LEMMA MaterializeZoneRefines ==
    ASSUME ZoneInv, NEW S \in SUBSET Zones, MaterializeZones(S)
    PROVE  ZoneTarget!Next \/ UNCHANGED ZoneTarget!target
  <1> USE ZoneAssumption
  <1>1. /\ (zone \in lastZones') = (zone \in S \/ zone \in Retained(S))
        /\ zoneGapCycles'[zone] =
              IF zone \in Retained(S) THEN zoneGapCycles[zone] + 1 ELSE 0
        /\ (zone \in staleZoneIds') =
              (zone \notin S /\ (zone \in staleZoneIds \/ zone \in lastZones))
    BY DEF MaterializeZones, GapsAfter, StaleAfter
  <1>2. zoneGapCycles[zone] \in 0..TransientGapLimit
    BY DEF ZoneInv, RetentionInv, TypeOK
  <1>3. CASE zone \in S
    BY <1>1, <1>3 DEF Retained, ZoneTarget!Next, ZoneTarget!Observe
  <1>4. CASE zone \in Retained(S)
    <2>1. zone \notin S /\ zone \in lastZones
          /\ zoneGapCycles[zone] < TransientGapLimit
      BY <1>2, <1>4, GapLimitAssumption DEF Retained
    <2>2. QED
      BY <1>1, <1>4, <2>1 DEF ZoneTarget!Next, ZoneTarget!Omit
  <1>5. CASE zone \in lastZones /\ zone \notin S /\ zone \notin Retained(S)
    <2>1. zoneGapCycles[zone] >= TransientGapLimit
      BY <1>2, <1>5, GapLimitAssumption DEF Retained
    <2>2. QED
      BY <1>1, <1>5, <2>1 DEF ZoneTarget!Next, ZoneTarget!Expire
  <1>6. CASE zone \notin lastZones /\ zone \notin S
    <2>1. zone \notin Retained(S) /\ zoneGapCycles[zone] = 0
      BY <1>6 DEF Retained, ZoneInv, UncachedHasNoGap
    <2>2. QED
      BY <1>1, <1>6, <2>1 DEF ZoneTarget!target
  <1>7. QED
    BY <1>3, <1>4, <1>5, <1>6

\* Every step of the coordinator but a zone event on top of a failed poll is
\* a step of the retention contract of every zone, for any zones and limit.
THEOREM ZoneStepsRefineTarget == Spec => ZoneStepsKeepTarget
  <1> DEFINE Kept == \/ ~lastUpdateSuccess /\ \E U \in NamedZones : ZoneEvent(U)
                     \/ ZoneTarget!Next
                     \/ UNCHANGED ZoneTarget!target
  <1>1. ASSUME ZoneInv, Next PROVE Kept
    <2>1. CASE Poll
      BY <1>1, <2>1, MaterializeZoneRefines
         DEF Poll, PollAnswered, PollRejected, PollTransportError, zoneCache,
             ZoneTarget!target
    <2>2. ASSUME lastUpdateSuccess, NEW U \in NamedZones, ZoneEvent(U)
          PROVE  Kept
      <3>1. data.zones = lastZones
        BY <1>1, <2>2 DEF ZoneInv, RetentionInv, PublishedMatchesCache
      <3>2. CASE zone \in U
        BY <2>2, <3>2, ZoneAssumption DEF ZoneEvent, GapsOutside, Freshened,
            ZoneTarget!Next, ZoneTarget!Observe
      <3>3. CASE zone \notin U
        BY <2>2, <3>1, <3>3, ZoneAssumption DEF ZoneEvent, GapsOutside,
            Freshened, ZoneTarget!target
      <3>4. QED
        BY <3>2, <3>3
    <2>3. CASE Reload
      BY <2>3, ZoneAssumption DEF Reload, ZoneTarget!Next, ZoneTarget!Reload
    <2>4. CASE Connect \/ SubscriptionEnds \/ \E d \in BOOLEAN : DhwEvent(d)
      BY <2>4 DEF Connect, SubscriptionEnds, DhwEvent, PublishDhw, zoneCache,
          ZoneTarget!target
    <2>5. CASE \E U \in NamedZones : ZoneEvent(U)
      <3>1. lastUpdateSuccess \/ ~lastUpdateSuccess
        OBVIOUS
      <3>2. QED
        BY <2>2, <2>5, <3>1
    <2>6. QED
      BY <1>1, <2>1, <2>3, <2>4, <2>5 DEF Next
  <1>2. ZoneInv /\ [Next]_vars => [Kept]_vars
    BY <1>1
  <1>3. QED
    BY <1>2, InitZoneInv, NextZoneInv, PTL DEF Spec, ZoneStepsKeepTarget

-----------------------------------------------------------------------------
(* The parents of zones (RadioParents), for any radios and zones *)

RadioBindings == [slot : Slots \cup {None}, mapping : Radio!Mappings]
ParentDevices == Slots \cup {Regulator, None}

LEMMA RadioFacts ==
    /\ Group \in [Slots -> {"09", "0a", "0c"}] /\ Remote \in [Slots -> Nat]
    /\ Rank \in [Slots -> Nat] /\ Assigned \in [Slots -> RadioZones \cup {NoZone}]
    /\ Regulator \notin Slots /\ None \notin Slots /\ Regulator # None
    /\ StaleGrace \in Nat /\ MaxChanges \in Nat
  BY RadioConstants DEF Radio!RadioConstants

LEMMA LeastOf ==
    ASSUME NEW S, S \subseteq Nat, S # {}
    PROVE  \E x \in S : \A y \in S : x <= y
  <1>1. PICK x \in S : \A y \in S : ~(<<y, x>> \in OpToRel(<, Nat))
    BY NatLessThanWellFounded, WFMin
  <1>2. ASSUME NEW y \in Nat, NEW n \in Nat, y < n
        PROVE  <<y, n>> \in OpToRel(<, Nat)
    BY <1>2 DEF OpToRel
  <1>3. ASSUME NEW y \in S PROVE x <= y
    <2>1. x \in Nat /\ y \in Nat
      OBVIOUS
    <2>2. ~(y < x)
      BY <1>1, <1>2, <2>1
    <2>3. QED
      BY <2>1, <2>2
  <1>4. QED
    BY <1>3

\* The code takes one of the candidates: the radio of a zone is listed.
LEMMA SelectedIsListed ==
    ASSUME NEW z, NEW m, NEW ages, Radio!SelectZoneRadio(z, m, ages) # None
    PROVE  /\ Radio!SelectZoneRadio(z, m, ages) \in Slots
           /\ ages[Radio!SelectZoneRadio(z, m, ages)] # -1
  <1> DEFINE place(s) == Radio!Choice(z, m, ages, s)
             chosen == {s \in Slots : place(s) # Radio!NotChosen}
             before(s, t) == place(s) < place(t) \/ (place(s) = place(t) /\ Rank[s] <= Rank[t])
  <1>1. chosen # {}
    BY DEF Radio!SelectZoneRadio
  <1>2. \A s \in chosen : place(s) \in Nat
    BY DEF Radio!Choice
  <1>3. PICK first \in {place(s) : s \in chosen} : \A y \in {place(s) : s \in chosen} : first <= y
    BY <1>1, <1>2, LeastOf
  <1> DEFINE best == {s \in chosen : place(s) = first}
  <1>4. best # {} /\ \A s \in best : Rank[s] \in Nat
    BY <1>3, RadioFacts
  <1>5. PICK low \in {Rank[s] : s \in best} : \A y \in {Rank[s] : s \in best} : low <= y
    <2> HIDE DEF best
    <2>1. {Rank[s] : s \in best} # {} /\ {Rank[s] : s \in best} \subseteq Nat
      BY <1>4
    <2>2. QED
      BY <2>1, LeastOf
  <1>6. PICK w \in best : Rank[w] = low
    BY <1>5
  <1> HIDE DEF place
  <1>7. \A t \in chosen : before(w, t)
    <2> SUFFICES ASSUME NEW t \in chosen PROVE before(w, t)
      OBVIOUS
    <2>1. place(w) = first /\ first <= place(t) /\ place(t) \in Nat /\ first \in Nat
      BY <1>2, <1>3, <1>6
    <2>2. CASE place(t) = first
      BY <1>5, <1>6, <2>1, <2>2
    <2>3. CASE place(t) # first
      BY <2>1, <2>3
    <2>4. QED
      BY <2>2, <2>3
  <1>8. \E s \in chosen : \A t \in chosen : before(s, t)
    BY <1>6, <1>7
  <1>9. (CHOOSE s \in chosen : \A t \in chosen : before(s, t)) \in chosen
    BY <1>8
  <1>10. Radio!SelectZoneRadio(z, m, ages) = CHOOSE s \in chosen : \A t \in chosen : before(s, t)
    BY <1>1 DEF Radio!SelectZoneRadio, place
  <1>11. Radio!SelectZoneRadio(z, m, ages) \in chosen
    BY <1>9, <1>10
  <1>12. \A s \in chosen : s \in Slots /\ ages[s] # -1
    BY DEF place, Radio!Choice
  <1>13. QED
    BY <1>11, <1>12

\* The parent that the data at hand names
LEMMA LiveParentIs ==
    ASSUME NEW z, NEW m, NEW ages
    PROVE  /\ m \notin Radio!RadioMappings => Radio!LiveParent(z, m, ages) = Regulator
           /\ m \in Radio!RadioMappings /\ Radio!LiveParent(z, m, ages) # None =>
                 /\ Radio!LiveParent(z, m, ages) \in Slots
                 /\ ages[Radio!LiveParent(z, m, ages)] # -1
           /\ Radio!LiveParent(z, m, ages) \in ParentDevices
  BY SelectedIsListed, RadioFacts DEF Radio!LiveParent, ParentDevices

LEMMA ParentTypes ==
    ASSUME NEW config \in [RadioZones -> Radio!Mappings], NEW ages,
           NEW retained \in [RadioZones -> RadioBindings]
    PROVE  /\ Radio!Adopted(config, ages, retained) \in [RadioZones -> RadioBindings]
           /\ Radio!Parents(config, ages, retained) \in [RadioZones -> ParentDevices]
  <1>1. ASSUME NEW z \in RadioZones
        PROVE  /\ Radio!LiveParent(z, config[z], ages) \in ParentDevices
               /\ retained[z] \in RadioBindings /\ config[z] \in Radio!Mappings
               /\ config[z] \in Radio!RadioMappings /\ Radio!LiveParent(z, config[z], ages) # None
                     => [slot |-> Radio!LiveParent(z, config[z], ages), mapping |-> config[z]]
                           \in RadioBindings
    BY LiveParentIs DEF RadioBindings
  <1>2. Radio!Adopted(config, ages, retained) \in [RadioZones -> RadioBindings]
    BY <1>1 DEF Radio!Adopted
  <1>3. \A z \in RadioZones : Radio!Parent(z, config[z], ages, retained) \in ParentDevices
    BY <1>1 DEF Radio!Parent, RadioBindings, ParentDevices
  <1>4. QED
    BY <1>2, <1>3 DEF Radio!Parents

SlotTypes ==
    /\ active \subseteq Slots /\ known \subseteq Slots /\ entries \subseteq Slots
    /\ age \in [Slots -> -1 .. StaleGrace]

ParentState ==
    /\ mapping \in [RadioZones -> Radio!Mappings] /\ zones \in [RadioZones -> Radio!Mappings]
    /\ bindings \in [RadioZones -> RadioBindings]
    /\ baseline \in [RadioZones -> ParentDevices]
    /\ registry \in [RadioZones -> ParentDevices]

LEMMA RadioTypesSplit ==
    /\ Radio!TypeOK <=> SlotTypes /\ ParentState /\ pending \in BOOLEAN
    /\ Radio!TypeOK' <=> SlotTypes' /\ ParentState' /\ pending' \in BOOLEAN
  BY DEF Radio!TypeOK, SlotTypes, ParentState, RadioBindings, ParentDevices

\* A slot's age after a poll, and after a set-up
LEMMA Ages ==
    ASSUME SlotTypes
    PROVE  /\ \A listed : Radio!Materialize(listed) \in [Slots -> -1 .. StaleGrace]
           /\ Radio!Fresh \in [Slots -> -1 .. StaleGrace]
           /\ [s \in Slots |-> -1] \in [Slots -> -1 .. StaleGrace]
           /\ \A s \in Slots : Radio!Fresh[s] # -1 => Radio!Fresh[s] = 0
  <1>1. -1 \in -1 .. StaleGrace /\ 0 \in -1 .. StaleGrace
    BY RadioFacts
  <1>2. ASSUME NEW s \in Slots, age[s] >= 0, age[s] < StaleGrace
        PROVE  age[s] + 1 \in -1 .. StaleGrace
    BY <1>2, RadioFacts DEF SlotTypes
  <1>3. \A listed : Radio!Materialize(listed) \in [Slots -> -1 .. StaleGrace]
    BY <1>1, <1>2 DEF Radio!Materialize
  <1>4. QED
    BY <1>1, <1>3 DEF Radio!Fresh

\* Set-up, of which a reload and a restart consist
LEMMA SetUpIs ==
    ASSUME Radio!SetUp
    PROVE  LET retained == Radio!Adopted(mapping, Radio!Fresh, Radio!Resolved)
               parents == Radio!Parents(mapping, Radio!Fresh, retained)
           IN  /\ age' = Radio!Fresh /\ zones' = mapping /\ bindings' = retained
               /\ baseline' = parents /\ known' = active
               /\ registry' = [z \in RadioZones |-> IF parents[z] = None THEN registry[z]
                                                    ELSE parents[z]]
               /\ entries' = {s \in entries \cup active : Group[s] = "0c" => s \in active}
               /\ pending' = FALSE /\ active' = active /\ mapping' = mapping
  BY DEF Radio!SetUp, Radio!gateway

LEMMA ResolvedTypes ==
    ASSUME ParentState
    PROVE  Radio!Resolved \in [RadioZones -> RadioBindings]
  BY DEF ParentState, Radio!Resolved, Radio!NoBinding, RadioBindings, Radio!Mappings

LEMMA SetUpTypes ==
    ASSUME SlotTypes, ParentState, Radio!SetUp
    PROVE  SlotTypes' /\ ParentState' /\ pending' \in BOOLEAN
  <1> DEFINE retained == Radio!Adopted(mapping, Radio!Fresh, Radio!Resolved)
             parents == Radio!Parents(mapping, Radio!Fresh, retained)
  <1>1. retained \in [RadioZones -> RadioBindings]
    BY ResolvedTypes, ParentTypes DEF ParentState
  <1>2. parents \in [RadioZones -> ParentDevices]
    <2> HIDE DEF retained
    <2>1. QED
      BY <1>1, ParentTypes DEF ParentState
  <1>3. /\ age' = Radio!Fresh /\ zones' = mapping /\ bindings' = retained
        /\ baseline' = parents /\ known' = active
        /\ registry' = [z \in RadioZones |-> IF parents[z] = None THEN registry[z] ELSE parents[z]]
        /\ entries' = {s \in entries \cup active : Group[s] = "0c" => s \in active}
        /\ active' = active /\ mapping' = mapping
    BY SetUpIs
  <1>4. pending' \in BOOLEAN
    BY SetUpIs
  <1> HIDE DEF retained, parents
  <1>5. SlotTypes'
    BY <1>3, Ages DEF SlotTypes
  <1>6. ParentState'
    BY <1>1, <1>2, <1>3 DEF ParentState
  <1>7. QED
    BY <1>4, <1>5, <1>6

LEMMA HandledTypes ==
    ASSUME SlotTypes, ParentState, NEW config \in [RadioZones -> Radio!Mappings], NEW ages,
           pending \in BOOLEAN, Radio!Handled(config, ages)
    PROVE  bindings' \in [RadioZones -> RadioBindings] /\ pending' \in BOOLEAN
  <1>1. bindings' = Radio!Adopted(config, ages, bindings)
    BY DEF Radio!Handled
  <1>2. bindings' \in [RadioZones -> RadioBindings]
    BY <1>1, ParentTypes DEF ParentState
  <1>3. pending' \in BOOLEAN
    BY DEF Radio!Handled
  <1>4. QED
    BY <1>2, <1>3

LEMMA RadioTypesKept ==
    ASSUME Radio!TypeOK, Radio!Next
    PROVE  Radio!TypeOK'
  <1>1. SlotTypes /\ ParentState /\ pending \in BOOLEAN
    BY RadioTypesSplit
  <1>2. CASE Radio!RadioPoll \/ Radio!RadioEvent \/ Radio!RadioForgotten
    <2>1. /\ Radio!Handled(zones, age') /\ age' \in [Slots -> -1 .. StaleGrace]
          /\ active' = active /\ mapping' = mapping /\ zones' = zones /\ baseline' = baseline
          /\ known' = known /\ registry' = registry /\ entries' = entries
      BY <1>1, <1>2, Ages
      DEF Radio!RadioPoll, Radio!RadioEvent, Radio!RadioForgotten, Radio!RadioSnapshot,
          Radio!gateway, Radio!setup
    <2>2. bindings' \in [RadioZones -> RadioBindings] /\ pending' \in BOOLEAN
      BY <1>1, <2>1, HandledTypes DEF ParentState
    <2>3. SlotTypes' /\ ParentState'
      BY <1>1, <2>1, <2>2 DEF SlotTypes, ParentState
    <2>4. QED
      BY <2>2, <2>3, RadioTypesSplit
  <1>3. CASE Radio!SemanticPoll
    <2>1. /\ Radio!Handled(mapping, age) /\ zones' = mapping /\ age' = age
          /\ active' = active /\ mapping' = mapping /\ baseline' = baseline
          /\ known' = known /\ registry' = registry /\ entries' = entries
      BY <1>3 DEF Radio!SemanticPoll, Radio!gateway, Radio!setup
    <2>2. bindings' \in [RadioZones -> RadioBindings] /\ pending' \in BOOLEAN
      BY <1>1, <2>1, HandledTypes DEF ParentState
    <2>3. SlotTypes' /\ ParentState'
      BY <1>1, <2>1, <2>2 DEF SlotTypes, ParentState
    <2>4. QED
      BY <2>2, <2>3, RadioTypesSplit
  <1>4. CASE Radio!Reload \/ Radio!Restart
    <2>1. Radio!SetUp
      BY <1>4 DEF Radio!Reload, Radio!Restart
    <2>2. QED
      BY <1>1, <2>1, SetUpTypes, RadioTypesSplit
  <1>5. CASE Radio!GatewayChange
    <2>1. /\ age' = age /\ zones' = zones /\ bindings' = bindings /\ baseline' = baseline
          /\ known' = known /\ registry' = registry /\ entries' = entries
      BY <1>5 DEF Radio!GatewayChange, Radio!setup
    <2>2. pending' = pending
      BY <1>5 DEF Radio!GatewayChange
    <2>3. active' \subseteq Slots /\ mapping' \in [RadioZones -> Radio!Mappings]
      BY <1>1, <1>5 DEF Radio!GatewayChange, SlotTypes, ParentState, Radio!Mappings
    <2>4. SlotTypes' /\ ParentState'
      BY <1>1, <2>1, <2>3 DEF SlotTypes, ParentState
    <2>5. QED
      BY <1>1, <2>2, <2>4, RadioTypesSplit
  <1>6. QED
    BY <1>2, <1>3, <1>4, <1>5 DEF Radio!Next

LEMMA RadioTypeCorrect == Radio!Spec => []Radio!TypeOK
  <1>1. Radio!Init => Radio!TypeOK
    <2> SUFFICES ASSUME Radio!Init PROVE Radio!TypeOK
      OBVIOUS
    <2> DEFINE none == [z \in RadioZones |-> Radio!NoBinding]
    <2>1. /\ active \subseteq Slots /\ mapping \in [RadioZones -> Radio!Mappings]
          /\ age = Radio!Fresh /\ zones = mapping
          /\ bindings = Radio!Adopted(mapping, age, none)
          /\ baseline = Radio!Parents(mapping, age, bindings)
          /\ known = active /\ registry = baseline /\ entries = active
      BY DEF Radio!Init, Radio!Mappings
    <2>2. none \in [RadioZones -> RadioBindings]
      BY DEF Radio!NoBinding, RadioBindings, Radio!Mappings
    <2>3. bindings \in [RadioZones -> RadioBindings]
      <3> HIDE DEF none
      <3>1. QED
        BY <2>1, <2>2, ParentTypes
    <2>4. baseline \in [RadioZones -> ParentDevices]
      BY <2>1, <2>3, ParentTypes
    <2>5. Radio!Fresh \in [Slots -> -1 .. StaleGrace]
      BY RadioFacts DEF Radio!Fresh
    <2>6. SlotTypes /\ ParentState
      BY <2>1, <2>3, <2>4, <2>5 DEF SlotTypes, ParentState
    <2>7. pending \in BOOLEAN
      BY DEF Radio!Init
    <2>8. QED
      BY <2>6, <2>7, RadioTypesSplit
  <1>2. Radio!TypeOK /\ UNCHANGED Radio!vars => Radio!TypeOK'
    BY DEF Radio!TypeOK, Radio!vars, Radio!gateway, Radio!setup
  <1>3. QED
    BY <1>1, <1>2, RadioTypesKept, PTL DEF Radio!Spec

\* A set-up moves a zone only to a radio it hears, or, without a mapping, to
\* the regulator.
LEMMA SetUpMoves ==
    ASSUME SlotTypes, ParentState, Radio!SetUp,
           NEW z \in RadioZones, registry'[z] # registry[z]
    PROVE  IF registry'[z] = Regulator THEN zones'[z] \notin Radio!RadioMappings
           ELSE age'[registry'[z]] = 0
  <1> DEFINE m == mapping[z]
             live == Radio!LiveParent(z, m, Radio!Fresh)
             retained == Radio!Adopted(mapping, Radio!Fresh, Radio!Resolved)
             parent == Radio!Parent(z, m, Radio!Fresh, retained)
  <1>1. /\ registry'[z] = parent /\ parent # None
        /\ age' = Radio!Fresh /\ zones'[z] = m
    BY SetUpIs DEF Radio!Parents
  <1>2. CASE m \notin Radio!RadioMappings
    <2>1. live = Regulator
      BY <1>2, LiveParentIs
    <2>2. parent = Regulator
      BY <2>1, RadioFacts DEF Radio!Parent
    <2>3. QED
      BY <1>1, <1>2, <2>2
  <1>3. CASE m \in Radio!RadioMappings /\ live # None
    <2>1. live \in Slots /\ Radio!Fresh[live] # -1
      BY <1>3, LiveParentIs
    <2>2. Radio!Fresh[live] = 0
      BY <2>1, Ages
    <2>3. parent = live
      BY <1>3 DEF Radio!Parent
    <2>4. QED
      BY <1>1, <2>1, <2>2, <2>3, RadioFacts
  <1>4. CASE m \in Radio!RadioMappings /\ live = None
    <2>1. retained[z] = Radio!Resolved[z]
      BY <1>4 DEF Radio!Adopted
    <2>2. parent = IF Radio!Resolved[z].mapping = m THEN Radio!Resolved[z].slot ELSE None
      BY <1>4, <2>1 DEF Radio!Parent
    <2>3. Radio!Resolved[z] = IF registry[z] = bindings[z].slot THEN bindings[z]
                              ELSE Radio!NoBinding
      BY DEF Radio!Resolved
    <2>4. Radio!NoBinding.mapping # m
      BY <1>4 DEF Radio!NoBinding, Radio!RadioMappings
    <2>5. parent \in {registry[z], None}
      BY <2>2, <2>3, <2>4
    <2>6. QED
      BY <1>1, <2>5
  <1>5. QED
    BY <1>2, <1>3, <1>4

\* The radio's part of a behaviour
LEMMA BehavesAsRadio == MCSpec => Radio!Spec
  <1>1. MCInit => Radio!Init
    BY DEF MCInit
  <1>2. [MCNext]_<<vars, radio, subject>> => [Radio!Next]_(Radio!vars)
    BY DEF MCNext, radio, Radio!vars, Radio!gateway, Radio!setup
  <1>3. QED
    BY <1>1, <1>2, PTL DEF MCSpec, Radio!Spec

\* Silence, partial events, restarts and lost radios never move a zone: it
\* leaves the radio it hangs under only for one that was heard in the same
\* set-up, or for the regulator without a mapping (zone_parent.py).
THEOREM SilenceNeverMovesZones == MCSpec => SilenceKeepsParents
  <1>1. Radio!TypeOK /\ [Radio!Next]_(Radio!vars)
            => [\A z \in RadioZones : registry'[z] # registry[z] =>
                   IF registry'[z] = Regulator THEN zones'[z] \notin Radio!RadioMappings
                   ELSE age'[registry'[z]] = 0]_(Radio!vars)
    <2> SUFFICES ASSUME Radio!TypeOK, Radio!Next, NEW z \in RadioZones,
                        registry'[z] # registry[z]
                 PROVE  IF registry'[z] = Regulator THEN zones'[z] \notin Radio!RadioMappings
                        ELSE age'[registry'[z]] = 0
      OBVIOUS
    <2>1. Radio!SetUp
      BY DEF Radio!Next, Radio!RadioPoll, Radio!SemanticPoll, Radio!RadioEvent,
             Radio!RadioForgotten, Radio!RadioSnapshot, Radio!Reload, Radio!Restart,
             Radio!GatewayChange, Radio!setup
    <2>2. QED
      BY <2>1, SetUpMoves, RadioTypesSplit
  <1>2. QED
    BY <1>1, BehavesAsRadio, RadioTypeCorrect, PTL
    DEF SilenceKeepsParents, Radio!SilenceKeepsParents, Radio!Spec
=============================================================================
