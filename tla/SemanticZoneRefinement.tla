----------------------- MODULE SemanticZoneRefinement -----------------------
\* The retention contract of one zone, any of the gateway's.
EXTENDS SemanticRetention

CONSTANT zone

ASSUME ZoneAssumption == zone \in Zones

ZoneTarget == INSTANCE RetainedTarget
    WITH held <- zone \in lastZones, gap <- zoneGapCycles[zone],
         stale <- zone \in staleZoneIds

\* Whatever polls, failed polls, events of other zones and reloads do, only a
\* zone event on top of a failed poll moves a zone otherwise than its retention
\* contract allows (see ZoneRetentionBounded).
ZoneStepsKeepTarget ==
    [][\/ ~lastUpdateSuccess /\ \E U \in NamedZones : ZoneEvent(U)
       \/ ZoneTarget!Next
       \/ UNCHANGED ZoneTarget!target]_vars
=============================================================================
