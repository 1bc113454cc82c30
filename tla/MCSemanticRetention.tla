------------------------ MODULE MCSemanticRetention ------------------------
(* What is kept of a gateway that stops reporting: heating zones and DHW   *)
(* (SemanticRetention), or radio slots and the parents that zones find     *)
(* among them (RadioParents): the remote control that mapping 1 means and  *)
(* another one of its group, the one that mapping 2 means, and a slot of   *)
(* the inventory group.  The two share no state, so that a behaviour is    *)
(* about one of them, its subject.                                         *)
EXTENDS SemanticZoneRefinement

CONSTANTS z1, z2, z3, main, spare, second, module, Subjects,
          RadioZones, Slots, Group, Remote, Rank, Assigned, NoZone, Regulator, None,
          StaleGrace, MaxChanges

TwoZones == {z1, z2}
ThreeZones == {z1, z2, z3}

MCSlots == {main, spare, second, module}
MCGroup == [s \in MCSlots |-> CASE s \in {main, spare} -> "09" [] s = second -> "0a" [] OTHER -> "0c"]
MCRemote == [s \in MCSlots |-> IF s = main THEN 0 ELSE 1]
MCRank == [s \in MCSlots |-> CASE s = main -> 1 [] s = spare -> 2 [] s = second -> 3 [] OTHER -> 4]
MCAssigned == [s \in MCSlots |-> IF s = spare THEN z2 ELSE NoZone]

VARIABLES subject, active, mapping, age, zones, bindings, baseline, known, registry,
          entries, pending, changes

Radio == INSTANCE RadioParents WITH Zones <- RadioZones

radio == <<active, mapping, age, zones, bindings, baseline, known, registry,
          entries, pending, changes>>

ASSUME RadioConstants == Radio!RadioConstants

MCInit ==
    /\ subject \in Subjects
    /\ Init /\ (subject = "radio" => data.zones = {} /\ ~data.dhw)
    /\ Radio!Init /\ (subject = "targets" => active = {} /\ mapping = [z \in RadioZones |-> 0])

MCNext ==
    \/ subject = "targets" /\ Next /\ UNCHANGED <<radio, subject>>
    \/ subject = "radio" /\ Radio!Next /\ UNCHANGED <<vars, subject>>

MCSpec == MCInit /\ [][MCNext]_<<vars, radio, subject>>

\* The fairness of the two specifications
MCFairSpec ==
    /\ MCSpec
    /\ WF_vars(subject = "targets" /\ Poll)
    /\ WF_radio(subject = "radio" /\ Radio!RadioPoll)
    /\ WF_radio(subject = "radio" /\ Radio!SemanticPoll)
    /\ WF_radio(subject = "radio" /\ Radio!Reload)

\* A zone leaves its radio only for one that is heard, or without a mapping
\* (RadioParents); the types of both
SilenceKeepsParents == Radio!SilenceKeepsParents /\ []Radio!TypeOK

\* A quiet gateway's zones hang under the radios that are heard (RadioParents)
ParentsSettle == subject = "radio" => Radio!ParentsSettle
=============================================================================
