--------------------------- MODULE MCM2MBoundary ---------------------------
(* A PV and an EVSE boundary with room for one descriptor, two assets to   *)
(* switch between and one fault: both of them from empty stores, while the *)
(* EVSE's asset is changed once ("boundaries"), or PV alone from any store *)
(* with two saves, so that an asset may be chosen and given up again       *)
(* ("choices"); and the answers that the consumers are given               *)
(* (M2MContract), of two facts: one with any entry, one with the entries   *)
(* that tell most apart ("answers"), a case without steps.                 *)
EXTENDS M2MBoundary

CONSTANTS f1, f2, a1, a2

MCFacts == {f1, f2}
MCOrder == <<"pv", "evse">>
MCFactsOf == [k \in Consumers |-> IF k = "pv" THEN {f1, f2} ELSE {f2}]
MCAssets == {a1, a2}

VARIABLES subject, case

Absent == [flaw |-> "absent", freshness |-> "fresh", availability |-> "available",
           selected |-> FALSE, disposition |-> "exact"]
Entries == {e \in Entry : e.flaw # "absent"} \cup {Absent}
FewEntries == {e \in Entries : /\ e.freshness # "stale" /\ e.availability # "degraded"
                               /\ e.disposition # "wrong" /\ e.flaw \notin {"malformed", "past"}}

IsAnswerCase(c) ==
    \E one \in Entries, two \in FewEntries, consumer \in Consumers, loss \in BOOLEAN :
        /\ consumer # "pv" => loss
        /\ c = [consumer |-> consumer, loss |-> loss,
                answer |-> [f \in FactIds |-> IF f = Special THEN one ELSE two]]

MCInit ==
    /\ subject \in {"boundaries", "choices", "answers"} /\ Init
    /\ \A k \in Kinds : options[k].enabled <=> (k = "pv" \/ subject # "choices")
    /\ subject = "boundaries" => store["pv"] = NoStore
    /\ IF subject = "answers" THEN IsAnswerCase(case) /\ store = [k \in Consumers |-> NoStore]
       ELSE case = <<>>

MCNext ==
    /\ subject # "answers"
    /\ Next /\ UNCHANGED <<subject, case>>
    /\ IF subject = "choices" THEN options'["evse"] = options["evse"]
       ELSE saves' < MaxSaves /\ options'["pv"] = options["pv"] /\ options'["evse"].enabled

MCSpec == MCInit /\ [][MCNext]_<<vars, subject, case>>

\* Semantic consumers show only facts the gateway accounts for (M2MContract)
AnswersBacked ==
    subject = "answers" => ShowsOnlyBacked(case.consumer, case.answer, case.loss)
=============================================================================
