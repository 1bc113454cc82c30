----------------------------- MODULE M2MContract -----------------------------
(***************************************************************************)
(* What the PV, storage and EVSE consumers accept of a gateway's answer    *)
(* (parse_m2m_response of pv_m2m.py, storage_m2m.py and evse_m2m.py).  An  *)
(* answer holds at most one entry per fact id; an entry is abstracted to   *)
(* the first thing that is the matter with its candidate, its evaluation,  *)
(* whether a selection names it, and what the projection says of it.  Of   *)
(* the fact ids one is special: its accounting differs (the PV energy      *)
(* counter, the storage operating state, the EVSE allocated current).      *)
(* Closed maps, digests, text lengths and the JSON framing are "malformed".*)
(***************************************************************************)
EXTENDS Naturals, FiniteSets

CONSTANTS FactIds, Special

ASSUME SpecialFact == Special \in FactIds

Consumers == {"pv", "storage", "evse"}

\* "foreign": the provenance is not the one source, binding and generation of
\* the snapshot's identity; "poor": not qualified, promoted and good; "past":
\* the candidate itself says that it is not available or not fresh
Flaws == {"absent", "none", "malformed", "foreign", "unmapped", "poor", "past"}

Entry == [flaw : Flaws,
          freshness : {"fresh", "stale", "expired"},
          availability : {"available", "degraded", "unavailable"},
          selected : BOOLEAN,
          disposition : {"exact", "wrong", "withheld"}]

Present(answer) == {f \in FactIds : answer[f].flaw # "absent"}
Current(entry) == entry.freshness = "fresh" /\ entry.availability = "available"

\* _candidate: raises, returns no fact, or returns one.  The PV pack checks no
\* identity; an EVSE key needs the dimension of a known fact id
CandidateRaises(consumer, entry) ==
    \/ entry.flaw = "malformed"
    \/ entry.flaw = "foreign" /\ consumer # "pv"
    \/ entry.flaw = "unmapped" /\ consumer = "evse"

CandidateNone(consumer, entry) ==
    \/ entry.flaw \in {"unmapped", "poor"}
    \/ entry.flaw = "past" /\ consumer = "evse"

\* Mutant: PV may leave a current fact out of the selections
SelectionsOneWay(consumer, answer) ==
    \A f \in Present(answer) :
        answer[f].selected => consumer = "pv" /\ Current(answer[f])

\* selections: PV must select every current mapped fact and nothing that is not
\* current; the other two must not select at all
SelectionsHold(consumer, answer) ==
    \A f \in Present(answer) :
        IF consumer = "pv"
        THEN /\ answer[f].selected => Current(answer[f])
             /\ Current(answer[f]) /\ ~CandidateNone(consumer, answer[f]) => answer[f].selected
        ELSE ~answer[f].selected

\* Facts that leave the parser
Published(consumer, answer) ==
    {f \in Present(answer) : /\ ~CandidateNone(consumer, answer[f])
                             /\ answer[f].availability # "degraded"}

\* A consumer that knows no use for a part of the answer rejects the whole: PV
\* skips such parts, storage only what is withdrawn, EVSE nothing
WholeAnswerUsable(consumer, answer) ==
    \A f \in Present(answer) :
        CASE consumer = "pv"      -> TRUE
          [] consumer = "storage" -> ~CandidateNone(consumer, answer[f])
          [] consumer = "evse"    -> ~CandidateNone(consumer, answer[f]) /\ Current(answer[f])

\* _projection: the published facts are exactly the ones accounted for.  PV asks
\* for the loss of counter continuity with an energy fact, published or not
PVProjection(answer, continuityLoss) ==
    /\ \A f \in Published("pv", answer) : answer[f].disposition = "exact"
    /\ Special \in Present(answer) /\ ~CandidateNone("pv", answer[Special]) => continuityLoss

\* The other two ask for a disposition of every fact id they know, of which one
\* may be withheld: the operating state of a storage, a charger's allocated
\* current
FactAccounted(consumer, answer, f) ==
    \/ f \in Published(consumer, answer) /\ answer[f].disposition = "exact"
    \/ f = Special /\ f \notin Published(consumer, answer) /\ answer[f].disposition = "withheld"
StorageProjection(answer) == \A f \in FactIds : FactAccounted("storage", answer, f)
EVSEProjection(answer) == \A f \in FactIds : FactAccounted("evse", answer, f)

ProjectionHolds(consumer, answer, continuityLoss) ==
    CASE consumer = "pv"      -> PVProjection(answer, continuityLoss)
      [] consumer = "storage" -> StorageProjection(answer)
      [] consumer = "evse"    -> EVSEProjection(answer)

Accepted(consumer, answer, continuityLoss) ==
    /\ \A f \in Present(answer) : ~CandidateRaises(consumer, answer[f])
    /\ SelectionsHold(consumer, answer)
    /\ WholeAnswerUsable(consumer, answer)
    /\ ProjectionHolds(consumer, answer, continuityLoss)

\* The sensors' available: AVAILABLE and fresh enough for the consumer
PVShows(entry) == entry.availability = "available" /\ entry.freshness \in {"fresh", "stale"}
StorageShows(entry) == entry.availability = "available" /\ entry.freshness \in {"fresh", "stale"}
EVSEShows(entry) == entry.availability = "available" /\ entry.freshness = "fresh"

Showable(consumer, entry) ==
    CASE consumer = "pv"      -> PVShows(entry)
      [] consumer = "storage" -> StorageShows(entry)
      [] consumer = "evse"    -> EVSEShows(entry)

\* What an accepted answer makes of each fact id
Parsed(consumer, answer) ==
    [f \in FactIds |->
        IF f \notin Published(consumer, answer) THEN "none"
        ELSE IF Showable(consumer, answer[f]) THEN "shown" ELSE "hidden"]

-----------------------------------------------------------------------------
(* A fact that can be shown is one that the gateway qualified, says to be  *)
(* available and accounts for in the projection, and that no selection     *)
(* contradicts; PV shows a fresh value only if it was selected; storage    *)
(* and EVSE are all or nothing, so a snapshot never loses a fact silently  *)
(* (pv_m2m.py:226-262, storage_m2m.py:290-311, evse_m2m.py:288-321).       *)
ShowsOnlyBacked(consumer, answer, continuityLoss) ==
    Accepted(consumer, answer, continuityLoss) =>
        /\ \A f \in FactIds : Parsed(consumer, answer)[f] = "shown" =>
              /\ answer[f].flaw \in (IF consumer = "pv" THEN {"none", "past", "foreign"}
                                     ELSE IF consumer = "storage" THEN {"none", "past"}
                                     ELSE {"none"})
              /\ answer[f].availability = "available" /\ answer[f].freshness # "expired"
              /\ answer[f].disposition = "exact"
              /\ consumer = "pv" => (answer[f].selected <=> answer[f].freshness = "fresh")
        /\ consumer # "pv" =>
              \A f \in FactIds \ {Special} : Parsed(consumer, answer)[f] # "none"
=============================================================================
