-------------------------- MODULE StartupSpotcheck --------------------------
(***************************************************************************)
(* The operator's smoke run of smoke_profile.py against a gateway that may *)
(* answer anything: the v1 checklist (run_smoke_profile) and the v2        *)
(* start-up spot check (run_startup_spotcheck_v2) with its Phase A and     *)
(* Phase B.  A GraphQL answer is abstracted to the class the code tells    *)
(* apart:                                                                  *)
(*   "none"     the executor raised or ran out of time                     *)
(*   "errors"   GraphQL errors, or an envelope without data                *)
(*   "unknown"  GraphQL errors naming an optional field of the query       *)
(*   "bad"      data without the required objects                          *)
(* and, for data of the right shape, to what the check reads in it.        *)
(* Phase B's clock is in units of the sampling interval's resolution; one  *)
(* request is a worker process with a pipe that the parent waits on.       *)
(***************************************************************************)
EXTENDS Integers, Sequences, SequencesExt

CONSTANTS Sources,      \* bus sources the gateway may select
          Target,       \* phase_b_target_seconds
          Absolute,     \* phase_b_absolute_timeout_seconds
          Interval,     \* phase_b_interval_seconds
          OpTimeout,    \* timeout of one request
          Dual,         \* is a dual topology configured?
          NoSource      \* no stable source

\* What the constants may be
SpotcheckTimes ==
    /\ {Target, Absolute, Interval, OpTimeout} \subseteq Nat \ {0}
    /\ Target <= Absolute
    /\ Dual \in BOOLEAN
    /\ NoSource \notin Sources

VARIABLES
    step,        \* the next check, or where Phase B is
    outcomes,    \* StartupOutcome values collected so far
    regulator,   \* regulator_state
    statusQuery, \* query kept for Phase B: "full" or "legacy"
    clock,       \* seconds since Phase B began
    stable,      \* [since, source] of the current window
    observed,    \* observed_service_error, observed_transport_error
    worker,      \* request process: not there, running, or its answer in the pipe
    budget,      \* clock value at which the request in flight times out
    checks,      \* v1: SmokeCheck.ok of each check made
    verdict,     \* StartupVerdict, or v1's ok; "" until the run ends
    seen,        \* history: the kinds of Phase B observations made
    trace        \* history: the trusted samples since the last other observation

phaseA == <<outcomes, regulator, statusQuery>>
phaseB == <<clock, stable, observed, worker, budget>>
vars == <<step, outcomes, regulator, statusQuery, clock, stable, observed,
          worker, budget, checks, verdict, seen, trace>>
history == <<seen, trace>>

Classes == {"none", "errors", "unknown", "bad"}
Regulators == {"PRESENT", "NONE", "UNKNOWN"}
Outcomes == {"PASS", "SKIPPED", "TRANSPORT_ERROR", "SCHEMA_ERROR",
             "SEMANTIC_MISMATCH", "SERVICE_ERROR", "UNKNOWN_REGULATOR"}
Verdicts == {"OK", "DEGRADED_TRANSPORT", "FAIL_SEMANTIC", "WARN_NO_REGULATOR"}

Reading(kind, source) == [kind |-> kind, source |-> source]
NoWorker == Reading("none", NoSource)
NoWindow == [since |-> -1, source |-> NoSource]

-----------------------------------------------------------------------------
(* Outcomes of the single checks *)

\* _extract_data and _execute_graphql: what a failed answer counts as, when
\* "broken" is the outcome for an answer that arrived but cannot be used
Failed(answer, broken) == IF answer = "none" THEN "TRANSPORT_ERROR" ELSE broken

\* A query whose optional fields an old gateway does not know is repeated
\* without them; "again" is the answer to the reduced query
WithFallback(answer, again) == IF answer = "unknown" THEN again ELSE answer

ConnectionAnswers == Classes \cup {"good"}
ConnectionOutcome(answer) ==
    IF answer = "good" THEN "PASS" ELSE Failed(answer, "SCHEMA_ERROR")

\* data.devices: not a list ("bad"), empty, a list without a usable device,
\* one with usable and unusable devices, one with usable devices only
DeviceAnswers == Classes \cup {"empty", "unusable", "mixed", "complete"}
InventoryOutcome(answer) ==
    IF answer = "complete" THEN "PASS" ELSE Failed(answer, "SCHEMA_ERROR")

HealthyAnswers == {"healthy", "unhealthy"}
ServiceOutcome(answer) ==
    CASE answer = "healthy"   -> "PASS"
      [] answer = "unhealthy" -> "SERVICE_ERROR"
      [] OTHER                -> Failed(answer, "SCHEMA_ERROR")

\* The capability survives a status answer that is unhealthy or misses an
\* object, and is UNKNOWN when no data arrived or the reduced query was used
Capability(answer, final, reported) ==
    IF answer = "unknown" \/ final \in {"none", "errors", "unknown"}
    THEN "UNKNOWN" ELSE reported

SemanticOutcome(answer, energy) ==
    IF answer # "good" THEN Failed(answer, "SEMANTIC_MISMATCH")
    ELSE IF energy # "good" THEN Failed(energy, "SEMANTIC_MISMATCH")
    ELSE "PASS"

-----------------------------------------------------------------------------
(* Source admission *)

Admissions == [state : {"active", "degraded"}, outcome : {"active_probe_passed", "other"},
               source : Sources \cup {"text", "invalid"},
               retryable : {"false", "true", "missing"}, failed : BOOLEAN]

\* normalize_source_selection: a source given as text is parsed as well
NormalizedTrusted(a) ==
    /\ a.state = "active"
    /\ a.outcome = "active_probe_passed"
    /\ a.source # "invalid"

\* _trusted_startup_admission: the raw source must be a bus address
TrustedStartupAdmission(a) ==
    /\ NormalizedTrusted(a)
    /\ a.source \in Sources
    /\ a.retryable = "false"
    /\ ~a.failed

-----------------------------------------------------------------------------
Init ==
    /\ step \in {"connection", "v1_connection"}
    /\ outcomes = {}
    /\ regulator = "UNKNOWN"
    /\ statusQuery = "full"
    /\ clock = 0
    /\ stable = NoWindow
    /\ observed = [service |-> FALSE, transport |-> FALSE]
    /\ worker = NoWorker
    /\ budget = 0
    /\ checks = <<>>
    /\ verdict = ""
    /\ seen = {}
    /\ trace = <<>>

(* Phase A: every check runs whatever the checks before it found *)

StartupConnection ==
    /\ step = "connection"
    /\ \E answer \in ConnectionAnswers :
          outcomes' = outcomes \cup {ConnectionOutcome(answer)}
    /\ step' = "inventory"
    /\ UNCHANGED <<regulator, statusQuery, phaseB, checks, verdict, history>>

StartupInventory ==
    /\ step = "inventory"
    /\ \E answer, again \in DeviceAnswers :
          outcomes' = outcomes \cup {InventoryOutcome(WithFallback(answer, again))}
    /\ step' = "status"
    /\ UNCHANGED <<regulator, statusQuery, phaseB, checks, verdict, history>>

StartupStatus ==
    /\ step = "status"
    /\ \E answer, again \in Classes \cup HealthyAnswers, reported \in Regulators :
          LET final == WithFallback(answer, again)
              state == Capability(answer, final, reported)
          IN  /\ regulator' = state
              /\ statusQuery' = IF answer = "unknown" THEN "legacy" ELSE "full"
              /\ outcomes' = outcomes \cup
                    {ServiceOutcome(final),
                     IF state = "PRESENT" THEN "PASS" ELSE "UNKNOWN_REGULATOR"}
    /\ step' = "semantic"
    /\ UNCHANGED <<phaseB, checks, verdict, history>>

StartupSemantic ==
    /\ step = "semantic"
    /\ IF regulator = "PRESENT"
       THEN \E answer, energy \in ConnectionAnswers :
               outcomes' = outcomes \cup {SemanticOutcome(answer, energy)}
       ELSE outcomes' = outcomes \cup {"SKIPPED"}
    /\ step' = IF Dual THEN "dual" ELSE "loop"
    /\ UNCHANGED <<regulator, statusQuery, phaseB, checks, verdict, history>>

\* _check_dual_topology_path: equal endpoints (also by an alias of the same
\* host), bad ports or names, and an unreachable endpoint all fail the check
DualTopologyOk(config) ==
    /\ config.valid
    /\ config.samePort => config.aliases = "disjoint"
    /\ config.ebusd /\ config.proxy

DualTopology ==
    /\ step = "dual"
    /\ \E config \in [valid : BOOLEAN, samePort : BOOLEAN, ebusd : BOOLEAN, proxy : BOOLEAN,
                      aliases : {"disjoint", "shared", "unresolved"}] :
          outcomes' = outcomes \cup
              {IF DualTopologyOk(config) THEN "PASS" ELSE "TRANSPORT_ERROR"}
    /\ step' = "loop"
    /\ UNCHANGED <<regulator, statusQuery, phaseB, checks, verdict, history>>

-----------------------------------------------------------------------------
(* Phase B *)

\* The verdict is taken over every outcome of both phases
VerdictOf(all) ==
    IF "TRANSPORT_ERROR" \in all THEN "DEGRADED_TRANSPORT"
    ELSE IF all \cap {"SCHEMA_ERROR", "SEMANTIC_MISMATCH", "SERVICE_ERROR"} # {}
         THEN "FAIL_SEMANTIC"
    ELSE IF regulator # "PRESENT" THEN "WARN_NO_REGULATOR"
    ELSE "OK"

Latched == (IF observed.service THEN {"SERVICE_ERROR"} ELSE {})
             \cup (IF observed.transport THEN {"TRANSPORT_ERROR"} ELSE {})

Finish(found) ==
    /\ outcomes' = outcomes \cup found
    /\ verdict' = VerdictOf(outcomes \cup found)
    /\ step' = "done"

\* The deadline ends the run before a request, after one, or before a sleep
Deadline == Latched \cup {"TRANSPORT_ERROR"}

BeginSample ==
    /\ step = "loop"
    /\ clock < Absolute
    /\ worker' = Reading("running", NoSource)
    /\ budget' = IF clock + OpTimeout <= Absolute THEN clock + OpTimeout ELSE Absolute
    /\ step' = "request"
    /\ UNCHANGED <<phaseA, clock, stable, observed, checks, verdict, history>>

\* Time passes while the worker runs; the parent wakes at the budget's end
RequestTick ==
    /\ step = "request"
    /\ clock < budget
    /\ clock' = clock + 1
    /\ UNCHANGED <<step, phaseA, stable, observed, worker, budget, checks, verdict, history>>

\* What a status answer means to Phase B: required objects missing, services
\* not healthy, or the admission it reports
Readings ==
    {Reading(kind, NoSource) : kind \in {"failed", "schema", "unhealthy"}}
      \cup {IF TrustedStartupAdmission(a) THEN Reading("trusted", a.source)
            ELSE Reading("untrusted", NoSource) : a \in Admissions}

\* The worker process sends an error or the parsed answer, or never does
WorkerSends ==
    /\ step = "request"
    /\ worker.kind = "running"
    /\ worker' \in Readings
    /\ UNCHANGED <<step, phaseA, clock, stable, observed, budget, checks, verdict, history>>

Observe(kind, source) ==
    /\ seen' = seen \cup {kind}
    /\ trace' = IF kind = "trusted" THEN Append(trace, [at |-> clock, source |-> source]) ELSE <<>>

\* An answer is used if it is in the pipe before the budget ends; the finally
\* clause terminates and joins the worker whatever happened
Receive(kind) ==
    /\ step = "request"
    /\ clock < budget
    /\ worker.kind = kind
    /\ worker' = NoWorker
    /\ Observe(kind, worker.source)
    /\ UNCHANGED <<regulator, statusQuery, clock, budget, checks>>

Continue == step' = "pause" /\ UNCHANGED <<outcomes, verdict>>

TransportFailed ==
    /\ observed' = [observed EXCEPT !.transport = TRUE]
    /\ stable' = NoWindow
    /\ Continue

RequestFailed == Receive("failed") /\ TransportFailed

\* Mutant: the parent waits for the worker however long it takes
RequestTimedOutAnswered ==
    /\ step = "request"
    /\ clock = budget /\ worker.kind # "running"
    /\ worker' = NoWorker
    /\ IF clock = Absolute
       THEN Finish(Deadline) /\ UNCHANGED <<stable, observed, history>>
       ELSE /\ TransportFailed
            /\ Observe("failed", NoSource)
    /\ UNCHANGED <<regulator, statusQuery, clock, budget, checks>>

\* poll() ran out of time, or the answer came too late; at Phase B's own
\* deadline that ends the run
RequestTimedOut ==
    /\ step = "request"
    /\ clock = budget
    /\ worker' = NoWorker
    /\ IF clock = Absolute
       THEN Finish(Deadline) /\ UNCHANGED <<stable, observed, history>>
       ELSE /\ TransportFailed
            /\ Observe("failed", NoSource)
    /\ UNCHANGED <<regulator, statusQuery, clock, budget, checks>>

SchemaFailure ==
    /\ Receive("schema")
    /\ Finish(Latched \cup {"SCHEMA_ERROR"})
    /\ UNCHANGED <<stable, observed>>

UnhealthySample ==
    /\ Receive("unhealthy")
    /\ observed' = [observed EXCEPT !.service = TRUE]
    /\ stable' = NoWindow
    /\ Continue

UntrustedSample ==
    /\ Receive("untrusted")
    /\ stable' = NoWindow
    /\ Continue
    /\ UNCHANGED observed

\* Mutant: a change of source keeps the window
WindowKept(source) ==
    IF stable # NoWindow THEN [stable EXCEPT !.source = source]
    ELSE [since |-> clock, source |-> source]

\* The window after a trusted sample of source: it starts, restarts on a
\* change of source, or is kept
WindowAfter(source) ==
    IF stable.source = source THEN stable ELSE [since |-> clock, source |-> source]

TrustedSample ==
    /\ Receive("trusted")
    /\ stable' = WindowAfter(worker.source)
    /\ IF stable.source = worker.source /\ clock - stable.since >= Target
       THEN Finish(IF Latched = {} THEN {"PASS"} ELSE Latched)
       ELSE Continue
    /\ UNCHANGED observed

SleepFor == IF clock + Interval <= Absolute THEN Interval ELSE Absolute - clock

Sleep ==
    /\ step = "pause"
    /\ clock' = clock + SleepFor
    /\ step' = "loop"
    /\ UNCHANGED <<phaseA, stable, observed, worker, budget, checks, verdict, history>>

OutOfTime ==
    /\ step = "loop"
    /\ clock >= Absolute
    /\ Finish(Deadline)
    /\ UNCHANGED <<regulator, statusQuery, clock, stable, observed, worker, budget,
                   checks, history>>

-----------------------------------------------------------------------------
(* The v1 checklist *)

Checked(ok, next) ==
    /\ checks' = Append(checks, ok)
    /\ step' = next
    /\ verdict' = IF next # "done" THEN ""
                  ELSE IF \A c \in Range(checks') : c THEN "OK" ELSE "FAIL"
    /\ UNCHANGED <<outcomes, regulator, statusQuery, phaseB>>

ChecklistConnection ==
    /\ step = "v1_connection"
    /\ \E answer \in ConnectionAnswers :
          Checked(ConnectionOutcome(answer) = "PASS", "v1_subscriptions")
    /\ UNCHANGED history

\* A gateway without subscriptions, and an introspection that fails in any
\* way, are both the polling fallback
ChecklistSubscriptions ==
    /\ step = "v1_subscriptions"
    /\ Checked(TRUE, "v1_entities")
    /\ UNCHANGED history

\* Devices and status fall back to reduced queries, energy to the one without
\* monthly; zones, DHW or energy fields that a gateway does not have at all
\* ("absent"), and data of another shape, only leave their entities out
Fetched(answers, again) == {WithFallback(a, b) : a \in answers, b \in again}

EntityCreationOk(devices, status, semantic, energy) ==
    /\ devices \in {"mixed", "complete"}
    /\ status \in HealthyAnswers
    /\ semantic \in {"good", "absent", "bad"}
    /\ energy \in {"good", "absent", "bad"}

ChecklistEntities ==
    /\ step = "v1_entities"
    /\ \E devices \in Fetched(DeviceAnswers, DeviceAnswers),
          status \in Fetched(Classes \cup HealthyAnswers, Classes \cup HealthyAnswers),
          semantic \in ConnectionAnswers \cup {"absent"},
          energy \in Fetched(ConnectionAnswers \cup {"absent"}, ConnectionAnswers) :
          Checked(EntityCreationOk(devices, status, semantic, energy),
                  IF Dual THEN "v1_dual" ELSE "done")
    /\ UNCHANGED history

ChecklistDual ==
    /\ step = "v1_dual"
    /\ \E reachable \in BOOLEAN : Checked(reachable, "done")
    /\ UNCHANGED history

-----------------------------------------------------------------------------
PhaseA == \/ StartupConnection \/ StartupInventory \/ StartupStatus
          \/ StartupSemantic \/ DualTopology
PhaseB == \/ BeginSample \/ RequestTimedOut \/ RequestFailed \/ SchemaFailure
          \/ UnhealthySample \/ UntrustedSample \/ TrustedSample \/ Sleep \/ OutOfTime
Checklist == \/ ChecklistConnection \/ ChecklistSubscriptions
             \/ ChecklistEntities \/ ChecklistDual

Next == PhaseA \/ PhaseB \/ WorkerSends \/ RequestTick \/ Checklist

Spec == Init /\ [][Next]_vars

\* The script runs on and its clock does; a worker may hang
FairSpec == Spec /\ WF_vars(PhaseA \/ Checklist) /\ WF_vars(PhaseB) /\ WF_vars(RequestTick)

-----------------------------------------------------------------------------
(* Properties *)

TypeOK ==
    /\ step \in {"connection", "inventory", "status", "semantic", "dual", "loop", "request",
                 "pause", "done", "v1_connection", "v1_subscriptions", "v1_entities", "v1_dual"}
    /\ outcomes \subseteq Outcomes
    /\ regulator \in Regulators
    /\ statusQuery \in {"full", "legacy"}
    /\ clock \in 0 .. Absolute /\ budget \in 0 .. Absolute
    /\ stable \in [since : Int, source : Sources \cup {NoSource}]
    /\ observed \in [service : BOOLEAN, transport : BOOLEAN]
    /\ worker \in Readings \cup {NoWorker, Reading("running", NoSource)}
    /\ checks \in Seq(BOOLEAN)
    /\ verdict \in Verdicts \cup {"", "FAIL"}

(* A spot check that says OK saw the regulator, and ended with trusted     *)
(* samples of one source, not interrupted by a failure, a service fault or *)
(* another source, that span the target and came before the deadline; no   *)
(* request of Phase B failed at any time, also none before those samples   *)
(* (smoke_profile.py:446-461, 583-660).                                    *)
OkIsEarned ==
    (verdict = "OK" /\ checks = <<>>) =>
        /\ regulator = "PRESENT"
        /\ \E i \in 1 .. Len(trace) :
              /\ \A j \in i .. Len(trace) : trace[j].source = trace[i].source
              /\ Last(trace).at - trace[i].at >= Target
        /\ Last(trace).at < Absolute
        /\ seen \subseteq {"trusted", "untrusted"}

(* A failure that was observed in either phase is in the verdict, whatever *)
(* recovered after it, and no worker process outlives the run              *)
(* (smoke_profile.py:446-453, 580-582, 688-697, 922-926).                  *)
FailuresAreKept ==
    (step = "done" /\ checks = <<>>) =>
        /\ "failed" \in seen => verdict = "DEGRADED_TRANSPORT"
        /\ seen \cap {"schema", "unhealthy"} # {}
              => verdict \in {"DEGRADED_TRANSPORT", "FAIL_SEMANTIC"}
        /\ outcomes \cap {"SCHEMA_ERROR", "SEMANTIC_MISMATCH", "TRANSPORT_ERROR"} # {}
              => verdict \in {"DEGRADED_TRANSPORT", "FAIL_SEMANTIC"}
        /\ worker = NoWorker

(* Whatever the gateway does, also if it never answers and its worker      *)
(* hangs, the run ends (smoke_profile.py:584-654).                         *)
SpotcheckEnds == <>(step = "done")
=============================================================================
