----------------------------- MODULE MCGateway -----------------------------
(* The queries of the coordinators, the start-up spot check, and decisions *)
(* over bounded inputs: an initial state picks the subject of a behaviour, *)
(* and of a decision the case.  A decision has no steps.                   *)
EXTENDS GatewayQueries, EntityViews

CONSTANTS Subjects,   \* the subjects that behaviours may have
          Sources, Target, Absolute, Interval, OpTimeout, Dual, NoSource, s1, s2

MCSources == {s1, s2}

VARIABLES subject, case,
          step, outcomes, regulator, statusQuery, clock, stable, observed,
          worker, budget, checks, verdict, seen, trace

Startup == INSTANCE StartupSpotcheck

ASSUME StartupTimes == Startup!SpotcheckTimes

startup == <<step, outcomes, regulator, statusQuery, clock, stable, observed,
             worker, budget, checks, verdict, seen, trace>>
allVars == <<vars, startup, subject, case>>

-----------------------------------------------------------------------------
QueriesAtRest ==
    /\ Init /\ link = "flaky"
    /\ focus = CHOOSE f \in Focuses : TRUE
    /\ schema = Parts[focus]
StartupAtRest == Startup!Init /\ step = "connection"

MCInit ==
    \/ /\ subject \in Subjects \cap {"queries"} /\ case = <<>>
       /\ Init /\ StartupAtRest
    \/ /\ subject \in Subjects \cap {"startup"} /\ case = <<>>
       /\ QueriesAtRest /\ Startup!Init
    \/ /\ subject \in Subjects \cap {"config", "views", "calendar"}
       /\ QueriesAtRest /\ StartupAtRest
       /\ CASE subject = "config" -> IsConfigCase(case)
            [] subject = "views" -> IsViewCase(case)
            [] subject = "calendar" -> IsCalendarCase(case)

MCNext ==
    \/ subject = "queries" /\ Next /\ UNCHANGED <<startup, subject, case>>
    \/ subject = "startup" /\ Startup!Next /\ UNCHANGED <<vars, subject, case>>

MCSpec == MCInit /\ [][MCNext]_allVars

\* The fairness of the two specifications
MCFairSpec ==
    /\ MCSpec
    /\ WF_vars(subject = "queries" /\ due = 0 /\ Refresh)
    /\ WF_vars(subject = "queries" /\ Answer)
    /\ WF_vars(subject = "queries" /\ Tick)
    /\ WF_startup(subject = "startup" /\ (Startup!PhaseA \/ Startup!Checklist))
    /\ WF_startup(subject = "startup" /\ Startup!PhaseB)
    /\ WF_startup(subject = "startup" /\ Startup!RequestTick)

-----------------------------------------------------------------------------
(* The properties of the modules, each of the behaviours it is about       *)

\* A spot check that says OK earned it, and its verdict keeps the failures it
\* saw (StartupSpotcheck); the types of both specifications
VerdictEarned == Startup!OkIsEarned /\ Startup!FailuresAreKept /\ Startup!TypeOK /\ TypeOK
\* The spot check ends (StartupSpotcheck)
SpotcheckEnds == subject = "startup" => Startup!SpotcheckEnds

\* Configuration entities post what was asked for, once (ConfigEntities)
WritesSettle == subject = "config" => ConfigWritesSettle(case)
\* Read-only entities show their own target's data, and the calendar the event
\* that holds the hour (EntityViews)
ShowsItsTarget ==
    /\ subject = "views" => ViewsHonest(case)
    /\ subject = "calendar" => CalendarHonest(case)
=============================================================================
