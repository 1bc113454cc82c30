----------------------- MODULE MCMigrationTransaction -----------------------
(* Who writes after a handover.  Either one pair of writers, whose state   *)
(* space is finite as it is (MigrationTransaction).  Or which config entry *)
(* stands for which gateway (EntryIdentity): two gateways and two          *)
(* endpoints, of which the first entry may try both; three entries that    *)
(* only set up, or two with a config flow and one change.  The two share   *)
(* no state, so that a behaviour is about one of them, its subject.        *)
EXTENDS MigrationTransaction, Naturals

CONSTANTS Entries, Guids, Hosts, Fallback, MaxChanges, None, g1, g2, h1, h2

MCEntries == {1, 2, 3}
MCGuids == {g1, g2}
MCHosts == {h1, h2}
MCFallback == [e \in MCEntries |-> IF e = 1 THEN {h2} ELSE {}]

VARIABLES subject, stored, enabled, guid, host, options, live, setup, refused, flow, changes,
          lost, strayed

Identity == INSTANCE EntryIdentity

identity == <<stored, enabled, guid, host, options, live, setup, refused, flow, changes, lost,
              strayed>>

ASSUME IdentityConstants == Identity!IdentityConstants

MCInit ==
    /\ subject \in {"writers", "setups", "flow"}
    /\ Init /\ (subject # "writers" => owner = LEGACY)
    /\ Identity!Init /\ live[h1] = g1 /\ host[1] = h1
    /\ stored = IF subject = "flow" THEN {1, 2} ELSE Entries
    /\ subject = "setups" => \A e \in Entries : guid[e] # None
    /\ subject = "writers" => live[h2] = g2 /\ \A e \in Entries : guid[e] = None /\ host[e] = h1

MCNext ==
    \/ subject = "writers" /\ Next /\ UNCHANGED <<identity, subject>>
    \/ /\ subject # "writers" /\ Identity!Next
       /\ subject = "setups" => changes' = 0 /\ flow' = Identity!Idle
       /\ UNCHANGED <<vars, subject>>

MCSpec == MCInit /\ [][MCNext]_<<vars, identity, subject>>

\* The fairness of MigrationTransaction
MCFairSpec ==
    /\ MCSpec
    /\ WF_vars(subject = "writers" /\ Operation)
    /\ \A s \in Sides : WF_vars(subject = "writers" /\ WorkEnds(s))

\* A removed duplicate's options are kept (EntryIdentity)
OptionsSurvive == Identity!OptionsSurvive

\* A refused entry's gateway has an entry left (EntryIdentity)
RefusedHaveOwner == Identity!RefusedHaveOwner
=============================================================================
