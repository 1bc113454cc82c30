--------------------- MODULE MigrationTransactionProofs ---------------------
(***************************************************************************)
(* Proofs about MigrationTransaction, and about EntryIdentity for any      *)
(* entries, gateways and endpoints.                                        *)
(*                                                                         *)
(* HandoffInv is inductive.  Besides the types it says, for every await of *)
(* an operation, what the journal may hold there (JournalAtPoint) and how  *)
(* much of the pair has been drained (DrainedAtPoint); the two checked     *)
(* invariants are its reading at the points where a side may write.        *)
(*                                                                         *)
(* EntryInv says that only entries that stay are set up, and that what a   *)
(* refused entry has set is held by one that stays.  SettledInv says what  *)
(* a search may believe while no gateway moves: the best owner it found    *)
(* still owns the gateway, and an owner that is not there any more gave    *)
(* way to an earlier one (EarlierStays), so that the earliest is there.    *)
(***************************************************************************)
EXTENDS MCMigrationTransaction, WellFoundedInduction, TLAPS

\* Only an idle pair has an owner, and only its own token is current.
OwnedWhenIdle ==
    /\ owner # UNRESOLVED => pc = "idle"
    /\ \A s \in Sides : token[s] = "current" => owner = s

JournalAtPoint ==
    /\ owner = SHARED => journal = "shared"
    /\ owner = LEGACY => journal \in {"clean", "aborted"}
    /\ pc = "intent" => journal \in {"clean", "aborted"}
    /\ pc = "drain" /\ purpose = "migrate" => journal = "intent"
    /\ pc = "commit" => journal = "intent" /\ purpose = "migrate"
    /\ pc = "drain" /\ purpose = "cleanup" => journal # "shared"
    /\ pc = "abort" => journal # "shared" /\ purpose = "cleanup"
    /\ pc = "attach" => target \in Sides
    /\ pc = "attach" /\ target = SHARED => journal = "shared"
    /\ pc = "attach" /\ target = LEGACY => journal \in {"clean", "aborted"}

Drained(s) == listeners[s] = "off" /\ s \notin busy

DrainedAtPoint ==
    /\ pc \in {"commit", "abort", "read"} => Drained(LEGACY) /\ Drained(SHARED)
    /\ pc = "drain" /\ step \in {"fence_shared", "join_shared"} => Drained(LEGACY)
    /\ pc = "attach" => \A s \in Sides : s # target => Drained(s)
    /\ \A s \in Sides : owner \in Sides /\ owner # s => Drained(s)

HandoffInv == TypeOK /\ OwnedWhenIdle /\ JournalAtPoint /\ DrainedAtPoint

-----------------------------------------------------------------------------
\* A first transaction satisfies the invariant.
LEMMA InitHandoffInv == Init => HandoffInv
  BY OwnersDistinct
     DEF Init, HandoffInv, TypeOK, OwnedWhenIdle, JournalAtPoint,
         DrainedAtPoint, Drained, Sides, Points, Purposes, DrainSteps

\* Every step preserves the types.
LEMMA NextTypeOK == TypeOK /\ JournalAtPoint /\ Next => TypeOK'
  <1> SUFFICES ASSUME TypeOK, JournalAtPoint, Next PROVE TypeOK'
    OBVIOUS
  <1>. USE OwnersDistinct DEF TypeOK, Sides, Points, Purposes, DrainSteps
  <1>1. CASE Migrate \/ Recover
    BY <1>1 DEF Migrate, Recover, Fence, StartDrain, External
  <1>2. CASE IntentWritten \/ CommitWritten \/ AbortWritten
    BY <1>2 DEF IntentWritten, CommitWritten, AbortWritten, StartDrain,
                Written, External
  <1>3. CASE RecoveryRead
    BY <1>3 DEF RecoveryRead, RecoveryOwners, External
  <1>4. CASE Drain
    BY <1>4 DEF Drain, FenceCall, JoinCall, DrainEnd
  <1>5. CASE ListenersInstalled \/ Attached
    BY <1>5 DEF ListenersInstalled, Attached, External, txn, JournalAtPoint
  <1>6. Interrupted \subseteq {"clean", "intent", "aborted", "shared"}
    BY DEF Interrupted, Written
  <1>7. CASE MigrationFails \/ LeftFenced
    BY <1>6, <1>7 DEF MigrationFails, LeftFenced, Fence, StartDrain, External
  <1>8. CASE \E s \in Sides : WorkStarts(s) \/ WorkEnds(s)
    BY <1>8 DEF WorkStarts, WorkEnds, txn
  <1>9. CASE RollBack
    BY <1>9 DEF RollBack, txn, External
  <1>10. CASE Crash
    BY <1>6, <1>10 DEF Crash
  <1>11. QED
    BY <1>1, <1>2, <1>3, <1>4, <1>5, <1>7, <1>8, <1>9, <1>10
       DEF Next, Operation

\* What an interrupted write can leave of a record that was not a commit.
LEMMA InterruptedLeaves ==
    /\ Interrupted \subseteq {journal, "intent", "shared", "aborted"}
    /\ "shared" \in Interrupted => journal = "shared" \/ pc = "commit"
    /\ journal = "shared" => \A j \in Interrupted :
            j = "shared" \/ pc \in {"intent", "abort"}
    /\ pc = "intent" => \A j \in Interrupted : j \in {journal, "intent"}
    /\ pc \notin {"intent", "commit", "abort"} => Interrupted = {journal}
  BY DEF Interrupted, Written

\* Every step preserves that only an idle pair has an owner.
LEMMA NextOwnedWhenIdle ==
    TypeOK /\ OwnedWhenIdle /\ JournalAtPoint /\ Next => OwnedWhenIdle'
  <1> SUFFICES ASSUME TypeOK, OwnedWhenIdle, JournalAtPoint, Next
               PROVE  OwnedWhenIdle'
    OBVIOUS
  <1>. USE OwnersDistinct DEF TypeOK, OwnedWhenIdle, Sides
  <1>1. CASE Migrate \/ Recover
    BY <1>1 DEF Migrate, Recover, Fence, StartDrain
  <1>2. CASE IntentWritten \/ CommitWritten \/ AbortWritten
    BY <1>2 DEF IntentWritten, CommitWritten, AbortWritten, StartDrain
  <1>3. CASE RecoveryRead
    BY <1>3 DEF RecoveryRead, RecoveryOwners
  <1>4. CASE Drain
    BY <1>4 DEF Drain
  <1>5. CASE ListenersInstalled \/ Attached
    BY <1>5 DEF ListenersInstalled, Attached, txn, JournalAtPoint
  <1>6. CASE MigrationFails \/ LeftFenced
    BY <1>6 DEF MigrationFails, LeftFenced, Fence
  <1>7. CASE (\E s \in Sides : WorkStarts(s) \/ WorkEnds(s)) \/ RollBack
    BY <1>7 DEF WorkStarts, WorkEnds, RollBack, txn
  <1>8. CASE Crash
    BY <1>8 DEF Crash
  <1>9. QED
    BY <1>1, <1>2, <1>3, <1>4, <1>5, <1>6, <1>7, <1>8 DEF Next, Operation

\* Every step preserves what the journal may hold at each await.
LEMMA NextJournalAtPoint ==
    TypeOK /\ OwnedWhenIdle /\ JournalAtPoint /\ Next => JournalAtPoint'
  <1> SUFFICES ASSUME TypeOK, OwnedWhenIdle, JournalAtPoint, Next
               PROVE  JournalAtPoint'
    OBVIOUS
  <1>. USE OwnersDistinct DEF TypeOK, OwnedWhenIdle, JournalAtPoint, Sides
  <1>1. CASE Migrate \/ Recover
    BY <1>1 DEF Migrate, Recover, Fence, StartDrain
  <1>2. CASE IntentWritten \/ CommitWritten \/ AbortWritten
    BY <1>2 DEF IntentWritten, CommitWritten, AbortWritten, StartDrain, Written
  <1>3. CASE RecoveryRead
    BY <1>3 DEF RecoveryRead, RecoveryOwners
  <1>4. CASE Drain
    BY <1>4 DEF Drain, DrainEnd, Purposes
  <1>5. CASE ListenersInstalled \/ Attached
    BY <1>5 DEF ListenersInstalled, Attached, txn
  <1>6. CASE MigrationFails \/ LeftFenced
    BY <1>6, InterruptedLeaves
       DEF MigrationFails, LeftFenced, Fence, StartDrain, Points, Purposes
  <1>7. CASE (\E s \in Sides : WorkStarts(s) \/ WorkEnds(s)) \/ RollBack
    BY <1>7 DEF WorkStarts, WorkEnds, RollBack, txn
  <1>8. CASE Crash
    BY <1>8 DEF Crash
  <1>9. QED
    BY <1>1, <1>2, <1>3, <1>4, <1>5, <1>6, <1>7, <1>8 DEF Next, Operation

\* Every step preserves how much of the pair has been drained.
LEMMA NextDrainedAtPoint ==
    HandoffInv /\ Next => DrainedAtPoint'
  <1> SUFFICES ASSUME HandoffInv, Next PROVE DrainedAtPoint'
    OBVIOUS
  <1>. USE OwnersDistinct
       DEF HandoffInv, TypeOK, OwnedWhenIdle, DrainedAtPoint, Drained, Sides
  <1>1. CASE Migrate \/ Recover
    BY <1>1 DEF Migrate, Recover, Fence, StartDrain, External
  <1>2. CASE IntentWritten \/ CommitWritten \/ AbortWritten
    BY <1>2 DEF IntentWritten, CommitWritten, AbortWritten, StartDrain, External
  <1>3. CASE RecoveryRead
    BY <1>3 DEF RecoveryRead, RecoveryOwners, External
  <1>4. CASE Drain
    BY <1>4 DEF Drain, DrainEnd, FenceCall, JoinCall, Purposes
  <1>5. CASE ListenersInstalled \/ Attached
    BY <1>5 DEF ListenersInstalled, Attached, External, txn
  <1>6. CASE MigrationFails \/ LeftFenced
    BY <1>6 DEF MigrationFails, LeftFenced, Fence, StartDrain, External
  <1>7. CASE \E s \in Sides : WorkStarts(s) \/ WorkEnds(s)
    BY <1>7 DEF WorkStarts, WorkEnds, txn
  <1>8. CASE RollBack
    BY <1>8 DEF RollBack, txn, External
  <1>9. CASE Crash
    BY <1>9 DEF Crash
  <1>10. QED
    BY <1>1, <1>2, <1>3, <1>4, <1>5, <1>6, <1>7, <1>8, <1>9
       DEF Next, Operation

\* The invariant does not depend on anything but the variables.
LEMMA StutterHandoffInv == HandoffInv /\ UNCHANGED vars => HandoffInv'
  BY DEF HandoffInv, TypeOK, OwnedWhenIdle, JournalAtPoint, DrainedAtPoint,
         Drained, vars, txn

\* HandoffInv holds throughout every migration, recovery, failure and crash.
THEOREM HandoffInvariance == Spec => []HandoffInv
  <1>1. HandoffInv /\ [Next]_vars => HandoffInv'
    BY NextTypeOK, NextOwnedWhenIdle, NextJournalAtPoint, NextDrainedAtPoint,
       StutterHandoffInv DEF HandoffInv
  <1>2. QED
    BY InitHandoffInv, <1>1, PTL DEF Spec

-----------------------------------------------------------------------------
\* Every variable keeps its type in every behaviour.
THEOREM MigrationTypeCorrect == Spec => []TypeOK
  BY HandoffInvariance, PTL DEF HandoffInv

\* admit lets a side write only while the durable record names that side,
\* through every failed, cancelled or crashed migration and recovery.
THEOREM WriterFollowsJournal == Spec => []WriterMatchesJournal
  <1>1. HandoffInv => WriterMatchesJournal
    BY DEF HandoffInv, JournalAtPoint, WriterMatchesJournal, Admits
  <1>2. QED
    BY HandoffInvariance, <1>1, PTL

\* While admit lets one side write, the other has no listener and no work.
THEOREM WritersNeverOverlap == Spec => []NoOverlappingWork
  <1>1. HandoffInv => NoOverlappingWork
    BY DEF HandoffInv, DrainedAtPoint, Drained, NoOverlappingWork, Admits, Sides
  <1>2. QED
    BY HandoffInvariance, <1>1, PTL

\* _attach is entered only after both sides were fenced and joined.
THEOREM AttachmentFindsPairDrained == Spec => AttachesOnDrainedPair
  <1> DEFINE P == pc # "attach" /\ pc' = "attach" =>
                    busy = {} /\ \A s \in Sides : listeners[s] = "off"
  <1>1. HandoffInv /\ [Next]_vars => [P]_vars
    <2> SUFFICES ASSUME HandoffInv, Next, pc # "attach", pc' = "attach"
                 PROVE  busy = {} /\ \A s \in Sides : listeners[s] = "off"
      BY DEF vars
    <2>1. pc \in {"commit", "abort", "read"}
      BY DEF Next, Operation, Migrate, Recover, IntentWritten, CommitWritten,
             AbortWritten, RecoveryRead, Drain, DrainEnd, ListenersInstalled,
             Attached, MigrationFails, LeftFenced, StartDrain, WorkStarts,
             WorkEnds, RollBack, Crash, txn, HandoffInv, TypeOK, Purposes
    <2>2. QED
      BY <2>1 DEF HandoffInv, TypeOK, DrainedAtPoint, Drained, Sides
  <1>2. QED
    BY HandoffInvariance, <1>1, PTL DEF Spec, AttachesOnDrainedPair

\* Nothing but the operator's rollback takes a durable commit back.
THEOREM CommitsAreFinal == Spec => CommitIsFinal
  <1> DEFINE P == journal = "shared" /\ journal' # "shared" => RollBack
  <1>1. HandoffInv /\ [Next]_vars => [P]_vars
    <2> SUFFICES ASSUME HandoffInv, Next, journal = "shared",
                        journal' # "shared", ~RollBack
                 PROVE  FALSE
      BY DEF vars
    <2>1. pc \notin {"intent", "abort"}
      BY DEF HandoffInv, JournalAtPoint
    <2>2. Interrupted = {"shared"}
      BY <2>1 DEF Interrupted, Written
    <2>3. QED
      BY <2>1, <2>2
         DEF Next, Operation, Migrate, Recover, IntentWritten, CommitWritten,
             AbortWritten, RecoveryRead, Drain, ListenersInstalled, Attached,
             MigrationFails, LeftFenced, WorkStarts, WorkEnds, Crash, Written,
             txn
  <1>2. QED
    BY HandoffInvariance, <1>1, PTL DEF Spec, CommitIsFinal

\* The transaction implements OwnershipHandoff: the writer never changes
\* hands except through a durable decision taken while nobody writes.
THEOREM TransactionImplementsHandoff == Spec => HandsOverThroughDecision
  <1>1. Init => Handoff!Init
    BY DEF Init, Handoff!Init, Decision
  <1>2. HandoffInv /\ [Next]_vars => [Handoff!Next]_(Handoff!handoff)
    <2> SUFFICES ASSUME HandoffInv, Next
                 PROVE  Handoff!Next \/ UNCHANGED Handoff!handoff
      BY DEF vars, txn, Handoff!handoff, Decision
    <2>. USE OwnersDistinct
         DEF Handoff!Next, Handoff!Decide, Handoff!Grant, Handoff!Revoke,
             Handoff!handoff, HandoffInv, TypeOK
    <2>1. Decision \in {LEGACY, SHARED, UNRESOLVED}
           /\ Decision' \in {LEGACY, SHARED, UNRESOLVED}
      BY DEF Decision
    <2>2. CASE pc # "idle"
      <3>1. owner = UNRESOLVED
        BY <2>2 DEF OwnedWhenIdle
      <3>2. CASE Attached
        BY <2>2, <3>1, <3>2
           DEF Attached, External, Decision, JournalAtPoint, Sides
      <3>3. CASE ~Attached
        <4>1. owner' = UNRESOLVED
          BY <2>2, <3>1, <3>3
             DEF Next, Operation, Migrate, Recover, IntentWritten,
                 CommitWritten, AbortWritten, RecoveryRead, Drain,
                 ListenersInstalled, MigrationFails, LeftFenced, Fence,
                 WorkStarts, WorkEnds, RollBack, Crash, txn
        <4>2. QED
          BY <2>1, <3>1, <4>1
      <3>4. QED
        BY <3>2, <3>3
    <2>3. CASE pc = "idle"
      <3>1. CASE Migrate \/ Recover
        BY <3>1 DEF Migrate, Recover, Fence, Decision
      <3>2. CASE \E s \in Sides : WorkStarts(s) \/ WorkEnds(s)
        BY <3>2 DEF WorkStarts, WorkEnds, Decision, txn
      <3>3. CASE RollBack
        BY <2>1, <3>3 DEF RollBack, txn
      <3>4. CASE Crash
        BY <2>3, <3>4, InterruptedLeaves DEF Crash, Decision
      <3>5. QED
        BY <2>3, <3>1, <3>2, <3>3, <3>4
           DEF Next, Operation, IntentWritten, CommitWritten, AbortWritten,
               RecoveryRead, Drain, ListenersInstalled, Attached,
               MigrationFails, LeftFenced
    <2>4. QED
      BY <2>2, <2>3
  <1>3. QED
    BY HandoffInvariance, <1>1, <1>2, PTL
       DEF Spec, HandsOverThroughDecision, Handoff!Spec

-----------------------------------------------------------------------------
(* Which entry stands for which gateway *)

SetupStates ==
    {Identity!Off, Identity!Loaded}
        \cup [at : {"verifying"}, own : Guids \cup {None}, host : Hosts]
        \cup [at : {"searching"}, own : Guids, guid : Guids, host : Hosts, rest : SUBSET Entries,
              asked : Entries \cup {None}, via : Hosts \cup {None},
              best : Entries \cup {None}]
FlowStates ==
    {Identity!Idle}
        \cup [at : {"known"}, guid : Guids, host : Hosts, asked : Entries, via : Hosts]
        \cup [at : {"unknown"}, guid : Guids, host : Hosts, rest : SUBSET Entries,
              asked : {None}, via : {None}]
        \cup [at : {"unknown"}, guid : Guids, host : Hosts, rest : SUBSET Entries,
              asked : Entries, via : Hosts]

\* Options and the entries that set them
OptionPairs == (Entries \cup {None}) \X Entries

IdentityTypes ==
    /\ stored \subseteq Entries
    /\ guid \in [Entries -> Guids \cup {None}] /\ host \in [Entries -> Hosts]
    /\ options \in [Entries -> SUBSET OptionPairs]
    /\ live \in [Hosts -> Guids \cup {None}]
    /\ setup \in [Entries -> SetupStates] /\ flow \in FlowStates
    /\ refused \in [Entries -> Guids \cup {None}]
    /\ changes \in Nat

Runs(e) == setup[e].at \in {"verifying", "searching"}
Searches(e) == setup[e].at = "searching"

\* Only an entry that stays is set up, and it asks the others only.
SetUpsOfTheirOwn ==
    \A e \in Entries :
        /\ setup[e] # Identity!Off => e \in stored /\ refused[e] = None
        /\ refused[e] # None => e \in stored
        /\ Searches(e) => e \notin setup[e].rest \cup {setup[e].asked, setup[e].best}

Staying == {e \in stored : refused[e] = None}

\* Entry e has a value for the option n.
Sets(e, n) == n \in Identity!Names(options[e])

OptionsKept ==
    \A e \in Entries, n \in Entries \cup {None} :
        refused[e] # None /\ Sets(e, n) => n \in lost \/ \E d \in Staying : Sets(d, n)

EntryInv == IdentityTypes /\ SetUpsOfTheirOwn /\ OptionsKept

\* An entry that is configured for the gateway at its endpoint; it stays one
\* while nothing changes and no entry strays.
Owns(e, g) == guid[e] = g /\ live[host[e]] = g

BoundAsBegun ==
    \A e \in Entries :
        /\ Runs(e) => guid[e] = setup[e].own
        /\ setup[e].at = "verifying" => host[e] = setup[e].host

FoundThere ==
    \A e \in Entries : Searches(e) =>
        /\ live[setup[e].host] = setup[e].guid
        /\ setup[e].host # host[e] => setup[e].guid = setup[e].own

AskedMayOwn ==
    \A e, d \in Entries :
        Searches(e) /\ setup[e].asked = d /\ live[setup[e].via] = setup[e].guid =>
            Owns(d, setup[e].guid)

BestOwns ==
    \A e, d \in Entries : Searches(e) /\ setup[e].best = d => Owns(d, setup[e].guid)

\* An owner that goes gave way to an earlier one.
EarlierStays ==
    \A e \in Entries \ Staying, g \in Guids : Owns(e, g) => \E d \in Staying : d < e /\ Owns(d, g)

RefusedFound ==
    \A e \in Entries : refused[e] # None => \E d \in Staying : Owns(d, refused[e])

SettledInv ==
    changes = 0 /\ strayed = {} =>
        BoundAsBegun /\ FoundThere /\ AskedMayOwn /\ BestOwns /\ EarlierStays /\ RefusedFound

-----------------------------------------------------------------------------
(* The types *)

LEMMA IdentityFacts ==
    /\ Entries \subseteq Nat /\ MaxChanges \in Nat
    /\ None \notin Guids /\ None \notin Hosts /\ None \notin Entries
    /\ \A e \in Entries : Fallback[e] \subseteq Hosts
  BY IdentityConstants DEF Identity!IdentityConstants

LEMMA SmallestEntry ==
    ASSUME NEW S \in SUBSET Entries, S # {}
    PROVE  Identity!Min(S) \in S
  <1>1. PICK x \in S : \A y \in S : ~(<<y, x>> \in OpToRel(<, Nat))
    BY IdentityFacts, NatLessThanWellFounded, WFMin
  <1>2. ASSUME NEW y \in Nat, NEW z \in Nat, y < z
        PROVE  <<y, z>> \in OpToRel(<, Nat)
    BY <1>2 DEF OpToRel
  <1>3. \A y \in S : x <= y
    <2> SUFFICES ASSUME NEW y \in S PROVE x <= y
      OBVIOUS
    <2>1. x \in Nat /\ y \in Nat
      BY IdentityFacts
    <2>2. ~(y < x)
      BY <1>1, <1>2, <2>1
    <2>3. QED
      BY <2>1, <2>2
  <1>4. QED
    BY <1>3 DEF Identity!Min

LEMMA SetupFacts ==
    ASSUME NEW s \in SetupStates
    PROVE  /\ s.at = "verifying" => s \in [at : {"verifying"}, own : Guids \cup {None}, host : Hosts]
           /\ s.at = "searching" =>
                 s \in [at : {"searching"}, own : Guids, guid : Guids, host : Hosts,
                        rest : SUBSET Entries, asked : Entries \cup {None}, via : Hosts \cup {None},
                        best : Entries \cup {None}]
           /\ s.at = "off" <=> s = Identity!Off
  BY DEF SetupStates, Identity!Off, Identity!Loaded

LEMMA FlowFacts ==
    ASSUME NEW s \in FlowStates
    PROVE  /\ s.at = "known" =>
                 s \in [at : {"known"}, guid : Guids, host : Hosts, asked : Entries, via : Hosts]
           /\ s.at = "unknown" =>
                 /\ s \in [at : {"unknown"}, guid : Guids, host : Hosts, rest : SUBSET Entries,
                           asked : Entries \cup {None}, via : Hosts \cup {None}]
                 /\ s.asked # None => s.via \in Hosts
  BY DEF FlowStates, Identity!Idle

LEMMA ReachedFacts ==
    ASSUME IdentityTypes, NEW e \in Entries, setup[e].at = "verifying",
           NEW h \in Identity!Reached(e)
    PROVE  h \in Hosts /\ live[h] \in Guids
  <1>1. setup[e] \in SetupStates
    BY DEF IdentityTypes
  <1>2. setup[e].host \in Hosts
    BY <1>1, SetupFacts
  <1>3. QED
    BY <1>2, IdentityFacts DEF IdentityTypes, Identity!Reached

LEMMA InitIdentity == Identity!Init => EntryInv /\ SettledInv
  <1> SUFFICES ASSUME Identity!Init PROVE EntryInv /\ SettledInv
    OBVIOUS
  <1>1. /\ stored \subseteq Entries /\ guid \in [Entries -> Guids \cup {None}]
        /\ host \in [Entries -> Hosts] /\ live \in [Hosts -> Guids \cup {None}]
        /\ options = [e \in Entries |-> IF e \in stored THEN Identity!Own(e) ELSE {}]
        /\ setup = [e \in Entries |-> Identity!Off] /\ refused = [e \in Entries |-> None]
        /\ flow = Identity!Idle /\ changes = 0
        /\ \A e \in Entries \ stored : guid[e] = None
    BY DEF Identity!Init
  <1>2. IdentityTypes
    <2>1. flow \in FlowStates /\ setup \in [Entries -> SetupStates]
      BY <1>1 DEF FlowStates, SetupStates
    <2>2. options \in [Entries -> SUBSET OptionPairs]
      BY <1>1 DEF Identity!Own, OptionPairs
    <2>3. QED
      BY <1>1, <2>1, <2>2 DEF IdentityTypes
  <1>3. \A e \in Entries : setup[e] = Identity!Off /\ refused[e] = None /\ ~Runs(e) /\ ~Searches(e)
    BY <1>1 DEF Runs, Searches, Identity!Off
  <1>4. SetUpsOfTheirOwn /\ OptionsKept
    BY <1>3 DEF SetUpsOfTheirOwn, OptionsKept
  <1>5. EarlierStays
    BY <1>1, <1>3, IdentityFacts DEF EarlierStays, Owns, Staying
  <1>6. BoundAsBegun /\ FoundThere /\ AskedMayOwn /\ BestOwns /\ RefusedFound
    BY <1>3 DEF BoundAsBegun, FoundThere, AskedMayOwn, BestOwns, RefusedFound, Runs, Searches,
                Identity!Off
  <1>7. QED
    BY <1>2, <1>4, <1>5, <1>6 DEF EntryInv, SettledInv

\* The states that a set-up and a flow move to.
LEMMA NextStates ==
    /\ Identity!Off \in SetupStates /\ Identity!Loaded \in SetupStates
    /\ Identity!Idle \in FlowStates
    /\ \A own \in Guids \cup {None}, h \in Hosts :
          [at |-> "verifying", own |-> own, host |-> h] \in SetupStates
    /\ \A own \in Guids, g \in Guids, h \in Hosts, rest \in SUBSET Entries :
          [at |-> "searching", own |-> own, guid |-> g, host |-> h, rest |-> rest,
           asked |-> None, via |-> None, best |-> None] \in SetupStates
  BY DEF SetupStates, FlowStates

LEMMA SetUpTypes ==
    ASSUME EntryInv, NEW e \in Entries, Identity!SetUp(e)
    PROVE  IdentityTypes'
  <1> USE NextStates
  <1>0. IdentityTypes /\ setup[e] \in SetupStates
    BY DEF EntryInv, IdentityTypes
  <1>1. CASE Identity!StartSetup(e)
    BY <1>0, <1>1 DEF Identity!StartSetup, Identity!Ends, Identity!config, IdentityTypes
  <1>2. CASE Identity!Unverified(e)
    <2>1. setup[e].own \in Guids \cup {None}
      BY <1>0, <1>2, SetupFacts DEF Identity!Unverified
    <2>2. QED
      BY <1>0, <1>2, <2>1 DEF Identity!Unverified, Identity!Ends, IdentityTypes
  <1>3. CASE Identity!Migrates(e)
    <2>1. PICK h \in Identity!Reached(e) : Identity!Bind(e, live[h], h)
      BY <1>3 DEF Identity!Migrates
    <2>2. h \in Hosts /\ live[h] \in Guids
      BY <1>0, <1>3, ReachedFacts DEF Identity!Migrates
    <2>3. QED
      BY <1>0, <1>3, <2>1, <2>2 DEF Identity!Migrates, Identity!Ends, Identity!Bind, IdentityTypes
  <1>4. CASE Identity!Verified(e)
    <2>1. PICK h \in Identity!Reached(e) :
              setup' = [setup EXCEPT ![e] =
                  [at |-> "searching", own |-> setup[e].own, guid |-> live[h], host |-> h,
                   rest |-> stored \ {e}, asked |-> None, via |-> None,
                   best |-> None]]
      BY <1>4 DEF Identity!Verified, Identity!Ends
    <2>2. h \in Hosts /\ live[h] \in Guids
      BY <1>0, <1>4, ReachedFacts DEF Identity!Verified
    <2>3. setup[e].own \in Guids /\ stored \ {e} \in SUBSET Entries
      BY <1>0, <1>4, SetupFacts DEF Identity!Verified, IdentityTypes
    <2>4. setup' \in [Entries -> SetupStates]
      BY <1>0, <2>1, <2>2, <2>3 DEF IdentityTypes
    <2>5. QED
      BY <1>0, <1>4, <2>4 DEF Identity!Verified, Identity!config, IdentityTypes
  <1>6. CASE Identity!Ask(e)
    <2>1. setup[e] \in [at : {"searching"}, own : Guids, guid : Guids, host : Hosts,
                        rest : SUBSET Entries, asked : Entries \cup {None}, via : Hosts \cup {None},
                        best : Entries \cup {None}]
      BY <1>0, <1>6, SetupFacts DEF Identity!Ask
    <2>2. Identity!Min(Identity!Pending(e)) \in Entries
      BY <1>6, <2>1, SmallestEntry DEF Identity!Ask, Identity!Pending, Identity!Asked
    <2> DEFINE d == Identity!Min(Identity!Pending(e))
    <2>3. host[d] \in Hosts
      BY <1>0, <2>2 DEF IdentityTypes
    <2>4. [setup[e] EXCEPT !.asked = d, !.via = host[d], !.rest = {r \in @ : r > d}] \in SetupStates
      BY <2>1, <2>2, <2>3 DEF SetupStates
    <2>5. QED
      BY <1>0, <1>6, <2>4 DEF Identity!Ask, Identity!Ends, Identity!config, IdentityTypes
  <1>7. CASE Identity!Answer(e)
    <2>1. setup[e] \in [at : {"searching"}, own : Guids, guid : Guids, host : Hosts,
                        rest : SUBSET Entries, asked : Entries \cup {None}, via : Hosts \cup {None},
                        best : Entries \cup {None}]
      BY <1>0, <1>7, SetupFacts DEF Identity!Answer
    <2>2. PICK best \in {setup[e].best, setup[e].asked} :
              setup' = [setup EXCEPT ![e] = [setup[e] EXCEPT !.asked = None, !.via = None, !.best = best]]
      BY <1>7, <2>1 DEF Identity!Answer, Identity!Ends, Identity!Better
    <2>3. [setup[e] EXCEPT !.asked = None, !.via = None, !.best = best] \in SetupStates
      BY <2>1, <2>2 DEF SetupStates
    <2>4. QED
      BY <1>0, <1>7, <2>2, <2>3 DEF Identity!Answer, Identity!config, IdentityTypes
  <1>8. CASE Identity!Refuse(e)
    <2>1. setup[e].at = "searching" /\ setup[e].best # None /\ setup[e].guid \in Guids
          /\ setup[e].best \in Entries
      BY <1>0, <1>8, SetupFacts DEF Identity!Refuse, Identity!Searched, Identity!GivesWay
    <2>2. options' \in [Entries -> SUBSET OptionPairs] /\ refused' \in [Entries -> Guids \cup {None}]
      <3>1. \A over : Identity!Besides(options[e], over) \subseteq options[e]
        BY DEF Identity!Besides
      <3>2. Identity!Merged(setup[e].best, e) \in [Entries -> SUBSET OptionPairs]
        BY <1>0, <2>1, <3>1 DEF Identity!Merged, IdentityTypes
      <3>3. QED
        BY <1>0, <1>8, <2>1, <3>2 DEF Identity!Refuse, IdentityTypes
    <2>3. QED
      BY <1>0, <1>8, <2>2 DEF Identity!Refuse, Identity!Ends, IdentityTypes
  <1>9. CASE Identity!Keep(e)
    <2>1. setup[e].guid \in Guids /\ setup[e].host \in Hosts
      BY <1>0, <1>9, SetupFacts DEF Identity!Keep, Identity!Searched
    <2>2. QED
      BY <1>0, <1>9, <2>1 DEF Identity!Keep, Identity!Ends, Identity!Bind, IdentityTypes
  <1>10. CASE Identity!Unload(e)
    BY <1>0, <1>10 DEF Identity!Unload, Identity!Ends, Identity!config, IdentityTypes
  <1>11. CASE Identity!Remove(e)
    BY <1>0, <1>11 DEF Identity!Remove, IdentityTypes
  <1>12. QED
    BY <1>1, <1>2, <1>3, <1>4, <1>6, <1>7, <1>8, <1>9, <1>10, <1>11 DEF Identity!SetUp

LEMMA FlowTypes ==
    ASSUME EntryInv,
           \/ Identity!FlowMoves \/ Identity!FlowTries \/ Identity!FlowAdopts \/ Identity!FlowCreates
           \/ Identity!GatewayMoves
           \/ \E e \in Entries : Identity!Disable(e)
           \/ \E h \in Hosts : Identity!Find(h)
    PROVE  IdentityTypes'
  <1> USE NextStates
  <1>0. IdentityTypes /\ flow \in FlowStates
    BY DEF EntryInv, IdentityTypes
  <1>1. changes' \in Nat
    BY <1>0 DEF Identity!FlowMoves, Identity!FlowTries, Identity!FlowAdopts, Identity!FlowCreates,
                Identity!GatewayMoves, Identity!Disable, Identity!Find, Identity!Changes,
                IdentityTypes
  <1>2. CASE Identity!FlowMoves
    <2>1. flow.guid \in Guids /\ flow.host \in Hosts /\ flow.asked \in Entries
      BY <1>0, <1>2, FlowFacts DEF Identity!FlowMoves
    <2>2. QED
      BY <1>0, <1>1, <1>2, <2>1
      DEF Identity!FlowMoves, Identity!FlowEnds, Identity!Bind, Identity!Reloads, Identity!Ends,
          IdentityTypes
  <1>3. CASE Identity!FlowTries
    <2>1. flow \in [at : {"unknown"}, guid : Guids, host : Hosts, rest : SUBSET Entries,
                    asked : Entries \cup {None}, via : Hosts \cup {None}]
      BY <1>0, <1>3, FlowFacts DEF Identity!FlowTries
    <2> DEFINE d == Identity!Min(Identity!FlowAsks)
    <2>2. d \in Entries
      BY <1>3, <2>1, SmallestEntry DEF Identity!FlowTries, Identity!FlowAsks
    <2>3. host[d] \in Hosts
      BY <1>0, <2>2 DEF IdentityTypes
    <2>4. flow' \in FlowStates
      BY <1>3, <2>1, <2>2, <2>3 DEF Identity!FlowTries, FlowStates
    <2>5. QED
      BY <1>0, <1>1, <1>3, <2>4 DEF Identity!FlowTries, Identity!config, IdentityTypes
  <1>a. CASE Identity!FlowAdopts
    <2>1. flow \in [at : {"unknown"}, guid : Guids, host : Hosts, rest : SUBSET Entries,
                    asked : Entries \cup {None}, via : Hosts \cup {None}]
      BY <1>0, <1>a, FlowFacts DEF Identity!FlowAdopts
    <2>2. [flow EXCEPT !.asked = None, !.via = None] \in FlowStates
      BY <2>1 DEF FlowStates
    <2>3. flow' \in FlowStates
      BY <1>a, <2>2 DEF Identity!FlowAdopts, Identity!FlowEnds
    <2>4. CASE UNCHANGED <<guid, host, setup, changes>>
      BY <1>0, <1>a, <2>3, <2>4 DEF Identity!FlowAdopts, IdentityTypes
    <2>5. CASE /\ live[flow.via] = flow.guid
               /\ IF flow.asked \in stored
                  THEN Identity!Bind(flow.asked, flow.guid, flow.via) /\ Identity!Reloads(flow.asked)
                  ELSE UNCHANGED <<guid, host, setup>>
      <3>1. flow.asked \in Entries /\ flow.via \in Hosts
        BY <1>0, <1>a, <2>1, <2>5, FlowFacts DEF Identity!FlowAdopts
      <3>2. /\ guid' \in [Entries -> Guids \cup {None}] /\ host' \in [Entries -> Hosts]
            /\ setup' \in [Entries -> SetupStates]
        <4>1. CASE flow.asked \in stored
          <5>1. /\ guid' = [guid EXCEPT ![flow.asked] = flow.guid]
                /\ host' = [host EXCEPT ![flow.asked] = flow.via]
                /\ \E s \in {setup[flow.asked], Identity!Off} :
                      setup' = [setup EXCEPT ![flow.asked] = s]
            BY <2>5, <4>1 DEF Identity!Bind, Identity!Reloads, Identity!Ends
          <5>2. setup[flow.asked] \in SetupStates /\ flow.guid \in Guids
            BY <1>0, <2>1, <3>1 DEF IdentityTypes
          <5>3. QED
            BY <1>0, <3>1, <5>1, <5>2 DEF IdentityTypes
        <4>2. CASE flow.asked \notin stored
          BY <1>0, <2>5, <4>2 DEF IdentityTypes
        <4>3. QED
          BY <4>1, <4>2
      <3>3. QED
        BY <1>0, <1>1, <1>a, <2>3, <3>2 DEF Identity!FlowAdopts, IdentityTypes
    <2>6. QED
      BY <1>a, <2>4, <2>5 DEF Identity!FlowAdopts
  <1>4. CASE Identity!FlowCreates
    <2>1. flow.guid \in Guids /\ flow.host \in Hosts
      BY <1>0, <1>4, FlowFacts DEF Identity!FlowCreates
    <2>o. options' \in [Entries -> SUBSET OptionPairs]
      BY <1>0, <1>4 DEF Identity!FlowCreates, Identity!Own, OptionPairs, IdentityTypes
    <2>2. setup' \in [Entries -> SetupStates] /\ refused' \in [Entries -> Guids \cup {None}]
      BY <1>0, <1>4 DEF Identity!FlowCreates, IdentityTypes
    <2>3. QED
      BY <1>0, <1>1, <1>4, <2>1, <2>2, <2>o
      DEF Identity!FlowCreates, Identity!FlowEnds, Identity!Bind, IdentityTypes
  <1>5. CASE Identity!GatewayMoves
    BY <1>0, <1>1, <1>5 DEF Identity!GatewayMoves, Identity!config, IdentityTypes
  <1>6. CASE \E e \in Entries : Identity!Disable(e)
    BY <1>0, <1>1, <1>6 DEF Identity!Disable, Identity!Ends, IdentityTypes
  <1>7. ASSUME NEW h \in Hosts, Identity!Find(h)
        PROVE  IdentityTypes'
    <2>1. live[h] \in Guids /\ stored \in SUBSET Entries
      BY <1>0, <1>7 DEF Identity!Find, IdentityTypes
    <2>2. Identity!Configured(live[h]) # {} => Identity!Min(Identity!Configured(live[h])) \in Entries
      BY <2>1, SmallestEntry DEF Identity!Configured
    <2>c. Identity!Configured(live[h]) # {} =>
              host[Identity!Min(Identity!Configured(live[h]))] \in Hosts
      BY <1>0, <2>2 DEF IdentityTypes
    <2>3. flow' \in FlowStates
      BY <1>7, <2>1, <2>2, <2>c DEF Identity!Find, Identity!FlowEnds, FlowStates
    <2>4. QED
      BY <1>0, <1>1, <1>7, <2>3 DEF Identity!Find, Identity!config, IdentityTypes
  <1>8. QED
    BY <1>2, <1>3, <1>4, <1>5, <1>6, <1>7, <1>a

-----------------------------------------------------------------------------
(* Only an entry that stays is set up *)

\* A set-up is its entry's own.
LEMMA SetUpIsLocal ==
    ASSUME EntryInv, NEW e \in Entries, Identity!SetUp(e)
    PROVE  /\ \A d \in Entries \ {e} : setup'[d] = setup[d] /\ refused'[d] = refused[d]
           /\ \A d \in Entries \ {e} : d \in stored' <=> d \in stored
           /\ live' = live /\ changes' = changes /\ flow' = flow
  <1>1. setup \in [Entries -> SetupStates] /\ refused \in [Entries -> Guids \cup {None}]
    BY DEF EntryInv, IdentityTypes
  <1>2. /\ setup' = setup \/ \E s : setup' = [setup EXCEPT ![e] = s]
        /\ refused' = refused \/ \E r : refused' = [refused EXCEPT ![e] = r]
        /\ stored' = stored \/ stored' = stored \ {e}
        /\ live' = live /\ changes' = changes /\ flow' = flow
    BY DEF Identity!SetUp, Identity!StartSetup, Identity!Unverified, Identity!Migrates,
           Identity!Verified, Identity!Ask, Identity!Answer, Identity!Refuse, Identity!Keep,
           Identity!Unload, Identity!Remove, Identity!Ends, Identity!config
  <1>3. QED
    BY <1>1, <1>2

LEMMA SetUpStaysOwn ==
    ASSUME EntryInv, NEW e \in Entries, Identity!SetUp(e)
    PROVE  SetUpsOfTheirOwn'
  <1>0. /\ setup \in [Entries -> SetupStates] /\ setup[e] \in SetupStates
        /\ refused \in [Entries -> Guids \cup {None}]
        /\ setup[e] # Identity!Off => e \in stored /\ refused[e] = None
        /\ refused[e] # None => e \in stored
        /\ setup[e].at = "searching" => e \notin setup[e].rest \cup {setup[e].asked, setup[e].best}
        /\ e # None
    BY IdentityFacts DEF EntryInv, IdentityTypes, SetUpsOfTheirOwn, Searches
  <1> DEFINE Own == /\ setup'[e] # Identity!Off => e \in stored' /\ refused'[e] = None
                    /\ refused'[e] # None => e \in stored'
                    /\ setup'[e].at = "searching" =>
                          e \notin setup'[e].rest \cup {setup'[e].asked, setup'[e].best}
  <1> SUFFICES Own
    BY SetUpIsLocal DEF EntryInv, SetUpsOfTheirOwn, Searches
  <1>1. CASE Identity!StartSetup(e)
    BY <1>0, <1>1 DEF Identity!StartSetup, Identity!Ends, Identity!Removing, Identity!config
  <1>2. CASE Identity!Unverified(e) \/ Identity!Migrates(e)
    BY <1>0, <1>2 DEF Identity!Unverified, Identity!Migrates, Identity!Ends, Identity!Off,
                      Identity!Loaded
  <1>4. CASE Identity!Verified(e)
    <2>1. PICK h \in Identity!Reached(e) :
              setup' = [setup EXCEPT ![e] =
                  [at |-> "searching", own |-> setup[e].own, guid |-> live[h], host |-> h,
                   rest |-> stored \ {e}, asked |-> None, via |-> None,
                   best |-> None]]
      BY <1>4 DEF Identity!Verified, Identity!Ends
    <2>2. e \notin setup'[e].rest \cup {setup'[e].asked, setup'[e].best}
      BY <1>0, <2>1
    <2>3. QED
      BY <1>0, <1>4, <2>2 DEF Identity!Verified, Identity!Off, Identity!config
  <1>6. CASE Identity!Ask(e)
    <2>1. /\ setup[e].at = "searching"
          /\ setup[e] \in [at : {"searching"}, own : Guids, guid : Guids, host : Hosts,
                           rest : SUBSET Entries, asked : Entries \cup {None}, via : Hosts \cup {None},
                           best : Entries \cup {None}]
      BY <1>0, <1>6, SetupFacts DEF Identity!Ask
    <2>2. Identity!Min(Identity!Pending(e)) \in setup[e].rest
      BY <1>6, <2>1, SmallestEntry DEF Identity!Ask, Identity!Pending, Identity!Asked
    <2>3. /\ setup'[e].rest \subseteq setup[e].rest /\ setup'[e].asked \in setup[e].rest
          /\ setup'[e].best = setup[e].best
      BY <1>0, <1>6, <2>1, <2>2 DEF Identity!Ask, Identity!Ends
    <2>4. QED
      BY <1>0, <1>6, <2>1, <2>3 DEF Identity!Ask, Identity!Off, Identity!config
  <1>7. CASE Identity!Answer(e)
    <2>1. /\ setup[e].at = "searching"
          /\ setup[e] \in [at : {"searching"}, own : Guids, guid : Guids, host : Hosts,
                           rest : SUBSET Entries, asked : Entries \cup {None}, via : Hosts \cup {None},
                           best : Entries \cup {None}]
      BY <1>0, <1>7, SetupFacts DEF Identity!Answer
    <2>2. PICK best \in {setup[e].best, setup[e].asked} :
              setup' = [setup EXCEPT ![e] = [setup[e] EXCEPT !.asked = None, !.via = None, !.best = best]]
      BY <1>7, <2>1 DEF Identity!Answer, Identity!Ends, Identity!Better
    <2>3. setup'[e].rest = setup[e].rest /\ setup'[e].asked = None /\ setup'[e].best = best
      BY <1>0, <2>1, <2>2
    <2>4. QED
      BY <1>0, <1>7, <2>1, <2>3 DEF Identity!Answer, Identity!Off, Identity!config
  <1>8. CASE Identity!Refuse(e)
    BY <1>0, <1>8 DEF Identity!Refuse, Identity!Searched, Identity!Ends, Identity!Off
  <1>9. CASE Identity!Keep(e)
    BY <1>0, <1>9 DEF Identity!Keep, Identity!Searched, Identity!Ends, Identity!Off,
                      Identity!Loaded
  <1>10. CASE Identity!Unload(e)
    BY <1>0, <1>10 DEF Identity!Unload, Identity!Ends, Identity!config, Identity!Off
  <1>11. CASE Identity!Remove(e)
    BY <1>0, <1>11 DEF Identity!Remove, Identity!Off
  <1>12. QED
    BY <1>1, <1>2, <1>4, <1>6, <1>7, <1>8, <1>9, <1>10, <1>11 DEF Identity!SetUp

LEMMA OthersStayOwn ==
    ASSUME EntryInv,
           \/ Identity!FlowMoves \/ Identity!FlowTries \/ Identity!FlowAdopts \/ Identity!FlowCreates
           \/ Identity!GatewayMoves
           \/ \E e \in Entries : Identity!Disable(e)
           \/ \E h \in Hosts : Identity!Find(h)
    PROVE  SetUpsOfTheirOwn'
  <1>0. /\ setup \in [Entries -> SetupStates] /\ refused \in [Entries -> Guids \cup {None}]
        /\ SetUpsOfTheirOwn
    BY DEF EntryInv, IdentityTypes
  <1>s. ASSUME stored' = stored, refused' = refused,
               \A d \in Entries : setup'[d] = setup[d] \/ setup'[d] = Identity!Off
        PROVE  SetUpsOfTheirOwn'
    BY <1>0, <1>s DEF SetUpsOfTheirOwn, Searches, Identity!Off
  <1>1. CASE Identity!FlowCreates
    <2>1. PICK e \in Entries : /\ \A d \in stored : e > d
                               /\ setup[e] = Identity!Off
                               /\ stored' = (stored \ Identity!Configured(flow.guid)) \cup {e}
      BY <1>1 DEF Identity!FlowCreates
    <2>2. e \notin stored
      BY <2>1, IdentityFacts
    <2>3. \A d \in Entries : IF d \in Identity!Configured(flow.guid)
                             THEN setup'[d] = Identity!Off /\ refused'[d] = None
                             ELSE setup'[d] = setup[d] /\ refused'[d] = refused[d]
      BY <1>1 DEF Identity!FlowCreates
    <2>4. Identity!Configured(flow.guid) \subseteq stored
      BY DEF Identity!Configured
    <2>5. QED
      BY <1>0, <2>1, <2>2, <2>3, <2>4 DEF SetUpsOfTheirOwn, Searches, Identity!Off
  <1>2. CASE Identity!FlowMoves
    BY <1>0, <1>2, <1>s DEF Identity!FlowMoves, Identity!Reloads, Identity!Ends
  <1>3. CASE Identity!FlowAdopts
    BY <1>0, <1>3, <1>s DEF Identity!FlowAdopts, Identity!Reloads, Identity!Ends
  <1>4. CASE Identity!GatewayMoves
    BY <1>4, <1>s DEF Identity!GatewayMoves, Identity!config
  <1>5. CASE \E e \in Entries : Identity!Disable(e)
    BY <1>0, <1>5, <1>s DEF Identity!Disable, Identity!Ends
  <1>6. CASE \E h \in Hosts : Identity!Find(h)
    BY <1>6, <1>s DEF Identity!Find, Identity!config
  <1>7. CASE Identity!FlowTries
    BY <1>7, <1>s DEF Identity!FlowTries, Identity!config
  <1>8. QED
    BY <1>1, <1>2, <1>3, <1>4, <1>5, <1>6, <1>7

-----------------------------------------------------------------------------
(* The options of the refused *)

\* The owner gets what it has no value for, and keeps its own.
Merges(best, e) ==
    /\ \A d \in Entries \ {best} : options'[d] = options[d]
    /\ options[best] \subseteq options'[best]
    /\ Identity!Names(options'[best]) =
          Identity!Names(options[best]) \cup Identity!Names(options[e])

LEMMA RefusalMoves ==
    ASSUME EntryInv, NEW e \in Entries, Identity!Refuse(e)
    PROVE  /\ e \in Staying /\ setup[e].at = "searching"
           /\ setup[e] \in [at : {"searching"}, own : Guids, guid : Guids, host : Hosts,
                            rest : SUBSET Entries, asked : Entries \cup {None}, via : Hosts \cup {None},
                            best : Entries \cup {None}]
           /\ setup[e].best \in Entries \ {e}
           /\ setup[e].own # setup[e].guid \/ setup[e].best < e
           /\ stored' = stored /\ guid' = guid /\ host' = host /\ live' = live
           /\ changes' = changes /\ strayed' = strayed
           /\ \/ options' = options /\ refused' = refused /\ lost' = lost
              \/ /\ Merges(setup[e].best, e)
                 /\ \A d \in Entries :
                       refused'[d] = IF d = e THEN setup[e].guid ELSE refused[d]
                 /\ lost' = lost \cup IF setup[e].best \in Staying THEN {} ELSE Identity!Names(options[e])
  <1>0. /\ setup \in [Entries -> SetupStates] /\ setup[e] \in SetupStates
        /\ refused \in [Entries -> Guids \cup {None}]
        /\ options \in [Entries -> SUBSET OptionPairs] /\ stored \subseteq Entries
        /\ setup[e] # Identity!Off => e \in stored /\ refused[e] = None
        /\ setup[e].at = "searching" => setup[e].best # e
        /\ setup[e].at = "searching" /\ setup[e].best # None
    BY DEF EntryInv, IdentityTypes, SetUpsOfTheirOwn, Searches, Identity!Refuse,
           Identity!Searched, Identity!GivesWay
  <1>1. /\ e \in Staying /\ setup[e].best \in Entries \ {e}
        /\ setup[e] \in [at : {"searching"}, own : Guids, guid : Guids, host : Hosts,
                         rest : SUBSET Entries, asked : Entries \cup {None}, via : Hosts \cup {None},
                         best : Entries \cup {None}]
    BY <1>0, SetupFacts DEF Staying, Identity!Off
  <1>2. /\ setup[e].own # setup[e].guid \/ setup[e].best < e
        /\ stored' = stored /\ guid' = guid /\ host' = host /\ live' = live
        /\ changes' = changes /\ strayed' = strayed
    BY DEF Identity!Refuse, Identity!GivesWay
  <1>3. Staying = stored \ Identity!Removing
    BY <1>0 DEF Staying, Identity!Removing
  <1>4. CASE setup[e].best \in stored \/ Identity!Merged(setup[e].best, e) = options
    <2>1. /\ options' = [options EXCEPT ![setup[e].best] =
                options[setup[e].best] \cup Identity!Besides(options[e], options[setup[e].best])]
          /\ refused' = [refused EXCEPT ![e] = setup[e].guid]
          /\ lost' = lost \cup IF setup[e].best \in Staying THEN {} ELSE Identity!Names(options[e])
      BY <1>3, <1>4 DEF Identity!Refuse, Identity!Merged
    <2>2. /\ Merges(setup[e].best, e)
          /\ \A d \in Entries : refused'[d] = IF d = e THEN setup[e].guid ELSE refused[d]
      BY <1>0, <1>1, <2>1 DEF Merges, Identity!Names, Identity!Besides
    <2>3. QED
      BY <1>0, <1>1, <1>2, <2>1, <2>2
  <1>5. CASE ~(setup[e].best \in stored \/ Identity!Merged(setup[e].best, e) = options)
    <2>1. options' = options /\ refused' = refused /\ lost' = lost
      BY <1>5 DEF Identity!Refuse
    <2>2. QED
      BY <1>0, <1>1, <1>2, <2>1
  <1>6. QED
    BY <1>4, <1>5

LEMMA CreationMoves ==
    ASSUME EntryInv, Identity!FlowCreates
    PROVE  \E e \in Entries :
              /\ e \notin stored /\ refused[e] = None /\ stored \subseteq Entries
              /\ stored' = (stored \ Identity!Configured(flow.guid)) \cup {e}
              /\ \A d \in Entries \ {e} : options'[d] = options[d]
              /\ options[e] = {}
              /\ \A d \in Entries :
                    refused'[d] = IF d \in Identity!Configured(flow.guid) THEN None ELSE refused[d]
              /\ lost' = lost \cup UNION {Identity!Names(options[d]) : d \in Identity!Configured(flow.guid)}
  <1>0. /\ refused \in [Entries -> Guids \cup {None}] /\ stored \subseteq Entries
        /\ options \in [Entries -> SUBSET OptionPairs]
        /\ \A e \in Entries : refused[e] # None => e \in stored
    BY DEF EntryInv, IdentityTypes, SetUpsOfTheirOwn
  <1>1. PICK e \in Entries : /\ \A d \in stored : e > d
                             /\ options[e] = {}
                             /\ stored' = (stored \ Identity!Configured(flow.guid)) \cup {e}
                             /\ options' = [options EXCEPT ![e] = Identity!Own(e)]
    BY DEF Identity!FlowCreates
  <1>2. e \notin stored
    BY <1>1, IdentityFacts
  <1>3. /\ \A d \in Entries :
              refused'[d] = IF d \in Identity!Configured(flow.guid) THEN None ELSE refused[d]
        /\ lost' = lost \cup UNION {Identity!Names(options[d]) : d \in Identity!Configured(flow.guid)}
    BY DEF Identity!FlowCreates
  <1>4. QED
    BY <1>0, <1>1, <1>2, <1>3

LEMMA KeepsOptions ==
    ASSUME EntryInv, Identity!Next
    PROVE  OptionsKept'
  <1>0. /\ OptionsKept /\ refused \in [Entries -> Guids \cup {None}]
        /\ stored \subseteq Entries
    BY DEF EntryInv, IdentityTypes
  <1>1. ASSUME NEW e \in Entries, Identity!Refuse(e)
        PROVE  OptionsKept'
    <2>1. CASE options' = options /\ refused' = refused /\ lost' = lost
      BY <1>0, <1>1, <2>1, RefusalMoves DEF OptionsKept, Staying, Sets
    <2> DEFINE best == setup[e].best
    <2>2. CASE /\ Merges(best, e)
               /\ \A d \in Entries : refused'[d] = IF d = e THEN setup[e].guid ELSE refused[d]
               /\ lost' = lost \cup IF best \in Staying THEN {} ELSE Identity!Names(options[e])
      <3>1. e \in Staying /\ best \in Entries \ {e} /\ stored' = stored
        BY <1>1, RefusalMoves
      <3>2. \A d \in Staying \ {e}, n \in Entries \cup {None} : d \in Staying' /\ (Sets(d, n) => Sets(d, n)')
        BY <1>0, <2>2, <3>1 DEF Staying, Merges, Sets
      <3>3. \A n \in Entries \cup {None} : Sets(e, n) => n \in lost' \/ \E d \in Staying' : Sets(d, n)'
        <4>1. CASE best \in Staying
          BY <2>2, <3>1, <3>2, <4>1 DEF Merges, Sets
        <4>2. CASE best \notin Staying
          BY <2>2, <4>2 DEF Sets
        <4>3. QED
          BY <4>1, <4>2
      <3>4. SUFFICES ASSUME NEW x \in Entries, NEW n \in Entries \cup {None},
                            refused'[x] # None, Sets(x, n)'
                     PROVE  n \in lost' \/ \E d \in Staying' : Sets(d, n)'
        BY DEF OptionsKept
      <3>5. CASE Sets(e, n)
        BY <3>3, <3>5
      <3>6. CASE ~Sets(e, n)
        <4>1. x # e /\ Sets(x, n) /\ refused[x] # None
          BY <2>2, <3>1, <3>4, <3>6 DEF Merges, Sets
        <4>2. n \in lost \/ \E d \in Staying \ {e} : Sets(d, n)
          BY <1>0, <3>6, <4>1 DEF OptionsKept
        <4>3. QED
          BY <2>2, <3>2, <4>2
      <3>7. QED
        BY <3>5, <3>6
    <2>3. QED
      BY <1>1, <2>1, <2>2, RefusalMoves
  <1>2. ASSUME NEW e \in Entries, Identity!Remove(e)
        PROVE  OptionsKept'
    <2>1. /\ refused[e] # None /\ stored' = stored \ {e} /\ lost' = lost /\ options' = options
          /\ \A d \in Entries : refused'[d] = IF d = e THEN None ELSE refused[d]
      BY <1>0, <1>2 DEF Identity!Remove, Identity!Removing, Identity!config
    <2>2. \A d \in Staying : d \in Staying'
      BY <1>0, <2>1 DEF Staying
    <2>3. QED
      BY <1>0, <2>1, <2>2 DEF OptionsKept, Sets
  <1>3. CASE Identity!FlowCreates
    <2>1. PICK e \in Entries :
              /\ e \notin stored /\ refused[e] = None
              /\ stored' = (stored \ Identity!Configured(flow.guid)) \cup {e}
              /\ \A d \in Entries \ {e} : options'[d] = options[d]
              /\ \A d \in Entries :
                    refused'[d] = IF d \in Identity!Configured(flow.guid) THEN None ELSE refused[d]
              /\ lost' = lost \cup UNION {Identity!Names(options[d]) : d \in Identity!Configured(flow.guid)}
      BY <1>3, CreationMoves
    <2>2. SUFFICES ASSUME NEW x \in Entries, NEW n \in Entries \cup {None},
                          refused'[x] # None, Sets(x, n)'
                   PROVE  n \in lost' \/ \E d \in Staying' : Sets(d, n)'
      BY DEF OptionsKept
    <2>3. x # e /\ refused[x] # None /\ Sets(x, n)
      BY <2>1, <2>2 DEF Sets
    <2>4. CASE n \in lost
      BY <2>1, <2>4
    <2>5. CASE \E d \in Staying : Sets(d, n)
      <3>1. PICK d \in Staying : Sets(d, n)
        BY <2>5
      <3>2. d \in Entries /\ d \in stored /\ d # e /\ refused[d] = None
        BY <1>0, <2>1 DEF Staying
      <3>3. CASE d \in Identity!Configured(flow.guid)
        BY <2>1, <3>1, <3>3 DEF Sets
      <3>4. CASE d \notin Identity!Configured(flow.guid)
        <4>1. d \in Staying' /\ Sets(d, n)'
          BY <2>1, <3>1, <3>2, <3>4 DEF Staying, Sets
        <4>2. QED
          BY <4>1
      <3>5. QED
        BY <3>3, <3>4
    <2>6. QED
      BY <1>0, <2>3, <2>4, <2>5 DEF OptionsKept
  <1>4. ASSUME stored' = stored, refused' = refused, options' = options, lost' = lost
        PROVE  OptionsKept'
    BY <1>0, <1>4 DEF OptionsKept, Staying, Sets
  <1>5. QED
    BY <1>1, <1>2, <1>3, <1>4
    DEF Identity!Next, Identity!SetUp, Identity!StartSetup, Identity!Unverified,
        Identity!Migrates, Identity!Verified, Identity!Ask, Identity!Answer, Identity!Keep,
        Identity!Unload, Identity!Disable, Identity!Find, Identity!FlowMoves,
        Identity!FlowTries, Identity!FlowAdopts, Identity!GatewayMoves, Identity!config

\* EntryInv is inductive.
LEMMA EntryInvHolds == Identity!Spec => []EntryInv
  <1>1. EntryInv /\ Identity!Next => EntryInv'
    <2> SUFFICES ASSUME EntryInv, Identity!Next PROVE EntryInv'
      OBVIOUS
    <2>1. IdentityTypes' /\ SetUpsOfTheirOwn'
      BY SetUpTypes, FlowTypes, SetUpStaysOwn, OthersStayOwn DEF Identity!Next
    <2>2. QED
      BY <2>1, KeepsOptions DEF EntryInv
  <1>2. EntryInv /\ UNCHANGED Identity!vars => EntryInv'
    BY DEF EntryInv, IdentityTypes, SetUpsOfTheirOwn, OptionsKept, Staying, Searches,
           Sets, Identity!vars, Identity!config
  <1>3. QED
    BY <1>1, <1>2, InitIdentity, PTL DEF Identity!Spec

\* What the set-ups and the flow do to the options that stored entries hold:
\* a duplicate's go when it is removed, and then an entry that stays has
\* them, or they went where the model's history says that they may go.
LEMMA OptionsStep ==
    ASSUME EntryInv, Identity!Next
    PROVE  /\ Identity!Names(Identity!Held) \ Identity!Names(Identity!Held') \subseteq lost'
           /\ \A e \in stored \cap stored' : options[e] \subseteq options'[e]
  <1>0. /\ OptionsKept /\ refused \in [Entries -> Guids \cup {None}]
        /\ stored \subseteq Entries /\ options \in [Entries -> SUBSET OptionPairs]
    BY DEF EntryInv, IdentityTypes
  <1> DEFINE Keeps == \A e \in stored \cap stored' : options[e] \subseteq options'[e]
             Survive == \A e \in stored, n \in Entries \cup {None} :
                            Sets(e, n) => n \in lost' \/ \E d \in stored' : Sets(d, n)'
  <1>s. SUFFICES Survive /\ Keeps
    <2>1. \A o \in Identity!Held : \E e \in stored :
              o[1] \in Entries \cup {None} /\ Sets(e, o[1])
      BY <1>0 DEF Identity!Held, Identity!Names, Sets, OptionPairs
    <2>2. \A d \in stored', n \in Entries \cup {None} : Sets(d, n)' => n \in Identity!Names(Identity!Held')
      BY DEF Identity!Held, Identity!Names, Sets
    <2>3. ASSUME NEW n \in Identity!Names(Identity!Held) \ Identity!Names(Identity!Held'), Survive
          PROVE  n \in lost'
      <3>1. PICK e \in stored : n \in Entries \cup {None} /\ Sets(e, n)
        BY <2>1, <2>3 DEF Identity!Names
      <3>2. QED
        BY <2>2, <2>3, <3>1
    <2>4. QED
      BY <2>3
  <1>m. ASSUME stored' = stored, Keeps
        PROVE  Survive
    BY <1>0, <1>m DEF Sets, Identity!Names
  <1>1. ASSUME NEW d \in Entries, Identity!Refuse(d)
        PROVE  Survive /\ Keeps
    <2>1. stored' = stored /\ (options' = options \/ Merges(setup[d].best, d))
      BY <1>1, RefusalMoves
    <2>2. Keeps
      BY <1>0, <2>1 DEF Merges
    <2>3. QED
      BY <1>m, <2>1, <2>2
  <1>2. ASSUME NEW d \in Entries, Identity!Remove(d)
        PROVE  Survive /\ Keeps
    <2>1. refused[d] # None /\ stored' = stored \ {d} /\ lost' = lost /\ options' = options
      BY <1>2 DEF Identity!Remove, Identity!Removing, Identity!config
    <2>2. \A x \in Staying : x \in stored'
      BY <2>1 DEF Staying
    <2>3. \A n \in Entries \cup {None} :
              Sets(d, n) => n \in lost' \/ \E x \in stored' : Sets(x, n)'
      BY <1>0, <2>1, <2>2 DEF OptionsKept, Sets
    <2>4. \A e \in stored \ {d}, n \in Entries \cup {None} : Sets(e, n) => e \in stored' /\ Sets(e, n)'
      BY <2>1 DEF Sets
    <2>5. QED
      BY <2>1, <2>3, <2>4
  <1>3. CASE Identity!FlowCreates
    <2>1. PICK n \in Entries :
              /\ n \notin stored
              /\ stored' = (stored \ Identity!Configured(flow.guid)) \cup {n}
              /\ \A d \in Entries \ {n} : options'[d] = options[d]
              /\ lost' = lost \cup UNION {Identity!Names(options[d]) :
                                             d \in Identity!Configured(flow.guid)}
      BY <1>3, CreationMoves
    <2>2. Keeps
      BY <1>0, <2>1
    <2>3. \A e \in stored, k \in Entries \cup {None} :
              Sets(e, k) => k \in lost' \/ (e \in stored' /\ Sets(e, k)')
      BY <1>0, <2>1 DEF Sets
    <2>4. QED
      BY <2>2, <2>3
  <1>4. ASSUME stored' = stored, options' = options
        PROVE  Survive /\ Keeps
    BY <1>4, <1>m
  <1>5. QED
    BY <1>1, <1>2, <1>3, <1>4
    DEF Identity!Next, Identity!SetUp, Identity!StartSetup, Identity!Unverified,
        Identity!Migrates, Identity!Verified, Identity!Ask, Identity!Answer, Identity!Keep,
        Identity!Unload, Identity!Disable, Identity!Find, Identity!FlowMoves,
        Identity!FlowTries, Identity!FlowAdopts, Identity!GatewayMoves, Identity!config

\* For any entries, gateways and endpoints: an option that a stored entry has
\* set stays set, unless it was handed to an entry that was itself refused or
\* belonged to one that a flow replaced; and no entry's own value is
\* overwritten (__init__.py:653-685, entry_setup.py:279-305).
THEOREM RefusedOptionsSurvive == Identity!Spec => OptionsSurvive
  <1>1. EntryInv /\ [Identity!Next]_(Identity!vars)
            => [/\ Identity!Names(Identity!Held) \ Identity!Names(Identity!Held') \subseteq lost'
                /\ \A e \in stored \cap stored' :
                       options[e] \subseteq options'[e]]_(Identity!vars)
    BY OptionsStep
  <1>2. QED
    BY <1>1, EntryInvHolds, PTL DEF Identity!Spec, OptionsSurvive, Identity!OptionsSurvive

-----------------------------------------------------------------------------
(* The owners of the refused, while nothing changes and no entry strays *)

Settled ==
    BoundAsBegun /\ FoundThere /\ AskedMayOwn /\ BestOwns /\ EarlierStays /\ RefusedFound

LEMMA SearchFacts ==
    ASSUME EntryInv, NEW e \in Entries, Searches(e)
    PROVE  /\ setup[e] \in [at : {"searching"}, own : Guids, guid : Guids, host : Hosts,
                            rest : SUBSET Entries, asked : Entries \cup {None}, via : Hosts \cup {None},
                            best : Entries \cup {None}]
           /\ e \in Staying /\ e \notin {setup[e].asked, setup[e].best}
  BY SetupFacts DEF EntryInv, IdentityTypes, SetUpsOfTheirOwn, Searches, Staying, Identity!Off

\* A set-up rebinds its own entry only, to a gateway that is where it is bound
\* to; an entry that was an owner stays the owner of the same gateway.
LEMMA Rebinds ==
    ASSUME EntryInv, Settled, NEW e \in Entries, Identity!SetUp(e)
    PROVE  /\ \A d \in Entries \ {e} : guid'[d] = guid[d] /\ host'[d] = host[d]
           /\ \/ guid' = guid /\ host' = host
              \/ /\ e \in Staying /\ guid'[e] \in Guids /\ live[host'[e]] = guid'[e]
                 /\ \A g \in Guids : Owns(e, g) => guid'[e] = g
  <1>0. /\ guid \in [Entries -> Guids \cup {None}] /\ host \in [Entries -> Hosts]
        /\ setup[e] \in SetupStates /\ stored \subseteq Entries /\ None \notin Guids
        /\ setup[e] # Identity!Off => e \in Staying
        /\ Runs(e) => guid[e] = setup[e].own
    BY IdentityFacts
    DEF EntryInv, IdentityTypes, SetUpsOfTheirOwn, Settled, BoundAsBegun, Staying
  <1>1. CASE Identity!Unverified(e)
    <2>1. guid[e] = setup[e].own
      BY <1>0, <1>1 DEF Identity!Unverified, Runs
    <2>2. guid' = guid /\ host' = host
      BY <1>0, <1>1, <2>1 DEF Identity!Unverified
    <2>3. QED
      BY <2>2
  <1>2. CASE Identity!Migrates(e)
    <2>1. PICK h \in Identity!Reached(e) : Identity!Bind(e, live[h], h)
      BY <1>2 DEF Identity!Migrates
    <2>2. h \in Hosts /\ live[h] \in Guids
      BY <1>2, ReachedFacts DEF EntryInv, Identity!Migrates
    <2>3. guid[e] = None /\ e \in Staying
      BY <1>0, <1>2 DEF Identity!Migrates, Runs, Identity!Off
    <2>4. guid' = [guid EXCEPT ![e] = live[h]] /\ host' = [host EXCEPT ![e] = h]
      BY <2>1 DEF Identity!Bind
    <2>5. QED
      BY <1>0, <2>2, <2>3, <2>4 DEF Owns
  <1>3. CASE Identity!Keep(e)
    <2>1. Searches(e) /\ Runs(e)
      BY <1>3 DEF Identity!Keep, Identity!Searched, Searches, Runs
    <2>2. /\ setup[e].guid \in Guids /\ setup[e].host \in Hosts /\ e \in Staying
          /\ live[setup[e].host] = setup[e].guid
          /\ setup[e].host # host[e] => setup[e].guid = guid[e]
      BY <1>0, <2>1, SearchFacts DEF Settled, FoundThere
    <2>3. guid' = [guid EXCEPT ![e] = setup[e].guid] /\ host' = [host EXCEPT ![e] = setup[e].host]
      BY <1>3 DEF Identity!Keep, Identity!Bind
    <2>4. QED
      BY <1>0, <2>2, <2>3 DEF Owns
  <1>4. CASE guid' = guid /\ host' = host
    BY <1>4
  <1>5. QED
    BY <1>1, <1>2, <1>3, <1>4
    DEF Identity!SetUp, Identity!StartSetup, Identity!Verified, Identity!Ask, Identity!Answer,
        Identity!Refuse, Identity!Unload, Identity!Remove, Identity!config

LEMMA OwnersStay ==
    ASSUME EntryInv, Settled, NEW e \in Entries, Identity!SetUp(e)
    PROVE  \A d \in Entries, g \in Guids : Owns(d, g) => Owns(d, g)'
  <1>1. /\ live' = live /\ guid \in [Entries -> Guids \cup {None}]
    BY SetUpIsLocal DEF EntryInv, IdentityTypes
  <1>2. ASSUME NEW d \in Entries, NEW g \in Guids, Owns(d, g)
        PROVE  guid'[d] = g /\ live[host'[d]] = g
    BY <1>2, Rebinds DEF Owns
  <1>3. QED
    BY <1>1, <1>2 DEF Owns

\* The gateway of a refused entry has an owner that stays, and so has the one
\* that the entry owned: then it gave way to an earlier entry.
LEMMA RefusalLeavesOwner ==
    ASSUME EntryInv, Settled, NEW e \in Entries, Identity!Refuse(e)
    PROVE  /\ \A g \in Guids : Owns(e, g) => \E d \in Staying : d < e /\ Owns(d, g)
           /\ \E d \in Staying \ {e} : Owns(d, setup[e].guid)
  <1> DEFINE best == setup[e].best
             found == setup[e].guid
  <1>0. /\ Searches(e) /\ Runs(e) /\ e \in Staying /\ best \in Entries \ {e} /\ found \in Guids
        /\ setup[e].own # found \/ best < e
        /\ Entries \subseteq Nat /\ Staying \subseteq Entries
    BY RefusalMoves, IdentityFacts DEF Searches, Runs, EntryInv, IdentityTypes, Staying
  <1>1. /\ guid[e] = setup[e].own /\ live[setup[e].host] = found
        /\ setup[e].host # host[e] => found = setup[e].own
        /\ Owns(best, found)
    BY <1>0 DEF Settled, BoundAsBegun, FoundThere, BestOwns
  <1>2. PICK d \in Staying : Owns(d, found) /\ (d = best \/ d < best)
    <2>1. CASE best \in Staying
      BY <1>1, <2>1
    <2>2. CASE best \notin Staying
      BY <1>0, <1>1, <2>2 DEF Settled, EarlierStays
    <2>3. QED
      BY <2>1, <2>2
  <1>3. ASSUME NEW g \in Guids, Owns(e, g)
        PROVE  g = found /\ d < e
    <2>1. g = found /\ setup[e].own = found
      BY <1>1, <1>3 DEF Owns
    <2>2. best < e /\ best \in Nat /\ d \in Nat /\ e \in Nat
      BY <1>0, <2>1
    <2>3. QED
      BY <1>2, <2>1, <2>2
  <1>4. d # e
    <2>1. d = e => d < e
      BY <1>0, <1>2, <1>3
    <2>2. d \in Nat
      BY <1>0
    <2>3. QED
      BY <2>1, <2>2
  <1>5. QED
    BY <1>2, <1>3, <1>4

LEMMA StayingKept ==
    ASSUME EntryInv, Settled, NEW e \in Entries, Identity!SetUp(e)
    PROVE  /\ EarlierStays'
           /\ RefusedFound'
  <1>0. /\ refused \in [Entries -> Guids \cup {None}] /\ stored \subseteq Entries
        /\ guid \in [Entries -> Guids \cup {None}]
        /\ EarlierStays /\ RefusedFound /\ None \notin Guids /\ Staying \subseteq Entries
        /\ refused[e] # None => e \in stored
        /\ Entries \subseteq Nat
    BY IdentityFacts
    DEF EntryInv, IdentityTypes, Settled, Staying, SetUpsOfTheirOwn
  <1>1. /\ \A d \in Entries, g \in Guids : Owns(d, g) => Owns(d, g)'
        /\ live' = live
        /\ \A d \in Entries \ {e} :
              /\ setup'[d] = setup[d] /\ refused'[d] = refused[d]
              /\ d \in stored' <=> d \in stored
              /\ guid'[d] = guid[d] /\ host'[d] = host[d]
    BY OwnersStay, SetUpIsLocal, Rebinds
  <1>2. CASE Identity!Refuse(e) /\ \A d \in Entries :
                refused'[d] = IF d = e THEN setup[e].guid ELSE refused[d]
    <2>1. /\ e \in Staying /\ stored' = stored /\ guid' = guid /\ host' = host
          /\ setup[e].guid \in Guids
      BY <1>2, RefusalMoves
    <2>2. Staying' = Staying \ {e}
      BY <1>0, <1>2, <2>1 DEF Staying
    <2>3. \A d \in Entries, g \in Guids : Owns(d, g)' <=> Owns(d, g)
      BY <1>1, <2>1 DEF Owns
    <2>4. /\ \A g \in Guids : Owns(e, g) => \E d \in Staying : d < e /\ Owns(d, g)
          /\ \E d \in Staying \ {e} : Owns(d, setup[e].guid)
      BY <1>2, RefusalLeavesOwner
    <2>5. ASSUME NEW x \in Entries \ Staying', NEW g \in Guids, Owns(x, g)
          PROVE  \E d \in Staying' : d < x /\ Owns(d, g)
      <3>1. PICK d \in Staying : d < x /\ Owns(d, g)
        BY <1>0, <2>2, <2>4, <2>5 DEF EarlierStays
      <3>2. CASE d = e
        <4>1. PICK b \in Staying : b < e /\ Owns(b, g)
          BY <2>4, <3>1, <3>2
        <4>2. b \in Nat /\ e \in Nat /\ x \in Nat
          BY <1>0
        <4>3. b < x /\ b # e
          BY <3>1, <3>2, <4>1, <4>2
        <4>4. QED
          BY <2>2, <4>1, <4>3
      <3>3. CASE d # e
        BY <2>2, <3>1, <3>3
      <3>4. QED
        BY <3>2, <3>3
    <2>6. EarlierStays'
      BY <1>0, <2>2, <2>3, <2>5 DEF EarlierStays
    <2>7. ASSUME NEW x \in Entries, refused'[x] # None
          PROVE  refused'[x] \in Guids /\ \E d \in Staying' : Owns(d, refused'[x])
      <3>1. CASE x = e
        BY <1>2, <2>1, <2>2, <2>4, <3>1
      <3>2. CASE x # e
        <4>1. refused'[x] = refused[x] /\ refused[x] \in Guids
          BY <1>0, <1>2, <2>7, <3>2
        <4>2. PICK d \in Staying : Owns(d, refused[x])
          BY <1>0, <4>1, <2>7 DEF RefusedFound
        <4>3. CASE d = e
          <5>1. PICK b \in Staying : b < e /\ Owns(b, refused[x])
            BY <2>4, <4>1, <4>2, <4>3
          <5>2. b # e
            BY <1>0, <5>1
          <5>3. QED
            BY <2>2, <4>1, <5>1, <5>2
        <4>4. CASE d # e
          BY <2>2, <4>1, <4>2, <4>4
        <4>5. QED
          BY <4>3, <4>4
      <3>3. QED
        BY <3>1, <3>2
    <2>8. RefusedFound'
      BY <1>0, <2>2, <2>3, <2>7 DEF RefusedFound
    <2>9. QED
      BY <2>6, <2>8
  <1>3. CASE stored' = stored /\ refused' = refused
    <2>1. Staying' = Staying
      BY <1>3 DEF Staying
    <2>2. \A x \in Entries \ Staying, g \in Guids : Owns(x, g)' => Owns(x, g)
      <3>1. (guid' = guid /\ host' = host) \/ e \in Staying
        BY Rebinds
      <3>2. \A x \in Entries \ Staying : guid'[x] = guid[x] /\ host'[x] = host[x]
        BY <1>1, <3>1
      <3>3. QED
        BY <1>1, <3>2 DEF Owns
    <2>3. EarlierStays'
      BY <1>0, <1>1, <2>1, <2>2 DEF EarlierStays
    <2>4. RefusedFound'
      BY <1>0, <1>1, <1>3, <2>1 DEF RefusedFound
    <2>5. QED
      BY <2>3, <2>4
  <1>4. CASE Identity!Remove(e)
    <2>1. /\ refused[e] # None /\ stored' = stored \ {e} /\ guid' = guid /\ host' = host
          /\ refused'[e] = None
      BY <1>0, <1>4 DEF Identity!Remove, Identity!Removing
    <2>2. Staying' = Staying
      BY <1>0, <1>1, <2>1 DEF Staying
    <2>3. \A x \in Entries, g \in Guids : Owns(x, g)' => Owns(x, g)
      BY <1>1, <2>1 DEF Owns
    <2>4. EarlierStays'
      BY <1>0, <1>1, <2>2, <2>3 DEF EarlierStays
    <2>5. RefusedFound'
      <3>1. \A x \in Entries : refused'[x] # None =>
                refused'[x] = refused[x] /\ refused[x] \in Guids /\ refused[x] # None
        BY <1>0, <1>1, <2>1
      <3>2. \A x \in Entries : refused'[x] # None =>
                \E d \in Staying' : guid'[d] = refused'[x] /\ live'[host'[d]] = refused'[x]
        BY <1>0, <1>1, <2>2, <3>1 DEF RefusedFound, Owns
      <3>3. QED
        BY <3>2 DEF RefusedFound, Owns
    <2>6. QED
      BY <2>4, <2>5
  <1>5. QED
    BY <1>2, <1>3, <1>4, RefusalMoves
    DEF Identity!SetUp, Identity!StartSetup, Identity!Unverified, Identity!Migrates,
        Identity!Verified, Identity!Ask, Identity!Answer, Identity!Keep, Identity!Unload,
        Identity!config

\* What a set-up believes after a step of its own.
LEMMA OwnSearchKept ==
    ASSUME EntryInv, Settled, NEW e \in Entries, Identity!SetUp(e), strayed' = {}
    PROVE  /\ Runs(e)' => guid'[e] = setup'[e].own
           /\ setup'[e].at = "verifying" => host'[e] = setup'[e].host
           /\ Searches(e)' =>
                 /\ live'[setup'[e].host] = setup'[e].guid
                 /\ setup'[e].host # host'[e] => setup'[e].guid = setup'[e].own
                 /\ \A d \in Entries :
                       setup'[e].asked = d /\ live'[setup'[e].via] = setup'[e].guid =>
                          guid'[d] = setup'[e].guid /\ live'[host'[d]] = setup'[e].guid
                 /\ \A d \in Entries : setup'[e].best = d =>
                       guid'[d] = setup'[e].guid /\ live'[host'[d]] = setup'[e].guid
  <1>0. /\ setup \in [Entries -> SetupStates] /\ setup[e] \in SetupStates
        /\ None \notin Entries
        /\ Runs(e) => guid[e] = setup[e].own
        /\ setup[e].at = "verifying" => host[e] = setup[e].host
    BY IdentityFacts DEF EntryInv, IdentityTypes, Settled, BoundAsBegun
  <1>1. Searches(e) =>
           /\ setup[e] \in [at : {"searching"}, own : Guids, guid : Guids, host : Hosts,
                            rest : SUBSET Entries, asked : Entries \cup {None}, via : Hosts \cup {None},
                            best : Entries \cup {None}]
           /\ live[setup[e].host] = setup[e].guid
           /\ setup[e].host # host[e] => setup[e].guid = setup[e].own
           /\ \A d \in Entries : setup[e].asked = d /\ live[setup[e].via] = setup[e].guid =>
                 guid[d] = setup[e].guid /\ live[host[d]] = setup[e].guid
           /\ \A d \in Entries : setup[e].best = d =>
                 guid[d] = setup[e].guid /\ live[host[d]] = setup[e].guid
    BY SearchFacts DEF Settled, FoundThere, AskedMayOwn, BestOwns, Owns
  <1>2. CASE setup'[e] \in {Identity!Off, Identity!Loaded}
    BY <1>2 DEF Runs, Searches, Identity!Off, Identity!Loaded
  <1>3. CASE Identity!StartSetup(e)
    <2>1. /\ setup'[e] = [at |-> "verifying", own |-> guid[e], host |-> host[e]]
          /\ guid' = guid /\ host' = host
      BY <1>0, <1>3 DEF Identity!StartSetup, Identity!Ends, Identity!config
    <2>2. QED
      BY <2>1 DEF Runs, Searches
  <1>4. CASE Identity!Verified(e)
    <2>1. PICK h \in Identity!Reached(e) :
              /\ setup' = [setup EXCEPT ![e] =
                    [at |-> "searching", own |-> setup[e].own, guid |-> live[h], host |-> h,
                     rest |-> stored \ {e}, asked |-> None, via |-> None, best |-> None]]
              /\ strayed' = strayed \cup {d \in {e} : h # setup[e].host /\ live[h] # setup[e].own}
      BY <1>4 DEF Identity!Verified, Identity!Ends
    <2>2. /\ guid' = guid /\ host' = host /\ live' = live /\ Runs(e)
      BY <1>4 DEF Identity!Verified, Identity!config, Runs
    <2>3. h # host[e] => live[h] = setup[e].own
      BY <1>0, <1>4, <2>1 DEF Identity!Verified
    <2>4. /\ setup'[e].own = setup[e].own /\ setup'[e].guid = live[h] /\ setup'[e].host = h
          /\ setup'[e].asked = None /\ setup'[e].best = None /\ setup'[e].at = "searching"
      BY <1>0, <2>1
    <2>5. QED
      BY <1>0, <2>2, <2>3, <2>4 DEF Runs, Searches
  <1>5. CASE Identity!Ask(e)
    <2>1. Searches(e) /\ Runs(e) /\ guid' = guid /\ host' = host /\ live' = live
      BY <1>5 DEF Identity!Ask, Identity!config, Searches, Runs
    <2>2. Identity!Min(Identity!Pending(e)) \in Identity!Pending(e)
      BY <1>1, <1>5, <2>1, SmallestEntry DEF Identity!Ask, Identity!Pending, Identity!Asked
    <2>3. guid[Identity!Min(Identity!Pending(e))] = setup[e].guid
      BY <2>2 DEF Identity!Pending, Identity!Asked
    <2>4. /\ setup'[e].at = "searching"
          /\ setup'[e].own = setup[e].own /\ setup'[e].guid = setup[e].guid
          /\ setup'[e].host = setup[e].host /\ setup'[e].best = setup[e].best
          /\ setup'[e].asked = Identity!Min(Identity!Pending(e))
          /\ setup'[e].via = host[Identity!Min(Identity!Pending(e))]
      BY <1>0, <1>1, <1>5, <2>1 DEF Identity!Ask, Identity!Ends
    <2>5. QED
      BY <1>0, <1>1, <2>1, <2>3, <2>4 DEF Runs, Searches
  <1>6. CASE Identity!Answer(e)
    <2>1. Searches(e) /\ Runs(e) /\ guid' = guid /\ host' = host /\ live' = live
      BY <1>6 DEF Identity!Answer, Identity!config, Searches, Runs
    <2>2. PICK proves \in {FALSE} \cup {live[setup[e].via] = setup[e].guid} :
              setup' = [setup EXCEPT ![e] = [setup[e] EXCEPT !.asked = None, !.via = None,
                    !.best = IF proves THEN Identity!Better(@, setup[e].asked) ELSE @]]
      BY <1>6 DEF Identity!Answer, Identity!Ends
    <2>3. /\ setup'[e].at = "searching"
          /\ setup'[e].own = setup[e].own /\ setup'[e].guid = setup[e].guid
          /\ setup'[e].host = setup[e].host /\ setup'[e].asked = None
          /\ \/ setup'[e].best = setup[e].best
             \/ setup'[e].best = setup[e].asked /\ live[setup[e].via] = setup[e].guid
      BY <1>0, <1>1, <2>1, <2>2 DEF Identity!Better
    <2>4. QED
      BY <1>0, <1>1, <2>1, <2>3 DEF Runs, Searches
  <1>7. QED
    BY <1>0, <1>2, <1>3, <1>4, <1>5, <1>6
    DEF Identity!SetUp, Identity!Unverified, Identity!Migrates, Identity!Refuse, Identity!Keep,
        Identity!Unload, Identity!Remove, Identity!Ends

LEMMA SearchesKept ==
    ASSUME EntryInv, Settled, NEW e \in Entries, Identity!SetUp(e), strayed' = {}
    PROVE  (BoundAsBegun /\ FoundThere /\ AskedMayOwn /\ BestOwns)'
  <1>0. /\ live' = live
        /\ \A d \in Entries \ {e} :
              /\ setup'[d] = setup[d] /\ guid'[d] = guid[d] /\ host'[d] = host[d]
    BY SetUpIsLocal, Rebinds
  <1>1. \A d \in Entries \ {e} : Searches(d) =>
           /\ setup[d].guid \in Guids
           /\ live[setup[d].host] = setup[d].guid
           /\ setup[d].host # host[d] => setup[d].guid = setup[d].own
           /\ \A a \in Entries : setup[d].asked = a /\ live[setup[d].via] = setup[d].guid =>
                 Owns(a, setup[d].guid)
           /\ \A a \in Entries : setup[d].best = a => Owns(a, setup[d].guid)
    BY SearchFacts DEF Settled, FoundThere, AskedMayOwn, BestOwns, Owns
  <1>2. BoundAsBegun'
    <2>1. \A d \in Entries \ {e} :
              /\ Runs(d)' => guid'[d] = setup'[d].own
              /\ setup'[d].at = "verifying" => host'[d] = setup'[d].host
      BY <1>0 DEF Settled, BoundAsBegun, Runs
    <2>2. QED
      BY <2>1, OwnSearchKept DEF BoundAsBegun
  <1>3. FoundThere'
    <2>1. \A d \in Entries \ {e} : Searches(d)' =>
              /\ live'[setup'[d].host] = setup'[d].guid
              /\ setup'[d].host # host'[d] => setup'[d].guid = setup'[d].own
      BY <1>0, <1>1 DEF Searches
    <2>2. QED
      BY <2>1, OwnSearchKept DEF FoundThere
  <1>4. AskedMayOwn'
    <2>1. ASSUME NEW d \in Entries \ {e}, NEW a \in Entries, Searches(d), setup[d].asked = a,
                 live[setup[d].via] = setup[d].guid
          PROVE  guid'[a] = setup[d].guid /\ live'[host'[a]] = setup[d].guid
      <3>1. setup[d].guid \in Guids /\ Owns(a, setup[d].guid)
        BY <1>1, <2>1
      <3>2. PICK g \in Guids : g = setup[d].guid
        BY <3>1
      <3>3. Owns(a, g)'
        BY <3>1, <3>2, OwnersStay
      <3>4. QED
        BY <3>2, <3>3 DEF Owns
    <2>2. \A d \in Entries \ {e}, a \in Entries :
              Searches(d)' /\ setup'[d].asked = a /\ live'[setup'[d].via] = setup'[d].guid =>
                 guid'[a] = setup'[d].guid /\ live'[host'[a]] = setup'[d].guid
      BY <1>0, <2>1 DEF Searches
    <2>3. QED
      BY <2>2, OwnSearchKept DEF AskedMayOwn, Owns
  <1>5. BestOwns'
    <2>1. ASSUME NEW d \in Entries \ {e}, NEW a \in Entries, Searches(d), setup[d].best = a
          PROVE  guid'[a] = setup[d].guid /\ live'[host'[a]] = setup[d].guid
      <3>1. setup[d].guid \in Guids /\ Owns(a, setup[d].guid)
        BY <1>1, <2>1
      <3>2. PICK g \in Guids : g = setup[d].guid
        BY <3>1
      <3>3. Owns(a, g)'
        BY <3>1, <3>2, OwnersStay
      <3>4. QED
        BY <3>2, <3>3 DEF Owns
    <2>2. \A d \in Entries \ {e}, a \in Entries : Searches(d)' /\ setup'[d].best = a =>
              guid'[a] = setup'[d].guid /\ live'[host'[a]] = setup'[d].guid
      BY <1>0, <2>1 DEF Searches
    <2>3. QED
      BY <2>2, OwnSearchKept DEF BestOwns, Owns
  <1>6. QED
    BY <1>2, <1>3, <1>4, <1>5

LEMMA SettledKept ==
    ASSUME EntryInv, SettledInv, Identity!Next
    PROVE  SettledInv'
  <1> SUFFICES ASSUME changes' = 0, strayed' = {}
               PROVE  Settled'
    BY DEF SettledInv, Settled
  <1>1. changes = 0 /\ strayed = {}
    <2>1. changes \in Nat /\ (changes' = changes \/ changes' = changes + 1)
      BY DEF EntryInv, IdentityTypes, Identity!Next, Identity!SetUp, Identity!StartSetup,
             Identity!Unverified, Identity!Migrates, Identity!Verified, Identity!Ask,
             Identity!Answer, Identity!Refuse, Identity!Keep, Identity!Unload, Identity!Remove,
             Identity!Disable, Identity!Find, Identity!FlowMoves, Identity!FlowTries, Identity!FlowAdopts,
             Identity!FlowCreates, Identity!GatewayMoves, Identity!Changes
    <2>2. strayed \subseteq strayed'
      BY DEF Identity!Next, Identity!SetUp, Identity!StartSetup,
             Identity!Unverified, Identity!Migrates, Identity!Verified, Identity!Ask,
             Identity!Answer, Identity!Refuse, Identity!Keep, Identity!Unload, Identity!Remove,
             Identity!Disable, Identity!Find, Identity!FlowMoves, Identity!FlowTries, Identity!FlowAdopts,
             Identity!FlowCreates, Identity!GatewayMoves
    <2>3. QED
      BY <2>1, <2>2
  <1>2. Settled
    BY <1>1 DEF SettledInv, Settled
  <1>3. CASE \E e \in Entries : Identity!SetUp(e)
    BY <1>2, <1>3, SearchesKept, StayingKept DEF Settled
  <1>4. ASSUME stored' = stored, guid' = guid, host' = host, live' = live, setup' = setup,
               refused' = refused
        PROVE  Settled'
    BY <1>2, <1>4
    DEF Settled, BoundAsBegun, FoundThere, AskedMayOwn, BestOwns, EarlierStays, RefusedFound,
        Runs, Searches, Owns, Staying
  <1>5. QED
    BY <1>1, <1>3, <1>4
    DEF Identity!Next, Identity!Disable, Identity!Find, Identity!FlowMoves,
        Identity!FlowTries, Identity!FlowAdopts, Identity!FlowCreates, Identity!GatewayMoves, Identity!Changes,
        Identity!config

\* For any entries, gateways and endpoints, whichever requests time out: while
\* gateways stay where they are and no entry strays, an entry is refused only
\* for one that stays and is configured with the gateway's endpoint; set-ups
\* never give way to each other until nobody is left (entry_setup.py:404-450,
\* identity.py:151-190).
THEOREM RefusedEntriesHaveOwner == Identity!Spec => []RefusedHaveOwner
  <1>1. EntryInv /\ SettledInv /\ Identity!Next => SettledInv'
    BY SettledKept
  <1>2. SettledInv /\ UNCHANGED Identity!vars => SettledInv'
    BY DEF SettledInv, BoundAsBegun, FoundThere, AskedMayOwn, BestOwns, EarlierStays,
           RefusedFound, Runs, Searches, Owns, Staying, Identity!vars, Identity!config
  <1>3. EntryInv /\ SettledInv => RefusedHaveOwner
    BY DEF EntryInv, IdentityTypes, SettledInv, RefusedFound, RefusedHaveOwner, Staying, Owns,
           Identity!RefusedHaveOwner, Identity!Removing
  <1>4. QED
    BY <1>1, <1>2, <1>3, EntryInvHolds, InitIdentity, PTL DEF Identity!Spec
=============================================================================
