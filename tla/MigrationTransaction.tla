------------------------ MODULE MigrationTransaction ------------------------
(***************************************************************************)
(* The handover of one entity pair from its legacy writer to the shared    *)
(* one: semantic_migration_transaction.py.                                 *)
(*                                                                         *)
(* migrate() and recover() hold one lock from start to end, so at most one *)
(* operation is under way; a caller queued on the lock has done nothing.   *)
(* Each await of the operation is a point pc where it may succeed, fail or *)
(* be cancelled, and where the writers' own callbacks run.  The journal    *)
(* and the six attachment callbacks are injected: they are modelled from   *)
(* the contracts stated in Journal and Callbacks, an interrupted call      *)
(* having taken effect or not.                                             *)
(*                                                                         *)
(* A callback token matters only by identity, so a side's token is        *)
(* "current" when it is the transaction's own, "offered" while attachment  *)
(* is under way, and "stale" once fenced.                                  *)
(***************************************************************************)
CONSTANTS LEGACY, SHARED, UNRESOLVED

ASSUME OwnersDistinct ==
    LEGACY # SHARED /\ LEGACY # UNRESOLVED /\ SHARED # UNRESOLVED

VARIABLES
    owner,      \* _owner
    token,      \* token held by each side's writer, relative to _token
    pc,         \* the await the lock's holder is at
    purpose,    \* which of the three drains, and what follows it
    step,       \* the call of _drain that is awaited
    target,     \* the owner being attached
    journal,    \* external: the durable record
    listeners,  \* external: each side's installed callbacks
    busy        \* external: the sides with work queued or in flight

txn == <<owner, pc, purpose, step, target>>
vars == <<txn, token, journal, listeners, busy>>

Sides == {LEGACY, SHARED}
DrainSteps == {"fence_legacy", "join_legacy", "fence_shared", "join_shared"}
Purposes == {"migrate", "cleanup", "recover"}
Points == {"idle", "intent", "drain", "commit", "abort", "read", "attach"}

\* What each journal write leaves when it succeeds.
Written == [intent |-> "intent", commit |-> "shared", abort |-> "aborted"]

\* What an awaited journal write may leave when it is cut short.
Interrupted ==
    {journal} \cup (IF pc \in {"intent", "commit", "abort"}
                    THEN {Written[pc]} ELSE {})

\* The owners read_recovery may name, recovery_owner having turned a missing
\* or incomplete record into UNRESOLVED.
RecoveryOwners ==
    CASE journal = "shared"  -> {SHARED}
      [] journal = "aborted" -> {LEGACY}
      [] journal = "clean"   -> {LEGACY, UNRESOLVED}
      [] journal = "intent"  -> {UNRESOLVED}

-----------------------------------------------------------------------------
\* The first transaction over a pair: legacy ownership is established by the
\* caller, or left to recovery.
Init ==
    /\ owner \in {LEGACY, UNRESOLVED}
    /\ token = [s \in Sides |-> IF s = owner THEN "current" ELSE "none"]
    /\ listeners = [s \in Sides |-> IF s = owner THEN "on" ELSE "off"]
    /\ busy = {}
    /\ journal = "clean"
    /\ pc = "idle"
    /\ purpose = "recover"
    /\ step = "fence_legacy"
    /\ target = UNRESOLVED

\* _fence: the owner is withdrawn and every token handed out turns stale.
Fence ==
    /\ owner' = UNRESOLVED
    /\ token' = [s \in Sides |-> IF token[s] = "none" THEN "none" ELSE "stale"]

\* admit, for a callback of side s presenting the token it was given.
Admits(s) == token[s] = "current" /\ owner = s

StartDrain(why) ==
    /\ pc' = "drain"
    /\ purpose' = why
    /\ step' = "fence_legacy"

External == <<listeners, busy>>

-----------------------------------------------------------------------------
(***************************************************************************)
(* migrate                                                                 *)
(***************************************************************************)

\* Mutant: the legacy owner is withdrawn after the commit only.
MigrateUnfenced ==
    /\ pc = "idle"
    /\ owner = LEGACY
    /\ pc' = "intent"
    /\ UNCHANGED <<owner, token, purpose, step, target, journal, External>>

\* A migration that shared admission refuses, or that finds SHARED
\* established, changes nothing and is left out.
Migrate ==
    /\ pc = "idle"
    /\ owner = LEGACY
    /\ Fence
    /\ pc' = "intent"
    /\ UNCHANGED <<purpose, step, target, journal, External>>

IntentWritten ==
    /\ pc = "intent"
    /\ journal' = Written["intent"]
    /\ StartDrain("migrate")
    /\ UNCHANGED <<owner, target, token, External>>

CommitWritten ==
    /\ pc = "commit"
    /\ journal' = Written["commit"]
    /\ pc' = "attach"
    /\ target' = SHARED
    /\ token' = [token EXCEPT ![SHARED] = "offered"]
    /\ UNCHANGED <<owner, purpose, step, External>>

\* Mutant: a failed commit is taken for one that did not happen.
MigrationFailsGuessing ==
    /\ \/ pc \in {"intent", "commit"}
       \/ pc = "drain" /\ purpose = "migrate"
    /\ Fence
    /\ journal' \in Interrupted
    /\ StartDrain("cleanup")
    /\ UNCHANGED <<target, External>>

\* Before the commit is attempted a failure drains again, aborts the intent
\* and restores legacy; from the commit on it leaves the pair fenced.
MigrationFails ==
    /\ \/ pc \in {"intent", "commit"}
       \/ pc = "drain" /\ purpose = "migrate"
    /\ Fence
    /\ journal' \in Interrupted
    /\ IF pc = "commit"
       THEN pc' = "idle" /\ UNCHANGED <<purpose, step>>
       ELSE StartDrain("cleanup")
    /\ UNCHANGED <<target, External>>

AbortWritten ==
    /\ pc = "abort"
    /\ journal' = Written["abort"]
    /\ pc' = "attach"
    /\ target' = LEGACY
    /\ token' = [token EXCEPT ![LEGACY] = "offered"]
    /\ UNCHANGED <<owner, purpose, step, External>>

-----------------------------------------------------------------------------
(***************************************************************************)
(* recover: an explicit call on an unresolved pair.                        *)
(***************************************************************************)
Recover ==
    /\ pc = "idle"
    /\ owner = UNRESOLVED
    /\ Fence
    /\ StartDrain("recover")
    /\ UNCHANGED <<target, journal, External>>

RecoveryRead ==
    /\ pc = "read"
    /\ \E o \in RecoveryOwners :
        IF o = UNRESOLVED
        THEN /\ pc' = "idle"
             /\ UNCHANGED <<target, token>>
        ELSE /\ pc' = "attach"
             /\ target' = o
             /\ token' = [token EXCEPT ![o] = "offered"]
    /\ UNCHANGED <<owner, purpose, step, journal, External>>

\* A failure of the clean-up, of a recovery, or of an attachment leaves the
\* pair fenced until the next explicit recovery.
LeftFenced ==
    /\ \/ pc \in {"abort", "read", "attach"}
       \/ pc = "drain" /\ purpose # "migrate"
    /\ Fence
    /\ journal' \in Interrupted
    /\ pc' = "idle"
    /\ UNCHANGED <<purpose, step, target, External>>

-----------------------------------------------------------------------------
(***************************************************************************)
(* _drain: each side is fenced, which stops new work, and then joined,     *)
(* which returns once its work and partial attachments are gone.  A fence  *)
(* cut short after taking effect is one that returned before the failure.  *)
(***************************************************************************)
\* Mutant: a side is joined without having been fenced.
FenceCallSkipped(s) == s \in Sides /\ UNCHANGED listeners

FenceCall(s) ==
    listeners' = [listeners EXCEPT ![s] = IF @ = "on" THEN "fenced" ELSE @]

\* Mutant: the join returns without waiting for the side's work.
JoinCallHasty(s) == listeners' = [listeners EXCEPT ![s] = "off"]

JoinCall(s) ==
    /\ s \notin busy
    /\ listeners' = [listeners EXCEPT ![s] = "off"]

DrainEnd ==
    pc' = CASE purpose = "migrate" -> "commit"
            [] purpose = "cleanup" -> "abort"
            [] purpose = "recover" -> "read"

Drain ==
    /\ pc = "drain"
    /\ \/ step = "fence_legacy" /\ FenceCall(LEGACY)
          /\ step' = "join_legacy" /\ UNCHANGED pc
       \/ step = "join_legacy" /\ JoinCall(LEGACY)
          /\ step' = "fence_shared" /\ UNCHANGED pc
       \/ step = "fence_shared" /\ FenceCall(SHARED)
          /\ step' = "join_shared" /\ UNCHANGED pc
       \/ step = "join_shared" /\ JoinCall(SHARED)
          /\ DrainEnd /\ UNCHANGED step
    /\ UNCHANGED <<owner, purpose, target, token, journal, busy>>

-----------------------------------------------------------------------------
(***************************************************************************)
(* _attach: the callback installs listeners holding the offered token,     *)
(* which becomes the transaction's own only when the callback returns.     *)
(***************************************************************************)
ListenersInstalled ==
    /\ pc = "attach"
    /\ listeners[target] = "off"
    /\ listeners' = [listeners EXCEPT ![target] = "on"]
    /\ UNCHANGED <<txn, token, journal, busy>>

Attached ==
    /\ pc = "attach"
    /\ listeners[target] = "on"
    /\ owner' = target
    /\ token' = [token EXCEPT ![target] = "current"]
    /\ pc' = "idle"
    /\ UNCHANGED <<purpose, step, target, journal, External>>

-----------------------------------------------------------------------------
(***************************************************************************)
(* The writers, the operator and the process.                              *)
(***************************************************************************)
WorkStarts(s) ==
    /\ listeners[s] = "on"
    /\ s \notin busy
    /\ busy' = busy \cup {s}
    /\ UNCHANGED <<txn, token, journal, listeners>>

\* The callback asks admit and, if admitted, publishes at once.
WorkEnds(s) ==
    /\ s \in busy
    /\ busy' = busy \ {s}
    /\ UNCHANGED <<txn, token, journal, listeners>>

\* The journal's owner decides that a fenced pair goes back to legacy.
RollBack ==
    /\ pc = "idle"
    /\ owner = UNRESOLVED
    /\ journal \in {"intent", "shared"}
    /\ journal' = "aborted"
    /\ UNCHANGED <<txn, token, External>>

\* The process ends; the next one builds a transaction that knows nothing.
Crash ==
    /\ journal' \in Interrupted
    /\ owner' = UNRESOLVED
    /\ token' = [s \in Sides |-> "none"]
    /\ listeners' = [s \in Sides |-> "off"]
    /\ busy' = {}
    /\ pc' = "idle"
    /\ UNCHANGED <<purpose, step, target>>

-----------------------------------------------------------------------------
Operation ==
    \/ IntentWritten
    \/ CommitWritten
    \/ AbortWritten
    \/ RecoveryRead
    \/ Drain
    \/ ListenersInstalled
    \/ Attached

Next ==
    \/ Migrate
    \/ Recover
    \/ Operation
    \/ MigrationFails
    \/ LeftFenced
    \/ \E s \in Sides : WorkStarts(s) \/ WorkEnds(s)
    \/ RollBack
    \/ Crash

Spec == Init /\ [][Next]_vars

\* The injected calls return, and a writer's callback runs to its end: the
\* contracts of Callbacks, without which a join would wait for ever.
FairSpec ==
    /\ Spec
    /\ WF_vars(Operation)
    /\ \A s \in Sides : WF_vars(WorkEnds(s))

-----------------------------------------------------------------------------
(***************************************************************************)
(* Properties                                                              *)
(***************************************************************************)
\* Types; a token is on offer to the side being attached only.
TypeOK ==
    /\ owner \in {LEGACY, SHARED, UNRESOLVED}
    /\ \A s \in Sides : token[s] = "offered" => pc = "attach" /\ s = target
    /\ token \in [Sides -> {"none", "stale", "offered", "current"}]
    /\ pc \in Points
    /\ purpose \in Purposes
    /\ step \in DrainSteps
    /\ target \in {LEGACY, SHARED, UNRESOLVED}
    /\ journal \in {"clean", "intent", "aborted", "shared"}
    /\ listeners \in [Sides -> {"off", "on", "fenced"}]
    /\ busy \subseteq Sides

\* A side may write only when the durable record names it, whatever failed
\* or crashed on the way: a commit of unknown outcome is never guessed, and
\* legacy does not write under an intent.
WriterMatchesJournal ==
    /\ Admits(SHARED) => journal = "shared"
    /\ Admits(LEGACY) => journal \in {"clean", "aborted"}

\* While one side may write nothing of the other is installed, queued or in
\* flight, not even from a partial attachment.
NoOverlappingWork ==
    \A s \in Sides : Admits(s) =>
        \A other \in Sides \ {s} : listeners[other] = "off" /\ other \notin busy

\* Attachment starts on a fully drained pair, so listeners are never
\* installed twice.
AttachesOnDrainedPair ==
    [][pc # "attach" /\ pc' = "attach" =>
        busy = {} /\ \A s \in Sides : listeners[s] = "off"]_vars

\* A durable commit is undone by an explicit rollback decision only: not by
\* the clean-up of a commit whose outcome is unknown, not by a recovery, and
\* not by the intent of another migration.
CommitIsFinal ==
    [][journal = "shared" /\ journal' # "shared" => RollBack]_vars

\* Every operation releases the lock.
OperationEnds == pc # "idle" ~> pc = "idle"

\* The durable decision a journal record stands for.
Decision ==
    CASE journal = "shared" -> SHARED
      [] journal = "intent" -> UNRESOLVED
      [] OTHER -> LEGACY

Handoff == INSTANCE OwnershipHandoff WITH writer <- owner, decision <- Decision

\* The transaction hands ownership over only through a durable decision.
HandsOverThroughDecision == Handoff!Spec
=============================================================================
