------------------------- MODULE SnapshotCoordinator -------------------------
(***************************************************************************)
(* The polling lifecycle of SemanticSnapshotCoordinator                    *)
(* (semantic_snapshot_coordinator.py): one read at a time, one timer, and  *)
(* a start and a close that take turns under a lock.                       *)
(*                                                                         *)
(* Everything runs on one event loop.  A task is cancelled only where it   *)
(* awaits, and runs once more before it is done; until then it is still    *)
(* alive.  Callers start, close and refresh in any order, and any caller   *)
(* may itself be cancelled while it awaits.                                *)
(*                                                                         *)
(* A caller that would wait for the lock is one that has not called yet.   *)
(* Task names are used again once nobody waits for the task.               *)
(***************************************************************************)
EXTENDS FiniteSets

CONSTANTS
    Callers,    \* tasks of the config entry and of entity updates
    Reads,      \* names of read tasks
    Timers,     \* names of poll tasks
    NONE

ASSUME NoneAssumption == NONE \notin Callers \cup Reads \cup Timers

VARIABLES
    closed,         \* _closed
    supported,      \* supported: None, True or False
    data,           \* the read whose value data is
    success,        \* last_update_success
    refreshTask,    \* _refresh_task
    pollTask,       \* _poll_task
    lock,           \* holder of _lifecycle_lock
    read,           \* status of each read task
    timer,          \* what each poll task does, and the read it awaits
    call,           \* what each caller does, and the read it awaits
    started         \* history: async_start has got past its first test

tasks == <<refreshTask, pollTask>>
health == <<supported, data, success>>
vars == <<closed, health, tasks, lock, read, timer, call, started>>

-----------------------------------------------------------------------------
Alive == {"running", "cancelling"}
AliveReads == {r \in Reads : read[r] \in Alive}
AliveTimers == {t \in Timers : timer[t].at \in {"sleeps", "awaits", "cancelling"}}

Idle == [at |-> "idle", read |-> NONE]
Doing(what, r) == [at |-> what, read |-> r]

Waiting(r) ==
    \/ \E c \in Callers : call[c].read = r
    \/ \E t \in Timers : timer[t].read = r

Does(c, what) == call' = [call EXCEPT ![c] = what]
Moves(t, what) == timer' = [timer EXCEPT ![t] = what]

Init ==
    /\ closed = FALSE
    /\ supported = "unknown"
    /\ data = NONE
    /\ success = FALSE
    /\ refreshTask = NONE
    /\ pollTask = NONE
    /\ lock = NONE
    /\ read = [r \in Reads |-> "done"]
    /\ timer = [t \in Timers |-> Doing("done", NONE)]
    /\ call = [c \in Callers |-> Idle]
    /\ started = FALSE

-----------------------------------------------------------------------------
(***************************************************************************)
(* Reading.                                                                *)
(***************************************************************************)
Readable == ~closed /\ supported # "no"

\* Mutant: every request makes a read of its own.
RequestsItsOwn(r) ==
    /\ r \notin AliveReads /\ ~Waiting(r)
    /\ read' = [read EXCEPT ![r] = "running"]
    /\ refreshTask' = r

\* async_request_refresh up to its await, which is for r.
Requests(r) ==
    IF refreshTask \in AliveReads
    THEN r = refreshTask /\ UNCHANGED <<read, refreshTask>>
    ELSE /\ r \notin AliveReads /\ ~Waiting(r)
         /\ read' = [read EXCEPT ![r] = "running"]
         /\ refreshTask' = r

\* A value, a missing root, or any other failure.
Commits(r) ==
    IF closed THEN UNCHANGED health
    ELSE \/ /\ data' = r
            /\ success' = TRUE
            /\ supported' = IF supported = "unknown" THEN "yes" ELSE supported
         \/ success' = FALSE /\ supported' \in {supported, "no"} /\ UNCHANGED data

\* _refresh after its await; a cancelled read may still get its answer.
ReadAnswers(r) ==
    /\ read[r] \in Alive
    /\ Commits(r)
    /\ read' = [read EXCEPT ![r] = "done"]
    /\ UNCHANGED <<closed, tasks, lock, timer, call, started>>

ReadCancelled(r) ==
    /\ read[r] = "cancelling"
    /\ read' = [read EXCEPT ![r] = "cancelled"]
    /\ UNCHANGED <<closed, health, tasks, lock, timer, call, started>>

-----------------------------------------------------------------------------
(***************************************************************************)
(* _poll.                                                                  *)
(***************************************************************************)
TimerWakes(t) ==
    /\ timer[t].at = "sleeps"
    /\ \/ /\ Readable
          /\ \E r \in Reads : Requests(r) /\ Moves(t, Doing("awaits", r))
       \/ /\ ~Readable
          /\ Moves(t, Doing("done", NONE))
          /\ UNCHANGED <<read, refreshTask>>
    /\ UNCHANGED <<closed, health, pollTask, lock, call, started>>

\* A cancelled read passes its cancellation on to the timer.
TimerResumes(t) ==
    /\ timer[t].at = "awaits"
    /\ read[timer[t].read] \notin Alive
    /\ IF Readable /\ read[timer[t].read] = "done"
       THEN Moves(t, Doing("sleeps", NONE))
       ELSE Moves(t, Doing("done", NONE))
    /\ UNCHANGED <<closed, health, tasks, lock, read, call, started>>

TimerCancelled(t) ==
    /\ timer[t].at = "cancelling"
    /\ Moves(t, Doing("done", NONE))
    /\ UNCHANGED <<closed, health, tasks, lock, read, call, started>>

-----------------------------------------------------------------------------
(***************************************************************************)
(* _close: cancel both tasks, join them, then report the loss.             *)
(***************************************************************************)

CancelsTasks ==
    /\ timer' = [t \in Timers |->
                    IF t = pollTask /\ t \in AliveTimers
                    THEN Doing("cancelling", NONE) ELSE timer[t]]
    /\ read' = [r \in Reads |->
                    IF r = refreshTask /\ r \in AliveReads
                    THEN "cancelling" ELSE read[r]]

\* The caller keeps the lock until the tasks have ended.
StartsClosing(c) ==
    /\ closed' = TRUE
    /\ CancelsTasks
    /\ lock' = c
    /\ Does(c, Doing("joins", NONE))
    /\ UNCHANGED <<health, tasks>>

Joined == refreshTask \notin AliveReads /\ pollTask \notin AliveTimers

JoinReturns(c) ==
    /\ call[c].at = "joins"
    /\ Joined
    /\ refreshTask' = NONE
    /\ pollTask' = NONE
    /\ success' = FALSE
    /\ lock' = NONE
    /\ Does(c, Idle)
    /\ UNCHANGED <<closed, supported, data, read, timer, started>>

\* Mutant: the lock is not released when the join is cancelled.
JoinCancelledKeepsLock(c) ==
    /\ call[c].at = "joins"
    /\ Joined
    /\ Does(c, Idle)
    /\ UNCHANGED <<closed, health, tasks, lock, read, timer, started>>

\* The join still waits for the tasks; what follows it is skipped.
JoinCancelled(c) ==
    /\ call[c].at = "joins"
    /\ Joined
    /\ lock' = NONE
    /\ Does(c, Idle)
    /\ UNCHANGED <<closed, health, tasks, read, timer, started>>

-----------------------------------------------------------------------------
(***************************************************************************)
(* The callers.                                                            *)
(***************************************************************************)
\* Without tasks there is nothing to await.
Close(c) ==
    /\ call[c] = Idle
    /\ lock = NONE
    /\ \/ /\ tasks # <<NONE, NONE>>
          /\ StartsClosing(c)
       \/ /\ tasks = <<NONE, NONE>>
          /\ closed' = TRUE
          /\ success' = FALSE
          /\ UNCHANGED <<supported, data, tasks, lock, read, timer, call>>
    /\ UNCHANGED started

\* Inert while the timer lives.
Start(c) ==
    /\ call[c] = Idle
    /\ lock = NONE
    /\ pollTask \notin AliveTimers
    /\ closed' = FALSE
    /\ started' = TRUE
    /\ \/ /\ supported = "no"
          /\ UNCHANGED <<lock, read, refreshTask, call>>
       \/ /\ supported # "no"
          /\ lock' = c
          /\ \E r \in Reads : Requests(r) /\ Does(c, Doing("starts", r))
    /\ UNCHANGED <<health, pollTask, timer>>

StartReturns(c) ==
    /\ call[c].at = "starts"
    /\ read[call[c].read] = "done"
    /\ IF supported # "no"
       THEN \E t \in Timers \ AliveTimers :
                pollTask' = t /\ Moves(t, Doing("sleeps", NONE))
       ELSE UNCHANGED <<pollTask, timer>>
    /\ lock' = NONE
    /\ Does(c, Idle)
    /\ UNCHANGED <<closed, health, refreshTask, read, started>>

\* Mutant: a start that is cancelled only lets go of the lock.
StartCancelledLeavesOpen(c) ==
    /\ call[c].at = "starts"
    /\ lock' = NONE
    /\ Does(c, Idle)
    /\ UNCHANGED <<closed, health, tasks, read, timer, started>>

\* A start that is cancelled closes.
StartCancelled(c) ==
    /\ call[c].at = "starts"
    /\ StartsClosing(c)
    /\ UNCHANGED started

\* Inert when closed or unsupported.
Refresh(c) ==
    /\ call[c] = Idle
    /\ Readable
    /\ \E r \in Reads : Requests(r) /\ Does(c, Doing("refreshes", r))
    /\ UNCHANGED <<closed, health, pollTask, lock, timer, started>>

\* The read has ended, or the caller has been cancelled, which the read
\* is shielded from.
RefreshReturns(c) ==
    /\ call[c].at = "refreshes"
    /\ read[call[c].read] \notin Alive
    /\ Does(c, Idle)
    /\ UNCHANGED <<closed, health, tasks, lock, read, timer, started>>

RefreshCancelled(c) ==
    /\ call[c].at = "refreshes"
    /\ Does(c, Idle)
    /\ UNCHANGED <<closed, health, tasks, lock, read, timer, started>>

-----------------------------------------------------------------------------
ReadEnds(r) == ReadAnswers(r) \/ ReadCancelled(r)
TimerRuns(t) == TimerWakes(t) \/ TimerResumes(t) \/ TimerCancelled(t)
CallReturns(c) == StartReturns(c) \/ JoinReturns(c) \/ RefreshReturns(c)

Next ==
    \/ \E r \in Reads : ReadEnds(r)
    \/ \E t \in Timers : TimerRuns(t)
    \/ \E c \in Callers :
        \/ CallReturns(c)
        \/ Start(c) \/ Close(c) \/ Refresh(c)
        \/ StartCancelled(c) \/ JoinCancelled(c) \/ RefreshCancelled(c)

Spec == Init /\ [][Next]_vars

\* A read has a time out (GraphQLClient.execute); the loop runs every task
\* that can run.
FairSpec ==
    /\ Spec
    /\ \A r \in Reads : WF_vars(ReadEnds(r))
    /\ \A t \in Timers : WF_vars(TimerRuns(t))
    /\ \A c \in Callers : WF_vars(CallReturns(c))

-----------------------------------------------------------------------------
(***************************************************************************)
(* Properties                                                              *)
(***************************************************************************)

\* Types; the lock is held by the one caller that starts or joins, and a
\* successful update means a value from a gateway that supports the read.
TypeOK ==
    /\ closed \in BOOLEAN
    /\ supported \in {"unknown", "yes", "no"}
    /\ data \in Reads \cup {NONE}
    /\ success \in BOOLEAN
    /\ refreshTask \in Reads \cup {NONE}
    /\ pollTask \in Timers \cup {NONE}
    /\ lock \in Callers \cup {NONE}
    /\ read \in [Reads -> Alive \cup {"done", "cancelled"}]
    /\ timer \in [Timers -> [at : {"sleeps", "awaits", "cancelling", "done"},
                             read : Reads \cup {NONE}]]
    /\ call \in [Callers -> [at : {"idle", "starts", "joins", "refreshes"},
                             read : Reads \cup {NONE}]]
    /\ started \in BOOLEAN
    /\ \A c \in Callers : call[c].at \in {"starts", "joins"} <=> lock = c
    /\ success => data # NONE /\ supported = "yes"

\* Overlapping requests share one read, and repeated starts one timer; no
\* earlier task survives a close and a new start.
OneReadOneTimer ==
    /\ \A r, s \in AliveReads : r = s
    /\ \A t, u \in AliveTimers : t = u

\* When close, or a start that was cancelled, lets go of the lock, no task
\* is left, even if the caller was cancelled again while it joined them.
ClosedIsJoined ==
    lock = NONE /\ closed => AliveReads = {} /\ AliveTimers = {}

\* An open coordinator is polled: no cancellation, failed read or order of
\* calls leaves it open without a timer, unless the gateway lacks the root.
OpenIsPolled ==
    lock = NONE /\ started /\ ~closed /\ supported # "no" => AliveTimers # {}

\* While it is closed a coordinator takes no value and no health from a read
\* that comes back late.
QuietWhileClosed ==
    [][closed => UNCHANGED <<data, supported>> /\ (success' => success)]_vars

\* Every start, close and refresh returns, and the lock is always released.
CallsReturn ==
    /\ \A c \in Callers : call[c] # Idle ~> call[c] = Idle
    /\ lock # NONE ~> lock = NONE
=============================================================================
