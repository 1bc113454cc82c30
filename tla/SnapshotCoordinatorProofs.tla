---------------------- MODULE SnapshotCoordinatorProofs ----------------------
(***************************************************************************)
(* Proofs about SnapshotCoordinator, for any number of callers, and of     *)
(* names of tasks.                                                         *)
(*                                                                         *)
(* LifecycleInv is inductive.  Its parts say that the coordinator always   *)
(* has a reference to every task that is alive, that tasks are cancelled   *)
(* by the holder of the lock only, which closed the coordinator before,    *)
(* and that nobody awaits a read that was cancelled while it is open.      *)
(***************************************************************************)
EXTENDS SnapshotCoordinator, TLAPS

TasksReferenced ==
    AliveReads \subseteq {refreshTask} /\ AliveTimers \subseteq {pollTask}

\* What is cancelled is being joined.
CancelledByHolder ==
    /\ \A r \in Reads : read[r] = "cancelling" =>
            lock # NONE /\ call[lock].at = "joins"
    /\ \A t \in Timers : timer[t].at = "cancelling" =>
            lock # NONE /\ call[lock].at = "joins"

JoinsClosed ==
    \A c \in Callers : call[c].at = "joins" =>
        /\ closed
        /\ \A r \in Reads : read[r] # "running"
        /\ \A t \in Timers : timer[t].at \notin {"sleeps", "awaits"}

StartsOpen ==
    \A c \in Callers : call[c].at = "starts" =>
        ~closed /\ started /\ AliveTimers = {}

AwaitedNotCancelled ==
    \A t \in Timers : timer[t].at = "awaits" =>
        timer[t].read \in Reads /\ read[timer[t].read] \in {"running", "done"}

ReadsSupported == AliveReads # {} => supported # "no"

LifecycleInv ==
    /\ TypeOK
    /\ TasksReferenced
    /\ CancelledByHolder
    /\ JoinsClosed
    /\ StartsOpen
    /\ AwaitedNotCancelled
    /\ ReadsSupported
    /\ ClosedIsJoined
    /\ OpenIsPolled

-----------------------------------------------------------------------------
LEMMA InitLifecycle == Init => LifecycleInv
  <1>. SUFFICES ASSUME Init PROVE LifecycleInv
    OBVIOUS
  <1>1. AliveReads = {} /\ AliveTimers = {}
    BY DEF Init, AliveReads, AliveTimers, Alive, Doing
  <1>2. \A c \in Callers : call[c].at = "idle"
    BY DEF Init, Idle
  <1>3. TypeOK
    <2>1. read \in [Reads -> Alive \cup {"done", "cancelled"}]
      BY DEF Init
    <2>2. timer \in [Timers -> [at : {"sleeps", "awaits", "cancelling", "done"},
                                read : Reads \cup {NONE}]]
      BY DEF Init, Doing
    <2>3. call \in [Callers -> [at : {"idle", "starts", "joins", "refreshes"},
                                read : Reads \cup {NONE}]]
      BY DEF Init, Idle
    <2>4. QED
      BY <1>2, <2>1, <2>2, <2>3, NoneAssumption DEF Init, TypeOK
  <1>4. CancelledByHolder /\ JoinsClosed /\ StartsOpen /\ AwaitedNotCancelled
    BY <1>2 DEF Init, CancelledByHolder, JoinsClosed, StartsOpen,
                AwaitedNotCancelled, Doing
  <1>5. QED
    BY <1>1, <1>3, <1>4 DEF Init, LifecycleInv, TasksReferenced, ReadsSupported,
                            ClosedIsJoined, OpenIsPolled

\* What changing one entry of the tables leaves.
LEMMA CallUpdate ==
    ASSUME TypeOK, NEW c \in Callers, Does(c, Idle)
    PROVE  /\ call' \in [Callers -> [at : {"idle", "starts", "joins", "refreshes"},
                                     read : Reads \cup {NONE}]]
           /\ call'[c].at = "idle"
           /\ \A d \in Callers : d # c => call'[d] = call[d]
  BY DEF TypeOK, Does, Idle

LEMMA CallAwaits ==
    ASSUME TypeOK, NEW c \in Callers, NEW r \in Reads \cup {NONE},
           NEW what \in {"starts", "joins", "refreshes"}, Does(c, Doing(what, r))
    PROVE  /\ call' \in [Callers -> [at : {"idle", "starts", "joins", "refreshes"},
                                     read : Reads \cup {NONE}]]
           /\ call'[c].at = what
           /\ \A d \in Callers : d # c => call'[d] = call[d]
  BY DEF TypeOK, Does, Doing

LEMMA TimerUpdate ==
    ASSUME TypeOK, NEW t \in Timers, NEW r \in Reads \cup {NONE},
           NEW what \in {"sleeps", "awaits", "done"}, Moves(t, Doing(what, r))
    PROVE  /\ timer' \in [Timers -> [at : {"sleeps", "awaits", "cancelling", "done"},
                                     read : Reads \cup {NONE}]]
           /\ timer'[t].at = what
           /\ timer'[t].read = r
           /\ \A u \in Timers : u # t => timer'[u] = timer[u]
  BY DEF TypeOK, Moves, Doing

\* A read that ends; cancelled reads answer to a closed coordinator.
LEMMA ReadEndsInv ==
    ASSUME LifecycleInv, NEW r \in Reads, ReadEnds(r) PROVE LifecycleInv'
  <1>1. PICK s \in {"done", "cancelled"} :
            /\ read' = [read EXCEPT ![r] = s]
            /\ s = "cancelled" => read[r] = "cancelling"
    BY DEF ReadEnds, ReadAnswers, ReadCancelled
  <1>2. /\ r \in AliveReads
        /\ UNCHANGED <<closed, tasks, lock, timer, call, started>>
    BY DEF ReadEnds, ReadAnswers, ReadCancelled, AliveReads, Alive
  <1>3. /\ read' \in [Reads -> Alive \cup {"done", "cancelled"}]
        /\ AliveReads' = AliveReads \ {r}
        /\ UNCHANGED AliveTimers
    BY <1>1, <1>2 DEF LifecycleInv, TypeOK, AliveReads, AliveTimers, Alive
  <1>4. AliveReads' = {}
    BY <1>2, <1>3 DEF LifecycleInv, TasksReferenced
  <1>5. /\ data' \in Reads \cup {NONE}
        /\ success' \in BOOLEAN
        /\ supported' \in {"unknown", "yes", "no"}
        /\ success' => data' # NONE /\ supported' = "yes"
    <2>1. supported # "no"
      BY <1>2 DEF LifecycleInv, ReadsSupported
    <2>2. CASE UNCHANGED health
      BY <2>2 DEF health, LifecycleInv, TypeOK
    <2>3. CASE Commits(r)
      BY <2>1, <2>2, <2>3, NoneAssumption
         DEF Commits, LifecycleInv, TypeOK
    <2>4. QED
      BY <2>2, <2>3 DEF ReadEnds, ReadAnswers, ReadCancelled
  <1>6. TypeOK'
    BY <1>2, <1>3, <1>5 DEF LifecycleInv, TypeOK, tasks
  <1>7. AwaitedNotCancelled'
    <2>1. ASSUME NEW t \in Timers, timer[t].at = "awaits" PROVE read[r] # "cancelling"
      BY <2>1 DEF LifecycleInv, TypeOK, CancelledByHolder, JoinsClosed
    <2>2. QED
      BY <1>1, <1>2, <2>1 DEF LifecycleInv, TypeOK, AwaitedNotCancelled
  <1>8. OpenIsPolled'
    <2>1. supported = "no" => supported' = "no"
      BY <1>2 DEF LifecycleInv, ReadsSupported
    <2>2. QED
      BY <1>2, <1>3, <2>1 DEF LifecycleInv, OpenIsPolled
  <1>9. QED
    BY <1>1, <1>2, <1>3, <1>4, <1>6, <1>7, <1>8
       DEF LifecycleInv, TypeOK, TasksReferenced, CancelledByHolder,
           JoinsClosed, StartsOpen, ReadsSupported, ClosedIsJoined, tasks

\* The read that a request finds or makes.
LEMMA RequestsRead ==
    ASSUME LifecycleInv, NEW r \in Reads, Requests(r),
           \A s \in Reads : read[s] # "cancelling"
    PROVE  /\ read' \in [Reads -> Alive \cup {"done", "cancelled"}]
           /\ read'[r] = "running"
           /\ refreshTask' = r
           /\ AliveReads' = {r}
           /\ \A s \in Reads : s # r => read'[s] = read[s]
  <1>1. read \in [Reads -> Alive \cup {"done", "cancelled"}]
    BY DEF LifecycleInv, TypeOK
  <1>2. CASE refreshTask \in AliveReads
    <2>1. r = refreshTask /\ UNCHANGED <<read, refreshTask>>
      BY <1>2 DEF Requests
    <2>2. AliveReads = {r}
      BY <1>2, <2>1 DEF LifecycleInv, TasksReferenced
    <2>3. QED
      BY <1>1, <1>2, <2>1, <2>2 DEF AliveReads, Alive
  <1>3. CASE refreshTask \notin AliveReads
    <2>1. read' = [read EXCEPT ![r] = "running"] /\ refreshTask' = r
      BY <1>3 DEF Requests
    <2>2. AliveReads = {}
      BY <1>3 DEF LifecycleInv, TasksReferenced
    <2>3. QED
      BY <1>1, <2>1, <2>2 DEF AliveReads, Alive
  <1>4. QED
    BY <1>2, <1>3

\* Nothing is cancelled while the coordinator is open or the lock is free.
LEMMA OpenNotCancelled ==
    ASSUME LifecycleInv, lock = NONE \/ ~closed
    PROVE  /\ \A s \in Reads : read[s] # "cancelling"
           /\ \A t \in Timers : timer[t].at # "cancelling"
           /\ \A c \in Callers : call[c].at # "joins"
  <1>1. \A c \in Callers : call[c].at # "joins"
    BY NoneAssumption DEF LifecycleInv, TypeOK, JoinsClosed
  <1>2. QED
    BY <1>1 DEF LifecycleInv, TypeOK, CancelledByHolder

LEMMA TimerWakesInv ==
    ASSUME LifecycleInv, NEW t \in Timers, TimerWakes(t) PROVE LifecycleInv'
  <1>1. /\ t \in AliveTimers /\ timer[t].at = "sleeps"
        /\ UNCHANGED <<closed, health, pollTask, lock, call, started>>
    BY DEF TimerWakes, AliveTimers
  <1>2. \A c \in Callers : call[c].at \notin {"starts", "joins"}
    BY <1>1 DEF LifecycleInv, StartsOpen, JoinsClosed
  <1>3. \A s \in Reads : read[s] # "cancelling"
    BY <1>2 DEF LifecycleInv, TypeOK, CancelledByHolder
  <1>4. \A u \in Timers : timer[u].at # "cancelling"
    BY <1>2 DEF LifecycleInv, TypeOK, CancelledByHolder
  <1>5. lock = NONE
    BY <1>2 DEF LifecycleInv, TypeOK
  <1>6. ~closed
    BY <1>1, <1>5 DEF LifecycleInv, ClosedIsJoined
  <1>7. ASSUME NEW r \in Reads, Readable, Requests(r),
               Moves(t, Doing("awaits", r))
        PROVE  LifecycleInv'
    <2>1. /\ read' \in [Reads -> Alive \cup {"done", "cancelled"}]
          /\ read'[r] = "running"
          /\ refreshTask' = r
          /\ AliveReads' = {r}
          /\ \A s \in Reads : s # r => read'[s] = read[s]
      BY <1>3, <1>7, RequestsRead
    <2>2. /\ timer' \in [Timers -> [at : {"sleeps", "awaits", "cancelling", "done"},
                                    read : Reads \cup {NONE}]]
          /\ timer'[t].at = "awaits"
          /\ timer'[t].read = r
          /\ \A u \in Timers : u # t => timer'[u] = timer[u]
      BY <1>7, TimerUpdate DEF LifecycleInv
    <2>3. AliveTimers' = AliveTimers
      BY <1>1, <2>2 DEF AliveTimers
    <2>4. TypeOK'
      BY <1>1, <2>1, <2>2 DEF LifecycleInv, TypeOK, health
    <2>5. AwaitedNotCancelled'
      BY <2>1, <2>2 DEF LifecycleInv, AwaitedNotCancelled
    <2>6. CancelledByHolder'
      BY <1>3, <1>4, <2>1, <2>2 DEF CancelledByHolder
    <2>7. JoinsClosed' /\ StartsOpen'
      BY <1>1, <1>2 DEF JoinsClosed, StartsOpen
    <2>8. ReadsSupported'
      BY <1>1, <1>7 DEF Readable, ReadsSupported, health
    <2>9. QED
      BY <1>1, <1>6, <2>1, <2>3, <2>4, <2>5, <2>6, <2>7, <2>8
         DEF LifecycleInv, TasksReferenced, ClosedIsJoined, OpenIsPolled,
             health
  <1>8. CASE /\ ~Readable
             /\ Moves(t, Doing("done", NONE))
             /\ UNCHANGED <<read, refreshTask>>
    <2>1. /\ timer' \in [Timers -> [at : {"sleeps", "awaits", "cancelling", "done"},
                                    read : Reads \cup {NONE}]]
          /\ timer'[t].at = "done"
          /\ timer'[t].read = NONE
          /\ \A u \in Timers : u # t => timer'[u] = timer[u]
      BY <1>8, TimerUpdate DEF LifecycleInv
    <2>2. AliveTimers' \subseteq AliveTimers /\ UNCHANGED AliveReads
      BY <1>8, <2>1 DEF AliveTimers, AliveReads
    <2>3. supported = "no"
      BY <1>6, <1>8 DEF Readable
    <2>4. TypeOK'
      BY <1>1, <1>8, <2>1 DEF LifecycleInv, TypeOK, health
    <2>5. AwaitedNotCancelled'
      BY <1>8, <2>1 DEF LifecycleInv, AwaitedNotCancelled
    <2>6. CancelledByHolder' /\ JoinsClosed' /\ StartsOpen'
      BY <1>1, <1>2, <1>3, <1>4, <1>8, <2>1
         DEF CancelledByHolder, JoinsClosed, StartsOpen
    <2>7. QED
      BY <1>1, <1>6, <1>8, <2>2, <2>3, <2>4, <2>5, <2>6
         DEF LifecycleInv, TasksReferenced, ReadsSupported, ClosedIsJoined,
             OpenIsPolled, health
  <1>9. QED
    BY <1>7, <1>8 DEF TimerWakes

\* A timer that goes back to sleep, or ends.
LEMMA TimerMovesInv ==
    ASSUME LifecycleInv, NEW t \in Timers, TimerResumes(t) \/ TimerCancelled(t)
    PROVE  LifecycleInv'
  <1>1. /\ t \in AliveTimers
        /\ UNCHANGED <<closed, health, tasks, lock, read, call, started>>
    BY DEF TimerResumes, TimerCancelled, AliveTimers
  <1>2. PICK what \in {"sleeps", "done"} : Moves(t, Doing(what, NONE))
    BY DEF TimerResumes, TimerCancelled
  <1>3. what = "sleeps" => timer[t].at = "awaits"
    BY <1>2, TimerUpdate DEF TimerResumes, TimerCancelled, LifecycleInv, TypeOK,
                             Moves, Doing
  <1>4. /\ timer' \in [Timers -> [at : {"sleeps", "awaits", "cancelling", "done"},
                                  read : Reads \cup {NONE}]]
        /\ timer'[t].at = what
        /\ timer'[t].read = NONE
        /\ \A u \in Timers : u # t => timer'[u] = timer[u]
    BY <1>2, TimerUpdate DEF LifecycleInv
  <1>5. AliveTimers' \subseteq AliveTimers /\ UNCHANGED AliveReads
    BY <1>1, <1>4 DEF AliveTimers, AliveReads
  <1>6. TypeOK'
    BY <1>1, <1>4 DEF LifecycleInv, TypeOK, health, tasks
  <1>7. CancelledByHolder'
    BY <1>1, <1>2, <1>4 DEF LifecycleInv, CancelledByHolder
  <1>8. JoinsClosed'
    BY <1>1, <1>2, <1>3, <1>4 DEF LifecycleInv, JoinsClosed
  <1>9. StartsOpen'
    BY <1>1, <1>5 DEF LifecycleInv, StartsOpen
  <1>10. AwaitedNotCancelled'
    BY <1>1, <1>2, <1>4 DEF LifecycleInv, AwaitedNotCancelled
  <1>11. OpenIsPolled'
    <2>1. CASE what = "sleeps"
      <3>1. t \in AliveTimers'
        BY <2>1, <1>4 DEF AliveTimers
      <3>2. QED
        BY <3>1 DEF OpenIsPolled
    <2>2. CASE what = "done" /\ TimerResumes(t)
      <3>1. ~Readable
        BY <2>2, <1>2, <1>4
           DEF TimerResumes, Moves, Doing, LifecycleInv, TypeOK,
               AwaitedNotCancelled, Alive
      <3>2. QED
        BY <1>1, <3>1 DEF Readable, OpenIsPolled, health
    <2>3. CASE TimerCancelled(t)
      <3>1. lock # NONE
        BY <2>3 DEF TimerCancelled, LifecycleInv, CancelledByHolder
      <3>2. QED
        BY <1>1, <3>1 DEF OpenIsPolled
    <2>4. QED
      BY <2>1, <2>2, <2>3, <1>2
  <1>12. QED
    BY <1>1, <1>5, <1>6, <1>7, <1>8, <1>9, <1>10, <1>11
       DEF LifecycleInv, TasksReferenced, ReadsSupported, ClosedIsJoined,
           health, tasks

-----------------------------------------------------------------------------
\* _close up to its await, with the lock or taking it.
LEMMA StartsClosingInv ==
    ASSUME LifecycleInv, NEW c \in Callers, lock \in {NONE, c},
           StartsClosing(c), UNCHANGED started
    PROVE  LifecycleInv'
  <1>1. /\ closed' = TRUE
        /\ lock' = c
        /\ Does(c, Doing("joins", NONE))
        /\ UNCHANGED <<health, tasks, started>>
    BY DEF StartsClosing
  <1>2. /\ call' \in [Callers -> [at : {"idle", "starts", "joins", "refreshes"},
                                  read : Reads \cup {NONE}]]
        /\ call'[c].at = "joins"
        /\ \A d \in Callers : d # c => call'[d] = call[d]
    BY <1>1, CallAwaits DEF LifecycleInv
  <1>3. \A d \in Callers : d # c => call[d].at \notin {"starts", "joins"}
    BY NoneAssumption DEF LifecycleInv, TypeOK
  <1>4. /\ read' \in [Reads -> Alive \cup {"done", "cancelled"}]
        /\ AliveReads' = AliveReads
        /\ \A r \in Reads : read'[r] # "running"
        /\ \A r \in Reads : read'[r] = "done" <=> read[r] = "done"
    BY DEF StartsClosing, CancelsTasks, LifecycleInv, TypeOK, TasksReferenced,
           AliveReads, Alive
  <1>5. /\ timer' \in [Timers -> [at : {"sleeps", "awaits", "cancelling", "done"},
                                  read : Reads \cup {NONE}]]
        /\ AliveTimers' = AliveTimers
        /\ \A t \in Timers : timer'[t].at \notin {"sleeps", "awaits"}
    BY DEF StartsClosing, CancelsTasks, LifecycleInv, TypeOK, TasksReferenced,
           AliveTimers, Doing
  <1>6. TypeOK'
    BY <1>1, <1>2, <1>3, <1>4, <1>5, NoneAssumption
       DEF LifecycleInv, TypeOK, health, tasks
  <1>7. CancelledByHolder'
    BY <1>1, <1>2, NoneAssumption DEF CancelledByHolder
  <1>8. JoinsClosed' /\ StartsOpen'
    BY <1>1, <1>2, <1>3, <1>4, <1>5 DEF JoinsClosed, StartsOpen
  <1>9. AwaitedNotCancelled'
    BY <1>5 DEF AwaitedNotCancelled
  <1>10. QED
    BY <1>1, <1>4, <1>5, <1>6, <1>7, <1>8, <1>9, NoneAssumption
       DEF LifecycleInv, TasksReferenced, ReadsSupported, ClosedIsJoined,
           OpenIsPolled, health, tasks

\* The end of a join, whole or cancelled.
LEMMA JoinEndsInv ==
    ASSUME LifecycleInv, NEW c \in Callers, JoinReturns(c) \/ JoinCancelled(c)
    PROVE  LifecycleInv'
  <1>1. /\ call[c].at = "joins"
        /\ Joined
        /\ lock' = NONE
        /\ Does(c, Idle)
        /\ UNCHANGED <<closed, supported, data, read, timer, started>>
    BY DEF JoinReturns, JoinCancelled, health
  <1>2. /\ refreshTask' \in {refreshTask, NONE}
        /\ pollTask' \in {pollTask, NONE}
        /\ success' \in BOOLEAN
        /\ success' => success
    <2>1. success \in BOOLEAN
      BY DEF LifecycleInv, TypeOK
    <2>2. CASE JoinReturns(c)
      BY <2>2 DEF JoinReturns
    <2>3. CASE JoinCancelled(c)
      BY <2>1, <2>3 DEF JoinCancelled, health, tasks
    <2>4. QED
      BY <2>2, <2>3
  <1>3. /\ call' \in [Callers -> [at : {"idle", "starts", "joins", "refreshes"},
                                  read : Reads \cup {NONE}]]
        /\ call'[c].at = "idle"
        /\ \A d \in Callers : d # c => call'[d] = call[d]
    BY <1>1, CallUpdate DEF LifecycleInv
  <1>4. lock = c /\ \A d \in Callers : call'[d].at \notin {"starts", "joins"}
    BY <1>1, <1>3 DEF LifecycleInv, TypeOK
  <1>5. AliveReads = {} /\ AliveTimers = {}
    BY <1>1 DEF Joined, LifecycleInv, TasksReferenced
  <1>6. UNCHANGED <<AliveReads, AliveTimers>>
    BY <1>1 DEF AliveReads, AliveTimers
  <1>7. closed
    BY <1>1 DEF LifecycleInv, JoinsClosed
  <1>8. TypeOK'
    <2>1. \A d \in Callers : call'[d].at \in {"starts", "joins"} <=> lock' = d
      BY <1>1, <1>4, NoneAssumption
    <2>2. success' => data' # NONE /\ supported' = "yes"
      BY <1>1, <1>2 DEF LifecycleInv, TypeOK
    <2>3. QED
      BY <1>1, <1>2, <1>3, <2>1, <2>2 DEF LifecycleInv, TypeOK
  <1>9. CancelledByHolder' /\ AwaitedNotCancelled'
    BY <1>1, <1>5
       DEF LifecycleInv, CancelledByHolder, AwaitedNotCancelled, AliveReads,
           AliveTimers, Alive
  <1>10. QED
    BY <1>1, <1>4, <1>5, <1>6, <1>7, <1>8, <1>9
       DEF LifecycleInv, TasksReferenced, JoinsClosed, StartsOpen,
           ReadsSupported, ClosedIsJoined, OpenIsPolled

LEMMA CloseInv ==
    ASSUME LifecycleInv, NEW c \in Callers, Close(c) PROVE LifecycleInv'
  <1>1. lock = NONE /\ UNCHANGED started
    BY DEF Close
  <1>2. CASE StartsClosing(c)
    BY <1>1, <1>2, StartsClosingInv
  <1>3. CASE /\ tasks = <<NONE, NONE>>
             /\ closed' = TRUE
             /\ success' = FALSE
             /\ UNCHANGED <<supported, data, tasks, lock, read, timer, call>>
    <2>1. AliveReads = {} /\ AliveTimers = {}
      BY <1>3, NoneAssumption
         DEF LifecycleInv, TasksReferenced, tasks, AliveReads, AliveTimers
    <2>2. UNCHANGED <<AliveReads, AliveTimers, refreshTask, pollTask>>
      BY <1>3 DEF AliveReads, AliveTimers, tasks
    <2>3. \A d \in Callers : call[d].at \notin {"starts", "joins"}
      BY <1>1, NoneAssumption DEF LifecycleInv, TypeOK
    <2>4. TypeOK'
      BY <1>1, <1>3, <2>2 DEF LifecycleInv, TypeOK
    <2>5. QED
      BY <1>1, <1>3, <2>1, <2>2, <2>3, <2>4
         DEF LifecycleInv, TasksReferenced, CancelledByHolder, JoinsClosed,
             StartsOpen, AwaitedNotCancelled, ReadsSupported, ClosedIsJoined,
             OpenIsPolled
  <1>4. QED
    BY <1>2, <1>3 DEF Close

LEMMA StartCancelledInv ==
    ASSUME LifecycleInv, NEW c \in Callers, StartCancelled(c)
    PROVE  LifecycleInv'
  <1>1. lock = c
    BY DEF StartCancelled, LifecycleInv, TypeOK
  <1>2. QED
    BY <1>1, StartsClosingInv DEF StartCancelled

-----------------------------------------------------------------------------
\* async_start up to its await.
LEMMA StartInv ==
    ASSUME LifecycleInv, NEW c \in Callers, Start(c) PROVE LifecycleInv'
  <1>1. /\ lock = NONE
        /\ pollTask \notin AliveTimers
        /\ closed' = FALSE
        /\ started' = TRUE
        /\ UNCHANGED <<health, pollTask, timer>>
    BY DEF Start
  <1>2. /\ \A s \in Reads : read[s] # "cancelling"
        /\ \A t \in Timers : timer[t].at # "cancelling"
        /\ \A d \in Callers : call[d].at \notin {"starts", "joins"}
    BY <1>1, OpenNotCancelled, NoneAssumption DEF LifecycleInv, TypeOK
  <1>3. AliveTimers = {} /\ AliveTimers' = {}
    BY <1>1 DEF LifecycleInv, TasksReferenced, AliveTimers
  <1>4. \A t \in Timers : timer[t].at \notin {"sleeps", "awaits", "cancelling"}
    BY <1>3 DEF AliveTimers
  <1>5. CASE supported = "no" /\ UNCHANGED <<lock, read, refreshTask, call>>
    <2>1. UNCHANGED AliveReads
      BY <1>5 DEF AliveReads
    <2>2. AliveReads = {}
      BY <1>5 DEF LifecycleInv, ReadsSupported
    <2>3. TypeOK'
      BY <1>1, <1>5 DEF LifecycleInv, TypeOK, health
    <2>4. QED
      BY <1>1, <1>2, <1>3, <1>4, <1>5, <2>1, <2>2, <2>3
         DEF LifecycleInv, TasksReferenced, CancelledByHolder, JoinsClosed,
             StartsOpen, AwaitedNotCancelled, ReadsSupported, ClosedIsJoined,
             OpenIsPolled, health
  <1>6. ASSUME supported # "no", lock' = c, NEW r \in Reads, Requests(r),
               Does(c, Doing("starts", r))
        PROVE  LifecycleInv'
    <2>1. /\ read' \in [Reads -> Alive \cup {"done", "cancelled"}]
          /\ read'[r] = "running"
          /\ refreshTask' = r
          /\ AliveReads' = {r}
          /\ \A s \in Reads : s # r => read'[s] = read[s]
      BY <1>2, <1>6, RequestsRead
    <2>2. /\ call' \in [Callers -> [at : {"idle", "starts", "joins", "refreshes"},
                                    read : Reads \cup {NONE}]]
          /\ call'[c].at = "starts"
          /\ \A d \in Callers : d # c => call'[d] = call[d]
      BY <1>6, CallAwaits DEF LifecycleInv
    <2>3. TypeOK'
      BY <1>1, <1>2, <1>6, <2>1, <2>2 DEF LifecycleInv, TypeOK, health
    <2>4. JoinsClosed' /\ StartsOpen'
      BY <1>1, <1>2, <1>3, <2>2 DEF JoinsClosed, StartsOpen
    <2>5. CancelledByHolder' /\ AwaitedNotCancelled'
      BY <1>1, <1>2, <1>4, <2>1 DEF CancelledByHolder, AwaitedNotCancelled
    <2>6. QED
      BY <1>1, <1>3, <1>6, <2>1, <2>3, <2>4, <2>5, NoneAssumption
         DEF LifecycleInv, TasksReferenced, ReadsSupported, ClosedIsJoined,
             OpenIsPolled, health
  <1>7. QED
    BY <1>5, <1>6 DEF Start

\* The rest of async_start.
LEMMA StartReturnsInv ==
    ASSUME LifecycleInv, NEW c \in Callers, StartReturns(c) PROVE LifecycleInv'
  <1>1. /\ call[c].at = "starts"
        /\ lock' = NONE
        /\ Does(c, Idle)
        /\ UNCHANGED <<closed, health, refreshTask, read, started>>
    BY DEF StartReturns
  <1>2. lock = c /\ ~closed /\ AliveTimers = {}
    BY <1>1 DEF LifecycleInv, TypeOK, StartsOpen
  <1>3. \A t \in Timers : timer[t].at \notin {"sleeps", "awaits", "cancelling"}
    BY <1>2 DEF AliveTimers
  <1>4. /\ call' \in [Callers -> [at : {"idle", "starts", "joins", "refreshes"},
                                  read : Reads \cup {NONE}]]
        /\ call'[c].at = "idle"
        /\ \A d \in Callers : d # c => call'[d] = call[d]
    BY <1>1, CallUpdate DEF LifecycleInv
  <1>5. \A d \in Callers : call'[d].at \notin {"starts", "joins"}
    BY <1>2, <1>4 DEF LifecycleInv, TypeOK
  <1>6. /\ \A s \in Reads : read[s] # "cancelling"
        /\ UNCHANGED AliveReads
    BY <1>1, <1>2, OpenNotCancelled DEF AliveReads
  <1>7. CASE supported = "no" /\ UNCHANGED <<pollTask, timer>>
    <2>1. UNCHANGED AliveTimers
      BY <1>7 DEF AliveTimers
    <2>2. TypeOK'
      BY <1>1, <1>4, <1>5, <1>7, NoneAssumption
         DEF LifecycleInv, TypeOK, health
    <2>3. QED
      BY <1>1, <1>2, <1>3, <1>5, <1>6, <1>7, <2>1, <2>2
         DEF LifecycleInv, TasksReferenced, CancelledByHolder, JoinsClosed,
             StartsOpen, AwaitedNotCancelled, ReadsSupported, ClosedIsJoined,
             OpenIsPolled, health
  <1>8. ASSUME NEW t \in Timers, pollTask' = t, Moves(t, Doing("sleeps", NONE))
        PROVE  LifecycleInv'
    <2>1. /\ timer' \in [Timers -> [at : {"sleeps", "awaits", "cancelling", "done"},
                                    read : Reads \cup {NONE}]]
          /\ timer'[t].at = "sleeps"
          /\ \A u \in Timers : u # t => timer'[u] = timer[u]
      BY <1>8, TimerUpdate DEF LifecycleInv
    <2>2. AliveTimers' = {t}
      BY <1>3, <2>1 DEF AliveTimers
    <2>3. TypeOK'
      BY <1>1, <1>4, <1>5, <1>8, <2>1, NoneAssumption
         DEF LifecycleInv, TypeOK, health
    <2>4. CancelledByHolder' /\ AwaitedNotCancelled'
      BY <1>1, <1>3, <1>6, <2>1 DEF CancelledByHolder, AwaitedNotCancelled
    <2>5. QED
      BY <1>1, <1>2, <1>5, <1>6, <1>8, <2>2, <2>3, <2>4
         DEF LifecycleInv, TasksReferenced, JoinsClosed, StartsOpen,
             ReadsSupported, ClosedIsJoined, OpenIsPolled, health
  <1>9. QED
    BY <1>7, <1>8 DEF StartReturns

LEMMA RefreshInv ==
    ASSUME LifecycleInv, NEW c \in Callers, Refresh(c) PROVE LifecycleInv'
  <1>1. /\ call[c].at = "idle" /\ ~closed /\ supported # "no"
        /\ UNCHANGED <<closed, health, pollTask, lock, timer, started>>
    BY DEF Refresh, Readable, Idle
  <1>2. PICK r \in Reads : Requests(r) /\ Does(c, Doing("refreshes", r))
    BY DEF Refresh
  <1>3. /\ \A s \in Reads : read[s] # "cancelling"
        /\ \A t \in Timers : timer[t].at # "cancelling"
        /\ \A d \in Callers : call[d].at # "joins"
    BY <1>1, OpenNotCancelled
  <1>4. /\ read' \in [Reads -> Alive \cup {"done", "cancelled"}]
        /\ read'[r] = "running"
        /\ refreshTask' = r
        /\ AliveReads' = {r}
        /\ \A s \in Reads : s # r => read'[s] = read[s]
    BY <1>2, <1>3, RequestsRead
  <1>5. /\ call' \in [Callers -> [at : {"idle", "starts", "joins", "refreshes"},
                                  read : Reads \cup {NONE}]]
        /\ call'[c].at = "refreshes"
        /\ \A d \in Callers : d # c => call'[d] = call[d]
    BY <1>2, CallAwaits DEF LifecycleInv
  <1>6. TypeOK'
    BY <1>1, <1>4, <1>5 DEF LifecycleInv, TypeOK, health
  <1>7. UNCHANGED AliveTimers
    BY <1>1 DEF AliveTimers
  <1>8. CancelledByHolder' /\ AwaitedNotCancelled'
    BY <1>1, <1>3, <1>4
       DEF LifecycleInv, CancelledByHolder, AwaitedNotCancelled
  <1>9. JoinsClosed' /\ StartsOpen'
    BY <1>1, <1>3, <1>5, <1>7 DEF LifecycleInv, JoinsClosed, StartsOpen
  <1>10. QED
    BY <1>1, <1>4, <1>6, <1>7, <1>8, <1>9
       DEF LifecycleInv, TasksReferenced, ReadsSupported, ClosedIsJoined,
           OpenIsPolled, health

LEMMA RefreshEndsInv ==
    ASSUME LifecycleInv, NEW c \in Callers,
           RefreshReturns(c) \/ RefreshCancelled(c)
    PROVE  LifecycleInv'
  <1>1. /\ call[c].at = "refreshes"
        /\ Does(c, Idle)
        /\ UNCHANGED <<closed, health, tasks, lock, read, timer, started>>
    BY DEF RefreshReturns, RefreshCancelled
  <1>2. /\ call' \in [Callers -> [at : {"idle", "starts", "joins", "refreshes"},
                                  read : Reads \cup {NONE}]]
        /\ call'[c].at = "idle"
        /\ \A d \in Callers : d # c => call'[d] = call[d]
    BY <1>1, CallUpdate DEF LifecycleInv
  <1>3. TypeOK'
    BY <1>1, <1>2 DEF LifecycleInv, TypeOK, health, tasks
  <1>4. UNCHANGED <<AliveReads, AliveTimers>>
    BY <1>1 DEF AliveReads, AliveTimers
  <1>5. CancelledByHolder'
    <2>1. lock # NONE /\ call[lock].at = "joins" => call'[lock'].at = "joins"
      BY <1>1, <1>2 DEF LifecycleInv, TypeOK
    <2>2. QED
      BY <1>1, <2>1 DEF LifecycleInv, CancelledByHolder
  <1>6. JoinsClosed' /\ StartsOpen'
    BY <1>1, <1>2, <1>4 DEF LifecycleInv, JoinsClosed, StartsOpen
  <1>7. QED
    BY <1>1, <1>3, <1>4, <1>5, <1>6
       DEF LifecycleInv, TasksReferenced, AwaitedNotCancelled, ReadsSupported,
           ClosedIsJoined, OpenIsPolled, health, tasks

-----------------------------------------------------------------------------
LEMMA LifecycleStep == LifecycleInv /\ [Next]_vars => LifecycleInv'
  <1>1. ASSUME LifecycleInv, UNCHANGED vars PROVE LifecycleInv'
    <2>1. UNCHANGED <<closed, supported, data, success, refreshTask, pollTask,
                      lock, read, timer, call, started>>
      BY <1>1 DEF vars, health, tasks
    <2>2. UNCHANGED <<AliveReads, AliveTimers>>
      BY <2>1 DEF AliveReads, AliveTimers
    <2>3. TypeOK'
      BY <1>1, <2>1 DEF LifecycleInv, TypeOK
    <2>4. QED
      BY <1>1, <2>1, <2>2, <2>3
         DEF LifecycleInv, TasksReferenced, CancelledByHolder, JoinsClosed,
             StartsOpen, AwaitedNotCancelled, ReadsSupported, ClosedIsJoined,
             OpenIsPolled
  <1>2. ASSUME LifecycleInv, NEW r \in Reads, ReadEnds(r) PROVE LifecycleInv'
    BY <1>2, ReadEndsInv
  <1>3. ASSUME LifecycleInv, NEW t \in Timers, TimerRuns(t) PROVE LifecycleInv'
    BY <1>3, TimerWakesInv, TimerMovesInv DEF TimerRuns
  <1>4. ASSUME LifecycleInv, NEW c \in Callers, CallReturns(c)
        PROVE  LifecycleInv'
    BY <1>4, StartReturnsInv, JoinEndsInv, RefreshEndsInv DEF CallReturns
  <1>5. ASSUME LifecycleInv, NEW c \in Callers,
               \/ Start(c) \/ Close(c) \/ Refresh(c)
               \/ StartCancelled(c) \/ JoinCancelled(c) \/ RefreshCancelled(c)
        PROVE  LifecycleInv'
    BY <1>5, StartInv, CloseInv, RefreshInv, StartCancelledInv, JoinEndsInv,
       RefreshEndsInv
  <1>6. QED
    BY <1>1, <1>2, <1>3, <1>4, <1>5 DEF Next

\* The lifecycle invariant holds in every reachable state.
THEOREM LifecycleInvariance == Spec => []LifecycleInv
  BY InitLifecycle, LifecycleStep, PTL DEF Spec

\* Types, the lock belongs to the one caller that starts or joins, and a
\* successful update means a value from a gateway that supports the read.
THEOREM LifecycleTypeCorrect == Spec => []TypeOK
  <1>1. LifecycleInv => TypeOK
    BY DEF LifecycleInv
  <1>2. QED
    BY <1>1, LifecycleInvariance, PTL

\* At most one read and one timer are alive, whatever callers request, start,
\* close or are cancelled (async_request_refresh, async_start).
THEOREM SingleReadAndTimer == Spec => []OneReadOneTimer
  <1>1. LifecycleInv => OneReadOneTimer
    BY DEF LifecycleInv, TasksReferenced, OneReadOneTimer
  <1>2. QED
    BY <1>1, LifecycleInvariance, PTL

\* A close that has let go of the lock has left no task behind (_close).
THEOREM CloseJoinsTasks == Spec => []ClosedIsJoined
  <1>1. LifecycleInv => ClosedIsJoined
    BY DEF LifecycleInv
  <1>2. QED
    BY <1>1, LifecycleInvariance, PTL

\* A started coordinator that is open has its timer, unless the gateway lacks
\* the root (async_start, _poll).
THEOREM OpenCoordinatorPolls == Spec => []OpenIsPolled
  <1>1. LifecycleInv => OpenIsPolled
    BY DEF LifecycleInv
  <1>2. QED
    BY <1>1, LifecycleInvariance, PTL

\* A closed coordinator takes nothing from a late read (_refresh).
THEOREM ClosedTakesNothing == Spec => QuietWhileClosed
  <1>1. ASSUME Next, closed
        PROVE  UNCHANGED <<data, supported>> /\ (success' => success)
    <2>1. ASSUME NEW r \in Reads, ReadEnds(r) PROVE UNCHANGED health
      BY <1>1, <2>1 DEF ReadEnds, ReadAnswers, ReadCancelled, Commits
    <2>2. ASSUME NEW t \in Timers, TimerRuns(t) PROVE UNCHANGED health
      BY <2>2 DEF TimerRuns, TimerWakes, TimerResumes, TimerCancelled
    <2>3. ASSUME NEW c \in Callers,
                 \/ CallReturns(c)
                 \/ Start(c) \/ Close(c) \/ Refresh(c)
                 \/ StartCancelled(c) \/ JoinCancelled(c) \/ RefreshCancelled(c)
          PROVE  UNCHANGED <<data, supported>> /\ (success' => success)
      BY <2>3
         DEF CallReturns, StartReturns, JoinReturns, RefreshReturns, Start,
             Close, Refresh, StartCancelled, JoinCancelled, RefreshCancelled,
             StartsClosing, health
    <2>4. QED
      BY <1>1, <2>1, <2>2, <2>3 DEF Next, health
  <1>2. [Next]_vars =>
            [closed => UNCHANGED <<data, supported>> /\ (success' => success)]_vars
    BY <1>1
  <1>3. QED
    BY <1>2, PTL DEF Spec, QuietWhileClosed
=============================================================================
