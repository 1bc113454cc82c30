------------------------ MODULE RegisterWritesProofs ------------------------
(***************************************************************************)
(* Proofs about RegisterWrites.                                            *)
(*                                                                         *)
(* WritesInv is inductive: posts are never ahead of their call, a call     *)
(* that has not started has neither posts nor writes, and a call moves on  *)
(* only over a write that was carried out.  SerialInv adds, for calls made *)
(* one after the other, what the call under way has already made of the    *)
(* dates of the holiday.                                                   *)
(***************************************************************************)
EXTENDS MCRegisterWrites, TLAPS

PostsBehind == \A r \in net : r.step <= step[r.call]

IdleUntouched ==
    \A c \in Calls :
        status[c] = "idle" =>
            /\ step[c] = 1
            /\ Performed(c) = {}
            /\ \A r \in net : r.call # c

AcceptedPerformed ==
    \A c \in Calls : status[c] = "accepted" => step[c] \in Performed(c)

PausesForMore == \A c \in Calls : status[c] = "pausing" => attempt[c] < Retries

WritesInv ==
    /\ TypeOK /\ PausesForMore /\ PostsBehind
    /\ IdleUntouched /\ AcceptedPerformed /\ CallsApplyPrefix

-----------------------------------------------------------------------------
\* The programs, write by write.
LEMMA ProgramLengths ==
    /\ Len(ActivateAway) = 5 /\ Len(CancelThenMode) = 3
    /\ Len(TwoFields) = 2 /\ Len(OneField) = 1
    /\ OneField \in Programs
    /\ \A p \in Programs : Len(p) \in 1..5
  BY DEF ActivateAway, CancelThenMode, TwoFields, OneField, Programs

LEMMA ProgramOfKind ==
    \A kind \in Kinds, b \in BOOLEAN : ProgramOf(kind, b) \in Programs
  BY KindsAssumption DEF ProgramOf, Programs

\* The last write of a call, which its program alone decides.
LEMMA FinalType ==
    ASSUME TypeOK PROVE \A c \in Calls : Final(c) \in 1..5
  BY ProgramLengths DEF TypeOK, Final

LEMMA FinalKept ==
    ASSUME UNCHANGED program PROVE \A c \in Calls : Final(c)' = Final(c)
  BY DEF Final

LEMMA ChangedType ==
    ASSUME NEW h \in [start : BOOLEAN, end : BOOLEAN], NEW w
    PROVE  Changed(h, w) \in [start : BOOLEAN, end : BOOLEAN]
  BY DEF Changed

\* The post of the write that a call is at is a post.
LEMMA PostIsPost ==
    ASSUME TypeOK, NEW c \in Calls
    PROVE  /\ Post(c) \in Posts
           /\ Post(c).call = c /\ Post(c).step = step[c]
           /\ Post(c).attempt = attempt[c]
  BY DEF Post, Posts, TypeOK

\* What becomes of a post that is given up does not put a post on its way.
LEMMA AbandonedShrinks ==
    ASSUME NEW c \in Calls, Abandoned(c) PROVE net' \subseteq net
  BY DEF Abandoned

-----------------------------------------------------------------------------
\* Nothing has started.
LEMMA InitWritesInv == Init => WritesInv
  <1> SUFFICES ASSUME Init PROVE WritesInv
    OBVIOUS
  <1>1. TypeOK
    <2>1. program \in [Calls -> Programs]
      BY ProgramLengths DEF Init
    <2>2. step \in [Calls -> 1..5] /\ attempt \in [Calls -> 0..Retries]
      BY RetriesAssumption DEF Init
    <2>3. \A c \in Calls : step[c] <= Final(c)
      <3> TAKE c \in Calls
      <3>1. step[c] = 1 /\ program[c] = OneField
        BY DEF Init
      <3>2. QED
        BY <3>1, ProgramLengths DEF Final
    <2>4. /\ status \in [Calls -> {"idle", "ready", "waiting", "accepted", "refused",
                                   "pausing", "done", "failed"}]
          /\ net \subseteq Posts /\ applied \subseteq [call : Calls, step : 1..5]
          /\ holiday \in [start : BOOLEAN, end : BOOLEAN]
      BY DEF Init
    <2>5. shown \in BOOLEAN /\ writable \in BOOLEAN
      BY DEF Init
    <2>6. QED
      BY <2>1, <2>2, <2>3, <2>4, <2>5 DEF TypeOK
  <1>2. PausesForMore /\ PostsBehind /\ IdleUntouched /\ AcceptedPerformed
    BY DEF Init, PausesForMore, PostsBehind, IdleUntouched, AcceptedPerformed, Performed
  <1>3. CallsApplyPrefix
    BY DEF Init, CallsApplyPrefix, Performed
  <1>4. QED
    BY <1>1, <1>2, <1>3 DEF WritesInv

\* Every step keeps the types.
LEMMA NextTypeOK == TypeOK /\ PausesForMore /\ IdleUntouched /\ Next => TypeOK'
  <1> SUFFICES ASSUME TypeOK, PausesForMore, IdleUntouched, Next PROVE TypeOK'
    OBVIOUS
  <1>. USE RetriesAssumption, FinalKept DEF TypeOK
  <1>1. ASSUME NEW c \in Calls, CallStarts(c) PROVE TypeOK'
    <2>1. PICK kind \in Kinds : program' = [program EXCEPT ![c] = ProgramOf(kind, shown)]
      BY <1>1 DEF CallStarts
    <2>2. ProgramOf(kind, shown) \in Programs
      BY ProgramOfKind
    <2>3. /\ status' = [status EXCEPT ![c] = "ready"]
          /\ UNCHANGED <<step, attempt, net, applied, holiday, shown, writable>>
      BY <1>1 DEF CallStarts
    <2>4. step[c] = 1
      BY <1>1 DEF CallStarts, IdleUntouched
    <2>5. \A d \in Calls : step[d] <= Final(d)'
      <3> TAKE d \in Calls
      <3>1. CASE d = c
        <4>1. program'[c] \in Programs
          BY <2>1, <2>2
        <4>2. Final(d)' \in 1..5
          BY <3>1, <4>1, ProgramLengths DEF Final
        <4>3. QED
          BY <2>4, <3>1, <4>2
      <3>2. CASE d # c
        <4>1. Final(d)' = Final(d)
          BY <2>1, <3>2 DEF Final
        <4>2. QED
          BY <2>3, <4>1
      <3>3. QED
        BY <3>1, <3>2
    <2>6. QED
      BY <2>1, <2>2, <2>3, <2>5
  <1>2. ASSUME NEW c \in Calls, WritePosted(c) \/ WriteBlocked(c) PROVE TypeOK'
    <2>1. Post(c) \in Posts
      BY PostIsPost
    <2>2. QED
      BY <1>2, <2>1 DEF WritePosted, WriteBlocked
  <1>3. ASSUME NEW c \in Calls, Accepted(c) PROVE TypeOK'
    <2>1. Final(c) \in 1..5
      BY FinalType
    <2>2. UNCHANGED <<program, net, applied, holiday, shown, writable>>
      BY <1>3 DEF Accepted
    <2>3. CASE step[c] < Final(c)
      <3>1. /\ step' = [step EXCEPT ![c] = @ + 1]
            /\ attempt' = [attempt EXCEPT ![c] = 0]
            /\ status' = [status EXCEPT ![c] = "ready"]
        BY <1>3, <2>3 DEF Accepted
      <3>2. step' \in [Calls -> 1..5]
        BY <2>1, <2>3, <3>1
      <3>3. \A d \in Calls : step'[d] <= Final(d)
        BY <2>1, <2>3, <3>1
      <3>4. attempt' \in [Calls -> 0..Retries]
        BY <3>1
      <3>5. QED
        BY <2>2, <3>1, <3>2, <3>3, <3>4
    <2>4. CASE ~(step[c] < Final(c))
      BY <1>3, <2>2, <2>4 DEF Accepted
    <2>5. QED
      BY <2>3, <2>4
  <1>4. ASSUME NEW c \in Calls, PostFails(c) \/ CallCancelled(c) PROVE TypeOK'
    <2>1. net' \subseteq net
      BY <1>4, AbandonedShrinks DEF PostFails, CallCancelled
    <2>2. UNCHANGED <<program, step, attempt, applied, holiday, shown, writable>>
      BY <1>4 DEF PostFails, CallCancelled
    <2>3. \E x \in {"pausing", "failed"} : status' = [status EXCEPT ![c] = x]
      BY <1>4 DEF PostFails, CallCancelled
    <2>4. QED
      BY <2>1, <2>2, <2>3
  <1>5. ASSUME NEW c \in Calls, PostRepeated(c) \/ Refused(c) PROVE TypeOK'
    <2>1. CASE Refused(c)
      BY <2>1 DEF Refused
    <2>2. CASE PostRepeated(c)
      <3>1. attempt[c] + 1 \in 0..Retries
        BY <2>2 DEF PostRepeated, PausesForMore
      <3>2. [Post(c) EXCEPT !.attempt = @ + 1] \in Posts
        BY <3>1 DEF Post, Posts
      <3>3. attempt' \in [Calls -> 0..Retries]
        BY <2>2, <3>1 DEF PostRepeated
      <3>4. QED
        BY <2>2, <3>2, <3>3 DEF PostRepeated
    <2>3. QED
      BY <1>5, <2>1, <2>2
  <1>6. ASSUME NEW r \in net, PostApplied(r) PROVE TypeOK'
    <2>1. r.call \in Calls /\ WriteOf(r) \in [call : Calls, step : 1..5]
      BY DEF WriteOf, Posts
    <2>2. holiday' \in [start : BOOLEAN, end : BOOLEAN]
      BY <1>6, ChangedType DEF PostApplied
    <2>3. \/ status' = [status EXCEPT ![r.call] = "accepted"]
          \/ status' = status
      BY <1>6 DEF PostApplied
    <2>4. /\ net' = net \ {r} /\ applied' = applied \cup {WriteOf(r)}
          /\ UNCHANGED <<program, step, attempt, shown, writable>>
      BY <1>6 DEF PostApplied
    <2>5. QED
      BY <2>1, <2>2, <2>3, <2>4
  <1>7. ASSUME NEW r \in net, PostRefused(r) PROVE TypeOK'
    BY <1>7 DEF PostRefused
  <1>8. CASE ZonePolled \/ FenceMoves
    BY <1>8 DEF ZonePolled, FenceMoves, calls
  <1>9. QED
    BY <1>1, <1>2, <1>3, <1>4, <1>5, <1>6, <1>7, <1>8 DEF Next, CallRuns

\* Every step keeps the rest of the invariant that speaks of one call and
\* its posts.
LEMMA NextCalls ==
    TypeOK /\ PausesForMore /\ PostsBehind /\ Next => PausesForMore' /\ PostsBehind'
  <1> SUFFICES ASSUME TypeOK, PausesForMore, PostsBehind, Next
               PROVE  PausesForMore' /\ PostsBehind'
    OBVIOUS
  <1>. USE RetriesAssumption DEF TypeOK, PausesForMore, PostsBehind
  <1>0. \A r \in net : r.call \in Calls /\ r.step \in 1..5
    BY DEF Posts
  <1>1. ASSUME NEW c \in Calls, CallStarts(c) PROVE PausesForMore' /\ PostsBehind'
    BY <1>1 DEF CallStarts
  <1>2. ASSUME NEW c \in Calls, WritePosted(c) \/ WriteBlocked(c)
        PROVE  PausesForMore' /\ PostsBehind'
    <2>1. \A r \in net' : r \in net \/ r = Post(c)
      BY <1>2 DEF WritePosted, WriteBlocked
    <2>2. UNCHANGED <<step, attempt>> /\ \A d \in Calls : status'[d] = "pausing" => status[d] = "pausing"
      BY <1>2 DEF WritePosted, WriteBlocked
    <2>3. Post(c).call = c /\ Post(c).step = step[c]
      BY DEF Post
    <2>4. QED
      BY <2>1, <2>2, <2>3
  <1>3. ASSUME NEW c \in Calls, Accepted(c) PROVE PausesForMore' /\ PostsBehind'
    <2>1. CASE step[c] < Final(c)
      <3>1. /\ step' = [step EXCEPT ![c] = @ + 1] /\ net' = net
            /\ attempt' = [attempt EXCEPT ![c] = 0]
            /\ status' = [status EXCEPT ![c] = "ready"]
        BY <1>3, <2>1 DEF Accepted
      <3>2. \A d \in Calls : step[d] <= step'[d]
        BY <3>1
      <3>3. PostsBehind'
        BY <1>0, <3>1, <3>2
      <3>4. PausesForMore'
        BY <3>1
      <3>5. QED
        BY <3>3, <3>4
    <2>2. CASE ~(step[c] < Final(c))
      BY <1>3, <1>0, <2>2 DEF Accepted
    <2>3. QED
      BY <2>1, <2>2
  <1>4. ASSUME NEW c \in Calls, PostFails(c) \/ CallCancelled(c)
        PROVE  PausesForMore' /\ PostsBehind'
    <2>1. net' \subseteq net
      BY <1>4, AbandonedShrinks DEF PostFails, CallCancelled
    <2>2. QED
      BY <1>4, <1>0, <2>1 DEF PostFails, CallCancelled
  <1>5. ASSUME NEW c \in Calls, PostRepeated(c) \/ Refused(c)
        PROVE  PausesForMore' /\ PostsBehind'
    <2>1. \A r \in net' : r \in net \/ (r.call = c /\ r.step = step[c])
      BY <1>5 DEF PostRepeated, Refused, Post
    <2>2. step' = step
      BY <1>5 DEF PostRepeated, Refused
    <2>3. PausesForMore'
      BY <1>5 DEF PostRepeated, Refused
    <2>4. QED
      BY <2>1, <2>2, <2>3
  <1>6. ASSUME NEW r \in net, PostApplied(r) \/ PostRefused(r)
        PROVE  PausesForMore' /\ PostsBehind'
    BY <1>6, <1>0 DEF PostApplied, PostRefused
  <1>7. CASE ZonePolled \/ FenceMoves
    BY <1>7 DEF ZonePolled, FenceMoves, calls
  <1>8. QED
    BY <1>1, <1>2, <1>3, <1>4, <1>5, <1>6, <1>7 DEF Next, CallRuns

\* The writes that a post carried out adds, and those that stay.
LEMMA PerformedGrows ==
    ASSUME NEW r, applied' = applied \cup {WriteOf(r)}, r.step \in 1..5
    PROVE  \A c \in Calls :
              Performed(c)' = IF c = r.call THEN Performed(c) \cup {r.step} ELSE Performed(c)
  BY DEF Performed, WriteOf

LEMMA PerformedKept ==
    ASSUME UNCHANGED applied PROVE \A c \in Calls : Performed(c)' = Performed(c)
  BY DEF Performed

\* Every step keeps the rest of the invariant: what a call has written.
LEMMA NextPerformed == WritesInv /\ Next => (IdleUntouched /\ AcceptedPerformed /\ CallsApplyPrefix)'
  <1> SUFFICES ASSUME WritesInv, Next
               PROVE  (IdleUntouched /\ AcceptedPerformed /\ CallsApplyPrefix)'
    OBVIOUS
  <1>. USE FinalKept, PerformedKept
       DEF WritesInv, PostsBehind, IdleUntouched, AcceptedPerformed, CallsApplyPrefix
  <1>0. /\ \A r \in net : r.call \in Calls /\ r.step \in 1..5
        /\ step \in [Calls -> 1..5] /\ \A c \in Calls : step[c] <= Final(c) /\ Final(c) \in 1..5
        /\ status \in [Calls -> {"idle", "ready", "waiting", "accepted", "refused",
                                 "pausing", "done", "failed"}]
    BY FinalType DEF TypeOK, Posts
  <1>1. ASSUME NEW c \in Calls, CallStarts(c)
        PROVE  (IdleUntouched /\ AcceptedPerformed /\ CallsApplyPrefix)'
    <2>1. /\ status[c] = "idle" /\ status' = [status EXCEPT ![c] = "ready"]
          /\ UNCHANGED <<step, net, applied>>
          /\ \A d \in Calls : d # c => program'[d] = program[d]
      BY <1>1 DEF CallStarts, TypeOK
    <2>2. \A d \in Calls : d # c => Final(d)' = Final(d)
      BY <2>1 DEF Final
    <2>3. QED
      BY <1>0, <2>1, <2>2
  <1>2. ASSUME NEW c \in Calls, WritePosted(c) \/ WriteBlocked(c)
        PROVE  (IdleUntouched /\ AcceptedPerformed /\ CallsApplyPrefix)'
    <2>1. /\ status[c] = "ready" /\ UNCHANGED <<program, step, applied>>
          /\ \E x \in {"waiting", "failed"} : status' = [status EXCEPT ![c] = x]
          /\ \A r \in net' : r \in net \/ r = Post(c)
      BY <1>2 DEF WritePosted, WriteBlocked
    <2>2. Post(c).call = c
      BY DEF Post
    <2>3. QED
      BY <1>0, <2>1, <2>2
  <1>3. ASSUME NEW c \in Calls, Accepted(c)
        PROVE  (IdleUntouched /\ AcceptedPerformed /\ CallsApplyPrefix)'
    <2>1. status[c] = "accepted" /\ UNCHANGED <<program, net, applied>>
      BY <1>3 DEF Accepted
    <2>2. CASE step[c] < Final(c)
      <3>1. /\ step' = [step EXCEPT ![c] = @ + 1]
            /\ status' = [status EXCEPT ![c] = "ready"]
        BY <1>3, <2>2 DEF Accepted
      <3>2. QED
        BY <1>0, <2>1, <3>1
    <2>3. CASE ~(step[c] < Final(c))
      <3>1. step' = step /\ status' = [status EXCEPT ![c] = "done"]
        BY <1>3, <2>3 DEF Accepted
      <3>2. step[c] = Final(c)
        BY <1>0, <2>3
      <3>3. Performed(c) = 1..Final(c)
        <4>1. Performed(c) \subseteq 1..Final(c)
          BY <3>2
        <4>2. \A s \in 1..Final(c) : s = step[c] \/ s \in 1..(step[c] - 1)
          BY <1>0, <3>2
        <4>3. step[c] \in Performed(c)
          BY <2>1
        <4>4. QED
          BY <4>1, <4>2, <4>3
      <3>4. QED
        BY <1>0, <2>1, <3>1, <3>3
    <2>4. QED
      BY <2>2, <2>3
  <1>4. ASSUME NEW c \in Calls, PostFails(c) \/ CallCancelled(c)
        PROVE  (IdleUntouched /\ AcceptedPerformed /\ CallsApplyPrefix)'
    <2>1. net' \subseteq net
      BY <1>4, AbandonedShrinks DEF PostFails, CallCancelled
    <2>2. /\ status[c] # "idle" /\ UNCHANGED <<program, step, applied>>
          /\ \E x \in {"pausing", "failed"} : status' = [status EXCEPT ![c] = x]
      BY <1>4 DEF PostFails, CallCancelled
    <2>3. QED
      BY <1>0, <2>1, <2>2
  <1>5. ASSUME NEW c \in Calls, PostRepeated(c) \/ Refused(c)
        PROVE  (IdleUntouched /\ AcceptedPerformed /\ CallsApplyPrefix)'
    <2>1. /\ status[c] # "idle" /\ UNCHANGED <<program, step, applied>>
          /\ \E x \in {"waiting", "failed"} : status' = [status EXCEPT ![c] = x]
      BY <1>5 DEF PostRepeated, Refused
    <2>2. \A r \in net' : r \in net \/ r.call = c
      BY <1>5 DEF PostRepeated, Refused, Post
    <2>3. QED
      BY <1>0, <2>1, <2>2
  <1>6. ASSUME NEW r \in net, PostApplied(r)
        PROVE  (IdleUntouched /\ AcceptedPerformed /\ CallsApplyPrefix)'
    <2>1. /\ net' = net \ {r} /\ applied' = applied \cup {WriteOf(r)}
          /\ UNCHANGED <<program, step>>
          /\ \/ status' = [status EXCEPT ![r.call] = "accepted"] /\ r.step = step[r.call]
                /\ status[r.call] = "waiting"
             \/ status' = status
      BY <1>6 DEF PostApplied, Awaited, Post
    <2>2. \A c \in Calls :
              Performed(c)' = IF c = r.call THEN Performed(c) \cup {r.step} ELSE Performed(c)
      BY <1>0, <2>1, PerformedGrows
    <2>3. status[r.call] # "idle" /\ r.step <= step[r.call] /\ r.step \in 1..5
      BY <1>0
    <2>4. IdleUntouched' /\ AcceptedPerformed'
      BY <1>0, <2>1, <2>2, <2>3
    <2>5. CallsApplyPrefix'
      <3> SUFFICES ASSUME NEW c \in Calls
                   PROVE  /\ 1..(step[c] - 1) \subseteq Performed(c)'
                          /\ Performed(c)' \subseteq 1..step[c]
                          /\ status'[c] = "done" => Performed(c)' = 1..Final(c)
        BY <2>1
      <3>1. CASE c # r.call
        BY <1>0, <2>1, <2>2, <3>1
      <3>2. CASE c = r.call
        <4>1. Performed(c)' = Performed(c) \cup {r.step}
          BY <2>2, <3>2
        <4>2. r.step \in 1..step[c] /\ step[c] <= Final(c) /\ step[c] \in 1..5
          BY <1>0, <2>3, <3>2
        <4>3. 1..(step[c] - 1) \subseteq Performed(c)' /\ Performed(c)' \subseteq 1..step[c]
          BY <4>1, <4>2
        <4>4. status'[c] = "done" => status[c] = "done"
          BY <1>0, <2>1, <3>2
        <4>5. status[c] = "done" => Performed(c)' = 1..Final(c)
          BY <1>0, <4>1, <4>2
        <4>6. QED
          BY <4>3, <4>4, <4>5
      <3>3. QED
        BY <3>1, <3>2
    <2>6. QED
      BY <2>4, <2>5
  <1>7. ASSUME NEW r \in net, PostRefused(r)
        PROVE  (IdleUntouched /\ AcceptedPerformed /\ CallsApplyPrefix)'
    <2>1. /\ net' = net \ {r} /\ UNCHANGED <<program, step, applied>>
          /\ \/ status' = [status EXCEPT ![r.call] = "refused"] /\ status[r.call] = "waiting"
             \/ status' = status
      BY <1>7 DEF PostRefused, Awaited
    <2>2. QED
      BY <1>0, <2>1
  <1>8. CASE ZonePolled \/ FenceMoves
    BY <1>8 DEF ZonePolled, FenceMoves, calls
  <1>9. QED
    BY <1>1, <1>2, <1>3, <1>4, <1>5, <1>6, <1>7, <1>8 DEF Next, CallRuns

\* The inductive invariant of RegisterWrites, whatever the calls overlap.
THEOREM WritesInvariance == Spec => []WritesInv
  <1>1. Init => WritesInv
    BY InitWritesInv
  <1>2. WritesInv /\ [Next]_vars => WritesInv'
    <2>1. WritesInv /\ Next => WritesInv'
      BY NextTypeOK, NextCalls, NextPerformed DEF WritesInv
    <2>2. WritesInv /\ UNCHANGED vars => WritesInv'
      BY DEF WritesInv, TypeOK, PausesForMore, PostsBehind, IdleUntouched,
             AcceptedPerformed, CallsApplyPrefix, Performed, Final, vars, calls
    <2>3. QED
      BY <2>1, <2>2
  <1>3. QED
    BY <1>1, <1>2, PTL DEF Spec

\* The variables have their types: the retries of execute are bounded.
THEOREM WritesTypeCorrect == Spec => []TypeOK
  <1>1. WritesInv => TypeOK
    BY DEF WritesInv
  <1>2. QED
    BY <1>1, WritesInvariance, PTL

\* The controller carries out a prefix of every call's writes, and all of
\* them when the call reports success.
THEOREM CallsApplyTheirPrefix == Spec => []CallsApplyPrefix
  <1>1. WritesInv => CallsApplyPrefix
    BY DEF WritesInv
  <1>2. QED
    BY <1>1, WritesInvariance, PTL

-----------------------------------------------------------------------------
(***************************************************************************)
(* Calls made one after the other.                                         *)
(***************************************************************************)

\* A call that runs, or of which a post is still under way.
Engaged(c) == (status[c] # "idle" /\ ~Ended(c)) \/ \E r \in net : r.call = c

OneEngaged == \A c, d \in Calls : Engaged(c) /\ Engaged(d) => c = d

Begun(c) == step[c] >= 2 \/ status[c] = "accepted"

\* What the call under way has made of the dates so far.
DatesSoFar ==
    \A c \in Calls : Engaged(c) /\ Begun(c) =>
        /\ program[c] = ActivateAway => holiday.end
        /\ program[c] = CancelThenMode => ~holiday.start

SerialInv == OneEngaged /\ DatesSoFar /\ HolidayHasEnd

SerialNext == Next /\ \A c \in Calls : CallStarts(c) => Settled

\* Which writes of a program touch the dates.
LEMMA DateWrites ==
    /\ \A i \in 1..5 : ActivateAway[i] \in {"start", "end", "field"}
    /\ \A i \in 1..5 : ActivateAway[i] = "start" <=> i = 5
    /\ \A i \in 1..5 : ActivateAway[i] = "end" <=> i = 1
    /\ \A i \in 1..3 : CancelThenMode[i] \in {"noStart", "noEnd", "field"}
    /\ \A i \in 1..3 : CancelThenMode[i] = "noStart" <=> i = 1
    /\ \A i \in 1..3 : CancelThenMode[i] = "noEnd" <=> i = 2
    /\ \A i \in 1..2 : TwoFields[i] = "field"
    /\ OneField[1] = "field"
    /\ ActivateAway # CancelThenMode
  <1>1. ActivateAway # CancelThenMode
    <2>1. ActivateAway[1] = "end" /\ CancelThenMode[1] = "noStart"
      BY DEF ActivateAway, CancelThenMode
    <2>2. QED
      BY <2>1
  <1>2. QED
    BY <1>1 DEF ActivateAway, CancelThenMode, TwoFields, OneField

\* The effect of a write on the dates.
LEMMA ChangedDates ==
    ASSUME NEW h \in [start : BOOLEAN, end : BOOLEAN]
    PROVE  /\ Changed(h, "field") = h
           /\ Changed(h, "start").start /\ Changed(h, "start").end = h.end
           /\ Changed(h, "end").end /\ Changed(h, "end").start = h.start
           /\ ~Changed(h, "noStart").start /\ Changed(h, "noStart").end = h.end
           /\ ~Changed(h, "noEnd").end /\ Changed(h, "noEnd").start = h.start
  BY DEF Changed

\* A step that leaves the dates alone and engages no call keeps SerialInv.
LEMMA SerialKept ==
    ASSUME SerialInv, holiday' = holiday,
           \A c \in Calls : Engaged(c)' =>
              Engaged(c) /\ program'[c] = program[c] /\ (Begun(c)' => Begun(c))
    PROVE  SerialInv'
  <1>1. OneEngaged'
    BY DEF SerialInv, OneEngaged
  <1>2. DatesSoFar'
    BY DEF SerialInv, DatesSoFar
  <1>3. HolidayHasEnd'
    BY DEF SerialInv, HolidayHasEnd
  <1>4. QED
    BY <1>1, <1>2, <1>3 DEF SerialInv

\* A call starts only when no other is engaged.
LEMMA StartKeepsSerial ==
    ASSUME WritesInv, SerialInv, Settled, NEW c \in Calls, CallStarts(c)
    PROVE  SerialInv'
  <1>1. /\ status[c] = "idle" /\ status' = [status EXCEPT ![c] = "ready"]
        /\ UNCHANGED <<step, net, holiday>> /\ net = {}
    BY DEF CallStarts, Settled
  <1>2. status \in [Calls -> {"idle", "ready", "waiting", "accepted", "refused",
                             "pausing", "done", "failed"}]
    BY DEF WritesInv, TypeOK
  <1>3. \A d \in Calls : Engaged(d)' => d = c
    <2> SUFFICES ASSUME NEW d \in Calls, d # c PROVE ~Engaged(d)'
      OBVIOUS
    <2>1. status'[d] = status[d] /\ net' = {}
      BY <1>1, <1>2
    <2>2. status[d] = "idle" \/ status[d] \in {"done", "failed"}
      BY DEF Settled, Ended
    <2>3. QED
      BY <2>1, <2>2 DEF Engaged, Ended
  <1>4. step[c] = 1 /\ status'[c] = "ready"
    BY <1>1, <1>2 DEF WritesInv, IdleUntouched
  <1>5. ~Begun(c)'
    BY <1>1, <1>4 DEF Begun
  <1>6. OneEngaged'
    BY <1>3 DEF OneEngaged
  <1>7. DatesSoFar'
    BY <1>3, <1>5 DEF DatesSoFar
  <1>8. HolidayHasEnd'
    BY <1>1 DEF SerialInv, HolidayHasEnd
  <1>9. QED
    BY <1>6, <1>7, <1>8 DEF SerialInv

\* A post that is carried out finds the dates as its call has left them.
LEMMA ApplyKeepsSerial ==
    ASSUME WritesInv, SerialInv, NEW r \in net, PostApplied(r)
    PROVE  SerialInv'
  <1> DEFINE k == r.call
             w == program[k][r.step]
  <1>1. /\ k \in Calls /\ r.step \in 1..5 /\ r.step <= step[k]
        /\ step[k] <= Final(k) /\ step[k] \in 1..5 /\ Final(k) \in 1..5
        /\ program[k] \in Programs
        /\ holiday \in [start : BOOLEAN, end : BOOLEAN]
        /\ status \in [Calls -> {"idle", "ready", "waiting", "accepted", "refused",
                                 "pausing", "done", "failed"}]
    BY FinalType DEF WritesInv, TypeOK, PostsBehind, Posts
  <1>2. /\ net' = net \ {r} /\ holiday' = Changed(holiday, w)
        /\ UNCHANGED <<program, step>>
        /\ \/ status' = [status EXCEPT ![k] = "accepted"] /\ status[k] = "waiting"
              /\ r.step = step[k]
           \/ status' = status
    BY DEF PostApplied, Awaited, Post
  <1>3. \A c \in Calls : Engaged(c)' => Engaged(c)
    BY <1>1, <1>2 DEF Engaged, Ended
  <1>4. Engaged(k)
    BY DEF Engaged
  <1>5. OneEngaged'
    BY <1>3 DEF SerialInv, OneEngaged
  <1>6. \A c \in Calls : Engaged(c)' => c = k
    BY <1>1, <1>3, <1>4 DEF SerialInv, OneEngaged
  <1>7. r.step # 1 => Begun(k)
    BY <1>1 DEF Begun
  <1>8. Begun(k)' => Begun(k) \/ r.step = 1
    BY <1>1, <1>2 DEF Begun
  <1>9. CASE program[k] = ActivateAway
    <2>1. Begun(k) => holiday.end
      BY <1>1, <1>4, <1>9 DEF SerialInv, DatesSoFar
    <2>2. \/ r.step = 1 /\ holiday'.end
          \/ r.step # 1 /\ holiday'.end = holiday.end
      BY <1>1, <1>2, <1>9, DateWrites, ChangedDates
    <2>3. holiday'.end
      BY <1>7, <2>1, <2>2
    <2>4. DatesSoFar'
      BY <1>2, <1>6, <1>9, <2>3, DateWrites DEF DatesSoFar
    <2>5. QED
      BY <1>5, <2>3, <2>4 DEF SerialInv, HolidayHasEnd
  <1>10. CASE program[k] = CancelThenMode
    <2>1. Final(k) = 3
      BY <1>10, ProgramLengths DEF Final
    <2>2. r.step \in 1..3
      BY <1>1, <2>1
    <2>3. Begun(k) => ~holiday.start
      BY <1>1, <1>4, <1>10 DEF SerialInv, DatesSoFar
    <2>4. r.step = 1 => ~holiday'.start
      BY <1>2, <1>1, <1>10, <2>2, DateWrites, ChangedDates
    <2>5. r.step # 1 => holiday'.start = holiday.start
      BY <1>2, <1>1, <1>10, <2>2, DateWrites, ChangedDates
    <2>6. ~holiday'.start
      BY <1>7, <2>3, <2>4, <2>5
    <2>7. DatesSoFar'
      BY <1>2, <1>6, <1>10, <2>6, DateWrites DEF DatesSoFar
    <2>8. QED
      BY <1>5, <2>6, <2>7 DEF SerialInv, HolidayHasEnd
  <1>11. CASE program[k] \in {TwoFields, OneField} /\ program[k] \notin {ActivateAway, CancelThenMode}
    <2>1. r.step <= Final(k) /\ Final(k) \in {1, 2}
      BY <1>1, <1>11, ProgramLengths DEF Final
    <2>2. w = "field"
      <3>1. CASE program[k] = TwoFields
        <4>1. r.step \in 1..2
          BY <1>1, <2>1
        <4>2. QED
          BY <3>1, <4>1, DateWrites
      <3>2. CASE program[k] = OneField
        <4>1. Final(k) = 1
          BY <3>2, ProgramLengths DEF Final
        <4>2. r.step = 1
          BY <1>1, <2>1, <4>1
        <4>3. QED
          BY <3>2, <4>2, DateWrites
      <3>3. QED
        BY <1>11, <3>1, <3>2
    <2>3. holiday' = holiday
      BY <1>1, <1>2, <2>2, ChangedDates
    <2>4. DatesSoFar'
      BY <1>2, <1>6, <1>11 DEF DatesSoFar
    <2>5. QED
      BY <1>5, <2>3, <2>4 DEF SerialInv, HolidayHasEnd
  <1>12. QED
    BY <1>1, <1>9, <1>10, <1>11 DEF Programs

\* Every step of calls made one after the other keeps SerialInv.
LEMMA NextSerialInv == WritesInv /\ SerialInv /\ SerialNext => SerialInv'
  <1> SUFFICES ASSUME WritesInv, SerialInv, SerialNext PROVE SerialInv'
    OBVIOUS
  <1>0. status \in [Calls -> {"idle", "ready", "waiting", "accepted", "refused",
                             "pausing", "done", "failed"}]
        /\ step \in [Calls -> 1..5]
    BY DEF WritesInv, TypeOK
  <1>1. ASSUME NEW c \in Calls, CallStarts(c) PROVE SerialInv'
    BY <1>1, StartKeepsSerial DEF SerialNext
  <1>2. ASSUME NEW c \in Calls, WritePosted(c) \/ WriteBlocked(c) PROVE SerialInv'
    <2>1. /\ status[c] = "ready" /\ UNCHANGED <<program, step, holiday>>
          /\ \E x \in {"waiting", "failed"} : status' = [status EXCEPT ![c] = x]
          /\ \A r \in net' : r \in net \/ r = Post(c)
      BY <1>2 DEF WritePosted, WriteBlocked
    <2>2. Post(c).call = c
      BY DEF Post
    <2>3. QED
      BY <1>0, <2>1, <2>2, SerialKept DEF Engaged, Ended, Begun
  <1>3. ASSUME NEW c \in Calls, Accepted(c) PROVE SerialInv'
    <2>1. status[c] = "accepted" /\ UNCHANGED <<program, net, holiday>>
      BY <1>3 DEF Accepted
    <2>2. \/ /\ step' = [step EXCEPT ![c] = @ + 1]
             /\ status' = [status EXCEPT ![c] = "ready"]
          \/ step' = step /\ status' = [status EXCEPT ![c] = "done"]
      BY <1>3 DEF Accepted
    <2>3. \A d \in Calls : Engaged(d)' => Engaged(d) /\ (Begun(d)' => Begun(d))
      BY <1>0, <2>1, <2>2 DEF Engaged, Ended, Begun
    <2>4. QED
      BY <2>1, <2>3, SerialKept
  <1>4. ASSUME NEW c \in Calls,
               PostFails(c) \/ CallCancelled(c) \/ Refused(c) \/ PostRepeated(c)
        PROVE  SerialInv'
    <2>1. /\ status[c] \notin {"idle", "done", "failed"}
          /\ UNCHANGED <<program, step, holiday>>
          /\ \E x \in {"pausing", "failed", "waiting"} : status' = [status EXCEPT ![c] = x]
      BY <1>4 DEF PostFails, CallCancelled, Refused, PostRepeated
    <2>2. \A r \in net' : r \in net \/ r.call = c
      BY <1>4, AbandonedShrinks DEF PostFails, CallCancelled, Refused, PostRepeated, Post
    <2>3. \A d \in Calls : Engaged(d)' => Engaged(d) /\ (Begun(d)' => Begun(d))
      BY <1>0, <2>1, <2>2 DEF Engaged, Ended, Begun
    <2>4. QED
      BY <2>1, <2>3, SerialKept
  <1>5. ASSUME NEW r \in net, PostApplied(r) PROVE SerialInv'
    BY <1>5, ApplyKeepsSerial
  <1>6. ASSUME NEW r \in net, PostRefused(r) PROVE SerialInv'
    <2>1. /\ net' = net \ {r} /\ UNCHANGED <<program, step, holiday>>
          /\ \/ status' = [status EXCEPT ![r.call] = "refused"] /\ status[r.call] = "waiting"
             \/ status' = status
      BY <1>6 DEF PostRefused, Awaited
    <2>2. \A d \in Calls : Engaged(d)' => Engaged(d) /\ (Begun(d)' => Begun(d))
      BY <1>0, <2>1 DEF Engaged, Ended, Begun
    <2>3. QED
      BY <2>1, <2>2, SerialKept
  <1>7. CASE ZonePolled \/ FenceMoves
    <2>1. UNCHANGED <<calls, net, holiday>>
      BY <1>7 DEF ZonePolled, FenceMoves
    <2>2. QED
      BY <2>1, SerialKept DEF calls, Engaged, Ended, Begun
  <1>8. QED
    BY <1>1, <1>2, <1>3, <1>4, <1>5, <1>6, <1>7 DEF SerialNext, Next, CallRuns

\* When calls are made one after the other, a holiday that has begun has an
\* end, wherever a call failed and whatever posts were repeated.
THEOREM HolidaysHaveEnds == SerialSpec => []HolidayHasEnd
  <1>1. Init => WritesInv /\ SerialInv
    <2>1. Init => SerialInv
      BY DEF Init, SerialInv, OneEngaged, DatesSoFar, HolidayHasEnd, Engaged
    <2>2. QED
      BY <2>1, InitWritesInv
  <1>2. WritesInv /\ SerialInv /\ [SerialNext]_vars => (WritesInv /\ SerialInv)'
    <2>1. WritesInv /\ SerialNext => WritesInv'
      BY NextTypeOK, NextCalls, NextPerformed DEF WritesInv, SerialNext
    <2>2. WritesInv /\ UNCHANGED vars => WritesInv'
      BY DEF WritesInv, TypeOK, PausesForMore, PostsBehind, IdleUntouched,
             AcceptedPerformed, CallsApplyPrefix, Performed, Final, vars, calls
    <2>3. SerialInv /\ UNCHANGED vars => SerialInv'
      BY SerialKept DEF vars, calls, Engaged, Ended, Begun
    <2>4. QED
      BY <2>1, <2>2, <2>3, NextSerialInv
  <1>3. SerialInv => HolidayHasEnd
    BY DEF SerialInv
  <1>4. SerialSpec <=> Init /\ [][SerialNext]_vars
    BY DEF SerialSpec, SerialNext
  <1>5. QED
    BY <1>1, <1>2, <1>3, <1>4, PTL

\* The same beside calls that overlap: of the two kinds of behaviour that the
\* runs check, those whose calls are made one after the other keep the end of
\* every holiday, for any number of calls.
THEOREM SerialCallsEndHolidays == MCSpec => []SerialHolidayHasEnd
  <1> DEFINE Inv == WritesInv /\ (serial => SerialInv)
  <1>1. MCInit => Inv
    <2>1. Init => SerialInv
      BY DEF Init, SerialInv, OneEngaged, DatesSoFar, HolidayHasEnd, Engaged
    <2>2. QED
      BY <2>1, InitWritesInv DEF MCInit
  <1>2. Inv /\ [MCNext]_<<vars, serial>> => Inv'
    <2> SUFFICES ASSUME Inv, [MCNext]_<<vars, serial>> PROVE Inv'
      OBVIOUS
    <2>1. CASE MCNext
      <3>1. WritesInv'
        BY <2>1, NextTypeOK, NextCalls, NextPerformed DEF MCNext, WritesInv
      <3>2. serial => SerialNext
        BY <2>1 DEF MCNext, SerialNext
      <3>3. QED
        BY <2>1, <3>1, <3>2, NextSerialInv DEF MCNext
    <2>2. CASE UNCHANGED <<vars, serial>>
      <3>1. WritesInv'
        BY <2>2 DEF WritesInv, TypeOK, PausesForMore, PostsBehind, IdleUntouched,
               AcceptedPerformed, CallsApplyPrefix, Performed, Final, vars, calls
      <3>2. serial => SerialInv'
        BY <2>2, SerialKept DEF vars, calls, Engaged, Ended, Begun
      <3>3. QED
        BY <2>2, <3>1, <3>2
    <2>3. QED
      BY <2>1, <2>2
  <1>3. Inv => SerialHolidayHasEnd
    BY DEF SerialInv, SerialHolidayHasEnd
  <1>4. QED
    BY <1>1, <1>2, <1>3, PTL DEF MCSpec
=============================================================================
