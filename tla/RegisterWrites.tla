---------------------------- MODULE RegisterWrites ----------------------------
(***************************************************************************)
(* Service calls that write configuration registers of the controller:     *)
(* climate.py, water_heater.py, the other writable platforms and the       *)
(* schedule helpers, over the retrying client of graphql.py.               *)
(*                                                                         *)
(* A call is a short program of writes.  Each write passes the fence, is   *)
(* posted, and must be answered "ok" before the next; a post that times    *)
(* out or loses its connection is posted again, without another look at    *)
(* the fence, and nobody knows whether the gateway still carries out the   *)
(* one before.  Calls on one entity are not serialised.                    *)
(*                                                                         *)
(* The registers that matter to each other are kept: the two dates of a    *)
(* holiday.  Any other register is a write "field".                        *)
(***************************************************************************)
EXTENDS Integers, Sequences, FiniteSets

CONSTANTS
    Calls,      \* service calls, each made once
    Kinds,      \* what the calls of an instance may ask for
    Retries,    \* posts of a write after the first: 2 in the code
    MaxLate     \* bound: posts that the gateway may still carry out after
                \* their sender gave them up

ASSUME RetriesAssumption == Retries \in Nat
ASSUME LateAssumption == MaxLate \in Nat
ASSUME KindsAssumption ==
    Kinds \subseteq {"away", "preset", "temperature", "single"}

VARIABLES
    program,    \* of each call: its writes
    step,       \* of each call: the write it is at
    attempt,    \* of each call: posts of that write that failed
    status,     \* of each call
    net,        \* posts that the gateway may carry out
    applied,    \* writes that it has carried out
    holiday,    \* the dates of a holiday that the controller holds
    shown,      \* the coordinator's zone shows a holiday
    writable    \* the fence: target fresh and available, admission trusted

calls == <<program, step, attempt, status>>
vars == <<calls, net, applied, holiday, shown, writable>>

-----------------------------------------------------------------------------
Writes == {"start", "end", "noStart", "noEnd", "field"}

\* Mutant: the dates first.
ActivateAwayDatesFirst == <<"start", "end", "field", "field", "field">>

\* _activate_away: the start date last.
ActivateAway == <<"end", "field", "field", "field", "start">>

\* _cancel_away, then the mode.
CancelThenMode == <<"noStart", "noEnd", "field">>

\* Any other call: one register, or two.
OneField == <<"field">>
TwoFields == <<"field", "field">>

\* Only a holiday that is shown is cancelled.
ProgramOf(kind, isShown) ==
    CASE kind = "away" -> ActivateAway
      [] kind = "preset" -> IF isShown THEN CancelThenMode ELSE OneField
      [] kind = "temperature" -> TwoFields
      [] OTHER -> OneField

Programs == {ActivateAway, CancelThenMode, TwoFields, OneField}

\* The last write of a call.
Final(c) == Len(program[c])

Post(c) == [call |-> c, step |-> step[c], attempt |-> attempt[c]]

Posts == [call : Calls, step : 1..5, attempt : 0..Retries]

\* The write that a post is for.
WriteOf(r) == [call |-> r.call, step |-> r.step]

\* The sender of a post is still waiting for its answer.
Awaited(r) == status[r.call] = "waiting" /\ r = Post(r.call)

Late == {r \in net : ~Awaited(r)}

Ended(c) == status[c] \in {"done", "failed"}

\* What a write does to the dates of the holiday.
Changed(h, w) ==
    [start |-> IF w = "start" THEN TRUE ELSE IF w = "noStart" THEN FALSE ELSE h.start,
     end |-> IF w = "end" THEN TRUE ELSE IF w = "noEnd" THEN FALSE ELSE h.end]

-----------------------------------------------------------------------------
Init ==
    /\ program = [c \in Calls |-> OneField]
    /\ step = [c \in Calls |-> 1]
    /\ attempt = [c \in Calls |-> 0]
    /\ status = [c \in Calls |-> "idle"]
    /\ net = {} /\ applied = {}
    /\ holiday = [start |-> FALSE, end |-> FALSE]
    /\ shown = FALSE
    /\ writable = TRUE

\* A service call, or a schedule helper that has switched on.
CallStarts(c) ==
    /\ status[c] = "idle"
    /\ \E kind \in Kinds : program' = [program EXCEPT ![c] = ProgramOf(kind, shown)]
    /\ status' = [status EXCEPT ![c] = "ready"]
    /\ UNCHANGED <<step, attempt, net, applied, holiday, shown, writable>>

\* The next write: the fence is looked at right before its first post.
WritePosted(c) ==
    /\ status[c] = "ready"
    /\ writable
    /\ net' = net \cup {Post(c)}
    /\ status' = [status EXCEPT ![c] = "waiting"]
    /\ UNCHANGED <<program, step, attempt, applied, holiday, shown, writable>>

WriteBlocked(c) ==
    /\ status[c] = "ready"
    /\ ~writable
    /\ status' = [status EXCEPT ![c] = "failed"]
    /\ UNCHANGED <<program, step, attempt, net, applied, holiday, shown, writable>>

\* The gateway carries a post out, or answers that it has not.
PostApplied(r) ==
    /\ r \in net
    /\ net' = net \ {r}
    /\ applied' = applied \cup {WriteOf(r)}
    /\ holiday' = Changed(holiday, program[r.call][r.step])
    /\ status' = IF Awaited(r) THEN [status EXCEPT ![r.call] = "accepted"] ELSE status
    /\ UNCHANGED <<program, step, attempt, shown, writable>>

PostRefused(r) ==
    /\ r \in net
    /\ net' = net \ {r}
    /\ status' = IF Awaited(r) THEN [status EXCEPT ![r.call] = "refused"] ELSE status
    /\ UNCHANGED <<program, step, attempt, applied, holiday, shown, writable>>

\* "ok": the next write, or the end of the call.
Accepted(c) ==
    /\ status[c] = "accepted"
    /\ IF step[c] < Final(c)
       THEN /\ step' = [step EXCEPT ![c] = @ + 1]
            /\ attempt' = [attempt EXCEPT ![c] = 0]
            /\ status' = [status EXCEPT ![c] = "ready"]
       ELSE /\ status' = [status EXCEPT ![c] = "done"]
            /\ UNCHANGED <<step, attempt>>
    /\ UNCHANGED <<program, net, applied, holiday, shown, writable>>

\* Mutant: an answer that is not ok is taken for one that is.
RefusedIgnored(c) ==
    /\ status[c] = "refused"
    /\ IF step[c] < Final(c)
       THEN /\ step' = [step EXCEPT ![c] = @ + 1]
            /\ attempt' = [attempt EXCEPT ![c] = 0]
            /\ status' = [status EXCEPT ![c] = "ready"]
       ELSE /\ status' = [status EXCEPT ![c] = "done"]
            /\ UNCHANGED <<step, attempt>>
    /\ UNCHANGED <<program, net, applied, holiday, shown, writable>>

\* ok false, errors or a malformed answer: the call ends.
Refused(c) ==
    /\ status[c] = "refused"
    /\ status' = [status EXCEPT ![c] = "failed"]
    /\ UNCHANGED <<program, step, attempt, net, applied, holiday, shown, writable>>

\* What becomes of a post whose sender no longer waits for it: it never
\* reached the gateway, or the gateway may still carry it out.
Abandoned(c) ==
    \/ net' = net \ {Post(c)}
    \/ Cardinality(Late) < MaxLate /\ UNCHANGED net

\* Mutant: a post that is never answered never times out.
PostFailsUntimed(c) ==
    /\ status[c] \in {"accepted", "refused"}
    /\ Abandoned(c)
    /\ status' = [status EXCEPT ![c] = IF attempt[c] < Retries THEN "pausing" ELSE "failed"]
    /\ UNCHANGED <<program, step, attempt, applied, holiday, shown, writable>>

\* Timeout or connection error, before or after the gateway had answered.
PostFails(c) ==
    /\ status[c] \in {"waiting", "accepted", "refused"}
    /\ Abandoned(c)
    /\ status' = [status EXCEPT ![c] = IF attempt[c] < Retries THEN "pausing" ELSE "failed"]
    /\ UNCHANGED <<program, step, attempt, applied, holiday, shown, writable>>

\* execute posts the same write again after a pause.
PostRepeated(c) ==
    /\ status[c] = "pausing"
    /\ attempt' = [attempt EXCEPT ![c] = @ + 1]
    /\ net' = net \cup {[Post(c) EXCEPT !.attempt = @ + 1]}
    /\ status' = [status EXCEPT ![c] = "waiting"]
    /\ UNCHANGED <<program, step, applied, holiday, shown, writable>>

\* The task of the call is cancelled.
CallCancelled(c) ==
    /\ status[c] \in {"waiting", "accepted", "refused", "pausing"}
    /\ Abandoned(c)
    /\ status' = [status EXCEPT ![c] = "failed"]
    /\ UNCHANGED <<program, step, attempt, applied, holiday, shown, writable>>

\* A refresh, asked for by a call or by the clock.
ZonePolled ==
    /\ shown' = (holiday.start \/ holiday.end)
    /\ UNCHANGED <<calls, net, applied, holiday, writable>>

FenceMoves ==
    /\ writable' = ~writable
    /\ UNCHANGED <<calls, net, applied, holiday, shown>>

-----------------------------------------------------------------------------
CallRuns(c) ==
    \/ WritePosted(c) \/ WriteBlocked(c)
    \/ Accepted(c) \/ Refused(c)
    \/ PostFails(c) \/ PostRepeated(c)

Next ==
    \/ \E c \in Calls : CallStarts(c) \/ CallRuns(c) \/ CallCancelled(c)
    \/ \E r \in net : PostApplied(r) \/ PostRefused(r)
    \/ ZonePolled
    \/ FenceMoves

Spec == Init /\ [][Next]_vars

\* The task of a call runs when it can, a pause ends, and a post that is not
\* answered times out.
FairSpec == Spec /\ \A c \in Calls : WF_vars(CallRuns(c))

\* No call starts while another runs or while a post is still under way.
Settled == net = {} /\ \A c \in Calls : status[c] = "idle" \/ Ended(c)

SerialSpec == Init /\ [][Next /\ \A c \in Calls : CallStarts(c) => Settled]_vars

-----------------------------------------------------------------------------
(***************************************************************************)
(* Properties                                                              *)
(***************************************************************************)

\* Types.
TypeOK ==
    /\ program \in [Calls -> Programs]
    /\ step \in [Calls -> 1..5]
    /\ \A c \in Calls : step[c] <= Final(c)
    /\ attempt \in [Calls -> 0..Retries]
    /\ status \in [Calls -> {"idle", "ready", "waiting", "accepted", "refused",
                             "pausing", "done", "failed"}]
    /\ net \subseteq Posts /\ applied \subseteq [call : Calls, step : 1..5]
    /\ holiday \in [start : BOOLEAN, end : BOOLEAN]
    /\ shown \in BOOLEAN /\ writable \in BOOLEAN

\* The controller carries out a prefix of each call's program, however many
\* posts fail, are repeated or come late: everything before the write a call
\* is at, nothing after it, and all of it once the call reports success.
Performed(c) == {s \in 1..5 : [call |-> c, step |-> s] \in applied}

CallsApplyPrefix ==
    \A c \in Calls :
        /\ 1..(step[c] - 1) \subseteq Performed(c)
        /\ Performed(c) \subseteq 1..step[c]
        /\ status[c] = "done" => Performed(c) = 1..Final(c)

\* A holiday that has begun has an end, also when a call fails half-way.  It
\* holds for calls made one after the other (SerialSpec).
HolidayHasEnd == holiday.start => holiday.end

\* A write that the controller has carried out is never posted again, however
\* its post ended.
NotReplayed == [][\A r \in net' \ net : WriteOf(r) \notin applied]_vars

\* A call reports success or failure in the end.
CallsReturn == \A c \in Calls : status[c] # "idle" ~> Ended(c)
=============================================================================
