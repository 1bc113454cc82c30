-------------------------- MODULE OwnershipHandoff --------------------------
(***************************************************************************)
(* What an ownership migration promises: one writer at a time, and only    *)
(* the one the durable decision names.  The decision never changes under a *)
(* writer, so ownership moves from one side to the other through a period  *)
(* in which nobody may write.  MigrationTransaction implements it.         *)
(***************************************************************************)
CONSTANTS LEGACY, SHARED, UNRESOLVED

VARIABLES
    writer,     \* the side that may write; UNRESOLVED when neither may
    decision    \* the side the durable record names, if it names one

handoff == <<writer, decision>>

Init ==
    /\ decision = LEGACY
    /\ writer \in {LEGACY, UNRESOLVED}

Decide ==
    /\ writer = UNRESOLVED
    /\ decision' \in {LEGACY, SHARED, UNRESOLVED}
    /\ UNCHANGED writer

Grant ==
    /\ writer = UNRESOLVED
    /\ decision # UNRESOLVED
    /\ writer' = decision
    /\ UNCHANGED decision

Revoke ==
    /\ writer' = UNRESOLVED
    /\ UNCHANGED decision

Next == Decide \/ Grant \/ Revoke

Spec == Init /\ [][Next]_handoff
=============================================================================
