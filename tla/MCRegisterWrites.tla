--------------------------- MODULE MCRegisterWrites ---------------------------
\* RegisterWrites for two calls, that overlap or are made one after the other.
EXTENDS RegisterWrites

CONSTANTS c1, c2

OneCall == {c1}
TwoCalls == {c1, c2}

VARIABLE serial  \* the calls are made one after the other

MCInit == Init /\ serial \in BOOLEAN

MCNext ==
    /\ Next
    /\ serial => \A c \in Calls : CallStarts(c) => Settled
    /\ UNCHANGED serial

MCSpec == MCInit /\ [][MCNext]_<<vars, serial>>

MCFairSpec == MCSpec /\ \A c \in Calls : WF_vars(CallRuns(c))

\* A holiday that has begun has an end if calls are made one after the other
SerialHolidayHasEnd == serial => HolidayHasEnd
=============================================================================
