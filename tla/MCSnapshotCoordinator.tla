------------------------ MODULE MCSnapshotCoordinator ------------------------
\* SnapshotCoordinator for two callers; the second name of a task is needed
\* only if two tasks can be alive, or one is awaited after it has ended.
EXTENDS SnapshotCoordinator

CONSTANTS c1, c2, r1, r2, r3, t1, t2

TwoCallers == {c1, c2}
ThreeReads == {r1, r2, r3}
TwoTimers == {t1, t2}
=============================================================================
