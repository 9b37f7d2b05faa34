-------------------------- MODULE MCTaskScheduler --------------------------
(* TLC instances of TaskScheduler: a short-task thread and a blocking one. *)
EXTENDS TaskScheduler, TLC

CONSTANTS t1, t2, short, blocking, s1, s2

BothTasks == {t1, t2}
OneTask   == {t1}
BothThreads == {short, blocking}
AnyThread == [t \in Tasks |-> TaskThreads]
NoDefault == [t \in Tasks |-> None]
\* t2 has the thread of its last blocking operation as its default.
T2Default == [t \in Tasks |-> IF t = t2 THEN blocking ELSE None]
OneSignaller == {s1}
TwoSignallers == {s1, s2}
Flags == {"read", "idle"}
ReadOnly == {"read"}
=============================================================================
