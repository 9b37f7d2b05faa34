---------------------------- MODULE MCOSMutexRW ----------------------------
(* TLC instance of OSMutexRW.                                              *)
EXTENDS OSMutexRW, TLC

CONSTANTS r1, r2, w1, w2

TwoWriters == {w1, w2}
FourThreads == {r1, r2, w1, w2}
=============================================================================
