---------------------------- MODULE MCOSRefTable ----------------------------
(* TLC instance of OSRefTable. *)
EXTENDS OSRefTable

CONSTANTS th1, th2, th3, r1, r2, k1, k2

ThreeThreads == {th1, th2, th3}
TwoRefs == {r1, r2}
TwoKeys == {k1, k2}
=============================================================================
