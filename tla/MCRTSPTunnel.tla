--------------------------- MODULE MCRTSPTunnel ---------------------------
(* TLC instances of RTSPTunnel. *)
EXTENDS RTSPTunnel, TLC

CONSTANTS s1, s2, s3, t1, t2

TwoSessions == {s1, s2}
ThreeSessions == {s1, s2, s3}
TwoThreads == {t1, t2}
Symmetry == Permutations(ThreeSessions) \cup Permutations(TwoThreads)
=============================================================================
