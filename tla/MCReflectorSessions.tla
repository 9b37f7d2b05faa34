------------------------ MODULE MCReflectorSessions ------------------------
(* TLC instances of ReflectorSessions. *)
EXTENDS ReflectorSessions, TLC

CONSTANTS v1, v2, b1, b2, o1, o2, o3, audio, video

TwoViewers == {v1, v2}
TwoBroadcasters == {b1, b2}
Addresses == {o1, o2, o3}
TwoStreams == {audio, video}
Symmetry == Permutations(TwoViewers) \cup Permutations(TwoBroadcasters)
            \cup Permutations(Addresses) \cup Permutations(TwoStreams)
=============================================================================
