------------------------- MODULE MCReflectorSender -------------------------
(* Small instances of ReflectorSender for TLC. *)
EXTENDS ReflectorSender

CONSTANTS rtp, rtcp, o1, o2, p1, p2, p3, q1

BothSenders == {rtp, rtcp}
Reports == {rtcp}
OneOutput == {o1}
RTPAndRTCP == [s \in BothSenders |-> IF s = rtp THEN {p1, p2, p3} ELSE {q1}]
OneEach == [s \in BothSenders |-> IF s = rtp THEN <<p1>> ELSE <<q1>>]
KeyAndRest == [s \in BothSenders |-> IF s = rtp THEN {"key", "rest"} ELSE {"rest"}]
=============================================================================
