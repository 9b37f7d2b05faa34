--------------------------- MODULE MCReliableUDP ---------------------------
(* The instance of ReliableUDP for TLC: a stream of large packets and one   *)
(* of small packets; some are late already, the others of use for two ticks *)
(* so that they can be sent again once before they expire.                  *)
EXTENDS ReliableUDP

LargeAndSmall == <<{2}, {1}>>
LateOrNot == {0, 2}
=============================================================================
