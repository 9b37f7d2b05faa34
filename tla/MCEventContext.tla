--------------------------- MODULE MCEventContext ---------------------------
(* TLC instances of EventContext. *)
EXTENDS EventContext, TLC

CONSTANTS c1, c2, evt

OneContext == {c1}
TwoContexts == {c1, c2}
TwoFDs == {1, 2}
ReadOnly == {{"EV_RE"}}
ReadOrWrite == {{"EV_RE"}, {"EV_WR"}}
Symmetry == Permutations(TwoContexts)
=============================================================================
