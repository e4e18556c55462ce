--------------------------- MODULE MCCoordinator ---------------------------
(* A climate device: the mode command writes mode and power in one         *)
(* section, a confirmed command writes and reads back the mode.            *)
EXTENDS Coordinator

CONSTANTS mode, power, w1, w2

TwoPaths == {mode, power}
TwoPlans == [w \in {w1, w2} |-> IF w = w1 THEN <<mode, power>> ELSE <<mode>>]
=============================================================================
