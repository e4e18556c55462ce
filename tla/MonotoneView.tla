---------------------------- MODULE MonotoneView ----------------------------
(***************************************************************************)
(* What a coordinator promises to the entities that show its data: for     *)
(* every value of the device, the view may lag behind the device but never *)
(* goes back to an older value and never shows one the device did not      *)
(* have.  A value is identified by its version: how often it changed.      *)
(***************************************************************************)
EXTENDS Naturals

CONSTANT Paths
VARIABLES dev, data

viewVars == <<dev, data>>

ViewInit ==
    /\ dev = [p \in Paths |-> 0]
    /\ data = [p \in Paths |-> 0]

Change(p) == dev' = [dev EXCEPT ![p] = @ + 1] /\ UNCHANGED data

Show ==
    /\ data' \in [Paths -> Nat]
    /\ \A p \in Paths : data[p] <= data'[p] /\ data'[p] <= dev[p]
    /\ UNCHANGED dev

ViewNext == (\E p \in Paths : Change(p)) \/ Show

ViewSpec == ViewInit /\ [][ViewNext]_viewVars
=============================================================================
