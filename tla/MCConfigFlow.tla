---------------------------- MODULE MCConfigFlow ----------------------------
(* Instance of ConfigFlow for TLC: a relay module with a required and an   *)
(* optional capability, a sensor with DPLS addresses and one of two        *)
(* capabilities, a device that the gateway cannot transport, a PLC, a      *)
(* unit; one edit of the table that removes an ambiguity.                  *)
EXTENDS ConfigFlow, TLC

MCCapabilities ==
    [relays |-> {"output", "circuit"}, sensor |-> {"alarm", "level"}, other |-> {"input"}]
MCRequired == {"output", "alarm", "level"}
MCExclusive == {<<"alarm", "level">>, <<"level", "alarm">>}
MCSameArea == {<<"output", "circuit">>, <<"circuit", "output">>}
MCCounts == [sensor |-> {1, 2}]
MCFound ==
    [v \in 0..1 |-> IF v = 0
                    THEN [relays |-> "none", sensor |-> "ambiguous"]
                    ELSE [relays |-> "incomplete", sensor |-> "exact"]]
Symmetry == Permutations(Flows)
=============================================================================
