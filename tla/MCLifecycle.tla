---------------------------- MODULE MCLifecycle ----------------------------
(* A gateway with two children, and a device with its own connection.      *)
EXTENDS Lifecycle

CONSTANTS gateway, device, c1, c2

MCOwners == {gateway, device}
MCChildren == {c1, c2}
MCGatewayOf == [c \in MCChildren |-> gateway]
=============================================================================
