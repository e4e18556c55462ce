---------------------------- MODULE MCRtuOverTcp ----------------------------
(* An instance of the RTU-over-TCP client.                                 *)
EXTENDS RtuOverTcp
=============================================================================
