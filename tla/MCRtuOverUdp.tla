---------------------------- MODULE MCRtuOverUdp ----------------------------
(* The RTU-over-UDP client with one kind of request, so that nothing but   *)
(* the epochs tells one answer from another.                               *)
EXTENDS RtuOverUdp

CONSTANT fc03
=============================================================================
