---------------------------- MODULE MCHostDelay ----------------------------
(* Instances of delayed sends over the Host router for TLC. *)
EXTENDS HostDelay

CONSTANTS s1, here, a, b

OneLocation == [s \in Sessions |-> here]
=============================================================================
