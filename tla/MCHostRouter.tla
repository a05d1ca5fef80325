---------------------------- MODULE MCHostRouter ----------------------------
(* Instances of the Host router for TLC. *)
EXTENDS HostRouterRefinement

CONSTANTS s1, s2, here, there, a, b

\* Two Sessions; the location of s2 is spelled like an invoke alias.
TwoLocations == [s \in Sessions |-> IF s = s1 THEN here ELSE there]
OneLocation == [s \in Sessions |-> there]
=============================================================================
