------------------------------ MODULE MCServer ------------------------------
(***************************************************************************)
(* Server.tla for TLC: two clients and two keys, model values.              *)
(***************************************************************************)
EXTENDS KVRefinement

CONSTANTS c1, c2, k1, k2

MCClients == {c1, c2}
MCKeys == {k1, k2}

=============================================================================
