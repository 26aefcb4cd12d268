------------------------------- MODULE MCSpawn -------------------------------
(* Instances of Spawn for TLC. *)
EXTENDS Spawn, TLC

CONSTANTS c1, c2, d1, d2, d3

Interchangeable == Permutations({c1, c2}) \cup Permutations({d1, d2, d3})
=============================================================================
