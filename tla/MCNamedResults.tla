--------------------------- MODULE MCNamedResults ---------------------------
(* Instances of NamedResults for TLC. *)
EXTENDS NamedResults, TLC

CONSTANTS c1, c2, n1, n2, q1, q2

Interchangeable == Permutations({c1, c2}) \cup Permutations({n1, n2}) \cup Permutations({q1, q2})
=============================================================================
