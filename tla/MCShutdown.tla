----------------------------- MODULE MCShutdown -----------------------------
(* Instances of Shutdown for TLC. *)
EXTENDS Shutdown, TLC

CONSTANTS c1, c2

Interchangeable == Permutations({c1, c2})
=============================================================================
