---------------------------- MODULE MCMatchmaker ----------------------------
(* Small instances of Matchmaker for TLC. *)
EXTENDS Matchmaker

CONSTANTS u1, u2, u3, u4, h1, h2

Symmetry == Permutations(Users) \cup Permutations(Handlers)

AllOps == {"matchmake", "status", "cancel"}
============================================================================
