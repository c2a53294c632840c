---------------------------- MODULE MCCompanionAi ----------------------------
(* Instances of CompanionAi for TLC: two jobs, two providers.               *)
EXTENDS CompanionAi, TLC
CONSTANTS j1, j2, r1, r2, b1, b2
Symmetry == Permutations({j1, j2}) \cup Permutations({r1, r2}) \cup Permutations({b1, b2})
=============================================================================
