--------------------------- MODULE MCCompanionJobs ---------------------------
(* Instances of CompanionJobs for TLC; companion jobs never ask for AI.      *)
EXTENDS CompanionJobs, TLC
CONSTANTS j1, j2
ShortRequest == {[timed |-> FALSE, speakers |-> "no", ai |-> FALSE]}
Symmetry == Permutations(Jobs)
=============================================================================
