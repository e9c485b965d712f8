---------------------------- MODULE MCProgramme ----------------------------
(* Instances of Programme for TLC. *)
EXTENDS Programme

Symmetry == Permutations(Sessions) \cup Permutations(Enseignants)
              \cup Permutations(Heures) \cup Permutations(Workers)
=============================================================================
