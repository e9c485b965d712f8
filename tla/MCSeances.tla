----------------------------- MODULE MCSeances -----------------------------
(* Instances of Seances for TLC. *)
EXTENDS Seances, TLC

CONSTANTS p1, g1

MCSessionOf == g1 :> p1

\* Keys, workers and teachers are interchangeable in every invariant and action property.
Symmetry == Permutations(SeanceIds) \cup Permutations(Workers) \cup Permutations(Teachers)
=============================================================================
