----------------------------- MODULE MCTerrain -----------------------------
(* Instances of Terrain for TLC: two school rows of one name and one of another. *)
EXTENDS Terrain

CONSTANTS a1, a2, b

Noms == [e \in {a1, a2, b} |-> IF e = b THEN "b" ELSE "a"]

Symmetry == Permutations(Enseignants) \cup Permutations(Workers) \cup Permutations({a1, a2})
              \cup Permutations(Documents)
=============================================================================
