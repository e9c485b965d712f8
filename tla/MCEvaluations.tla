--------------------------- MODULE MCEvaluations ---------------------------
(* Instances of Evaluations for TLC. *)
EXTENDS Evaluations, TLC

CONSTANTS e1, e2, c1, c2, s1, q1, wolof, pulaar

MCClasse == (e1 :> c1) @@ (e2 :> c1)
MCCovers == s1 :> {c1}

\* c2 is written with one more space: its teacher is shown the pupils of c1, and the
\* supervisor, who covers c1 only, is not asked about c2.
MCHomonymes == (c1 :> {c1, c2}) @@ (c2 :> {c1, c2})
MCLangueDe == q1 :> wolof

Symmetry == Permutations(Workers) \cup Permutations(Resultats) \cup Permutations(Eleves)
=============================================================================
