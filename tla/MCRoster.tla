------------------------------ MODULE MCRoster ------------------------------
(* Instances of Roster for TLC. *)
EXTENDS Roster, TLC

CONSTANTS s1, s2, t1, c1, c2, p1, p2

\* Two schools for one place.
MCEtablissement == (s1 :> "BATTAL") @@ (s2 :> "BATTAL")
MCNorme == (c1 :> "cm1 a") @@ (c2 :> "cm1 b")
MCEcole == t1 :> s1
MCClassesDe == t1 :> {c1}

\* A complete identity; one without prenom, in the school or without school.
MCLignes == {[personne |-> p1, classe |-> c1, ecole |-> s1],
             [personne |-> p2, classe |-> c1, ecole |-> s1],
             [personne |-> p2, classe |-> c1, ecole |-> NULL]}

\* A pupil leaves, or changes class. Coming back is left to the proofs: they hold for every edit.
MCEditions == [statut : {"inactif"}] \cup [classe : {c2}]

Symmetry == Permutations(Eleves) \cup Permutations(Workers)
=============================================================================
