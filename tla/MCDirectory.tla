---------------------------- MODULE MCDirectory ----------------------------
(* Instances of Directory for TLC. *)
EXTENDS Directory

CONSTANTS n1, n2, k1, a1, a2, b1, t1, t2, t3, c1, c2, p1, p2, ce1

\* a2 is a1 with an accent; t2 is t1 with the prefix +221; t3 has too few digits.
MCCle == (a1 :> "A") @@ (a2 :> "A") @@ (b1 :> "B")
MCNormal == (t1 :> t1) @@ (t2 :> t1) @@ (t3 :> NULL)

Vide == [ecole |-> n1, code |-> NULL, superviseurs |-> <<>>, telSuperviseur |-> NULL,
         tuteur |-> NULL, telTuteur |-> NULL, classe |-> c1, eleve |-> p1, codeEleve |-> NULL]

\* A tutor with a number; the same with an accent in another class, a code for the pupil
\* and a wrong number; two supervisors with one number; another school by the same code.
MCLignes ==
  {[Vide EXCEPT !.code = k1, !.tuteur = a1, !.telTuteur = t2],
   [Vide EXCEPT !.tuteur = a2, !.telTuteur = t3, !.classe = c2, !.codeEleve = ce1],
   [Vide EXCEPT !.code = k1, !.superviseurs = <<a1, b1>>, !.telSuperviseur = t1, !.eleve = p2],
   [Vide EXCEPT !.ecole = n2, !.code = k1, !.tuteur = a2, !.classe = c2, !.codeEleve = ce1]}
=============================================================================
