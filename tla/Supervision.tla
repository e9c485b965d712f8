----------------------------- MODULE Supervision -----------------------------
(***************************************************************************)
(* Supervisors: the teachers they follow (supervisor_service.py), which    *)
(* come from a list of the supervisor's row that the dashboard assigns     *)
(* (admin/superviseurs.py, admin/evaluateurs.py) and that user_service.py  *)
(* edits when a teacher changes school, and the batches they send from the *)
(* field: attendance of teachers (app/supervisor_presences.py) and         *)
(* evaluations of pupils (app/supervisor_evaluations.py), of one day.      *)
(*                                                                         *)
(* A request reads in one action and flushes and commits in a later one,   *)
(* READ COMMITTED. The SELECTs of a batch, one per line, are one action:   *)
(* its lines are about different rows.                                     *)
(***************************************************************************)
EXTENDS Integers, FiniteSets, TLC

CONSTANTS
  Enseignants,   \* teachers
  Superviseurs,  \* supervisors and evaluators
  Eleves,        \* pupils
  Ecoles, Nom,   \* schools, and their names less the prefixes
  Textes,        \* motifs of absence and comments
  MaxRequetes,   \* bound: requests
  Workers,       \* requests served at the same time
  NULL           \* SQL NULL, and a key without row

ASSUME SupervisionAssumption ==
  /\ MaxRequetes \in Nat
  /\ NULL \notin Ecoles \cup Textes

VARIABLES
  presents,  \* rows of users and eleves that are there
  ecole,     \* users.school_id
  actifs,    \* teachers whose users.status is actif
  listes,    \* users.classes of a supervisor: ids of teachers
  fiches,    \* fiches[s][c]: row of supervisor_presence_checks or evaluations_eleves
  req,       \* req[w]: the request of worker w
  no,        \* requests so far
  voulues,   \* what listes would be, had the requests come one after another
  croisees   \* lists whose last changes crossed each other

vars == <<presents, ecole, actifs, listes, fiches, req, no, voulues, croisees>>

-----------------------------------------------------------------------------
(* Tables *)

Cibles == Enseignants \cup Eleves

Equivalences == [reussi |-> "acquis", intermediaire |-> "en_cours", pas_reussi |-> "a_aider",
                 acquis |-> "acquis", en_cours |-> "en_cours", a_aider |-> "a_aider"]

Pointage == [present : BOOLEAN, motif : Textes \cup {NULL}]
Evaluation == [resultat : {"acquis", "en_cours", "a_aider"}, commentaire : Textes \cup {NULL}]
Fiche(c) == IF c \in Enseignants THEN Pointage ELSE Evaluation

\* The line of a batch as submit_presence_check and submit_evaluations store it.
LignesDe(c, recus) ==
  IF c \in Enseignants
  THEN {[present |-> p, motif |-> IF p THEN NULL ELSE m] : p \in BOOLEAN, m \in Textes \cup {NULL}}
  ELSE {[resultat |-> Equivalences[r], commentaire |-> m] : r \in recus, m \in Textes \cup {NULL}}

Idle == [op |-> "idle"]

Init ==
  /\ presents = Enseignants \cup Superviseurs \cup Eleves
  /\ ecole \in [Enseignants \cup Superviseurs -> Ecoles]
  /\ actifs = Enseignants
  /\ listes \in [Superviseurs -> SUBSET Enseignants] /\ voulues = listes /\ croisees = {}
  /\ fiches = [s \in Superviseurs |-> [c \in Cibles |-> NULL]]
  /\ req = [w \in Workers |-> Idle] /\ no = 0

\* One more request.
Count == no < MaxRequetes /\ no' = no + 1

Arrive(w, request) ==
  /\ req[w] = Idle /\ Count
  /\ req' = [req EXCEPT ![w] = request]
  /\ UNCHANGED <<presents, ecole, actifs, listes, fiches, voulues, croisees>>

Done(w) == req' = [req EXCEPT ![w] = Idle] /\ UNCHANGED <<presents, actifs, no>>

\* The columns of an ORM UPDATE: those whose value is not the one loaded.
Ecrite(courante, lue, envoyee) ==
  [k \in DOMAIN envoyee |-> IF envoyee[k] = lue[k] THEN courante[k] ELSE envoyee[k]]

-----------------------------------------------------------------------------
(* The teachers of a supervisor *)

Doublons(e) == {f \in Ecoles : Nom[f] = Nom[e]}

\* get_supervised_teacher_ids: the list, deleted teachers included, or else the active
\* teachers of the school.
Perimetre(s) ==
  IF listes[s] # {} THEN listes[s]
  ELSE IF ecole[s] = NULL THEN {}
  ELSE {t \in actifs \cap presents : ecole[t] \in Doublons(ecole[s])}

\* assign_teachers, and update_user with the column classes.
ReadAssign(w, s, L) ==
  /\ s \in presents
  /\ Arrive(w, [op |-> "assign", superviseur |-> s, liste |-> L, lues |-> listes])

CommitAssign(w) ==
  /\ req[w].op = "assign"
  /\ LET s == req[w].superviseur
         lue == req[w].lues[s]
     IN /\ s \in presents
        /\ listes' = IF req[w].liste = lue THEN listes ELSE [listes EXCEPT ![s] = req[w].liste]
        /\ voulues' = [voulues EXCEPT ![s] = req[w].liste]
        /\ croisees' = IF listes[s] = lue THEN croisees \ {s} ELSE croisees \cup {s}
  /\ Done(w)
  /\ UNCHANGED <<ecole, fiches>>

\* update_user of a teacher whose school it changes: the supervisors whose list has him
\* are loaded.
ReadMove(w, t, e) ==
  /\ t \in presents /\ e # ecole[t]
  /\ Arrive(w, [op |-> "move", enseignant |-> t, ecole |-> e, lues |-> listes,
                charges |-> {s \in Superviseurs \cap presents : t \in listes[s]}])

\* Faulty variant: the id is compared with its text, which it never equals.
CommitMoveIdCompared(w) ==
  /\ req[w].op = "move" /\ {req[w].enseignant} \cup req[w].charges \subseteq presents
  /\ LET r == req[w]
     IN /\ ecole' = [ecole EXCEPT ![r.enseignant] = r.ecole]
        /\ voulues' = [s \in Superviseurs |->
             IF s \in r.charges THEN voulues[s] \ {r.enseignant} ELSE voulues[s]]
        /\ croisees' = croisees \cup {s \in r.charges : listes[s] # r.lues[s]}
  /\ Done(w)
  /\ UNCHANGED <<listes, fiches>>

\* He is taken off the lists as they were loaded; a list whose row is gone raises.
CommitMove(w) ==
  /\ req[w].op = "move" /\ {req[w].enseignant} \cup req[w].charges \subseteq presents
  /\ LET r == req[w]
         Quitte(s, L) == IF s \in r.charges THEN L \ {r.enseignant} ELSE listes[s]
     IN /\ ecole' = [ecole EXCEPT ![r.enseignant] = r.ecole]
        /\ listes' = [s \in Superviseurs |-> Quitte(s, r.lues[s])]
        /\ voulues' = [s \in Superviseurs |->
             IF s \in r.charges THEN voulues[s] \ {r.enseignant} ELSE voulues[s]]
        /\ croisees' = croisees \cup {s \in r.charges : listes[s] # r.lues[s]}
  /\ Done(w)
  /\ UNCHANGED fiches

\* update_user of a supervisor: only the school.
MoveSuperviseur(s, e) ==
  /\ s \in presents /\ e # ecole[s] /\ Count
  /\ ecole' = [ecole EXCEPT ![s] = e]
  /\ UNCHANGED <<presents, actifs, listes, fiches, req, voulues, croisees>>

ToggleStatus(t) ==
  /\ t \in presents /\ Count
  /\ actifs' = IF t \in actifs THEN actifs \ {t} ELSE actifs \cup {t}
  /\ UNCHANGED <<presents, ecole, listes, fiches, req, voulues, croisees>>

-----------------------------------------------------------------------------
(* Batches *)

\* The lookup of each line of the batch.
ReadLot(w, s, lot) ==
  /\ s \in presents
  /\ Arrive(w, [op |-> "lot", superviseur |-> s, lot |-> lot, lues |-> [c \in DOMAIN lot |-> fiches[s][c]]])

\* Faulty variant: a line that is there already is left as it is.
StockeeSiNouvelle(courante, lue, envoyee) == IF lue = NULL THEN envoyee ELSE courante

\* The line after the flush.
Stockee(courante, lue, envoyee) == IF lue = NULL THEN envoyee ELSE Ecrite(courante, lue, envoyee)

\* The flush refuses the whole batch when the unique key or a foreign key refuses one
\* of its INSERTs, or a row it updates is gone.
CommitLot(w) ==
  /\ req[w].op = "lot"
  /\ LET r == req[w]
         s == r.superviseur
     IN /\ {s} \cup DOMAIN r.lot \subseteq presents
        /\ \A c \in DOMAIN r.lot : r.lues[c] = NULL <=> fiches[s][c] = NULL
        /\ fiches' = [fiches EXCEPT ![s] = [c \in Cibles |->
             IF c \in DOMAIN r.lot THEN Stockee(@[c], r.lues[c], r.lot[c]) ELSE @[c]]]
  /\ Done(w)
  /\ UNCHANGED <<ecole, listes, voulues, croisees>>

-----------------------------------------------------------------------------
(* The environment *)

\* Faulty variant: no cascade from the supervisor.
DeleteCible(u) ==
  /\ u \in presents /\ presents' = presents \ {u} /\ Count
  /\ fiches' = [s \in Superviseurs |-> [c \in Cibles |-> IF u = c THEN NULL ELSE fiches[s][c]]]
  /\ UNCHANGED <<ecole, actifs, listes, req, voulues, croisees>>

\* delete_user and delete_eleve: the rows that refer to u go too, the lists that name a
\* teacher keep his id.
Delete(u) ==
  /\ u \in presents /\ presents' = presents \ {u} /\ Count
  /\ fiches' = [s \in Superviseurs |-> [c \in Cibles |-> IF u \in {s, c} THEN NULL ELSE fiches[s][c]]]
  /\ UNCHANGED <<ecole, actifs, listes, req, voulues, croisees>>

\* The flush or the handler raised, or the worker died.
Rollback(w) ==
  /\ req[w] # Idle
  /\ Done(w)
  /\ UNCHANGED <<ecole, listes, fiches, voulues, croisees>>

Lots(recus) ==
  UNION {{lot \in [C -> UNION {LignesDe(c, recus) : c \in C}] : \A c \in C : lot[c] \in LignesDe(c, recus)} :
           C \in ((SUBSET Enseignants) \cup (SUBSET Eleves)) \ {{}}}

\* A result in the words of the evaluation and one in those of the teacher.
Envois == Lots({"reussi", "a_aider"})

\* Every step but the deletions, which take more along (Terrain).
Steps ==
  \/ \E w \in Workers :
       \/ \E s \in Superviseurs :
            \/ \E L \in SUBSET (Enseignants \cap presents) : ReadAssign(w, s, L)
            \/ \E lot \in Envois : ReadLot(w, s, lot)
       \/ \E t \in Enseignants, e \in Ecoles : ReadMove(w, t, e)
       \/ CommitAssign(w) \/ CommitMove(w) \/ CommitLot(w) \/ Rollback(w)
  \/ \E s \in Superviseurs, e \in Ecoles : MoveSuperviseur(s, e)
  \/ \E t \in Enseignants : ToggleStatus(t)

Next == Steps \/ \E u \in presents : Delete(u)

Spec == Init /\ [][Next]_vars

-----------------------------------------------------------------------------
(* Properties *)

\* Every variable keeps its type, and a row refers to a supervisor and to a teacher or
\* a pupil that are there.
TypeOK ==
  /\ presents \subseteq Enseignants \cup Superviseurs \cup Eleves
  /\ ecole \in [Enseignants \cup Superviseurs -> Ecoles \cup {NULL}]
  /\ actifs \subseteq Enseignants
  /\ listes \in [Superviseurs -> SUBSET Enseignants] /\ croisees \subseteq Superviseurs
  /\ \A s \in Superviseurs : \A c \in Cibles :
       fiches[s][c] # NULL => fiches[s][c] \in Fiche(c) /\ {s, c} \subseteq presents

\* A supervisor follows the teachers last assigned to him less those who have changed
\* school since, and when that leaves none the active teachers of his school under all
\* its names, whatever moves, assignments and deletions overlap, except that two
\* changes of his own list may cross.
FollowsAssigned ==
  \A s \in Superviseurs \ croisees :
    Perimetre(s) = IF voulues[s] # {} THEN voulues[s]
                   ELSE {t \in actifs \cap presents :
                           \E e \in {ecole[s], ecole[t]} \cap Ecoles :
                             NULL \notin {ecole[s], ecole[t]} /\ Nom[ecole[s]] = Nom[ecole[t]]}

\* A batch is stored whole or not at all, its retry as well, and touches no other line;
\* a line differs from what was sent only when a batch with another content for it was
\* committed between its lookup and the flush.
BatchStoredWhole ==
  [][\A s \in Superviseurs : fiches'[s] # fiches[s] /\ presents' = presents =>
       \E w \in Workers :
         /\ req[w].op = "lot" /\ req[w].superviseur = s
         /\ \A c \in Cibles :
              IF c \notin DOMAIN req[w].lot THEN fiches'[s][c] = fiches[s][c]
              ELSE \/ fiches'[s][c] = req[w].lot[c]
                   \/ fiches[s][c] \notin {req[w].lues[c], req[w].lot[c]}]_vars
=============================================================================
