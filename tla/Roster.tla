------------------------------- MODULE Roster -------------------------------
(***************************************************************************)
(* The pupils of the classes: the dashboard's edits and imports            *)
(* (admin/eleves.py), the substitutes a tutor registers                    *)
(* (app/remplacants.py) and the replacement of a pupil by a substitute     *)
(* (app/remplacements.py), with the list the phone receives from them      *)
(* (sync_service.py, school_service.py).                                   *)
(*                                                                         *)
(* A request reads in one action and commits in another, READ COMMITTED;   *)
(* an UPDATE names the columns that differ from what was loaded, and fails *)
(* when its row is gone.                                                   *)
(***************************************************************************)
EXTENDS Integers, FiniteSets

CONSTANTS
  Eleves,        \* primary keys of pupils
  Personnes,     \* nom and prenom of a pupil
  SansPrenom,    \* those without prenom: NULL in the unique key
  Ecoles,        \* schools
  Etablissement, \* Etablissement[s]: normalize_school_name of the school's name
  Classes,       \* names of classes, as written
  Norme,         \* Norme[c]: the name in lower case with single spaces
  Tuteurs,       \* tutors
  Ecole,         \* Ecole[t]: school of tutor t
  ClassesDe,     \* ClassesDe[t]: classes of tutor t
  Lignes,        \* rows that are created or imported
  Editions,      \* columns an edit of a pupil sends, with their values
  MaxBulk,       \* most pupils deleted at once, 500 in the code
  MaxLignes,     \* bound: rows of a file
  Workers,       \* requests served at the same time
  NULL           \* SQL NULL, and a key without row

ASSUME RosterAssumption ==
  /\ SansPrenom \subseteq Personnes
  /\ NULL \notin Eleves \cup Ecoles
  /\ \A t \in Tuteurs : Ecole[t] \in Ecoles /\ ClassesDe[t] \subseteq Classes
  /\ Lignes \subseteq [personne : Personnes, classe : Classes, ecole : Ecoles \cup {NULL}]
  /\ Editions \subseteq [statut : {"actif", "inactif"}] \cup [classe : Classes] \cup [ecole : Ecoles]
  /\ MaxBulk \in Nat /\ MaxLignes \in Nat

VARIABLES
  eleves,        \* table eleves, by primary key
  cles,          \* primary keys that uuid4 has not drawn yet
  remplacements, \* table eleve_remplacements; croise marks a row whose pupils had
                 \* changed between their load and the COMMIT
  tuteurs,       \* tutors whose account exists
  req            \* req[w]: the request of worker w and what it has loaded

vars == <<eleves, cles, remplacements, tuteurs, req>>

-----------------------------------------------------------------------------
(* Pupils *)

Ligne == [personne : Personnes, classe : Classes, ecole : Ecoles \cup {NULL}]

Eleve == [personne : Personnes, classe : Classes, ecole : Ecoles \cup {NULL},
          statut : {"actif", "inactif"}, selection : {NULL, "remplacant", "Titulaire"}]

Remplacement == [ancien : Eleves \cup {NULL}, nouveau : Eleves \cup {NULL},
                 tuteur : Tuteurs, croise : BOOLEAN]

\* A row is a value, and NULL is the absence of one.
ASSUME RowsAssumption == NULL \notin Eleve

Idle == [op |-> "idle"]

Exists(e) == eleves[e] # NULL

NewEleve(ligne, selection) ==
  [personne |-> ligne.personne, classe |-> ligne.classe, ecole |-> ligne.ecole,
   statut |-> "actif", selection |-> selection]

\* uq_eleve_school_classe_nom, where NULLs are distinct.
Conflict(a, b) ==
  /\ a.ecole # NULL /\ a.personne \notin SansPrenom
  /\ <<a.ecole, a.classe, a.personne>> = <<b.ecole, b.classe, b.personne>>

KeyTaken(ligne, e) == \E f \in Eleves \ {e} : Exists(f) /\ Conflict(ligne, eleves[f])

Init ==
  /\ eleves = [e \in Eleves |-> NULL]
  /\ cles = Eleves
  /\ remplacements = {}
  /\ tuteurs = Tuteurs
  /\ req = [w \in Workers |-> Idle]

Arrive(w, request) ==
  /\ req[w] = Idle
  /\ req' = [req EXCEPT ![w] = request]
  /\ UNCHANGED <<eleves, cles, remplacements, tuteurs>>

Done(w) == req' = [req EXCEPT ![w] = Idle]

\* A column after the flush: left out of the UPDATE when the value is the loaded one.
Flushed(stored, loaded, assigned) == IF assigned = loaded THEN stored ELSE assigned

-----------------------------------------------------------------------------
(* The list of the phone *)

\* build_sync_payload: active pupils of the tutor's classes, in every school that
\* carries the same name as the tutor's.
Vus(t) ==
  {e \in Eleves : /\ Exists(e) /\ eleves[e].statut = "actif"
                  /\ eleves[e].ecole # NULL
                  /\ Etablissement[eleves[e].ecole] = Etablissement[Ecole[t]]
                  /\ \E c \in ClassesDe[t] : Norme[c] = Norme[eleves[e].classe]}

Remplacants(t) == {e \in Vus(t) : eleves[e].selection = "remplacant"}
Titulaires(t) == Vus(t) \ Remplacants(t)

-----------------------------------------------------------------------------
(* The dashboard *)

\* INSERT of one row: create_eleve, create_remplacant. A row the unique key refuses
\* is answered 409 or 500, without effect.
InsertEleve(ligne, selection) ==
  /\ \E e \in cles :
       /\ ~KeyTaken(ligne, e)
       /\ eleves' = [eleves EXCEPT ![e] = NewEleve(ligne, selection)]
       /\ cles' = cles \ {e}
  /\ UNCHANGED <<remplacements, tuteurs, req>>

CreateEleve(ligne) == InsertEleve(ligne, NULL)

\* update_eleve: the columns sent are assigned to the row loaded.
ReadUpdate(w, e, sent) ==
  /\ Exists(e)
  /\ Arrive(w, [op |-> "update", eleve |-> e, loaded |-> eleves[e], sent |-> sent])

CommitUpdate(w) ==
  /\ req[w].op = "update"
  /\ LET e == req[w].eleve
         row == [c \in DOMAIN eleves[e] |->
                   IF c \in DOMAIN req[w].sent
                   THEN Flushed(eleves[e][c], req[w].loaded[c], req[w].sent[c])
                   ELSE eleves[e][c]]
     IN /\ Exists(e)
        /\ ~KeyTaken(row, e)
        /\ eleves' = [eleves EXCEPT ![e] = row]
  /\ Done(w)
  /\ UNCHANGED <<cles, remplacements, tuteurs>>

\* Faulty variant: the foreign key is left as it is.
KeptAsIs(e, S) == e

\* ON DELETE SET NULL.
Kept(e, S) == IF e \in S THEN NULL ELSE e

\* delete_eleve, bulk_delete_eleves: the history keeps its rows, with NULL for the pupil.
DeleteEleves(S) ==
  /\ S # {} /\ Cardinality(S) <= MaxBulk
  /\ \A e \in S : Exists(e)
  /\ eleves' = [e \in Eleves |-> IF e \in S THEN NULL ELSE eleves[e]]
  /\ remplacements' = {[r EXCEPT !.ancien = Kept(@, S), !.nouveau = Kept(@, S)] : r \in remplacements}
  /\ UNCHANGED <<cles, tuteurs, req>>

Fichiers == {F \in SUBSET Lignes : F # {} /\ Cardinality(F) <= MaxLignes}

\* /import, /import/csv: no column for the school. /import/xlsx: the school named, or
\* none when it is not known.
ReadImport(w, F, liste) ==
  /\ ~liste => \A l \in F : l.ecole = NULL
  /\ Arrive(w, [op |-> "insert", lignes |-> F])

\* /reimport: the rows of which no pupil has the name and the class, in any school.
ReadReimport(w, F) ==
  /\ \A l \in F : l.ecole = NULL
  /\ Arrive(w, [op |-> "insert", lignes |->
       {l \in F : \A e \in Eleves : Exists(e) => \/ eleves[e].personne # l.personne
                                                  \/ eleves[e].classe # l.classe}])

\* _bulk_insert: one INSERT, ON CONFLICT DO NOTHING.
BulkInsert(w) ==
  /\ req[w].op = "insert"
  /\ LET kept == {l \in req[w].lignes : \A e \in Eleves : Exists(e) => ~Conflict(l, eleves[e])}
     IN \E f \in [kept -> cles] :
          /\ \A l1, l2 \in kept : f[l1] = f[l2] => l1 = l2
          /\ cles' = cles \ {f[l] : l \in kept}
          /\ eleves' = [e \in Eleves |->
                          IF \E l \in kept : f[l] = e
                          THEN NewEleve(CHOOSE l \in kept : f[l] = e, NULL) ELSE eleves[e]]
  /\ Done(w)
  /\ UNCHANGED <<remplacements, tuteurs>>

-----------------------------------------------------------------------------
(* The tutor *)

\* A tutor without classes may name any class.
CreateRemplacant(t, ligne) ==
  /\ t \in tuteurs
  /\ ClassesDe[t] # {} => ligne.classe \in ClassesDe[t]
  /\ ligne.ecole = Ecole[t] /\ ligne.personne \notin SansPrenom
  /\ InsertEleve(ligne, "remplacant")

\* Faulty variant: the newcomer's class and status are not compared.
AnySubstitute(t, ancien, nouveau) ==
  /\ ancien.ecole = Ecole[t] /\ ancien.selection # "remplacant"
  /\ nouveau.ecole = Ecole[t] /\ nouveau.selection = "remplacant"

\* Faulty variant: the newcomer's statut_selection is not looked at.
AnyClassmate(t, ancien, nouveau) ==
  /\ ancien.ecole = Ecole[t] /\ ancien.selection # "remplacant"
  /\ nouveau.ecole = Ecole[t] /\ nouveau.classe = ancien.classe
  /\ nouveau.statut = "actif"

\* create_remplacement: what it asks of the rows it has loaded. The outgoing pupil's
\* statut is not part of it.
Replaceable(t, ancien, nouveau) ==
  /\ ancien.ecole = Ecole[t] /\ ancien.selection # "remplacant"
  /\ nouveau.ecole = Ecole[t] /\ nouveau.classe = ancien.classe
  /\ nouveau.statut = "actif" /\ nouveau.selection = "remplacant"

ReadRemplacement(w, t, a, n) ==
  /\ t \in tuteurs
  /\ Exists(a) /\ Exists(n)
  /\ Replaceable(t, eleves[a], eleves[n])
  /\ Arrive(w, [op |-> "replace", tuteur |-> t, ancien |-> a, nouveau |-> n,
                loaded |-> [e \in {a, n} |-> eleves[e]]])

\* Both pupils are updated and the history gets its row, in one COMMIT.
CommitRemplacement(w) ==
  /\ req[w].op = "replace"
  /\ LET r == req[w]
     IN /\ Exists(r.ancien) /\ Exists(r.nouveau) /\ r.tuteur \in tuteurs
        /\ eleves' = [eleves EXCEPT
             ![r.ancien].statut = Flushed(@, r.loaded[r.ancien].statut, "inactif"),
             ![r.nouveau].selection = "Titulaire"]
        /\ remplacements' = remplacements \cup
             {[ancien |-> r.ancien, nouveau |-> r.nouveau, tuteur |-> r.tuteur,
               croise |-> \E e \in {r.ancien, r.nouveau} : eleves[e] # r.loaded[e]]}
  /\ Done(w)
  /\ UNCHANGED <<cles, tuteurs>>

-----------------------------------------------------------------------------
(* The environment *)

\* The handler raised, a constraint refused a row, or the worker died.
Rollback(w) ==
  /\ req[w] # Idle
  /\ Done(w)
  /\ UNCHANGED <<eleves, cles, remplacements, tuteurs>>

\* delete_user: the tutor's replacements go with the account.
DeleteTuteur(t) ==
  /\ t \in tuteurs
  /\ tuteurs' = tuteurs \ {t}
  /\ remplacements' = {r \in remplacements : r.tuteur # t}
  /\ UNCHANGED <<eleves, cles, req>>

Next ==
  \/ \E l \in Lignes : CreateEleve(l) \/ \E t \in Tuteurs : CreateRemplacant(t, l)
  \/ \E S \in SUBSET Eleves : DeleteEleves(S)
  \/ \E w \in Workers :
       \/ \E e \in Eleves, sent \in Editions : ReadUpdate(w, e, sent)
       \/ \E F \in Fichiers : ReadReimport(w, F) \/ \E liste \in BOOLEAN : ReadImport(w, F, liste)
       \/ \E t \in Tuteurs, a, n \in Eleves : ReadRemplacement(w, t, a, n)
       \/ CommitUpdate(w) \/ BulkInsert(w) \/ CommitRemplacement(w) \/ Rollback(w)
  \/ \E t \in Tuteurs : DeleteTuteur(t)

Spec == Init /\ [][Next]_vars

-----------------------------------------------------------------------------
(* Properties *)

\* Every variable keeps its type, no two pupils share a complete identity in a school,
\* and a pupil without row is named by no replacement.
TypeOK ==
  /\ \A e \in Eleves : eleves[e] \in Eleve \cup {NULL}
  /\ DOMAIN eleves = Eleves
  /\ \A e, f \in Eleves : e # f /\ Exists(e) /\ Exists(f) => ~Conflict(eleves[e], eleves[f])
  /\ cles \subseteq {e \in Eleves : ~Exists(e)}
  /\ tuteurs \subseteq Tuteurs
  /\ \A r \in remplacements :
       /\ r \in Remplacement /\ r.tuteur \in tuteurs
       /\ r.ancien # NULL => Exists(r.ancien)
       /\ r.nouveau # NULL => Exists(r.nouveau)

\* A substitute is taken once: two replacements name the same newcomer only when their
\* requests overlapped, whatever edits, imports and deletions come between.
TakenOnceUnlessCrossed ==
  \A r1, r2 \in remplacements :
    r1.nouveau # NULL /\ r1.nouveau = r2.nouveau /\ r1 # r2 => r1.croise \/ r2.croise

\* "Effet immediat": when neither pupil changed meanwhile, the tutor's next list has the
\* newcomer where the outgoing pupil was, among the pupils of the same class, and the
\* class loses nobody else.
SwapSeen ==
  [][\A r \in remplacements' \ remplacements :
       ~r.croise /\ Cardinality(remplacements') > Cardinality(remplacements)
       /\ r.nouveau \in Remplacants(r.tuteur)
       => /\ Titulaires(r.tuteur)' = (Titulaires(r.tuteur) \ {r.ancien}) \cup {r.nouveau}
          /\ Remplacants(r.tuteur)' = Remplacants(r.tuteur) \ {r.nouveau}
          /\ eleves[r.nouveau].classe = eleves[r.ancien].classe]_vars
=============================================================================
