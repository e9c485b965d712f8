------------------------------ MODULE Directory ------------------------------
(***************************************************************************)
(* The directory of the programme: schools, their classes, the accounts of *)
(* tutors and supervisors and the pupils, as the dashboard edits them and  *)
(* as its imports complete them: the workbook of the whole programme       *)
(* (admin/import_export.py), the lists of teachers (admin/teachers.py), of *)
(* schools (admin/schools.py) and of classes (admin/classes.py).           *)
(*                                                                         *)
(* The dashboard's requests are taken one after the other: what is checked *)
(* is what a long series of them leads to. An import is a fold over the    *)
(* rows of its file. Columns that identify nothing (region, sex, title...) *)
(* are left out.                                                           *)
(***************************************************************************)
EXTENDS Integers, FiniteSets, SequencesExt

CONSTANTS
  Noms,          \* names of schools, upper case
  Codes,         \* code_ecole
  Personnes,     \* names of tutors and supervisors, as written
  Cle,           \* Cle[p]: the name without accents, _nkey
  Telephones,    \* phone numbers, as written
  Normal,        \* Normal[t]: the nine digits of t, or NULL when they are not nine
  Classes,       \* names of classes
  Eleves,        \* nom and prenom of a pupil
  SansPrenom,    \* those of Eleves that are a nom only
  CodesEleve,    \* code_eleve
  Lignes,        \* rows a file may hold
  MaxLignes,     \* bound: rows of a file
  MaxEcoles, MaxComptes, MaxEtapes,  \* bounds: schools and accounts ever created, requests
  PROVISOIRE,    \* a placeholder phone number, which no other account has
  NULL           \* SQL NULL, an empty cell, and a key without row

Roles == {"enseignant", "superviseur"}

\* The rows of schools and users, whose primary keys are positions. Pupils are a set: two
\* rows that differ in their primary keys only are one, as no request here tells them apart.
Ecole == [nom : Noms, code : Codes \cup {NULL}]
Compte == [nom : Personnes, role : Roles, ecole : Nat \cup {NULL},
           classes : SUBSET Classes, tel : Telephones \cup {NULL, PROVISOIRE}]

Ligne == [ecole : Noms, code : Codes \cup {NULL},
          superviseurs : Seq(Personnes), telSuperviseur : Telephones \cup {NULL},
          tuteur : Personnes \cup {NULL}, telTuteur : Telephones \cup {NULL},
          classe : Classes, eleve : Eleves, codeEleve : CodesEleve \cup {NULL}]

ASSUME DirectoryAssumption ==
  /\ Lignes \subseteq Ligne
  /\ \A t \in Telephones : Normal[t] \in Telephones \cup {NULL}
  /\ NULL \notin Nat \cup Noms \cup Personnes \cup Ecole \cup Compte
  /\ SansPrenom \subseteq Eleves
  /\ MaxLignes \in Nat /\ MaxEcoles \in Nat /\ MaxComptes \in Nat /\ MaxEtapes \in Nat

VARIABLES
  db,        \* the tables: schools and accounts by primary key, classes, pupils
  dernier,   \* the last request when it was an import of the workbook: its file and
             \* whether a row, or all of it, failed; NULL after any other request
  etapes     \* requests served so far

directoryVars == <<db, dernier, etapes>>

-----------------------------------------------------------------------------
(* Tables *)

Ecoles(d) == {e \in DOMAIN d.ecoles : d.ecoles[e] # NULL}
Comptes(d) == {c \in DOMAIN d.comptes : d.comptes[c] # NULL}

DirectoryInit ==
  /\ db = [ecoles |-> <<>>, comptes |-> <<>>, classes |-> {}, eleves |-> {}]
  /\ dernier = NULL
  /\ etapes = 0

\* The row a dictionary keeps of those with one key: the last of a SELECT without ORDER BY.
Dernier(S, ordre) ==
  CHOOSE k \in S : \A j \in S : IF ordre = "asc" THEN j <= k ELSE k <= j

Ordres == {"asc", "desc"}

Premier(S, ordre) == Dernier(S, IF ordre = "asc" THEN "desc" ELSE "asc")

AddEcole(d, nom, code) == [d EXCEPT !.ecoles = Append(@, [nom |-> nom, code |-> code])]

AddCompte(d, compte) == [d EXCEPT !.comptes = Append(@, compte)]

ParNom(d, nom) == {e \in Ecoles(d) : d.ecoles[e].nom = nom}

\* users.phone is UNIQUE; a placeholder is drawn among the free numbers.
TelPris(d, tel, c) ==
  tel \notin {NULL, PROVISOIRE} /\ \E o \in Comptes(d) \ {c} : d.comptes[o].tel = tel

\* One request: its COMMIT, within the bounds.
Save(d, import) ==
  /\ etapes < MaxEtapes /\ etapes' = etapes + 1
  /\ Len(d.ecoles) <= MaxEcoles /\ Len(d.comptes) <= MaxComptes
  /\ db' = d
  /\ dernier' = import

Fichiers == UNION {[1..n -> Lignes] : n \in 1..MaxLignes}

-----------------------------------------------------------------------------
(* The workbook of the whole programme *)

\* What import_all knows while it goes through the rows: the tables, the accounts
\* without school that no row has claimed (users_sans_ecole), whether some row raised,
\* whether this row did, and whether a flush failed, after which none succeeds.
Progress(d) == [d |-> d, orphelins |-> {c \in Comptes(d) : d.comptes[c].ecole = NULL},
                erreur |-> FALSE, saute |-> FALSE, echec |-> FALSE]

Raise(st) == [st EXCEPT !.erreur = TRUE, !.saute = TRUE]

FlushFails(st) == [st EXCEPT !.erreur = TRUE, !.saute = TRUE, !.echec = TRUE]

\* The school of a row: by its code, else by its name.
EcoleDe(d, l, ordre) ==
  LET parCode == {e \in Ecoles(d) : l.code # NULL /\ d.ecoles[e].code = l.code}
  IN IF parCode # {} THEN Dernier(parCode, ordre) ELSE Dernier(ParNom(d, l.ecole), ordre)

\* Faulty variant: a school is looked for by its code only.
EtapeEcoleParCode(st, l) ==
  IF \E e \in Ecoles(st.d) : l.code # NULL /\ st.d.ecoles[e].code = l.code
  THEN st
  ELSE [st EXCEPT !.d = AddEcole(@, l.ecole, l.code)]

EtapeEcole(st, l) ==
  IF \E e \in Ecoles(st.d) : \/ st.d.ecoles[e].nom = l.ecole
                             \/ l.code # NULL /\ st.d.ecoles[e].code = l.code
  THEN st
  ELSE [st EXCEPT !.d = AddEcole(@, l.ecole, l.code)]

\* trouver_compte: the account of that name and role in the school, else one without school.
Homonymes(d, nom, role) ==
  {c \in Comptes(d) : d.comptes[c].role = role /\ Cle[d.comptes[c].nom] = Cle[nom]}

DeLEcole(d, ecole, nom, role) == {c \in Homonymes(d, nom, role) : d.comptes[c].ecole = ecole}

\* Of the accounts without school that bear one name, the dictionary holds one.
SansEcole(st, nom, role, ordre) ==
  LET S == Homonymes(st.d, nom, role) \cap st.orphelins
  IN IF S = {} THEN {} ELSE {Dernier(S, ordre)}

\* The account claimed joins the school, and its namesakes without school are forgotten.
Attach(st, c, ecole) ==
  [st EXCEPT !.d.comptes[c].ecole = ecole,
             !.orphelins = @ \ Homonymes(st.d, st.d.comptes[c].nom, st.d.comptes[c].role)]

CreateCompte(st, nom, role, ecole, classes, ecrit) ==
  LET tel == IF ecrit = NULL THEN PROVISOIRE ELSE Normal[ecrit]
  IN IF tel = NULL THEN Raise(st)
     ELSE IF TelPris(st.d, tel, 0) THEN FlushFails(st)
     ELSE [st EXCEPT !.d = AddCompte(@, [nom |-> nom, role |-> role, ecole |-> ecole,
                                         classes |-> classes, tel |-> tel])]

\* One supervisor of the cell, which may name several beside one phone number.
EtapeSuperviseur(st, nom, l, ordre) ==
  LET ecole == EcoleDe(st.d, l, ordre)
      libres == SansEcole(st, nom, "superviseur", ordre)
  IN IF st.saute \/ DeLEcole(st.d, ecole, nom, "superviseur") # {} THEN st
     ELSE IF libres # {} THEN Attach(st, CHOOSE c \in libres : TRUE, ecole)
     ELSE CreateCompte(st, nom, "superviseur", ecole, {}, l.telSuperviseur)

\* Faulty variant: the list of classes is replaced.
ReplaceClasses(st, c, classe) == [st EXCEPT !.d.comptes[c].classes = {classe}]

\* Faulty variant: the list of classes is left alone.
KeepClasses(st, c, classe) == st

\* ajouter_classe.
AjouterClasse(st, c, classe) == [st EXCEPT !.d.comptes[c].classes = @ \cup {classe}]

EtapeTuteur(st, l, ordre) ==
  LET ecole == EcoleDe(st.d, l, ordre)
      ici == DeLEcole(st.d, ecole, l.tuteur, "enseignant")
      libres == SansEcole(st, l.tuteur, "enseignant", ordre)
  IN IF st.saute \/ l.tuteur = NULL THEN st
     ELSE IF ici # {} THEN AjouterClasse(st, Dernier(ici, ordre), l.classe)
     ELSE IF libres # {}
          THEN LET c == CHOOSE c \in libres : TRUE
               IN AjouterClasse(Attach(st, c, ecole), c, l.classe)
     ELSE CreateCompte(st, l.tuteur, "enseignant", ecole, {l.classe}, l.telTuteur)

\* A pupil is known by the code, else by school, class and name.
EleveConnu(d, ecole, l) ==
  \E e \in d.eleves : \/ l.codeEleve # NULL /\ e.code = l.codeEleve
                      \/ <<e.ecole, e.classe, e.nom>> = <<ecole, l.classe, l.eleve>>

EtapeClasseEleve(st, l, ordre) ==
  LET ecole == EcoleDe(st.d, l, ordre)
      eleve == [ecole |-> ecole, classe |-> l.classe, nom |-> l.eleve, code |-> l.codeEleve]
  IN IF st.saute THEN st
     ELSE [st EXCEPT !.d.classes = @ \cup {[ecole |-> ecole, nom |-> l.classe]},
                     !.d.eleves = IF EleveConnu(st.d, ecole, l) THEN @ ELSE @ \cup {eleve}]

\* A row must name a school; no file of Lignes lacks it, but an export may.
ImportLigne(st, l, ordre) ==
  IF st.echec THEN st
  ELSE IF l.ecole = NULL THEN Raise(st)
  ELSE LET e == EtapeEcole([st EXCEPT !.saute = FALSE], l)
           s == FoldLeft(LAMBDA x, nom : EtapeSuperviseur(x, nom, l, ordre), e, l.superviseurs)
       IN EtapeClasseEleve(EtapeTuteur(s, l, ordre), l, ordre)

\* import_all. After a failed flush the COMMIT raises, and nothing is stored.
Import(d, F, ordre) ==
  LET st == FoldLeft(LAMBDA x, l : ImportLigne(x, l, ordre), Progress(d), F)
  IN [d |-> IF st.echec THEN d ELSE st.d, erreur |-> st.erreur, echec |-> st.echec]

ImportAll(F) ==
  \E ordre \in Ordres :
    LET r == Import(db, F, ordre)
    IN Save(r.d, [fichier |-> F, erreur |-> r.erreur, echec |-> r.echec])

\* tuteur_for: the tutor an exported pupil is written with.
TuteurPour(d, e, ordre) ==
  LET tuteurs == {c \in Comptes(d) : d.comptes[c].role = "enseignant" /\ d.comptes[c].ecole = e.ecole}
      siens == {c \in tuteurs : e.classe \in d.comptes[c].classes}
  IN IF siens # {} THEN Premier(siens, ordre)
     ELSE IF Cardinality(tuteurs) = 1 THEN CHOOSE c \in tuteurs : TRUE ELSE NULL

SuperviseursDe(d, ecole) ==
  {c \in Comptes(d) : d.comptes[c].role = "superviseur" /\ d.comptes[c].ecole = ecole}

\* The rows of a SELECT.
Liste(S, ordre) ==
  CHOOSE s \in SetToSeqs(S) :
    \A i, j \in DOMAIN s : i < j => IF ordre = "asc" THEN s[i] < s[j] ELSE s[j] < s[i]

\* export_all: the row of a pupil of some school, with the names of all its supervisors and
\* the number of the first.
ExportLigne(d, e, ordre) ==
  LET sups == Liste(SuperviseursDe(d, e.ecole), ordre)
      tut == TuteurPour(d, e, ordre)
      stored(tel) == IF tel = PROVISOIRE THEN NULL ELSE tel
  IN [ecole |-> d.ecoles[e.ecole].nom, code |-> d.ecoles[e.ecole].code,
      superviseurs |-> [i \in DOMAIN sups |-> d.comptes[sups[i]].nom],
      telSuperviseur |-> IF sups = <<>> THEN NULL ELSE stored(d.comptes[sups[1]].tel),
      tuteur |-> IF tut = NULL THEN NULL ELSE d.comptes[tut].nom,
      telTuteur |-> IF tut = NULL THEN NULL ELSE stored(d.comptes[tut].tel),
      classe |-> e.classe, eleve |-> e.nom, codeEleve |-> e.code]

\* A pupil without school leaves every cell of the school empty.
LigneSansEcole(e) ==
  [ecole |-> NULL, code |-> NULL, superviseurs |-> <<>>, telSuperviseur |-> NULL,
   tuteur |-> NULL, telTuteur |-> NULL, classe |-> e.classe, eleve |-> e.nom,
   codeEleve |-> e.code]

LigneDe(d, e, ordre) ==
  IF e.ecole = NULL THEN LigneSansEcole(e) ELSE ExportLigne(d, e, ordre)

\* One row for each pupil, in some order.
Exports(d, ordre) ==
  {[i \in DOMAIN s |-> LigneDe(d, s[i], ordre)] : s \in SetToSeqs(d.eleves)}

-----------------------------------------------------------------------------
(* Schools and classes *)

\* SchoolCreate has no code; two schools may bear one name.
CreateSchool(nom) == Save(AddEcole(db, nom, NULL), NULL)

\* /schools/import/csv: every row becomes a school.
ImportSchoolsCsv(F) ==
  Save(FoldLeft(LAMBDA d, l : AddEcole(d, l.ecole, NULL), db, F), NULL)

AddIfUnknown(d, nom) == IF ParNom(d, nom) = {} THEN AddEcole(d, nom, NULL) ELSE d

\* /schools/import/xlsx, and /schools/reimport for what identifies a school.
ImportSchools(F) == Save(FoldLeft(LAMBDA d, l : AddIfUnknown(d, l.ecole), db, F), NULL)

RenameSchool(e, nom) ==
  /\ e \in Ecoles(db)
  /\ Save([db EXCEPT !.ecoles[e].nom = nom], NULL)

\* Faulty variant: the accounts keep the school that is gone.
AccountsKept(d, e) == d.comptes

\* ON DELETE SET NULL for the accounts.
AccountsWithout(d, e) ==
  [c \in DOMAIN d.comptes |->
     IF d.comptes[c] # NULL /\ d.comptes[c].ecole = e
     THEN [d.comptes[c] EXCEPT !.ecole = NULL] ELSE d.comptes[c]]

\* ON DELETE CASCADE for the classes and the pupils.
DeleteSchool(e) ==
  /\ e \in Ecoles(db)
  /\ Save([ecoles |-> [db.ecoles EXCEPT ![e] = NULL], comptes |-> AccountsWithout(db, e),
           classes |-> {k \in db.classes : k.ecole # e},
           eleves |-> {p \in db.eleves : p.ecole # e}], NULL)

CreateClasse(e, c) ==
  /\ e \in Ecoles(db) /\ [ecole |-> e, nom |-> c] \notin db.classes
  /\ Save([db EXCEPT !.classes = @ \cup {[ecole |-> e, nom |-> c]}], NULL)

\* The pupils and the tutors keep the name they have.
UpdateClasse(k, c) ==
  /\ [k EXCEPT !.nom = c] \notin db.classes
  /\ Save([db EXCEPT !.classes = (@ \ {k}) \cup {[k EXCEPT !.nom = c]}], NULL)

DeleteClasse(k) == Save([db EXCEPT !.classes = @ \ {k}], NULL)

ReimportClasse(d, l, ordre) ==
  LET avec == AddIfUnknown(d, l.ecole)
  IN [avec EXCEPT !.classes = @ \cup {[ecole |-> Dernier(ParNom(avec, l.ecole), ordre), nom |-> l.classe]}]

ReimportClasses(F) ==
  \E ordre \in Ordres :
    Save(FoldLeft(LAMBDA d, l : ReimportClasse(d, l, ordre), db, F), NULL)

\* uq_eleve_school_classe_nom: a NULL school or prenom is distinct from every other.
Distinct(p) == p.ecole = NULL \/ p.nom \in SansPrenom

MemePlace(p, q) == <<p.ecole, p.classe, p.nom>> = <<q.ecole, q.classe, q.nom>>

\* create_eleve checks nothing: neither that the school, which may be absent, has the class,
\* nor that the pupil is new. Only the key of the table does.
CreateEleve(e, c, nom) ==
  LET eleve == [ecole |-> e, classe |-> c, nom |-> nom, code |-> NULL]
  IN /\ Distinct(eleve) \/ \A p \in db.eleves : ~MemePlace(p, eleve)
     /\ Save([db EXCEPT !.eleves = @ \cup {eleve}], NULL)

-----------------------------------------------------------------------------
(* Accounts *)

Enseignant(nom, ecole, classes, tel) ==
  [nom |-> nom, role |-> "enseignant", ecole |-> ecole, classes |-> classes, tel |-> tel]

\* create_user: the number is stored in nine digits and must be free.
CreateUser(nom, role, ecole, ecrit) ==
  /\ Normal[ecrit] # NULL /\ ~TelPris(db, Normal[ecrit], 0)
  /\ Save(AddCompte(db, [Enseignant(nom, ecole, {}, Normal[ecrit]) EXCEPT !.role = role]), NULL)

\* update_user: the school, the number or the classes of an account.
UpdateEcole(c, e) ==
  /\ c \in Comptes(db)
  /\ Save([db EXCEPT !.comptes[c].ecole = e], NULL)

UpdateTel(c, ecrit) ==
  /\ c \in Comptes(db) /\ Normal[ecrit] # NULL /\ ~TelPris(db, Normal[ecrit], c)
  /\ Save([db EXCEPT !.comptes[c].tel = Normal[ecrit]], NULL)

UpdateClasses(c, classes) ==
  /\ c \in Comptes(db) /\ db.comptes[c].role = "enseignant"
  /\ Save([db EXCEPT !.comptes[c].classes = classes], NULL)

\* delete_user, bulk_delete_teachers.
DeleteUsers(S) ==
  /\ S # {}
  /\ Save([db EXCEPT !.comptes = [c \in DOMAIN @ |-> IF c \in S THEN NULL ELSE @[c]]], NULL)

\* /teachers/import/csv: create_user for each row, all or none.
ImportTeachersCsv(F) ==
  LET inserts == {i \in DOMAIN F : F[i].tuteur # NULL /\ F[i].telTuteur # NULL}
      tel(i) == Normal[F[i].telTuteur]
  IN /\ \A i \in inserts : /\ tel(i) # NULL /\ ~TelPris(db, tel(i), 0)
                           /\ \A j \in inserts : tel(i) = tel(j) => i = j
     /\ Save(FoldLeft(LAMBDA d, l :
               IF l.tuteur = NULL \/ l.telTuteur = NULL THEN d
               ELSE AddCompte(d, Enseignant(l.tuteur, NULL, {l.classe}, Normal[l.telTuteur])), db, F), NULL)

\* /teachers/import/xlsx: one account for each school and name of the file that has none.
ImportTeacher(d, l, F, ordre) ==
  LET ecole == Dernier(ParNom(d, l.ecole), ordre)
      classes == {F[i].classe : i \in {j \in DOMAIN F : <<F[j].ecole, F[j].tuteur>> = <<l.ecole, l.tuteur>>}}
  IN IF l.tuteur = NULL
        \/ \E c \in Comptes(d) : /\ d.comptes[c].role = "enseignant" /\ d.comptes[c].ecole = ecole
                                 /\ d.comptes[c].nom = l.tuteur
     THEN d
     ELSE AddCompte(d, Enseignant(l.tuteur, ecole, classes, NULL))

ImportTeachersXlsx(F) ==
  \E ordre \in Ordres :
    LET avec == FoldLeft(LAMBDA d, l : IF l.tuteur = NULL THEN d ELSE AddIfUnknown(d, l.ecole), db, F)
    IN Save(FoldLeft(LAMBDA d, l : ImportTeacher(d, l, F, ordre), avec, F), NULL)

\* /teachers/reimport: a teacher of that name, in any school, is updated; the number is
\* stored as written, and compared with those of the teachers.
ReimportTeacher(d, l, ordre) ==
  LET enseignants == {c \in Comptes(d) : d.comptes[c].role = "enseignant"}
      connus == {c \in enseignants : d.comptes[c].nom = l.tuteur}
      c == Premier(connus, ordre)
      pris == l.telTuteur # NULL
              /\ \E o \in enseignants : /\ d.comptes[o].tel = l.telTuteur
                                        /\ connus # {} => o # c
  IN IF l.tuteur = NULL \/ pris THEN d
     ELSE IF connus # {}
     THEN [d EXCEPT !.comptes[c].tel = IF l.telTuteur = NULL THEN @ ELSE l.telTuteur,
                    !.comptes[c].classes = {l.classe}]
     ELSE IF l.telTuteur = NULL THEN d
     ELSE AddCompte(d, Enseignant(l.tuteur, NULL, {l.classe}, l.telTuteur))

\* One flush for all rows: a number some supervisor has makes it fail.
ReimportTeachers(F) ==
  \E ordre \in Ordres :
    LET d == FoldLeft(LAMBDA x, l : ReimportTeacher(x, l, ordre), db, F)
    IN /\ \A c \in Comptes(d) : ~TelPris(d, d.comptes[c].tel, c)
       /\ Save(d, NULL)

DirectoryNext ==
  \/ \E F \in Fichiers :
       \/ ImportAll(F) \/ ImportSchoolsCsv(F) \/ ImportSchools(F) \/ ReimportClasses(F)
       \/ ImportTeachersCsv(F) \/ ImportTeachersXlsx(F) \/ ReimportTeachers(F)
  \/ \E nom \in Noms : CreateSchool(nom) \/ \E e \in DOMAIN db.ecoles : RenameSchool(e, nom)
  \/ \E e \in Ecoles(db) :
       DeleteSchool(e) \/ \E c \in Classes : CreateClasse(e, c)
  \/ \E e \in Ecoles(db) \cup {NULL}, c \in Classes, p \in Eleves : CreateEleve(e, c, p)
  \/ \E k \in db.classes : DeleteClasse(k) \/ \E c \in Classes : UpdateClasse(k, c)
  \/ \E p \in Personnes, role \in Roles, e \in Ecoles(db) \cup {NULL}, t \in Telephones :
       CreateUser(p, role, e, t)
  \/ \E c \in Comptes(db) :
       \/ \E e \in Ecoles(db) : UpdateEcole(c, e)
       \/ \E t \in Telephones : UpdateTel(c, t)
       \/ \E K \in SUBSET Classes : UpdateClasses(c, K)
  \/ \E S \in SUBSET Comptes(db) : DeleteUsers(S)

DirectorySpec == DirectoryInit /\ [][DirectoryNext]_directoryVars

-----------------------------------------------------------------------------
(* Properties *)

\* Every variable keeps its type, the rows refer to schools that exist, no two accounts have
\* one number, and no two pupils with a school and a prenom have one place.
TablesOK ==
  /\ \A e \in Ecoles(db) : db.ecoles[e] \in [nom : Noms, code : Codes \cup {NULL}]
  /\ \A e, f \in Ecoles(db) : db.ecoles[e].code # NULL /\ db.ecoles[e].code = db.ecoles[f].code => e = f
  /\ \A c \in Comptes(db) :
       /\ db.comptes[c] \in [nom : Personnes, role : Roles, ecole : Ecoles(db) \cup {NULL},
                             classes : SUBSET Classes, tel : Telephones \cup {NULL, PROVISOIRE}]
       /\ ~TelPris(db, db.comptes[c].tel, c)
  /\ db.classes \subseteq [ecole : Ecoles(db), nom : Classes]
  /\ db.eleves \subseteq [ecole : Ecoles(db) \cup {NULL}, classe : Classes, nom : Eleves, code : CodesEleve \cup {NULL}]
  /\ \A p, q \in db.eleves : MemePlace(p, q) /\ ~Distinct(p) => p = q
  /\ etapes \in 0..MaxEtapes

\* Names tell the schools apart, and the accounts of a school.
Univoque(d) ==
  /\ \A e, f \in Ecoles(d) : d.ecoles[e].nom = d.ecoles[f].nom => e = f
  /\ \A c, b \in Comptes(d) :
       /\ d.comptes[c].role = d.comptes[b].role /\ d.comptes[c].ecole = d.comptes[b].ecole
       /\ Cle[d.comptes[c].nom] = Cle[d.comptes[b].nom]
       => c = b

\* A code names one school in the file.
CodesUnivoques(F) ==
  \A i, j \in DOMAIN F : F[i].code # NULL /\ F[i].code = F[j].code => F[i].ecole = F[j].ecole

\* An export creates no school, account or pupil: it registers the classes the pupils of its
\* schools are in, and gives them to the only tutor of the school. The pupils without school
\* are the only rows it reports.
ExportCreatesNothing(d) ==
  LET classes == {[ecole |-> p.ecole, nom |-> p.classe] : p \in {p \in d.eleves : p.ecole # NULL}}
  IN \A ordre, autre \in Ordres : \A F \in Exports(d, ordre) :
       LET r == Import(d, F, autre)
       IN /\ r.erreur <=> \E p \in d.eleves : p.ecole = NULL
          /\ <<r.d.ecoles, r.d.eleves>> = <<d.ecoles, d.eleves>>
          /\ r.d.classes = d.classes \cup classes
          /\ DOMAIN r.d.comptes = DOMAIN d.comptes
          /\ \A c \in Comptes(d) :
               \E K \in SUBSET {k.nom : k \in {k \in classes : k.ecole = d.comptes[c].ecole}} :
                 r.d.comptes[c] = [d.comptes[c] EXCEPT !.classes = @ \cup K]

\* "Réimporter un export intact ne crée donc rien : l'opération est idempotente"
\* (import_export.py): while names tell things apart, a workbook imported without error,
\* in which a code names one school, brings nothing when it is imported again, whatever the
\* requests before it have left; nor does an export create anything.
ImportIdempotent ==
  Univoque(db) =>
    /\ dernier # NULL =>
         (~dernier.erreur /\ CodesUnivoques(dernier.fichier) =>
            \A ordre \in Ordres : Import(db, dernier.fichier, ordre).d = db)
    /\ ExportCreatesNothing(db)

IsImport == dernier' # NULL /\ etapes' # etapes

\* An import only creates rows, gives a tutor one more class and an account without school
\* a school.
NothingDestroyed ==
  [][IsImport =>
       /\ db.classes \subseteq db'.classes /\ db.eleves \subseteq db'.eleves
       /\ \A e \in DOMAIN db.ecoles : db'.ecoles[e] = db.ecoles[e]
       /\ \A c \in Comptes(db) :
            LET avant == db.comptes[c] apres == db'.comptes[c]
            IN /\ avant.classes \subseteq apres.classes
               /\ avant.ecole # NULL => apres.ecole = avant.ecole
               /\ <<avant.nom, avant.role, avant.tel>> = <<apres.nom, apres.role, apres.tel>>]_directoryVars

\* A pupil that an import creates in a row with a tutor is in a class of a tutor of that
\* name at the pupil's school: the phone of the tutor shows the pupil.
VisibleToTutor ==
  [][IsImport =>
       \A p \in db'.eleves \ db.eleves :
         \E i \in DOMAIN dernier'.fichier :
           LET l == dernier'.fichier[i]
           IN /\ <<l.eleve, l.classe, l.codeEleve>> = <<p.nom, p.classe, p.code>>
              /\ l.tuteur # NULL =>
                   \E c \in DeLEcole(db', p.ecole, l.tuteur, "enseignant") :
                     p.classe \in db'.comptes[c].classes]_directoryVars

\* A row that would be stored by itself is stored whatever the rows before it.
BadRowStopsNoOther ==
  [][IsImport =>
       \A i \in DOMAIN dernier'.fichier :
         LET l == dernier'.fichier[i]
         IN (\A ordre \in Ordres : ~Import(db, <<l>>, ordre).erreur) =>
              \E p \in db'.eleves : p.nom = l.eleve \/ p.code = l.codeEleve]_directoryVars
=============================================================================
