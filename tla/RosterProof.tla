---------------------------- MODULE RosterProof ----------------------------
(***************************************************************************)
(* Theorems about module Roster, for every set of pupils, schools, tutors, *)
(* rows of a file and workers.                                             *)
(***************************************************************************)
EXTENDS Roster, FiniteSetTheorems, TLAPS

-----------------------------------------------------------------------------
(* The inductive invariant *)

\* The fields of a request. What a replacement asked of the rows it has loaded stays
\* true of them, whatever becomes of the table.
Typed(r) ==
  /\ r.op = "update" => r.eleve \in Eleves /\ r.sent \in Editions
  /\ r.op = "insert" => r.lignes \subseteq Lignes
  /\ r.op = "replace" =>
       /\ r.tuteur \in Tuteurs /\ r.ancien \in Eleves /\ r.nouveau \in Eleves
       /\ r.ancien # r.nouveau
       /\ Replaceable(r.tuteur, r.loaded[r.ancien], r.loaded[r.nouveau])

Requests ==
  /\ req = [w \in Workers |-> req[w]]
  /\ \A w \in Workers : Typed(req[w])

\* Whoever has taken a place is no substitute any more.
TakenIsTitulaire ==
  \A r \in remplacements : r.nouveau # NULL => eleves[r.nouveau].selection = "Titulaire"

IInv ==
  /\ TypeOK /\ Requests
  /\ IsFiniteSet(remplacements)
  /\ TakenIsTitulaire /\ TakenOnceUnlessCrossed

\* What the tables keep, in one name.
Tables ==
  TypeOK /\ IsFiniteSet(remplacements) /\ TakenIsTitulaire /\ TakenOnceUnlessCrossed

-----------------------------------------------------------------------------
(* Requests *)

\* The other requests when one of them goes on, arrives or leaves.
LEMMA RequestsKept ==
  ASSUME IInv, NEW w \in Workers, NEW r, req' = [req EXCEPT ![w] = r], Typed(r)
  PROVE  Requests'
<1>1. \A v \in Workers : req'[v] = IF v = w THEN r ELSE req[v]
  BY DEF IInv, Requests
<1>2. req' = [v \in Workers |-> req'[v]]
  BY DEF IInv, Requests
<1>3. \A v \in Workers : Typed(req'[v])
  BY <1>1 DEF IInv, Requests
<1>4. \A v \in Workers : Typed(req[v])'
  BY <1>3 DEF Typed, Replaceable
<1>. QED
  BY <1>2, <1>4 DEF Requests

\* A step that goes on with no request.
LEMMA AllRequestsKept ==
  ASSUME IInv, UNCHANGED req
  PROVE  Requests'
<1>1. \A v \in Workers : Typed(req[v])'
  BY DEF IInv, Requests, Typed, Replaceable
<1>. QED
  BY <1>1 DEF IInv, Requests

\* A step that writes no table.
LEMMA TablesKept ==
  ASSUME IInv, UNCHANGED <<eleves, cles, remplacements, tuteurs>>
  PROVE  Tables'
  BY DEF IInv, Tables, TypeOK, TakenIsTitulaire, TakenOnceUnlessCrossed, Exists

\* A request arrives.
LEMMA RequestStep ==
  ASSUME IInv, NEW w \in Workers, NEW r, req' = [req EXCEPT ![w] = r], Typed(r),
         UNCHANGED <<eleves, cles, remplacements, tuteurs>>
  PROVE  IInv'
  BY TablesKept, RequestsKept DEF IInv, Tables

\* A request is over.
LEMMA DoneStep ==
  ASSUME IInv, Tables', NEW w \in Workers, Done(w)
  PROVE  IInv'
<1>1. Typed(Idle)
  BY DEF Typed, Idle
<1>. QED
  BY <1>1, RequestsKept DEF IInv, Tables, Done

\* update_eleve has loaded the pupil.
LEMMA ReadUpdateStep ==
  ASSUME IInv, NEW w \in Workers, NEW e \in Eleves, NEW sent \in Editions, ReadUpdate(w, e, sent)
  PROVE  IInv'
<1>1. PICK r : r = [op |-> "update", eleve |-> e, loaded |-> eleves[e], sent |-> sent]
  OBVIOUS
<1>2. Typed(r)
  BY <1>1 DEF Typed
<1>3. req' = [req EXCEPT ![w] = r] /\ UNCHANGED <<eleves, cles, remplacements, tuteurs>>
  BY <1>1 DEF ReadUpdate, Arrive
<1>. QED
  BY <1>2, <1>3, RequestStep

\* An import has loaded the pupils it compares with.
LEMMA ReadImportStep ==
  ASSUME IInv, NEW w \in Workers, NEW F \in Fichiers,
         ReadReimport(w, F) \/ \E liste \in BOOLEAN : ReadImport(w, F, liste)
  PROVE  IInv'
<1>1. PICK G \in SUBSET Lignes : Arrive(w, [op |-> "insert", lignes |-> G])
  BY DEF ReadReimport, ReadImport, Fichiers
<1>2. PICK r : r = [op |-> "insert", lignes |-> G]
  OBVIOUS
<1>3. Typed(r)
  BY <1>2 DEF Typed
<1>4. req' = [req EXCEPT ![w] = r] /\ UNCHANGED <<eleves, cles, remplacements, tuteurs>>
  BY <1>1, <1>2 DEF Arrive
<1>. QED
  BY <1>3, <1>4, RequestStep

\* create_remplacement has made its checks.
LEMMA ReadRemplacementStep ==
  ASSUME IInv, NEW w \in Workers, NEW t \in Tuteurs, NEW a \in Eleves, NEW n \in Eleves,
         ReadRemplacement(w, t, a, n)
  PROVE  IInv'
<1>1. PICK l : l = [e \in {a, n} |-> eleves[e]]
  OBVIOUS
<1>2. PICK r : r = [op |-> "replace", tuteur |-> t, ancien |-> a, nouveau |-> n, loaded |-> l]
  OBVIOUS
<1>3. Replaceable(t, l[a], l[n]) /\ a # n
  BY <1>1 DEF ReadRemplacement, Replaceable
<1>4. Typed(r)
  BY <1>2, <1>3 DEF Typed
<1>5. req' = [req EXCEPT ![w] = r] /\ UNCHANGED <<eleves, cles, remplacements, tuteurs>>
  BY <1>1, <1>2 DEF ReadRemplacement, Arrive
<1>. QED
  BY <1>4, <1>5, RequestStep

\* A request ends without effect.
LEMMA RollbackStep ==
  ASSUME IInv, NEW w \in Workers, Rollback(w)
  PROVE  IInv'
  BY TablesKept, DoneStep DEF Rollback

-----------------------------------------------------------------------------
(* Pupils that come, change and go *)

\* Rows written without a word to the history: none of a pupil that has taken a place
\* is lost, nor its place.
LEMMA RowsStep ==
  ASSUME IInv, NEW ids \in SUBSET Eleves, NEW new,
         eleves' = [e \in Eleves |-> IF e \in ids THEN new[e] ELSE eleves[e]],
         cles' \subseteq cles \ ids, UNCHANGED <<remplacements, tuteurs>>,
         \A e \in ids : new[e] \in Eleve,
         \A e \in ids : Exists(e) => new[e].selection = eleves[e].selection,
         \A e \in ids, f \in Eleves :
           e # f /\ eleves'[f] # NULL => ~Conflict(new[e], eleves'[f]) /\ ~Conflict(eleves'[f], new[e])
  PROVE  Tables'
<1>1. \A e \in Eleves : /\ e \in ids => eleves'[e] = new[e] /\ eleves'[e] \in Eleve /\ eleves'[e] # NULL
                        /\ e \notin ids => eleves'[e] = eleves[e]
  BY RowsAssumption
<1>2. \A e \in Eleves : eleves'[e] \in Eleve \cup {NULL}
  BY <1>1 DEF IInv, TypeOK
<1>3. \A e, f \in Eleves : e # f /\ Exists(e)' /\ Exists(f)' => ~Conflict(eleves'[e], eleves'[f])
  <2> SUFFICES ASSUME NEW e \in Eleves, NEW f \in Eleves, e # f, eleves'[e] # NULL, eleves'[f] # NULL
               PROVE  ~Conflict(eleves'[e], eleves'[f])
    BY DEF Exists
  <2>1. CASE e \in ids \/ f \in ids
    BY <1>1, <2>1
  <2>2. CASE e \notin ids /\ f \notin ids
    BY <1>1, <2>2 DEF IInv, TypeOK, Exists
  <2>. QED
    BY <2>1, <2>2
<1>4. cles' \subseteq {e \in Eleves : ~Exists(e)'}
  BY <1>1 DEF IInv, TypeOK, Exists
<1>5. \A e \in Eleves : Exists(e) => Exists(e)' /\ eleves'[e].selection = eleves[e].selection
  BY <1>1 DEF Exists
<1>6. \A r \in remplacements : r.ancien \in Eleves \cup {NULL} /\ r.nouveau \in Eleves \cup {NULL}
  BY DEF IInv, TypeOK, Remplacement
<1>7. TypeOK'
  BY <1>2, <1>3, <1>4, <1>5, <1>6 DEF IInv, TypeOK, Exists, Conflict
<1>8. TakenIsTitulaire'
  BY <1>5, <1>6 DEF IInv, TypeOK, TakenIsTitulaire
<1>9. TakenOnceUnlessCrossed'
  BY DEF IInv, TakenOnceUnlessCrossed
<1>. QED
  BY <1>7, <1>8, <1>9 DEF IInv, Tables

\* New pupils commit.
LEMMA InsertStep ==
  ASSUME IInv, NEW l \in Ligne, NEW s \in {NULL, "remplacant"}, InsertEleve(l, s)
  PROVE  IInv'
<1>1. PICK e \in cles : /\ ~KeyTaken(l, e) /\ eleves' = [eleves EXCEPT ![e] = NewEleve(l, s)]
                        /\ cles' = cles \ {e}
  BY DEF InsertEleve
<1>2. UNCHANGED <<remplacements, tuteurs>> /\ UNCHANGED req
  BY DEF InsertEleve
<1>3. e \in Eleves /\ ~Exists(e) /\ DOMAIN eleves = Eleves
  BY DEF IInv, TypeOK
<1>4. PICK x : x = NewEleve(l, s)
  OBVIOUS
<1>5. x \in Eleve /\ x.ecole = l.ecole /\ x.classe = l.classe /\ x.personne = l.personne
  BY <1>4 DEF NewEleve, Eleve, Ligne
<1>10. PICK ids \in SUBSET Eleves : ids = {e}
  BY <1>3
<1>11. PICK new : new = [i \in {e} |-> x]
  OBVIOUS
<1>6. ids = {e} /\ new = [i \in {e} |-> x]
  BY <1>10, <1>11
<1>7. eleves' = [i \in Eleves |-> IF i \in ids THEN new[i] ELSE eleves[i]]
  BY <1>1, <1>3, <1>4, <1>6
<1>8. \A f \in Eleves : e # f /\ eleves'[f] # NULL =>
        ~Conflict(x, eleves'[f]) /\ ~Conflict(eleves'[f], x)
  <2> SUFFICES ASSUME NEW f \in Eleves, e # f, eleves'[f] # NULL
               PROVE  ~Conflict(x, eleves'[f]) /\ ~Conflict(eleves'[f], x)
    OBVIOUS
  <2>1. eleves'[f] = eleves[f] /\ Exists(f)
    BY <1>1, <1>3 DEF Exists
  <2>2. ~Conflict(l, eleves[f])
    BY <1>1, <2>1 DEF KeyTaken
  <2>. QED
    BY <1>5, <2>1, <2>2 DEF Conflict
<1>12. \A i \in ids : new[i] \in Eleve /\ ~Exists(i)
  BY <1>3, <1>5, <1>6
<1>13. \A i \in ids, f \in Eleves :
         i # f /\ eleves'[f] # NULL => ~Conflict(new[i], eleves'[f]) /\ ~Conflict(eleves'[f], new[i])
  BY <1>6, <1>8
<1>14. cles' \subseteq cles \ ids
  BY <1>1, <1>6
<1>9. Tables'
  BY <1>2, <1>7, <1>12, <1>13, <1>14, RowsStep
<1>. QED
  BY <1>2, <1>9, AllRequestsKept DEF IInv, Tables

\* create_eleve and create_remplacant.
LEMMA CreateStep ==
  ASSUME IInv, NEW l \in Lignes,
         CreateEleve(l) \/ \E t \in Tuteurs : CreateRemplacant(t, l)
  PROVE  IInv'
<1>1. l \in Ligne
  BY RosterAssumption DEF Ligne
<1>. QED
  BY <1>1, InsertStep DEF CreateEleve, CreateRemplacant

\* An edit changes neither the selection of a pupil nor the set of pupils.
LEMMA CommitUpdateStep ==
  ASSUME IInv, NEW w \in Workers, CommitUpdate(w)
  PROVE  IInv'
<1>1. PICK e : e = req[w].eleve
  OBVIOUS
<1>2. PICK sent : sent = req[w].sent
  OBVIOUS
<1>3. PICK loaded : loaded = req[w].loaded
  OBVIOUS
<1>4. PICK row : row = [c \in DOMAIN eleves[e] |->
                          IF c \in DOMAIN sent THEN Flushed(eleves[e][c], loaded[c], sent[c])
                          ELSE eleves[e][c]]
  OBVIOUS
<1>5. /\ Exists(e) /\ ~KeyTaken(row, e) /\ eleves' = [eleves EXCEPT ![e] = row]
      /\ Done(w) /\ UNCHANGED <<cles, remplacements, tuteurs>>
  BY <1>1, <1>2, <1>3, <1>4 DEF CommitUpdate
<1>6. e \in Eleves /\ sent \in Editions /\ DOMAIN eleves = Eleves
  BY <1>1, <1>2 DEF CommitUpdate, IInv, Requests, Typed, TypeOK
<1>7. eleves[e] \in Eleve
  BY <1>5, <1>6 DEF IInv, TypeOK, Exists
<1>8. row \in Eleve /\ row.selection = eleves[e].selection
  <2>1. DOMAIN eleves[e] = {"personne", "classe", "ecole", "statut", "selection"}
    BY <1>7 DEF Eleve
  <2>2. \/ sent \in [statut : {"actif", "inactif"}] \/ sent \in [classe : Classes]
        \/ sent \in [ecole : Ecoles]
    BY <1>6, RosterAssumption
  <2>3. /\ row.personne = eleves[e].personne /\ row.selection = eleves[e].selection
        /\ row.classe \in {eleves[e].classe} \cup Classes
        /\ row.ecole \in {eleves[e].ecole} \cup Ecoles
        /\ row.statut \in {eleves[e].statut} \cup {"actif", "inactif"}
    <3>1. CASE sent \in [statut : {"actif", "inactif"}]
      BY <1>4, <2>1, <3>1 DEF Flushed
    <3>2. CASE sent \in [classe : Classes]
      BY <1>4, <2>1, <3>2 DEF Flushed
    <3>3. CASE sent \in [ecole : Ecoles]
      BY <1>4, <2>1, <3>3 DEF Flushed
    <3>. QED
      BY <2>2, <3>1, <3>2, <3>3
  <2>4. row = [personne |-> row.personne, classe |-> row.classe, ecole |-> row.ecole,
               statut |-> row.statut, selection |-> row.selection]
    BY <1>4, <2>1
  <2>. QED
    BY <1>7, <2>3, <2>4 DEF Eleve
<1>9. PICK ids \in SUBSET Eleves : ids = {e}
  BY <1>6
<1>10. PICK new : new = [i \in {e} |-> row]
  OBVIOUS
<1>11. eleves' = [i \in Eleves |-> IF i \in ids THEN new[i] ELSE eleves[i]]
  BY <1>5, <1>6, <1>9, <1>10
<1>12. \A i \in ids : new[i] \in Eleve /\ new[i].selection = eleves[i].selection
  BY <1>8, <1>9, <1>10
<1>13. \A f \in Eleves : e # f /\ eleves'[f] # NULL =>
        ~Conflict(row, eleves'[f]) /\ ~Conflict(eleves'[f], row)
  <2> SUFFICES ASSUME NEW f \in Eleves, e # f, eleves'[f] # NULL
               PROVE  ~Conflict(row, eleves'[f]) /\ ~Conflict(eleves'[f], row)
    OBVIOUS
  <2>1. eleves'[f] = eleves[f] /\ Exists(f)
    BY <1>5, <1>6 DEF Exists
  <2>2. ~Conflict(row, eleves[f])
    BY <1>5, <2>1 DEF KeyTaken
  <2>. QED
    BY <2>1, <2>2 DEF Conflict
<1>14. \A i \in ids, f \in Eleves :
         i # f /\ eleves'[f] # NULL => ~Conflict(new[i], eleves'[f]) /\ ~Conflict(eleves'[f], new[i])
  BY <1>9, <1>10, <1>13
<1>15. cles' \subseteq cles \ ids
  BY <1>5, <1>6, <1>9 DEF IInv, TypeOK, Exists
<1>16. Tables'
  BY <1>5, <1>11, <1>12, <1>14, <1>15, RowsStep
<1>. QED
  BY <1>5, <1>16, DoneStep

\* The rows of a file differ in what the unique key compares, and none of them is
\* written next to a pupil it conflicts with.
LEMMA BulkInsertStep ==
  ASSUME IInv, NEW w \in Workers, BulkInsert(w)
  PROVE  IInv'
<1> DEFINE kept == {l \in req[w].lignes : \A e \in Eleves : Exists(e) => ~Conflict(l, eleves[e])}
<1>1. kept = {l \in req[w].lignes : \A e \in Eleves : Exists(e) => ~Conflict(l, eleves[e])}
  OBVIOUS
<1>2. PICK f \in [kept -> cles] :
        /\ \A l1, l2 \in kept : f[l1] = f[l2] => l1 = l2
        /\ cles' = cles \ {f[l] : l \in kept}
        /\ eleves' = [e \in Eleves |->
                        IF \E l \in kept : f[l] = e
                        THEN NewEleve(CHOOSE l \in kept : f[l] = e, NULL) ELSE eleves[e]]
  BY DEF BulkInsert
<1>. HIDE DEF kept
<1>3. Done(w) /\ UNCHANGED <<remplacements, tuteurs>>
  BY DEF BulkInsert
<1>4. kept \subseteq Ligne
  BY <1>1, RosterAssumption DEF BulkInsert, IInv, Requests, Typed, Ligne
<1>5. cles \subseteq Eleves /\ \A e \in cles : ~Exists(e)
  BY DEF IInv, TypeOK
<1>6. PICK ids : ids = {f[l] : l \in kept}
  OBVIOUS
<1>7. ids \in SUBSET Eleves /\ \A e \in ids : ~Exists(e)
  BY <1>5, <1>6
<1>8. PICK line : line = [e \in ids |-> CHOOSE l \in kept : f[l] = e]
  OBVIOUS
<1>9. \A e \in ids : line[e] \in kept /\ f[line[e]] = e
  BY <1>6, <1>8
<1>10. PICK new : new = [e \in ids |-> NewEleve(line[e], NULL)]
  OBVIOUS
<1>11. \A e \in ids : /\ new[e] \in Eleve /\ new[e].personne = line[e].personne
                      /\ new[e].classe = line[e].classe /\ new[e].ecole = line[e].ecole
  <2> SUFFICES ASSUME NEW e \in ids
               PROVE  /\ new[e] \in Eleve /\ new[e].personne = line[e].personne
                      /\ new[e].classe = line[e].classe /\ new[e].ecole = line[e].ecole
    OBVIOUS
  <2>1. PICK l \in Ligne : l = line[e]
    BY <1>4, <1>9
  <2>2. new[e] = NewEleve(l, NULL)
    BY <1>10, <2>1
  <2>. QED
    BY <2>1, <2>2 DEF NewEleve, Eleve, Ligne
<1>12. eleves' = [e \in Eleves |-> IF e \in ids THEN new[e] ELSE eleves[e]]
  <2>1. \A e \in Eleves : (\E l \in kept : f[l] = e) <=> e \in ids
    BY <1>6
  <2>2. \A e \in ids : new[e] = NewEleve(CHOOSE l \in kept : f[l] = e, NULL)
    BY <1>8, <1>10
  <2>. QED
    BY <1>2, <2>1, <2>2
<1>13. \A e \in ids, g \in Eleves :
         e # g /\ eleves'[g] # NULL => ~Conflict(new[e], eleves'[g]) /\ ~Conflict(eleves'[g], new[e])
  <2> SUFFICES ASSUME NEW e \in ids, NEW g \in Eleves, e # g, eleves'[g] # NULL
               PROVE  ~Conflict(new[e], eleves'[g]) /\ ~Conflict(eleves'[g], new[e])
    OBVIOUS
  <2>1. CASE g \in ids
    <3>1. eleves'[g] = new[g] /\ line[e] # line[g]
      BY <1>9, <1>12, <2>1
    <3>2. line[e] \in Ligne /\ line[g] \in Ligne
      BY <1>4, <1>9, <2>1
    <3>3. \/ line[e].personne # line[g].personne \/ line[e].classe # line[g].classe
          \/ line[e].ecole # line[g].ecole
      BY <3>1, <3>2 DEF Ligne
    <3>4. /\ new[e].personne = line[e].personne /\ new[e].classe = line[e].classe
          /\ new[e].ecole = line[e].ecole /\ new[g].personne = line[g].personne
          /\ new[g].classe = line[g].classe /\ new[g].ecole = line[g].ecole
      BY <1>11, <2>1
    <3>. QED
      BY <3>1, <3>3, <3>4 DEF Conflict
  <2>2. CASE g \notin ids
    <3>1. eleves'[g] = eleves[g] /\ Exists(g)
      BY <1>12, <2>2 DEF Exists
    <3>2. ~Conflict(line[e], eleves[g])
      BY <1>1, <1>9, <3>1
    <3>3. /\ new[e].personne = line[e].personne /\ new[e].classe = line[e].classe
          /\ new[e].ecole = line[e].ecole
      BY <1>11
    <3>. QED
      BY <3>1, <3>2, <3>3 DEF Conflict
  <2>. QED
    BY <2>1, <2>2
<1>14. cles' \subseteq cles \ ids
  BY <1>2, <1>6
<1>15. Tables'
  <2>1. \A e \in ids : new[e] \in Eleve
    BY <1>11
  <2>2. \A e \in ids : Exists(e) => new[e].selection = eleves[e].selection
    BY <1>7
  <2>. QED
    BY <1>3, <1>7, <1>12, <1>13, <1>14, <2>1, <2>2, RowsStep
<1>. QED
  BY <1>3, <1>15, DoneStep

\* ON DELETE SET NULL makes no row of the history.
LEMMA DeletedRows ==
  ASSUME NEW S \in SUBSET Eleves, DeleteEleves(S), IsFiniteSet(remplacements)
  PROVE  IsFiniteSet(remplacements') /\ Cardinality(remplacements') <= Cardinality(remplacements)
<1> DEFINE After(r) == [r EXCEPT !.ancien = Kept(@, S), !.nouveau = Kept(@, S)]
<1>1. remplacements' = {After(r) : r \in remplacements}
  BY DEF DeleteEleves
<1>2. PICK F : F = [r \in remplacements |-> After(r)]
  OBVIOUS
<1>. HIDE DEF After
<1>3. F \in [remplacements -> remplacements'] /\ \A r \in remplacements : F[r] = After(r)
  BY <1>1, <1>2
<1>4. \A x \in remplacements' : \E r \in remplacements : F[r] = x
  BY <1>1, <1>3
<1>5. F \in Surjection(remplacements, remplacements')
  BY <1>3, <1>4 DEF Surjection
<1>. QED
  BY <1>5, FS_Surjection

\* delete_eleve, bulk_delete_eleves: a row of the history whose newcomer is gone names
\* nobody any more.
LEMMA DeleteElevesStep ==
  ASSUME IInv, NEW S \in SUBSET Eleves, DeleteEleves(S)
  PROVE  IInv'
<1> DEFINE After(r) == [r EXCEPT !.ancien = Kept(@, S), !.nouveau = Kept(@, S)]
<1>1. /\ eleves' = [e \in Eleves |-> IF e \in S THEN NULL ELSE eleves[e]]
      /\ remplacements' = {After(r) : r \in remplacements}
      /\ UNCHANGED <<cles, tuteurs>> /\ UNCHANGED req
  BY DEF DeleteEleves
<1>2. \A e \in Eleves : /\ e \in S => eleves'[e] = NULL
                        /\ e \notin S => eleves'[e] = eleves[e]
  BY <1>1
<1>3. \A r \in remplacements : /\ r \in Remplacement /\ r.tuteur \in tuteurs
                               /\ r.ancien # NULL => Exists(r.ancien)
                               /\ r.nouveau # NULL => Exists(r.nouveau)
  BY DEF IInv, TypeOK
<1>4. \A r \in remplacements :
        /\ After(r) \in Remplacement
        /\ After(r).tuteur = r.tuteur /\ After(r).croise = r.croise
        /\ After(r).ancien = IF r.ancien \in S THEN NULL ELSE r.ancien
        /\ After(r).nouveau = IF r.nouveau \in S THEN NULL ELSE r.nouveau
  <2> SUFFICES ASSUME NEW r \in remplacements
               PROVE  /\ After(r) \in Remplacement
                      /\ After(r).tuteur = r.tuteur /\ After(r).croise = r.croise
                      /\ After(r).ancien = IF r.ancien \in S THEN NULL ELSE r.ancien
                      /\ After(r).nouveau = IF r.nouveau \in S THEN NULL ELSE r.nouveau
    OBVIOUS
  <2>1. r \in Remplacement
    BY <1>3
  <2>. QED
    BY <2>1 DEF Remplacement, Kept
<1>. HIDE DEF After
<1>5. IsFiniteSet(remplacements')
  BY DeletedRows DEF IInv
<1>6. \A x \in remplacements' : \E r \in remplacements :
        /\ x \in Remplacement /\ x.tuteur = r.tuteur /\ x.croise = r.croise
        /\ x.ancien = IF r.ancien \in S THEN NULL ELSE r.ancien
        /\ x.nouveau = IF r.nouveau \in S THEN NULL ELSE r.nouveau
        /\ x = After(r)
  BY <1>1, <1>4
<1>7. TypeOK'
  <2>1. \A e \in Eleves : eleves'[e] \in Eleve \cup {NULL}
    BY <1>2 DEF IInv, TypeOK
  <2>2. DOMAIN eleves' = Eleves
    BY <1>1
  <2>3. \A e, f \in Eleves : e # f /\ Exists(e)' /\ Exists(f)' => ~Conflict(eleves'[e], eleves'[f])
    BY <1>2 DEF IInv, TypeOK, Exists
  <2>4. cles' \subseteq {e \in Eleves : ~Exists(e)'} /\ tuteurs' \subseteq Tuteurs
    BY <1>1, <1>2 DEF IInv, TypeOK, Exists
  <2>5. \A x \in remplacements' :
          /\ x \in Remplacement /\ x.tuteur \in tuteurs'
          /\ x.ancien # NULL => Exists(x.ancien)'
          /\ x.nouveau # NULL => Exists(x.nouveau)'
    <3> SUFFICES ASSUME NEW x \in remplacements'
                 PROVE  /\ x \in Remplacement /\ x.tuteur \in tuteurs'
                        /\ x.ancien # NULL => Exists(x.ancien)'
                        /\ x.nouveau # NULL => Exists(x.nouveau)'
      OBVIOUS
    <3>1. PICK r \in remplacements :
            /\ x \in Remplacement /\ x.tuteur = r.tuteur
            /\ x.ancien = IF r.ancien \in S THEN NULL ELSE r.ancien
            /\ x.nouveau = IF r.nouveau \in S THEN NULL ELSE r.nouveau
      BY <1>6
    <3>2. r \in Remplacement
      BY <1>3
    <3>. QED
      BY <1>1, <1>2, <1>3, <3>1, <3>2 DEF Exists, Remplacement
  <2>. QED
    BY <2>1, <2>2, <2>3, <2>4, <2>5 DEF TypeOK, Exists, Conflict
<1>8. TakenIsTitulaire'
  <2> SUFFICES ASSUME NEW x \in remplacements', x.nouveau # NULL
               PROVE  eleves'[x.nouveau].selection = "Titulaire"
    BY DEF TakenIsTitulaire
  <2>1. PICK r \in remplacements : x.nouveau = IF r.nouveau \in S THEN NULL ELSE r.nouveau
    BY <1>6
  <2>2. r.nouveau = x.nouveau /\ r.nouveau \notin S /\ r \in Remplacement
    BY <1>3, <2>1
  <2>3. r.nouveau \in Eleves
    BY <2>2 DEF Remplacement
  <2>. QED
    BY <1>2, <2>2, <2>3 DEF IInv, TakenIsTitulaire
<1>9. TakenOnceUnlessCrossed'
  <2> SUFFICES ASSUME NEW x1 \in remplacements', NEW x2 \in remplacements',
                      x1.nouveau # NULL, x1.nouveau = x2.nouveau, x1 # x2
               PROVE  x1.croise \/ x2.croise
    BY DEF TakenOnceUnlessCrossed
  <2>1. PICK r1 \in remplacements :
          /\ x1.croise = r1.croise /\ x1 = After(r1)
          /\ x1.nouveau = IF r1.nouveau \in S THEN NULL ELSE r1.nouveau
    BY <1>6
  <2>2. PICK r2 \in remplacements :
          /\ x2.croise = r2.croise /\ x2 = After(r2)
          /\ x2.nouveau = IF r2.nouveau \in S THEN NULL ELSE r2.nouveau
    BY <1>6
  <2>3. r1 # r2 /\ r1.nouveau # NULL /\ r1.nouveau = r2.nouveau
    BY <2>1, <2>2
  <2>. QED
    BY <2>1, <2>2, <2>3 DEF IInv, TakenOnceUnlessCrossed
<1>. QED
  BY <1>1, <1>5, <1>7, <1>8, <1>9, AllRequestsKept DEF IInv

\* delete_user: the tutor's rows of the history go, and no other.
LEMMA DeleteTuteurStep ==
  ASSUME IInv, NEW t \in Tuteurs, DeleteTuteur(t)
  PROVE  IInv'
<1>1. /\ tuteurs' = tuteurs \ {t}
      /\ remplacements' = {r \in remplacements : r.tuteur # t}
      /\ UNCHANGED <<eleves, cles>> /\ UNCHANGED req
  BY DEF DeleteTuteur
<1>2. remplacements' \subseteq remplacements /\ IsFiniteSet(remplacements')
  BY <1>1, FS_Subset DEF IInv
<1>3. TypeOK'
  BY <1>1 DEF IInv, TypeOK, Exists, Conflict
<1>4. TakenIsTitulaire' /\ TakenOnceUnlessCrossed'
  BY <1>1, <1>2 DEF IInv, TakenIsTitulaire, TakenOnceUnlessCrossed
<1>. QED
  BY <1>1, <1>2, <1>3, <1>4, AllRequestsKept DEF IInv

\* The newcomer has never taken a place when nothing changed since the load: its
\* selection was "remplacant".
LEMMA CommitRemplacementStep ==
  ASSUME IInv, NEW w \in Workers, CommitRemplacement(w)
  PROVE  IInv'
<1>1. PICK t : t = req[w].tuteur
  OBVIOUS
<1>2. PICK a : a = req[w].ancien
  OBVIOUS
<1>3. PICK n : n = req[w].nouveau
  OBVIOUS
<1>4. PICK loaded : loaded = req[w].loaded
  OBVIOUS
<1>5. PICK statut : statut = Flushed(eleves[a].statut, loaded[a].statut, "inactif")
  OBVIOUS
<1>6. PICK new : new = [ancien |-> a, nouveau |-> n, tuteur |-> t,
                        croise |-> \E e \in {a, n} : eleves[e] # loaded[e]]
  OBVIOUS
<1>7. /\ Exists(a) /\ Exists(n) /\ t \in tuteurs
      /\ eleves' = [eleves EXCEPT ![a].statut = statut, ![n].selection = "Titulaire"]
      /\ remplacements' = remplacements \cup {new}
      /\ Done(w) /\ UNCHANGED <<cles, tuteurs>>
  BY <1>1, <1>2, <1>3, <1>4, <1>5, <1>6 DEF CommitRemplacement
<1>8. /\ t \in Tuteurs /\ a \in Eleves /\ n \in Eleves /\ a # n
      /\ Replaceable(t, loaded[a], loaded[n])
  BY <1>1, <1>2, <1>3, <1>4 DEF CommitRemplacement, IInv, Requests, Typed
<1>9. eleves[a] \in Eleve /\ eleves[n] \in Eleve /\ DOMAIN eleves = Eleves
  BY <1>7, <1>8 DEF IInv, TypeOK, Exists
<1>10. /\ eleves'[a] = [eleves[a] EXCEPT !.statut = statut]
       /\ eleves'[n] = [eleves[n] EXCEPT !.selection = "Titulaire"]
       /\ \A e \in Eleves \ {a, n} : eleves'[e] = eleves[e]
       /\ DOMAIN eleves' = Eleves
  BY <1>7, <1>8, <1>9
<1>11. statut \in {"actif", "inactif"}
  BY <1>5, <1>9 DEF Flushed, Eleve
<1>12. /\ eleves'[a] \in Eleve /\ eleves'[a].selection = eleves[a].selection
       /\ eleves'[a].personne = eleves[a].personne /\ eleves'[a].classe = eleves[a].classe
       /\ eleves'[a].ecole = eleves[a].ecole
  <2>1. PICK x \in Eleve : x = eleves[a]
    BY <1>9
  <2>2. eleves'[a] = [x EXCEPT !.statut = statut]
    BY <1>10, <2>1
  <2>. QED
    BY <1>11, <2>1, <2>2 DEF Eleve
<1>13. /\ eleves'[n] \in Eleve /\ eleves'[n].selection = "Titulaire"
       /\ eleves'[n].personne = eleves[n].personne /\ eleves'[n].classe = eleves[n].classe
       /\ eleves'[n].ecole = eleves[n].ecole
  <2>1. PICK x \in Eleve : x = eleves[n]
    BY <1>9
  <2>2. eleves'[n] = [x EXCEPT !.selection = "Titulaire"]
    BY <1>10, <2>1
  <2>. QED
    BY <2>1, <2>2 DEF Eleve
<1>14. \A e \in Eleves :
         /\ Exists(e)' <=> Exists(e)
         /\ Exists(e) => /\ eleves'[e].personne = eleves[e].personne
                         /\ eleves'[e].classe = eleves[e].classe
                         /\ eleves'[e].ecole = eleves[e].ecole
                         /\ eleves[e].selection = "Titulaire" => eleves'[e].selection = "Titulaire"
  BY <1>7, <1>8, <1>10, <1>12, <1>13, RowsAssumption DEF Exists
<1>15. new \in Remplacement
  BY <1>6, <1>8 DEF Remplacement
<1>16. IsFiniteSet(remplacements')
  BY <1>7, FS_AddElement DEF IInv
<1>17. TypeOK'
  <2>1. \A e \in Eleves : eleves'[e] \in Eleve \cup {NULL}
    BY <1>10, <1>12, <1>13 DEF IInv, TypeOK
  <2>2. \A e, f \in Eleves : e # f /\ Exists(e)' /\ Exists(f)' => ~Conflict(eleves'[e], eleves'[f])
    <3> SUFFICES ASSUME NEW e \in Eleves, NEW f \in Eleves, e # f, Exists(e)', Exists(f)'
                 PROVE  ~Conflict(eleves'[e], eleves'[f])
      OBVIOUS
    <3>1. ~Conflict(eleves[e], eleves[f])
      BY <1>14 DEF IInv, TypeOK
    <3>. QED
      BY <1>14, <3>1 DEF Conflict
  <2>3. cles' \subseteq {e \in Eleves : ~Exists(e)'} /\ tuteurs' \subseteq Tuteurs
    BY <1>7, <1>14 DEF IInv, TypeOK
  <2>4. \A r \in remplacements' :
          /\ r \in Remplacement /\ r.tuteur \in tuteurs'
          /\ r.ancien # NULL => Exists(r.ancien)'
          /\ r.nouveau # NULL => Exists(r.nouveau)'
    <3>1. \A r \in remplacements :
            /\ r \in Remplacement /\ r.tuteur \in tuteurs
            /\ r.ancien # NULL => r.ancien \in Eleves /\ Exists(r.ancien)
            /\ r.nouveau # NULL => r.nouveau \in Eleves /\ Exists(r.nouveau)
      BY DEF IInv, TypeOK, Remplacement
    <3>2. new.ancien = a /\ new.nouveau = n /\ new.tuteur = t
      BY <1>6
    <3>. QED
      BY <1>7, <1>8, <1>14, <1>15, <3>1, <3>2
  <2>. QED
    BY <1>10, <2>1, <2>2, <2>3, <2>4 DEF TypeOK, Exists, Conflict
<1>18. TakenIsTitulaire'
  <2>1. \A r \in remplacements : r.nouveau # NULL =>
          r.nouveau \in Eleves /\ Exists(r.nouveau) /\ eleves[r.nouveau].selection = "Titulaire"
    BY DEF IInv, TypeOK, Remplacement, TakenIsTitulaire
  <2>2. \A r \in remplacements : r.nouveau # NULL => eleves'[r.nouveau].selection = "Titulaire"
    BY <1>14, <2>1
  <2>3. new.nouveau = n
    BY <1>6
  <2>. QED
    BY <1>7, <1>13, <2>2, <2>3 DEF TakenIsTitulaire
<1>19. TakenOnceUnlessCrossed'
  <2>1. \A r \in remplacements : r.nouveau = n => new.croise
    <3> SUFFICES ASSUME NEW r \in remplacements, r.nouveau = n
                 PROVE  new.croise
      OBVIOUS
    <3>1. n # NULL
      BY <1>8, RosterAssumption
    <3>2. eleves[n].selection = "Titulaire"
      BY <3>1 DEF IInv, TakenIsTitulaire
    <3>3. loaded[n].selection = "remplacant"
      BY <1>8 DEF Replaceable
    <3>. QED
      BY <1>6, <3>2, <3>3
  <2>2. new.nouveau = n
    BY <1>6
  <2>. QED
    BY <1>7, <2>1, <2>2 DEF IInv, TakenOnceUnlessCrossed
<1>20. Tables'
  BY <1>16, <1>17, <1>18, <1>19 DEF Tables
<1>. QED
  BY <1>7, <1>20, DoneStep

-----------------------------------------------------------------------------
(* The theorems *)

\* Nobody is registered at first.
LEMMA InitHolds ==
  ASSUME Init
  PROVE  IInv
<1>1. Typed(Idle)
  BY DEF Typed, Idle
<1>2. Requests
  BY <1>1 DEF Init, Requests
<1>3. IsFiniteSet(remplacements)
  BY FS_EmptySet DEF Init
<1>. QED
  BY <1>2, <1>3 DEF Init, IInv, TypeOK, TakenIsTitulaire, TakenOnceUnlessCrossed, Exists

\* Every step of Next keeps the invariant.
LEMMA NextHolds ==
  ASSUME IInv, Next
  PROVE  IInv'
<1>1. CASE \E l \in Lignes : CreateEleve(l) \/ \E t \in Tuteurs : CreateRemplacant(t, l)
  BY <1>1, CreateStep
<1>2. CASE \E S \in SUBSET Eleves : DeleteEleves(S)
  BY <1>2, DeleteElevesStep
<1>3. CASE \E w \in Workers, e \in Eleves, sent \in Editions : ReadUpdate(w, e, sent)
  BY <1>3, ReadUpdateStep
<1>4. CASE \E w \in Workers, F \in Fichiers :
             ReadReimport(w, F) \/ \E liste \in BOOLEAN : ReadImport(w, F, liste)
  BY <1>4, ReadImportStep
<1>5. CASE \E w \in Workers, t \in Tuteurs, a, n \in Eleves : ReadRemplacement(w, t, a, n)
  BY <1>5, ReadRemplacementStep
<1>6. CASE \E w \in Workers : CommitUpdate(w)
  BY <1>6, CommitUpdateStep
<1>7. CASE \E w \in Workers : BulkInsert(w)
  BY <1>7, BulkInsertStep
<1>8. CASE \E w \in Workers : CommitRemplacement(w)
  BY <1>8, CommitRemplacementStep
<1>9. CASE \E w \in Workers : Rollback(w)
  BY <1>9, RollbackStep
<1>10. CASE \E t \in Tuteurs : DeleteTuteur(t)
  BY <1>10, DeleteTuteurStep
<1>. QED
  BY <1>1, <1>2, <1>3, <1>4, <1>5, <1>6, <1>7, <1>8, <1>9, <1>10 DEF Next

\* The invariant of the rows, the requests and the history is inductive, whatever the
\* pupils, the tutors and the requests served at once.
THEOREM Invariant == Spec => []IInv
<1>1. Init => IInv
  BY InitHolds
<1>2. IInv /\ [Next]_vars => IInv'
  <2> SUFFICES ASSUME IInv, [Next]_vars PROVE IInv'
    OBVIOUS
  <2>1. CASE UNCHANGED vars
    BY <2>1, TablesKept, AllRequestsKept DEF vars, IInv, Tables
  <2>. QED
    BY <2>1, NextHolds
<1>. QED
  BY <1>1, <1>2, PTL DEF Spec

\* Rows are typed, the unique key holds through every edit, import and replacement, and
\* the history names no pupil without row.
THEOREM RosterTypes == Spec => []TypeOK
<1>1. IInv => TypeOK
  BY DEF IInv
<1>. QED
  BY <1>1, Invariant, PTL

\* create_remplacement takes a substitute twice only when two requests overlap.
THEOREM TakenOnce == Spec => []TakenOnceUnlessCrossed
<1>1. IInv => TakenOnceUnlessCrossed
  BY DEF IInv
<1>. QED
  BY <1>1, Invariant, PTL

\* The only step that makes a row of the history is the COMMIT of a replacement.
LEMMA MadeByReplacement ==
  ASSUME IInv, Next, NEW r \in remplacements' \ remplacements,
         Cardinality(remplacements') > Cardinality(remplacements)
  PROVE  \E w \in Workers : CommitRemplacement(w)
<1>1. CASE UNCHANGED remplacements
  BY <1>1
<1>2. CASE \E S \in SUBSET Eleves : DeleteEleves(S)
  <2>1. Cardinality(remplacements') <= Cardinality(remplacements) /\ IsFiniteSet(remplacements')
    BY <1>2, DeletedRows DEF IInv
  <2>2. Cardinality(remplacements) \in Nat /\ Cardinality(remplacements') \in Nat
    BY <2>1, FS_CardinalityType DEF IInv
  <2>. QED
    BY <2>1, <2>2
<1>3. CASE \E t \in Tuteurs : DeleteTuteur(t)
  BY <1>3 DEF DeleteTuteur
<1>. QED
  BY <1>1, <1>2, <1>3 DEF Next, CreateEleve, CreateRemplacant, InsertEleve, ReadUpdate,
     ReadReimport, ReadImport, ReadRemplacement, Arrive, CommitUpdate, BulkInsert, Rollback

\* The swap of an uncrossed replacement, on the list of its tutor.
LEMMA Swap ==
  ASSUME IInv, NEW w \in Workers, CommitRemplacement(w), NEW r \in remplacements' \ remplacements,
         ~r.croise, r.nouveau \in Remplacants(r.tuteur)
  PROVE  /\ Titulaires(r.tuteur)' = (Titulaires(r.tuteur) \ {r.ancien}) \cup {r.nouveau}
         /\ Remplacants(r.tuteur)' = Remplacants(r.tuteur) \ {r.nouveau}
         /\ eleves[r.nouveau].classe = eleves[r.ancien].classe
<1>1. PICK t : t = req[w].tuteur
  OBVIOUS
<1>2. PICK a : a = req[w].ancien
  OBVIOUS
<1>3. PICK n : n = req[w].nouveau
  OBVIOUS
<1>4. PICK loaded : loaded = req[w].loaded
  OBVIOUS
<1>5. /\ r.ancien = a /\ r.nouveau = n /\ r.tuteur = t
      /\ r.croise = \E e \in {a, n} : eleves[e] # loaded[e]
  <2>1. r = [ancien |-> a, nouveau |-> n, tuteur |-> t,
             croise |-> \E e \in {a, n} : eleves[e] # loaded[e]]
    BY <1>1, <1>2, <1>3, <1>4 DEF CommitRemplacement
  <2>. QED
    BY <2>1
<1>6. /\ Exists(a) /\ Exists(n)
      /\ eleves' = [eleves EXCEPT ![a].statut = Flushed(@, loaded[a].statut, "inactif"),
                                  ![n].selection = "Titulaire"]
  BY <1>1, <1>2, <1>3, <1>4 DEF CommitRemplacement
<1>7. /\ a \in Eleves /\ n \in Eleves /\ a # n /\ Replaceable(t, loaded[a], loaded[n])
  BY <1>1, <1>2, <1>3, <1>4 DEF CommitRemplacement, IInv, Requests, Typed
<1>8. eleves[a] = loaded[a] /\ eleves[n] = loaded[n]
  BY <1>5
<1>9. eleves[a] \in Eleve /\ eleves[n] \in Eleve /\ DOMAIN eleves = Eleves
  BY <1>6, <1>7 DEF IInv, TypeOK, Exists
<1>10. /\ eleves'[a] = [eleves[a] EXCEPT !.statut = "inactif"]
       /\ eleves'[n] = [eleves[n] EXCEPT !.selection = "Titulaire"]
       /\ \A e \in Eleves \ {a, n} : eleves'[e] = eleves[e]
  BY <1>6, <1>7, <1>8, <1>9 DEF Flushed
<1>11. eleves'[a].statut = "inactif" /\ eleves[a].selection # "remplacant"
  BY <1>7, <1>8, <1>9, <1>10 DEF Eleve, Replaceable
<1>12. /\ eleves'[n].selection = "Titulaire" /\ eleves'[n].statut = eleves[n].statut
       /\ eleves'[n].ecole = eleves[n].ecole /\ eleves'[n].classe = eleves[n].classe
       /\ eleves'[n] # NULL
  <2>1. PICK x \in Eleve : x = eleves[n]
    BY <1>9
  <2>2. eleves'[n] = [x EXCEPT !.selection = "Titulaire"]
    BY <1>10, <2>1
  <2>3. eleves'[n] \in Eleve
    BY <2>1, <2>2 DEF Eleve
  <2>. QED
    BY <2>1, <2>2, <2>3, RowsAssumption DEF Eleve
<1>13. n \in Vus(t) /\ eleves[n].selection = "remplacant"
  BY <1>5 DEF Remplacants
<1>14. \A e \in Eleves : /\ e \notin {a, n} => (e \in Vus(t)' <=> e \in Vus(t))
                         /\ e = n => e \in Vus(t)'
                         /\ e = a => e \notin Vus(t)'
  <2>1. \A e \in Eleves \ {a, n} : e \in Vus(t)' <=> e \in Vus(t)
    BY <1>10 DEF Vus, Exists
  <2>2. n \in Vus(t)'
    BY <1>12, <1>13 DEF Vus, Exists
  <2>3. a \notin Vus(t)'
    BY <1>11 DEF Vus
  <2>. QED
    BY <2>1, <2>2, <2>3
<1>15. Vus(t) \subseteq Eleves /\ Vus(t)' \subseteq Eleves
  BY DEF Vus
<1>16. \A e : e \in Remplacants(t)' <=> e \in Remplacants(t) /\ e # n
  BY <1>7, <1>10, <1>11, <1>12, <1>14, <1>15 DEF Remplacants
<1>17. \A e : e \in Titulaires(t)' <=> (e \in Titulaires(t) /\ e # a) \/ e = n
  BY <1>7, <1>13, <1>14, <1>15, <1>16 DEF Titulaires
<1>18. eleves[n].classe = eleves[a].classe
  BY <1>7, <1>8 DEF Replaceable
<1>. QED
  BY <1>5, <1>16, <1>17, <1>18

\* "Effet immediat": the newcomer of an uncrossed replacement stands where the outgoing
\* pupil stood on the list of the phone, and the class loses nobody else.
THEOREM SwapsAreSeen == Spec => SwapSeen
<1> DEFINE Seen ==
      \A r \in remplacements' \ remplacements :
        ~r.croise /\ Cardinality(remplacements') > Cardinality(remplacements)
        /\ r.nouveau \in Remplacants(r.tuteur)
        => /\ Titulaires(r.tuteur)' = (Titulaires(r.tuteur) \ {r.ancien}) \cup {r.nouveau}
           /\ Remplacants(r.tuteur)' = Remplacants(r.tuteur) \ {r.nouveau}
           /\ eleves[r.nouveau].classe = eleves[r.ancien].classe
<1>1. IInv /\ [Next]_vars => [Seen]_vars
  <2> SUFFICES ASSUME IInv, Next PROVE Seen
    OBVIOUS
  <2>. QED
    BY MadeByReplacement, Swap
<1>. QED
  BY <1>1, Invariant, PTL DEF Spec, SwapSeen
=============================================================================
