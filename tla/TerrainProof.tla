---------------------------- MODULE TerrainProof ----------------------------
(***************************************************************************)
(* Theorems about module Supervision, for every set of teachers,           *)
(* supervisors, pupils, schools and requests, then about module Terrain,   *)
(* which composes it with the reports, remarks and documents of the same   *)
(* people: what is proved of the first is carried over to the second.      *)
(***************************************************************************)
EXTENDS Terrain, TLAPS

-----------------------------------------------------------------------------
(* Supervision: the inductive invariant *)

\* What a request carries: lists of teachers, and lines of the kind of their row.
Typed(r) ==
  /\ r.op = "assign" => r.superviseur \in Superviseurs /\ r.liste \subseteq Enseignants
  /\ r.op = "move" =>
       /\ r.enseignant \in Enseignants /\ r.ecole \in Ecoles /\ r.charges \subseteq Superviseurs
       /\ \A s \in Superviseurs : r.lues[s] \subseteq Enseignants
  /\ r.op = "lot" =>
       /\ r.superviseur \in Superviseurs /\ DOMAIN r.lot \subseteq Cibles
       /\ \A c \in DOMAIN r.lot : r.lot[c] \in Fiche(c)

Requests ==
  /\ req = [w \in Workers |-> req[w]]
  /\ \A w \in Workers : Typed(req[w])

Functions ==
  /\ fiches = [s \in Superviseurs |-> [c \in Cibles |-> fiches[s][c]]]
  /\ voulues = [s \in Superviseurs |-> voulues[s]]

\* A list whose changes did not cross is the one the requests, one after another, make.
Lists == \A s \in Superviseurs \ croisees : listes[s] = voulues[s]

IInv == TypeOK /\ Functions /\ Requests /\ Lists

\* What the tables keep, in one name.
Tables == TypeOK /\ Functions /\ Lists

-----------------------------------------------------------------------------
(* Requests *)

\* The other requests when one of them arrives or leaves.
LEMMA RequestsKept ==
  ASSUME IInv, NEW w \in Workers, NEW r, req' = [req EXCEPT ![w] = r], Typed(r)
  PROVE  Requests'
<1>1. \A v \in Workers : req'[v] = IF v = w THEN r ELSE req[v]
  BY DEF IInv, Requests
<1>2. req' = [v \in Workers |-> req'[v]]
  BY DEF IInv, Requests
<1>3. \A v \in Workers : Typed(req'[v])
  BY <1>1 DEF IInv, Requests
<1>4. \A v \in Workers : Typed(req[v])'
  BY <1>3 DEF Typed
<1>. QED
  BY <1>2, <1>4 DEF Requests

\* A step that writes no table.
LEMMA TablesKept ==
  ASSUME IInv, UNCHANGED <<presents, ecole, actifs, listes, fiches, voulues, croisees>>
  PROVE  Tables'
  BY DEF IInv, Tables, TypeOK, Functions, Lists

\* A step that goes on with no request.
LEMMA AllRequestsKept ==
  ASSUME IInv, UNCHANGED req
  PROVE  Requests'
<1>1. \A v \in Workers : Typed(req[v])'
  BY DEF IInv, Requests, Typed
<1>. QED
  BY <1>1 DEF IInv, Requests

\* A request arrives.
LEMMA ArriveStep ==
  ASSUME IInv, NEW w \in Workers, NEW r, Typed(r), Arrive(w, r)
  PROVE  IInv'
  BY TablesKept, RequestsKept DEF IInv, Tables, Arrive

\* A request is over.
LEMMA DoneStep ==
  ASSUME IInv, Tables', NEW w \in Workers, Done(w)
  PROVE  IInv'
<1>1. Typed(Idle)
  BY DEF Typed, Idle
<1>. QED
  BY <1>1, RequestsKept DEF IInv, Tables, Done

\* assign_teachers has loaded the supervisor.
LEMMA ReadAssignStep ==
  ASSUME IInv, NEW w \in Workers, NEW s \in Superviseurs, NEW L \in SUBSET Enseignants,
         ReadAssign(w, s, L)
  PROVE  IInv'
<1>1. PICK r : r = [op |-> "assign", superviseur |-> s, liste |-> L, lues |-> listes]
  OBVIOUS
<1>2. Typed(r)
  BY <1>1 DEF Typed
<1>3. Arrive(w, r)
  BY <1>1 DEF ReadAssign
<1>. QED
  BY <1>2, <1>3, ArriveStep

\* update_user has loaded the teacher and the supervisors who follow him.
LEMMA ReadMoveStep ==
  ASSUME IInv, NEW w \in Workers, NEW t \in Enseignants, NEW e \in Ecoles, ReadMove(w, t, e)
  PROVE  IInv'
<1>1. PICK C : C = {s \in Superviseurs \cap presents : t \in listes[s]}
  OBVIOUS
<1>2. PICK r : r = [op |-> "move", enseignant |-> t, ecole |-> e, lues |-> listes,
                    charges |-> C]
  OBVIOUS
<1>3. \A s \in Superviseurs : listes[s] \subseteq Enseignants
  BY DEF IInv, TypeOK
<1>4. Typed(r)
  BY <1>1, <1>2, <1>3 DEF Typed
<1>5. Arrive(w, r)
  BY <1>1, <1>2 DEF ReadMove
<1>. QED
  BY <1>4, <1>5, ArriveStep

\* The lines of a batch are rows of their table.
LEMMA LotsAreLines ==
  ASSUME NEW lot \in Envois
  PROVE  DOMAIN lot \subseteq Cibles /\ \A c \in DOMAIN lot : lot[c] \in Fiche(c)
<1> DEFINE recus == {"reussi", "a_aider"}
<1>1. PICK C \in ((SUBSET Enseignants) \cup (SUBSET Eleves)) \ {{}} :
        lot \in {l \in [C -> UNION {LignesDe(c, recus) : c \in C}] : \A c \in C : l[c] \in LignesDe(c, recus)}
  BY DEF Envois, Lots
<1>2. DOMAIN lot = C /\ \A c \in C : lot[c] \in LignesDe(c, recus)
  BY <1>1
<1>3. C \subseteq Cibles
  <2>1. \A D \in ((SUBSET Enseignants) \cup (SUBSET Eleves)) \ {{}} : D \subseteq Cibles
    BY DEF Cibles
  <2>. QED
    BY <2>1
<1>4. \A c \in C : LignesDe(c, recus) \subseteq Fiche(c)
  <2> SUFFICES ASSUME NEW c \in C PROVE LignesDe(c, recus) \subseteq Fiche(c)
    OBVIOUS
  <2>1. CASE c \in Enseignants
    BY <2>1 DEF LignesDe, Fiche, Pointage
  <2>2. CASE c \notin Enseignants
    <3>1. \A x \in recus : Equivalences[x] \in {"acquis", "a_aider"}
      BY DEF Equivalences
    <3>. QED
      BY <2>2, <3>1 DEF LignesDe, Fiche, Evaluation
  <2>. QED
    BY <2>1, <2>2
<1>. QED
  BY <1>2, <1>3, <1>4

\* submit_presence_check and submit_evaluations have looked for their lines.
LEMMA ReadLotStep ==
  ASSUME IInv, NEW w \in Workers, NEW s \in Superviseurs,
         NEW lot \in Envois, ReadLot(w, s, lot)
  PROVE  IInv'
<1>1. PICK lues : lues = [c \in DOMAIN lot |-> fiches[s][c]]
  OBVIOUS
<1>2. PICK r : r = [op |-> "lot", superviseur |-> s, lot |-> lot, lues |-> lues]
  OBVIOUS
<1>3. Typed(r)
  BY <1>2, LotsAreLines DEF Typed
<1>4. Arrive(w, r)
  BY <1>1, <1>2 DEF ReadLot
<1>. QED
  BY <1>3, <1>4, ArriveStep

-----------------------------------------------------------------------------
(* The lists of teachers *)

\* A list is written as assigned, and marked when it was not the one loaded.
LEMMA CommitAssignStep ==
  ASSUME IInv, NEW w \in Workers, CommitAssign(w)
  PROVE  IInv'
<1>1. PICK s : s = req[w].superviseur
  OBVIOUS
<1>2. PICK L : L = req[w].liste
  OBVIOUS
<1>3. PICK lue : lue = req[w].lues[s]
  OBVIOUS
<1>4. /\ listes' = IF L = lue THEN listes ELSE [listes EXCEPT ![s] = L]
      /\ voulues' = [voulues EXCEPT ![s] = L]
      /\ croisees' = IF listes[s] = lue THEN croisees \ {s} ELSE croisees \cup {s}
      /\ Done(w) /\ UNCHANGED <<presents, actifs, ecole, fiches>>
  BY <1>1, <1>2, <1>3 DEF CommitAssign, Done
<1>5. s \in Superviseurs /\ L \subseteq Enseignants
  BY <1>1, <1>2 DEF CommitAssign, IInv, Requests, Typed
<1>6. listes \in [Superviseurs -> SUBSET Enseignants] /\ croisees \subseteq Superviseurs
  BY DEF IInv, TypeOK
<1>7. listes' \in [Superviseurs -> SUBSET Enseignants] /\ croisees' \subseteq Superviseurs
  BY <1>4, <1>5, <1>6
<1>8. TypeOK'
  BY <1>4, <1>7 DEF IInv, TypeOK
<1>9. Functions'
  BY <1>4 DEF IInv, Functions
<1>10. Lists'
  <2> SUFFICES ASSUME NEW x \in Superviseurs, x \notin croisees' PROVE listes'[x] = voulues'[x]
    BY DEF Lists
  <2>1. CASE x = s
    <3>1. listes[s] = lue
      BY <1>4, <2>1
    <3>2. listes'[s] = L
      BY <1>4, <1>5, <1>6, <3>1
    <3>3. voulues'[s] = L
      BY <1>4, <1>5 DEF IInv, Functions
    <3>. QED
      BY <2>1, <3>2, <3>3
  <2>2. CASE x # s
    <3>1. listes'[x] = listes[x] /\ voulues'[x] = voulues[x]
      BY <1>4, <1>5, <1>6, <2>2 DEF IInv, Functions
    <3>2. x \notin croisees
      BY <1>4, <2>2
    <3>. QED
      BY <3>1, <3>2 DEF IInv, Lists
  <2>. QED
    BY <2>1, <2>2
<1>. QED
  BY <1>4, <1>8, <1>9, <1>10, DoneStep DEF Tables

\* The teacher is off the lists that had him, and a list that has changed since is marked.
LEMMA CommitMoveStep ==
  ASSUME IInv, NEW w \in Workers, CommitMove(w)
  PROVE  IInv'
<1>1. PICK r : r = req[w]
  OBVIOUS
<1>2. PICK t : t = r.enseignant
  OBVIOUS
<1>3. PICK C : C = r.charges
  OBVIOUS
<1>4. /\ ecole' = [ecole EXCEPT ![t] = r.ecole]
      /\ listes' = [s \in Superviseurs |-> IF s \in C THEN r.lues[s] \ {t} ELSE listes[s]]
      /\ voulues' = [s \in Superviseurs |-> IF s \in C THEN voulues[s] \ {t} ELSE voulues[s]]
      /\ croisees' = croisees \cup {s \in C : listes[s] # r.lues[s]}
      /\ Done(w) /\ UNCHANGED <<presents, actifs, fiches>>
  BY <1>1, <1>2, <1>3 DEF CommitMove, Done
<1>5. /\ t \in Enseignants /\ r.ecole \in Ecoles /\ C \subseteq Superviseurs
      /\ \A s \in Superviseurs : r.lues[s] \subseteq Enseignants
  BY <1>1, <1>2, <1>3 DEF CommitMove, IInv, Requests, Typed
<1>7. TypeOK'
  <2>1. listes' \in [Superviseurs -> SUBSET Enseignants]
    BY <1>4, <1>5 DEF IInv, TypeOK
  <2>2. ecole' \in [Enseignants \cup Superviseurs -> Ecoles \cup {NULL}]
    BY <1>4, <1>5 DEF IInv, TypeOK
  <2>3. croisees' \subseteq Superviseurs
    BY <1>4, <1>5 DEF IInv, TypeOK
  <2>. QED
    BY <1>4, <2>1, <2>2, <2>3 DEF IInv, TypeOK
<1>8. Functions'
  BY <1>4 DEF IInv, Functions
<1>9. Lists'
  BY <1>4 DEF IInv, Lists
<1>. QED
  BY <1>4, <1>7, <1>8, <1>9, DoneStep DEF Tables

\* update_user of a supervisor, and the status of a teacher: columns no list is about.
LEMMA ColumnsStep ==
  ASSUME IInv, UNCHANGED <<presents, listes, fiches, req, voulues, croisees>>,
         ecole' \in [Enseignants \cup Superviseurs -> Ecoles \cup {NULL}], actifs' \subseteq Enseignants
  PROVE  IInv'
<1>1. TypeOK' /\ Functions' /\ Lists'
  BY DEF IInv, TypeOK, Functions, Lists
<1>. QED
  BY <1>1, AllRequestsKept DEF IInv

-----------------------------------------------------------------------------
(* The batches *)

\* A line that is written is a row of its table.
LEMMA LineStored ==
  ASSUME NEW c \in Cibles, NEW courante, NEW lue, NEW envoyee \in Fiche(c),
         lue = NULL <=> courante = NULL, courante # NULL => courante \in Fiche(c)
  PROVE  Stockee(courante, lue, envoyee) \in Fiche(c)
<1>1. CASE lue = NULL
  BY <1>1 DEF Stockee
<1>2. CASE lue # NULL
  <2>1. courante \in Fiche(c)
    BY <1>2
  <2>2. PICK x : x = Ecrite(courante, lue, envoyee)
    OBVIOUS
  <2>3. CASE c \in Enseignants
    <3>1. envoyee \in Pointage /\ courante \in Pointage
      BY <2>1, <2>3 DEF Fiche
    <3>2. DOMAIN envoyee = {"present", "motif"}
      BY <3>1 DEF Pointage
    <3>3. x = [present |-> x.present, motif |-> x.motif]
      BY <2>2, <3>2 DEF Ecrite
    <3>4. x.present \in {envoyee.present, courante.present} /\ x.motif \in {envoyee.motif, courante.motif}
      BY <2>2, <3>2 DEF Ecrite
    <3>5. x \in Pointage
      BY <3>1, <3>3, <3>4 DEF Pointage
    <3>. QED
      BY <1>2, <2>2, <2>3, <3>5 DEF Stockee, Fiche
  <2>4. CASE c \notin Enseignants
    <3>1. envoyee \in Evaluation /\ courante \in Evaluation
      BY <2>1, <2>4 DEF Fiche
    <3>2. DOMAIN envoyee = {"resultat", "commentaire"}
      BY <3>1 DEF Evaluation
    <3>3. x = [resultat |-> x.resultat, commentaire |-> x.commentaire]
      BY <2>2, <3>2 DEF Ecrite
    <3>4. /\ x.resultat \in {envoyee.resultat, courante.resultat}
          /\ x.commentaire \in {envoyee.commentaire, courante.commentaire}
      BY <2>2, <3>2 DEF Ecrite
    <3>5. x \in Evaluation
      BY <3>1, <3>3, <3>4 DEF Evaluation
    <3>. QED
      BY <1>2, <2>2, <2>4, <3>5 DEF Stockee, Fiche
  <2>. QED
    BY <2>3, <2>4
<1>. QED
  BY <1>1, <1>2

\* A line that no other content has crossed is what was sent.
LEMMA LineSent ==
  ASSUME NEW c \in Cibles, NEW courante, NEW lue, NEW envoyee \in Fiche(c),
         courante \in {lue, envoyee}
  PROVE  Stockee(courante, lue, envoyee) = envoyee
<1>1. envoyee = [k \in DOMAIN envoyee |-> envoyee[k]]
  BY DEF Fiche, Pointage, Evaluation
<1>2. \A k \in DOMAIN envoyee : (IF envoyee[k] = lue[k] THEN courante[k] ELSE envoyee[k]) = envoyee[k]
  OBVIOUS
<1>3. Ecrite(courante, lue, envoyee) = [k \in DOMAIN envoyee |-> envoyee[k]]
  BY <1>2 DEF Ecrite
<1>. QED
  BY <1>1, <1>3 DEF Stockee

\* What a batch writes.
LEMMA LotWrites ==
  ASSUME IInv, NEW w \in Workers, CommitLot(w)
  PROVE  LET s == req[w].superviseur lot == req[w].lot lues == req[w].lues
         IN /\ s \in Superviseurs /\ DOMAIN lot \subseteq Cibles /\ {s} \cup DOMAIN lot \subseteq presents
            /\ \A c \in DOMAIN lot : lot[c] \in Fiche(c) /\ (lues[c] = NULL <=> fiches[s][c] = NULL)
            /\ \A x \in Superviseurs : x # s => fiches'[x] = fiches[x]
            /\ \A c \in Cibles : fiches'[s][c] =
                 IF c \in DOMAIN lot THEN Stockee(fiches[s][c], lues[c], lot[c]) ELSE fiches[s][c]
            /\ fiches' = [x \in Superviseurs |-> [c \in Cibles |-> fiches'[x][c]]]
<1>1. PICK s : s = req[w].superviseur
  OBVIOUS
<1>2. PICK lot : lot = req[w].lot
  OBVIOUS
<1>3. PICK lues : lues = req[w].lues
  OBVIOUS
<1>4. PICK row : row = [c \in Cibles |->
        IF c \in DOMAIN lot THEN Stockee(fiches[s][c], lues[c], lot[c]) ELSE fiches[s][c]]
  OBVIOUS
<1>5. /\ {s} \cup DOMAIN lot \subseteq presents
      /\ \A c \in DOMAIN lot : lues[c] = NULL <=> fiches[s][c] = NULL
      /\ fiches' = [fiches EXCEPT ![s] = row]
  BY <1>1, <1>2, <1>3, <1>4 DEF CommitLot
<1>6. /\ s \in Superviseurs /\ DOMAIN lot \subseteq Cibles
      /\ \A c \in DOMAIN lot : lot[c] \in Fiche(c)
  BY <1>1, <1>2 DEF CommitLot, IInv, Requests, Typed
<1>7. \A x \in Superviseurs : fiches'[x] = IF x = s THEN row ELSE fiches[x]
  BY <1>5, <1>6 DEF IInv, Functions
<1>8. \A x \in Superviseurs : fiches[x] = [c \in Cibles |-> fiches[x][c]]
  BY DEF IInv, Functions
<1>9. DOMAIN fiches' = Superviseurs
  BY <1>5 DEF IInv, Functions
<1>10. \A x \in Superviseurs : fiches'[x] = [c \in Cibles |-> fiches'[x][c]]
  <2> SUFFICES ASSUME NEW x \in Superviseurs PROVE fiches'[x] = [c \in Cibles |-> fiches'[x][c]]
    OBVIOUS
  <2>1. CASE x = s
    BY <1>4, <1>7, <2>1
  <2>2. CASE x # s
    BY <1>7, <1>8, <2>2
  <2>. QED
    BY <2>1, <2>2
<1>11. fiches' = [x \in Superviseurs |-> fiches'[x]]
  BY <1>5, <1>9 DEF IInv, Functions
<1>12. fiches' = [x \in Superviseurs |-> [c \in Cibles |-> fiches'[x][c]]]
  BY <1>10, <1>11
<1>13. \A c \in Cibles : fiches'[s][c] =
         IF c \in DOMAIN lot THEN Stockee(fiches[s][c], lues[c], lot[c]) ELSE fiches[s][c]
  BY <1>4, <1>6, <1>7
<1>. QED
  BY <1>1, <1>2, <1>3, <1>5, <1>6, <1>7, <1>12, <1>13

\* A batch is committed.
LEMMA CommitLotStep ==
  ASSUME IInv, NEW w \in Workers, CommitLot(w)
  PROVE  IInv'
<1>1. PICK s : s = req[w].superviseur
  OBVIOUS
<1>2. PICK lot : lot = req[w].lot
  OBVIOUS
<1>3. PICK lues : lues = req[w].lues
  OBVIOUS
<1>4. /\ s \in Superviseurs /\ DOMAIN lot \subseteq Cibles /\ {s} \cup DOMAIN lot \subseteq presents
      /\ \A c \in DOMAIN lot : lot[c] \in Fiche(c) /\ (lues[c] = NULL <=> fiches[s][c] = NULL)
      /\ \A x \in Superviseurs : x # s => fiches'[x] = fiches[x]
      /\ \A c \in Cibles : fiches'[s][c] =
           IF c \in DOMAIN lot THEN Stockee(fiches[s][c], lues[c], lot[c]) ELSE fiches[s][c]
      /\ fiches' = [x \in Superviseurs |-> [c \in Cibles |-> fiches'[x][c]]]
  BY <1>1, <1>2, <1>3, LotWrites
<1>5. UNCHANGED <<presents, actifs, ecole, listes, voulues, croisees>> /\ Done(w)
  BY DEF CommitLot, Done
<1>6. \A x \in Superviseurs, c \in Cibles :
        fiches'[x][c] # NULL => fiches'[x][c] \in Fiche(c) /\ {x, c} \subseteq presents
  <2> SUFFICES ASSUME NEW x \in Superviseurs, NEW c \in Cibles, fiches'[x][c] # NULL
               PROVE  fiches'[x][c] \in Fiche(c) /\ {x, c} \subseteq presents
    OBVIOUS
  <2>1. fiches[x][c] # NULL => fiches[x][c] \in Fiche(c) /\ {x, c} \subseteq presents
    BY DEF IInv, TypeOK
  <2>2. CASE x = s /\ c \in DOMAIN lot
    <3>1. Stockee(fiches[s][c], lues[c], lot[c]) \in Fiche(c)
      BY <1>4, <2>1, <2>2, LineStored
    <3>. QED
      BY <1>4, <2>2, <3>1
  <2>3. CASE ~(x = s /\ c \in DOMAIN lot)
    BY <1>4, <2>1, <2>3
  <2>. QED
    BY <2>2, <2>3
<1>7. TypeOK'
  BY <1>5, <1>6 DEF IInv, TypeOK, Fiche, Pointage, Evaluation
<1>8. Functions'
  BY <1>4, <1>5 DEF IInv, Functions
<1>9. Lists'
  BY <1>5 DEF IInv, Lists
<1>. QED
  BY <1>5, <1>7, <1>8, <1>9, DoneStep DEF Tables

\* An account or a pupil goes with the rows that refer to it.
LEMMA DeleteStep ==
  ASSUME IInv, NEW u \in presents, Delete(u)
  PROVE  IInv'
<1>1. /\ presents' = presents \ {u}
      /\ fiches' = [s \in Superviseurs |-> [c \in Cibles |-> IF u \in {s, c} THEN NULL ELSE fiches[s][c]]]
      /\ UNCHANGED <<ecole, actifs, listes, voulues, croisees>> /\ UNCHANGED req
  BY DEF Delete
<1>2. \A s \in Superviseurs, c \in Cibles :
        fiches'[s][c] # NULL => fiches'[s][c] \in Fiche(c) /\ {s, c} \subseteq presents'
  BY <1>1 DEF IInv, TypeOK
<1>3. TypeOK'
  BY <1>1, <1>2 DEF IInv, TypeOK, Fiche, Pointage, Evaluation
<1>4. Functions' /\ Lists'
  BY <1>1 DEF IInv, Functions, Lists
<1>. QED
  BY <1>1, <1>3, <1>4, AllRequestsKept DEF IInv

\* A request ends without effect.
LEMMA RollbackStep ==
  ASSUME IInv, NEW w \in Workers, Rollback(w)
  PROVE  IInv'
  BY TablesKept, DoneStep DEF Rollback, Done

-----------------------------------------------------------------------------
(* The theorems *)

\* At first nothing is assigned, and nothing was sent.
LEMMA InitHolds ==
  ASSUME Init
  PROVE  IInv
<1>1. Typed(Idle)
  BY DEF Typed, Idle
<1>2. Requests
  BY <1>1 DEF Init, Requests
<1>3. TypeOK /\ Functions /\ Lists
  BY DEF Init, TypeOK, Functions, Lists
<1>. QED
  BY <1>2, <1>3 DEF IInv

\* Every step of Next keeps the invariant.
LEMMA NextHolds ==
  ASSUME IInv, Next
  PROVE  IInv'
<1>1. CASE \E w \in Workers, s \in Superviseurs :
             \E L \in SUBSET (Enseignants \cap presents) : ReadAssign(w, s, L)
  BY <1>1, ReadAssignStep
<1>2. CASE \E w \in Workers, s \in Superviseurs :
             \E lot \in Envois : ReadLot(w, s, lot)
  BY <1>2, ReadLotStep
<1>3. CASE \E w \in Workers, t \in Enseignants, e \in Ecoles : ReadMove(w, t, e)
  BY <1>3, ReadMoveStep
<1>4. CASE \E w \in Workers : CommitAssign(w)
  BY <1>4, CommitAssignStep
<1>5. CASE \E w \in Workers : CommitMove(w)
  BY <1>5, CommitMoveStep
<1>6. CASE \E w \in Workers : CommitLot(w)
  BY <1>6, CommitLotStep
<1>7. CASE \E w \in Workers : Rollback(w)
  BY <1>7, RollbackStep
<1>8. CASE \E s \in Superviseurs, e \in Ecoles : MoveSuperviseur(s, e)
  BY <1>8, ColumnsStep DEF MoveSuperviseur, IInv, TypeOK
<1>9. CASE \E t \in Enseignants : ToggleStatus(t)
  BY <1>9, ColumnsStep DEF ToggleStatus, IInv, TypeOK
<1>10. CASE \E u \in presents : Delete(u)
  BY <1>10, DeleteStep
<1>. QED
  BY <1>1, <1>2, <1>3, <1>4, <1>5, <1>6, <1>7, <1>8, <1>9, <1>10 DEF Next, Steps

\* The invariant of the rows, the requests and the lists is inductive.
THEOREM Invariant == Spec => []IInv
<1>1. Init => IInv
  BY InitHolds
<1>2. IInv /\ [Next]_vars => IInv'
  <2> SUFFICES ASSUME IInv, [Next]_vars PROVE IInv'
    OBVIOUS
  <2>1. CASE UNCHANGED vars
    BY <2>1, TablesKept, AllRequestsKept DEF vars, IInv, Tables
  <2>. QED
    BY <2>1, NextHolds
<1>. QED
  BY <1>1, <1>2, PTL DEF Spec

\* Rows are typed and refer to a supervisor and a teacher or pupil that are there.
THEOREM SupervisionTypes == Spec => []TypeOK
<1>1. IInv => TypeOK
  BY DEF IInv
<1>. QED
  BY <1>1, Invariant, PTL

\* get_supervised_teacher_ids answers with the teachers last assigned less those who have
\* moved, for a list whose changes did not cross.
THEOREM AssignedAreFollowed == Spec => []FollowsAssigned
<1>1. IInv => FollowsAssigned
  <2> SUFFICES ASSUME IInv, NEW s \in Superviseurs, s \notin croisees
               PROVE  Perimetre(s) = IF voulues[s] # {} THEN voulues[s]
                        ELSE {t \in actifs \cap presents :
                                \E e \in {ecole[s], ecole[t]} \cap Ecoles :
                                  NULL \notin {ecole[s], ecole[t]} /\ Nom[ecole[s]] = Nom[ecole[t]]}
    BY DEF FollowsAssigned
  <2>1. listes[s] = voulues[s]
    BY DEF IInv, Lists
  <2>2. ecole[s] \in Ecoles \cup {NULL} /\ \A t \in actifs : ecole[t] \in Ecoles \cup {NULL}
    BY DEF IInv, TypeOK
  <2>3. NULL \notin Ecoles
    BY SupervisionAssumption
  <2>4. CASE voulues[s] # {}
    BY <2>1, <2>4 DEF Perimetre
  <2>5. CASE voulues[s] = {}
    <3>1. \A t \in actifs \cap presents :
            (\E e \in {ecole[s], ecole[t]} \cap Ecoles :
               NULL \notin {ecole[s], ecole[t]} /\ Nom[ecole[s]] = Nom[ecole[t]])
            <=> ecole[s] # NULL /\ ecole[t] \in Doublons(ecole[s])
      BY <2>2, <2>3 DEF Doublons
    <3>2. CASE ecole[s] = NULL
      BY <2>1, <2>5, <3>1, <3>2 DEF Perimetre
    <3>3. CASE ecole[s] # NULL
      BY <2>1, <2>5, <3>1, <3>3 DEF Perimetre
    <3>. QED
      BY <3>2, <3>3
  <2>. QED
    BY <2>4, <2>5
<1>. QED
  BY <1>1, Invariant, PTL

\* A batch, and its retry, is stored whole or not at all.
THEOREM BatchesAreWhole == Spec => BatchStoredWhole
<1> DEFINE Whole(s) ==
      \E w \in Workers :
        /\ req[w].op = "lot" /\ req[w].superviseur = s
        /\ \A c \in Cibles :
             IF c \notin DOMAIN req[w].lot THEN fiches'[s][c] = fiches[s][c]
             ELSE \/ fiches'[s][c] = req[w].lot[c]
                  \/ fiches[s][c] \notin {req[w].lues[c], req[w].lot[c]}
<1>1. IInv /\ [Next]_vars =>
        [\A s \in Superviseurs : fiches'[s] # fiches[s] /\ presents' = presents => Whole(s)]_vars
  <2> SUFFICES ASSUME IInv, Next, NEW s \in Superviseurs, fiches'[s] # fiches[s], presents' = presents
               PROVE  Whole(s)
    OBVIOUS
  <2>1. PICK w \in Workers : CommitLot(w)
    BY DEF Next, Steps, ReadAssign, ReadLot, ReadMove, Arrive, CommitAssign, CommitMove, Rollback,
       MoveSuperviseur, ToggleStatus, Delete
  <2>2. PICK lot : lot = req[w].lot
    OBVIOUS
  <2>3. PICK lues : lues = req[w].lues
    OBVIOUS
  <2>4. /\ req[w].op = "lot" /\ req[w].superviseur = s
        /\ \A c \in DOMAIN lot : c \in Cibles /\ lot[c] \in Fiche(c)
        /\ \A c \in Cibles : fiches'[s][c] =
             IF c \in DOMAIN lot THEN Stockee(fiches[s][c], lues[c], lot[c]) ELSE fiches[s][c]
    <3>1. req[w].op = "lot"
      BY <2>1 DEF CommitLot
    <3>2. req[w].superviseur = s
      BY <2>1, LotWrites
    <3>. QED
      BY <2>1, <2>2, <2>3, <3>1, <3>2, LotWrites
  <2>5. \A c \in Cibles :
          IF c \notin DOMAIN lot THEN fiches'[s][c] = fiches[s][c]
          ELSE fiches'[s][c] = lot[c] \/ fiches[s][c] \notin {lues[c], lot[c]}
    BY <2>4, LineSent
  <2>. QED
    BY <2>2, <2>3, <2>4, <2>5
<1>. QED
  BY <1>1, Invariant, PTL DEF Spec, BatchStoredWhole

-----------------------------------------------------------------------------
(* Terrain: the inductive invariant *)

\* A request that dates the row it answers.
Dated(d) == d.op \in {"resolve", "reply"}

\* What a request carries: an answer is coherent in itself.
Asked(d) ==
  /\ d.op = "resolve" =>
       /\ d.rapport \in Rapports /\ d.libelle \in Libelles /\ d.envoyee \in Resolution
       /\ d.envoyee.resolue <=> d.envoyee.resolue_le # 0
       /\ d.envoyee.resolue <=> d.envoyee.resolue_par # NULL
  /\ d.op = "reply" =>
       /\ d.remarque \in Remarques /\ d.lue # NULL /\ d.envoyee \in Remarque
       /\ d.envoyee.reponse # NULL /\ d.statut # "nouveau" => d.envoyee.statut = "traite"
  /\ d.op \in {"upload", "delete"} => d.document \in Documents

Demandes ==
  /\ dem = [w \in Workers |-> dem[w]]
  /\ \A w \in Workers : Asked(dem[w])

\* A date that a row has, or a row that a request has loaded.
InUse(n) ==
  \/ \E r \in Rapports, l \in Libelles : resolutions[r][l] # NULL /\ resolutions[r][l].updated_at = n
  \/ \E q \in Remarques : remarques[q] # NULL /\ remarques[q].updated_at = n
  \/ \E w \in Workers : Dated(dem[w]) /\ dem[w].lue # NULL /\ dem[w].lue.updated_at = n

\* The date of an answer is its own.
Times ==
  /\ nt \in Nat
  /\ \A n : InUse(n) => n \in 0..nt
  /\ \A w \in Workers : Dated(dem[w]) =>
       dem[w].envoyee.updated_at \in 1..nt /\ ~InUse(dem[w].envoyee.updated_at)
  /\ \A v, w \in Workers : v # w /\ Dated(dem[v]) /\ Dated(dem[w]) =>
       dem[v].envoyee.updated_at # dem[w].envoyee.updated_at

\* A row that still has the date of the row loaded is the row loaded, but for the name of
\* an account deleted since.
SameResolution(row, lue) ==
  /\ row.resolue = lue.resolue /\ row.resolue_le = lue.resolue_le
  /\ row.resolue_par # lue.resolue_par => row.resolue_par = NULL /\ Departs

LoadedResolutions ==
  \A w \in Workers : dem[w].op = "resolve" =>
    LET row == resolutions[dem[w].rapport][dem[w].libelle]
        lue == dem[w].lue
    IN lue # NULL /\ row # NULL /\ row.updated_at = lue.updated_at => SameResolution(row, lue)

LoadedRemarks ==
  \A w \in Workers : dem[w].op = "reply" =>
    LET row == remarques[dem[w].remarque]
        lue == dem[w].lue
    IN row # NULL /\ (row.updated_at = lue.updated_at => row = lue)

\* The two parts of AnswersCoherent.
CoherentResolution(row) ==
  /\ row.resolue <=> row.resolue_le # 0
  /\ row.resolue_par # NULL => row.resolue
  /\ row.resolue /\ row.resolue_par = NULL => Departs

CoherentResolutions ==
  \A r \in Rapports : \A l \in Libelles :
    resolutions[r][l] # NULL /\ <<r, l>> \notin croises => CoherentResolution(resolutions[r][l])

CoherentRemarks ==
  \A q \in Remarques \ (melees \cup rouvertes) :
    remarques[q] # NULL /\ remarques[q].reponse # NULL => remarques[q].statut = "traite"

Uploading(d) == \E w \in Workers : dem[w].op = "upload" /\ dem[w].document = d

\* A file that a row or an upload needs is there, unless a deletion took it.
FilesThere ==
  \A d \in Documents : d \in documents \/ Uploading(d) => d \in fichiers \/ d \in entamees

\* The types of the rows of answers, in a form one row at a time.
ResolutionRows ==
  /\ resolutions = [r \in Rapports |-> [l \in Libelles |-> resolutions[r][l]]]
  /\ \A r \in Rapports, l \in Libelles : resolutions[r][l] # NULL =>
       /\ resolutions[r][l] \in Resolution /\ rapports[r] # NULL
       /\ resolutions[r][l].resolue_par \in presents \cup admins \cup {NULL}

OtherRows ==
  /\ rapports \in [Rapports -> (Auteurs \cap presents) \cup {NULL}] /\ admins \subseteq Admins
  /\ remarques \in [Remarques -> Remarque \cup {NULL}]
  /\ documents \cup entamees \subseteq Documents

\* What the tables keep, and what the requests do.
RowsOK == ResolutionRows /\ OtherRows /\ CoherentResolutions /\ CoherentRemarks

TInv ==
  /\ IInv /\ RowsOK /\ Demandes /\ Times /\ LoadedResolutions /\ LoadedRemarks /\ FilesThere

-----------------------------------------------------------------------------
(* The requests *)

\* The other requests when one of them arrives or leaves.
LEMMA DemandesKept ==
  ASSUME Demandes, NEW w \in Workers, NEW d, dem' = [dem EXCEPT ![w] = d], Asked(d)
  PROVE  Demandes' /\ \A v \in Workers : dem'[v] = IF v = w THEN d ELSE dem[v]
<1>1. \A v \in Workers : dem'[v] = IF v = w THEN d ELSE dem[v]
  BY DEF Demandes
<1>2. dem' = [v \in Workers |-> dem'[v]]
  BY DEF Demandes
<1>3. \A v \in Workers : Asked(dem'[v])
  BY <1>1 DEF Demandes
<1>4. \A v \in Workers : Asked(dem[v])'
  BY <1>3 DEF Asked
<1>. QED
  BY <1>1, <1>2, <1>4 DEF Demandes

\* A worker is free again.
LEMMA DemandesLeft ==
  ASSUME Demandes, NEW w \in Workers, Partie(w)
  PROVE  Demandes' /\ \A v \in Workers : dem'[v] = IF v = w THEN Libre ELSE dem[v]
<1>1. Asked(Libre)
  BY DEF Asked, Libre
<1>2. dem' = [dem EXCEPT ![w] = Libre]
  BY DEF Partie
<1>. QED
  BY <1>1, <1>2, DemandesKept

\* The tables and accounts are as they were.
LEMMA RowsKept ==
  ASSUME RowsOK, UNCHANGED <<answers, presents>>, documents' \cup entamees' \subseteq Documents
  PROVE  RowsOK'
  BY DEF RowsOK, ResolutionRows, OtherRows, CoherentResolutions, CoherentRemarks,
         CoherentResolution, Departs, answers

\* The accounts and the tables of Supervision are as they were.
LEMMA SupervisionKept ==
  ASSUME IInv, UNCHANGED vars
  PROVE  IInv'
  BY TablesKept, AllRequestsKept DEF vars, IInv, Tables

\* A request arrives with a row as it is, and a date nobody has.
LEMMA ArriveeStep ==
  ASSUME TInv, UNCHANGED vars, UNCHANGED answers, NEW w \in Workers, NEW d, Arrivee(w, d), Asked(d),
         Dated(d) => d.envoyee.updated_at = nt + 1 /\ (d.lue # NULL => InUse(d.lue.updated_at)),
         d.op = "resolve" => d.lue = resolutions[d.rapport][d.libelle],
         d.op = "reply" => d.lue = remarques[d.remarque],
         documents' \cup entamees' \subseteq Documents, FilesThere'
  PROVE  TInv'
<1>1. /\ Demandes' /\ \A v \in Workers : dem'[v] = IF v = w THEN d ELSE dem[v]
  BY DemandesKept DEF TInv, Arrivee
<1>2. IInv' /\ RowsOK'
  BY RowsKept, SupervisionKept DEF TInv, vars
<1>3. nt \in Nat /\ nt' = nt + 1
  BY DEF TInv, Times, Arrivee
<1>4. UNCHANGED <<presents, admins, resolutions, remarques>>
  BY DEF vars, answers
<1>5. \A n : InUse(n)' => InUse(n)
  <2> SUFFICES ASSUME NEW n, InUse(n)' PROVE InUse(n)
    OBVIOUS
  <2>1. CASE \E v \in Workers : Dated(dem'[v]) /\ dem'[v].lue # NULL /\ dem'[v].lue.updated_at = n
    BY <1>1, <2>1 DEF InUse
  <2>2. CASE \/ \E r \in Rapports, l \in Libelles : resolutions[r][l] # NULL /\ resolutions[r][l].updated_at = n
             \/ \E q \in Remarques : remarques[q] # NULL /\ remarques[q].updated_at = n
    BY <2>2 DEF InUse
  <2>. QED
    BY <1>4, <2>1, <2>2 DEF InUse, Dated
<1>6. Times'
  <2>1. \A n : InUse(n)' => n \in 0..nt'
    BY <1>3, <1>5 DEF TInv, Times
  <2>2. \A v \in Workers : (Dated(dem[v]) =>
          dem[v].envoyee.updated_at \in 1..nt /\ ~InUse(dem[v].envoyee.updated_at))'
    <3> SUFFICES ASSUME NEW v \in Workers, Dated(dem[v])'
                 PROVE  (dem[v].envoyee.updated_at \in 1..nt /\ ~InUse(dem[v].envoyee.updated_at))'
      OBVIOUS
    <3>1. PICK n : n = dem'[v].envoyee.updated_at
      OBVIOUS
    <3>2. n \in 1..nt' /\ ~InUse(n)
      <4>1. CASE v = w
        BY <1>1, <1>3, <3>1, <4>1 DEF TInv, Times
      <4>2. CASE v # w
        BY <1>1, <1>3, <3>1, <4>2 DEF TInv, Times
      <4>. QED
        BY <4>1, <4>2
    <3>3. ~InUse(n)'
      BY <1>5, <3>2
    <3>. QED
      BY <3>1, <3>2, <3>3 DEF InUse
  <2>3. \A u, v \in Workers : u # v /\ Dated(dem'[u]) /\ Dated(dem'[v]) =>
          dem'[u].envoyee.updated_at # dem'[v].envoyee.updated_at
    <3>1. \A v \in Workers : v # w /\ Dated(dem[v]) => dem[v].envoyee.updated_at # nt + 1
      BY <1>3 DEF TInv, Times
    <3>. QED
      BY <1>1, <3>1 DEF TInv, Times
  <2>4. nt' \in Nat
    BY <1>3
  <2>. QED
    BY <2>1, <2>2, <2>3, <2>4 DEF Times, InUse, Dated
<1>7. LoadedResolutions'
  <2> SUFFICES ASSUME NEW v \in Workers, dem'[v].op = "resolve",
                      dem'[v].lue # NULL, resolutions[dem'[v].rapport][dem'[v].libelle] # NULL,
                      resolutions[dem'[v].rapport][dem'[v].libelle].updated_at = dem'[v].lue.updated_at
               PROVE  SameResolution(resolutions[dem'[v].rapport][dem'[v].libelle], dem'[v].lue)
    BY <1>4 DEF LoadedResolutions, SameResolution, Departs
  <2>1. CASE v = w
    BY <1>1, <2>1 DEF SameResolution
  <2>2. CASE v # w
    BY <1>1, <2>2 DEF TInv, LoadedResolutions
  <2>. QED
    BY <2>1, <2>2
<1>8. LoadedRemarks'
  <2> SUFFICES ASSUME NEW v \in Workers, dem'[v].op = "reply"
               PROVE  /\ remarques[dem'[v].remarque] # NULL
                      /\ remarques[dem'[v].remarque].updated_at = dem'[v].lue.updated_at
                           => remarques[dem'[v].remarque] = dem'[v].lue
    BY <1>4 DEF LoadedRemarks
  <2>1. CASE v = w
    BY <1>1, <2>1 DEF Asked
  <2>2. CASE v # w
    BY <1>1, <2>2 DEF TInv, LoadedRemarks
  <2>. QED
    BY <2>1, <2>2
<1>. QED
  BY <1>1, <1>2, <1>6, <1>7, <1>8 DEF TInv

\* A request is over, and what it wrote has its date.
LEMMA PartieStep ==
  ASSUME TInv, UNCHANGED vars, admins' = admins, NEW w \in Workers, Partie(w), RowsOK', FilesThere',
         \A r \in Rapports, l \in Libelles : resolutions'[r][l] # resolutions[r][l] =>
           Dated(dem[w]) /\ resolutions'[r][l].updated_at = dem[w].envoyee.updated_at,
         \A q \in Remarques : remarques'[q] # remarques[q] =>
           Dated(dem[w]) /\ remarques'[q] # NULL /\ remarques'[q].updated_at = dem[w].envoyee.updated_at
  PROVE  TInv'
<1>1. Asked(Libre) /\ ~Dated(Libre) /\ Libre.op = "libre"
  BY DEF Asked, Dated, Libre
<1>2. /\ Demandes' /\ \A v \in Workers : dem'[v] = IF v = w THEN Libre ELSE dem[v]
  BY DemandesLeft DEF TInv
<1>3. IInv'
  BY SupervisionKept DEF TInv
<1>4. nt \in Nat /\ nt' = nt /\ UNCHANGED <<presents, admins>>
  BY DEF TInv, Times, Partie, vars
<1>5. PICK m : m = dem[w].envoyee.updated_at
  OBVIOUS
<1>6. \A n : InUse(n)' => InUse(n) \/ (Dated(dem[w]) /\ n = m)
  <2> SUFFICES ASSUME NEW n, InUse(n)' PROVE InUse(n) \/ (Dated(dem[w]) /\ n = m)
    OBVIOUS
  <2>1. CASE \E v \in Workers : Dated(dem'[v]) /\ dem'[v].lue # NULL /\ dem'[v].lue.updated_at = n
    BY <1>1, <1>2, <2>1 DEF InUse
  <2>2. CASE \E r \in Rapports, l \in Libelles :
               resolutions'[r][l] # NULL /\ resolutions'[r][l].updated_at = n
    BY <1>5, <2>2 DEF InUse
  <2>3. CASE \E q \in Remarques : remarques'[q] # NULL /\ remarques'[q].updated_at = n
    BY <1>5, <2>3 DEF InUse
  <2>. QED
    BY <2>1, <2>2, <2>3 DEF InUse, Dated
<1>7. \A v \in Workers : v # w /\ Dated(dem[v]) /\ Dated(dem[w]) => dem[v].envoyee.updated_at # m
  BY <1>5 DEF TInv, Times
<1>8. Times'
  <2>1. \A n : InUse(n)' => n \in 0..nt'
    BY <1>4, <1>5, <1>6 DEF TInv, Times
  <2>2. \A v \in Workers : (Dated(dem[v]) =>
          dem[v].envoyee.updated_at \in 1..nt /\ ~InUse(dem[v].envoyee.updated_at))'
    <3> SUFFICES ASSUME NEW v \in Workers, Dated(dem[v])'
                 PROVE  (dem[v].envoyee.updated_at \in 1..nt /\ ~InUse(dem[v].envoyee.updated_at))'
      OBVIOUS
    <3>1. PICK n : n = dem'[v].envoyee.updated_at
      OBVIOUS
    <3>2. v # w /\ n = dem[v].envoyee.updated_at /\ Dated(dem[v])
      BY <1>1, <1>2, <3>1
    <3>3. n \in 1..nt' /\ ~InUse(n)
      BY <1>4, <3>2 DEF TInv, Times
    <3>4. ~InUse(n)'
      BY <1>6, <1>7, <3>2, <3>3
    <3>. QED
      BY <3>1, <3>3, <3>4 DEF InUse
  <2>3. \A u, v \in Workers : u # v /\ Dated(dem'[u]) /\ Dated(dem'[v]) =>
          dem'[u].envoyee.updated_at # dem'[v].envoyee.updated_at
    BY <1>1, <1>2 DEF TInv, Times
  <2>. QED
    BY <1>4, <2>1, <2>2, <2>3 DEF Times, InUse, Dated
<1>9. \A v \in Workers : v # w /\ Dated(dem[w]) /\ Dated(dem[v]) /\ dem[v].lue # NULL => dem[v].lue.updated_at # m
  <2> SUFFICES ASSUME NEW v \in Workers, Dated(dem[w]), Dated(dem[v]), dem[v].lue # NULL
               PROVE  dem[v].lue.updated_at # m
    OBVIOUS
  <2>1. InUse(dem[v].lue.updated_at)
    BY DEF InUse
  <2>2. ~InUse(m)
    BY <1>5 DEF TInv, Times
  <2>. QED
    BY <2>1, <2>2
<1>10. LoadedResolutions'
  <2> SUFFICES ASSUME NEW v \in Workers, dem'[v].op = "resolve",
                      dem'[v].lue # NULL, resolutions'[dem'[v].rapport][dem'[v].libelle] # NULL,
                      resolutions'[dem'[v].rapport][dem'[v].libelle].updated_at = dem'[v].lue.updated_at
               PROVE  SameResolution(resolutions'[dem'[v].rapport][dem'[v].libelle], dem'[v].lue)
    BY <1>4 DEF LoadedResolutions, SameResolution, Departs
  <2>1. v # w /\ dem'[v] = dem[v] /\ Dated(dem[v])
    BY <1>1, <1>2 DEF Dated
  <2>2. dem[v].rapport \in Rapports /\ dem[v].libelle \in Libelles
    BY <2>1 DEF TInv, Demandes, Asked
  <2>3. resolutions'[dem[v].rapport][dem[v].libelle] = resolutions[dem[v].rapport][dem[v].libelle]
    BY <1>5, <1>9, <2>1, <2>2
  <2>. QED
    BY <2>1, <2>3 DEF TInv, LoadedResolutions
<1>11. LoadedRemarks'
  <2> SUFFICES ASSUME NEW v \in Workers, dem'[v].op = "reply"
               PROVE  /\ remarques'[dem'[v].remarque] # NULL
                      /\ remarques'[dem'[v].remarque].updated_at = dem'[v].lue.updated_at
                           => remarques'[dem'[v].remarque] = dem'[v].lue
    BY DEF LoadedRemarks
  <2>1. v # w /\ dem'[v] = dem[v] /\ Dated(dem[v])
    BY <1>1, <1>2 DEF Dated
  <2>2. dem[v].remarque \in Remarques /\ dem[v].lue # NULL
    BY <2>1 DEF TInv, Demandes, Asked
  <2>3. remarques[dem[v].remarque] # NULL
    BY <2>1 DEF TInv, LoadedRemarks
  <2>4. CASE remarques'[dem[v].remarque] = remarques[dem[v].remarque]
    BY <2>1, <2>3, <2>4 DEF TInv, LoadedRemarks
  <2>5. CASE remarques'[dem[v].remarque] # remarques[dem[v].remarque]
    BY <1>5, <1>9, <2>1, <2>2, <2>5
  <2>. QED
    BY <2>4, <2>5
<1>. QED
  BY <1>2, <1>3, <1>8, <1>10, <1>11 DEF TInv

\* A table is written by a request that is over at once: a row goes, loses the name of an
\* account that is deleted, or is new.
LEMMA TableStep ==
  ASSUME TInv, UNCHANGED dem, nt' \in {nt, nt + 1}, presents' \subseteq presents, admins' \subseteq admins,
         IInv', RowsOK', FilesThere',
         \A r \in Rapports, l \in Libelles : resolutions'[r][l] # NULL =>
           /\ resolutions[r][l] # NULL /\ resolutions'[r][l].updated_at = resolutions[r][l].updated_at
           /\ resolutions'[r][l].resolue = resolutions[r][l].resolue
           /\ resolutions'[r][l].resolue_le = resolutions[r][l].resolue_le
           /\ resolutions'[r][l].resolue_par # resolutions[r][l].resolue_par =>
                resolutions'[r][l].resolue_par = NULL /\ Departs',
         \A q \in Remarques : remarques'[q] # remarques[q] =>
           remarques[q] = NULL /\ remarques'[q].updated_at = nt + 1 /\ nt' = nt + 1
  PROVE  TInv'
<1>1. Demandes'
  BY DEF TInv, Demandes, Asked
<1>2. nt \in Nat
  BY DEF TInv, Times
<1>3. \A n : InUse(n)' => InUse(n) \/ (nt' = nt + 1 /\ n = nt')
  <2> SUFFICES ASSUME NEW n, InUse(n)' PROVE InUse(n) \/ (nt' = nt + 1 /\ n = nt')
    OBVIOUS
  <2>1. CASE \E v \in Workers : Dated(dem[v]) /\ dem[v].lue # NULL /\ dem[v].lue.updated_at = n
    BY <2>1 DEF InUse
  <2>2. CASE \E r \in Rapports, l \in Libelles :
               resolutions'[r][l] # NULL /\ resolutions'[r][l].updated_at = n
    BY <2>2 DEF InUse
  <2>3. CASE \E q \in Remarques : remarques'[q] # NULL /\ remarques'[q].updated_at = n
    BY <2>3 DEF InUse
  <2>. QED
    BY <2>1, <2>2, <2>3 DEF InUse, Dated
<1>4. Times'
  <2>1. \A n : InUse(n)' => n \in 0..nt'
    <3> SUFFICES ASSUME NEW n, InUse(n)' PROVE n \in 0..nt'
      OBVIOUS
    <3>1. CASE InUse(n)
      BY <1>2, <3>1 DEF TInv, Times
    <3>2. CASE nt' = nt + 1 /\ n = nt'
      BY <1>2, <3>2
    <3>. QED
      BY <1>3, <3>1, <3>2
  <2>2. \A v \in Workers : (Dated(dem[v]) =>
          dem[v].envoyee.updated_at \in 1..nt /\ ~InUse(dem[v].envoyee.updated_at))'
    <3> SUFFICES ASSUME NEW v \in Workers, Dated(dem[v])'
                 PROVE  (dem[v].envoyee.updated_at \in 1..nt /\ ~InUse(dem[v].envoyee.updated_at))'
      OBVIOUS
    <3>1. PICK n : n = dem[v].envoyee.updated_at
      OBVIOUS
    <3>2. n \in 1..nt /\ ~InUse(n)
      BY <3>1 DEF TInv, Times, Dated
    <3>3. n \in 1..nt' /\ ~InUse(n)'
      BY <1>2, <1>3, <3>2
    <3>. QED
      BY <3>1, <3>3 DEF InUse
  <2>3. \A u, v \in Workers : u # v /\ Dated(dem'[u]) /\ Dated(dem'[v]) =>
          dem'[u].envoyee.updated_at # dem'[v].envoyee.updated_at
    BY DEF TInv, Times
  <2>. QED
    BY <1>2, <2>1, <2>2, <2>3 DEF Times, InUse, Dated
<1>5. LoadedResolutions'
  <2> SUFFICES ASSUME NEW v \in Workers, dem[v].op = "resolve",
                      dem[v].lue # NULL, resolutions'[dem[v].rapport][dem[v].libelle] # NULL,
                      resolutions'[dem[v].rapport][dem[v].libelle].updated_at = dem[v].lue.updated_at
               PROVE  SameResolution(resolutions[dem[v].rapport][dem[v].libelle], dem[v].lue)'
    BY DEF LoadedResolutions, SameResolution
  <2>1. PICK row : row = resolutions[dem[v].rapport][dem[v].libelle]
    OBVIOUS
  <2>2. PICK nouvelle : nouvelle = resolutions'[dem[v].rapport][dem[v].libelle]
    OBVIOUS
  <2>3. dem[v].rapport \in Rapports /\ dem[v].libelle \in Libelles
    BY DEF TInv, Demandes, Asked
  <2>4. row # NULL /\ nouvelle.updated_at = row.updated_at
    BY <2>1, <2>2, <2>3
  <2>5. /\ nouvelle.resolue = row.resolue /\ nouvelle.resolue_le = row.resolue_le
        /\ nouvelle.resolue_par # row.resolue_par =>
             nouvelle.resolue_par = NULL /\ Departs'
    BY <2>1, <2>2, <2>3
  <2>6. SameResolution(row, dem[v].lue)
    BY <2>1, <2>2, <2>4 DEF TInv, LoadedResolutions
  <2>7. /\ nouvelle.resolue = dem[v].lue.resolue /\ nouvelle.resolue_le = dem[v].lue.resolue_le
        /\ nouvelle.resolue_par # dem[v].lue.resolue_par =>
             nouvelle.resolue_par = NULL /\ Departs'
    BY <2>5, <2>6 DEF SameResolution, Departs
  <2>. QED
    BY <2>2, <2>7 DEF SameResolution
<1>6. LoadedRemarks'
  <2> SUFFICES ASSUME NEW v \in Workers, dem[v].op = "reply"
               PROVE  /\ remarques'[dem[v].remarque] # NULL
                      /\ remarques'[dem[v].remarque].updated_at = dem[v].lue.updated_at
                           => remarques'[dem[v].remarque] = dem[v].lue
    BY DEF LoadedRemarks
  <2>1. dem[v].remarque \in Remarques /\ remarques[dem[v].remarque] # NULL
    BY DEF TInv, LoadedRemarks, Demandes, Asked
  <2>2. remarques'[dem[v].remarque] = remarques[dem[v].remarque]
    BY <2>1
  <2>. QED
    BY <2>1, <2>2 DEF TInv, LoadedRemarks
<1>. QED
  BY <1>1, <1>4, <1>5, <1>6 DEF TInv

-----------------------------------------------------------------------------
(* Files *)

\* A step after which no more rows and uploads need a file, and no file is gone.
LEMMA FilesKept ==
  ASSUME FilesThere, fichiers \subseteq fichiers', entamees \subseteq entamees',
         \A d \in Documents : d \in documents' \/ Uploading(d)' => d \in documents \/ Uploading(d)
  PROVE  FilesThere'
  BY DEF FilesThere

\* Nobody uploads more when a request that is no upload arrives, or one is over.
LEMMA UploadsKept ==
  ASSUME Demandes, NEW w \in Workers, NEW d, d.op # "upload", dem' = [dem EXCEPT ![w] = d],
         NEW x, Uploading(x)'
  PROVE  Uploading(x)
<1>1. \A v \in Workers : dem'[v] = IF v = w THEN d ELSE dem[v]
  BY DEF Demandes
<1>. QED
  BY <1>1 DEF Uploading

\* A request that leaves the files alone arrives.
LEMMA FilesArrivee ==
  ASSUME TInv, NEW w \in Workers, NEW d, d.op # "upload", Arrivee(w, d), UNCHANGED files
  PROVE  FilesThere'
  BY UploadsKept, FilesKept DEF TInv, Arrivee, files

\* A request is over that leaves the files alone.
LEMMA FilesPartie ==
  ASSUME TInv, NEW w \in Workers, Partie(w), fichiers' = fichiers, entamees' = entamees,
         documents' \subseteq documents
  PROVE  FilesThere'
<1>1. PICK d : d = Libre
  OBVIOUS
<1>2. d.op # "upload"
  BY <1>1 DEF Libre
<1>3. dem' = [dem EXCEPT ![w] = d]
  BY <1>1 DEF Partie
<1>4. \A x : Uploading(x)' => Uploading(x)
  BY <1>2, <1>3, UploadsKept DEF TInv
<1>. QED
  BY <1>4, FilesKept DEF TInv

\* upload_document has written the file.
LEMMA WriteFileStep ==
  ASSUME TInv, UNCHANGED vars, NEW w \in Workers, NEW x \in Documents, WriteFile(w, x)
  PROVE  TInv'
<1>1. PICK d : d = [op |-> "upload", document |-> x]
  OBVIOUS
<1>2. Arrivee(w, d) /\ fichiers' = fichiers \cup {x} /\ UNCHANGED <<documents, entamees>> /\ UNCHANGED answers
  BY <1>1 DEF WriteFile, Fichier
<1>3. Asked(d) /\ ~Dated(d) /\ d.op = "upload" /\ d.document = x
  BY <1>1 DEF Asked, Dated
<1>4. \A v \in Workers : dem'[v] = IF v = w THEN d ELSE dem[v]
  BY <1>2 DEF Arrivee, TInv, Demandes
<1>5. FilesThere'
  <2> SUFFICES ASSUME NEW y \in Documents, y \in documents \/ Uploading(y)'
               PROVE  y \in fichiers' \/ y \in entamees
    BY <1>2 DEF FilesThere
  <2>1. y = x \/ y \in documents \/ Uploading(y)
    BY <1>3, <1>4 DEF Uploading
  <2>. QED
    BY <1>2, <2>1 DEF TInv, FilesThere
<1>6. documents' \cup entamees' \subseteq Documents
  BY <1>2 DEF TInv, RowsOK, OtherRows
<1>. QED
  BY <1>2, <1>3, <1>5, <1>6, ArriveeStep DEF Dated

\* delete_document has removed the file.
LEMMA UnlinkStep ==
  ASSUME TInv, UNCHANGED vars, NEW w \in Workers, NEW x \in Documents, Unlink(w, x)
  PROVE  TInv'
<1>1. PICK d : d = [op |-> "delete", document |-> x]
  OBVIOUS
<1>2. /\ Arrivee(w, d) /\ fichiers \ {x} \subseteq fichiers' /\ documents' = documents
      /\ entamees' = entamees \cup {x} /\ UNCHANGED answers
  BY <1>1 DEF Unlink, Fichier
<1>3. Asked(d) /\ ~Dated(d) /\ d.op = "delete"
  BY <1>1 DEF Asked, Dated
<1>4. \A y : Uploading(y)' => Uploading(y)
  BY <1>2, <1>3, UploadsKept DEF TInv, Arrivee
<1>5. FilesThere'
  BY <1>2, <1>4 DEF TInv, FilesThere
<1>6. documents' \cup entamees' \subseteq Documents
  BY <1>2 DEF TInv, RowsOK, OtherRows
<1>. QED
  BY <1>2, <1>3, <1>5, <1>6, ArriveeStep DEF Dated

\* A request that only touches documents is over.
LEMMA DocumentsPartie ==
  ASSUME TInv, UNCHANGED vars, NEW w \in Workers, Partie(w), UNCHANGED answers,
         documents' \subseteq Documents, entamees' = entamees, FilesThere'
  PROVE  TInv'
<1>1. documents' \cup entamees' \subseteq Documents
  BY DEF TInv, RowsOK, OtherRows
<1>2. RowsOK'
  BY <1>1, RowsKept DEF TInv, vars
<1>. QED
  BY <1>2, PartieStep DEF answers

\* upload_document commits its row, delete_document the end of one, or a request fails.
LEMMA DocumentSteps ==
  ASSUME TInv, UNCHANGED vars, NEW w \in Workers, CommitUpload(w) \/ CommitDelete(w) \/ Abandon(w)
  PROVE  TInv'
<1>0. documents \subseteq Documents
  BY DEF TInv, RowsOK, OtherRows
<1>1. CASE CommitUpload(w)
  <2>1. PICK x : x = dem[w].document
    OBVIOUS
  <2>2. x \in Documents /\ Uploading(x)
    BY <1>1, <2>1 DEF CommitUpload, TInv, Demandes, Asked, Uploading
  <2>3. documents' = documents \cup {x} /\ UNCHANGED <<fichiers, entamees>> /\ Partie(w) /\ UNCHANGED answers
    BY <1>1, <2>1 DEF CommitUpload
  <2>4. PICK d : d = Libre
    OBVIOUS
  <2>5. d.op # "upload" /\ dem' = [dem EXCEPT ![w] = d]
    BY <2>3, <2>4 DEF Libre, Partie
  <2>6. \A y : Uploading(y)' => Uploading(y)
    BY <2>5, UploadsKept DEF TInv
  <2>7. FilesThere'
    BY <2>2, <2>3, <2>6, FilesKept DEF TInv
  <2>. QED
    BY <1>0, <2>2, <2>3, <2>7, DocumentsPartie
<1>2. CASE CommitDelete(w) \/ Abandon(w)
  <2>1. /\ Partie(w) /\ UNCHANGED answers /\ UNCHANGED <<fichiers, entamees>>
        /\ documents' \subseteq documents
    BY <1>2 DEF CommitDelete, Abandon, files
  <2>2. FilesThere'
    BY <2>1, FilesPartie
  <2>. QED
    BY <1>0, <2>1, <2>2, DocumentsPartie
<1>. QED
  BY <1>1, <1>2

-----------------------------------------------------------------------------
(* Resolutions *)

\* An answer to a difficulty is coherent in itself.
LEMMA ResolveAsked ==
  ASSUME NEW b \in BOOLEAN, NEW u \in Superviseurs \cup Admins, NEW n \in Nat, n # 0
  PROVE  /\ Resolue(b, u, n) \in Resolution /\ Resolue(b, u, n).updated_at = n
         /\ Resolue(b, u, n).resolue <=> Resolue(b, u, n).resolue_le # 0
         /\ Resolue(b, u, n).resolue <=> Resolue(b, u, n).resolue_par # NULL
  BY TerrainAssumption DEF Resolue, Resolution

\* Both routes of a resolution have loaded the row.
LEMMA ReadResolveStep ==
  ASSUME TInv, UNCHANGED vars, NEW w \in Workers, NEW u \in Superviseurs \cup Admins,
         NEW r \in Rapports, NEW l \in Libelles, NEW b \in BOOLEAN, ReadResolve(w, u, r, l, b)
  PROVE  TInv'
<1>1. PICK e : e = Resolue(b, u, nt + 1)
  OBVIOUS
<1>2. PICK d : d = [op |-> "resolve", rapport |-> r, libelle |-> l, lue |-> resolutions[r][l],
                    envoyee |-> e]
  OBVIOUS
<1>3. Arrivee(w, d) /\ UNCHANGED answers /\ UNCHANGED files
  BY <1>1, <1>2 DEF ReadResolve
<1>4. nt + 1 \in Nat /\ nt + 1 # 0
  BY DEF TInv, Times
<1>5. Asked(d) /\ d.envoyee.updated_at = nt + 1
  BY <1>1, <1>2, <1>4, ResolveAsked DEF Asked
<1>6. d.lue # NULL => InUse(d.lue.updated_at)
  BY <1>2 DEF InUse
<1>7. d.op = "resolve" /\ d.lue = resolutions[d.rapport][d.libelle]
  BY <1>2
<1>8. FilesThere' /\ documents' \cup entamees' \subseteq Documents
  BY <1>3, <1>7, FilesArrivee DEF TInv, RowsOK, OtherRows, files
<1>. QED
  BY <1>3, <1>5, <1>6, <1>7, <1>8, ArriveeStep

\* The row after an answer: of the answer's date, and the answer itself but for columns of
\* the row that were equal when it was loaded.
LEMMA ResolutionStored ==
  ASSUME NEW row, NEW lue, NEW envoyee \in Resolution, row = NULL <=> lue = NULL,
         row # NULL => row \in Resolution, lue # NULL => lue.updated_at # envoyee.updated_at
  PROVE  /\ Stockee(row, lue, envoyee) \in Resolution
         /\ Stockee(row, lue, envoyee).updated_at = envoyee.updated_at
         /\ \A k \in {"resolue", "resolue_par", "resolue_le"} :
              Stockee(row, lue, envoyee)[k] =
                IF lue # NULL /\ envoyee[k] = lue[k] THEN row[k] ELSE envoyee[k]
<1>1. CASE lue = NULL
  BY <1>1 DEF Stockee
<1>2. CASE lue # NULL
  <2>1. row \in Resolution
    BY <1>2
  <2>2. PICK x : x = Ecrite(row, lue, envoyee)
    OBVIOUS
  <2>3. DOMAIN envoyee = {"resolue", "resolue_par", "resolue_le", "updated_at"}
    BY DEF Resolution
  <2>4. x = [resolue |-> x.resolue, resolue_par |-> x.resolue_par, resolue_le |-> x.resolue_le,
             updated_at |-> x.updated_at]
    BY <2>2, <2>3 DEF Ecrite
  <2>5. \A k \in DOMAIN envoyee : x[k] = IF envoyee[k] = lue[k] THEN row[k] ELSE envoyee[k]
    BY <2>2 DEF Ecrite
  <2>6. /\ x.resolue \in {envoyee.resolue, row.resolue}
        /\ x.resolue_par \in {envoyee.resolue_par, row.resolue_par}
        /\ x.resolue_le \in {envoyee.resolue_le, row.resolue_le}
        /\ x.updated_at = envoyee.updated_at
    BY <1>2, <2>3, <2>5
  <2>7. x \in Resolution
    BY <2>1, <2>4, <2>6 DEF Resolution
  <2>. QED
    BY <1>2, <2>2, <2>3, <2>5, <2>6, <2>7 DEF Stockee
<1>. QED
  BY <1>1, <1>2

\* An answer that no other has crossed leaves a coherent row.
LEMMA ResolutionCoherent ==
  ASSUME NEW row, NEW lue, NEW envoyee \in Resolution, row = NULL <=> lue = NULL,
         row # NULL => row \in Resolution, lue # NULL => lue.updated_at # envoyee.updated_at,
         lue # NULL => SameResolution(row, lue),
         envoyee.resolue <=> envoyee.resolue_le # 0,
         envoyee.resolue <=> envoyee.resolue_par # NULL
  PROVE  CoherentResolution(Stockee(row, lue, envoyee))
<1>1. PICK x : x = Stockee(row, lue, envoyee)
  OBVIOUS
<1>2. \A k \in {"resolue", "resolue_par", "resolue_le"} :
        x[k] = IF lue # NULL /\ envoyee[k] = lue[k] THEN row[k] ELSE envoyee[k]
  BY <1>1, ResolutionStored
<1>3. x.resolue = envoyee.resolue /\ x.resolue_le = envoyee.resolue_le
  BY <1>2 DEF SameResolution
<1>4. x.resolue_par = envoyee.resolue_par \/ (x.resolue_par = NULL /\ Departs)
  BY <1>2 DEF SameResolution
<1>. QED
  BY <1>1, <1>3, <1>4 DEF CoherentResolution

\* set_resolution flushes, and the transaction commits.
LEMMA CommitResolveStep ==
  ASSUME TInv, UNCHANGED vars, NEW w \in Workers, CommitResolve(w)
  PROVE  TInv'
<1>1. PICK d : d = dem[w]
  OBVIOUS
<1>2. PICK a : a = d.rapport
  OBVIOUS
<1>3. PICK c : c = d.libelle
  OBVIOUS
<1>4. PICK row : row = resolutions[a][c]
  OBVIOUS
<1>5. PICK x : x = Stockee(row, d.lue, d.envoyee)
  OBVIOUS
<1>6. /\ d.op = "resolve" /\ rapports[a] # NULL /\ (row = NULL <=> d.lue = NULL)
      /\ x.resolue_par \in presents \cup admins \cup {NULL}
      /\ resolutions' = [resolutions EXCEPT ![a][c] = x]
      /\ croises' = Croise(croises, <<a, c>>, row, d.lue)
      /\ Partie(w) /\ UNCHANGED <<admins, rapports, remarques, melees, rouvertes>> /\ UNCHANGED files
  BY <1>1, <1>2, <1>3, <1>4, <1>5 DEF CommitResolve
<1>7. /\ a \in Rapports /\ c \in Libelles /\ d.envoyee \in Resolution
      /\ d.envoyee.resolue <=> d.envoyee.resolue_le # 0
      /\ d.envoyee.resolue <=> d.envoyee.resolue_par # NULL
  BY <1>1, <1>2, <1>3, <1>6 DEF TInv, Demandes, Asked
<1>8. row # NULL => row \in Resolution
  BY <1>4, <1>7 DEF TInv, RowsOK, ResolutionRows
<1>9. d.lue # NULL => d.lue.updated_at # d.envoyee.updated_at
  <2> SUFFICES ASSUME d.lue # NULL PROVE d.lue.updated_at # d.envoyee.updated_at
    OBVIOUS
  <2>1. InUse(d.lue.updated_at)
    BY <1>1, <1>6 DEF InUse, Dated
  <2>2. ~InUse(d.envoyee.updated_at)
    BY <1>1, <1>6 DEF TInv, Times, Dated
  <2>. QED
    BY <2>1, <2>2
<1>10. x \in Resolution /\ x.updated_at = d.envoyee.updated_at
  BY <1>5, <1>6, <1>7, <1>8, <1>9, ResolutionStored
<1>11. /\ \A r \in Rapports, l \in Libelles :
            resolutions'[r][l] = IF r = a /\ l = c THEN x ELSE resolutions[r][l]
       /\ resolutions' = [r \in Rapports |-> [l \in Libelles |-> resolutions'[r][l]]]
  <2>1. PICK ligne : ligne = [resolutions[a] EXCEPT ![c] = x]
    OBVIOUS
  <2>2. resolutions' = [resolutions EXCEPT ![a] = ligne]
    BY <1>6, <2>1
  <2>3. resolutions = [r \in Rapports |-> [l \in Libelles |-> resolutions[r][l]]]
    BY DEF TInv, RowsOK, ResolutionRows
  <2>4. ligne = [l \in Libelles |-> ligne[l]] /\ \A l \in Libelles : ligne[l] = IF l = c THEN x ELSE resolutions[a][l]
    BY <1>7, <2>1, <2>3
  <2>5. \A r \in Rapports : resolutions'[r] = IF r = a THEN ligne ELSE resolutions[r]
    BY <2>2, <2>3
  <2>6. \A r \in Rapports : resolutions[r] = [l \in Libelles |-> resolutions[r][l]]
    BY <2>3
  <2>7. \A r \in Rapports : resolutions'[r] = [l \in Libelles |-> resolutions'[r][l]]
    <3> SUFFICES ASSUME NEW r \in Rapports PROVE resolutions'[r] = [l \in Libelles |-> resolutions'[r][l]]
      OBVIOUS
    <3>1. CASE r = a
      BY <2>4, <2>5, <3>1
    <3>2. CASE r # a
      BY <2>5, <2>6, <3>2
    <3>. QED
      BY <3>1, <3>2
  <2>8. resolutions' = [r \in Rapports |-> resolutions'[r]]
    BY <2>2, <2>3
  <2>9. resolutions' = [r \in Rapports |-> [l \in Libelles |-> resolutions'[r][l]]]
    BY <2>7, <2>8
  <2>10. \A r \in Rapports, l \in Libelles :
           resolutions'[r][l] = IF r = a /\ l = c THEN x ELSE resolutions[r][l]
    BY <2>4, <2>5
  <2>. QED
    BY <2>9, <2>10
<1>12. ResolutionRows'
  <2>1. \A r \in Rapports, l \in Libelles : resolutions'[r][l] # NULL =>
          /\ resolutions'[r][l] \in Resolution /\ rapports'[r] # NULL
          /\ resolutions'[r][l].resolue_par \in presents' \cup admins' \cup {NULL}
    <3> SUFFICES ASSUME NEW r \in Rapports, NEW l \in Libelles, resolutions'[r][l] # NULL
                 PROVE  /\ resolutions'[r][l] \in Resolution /\ rapports[r] # NULL
                        /\ resolutions'[r][l].resolue_par \in presents \cup admins \cup {NULL}
      BY <1>6 DEF vars
    <3>1. CASE r = a /\ l = c
      BY <1>6, <1>10, <1>11, <3>1
    <3>2. CASE ~(r = a /\ l = c)
      BY <1>11, <3>2 DEF TInv, RowsOK, ResolutionRows
    <3>. QED
      BY <3>1, <3>2
  <2>. QED
    BY <1>11, <2>1 DEF ResolutionRows, Resolution
<1>13. CoherentResolutions'
  <2> SUFFICES ASSUME NEW r \in Rapports, NEW l \in Libelles, resolutions'[r][l] # NULL,
                      <<r, l>> \notin croises'
               PROVE  CoherentResolution(resolutions'[r][l])
    BY <1>6 DEF CoherentResolutions, CoherentResolution, Departs, vars
  <2>1. CASE r = a /\ l = c
    <3>1. row = NULL \/ row.updated_at = d.lue.updated_at
      BY <1>6, <2>1 DEF Croise
    <3>2. d.lue # NULL => SameResolution(row, d.lue)
      BY <1>1, <1>2, <1>3, <1>4, <1>6, <3>1 DEF TInv, LoadedResolutions
    <3>3. CoherentResolution(x)
      BY <1>5, <1>6, <1>7, <1>8, <1>9, <3>2, ResolutionCoherent
    <3>. QED
      BY <1>11, <2>1, <3>3
  <2>2. CASE ~(r = a /\ l = c)
    <3>1. <<r, l>> # <<a, c>>
      BY <2>2
    <3>2. <<r, l>> \notin croises
      BY <1>6, <3>1 DEF Croise
    <3>3. resolutions'[r][l] = resolutions[r][l]
      BY <1>11, <2>2
    <3>. QED
      BY <3>2, <3>3 DEF TInv, RowsOK, CoherentResolutions
  <2>. QED
    BY <2>1, <2>2
<1>14. RowsOK'
  BY <1>6, <1>12, <1>13 DEF TInv, RowsOK, OtherRows, CoherentRemarks, vars, files
<1>15. FilesThere'
  BY <1>6, FilesPartie DEF files
<1>16. \A r \in Rapports, l \in Libelles : resolutions'[r][l] # resolutions[r][l] =>
         Dated(dem[w]) /\ resolutions'[r][l].updated_at = dem[w].envoyee.updated_at
  BY <1>1, <1>6, <1>10, <1>11 DEF Dated
<1>. QED
  BY <1>6, <1>14, <1>15, <1>16, PartieStep

-----------------------------------------------------------------------------
(* Remarks *)

\* A reply is coherent in itself.
LEMMA ReplyAsked ==
  ASSUME NEW lue \in Remarque, NEW statut, statut = "nouveau" \/ statut = "traite" \/ statut = NULL,
         NEW reponse, reponse \in Reponses \/ reponse = NULL \/ reponse = "absente", statut # NULL \/ reponse # "absente",
         NEW n \in Nat, NEW e, e = Traitee(lue, statut, reponse, n)
  PROVE  /\ e \in Remarque /\ e.updated_at = n
         /\ e.reponse # NULL /\ statut # "nouveau" => e.statut = "traite"
<1>1. NULL # "traite"
  BY TerrainAssumption
<1>3. /\ e.statut = IF statut # NULL THEN statut ELSE IF reponse \in Reponses THEN "traite" ELSE lue.statut
      /\ e.reponse = IF reponse = "absente" THEN lue.reponse ELSE reponse
      /\ e = [statut |-> e.statut, reponse |-> e.reponse, updated_at |-> n]
  BY DEF Traitee
<1>4. e.statut \in {"nouveau", "traite"} /\ e.reponse \in Reponses \cup {NULL}
  BY <1>3 DEF Remarque
<1>5. e \in Remarque /\ e.updated_at = n
  BY <1>3, <1>4 DEF Remarque
<1>6. ASSUME e.reponse # NULL, statut # "nouveau" PROVE e.statut = "traite"
  BY <1>1, <1>3, <1>6
<1>. QED
  BY <1>5, <1>6

\* update_remarque has loaded the remark.
LEMMA ReadReplyStep ==
  ASSUME TInv, UNCHANGED vars, NEW w \in Workers, NEW q \in Remarques,
         NEW statut \in {"nouveau", "traite", NULL}, NEW reponse \in Reponses \cup {NULL, "absente"},
         ReadReply(w, q, statut, reponse)
  PROVE  TInv'
<1>1. PICK e : e = Traitee(remarques[q], statut, reponse, nt + 1)
  OBVIOUS
<1>2. PICK d : d = [op |-> "reply", remarque |-> q, statut |-> statut, reponse |-> reponse,
                    lue |-> remarques[q], envoyee |-> e]
  OBVIOUS
<1>3. /\ Arrivee(w, d) /\ UNCHANGED answers /\ UNCHANGED files
      /\ remarques[q] # NULL /\ (statut # NULL \/ reponse # "absente")
  BY <1>1, <1>2 DEF ReadReply
<1>4. nt + 1 \in Nat /\ remarques[q] \in Remarque
  BY <1>3 DEF TInv, Times, RowsOK, OtherRows
<1>5. /\ e \in Remarque /\ e.updated_at = nt + 1
      /\ e.reponse # NULL /\ statut # "nouveau" => e.statut = "traite"
  <2>1. PICK lue : lue = remarques[q]
    OBVIOUS
  <2>2. PICK n : n = nt + 1
    OBVIOUS
  <2>3. lue \in Remarque /\ n \in Nat /\ e = Traitee(lue, statut, reponse, n)
    BY <1>1, <1>4, <2>1, <2>2
  <2>4. /\ e \in Remarque /\ e.updated_at = n
        /\ e.reponse # NULL /\ statut # "nouveau" => e.statut = "traite"
    <3>1. statut = "nouveau" \/ statut = "traite" \/ statut = NULL
      OBVIOUS
    <3>2. reponse \in Reponses \/ reponse = NULL \/ reponse = "absente"
      OBVIOUS
    <3>. QED
      BY <1>3, <2>3, <3>1, <3>2, ReplyAsked
  <2>. QED
    BY <2>2, <2>4
<1>6. Asked(d) /\ d.envoyee.updated_at = nt + 1
  BY <1>2, <1>3, <1>5 DEF Asked
<1>7. d.lue # NULL => InUse(d.lue.updated_at)
  BY <1>2 DEF InUse
<1>8. d.op = "reply" /\ d.lue = remarques[d.remarque]
  BY <1>2
<1>9. FilesThere' /\ documents' \cup entamees' \subseteq Documents
  BY <1>3, <1>8, FilesArrivee DEF TInv, RowsOK, OtherRows, files
<1>. QED
  BY <1>3, <1>6, <1>7, <1>8, <1>9, ArriveeStep

\* The row after a reply.
LEMMA ReplyStored ==
  ASSUME NEW row \in Remarque, NEW lue, NEW envoyee \in Remarque,
         lue.updated_at # envoyee.updated_at
  PROVE  /\ Ecrite(row, lue, envoyee) \in Remarque
         /\ Ecrite(row, lue, envoyee).updated_at = envoyee.updated_at
         /\ row = lue => Ecrite(row, lue, envoyee) = envoyee
<1>1. PICK x : x = Ecrite(row, lue, envoyee)
  OBVIOUS
<1>2. DOMAIN envoyee = {"statut", "reponse", "updated_at"}
  BY DEF Remarque
<1>3. x = [statut |-> x.statut, reponse |-> x.reponse, updated_at |-> x.updated_at]
  BY <1>1, <1>2 DEF Ecrite
<1>4. \A k \in DOMAIN envoyee : x[k] = IF envoyee[k] = lue[k] THEN row[k] ELSE envoyee[k]
  BY <1>1 DEF Ecrite
<1>5. /\ x.statut \in {envoyee.statut, row.statut} /\ x.reponse \in {envoyee.reponse, row.reponse}
      /\ x.updated_at = envoyee.updated_at
  BY <1>2, <1>4
<1>6. x \in Remarque
  BY <1>3, <1>5 DEF Remarque
<1>7. ASSUME row = lue PROVE x = envoyee
  <2>1. x.statut = envoyee.statut /\ x.reponse = envoyee.reponse
    BY <1>2, <1>4, <1>7
  <2>2. envoyee = [statut |-> envoyee.statut, reponse |-> envoyee.reponse, updated_at |-> envoyee.updated_at]
    BY DEF Remarque
  <2>. QED
    BY <1>3, <1>5, <2>1, <2>2
<1>. QED
  BY <1>1, <1>5, <1>6, <1>7

\* update_remarque commits.
LEMMA CommitReplyStep ==
  ASSUME TInv, UNCHANGED vars, NEW w \in Workers, CommitReply(w)
  PROVE  TInv'
<1>1. PICK d : d = dem[w]
  OBVIOUS
<1>2. PICK q : q = d.remarque
  OBVIOUS
<1>3. PICK row : row = remarques[q]
  OBVIOUS
<1>4. PICK x : x = Ecrite(row, d.lue, d.envoyee)
  OBVIOUS
<1>5. /\ d.op = "reply" /\ remarques' = [remarques EXCEPT ![q] = x]
      /\ melees' = Croise(melees, q, row, d.lue)
      /\ rouvertes' = IF d.statut = "nouveau" THEN rouvertes \cup {q}
                      ELSE IF d.statut = "traite" \/ d.reponse \in Reponses THEN rouvertes \ {q}
                      ELSE rouvertes
      /\ Partie(w) /\ UNCHANGED <<admins, rapports, resolutions, croises>> /\ UNCHANGED files
  BY <1>1, <1>2, <1>3, <1>4 DEF CommitReply
<1>6. /\ q \in Remarques /\ d.lue # NULL /\ d.envoyee \in Remarque
      /\ d.envoyee.reponse # NULL /\ d.statut # "nouveau" => d.envoyee.statut = "traite"
  BY <1>1, <1>2, <1>5 DEF TInv, Demandes, Asked
<1>7. row # NULL /\ (row.updated_at = d.lue.updated_at => row = d.lue)
  BY <1>1, <1>2, <1>3, <1>5 DEF TInv, LoadedRemarks
<1>8. row \in Remarque
  BY <1>3, <1>6, <1>7 DEF TInv, RowsOK, OtherRows
<1>9. d.lue.updated_at # d.envoyee.updated_at
  <2>1. InUse(d.lue.updated_at)
    BY <1>1, <1>5, <1>6 DEF InUse, Dated
  <2>2. ~InUse(d.envoyee.updated_at)
    BY <1>1, <1>5 DEF TInv, Times, Dated
  <2>. QED
    BY <2>1, <2>2
<1>10. x \in Remarque /\ x.updated_at = d.envoyee.updated_at /\ (row = d.lue => x = d.envoyee)
  BY <1>4, <1>6, <1>8, <1>9, ReplyStored
<1>11. remarques \in [Remarques -> Remarque \cup {NULL}]
  BY DEF TInv, RowsOK, OtherRows
<1>12. \A y \in Remarques : remarques'[y] = IF y = q THEN x ELSE remarques[y]
  BY <1>5, <1>6, <1>11
<1>13. remarques' \in [Remarques -> Remarque \cup {NULL}]
  BY <1>5, <1>6, <1>10, <1>11
<1>14. CoherentRemarks'
  <2> SUFFICES ASSUME NEW y \in Remarques, y \notin melees', y \notin rouvertes',
                      remarques'[y] # NULL, remarques'[y].reponse # NULL
               PROVE  remarques'[y].statut = "traite"
    BY DEF CoherentRemarks
  <2>1. CASE y = q
    <3>1. row.updated_at = d.lue.updated_at
      BY <1>5, <1>7, <2>1 DEF Croise
    <3>2. x = d.envoyee
      BY <1>7, <1>10, <3>1
    <3>3. d.statut # "nouveau"
      BY <1>5, <2>1
    <3>. QED
      BY <1>6, <1>12, <2>1, <3>2, <3>3
  <2>2. CASE y # q
    <3>1. y \notin melees /\ y \notin rouvertes
      BY <1>5, <2>2 DEF Croise
    <3>. QED
      BY <1>12, <2>2, <3>1 DEF TInv, RowsOK, CoherentRemarks
  <2>. QED
    BY <2>1, <2>2
<1>15. RowsOK'
  <2>1. ResolutionRows' /\ CoherentResolutions'
    BY <1>5 DEF TInv, RowsOK, ResolutionRows, CoherentResolutions, CoherentResolution, Departs, vars
  <2>2. OtherRows'
    BY <1>5, <1>13 DEF TInv, RowsOK, OtherRows, vars, files
  <2>. QED
    BY <1>14, <2>1, <2>2 DEF RowsOK
<1>16. FilesThere'
  BY <1>5, FilesPartie DEF files
<1>17. \A y \in Remarques : remarques'[y] # remarques[y] =>
         Dated(dem[w]) /\ remarques'[y] # NULL /\ remarques'[y].updated_at = dem[w].envoyee.updated_at
  BY <1>1, <1>5, <1>10, <1>12, NullIsNoRow DEF Dated
<1>. QED
  BY <1>5, <1>15, <1>16, <1>17, PartieStep

-----------------------------------------------------------------------------
(* What is over at once *)

\* The answers to difficulties stay, as far as their reports do.
LEMMA ReportsStep ==
  ASSUME TInv, IInv', UNCHANGED dem, nt' \in {nt, nt + 1}, UNCHANGED <<presents, admins>>,
         UNCHANGED <<remarques, croises, melees, rouvertes>>, UNCHANGED files,
         rapports' \in [Rapports -> (Auteurs \cap presents) \cup {NULL}],
         resolutions' = [r \in Rapports |-> [l \in Libelles |-> resolutions'[r][l]]],
         \A r \in Rapports, l \in Libelles : resolutions'[r][l] # NULL =>
           resolutions'[r][l] = resolutions[r][l] /\ rapports'[r] # NULL
  PROVE  TInv'
<1>1. ResolutionRows'
  BY DEF TInv, RowsOK, ResolutionRows
<1>2. CoherentResolutions'
  BY DEF TInv, RowsOK, CoherentResolutions, CoherentResolution, Departs
<1>3. OtherRows' /\ CoherentRemarks'
  BY DEF TInv, RowsOK, OtherRows, CoherentRemarks, files
<1>4. FilesThere'
  BY DEF TInv, FilesThere, Uploading, files
<1>. QED
  BY <1>1, <1>2, <1>3, <1>4, TableStep DEF RowsOK

\* submit_rapport_journalier and delete_rapport_journalier.
LEMMA SubmitStep ==
  ASSUME TInv, UNCHANGED vars, NEW u \in Auteurs, NEW x \in Rapports, Submit(u, x) \/ DeleteRapport(u, x)
  PROVE  TInv'
<1>1. IInv' /\ presents' = presents
  BY SupervisionKept DEF TInv, vars
<1>2. rapports \in [Rapports -> (Auteurs \cap presents) \cup {NULL}]
  BY DEF TInv, RowsOK, OtherRows
<1>3. resolutions = [r \in Rapports |-> [l \in Libelles |-> resolutions[r][l]]]
  BY DEF TInv, RowsOK, ResolutionRows
<1>4. \A r \in Rapports, l \in Libelles : resolutions[r][l] # NULL => rapports[r] # NULL
  BY DEF TInv, RowsOK, ResolutionRows
<1>5. NULL \notin Auteurs
  BY TerrainAssumption DEF Auteurs
<1>6. CASE Submit(u, x)
  <2>1. /\ u \in presents /\ rapports' = [rapports EXCEPT ![x] = u] /\ nt' = nt + 1
        /\ UNCHANGED <<admins, resolutions, remarques, croises, melees, rouvertes>> /\ UNCHANGED files /\ UNCHANGED dem
    BY <1>6 DEF Submit
  <2>2. rapports' \in [Rapports -> (Auteurs \cap presents) \cup {NULL}]
    BY <1>2, <2>1
  <2>3. \A r \in Rapports : rapports'[r] = IF r = x THEN u ELSE rapports[r]
    BY <1>2, <2>1
  <2>. QED
    BY <1>1, <1>3, <1>4, <1>5, <2>1, <2>2, <2>3, ReportsStep
<1>7. CASE DeleteRapport(u, x)
  <2>1. PICK vide : vide = [l \in Libelles |-> NULL]
    OBVIOUS
  <2>2. /\ rapports' = [rapports EXCEPT ![x] = NULL] /\ resolutions' = [resolutions EXCEPT ![x] = vide]
        /\ nt' = nt + 1
        /\ UNCHANGED <<admins, remarques, croises, melees, rouvertes>> /\ UNCHANGED files /\ UNCHANGED dem
    BY <1>7, <2>1 DEF DeleteRapport
  <2>3. /\ \A r \in Rapports : rapports'[r] = IF r = x THEN NULL ELSE rapports[r]
        /\ rapports' \in [Rapports -> (Auteurs \cap presents) \cup {NULL}]
    BY <1>2, <2>2
  <2>4. \A r \in Rapports : resolutions'[r] = IF r = x THEN vide ELSE resolutions[r]
    BY <1>3, <2>2
  <2>5. \A r \in Rapports : resolutions'[r] = [l \in Libelles |-> resolutions'[r][l]]
    <3>1. \A r \in Rapports : resolutions[r] = [l \in Libelles |-> resolutions[r][l]]
      BY <1>3
    <3> SUFFICES ASSUME NEW r \in Rapports PROVE resolutions'[r] = [l \in Libelles |-> resolutions'[r][l]]
      OBVIOUS
    <3>2. CASE r = x
      BY <2>1, <2>4, <3>2
    <3>3. CASE r # x
      BY <2>4, <3>1, <3>3
    <3>. QED
      BY <3>2, <3>3
  <2>6. resolutions' = [r \in Rapports |-> resolutions'[r]]
    BY <1>3, <2>2
  <2>7. resolutions' = [r \in Rapports |-> [l \in Libelles |-> resolutions'[r][l]]]
    BY <2>5, <2>6
  <2>8. \A r \in Rapports, l \in Libelles : resolutions'[r][l] # NULL =>
          resolutions'[r][l] = resolutions[r][l] /\ rapports'[r] # NULL
    BY <1>4, <2>1, <2>3, <2>4
  <2>. QED
    BY <1>1, <2>2, <2>3, <2>7, <2>8, ReportsStep
<1>. QED
  BY <1>6, <1>7

\* create_remarque.
LEMMA CreateRemarqueStep ==
  ASSUME TInv, UNCHANGED vars, NEW q \in Remarques, CreateRemarque(q)
  PROVE  TInv'
<1>1. PICK x : x = [statut |-> "nouveau", reponse |-> NULL, updated_at |-> nt']
  OBVIOUS
<1>2. /\ remarques[q] = NULL /\ nt' = nt + 1 /\ remarques' = [remarques EXCEPT ![q] = x]
      /\ UNCHANGED <<admins, rapports, resolutions, croises, melees, rouvertes>> /\ UNCHANGED files /\ UNCHANGED dem
  BY <1>1 DEF CreateRemarque
<1>3. remarques \in [Remarques -> Remarque \cup {NULL}] /\ nt + 1 \in Nat
  BY DEF TInv, RowsOK, OtherRows, Times
<1>4. x \in Remarque
  BY <1>1, <1>2, <1>3 DEF Remarque
<1>5. \A y \in Remarques : remarques'[y] = IF y = q THEN x ELSE remarques[y]
  BY <1>2, <1>3
<1>6. IInv' /\ presents' = presents
  BY SupervisionKept DEF TInv, vars
<1>7. ResolutionRows' /\ CoherentResolutions'
  BY <1>2, <1>6 DEF TInv, RowsOK, ResolutionRows, CoherentResolutions, CoherentResolution, Departs
<1>8. OtherRows'
  <2>1. remarques' \in [Remarques -> Remarque \cup {NULL}]
    BY <1>2, <1>3, <1>4
  <2>. QED
    BY <1>2, <1>6, <2>1 DEF TInv, RowsOK, OtherRows, files
<1>9. CoherentRemarks'
  BY <1>1, <1>2, <1>5 DEF TInv, RowsOK, CoherentRemarks
<1>10. FilesThere'
  BY <1>2 DEF TInv, FilesThere, Uploading, files
<1>11. \A y \in Remarques : remarques'[y] # remarques[y] =>
         remarques[y] = NULL /\ remarques'[y].updated_at = nt + 1 /\ nt' = nt + 1
  BY <1>1, <1>2, <1>5
<1>. QED
  BY <1>2, <1>6, <1>7, <1>8, <1>9, <1>10, <1>11, TableStep DEF RowsOK

\* An account u is gone, of either kind: its name is emptied in the rows that stay.
LEMMA NamesEmptied ==
  ASSUME TInv, IInv', UNCHANGED dem, nt' \in {nt, nt + 1},
         NEW u, presents' \subseteq presents, admins' \subseteq admins, u \notin presents' \cup admins',
         presents \cup admins \subseteq presents' \cup admins' \cup {u},
         UNCHANGED <<remarques, croises, melees, rouvertes>>, UNCHANGED files,
         rapports' \in [Rapports -> (Auteurs \cap presents') \cup {NULL}],
         resolutions' = [r \in Rapports |-> [l \in Libelles |-> resolutions'[r][l]]],
         \A r \in Rapports, l \in Libelles : resolutions'[r][l] # NULL =>
           /\ rapports'[r] # NULL /\ resolutions[r][l] # NULL
           /\ resolutions'[r][l] = SansNom(resolutions[r][l], u)
  PROVE  TInv'
<1>1. u \in Superviseurs \cup Admins => Departs'
  BY DEF Departs
<1>2. admins \subseteq Admins
  BY DEF TInv, RowsOK, OtherRows
<1>3. \A r \in Rapports, l \in Libelles : resolutions'[r][l] # NULL =>
        /\ resolutions[r][l] # NULL /\ resolutions'[r][l] \in Resolution
        /\ resolutions'[r][l].updated_at = resolutions[r][l].updated_at
        /\ resolutions'[r][l].resolue = resolutions[r][l].resolue
        /\ resolutions'[r][l].resolue_le = resolutions[r][l].resolue_le
        /\ resolutions'[r][l].resolue_par # resolutions[r][l].resolue_par =>
             resolutions'[r][l].resolue_par = NULL /\ Departs'
        /\ rapports'[r] # NULL /\ resolutions'[r][l].resolue_par \in presents' \cup admins' \cup {NULL}
  <2> SUFFICES ASSUME NEW r \in Rapports, NEW l \in Libelles, resolutions'[r][l] # NULL
               PROVE  /\ resolutions[r][l] # NULL /\ resolutions'[r][l] \in Resolution
                      /\ resolutions'[r][l].updated_at = resolutions[r][l].updated_at
                      /\ resolutions'[r][l].resolue = resolutions[r][l].resolue
                      /\ resolutions'[r][l].resolue_le = resolutions[r][l].resolue_le
                      /\ resolutions'[r][l].resolue_par # resolutions[r][l].resolue_par =>
                           resolutions'[r][l].resolue_par = NULL /\ Departs'
                      /\ rapports'[r] # NULL
                      /\ resolutions'[r][l].resolue_par \in presents' \cup admins' \cup {NULL}
    OBVIOUS
  <2>1. PICK row : row = resolutions[r][l]
    OBVIOUS
  <2>2. PICK x : x = resolutions'[r][l]
    OBVIOUS
  <2>3. row # NULL /\ rapports'[r] # NULL /\ x = SansNom(row, u)
    BY <2>1, <2>2
  <2>4. row \in Resolution /\ row.resolue_par \in presents \cup admins \cup {NULL}
    BY <2>1, <2>3 DEF TInv, RowsOK, ResolutionRows
  <2>5. CASE row.resolue_par = u
    <3>1. x = [resolue |-> row.resolue, resolue_par |-> NULL, resolue_le |-> row.resolue_le,
               updated_at |-> row.updated_at]
      BY <2>3, <2>4, <2>5 DEF SansNom, Resolution
    <3>2. x \in Resolution
      BY <2>4, <3>1 DEF Resolution
    <3>3. u \in Superviseurs \cup Admins \/ u = NULL
      BY <2>4, <2>5 DEF Resolution
    <3>4. x.resolue_par # row.resolue_par => Departs'
      BY <1>1, <2>5, <3>1, <3>3
    <3>. QED
      BY <2>1, <2>2, <2>3, <2>4, <3>1, <3>2, <3>4
  <2>6. CASE row.resolue_par # u
    <3>1. x = row
      BY <2>3, <2>6 DEF SansNom
    <3>. QED
      BY <2>1, <2>2, <2>3, <2>4, <2>6, <3>1
  <2>. QED
    BY <2>5, <2>6
<1>4. ResolutionRows'
  BY <1>3 DEF ResolutionRows, Resolution
<1>5. CoherentResolutions'
  <2> SUFFICES ASSUME NEW r \in Rapports, NEW l \in Libelles, resolutions'[r][l] # NULL,
                      <<r, l>> \notin croises
               PROVE  CoherentResolution(resolutions[r][l])'
    BY DEF CoherentResolutions
  <2>1. CoherentResolution(resolutions[r][l])
    BY <1>3 DEF TInv, RowsOK, CoherentResolutions
  <2>2. Departs => Departs'
    BY DEF Departs
  <2>. QED
    BY <1>3, <2>1, <2>2 DEF CoherentResolution
<1>6. OtherRows' /\ CoherentRemarks'
  BY <1>2 DEF TInv, RowsOK, OtherRows, CoherentRemarks, files
<1>7. FilesThere'
  BY DEF TInv, FilesThere, Uploading, files
<1>. QED
  BY <1>3, <1>4, <1>5, <1>6, <1>7, TableStep DEF RowsOK

\* delete_user of a teacher or a supervisor: the reports go with the author.
LEMMA DeleteAccountStep ==
  ASSUME TInv, NEW u \in presents, DeleteAccount(u)
  PROVE  TInv'
<1>1. presents' = presents \ {u} /\ IInv'
  BY DeleteStep DEF TInv, DeleteAccount, Delete
<1>2. /\ rapports' = [r \in Rapports |-> IF rapports[r] = u THEN NULL ELSE rapports[r]]
      /\ UNCHANGED <<admins, remarques, croises, melees, rouvertes, dem, nt>> /\ UNCHANGED files
  BY DEF DeleteAccount
<1>3. \A r \in Rapports, l \in Libelles :
        resolutions'[r][l] = IF rapports[r] = u THEN NULL ELSE SansNom(resolutions[r][l], u)
  BY DEF DeleteAccount
<1>4. resolutions' = [r \in Rapports |-> [l \in Libelles |-> resolutions'[r][l]]]
  BY DEF DeleteAccount
<1>5. u \notin admins
  BY TerrainAssumption DEF TInv, IInv, TypeOK, RowsOK, OtherRows
<1>6. rapports' \in [Rapports -> (Auteurs \cap presents') \cup {NULL}]
  BY <1>1, <1>2 DEF TInv, RowsOK, OtherRows
<1>7. \A r \in Rapports, l \in Libelles : resolutions'[r][l] # NULL =>
        /\ rapports'[r] # NULL /\ resolutions[r][l] # NULL
        /\ resolutions'[r][l] = SansNom(resolutions[r][l], u)
  <2> SUFFICES ASSUME NEW r \in Rapports, NEW l \in Libelles, resolutions'[r][l] # NULL
               PROVE  /\ rapports'[r] # NULL /\ resolutions[r][l] # NULL
                      /\ resolutions'[r][l] = SansNom(resolutions[r][l], u)
    OBVIOUS
  <2>1. rapports[r] # u /\ resolutions'[r][l] = SansNom(resolutions[r][l], u)
    BY <1>3
  <2>2. resolutions[r][l] # NULL
    BY <2>1 DEF SansNom
  <2>3. rapports[r] # NULL
    BY <2>2 DEF TInv, RowsOK, ResolutionRows
  <2>. QED
    BY <1>2, <2>1, <2>2, <2>3
<1>. QED
  BY <1>1, <1>2, <1>4, <1>5, <1>6, <1>7, NamesEmptied

\* delete_user of an account of the dashboard.
LEMMA DeleteAdminStep ==
  ASSUME TInv, UNCHANGED vars, NEW u \in Admins, DeleteAdmin(u)
  PROVE  TInv'
<1>1. IInv' /\ presents' = presents
  BY SupervisionKept DEF TInv, vars
<1>2. /\ admins' = admins \ {u} /\ nt' = nt + 1
      /\ UNCHANGED <<rapports, remarques, croises, melees, rouvertes, dem>> /\ UNCHANGED files
  BY DEF DeleteAdmin
<1>3. \A r \in Rapports, l \in Libelles : resolutions'[r][l] = SansNom(resolutions[r][l], u)
  BY DEF DeleteAdmin
<1>4. resolutions' = [r \in Rapports |-> [l \in Libelles |-> resolutions'[r][l]]]
  BY DEF DeleteAdmin
<1>5. u \notin presents
  BY TerrainAssumption DEF TInv, IInv, TypeOK
<1>6. rapports' \in [Rapports -> (Auteurs \cap presents') \cup {NULL}]
  BY <1>1, <1>2 DEF TInv, RowsOK, OtherRows
<1>7. \A r \in Rapports, l \in Libelles : resolutions'[r][l] # NULL =>
        /\ rapports'[r] # NULL /\ resolutions[r][l] # NULL
        /\ resolutions'[r][l] = SansNom(resolutions[r][l], u)
  <2>1. \A r \in Rapports, l \in Libelles : resolutions'[r][l] # NULL => resolutions[r][l] # NULL
    BY <1>3 DEF SansNom
  <2>. QED
    BY <1>2, <1>3, <2>1 DEF TInv, RowsOK, ResolutionRows
<1>. QED
  BY <1>1, <1>2, <1>4, <1>5, <1>6, <1>7, NamesEmptied

\* A step of Supervision that deletes nobody.
LEMMA StepsStep ==
  ASSUME TInv, Steps, UNCHANGED field
  PROVE  TInv'
<1>1. IInv'
  BY NextHolds DEF TInv, Next
<1>2. presents' = presents
  BY DEF Steps, ReadAssign, ReadLot, ReadMove, Arrive, CommitAssign, CommitMove, CommitLot, Rollback,
     Done, MoveSuperviseur, ToggleStatus
<1>3. UNCHANGED answers /\ UNCHANGED files /\ UNCHANGED <<dem, nt>>
  BY DEF field
<1>4. rapports \in [Rapports -> (Auteurs \cap presents) \cup {NULL}]
  BY DEF TInv, RowsOK, OtherRows
<1>5. resolutions = [r \in Rapports |-> [l \in Libelles |-> resolutions[r][l]]]
  BY DEF TInv, RowsOK, ResolutionRows
<1>6. \A r \in Rapports, l \in Libelles : resolutions[r][l] # NULL => rapports[r] # NULL
  BY DEF TInv, RowsOK, ResolutionRows
<1>. QED
  BY <1>1, <1>2, <1>3, <1>4, <1>5, <1>6, ReportsStep DEF answers

-----------------------------------------------------------------------------
(* Terrain implements Supervision *)

\* A request of the field beside leaves the tables of Supervision as they are, and an
\* account is deleted as there.
LEMMA FieldStepImplements ==
  ASSUME [TerrainNext]_<<vars, field>>
  PROVE  [Next]_vars
<1>1. CASE Steps
  BY <1>1 DEF Next
<1>2. CASE \E u \in presents : DeleteAccount(u)
  BY <1>2 DEF DeleteAccount, Next
<1>3. CASE UNCHANGED vars
  BY <1>3
<1>. QED
  BY <1>1, <1>2, <1>3 DEF TerrainNext

\* Reports, answers, remarks and documents take nothing from Supervision: what is
\* composed with them behaves as the module alone.
THEOREM FieldImplementsSupervision == TerrainSpec => Spec
<1>1. TerrainInit => Init
  BY DEF TerrainInit
<1>2. [TerrainNext]_<<vars, field>> => [Next]_vars
  BY FieldStepImplements
<1>. QED
  BY <1>1, <1>2, PTL DEF TerrainSpec, Spec

\* What get_supervised_teacher_ids answers, with all that comes in from the field.
THEOREM FieldFollowsAssigned == TerrainSpec => []FollowsAssigned
  BY FieldImplementsSupervision, AssignedAreFollowed, PTL

\* Batches are whole, with all that comes in from the field.
THEOREM FieldBatchesAreWhole == TerrainSpec => BatchStoredWhole
  BY FieldImplementsSupervision, BatchesAreWhole, PTL

-----------------------------------------------------------------------------
(* The theorems *)

\* At first there is nothing, and nobody is asking.
LEMMA FieldInit ==
  ASSUME TerrainInit
  PROVE  TInv
<1>1. IInv
  BY InitHolds DEF TerrainInit
<1>2. Libre.op = "libre"
  BY DEF Libre
<1>3. Demandes
  BY <1>2 DEF TerrainInit, Demandes, Asked
<1>4. ResolutionRows /\ OtherRows /\ CoherentResolutions /\ CoherentRemarks
  BY DEF TerrainInit, ResolutionRows, OtherRows, CoherentResolutions, CoherentRemarks
<1>5. \A w \in Workers : dem[w].op = "libre"
  BY <1>2 DEF TerrainInit
<1>6. \A n : ~InUse(n)
  BY <1>5 DEF TerrainInit, InUse, Dated
<1>7. Times
  BY <1>5, <1>6 DEF TerrainInit, Times, Dated
<1>8. LoadedResolutions /\ LoadedRemarks
  BY <1>5 DEF LoadedResolutions, LoadedRemarks
<1>9. FilesThere
  BY <1>5 DEF TerrainInit, FilesThere, Uploading
<1>. QED
  BY <1>1, <1>3, <1>4, <1>7, <1>8, <1>9 DEF TInv, RowsOK

\* Every step keeps the invariant.
LEMMA FieldNext ==
  ASSUME TInv, TerrainNext
  PROVE  TInv'
<1>1. CASE Steps /\ UNCHANGED field
  BY <1>1, StepsStep
<1>2. CASE \E u \in presents : DeleteAccount(u)
  BY <1>2, DeleteAccountStep
<1>3. CASE FieldStep /\ UNCHANGED vars
  <2>0. CASE \E u \in Admins : DeleteAdmin(u)
    BY <1>3, <2>0, DeleteAdminStep
  <2>1. CASE \E u \in Auteurs, r \in Rapports : Submit(u, r) \/ DeleteRapport(u, r)
    BY <1>3, <2>1, SubmitStep
  <2>2. CASE \E q \in Remarques : CreateRemarque(q)
    BY <1>3, <2>2, CreateRemarqueStep
  <2>3. CASE \E w \in Workers, u \in Superviseurs \cup Admins, r \in Rapports, l \in Libelles, b \in BOOLEAN :
               ReadResolve(w, u, r, l, b)
    BY <1>3, <2>3, ReadResolveStep
  <2>4. CASE \E w \in Workers, q \in Remarques, statut \in {"nouveau", "traite", NULL},
               reponse \in Reponses \cup {NULL, "absente"} : ReadReply(w, q, statut, reponse)
    BY <1>3, <2>4, ReadReplyStep
  <2>5. CASE \E w \in Workers, d \in Documents : WriteFile(w, d) \/ Unlink(w, d)
    BY <1>3, <2>5, WriteFileStep, UnlinkStep
  <2>6. CASE \E w \in Workers : CommitResolve(w)
    BY <1>3, <2>6, CommitResolveStep
  <2>7. CASE \E w \in Workers : CommitReply(w)
    BY <1>3, <2>7, CommitReplyStep
  <2>8. CASE \E w \in Workers : CommitUpload(w) \/ CommitDelete(w) \/ Abandon(w)
    BY <1>3, <2>8, DocumentSteps
  <2>. QED
    BY <1>3, <2>0, <2>1, <2>2, <2>3, <2>4, <2>5, <2>6, <2>7, <2>8 DEF FieldStep
<1>. QED
  BY <1>1, <1>2, <1>3 DEF TerrainNext

\* The invariant of rows, dates and files is inductive.
THEOREM FieldInvariant == TerrainSpec => []TInv
<1>1. TerrainInit => TInv
  BY FieldInit
<1>2. TInv /\ [TerrainNext]_<<vars, field>> => TInv'
  <2> SUFFICES ASSUME TInv, [TerrainNext]_<<vars, field>> PROVE TInv'
    OBVIOUS
  <2>1. CASE UNCHANGED <<vars, field>>
    <3>1. UNCHANGED vars /\ UNCHANGED field
      BY <2>1
    <3>2. UNCHANGED <<dem, nt>> /\ UNCHANGED answers /\ UNCHANGED files
      BY <3>1 DEF field
    <3>3. presents' = presents /\ IInv'
      BY <3>1, SupervisionKept DEF TInv, vars
    <3>4. rapports \in [Rapports -> (Auteurs \cap presents) \cup {NULL}]
      BY DEF TInv, RowsOK, OtherRows
    <3>5. resolutions = [r \in Rapports |-> [l \in Libelles |-> resolutions[r][l]]]
      BY DEF TInv, RowsOK, ResolutionRows
    <3>6. \A r \in Rapports, l \in Libelles : resolutions[r][l] # NULL => rapports[r] # NULL
      BY DEF TInv, RowsOK, ResolutionRows
    <3>. QED
      BY <3>2, <3>3, <3>4, <3>5, <3>6, ReportsStep DEF answers
  <2>. QED
    BY <2>1, FieldNext
<1>. QED
  BY <1>1, <1>2, PTL DEF TerrainSpec

\* Types, and no resolution without a report or by an account that is gone.
THEOREM FieldTypes == TerrainSpec => []TypesOK
<1>1. TInv => TypesOK
  BY DEF TInv, IInv, RowsOK, ResolutionRows, OtherRows, TypesOK
<1>. QED
  BY <1>1, FieldInvariant, PTL

\* set_resolution and update_remarque leave coherent rows, unless two answers crossed.
THEOREM FieldAnswers == TerrainSpec => []AnswersCoherent
<1>1. TInv => AnswersCoherent
  BY DEF TInv, RowsOK, CoherentResolutions, CoherentResolution, CoherentRemarks, AnswersCoherent
<1>. QED
  BY <1>1, FieldInvariant, PTL

\* download_document finds the file of every row whose deletion has not begun.
THEOREM FieldFiles == TerrainSpec => []ListedCanBeDownloaded
<1>1. TInv => ListedCanBeDownloaded
  BY DEF TInv, RowsOK, OtherRows, FilesThere, ListedCanBeDownloaded, Telecharge, Fichier
<1>. QED
  BY <1>1, FieldInvariant, PTL
=============================================================================
