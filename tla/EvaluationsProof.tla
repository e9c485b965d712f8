-------------------------- MODULE EvaluationsProof --------------------------
(***************************************************************************)
(* Theorems about module Evaluations, for every set of pupils, subjects,   *)
(* draws, supervisors and workers, and every number of days.               *)
(***************************************************************************)
EXTENDS Evaluations, TLAPS

-----------------------------------------------------------------------------
(* The inductive invariant *)

\* The fields of a request, by the step it has reached.
Typed(r) ==
  /\ r.op \in {"create", "retirage"} => r.sujet \in Sujets /\ r.eleves \subseteq Eleves
  /\ r.op \in {"loaded", "submit"} =>
       r.tirage \in Tirages /\ r.resultat \in Resultats /\ r.audio \in BOOLEAN
  /\ r.op = "submit" => r.jour \in Days /\ r.cible = r.jour
  /\ r.op = "presences" => r.present \in BOOLEAN

\* What a submission may rely on, whatever was committed since it loaded the draw: its
\* key is not drawn again, and unless the draw is gone its result, its day and its
\* recording have not become NULL.
Held(r) ==
  r.op \in {"loaded", "submit"} =>
    /\ r.tirage \notin cles
    /\ Exists(r.tirage) =>
         /\ r.loaded.resultat # NULL => tirages[r.tirage].resultat # NULL
         /\ r.loaded.date_eval # NULL => tirages[r.tirage].date_eval # NULL
    /\ r.loaded.audio \in BOOLEAN
    /\ r.loaded.audio \/ (r.op = "submit" /\ r.audio) => fichiers[r.tirage] # NULL

Requests ==
  /\ req = [w \in Workers |-> req[w]]
  /\ \A w \in Workers : Typed(req[w]) /\ Held(req[w])

\* A key is drawn once.
FreshKeys == \A t \in Tirages : Exists(t) => t \notin cles

\* A draw has a result exactly when its history has a row.
ResultIsDated == \A t \in Tirages : Exists(t) => (tirages[t].resultat # NULL <=> Dated(t))

IInv ==
  /\ ColumnsOK /\ Requests /\ FreshKeys
  /\ NoOrphans /\ ResultIsDated /\ ShownDayInHistory /\ RecordingStored

-----------------------------------------------------------------------------
(* What every step preserves for the requests under way *)

Advances ==
  /\ cles' \subseteq cles
  /\ \A t \in Tirages : fichiers[t] # NULL => fichiers'[t] # NULL
  /\ \A t \in Tirages : t \notin cles /\ Exists(t)' =>
       /\ Exists(t)
       /\ tirages[t].resultat # NULL => tirages'[t].resultat # NULL
       /\ tirages[t].date_eval # NULL => tirages'[t].date_eval # NULL

\* The other requests when one of them goes on, arrives or leaves.
LEMMA RequestsKept ==
  ASSUME IInv, Advances, NEW w \in Workers, NEW r, req' = [req EXCEPT ![w] = r],
         Typed(r), Held(r)'
  PROVE  Requests'
<1>1. \A v \in Workers : req'[v] = IF v = w THEN r ELSE req[v]
  BY DEF IInv, Requests
<1>2. req' = [v \in Workers |-> req'[v]]
  BY DEF IInv, Requests
<1>3. \A v \in Workers : Typed(req'[v])
  BY <1>1 DEF IInv, Requests
<1>4. \A v \in Workers : Held(req[v])'
  <2> SUFFICES ASSUME NEW v \in Workers PROVE Held(req[v])'
    OBVIOUS
  <2>1. CASE v = w
    BY <1>1, <2>1 DEF Held, Exists
  <2>2. CASE v # w
    <3>1. Typed(req[v]) /\ Held(req[v]) /\ req'[v] = req[v]
      BY <1>1, <2>2 DEF IInv, Requests
    <3>. QED
      BY <3>1 DEF Held, Typed, Advances, Exists
  <2>. QED
    BY <2>1, <2>2
<1>5. \A v \in Workers : Typed(req[v])'
  BY <1>3 DEF Typed
<1>. QED
  BY <1>2, <1>4, <1>5 DEF Requests

\* All of them when none does.
LEMMA AllRequestsKept ==
  ASSUME IInv, Advances, UNCHANGED req
  PROVE  Requests'
<1>1. \A v \in Workers : Typed(req[v]) /\ Held(req[v]) /\ req'[v] = req[v]
  BY DEF IInv, Requests
<1>2. \A v \in Workers : Held(req[v])'
  BY <1>1 DEF Held, Typed, Advances, Exists
<1>3. \A v \in Workers : Typed(req[v])'
  BY <1>1 DEF Typed
<1>. QED
  BY <1>2, <1>3 DEF IInv, Requests

\* What the tables keep, in one name.
Tables ==
  ColumnsOK /\ FreshKeys /\ NoOrphans /\ ResultIsDated /\ ShownDayInHistory /\ RecordingStored

\* A step that writes no table.
LEMMA TablesKept ==
  ASSUME IInv, UNCHANGED <<statut, sujets, tirages, resultats, fichiers, cles, jour>>
  PROVE  Tables' /\ Advances
  BY DEF IInv, Tables, ColumnsOK, FreshKeys, NoOrphans, ResultIsDated, ShownDayInHistory,
         RecordingStored, Advances, Exists, Dated

\* A request arrives.
LEMMA ArriveStep ==
  ASSUME IInv, NEW w \in Workers, NEW r, Arrive(w, r), Typed(r), Held(r)
  PROVE  IInv'
<1>1. Tables' /\ Advances
  BY TablesKept DEF Arrive
<1>2. Held(r)'
  BY DEF Held, Arrive, Exists
<1>3. Requests'
  BY <1>1, <1>2, RequestsKept DEF Arrive
<1>. QED
  BY <1>1, <1>3 DEF IInv, Tables

\* create_sujet has drawn the pupils.
LEMMA ReadCreateStep ==
  ASSUME IInv, NEW w \in Workers, NEW s \in Sujets, ReadCreate(w, s) \/ ReadRetirage(w, s)
  PROVE  IInv'
<1>1. PICK S \in SUBSET Eleves, op \in {"create", "retirage"} :
        Arrive(w, [op |-> op, sujet |-> s, eleves |-> S])
  BY DEF ReadCreate, ReadRetirage, RandomEleves
<1>2. PICK r : r = [op |-> op, sujet |-> s, eleves |-> S]
  OBVIOUS
<1>3. Typed(r) /\ Held(r) /\ Arrive(w, r)
  BY <1>1, <1>2 DEF Typed, Held
<1>. QED
  BY <1>3, ArriveStep

\* set_tirages_presence has loaded the draws.
LEMMA ReadPresencesStep ==
  ASSUME IInv, NEW w \in Workers, NEW s \in Superviseurs, NEW T \in SUBSET Tirages,
         NEW p \in Presences, ReadPresences(w, s, T, p)
  PROVE  IInv'
<1>1. PICK l : Arrive(w, [op |-> "presences", present |-> p, loaded |-> l])
  BY DEF ReadPresences
<1>2. PICK r : r = [op |-> "presences", present |-> p, loaded |-> l]
  OBVIOUS
<1>3. Typed(r) /\ Held(r) /\ Arrive(w, r)
  BY <1>1, <1>2, EvaluationsAssumption DEF Typed, Held
<1>. QED
  BY <1>3, ArriveStep

\* submit_tirage has loaded the draw and its dated history.
LEMMA ReadTirageStep ==
  ASSUME IInv, NEW w \in Workers, NEW s \in Superviseurs, NEW t \in Tirages,
         NEW x \in Resultats, NEW audio \in BOOLEAN, ReadTirage(w, s, t, x, audio)
  PROVE  IInv'
<1>1. PICK l : l = [c \in {"resultat", "date_eval", "audio"} |-> tirages[t][c]]
  OBVIOUS
<1>2. PICK r : r = [op |-> "loaded", tirage |-> t, resultat |-> x, audio |-> audio, loaded |-> l]
  OBVIOUS
<1>3. Arrive(w, r) /\ Exists(t)
  BY <1>1, <1>2 DEF ReadTirage, Owned
<1>4. tirages[t] \in Tirage /\ t \notin cles
  BY <1>3 DEF IInv, ColumnsOK, Exists, OrNull, FreshKeys
<1>5. /\ l.resultat = tirages[t].resultat /\ l.date_eval = tirages[t].date_eval
      /\ l.audio = tirages[t].audio
  BY <1>1
<1>6. l.audio \in BOOLEAN /\ (l.audio => fichiers[t] # NULL)
  BY <1>3, <1>4, <1>5 DEF IInv, RecordingStored, Tirage
<1>7. Typed(r)
  BY <1>2 DEF Typed
<1>8. Held(r)
  BY <1>2, <1>4, <1>5, <1>6 DEF Held
<1>. QED
  BY <1>3, <1>7, <1>8, ArriveStep

-----------------------------------------------------------------------------
(* Submissions *)

\* submit_tirage has the recording on the disk.
LEMMA StoreAudioStep ==
  ASSUME IInv, NEW w \in Workers, StoreAudio(w)
  PROVE  IInv'
<1>1. PICK r : r = req[w]
  OBVIOUS
<1>2. r.op = "loaded" /\ Typed(r) /\ Held(r)
  BY <1>1 DEF StoreAudio, IInv, Requests
<1>3. PICK t \in Tirages : t = r.tirage
  BY <1>2 DEF Typed
<1>4. PICK q : q = [op |-> "submit", tirage |-> t, resultat |-> r.resultat,
                    loaded |-> r.loaded, audio |-> r.audio, jour |-> jour,
                    cible |-> jour, existante |-> resultats[t][jour]]
  OBVIOUS
<1>5. /\ fichiers' = IF r.audio THEN [fichiers EXCEPT ![t] = jour] ELSE fichiers
      /\ req' = [req EXCEPT ![w] = q]
      /\ UNCHANGED <<statut, sujets, tirages, resultats, cles, jour>>
  BY <1>1, <1>3, <1>4 DEF StoreAudio, Stored, RowOf
<1>6. jour \in Days /\ jour # NULL /\ fichiers \in [Tirages -> OrNull(Days)] /\ r.audio \in BOOLEAN
  BY <1>2, EvaluationsAssumption DEF IInv, ColumnsOK, Days, Typed
<1>7. /\ fichiers' \in [Tirages -> OrNull(Days)]
      /\ \A u \in Tirages : fichiers[u] # NULL => fichiers'[u] # NULL
      /\ r.audio => fichiers'[t] # NULL
  <2>1. CASE r.audio
    BY <1>5, <1>6, <2>1 DEF OrNull
  <2>2. CASE ~r.audio
    BY <1>5, <1>6, <2>2
  <2>. QED
    BY <2>1, <2>2
<1>8. Advances
  BY <1>5, <1>7 DEF Advances, Exists
<1>9. Typed(q)
  BY <1>2, <1>3, <1>4, <1>6 DEF Typed
<1>10. Held(q)'
  BY <1>2, <1>3, <1>4, <1>5, <1>7 DEF Held, Exists
<1>11. Requests'
  BY <1>5, <1>8, <1>9, <1>10, RequestsKept
<1>12. ColumnsOK'
  BY <1>5, <1>7 DEF IInv, ColumnsOK
<1>13. RecordingStored'
  BY <1>5, <1>7 DEF IInv, RecordingStored, Exists
<1>14. FreshKeys' /\ NoOrphans' /\ ResultIsDated' /\ ShownDayInHistory'
  BY <1>5 DEF IInv, FreshKeys, NoOrphans, ResultIsDated, ShownDayInHistory, Exists, Dated
<1>. QED
  BY <1>11, <1>12, <1>13, <1>14 DEF IInv

\* A submission in what matters to the invariant: the draw keeps its pupil and its
\* subject and has a result of today, whose row is there; a recording is named by either
\* only when one is stored.
Submits(t, d, x, y) ==
  /\ x \in Tirage /\ y \in Resultat
  /\ x.sujet = tirages[t].sujet /\ x.eleve = tirages[t].eleve
  /\ x.resultat # NULL /\ x.date_eval # NULL /\ x.date_eval \in {d, tirages[t].date_eval}
  /\ x.audio \/ y.audio => fichiers[t] # NULL
  /\ tirages' = [tirages EXCEPT ![t] = x]
  /\ resultats' = [resultats EXCEPT ![t] = [@ EXCEPT ![d] = y]]

\* What a submission writes: the draw, and its day in the history.
LEMMA CommitSubmits ==
  ASSUME IInv, NEW w \in Workers, CommitSubmit(w)
  PROVE  \E t \in Tirages, d \in Days, x \in Tirage, y \in Resultat :
           /\ req[w].op = "submit" /\ req[w].tirage = t /\ req[w].jour = d
           /\ Exists(t) /\ Submits(t, d, x, y)
<1>1. PICK r : r = req[w]
  OBVIOUS
<1>2. r.op = "submit" /\ Typed(r) /\ Held(r)
  BY <1>1 DEF CommitSubmit, IInv, Requests
<1>3. PICK t \in Tirages, d \in Days : t = r.tirage /\ d = r.jour /\ r.cible = d
  BY <1>2 DEF Typed
<1>4. PICK o : o = tirages[t]
  OBVIOUS
<1>5. PICK z : z = resultats[t][d]
  OBVIOUS
<1>6. PICK y : y = DayRow(r, z)
  OBVIOUS
<1>7. PICK x : x = [o EXCEPT !.resultat = Flushed(@, r.loaded.resultat, r.resultat),
                             !.date_eval = Flushed(@, r.loaded.date_eval, d),
                             !.audio = IF r.audio THEN TRUE ELSE @]
  OBVIOUS
<1>8. /\ Exists(t)
      /\ (r.existante = NULL) = (z = NULL)
      /\ tirages' = [tirages EXCEPT ![t] = x]
      /\ resultats' = [resultats EXCEPT ![t] = [@ EXCEPT ![d] = y]]
  BY <1>1, <1>3, <1>4, <1>5, <1>6, <1>7 DEF CommitSubmit
<1>9. o \in Tirage /\ o # NULL
  BY <1>4, <1>8 DEF IInv, ColumnsOK, OrNull, Exists
<1>10. z \in OrNull(Resultat)
  BY <1>5 DEF IInv, ColumnsOK
<1>11. /\ r.loaded.resultat # NULL => o.resultat # NULL
       /\ r.loaded.date_eval # NULL => o.date_eval # NULL
       /\ r.loaded.audio \in BOOLEAN
       /\ r.loaded.audio \/ r.audio => fichiers[t] # NULL
       /\ r.audio \in BOOLEAN /\ r.resultat \in Resultats /\ r.resultat # NULL /\ d # NULL
  BY <1>2, <1>3, <1>4, <1>8, EvaluationsAssumption DEF Held, Typed, Days
<1>12. /\ x \in Tirage /\ x.sujet = o.sujet /\ x.eleve = o.eleve
       /\ x.resultat # NULL /\ x.date_eval # NULL /\ x.date_eval \in {d, o.date_eval}
       /\ x.audio => o.audio \/ r.audio
  <2>1. /\ x.sujet = o.sujet /\ x.eleve = o.eleve /\ x.present = o.present
        /\ x.resultat = Flushed(o.resultat, r.loaded.resultat, r.resultat)
        /\ x.date_eval = Flushed(o.date_eval, r.loaded.date_eval, d)
        /\ x.audio = IF r.audio THEN TRUE ELSE o.audio
    BY <1>7, <1>9 DEF Tirage
  <2>2. x.resultat \in {o.resultat, r.resultat} /\ x.resultat # NULL
    BY <2>1, <1>11 DEF Flushed
  <2>3. x.date_eval \in {o.date_eval, d} /\ x.date_eval # NULL
    BY <2>1, <1>11 DEF Flushed
  <2>4. x.resultat \in OrNull(Resultats) /\ x.date_eval \in OrNull(Days) /\ x.audio \in BOOLEAN
    BY <2>1, <2>2, <2>3, <1>9, <1>11 DEF Tirage, OrNull
  <2>5. x \in Tirage
    BY <2>4, <1>7, <1>9 DEF Tirage
  <2>. QED
    BY <2>1, <2>2, <2>3, <2>5
<1>13. y \in Resultat /\ (y.audio => r.audio \/ r.loaded.audio \/ (z # NULL /\ z.audio))
  <2>1. CASE r.existante = NULL
    BY <1>6, <1>11, <2>1 DEF DayRow, Resultat
  <2>2. CASE r.existante # NULL
    <3>1. z \in Resultat /\ z # NULL
      BY <1>8, <1>10, <2>2 DEF OrNull
    <3>2. Flushed(z.resultat, r.existante.resultat, r.resultat) \in Resultats
      BY <3>1, <1>11 DEF Flushed, Resultat
    <3>3. PICK a \in BOOLEAN :
            /\ a = (IF r.audio \/ r.loaded.audio THEN Flushed(z.audio, r.existante.audio, TRUE)
                    ELSE z.audio)
            /\ a => r.audio \/ r.loaded.audio \/ z.audio
      BY <3>1, <1>11 DEF Flushed, Resultat
    <3>4. y = [resultat |-> Flushed(z.resultat, r.existante.resultat, r.resultat), audio |-> a]
      BY <1>6, <2>2, <3>3 DEF DayRow
    <3>. QED
      BY <3>1, <3>2, <3>3, <3>4 DEF Resultat
  <2>. QED
    BY <2>1, <2>2
<1>14. x.audio \/ y.audio => fichiers[t] # NULL
  BY <1>4, <1>5, <1>8, <1>11, <1>12, <1>13 DEF IInv, RecordingStored
<1>15. Submits(t, d, x, y)
  BY <1>4, <1>8, <1>12, <1>13, <1>14 DEF Submits
<1>. QED
  BY <1>1, <1>2, <1>3, <1>8, <1>12, <1>13, <1>15

\* A request is over.
LEMMA DoneStep ==
  ASSUME IInv, Advances, Tables', NEW w \in Workers, Done(w)
  PROVE  IInv'
<1>1. PICK r : r = Idle
  OBVIOUS
<1>2. Typed(r) /\ Held(r)' /\ req' = [req EXCEPT ![w] = r]
  BY <1>1 DEF Typed, Held, Idle, Done
<1>. QED
  BY <1>2, RequestsKept DEF IInv, Tables

\* A submission commits.
LEMMA CommitSubmitStep ==
  ASSUME IInv, NEW w \in Workers, CommitSubmit(w)
  PROVE  IInv'
<1>1. PICK t \in Tirages, d \in Days, x \in Tirage, y \in Resultat : Exists(t) /\ Submits(t, d, x, y)
  BY CommitSubmits
<1>2. UNCHANGED <<statut, sujets, fichiers, cles, jour>> /\ Done(w)
  BY DEF CommitSubmit
<1>3. /\ tirages \in [Tirages -> OrNull(Tirage)]
      /\ resultats \in [Tirages -> [Days -> OrNull(Resultat)]]
  BY DEF IInv, ColumnsOK
<1>4. /\ x \in Tirage /\ y \in Resultat /\ x # NULL /\ y # NULL
      /\ x.sujet = tirages[t].sujet /\ x.eleve = tirages[t].eleve
      /\ x.resultat # NULL /\ x.date_eval # NULL /\ x.date_eval \in {d, tirages[t].date_eval}
      /\ x.audio \/ y.audio => fichiers[t] # NULL
  BY <1>1, RowsAssumption DEF Submits
<1>5. \A u \in Tirages : tirages'[u] = IF u = t THEN x ELSE tirages[u]
  BY <1>1, <1>3 DEF Submits
<1>6. \A u \in Tirages, b \in Days :
        resultats'[u][b] = IF u = t /\ b = d THEN y ELSE resultats[u][b]
  BY <1>1, <1>3 DEF Submits
<1>7. /\ tirages' \in [Tirages -> OrNull(Tirage)]
      /\ resultats' \in [Tirages -> [Days -> OrNull(Resultat)]]
  <2>1. resultats[t] \in [Days -> OrNull(Resultat)] /\ y \in OrNull(Resultat)
    BY <1>3, <1>4 DEF OrNull
  <2>2. [resultats[t] EXCEPT ![d] = y] \in [Days -> OrNull(Resultat)]
    BY <2>1
  <2>3. resultats' = [resultats EXCEPT ![t] = [resultats[t] EXCEPT ![d] = y]]
    BY <1>1, <1>3 DEF Submits
  <2>4. resultats' \in [Tirages -> [Days -> OrNull(Resultat)]]
    BY <1>3, <2>2, <2>3
  <2>5. tirages' \in [Tirages -> OrNull(Tirage)]
    BY <1>1, <1>3, <1>4 DEF Submits, OrNull
  <2>. QED
    BY <2>4, <2>5
<1>8. \A u \in Tirages : Exists(u)' <=> Exists(u)
  BY <1>1, <1>4, <1>5 DEF Exists
<1>9. Dated(t)' /\ \A u \in Tirages : u # t => (Dated(u)' <=> Dated(u))
  BY <1>4, <1>6 DEF Dated
<1>10. ColumnsOK'
  BY <1>2, <1>7 DEF IInv, ColumnsOK
<1>11. FreshKeys'
  BY <1>2, <1>8 DEF IInv, FreshKeys
<1>12. NoOrphans'
  <2>1. \A u \in Tirages : Exists(u)' => /\ tirages'[u].sujet = tirages[u].sujet
                                         /\ tirages'[u].eleve = tirages[u].eleve
    BY <1>4, <1>5
  <2>2. \A u \in Tirages : ~Exists(u)' => ~Dated(u)'
    BY <1>1, <1>8, <1>9 DEF IInv, NoOrphans
  <2>. QED
    BY <1>2, <1>8, <2>1, <2>2 DEF IInv, NoOrphans
<1>13. ResultIsDated'
  BY <1>4, <1>5, <1>8, <1>9 DEF IInv, ResultIsDated
<1>14. ShownDayInHistory'
  <2> SUFFICES ASSUME NEW u \in Tirages, Exists(u)', tirages'[u].date_eval # NULL
               PROVE  resultats'[u][tirages'[u].date_eval] # NULL
    BY DEF ShownDayInHistory
  <2>1. tirages'[u].date_eval \in Days
    BY <1>4, <1>5, <1>7 DEF OrNull, Tirage, Exists
  <2>2. CASE tirages'[u].date_eval = d /\ u = t
    BY <1>4, <1>6, <2>1, <2>2
  <2>3. CASE ~(tirages'[u].date_eval = d /\ u = t)
    <3>1. tirages'[u].date_eval = tirages[u].date_eval /\ Exists(u)
      BY <1>4, <1>5, <1>8, <2>3
    <3>2. resultats[u][tirages[u].date_eval] # NULL
      BY <3>1 DEF IInv, ShownDayInHistory
    <3>. QED
      BY <1>6, <2>1, <2>3, <3>1, <3>2
  <2>. QED
    BY <2>2, <2>3
<1>15. RecordingStored'
  <2> SUFFICES ASSUME NEW u \in Tirages, fichiers[u] = NULL
               PROVE  /\ Exists(u)' => ~tirages'[u].audio
                      /\ \A b \in Days : resultats'[u][b] # NULL => ~resultats'[u][b].audio
    BY <1>2 DEF RecordingStored
  <2>. QED
    BY <1>4, <1>5, <1>6, <1>8 DEF IInv, RecordingStored
<1>16. Advances
  BY <1>2, <1>4, <1>5, <1>8 DEF Advances
<1>. QED
  BY <1>2, <1>10, <1>11, <1>12, <1>13, <1>14, <1>15, <1>16, DoneStep DEF Tables

-----------------------------------------------------------------------------
(* Presences, draws and deletions *)

\* The absences of a day commit.
LEMMA CommitPresencesStep ==
  ASSUME IInv, NEW w \in Workers, CommitPresences(w)
  PROVE  IInv'
<1>1. PICK D, f : tirages' = [t \in Tirages |->
                    IF t \in D /\ Exists(t)
                    THEN [tirages[t] EXCEPT !.present = Flushed(@, f[t], req[w].present)]
                    ELSE tirages[t]]
  BY DEF CommitPresences
<1>2. UNCHANGED <<statut, sujets, resultats, fichiers, cles, jour>> /\ Done(w)
  BY DEF CommitPresences
<1>3. req[w].present \in BOOLEAN
  BY DEF CommitPresences, IInv, Requests, Typed
<1>4. \A t \in Tirages :
        /\ tirages'[t] \in OrNull(Tirage)
        /\ Exists(t)' <=> Exists(t)
        /\ Exists(t) => /\ tirages'[t].sujet = tirages[t].sujet
                        /\ tirages'[t].eleve = tirages[t].eleve
                        /\ tirages'[t].resultat = tirages[t].resultat
                        /\ tirages'[t].date_eval = tirages[t].date_eval
                        /\ tirages'[t].audio = tirages[t].audio
  <2> SUFFICES ASSUME NEW t \in Tirages
               PROVE  /\ tirages'[t] \in OrNull(Tirage)
                      /\ Exists(t)' <=> Exists(t)
                      /\ Exists(t) => /\ tirages'[t].sujet = tirages[t].sujet
                                      /\ tirages'[t].eleve = tirages[t].eleve
                                      /\ tirages'[t].resultat = tirages[t].resultat
                                      /\ tirages'[t].date_eval = tirages[t].date_eval
                                      /\ tirages'[t].audio = tirages[t].audio
    OBVIOUS
  <2>1. tirages[t] \in OrNull(Tirage)
    BY DEF IInv, ColumnsOK
  <2>2. CASE t \in D /\ Exists(t)
    <3>1. tirages[t] \in Tirage
      BY <2>1, <2>2 DEF OrNull, Exists
    <3>2. PICK p : p = Flushed(tirages[t].present, f[t], req[w].present)
      OBVIOUS
    <3>3. p \in OrNull(BOOLEAN)
      BY <1>3, <3>1, <3>2 DEF Flushed, OrNull, Tirage
    <3>4. tirages'[t] = [tirages[t] EXCEPT !.present = p]
      BY <1>1, <2>2, <3>2
    <3>5. tirages'[t] \in Tirage
      BY <3>1, <3>3, <3>4 DEF Tirage
    <3>. QED
      BY <2>2, <3>1, <3>4, <3>5, RowsAssumption DEF Tirage, OrNull, Exists
  <2>3. CASE ~(t \in D /\ Exists(t))
    BY <1>1, <2>1, <2>3 DEF Exists
  <2>. QED
    BY <2>2, <2>3
<1>5. tirages' \in [Tirages -> OrNull(Tirage)]
  BY <1>1, <1>4
<1>6. ColumnsOK'
  BY <1>2, <1>5 DEF IInv, ColumnsOK
<1>7. FreshKeys' /\ NoOrphans' /\ ResultIsDated'
  BY <1>2, <1>4 DEF IInv, FreshKeys, NoOrphans, ResultIsDated, Dated
<1>8. ShownDayInHistory' /\ RecordingStored' /\ Advances
  BY <1>2, <1>4 DEF IInv, ShownDayInHistory, RecordingStored, Advances
<1>. QED
  BY <1>2, <1>6, <1>7, <1>8, DoneStep DEF Tables

\* Draws are inserted under keys that were not drawn, for pupils and a subject that exist.
LEMMA InsertStep ==
  ASSUME IInv, NEW w \in Workers, NEW s \in Sujets, NEW S \in SUBSET Eleves,
         InsertTirages(w, s, S), s \in sujets', sujets \subseteq sujets', sujets' \subseteq Sujets,
         \A e \in S : statut[e] # "deleted"
  PROVE  IInv'
<1>1. PICK f \in [S -> cles \cap Tirages] :
        /\ cles' = cles \ ({f[e] : e \in S} \cup {s})
        /\ tirages' = [t \in Tirages |->
                         IF \E e \in S : f[e] = t
                         THEN NewTirage(s, CHOOSE e \in S : f[e] = t) ELSE tirages[t]]
  BY DEF InsertTirages
<1>2. UNCHANGED <<statut, resultats, fichiers, jour>> /\ Done(w)
  BY DEF InsertTirages
<1>3. \A t \in Tirages :
        \/ /\ t \in cles /\ t \notin cles' /\ ~Exists(t)
           /\ \E e \in S : tirages'[t] = NewTirage(s, e)
        \/ tirages'[t] = tirages[t]
  BY <1>1 DEF IInv, FreshKeys
<1>4. cles' \subseteq cles
  BY <1>1
<1>5. \A e \in S : /\ NewTirage(s, e) \in Tirage /\ NewTirage(s, e) # NULL
                   /\ NewTirage(s, e).sujet = s /\ NewTirage(s, e).eleve = e
                   /\ NewTirage(s, e).resultat = NULL /\ NewTirage(s, e).date_eval = NULL
                   /\ NewTirage(s, e).audio = FALSE
  <2> SUFFICES ASSUME NEW e \in S
               PROVE  /\ NewTirage(s, e) \in Tirage /\ NewTirage(s, e) # NULL
                      /\ NewTirage(s, e).sujet = s /\ NewTirage(s, e).eleve = e
                      /\ NewTirage(s, e).resultat = NULL /\ NewTirage(s, e).date_eval = NULL
                      /\ NewTirage(s, e).audio = FALSE
    OBVIOUS
  <2>1. NewTirage(s, e) \in Tirage
    BY DEF NewTirage, Tirage, OrNull
  <2>. QED
    BY <2>1, RowsAssumption DEF NewTirage
<1>6. tirages' \in [Tirages -> OrNull(Tirage)]
  <2>1. \A t \in Tirages : tirages'[t] \in OrNull(Tirage)
    BY <1>3, <1>5 DEF IInv, ColumnsOK, OrNull
  <2>. QED
    BY <1>1, <2>1
<1>7. ColumnsOK'
  BY <1>2, <1>4, <1>6 DEF IInv, ColumnsOK
<1>8. FreshKeys'
  BY <1>3, <1>4 DEF IInv, FreshKeys, Exists
<1>9. NoOrphans'
  BY <1>2, <1>3, <1>5 DEF IInv, NoOrphans, Exists, Dated
<1>10. ResultIsDated'
  BY <1>2, <1>3, <1>5 DEF IInv, NoOrphans, ResultIsDated, Exists, Dated
<1>11. ShownDayInHistory' /\ RecordingStored'
  BY <1>2, <1>3, <1>5 DEF IInv, ShownDayInHistory, RecordingStored, Exists
<1>12. Advances
  BY <1>2, <1>3, <1>4, <1>5 DEF Advances, Exists
<1>. QED
  BY <1>2, <1>7, <1>8, <1>9, <1>10, <1>11, <1>12, DoneStep DEF Tables

\* A subject and its draws commit.
LEMMA CommitCreateStep ==
  ASSUME IInv, NEW w \in Workers, CommitCreate(w)
  PROVE  IInv'
<1>1. PICK s \in Sujets, S \in SUBSET Eleves : s = req[w].sujet /\ S = req[w].eleves
  BY DEF CommitCreate, IInv, Requests, Typed
<1>2. sujets' = sujets \cup {s} /\ InsertTirages(w, s, S) /\ \A e \in S : statut[e] # "deleted"
  BY <1>1 DEF CommitCreate
<1>3. sujets' \subseteq Sujets
  BY <1>2 DEF IInv, ColumnsOK
<1>. QED
  BY <1>2, <1>3, InsertStep

\* A subject is drawn again.
LEMMA CommitRetirageStep ==
  ASSUME IInv, NEW w \in Workers, CommitRetirage(w)
  PROVE  IInv'
<1>1. PICK s \in Sujets, S \in SUBSET Eleves : s = req[w].sujet /\ S = req[w].eleves
  BY DEF CommitRetirage, IInv, Requests, Typed
<1>2. /\ s \in sujets /\ sujets' = sujets /\ InsertTirages(w, s, S)
      /\ \A e \in S : statut[e] # "deleted"
  BY <1>1 DEF CommitRetirage, KeysHold
<1>3. sujets' \subseteq Sujets
  BY <1>2 DEF IInv, ColumnsOK
<1>. QED
  BY <1>2, <1>3, InsertStep

\* Draws go, with their history, and with them every reference to what is deleted.
LEMMA DropStep ==
  ASSUME IInv, NEW T \in SUBSET Tirages, DropTirages(T),
         UNCHANGED <<fichiers, req, cles, jour>>,
         statut' \in [Eleves -> {"actif", "inactif", "deleted"}], sujets' \subseteq Sujets,
         \A t \in Tirages \ T : Exists(t) => /\ tirages[t].sujet \in sujets'
                                             /\ statut'[tirages[t].eleve] # "deleted"
  PROVE  IInv'
<1>1. \A t \in Tirages : /\ tirages'[t] = IF t \in T THEN NULL ELSE tirages[t]
                         /\ resultats'[t] = IF t \in T THEN [d \in Days |-> NULL] ELSE resultats[t]
  BY DEF DropTirages
<1>2. tirages' \in [Tirages -> OrNull(Tirage)]
  BY DEF IInv, ColumnsOK, DropTirages, OrNull
<1>3. resultats' \in [Tirages -> [Days -> OrNull(Resultat)]]
  <2>1. [d \in Days |-> NULL] \in [Days -> OrNull(Resultat)]
    BY DEF OrNull
  <2>2. resultats \in [Tirages -> [Days -> OrNull(Resultat)]]
    BY DEF IInv, ColumnsOK
  <2>3. \A t \in Tirages : resultats'[t] \in [Days -> OrNull(Resultat)]
    BY <1>1, <2>1, <2>2
  <2>. QED
    BY <2>3 DEF DropTirages
<1>4. ColumnsOK'
  BY <1>2, <1>3 DEF IInv, ColumnsOK
<1>5. FreshKeys'
  BY <1>1 DEF IInv, FreshKeys, Exists
<1>6. NoOrphans'
  BY <1>1 DEF IInv, NoOrphans, Exists, Dated
<1>7. ResultIsDated'
  BY <1>1 DEF IInv, ResultIsDated, Exists, Dated
<1>8. ShownDayInHistory'
  BY <1>1 DEF IInv, ShownDayInHistory, Exists
<1>9. RecordingStored'
  BY <1>1 DEF IInv, RecordingStored, Exists
<1>10. Advances
  BY <1>1 DEF Advances, Exists
<1>11. Requests'
  BY <1>10, AllRequestsKept
<1>. QED
  BY <1>4, <1>5, <1>6, <1>7, <1>8, <1>9, <1>11 DEF IInv

\* A subject goes with its draws and its history.
LEMMA DeleteSujetStep ==
  ASSUME IInv, NEW s \in Sujets, DeleteSujet(s)
  PROVE  IInv'
<1>1. PICK T \in SUBSET Tirages : T = {t \in Tirages : Exists(t) /\ tirages[t].sujet = s}
  OBVIOUS
<1>2. DropTirages(T) /\ sujets' = sujets \ {s} /\ UNCHANGED <<statut, fichiers, req, cles, jour>>
  BY <1>1 DEF DeleteSujet
<1>3. /\ statut' \in [Eleves -> {"actif", "inactif", "deleted"}] /\ sujets' \subseteq Sujets
      /\ \A t \in Tirages \ T : Exists(t) => /\ tirages[t].sujet \in sujets'
                                             /\ statut'[tirages[t].eleve] # "deleted"
  BY <1>1, <1>2 DEF IInv, ColumnsOK, NoOrphans
<1>. QED
  BY <1>2, <1>3, DropStep

\* A pupil goes with his draws and his history.
LEMMA DeleteEleveStep ==
  ASSUME IInv, NEW e \in Eleves, DeleteEleve(e)
  PROVE  IInv'
<1>1. PICK T \in SUBSET Tirages : T = {t \in Tirages : Exists(t) /\ tirages[t].eleve = e}
  OBVIOUS
<1>2. /\ DropTirages(T) /\ statut' = [statut EXCEPT ![e] = "deleted"]
      /\ UNCHANGED <<sujets, fichiers, req, cles, jour>>
  BY <1>1 DEF DeleteEleve
<1>3. \A t \in Tirages : Exists(t) => tirages[t].eleve \in Eleves
  BY DEF IInv, ColumnsOK, OrNull, Exists, Tirage
<1>4. /\ statut' \in [Eleves -> {"actif", "inactif", "deleted"}] /\ sujets' \subseteq Sujets
      /\ \A t \in Tirages \ T : Exists(t) => /\ tirages[t].sujet \in sujets'
                                             /\ statut'[tirages[t].eleve] # "deleted"
  BY <1>1, <1>2, <1>3 DEF IInv, ColumnsOK, NoOrphans
<1>. QED
  BY <1>2, <1>4, DropStep

\* A pupil is made active or inactive.
LEMMA SetStatutStep ==
  ASSUME IInv, NEW e \in Eleves, SetStatut(e)
  PROVE  IInv'
<1>1. UNCHANGED <<sujets, tirages, resultats, fichiers, req, cles, jour>>
  BY DEF SetStatut
<1>2. /\ statut' \in [Eleves -> {"actif", "inactif", "deleted"}]
      /\ \A p \in Eleves : statut[p] # "deleted" => statut'[p] # "deleted"
  BY DEF SetStatut, IInv, ColumnsOK
<1>3. \A t \in Tirages : Exists(t) => tirages[t].eleve \in Eleves
  BY DEF IInv, ColumnsOK, OrNull, Exists, Tirage
<1>4. ColumnsOK' /\ NoOrphans'
  BY <1>1, <1>2, <1>3 DEF IInv, ColumnsOK, NoOrphans, Exists, Dated
<1>5. FreshKeys' /\ ResultIsDated' /\ ShownDayInHistory' /\ RecordingStored' /\ Advances
  BY <1>1 DEF IInv, FreshKeys, ResultIsDated, ShownDayInHistory, RecordingStored, Advances,
              Exists, Dated
<1>6. Requests'
  BY <1>1, <1>5, AllRequestsKept
<1>. QED
  BY <1>4, <1>5, <1>6 DEF IInv

\* It is the next day.
LEMMA NextDayStep ==
  ASSUME IInv, NextDay
  PROVE  IInv'
<1>1. /\ UNCHANGED <<statut, sujets, tirages, resultats, fichiers, req, cles>>
      /\ jour' \in Days
  BY EvaluationsAssumption DEF NextDay, IInv, ColumnsOK, Days
<1>2. ColumnsOK' /\ NoOrphans'
  BY <1>1 DEF IInv, ColumnsOK, NoOrphans, Exists, Dated
<1>3. FreshKeys' /\ ResultIsDated' /\ ShownDayInHistory' /\ RecordingStored' /\ Advances
  BY <1>1 DEF IInv, FreshKeys, ResultIsDated, ShownDayInHistory, RecordingStored, Advances,
              Exists, Dated
<1>4. Requests'
  BY <1>1, <1>3, AllRequestsKept
<1>. QED
  BY <1>2, <1>3, <1>4 DEF IInv

\* A request ends without effect on the rows.
LEMMA RollbackStep ==
  ASSUME IInv, NEW w \in Workers, Rollback(w)
  PROVE  IInv'
<1>1. Tables' /\ Advances
  BY TablesKept DEF Rollback
<1>. QED
  BY <1>1, DoneStep DEF Rollback

-----------------------------------------------------------------------------
(* The theorems *)

\* At first there is nothing.
LEMMA InitInv == Init => IInv
<1> SUFFICES ASSUME Init PROVE IInv
  OBVIOUS
<1>1. ColumnsOK
  BY EvaluationsAssumption DEF Init, ColumnsOK, OrNull, Days
<1>2. Requests
  BY DEF Init, Requests, Typed, Held, Idle
<1>3. FreshKeys /\ NoOrphans /\ ResultIsDated /\ ShownDayInHistory /\ RecordingStored
  BY DEF Init, FreshKeys, NoOrphans, ResultIsDated, ShownDayInHistory, RecordingStored,
         Exists, Dated
<1>. QED
  BY <1>1, <1>2, <1>3 DEF IInv

\* Every step keeps the invariant.
LEMMA NextInv == IInv /\ [Next]_vars => IInv'
<1> SUFFICES ASSUME IInv, [Next]_vars PROVE IInv'
  OBVIOUS
<1>1. CASE \E w \in Workers : Read(w)
  BY <1>1, ReadCreateStep, ReadTirageStep, ReadPresencesStep DEF Read
<1>2. CASE \E w \in Workers : Commit(w)
  BY <1>2, CommitCreateStep, CommitRetirageStep, StoreAudioStep, CommitSubmitStep,
     CommitPresencesStep DEF Commit
<1>3. CASE \E w \in Workers : Rollback(w)
  BY <1>3, RollbackStep
<1>4. CASE \E s \in Sujets : DeleteSujet(s)
  BY <1>4, DeleteSujetStep
<1>5. CASE \E e \in Eleves : SetStatut(e) \/ DeleteEleve(e)
  BY <1>5, SetStatutStep, DeleteEleveStep
<1>6. CASE NextDay
  BY <1>6, NextDayStep
<1>7. CASE UNCHANGED vars
  <2>1. UNCHANGED <<statut, sujets, tirages, resultats, fichiers, cles, jour>> /\ UNCHANGED req
    BY <1>7 DEF vars
  <2>2. Tables' /\ Advances
    BY <2>1, TablesKept
  <2>. QED
    BY <2>1, <2>2, AllRequestsKept DEF IInv, Tables
<1>. QED
  BY <1>1, <1>2, <1>3, <1>4, <1>5, <1>6, <1>7 DEF Next

\* The inductive invariant holds in every behaviour.
THEOREM Invariant == Spec => []IInv
  BY InitInv, NextInv, PTL DEF Spec

\* Every table keeps its type, for any pupils, draws and requests, and no interleaving of
\* deletions, draws and submissions leaves a draw without its subject or its pupil, or a
\* dated result without its draw.
THEOREM EvaluationsTypes == Spec => []TypeOK
<1>1. IInv => TypeOK
  BY DEF IInv, TypeOK
<1>. QED
  BY <1>1, Invariant, PTL

\* The day a draw shows is a day of its history.
THEOREM DaysShown == Spec => []ShownDayInHistory
<1>1. IInv => ShownDayInHistory
  BY DEF IInv
<1>. QED
  BY <1>1, Invariant, PTL

\* A recording that is named is stored.
THEOREM RecordingsStored == Spec => []RecordingStored
<1>1. IInv => RecordingStored
  BY DEF IInv
<1>. QED
  BY <1>1, Invariant, PTL

\* The administrator's, the teacher's and the supervisor's pages show the same results of
\* the draws they select.
THEOREM SamePages == Spec => []PagesAgree
<1>1. IInv => PagesAgree
  <2> SUFFICES ASSUME IInv PROVE PagesAgree
    OBVIOUS
  <2>1. \A t \in Tirages : Exists(t) => (tirages[t].resultat # NULL <=> Dated(t))
    BY DEF IInv, ResultIsDated
  <2>2. \A s \in sujets :
          NbEvalues(s) = Cardinality({t \in Tirages : Exists(t) /\ tirages[t].sujet = s /\ Dated(t)})
    <3> TAKE s \in sujets
    <3>1. {t \in Tirages : Exists(t) /\ tirages[t].sujet = s /\ tirages[t].resultat # NULL}
            = {t \in Tirages : Exists(t) /\ tirages[t].sujet = s /\ Dated(t)}
      BY <2>1
    <3>. QED
      BY <3>1 DEF NbEvalues
  <2>3. \A c \in Classes :
          TeacherPage(c) = {t \in Tirages : /\ Exists(t) /\ Dated(t)
                                            /\ \E k \in Homonymes[c] : tirages[t].eleve \in Actifs(k)}
    BY <2>1 DEF TeacherPage
  <2>4. ASSUME NEW s \in Superviseurs, NEW l \in OrNull(Langues), NEW c \in Covers[s],
               c \in Homonymes[c]
        PROVE  {t \in SupervisorPage(s, l) : Dated(t) /\ tirages[t].eleve \in Actifs(c)} =
                 {t \in TeacherPage(c) : Propose(tirages[t].sujet, l)
                                         /\ tirages[t].eleve \in Actifs(c)}
    <3>1. ASSUME NEW t \in Tirages, tirages[t].eleve \in Actifs(c)
          PROVE  /\ t \in SupervisorPage(s, l) <=> Exists(t) /\ Propose(tirages[t].sujet, l)
                 /\ t \in TeacherPage(c) <=> Exists(t) /\ Dated(t)
      <4>1. Classe[tirages[t].eleve] = c  BY <3>1 DEF Actifs
      <4>2. Owned(s, t) <=> Exists(t)  BY <4>1 DEF Owned
      <4>3. \E k \in Homonymes[c] : tirages[t].eleve \in Actifs(k)  BY <2>4, <3>1
      <4>4. tirages[t].eleve \in UNION {Actifs(k) : k \in Homonymes[c]}  BY <4>3
      <4>. QED
        BY <2>1, <4>2, <4>4 DEF SupervisorPage, TeacherPage
    <3>2. SupervisorPage(s, l) \subseteq Tirages /\ TeacherPage(c) \subseteq Tirages
      BY DEF SupervisorPage, TeacherPage
    <3>. QED
      BY <3>1, <3>2
  <2>. QED
    BY <2>2, <2>3, <2>4 DEF PagesAgree
<1>. QED
  BY <1>1, Invariant, PTL

\* The row of a past day changes only under a submission begun that day, or goes with
\* its draw.
THEOREM PastDays == Spec => PastDaysKept
<1>1. IInv /\ [Next]_vars =>
        [\A t \in Tirages, d \in Days :
           /\ d < jour
           /\ \A w \in Workers : req[w].op = "submit" => req[w].tirage # t \/ req[w].jour # d
           => \/ resultats'[t][d] = resultats[t][d]
              \/ tirages'[t] = NULL]_vars
  <2> SUFFICES ASSUME IInv, Next, NEW t \in Tirages, NEW d \in Days,
                      \A w \in Workers : req[w].op = "submit" => req[w].tirage # t \/ req[w].jour # d
               PROVE  resultats'[t][d] = resultats[t][d] \/ tirages'[t] = NULL
    OBVIOUS
  <2>1. CASE \E w \in Workers : CommitSubmit(w)
    <3>1. PICK w \in Workers : CommitSubmit(w)
      BY <2>1
    <3>2. PICK u \in Tirages, b \in Days, x \in Tirage, y \in Resultat :
            /\ req[w].op = "submit" /\ req[w].tirage = u /\ req[w].jour = b
            /\ Submits(u, b, x, y)
      BY <3>1, CommitSubmits
    <3>3. ~(u = t /\ b = d)
      BY <3>2
    <3>4. resultats \in [Tirages -> [Days -> OrNull(Resultat)]]
      BY DEF IInv, ColumnsOK
    <3>. QED
      BY <3>2, <3>3, <3>4 DEF Submits
  <2>2. CASE \E T \in SUBSET Tirages : DropTirages(T)
    BY <2>2 DEF DropTirages
  <2>3. CASE UNCHANGED resultats
    BY <2>3
  <2>4. \/ \E w \in Workers : CommitSubmit(w)
        \/ \E T \in SUBSET Tirages : DropTirages(T)
        \/ UNCHANGED resultats
    <3>1. CASE \E w \in Workers : Read(w)
      BY <3>1 DEF Read, ReadCreate, ReadRetirage, ReadTirage, ReadPresences, Arrive
    <3>2. CASE \E w \in Workers : Commit(w)
      BY <3>2 DEF Commit, CommitCreate, CommitRetirage, InsertTirages, StoreAudio, CommitPresences
    <3>3. CASE \E w \in Workers : Rollback(w)
      BY <3>3 DEF Rollback
    <3>4. CASE \E s \in Sujets : DeleteSujet(s)
      BY <3>4 DEF DeleteSujet
    <3>5. CASE \E e \in Eleves : SetStatut(e) \/ DeleteEleve(e)
      BY <3>5 DEF SetStatut, DeleteEleve
    <3>6. CASE NextDay
      BY <3>6 DEF NextDay
    <3>. QED
      BY <3>1, <3>2, <3>3, <3>4, <3>5, <3>6 DEF Next
  <2>. QED
    BY <2>1, <2>2, <2>3, <2>4
<1>. QED
  BY <1>1, Invariant, PTL DEF Spec, PastDaysKept
=============================================================================
