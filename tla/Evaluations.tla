---------------------------- MODULE Evaluations ----------------------------
(***************************************************************************)
(* Evaluations of pupils by supervisors: subjects with randomly drawn      *)
(* pupils (admin/evaluation_sujets.py), the result of a draw and its       *)
(* dated history (app/supervisor_evaluation_sujets.py), and the pages that *)
(* read them.                                                              *)
(*                                                                         *)
(* As in Seances, a request reads in one action and commits in another,    *)
(* READ COMMITTED, and its UPDATE names only the columns that changed.     *)
(* submit_tirage reads twice: the draw, and later the row of the day.      *)
(***************************************************************************)
EXTENDS Integers, FiniteSets

CONSTANTS
  Eleves,       \* pupils
  Classes,      \* (school, class) pairs, as written
  Classe,       \* Classe[e]: the pair of pupil e
  Homonymes,    \* Homonymes[c]: the pairs a teacher of c is shown, whose class and school
                \* have the same name but for spaces and case
  Sujets,       \* primary keys of subjects
  Tirages,      \* primary keys of draws
  Superviseurs, \* supervisors
  Covers,       \* Covers[s]: the pairs of the teachers supervised by s
  Langues,      \* languages of instruction
  LangueDe,     \* LangueDe[q]: the language of subject q, or NULL
  NbParClasse,  \* nb_eleves_par_classe of the subjects; 0 draws everybody
  Resultats,    \* values a result may have
  Presences,    \* values of present a phone sends
  Workers,      \* requests served at the same time
  NULL,         \* SQL NULL, and a key without row
  LastDay       \* bound: days of the model

ASSUME EvaluationsAssumption ==
  /\ NbParClasse \in Nat /\ LastDay \in Nat /\ Presences \subseteq BOOLEAN
  /\ NULL \notin Eleves \cup Sujets \cup Resultats \cup BOOLEAN
  /\ \A d \in 0..LastDay : NULL # d
  /\ \A e \in Eleves : Classe[e] \in Classes
  /\ \A s \in Superviseurs : Covers[s] \subseteq Classes
  /\ \A c \in Classes : Homonymes[c] \subseteq Classes
  /\ \A q \in Sujets : LangueDe[q] \in Langues \cup {NULL}

VARIABLES
  statut,     \* statut[e]: "actif", "inactif", or "deleted" for a pupil without row
  sujets,     \* subjects that exist
  tirages,    \* table evaluation_tirages, by primary key
  resultats,  \* table evaluation_resultats: resultats[t][d], unique by draw and day
  fichiers,   \* fichiers[t]: day of the recording stored as eval_audio_<t>, if any
  req,        \* req[w]: the request of worker w and what it has loaded
  cles,       \* primary keys of subjects and draws that uuid4 has not drawn yet
  jour        \* today, date.today()

vars == <<statut, sujets, tirages, resultats, fichiers, req, cles, jour>>

-----------------------------------------------------------------------------
(* Rows and requests *)

Days == 0..LastDay
OrNull(S) == S \cup {NULL}

Tirage == [sujet : Sujets, eleve : Eleves, present : OrNull(BOOLEAN),
           resultat : OrNull(Resultats), date_eval : OrNull(Days), audio : BOOLEAN]

Resultat == [resultat : Resultats, audio : BOOLEAN]

\* A row is a value, and NULL is the absence of one.
ASSUME RowsAssumption == NULL \notin Tirage /\ NULL \notin Resultat

Idle == [op |-> "idle"]

Exists(t) == tirages[t] # NULL

Init ==
  /\ statut \in [Eleves -> {"actif", "inactif"}]
  /\ sujets = {}
  /\ tirages = [t \in Tirages |-> NULL]
  /\ resultats = [t \in Tirages |-> [d \in Days |-> NULL]]
  /\ fichiers = [t \in Tirages |-> NULL]
  /\ req = [w \in Workers |-> Idle]
  /\ cles = Sujets \cup Tirages
  /\ jour = 0

Arrive(w, request) ==
  /\ req[w] = Idle
  /\ req' = [req EXCEPT ![w] = request]
  /\ UNCHANGED <<statut, sujets, tirages, resultats, fichiers, cles, jour>>

Done(w) == req' = [req EXCEPT ![w] = Idle]

\* A column after the flush: left out of the UPDATE when the value is the loaded one.
Flushed(stored, loaded, assigned) == IF assigned = loaded THEN stored ELSE assigned

-----------------------------------------------------------------------------
(* Subjects and draws *)

Actifs(c) == {e \in Eleves : statut[e] = "actif" /\ Classe[e] = c}

\* What _random_eleves may return: in each class, everybody or a sample of the size asked.
\* For a subject with a language, only in the classes K of the schools that teach in it.
RandomEleves(q) ==
  {S \in SUBSET {e \in Eleves : statut[e] = "actif"} :
     \E K \in SUBSET Classes :
       /\ LangueDe[q] = NULL => K = Classes
       /\ \A e \in S : Classe[e] \in K
       /\ \A c \in K :
            LET n == Cardinality(Actifs(c))
            IN  Cardinality(S \cap Actifs(c)) =
                  IF NbParClasse = 0 \/ NbParClasse >= n THEN n ELSE NbParClasse}

\* create_sujet: the subject is inserted, then pupils are drawn.
ReadCreate(w, s) ==
  /\ s \in cles
  /\ \E S \in RandomEleves(s) : Arrive(w, [op |-> "create", sujet |-> s, eleves |-> S])

Covered(s) == {Classe[tirages[t].eleve] : t \in {u \in Tirages : Exists(u) /\ tirages[u].sujet = s}}

\* retirage_sujet: a new draw, of which only the classes without draw are kept.
ReadRetirage(w, s) ==
  /\ s \in sujets
  /\ \E S \in RandomEleves(s) :
       Arrive(w, [op |-> "retirage", sujet |-> s,
                  eleves |-> {e \in S : Classe[e] \notin Covered(s)}])

NewTirage(s, e) == [sujet |-> s, eleve |-> e, present |-> NULL,
                    resultat |-> NULL, date_eval |-> NULL, audio |-> FALSE]

\* Faulty variant: the foreign keys to eleves and evaluation_sujets not enforced.
KeysUnchecked(s, S) == TRUE

\* Foreign keys of the inserted draws; a subject being created is its own parent.
KeysHold(s, S) == s \in sujets /\ \A e \in S : statut[e] # "deleted"

\* INSERT of one draw per pupil, under fresh primary keys.
InsertTirages(w, s, S) ==
  /\ \E f \in [S -> cles \cap Tirages] :
       /\ \A e1, e2 \in S : f[e1] = f[e2] => e1 = e2
       /\ cles' = cles \ ({f[e] : e \in S} \cup {s})
       /\ tirages' = [t \in Tirages |->
                        IF \E e \in S : f[e] = t
                        THEN NewTirage(s, CHOOSE e \in S : f[e] = t) ELSE tirages[t]]
  /\ Done(w)
  /\ UNCHANGED <<statut, resultats, fichiers, jour>>

CommitCreate(w) ==
  /\ req[w].op = "create"
  /\ req[w].sujet \in cles
  /\ sujets' = sujets \cup {req[w].sujet}
  /\ \A e \in req[w].eleves : statut[e] # "deleted"
  /\ InsertTirages(w, req[w].sujet, req[w].eleves)

CommitRetirage(w) ==
  /\ req[w].op = "retirage"
  /\ KeysHold(req[w].sujet, req[w].eleves)
  /\ InsertTirages(w, req[w].sujet, req[w].eleves)
  /\ UNCHANGED sujets

\* ON DELETE CASCADE from a draw to its history. Nothing removes the recording.
DropTirages(T) ==
  /\ tirages' = [t \in Tirages |-> IF t \in T THEN NULL ELSE tirages[t]]
  /\ resultats' = [t \in Tirages |-> IF t \in T THEN [d \in Days |-> NULL] ELSE resultats[t]]

DeleteSujet(s) ==
  /\ s \in sujets
  /\ sujets' = sujets \ {s}
  /\ DropTirages({t \in Tirages : Exists(t) /\ tirages[t].sujet = s})
  /\ UNCHANGED <<statut, fichiers, req, cles, jour>>

-----------------------------------------------------------------------------
(* Results of the drawn pupils *)

\* _get_owned_tirage: 404 outside the classes the supervisor covers.
Owned(s, t) == Exists(t) /\ Classe[tirages[t].eleve] \in Covers[s]

ReadTirage(w, s, t, r, audio) ==
  /\ Owned(s, t)
  /\ Arrive(w, [op |-> "loaded", tirage |-> t, resultat |-> r, audio |-> audio,
                loaded |-> [c \in {"resultat", "date_eval", "audio"} |-> tirages[t][c]]])

\* Faulty variant: the row of the draw is looked up whatever its date.
AnyDay(t) ==
  IF \E d \in Days : resultats[t][d] # NULL
  THEN CHOOSE d \in Days : resultats[t][d] # NULL ELSE jour

\* The history has a row per day: today's is the one to insert or to correct. The day
\* is the server's, taken once the draw is loaded.
RowOf(t) == jour

\* Faulty variant: the recording is written once the result is committed.
NotYetStored(t, audio) == fichiers

\* The recording replaces the draw's previous one, outside the transaction.
Stored(t, audio) == IF audio THEN [fichiers EXCEPT ![t] = jour] ELSE fichiers

\* The recording is written, then the row of the day is looked for.
StoreAudio(w) ==
  /\ req[w].op = "loaded"
  /\ LET t == req[w].tirage
     IN /\ fichiers' = Stored(t, req[w].audio)
        /\ req' = [req EXCEPT ![w] =
                     [op |-> "submit", tirage |-> t, resultat |-> req[w].resultat,
                      loaded |-> req[w].loaded, audio |-> req[w].audio, jour |-> jour,
                      cible |-> RowOf(t), existante |-> resultats[t][RowOf(t)]]]
  /\ UNCHANGED <<statut, sujets, tirages, resultats, cles, jour>>

\* Faulty variant: only the draw is written on a first evaluation.
NoHistory(r, stored) == stored

\* The row of the day: inserted, or corrected when it was found. The recording's
\* name is the draw's, be it from this submission or from an earlier one.
DayRow(r, stored) ==
  LET audio == r.audio \/ r.loaded.audio
  IN IF r.existante = NULL
     THEN [resultat |-> r.resultat, audio |-> audio]
     ELSE [resultat |-> Flushed(stored.resultat, r.existante.resultat, r.resultat),
           audio |-> IF audio THEN Flushed(stored.audio, r.existante.audio, TRUE)
                     ELSE stored.audio]

\* The unique key (tirage, day) refuses a second INSERT; the UPDATE of a row that
\* is gone raises StaleDataError.
CommitSubmit(w) ==
  /\ req[w].op = "submit"
  /\ LET r == req[w]
         t == r.tirage
     IN /\ Exists(t)
        /\ (r.existante = NULL) = (resultats[t][r.cible] = NULL)
        /\ resultats' = [resultats EXCEPT ![t][r.cible] = DayRow(r, @)]
        /\ tirages' = [tirages EXCEPT
                         ![t].resultat  = Flushed(@, r.loaded.resultat, r.resultat),
                         ![t].date_eval = Flushed(@, r.loaded.date_eval, r.jour),
                         ![t].audio     = IF r.audio THEN TRUE ELSE @]
  /\ Done(w)
  /\ UNCHANGED <<statut, sujets, fichiers, cles, jour>>

\* set_tirages_presence: the draws of somebody else's pupils are skipped.
ReadPresences(w, s, T, p) ==
  /\ LET own == {t \in T : Owned(s, t)}
     IN /\ own # {}
        /\ Arrive(w, [op |-> "presences", present |-> p,
                      loaded |-> [t \in own |-> tirages[t].present]])

CommitPresences(w) ==
  /\ req[w].op = "presences"
  /\ tirages' = [t \in Tirages |->
                   IF t \in DOMAIN req[w].loaded /\ Exists(t)
                   THEN [tirages[t] EXCEPT
                           !.present = Flushed(@, req[w].loaded[t], req[w].present)]
                   ELSE tirages[t]]
  /\ Done(w)
  /\ UNCHANGED <<statut, sujets, resultats, fichiers, cles, jour>>

-----------------------------------------------------------------------------
(* The environment *)

\* The handler raised, a constraint refused a row, or the worker died.
Rollback(w) ==
  /\ req[w] # Idle
  /\ Done(w)
  /\ UNCHANGED <<statut, sujets, tirages, resultats, fichiers, cles, jour>>

\* update_eleve, or a replacement: the pupil leaves or comes back.
SetStatut(e) ==
  /\ statut[e] # "deleted"
  /\ statut' = [statut EXCEPT ![e] = IF @ = "actif" THEN "inactif" ELSE "actif"]
  /\ UNCHANGED <<sujets, tirages, resultats, fichiers, req, cles, jour>>

\* delete_eleve: draws, history and evaluations go with the pupil.
DeleteEleve(e) ==
  /\ statut[e] # "deleted"
  /\ statut' = [statut EXCEPT ![e] = "deleted"]
  /\ DropTirages({t \in Tirages : Exists(t) /\ tirages[t].eleve = e})
  /\ UNCHANGED <<sujets, fichiers, req, cles, jour>>

NextDay ==
  /\ jour < LastDay
  /\ jour' = jour + 1
  /\ UNCHANGED <<statut, sujets, tirages, resultats, fichiers, req, cles>>

-----------------------------------------------------------------------------
(* Next *)

Read(w) ==
  \/ \E s \in Sujets : ReadCreate(w, s) \/ ReadRetirage(w, s)
  \/ \E s \in Superviseurs :
       \/ \E t \in Tirages, r \in Resultats, audio \in BOOLEAN : ReadTirage(w, s, t, r, audio)
       \/ \E T \in SUBSET Tirages, p \in Presences : ReadPresences(w, s, T, p)

Commit(w) ==
  \/ CommitCreate(w) \/ CommitRetirage(w)
  \/ StoreAudio(w) \/ CommitSubmit(w) \/ CommitPresences(w)

Next ==
  \/ \E w \in Workers : Read(w) \/ Commit(w) \/ Rollback(w)
  \/ \E s \in Sujets : DeleteSujet(s)
  \/ \E e \in Eleves : SetStatut(e) \/ DeleteEleve(e)
  \/ NextDay

Spec == Init /\ [][Next]_vars

-----------------------------------------------------------------------------
(* What the pages show *)

\* list_sujets, get_sujet and retirage_sujet count the evaluated draws of a subject.
NbEvalues(s) ==
  Cardinality({t \in Tirages : Exists(t) /\ tirages[t].sujet = s /\ tirages[t].resultat # NULL})

\* teacher_evaluations: the evaluated draws of the active pupils of a class and of those
\* that have its name at schools of the same name, in any language. The evaluations
\* without subject it adds are those of module Supervision.
TeacherPage(c) ==
  {t \in Tirages : /\ Exists(t) /\ tirages[t].resultat # NULL
                   /\ tirages[t].eleve \in UNION {Actifs(k) : k \in Homonymes[c]}}

\* The subjects proposed to a supervisor of language l, or of none that can be told.
Propose(q, l) == l = NULL \/ LangueDe[q] \in {NULL, l}

\* list_evaluation_sujets: the draws, in the subjects proposed, of the classes the
\* supervisor covers, exactly as written; absent or not.
SupervisorPage(s, l) == {t \in Tirages : Owned(s, t) /\ Propose(tirages[t].sujet, l)}

Dated(t) == \E d \in Days : resultats[t][d] # NULL

-----------------------------------------------------------------------------
(* Properties *)

ColumnsOK ==
  /\ statut \in [Eleves -> {"actif", "inactif", "deleted"}]
  /\ sujets \subseteq Sujets
  /\ tirages \in [Tirages -> OrNull(Tirage)]
  /\ resultats \in [Tirages -> [Days -> OrNull(Resultat)]]
  /\ fichiers \in [Tirages -> OrNull(Days)]
  /\ cles \subseteq Sujets \cup Tirages
  /\ jour \in Days

NoOrphans ==
  /\ \A t \in Tirages : Exists(t) => /\ tirages[t].sujet \in sujets
                                     /\ statut[tirages[t].eleve] # "deleted"
  /\ \A t \in Tirages : ~Exists(t) => ~Dated(t)

\* Every variable keeps its type. A pupil or a subject may go away between the draw of
\* a request and its COMMIT, or after it: no draw and no dated result is ever left
\* without its subject, its pupil or its draw (foreign keys and cascades).
TypeOK == ColumnsOK /\ NoOrphans

\* The number of evaluated pupils the administrator reads, the teacher's page and the
\* supervisor's page speak of the same draws: those that have a dated result, whatever
\* submissions, corrections and deletions crossed each other. The pages differ in what
\* they select: the teacher's has the homonyms of the class too, and the supervisor's
\* leaves out the subjects of another language.
PagesAgree ==
  /\ \A q \in sujets :
       NbEvalues(q) = Cardinality({t \in Tirages : Exists(t) /\ tirages[t].sujet = q /\ Dated(t)})
  /\ \A c \in Classes :
       TeacherPage(c) = {t \in Tirages : /\ Exists(t) /\ Dated(t)
                                         /\ \E k \in Homonymes[c] : tirages[t].eleve \in Actifs(k)}
  /\ \A s \in Superviseurs, l \in OrNull(Langues) : \A c \in Covers[s] :
       c \in Homonymes[c] =>
         {t \in SupervisorPage(s, l) : Dated(t) /\ tirages[t].eleve \in Actifs(c)} =
           {t \in TeacherPage(c) : Propose(tirages[t].sujet, l) /\ tirages[t].eleve \in Actifs(c)}

\* The day the draw shows is one its history knows: a correction of a row that is
\* there, or the insertion of a row that is not, in the same COMMIT as the draw.
ShownDayInHistory ==
  \A t \in Tirages :
    Exists(t) /\ tirages[t].date_eval # NULL => resultats[t][tirages[t].date_eval] # NULL

\* A recording that the draw or its history names can be served: it is written
\* before the COMMIT that names it, and outlives rollbacks.
RecordingStored ==
  \A t \in Tirages :
    \/ fichiers[t] # NULL
    \/ /\ Exists(t) => ~tirages[t].audio
       /\ \A d \in Days : resultats[t][d] # NULL => ~resultats[t][d].audio

\* An evaluation is recorded on its day and no other: a past day's row changes only
\* under a submission begun that day, or goes with its draw. This is what the history
\* was added for.
PastDaysKept ==
  [][\A t \in Tirages, d \in Days :
       /\ d < jour
       /\ \A w \in Workers : req[w].op = "submit" => req[w].tirage # t \/ req[w].jour # d
       => \/ resultats'[t][d] = resultats[t][d]
          \/ tirages'[t] = NULL]_vars
=============================================================================
