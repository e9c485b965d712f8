------------------------------ MODULE Terrain ------------------------------
(***************************************************************************)
(* What else comes in from the field, and what the office answers, beside  *)
(* the batches of Supervision: the daily reports and their difficulties,   *)
(* which the dashboard and the supervisors who follow the author mark as   *)
(* resolved (app/rapports_journalier.py, difficulte_resolution_service.py),*)
(* the remarks and the replies (app/remarques.py, admin/remarques.py), the *)
(* documents and their files on the volume (admin/ressources.py).          *)
(*                                                                         *)
(* Composed with Supervision: whom a supervisor follows decides what he    *)
(* may resolve, and the deletion of an account goes through both.  A       *)
(* request reads in one action and commits in a later one.                 *)
(***************************************************************************)
EXTENDS Supervision

CONSTANTS
  Admins,      \* accounts of the dashboard that answer, at first
  Reponses,    \* texts of replies
  Rapports,    \* keys of daily reports
  Libelles,    \* difficulties
  Remarques,   \* keys of remarks
  Documents,   \* keys of documents
  MaxTerrain   \* bound: requests, those of Supervision included

ASSUME TerrainAssumption ==
  /\ MaxTerrain \in Nat
  /\ NULL \notin Enseignants \cup Superviseurs \cup Admins \cup {"nouveau", "traite"}
  /\ Admins \cap (Enseignants \cup Superviseurs \cup Eleves) = {}

VARIABLES
  admins,       \* rows of users that are there, of accounts of the dashboard
  rapports,     \* rapports[r]: the author of report r, NULL without row
  resolutions,  \* resolutions[r][l]: row of rapport_difficulte_resolutions
  remarques,    \* remarques[q]: row of remarques
  documents,    \* rows of documents
  fichiers,     \* names of the files of the volume uploads_data
  dem,          \* dem[w]: the request of worker w
  nt,           \* requests so far, and the time of the last one
  donnees,      \* keys given so far to reports and documents
  croises,      \* difficulties whose last two answers crossed each other
  melees,       \* remarks whose last two replies did
  rouvertes,    \* remarks whose statut was last set by hand, to "nouveau"
  entamees      \* documents a request has begun to delete

answers == <<admins, rapports, resolutions, remarques, croises, melees, rouvertes>>
files == <<documents, fichiers, entamees>>
field == <<answers, files, dem, nt, donnees>>

-----------------------------------------------------------------------------
(* Tables *)

Auteurs == Enseignants \cup Superviseurs

\* resolue_le is 0 for NULL; updated_at tells every answer from the next, one that
\* changes no other column included.
Resolution == [resolue : BOOLEAN, resolue_par : Superviseurs \cup Admins \cup {NULL},
               resolue_le : Nat, updated_at : Nat]

Remarque == [statut : {"nouveau", "traite"}, reponse : Reponses \cup {NULL}, updated_at : Nat]

ASSUME NullIsNoRow == NULL \notin Remarque

\* stored_filename: a UUID of its own, as the key.
FichierOriginal(d) == NULL
Fichier(d) == d

Libre == [op |-> "libre"]

TerrainInit ==
  /\ Init /\ admins = Admins
  /\ rapports = [r \in Rapports |-> NULL]
  /\ resolutions = [r \in Rapports |-> [l \in Libelles |-> NULL]]
  /\ remarques = [q \in Remarques |-> NULL]
  /\ documents = {} /\ fichiers = {} /\ donnees = {}
  /\ croises = {} /\ melees = {} /\ rouvertes = {} /\ entamees = {}
  /\ dem = [w \in Workers |-> Libre] /\ nt = 0

Arrivee(w, demande) ==
  /\ dem[w] = Libre
  /\ dem' = [dem EXCEPT ![w] = demande] /\ nt' = nt + 1

Partie(w) == dem' = [dem EXCEPT ![w] = Libre] /\ UNCHANGED <<nt, donnees>>

\* C after an answer to k: crossed if the row was updated since it was loaded.
Croise(C, k, row, lue) ==
  IF row = NULL \/ row.updated_at = lue.updated_at THEN C \ {k} ELSE C \cup {k}

-----------------------------------------------------------------------------
(* Daily reports and difficulties *)

\* submit_rapport_journalier: a report sent again is another one.
Submit(u, r) ==
  /\ u \in Auteurs \cap presents /\ r \notin donnees
  /\ rapports' = [rapports EXCEPT ![r] = u]
  /\ donnees' = donnees \cup {r} /\ nt' = nt + 1
  /\ UNCHANGED <<admins, resolutions, remarques, croises, melees, rouvertes, files, dem>>

\* delete_rapport_journalier, by the author; the resolutions go in cascade.
DeleteRapport(u, r) ==
  /\ u \in presents /\ rapports[r] = u
  /\ rapports' = [rapports EXCEPT ![r] = NULL]
  /\ resolutions' = [resolutions EXCEPT ![r] = [l \in Libelles |-> NULL]]
  /\ nt' = nt + 1
  /\ UNCHANGED <<admins, remarques, croises, melees, rouvertes, files, dem, donnees>>

\* Faulty variant: the date of a difficulty that comes back is kept.
ResolueSansRemise(b, u, n) ==
  [resolue |-> b, resolue_par |-> IF b THEN u ELSE NULL, resolue_le |-> n, updated_at |-> n]

\* What set_resolution stores.
Resolue(b, u, n) ==
  [resolue |-> b, resolue_par |-> IF b THEN u ELSE NULL, resolue_le |-> IF b THEN n ELSE 0,
   updated_at |-> n]

\* The reports a supervisor sees on supervisor_difficultes, and may answer.
Visibles(s) == {r \in Rapports : rapports[r] # NULL /\ rapports[r] \in Perimetre(s)}

\* resolve_supervisor_difficulte, by a supervisor who follows the author, and
\* resolve_rapport_difficulte by the dashboard: the report, then the row.
ReadResolve(w, u, r, l, b) ==
  /\ \/ u \in admins /\ rapports[r] # NULL
     \/ u \in Superviseurs \cap presents /\ r \in Visibles(u)
  /\ Arrivee(w, [op |-> "resolve", rapport |-> r, libelle |-> l, lue |-> resolutions[r][l],
                 envoyee |-> Resolue(b, u, nt + 1)])
  /\ UNCHANGED <<answers, files, donnees>>

\* The unique key refuses the second of two INSERTs, the foreign keys a report or an
\* account that is gone; a row gone since raises.
CommitResolve(w) ==
  /\ dem[w].op = "resolve"
  /\ LET d == dem[w]
         row == resolutions[d.rapport][d.libelle]
         nouvelle == Stockee(row, d.lue, d.envoyee)
     IN /\ rapports[d.rapport] # NULL
        /\ row = NULL <=> d.lue = NULL
        /\ nouvelle.resolue_par \in presents \cup admins \cup {NULL}
        /\ resolutions' = [resolutions EXCEPT ![d.rapport][d.libelle] = nouvelle]
        /\ croises' = Croise(croises, <<d.rapport, d.libelle>>, row, d.lue)
  /\ Partie(w)
  /\ UNCHANGED <<admins, rapports, remarques, melees, rouvertes, files>>

-----------------------------------------------------------------------------
(* Remarks *)

\* create_remarque
CreateRemarque(q) ==
  /\ Auteurs \cap presents # {} /\ remarques[q] = NULL
  /\ nt' = nt + 1
  /\ remarques' = [remarques EXCEPT ![q] = [statut |-> "nouveau", reponse |-> NULL, updated_at |-> nt']]
  /\ UNCHANGED <<admins, rapports, resolutions, croises, melees, rouvertes, files, dem, donnees>>

\* What update_remarque makes of the row: a reply marks the remark, unless the request
\* gives a statut.
Traitee(lue, statut, reponse, n) ==
  [statut |-> IF statut # NULL THEN statut ELSE IF reponse \in Reponses THEN "traite" ELSE lue.statut,
   reponse |-> IF reponse = "absente" THEN lue.reponse ELSE reponse,
   updated_at |-> n]

ReadReply(w, q, statut, reponse) ==
  /\ remarques[q] # NULL
  /\ statut # NULL \/ reponse # "absente"
  /\ Arrivee(w, [op |-> "reply", remarque |-> q, statut |-> statut, reponse |-> reponse,
                 lue |-> remarques[q], envoyee |-> Traitee(remarques[q], statut, reponse, nt + 1)])
  /\ UNCHANGED <<answers, files, donnees>>

CommitReply(w) ==
  /\ dem[w].op = "reply"
  /\ LET d == dem[w]
         q == d.remarque
     IN /\ remarques' = [remarques EXCEPT ![q] = Ecrite(@, d.lue, d.envoyee)]
        /\ melees' = Croise(melees, q, remarques[q], d.lue)
        /\ rouvertes' = IF d.statut = "nouveau" THEN rouvertes \cup {q}
                        ELSE IF d.statut = "traite" \/ d.reponse \in Reponses THEN rouvertes \ {q}
                        ELSE rouvertes
  /\ Partie(w)
  /\ UNCHANGED <<admins, rapports, resolutions, croises, files>>

-----------------------------------------------------------------------------
(* Documents *)

\* upload_document: the file is on the disk before the row.
WriteFile(w, d) ==
  /\ d \notin donnees
  /\ Arrivee(w, [op |-> "upload", document |-> d])
  /\ fichiers' = fichiers \cup {Fichier(d)} /\ donnees' = donnees \cup {d}
  /\ UNCHANGED <<answers, documents, entamees>>

CommitUpload(w) ==
  /\ dem[w].op = "upload"
  /\ documents' = documents \cup {dem[w].document}
  /\ Partie(w)
  /\ UNCHANGED <<answers, fichiers, entamees>>

\* delete_document: the file goes before the row, an error of the file system is passed over.
Unlink(w, d) ==
  /\ d \in documents
  /\ Arrivee(w, [op |-> "delete", document |-> d])
  /\ fichiers' \in {fichiers, fichiers \ {Fichier(d)}}
  /\ entamees' = entamees \cup {d}
  /\ UNCHANGED <<answers, documents, donnees>>

CommitDelete(w) ==
  /\ dem[w].op = "delete"
  /\ documents' = documents \ {dem[w].document}
  /\ Partie(w)
  /\ UNCHANGED <<answers, fichiers, entamees>>

\* download_document and download_ressource find the row and the file.
Telecharge(d) == d \in documents /\ Fichier(d) \in fichiers

\* The handler raised, or the worker died: what is on the disk stays as it is.
Abandon(w) ==
  /\ dem[w] # Libre
  /\ Partie(w)
  /\ UNCHANGED <<answers, files>>

-----------------------------------------------------------------------------
(* Both modules *)

\* The row of a difficulty once the account u is gone: resolue_par is SET NULL, no other
\* column moves.
SansNom(row, u) ==
  IF row # NULL /\ row.resolue_par = u THEN [row EXCEPT !.resolue_par = NULL] ELSE row

\* delete_user of a teacher or a supervisor, and delete_eleve: the reports go with the
\* author, and their resolutions.
DeleteAccount(u) ==
  /\ Delete(u)
  /\ rapports' = [r \in Rapports |-> IF rapports[r] = u THEN NULL ELSE rapports[r]]
  /\ resolutions' = [r \in Rapports |-> [l \in Libelles |->
       IF rapports[r] = u THEN NULL ELSE SansNom(resolutions[r][l], u)]]
  /\ UNCHANGED <<admins, remarques, croises, melees, rouvertes, files, dem, nt, donnees>>

\* delete_user of an account of the dashboard, by an administrator, in Admins or not, who
\* is somebody else.
DeleteAdmin(u) ==
  /\ u \in admins /\ admins' = admins \ {u} /\ nt' = nt + 1
  /\ resolutions' = [r \in Rapports |-> [l \in Libelles |-> SansNom(resolutions[r][l], u)]]
  /\ UNCHANGED <<rapports, remarques, croises, melees, rouvertes, files, dem, donnees>>

FieldStep ==
  \/ \E u \in Auteurs, r \in Rapports : Submit(u, r) \/ DeleteRapport(u, r)
  \/ \E q \in Remarques : CreateRemarque(q)
  \/ \E u \in Admins : DeleteAdmin(u)
  \/ \E w \in Workers :
       \/ \E u \in Superviseurs \cup Admins, r \in Rapports, l \in Libelles, b \in BOOLEAN :
            ReadResolve(w, u, r, l, b)
       \/ \E q \in Remarques, statut \in {"nouveau", "traite", NULL},
             reponse \in Reponses \cup {NULL, "absente"} : ReadReply(w, q, statut, reponse)
       \/ \E d \in Documents : WriteFile(w, d) \/ Unlink(w, d)
       \/ CommitResolve(w) \/ CommitReply(w) \/ CommitUpload(w) \/ CommitDelete(w) \/ Abandon(w)

TerrainNext ==
  /\ \/ Steps /\ UNCHANGED field
     \/ \E u \in presents : DeleteAccount(u)
     \/ FieldStep /\ UNCHANGED vars
  /\ no' + nt' <= MaxTerrain

TerrainSpec == TerrainInit /\ [][TerrainNext]_<<vars, field>>

-----------------------------------------------------------------------------
(* Properties *)

\* Every variable keeps its type, those of Supervision too; a report has an author that
\* is there, a resolution a report, and who resolved it is there.
TypesOK ==
  /\ TypeOK /\ admins \subseteq Admins
  /\ rapports \in [Rapports -> (Auteurs \cap presents) \cup {NULL}]
  /\ \A r \in Rapports : \A l \in Libelles :
       LET row == resolutions[r][l]
       IN row # NULL => /\ row \in Resolution /\ rapports[r] # NULL
                        /\ row.resolue_par \in presents \cup admins \cup {NULL}
  /\ remarques \in [Remarques -> Remarque \cup {NULL}]
  /\ documents \cup entamees \subseteq Documents

\* An account that could answer difficulties has been deleted.
Departs == ~(Superviseurs \subseteq presents /\ Admins \subseteq admins)

\* A difficulty has a date of resolution exactly if it is resolved, and the name of who
\* resolved it only then, and always unless an account, of a supervisor or of the
\* dashboard, was deleted; a remark with a reply is handled, unless it was put back by
\* hand. Columns of two requests mix only if the last two answers crossed: each loaded
\* the row before the other's UPDATE, which writes the columns that change alone
\* (set_resolution, update_remarque). A deletion that comes between the SELECT and the
\* UPDATE of an answer is no such crossing.
AnswersCoherent ==
  /\ \A r \in Rapports : \A l \in Libelles :
       LET row == resolutions[r][l]
       IN row # NULL /\ <<r, l>> \notin croises =>
            /\ row.resolue <=> row.resolue_le # 0
            /\ row.resolue_par # NULL => row.resolue
            /\ row.resolue /\ row.resolue_par = NULL => Departs
  /\ \A q \in Remarques \ (melees \cup rouvertes) :
       remarques[q] # NULL /\ remarques[q].reponse # NULL => remarques[q].statut = "traite"

\* A document that is listed can be downloaded, whatever uploads and deletions of others
\* overlap or are cut short, unless its own deletion has begun: upload_document writes
\* the file first, under a name of its own, and delete_document removes that name only.
ListedCanBeDownloaded ==
  \A d \in documents : Telecharge(d) \/ d \in entamees
=============================================================================
