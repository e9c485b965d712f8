------------------------------- MODULE Schema -------------------------------
(***************************************************************************)
(* The schema of the database: the chain of revisions under                *)
(* alembic/versions, and what the ORM models under app/models expect.      *)
(*                                                                         *)
(* An element of the schema is a table, named as in PostgreSQL and         *)
(* standing for the columns and keys it was created with, or something a   *)
(* later revision gave a table: "users.niveau" is a column of users,       *)
(* "user_role.superviseur" a value of an enumeration, "documents.ix" the   *)
(* indexes a revision creates.                                             *)
(***************************************************************************)
EXTENDS Integers, Sequences, FiniteSets

-----------------------------------------------------------------------------
(* Revisions *)

\* A revision that creates elements, refers to some, and is undone exactly.
\*   adds     created, an error when present     drops     removed by the upgrade
\*   ensures  created unless present             restores  put back by the downgrade
\*   needs    referred to                        undoes    removed by the downgrade
\*   reversible  FALSE when the downgrade raises whatever the schema
Revision(id, down_revision, needs, adds) ==
  [id |-> id, down_revision |-> down_revision, needs |-> needs, adds |-> adds,
   ensures |-> {}, drops |-> {}, restores |-> {}, undoes |-> adds, reversible |-> TRUE]

Initial == Revision("698d6d8a6cc2", "", {},
  {"program_sessions", "schools", "users", "planning_segments", "teacher_sessions",
   "seances", "rapports_prof", "uq_planning_segment(jour)"})

\* drop_constraint(None, ...) has no name to drop: the downgrade always raises.
AddSchoolIdToPlanningSegments ==
  [Revision("d2bfed0fb6d1", "698d6d8a6cc2", {"planning_segments", "schools"},
            {"planning_segments.school_id"}) EXCEPT !.reversible = FALSE]

\* Faulty variant: the table is created without looking for it.
PhotoClasseUrlBlind ==
  [Revision("f3a1c8e2b945", "d2bfed0fb6d1", {"users"},
            {"rapports_journalier", "rapports_journalier.photo_classe_url(text)"}) EXCEPT
     !.undoes = {"rapports_journalier.photo_classe_url(text)"}]

\* The table may have been made by hand; the downgrade keeps it.
PhotoClasseUrlText ==
  [Revision("f3a1c8e2b945", "d2bfed0fb6d1", {"users"}, {}) EXCEPT
     !.ensures = {"rapports_journalier", "rapports_journalier.photo_classe_url(text)"},
     !.undoes = {"rapports_journalier.photo_classe_url(text)"}]

AddPausesToSeances ==
  [Revision("a1b2c3d4e5f6", "f3a1c8e2b945", {"seances"}, {}) EXCEPT
     !.ensures = {"seances.pauses"}, !.undoes = {"seances.pauses"}]

\* The table may have been made by hand; the downgrade drops it all the same.
AddGenreDateNaissanceStatutToEleves ==
  [Revision("b3c4d5e6f7a8", "a1b2c3d4e5f6", {"schools", "program_sessions"}, {}) EXCEPT
     !.ensures = {"eleves", "eleves.statut"}, !.undoes = {"eleves", "eleves.statut"}]

AddDocumentsTable == Revision("e4f2a1b3c8d9", "b3c4d5e6f7a8", {"users"}, {"documents"})

\* Faulty variant: the column is forgotten.
NiveauForgotten == Revision("c7d8e9f0a1b2", "e4f2a1b3c8d9", {"users"}, {})

AddNiveauToUsers == Revision("c7d8e9f0a1b2", "e4f2a1b3c8d9", {"users"}, {"users.niveau"})

AddSchoolClassesTable ==
  Revision("d8e9f0a1b2c3", "c7d8e9f0a1b2", {"schools"}, {"school_classes"})

AddSuperviseurRole ==
  [Revision("a9f1b2c3d4e5", "d8e9f0a1b2c3", {"users"}, {}) EXCEPT
     !.ensures = {"user_role.superviseur"}, !.undoes = {"user_role.superviseur"}]

\* Moves users from one role to the other (Migrations!Roles).
MigrateSuperviseurUsers ==
  Revision("b0c1d2e3f4a5", "a9f1b2c3d4e5", {"users", "user_role.superviseur"}, {})

\* A value of an enumeration cannot be removed: the downgrade does nothing.
AddManqueeToSeanceStatus ==
  [Revision("b22e647b0faf", "b0c1d2e3f4a5", {"seances"}, {}) EXCEPT
     !.ensures = {"seance_status.manquee"}]

AddEvaluationsElevesTable ==
  Revision("f7e8d9c0b1a2", "b22e647b0faf", {"users", "eleves", "program_sessions"},
           {"evaluations_eleves"})

AddSupervisorPresenceChecksTable ==
  Revision("c3d4e5f6a7b8", "f7e8d9c0b1a2", {"users"}, {"supervisor_presence_checks"})

AddPhotosClasseUrlToRapports ==
  Revision("a56d5527746c", "c3d4e5f6a7b8", {"rapports_journalier"},
           {"rapports_journalier.photos_classe_url"})

AddRapportQuestions ==
  Revision("d1e2f3a4b5c6", "a56d5527746c", {"rapports_journalier"},
           {"rapport_questions", "rapports_journalier.reponses_questions"})

AddEvaluationCompetences ==
  Revision("e7f8a9b0c1d2", "d1e2f3a4b5c6", {}, {"evaluation_competences"})

AddAuditLogsTable == Revision("9f1e2d3c4b5a", "e7f8a9b0c1d2", {}, {"audit_logs"})

\* if_not_exists on every index; the downgrade expects them all.
AddPerfIndexes ==
  [Revision("g4h5i6j7k8l9", "9f1e2d3c4b5a", {"rapports_journalier"}, {}) EXCEPT
     !.ensures = {"rapports_journalier.ix"}, !.undoes = {"rapports_journalier.ix"}]

AddResourceTypeAndEvaluationSujets ==
  Revision("h1i2j3k4l5m6", "g4h5i6j7k8l9", {"documents", "program_sessions", "users", "eleves"},
           {"documents.resource_type", "evaluation_sujets", "evaluation_tirages"})

AddCodesEcoleEleve ==
  Revision("i2j3k4l5m6n7", "h1i2j3k4l5m6", {"schools", "eleves"},
           {"schools.code_ecole", "eleves.code_eleve"})

AddEvaluationDocs == Revision("j3k4l5m6n7o8", "i2j3k4l5m6n7", {}, {"evaluation_docs"})

\* The unique key of planning_segments takes the week in; the downgrade takes it out.
RemarquesUsageLogsSemaine ==
  [Revision("k4l5m6n7o8p9", "j3k4l5m6n7o8",
            {"planning_segments", "users", "evaluation_tirages", "supervisor_presence_checks"},
            {"planning_segments.semaine", "uq_planning_segment(semaine,jour)",
             "users.app_access", "evaluation_tirages.present",
             "supervisor_presence_checks.semaine", "usage_logs", "remarques"}) EXCEPT
     !.drops = {"uq_planning_segment(jour)"}, !.restores = {"uq_planning_segment(jour)"}]

AddRapportDifficultes ==
  Revision("l5m6n7o8p9q0", "k4l5m6n7o8p9", {}, {"rapport_difficultes"})

AddRapportDifficulteResolutions ==
  Revision("m6n7o8p9q0r1", "l5m6n7o8p9q0", {"rapports_journalier", "users"},
           {"rapport_difficulte_resolutions"})

AddProgressionConfigs ==
  Revision("n7o8p9q0r1s2", "m6n7o8p9q0r1", {"schools", "program_sessions"},
           {"progression_configs"})

AddLangueToSchools == Revision("o8p9q0r1s2t3", "n7o8p9q0r1s2", {"schools"}, {"schools.langue"})

AddGroupeRechercheToUsers ==
  Revision("p9q0r1s2t3u4", "o8p9q0r1s2t3", {"users"}, {"user_groupe", "users.groupe_recherche"})

AddEleveRemplacements ==
  Revision("q0r1s2t3u4v5", "p9q0r1s2t3u4", {"eleves", "users", "schools"},
           {"eleve_remplacements"})

AddTokensValidFromToUsers ==
  Revision("r1s2t3u4v5w6", "q0r1s2t3u4v5", {"users"}, {"users.tokens_valid_from"})

AddLangueToDocuments ==
  Revision("x7y8z9a0b1c2", "r1s2t3u4v5w6", {"documents"}, {"documents.langue"})

AddCibleToRapportQuestions ==
  Revision("d3e4f5a6b7c8", "x7y8z9a0b1c2", {"rapport_questions"}, {"rapport_questions.cible"})

AddRapportLibelles == Revision("e4f5a6b7c8d9", "d3e4f5a6b7c8", {}, {"rapport_libelles"})

AddLangueToEvaluationSujets ==
  Revision("y8z9a0b1c2d3", "e4f5a6b7c8d9", {"evaluation_sujets"}, {"evaluation_sujets.langue"})

\* The next four are about rows (Migrations!Libelles), and the first of the table too.
AddJourCoursLibelle == Revision("z9a0b1c2d3e4", "y8z9a0b1c2d3", {"rapport_libelles"}, {})

AddEvaluationResultats ==
  Revision("a0b1c2d3e4f5", "z9a0b1c2d3e4", {"evaluation_tirages", "users"},
           {"evaluation_resultats"})

AddLibellesSupervision == Revision("b1c2d3e4f5a6", "a0b1c2d3e4f5", {"rapport_libelles"}, {})

RetirerLibellesSuperviseurObsoletes ==
  Revision("c2d3e4f5a6b7", "b1c2d3e4f5a6", {"rapport_libelles"}, {})

AddGroupesRctStatutToEleves ==
  Revision("f5a6b7c8d9e0", "c2d3e4f5a6b7", {"eleves"}, {"eleves.statut_selection"})

AddReponseAdminToRemarques ==
  Revision("n3wr2mrq", "f5a6b7c8d9e0", {"remarques"}, {"remarques.reponse_admin"})

AddSemainesToEvaluationDocs ==
  Revision("p4q5r6s7t8u9", "n3wr2mrq", {"evaluation_docs"}, {"evaluation_docs.semaine_debut"})

AddTimerTrackingFields ==
  Revision("q5r6s7t8u9v0", "p4q5r6s7t8u9", {"usage_logs", "seances"},
           {"usage_logs.seance_id", "seances.auto_closed"})

\* The files of alembic/versions, each after the one it revises.
Chain ==
  <<Initial, AddSchoolIdToPlanningSegments, PhotoClasseUrlText, AddPausesToSeances,
    AddGenreDateNaissanceStatutToEleves, AddDocumentsTable, AddNiveauToUsers,
    AddSchoolClassesTable, AddSuperviseurRole, MigrateSuperviseurUsers,
    AddManqueeToSeanceStatus, AddEvaluationsElevesTable, AddSupervisorPresenceChecksTable,
    AddPhotosClasseUrlToRapports, AddRapportQuestions, AddEvaluationCompetences,
    AddAuditLogsTable, AddPerfIndexes, AddResourceTypeAndEvaluationSujets,
    AddCodesEcoleEleve, AddEvaluationDocs, RemarquesUsageLogsSemaine, AddRapportDifficultes,
    AddRapportDifficulteResolutions, AddProgressionConfigs, AddLangueToSchools,
    AddGroupeRechercheToUsers, AddEleveRemplacements, AddTokensValidFromToUsers,
    AddLangueToDocuments, AddCibleToRapportQuestions, AddRapportLibelles,
    AddLangueToEvaluationSujets, AddJourCoursLibelle, AddEvaluationResultats,
    AddLibellesSupervision, RetirerLibellesSuperviseurObsoletes,
    AddGroupesRctStatutToEleves, AddReponseAdminToRemarques, AddSemainesToEvaluationDocs,
    AddTimerTrackingFields>>

Newest == Len(Chain)

\* One root, one head, no identifier used twice although two files share a prefix.
ASSUME ChainAssumption ==
  /\ Chain[1].down_revision = ""
  /\ \A i \in 2..Newest : Chain[i].down_revision = Chain[i - 1].id
  /\ Cardinality({Chain[i].id : i \in 1..Newest}) = Newest

-----------------------------------------------------------------------------
(* What the models of the application read and write *)

AuditLog == {"audit_logs"}
Document == {"documents", "documents.resource_type", "documents.langue"}
Eleve == {"eleves", "eleves.statut", "eleves.code_eleve", "eleves.statut_selection"}
EleveRemplacement == {"eleve_remplacements"}
EvaluationCompetence == {"evaluation_competences"}
EvaluationDoc == {"evaluation_docs", "evaluation_docs.semaine_debut"}
EvaluationEleve == {"evaluations_eleves"}
EvaluationResultat == {"evaluation_resultats"}
EvaluationSujet == {"evaluation_sujets", "evaluation_sujets.langue"}
EvaluationTirage == {"evaluation_tirages", "evaluation_tirages.present"}
PlanningSegment == {"planning_segments", "planning_segments.school_id",
                    "planning_segments.semaine", "uq_planning_segment(semaine,jour)"}
ProgressionConfig == {"progression_configs"}
RapportDifficulte == {"rapport_difficultes"}
RapportDifficulteResolution == {"rapport_difficulte_resolutions"}
RapportJournalier == {"rapports_journalier", "rapports_journalier.photo_classe_url(text)",
                      "rapports_journalier.photos_classe_url",
                      "rapports_journalier.reponses_questions"}
RapportLibelle == {"rapport_libelles"}
RapportQuestion == {"rapport_questions", "rapport_questions.cible"}
Remarque == {"remarques", "remarques.reponse_admin"}
School == {"schools", "schools.code_ecole", "schools.langue"}
SchoolClasse == {"school_classes"}
Seance == {"seances", "seances.pauses", "seances.auto_closed", "seance_status.manquee"}
RapportProf == {"rapports_prof"}
ProgramSession == {"program_sessions", "teacher_sessions"}
SupervisorPresenceCheck == {"supervisor_presence_checks", "supervisor_presence_checks.semaine"}
UsageLog == {"usage_logs", "usage_logs.seance_id"}
User == {"users", "users.niveau", "users.app_access", "user_role.superviseur",
         "users.groupe_recherche", "user_groupe", "users.tokens_valid_from"}

Models ==
  UNION {AuditLog, Document, Eleve, EleveRemplacement, EvaluationCompetence, EvaluationDoc,
         EvaluationEleve, EvaluationResultat, EvaluationSujet, EvaluationTirage,
         PlanningSegment, ProgressionConfig, RapportDifficulte, RapportDifficulteResolution,
         RapportJournalier, RapportLibelle, RapportQuestion, Remarque, School, SchoolClasse,
         Seance, RapportProf, ProgramSession, SupervisorPresenceCheck, UsageLog, User}
=============================================================================
