---------------------------- MODULE DatabaseProof ----------------------------
(***************************************************************************)
(* Theorems about the database: its schema, as deployments and commands    *)
(* given by hand change it (modules Schema and Migrations), for every set  *)
(* of images of the backend and any number of interventions; and the       *)
(* tables of the directory, as the dashboard's requests and imports change *)
(* them (module Directory), for every file and any number of requests:     *)
(* tables that stay sound, imports that destroy nothing, that show the     *)
(* pupils they bring to their tutor, and that can be repeated.             *)
(***************************************************************************)
EXTENDS Migrations, Directory, WellFoundedInduction, FiniteSetTheorems, TLAPS

-----------------------------------------------------------------------------
(* The chain of revisions *)

\* The revision that makes an element of the schema.
Origin(x) ==
  CASE x \in {"program_sessions", "schools", "users", "planning_segments",
         "teacher_sessions", "seances", "rapports_prof", "uq_planning_segment(jour)"} ->
         1
    [] x = "planning_segments.school_id" -> 2
    [] x \in {"rapports_journalier", "rapports_journalier.photo_classe_url(text)"} ->
         3
    [] x = "seances.pauses" -> 4
    [] x \in {"eleves", "eleves.statut"} -> 5
    [] x = "documents" -> 6
    [] x = "users.niveau" -> 7
    [] x = "school_classes" -> 8
    [] x = "user_role.superviseur" -> 9
    [] x = "seance_status.manquee" -> 11
    [] x = "evaluations_eleves" -> 12
    [] x = "supervisor_presence_checks" -> 13
    [] x = "rapports_journalier.photos_classe_url" -> 14
    [] x \in {"rapport_questions", "rapports_journalier.reponses_questions"} -> 15
    [] x = "evaluation_competences" -> 16
    [] x = "audit_logs" -> 17
    [] x = "rapports_journalier.ix" -> 18
    [] x \in {"documents.resource_type", "evaluation_sujets", "evaluation_tirages"} ->
         19
    [] x \in {"schools.code_ecole", "eleves.code_eleve"} -> 20
    [] x = "evaluation_docs" -> 21
    [] x \in {"planning_segments.semaine", "uq_planning_segment(semaine,jour)",
         "users.app_access", "evaluation_tirages.present",
         "supervisor_presence_checks.semaine", "usage_logs", "remarques"} -> 22
    [] x = "rapport_difficultes" -> 23
    [] x = "rapport_difficulte_resolutions" -> 24
    [] x = "progression_configs" -> 25
    [] x = "schools.langue" -> 26
    [] x \in {"user_groupe", "users.groupe_recherche"} -> 27
    [] x = "eleve_remplacements" -> 28
    [] x = "users.tokens_valid_from" -> 29
    [] x = "documents.langue" -> 30
    [] x = "rapport_questions.cible" -> 31
    [] x = "rapport_libelles" -> 32
    [] x = "evaluation_sujets.langue" -> 33
    [] x = "evaluation_resultats" -> 35
    [] x = "eleves.statut_selection" -> 38
    [] x = "remarques.reponse_admin" -> 39
    [] x = "evaluation_docs.semaine_debut" -> 40
    [] x \in {"usage_logs.seance_id", "seances.auto_closed"} -> 41
    [] OTHER -> 0

Made(r) == r.adds \cup r.ensures

\* Nothing that a revision makes was there before it.
Fresh(i, r) == \A x \in Made(r) : Origin(x) = i

\* A downgrade removes what its upgrade made, but for what is kept, and restores the rest.
Undone(r) ==
  /\ r.undoes \subseteq Made(r)
  /\ r.reversible => Made(r) \ r.undoes \subseteq Kept
  /\ r.restores = r.drops

\* What the i-th revision replaces: one key, once.
Replaced(i) == IF i = 22 THEN {"uq_planning_segment(jour)"} ELSE {}

\* Where the revisions with a data migration are.
Placed(i, id) ==
  /\ id = "a9f1b2c3d4e5" <=> i = 9
  /\ id = "b0c1d2e3f4a5" <=> i = 10
  /\ id = "e4f5a6b7c8d9" <=> i = 32
  /\ id = "z9a0b1c2d3e4" <=> i = 34
  /\ id = "b1c2d3e4f5a6" <=> i = 36
  /\ id = "c2d3e4f5a6b7" <=> i = 37

Sound(i, r) == Undone(r) /\ r.drops = Replaced(i) /\ Placed(i, r.id)

\* The chain, one revision after another.
LEMMA ChainIs ==
  /\ Newest = 41
  /\ Chain[1] = Initial
  /\ Chain[2] = AddSchoolIdToPlanningSegments
  /\ Chain[3] = PhotoClasseUrlText
  /\ Chain[4] = AddPausesToSeances
  /\ Chain[5] = AddGenreDateNaissanceStatutToEleves
  /\ Chain[6] = AddDocumentsTable
  /\ Chain[7] = AddNiveauToUsers
  /\ Chain[8] = AddSchoolClassesTable
  /\ Chain[9] = AddSuperviseurRole
  /\ Chain[10] = MigrateSuperviseurUsers
  /\ Chain[11] = AddManqueeToSeanceStatus
  /\ Chain[12] = AddEvaluationsElevesTable
  /\ Chain[13] = AddSupervisorPresenceChecksTable
  /\ Chain[14] = AddPhotosClasseUrlToRapports
  /\ Chain[15] = AddRapportQuestions
  /\ Chain[16] = AddEvaluationCompetences
  /\ Chain[17] = AddAuditLogsTable
  /\ Chain[18] = AddPerfIndexes
  /\ Chain[19] = AddResourceTypeAndEvaluationSujets
  /\ Chain[20] = AddCodesEcoleEleve
  /\ Chain[21] = AddEvaluationDocs
  /\ Chain[22] = RemarquesUsageLogsSemaine
  /\ Chain[23] = AddRapportDifficultes
  /\ Chain[24] = AddRapportDifficulteResolutions
  /\ Chain[25] = AddProgressionConfigs
  /\ Chain[26] = AddLangueToSchools
  /\ Chain[27] = AddGroupeRechercheToUsers
  /\ Chain[28] = AddEleveRemplacements
  /\ Chain[29] = AddTokensValidFromToUsers
  /\ Chain[30] = AddLangueToDocuments
  /\ Chain[31] = AddCibleToRapportQuestions
  /\ Chain[32] = AddRapportLibelles
  /\ Chain[33] = AddLangueToEvaluationSujets
  /\ Chain[34] = AddJourCoursLibelle
  /\ Chain[35] = AddEvaluationResultats
  /\ Chain[36] = AddLibellesSupervision
  /\ Chain[37] = RetirerLibellesSuperviseurObsoletes
  /\ Chain[38] = AddGroupesRctStatutToEleves
  /\ Chain[39] = AddReponseAdminToRemarques
  /\ Chain[40] = AddSemainesToEvaluationDocs
  /\ Chain[41] = AddTimerTrackingFields
BY DEF Chain, Newest

\* A revision that only creates is sound.
LEMMA PlainRevision ==
  ASSUME NEW id, NEW down_revision, NEW needs, NEW adds,
         NEW r, r = Revision(id, down_revision, needs, adds)
  PROVE  Made(r) = adds /\ Undone(r) /\ r.drops = {} /\ r.id = id
BY DEF Revision, Made, Undone

\* No two revisions make one element.
LEMMA ChainFresh == \A i \in 1..Newest : Fresh(i, Chain[i])
<1>1. Fresh(1, Initial)
  <2>1. Made(Initial) \subseteq
          {"program_sessions", "schools", "users", "planning_segments",
          "teacher_sessions", "seances", "rapports_prof", "uq_planning_segment(jour)"}
    BY DEF Initial, Made, Revision
  <2>2. /\ Origin("program_sessions") = 1
        /\ Origin("schools") = 1
        /\ Origin("users") = 1
        /\ Origin("planning_segments") = 1
        /\ Origin("teacher_sessions") = 1
        /\ Origin("seances") = 1
        /\ Origin("rapports_prof") = 1
        /\ Origin("uq_planning_segment(jour)") = 1
    BY DEF Origin
  <2>3. QED  BY <2>1, <2>2 DEF Fresh
<1>2. Fresh(2, AddSchoolIdToPlanningSegments)
  <2>1. Made(AddSchoolIdToPlanningSegments) \subseteq
          {"planning_segments.school_id"}
    BY DEF AddSchoolIdToPlanningSegments, Made, Revision
  <2>2. Origin("planning_segments.school_id") = 2
    BY DEF Origin
  <2>3. QED  BY <2>1, <2>2 DEF Fresh
<1>3. Fresh(3, PhotoClasseUrlText)
  <2>1. Made(PhotoClasseUrlText) \subseteq
          {"rapports_journalier", "rapports_journalier.photo_classe_url(text)"}
    BY DEF PhotoClasseUrlText, Made, Revision
  <2>2. /\ Origin("rapports_journalier") = 3
        /\ Origin("rapports_journalier.photo_classe_url(text)") = 3
    BY DEF Origin
  <2>3. QED  BY <2>1, <2>2 DEF Fresh
<1>4. Fresh(4, AddPausesToSeances)
  <2>1. Made(AddPausesToSeances) \subseteq
          {"seances.pauses"}
    BY DEF AddPausesToSeances, Made, Revision
  <2>2. Origin("seances.pauses") = 4
    BY DEF Origin
  <2>3. QED  BY <2>1, <2>2 DEF Fresh
<1>5. Fresh(5, AddGenreDateNaissanceStatutToEleves)
  <2>1. Made(AddGenreDateNaissanceStatutToEleves) \subseteq
          {"eleves", "eleves.statut"}
    BY DEF AddGenreDateNaissanceStatutToEleves, Made, Revision
  <2>2. /\ Origin("eleves") = 5
        /\ Origin("eleves.statut") = 5
    BY DEF Origin
  <2>3. QED  BY <2>1, <2>2 DEF Fresh
<1>6. Fresh(6, AddDocumentsTable)
  <2>1. Made(AddDocumentsTable) \subseteq
          {"documents"}
    BY DEF AddDocumentsTable, Made, Revision
  <2>2. Origin("documents") = 6
    BY DEF Origin
  <2>3. QED  BY <2>1, <2>2 DEF Fresh
<1>7. Fresh(7, AddNiveauToUsers)
  <2>1. Made(AddNiveauToUsers) \subseteq
          {"users.niveau"}
    BY DEF AddNiveauToUsers, Made, Revision
  <2>2. Origin("users.niveau") = 7
    BY DEF Origin
  <2>3. QED  BY <2>1, <2>2 DEF Fresh
<1>8. Fresh(8, AddSchoolClassesTable)
  <2>1. Made(AddSchoolClassesTable) \subseteq
          {"school_classes"}
    BY DEF AddSchoolClassesTable, Made, Revision
  <2>2. Origin("school_classes") = 8
    BY DEF Origin
  <2>3. QED  BY <2>1, <2>2 DEF Fresh
<1>9. Fresh(9, AddSuperviseurRole)
  <2>1. Made(AddSuperviseurRole) \subseteq
          {"user_role.superviseur"}
    BY DEF AddSuperviseurRole, Made, Revision
  <2>2. Origin("user_role.superviseur") = 9
    BY DEF Origin
  <2>3. QED  BY <2>1, <2>2 DEF Fresh
<1>10. Fresh(10, MigrateSuperviseurUsers)
  BY DEF Fresh, Made, Revision, MigrateSuperviseurUsers
<1>11. Fresh(11, AddManqueeToSeanceStatus)
  <2>1. Made(AddManqueeToSeanceStatus) \subseteq
          {"seance_status.manquee"}
    BY DEF AddManqueeToSeanceStatus, Made, Revision
  <2>2. Origin("seance_status.manquee") = 11
    BY DEF Origin
  <2>3. QED  BY <2>1, <2>2 DEF Fresh
<1>12. Fresh(12, AddEvaluationsElevesTable)
  <2>1. Made(AddEvaluationsElevesTable) \subseteq
          {"evaluations_eleves"}
    BY DEF AddEvaluationsElevesTable, Made, Revision
  <2>2. Origin("evaluations_eleves") = 12
    BY DEF Origin
  <2>3. QED  BY <2>1, <2>2 DEF Fresh
<1>13. Fresh(13, AddSupervisorPresenceChecksTable)
  <2>1. Made(AddSupervisorPresenceChecksTable) \subseteq
          {"supervisor_presence_checks"}
    BY DEF AddSupervisorPresenceChecksTable, Made, Revision
  <2>2. Origin("supervisor_presence_checks") = 13
    BY DEF Origin
  <2>3. QED  BY <2>1, <2>2 DEF Fresh
<1>14. Fresh(14, AddPhotosClasseUrlToRapports)
  <2>1. Made(AddPhotosClasseUrlToRapports) \subseteq
          {"rapports_journalier.photos_classe_url"}
    BY DEF AddPhotosClasseUrlToRapports, Made, Revision
  <2>2. Origin("rapports_journalier.photos_classe_url") = 14
    BY DEF Origin
  <2>3. QED  BY <2>1, <2>2 DEF Fresh
<1>15. Fresh(15, AddRapportQuestions)
  <2>1. Made(AddRapportQuestions) \subseteq
          {"rapport_questions", "rapports_journalier.reponses_questions"}
    BY DEF AddRapportQuestions, Made, Revision
  <2>2. /\ Origin("rapport_questions") = 15
        /\ Origin("rapports_journalier.reponses_questions") = 15
    BY DEF Origin
  <2>3. QED  BY <2>1, <2>2 DEF Fresh
<1>16. Fresh(16, AddEvaluationCompetences)
  <2>1. Made(AddEvaluationCompetences) \subseteq
          {"evaluation_competences"}
    BY DEF AddEvaluationCompetences, Made, Revision
  <2>2. Origin("evaluation_competences") = 16
    BY DEF Origin
  <2>3. QED  BY <2>1, <2>2 DEF Fresh
<1>17. Fresh(17, AddAuditLogsTable)
  <2>1. Made(AddAuditLogsTable) \subseteq
          {"audit_logs"}
    BY DEF AddAuditLogsTable, Made, Revision
  <2>2. Origin("audit_logs") = 17
    BY DEF Origin
  <2>3. QED  BY <2>1, <2>2 DEF Fresh
<1>18. Fresh(18, AddPerfIndexes)
  <2>1. Made(AddPerfIndexes) \subseteq
          {"rapports_journalier.ix"}
    BY DEF AddPerfIndexes, Made, Revision
  <2>2. Origin("rapports_journalier.ix") = 18
    BY DEF Origin
  <2>3. QED  BY <2>1, <2>2 DEF Fresh
<1>19. Fresh(19, AddResourceTypeAndEvaluationSujets)
  <2>1. Made(AddResourceTypeAndEvaluationSujets) \subseteq
          {"documents.resource_type", "evaluation_sujets", "evaluation_tirages"}
    BY DEF AddResourceTypeAndEvaluationSujets, Made, Revision
  <2>2. /\ Origin("documents.resource_type") = 19
        /\ Origin("evaluation_sujets") = 19
        /\ Origin("evaluation_tirages") = 19
    BY DEF Origin
  <2>3. QED  BY <2>1, <2>2 DEF Fresh
<1>20. Fresh(20, AddCodesEcoleEleve)
  <2>1. Made(AddCodesEcoleEleve) \subseteq
          {"schools.code_ecole", "eleves.code_eleve"}
    BY DEF AddCodesEcoleEleve, Made, Revision
  <2>2. /\ Origin("schools.code_ecole") = 20
        /\ Origin("eleves.code_eleve") = 20
    BY DEF Origin
  <2>3. QED  BY <2>1, <2>2 DEF Fresh
<1>21. Fresh(21, AddEvaluationDocs)
  <2>1. Made(AddEvaluationDocs) \subseteq
          {"evaluation_docs"}
    BY DEF AddEvaluationDocs, Made, Revision
  <2>2. Origin("evaluation_docs") = 21
    BY DEF Origin
  <2>3. QED  BY <2>1, <2>2 DEF Fresh
<1>22. Fresh(22, RemarquesUsageLogsSemaine)
  <2>1. Made(RemarquesUsageLogsSemaine) \subseteq
          {"planning_segments.semaine", "uq_planning_segment(semaine,jour)",
          "users.app_access", "evaluation_tirages.present",
          "supervisor_presence_checks.semaine", "usage_logs", "remarques"}
    BY DEF RemarquesUsageLogsSemaine, Made, Revision
  <2>2. /\ Origin("planning_segments.semaine") = 22
        /\ Origin("uq_planning_segment(semaine,jour)") = 22
        /\ Origin("users.app_access") = 22
        /\ Origin("evaluation_tirages.present") = 22
        /\ Origin("supervisor_presence_checks.semaine") = 22
        /\ Origin("usage_logs") = 22
        /\ Origin("remarques") = 22
    BY DEF Origin
  <2>3. QED  BY <2>1, <2>2 DEF Fresh
<1>23. Fresh(23, AddRapportDifficultes)
  <2>1. Made(AddRapportDifficultes) \subseteq
          {"rapport_difficultes"}
    BY DEF AddRapportDifficultes, Made, Revision
  <2>2. Origin("rapport_difficultes") = 23
    BY DEF Origin
  <2>3. QED  BY <2>1, <2>2 DEF Fresh
<1>24. Fresh(24, AddRapportDifficulteResolutions)
  <2>1. Made(AddRapportDifficulteResolutions) \subseteq
          {"rapport_difficulte_resolutions"}
    BY DEF AddRapportDifficulteResolutions, Made, Revision
  <2>2. Origin("rapport_difficulte_resolutions") = 24
    BY DEF Origin
  <2>3. QED  BY <2>1, <2>2 DEF Fresh
<1>25. Fresh(25, AddProgressionConfigs)
  <2>1. Made(AddProgressionConfigs) \subseteq
          {"progression_configs"}
    BY DEF AddProgressionConfigs, Made, Revision
  <2>2. Origin("progression_configs") = 25
    BY DEF Origin
  <2>3. QED  BY <2>1, <2>2 DEF Fresh
<1>26. Fresh(26, AddLangueToSchools)
  <2>1. Made(AddLangueToSchools) \subseteq
          {"schools.langue"}
    BY DEF AddLangueToSchools, Made, Revision
  <2>2. Origin("schools.langue") = 26
    BY DEF Origin
  <2>3. QED  BY <2>1, <2>2 DEF Fresh
<1>27. Fresh(27, AddGroupeRechercheToUsers)
  <2>1. Made(AddGroupeRechercheToUsers) \subseteq
          {"user_groupe", "users.groupe_recherche"}
    BY DEF AddGroupeRechercheToUsers, Made, Revision
  <2>2. /\ Origin("user_groupe") = 27
        /\ Origin("users.groupe_recherche") = 27
    BY DEF Origin
  <2>3. QED  BY <2>1, <2>2 DEF Fresh
<1>28. Fresh(28, AddEleveRemplacements)
  <2>1. Made(AddEleveRemplacements) \subseteq
          {"eleve_remplacements"}
    BY DEF AddEleveRemplacements, Made, Revision
  <2>2. Origin("eleve_remplacements") = 28
    BY DEF Origin
  <2>3. QED  BY <2>1, <2>2 DEF Fresh
<1>29. Fresh(29, AddTokensValidFromToUsers)
  <2>1. Made(AddTokensValidFromToUsers) \subseteq
          {"users.tokens_valid_from"}
    BY DEF AddTokensValidFromToUsers, Made, Revision
  <2>2. Origin("users.tokens_valid_from") = 29
    BY DEF Origin
  <2>3. QED  BY <2>1, <2>2 DEF Fresh
<1>30. Fresh(30, AddLangueToDocuments)
  <2>1. Made(AddLangueToDocuments) \subseteq
          {"documents.langue"}
    BY DEF AddLangueToDocuments, Made, Revision
  <2>2. Origin("documents.langue") = 30
    BY DEF Origin
  <2>3. QED  BY <2>1, <2>2 DEF Fresh
<1>31. Fresh(31, AddCibleToRapportQuestions)
  <2>1. Made(AddCibleToRapportQuestions) \subseteq
          {"rapport_questions.cible"}
    BY DEF AddCibleToRapportQuestions, Made, Revision
  <2>2. Origin("rapport_questions.cible") = 31
    BY DEF Origin
  <2>3. QED  BY <2>1, <2>2 DEF Fresh
<1>32. Fresh(32, AddRapportLibelles)
  <2>1. Made(AddRapportLibelles) \subseteq
          {"rapport_libelles"}
    BY DEF AddRapportLibelles, Made, Revision
  <2>2. Origin("rapport_libelles") = 32
    BY DEF Origin
  <2>3. QED  BY <2>1, <2>2 DEF Fresh
<1>33. Fresh(33, AddLangueToEvaluationSujets)
  <2>1. Made(AddLangueToEvaluationSujets) \subseteq
          {"evaluation_sujets.langue"}
    BY DEF AddLangueToEvaluationSujets, Made, Revision
  <2>2. Origin("evaluation_sujets.langue") = 33
    BY DEF Origin
  <2>3. QED  BY <2>1, <2>2 DEF Fresh
<1>34. Fresh(34, AddJourCoursLibelle)
  BY DEF Fresh, Made, Revision, AddJourCoursLibelle
<1>35. Fresh(35, AddEvaluationResultats)
  <2>1. Made(AddEvaluationResultats) \subseteq
          {"evaluation_resultats"}
    BY DEF AddEvaluationResultats, Made, Revision
  <2>2. Origin("evaluation_resultats") = 35
    BY DEF Origin
  <2>3. QED  BY <2>1, <2>2 DEF Fresh
<1>36. Fresh(36, AddLibellesSupervision)
  BY DEF Fresh, Made, Revision, AddLibellesSupervision
<1>37. Fresh(37, RetirerLibellesSuperviseurObsoletes)
  BY DEF Fresh, Made, Revision, RetirerLibellesSuperviseurObsoletes
<1>38. Fresh(38, AddGroupesRctStatutToEleves)
  <2>1. Made(AddGroupesRctStatutToEleves) \subseteq
          {"eleves.statut_selection"}
    BY DEF AddGroupesRctStatutToEleves, Made, Revision
  <2>2. Origin("eleves.statut_selection") = 38
    BY DEF Origin
  <2>3. QED  BY <2>1, <2>2 DEF Fresh
<1>39. Fresh(39, AddReponseAdminToRemarques)
  <2>1. Made(AddReponseAdminToRemarques) \subseteq
          {"remarques.reponse_admin"}
    BY DEF AddReponseAdminToRemarques, Made, Revision
  <2>2. Origin("remarques.reponse_admin") = 39
    BY DEF Origin
  <2>3. QED  BY <2>1, <2>2 DEF Fresh
<1>40. Fresh(40, AddSemainesToEvaluationDocs)
  <2>1. Made(AddSemainesToEvaluationDocs) \subseteq
          {"evaluation_docs.semaine_debut"}
    BY DEF AddSemainesToEvaluationDocs, Made, Revision
  <2>2. Origin("evaluation_docs.semaine_debut") = 40
    BY DEF Origin
  <2>3. QED  BY <2>1, <2>2 DEF Fresh
<1>41. Fresh(41, AddTimerTrackingFields)
  <2>1. Made(AddTimerTrackingFields) \subseteq
          {"usage_logs.seance_id", "seances.auto_closed"}
    BY DEF AddTimerTrackingFields, Made, Revision
  <2>2. /\ Origin("usage_logs.seance_id") = 41
        /\ Origin("seances.auto_closed") = 41
    BY DEF Origin
  <2>3. QED  BY <2>1, <2>2 DEF Fresh
<1>42. \A i \in 1..Newest : i \in {1, 2, 3, 4, 5, 6, 7, 8, 9, 10, 11, 12, 13, 14, 15,
                                16, 17, 18, 19, 20, 21, 22, 23, 24, 25, 26, 27, 28,
                                29, 30, 31, 32, 33, 34, 35, 36, 37, 38, 39, 40, 41}
  BY ChainIs
<1>43. QED
  BY ChainIs, <1>42,
     <1>1, <1>2, <1>3, <1>4, <1>5, <1>6, <1>7, <1>8, <1>9, <1>10, <1>11, <1>12, <1>13,
     <1>14, <1>15, <1>16, <1>17, <1>18, <1>19, <1>20, <1>21, <1>22, <1>23, <1>24, <1>25,
     <1>26, <1>27, <1>28, <1>29, <1>30, <1>31, <1>32, <1>33, <1>34, <1>35, <1>36, <1>37,
     <1>38, <1>39, <1>40, <1>41

\* Every revision is undone by its downgrade, but for what is kept; all the drops and the
\* data migrations are where Replaced and Placed say.
LEMMA ChainSound == \A i \in 1..Newest : Sound(i, Chain[i])
<1>1. Sound(1, Initial)
  <2>1. Initial.drops = Replaced(1)
    BY DEF Initial, Revision, Replaced
  <2>2. Initial.restores = Initial.drops
    BY DEF Initial, Revision
  <2>3. Initial.undoes = Made(Initial)
    BY DEF Initial, Revision, Made
  <2>4. Placed(1, Initial.id)
    BY DEF Initial, Revision, Placed
  <2>5. QED  BY <2>1, <2>2, <2>3, <2>4 DEF Sound, Undone
<1>2. Sound(2, AddSchoolIdToPlanningSegments)
  BY DEF Sound, Undone, Made, Kept, Replaced, Placed, Revision, AddSchoolIdToPlanningSegments
<1>3. Sound(3, PhotoClasseUrlText)
  BY DEF Sound, Undone, Made, Kept, Replaced, Placed, Revision, PhotoClasseUrlText
<1>4. Sound(4, AddPausesToSeances)
  BY DEF Sound, Undone, Made, Kept, Replaced, Placed, Revision, AddPausesToSeances
<1>5. Sound(5, AddGenreDateNaissanceStatutToEleves)
  BY DEF Sound, Undone, Made, Kept, Replaced, Placed, Revision,
         AddGenreDateNaissanceStatutToEleves
<1>6. Sound(6, AddDocumentsTable)
  BY PlainRevision DEF Sound, Replaced, Placed, AddDocumentsTable
<1>7. Sound(7, AddNiveauToUsers)
  BY PlainRevision DEF Sound, Replaced, Placed, AddNiveauToUsers
<1>8. Sound(8, AddSchoolClassesTable)
  BY PlainRevision DEF Sound, Replaced, Placed, AddSchoolClassesTable
<1>9. Sound(9, AddSuperviseurRole)
  BY DEF Sound, Undone, Made, Kept, Replaced, Placed, Revision, AddSuperviseurRole
<1>10. Sound(10, MigrateSuperviseurUsers)
  BY PlainRevision DEF Sound, Replaced, Placed, MigrateSuperviseurUsers
<1>11. Sound(11, AddManqueeToSeanceStatus)
  BY DEF Sound, Undone, Made, Kept, Replaced, Placed, Revision, AddManqueeToSeanceStatus
<1>12. Sound(12, AddEvaluationsElevesTable)
  BY PlainRevision DEF Sound, Replaced, Placed, AddEvaluationsElevesTable
<1>13. Sound(13, AddSupervisorPresenceChecksTable)
  BY PlainRevision DEF Sound, Replaced, Placed, AddSupervisorPresenceChecksTable
<1>14. Sound(14, AddPhotosClasseUrlToRapports)
  BY PlainRevision DEF Sound, Replaced, Placed, AddPhotosClasseUrlToRapports
<1>15. Sound(15, AddRapportQuestions)
  BY PlainRevision DEF Sound, Replaced, Placed, AddRapportQuestions
<1>16. Sound(16, AddEvaluationCompetences)
  BY PlainRevision DEF Sound, Replaced, Placed, AddEvaluationCompetences
<1>17. Sound(17, AddAuditLogsTable)
  BY PlainRevision DEF Sound, Replaced, Placed, AddAuditLogsTable
<1>18. Sound(18, AddPerfIndexes)
  BY DEF Sound, Undone, Made, Kept, Replaced, Placed, Revision, AddPerfIndexes
<1>19. Sound(19, AddResourceTypeAndEvaluationSujets)
  BY PlainRevision DEF Sound, Replaced, Placed, AddResourceTypeAndEvaluationSujets
<1>20. Sound(20, AddCodesEcoleEleve)
  BY PlainRevision DEF Sound, Replaced, Placed, AddCodesEcoleEleve
<1>21. Sound(21, AddEvaluationDocs)
  BY PlainRevision DEF Sound, Replaced, Placed, AddEvaluationDocs
<1>22. Sound(22, RemarquesUsageLogsSemaine)
  <2>1. RemarquesUsageLogsSemaine.drops = Replaced(22)
    BY DEF RemarquesUsageLogsSemaine, Revision, Replaced
  <2>2. RemarquesUsageLogsSemaine.restores = RemarquesUsageLogsSemaine.drops
    BY DEF RemarquesUsageLogsSemaine, Revision
  <2>3. RemarquesUsageLogsSemaine.undoes = Made(RemarquesUsageLogsSemaine)
    BY DEF RemarquesUsageLogsSemaine, Revision, Made
  <2>4. Placed(22, RemarquesUsageLogsSemaine.id)
    BY DEF RemarquesUsageLogsSemaine, Revision, Placed
  <2>5. QED  BY <2>1, <2>2, <2>3, <2>4 DEF Sound, Undone
<1>23. Sound(23, AddRapportDifficultes)
  BY PlainRevision DEF Sound, Replaced, Placed, AddRapportDifficultes
<1>24. Sound(24, AddRapportDifficulteResolutions)
  BY PlainRevision DEF Sound, Replaced, Placed, AddRapportDifficulteResolutions
<1>25. Sound(25, AddProgressionConfigs)
  BY PlainRevision DEF Sound, Replaced, Placed, AddProgressionConfigs
<1>26. Sound(26, AddLangueToSchools)
  BY PlainRevision DEF Sound, Replaced, Placed, AddLangueToSchools
<1>27. Sound(27, AddGroupeRechercheToUsers)
  BY PlainRevision DEF Sound, Replaced, Placed, AddGroupeRechercheToUsers
<1>28. Sound(28, AddEleveRemplacements)
  BY PlainRevision DEF Sound, Replaced, Placed, AddEleveRemplacements
<1>29. Sound(29, AddTokensValidFromToUsers)
  BY PlainRevision DEF Sound, Replaced, Placed, AddTokensValidFromToUsers
<1>30. Sound(30, AddLangueToDocuments)
  BY PlainRevision DEF Sound, Replaced, Placed, AddLangueToDocuments
<1>31. Sound(31, AddCibleToRapportQuestions)
  BY PlainRevision DEF Sound, Replaced, Placed, AddCibleToRapportQuestions
<1>32. Sound(32, AddRapportLibelles)
  BY PlainRevision DEF Sound, Replaced, Placed, AddRapportLibelles
<1>33. Sound(33, AddLangueToEvaluationSujets)
  BY PlainRevision DEF Sound, Replaced, Placed, AddLangueToEvaluationSujets
<1>34. Sound(34, AddJourCoursLibelle)
  BY PlainRevision DEF Sound, Replaced, Placed, AddJourCoursLibelle
<1>35. Sound(35, AddEvaluationResultats)
  BY PlainRevision DEF Sound, Replaced, Placed, AddEvaluationResultats
<1>36. Sound(36, AddLibellesSupervision)
  BY PlainRevision DEF Sound, Replaced, Placed, AddLibellesSupervision
<1>37. Sound(37, RetirerLibellesSuperviseurObsoletes)
  BY PlainRevision DEF Sound, Replaced, Placed, RetirerLibellesSuperviseurObsoletes
<1>38. Sound(38, AddGroupesRctStatutToEleves)
  BY PlainRevision DEF Sound, Replaced, Placed, AddGroupesRctStatutToEleves
<1>39. Sound(39, AddReponseAdminToRemarques)
  BY PlainRevision DEF Sound, Replaced, Placed, AddReponseAdminToRemarques
<1>40. Sound(40, AddSemainesToEvaluationDocs)
  BY PlainRevision DEF Sound, Replaced, Placed, AddSemainesToEvaluationDocs
<1>41. Sound(41, AddTimerTrackingFields)
  BY PlainRevision DEF Sound, Replaced, Placed, AddTimerTrackingFields
<1>42. \A i \in 1..Newest : i \in {1, 2, 3, 4, 5, 6, 7, 8, 9, 10, 11, 12, 13, 14, 15,
                                16, 17, 18, 19, 20, 21, 22, 23, 24, 25, 26, 27, 28,
                                29, 30, 31, 32, 33, 34, 35, 36, 37, 38, 39, 40, 41}
  BY ChainIs
<1>43. QED
  BY ChainIs, <1>42,
     <1>1, <1>2, <1>3, <1>4, <1>5, <1>6, <1>7, <1>8, <1>9, <1>10, <1>11, <1>12, <1>13,
     <1>14, <1>15, <1>16, <1>17, <1>18, <1>19, <1>20, <1>21, <1>22, <1>23, <1>24, <1>25,
     <1>26, <1>27, <1>28, <1>29, <1>30, <1>31, <1>32, <1>33, <1>34, <1>35, <1>36, <1>37,
     <1>38, <1>39, <1>40, <1>41

\* What the upgrades to a position make, one revision more.
LEMMA CreatedNext ==
  \A v \in 0..(Newest - 1) : Created(v + 1) = Created(v) \cup Made(Chain[v + 1])
<1> SUFFICES ASSUME NEW v \in 0..(Newest - 1)
             PROVE  Created(v + 1) = Created(v) \cup Made(Chain[v + 1])
  OBVIOUS
<1>1. Newest = 41  BY ChainIs
<1>2. 1..(v + 1) = (1..v) \cup {v + 1}  BY <1>1
<1>3. Created(v + 1) \subseteq Created(v) \cup Made(Chain[v + 1])
  BY <1>2 DEF Created, Made
<1>4. Created(v) \cup Made(Chain[v + 1]) \subseteq Created(v + 1)
  BY <1>2 DEF Created, Made
<1>5. QED  BY <1>3, <1>4

\* A newer position has made more.
LEMMA CreatedGrows ==
  \A v \in 0..Newest, w \in 0..Newest : v <= w => Created(v) \subseteq Created(w)
BY ChainIs DEF Created

\* What a position has made was made by one of its revisions.
LEMMA CreatedOrigin == \A v \in 0..Newest : \A x \in Created(v) : Origin(x) \in 1..v
<1> SUFFICES ASSUME NEW v \in 0..Newest, NEW x \in Created(v)
             PROVE  Origin(x) \in 1..v
  OBVIOUS
<1>1. PICK k \in 1..v : x \in Made(Chain[k])  BY DEF Created, Made
<1>2. k \in 1..Newest  BY ChainIs
<1>3. QED  BY <1>1, <1>2, ChainFresh DEF Fresh

\* The one key that is replaced is replaced from its revision on.
LEMMA DroppedIs ==
  \A v \in 0..Newest :
    Dropped(v) = IF v >= 22 THEN {"uq_planning_segment(jour)"} ELSE {}
<1> SUFFICES ASSUME NEW v \in 0..Newest
             PROVE  Dropped(v) = IF v >= 22 THEN {"uq_planning_segment(jour)"} ELSE {}
  OBVIOUS
<1>1. Newest = 41  BY ChainIs
<1>2. \A k \in 1..v : Chain[k].drops = Replaced(k)
  BY <1>1, ChainSound DEF Sound
<1>3. Dropped(v) = UNION {Replaced(k) : k \in 1..v}
  BY <1>2 DEF Dropped
<1>4. CASE v >= 22
  <2>1. 22 \in 1..v  BY <1>4, <1>1
  <2>2. QED  BY <1>3, <1>4, <2>1 DEF Replaced
<1>5. CASE v < 22
  <2>1. \A k \in 1..v : Replaced(k) = {}  BY <1>5 DEF Replaced
  <2>2. QED  BY <1>3, <1>5, <2>1
<1>6. QED  BY <1>1, <1>4, <1>5

\* The element of a revision is not of another.
LEMMA MadeOnce ==
  \A v \in 1..Newest : \A x \in Made(Chain[v]) : x \notin Created(v - 1)
<1> SUFFICES ASSUME NEW v \in 1..Newest, NEW x \in Made(Chain[v]), x \in Created(v - 1)
             PROVE  FALSE
  OBVIOUS
<1>1. Origin(x) = v  BY ChainFresh DEF Fresh
<1>2. v - 1 \in 0..Newest  BY ChainIs
<1>3. Origin(x) \in 1..(v - 1)  BY <1>2, CreatedOrigin
<1>4. QED  BY <1>1, <1>3, ChainIs

\* The replaced key is of the first revision.
LEMMA KeyOrigin ==
  /\ "uq_planning_segment(jour)" \in Made(Chain[1])
  /\ Origin("uq_planning_segment(jour)") = 1
<1>1. "uq_planning_segment(jour)" \in Made(Initial)  BY DEF Made, Initial, Revision
<1>2. QED  BY <1>1, ChainIs, ChainFresh DEF Fresh

-----------------------------------------------------------------------------
(* What one revision does to the schema *)

Held(v) == Created(v) \ Dropped(v)

\* S is what position v makes, with nothing beside but what is kept.
Tells(v, S) == Held(v) \subseteq S /\ S \subseteq Held(v) \cup Kept

\* An upgrade leads from one position to the next.
LEMMA TellsUp ==
  ASSUME NEW v \in 0..(Newest - 1), NEW S, Tells(v, S)
  PROVE  LET r == Chain[v + 1]
         IN Tells(v + 1, (S \ r.drops) \cup r.adds \cup r.ensures)
<1> DEFINE r == Chain[v + 1]
           T == (S \ r.drops) \cup Made(r)
<1>1. Newest = 41 /\ v \in 0..Newest /\ v + 1 \in 1..Newest /\ v + 1 \in 0..Newest
  BY ChainIs
<1>2. Created(v + 1) = Created(v) \cup Made(r)  BY CreatedNext
<1>3. Dropped(v + 1) = Dropped(v) \cup r.drops
  <2>1. r.drops = Replaced(v + 1)  BY <1>1, ChainSound DEF Sound
  <2>2. QED  BY <1>1, <2>1, DroppedIs DEF Replaced
<1>4. Made(r) \cap Dropped(v + 1) = {}
  <2>1. \A x \in Made(r) : Origin(x) = v + 1  BY <1>1, ChainFresh DEF Fresh
  <2>2. QED  BY <1>1, <2>1, DroppedIs, KeyOrigin
<1> HIDE DEF r
<1>5. Held(v + 1) \subseteq T  BY <1>2, <1>3 DEF Held, Tells
<1>6. T \subseteq Held(v + 1) \cup Kept  BY <1>2, <1>3, <1>4 DEF Held, Tells
<1>7. T = (S \ r.drops) \cup r.adds \cup r.ensures  BY DEF Made
<1>8. QED  BY <1>5, <1>6, <1>7 DEF Tells, r

\* A downgrade leads back.
LEMMA TellsDown ==
  ASSUME NEW v \in 1..Newest, NEW S, Tells(v, S), Chain[v].reversible
  PROVE  LET r == Chain[v]
         IN Tells(v - 1, (S \ r.undoes) \cup r.restores)
<1> DEFINE r == Chain[v]
           T == (S \ r.undoes) \cup r.restores
<1>1. Newest = 41 /\ v - 1 \in 0..(Newest - 1) /\ v - 1 \in 0..Newest /\ v \in 0..Newest
  BY ChainIs
<1>2. Created(v) = Created(v - 1) \cup Made(r)
  <2>1. (v - 1) + 1 = v  BY <1>1
  <2>2. QED  BY <1>1, <2>1, CreatedNext
<1>3. r.drops = Replaced(v) /\ Undone(r)  BY ChainSound DEF Sound
<1>4. Dropped(v) = Dropped(v - 1) \cup r.drops
  BY <1>1, <1>3, DroppedIs DEF Replaced
<1>5. r.drops \cap Dropped(v - 1) = {}
  BY <1>1, <1>3, DroppedIs DEF Replaced
<1>6. r.drops \subseteq Created(v - 1)
  <2>1. CASE v = 22
    <3>1. 1 \in 1..(v - 1)  BY <2>1
    <3>2. Made(Chain[1]) \subseteq Created(v - 1)  BY <3>1 DEF Created, Made
    <3>3. QED  BY <1>3, <3>2, KeyOrigin DEF Replaced
  <2>2. CASE v # 22  BY <1>3, <2>2 DEF Replaced
  <2>3. QED  BY <2>1, <2>2
<1>7. r.undoes \cap Created(v - 1) = {}  BY <1>3, MadeOnce DEF Undone
<1>8. r.restores = r.drops /\ Made(r) \ r.undoes \subseteq Kept  BY <1>3 DEF Undone
<1> HIDE DEF r
<1>9. Held(v - 1) \subseteq T
  BY <1>2, <1>4, <1>7, <1>8 DEF Held, Tells
<1>10. T \subseteq Held(v - 1) \cup Kept
  BY <1>2, <1>4, <1>5, <1>6, <1>8 DEF Held, Tells
<1>11. QED  BY <1>9, <1>10 DEF Tells, r

-----------------------------------------------------------------------------
(* What the models expect *)

\* Elements that the newest position holds.
Fits(M) == M \subseteq Created(Newest) /\ "uq_planning_segment(jour)" \notin M

\* Whatever a revision makes is made at the newest position.
LEMMA MadeInTheEnd == \A i \in 1..Newest : Made(Chain[i]) \subseteq Created(Newest)
BY DEF Created, Made

\* What is kept has been made.
LEMMA KeptIsMade == Kept \subseteq Created(Newest)
<1>1. /\ Made(PhotoClasseUrlText) \subseteq Created(Newest)
      /\ Made(AddGenreDateNaissanceStatutToEleves) \subseteq Created(Newest)
      /\ Made(AddManqueeToSeanceStatus) \subseteq Created(Newest)
  BY ChainIs, MadeInTheEnd
<1>2. QED
  BY <1>1 DEF Kept, Made, Revision, PhotoClasseUrlText, AddManqueeToSeanceStatus,
              AddGenreDateNaissanceStatutToEleves

\* Every table, column and value of the models is made by a revision, and none is the key
\* that was replaced.
LEMMA ModelsFit == Fits(Models)
<1>1. Fits(AuditLog)
  <2>1. Made(AddAuditLogsTable) \subseteq Created(Newest)
    BY ChainIs, MadeInTheEnd
  <2>2. QED
    BY <2>1 DEF Fits, AuditLog, Made, Revision, AddAuditLogsTable
<1>2. Fits(Document)
  <2>1. /\ Made(AddDocumentsTable) \subseteq Created(Newest)
        /\ Made(AddResourceTypeAndEvaluationSujets) \subseteq Created(Newest)
        /\ Made(AddLangueToDocuments) \subseteq Created(Newest)
    BY ChainIs, MadeInTheEnd
  <2>2. QED
    BY <2>1 DEF Fits, Document, Made, Revision, AddDocumentsTable,
           AddResourceTypeAndEvaluationSujets, AddLangueToDocuments
<1>3. Fits(Eleve)
  <2>1. /\ Made(AddGenreDateNaissanceStatutToEleves) \subseteq Created(Newest)
        /\ Made(AddCodesEcoleEleve) \subseteq Created(Newest)
        /\ Made(AddGroupesRctStatutToEleves) \subseteq Created(Newest)
    BY ChainIs, MadeInTheEnd
  <2>2. QED
    BY <2>1 DEF Fits, Eleve, Made, Revision, AddGenreDateNaissanceStatutToEleves,
           AddCodesEcoleEleve, AddGroupesRctStatutToEleves
<1>4. Fits(EleveRemplacement)
  <2>1. Made(AddEleveRemplacements) \subseteq Created(Newest)
    BY ChainIs, MadeInTheEnd
  <2>2. QED
    BY <2>1 DEF Fits, EleveRemplacement, Made, Revision, AddEleveRemplacements
<1>5. Fits(EvaluationCompetence)
  <2>1. Made(AddEvaluationCompetences) \subseteq Created(Newest)
    BY ChainIs, MadeInTheEnd
  <2>2. QED
    BY <2>1 DEF Fits, EvaluationCompetence, Made, Revision,
           AddEvaluationCompetences
<1>6. Fits(EvaluationDoc)
  <2>1. /\ Made(AddEvaluationDocs) \subseteq Created(Newest)
        /\ Made(AddSemainesToEvaluationDocs) \subseteq Created(Newest)
    BY ChainIs, MadeInTheEnd
  <2>2. QED
    BY <2>1 DEF Fits, EvaluationDoc, Made, Revision, AddEvaluationDocs,
           AddSemainesToEvaluationDocs
<1>7. Fits(EvaluationEleve)
  <2>1. Made(AddEvaluationsElevesTable) \subseteq Created(Newest)
    BY ChainIs, MadeInTheEnd
  <2>2. QED
    BY <2>1 DEF Fits, EvaluationEleve, Made, Revision, AddEvaluationsElevesTable
<1>8. Fits(EvaluationResultat)
  <2>1. Made(AddEvaluationResultats) \subseteq Created(Newest)
    BY ChainIs, MadeInTheEnd
  <2>2. QED
    BY <2>1 DEF Fits, EvaluationResultat, Made, Revision, AddEvaluationResultats
<1>9. Fits(EvaluationSujet)
  <2>1. /\ Made(AddResourceTypeAndEvaluationSujets) \subseteq Created(Newest)
        /\ Made(AddLangueToEvaluationSujets) \subseteq Created(Newest)
    BY ChainIs, MadeInTheEnd
  <2>2. QED
    BY <2>1 DEF Fits, EvaluationSujet, Made, Revision,
           AddResourceTypeAndEvaluationSujets, AddLangueToEvaluationSujets
<1>10. Fits(EvaluationTirage)
  <2>1. /\ Made(AddResourceTypeAndEvaluationSujets) \subseteq Created(Newest)
        /\ Made(RemarquesUsageLogsSemaine) \subseteq Created(Newest)
    BY ChainIs, MadeInTheEnd
  <2>2. QED
    BY <2>1 DEF Fits, EvaluationTirage, Made, Revision,
           AddResourceTypeAndEvaluationSujets, RemarquesUsageLogsSemaine
<1>11. Fits(PlanningSegment)
  <2>1. /\ Made(Initial) \subseteq Created(Newest)
        /\ Made(AddSchoolIdToPlanningSegments) \subseteq Created(Newest)
        /\ Made(RemarquesUsageLogsSemaine) \subseteq Created(Newest)
    BY ChainIs, MadeInTheEnd
  <2>2. QED
    BY <2>1 DEF Fits, PlanningSegment, Made, Revision, Initial,
           AddSchoolIdToPlanningSegments, RemarquesUsageLogsSemaine
<1>12. Fits(ProgressionConfig)
  <2>1. Made(AddProgressionConfigs) \subseteq Created(Newest)
    BY ChainIs, MadeInTheEnd
  <2>2. QED
    BY <2>1 DEF Fits, ProgressionConfig, Made, Revision, AddProgressionConfigs
<1>13. Fits(RapportDifficulte)
  <2>1. Made(AddRapportDifficultes) \subseteq Created(Newest)
    BY ChainIs, MadeInTheEnd
  <2>2. QED
    BY <2>1 DEF Fits, RapportDifficulte, Made, Revision, AddRapportDifficultes
<1>14. Fits(RapportDifficulteResolution)
  <2>1. Made(AddRapportDifficulteResolutions) \subseteq Created(Newest)
    BY ChainIs, MadeInTheEnd
  <2>2. QED
    BY <2>1 DEF Fits, RapportDifficulteResolution, Made, Revision,
           AddRapportDifficulteResolutions
<1>15. Fits(RapportJournalier)
  <2>1. /\ Made(PhotoClasseUrlText) \subseteq Created(Newest)
        /\ Made(AddPhotosClasseUrlToRapports) \subseteq Created(Newest)
        /\ Made(AddRapportQuestions) \subseteq Created(Newest)
    BY ChainIs, MadeInTheEnd
  <2>2. QED
    BY <2>1 DEF Fits, RapportJournalier, Made, Revision, PhotoClasseUrlText,
           AddPhotosClasseUrlToRapports, AddRapportQuestions
<1>16. Fits(RapportLibelle)
  <2>1. Made(AddRapportLibelles) \subseteq Created(Newest)
    BY ChainIs, MadeInTheEnd
  <2>2. QED
    BY <2>1 DEF Fits, RapportLibelle, Made, Revision, AddRapportLibelles
<1>17. Fits(RapportQuestion)
  <2>1. /\ Made(AddRapportQuestions) \subseteq Created(Newest)
        /\ Made(AddCibleToRapportQuestions) \subseteq Created(Newest)
    BY ChainIs, MadeInTheEnd
  <2>2. QED
    BY <2>1 DEF Fits, RapportQuestion, Made, Revision, AddRapportQuestions,
           AddCibleToRapportQuestions
<1>18. Fits(Remarque)
  <2>1. /\ Made(RemarquesUsageLogsSemaine) \subseteq Created(Newest)
        /\ Made(AddReponseAdminToRemarques) \subseteq Created(Newest)
    BY ChainIs, MadeInTheEnd
  <2>2. QED
    BY <2>1 DEF Fits, Remarque, Made, Revision, RemarquesUsageLogsSemaine,
           AddReponseAdminToRemarques
<1>19. Fits(School)
  <2>1. /\ Made(Initial) \subseteq Created(Newest)
        /\ Made(AddCodesEcoleEleve) \subseteq Created(Newest)
        /\ Made(AddLangueToSchools) \subseteq Created(Newest)
    BY ChainIs, MadeInTheEnd
  <2>2. QED
    BY <2>1 DEF Fits, School, Made, Revision, Initial, AddCodesEcoleEleve,
           AddLangueToSchools
<1>20. Fits(SchoolClasse)
  <2>1. Made(AddSchoolClassesTable) \subseteq Created(Newest)
    BY ChainIs, MadeInTheEnd
  <2>2. QED
    BY <2>1 DEF Fits, SchoolClasse, Made, Revision, AddSchoolClassesTable
<1>21. Fits(Seance)
  <2>1. /\ Made(Initial) \subseteq Created(Newest)
        /\ Made(AddPausesToSeances) \subseteq Created(Newest)
        /\ Made(AddManqueeToSeanceStatus) \subseteq Created(Newest)
        /\ Made(AddTimerTrackingFields) \subseteq Created(Newest)
    BY ChainIs, MadeInTheEnd
  <2>2. QED
    BY <2>1 DEF Fits, Seance, Made, Revision, Initial, AddPausesToSeances,
           AddManqueeToSeanceStatus, AddTimerTrackingFields
<1>22. Fits(RapportProf)
  <2>1. Made(Initial) \subseteq Created(Newest)
    BY ChainIs, MadeInTheEnd
  <2>2. QED
    BY <2>1 DEF Fits, RapportProf, Made, Revision, Initial
<1>23. Fits(ProgramSession)
  <2>1. Made(Initial) \subseteq Created(Newest)
    BY ChainIs, MadeInTheEnd
  <2>2. QED
    BY <2>1 DEF Fits, ProgramSession, Made, Revision, Initial
<1>24. Fits(SupervisorPresenceCheck)
  <2>1. /\ Made(AddSupervisorPresenceChecksTable) \subseteq Created(Newest)
        /\ Made(RemarquesUsageLogsSemaine) \subseteq Created(Newest)
    BY ChainIs, MadeInTheEnd
  <2>2. QED
    BY <2>1 DEF Fits, SupervisorPresenceCheck, Made, Revision,
           AddSupervisorPresenceChecksTable, RemarquesUsageLogsSemaine
<1>25. Fits(UsageLog)
  <2>1. /\ Made(RemarquesUsageLogsSemaine) \subseteq Created(Newest)
        /\ Made(AddTimerTrackingFields) \subseteq Created(Newest)
    BY ChainIs, MadeInTheEnd
  <2>2. QED
    BY <2>1 DEF Fits, UsageLog, Made, Revision, RemarquesUsageLogsSemaine,
           AddTimerTrackingFields
<1>26. Fits(User)
  <2>1. /\ Made(Initial) \subseteq Created(Newest)
        /\ Made(AddNiveauToUsers) \subseteq Created(Newest)
        /\ Made(AddSuperviseurRole) \subseteq Created(Newest)
        /\ Made(RemarquesUsageLogsSemaine) \subseteq Created(Newest)
        /\ Made(AddGroupeRechercheToUsers) \subseteq Created(Newest)
        /\ Made(AddTokensValidFromToUsers) \subseteq Created(Newest)
    BY ChainIs, MadeInTheEnd
  <2>2. QED
    BY <2>1 DEF Fits, User, Made, Revision, Initial, AddNiveauToUsers,
           AddSuperviseurRole, RemarquesUsageLogsSemaine, AddGroupeRechercheToUsers,
           AddTokensValidFromToUsers
<1>27. QED
  BY <1>1, <1>2, <1>3, <1>4, <1>5, <1>6, <1>7, <1>8, <1>9, <1>10, <1>11, <1>12,
     <1>13, <1>14, <1>15, <1>16, <1>17, <1>18, <1>19, <1>20, <1>21, <1>22, <1>23, <1>24,
     <1>25, <1>26 DEF Fits, Models

\* What a served image expects is held at its position and at any after it.
LEMMA ExpectedHeld ==
  ASSUME NEW i \in 1..Newest, NEW v \in 0..Newest, i <= v
  PROVE  Expected(i) \subseteq Held(v)
<1>1. i \in 0..Newest /\ Newest \in 0..Newest  BY ChainIs
<1>2. CASE i = Newest
  <2>1. v = Newest  BY <1>2, ChainIs
  <2>2. Dropped(Newest) = {"uq_planning_segment(jour)"}  BY ChainIs, DroppedIs
  <2>3. QED  BY <1>2, <2>1, <2>2, ModelsFit DEF Expected, Held, Fits
<1>3. CASE i # Newest
  <2>1. Created(i) \subseteq Created(v)  BY <1>1, CreatedGrows
  <2>2. Dropped(v) \subseteq Dropped(Newest)  BY <1>1, ChainIs, DroppedIs
  <2>3. QED  BY <1>3, <2>1, <2>2 DEF Expected, Held
<1>4. QED  BY <1>2, <1>3

-----------------------------------------------------------------------------
(* The inductive invariant *)

\* The container's command runs while the backend upgrades, towards the head of its image
\* and not beyond the database; a backend serves no less than its image; a downgrade has
\* the backend down.
Commands ==
  /\ alembic["conteneur"].running <=> backend.phase = "upgrade"
  /\ backend.phase = "upgrade" =>
       /\ alembic["conteneur"].to = backend.image
       /\ alembic["conteneur"].pos <= backend.image
       /\ alembic["conteneur"].pos <= version
  /\ backend.phase = "serving" => backend.image <= version
  /\ \A p \in Processes : Downgrades(p) => backend.phase = "down"

Rows == compte.role = "superviseur" => "user_role.superviseur" \in schema

Early == version <= 9 /\ (\A i \in Images : i > 9) => compte.role = "coordonnateur"

\* The groups of keys of rapport_libelles at a position.
Groups(v) == (IF v >= 32 THEN {"tuteur"} ELSE {})
             \cup (IF v \in 32..36 THEN {"obsoletes"} ELSE {})
             \cup (IF v >= 34 THEN {"jour_cours"} ELSE {})
             \cup (IF v >= 36 THEN {"supervision"} ELSE {})

Data == Tells(version, schema) /\ libelles = Groups(version) /\ Rows /\ Early

IInv == TypeOK /\ Data /\ Commands

\* The invariant, but for the commands, is what VersionTells says.
LEMMA DataTells == TypeOK /\ Data => VersionTells
BY DEF Data, VersionTells, Tells, Held, Groups, Rows, Early

-----------------------------------------------------------------------------
(* Revisions *)

\* What an upgrade does to the keys: those of a position become those of the next.
LEMMA GroupsUp ==
  ASSUME NEW v \in 0..(Newest - 1), libelles = Groups(v)
  PROVE  LibellesUp(Chain[v + 1].id) = Groups(v + 1)
<1> DEFINE id == Chain[v + 1].id
<1>1. Newest = 41 /\ Placed(v + 1, id)  BY ChainIs, ChainSound DEF Sound
<1> HIDE DEF id
<1>2. CASE v + 1 = 32
  <2>1. id = "e4f5a6b7c8d9"  BY <1>1, <1>2 DEF Placed
  <2>2. QED  BY <1>2, <2>1 DEF LibellesUp, Groups, id
<1>3. CASE v + 1 = 34
  <2>1. id = "z9a0b1c2d3e4"  BY <1>1, <1>3 DEF Placed
  <2>2. QED  BY <1>3, <2>1 DEF LibellesUp, Groups, id
<1>4. CASE v + 1 = 36
  <2>1. id = "b1c2d3e4f5a6"  BY <1>1, <1>4 DEF Placed
  <2>2. QED  BY <1>4, <2>1 DEF LibellesUp, Groups, id
<1>5. CASE v + 1 = 37
  <2>1. id = "c2d3e4f5a6b7"  BY <1>1, <1>5 DEF Placed
  <2>2. QED  BY <1>5, <2>1 DEF LibellesUp, Groups, id
<1>6. CASE v + 1 \notin {32, 34, 36, 37}
  <2>1. id \notin {"e4f5a6b7c8d9", "z9a0b1c2d3e4", "b1c2d3e4f5a6", "c2d3e4f5a6b7"}
    BY <1>1, <1>6 DEF Placed
  <2>2. LibellesUp(id) = libelles  BY <2>1 DEF LibellesUp
  <2>3. Groups(v + 1) = Groups(v)  BY <1>1, <1>6 DEF Groups
  <2>4. QED  BY <2>2, <2>3 DEF id
<1>7. QED  BY <1>2, <1>3, <1>4, <1>5, <1>6

\* And a downgrade brings back those of the position before.
LEMMA GroupsDown ==
  ASSUME NEW v \in 1..Newest, libelles = Groups(v)
  PROVE  LibellesDown(Chain[v].id) = Groups(v - 1)
<1> DEFINE id == Chain[v].id
<1>1. Newest = 41 /\ Placed(v, id)  BY ChainIs, ChainSound DEF Sound
<1> HIDE DEF id
<1>2. CASE v = 32
  <2>1. id = "e4f5a6b7c8d9"  BY <1>1, <1>2 DEF Placed
  <2>2. QED  BY <1>2, <2>1 DEF LibellesDown, Groups, id
<1>3. CASE v = 34
  <2>1. id = "z9a0b1c2d3e4"  BY <1>1, <1>3 DEF Placed
  <2>2. QED  BY <1>3, <2>1 DEF LibellesDown, Groups, id
<1>4. CASE v = 36
  <2>1. id = "b1c2d3e4f5a6"  BY <1>1, <1>4 DEF Placed
  <2>2. QED  BY <1>4, <2>1 DEF LibellesDown, Groups, id
<1>5. CASE v = 37
  <2>1. id = "c2d3e4f5a6b7"  BY <1>1, <1>5 DEF Placed
  <2>2. QED  BY <1>5, <2>1 DEF LibellesDown, Groups, id
<1>6. CASE v \notin {32, 34, 36, 37}
  <2>1. id \notin {"e4f5a6b7c8d9", "z9a0b1c2d3e4", "b1c2d3e4f5a6", "c2d3e4f5a6b7"}
    BY <1>1, <1>6 DEF Placed
  <2>2. LibellesDown(id) = libelles  BY <2>1 DEF LibellesDown
  <2>3. Groups(v - 1) = Groups(v)  BY <1>1, <1>6 DEF Groups
  <2>4. QED  BY <2>2, <2>3 DEF id
<1>7. QED  BY <1>2, <1>3, <1>4, <1>5, <1>6

\* The value of the role is made by the revision before the one that uses it.
LEMMA RoleOrigin ==
  /\ "user_role.superviseur" \in Made(Chain[9])
  /\ Origin("user_role.superviseur") = 9
<1>1. "user_role.superviseur" \in Made(AddSuperviseurRole)
  BY DEF Made, AddSuperviseurRole, Revision
<1>2. QED  BY <1>1, ChainIs, ChainFresh DEF Fresh

\* What is told of the schema is in the schema's type.
LEMMA TellsType ==
  ASSUME NEW v \in 0..Newest, NEW S, Tells(v, S)
  PROVE  S \subseteq Created(Newest)
<1>1. Created(v) \subseteq Created(Newest)  BY ChainIs, CreatedGrows
<1>2. QED  BY <1>1, KeptIsMade DEF Tells, Held

\* One revision up.
LEMMA UpgradeStep ==
  ASSUME IInv, NEW p \in Processes, Upgrade(p)
  PROVE  IInv'
<1> DEFINE r == Chain[version + 1]
<1>1. Newest = 41  BY ChainIs
<1>2. /\ alembic[p] \in [pos : 0..Newest, to : 0..Newest, running : BOOLEAN]
      /\ version = alembic[p].pos /\ alembic[p].running
      /\ version < alembic[p].to
  BY DEF IInv, TypeOK, Upgrade, Upgrades, VersionMatches
<1>3. version \in 0..(Newest - 1) /\ version' = version + 1 /\ version' \in 0..Newest
  BY <1>1, <1>2 DEF Upgrade
<1>4. /\ CanUpgrade(r)
      /\ schema' = (schema \ r.drops) \cup r.adds \cup r.ensures
      /\ libelles' = LibellesUp(r.id)
      /\ compte' = RoleUp(r.id)
  BY <1>2 DEF Upgrade, NextUp
<1>5. Sound(version', r)  BY <1>1, <1>3, ChainSound
<1> HIDE DEF r
<1>6. Tells(version', schema')
  BY <1>3, <1>4, TellsUp DEF IInv, Data, r
<1>7. libelles' = Groups(version')
  BY <1>3, <1>4, GroupsUp DEF IInv, Data, r
<1>8. "user_role.superviseur" \in schema => "user_role.superviseur" \in schema'
  BY <1>4, <1>5 DEF Sound, Replaced
<1>9. compte' = compte \/ version' = 10
  <2>1. r.id = "b0c1d2e3f4a5" => version' = 10  BY <1>5 DEF Sound, Placed
  <2>2. r.id # "b0c1d2e3f4a5" => compte' = compte  BY <1>4 DEF RoleUp
  <2>3. QED  BY <2>1, <2>2
<1>10. Rows'
  <2>1. CASE compte' = compte  BY <2>1, <1>8 DEF IInv, Data, Rows
  <2>2. CASE version' = 10
    <3>1. r = MigrateSuperviseurUsers  BY <2>2, <1>3, ChainIs DEF r
    <3>2. r.needs = {"users", "user_role.superviseur"}
      BY <3>1 DEF MigrateSuperviseurUsers, Revision
    <3>3. QED  BY <3>2, <1>4, <1>8 DEF Rows, CanUpgrade
  <2>3. QED  BY <1>9, <2>1, <2>2
<1>11. Early'
  BY <1>3, <1>9 DEF IInv, Data, Early
<1>12. /\ compte' \in [role : {"coordonnateur", "superviseur"}, superviseur : BOOLEAN]
       /\ libelles' \subseteq {"tuteur", "obsoletes", "jour_cours", "supervision"}
       /\ schema' \subseteq Created(Newest)
  <2>1. compte' \in [role : {"coordonnateur", "superviseur"}, superviseur : BOOLEAN]
    BY <1>4 DEF RoleUp, IInv, TypeOK
  <2>2. QED  BY <2>1, <1>3, <1>6, <1>7, TellsType DEF Groups
<1>13. alembic' = [alembic EXCEPT ![p].pos = version + 1]
  BY <1>2 DEF Upgrade
<1>14. alembic' \in [Processes -> [pos : 0..Newest, to : 0..Newest, running : BOOLEAN]]
  BY <1>2, <1>3, <1>13 DEF IInv, TypeOK
<1>15. TypeOK'
  BY <1>3, <1>12, <1>14 DEF IInv, TypeOK, Upgrade
<1>16. /\ alembic'[p] = Command(version + 1, alembic[p].to)
       /\ \A q \in Processes : q # p => alembic'[q] = alembic[q]
  BY <1>2, <1>13 DEF IInv, TypeOK, Command
<1>17. Commands'
  <2>1. backend' = backend /\ backend.image \in 1..Newest
    BY MigrationsAssumption DEF Upgrade, IInv, TypeOK
  <2>2. \A q \in Processes : Downgrades(q)' => backend'.phase = "down"
    <3>1. ~Downgrades(p)'  BY <1>1, <1>2, <1>3, <1>16 DEF Downgrades, Command
    <3>2. ASSUME NEW q \in Processes, q # p, Downgrades(q)'
          PROVE  Downgrades(q)
      BY <1>16, <3>2 DEF Downgrades
    <3>3. QED  BY <3>1, <3>2, <2>1 DEF IInv, Commands
  <2>3. CASE p = "conteneur"
    BY <1>1, <1>2, <1>3, <1>16, <2>1, <2>2, <2>3 DEF IInv, Commands, Command
  <2>4. CASE p # "conteneur"
    <3>1. alembic'["conteneur"] = alembic["conteneur"]
      BY <1>16, <2>4 DEF Processes
    <3>2. alembic["conteneur"].pos \in 0..Newest  BY DEF Processes, IInv, TypeOK
    <3>3. QED
      BY <1>1, <1>3, <2>1, <2>2, <3>1, <3>2 DEF IInv, Commands
  <2>5. QED  BY <2>3, <2>4
<1>18. QED  BY <1>6, <1>7, <1>10, <1>11, <1>15, <1>17 DEF IInv, Data

\* One revision down.
LEMMA DowngradeStep ==
  ASSUME IInv, NEW p \in Processes, Downgrade(p)
  PROVE  IInv'
<1> DEFINE r == Chain[version]
<1>1. Newest = 41  BY ChainIs
<1>2. /\ alembic[p] \in [pos : 0..Newest, to : 0..Newest, running : BOOLEAN]
      /\ version = alembic[p].pos /\ alembic[p].running
      /\ alembic[p].to < version
      /\ backend.phase = "down"
  BY DEF IInv, TypeOK, Commands, Downgrade, Downgrades, VersionMatches
<1>3. version \in 1..Newest /\ version' = version - 1 /\ version' \in 0..Newest
  BY <1>1, <1>2 DEF Downgrade
<1>4. /\ CanDowngrade(r)
      /\ schema' = (schema \ r.undoes) \cup r.restores
      /\ libelles' = LibellesDown(r.id)
      /\ compte' = RoleDown(r.id)
  BY <1>2 DEF Downgrade, NextDown
<1>5. Sound(version, r) /\ Fresh(version, r)  BY <1>3, ChainSound, ChainFresh
<1> HIDE DEF r
<1>6. Tells(version', schema')
  BY <1>3, <1>4, TellsDown DEF IInv, Data, CanDowngrade, r
<1>7. libelles' = Groups(version')
  BY <1>3, <1>4, GroupsDown DEF IInv, Data, r
<1>8. Rows'
  <2>1. SUFFICES ASSUME compte'.role = "superviseur"
                 PROVE  "user_role.superviseur" \in schema'
    BY DEF Rows
  <2>2. compte.role = "superviseur"  BY <1>4, <2>1 DEF RoleDown
  <2>3. "user_role.superviseur" \in schema  BY <2>2 DEF IInv, Data, Rows
  <2>4. ASSUME "user_role.superviseur" \in r.undoes
        PROVE  FALSE
    <3>1. version = 9
      BY <1>5, <2>4, RoleOrigin DEF Sound, Undone, Fresh
    <3>2. r.id = "a9f1b2c3d4e5"  BY <3>1, <1>5 DEF Sound, Placed
    <3>3. QED  BY <3>2, <2>2, <1>4 DEF CanDowngrade, Blocked
  <2>5. QED  BY <1>4, <2>3, <2>4
<1>9. compte' \in [role : {"coordonnateur", "superviseur"}, superviseur : BOOLEAN]
  BY <1>4 DEF RoleDown, IInv, TypeOK
<1>10. Early'
  <2>1. SUFFICES ASSUME version' <= 9, \A i \in Images : i > 9
                 PROVE  compte'.role = "coordonnateur"
    BY DEF Early
  <2>2. CASE version = 10
    <3>1. r.id = "b0c1d2e3f4a5"  BY <1>5, <2>2 DEF Sound, Placed
    <3>2. compte.role = "superviseur" \/ compte.role = "coordonnateur"
      BY DEF IInv, TypeOK
    <3>3. QED  BY <3>1, <3>2, <1>4 DEF RoleDown
  <2>3. CASE version # 10
    <3>1. compte.role = "coordonnateur"
      BY <1>1, <1>3, <2>1, <2>3 DEF IInv, Data, Early
    <3>2. QED  BY <3>1, <1>4 DEF RoleDown
  <2>4. QED  BY <2>2, <2>3
<1>11. alembic' = [alembic EXCEPT ![p].pos = version - 1]
  BY <1>2 DEF Downgrade
<1>12. alembic' \in [Processes -> [pos : 0..Newest, to : 0..Newest, running : BOOLEAN]]
  BY <1>2, <1>3, <1>11 DEF IInv, TypeOK
<1>13. TypeOK'
  <2>1. libelles' \subseteq {"tuteur", "obsoletes", "jour_cours", "supervision"}
    BY <1>7 DEF Groups
  <2>2. schema' \subseteq Created(Newest)  BY <1>3, <1>6, TellsType
  <2>3. QED  BY <1>3, <1>9, <1>12, <2>1, <2>2 DEF IInv, TypeOK, Downgrade
<1>14. Commands'
  <2>1. backend' = backend  BY DEF Downgrade
  <2>2. alembic'["conteneur"].running <=> alembic["conteneur"].running
    <3>1. alembic'[p] = Command(version - 1, alembic[p].to)
      BY <1>2, <1>11 DEF IInv, TypeOK, Command
    <3>2. \A q \in Processes : q # p => alembic'[q] = alembic[q]
      BY <1>11 DEF IInv, TypeOK
    <3>3. CASE p = "conteneur"  BY <3>1, <3>3, <1>2 DEF Command
    <3>4. CASE p # "conteneur"
      <4>1. alembic'["conteneur"] = alembic["conteneur"]
        BY <3>2, <3>4 DEF Processes
      <4>2. QED  BY <4>1
    <3>5. QED  BY <3>3, <3>4
  <2>3. QED  BY <1>2, <2>1, <2>2 DEF IInv, Commands
<1>15. QED  BY <1>6, <1>7, <1>8, <1>10, <1>13, <1>14 DEF IInv, Data

-----------------------------------------------------------------------------
(* Commands *)

\* What the tables hold stays when none of it changes.
LEMMA DataKept ==
  ASSUME Data, UNCHANGED <<version, schema, libelles, compte>>
  PROVE  Data'
BY DEF Data, Tells, Held, Groups, Rows, Early

\* A command ends.
LEMMA EndsStep ==
  ASSUME IInv, NEW p \in Processes, Ends(p)
  PROVE  IInv'
<1>1. Newest = 41  BY ChainIs
<1>2. Data'  BY DataKept DEF Ends, IInv
<1>3. NoCommand \in [pos : 0..Newest, to : 0..Newest, running : BOOLEAN]
  BY <1>1 DEF NoCommand
<1>4. /\ alembic'[p] = NoCommand
      /\ \A q \in Processes : q # p => alembic'[q] = alembic[q]
      /\ alembic' \in [Processes -> [pos : 0..Newest, to : 0..Newest, running : BOOLEAN]]
  BY <1>3 DEF Ends, IInv, TypeOK
<1>5. /\ backend'.image = backend.image
      /\ backend' \in [image : Images, phase : {"down", "upgrade", "serving"}]
      /\ p = "conteneur" =>
           backend'.phase = IF backend.phase = "upgrade" THEN "down" ELSE backend.phase
      /\ p # "conteneur" => backend' = backend
  BY DEF Ends, Down, IInv, TypeOK
<1>6. TypeOK'  BY <1>4, <1>5 DEF Ends, IInv, TypeOK
<1>7. \A q \in Processes : Downgrades(q)' => Downgrades(q)
  BY <1>4 DEF Downgrades, NoCommand
<1>8. version' = version  BY DEF Ends
<1>9. Commands'
  <2>1. CASE p = "conteneur"
    <3>1. ~alembic'["conteneur"].running  BY <1>4, <2>1 DEF NoCommand
    <3>2. backend'.phase # "upgrade"  BY <1>5, <2>1
    <3>3. QED  BY <1>5, <1>7, <1>8, <2>1, <3>1, <3>2 DEF IInv, Commands
  <2>2. CASE p # "conteneur"
    <3>1. alembic'["conteneur"] = alembic["conteneur"]
      BY <1>4, <2>2 DEF Processes
    <3>2. QED  BY <1>5, <1>7, <1>8, <2>2, <3>1 DEF IInv, Commands
  <2>3. QED  BY <2>1, <2>2
<1>10. QED  BY <1>2, <1>6, <1>9 DEF IInv

\* A container starts, and its command with it.
LEMMA StartContainerStep ==
  ASSUME IInv, StartContainer
  PROVE  IInv'
<1>1. Data'  BY DataKept DEF StartContainer, IInv
<1>2. backend.image \in 1..Newest /\ backend.image \in 0..Newest /\ version \in 0..Newest
  <2>1. backend.image \in Images /\ version \in 0..Newest  BY DEF IInv, TypeOK
  <2>2. backend.image \in 1..Newest  BY <2>1, MigrationsAssumption
  <2>3. Newest = 41  BY ChainIs
  <2>4. QED  BY <2>1, <2>2, <2>3
<1>3. /\ alembic'["conteneur"] = Command(version, backend.image)
      /\ \A q \in Processes : q # "conteneur" => alembic'[q] = alembic[q]
      /\ alembic' \in [Processes -> [pos : 0..Newest, to : 0..Newest, running : BOOLEAN]]
  BY <1>2 DEF StartContainer, IInv, TypeOK, Processes, Command
<1>4. /\ backend'.image = backend.image /\ backend'.phase = "upgrade"
      /\ backend' \in [image : Images, phase : {"down", "upgrade", "serving"}]
  BY DEF StartContainer, IInv, TypeOK
<1>5. TypeOK'  BY <1>3, <1>4 DEF StartContainer, IInv, TypeOK
<1>6. \A q \in Processes : ~Downgrades(q)'
  <2>1. ~Downgrades("conteneur")'
    BY <1>2, <1>3, ChainIs DEF StartContainer, Downgrades, Command
  <2>2. QED  BY <1>3, <2>1 DEF StartContainer, Downgrading, Downgrades
<1>7. Commands'
  BY <1>2, <1>3, <1>4, <1>6 DEF StartContainer, Commands, Command
<1>8. QED  BY <1>1, <1>5, <1>7 DEF IInv

\* The container serves.
LEMMA ServeStep ==
  ASSUME IInv, Serve
  PROVE  IInv'
<1>1. Data'  BY DataKept DEF Serve, IInv
<1>2. NoCommand \in [pos : 0..Newest, to : 0..Newest, running : BOOLEAN]
  BY ChainIs DEF NoCommand
<1>3. /\ alembic'["conteneur"] = NoCommand
      /\ \A q \in Processes : q # "conteneur" => alembic'[q] = alembic[q]
      /\ alembic' \in [Processes -> [pos : 0..Newest, to : 0..Newest, running : BOOLEAN]]
  BY <1>2 DEF Serve, IInv, TypeOK, Processes
<1>4. /\ backend'.image = backend.image /\ backend'.phase = "serving"
      /\ backend' \in [image : Images, phase : {"down", "upgrade", "serving"}]
  BY DEF Serve, IInv, TypeOK
<1>5. TypeOK'  BY <1>3, <1>4 DEF Serve, IInv, TypeOK
<1>6. \A q \in Processes : ~Downgrades(q)
  BY DEF IInv, Commands, Serve
<1>7. \A q \in Processes : ~Downgrades(q)'
  BY <1>3, <1>6 DEF Downgrades, NoCommand
<1>8. backend.image <= version  BY DEF IInv, Commands, Serve
<1>9. Commands'
  BY <1>3, <1>4, <1>7, <1>8 DEF Serve, Commands, NoCommand
<1>10. QED  BY <1>1, <1>5, <1>9 DEF IInv

-----------------------------------------------------------------------------
(* Interventions *)

\* A newer or an older image is built.
LEMMA BuildStep ==
  ASSUME IInv, NEW i \in Images, Build(i)
  PROVE  IInv'
<1>1. Data'  BY DataKept DEF Build, IInv
<1>2. TypeOK'  BY MigrationsAssumption DEF Build, Intervene, IInv, TypeOK
<1>3. Commands'  BY DEF Build, IInv, Commands, Downgrades
<1>4. QED  BY <1>1, <1>2, <1>3 DEF IInv

\* The container is replaced: its command stops where it is.
LEMMA ReplaceStep ==
  ASSUME IInv, Replace
  PROVE  IInv'
<1>1. Data'  BY DataKept DEF Replace, IInv
<1>2. NoCommand \in [pos : 0..Newest, to : 0..Newest, running : BOOLEAN]
  BY ChainIs DEF NoCommand
<1>3. /\ alembic'["conteneur"] = NoCommand
      /\ alembic' \in [Processes -> [pos : 0..Newest, to : 0..Newest, running : BOOLEAN]]
  BY <1>2 DEF Replace, IInv, TypeOK, Processes
<1>4. /\ backend'.phase = "down"
      /\ backend' \in [image : Images, phase : {"down", "upgrade", "serving"}]
  BY DEF Replace, IInv, TypeOK
<1>5. ops' \in 0..MaxOps  BY MigrationsAssumption DEF Replace, Intervene, IInv, TypeOK
<1>6. TypeOK'  BY <1>3, <1>4, <1>5 DEF Replace, IInv, TypeOK
<1>7. Commands'  BY <1>3, <1>4 DEF Commands, NoCommand
<1>8. QED  BY <1>1, <1>6, <1>7 DEF IInv

\* A container or a command dies.
LEMMA CrashStep ==
  ASSUME IInv, NEW p \in Processes, Crash(p)
  PROVE  IInv'
<1>1. Data'  BY DataKept DEF Crash, IInv
<1>2. NoCommand \in [pos : 0..Newest, to : 0..Newest, running : BOOLEAN]
  BY ChainIs DEF NoCommand
<1>3. /\ alembic'[p] = NoCommand
      /\ \A q \in Processes : q # p => alembic'[q] = alembic[q]
      /\ alembic' \in [Processes -> [pos : 0..Newest, to : 0..Newest, running : BOOLEAN]]
  BY <1>2 DEF Crash, IInv, TypeOK
<1>4. /\ p = "conteneur" => backend'.phase = "down"
      /\ p # "conteneur" => backend' = backend
      /\ backend' \in [image : Images, phase : {"down", "upgrade", "serving"}]
  BY DEF Crash, IInv, TypeOK
<1>5. ops' \in 0..MaxOps  BY MigrationsAssumption DEF Crash, Intervene, IInv, TypeOK
<1>6. TypeOK'  BY <1>3, <1>4, <1>5 DEF Crash, IInv, TypeOK
<1>7. \A q \in Processes : Downgrades(q)' => Downgrades(q)
  BY <1>3 DEF Downgrades, NoCommand
<1>8. version' = version  BY DEF Crash
<1>9. Commands'
  <2>1. CASE p = "conteneur"
    BY <1>3, <1>4, <2>1 DEF Commands, NoCommand
  <2>2. CASE p # "conteneur"
    <3>1. alembic'["conteneur"] = alembic["conteneur"]
      BY <1>3, <2>2 DEF Processes
    <3>2. QED  BY <1>4, <1>7, <1>8, <2>2, <3>1 DEF IInv, Commands
  <2>3. QED  BY <2>1, <2>2
<1>10. QED  BY <1>1, <1>6, <1>9 DEF IInv

\* A command started beside the container leaves the container's alone.
LEMMA Beside ==
  ASSUME IInv, NEW w \in 0..Newest,
         alembic' = [alembic EXCEPT !["ponctuel"] = Command(version, w)]
  PROVE  /\ alembic'["ponctuel"] = Command(version, w)
         /\ alembic'["conteneur"] = alembic["conteneur"]
         /\ alembic' \in [Processes -> [pos : 0..Newest, to : 0..Newest, running : BOOLEAN]]
BY DEF IInv, TypeOK, Processes, Command

\* An upgrade is started beside the container.
LEMMA RunUpgradeStep ==
  ASSUME IInv, NEW i \in Images, RunUpgrade(i)
  PROVE  IInv'
<1>1. Data'  BY DataKept DEF RunUpgrade, IInv
<1>2. i \in 0..Newest /\ version \in 0..Newest /\ version <= i
  BY ChainIs, MigrationsAssumption DEF RunUpgrade, IInv, TypeOK
<1>3. /\ alembic'["ponctuel"] = Command(version, i)
      /\ alembic'["conteneur"] = alembic["conteneur"]
      /\ alembic' \in [Processes -> [pos : 0..Newest, to : 0..Newest, running : BOOLEAN]]
  BY <1>2, Beside DEF RunUpgrade
<1>4. ops' \in 0..MaxOps
  BY MigrationsAssumption DEF RunUpgrade, Intervene, IInv, TypeOK
<1>5. TypeOK'  BY <1>3, <1>4 DEF RunUpgrade, IInv, TypeOK
<1>6. \A q \in Processes : Downgrades(q)' => Downgrades(q)
  <2>1. ~Downgrades("ponctuel")'  BY <1>2, <1>3, ChainIs DEF Downgrades, Command
  <2>2. Downgrades("conteneur")' => Downgrades("conteneur")
    BY <1>3 DEF Downgrades
  <2>3. QED  BY <2>1, <2>2 DEF Processes
<1>7. Commands'  BY <1>3, <1>6 DEF RunUpgrade, IInv, Commands
<1>8. QED  BY <1>1, <1>5, <1>7 DEF IInv

\* A downgrade is started by hand, the backend being down.
LEMMA RunDowngradeStep ==
  ASSUME IInv, NEW to \in 0..Newest, RunDowngrade(to)
  PROVE  IInv'
<1>1. Data'  BY DataKept DEF RunDowngrade, IInv
<1>2. /\ alembic'["conteneur"] = alembic["conteneur"]
      /\ alembic' \in [Processes -> [pos : 0..Newest, to : 0..Newest, running : BOOLEAN]]
  BY Beside DEF RunDowngrade
<1>3. ops' \in 0..MaxOps
  BY MigrationsAssumption DEF RunDowngrade, Intervene, IInv, TypeOK
<1>4. TypeOK'  BY <1>2, <1>3 DEF RunDowngrade, IInv, TypeOK
<1>5. Commands'  BY <1>2 DEF RunDowngrade, IInv, Commands
<1>6. QED  BY <1>1, <1>4, <1>5 DEF IInv

\* A table made by hand is one of those that are kept.
LEMMA MakeByHandStep ==
  ASSUME IInv, NEW t \in {"eleves", "rapports_journalier"}, MakeByHand(t)
  PROVE  IInv'
<1>1. t \in Kept  BY DEF Kept
<1>2. Tells(version, schema)'
  BY <1>1 DEF MakeByHand, IInv, Data, Tells, Held
<1>3. Data'  BY <1>2 DEF MakeByHand, IInv, Data, Groups, Rows, Early
<1>4. ops' \in 0..MaxOps
  BY MigrationsAssumption DEF MakeByHand, Intervene, IInv, TypeOK
<1>5. schema' \subseteq Created(Newest)
  BY <1>1, KeptIsMade DEF MakeByHand, IInv, TypeOK
<1>6. TypeOK'  BY <1>4, <1>5 DEF MakeByHand, IInv, TypeOK
<1>7. Commands'  BY DEF MakeByHand, IInv, Commands, Downgrades
<1>8. QED  BY <1>3, <1>6, <1>7 DEF IInv

\* What the served application writes fits the schema its image was served on.
LEMMA WriteStep ==
  ASSUME IInv, Write
  PROVE  IInv'
<1>1. /\ compte' \in [role : {"coordonnateur", "superviseur"}, superviseur : BOOLEAN]
      /\ lignes' \subseteq {"deux_semaines", "photo_longue"}
      /\ compte' = compte \/ (compte'.role = "superviseur"
                                => "user_role.superviseur" \in schema)
  <2>1. /\ compte \in [role : {"coordonnateur", "superviseur"}, superviseur : BOOLEAN]
        /\ lignes \subseteq {"deux_semaines", "photo_longue"}
    BY DEF IInv, TypeOK
  <2>2. CASE /\ \E role \in {"coordonnateur", "superviseur"}, superviseur \in BOOLEAN :
                  /\ role = "superviseur" => "user_role.superviseur" \in schema
                  /\ compte' = [role |-> role, superviseur |-> superviseur]
             /\ UNCHANGED lignes
    <3>1. PICK role \in {"coordonnateur", "superviseur"}, superviseur \in BOOLEAN :
            /\ role = "superviseur" => "user_role.superviseur" \in schema
            /\ compte' = [role |-> role, superviseur |-> superviseur]
      BY <2>2
    <3>2. compte'.role = role  BY <3>1
    <3>3. QED  BY <2>1, <2>2, <3>1, <3>2
  <2>3. CASE /\ compte' = compte
             /\ \/ lignes' = lignes \cup {"deux_semaines"}
                \/ lignes' = lignes \cup {"photo_longue"}
    BY <2>1, <2>3
  <2>4. QED  BY <2>2, <2>3 DEF Write
<1>2. TypeOK'  BY <1>1 DEF Write, IInv, TypeOK
<1>3. Rows'  BY <1>1 DEF Write, IInv, Data, Rows
<1>4. Early'
  <2>1. backend.image \in Images /\ backend.image <= version /\ version' = version
    BY DEF Write, IInv, TypeOK, Commands
  <2>2. Images \subseteq 1..Newest /\ Newest = 41 /\ version \in 0..Newest
    BY ChainIs, MigrationsAssumption DEF IInv, TypeOK
  <2>3. backend.image \in 1..41  BY <2>1, <2>2
  <2>4. (\A i \in Images : i > 9) => backend.image > 9  BY <2>1
  <2>5. (\A i \in Images : i > 9) => version > 9  BY <2>1, <2>2, <2>3, <2>4
  <2>6. QED  BY <2>1, <2>2, <2>5 DEF Early
<1>5. Data'  BY <1>3, <1>4 DEF Write, IInv, Data, Tells, Held, Groups
<1>6. Commands'  BY DEF Write, IInv, Commands, Downgrades
<1>7. QED  BY <1>2, <1>5, <1>6 DEF IInv

-----------------------------------------------------------------------------
(* The theorems *)

\* The empty database tells as much.
LEMMA InitHolds == Init => IInv
<1> SUFFICES ASSUME Init PROVE IInv
  OBVIOUS
<1>1. Newest = 41 /\ 1..0 = {}  BY ChainIs
<1>2. Created(0) = {}  BY <1>1 DEF Created
<1>3. Data  BY <1>2 DEF Init, Data, Tells, Held, Groups, Rows, Early
<1>4. NoCommand \in [pos : 0..Newest, to : 0..Newest, running : BOOLEAN]
  BY <1>1 DEF NoCommand
<1>5. TypeOK
  BY <1>1, <1>4, MigrationsAssumption DEF Init, TypeOK
<1>6. Commands
  <2>1. \A p \in Processes : alembic[p] = NoCommand  BY DEF Init
  <2>2. \A p \in Processes : ~alembic[p].running  BY <2>1 DEF NoCommand
  <2>3. "conteneur" \in Processes  BY DEF Processes
  <2>4. QED  BY <2>2, <2>3 DEF Init, Commands, Downgrades
<1>7. QED  BY <1>3, <1>5, <1>6 DEF IInv

\* Every step keeps the invariant.
LEMMA NextHolds == IInv /\ [Next]_vars => IInv'
<1> SUFFICES ASSUME IInv, [Next]_vars PROVE IInv'
  OBVIOUS
<1>1. CASE \E p \in Processes : Upgrade(p) \/ Downgrade(p) \/ Ends(p) \/ Crash(p)
  BY <1>1, UpgradeStep, DowngradeStep, EndsStep, CrashStep
<1>2. CASE StartContainer \/ Serve \/ Replace \/ Write
  BY <1>2, StartContainerStep, ServeStep, ReplaceStep, WriteStep
<1>3. CASE \E i \in Images : Build(i) \/ RunUpgrade(i)
  BY <1>3, BuildStep, RunUpgradeStep
<1>4. CASE \E to \in 0..Newest : RunDowngrade(to)
  BY <1>4, RunDowngradeStep
<1>5. CASE \E t \in {"eleves", "rapports_journalier"} : MakeByHand(t)
  BY <1>5, MakeByHandStep
<1>6. CASE UNCHANGED vars
  <2>1. Data'  BY <1>6, DataKept DEF vars, IInv
  <2>2. TypeOK'  BY <1>6 DEF vars, IInv, TypeOK
  <2>3. Commands'  BY <1>6 DEF vars, IInv, Commands, Downgrades
  <2>4. QED  BY <2>1, <2>2, <2>3 DEF IInv
<1>7. QED  BY <1>1, <1>2, <1>3, <1>4, <1>5, <1>6 DEF Next

\* The inductive invariant holds of every behaviour, whatever images are built and however
\* often the operator steps in.
THEOREM Invariant == Spec => []IInv
<1>1. QED  BY InitHolds, NextHolds, PTL DEF Spec

\* alembic_version tells what the database holds: after any number of deployments, with a
\* second command beside the container's, commands stopped half way and downgrades.
THEOREM SchemaTells == Spec => []VersionTells
<1>1. IInv => VersionTells  BY DataTells DEF IInv
<1>2. QED  BY <1>1, Invariant, PTL

\* A backend that serves finds every table, column and value that its models name.
THEOREM SchemaServes == Spec => []ServedSchema
<1>1. IInv => ServedSchema
  <2> SUFFICES ASSUME IInv, backend.phase = "serving"
               PROVE  Expected(backend.image) \subseteq schema
    BY DEF ServedSchema
  <2>1. /\ backend.image \in Images /\ version \in 0..Newest
        /\ backend.image <= version
    BY DEF IInv, TypeOK, Commands
  <2>2. backend.image \in 1..Newest  BY <2>1, MigrationsAssumption
  <2>3. Expected(backend.image) \subseteq Held(version)
    BY <2>1, <2>2, ExpectedHeld
  <2>4. QED  BY <2>3 DEF IInv, Data, Tells
<1>2. QED  BY <1>1, Invariant, PTL

-----------------------------------------------------------------------------
(* Directory: what a fold keeps *)

\* Every non-empty set of natural numbers has a least element.
LEMMA Least ==
  ASSUME NEW T, T \subseteq Nat, T # {}
  PROVE  \E x \in T : \A y \in T : x <= y
<1>1. PICK x \in T : \A y \in T : ~ (<<y, x>> \in OpToRel(<, Nat))
  BY NatLessThanWellFounded, WFMin
<1>2. \A y \in T : ~(y < x)  BY <1>1 DEF OpToRel
<1>3. QED  BY <1>2

\* Induction over the first numbers.
LEMMA Induction ==
  ASSUME NEW n \in Nat, NEW T, 0 \in T, \A k \in 1..n : k - 1 \in T => k \in T
  PROVE  \A k \in 0..n : k \in T
<1> SUFFICES ASSUME NEW k \in 0..n, k \notin T PROVE FALSE
  OBVIOUS
<1> DEFINE U == {i \in 0..n : i \notin T}
<1>1. PICK x \in U : \A y \in U : x <= y
  <2>1. U \subseteq Nat /\ U # {}  OBVIOUS
  <2>2. QED  BY <2>1, Least
<1>2. x # 0 /\ x \in 1..n /\ x - 1 \in 0..n  BY <1>1
<1>3. x - 1 \in T  BY <1>1, <1>2
<1>4. QED  BY <1>1, <1>2, <1>3

\* The greatest element.
LEMMA Greatest ==
  ASSUME NEW n \in Nat, NEW S, S \subseteq 1..n, S # {}
  PROVE  \E x \in S : \A y \in S : y <= x
<1> DEFINE T == {n - x : x \in S}
<1>1. T \subseteq Nat /\ T # {}  OBVIOUS
<1>2. PICK z \in T : \A y \in T : z <= y  BY <1>1, Least
<1>3. PICK x \in S : z = n - x  BY <1>2
<1>4. \A y \in S : n - x <= n - y  BY <1>2, <1>3
<1>5. QED  BY <1>4

\* What Max chooses.
LEMMA MaxIs ==
  ASSUME NEW n \in Nat, NEW S, S \subseteq 1..n, S # {}
  PROVE  Max(S) \in S /\ \A y \in S : y <= Max(S)
<1>1. \E x \in S : \A y \in S : x >= y  BY Greatest
<1>2. QED  BY <1>1 DEF Max

\* The last of the first numbers is the greatest.
LEMMA MaxLast ==
  ASSUME NEW k \in Nat, NEW S, S \subseteq 1..k, k \in S
  PROVE  Max(S) = k
<1>1. Max(S) \in S /\ k <= Max(S)  BY MaxIs
<1>2. Max(S) \in 1..k  BY <1>1
<1>3. QED  BY <1>1, <1>2

\* f iterates the functions of g from b.
Iterates(f, n, b, g) ==
  \A s \in SUBSET (1..n) :
    f[s] = IF s = {} THEN b ELSE g[Max(s)][f[s \ {Max(s)}]]

\* The function that a fold chooses exists.
LEMMA FoldExists ==
  ASSUME NEW n \in Nat, NEW St, NEW b \in St, NEW g \in [1..n -> [St -> St]]
  PROVE  \E f \in [SUBSET (1..n) -> St] : Iterates(f, n, b, g)
<1> USE DEF Iterates
<1> DEFINE Ok(f, m) == f \in [SUBSET (1..m) -> St] /\ Iterates(f, m, b, g)
           T == {m \in 0..n : \E f : Ok(f, m)}
<1>1. 0 \in T
  <2> DEFINE f == [s \in SUBSET (1..0) |-> b]
  <2>1. \A s \in SUBSET (1..0) : s = {}  OBVIOUS
  <2>2. Ok(f, 0)  BY <2>1
  <2> HIDE DEF f, Ok
  <2>3. \E e : Ok(e, 0)  BY <2>2
  <2>4. QED  BY <2>3
<1>2. ASSUME NEW m \in 1..n, m - 1 \in T
      PROVE  m \in T
  <2>1. PICK f : Ok(f, m - 1)  BY <1>2
  <2> DEFINE h == [s \in SUBSET (1..m) |->
                     IF m \in s THEN g[m][f[s \ {m}]] ELSE f[s]]
  <2>2. \A s \in SUBSET (1..m) : s \ {m} \in SUBSET (1..(m - 1))  OBVIOUS
  <2>3. \A s \in SUBSET (1..m) : m \notin s => s \in SUBSET (1..(m - 1))  OBVIOUS
  <2>4. h \in [SUBSET (1..m) -> St]
    <3>1. ASSUME NEW s \in SUBSET (1..m), m \in s
          PROVE  g[m][f[s \ {m}]] \in St
      BY <2>1, <2>2
    <3>2. ASSUME NEW s \in SUBSET (1..m), m \notin s
          PROVE  f[s] \in St
      BY <2>1, <2>3, <3>2
    <3>3. QED  BY <3>1, <3>2
  <2>5. ASSUME NEW s \in SUBSET (1..m)
        PROVE  h[s] = IF s = {} THEN b ELSE g[Max(s)][h[s \ {Max(s)}]]
    <3>1. CASE m \in s
      <4>1. Max(s) = m
        <5>1. m \in Nat /\ s \subseteq 1..m  OBVIOUS
        <5>2. QED  BY <3>1, <5>1, MaxLast
      <4>2. h[s \ {m}] = f[s \ {m}]
        <5>1. s \ {m} \in SUBSET (1..m) /\ m \notin s \ {m}  OBVIOUS
        <5>2. QED  BY <5>1
      <4>3. h[s] = g[m][f[s \ {m}]]  BY <3>1
      <4>4. QED  BY <3>1, <4>1, <4>2, <4>3
    <3>2. CASE m \notin s
      <4>1. s \in SUBSET (1..(m - 1)) /\ h[s] = f[s]  BY <2>3, <3>2
      <4>2. CASE s = {}  BY <4>1, <4>2, <2>1
      <4>3. CASE s # {}
        <5>1. s \ {Max(s)} \in SUBSET (1..(m - 1)) /\ s \ {Max(s)} \in SUBSET (1..m)
          BY <4>1
        <5>2. h[s \ {Max(s)}] = f[s \ {Max(s)}]  BY <5>1, <3>2
        <5>3. f[s] = g[Max(s)][f[s \ {Max(s)}]]  BY <4>1, <4>3, <2>1
        <5>4. QED  BY <4>1, <4>3, <5>2, <5>3
      <4>4. QED  BY <4>2, <4>3
    <3>3. QED  BY <3>1, <3>2
  <2>6. Ok(h, m)
    <3> HIDE DEF h
    <3>1. QED  BY <2>4, <2>5
  <2> HIDE DEF h, Ok
  <2>7. \E e : Ok(e, m)  BY <2>6
  <2>8. QED  BY <2>7
<1> HIDE DEF T
<1>3. n \in T
  <2>1. \A k \in 0..n : k \in T  BY <1>1, <1>2, Induction
  <2>2. QED  BY <2>1
<1>4. QED  BY <1>3 DEF T

\* The first numbers.
LEMMA Segment ==
  ASSUME NEW n \in Nat, NEW k \in 1..n
  PROVE  /\ 1..k \in SUBSET (1..n) /\ 1..k # {}
         /\ Max(1..k) = k /\ (1..k) \ {k} = 1..(k - 1)
BY MaxLast

\* What holds of a fold at its start and is kept by its steps holds of its end.
LEMMA FoldInduction ==
  ASSUME NEW n \in Nat, NEW St, NEW iter, iter[{}] \in St,
         \A k \in 1..n : iter[1..(k - 1)] \in St => iter[1..k] \in St
  PROVE  iter[1..n] \in St
<1> DEFINE T == {k \in 0..n : iter[1..k] \in St}
<1>1. 0 \in T
  <2>1. 1..0 = {}  OBVIOUS
  <2>2. QED  BY <2>1
<1>2. \A k \in 1..n : k - 1 \in T => k \in T  OBVIOUS
<1> HIDE DEF T
<1>3. n \in 0..n /\ n \in T  BY <1>1, <1>2, Induction
<1>4. QED  BY <1>3 DEF T

\* What holds at the start of a fold, and after each step of what held before it.
LEMMA IndexedInduction ==
  ASSUME NEW n \in Nat, NEW T, NEW iter, iter[{}] \in T[0],
         \A k \in 1..n : iter[1..(k - 1)] \in T[k - 1] => iter[1..k] \in T[k]
  PROVE  iter[1..n] \in T[n]
<1> DEFINE U == {k \in 0..n : iter[1..k] \in T[k]}
<1>1. 0 \in U
  <2>1. 1..0 = {}  OBVIOUS
  <2>2. QED  BY <2>1
<1>2. \A k \in 1..n : k - 1 \in U => k \in U  OBVIOUS
<1> HIDE DEF U
<1>3. n \in 0..n /\ n \in U  BY <1>1, <1>2, Induction
<1>4. QED  BY <1>3 DEF U

\* A SELECT that finds something has a last row, and a first one.
LEMMA DernierIn ==
  ASSUME NEW n \in Nat, NEW S, S \subseteq 1..n, S # {}, NEW ordre
  PROVE  Dernier(S, ordre) \in S /\ Premier(S, ordre) \in S
<1>1. \E k \in S : \A j \in S : j <= k  BY Greatest
<1>2. \E k \in S : \A j \in S : k <= j
  <2>1. S \subseteq Nat  OBVIOUS
  <2>2. QED  BY <2>1, Least
<1>3. ASSUME NEW o
      PROVE  Dernier(S, o) \in S
  <2>1. CASE o = "asc"  BY <1>1, <2>1 DEF Dernier
  <2>2. CASE o # "asc"  BY <1>2, <2>2 DEF Dernier
  <2>3. QED  BY <2>1, <2>2
<1>4. QED  BY <1>3 DEF Premier

-----------------------------------------------------------------------------
(* Tables *)

Classe == [ecole : Nat, nom : Classes]
Pupil == [ecole : Nat \cup {NULL}, classe : Classes, nom : Eleves, code : CodesEleve \cup {NULL}]

Base == [ecoles : Seq(Ecole \cup {NULL}), comptes : Seq(Compte \cup {NULL}),
         classes : SUBSET Classe, eleves : SUBSET Pupil]

\* What refers to a school refers to one that exists.
Refs(d) ==
  /\ \A c \in Comptes(d) : d.comptes[c].ecole \in Ecoles(d) \cup {NULL}
  /\ \A k \in d.classes : k.ecole \in Ecoles(d)
  /\ \A p \in d.eleves : p.ecole \in Ecoles(d) \cup {NULL}

CodesOnce(d) ==
  \A e, f \in Ecoles(d) :
    d.ecoles[e].code # NULL /\ d.ecoles[e].code = d.ecoles[f].code => e = f

PupilsOnce(d) ==
  /\ IsFiniteSet(d.eleves)
  /\ \A p, q \in d.eleves : MemePlace(p, q) /\ ~Distinct(p) => p = q

PhonesOnce(d) == \A c \in Comptes(d) : ~TelPris(d, d.comptes[c].tel, c)

Coherent(d) == d \in Base /\ Refs(d) /\ CodesOnce(d) /\ PupilsOnce(d)

\* The tables of a coherent base.
LEMMA RowsOf ==
  ASSUME NEW d \in Base
  PROVE  /\ d.ecoles \in Seq(Ecole \cup {NULL}) /\ d.comptes \in Seq(Compte \cup {NULL})
         /\ Len(d.ecoles) \in Nat /\ Len(d.comptes) \in Nat
         /\ DOMAIN d.ecoles = 1..Len(d.ecoles) /\ DOMAIN d.comptes = 1..Len(d.comptes)
         /\ Ecoles(d) \subseteq 1..Len(d.ecoles) /\ Comptes(d) \subseteq 1..Len(d.comptes)
         /\ \A e \in Ecoles(d) : d.ecoles[e] \in Ecole
         /\ \A c \in Comptes(d) : d.comptes[c] \in Compte
         /\ d.classes \subseteq Classe /\ d.eleves \subseteq Pupil
BY DEF Base, Ecoles, Comptes

\* A record of tables with one of them replaced.
LEMMA OneTable ==
  ASSUME NEW A, NEW B, NEW C, NEW D,
         NEW d \in [ecoles : A, comptes : B, classes : C, eleves : D], NEW t
  PROVE  /\ [d EXCEPT !.ecoles = t] = [ecoles |-> t, comptes |-> d.comptes,
                                       classes |-> d.classes, eleves |-> d.eleves]
         /\ [d EXCEPT !.comptes = t] = [ecoles |-> d.ecoles, comptes |-> t,
                                        classes |-> d.classes, eleves |-> d.eleves]
         /\ [d EXCEPT !.classes = t] = [ecoles |-> d.ecoles, comptes |-> d.comptes,
                                        classes |-> t, eleves |-> d.eleves]
         /\ [d EXCEPT !.eleves = t] = [ecoles |-> d.ecoles, comptes |-> d.comptes,
                                       classes |-> d.classes, eleves |-> t]
OBVIOUS

\* The same for a base.
LEMMA TableReplaced ==
  ASSUME NEW d \in Base, NEW t
  PROVE  /\ [d EXCEPT !.ecoles = t] = [ecoles |-> t, comptes |-> d.comptes,
                                       classes |-> d.classes, eleves |-> d.eleves]
         /\ [d EXCEPT !.comptes = t] = [ecoles |-> d.ecoles, comptes |-> t,
                                        classes |-> d.classes, eleves |-> d.eleves]
         /\ [d EXCEPT !.classes = t] = [ecoles |-> d.ecoles, comptes |-> d.comptes,
                                        classes |-> t, eleves |-> d.eleves]
         /\ [d EXCEPT !.eleves = t] = [ecoles |-> d.ecoles, comptes |-> d.comptes,
                                       classes |-> d.classes, eleves |-> t]
BY OneTable DEF Base

\* NULL is not a row, a key or a name.
LEMMA NullIsNoRow ==
  /\ NULL \notin Nat /\ NULL \notin Ecole /\ NULL \notin Compte
  /\ NULL \notin Personnes /\ NULL \notin Noms
BY DirectoryAssumption

\* One more school.
LEMMA OneMoreSchool ==
  ASSUME NEW d \in Base, NEW nom \in Noms, NEW code \in Codes \cup {NULL}
  PROVE  LET x == AddEcole(d, nom, code)
             n == Len(d.ecoles) + 1
         IN /\ x \in Base
            /\ x.comptes = d.comptes /\ x.classes = d.classes /\ x.eleves = d.eleves
            /\ Comptes(x) = Comptes(d)
            /\ n \notin Ecoles(d) /\ Ecoles(x) = Ecoles(d) \cup {n}
            /\ \A e \in DOMAIN d.ecoles : e \in DOMAIN x.ecoles /\ x.ecoles[e] = d.ecoles[e]
            /\ x.ecoles[n] = [nom |-> nom, code |-> code]
<1> DEFINE ligne == [nom |-> nom, code |-> code]
           x == AddEcole(d, nom, code)
           n == Len(d.ecoles) + 1
<1>1. ligne \in Ecole  BY DEF Ecole
<1>2. /\ x.ecoles = Append(d.ecoles, ligne)
      /\ x.comptes = d.comptes /\ x.classes = d.classes /\ x.eleves = d.eleves
      /\ x = [ecoles |-> Append(d.ecoles, ligne), comptes |-> d.comptes,
              classes |-> d.classes, eleves |-> d.eleves]
  <2> HIDE DEF ligne
  <2>1. x = [ecoles |-> Append(d.ecoles, ligne), comptes |-> d.comptes,
             classes |-> d.classes, eleves |-> d.eleves]
    <3>1. x = [d EXCEPT !.ecoles = Append(d.ecoles, ligne)]  BY DEF AddEcole, ligne
    <3> HIDE DEF x
    <3>2. QED  BY <3>1, TableReplaced
  <2> HIDE DEF x
  <2>2. QED  BY <2>1
<1> HIDE DEF x, ligne
<1>3. d.ecoles \in Seq(Ecole \cup {NULL}) /\ DOMAIN d.ecoles = 1..Len(d.ecoles)
  BY RowsOf
<1>4. /\ Append(d.ecoles, ligne) \in Seq(Ecole \cup {NULL})
      /\ DOMAIN Append(d.ecoles, ligne) = 1..n
      /\ \A e \in DOMAIN d.ecoles : Append(d.ecoles, ligne)[e] = d.ecoles[e]
      /\ Append(d.ecoles, ligne)[n] = ligne
      /\ Len(d.ecoles) \in Nat
  BY <1>1, <1>3
<1>5. x \in Base  BY <1>2, <1>4 DEF Base
<1>6. DOMAIN x.ecoles = (DOMAIN d.ecoles) \cup {n} /\ n \notin DOMAIN d.ecoles
  BY <1>2, <1>3, <1>4
<1>7. ligne # NULL  BY <1>1, NullIsNoRow
<1>8. Ecoles(x) = Ecoles(d) \cup {n}
  BY <1>2, <1>4, <1>6, <1>7 DEF Ecoles
<1>9. n \notin Ecoles(d)  BY <1>6 DEF Ecoles
<1>10. Comptes(x) = Comptes(d)  BY <1>2 DEF Comptes
<1>11. QED  BY <1>2, <1>4, <1>5, <1>6, <1>8, <1>9, <1>10 DEF x, ligne

\* One more account.
LEMMA OneMoreAccount ==
  ASSUME NEW d \in Base, NEW account \in Compte
  PROVE  LET x == AddCompte(d, account)
             n == Len(d.comptes) + 1
         IN /\ x \in Base
            /\ x.ecoles = d.ecoles /\ x.classes = d.classes /\ x.eleves = d.eleves
            /\ Ecoles(x) = Ecoles(d)
            /\ n \notin Comptes(d) /\ Comptes(x) = Comptes(d) \cup {n}
            /\ \A c \in DOMAIN d.comptes : c \in DOMAIN x.comptes /\ x.comptes[c] = d.comptes[c]
            /\ x.comptes[n] = account
<1> DEFINE x == AddCompte(d, account)
           n == Len(d.comptes) + 1
<1>1. /\ x.comptes = Append(d.comptes, account)
      /\ x.ecoles = d.ecoles /\ x.classes = d.classes /\ x.eleves = d.eleves
      /\ x = [ecoles |-> d.ecoles, comptes |-> Append(d.comptes, account),
              classes |-> d.classes, eleves |-> d.eleves]
  <2>1. x = [ecoles |-> d.ecoles, comptes |-> Append(d.comptes, account),
             classes |-> d.classes, eleves |-> d.eleves]
    BY TableReplaced DEF AddCompte
  <2> HIDE DEF x
  <2>2. QED  BY <2>1
<1> HIDE DEF x
<1>2. d.comptes \in Seq(Compte \cup {NULL}) /\ DOMAIN d.comptes = 1..Len(d.comptes)
  BY RowsOf
<1>3. /\ Append(d.comptes, account) \in Seq(Compte \cup {NULL})
      /\ DOMAIN Append(d.comptes, account) = 1..n
      /\ \A c \in DOMAIN d.comptes : Append(d.comptes, account)[c] = d.comptes[c]
      /\ Append(d.comptes, account)[n] = account
      /\ Len(d.comptes) \in Nat
  BY <1>2
<1>4. x \in Base  BY <1>1, <1>3 DEF Base
<1>5. DOMAIN x.comptes = (DOMAIN d.comptes) \cup {n} /\ n \notin DOMAIN d.comptes
  BY <1>1, <1>2, <1>3
<1>6. account # NULL  BY NullIsNoRow
<1>7. Comptes(x) = Comptes(d) \cup {n}
  BY <1>1, <1>3, <1>5, <1>6 DEF Comptes
<1>8. n \notin Comptes(d)  BY <1>5 DEF Comptes
<1>9. Ecoles(x) = Ecoles(d)  BY <1>1 DEF Ecoles
<1>10. QED  BY <1>1, <1>3, <1>4, <1>5, <1>7, <1>8, <1>9 DEF x

\* One account rewritten.
LEMMA OneAccountWritten ==
  ASSUME NEW d \in Base, NEW c \in Comptes(d), NEW account \in Compte
  PROVE  LET x == [d EXCEPT !.comptes[c] = account]
         IN /\ x \in Base
            /\ x.ecoles = d.ecoles /\ x.classes = d.classes /\ x.eleves = d.eleves
            /\ Ecoles(x) = Ecoles(d) /\ Comptes(x) = Comptes(d)
            /\ \A b \in Comptes(d) : b # c => x.comptes[b] = d.comptes[b]
            /\ x.comptes[c] = account
<1> DEFINE x == [d EXCEPT !.comptes[c] = account]
           t == [d.comptes EXCEPT ![c] = account]
<1>1. /\ x.comptes = t
      /\ x.ecoles = d.ecoles /\ x.classes = d.classes /\ x.eleves = d.eleves
      /\ x = [ecoles |-> d.ecoles, comptes |-> t,
              classes |-> d.classes, eleves |-> d.eleves]
  <2>1. x = [ecoles |-> d.ecoles, comptes |-> t,
             classes |-> d.classes, eleves |-> d.eleves]
    BY TableReplaced
  <2> HIDE DEF x
  <2>2. QED  BY <2>1
<1>2. d.comptes \in Seq(Compte \cup {NULL}) /\ c \in DOMAIN d.comptes
  BY RowsOf DEF Comptes
<1>3. /\ t \in Seq(Compte \cup {NULL}) /\ DOMAIN t = DOMAIN d.comptes
      /\ \A b \in DOMAIN d.comptes : b # c => t[b] = d.comptes[b]
      /\ t[c] = account
  BY <1>2
<1> HIDE DEF x, t
<1>4. x \in Base  BY <1>1, <1>3 DEF Base
<1>5. account # NULL  BY NullIsNoRow
<1>6. Comptes(x) = Comptes(d)
  BY <1>1, <1>3, <1>5 DEF Comptes
<1>7. Ecoles(x) = Ecoles(d)  BY <1>1 DEF Ecoles
<1>8. \A b \in Comptes(d) : b \in DOMAIN d.comptes  BY DEF Comptes
<1>9. QED  BY <1>1, <1>3, <1>4, <1>6, <1>7, <1>8 DEF x

-----------------------------------------------------------------------------
(* What one more row, or one rewritten, does to a coherent base *)

\* b holds what a held: nothing of it is gone, accounts have more classes or a school.
Grows(a, b) ==
  /\ a.classes \subseteq b.classes /\ a.eleves \subseteq b.eleves
  /\ \A e \in DOMAIN a.ecoles : e \in DOMAIN b.ecoles /\ b.ecoles[e] = a.ecoles[e]
  /\ \A c \in Comptes(a) :
       /\ c \in Comptes(b)
       /\ a.comptes[c].classes \subseteq b.comptes[c].classes
       /\ a.comptes[c].ecole # NULL => b.comptes[c].ecole = a.comptes[c].ecole
       /\ b.comptes[c].nom = a.comptes[c].nom
       /\ b.comptes[c].role = a.comptes[c].role
       /\ b.comptes[c].tel = a.comptes[c].tel

\* The same schools, classes and pupils.
Same(a, b) == b.ecoles = a.ecoles /\ b.classes = a.classes /\ b.eleves = a.eleves

\* Growing is a preorder.
LEMMA GrowsSelf == \A d : Grows(d, d)
BY DEF Grows

\* One growth after another.
LEMMA GrowsOn ==
  ASSUME NEW a, NEW b, NEW c, Grows(a, b), Grows(b, c)
  PROVE  Grows(a, c)
<1>1. \A e \in DOMAIN a.ecoles : e \in DOMAIN c.ecoles /\ c.ecoles[e] = a.ecoles[e]
  BY DEF Grows
<1>2. a.classes \subseteq c.classes /\ a.eleves \subseteq c.eleves  BY DEF Grows
<1>3. ASSUME NEW k \in Comptes(a)
      PROVE  /\ k \in Comptes(c)
             /\ a.comptes[k].classes \subseteq c.comptes[k].classes
             /\ a.comptes[k].ecole # NULL => c.comptes[k].ecole = a.comptes[k].ecole
             /\ c.comptes[k].nom = a.comptes[k].nom
             /\ c.comptes[k].role = a.comptes[k].role
             /\ c.comptes[k].tel = a.comptes[k].tel
  <2>1. k \in Comptes(b)  BY DEF Grows
  <2>2. a.comptes[k].ecole # NULL => b.comptes[k].ecole = a.comptes[k].ecole
    BY DEF Grows
  <2>3. QED  BY <2>1, <2>2 DEF Grows
<1>4. QED  BY <1>1, <1>2, <1>3 DEF Grows

\* A new school has no code, or one that no school has.
LEMMA SchoolAdded ==
  ASSUME NEW d, Coherent(d), NEW nom \in Noms, NEW code \in Codes \cup {NULL},
         code # NULL => \A e \in Ecoles(d) : d.ecoles[e].code # code
  PROVE  LET x == AddEcole(d, nom, code)
         IN /\ Coherent(x) /\ Grows(d, x)
            /\ PhonesOnce(d) => PhonesOnce(x)
            /\ x.eleves = d.eleves /\ x.comptes = d.comptes
            /\ \E e \in Ecoles(x) : x.ecoles[e] = [nom |-> nom, code |-> code]
<1> DEFINE x == AddEcole(d, nom, code)
           n == Len(d.ecoles) + 1
<1>1. d \in Base  BY DEF Coherent
<1>2. /\ x \in Base
      /\ x.comptes = d.comptes /\ x.classes = d.classes /\ x.eleves = d.eleves
      /\ Comptes(x) = Comptes(d)
      /\ n \notin Ecoles(d) /\ Ecoles(x) = Ecoles(d) \cup {n}
      /\ \A e \in DOMAIN d.ecoles : e \in DOMAIN x.ecoles /\ x.ecoles[e] = d.ecoles[e]
      /\ x.ecoles[n] = [nom |-> nom, code |-> code]
  BY <1>1, OneMoreSchool
<1> HIDE DEF x, n
<1>3. x.ecoles[n].code = code  BY <1>2
<1>4. \A e \in Ecoles(d) : x.ecoles[e] = d.ecoles[e]  BY <1>2 DEF Ecoles
<1>5. Refs(x)  BY <1>2 DEF Coherent, Refs
<1>6. CodesOnce(x)  BY <1>2, <1>3, <1>4 DEF Coherent, CodesOnce
<1>7. PupilsOnce(x)  BY <1>2 DEF Coherent, PupilsOnce
<1>8. Grows(d, x)  BY <1>2 DEF Grows
<1>9. PhonesOnce(d) => PhonesOnce(x)  BY <1>2 DEF PhonesOnce, TelPris
<1>10. QED  BY <1>2, <1>5, <1>6, <1>7, <1>8, <1>9 DEF Coherent, x

\* A new account belongs to a school that exists.
LEMMA AccountAdded ==
  ASSUME NEW d, Coherent(d), NEW account \in Compte,
         account.ecole \in Ecoles(d) \cup {NULL}
  PROVE  LET x == AddCompte(d, account)
         IN /\ Coherent(x) /\ Grows(d, x) /\ Same(d, x)
            /\ PhonesOnce(d) /\ ~TelPris(d, account.tel, 0) => PhonesOnce(x)
            /\ \E c \in Comptes(x) : x.comptes[c] = account
            /\ \A c \in Comptes(d) : c \in Comptes(x) /\ x.comptes[c] = d.comptes[c]
<1> DEFINE x == AddCompte(d, account)
           n == Len(d.comptes) + 1
<1>1. d \in Base  BY DEF Coherent
<1>2. /\ x \in Base
      /\ x.ecoles = d.ecoles /\ x.classes = d.classes /\ x.eleves = d.eleves
      /\ Ecoles(x) = Ecoles(d)
      /\ n \notin Comptes(d) /\ Comptes(x) = Comptes(d) \cup {n}
      /\ \A c \in DOMAIN d.comptes : c \in DOMAIN x.comptes /\ x.comptes[c] = d.comptes[c]
      /\ x.comptes[n] = account
  BY <1>1, OneMoreAccount
<1> HIDE DEF x, n
<1>3. \A c \in Comptes(d) : x.comptes[c] = d.comptes[c]  BY <1>2 DEF Comptes
<1>4. Refs(x)  BY <1>2, <1>3 DEF Coherent, Refs
<1>5. CodesOnce(x)  BY <1>2 DEF Coherent, CodesOnce
<1>6. PupilsOnce(x)  BY <1>2 DEF Coherent, PupilsOnce
<1>7. Grows(d, x)  BY <1>2, <1>3 DEF Grows
<1>8. ASSUME PhonesOnce(d), ~TelPris(d, account.tel, 0)
      PROVE  PhonesOnce(x)
  <2>1. 0 \notin Comptes(d)  BY <1>1, RowsOf
  <2>2. account.tel \notin {NULL, PROVISOIRE} =>
          \A o \in Comptes(d) : d.comptes[o].tel # account.tel
    BY <1>8, <2>1 DEF TelPris
  <2>3. ~TelPris(x, x.comptes[n].tel, n)
    BY <1>2, <1>3, <2>2 DEF TelPris
  <2>4. ASSUME NEW c \in Comptes(d)
        PROVE  ~TelPris(x, x.comptes[c].tel, c)
    BY <1>2, <1>3, <1>8, <2>2 DEF TelPris, PhonesOnce
  <2>5. QED  BY <1>2, <2>3, <2>4 DEF PhonesOnce
<1>9. QED  BY <1>2, <1>3, <1>4, <1>5, <1>6, <1>7, <1>8 DEF Coherent, Same, x

\* An account rewritten, in a school that exists.
LEMMA AccountWritten ==
  ASSUME NEW d, Coherent(d), NEW c \in Comptes(d), NEW account \in Compte,
         account.ecole \in Ecoles(d) \cup {NULL}
  PROVE  LET x == [d EXCEPT !.comptes[c] = account]
         IN /\ Coherent(x) /\ Same(d, x) /\ Comptes(x) = Comptes(d)
            /\ PhonesOnce(d) /\ ~TelPris(d, account.tel, c) => PhonesOnce(x)
            /\ x.comptes[c] = account
            /\ \A b \in Comptes(d) : b # c => x.comptes[b] = d.comptes[b]
            /\ (/\ account.nom = d.comptes[c].nom /\ account.role = d.comptes[c].role
                /\ account.tel = d.comptes[c].tel
                /\ d.comptes[c].classes \subseteq account.classes
                /\ d.comptes[c].ecole # NULL => account.ecole = d.comptes[c].ecole)
               => Grows(d, x)
<1> DEFINE x == [d EXCEPT !.comptes[c] = account]
<1>1. d \in Base  BY DEF Coherent
<1>2. /\ x \in Base
      /\ x.ecoles = d.ecoles /\ x.classes = d.classes /\ x.eleves = d.eleves
      /\ Ecoles(x) = Ecoles(d) /\ Comptes(x) = Comptes(d)
      /\ \A b \in Comptes(d) : b # c => x.comptes[b] = d.comptes[b]
      /\ x.comptes[c] = account
  BY <1>1, OneAccountWritten
<1> HIDE DEF x
<1>3. Refs(x)  BY <1>2 DEF Coherent, Refs
<1>4. CodesOnce(x)  BY <1>2 DEF Coherent, CodesOnce
<1>5. PupilsOnce(x)  BY <1>2 DEF Coherent, PupilsOnce
<1>6. ASSUME PhonesOnce(d), ~TelPris(d, account.tel, c)
      PROVE  PhonesOnce(x)
  <2>1. ~TelPris(x, x.comptes[c].tel, c)  BY <1>2, <1>6 DEF TelPris
  <2>2. ASSUME NEW b \in Comptes(d), b # c
        PROVE  ~TelPris(x, x.comptes[b].tel, b)
    BY <1>2, <1>6, <2>2 DEF TelPris, PhonesOnce
  <2>3. QED  BY <1>2, <2>1, <2>2 DEF PhonesOnce
<1>7. ASSUME account.nom = d.comptes[c].nom, account.role = d.comptes[c].role,
             account.tel = d.comptes[c].tel,
             d.comptes[c].classes \subseteq account.classes,
             d.comptes[c].ecole # NULL => account.ecole = d.comptes[c].ecole
      PROVE  Grows(d, x)
  BY <1>2, <1>7 DEF Grows
<1>8. QED  BY <1>2, <1>3, <1>4, <1>5, <1>6, <1>7 DEF Coherent, Same, x

-----------------------------------------------------------------------------
(* One row of the workbook *)

Etat == [d : Base, orphelins : SUBSET Nat, erreur : BOOLEAN, saute : BOOLEAN,
         echec : BOOLEAN]

\* The accounts taken for without school are.
Sain(st) ==
  /\ st \in Etat
  /\ Coherent(st.d) /\ PhonesOnce(st.d)
  /\ \A c \in st.orphelins : c \in Comptes(st.d) /\ st.d.comptes[c].ecole = NULL

\* The school of the row is there.
Known(d, l) ==
  \E e \in Ecoles(d) : d.ecoles[e].nom = l.ecole \/ (l.code # NULL /\ d.ecoles[e].code = l.code)

\* A step that has to do with accounts only.
Step(st, x) == Sain(x) /\ Grows(st.d, x.d) /\ Same(st.d, x.d)

\* A state with other tables, or without some of the accounts it holds without school.
LEMMA OtherTables ==
  ASSUME NEW st \in Etat, NEW t, NEW o
  PROVE  /\ [st EXCEPT !.d = t] = [d |-> t, orphelins |-> st.orphelins,
                                  erreur |-> st.erreur, saute |-> st.saute, echec |-> st.echec]
         /\ [st EXCEPT !.d = t, !.orphelins = o] =
              [d |-> t, orphelins |-> o,
               erreur |-> st.erreur, saute |-> st.saute, echec |-> st.echec]
<1> DEFINE B == BOOLEAN  N == SUBSET Nat
<1>1. st \in [d : Base, orphelins : N, erreur : B, saute : B, echec : B]
  BY DEF Etat
<1> HIDE DEF B, N
<1>2. [st EXCEPT !.d = t] =
        [d |-> t, orphelins |-> st.orphelins,
         erreur |-> st.erreur, saute |-> st.saute, echec |-> st.echec]
  BY <1>1
<1>3. [st EXCEPT !.d = t, !.orphelins = o] = [[st EXCEPT !.d = t] EXCEPT !.orphelins = o]
  BY <1>1
<1>4. [[d |-> t, orphelins |-> st.orphelins,
         erreur |-> st.erreur, saute |-> st.saute, echec |-> st.echec] EXCEPT !.orphelins = o] =
        [d |-> t, orphelins |-> o,
         erreur |-> st.erreur, saute |-> st.saute, echec |-> st.echec]
  OBVIOUS
<1>5. QED  BY <1>2, <1>3, <1>4

\* A state with other flags.
LEMMA OtherFlags ==
  ASSUME NEW st \in Etat, NEW r
  PROVE  /\ [st EXCEPT !.erreur = r, !.saute = r] =
              [d |-> st.d, orphelins |-> st.orphelins,
               erreur |-> r, saute |-> r, echec |-> st.echec]
         /\ [st EXCEPT !.erreur = r, !.saute = r, !.echec = r] =
              [d |-> st.d, orphelins |-> st.orphelins,
               erreur |-> r, saute |-> r, echec |-> r]
         /\ [st EXCEPT !.saute = r] =
              [d |-> st.d, orphelins |-> st.orphelins,
               erreur |-> st.erreur, saute |-> r, echec |-> st.echec]
<1> DEFINE B == BOOLEAN  N == SUBSET Nat
<1>1. st \in [d : Base, orphelins : N, erreur : B, saute : B, echec : B]
  BY DEF Etat
<1> HIDE DEF B, N
<1>2. [st EXCEPT !.saute = r] =
        [d |-> st.d, orphelins |-> st.orphelins,
         erreur |-> st.erreur, saute |-> r, echec |-> st.echec]
  BY <1>1
<1>3. [st EXCEPT !.erreur = r] =
        [d |-> st.d, orphelins |-> st.orphelins,
         erreur |-> r, saute |-> st.saute, echec |-> st.echec]
  BY <1>1
<1>4. [st EXCEPT !.erreur = r, !.saute = r]
        = [[st EXCEPT !.erreur = r] EXCEPT !.saute = r]
  BY <1>1
<1>5. [[d |-> st.d, orphelins |-> st.orphelins,
         erreur |-> r, saute |-> st.saute, echec |-> st.echec] EXCEPT !.saute = r] =
        [d |-> st.d, orphelins |-> st.orphelins,
         erreur |-> r, saute |-> r, echec |-> st.echec]
  OBVIOUS
<1>6. [st EXCEPT !.erreur = r, !.saute = r, !.echec = r]
        = [[[st EXCEPT !.erreur = r] EXCEPT !.saute = r] EXCEPT !.echec = r]
  BY <1>1
<1>7. [[d |-> st.d, orphelins |-> st.orphelins,
         erreur |-> r, saute |-> r, echec |-> st.echec] EXCEPT !.echec = r] =
        [d |-> st.d, orphelins |-> st.orphelins,
         erreur |-> r, saute |-> r, echec |-> r]
  OBVIOUS
<1>8. QED  BY <1>2, <1>3, <1>4, <1>5, <1>6, <1>7

\* A state in which the row failed, or a flush, or another row begins.
LEMMA Failed ==
  ASSUME NEW st \in Etat
  PROVE  /\ Raise(st) = [d |-> st.d, orphelins |-> st.orphelins,
                         erreur |-> TRUE, saute |-> TRUE, echec |-> st.echec]
         /\ FlushFails(st) = [d |-> st.d, orphelins |-> st.orphelins,
                              erreur |-> TRUE, saute |-> TRUE, echec |-> TRUE]
         /\ [st EXCEPT !.saute = FALSE] =
              [d |-> st.d, orphelins |-> st.orphelins,
               erreur |-> st.erreur, saute |-> FALSE, echec |-> st.echec]
BY OtherFlags, Zenon DEF Raise, FlushFails

\* The tables may change under a sound state.
LEMMA SainWith ==
  ASSUME NEW st, Sain(st), NEW t, Coherent(t), PhonesOnce(t),
         NEW o \in SUBSET st.orphelins,
         \A c \in o : c \in Comptes(t) /\ t.comptes[c].ecole = NULL
  PROVE  LET x == [d |-> t, orphelins |-> o,
                   erreur |-> st.erreur, saute |-> st.saute, echec |-> st.echec]
         IN Sain(x)
BY DEF Sain, Etat, Coherent

\* What a row is made of.
LEMMA LigneIs ==
  ASSUME NEW l \in Ligne
  PROVE  /\ l.ecole \in Noms /\ l.code \in Codes \cup {NULL}
         /\ l.superviseurs \in Seq(Personnes)
         /\ l.telSuperviseur \in Telephones \cup {NULL}
         /\ l.tuteur \in Personnes \cup {NULL} /\ l.telTuteur \in Telephones \cup {NULL}
         /\ l.classe \in Classes /\ l.eleve \in Eleves
         /\ l.codeEleve \in CodesEleve \cup {NULL}
BY DEF Ligne

\* A school that is known is found.
LEMMA EcoleDeIn ==
  ASSUME NEW d \in Base, NEW l, Known(d, l), NEW ordre
  PROVE  EcoleDe(d, l, ordre) \in Ecoles(d)
<1> DEFINE parCode == {e \in Ecoles(d) : l.code # NULL /\ d.ecoles[e].code = l.code}
<1>1. Len(d.ecoles) \in Nat /\ Ecoles(d) \subseteq 1..Len(d.ecoles)  BY RowsOf
<1>2. parCode \subseteq Ecoles(d) /\ ParNom(d, l.ecole) \subseteq Ecoles(d)
  BY DEF ParNom
<1>3. CASE parCode # {}
  <2>1. Dernier(parCode, ordre) \in parCode  BY <1>1, <1>2, <1>3, DernierIn
  <2>2. EcoleDe(d, l, ordre) = Dernier(parCode, ordre)  BY <1>3 DEF EcoleDe
  <2>3. QED  BY <2>1, <2>2, <1>2
<1>4. CASE parCode = {}
  <2>1. ParNom(d, l.ecole) # {}  BY <1>4 DEF Known, ParNom
  <2>2. Dernier(ParNom(d, l.ecole), ordre) \in ParNom(d, l.ecole)
    BY <1>1, <1>2, <2>1, DernierIn
  <2>3. EcoleDe(d, l, ordre) = Dernier(ParNom(d, l.ecole), ordre)
    BY <1>4 DEF EcoleDe
  <2>4. QED  BY <2>2, <2>3, <1>2
<1>5. QED  BY <1>3, <1>4

\* The school of a row is the same while the schools are.
LEMMA EcoleDeSame ==
  ASSUME NEW a, NEW b, Same(a, b), NEW l, NEW ordre
  PROVE  EcoleDe(b, l, ordre) = EcoleDe(a, l, ordre) /\ (Known(a, l) => Known(b, l))
<1>1. Ecoles(b) = Ecoles(a) /\ b.ecoles = a.ecoles  BY DEF Same, Ecoles
<1>2. ParNom(b, l.ecole) = ParNom(a, l.ecole)  BY <1>1 DEF ParNom
<1>3. QED  BY <1>1, <1>2 DEF EcoleDe, Known

\* After its first step the school of the row is there.
LEMMA EtapeEcoleStep ==
  ASSUME NEW st, Sain(st), NEW l \in Ligne
  PROVE  LET x == EtapeEcole(st, l)
         IN Sain(x) /\ Grows(st.d, x.d) /\ x.d.eleves = st.d.eleves /\ Known(x.d, l)
<1> DEFINE x == EtapeEcole(st, l)
           t == AddEcole(st.d, l.ecole, l.code)
<1>1. CASE Known(st.d, l)
  <2>1. x = st  BY <1>1 DEF EtapeEcole, Known
  <2>2. QED  BY <1>1, <2>1, GrowsSelf
<1>2. CASE ~Known(st.d, l)
  <2>1. x = [st EXCEPT !.d = t]
    <3>1. x = [st EXCEPT !.d = AddEcole(@, l.ecole, l.code)]
      BY <1>2 DEF EtapeEcole, Known
    <3>2. QED  BY <3>1
  <2>2. /\ Coherent(t) /\ Grows(st.d, t) /\ PhonesOnce(t)
        /\ t.eleves = st.d.eleves /\ t.comptes = st.d.comptes
        /\ \E e \in Ecoles(t) : t.ecoles[e] = [nom |-> l.ecole, code |-> l.code]
    BY <1>2, LigneIs, SchoolAdded DEF Sain, Known
  <2> HIDE DEF t, x
  <2>3. Known(t, l)  BY <2>2 DEF Known
  <2>4. x = [d |-> t, orphelins |-> st.orphelins,
             erreur |-> st.erreur, saute |-> st.saute, echec |-> st.echec]
    BY <2>1, OtherTables DEF Sain
  <2>5. \A c \in st.orphelins : c \in Comptes(t) /\ t.comptes[c].ecole = NULL
    BY <2>2 DEF Sain, Comptes
  <2>6. Sain(x)  BY <2>2, <2>4, <2>5, SainWith
  <2>7. x.d = t  BY <2>4
  <2>8. QED  BY <2>2, <2>3, <2>6, <2>7 DEF x
<1>3. QED  BY <1>1, <1>2

\* An account without school joins one.
LEMMA AttachStep ==
  ASSUME NEW st, Sain(st), NEW c \in st.orphelins, NEW ecole \in Ecoles(st.d)
  PROVE  LET x == Attach(st, c, ecole)
         IN /\ Step(st, x)
            /\ x.saute = st.saute
            /\ c \in Comptes(x.d) /\ x.d.comptes[c] = [st.d.comptes[c] EXCEPT !.ecole = ecole]
<1> DEFINE account == [st.d.comptes[c] EXCEPT !.ecole = ecole]
           t == [st.d EXCEPT !.comptes[c] = account]
           o == st.orphelins \ Homonymes(st.d, st.d.comptes[c].nom, st.d.comptes[c].role)
           x == Attach(st, c, ecole)
<1>1. /\ st \in Etat /\ st.d \in Base /\ Coherent(st.d) /\ PhonesOnce(st.d)
      /\ c \in Comptes(st.d) /\ st.d.comptes[c].ecole = NULL
  BY DEF Sain, Coherent
<1>2. st.d.comptes[c] \in Compte /\ ecole \in Nat /\ ecole # NULL
  BY <1>1, RowsOf, NullIsNoRow
<1>3. /\ account \in Compte /\ account.ecole = ecole
      /\ account.nom = st.d.comptes[c].nom /\ account.role = st.d.comptes[c].role
      /\ account.tel = st.d.comptes[c].tel /\ account.classes = st.d.comptes[c].classes
  BY <1>2 DEF Compte
<1>4. c \in Homonymes(st.d, st.d.comptes[c].nom, st.d.comptes[c].role)
  BY <1>1 DEF Homonymes
<1>5. x = [st EXCEPT !.d = t, !.orphelins = o]
  BY <1>1 DEF Attach, Etat, Base
<1>6. ~TelPris(st.d, account.tel, c)  BY <1>1, <1>3 DEF PhonesOnce
<1> HIDE DEF account, o, x
<1>7. /\ Coherent(t) /\ Same(st.d, t) /\ Comptes(t) = Comptes(st.d)
      /\ PhonesOnce(t) /\ Grows(st.d, t)
      /\ t.comptes[c] = account
      /\ \A b \in Comptes(st.d) : b # c => t.comptes[b] = st.d.comptes[b]
  BY <1>1, <1>3, <1>6, AccountWritten
<1> HIDE DEF t
<1>8. x = [d |-> t, orphelins |-> o,
           erreur |-> st.erreur, saute |-> st.saute, echec |-> st.echec]
  BY <1>1, <1>5, OtherTables
<1>9. \A b \in o : b \in Comptes(t) /\ t.comptes[b].ecole = NULL
  BY <1>4, <1>7 DEF o, Sain
<1>10. Sain(x)  BY <1>7, <1>8, <1>9, SainWith DEF o
<1>11. x.d = t /\ x.saute = st.saute  BY <1>8
<1>12. QED  BY <1>1, <1>7, <1>10, <1>11 DEF Step, x, account

\* A row that failed leaves the tables, and so does the beginning of the next one.
LEMMA FailedStep ==
  ASSUME NEW st, Sain(st)
  PROVE  /\ Step(st, Raise(st)) /\ Raise(st).saute
         /\ Step(st, FlushFails(st)) /\ FlushFails(st).saute
         /\ Step(st, [st EXCEPT !.saute = FALSE])
<1>1. st \in Etat  BY DEF Sain
<1>2. ASSUME NEW e \in BOOLEAN, NEW s \in BOOLEAN, NEW c \in BOOLEAN
      PROVE  Step(st, [d |-> st.d, orphelins |-> st.orphelins,
                       erreur |-> e, saute |-> s, echec |-> c])
  <2> DEFINE x == [d |-> st.d, orphelins |-> st.orphelins,
                   erreur |-> e, saute |-> s, echec |-> c]
  <2>1. x \in Etat  BY <1>1 DEF Etat
  <2>2. x.d = st.d /\ x.orphelins = st.orphelins  OBVIOUS
  <2> HIDE DEF x
  <2>3. Sain(x)  BY <2>1, <2>2 DEF Sain
  <2>4. QED  BY <2>2, <2>3, GrowsSelf DEF Step, Same, x
<1>3. /\ Step(st, [d |-> st.d, orphelins |-> st.orphelins,
                   erreur |-> TRUE, saute |-> TRUE, echec |-> st.echec])
      /\ Step(st, [d |-> st.d, orphelins |-> st.orphelins,
                   erreur |-> TRUE, saute |-> TRUE, echec |-> TRUE])
      /\ Step(st, [d |-> st.d, orphelins |-> st.orphelins,
                   erreur |-> st.erreur, saute |-> FALSE, echec |-> st.echec])
  <2>1. TRUE \in BOOLEAN /\ FALSE \in BOOLEAN  OBVIOUS
  <2>2. st.erreur \in BOOLEAN /\ st.echec \in BOOLEAN  BY <1>1 DEF Etat
  <2>3. QED  BY <1>2, <2>1, <2>2, Zenon
<1>4. /\ Step(st, Raise(st)) /\ Step(st, FlushFails(st))
      /\ Step(st, [st EXCEPT !.saute = FALSE])
  BY <1>1, <1>3, Failed, Zenon
<1>5. Raise(st).saute /\ FlushFails(st).saute
  BY <1>1 DEF Raise, FlushFails, Etat
<1>6. QED  BY <1>4, <1>5

\* The account of a row is created, unless its number is wrong or taken.
LEMMA CreateCompteStep ==
  ASSUME NEW st, Sain(st), NEW nom \in Personnes, NEW role \in Roles,
         NEW ecole \in Ecoles(st.d), NEW classes \in SUBSET Classes,
         NEW ecrit \in Telephones \cup {NULL}
  PROVE  LET x == CreateCompte(st, nom, role, ecole, classes, ecrit)
         IN /\ Step(st, x)
            /\ \/ x.saute
               \/ \E c \in Comptes(x.d) :
                    /\ x.d.comptes[c].nom = nom /\ x.d.comptes[c].role = role
                    /\ x.d.comptes[c].ecole = ecole /\ x.d.comptes[c].classes = classes
<1> DEFINE tel == IF ecrit = NULL THEN PROVISOIRE ELSE Normal[ecrit]
           account == [nom |-> nom, role |-> role, ecole |-> ecole,
                      classes |-> classes, tel |-> tel]
           t == AddCompte(st.d, account)
           x == CreateCompte(st, nom, role, ecole, classes, ecrit)
<1>1. st \in Etat /\ st.d \in Base /\ Coherent(st.d) /\ PhonesOnce(st.d)
  BY DEF Sain, Coherent
<1>2. CASE tel = NULL
  <2>1. x = Raise(st)  BY <1>2 DEF CreateCompte
  <2>2. QED  BY <2>1, FailedStep
<1>3. CASE tel # NULL /\ TelPris(st.d, tel, 0)
  <2>1. x = FlushFails(st)  BY <1>3 DEF CreateCompte
  <2>2. QED  BY <2>1, FailedStep
<1>4. CASE tel # NULL /\ ~TelPris(st.d, tel, 0)
  <2>1. x = [st EXCEPT !.d = t]
    <3>1. x = [st EXCEPT !.d = AddCompte(@, [nom |-> nom, role |-> role, ecole |-> ecole,
                                            classes |-> classes, tel |-> tel])]
      BY <1>4 DEF CreateCompte
    <3>2. QED  BY <3>1
  <2>2. tel \in Telephones \cup {NULL, PROVISOIRE}
    BY DirectoryAssumption
  <2>3. ecole \in Nat  BY <1>1, RowsOf
  <2>4. account \in Compte  BY <2>2, <2>3 DEF Compte
  <2>5. /\ account.nom = nom /\ account.role = role /\ account.ecole = ecole
        /\ account.classes = classes /\ account.tel = tel
    OBVIOUS
  <2> HIDE DEF account, tel, x
  <2>6. /\ Coherent(t) /\ Grows(st.d, t) /\ Same(st.d, t) /\ PhonesOnce(t)
        /\ \E c \in Comptes(t) : t.comptes[c] = account
        /\ \A c \in Comptes(st.d) : c \in Comptes(t) /\ t.comptes[c] = st.d.comptes[c]
    BY <1>1, <1>4, <2>4, <2>5, AccountAdded
  <2> HIDE DEF t
  <2>7. x = [d |-> t, orphelins |-> st.orphelins,
             erreur |-> st.erreur, saute |-> st.saute, echec |-> st.echec]
    BY <1>1, <2>1, OtherTables
  <2>8. \A c \in st.orphelins : c \in Comptes(t) /\ t.comptes[c].ecole = NULL
    BY <2>6 DEF Sain
  <2>9. Sain(x)  BY <2>6, <2>7, <2>8, SainWith
  <2>10. x.d = t  BY <2>7
  <2>11. QED  BY <2>5, <2>6, <2>9, <2>10 DEF Step, x
<1>5. QED  BY <1>2, <1>3, <1>4

\* A tutor has one more class.
LEMMA AjouterClasseStep ==
  ASSUME NEW st, Sain(st), NEW c \in Comptes(st.d), NEW classe \in Classes
  PROVE  LET x == AjouterClasse(st, c, classe)
         IN /\ Step(st, x)
            /\ c \in Comptes(x.d)
            /\ x.d.comptes[c] = [st.d.comptes[c] EXCEPT
                                   !.classes = st.d.comptes[c].classes \cup {classe}]
<1> DEFINE ligne == st.d.comptes[c]
           account == [ligne EXCEPT !.classes = ligne.classes \cup {classe}]
           t == [st.d EXCEPT !.comptes[c] = account]
           x == AjouterClasse(st, c, classe)
<1>1. st \in Etat /\ st.d \in Base /\ Coherent(st.d) /\ PhonesOnce(st.d)
  BY DEF Sain, Coherent
<1>2. ligne \in Compte /\ ligne.ecole \in Ecoles(st.d) \cup {NULL}
  BY <1>1, RowsOf DEF Coherent, Refs
<1>3. x = [st EXCEPT !.d = t]
  BY <1>1 DEF AjouterClasse, Etat, Base
<1>4. ~TelPris(st.d, ligne.tel, c)  BY <1>1 DEF PhonesOnce
<1> HIDE DEF ligne
<1>5. /\ account \in Compte /\ account.ecole = ligne.ecole
      /\ account.nom = ligne.nom /\ account.role = ligne.role
      /\ account.tel = ligne.tel /\ ligne.classes \subseteq account.classes
  BY <1>2 DEF Compte
<1> HIDE DEF account, x
<1>6. /\ Coherent(t) /\ Same(st.d, t) /\ Comptes(t) = Comptes(st.d)
      /\ PhonesOnce(t) /\ Grows(st.d, t)
      /\ t.comptes[c] = account
      /\ \A b \in Comptes(st.d) : b # c => t.comptes[b] = st.d.comptes[b]
  BY <1>1, <1>2, <1>4, <1>5, AccountWritten DEF ligne
<1> HIDE DEF t
<1>7. x = [d |-> t, orphelins |-> st.orphelins,
           erreur |-> st.erreur, saute |-> st.saute, echec |-> st.echec]
  BY <1>1, <1>3, OtherTables
<1>8. \A b \in st.orphelins : b \in Comptes(t) /\ t.comptes[b].ecole = NULL
  BY <1>5, <1>6 DEF Sain, ligne
<1>9. Sain(x)  BY <1>6, <1>7, <1>8, SainWith
<1>10. x.d = t  BY <1>7
<1>11. QED  BY <1>6, <1>9, <1>10 DEF Step, x, account, ligne

\* An account taken from those without school is one, and has the name and the role.
LEMMA SansEcoleIn ==
  ASSUME NEW st, Sain(st), NEW nom, NEW role, NEW ordre
  PROVE  \A c \in SansEcole(st, nom, role, ordre) :
           c \in st.orphelins /\ c \in Homonymes(st.d, nom, role)
<1> DEFINE S == Homonymes(st.d, nom, role) \cap st.orphelins
<1>1. SansEcole(st, nom, role, ordre) = IF S = {} THEN {} ELSE {Dernier(S, ordre)}
  BY DEF SansEcole
<1>2. st.d \in Base  BY DEF Sain, Coherent
<1>3. S \subseteq 1..Len(st.d.comptes) /\ Len(st.d.comptes) \in Nat
  BY <1>2, RowsOf DEF Homonymes
<1>4. S # {} => Dernier(S, ordre) \in S
  <2> HIDE DEF S
  <2>1. QED  BY <1>3, DernierIn
<1>5. QED  BY <1>1, <1>4

\* One step after another.
LEMMA StepOn ==
  ASSUME NEW a, NEW b, NEW c, Step(a, b), Step(b, c)
  PROVE  Step(a, c)
BY GrowsOn DEF Step, Same

\* A state is a step from itself.
LEMMA StepSelf == ASSUME NEW st, Sain(st) PROVE Step(st, st)
BY GrowsSelf DEF Step, Same

\* One supervisor of the row.
LEMMA EtapeSuperviseurStep ==
  ASSUME NEW st, Sain(st), NEW nom \in Personnes, NEW l \in Ligne, Known(st.d, l), NEW ordre
  PROVE  Step(st, EtapeSuperviseur(st, nom, l, ordre))
<1> DEFINE x == EtapeSuperviseur(st, nom, l, ordre)
           ecole == EcoleDe(st.d, l, ordre)
           libres == SansEcole(st, nom, "superviseur", ordre)
<1>1. ecole \in Ecoles(st.d)  BY EcoleDeIn DEF Sain, Coherent
<1>2. CASE st.saute \/ DeLEcole(st.d, ecole, nom, "superviseur") # {}
  <2>1. x = st  BY <1>2 DEF EtapeSuperviseur
  <2>2. QED  BY <2>1, StepSelf
<1>3. CASE ~(st.saute \/ DeLEcole(st.d, ecole, nom, "superviseur") # {}) /\ libres # {}
  <2>1. x = Attach(st, CHOOSE c \in libres : TRUE, ecole)
    BY <1>3 DEF EtapeSuperviseur
  <2>2. (CHOOSE c \in libres : TRUE) \in st.orphelins  BY <1>3, SansEcoleIn
  <2> HIDE DEF x, ecole, libres
  <2>3. Step(st, Attach(st, CHOOSE c \in libres : TRUE, ecole))
    BY <1>1, <2>2, AttachStep
  <2>4. QED  BY <2>1, <2>3 DEF x
<1>4. CASE ~(st.saute \/ DeLEcole(st.d, ecole, nom, "superviseur") # {}) /\ libres = {}
  <2>1. x = CreateCompte(st, nom, "superviseur", ecole, {}, l.telSuperviseur)
    BY <1>4 DEF EtapeSuperviseur
  <2>2. l.telSuperviseur \in Telephones \cup {NULL} /\ "superviseur" \in Roles
    BY LigneIs DEF Roles
  <2>3. {} \in SUBSET Classes  OBVIOUS
  <2> HIDE DEF x, ecole, libres
  <2>4. Step(st, CreateCompte(st, nom, "superviseur", ecole, {}, l.telSuperviseur))
    BY <1>1, <2>2, <2>3, CreateCompteStep
  <2>5. QED  BY <2>1, <2>4 DEF x
<1>5. QED  BY <1>2, <1>3, <1>4

\* All supervisors of the row.
Superviseurs(st, l, ordre) ==
  FoldLeft(LAMBDA x, nom : EtapeSuperviseur(x, nom, l, ordre), st, l.superviseurs)

\* What the supervisors of a row keep, of all of them (St) and of the first k (T[k]).
LEMMA SuperviseursFold ==
  ASSUME NEW st, NEW l \in Ligne, NEW ordre, NEW St, NEW T,
         st \in St, st \in T[0],
         \A x \in St, i \in 1..Len(l.superviseurs) :
           EtapeSuperviseur(x, l.superviseurs[i], l, ordre) \in St,
         \A i \in 1..Len(l.superviseurs) : \A x \in St :
           x \in T[i - 1] => EtapeSuperviseur(x, l.superviseurs[i], l, ordre) \in T[i]
  PROVE  /\ Superviseurs(st, l, ordre) \in St
         /\ Superviseurs(st, l, ordre) \in T[Len(l.superviseurs)]
<1> DEFINE F == l.superviseurs
           n == Len(F)
<1>1. n \in Nat /\ DOMAIN F = 1..n /\ \A i \in 1..n : F[i] \in Personnes
  BY LigneIs
<1>2. \A x \in St, i \in 1..n : EtapeSuperviseur(x, F[i], l, ordre) \in St  OBVIOUS
<1>3. \A i \in 1..n : \A x \in St :
        x \in T[i - 1] => EtapeSuperviseur(x, F[i], l, ordre) \in T[i]
  OBVIOUS
<1> HIDE DEF F, n
<1> DEFINE g == [i \in 1..n |-> [x \in St |-> EtapeSuperviseur(x, F[i], l, ordre)]]
           Iter(f) == f = [s \in SUBSET (DOMAIN F) |->
                             IF s = {} THEN st
                             ELSE LET i == Max(s)
                                  IN EtapeSuperviseur(f[s \ {i}], F[i], l, ordre)]
           iter == CHOOSE f : Iter(f)
<1>4. \E f : Iter(f) /\ f \in [SUBSET (1..n) -> St]
  <2>1. g \in [1..n -> [St -> St]]  BY <1>2
  <2>2. PICK f \in [SUBSET (1..n) -> St] : Iterates(f, n, st, g)
    <3> HIDE DEF g, Iter, iter
    <3>1. QED  BY <2>1, <1>1, FoldExists
  <2>3. ASSUME NEW s \in SUBSET (1..n), s # {}
        PROVE  f[s] = EtapeSuperviseur(f[s \ {Max(s)}], F[Max(s)], l, ordre)
    <3>1. Max(s) \in 1..n  BY <2>3, <1>1, MaxIs
    <3>2. f[s \ {Max(s)}] \in St  BY <2>2
    <3>3. f[s] = g[Max(s)][f[s \ {Max(s)}]]  BY <2>2, <2>3 DEF Iterates
    <3> HIDE DEF Iter, iter
    <3>4. QED  BY <3>1, <3>2, <3>3
  <2>4. f[{}] = st  BY <2>2 DEF Iterates
  <2>5. Iter(f)
    <3> HIDE DEF g, iter
    <3>1. QED  BY <1>1, <2>2, <2>3, <2>4
  <2>6. QED  BY <2>2, <2>5
<1>5. Iter(iter)  BY <1>4
<1>6. /\ iter[{}] = st
      /\ \A k \in 1..n : iter[1..k] = EtapeSuperviseur(iter[1..(k - 1)], F[k], l, ordre)
  <2>1. iter[{}] = st
    <3> HIDE DEF g, iter
    <3>1. QED  BY <1>1, <1>5
  <2>2. ASSUME NEW k \in 1..n
        PROVE  iter[1..k] = EtapeSuperviseur(iter[1..(k - 1)], F[k], l, ordre)
    <3>1. /\ 1..k \in SUBSET (1..n) /\ 1..k # {}
          /\ Max(1..k) = k /\ (1..k) \ {k} = 1..(k - 1)
      BY <1>1, Segment
    <3> HIDE DEF g, iter
    <3>2. QED  BY <1>1, <1>5, <3>1
  <2>3. QED  BY <2>1, <2>2
<1> HIDE DEF iter, g
<1> DEFINE B == [k \in 0..n |-> T[k] \cap St]
<1>7. iter[1..n] \in B[n]
  <2>1. iter[{}] \in B[0]  BY <1>1, <1>6
  <2>2. ASSUME NEW k \in 1..n, iter[1..(k - 1)] \in B[k - 1]
        PROVE  iter[1..k] \in B[k]
    <3>1. k - 1 \in 0..n /\ k \in 0..n  BY <1>1
    <3>2. iter[1..(k - 1)] \in St /\ iter[1..(k - 1)] \in T[k - 1]  BY <2>2, <3>1
    <3>3. iter[1..k] \in St /\ iter[1..k] \in T[k]  BY <3>2, <1>2, <1>3, <1>6
    <3>4. QED  BY <3>1, <3>3
  <2> HIDE DEF B
  <2>3. QED  BY <2>1, <2>2, <1>1, IndexedInduction
<1>8. Superviseurs(st, l, ordre) = iter[1..n]
  <2>1. FoldLeft(LAMBDA x, nom : EtapeSuperviseur(x, nom, l, ordre), st, F) = iter[1..n]
    BY <1>1 DEF FoldLeft, MapThenFoldSet, iter
  <2>2. QED  BY <2>1, Zenon DEF Superviseurs, F
<1>9. n \in 0..n  BY <1>1
<1>10. QED  BY <1>7, <1>8, <1>9 DEF n, F

\* They are a step.
LEMMA EtapeSuperviseurs ==
  ASSUME NEW st, Sain(st), NEW l \in Ligne, Known(st.d, l), NEW ordre
  PROVE  Step(st, Superviseurs(st, l, ordre))
<1> DEFINE St == {x \in Etat : Step(st, x)}
           n == Len(l.superviseurs)
           T == [k \in 0..n |-> St]
<1>1. n \in Nat /\ \A i \in 1..n : l.superviseurs[i] \in Personnes
  BY LigneIs
<1>2. st \in St  BY StepSelf DEF Sain
<1>3. ASSUME NEW x \in St, NEW i \in 1..n
      PROVE  EtapeSuperviseur(x, l.superviseurs[i], l, ordre) \in St
  <2> DEFINE nom == l.superviseurs[i]
  <2>1. Sain(x) /\ Same(st.d, x.d) /\ Step(st, x)  BY DEF Step
  <2>2. Known(x.d, l)  BY <2>1, EcoleDeSame
  <2>3. nom \in Personnes  BY <1>1
  <2> HIDE DEF nom, n
  <2>4. Step(x, EtapeSuperviseur(x, nom, l, ordre))
    BY <2>1, <2>2, <2>3, EtapeSuperviseurStep
  <2>5. Step(st, EtapeSuperviseur(x, nom, l, ordre))  BY <2>1, <2>4, StepOn
  <2>6. QED  BY <2>5 DEF Step, Sain, nom
<1> HIDE DEF St
<1>4. st \in T[0]  BY <1>1, <1>2
<1>5. \A x \in St, i \in 1..n : EtapeSuperviseur(x, l.superviseurs[i], l, ordre) \in St
  BY <1>3
<1>6. \A i \in 1..n : \A x \in St :
        x \in T[i - 1] => EtapeSuperviseur(x, l.superviseurs[i], l, ordre) \in T[i]
  BY <1>1, <1>3
<1> HIDE DEF T
<1>7. Superviseurs(st, l, ordre) \in St  BY <1>2, <1>4, <1>5, <1>6, SuperviseursFold
<1>8. QED  BY <1>7 DEF St

\* A tutor of the row's name, in a school, has the row's class.
Taught(d, ecole, l) ==
  \E c \in DeLEcole(d, ecole, l.tuteur, "enseignant") : l.classe \in d.comptes[c].classes

\* The tutor of the row.
LEMMA EtapeTuteurStep ==
  ASSUME NEW st, Sain(st), NEW l \in Ligne, Known(st.d, l), NEW ordre
  PROVE  LET x == EtapeTuteur(st, l, ordre)
         IN /\ Step(st, x)
            /\ x.saute \/ l.tuteur = NULL \/ Taught(x.d, EcoleDe(st.d, l, ordre), l)
<1> DEFINE x == EtapeTuteur(st, l, ordre)
           ecole == EcoleDe(st.d, l, ordre)
           ici == DeLEcole(st.d, ecole, l.tuteur, "enseignant")
           libres == SansEcole(st, l.tuteur, "enseignant", ordre)
           suite == ~(st.saute \/ l.tuteur = NULL)
<1>1. ecole \in Ecoles(st.d)  BY EcoleDeIn DEF Sain, Coherent
<1>2. st.d \in Base /\ l.classe \in Classes  BY LigneIs DEF Sain, Coherent
<1>3. CASE ~suite
  <2>1. x = st  BY <1>3 DEF EtapeTuteur
  <2>2. Step(st, st)  BY StepSelf
  <2>3. QED  BY <1>3, <2>1, <2>2
<1>4. CASE suite /\ ici # {}
  <2> DEFINE c == Dernier(ici, ordre)
  <2>1. x = AjouterClasse(st, c, l.classe)  BY <1>4 DEF EtapeTuteur
  <2>2. c \in ici
    <3>1. ici \subseteq 1..Len(st.d.comptes) /\ Len(st.d.comptes) \in Nat
      BY <1>2, RowsOf DEF DeLEcole, Homonymes
    <3> HIDE DEF ici
    <3>2. QED  BY <1>4, <3>1, DernierIn
  <2> HIDE DEF c, x
  <2>3. /\ c \in Comptes(st.d) /\ st.d.comptes[c].role = "enseignant"
        /\ Cle[st.d.comptes[c].nom] = Cle[l.tuteur] /\ st.d.comptes[c].ecole = ecole
        /\ st.d.comptes[c] \in Compte
    BY <1>2, <2>2, RowsOf DEF DeLEcole, Homonymes
  <2>4. /\ Step(st, AjouterClasse(st, c, l.classe))
        /\ c \in Comptes(AjouterClasse(st, c, l.classe).d)
        /\ AjouterClasse(st, c, l.classe).d.comptes[c]
             = [st.d.comptes[c] EXCEPT !.classes = st.d.comptes[c].classes \cup {l.classe}]
    BY <1>2, <2>3, AjouterClasseStep
  <2>5. /\ Step(st, x) /\ c \in Comptes(x.d)
        /\ x.d.comptes[c]
             = [st.d.comptes[c] EXCEPT !.classes = st.d.comptes[c].classes \cup {l.classe}]
    BY <2>1, <2>4
  <2>6. /\ x.d.comptes[c].role = "enseignant" /\ x.d.comptes[c].ecole = ecole
        /\ x.d.comptes[c].nom = st.d.comptes[c].nom
        /\ l.classe \in x.d.comptes[c].classes
    BY <2>3, <2>5 DEF Compte
  <2>7. Taught(x.d, ecole, l)
    BY <2>3, <2>5, <2>6 DEF Taught, DeLEcole, Homonymes
  <2>8. QED  BY <2>5, <2>7 DEF x
<1>5. CASE suite /\ ici = {} /\ libres # {}
  <2> DEFINE c == CHOOSE c \in libres : TRUE
             y == Attach(st, c, ecole)
  <2>1. x = AjouterClasse(y, c, l.classe)  BY <1>5 DEF EtapeTuteur
  <2>2. c \in libres  BY <1>5
  <2> HIDE DEF c, x
  <2>3. c \in st.orphelins /\ c \in Homonymes(st.d, l.tuteur, "enseignant")
    BY <2>2, SansEcoleIn
  <2>4. /\ c \in Comptes(st.d) /\ st.d.comptes[c].role = "enseignant"
        /\ Cle[st.d.comptes[c].nom] = Cle[l.tuteur] /\ st.d.comptes[c] \in Compte
    BY <1>2, <2>3, RowsOf DEF Homonymes
  <2>5. /\ Step(st, y) /\ c \in Comptes(y.d)
        /\ y.d.comptes[c] = [st.d.comptes[c] EXCEPT !.ecole = ecole]
    BY <1>1, <2>3, AttachStep
  <2> HIDE DEF y
  <2>6. /\ Step(y, AjouterClasse(y, c, l.classe))
        /\ c \in Comptes(AjouterClasse(y, c, l.classe).d)
        /\ AjouterClasse(y, c, l.classe).d.comptes[c]
             = [y.d.comptes[c] EXCEPT !.classes = y.d.comptes[c].classes \cup {l.classe}]
    <3>1. Sain(y) /\ c \in Comptes(y.d) /\ l.classe \in Classes
      BY <1>2, <2>5 DEF Step
    <3>2. QED  BY <3>1, AjouterClasseStep
  <2>7. /\ Step(y, x) /\ c \in Comptes(x.d)
        /\ x.d.comptes[c]
             = [y.d.comptes[c] EXCEPT !.classes = y.d.comptes[c].classes \cup {l.classe}]
    BY <2>1, <2>6
  <2>8. y.d.comptes[c] \in Compte  BY <2>5, RowsOf DEF Step, Sain, Coherent
  <2>9. /\ y.d.comptes[c].role = "enseignant" /\ y.d.comptes[c].ecole = ecole
        /\ y.d.comptes[c].nom = st.d.comptes[c].nom
    BY <2>4, <2>5 DEF Compte
  <2>10. /\ x.d.comptes[c].role = "enseignant" /\ x.d.comptes[c].ecole = ecole
         /\ x.d.comptes[c].nom = st.d.comptes[c].nom
         /\ l.classe \in x.d.comptes[c].classes
    BY <2>7, <2>8, <2>9 DEF Compte
  <2>11. Taught(x.d, ecole, l)
    BY <2>4, <2>7, <2>10 DEF Taught, DeLEcole, Homonymes
  <2>12. Step(st, x)  BY <2>5, <2>7, StepOn
  <2>13. QED  BY <2>11, <2>12 DEF x
<1>6. CASE suite /\ ici = {} /\ libres = {}
  <2>1. x = CreateCompte(st, l.tuteur, "enseignant", ecole, {l.classe}, l.telTuteur)
    BY <1>6 DEF EtapeTuteur
  <2>2. /\ l.tuteur \in Personnes /\ l.telTuteur \in Telephones \cup {NULL}
        /\ "enseignant" \in Roles /\ {l.classe} \in SUBSET Classes
    BY <1>2, <1>6, LigneIs DEF Roles
  <2> DEFINE K == {l.classe}
             y == CreateCompte(st, l.tuteur, "enseignant", ecole, K, l.telTuteur)
  <2>3. K \in SUBSET Classes /\ l.classe \in K  BY <2>2
  <2>4. x = y  BY <2>1
  <2> HIDE DEF x, ecole, ici, libres, K
  <2>5. /\ Step(st, y)
        /\ \/ y.saute
           \/ \E c \in Comptes(y.d) :
                /\ y.d.comptes[c].nom = l.tuteur /\ y.d.comptes[c].role = "enseignant"
                /\ y.d.comptes[c].ecole = ecole /\ y.d.comptes[c].classes = K
    BY <1>1, <2>2, <2>3, CreateCompteStep
  <2> HIDE DEF y
  <2>6. y.saute \/ Taught(y.d, ecole, l)
    BY <2>3, <2>5 DEF Taught, DeLEcole, Homonymes
  <2>7. QED  BY <2>4, <2>5, <2>6 DEF x, ecole
<1>7. QED  BY <1>3, <1>4, <1>5, <1>6

\* Two tables replaced.
LEMMA TwoTables ==
  ASSUME NEW d \in Base, NEW k, NEW p
  PROVE  [d EXCEPT !.classes = k, !.eleves = p] =
           [ecoles |-> d.ecoles, comptes |-> d.comptes, classes |-> k, eleves |-> p]
<1>1. [d EXCEPT !.classes = k] = [ecoles |-> d.ecoles, comptes |-> d.comptes,
                                  classes |-> k, eleves |-> d.eleves]
  BY TableReplaced
<1>2. [[ecoles |-> d.ecoles, comptes |-> d.comptes,
        classes |-> k, eleves |-> d.eleves] EXCEPT !.eleves = p]
        = [ecoles |-> d.ecoles, comptes |-> d.comptes, classes |-> k, eleves |-> p]
  OBVIOUS
<1>3. [d EXCEPT !.classes = k, !.eleves = p] = [[d EXCEPT !.classes = k] EXCEPT !.eleves = p]
  OBVIOUS
<1>4. QED  BY <1>1, <1>2, <1>3

\* A class and a pupil that was not known in it.
LEMMA PupilAdded ==
  ASSUME NEW d, Coherent(d), NEW k, k \subseteq Classe, \A c \in k : c.ecole \in Ecoles(d),
         NEW new, new \subseteq Pupil, IsFiniteSet(new),
         \A p \in new : p.ecole \in Ecoles(d) \cup {NULL},
         \A p \in new, q \in d.eleves \cup new : MemePlace(p, q) /\ ~Distinct(p) => p = q
  PROVE  LET x == [ecoles |-> d.ecoles, comptes |-> d.comptes, classes |-> k,
                   eleves |-> d.eleves \cup new]
         IN /\ Coherent(x) /\ (PhonesOnce(d) => PhonesOnce(x))
            /\ x.ecoles = d.ecoles /\ x.comptes = d.comptes
            /\ Comptes(x) = Comptes(d) /\ Ecoles(x) = Ecoles(d)
<1> DEFINE x == [ecoles |-> d.ecoles, comptes |-> d.comptes, classes |-> k,
                 eleves |-> d.eleves \cup new]
<1>1. d \in Base /\ d.eleves \subseteq Pupil  BY RowsOf DEF Coherent
<1>2. x.ecoles = d.ecoles /\ x.comptes = d.comptes /\ x.classes = k
      /\ x.eleves = d.eleves \cup new
  OBVIOUS
<1>3. x \in Base  BY <1>1 DEF Base
<1> HIDE DEF x
<1>4. Comptes(x) = Comptes(d) /\ Ecoles(x) = Ecoles(d)  BY <1>2 DEF Comptes, Ecoles
<1>5. Refs(x)  BY <1>2, <1>4 DEF Coherent, Refs
<1>6. CodesOnce(x)  BY <1>2, <1>4 DEF Coherent, CodesOnce
<1>7. PupilsOnce(x)
  <2>1. SUFFICES ASSUME NEW p \in d.eleves \cup new, NEW q \in d.eleves \cup new,
                        MemePlace(p, q), ~Distinct(p)
                 PROVE  p = q
    <3>1. IsFiniteSet(d.eleves \cup new)  BY FS_Union DEF Coherent, PupilsOnce
    <3>2. QED  BY <1>2, <3>1 DEF PupilsOnce
  <2>2. CASE p \in new  BY <2>1, <2>2
  <2>3. CASE q \in new
    <3>1. MemePlace(q, p) /\ ~Distinct(q)  BY <2>1 DEF MemePlace, Distinct
    <3>2. QED  BY <2>3, <3>1
  <2>4. CASE p \in d.eleves /\ q \in d.eleves
    BY <2>1, <2>4 DEF Coherent, PupilsOnce
  <2>5. QED  BY <2>2, <2>3, <2>4
<1>8. PhonesOnce(d) => PhonesOnce(x)  BY <1>2, <1>4 DEF PhonesOnce, TelPris
<1>9. QED  BY <1>2, <1>3, <1>4, <1>5, <1>6, <1>7, <1>8 DEF Coherent, x

\* The class of the row, and its pupil unless known or the row failed.
LEMMA EtapeClasseEleveStep ==
  ASSUME NEW st, Sain(st), NEW l \in Ligne, Known(st.d, l), NEW ordre
  PROVE  LET x == EtapeClasseEleve(st, l, ordre)
         IN /\ Sain(x) /\ Grows(st.d, x.d)
            /\ x.d.comptes = st.d.comptes /\ Comptes(x.d) = Comptes(st.d)
            /\ \A p \in x.d.eleves : p \notin st.d.eleves =>
                 /\ ~st.saute
                 /\ p.ecole = EcoleDe(st.d, l, ordre)
                 /\ p.classe = l.classe /\ p.nom = l.eleve /\ p.code = l.codeEleve
<1> DEFINE x == EtapeClasseEleve(st, l, ordre)
           ecole == EcoleDe(st.d, l, ordre)
           pupil == [ecole |-> ecole, classe |-> l.classe, nom |-> l.eleve,
                     code |-> l.codeEleve]
           classe == [ecole |-> ecole, nom |-> l.classe]
           new == IF EleveConnu(st.d, ecole, l) THEN {} ELSE {pupil}
           k == st.d.classes \cup {classe}
           t == [ecoles |-> st.d.ecoles, comptes |-> st.d.comptes, classes |-> k,
                 eleves |-> st.d.eleves \cup new]
<1>1. st \in Etat /\ st.d \in Base /\ Coherent(st.d) /\ PhonesOnce(st.d)
  BY DEF Sain, Coherent
<1>2. ecole \in Ecoles(st.d)  BY <1>1, EcoleDeIn
<1>3. CASE st.saute
  <2>1. x = st  BY <1>3 DEF EtapeClasseEleve
  <2>2. QED  BY <2>1, GrowsSelf
<1>4. CASE ~st.saute
  <2>1. x = [st EXCEPT !.d = t]
    <3>1. x = [st EXCEPT !.d = [st.d EXCEPT !.classes = k, !.eleves = st.d.eleves \cup new]]
      <4>1. st.d.eleves \cup new
              = IF EleveConnu(st.d, ecole, l) THEN st.d.eleves ELSE st.d.eleves \cup {pupil}
        OBVIOUS
      <4> HIDE DEF new
      <4>2. x = [st EXCEPT !.d.classes = @ \cup {classe},
                           !.d.eleves = IF EleveConnu(st.d, ecole, l) THEN @
                                        ELSE @ \cup {pupil}]
        BY <1>4 DEF EtapeClasseEleve
      <4> HIDE DEF x, ecole, pupil, classe
      <4>3. QED  BY <1>1, <4>1, <4>2 DEF Etat, Base
    <3> HIDE DEF x, k, new
    <3>2. QED  BY <1>1, <3>1, TwoTables
  <2>2. /\ ecole \in Nat /\ l.classe \in Classes /\ l.eleve \in Eleves
        /\ l.codeEleve \in CodesEleve \cup {NULL}
    BY <1>1, <1>2, RowsOf, LigneIs
  <2>3. /\ pupil \in Pupil /\ classe \in Classe /\ classe.ecole = ecole
        /\ pupil.ecole = ecole /\ pupil.classe = l.classe /\ pupil.nom = l.eleve
        /\ pupil.code = l.codeEleve
    BY <2>2 DEF Pupil, Classe
  <2>4. new \subseteq {pupil} /\ IsFiniteSet(new)  BY FS_EmptySet, FS_Singleton
  <2>5. \A p \in new, q \in st.d.eleves :
          <<p.ecole, p.classe, p.nom>> # <<q.ecole, q.classe, q.nom>>
    BY <2>3 DEF EleveConnu
  <2> HIDE DEF pupil, classe, new, ecole, x
  <2>6. k \subseteq Classe /\ \A c \in k : c.ecole \in Ecoles(st.d)
    BY <1>1, <1>2, <2>3, RowsOf DEF Coherent, Refs
  <2> HIDE DEF k
  <2>7. /\ new \subseteq Pupil /\ \A p \in new : p.ecole \in Ecoles(st.d) \cup {NULL}
        /\ \A p \in new, q \in st.d.eleves \cup new : MemePlace(p, q) /\ ~Distinct(p) => p = q
    <3>1. new \subseteq Pupil /\ \A p \in new : p.ecole \in Ecoles(st.d)
      BY <1>2, <2>3, <2>4
    <3>2. ASSUME NEW p \in new, NEW q \in st.d.eleves \cup new, MemePlace(p, q)
          PROVE  p = q
      <4>1. q \notin st.d.eleves  BY <2>5, <3>2 DEF MemePlace
      <4>2. QED  BY <2>4, <4>1
    <3>3. QED  BY <3>1, <3>2
  <2>8. /\ Coherent(t) /\ PhonesOnce(t)
        /\ t.ecoles = st.d.ecoles /\ t.comptes = st.d.comptes
        /\ Comptes(t) = Comptes(st.d) /\ Ecoles(t) = Ecoles(st.d)
    BY <1>1, <2>4, <2>6, <2>7, PupilAdded
  <2>9. t.classes = k /\ t.eleves = st.d.eleves \cup new  OBVIOUS
  <2> HIDE DEF t
  <2>10. x = [d |-> t, orphelins |-> st.orphelins,
              erreur |-> st.erreur, saute |-> st.saute, echec |-> st.echec]
    BY <1>1, <2>1, OtherTables
  <2>11. \A c \in st.orphelins : c \in Comptes(t) /\ t.comptes[c].ecole = NULL
    BY <2>8 DEF Sain
  <2>12. Sain(x)  BY <2>8, <2>10, <2>11, SainWith
  <2>13. x.d = t  BY <2>10
  <2>14. Grows(st.d, t)  BY <2>8, <2>9 DEF Grows, k
  <2>15. \A p \in t.eleves : p \notin st.d.eleves => p = pupil  BY <2>4, <2>9
  <2>16. QED
    BY <1>4, <2>3, <2>8, <2>12, <2>13, <2>14, <2>15 DEF x, ecole
<1>5. QED  BY <1>3, <1>4

\* A pupil is the one of a row, and the row's tutor has the pupil's class.
Seen(d, p, l) ==
  /\ p.nom = l.eleve /\ p.classe = l.classe /\ p.code = l.codeEleve /\ p.ecole # NULL
  /\ l.tuteur # NULL => Taught(d, p.ecole, l)

\* It remains so.
LEMMA SeenLater ==
  ASSUME NEW a \in Base, NEW b, Grows(a, b), NEW p, NEW l, Seen(a, p, l)
  PROVE  Seen(b, p, l)
<1>1. p.ecole # NULL  BY DEF Seen
<1>2. \A c \in DeLEcole(a, p.ecole, l.tuteur, "enseignant") :
        /\ c \in DeLEcole(b, p.ecole, l.tuteur, "enseignant")
        /\ a.comptes[c].classes \subseteq b.comptes[c].classes
  BY <1>1 DEF DeLEcole, Homonymes, Grows
<1>3. QED  BY <1>2 DEF Seen, Taught

\* One row of the workbook.
LEMMA ImportLigneStep ==
  ASSUME NEW st, Sain(st), NEW l \in Ligne, NEW ordre
  PROVE  LET x == ImportLigne(st, l, ordre)
         IN /\ Sain(x) /\ Grows(st.d, x.d)
            /\ \A p \in x.d.eleves : p \notin st.d.eleves => Seen(x.d, p, l)
<1> DEFINE x == ImportLigne(st, l, ordre)
           a == [st EXCEPT !.saute = FALSE]
           e == EtapeEcole(a, l)
           s == Superviseurs(e, l, ordre)
           t == EtapeTuteur(s, l, ordre)
           z == EtapeClasseEleve(t, l, ordre)
<1>1. CASE st.echec
  <2>1. x = st  BY <1>1 DEF ImportLigne
  <2>2. QED  BY <2>1, GrowsSelf
<1>2. CASE ~st.echec
  <2>1. x = z
    <3>1. l.ecole # NULL  BY LigneIs, NullIsNoRow
    <3>2. QED  BY <1>2, <3>1, Zenon DEF ImportLigne, Superviseurs
  <2>2. Step(st, a)  BY FailedStep
  <2> HIDE DEF a
  <2>3. Sain(e) /\ Grows(a.d, e.d) /\ e.d.eleves = a.d.eleves /\ Known(e.d, l)
    BY <2>2, EtapeEcoleStep DEF Step
  <2> HIDE DEF e
  <2>4. Step(e, s)  BY <2>3, EtapeSuperviseurs
  <2> HIDE DEF s
  <2>5. Sain(s) /\ Known(s.d, l)  BY <2>3, <2>4, EcoleDeSame DEF Step
  <2>6. /\ Step(s, t)
        /\ t.saute \/ l.tuteur = NULL \/ Taught(t.d, EcoleDe(s.d, l, ordre), l)
    BY <2>5, EtapeTuteurStep
  <2> HIDE DEF t
  <2>7. /\ Sain(t) /\ Known(t.d, l)
        /\ EcoleDe(t.d, l, ordre) = EcoleDe(s.d, l, ordre)
    BY <2>5, <2>6, EcoleDeSame DEF Step
  <2>8. /\ Sain(z) /\ Grows(t.d, z.d)
        /\ z.d.comptes = t.d.comptes /\ Comptes(z.d) = Comptes(t.d)
        /\ \A p \in z.d.eleves : p \notin t.d.eleves =>
             /\ ~t.saute
             /\ p.ecole = EcoleDe(t.d, l, ordre)
             /\ p.classe = l.classe /\ p.nom = l.eleve /\ p.code = l.codeEleve
    BY <2>7, EtapeClasseEleveStep
  <2> HIDE DEF z, x
  <2>9. Grows(st.d, z.d)
    <3>1. Grows(st.d, a.d) /\ Grows(e.d, s.d) /\ Grows(s.d, t.d)
      BY <2>2, <2>4, <2>6 DEF Step
    <3>2. Grows(st.d, e.d)  BY <2>3, <3>1, GrowsOn
    <3>3. Grows(st.d, s.d)  BY <3>1, <3>2, GrowsOn
    <3>4. Grows(st.d, t.d)  BY <3>1, <3>3, GrowsOn
    <3>5. QED  BY <2>8, <3>4, GrowsOn
  <2>10. t.d.eleves = st.d.eleves  BY <2>2, <2>3, <2>4, <2>6 DEF Step, Same
  <2>11. ASSUME NEW p \in z.d.eleves, p \notin st.d.eleves
         PROVE  Seen(z.d, p, l)
    <3>1. /\ ~t.saute
          /\ p.ecole = EcoleDe(s.d, l, ordre)
          /\ p.classe = l.classe /\ p.nom = l.eleve /\ p.code = l.codeEleve
      BY <2>7, <2>8, <2>10, <2>11
    <3>2. l.tuteur # NULL => Taught(t.d, p.ecole, l)  BY <2>6, <3>1
    <3>3. l.tuteur # NULL => Taught(z.d, p.ecole, l)
      BY <2>8, <3>2 DEF Taught, DeLEcole, Homonymes
    <3>4. p.ecole # NULL
      <4>1. p.ecole \in Ecoles(s.d) /\ Ecoles(s.d) \subseteq Nat
        BY <2>5, <3>1, EcoleDeIn, RowsOf DEF Sain, Coherent
      <4>2. QED  BY <4>1, NullIsNoRow
    <3>5. QED  BY <3>1, <3>3, <3>4 DEF Seen
  <2>12. QED  BY <2>1, <2>8, <2>9, <2>11 DEF x
<1>3. QED  BY <1>1, <1>2

\* What the import knows before the first row.
LEMMA ProgressSound ==
  ASSUME NEW d, Coherent(d), PhonesOnce(d)
  PROVE  /\ Sain(Progress(d)) /\ Progress(d).d = d
         /\ Progress(d).erreur = FALSE /\ Progress(d).saute = FALSE
         /\ Progress(d).echec = FALSE
<1> DEFINE b == Progress(d)
<1>1. /\ d \in Base
      /\ {c \in Comptes(d) : d.comptes[c].ecole = NULL} \in SUBSET Nat
  BY RowsOf DEF Coherent
<1>2. b \in Etat  BY <1>1 DEF Progress, Etat
<1>3. b.d = d /\ b.orphelins = {c \in Comptes(d) : d.comptes[c].ecole = NULL}
  BY DEF Progress
<1>4. b.erreur = FALSE /\ b.saute = FALSE /\ b.echec = FALSE  BY DEF Progress
<1> HIDE DEF b
<1>5. Sain(b)  BY <1>2, <1>3 DEF Sain
<1>6. QED  BY <1>3, <1>4, <1>5 DEF b

\* All rows of the workbook.
Workbook(b, F, ordre) == FoldLeft(LAMBDA x, l : ImportLigne(x, l, ordre), b, F)

\* What the rows of a workbook keep, all of them (St) and the first k (T[k]).
LEMMA WorkbookFold ==
  ASSUME NEW b, NEW n \in Nat, NEW F, DOMAIN F = 1..n, NEW ordre, NEW St, NEW T,
         b \in St, b \in T[0],
         \A x \in St, i \in 1..n :
           ImportLigne(x, F[i], ordre) \in St,
         \A i \in 1..n : \A x \in St :
           x \in T[i - 1] => ImportLigne(x, F[i], ordre) \in T[i]
  PROVE  /\ Workbook(b, F, ordre) \in St
         /\ Workbook(b, F, ordre) \in T[n]
<1>1. n \in Nat /\ DOMAIN F = 1..n  OBVIOUS
<1>2. \A x \in St, i \in 1..n : ImportLigne(x, F[i], ordre) \in St  OBVIOUS
<1>3. \A i \in 1..n : \A x \in St : x \in T[i - 1] => ImportLigne(x, F[i], ordre) \in T[i]
  OBVIOUS
<1> DEFINE g == [i \in 1..n |-> [x \in St |-> ImportLigne(x, F[i], ordre)]]
           Iter(f) == f = [s \in SUBSET (DOMAIN F) |->
                             IF s = {} THEN b
                             ELSE LET i == Max(s)
                                  IN ImportLigne(f[s \ {i}], F[i], ordre)]
           iter == CHOOSE f : Iter(f)
<1>4. \E f : Iter(f) /\ f \in [SUBSET (1..n) -> St]
  <2>1. g \in [1..n -> [St -> St]]  BY <1>2
  <2>2. PICK f \in [SUBSET (1..n) -> St] : Iterates(f, n, b, g)
    <3> HIDE DEF g, Iter, iter
    <3>1. QED  BY <2>1, <1>1, FoldExists
  <2>3. ASSUME NEW s \in SUBSET (1..n), s # {}
        PROVE  f[s] = ImportLigne(f[s \ {Max(s)}], F[Max(s)], ordre)
    <3>1. Max(s) \in 1..n  BY <2>3, <1>1, MaxIs
    <3>2. f[s \ {Max(s)}] \in St  BY <2>2
    <3>3. f[s] = g[Max(s)][f[s \ {Max(s)}]]  BY <2>2, <2>3 DEF Iterates
    <3> HIDE DEF Iter, iter
    <3>4. QED  BY <3>1, <3>2, <3>3
  <2>4. f[{}] = b  BY <2>2 DEF Iterates
  <2>5. Iter(f)
    <3> HIDE DEF g, iter
    <3>1. QED  BY <1>1, <2>2, <2>3, <2>4
  <2>6. QED  BY <2>2, <2>5
<1>5. Iter(iter)  BY <1>4
<1>6. /\ iter[{}] = b
      /\ \A k \in 1..n : iter[1..k] = ImportLigne(iter[1..(k - 1)], F[k], ordre)
  <2>1. iter[{}] = b
    <3> HIDE DEF g, iter
    <3>1. QED  BY <1>1, <1>5
  <2>2. ASSUME NEW k \in 1..n
        PROVE  iter[1..k] = ImportLigne(iter[1..(k - 1)], F[k], ordre)
    <3>1. /\ 1..k \in SUBSET (1..n) /\ 1..k # {}
          /\ Max(1..k) = k /\ (1..k) \ {k} = 1..(k - 1)
      BY <1>1, Segment
    <3> HIDE DEF g, iter
    <3>2. QED  BY <1>1, <1>5, <3>1
  <2>3. QED  BY <2>1, <2>2
<1> HIDE DEF iter, g
<1> DEFINE B == [k \in 0..n |-> T[k] \cap St]
<1>7. iter[1..n] \in B[n]
  <2>1. iter[{}] \in B[0]  BY <1>1, <1>6
  <2>2. ASSUME NEW k \in 1..n, iter[1..(k - 1)] \in B[k - 1]
        PROVE  iter[1..k] \in B[k]
    <3>1. k - 1 \in 0..n /\ k \in 0..n  BY <1>1
    <3>2. iter[1..(k - 1)] \in St /\ iter[1..(k - 1)] \in T[k - 1]  BY <2>2, <3>1
    <3>3. iter[1..k] \in St /\ iter[1..k] \in T[k]  BY <3>2, <1>2, <1>3, <1>6
    <3>4. QED  BY <3>1, <3>3
  <2> HIDE DEF B
  <2>3. QED  BY <2>1, <2>2, <1>1, IndexedInduction
<1>8. Workbook(b, F, ordre) = iter[1..n]
  <2>1. FoldLeft(LAMBDA x, l : ImportLigne(x, l, ordre), b, F) = iter[1..n]
    BY <1>1 DEF FoldLeft, MapThenFoldSet, iter
  <2>2. QED  BY <2>1, Zenon DEF Workbook
<1>9. n \in 0..n  BY <1>1
<1>10. QED  BY <1>7, <1>8, <1>9

\* The whole workbook.
LEMMA ImportStep ==
  ASSUME NEW d, Coherent(d), PhonesOnce(d), NEW F \in Fichiers, NEW ordre
  PROVE  LET x == Import(d, F, ordre).d
         IN /\ Coherent(x) /\ PhonesOnce(x) /\ Grows(d, x)
            /\ \A p \in x.eleves : p \notin d.eleves => \E i \in DOMAIN F : Seen(x, p, F[i])
<1> DEFINE b == Progress(d)
           Ok(x) == /\ Sain(x) /\ Grows(d, x.d)
                    /\ \A p \in x.d.eleves : p \notin d.eleves =>
                         \E i \in DOMAIN F : Seen(x.d, p, F[i])
           St == {x \in Etat : Ok(x)}
           st == Workbook(b, F, ordre)
<1>1. PICK n \in 1..MaxLignes : F \in [1..n -> Lignes]  BY DEF Fichiers
<1>2. n \in Nat /\ DOMAIN F = 1..n /\ \A i \in 1..n : F[i] \in Ligne
  BY <1>1, DirectoryAssumption
<1>3. b \in St
  <2>1. Sain(b) /\ b.d = d  BY ProgressSound
  <2> HIDE DEF b
  <2>2. QED  BY <2>1, GrowsSelf DEF Sain
<1>4. ASSUME NEW x \in St, NEW i \in 1..n
      PROVE  ImportLigne(x, F[i], ordre) \in St
  <2> DEFINE y == ImportLigne(x, F[i], ordre)
  <2>1. /\ Sain(x) /\ Grows(d, x.d) /\ F[i] \in Ligne
        /\ \A p \in x.d.eleves : p \notin d.eleves =>
             \E j \in DOMAIN F : Seen(x.d, p, F[j])
    BY <1>2
  <2>2. /\ Sain(y) /\ Grows(x.d, y.d)
        /\ \A p \in y.d.eleves : p \notin x.d.eleves => Seen(y.d, p, F[i])
    BY <2>1, ImportLigneStep
  <2> HIDE DEF y
  <2>3. Grows(d, y.d)  BY <2>1, <2>2, GrowsOn
  <2>4. ASSUME NEW p \in y.d.eleves, p \notin d.eleves
        PROVE  \E j \in DOMAIN F : Seen(y.d, p, F[j])
    <3>1. CASE p \notin x.d.eleves  BY <1>2, <2>2, <3>1
    <3>2. CASE p \in x.d.eleves
      <4>1. PICK j \in DOMAIN F : Seen(x.d, p, F[j])  BY <2>1, <2>4, <3>2
      <4>2. x.d \in Base  BY <2>1 DEF Sain, Coherent
      <4>3. Seen(y.d, p, F[j])  BY <2>2, <4>1, <4>2, SeenLater
      <4>4. QED  BY <4>3
    <3>3. QED  BY <3>1, <3>2
  <2>5. Ok(y)  BY <2>2, <2>3, <2>4
  <2>6. y \in Etat  BY <2>2 DEF Sain
  <2>7. QED  BY <2>5, <2>6 DEF y
<1>5. st \in St
  <2> HIDE DEF St, b
  <2> DEFINE T == [k \in 0..n |-> St]
  <2>1. \A x \in St, i \in 1..n : ImportLigne(x, F[i], ordre) \in St  BY <1>4
  <2>2. \A i \in 1..n : \A x \in St : x \in T[i - 1] => ImportLigne(x, F[i], ordre) \in T[i]
    BY <1>2, <1>4
  <2>3. b \in T[0]  BY <1>2, <1>3
  <2> HIDE DEF T
  <2>4. QED  BY <1>2, <1>3, <2>1, <2>2, <2>3, WorkbookFold
<1>6. Import(d, F, ordre).d = IF st.echec THEN d ELSE st.d
  BY Zenon DEF Import, Workbook
<1>7. Ok(st)  BY <1>5
<1> HIDE DEF st
<1>8. CASE st.echec  BY <1>6, <1>8, GrowsSelf
<1>9. CASE ~st.echec
  BY <1>6, <1>7, <1>9 DEF Sain
<1>10. QED  BY <1>8, <1>9

-----------------------------------------------------------------------------
(* The dashboard's requests, and the other imports *)

\* Tables that are coherent, in which no two accounts have one number.
SoundTables == {d \in Base : Coherent(d) /\ PhonesOnce(d)}

\* Other classes, of schools that exist.
LEMMA ClassesWritten ==
  ASSUME NEW d \in SoundTables, NEW k, k \subseteq Classe, \A c \in k : c.ecole \in Ecoles(d)
  PROVE  [d EXCEPT !.classes = k] \in SoundTables
<1> DEFINE none == {}
           x == [ecoles |-> d.ecoles, comptes |-> d.comptes, classes |-> k,
                 eleves |-> d.eleves \cup none]
<1>1. d \in Base /\ Coherent(d) /\ PhonesOnce(d)  BY DEF SoundTables
<1>2. [d EXCEPT !.classes = k] = x
  <2>1. d.eleves \cup none = d.eleves  OBVIOUS
  <2> HIDE DEF none
  <2>2. [d EXCEPT !.classes = k] = [ecoles |-> d.ecoles, comptes |-> d.comptes,
                                    classes |-> k, eleves |-> d.eleves]
    BY <1>1, TableReplaced
  <2>3. QED  BY <2>1, <2>2
<1>3. /\ none \subseteq Pupil /\ \A p \in none : p.ecole \in Ecoles(d) \cup {NULL}
      /\ IsFiniteSet(none)
      /\ \A p \in none, q \in d.eleves \cup none : MemePlace(p, q) /\ ~Distinct(p) => p = q
  BY FS_EmptySet
<1> HIDE DEF none
<1>4. Coherent(x) /\ PhonesOnce(x)  BY <1>1, <1>3, PupilAdded
<1>5. QED  BY <1>2, <1>4 DEF SoundTables, Coherent

\* Other rows of schools, of the same schools with the same codes.
LEMMA SchoolsWritten ==
  ASSUME NEW d \in SoundTables, NEW t \in Seq(Ecole \cup {NULL}),
         {e \in DOMAIN t : t[e] # NULL} = Ecoles(d),
         \A e \in Ecoles(d) : t[e].code = d.ecoles[e].code
  PROVE  [d EXCEPT !.ecoles = t] \in SoundTables
<1> DEFINE x == [d EXCEPT !.ecoles = t]
<1>1. d \in Base /\ Coherent(d) /\ PhonesOnce(d)  BY DEF SoundTables
<1>2. x = [ecoles |-> t, comptes |-> d.comptes, classes |-> d.classes, eleves |-> d.eleves]
  BY <1>1, TableReplaced
<1>3. x \in Base  BY <1>1, <1>2, RowsOf DEF Base
<1>4. x.ecoles = t /\ x.comptes = d.comptes /\ x.classes = d.classes /\ x.eleves = d.eleves
  BY <1>2
<1> HIDE DEF x
<1>5. Ecoles(x) = Ecoles(d) /\ Comptes(x) = Comptes(d)  BY <1>4 DEF Ecoles, Comptes
<1>6. Refs(x)  BY <1>1, <1>4, <1>5 DEF Coherent, Refs
<1>7. CodesOnce(x)  BY <1>1, <1>4, <1>5 DEF Coherent, CodesOnce
<1>8. PupilsOnce(x)  BY <1>1, <1>4 DEF Coherent, PupilsOnce
<1>9. PhonesOnce(x)  BY <1>1, <1>4, <1>5 DEF PhonesOnce, TelPris
<1>10. QED  BY <1>3, <1>6, <1>7, <1>8, <1>9 DEF Coherent, SoundTables, x

\* Schools with no code yet.
LEMMA SchoolSound ==
  ASSUME NEW d \in SoundTables, NEW nom \in Noms
  PROVE  AddEcole(d, nom, NULL) \in SoundTables
<1>1. Coherent(d) /\ PhonesOnce(d)  BY DEF SoundTables
<1>2. Coherent(AddEcole(d, nom, NULL)) /\ PhonesOnce(AddEcole(d, nom, NULL))
  BY <1>1, SchoolAdded
<1>3. QED  BY <1>2 DEF SoundTables, Coherent

\* A school of that name is there afterwards.
LEMMA AddIfUnknownSound ==
  ASSUME NEW d \in SoundTables, NEW nom \in Noms
  PROVE  LET x == AddIfUnknown(d, nom)
         IN x \in SoundTables /\ Grows(d, x) /\ ParNom(x, nom) # {}
<1> DEFINE x == AddIfUnknown(d, nom)
<1>1. Coherent(d) /\ PhonesOnce(d)  BY DEF SoundTables
<1>2. CASE ParNom(d, nom) = {}
  <2>1. x = AddEcole(d, nom, NULL)  BY <1>2 DEF AddIfUnknown
  <2> HIDE DEF x
  <2>2. /\ Coherent(x) /\ Grows(d, x) /\ PhonesOnce(x)
        /\ \E e \in Ecoles(x) : x.ecoles[e] = [nom |-> nom, code |-> NULL]
    BY <1>1, <2>1, SchoolAdded
  <2>3. QED  BY <2>2 DEF SoundTables, Coherent, ParNom, x
<1>3. CASE ParNom(d, nom) # {}  BY <1>3, GrowsSelf DEF AddIfUnknown
<1>4. QED  BY <1>2, <1>3

\* A school found by its name exists.
LEMMA FoundByName ==
  ASSUME NEW d \in SoundTables, NEW nom, ParNom(d, nom) # {}, NEW ordre
  PROVE  Dernier(ParNom(d, nom), ordre) \in Ecoles(d)
<1>1. Len(d.ecoles) \in Nat /\ Ecoles(d) \subseteq 1..Len(d.ecoles)  BY RowsOf DEF SoundTables
<1>2. ParNom(d, nom) \subseteq Ecoles(d)  BY DEF ParNom
<1>3. QED  BY <1>1, <1>2, DernierIn

\* What is found by its name in tables is found in those they grow into.
LEMMA NamesGrow ==
  ASSUME NEW a \in Base, NEW b, Grows(a, b), NEW nom, ParNom(a, nom) # {}
  PROVE  ParNom(b, nom) # {}
<1>1. PICK e \in Ecoles(a) : a.ecoles[e].nom = nom  BY DEF ParNom
<1>2. e \in DOMAIN b.ecoles /\ b.ecoles[e] = a.ecoles[e] /\ a.ecoles[e] # NULL
  BY DEF Grows, Ecoles
<1>3. e \in ParNom(b, nom)  BY <1>1, <1>2 DEF Ecoles, ParNom
<1>4. QED  BY <1>3

\* One row of the list of classes.
LEMMA ReimportClasseSound ==
  ASSUME NEW d \in SoundTables, NEW l \in Ligne, NEW ordre
  PROVE  ReimportClasse(d, l, ordre) \in SoundTables
<1> DEFINE y == AddIfUnknown(d, l.ecole)
           e == Dernier(ParNom(y, l.ecole), ordre)
           k == y.classes \cup {[ecole |-> e, nom |-> l.classe]}
<1>1. l.ecole \in Noms /\ l.classe \in Classes  BY LigneIs
<1>2. y \in SoundTables /\ ParNom(y, l.ecole) # {}  BY <1>1, AddIfUnknownSound
<1>3. ReimportClasse(d, l, ordre) = [y EXCEPT !.classes = k]  BY DEF ReimportClasse
<1> HIDE DEF y
<1>4. e \in Ecoles(y)  BY <1>2, FoundByName
<1> HIDE DEF e
<1>5. /\ y.classes \subseteq Classe /\ \A c \in y.classes : c.ecole \in Ecoles(y)
      /\ e \in Nat
  BY <1>2, <1>4, RowsOf DEF SoundTables, Coherent, Refs
<1>6. k \subseteq Classe /\ \A c \in k : c.ecole \in Ecoles(y)
  BY <1>1, <1>4, <1>5 DEF Classe
<1> HIDE DEF k
<1>7. QED  BY <1>2, <1>3, <1>6, ClassesWritten

\* The rows of a file.
LEMMA FichierIs ==
  ASSUME NEW F \in Fichiers
  PROVE  /\ Len(F) \in Nat /\ DOMAIN F = 1..Len(F)
         /\ \A i \in 1..Len(F) : F[i] \in Ligne
<1>1. PICK n \in 1..MaxLignes : F \in [1..n -> Lignes]  BY DEF Fichiers
<1>2. n \in Nat /\ F \in Seq(Ligne)  BY <1>1, DirectoryAssumption
<1>3. QED  BY <1>2

\* Every row a school.
LEMMA SchoolsCsvSound ==
  ASSUME NEW b \in SoundTables, NEW F \in Fichiers
  PROVE  FoldLeft(LAMBDA d, l : AddEcole(d, l.ecole, NULL), b, F) \in SoundTables
<1> DEFINE St == SoundTables
           n == Len(F)
<1>1. n \in Nat /\ DOMAIN F = 1..n /\ \A i \in 1..n : F[i] \in Ligne
  BY FichierIs
<1>2. b \in St  OBVIOUS
<1>3. ASSUME NEW x \in St, NEW i \in 1..n
      PROVE  AddEcole(x, F[i].ecole, NULL) \in St
  BY <1>1, SchoolSound, LigneIs
<1> HIDE DEF St, n
<1> DEFINE g == [i \in 1..n |-> [x \in St |-> AddEcole(x, F[i].ecole, NULL)]]
           Iter(f) == f = [s \in SUBSET (DOMAIN F) |->
                             IF s = {} THEN b
                             ELSE LET i == Max(s)
                                  IN AddEcole(f[s \ {i}], F[i].ecole, NULL)]
           iter == CHOOSE f : Iter(f)
<1>4. \E f : Iter(f)
  <2>1. g \in [1..n -> [St -> St]]  BY <1>3
  <2>2. PICK f \in [SUBSET (1..n) -> St] : Iterates(f, n, b, g)
    <3> HIDE DEF g, Iter, iter
    <3>1. QED  BY <2>1, <1>1, <1>2, FoldExists
  <2>3. ASSUME NEW s \in SUBSET (1..n), s # {}
        PROVE  f[s] = AddEcole(f[s \ {Max(s)}], F[Max(s)].ecole, NULL)
    <3>1. Max(s) \in 1..n  BY <2>3, <1>1, MaxIs
    <3>2. f[s \ {Max(s)}] \in St  BY <2>2
    <3>3. f[s] = g[Max(s)][f[s \ {Max(s)}]]  BY <2>2, <2>3 DEF Iterates
    <3> HIDE DEF Iter, iter
    <3>4. QED  BY <3>1, <3>2, <3>3
  <2>4. f[{}] = b  BY <2>2 DEF Iterates
  <2>5. Iter(f)
    <3> HIDE DEF g, iter
    <3>1. QED  BY <1>1, <2>2, <2>3, <2>4
  <2>6. QED  BY <2>5
<1>5. Iter(iter)  BY <1>4
<1>6. iter[1..n] \in St
  <2>1. iter[{}] = b
    <3> HIDE DEF g, iter
    <3>1. QED  BY <1>1, <1>5
  <2>2. ASSUME NEW k \in 1..n, iter[1..(k - 1)] \in St
        PROVE  iter[1..k] \in St
    <3>1. /\ 1..k \in SUBSET (1..n) /\ 1..k # {}
          /\ Max(1..k) = k /\ (1..k) \ {k} = 1..(k - 1)
      BY <1>1, Segment
    <3>2. iter[1..k] = AddEcole(iter[1..(k - 1)], F[k].ecole, NULL)
      <4> HIDE DEF g, iter
      <4>1. QED  BY <1>1, <1>5, <3>1
    <3>3. QED  BY <2>2, <3>2, <1>3
  <2> HIDE DEF iter, g
  <2>3. QED  BY <2>1, <2>2, <1>1, <1>2, FoldInduction
<1>7. FoldLeft(LAMBDA d, l : AddEcole(d, l.ecole, NULL), b, F) = iter[1..n]
  BY <1>1 DEF FoldLeft, MapThenFoldSet
<1>8. QED  BY <1>6, <1>7 DEF St

\* Every row whose school is unknown a school.
LEMMA SchoolsSound ==
  ASSUME NEW b \in SoundTables, NEW F \in Fichiers
  PROVE  FoldLeft(LAMBDA d, l : AddIfUnknown(d, l.ecole), b, F) \in SoundTables
<1> DEFINE St == SoundTables
           n == Len(F)
<1>1. n \in Nat /\ DOMAIN F = 1..n /\ \A i \in 1..n : F[i] \in Ligne
  BY FichierIs
<1>2. b \in St  OBVIOUS
<1>3. ASSUME NEW x \in St, NEW i \in 1..n
      PROVE  AddIfUnknown(x, F[i].ecole) \in St
  BY <1>1, AddIfUnknownSound, LigneIs
<1> HIDE DEF St, n
<1> DEFINE g == [i \in 1..n |-> [x \in St |-> AddIfUnknown(x, F[i].ecole)]]
           Iter(f) == f = [s \in SUBSET (DOMAIN F) |->
                             IF s = {} THEN b
                             ELSE LET i == Max(s)
                                  IN AddIfUnknown(f[s \ {i}], F[i].ecole)]
           iter == CHOOSE f : Iter(f)
<1>4. \E f : Iter(f)
  <2>1. g \in [1..n -> [St -> St]]  BY <1>3
  <2>2. PICK f \in [SUBSET (1..n) -> St] : Iterates(f, n, b, g)
    <3> HIDE DEF g, Iter, iter
    <3>1. QED  BY <2>1, <1>1, <1>2, FoldExists
  <2>3. ASSUME NEW s \in SUBSET (1..n), s # {}
        PROVE  f[s] = AddIfUnknown(f[s \ {Max(s)}], F[Max(s)].ecole)
    <3>1. Max(s) \in 1..n  BY <2>3, <1>1, MaxIs
    <3>2. f[s \ {Max(s)}] \in St  BY <2>2
    <3>3. f[s] = g[Max(s)][f[s \ {Max(s)}]]  BY <2>2, <2>3 DEF Iterates
    <3> HIDE DEF Iter, iter
    <3>4. QED  BY <3>1, <3>2, <3>3
  <2>4. f[{}] = b  BY <2>2 DEF Iterates
  <2>5. Iter(f)
    <3> HIDE DEF g, iter
    <3>1. QED  BY <1>1, <2>2, <2>3, <2>4
  <2>6. QED  BY <2>5
<1>5. Iter(iter)  BY <1>4
<1>6. iter[1..n] \in St
  <2>1. iter[{}] = b
    <3> HIDE DEF g, iter
    <3>1. QED  BY <1>1, <1>5
  <2>2. ASSUME NEW k \in 1..n, iter[1..(k - 1)] \in St
        PROVE  iter[1..k] \in St
    <3>1. /\ 1..k \in SUBSET (1..n) /\ 1..k # {}
          /\ Max(1..k) = k /\ (1..k) \ {k} = 1..(k - 1)
      BY <1>1, Segment
    <3>2. iter[1..k] = AddIfUnknown(iter[1..(k - 1)], F[k].ecole)
      <4> HIDE DEF g, iter
      <4>1. QED  BY <1>1, <1>5, <3>1
    <3>3. QED  BY <2>2, <3>2, <1>3
  <2> HIDE DEF iter, g
  <2>3. QED  BY <2>1, <2>2, <1>1, <1>2, FoldInduction
<1>7. FoldLeft(LAMBDA d, l : AddIfUnknown(d, l.ecole), b, F) = iter[1..n]
  BY <1>1 DEF FoldLeft, MapThenFoldSet
<1>8. QED  BY <1>6, <1>7 DEF St

\* Every row a class.
ClassList(b, F, ordre) ==
  FoldLeft(LAMBDA d, l : ReimportClasse(d, l, ordre), b, F)

\* It is sound.
LEMMA ClassesSound ==
  ASSUME NEW b \in SoundTables, NEW F \in Fichiers, NEW ordre
  PROVE  ClassList(b, F, ordre) \in SoundTables
<1> SUFFICES FoldLeft(LAMBDA d, l : ReimportClasse(d, l, ordre), b, F) \in SoundTables
  BY Zenon DEF ClassList
<1> DEFINE St == SoundTables
           n == Len(F)
<1>1. n \in Nat /\ DOMAIN F = 1..n /\ \A i \in 1..n : F[i] \in Ligne
  BY FichierIs
<1>2. b \in St  OBVIOUS
<1>3. ASSUME NEW x \in St, NEW i \in 1..n
      PROVE  ReimportClasse(x, F[i], ordre) \in St
  BY <1>1, ReimportClasseSound
<1> HIDE DEF St, n
<1> DEFINE g == [i \in 1..n |-> [x \in St |-> ReimportClasse(x, F[i], ordre)]]
           Iter(f) == f = [s \in SUBSET (DOMAIN F) |->
                             IF s = {} THEN b
                             ELSE LET i == Max(s)
                                  IN ReimportClasse(f[s \ {i}], F[i], ordre)]
           iter == CHOOSE f : Iter(f)
<1>4. \E f : Iter(f)
  <2>1. g \in [1..n -> [St -> St]]  BY <1>3
  <2>2. PICK f \in [SUBSET (1..n) -> St] : Iterates(f, n, b, g)
    <3> HIDE DEF g, Iter, iter
    <3>1. QED  BY <2>1, <1>1, <1>2, FoldExists
  <2>3. ASSUME NEW s \in SUBSET (1..n), s # {}
        PROVE  f[s] = ReimportClasse(f[s \ {Max(s)}], F[Max(s)], ordre)
    <3>1. Max(s) \in 1..n  BY <2>3, <1>1, MaxIs
    <3>2. f[s \ {Max(s)}] \in St  BY <2>2
    <3>3. f[s] = g[Max(s)][f[s \ {Max(s)}]]  BY <2>2, <2>3 DEF Iterates
    <3> HIDE DEF Iter, iter
    <3>4. QED  BY <3>1, <3>2, <3>3
  <2>4. f[{}] = b  BY <2>2 DEF Iterates
  <2>5. Iter(f)
    <3> HIDE DEF g, iter
    <3>1. QED  BY <1>1, <2>2, <2>3, <2>4
  <2>6. QED  BY <2>5
<1>5. Iter(iter)  BY <1>4
<1>6. iter[1..n] \in St
  <2>1. iter[{}] = b
    <3> HIDE DEF g, iter
    <3>1. QED  BY <1>1, <1>5
  <2>2. ASSUME NEW k \in 1..n, iter[1..(k - 1)] \in St
        PROVE  iter[1..k] \in St
    <3>1. /\ 1..k \in SUBSET (1..n) /\ 1..k # {}
          /\ Max(1..k) = k /\ (1..k) \ {k} = 1..(k - 1)
      BY <1>1, Segment
    <3>2. iter[1..k] = ReimportClasse(iter[1..(k - 1)], F[k], ordre)
      <4> HIDE DEF g, iter
      <4>1. QED  BY <1>1, <1>5, <3>1
    <3>3. QED  BY <2>2, <3>2, <1>3
  <2> HIDE DEF iter, g
  <2>3. QED  BY <2>1, <2>2, <1>1, <1>2, FoldInduction
<1>7. FoldLeft(LAMBDA d, l : ReimportClasse(d, l, ordre), b, F) = iter[1..n]
  BY <1>1 DEF FoldLeft, MapThenFoldSet
<1>8. QED  BY <1>6, <1>7 DEF St

\* A request that saves sound tables.
LEMMA Saved ==
  ASSUME NEW d \in SoundTables, NEW import, Save(d, import)
  PROVE  db' \in SoundTables /\ dernier' = import
BY DEF Save

\* A school takes another name.
LEMMA RenameSchoolSound ==
  ASSUME db \in SoundTables, NEW e, NEW nom \in Noms, RenameSchool(e, nom)
  PROVE  db' \in SoundTables /\ dernier' = NULL
<1> DEFINE ligne == [db.ecoles[e] EXCEPT !.nom = nom]
           t == [db.ecoles EXCEPT ![e] = ligne]
<1>1. db \in Base /\ e \in Ecoles(db)  BY DEF SoundTables, RenameSchool
<1>2. /\ db.ecoles \in Seq(Ecole \cup {NULL}) /\ e \in DOMAIN db.ecoles
      /\ db.ecoles[e] \in Ecole
  BY <1>1, RowsOf DEF Ecoles
<1>3. ligne \in Ecole /\ ligne.code = db.ecoles[e].code  BY <1>2 DEF Ecole
<1>4. ligne # NULL  BY <1>3, NullIsNoRow
<1>5. [db EXCEPT !.ecoles[e].nom = nom] = [db EXCEPT !.ecoles = t]
  BY <1>1, <1>2 DEF Base
<1> HIDE DEF ligne
<1>6. /\ t \in Seq(Ecole \cup {NULL}) /\ DOMAIN t = DOMAIN db.ecoles /\ t[e] = ligne
      /\ \A f \in DOMAIN db.ecoles : f # e => t[f] = db.ecoles[f]
  BY <1>2, <1>3
<1> HIDE DEF t
<1>7. {f \in DOMAIN t : t[f] # NULL} = Ecoles(db)  BY <1>1, <1>4, <1>6 DEF Ecoles
<1>8. \A f \in Ecoles(db) : t[f].code = db.ecoles[f].code  BY <1>3, <1>6 DEF Ecoles
<1>9. [db EXCEPT !.ecoles = t] \in SoundTables  BY <1>6, <1>7, <1>8, SchoolsWritten
<1>10. Save([db EXCEPT !.ecoles = t], NULL)  BY <1>5 DEF RenameSchool
<1>11. QED  BY <1>9, <1>10, Saved

\* A school goes with its classes and its pupils, and its accounts have no school.
LEMMA DeleteSchoolSound ==
  ASSUME db \in SoundTables, NEW e, DeleteSchool(e)
  PROVE  db' \in SoundTables /\ dernier' = NULL
<1> DEFINE t == [db.ecoles EXCEPT ![e] = NULL]
           a == AccountsWithout(db, e)
           k == {c \in db.classes : c.ecole # e}
           p == {q \in db.eleves : q.ecole # e}
           x == [ecoles |-> t, comptes |-> a, classes |-> k, eleves |-> p]
<1>1. db \in Base /\ Coherent(db) /\ PhonesOnce(db)  BY DEF SoundTables
<1>2. db' = x /\ dernier' = NULL /\ e \in Ecoles(db)  BY DEF DeleteSchool, Save
<1>3. /\ db.ecoles \in Seq(Ecole \cup {NULL}) /\ db.comptes \in Seq(Compte \cup {NULL})
      /\ e \in DOMAIN db.ecoles
      /\ \A c \in Comptes(db) : db.comptes[c] \in Compte
      /\ db.classes \subseteq Classe /\ db.eleves \subseteq Pupil
  BY <1>1, <1>2, RowsOf DEF Ecoles
<1>4. /\ t \in Seq(Ecole \cup {NULL}) /\ DOMAIN t = DOMAIN db.ecoles /\ t[e] = NULL
      /\ \A f \in DOMAIN db.ecoles : f # e => t[f] = db.ecoles[f]
  BY <1>3
<1>5. /\ DOMAIN a = DOMAIN db.comptes
      /\ \A c \in DOMAIN db.comptes : c \notin Comptes(db) => a[c] = NULL
      /\ \A c \in Comptes(db) :
           /\ a[c] \in Compte /\ a[c].tel = db.comptes[c].tel
           /\ a[c].ecole = IF db.comptes[c].ecole = e THEN NULL ELSE db.comptes[c].ecole
  <2>1. DOMAIN a = DOMAIN db.comptes
    BY DEF AccountsWithout
  <2>2. ASSUME NEW c \in DOMAIN db.comptes, c \notin Comptes(db)
        PROVE  a[c] = NULL
    BY <2>2 DEF AccountsWithout, Comptes
  <2>3. ASSUME NEW c \in Comptes(db)
        PROVE  /\ a[c] \in Compte /\ a[c].tel = db.comptes[c].tel
               /\ a[c].ecole = IF db.comptes[c].ecole = e THEN NULL ELSE db.comptes[c].ecole
    <3>1. c \in DOMAIN db.comptes /\ db.comptes[c] # NULL /\ db.comptes[c] \in Compte
      BY <1>3 DEF Comptes
    <3>2. CASE db.comptes[c].ecole = e
      <4>1. a[c] = [db.comptes[c] EXCEPT !.ecole = NULL]
        BY <3>1, <3>2 DEF AccountsWithout
      <4>2. QED  BY <3>1, <3>2, <4>1 DEF Compte
    <3>3. CASE db.comptes[c].ecole # e
      <4>1. a[c] = db.comptes[c]  BY <3>1, <3>3 DEF AccountsWithout
      <4>2. QED  BY <3>1, <3>3, <4>1
    <3>4. QED  BY <3>2, <3>3
  <2>4. QED  BY <2>1, <2>2, <2>3
<1> HIDE DEF t, a
<1>6. a \in Seq(Compte \cup {NULL})
  <2>1. \A c \in DOMAIN db.comptes : a[c] \in Compte \cup {NULL}  BY <1>5
  <2>2. DOMAIN a = 1..Len(db.comptes) /\ Len(db.comptes) \in Nat  BY <1>1, <1>5, RowsOf
  <2>3. a = [c \in DOMAIN a |-> a[c]]  BY DEF a, AccountsWithout
  <2>4. QED  BY <1>5, <2>1, <2>2, <2>3
<1>7. x.ecoles = t /\ x.comptes = a /\ x.classes = k /\ x.eleves = p  OBVIOUS
<1>8. x \in Base  BY <1>3, <1>4, <1>6 DEF Base
<1> HIDE DEF x, k, p
<1>9. Ecoles(x) = Ecoles(db) \ {e} /\ \A f \in Ecoles(x) : t[f] = db.ecoles[f]
  BY <1>4, <1>7 DEF Ecoles
<1>10. Comptes(x) = Comptes(db)
  <2>1. \A c \in Comptes(db) : a[c] # NULL  BY <1>5, NullIsNoRow
  <2>2. QED  BY <1>5, <1>7, <2>1 DEF Comptes
<1>11. Refs(x)
  <2>1. \A c \in Comptes(x) : x.comptes[c].ecole \in Ecoles(x) \cup {NULL}
    BY <1>1, <1>5, <1>7, <1>9, <1>10 DEF Coherent, Refs
  <2>2. /\ \A c \in x.classes : c.ecole \in Ecoles(x)
        /\ \A c \in x.eleves : c.ecole \in Ecoles(x) \cup {NULL}
    BY <1>1, <1>7, <1>9 DEF Coherent, Refs, k, p
  <2>3. QED  BY <2>1, <2>2 DEF Refs
<1>12. CodesOnce(x)  BY <1>1, <1>7, <1>9 DEF Coherent, CodesOnce
<1>13. PupilsOnce(x)
  <2>1. p \in SUBSET db.eleves /\ IsFiniteSet(db.eleves)
    BY <1>1 DEF Coherent, PupilsOnce, p
  <2>2. IsFiniteSet(p)  BY <2>1, FS_Subset
  <2>3. QED  BY <1>1, <1>7, <2>1, <2>2 DEF Coherent, PupilsOnce
<1>14. PhonesOnce(x)  BY <1>1, <1>5, <1>7, <1>10 DEF PhonesOnce, TelPris
<1>15. QED  BY <1>2, <1>8, <1>11, <1>12, <1>13, <1>14 DEF Coherent, SoundTables

\* One class more.
LEMMA CreateClasseSound ==
  ASSUME db \in SoundTables, NEW e \in Ecoles(db), NEW c \in Classes, CreateClasse(e, c)
  PROVE  db' \in SoundTables /\ dernier' = NULL
<1> DEFINE k == db.classes \cup {[ecole |-> e, nom |-> c]}
<1>1. /\ db \in Base /\ e \in Nat /\ db.classes \subseteq Classe
      /\ \A r \in db.classes : r.ecole \in Ecoles(db)
  BY RowsOf DEF SoundTables, Coherent, Refs
<1>2. k \subseteq Classe /\ \A r \in k : r.ecole \in Ecoles(db)  BY <1>1 DEF Classe
<1>3. Save([db EXCEPT !.classes = k], NULL)  BY DEF CreateClasse
<1> HIDE DEF k
<1>4. [db EXCEPT !.classes = k] \in SoundTables  BY <1>2, ClassesWritten
<1>5. QED  BY <1>3, <1>4, Saved

\* One class less, or with another name.
LEMMA ClasseChangedSound ==
  ASSUME db \in SoundTables, NEW k \in db.classes,
         DeleteClasse(k) \/ \E c \in Classes : UpdateClasse(k, c)
  PROVE  db' \in SoundTables /\ dernier' = NULL
<1> DEFINE less == db.classes \ {k}
<1>1. /\ db \in Base /\ db.classes \subseteq Classe
      /\ \A r \in db.classes : r.ecole \in Ecoles(db)
  BY RowsOf DEF SoundTables, Coherent, Refs
<1>2. less \subseteq Classe /\ \A r \in less : r.ecole \in Ecoles(db)  BY <1>1
<1>3. CASE DeleteClasse(k)
  <2>1. Save([db EXCEPT !.classes = less], NULL)  BY <1>3 DEF DeleteClasse
  <2> HIDE DEF less
  <2>2. [db EXCEPT !.classes = less] \in SoundTables  BY <1>2, ClassesWritten
  <2>3. QED  BY <2>1, <2>2, Saved
<1>4. CASE \E c \in Classes : UpdateClasse(k, c)
  <2>1. PICK c \in Classes : UpdateClasse(k, c)  BY <1>4
  <2> DEFINE other == [k EXCEPT !.nom = c]
             renamed == less \cup {other}
  <2>2. other \in Classe /\ other.ecole = k.ecole  BY <1>1 DEF Classe
  <2>3. Save([db EXCEPT !.classes = renamed], NULL)  BY <2>1 DEF UpdateClasse
  <2> HIDE DEF other, less
  <2>4. renamed \subseteq Classe /\ \A r \in renamed : r.ecole \in Ecoles(db)
    BY <1>1, <1>2, <2>2
  <2> HIDE DEF renamed
  <2>5. [db EXCEPT !.classes = renamed] \in SoundTables  BY <2>4, ClassesWritten
  <2>6. QED  BY <2>3, <2>5, Saved
<1>5. QED  BY <1>3, <1>4

\* A pupil the key of the table lets in, of a school or of none.
LEMMA CreateEleveSound ==
  ASSUME db \in SoundTables, NEW e \in Ecoles(db) \cup {NULL}, NEW c \in Classes,
         NEW nom \in Eleves, CreateEleve(e, c, nom)
  PROVE  db' \in SoundTables /\ dernier' = NULL
<1> DEFINE pupil == [ecole |-> e, classe |-> c, nom |-> nom, code |-> NULL]
           new == {pupil}
           x == [ecoles |-> db.ecoles, comptes |-> db.comptes, classes |-> db.classes,
                 eleves |-> db.eleves \cup new]
<1>1. db \in Base /\ Coherent(db) /\ PhonesOnce(db) /\ e \in Nat \cup {NULL}
  BY RowsOf DEF SoundTables
<1>2. /\ pupil \in Pupil /\ pupil.ecole = e
  BY <1>1 DEF Pupil
<1>3. [db EXCEPT !.eleves = db.eleves \cup new] = x  BY <1>1, TableReplaced
<1>4. Distinct(pupil) \/ \A q \in db.eleves : ~MemePlace(q, pupil)
  BY DEF CreateEleve
<1>5. Save([db EXCEPT !.eleves = db.eleves \cup new], NULL)  BY DEF CreateEleve
<1> HIDE DEF pupil
<1>6. /\ new \subseteq Pupil /\ \A p \in new : p.ecole \in Ecoles(db) \cup {NULL}
      /\ IsFiniteSet(new)
      /\ \A p \in new, q \in db.eleves \cup new : MemePlace(p, q) /\ ~Distinct(p) => p = q
  <2>1. \A q : MemePlace(pupil, q) => MemePlace(q, pupil)  BY DEF MemePlace
  <2>2. \A q \in db.eleves : ~(MemePlace(pupil, q) /\ ~Distinct(pupil))  BY <1>4, <2>1
  <2>3. QED  BY <1>2, <2>2, FS_Singleton
<1> HIDE DEF new
<1>7. db.classes \subseteq Classe /\ \A k \in db.classes : k.ecole \in Ecoles(db)
  BY <1>1, RowsOf DEF Coherent, Refs
<1>8. Coherent(x) /\ PhonesOnce(x)  BY <1>1, <1>6, <1>7, PupilAdded
<1>9. x \in SoundTables  BY <1>8 DEF SoundTables, Coherent
<1>10. QED  BY <1>3, <1>5, <1>9, Saved

-----------------------------------------------------------------------------
(* Accounts *)

\* One more account, of a school that exists, with a number no other has.
LEMMA AccountSaved ==
  ASSUME db \in SoundTables, NEW account \in Compte, account.ecole \in Ecoles(db) \cup {NULL},
         ~TelPris(db, account.tel, 0), Save(AddCompte(db, account), NULL)
  PROVE  db' \in SoundTables /\ dernier' = NULL
<1>1. Coherent(db) /\ PhonesOnce(db)  BY DEF SoundTables
<1>2. Coherent(AddCompte(db, account)) /\ PhonesOnce(AddCompte(db, account))
  BY <1>1, AccountAdded
<1>3. AddCompte(db, account) \in SoundTables  BY <1>2 DEF SoundTables, Coherent
<1>4. QED  BY <1>3, Saved

\* An account rewritten, with its number or one no other has.
LEMMA AccountRewritten ==
  ASSUME db \in SoundTables, NEW c \in Comptes(db), NEW account \in Compte,
         account.ecole \in Ecoles(db) \cup {NULL},
         ~TelPris(db, account.tel, c), Save([db EXCEPT !.comptes[c] = account], NULL)
  PROVE  db' \in SoundTables /\ dernier' = NULL
<1> DEFINE x == [db EXCEPT !.comptes[c] = account]
<1>1. Coherent(db) /\ PhonesOnce(db)  BY DEF SoundTables
<1>2. Coherent(x) /\ PhonesOnce(x)  BY <1>1, AccountWritten
<1> HIDE DEF x
<1>3. x \in SoundTables  BY <1>2 DEF SoundTables, Coherent
<1>4. QED  BY <1>3, Saved DEF x

\* create_user.
LEMMA CreateUserSound ==
  ASSUME db \in SoundTables, NEW nom \in Personnes, NEW role \in Roles,
         NEW ecole \in Ecoles(db) \cup {NULL}, NEW ecrit \in Telephones,
         CreateUser(nom, role, ecole, ecrit)
  PROVE  db' \in SoundTables /\ dernier' = NULL
<1> DEFINE account == [Enseignant(nom, ecole, {}, Normal[ecrit]) EXCEPT !.role = role]
<1>1. db \in Base  BY DEF SoundTables
<1>2. ecole \in Nat \cup {NULL}  BY <1>1, RowsOf
<1>3. Normal[ecrit] \in Telephones  BY DirectoryAssumption DEF CreateUser
<1>4. /\ account \in Compte /\ account.ecole = ecole /\ account.tel = Normal[ecrit]
  BY <1>2, <1>3 DEF Enseignant, Compte, Roles
<1>5. ~TelPris(db, account.tel, 0) /\ Save(AddCompte(db, account), NULL)
  BY <1>4 DEF CreateUser
<1> HIDE DEF account
<1>6. QED  BY <1>4, <1>5, AccountSaved

\* update_user.
LEMMA UpdateUserSound ==
  ASSUME db \in SoundTables, NEW c \in Comptes(db),
         \/ \E e \in Ecoles(db) : UpdateEcole(c, e)
         \/ \E t \in Telephones : UpdateTel(c, t)
         \/ \E K \in SUBSET Classes : UpdateClasses(c, K)
  PROVE  db' \in SoundTables /\ dernier' = NULL
<1>1. /\ db \in Base /\ db.comptes[c] \in Compte
      /\ db.comptes[c].ecole \in Ecoles(db) \cup {NULL}
      /\ ~TelPris(db, db.comptes[c].tel, c)
      /\ \A e \in Ecoles(db) : e \in Nat
  BY RowsOf DEF SoundTables, Coherent, Refs, PhonesOnce
<1>2. c \in DOMAIN db.comptes  BY DEF Comptes
<1>3. CASE \E e \in Ecoles(db) : UpdateEcole(c, e)
  <2>1. PICK e \in Ecoles(db) : UpdateEcole(c, e)  BY <1>3
  <2> DEFINE account == [db.comptes[c] EXCEPT !.ecole = e]
  <2>2. Save([db EXCEPT !.comptes[c] = account], NULL)
    BY <1>1, <1>2, <2>1 DEF UpdateEcole, Base
  <2>3. account \in Compte /\ account.ecole = e /\ account.tel = db.comptes[c].tel
    BY <1>1 DEF Compte
  <2> HIDE DEF account
  <2>4. QED  BY <1>1, <2>2, <2>3, AccountRewritten
<1>4. CASE \E t \in Telephones : UpdateTel(c, t)
  <2>1. PICK t \in Telephones : UpdateTel(c, t)  BY <1>4
  <2> DEFINE account == [db.comptes[c] EXCEPT !.tel = Normal[t]]
  <2>2. Save([db EXCEPT !.comptes[c] = account], NULL) /\ ~TelPris(db, Normal[t], c)
    BY <1>1, <1>2, <2>1 DEF UpdateTel, Base
  <2>3. Normal[t] \in Telephones  BY <2>1, DirectoryAssumption DEF UpdateTel
  <2>4. /\ account \in Compte /\ account.tel = Normal[t]
        /\ account.ecole = db.comptes[c].ecole
    BY <1>1, <2>3 DEF Compte
  <2> HIDE DEF account
  <2>5. QED  BY <1>1, <2>2, <2>4, AccountRewritten
<1>5. CASE \E K \in SUBSET Classes : UpdateClasses(c, K)
  <2>1. PICK K \in SUBSET Classes : UpdateClasses(c, K)  BY <1>5
  <2> DEFINE account == [db.comptes[c] EXCEPT !.classes = K]
  <2>2. Save([db EXCEPT !.comptes[c] = account], NULL)
    BY <1>1, <1>2, <2>1 DEF UpdateClasses, Base
  <2>3. /\ account \in Compte /\ account.tel = db.comptes[c].tel
        /\ account.ecole = db.comptes[c].ecole
    BY <1>1 DEF Compte
  <2> HIDE DEF account
  <2>4. QED  BY <1>1, <2>2, <2>3, AccountRewritten
<1>6. QED  BY <1>3, <1>4, <1>5

\* delete_user, bulk_delete_teachers.
LEMMA DeleteUsersSound ==
  ASSUME db \in SoundTables, NEW S \in SUBSET Comptes(db), DeleteUsers(S)
  PROVE  db' \in SoundTables /\ dernier' = NULL
<1> DEFINE t == [c \in DOMAIN db.comptes |-> IF c \in S THEN NULL ELSE db.comptes[c]]
           x == [db EXCEPT !.comptes = t]
<1>1. db \in Base /\ Coherent(db) /\ PhonesOnce(db)  BY DEF SoundTables
<1>2. Save(x, NULL)  BY <1>1 DEF DeleteUsers, Base
<1>3. /\ db.comptes \in Seq(Compte \cup {NULL}) /\ Len(db.comptes) \in Nat
      /\ DOMAIN db.comptes = 1..Len(db.comptes)
      /\ S \subseteq DOMAIN db.comptes
  BY <1>1, RowsOf DEF Comptes
<1>4. t \in Seq(Compte \cup {NULL})
  <2>1. \A c \in 1..Len(db.comptes) :
          (IF c \in S THEN NULL ELSE db.comptes[c]) \in Compte \cup {NULL}
    BY <1>3
  <2>2. QED  BY <1>3, <2>1
<1>5. /\ DOMAIN t = DOMAIN db.comptes
      /\ \A c \in DOMAIN t : c \in S => t[c] = NULL
      /\ \A c \in DOMAIN t : c \notin S => t[c] = db.comptes[c]
  OBVIOUS
<1> HIDE DEF t
<1>6. x = [ecoles |-> db.ecoles, comptes |-> t, classes |-> db.classes,
           eleves |-> db.eleves]
  BY <1>1, TableReplaced
<1>7. x \in Base  BY <1>1, <1>4, <1>6, RowsOf DEF Base
<1>8. /\ x.ecoles = db.ecoles /\ x.comptes = t /\ x.classes = db.classes
      /\ x.eleves = db.eleves
  BY <1>6
<1> HIDE DEF x
<1>9. /\ Ecoles(x) = Ecoles(db) /\ Comptes(x) \subseteq Comptes(db)
      /\ \A c \in Comptes(x) : t[c] = db.comptes[c]
  BY <1>5, <1>8 DEF Ecoles, Comptes
<1>10. Refs(x)  BY <1>1, <1>8, <1>9 DEF Coherent, Refs
<1>11. CodesOnce(x) /\ PupilsOnce(x)
  BY <1>1, <1>8, <1>9 DEF Coherent, CodesOnce, PupilsOnce
<1>12. PhonesOnce(x)  BY <1>1, <1>8, <1>9 DEF PhonesOnce, TelPris
<1>13. x \in SoundTables  BY <1>7, <1>10, <1>11, <1>12 DEF Coherent, SoundTables
<1>14. QED  BY <1>2, <1>13, Saved

-----------------------------------------------------------------------------
(* The lists of teachers *)

\* Tables that are coherent, whatever the numbers.
LEMMA TeacherAdded ==
  ASSUME NEW d \in Base, Coherent(d), NEW nom \in Personnes, NEW classes \in SUBSET Classes,
         NEW ecole \in Ecoles(d) \cup {NULL}, NEW tel \in Telephones \cup {NULL}
  PROVE  LET account == Enseignant(nom, ecole, classes, tel)
             x == AddCompte(d, account)
         IN /\ Coherent(x) /\ Grows(d, x) /\ x \in Base
            /\ PhonesOnce(d) /\ ~TelPris(d, tel, 0) => PhonesOnce(x)
            /\ \A c \in Comptes(x) : \/ x.comptes[c].tel = tel
                                     \/ c \in Comptes(d) /\ x.comptes[c] = d.comptes[c]
<1> DEFINE account == Enseignant(nom, ecole, classes, tel)
           x == AddCompte(d, account)
<1>1. ecole \in Nat \cup {NULL}  BY RowsOf
<1>2. account \in Compte /\ account.ecole = ecole /\ account.tel = tel
  BY <1>1 DEF Enseignant, Compte, Roles
<1> HIDE DEF account
<1>3. /\ Coherent(x) /\ Grows(d, x)
      /\ PhonesOnce(d) /\ ~TelPris(d, account.tel, 0) => PhonesOnce(x)
  BY <1>2, AccountAdded
<1>4. /\ Comptes(x) = Comptes(d) \cup {Len(d.comptes) + 1}
      /\ x.comptes[Len(d.comptes) + 1] = account
      /\ \A c \in DOMAIN d.comptes : x.comptes[c] = d.comptes[c]
  BY <1>2, OneMoreAccount
<1> HIDE DEF x
<1>5. \A c \in Comptes(d) : c \in DOMAIN d.comptes  BY DEF Comptes
<1>6. QED  BY <1>2, <1>3, <1>4, <1>5 DEF Coherent, x, account

\* The rows with a name and a number, whose numbers are free and all different.
Inserts(F) == {i \in DOMAIN F : F[i].tuteur # NULL /\ F[i].telTuteur # NULL}

\* A teacher for such a row.
TeacherRow(d, l) ==
  IF l.tuteur = NULL \/ l.telTuteur = NULL THEN d
  ELSE AddCompte(d, Enseignant(l.tuteur, NULL, {l.classe}, Normal[l.telTuteur]))

\* Every such row a teacher.
LEMMA TeachersCsvSound ==
  ASSUME NEW b \in SoundTables, NEW F \in Fichiers,
         \A i \in Inserts(F) : /\ Normal[F[i].telTuteur] # NULL
                               /\ ~TelPris(b, Normal[F[i].telTuteur], 0)
                               /\ \A j \in Inserts(F) :
                                    Normal[F[i].telTuteur] = Normal[F[j].telTuteur] => i = j
  PROVE  FoldLeft(LAMBDA d, l :
           IF l.tuteur = NULL \/ l.telTuteur = NULL THEN d
           ELSE AddCompte(d, Enseignant(l.tuteur, NULL, {l.classe}, Normal[l.telTuteur])), b, F)
             \in SoundTables
<1> DEFINE St == {x \in Base : Coherent(x)}
           n == Len(F)
           tel(i) == Normal[F[i].telTuteur]
           Par(x, k) == \A c \in Comptes(x) :
                          \/ x.comptes[c].tel \in {NULL, PROVISOIRE}
                          \/ \E o \in Comptes(b) : b.comptes[o].tel = x.comptes[c].tel
                          \/ \E j \in Inserts(F) : j <= k /\ tel(j) = x.comptes[c].tel
           T == [k \in 0..n |-> {x \in SoundTables : Par(x, k)}]
<1>1. n \in Nat /\ DOMAIN F = 1..n /\ \A i \in 1..n : F[i] \in Ligne
  BY FichierIs
<1>2. b \in St  BY DEF SoundTables
<1>3. ASSUME NEW x \in St, NEW i \in 1..n
      PROVE  TeacherRow(x, F[i]) \in St
  <2>1. CASE F[i].tuteur # NULL /\ F[i].telTuteur # NULL
    <3>1. /\ F[i].tuteur \in Personnes /\ {F[i].classe} \in SUBSET Classes
          /\ Normal[F[i].telTuteur] \in Telephones \cup {NULL}
      BY <1>1, <2>1, LigneIs, DirectoryAssumption
    <3> DEFINE K == {F[i].classe}
               y == AddCompte(x, Enseignant(F[i].tuteur, NULL, K, Normal[F[i].telTuteur]))
    <3> HIDE DEF K
    <3>2. Coherent(y) /\ y \in Base  BY <3>1, TeacherAdded DEF K
    <3> HIDE DEF y
    <3>3. y \in St  BY <3>2
    <3>4. QED  BY <2>1, <3>3 DEF y, K, TeacherRow
  <2>2. CASE ~(F[i].tuteur # NULL /\ F[i].telTuteur # NULL)  BY <2>2 DEF TeacherRow
  <2>3. QED  BY <2>1, <2>2
<1>4. b \in T[0]
  <2>1. Par(b, 0)  OBVIOUS
  <2>2. 0 \in 0..n  BY <1>1
  <2> HIDE DEF Par
  <2>3. QED  BY <2>1, <2>2
<1>5. ASSUME NEW k \in 1..n, NEW x \in T[k - 1]
      PROVE  TeacherRow(x, F[k]) \in T[k]
  <2>1. k \in 0..n /\ k - 1 \in 0..n /\ k \in Nat  BY <1>1
  <2>2. x \in SoundTables /\ Par(x, k - 1)
    <3> HIDE DEF Par
    <3>1. QED  BY <1>5, <2>1
  <2>3. ASSUME F[k].tuteur # NULL, F[k].telTuteur # NULL
        PROVE  TeacherRow(x, F[k]) \in T[k]
    <3>1. k \in Inserts(F)  BY <1>1, <2>3 DEF Inserts
    <3>2. /\ F[k].tuteur \in Personnes /\ {F[k].classe} \in SUBSET Classes
          /\ tel(k) \in Telephones \cup {NULL}
      BY <1>1, <2>3, LigneIs, DirectoryAssumption
    <3>3. ~TelPris(x, tel(k), 0)
      <4>1. SUFFICES ASSUME tel(k) \notin {NULL, PROVISOIRE}, NEW c \in Comptes(x),
                            x.comptes[c].tel = tel(k)
                     PROVE  FALSE
        BY DEF TelPris
      <4>2. CASE \E o \in Comptes(b) : b.comptes[o].tel = tel(k)
        <5>1. 0 \notin Comptes(b)  BY RowsOf DEF SoundTables
        <5>2. QED  BY <3>1, <4>1, <4>2, <5>1 DEF TelPris
      <4>3. CASE \E j \in Inserts(F) : j <= k - 1 /\ tel(j) = tel(k)
        BY <2>1, <3>1, <4>3
      <4>4. QED  BY <2>2, <4>1, <4>2, <4>3
    <3> DEFINE K == {F[k].classe}
               y == AddCompte(x, Enseignant(F[k].tuteur, NULL, K, tel(k)))
    <3> HIDE DEF K
    <3>4. /\ Coherent(y) /\ y \in Base /\ PhonesOnce(y)
          /\ \A c \in Comptes(y) : \/ y.comptes[c].tel = tel(k)
                                   \/ c \in Comptes(x) /\ y.comptes[c] = x.comptes[c]
      <4> DEFINE t == tel(k)
                 p == F[k].tuteur
                 z == AddCompte(x, Enseignant(p, NULL, K, t))
      <4>1. x \in Base /\ Coherent(x) /\ PhonesOnce(x)  BY <2>2 DEF SoundTables
      <4>2. /\ t \in Telephones \cup {NULL} /\ p \in Personnes /\ ~TelPris(x, t, 0)
            /\ K \in SUBSET Classes
        BY <3>2, <3>3 DEF K
      <4>3. NULL \in Ecoles(x) \cup {NULL}  OBVIOUS
      <4> HIDE DEF t, p
      <4>4. /\ Coherent(z) /\ z \in Base /\ PhonesOnce(z)
            /\ \A c \in Comptes(z) : \/ z.comptes[c].tel = t
                                     \/ c \in Comptes(x) /\ z.comptes[c] = x.comptes[c]
        BY <4>1, <4>2, <4>3, TeacherAdded
      <4> HIDE DEF z
      <4>5. y = z /\ t = tel(k)  BY DEF y, z, t, p
      <4> HIDE DEF y, tel
      <4>6. QED  BY <4>4, <4>5
    <3> HIDE DEF y
    <3>5. Par(y, k)
      <4> SUFFICES ASSUME NEW c \in Comptes(y)
                   PROVE  \/ y.comptes[c].tel \in {NULL, PROVISOIRE}
                          \/ \E o \in Comptes(b) : b.comptes[o].tel = y.comptes[c].tel
                          \/ \E j \in Inserts(F) : j <= k /\ tel(j) = y.comptes[c].tel
        OBVIOUS
      <4>1. CASE y.comptes[c].tel = tel(k)  BY <2>1, <3>1, <4>1
      <4>2. CASE c \in Comptes(x) /\ y.comptes[c] = x.comptes[c]
        <5>1. \/ x.comptes[c].tel \in {NULL, PROVISOIRE}
              \/ \E o \in Comptes(b) : b.comptes[o].tel = x.comptes[c].tel
              \/ \E j \in Inserts(F) : j <= k - 1 /\ tel(j) = x.comptes[c].tel
          BY <2>2, <4>2
        <5>2. \A j \in Inserts(F) : j \in Nat /\ (j <= k - 1 => j <= k)
          BY <1>1, <2>1 DEF Inserts
        <5> HIDE DEF tel
        <5>3. QED  BY <4>2, <5>1, <5>2
      <4>3. QED  BY <3>4, <4>1, <4>2
    <3> HIDE DEF Par
    <3>6. y \in T[k]  BY <2>1, <3>4, <3>5 DEF SoundTables
    <3>7. QED  BY <2>3, <3>6 DEF y, K, TeacherRow
  <2>4. ASSUME F[k].tuteur = NULL \/ F[k].telTuteur = NULL
        PROVE  TeacherRow(x, F[k]) \in T[k]
    <3>1. Par(x, k)
      <4>1. \A j \in Inserts(F) : j \in Nat /\ (j <= k - 1 => j <= k)
        BY <1>1, <2>1 DEF Inserts
      <4> HIDE DEF tel
      <4>2. QED  BY <2>2, <4>1
    <3> HIDE DEF Par
    <3>2. x \in T[k]  BY <2>1, <2>2, <3>1
    <3>3. QED  BY <2>4, <3>2 DEF TeacherRow
  <2> HIDE DEF T
  <2>5. QED  BY <2>3, <2>4
<1> HIDE DEF St, n, T
<1> DEFINE g == [i \in 1..n |-> [x \in St |-> TeacherRow(x, F[i])]]
           Iter(f) == f = [s \in SUBSET (DOMAIN F) |->
                             IF s = {} THEN b
                             ELSE LET i == Max(s)
                                  IN TeacherRow(f[s \ {i}], F[i])]
           iter == CHOOSE f : Iter(f)
<1>6. \E f : Iter(f)
  <2>1. g \in [1..n -> [St -> St]]  BY <1>3
  <2>2. PICK f \in [SUBSET (1..n) -> St] : Iterates(f, n, b, g)
    <3> HIDE DEF g, Iter, iter
    <3>1. QED  BY <2>1, <1>1, <1>2, FoldExists
  <2>3. ASSUME NEW s \in SUBSET (1..n), s # {}
        PROVE  f[s] = TeacherRow(f[s \ {Max(s)}], F[Max(s)])
    <3>1. Max(s) \in 1..n  BY <2>3, <1>1, MaxIs
    <3>2. f[s \ {Max(s)}] \in St  BY <2>2
    <3>3. f[s] = g[Max(s)][f[s \ {Max(s)}]]  BY <2>2, <2>3 DEF Iterates
    <3> HIDE DEF Iter, iter
    <3>4. QED  BY <3>1, <3>2, <3>3
  <2>4. f[{}] = b  BY <2>2 DEF Iterates
  <2>5. Iter(f)
    <3> HIDE DEF g, iter
    <3>1. QED  BY <1>1, <2>2, <2>3, <2>4
  <2>6. QED  BY <2>5
<1>7. Iter(iter)  BY <1>6
<1>8. iter[1..n] \in T[n]
  <2>1. iter[{}] = b
    <3> HIDE DEF g, iter
    <3>1. QED  BY <1>1, <1>7
  <2>2. ASSUME NEW k \in 1..n, iter[1..(k - 1)] \in T[k - 1]
        PROVE  iter[1..k] \in T[k]
    <3>1. /\ 1..k \in SUBSET (1..n) /\ 1..k # {}
          /\ Max(1..k) = k /\ (1..k) \ {k} = 1..(k - 1)
      BY <1>1, Segment
    <3>2. iter[1..k] = TeacherRow(iter[1..(k - 1)], F[k])
      <4> HIDE DEF g, iter
      <4>1. QED  BY <1>1, <1>7, <3>1
    <3>3. QED  BY <2>2, <3>2, <1>5
  <2> HIDE DEF iter, g
  <2>3. QED  BY <2>1, <2>2, <1>1, <1>4, IndexedInduction
<1>9. FoldLeft(LAMBDA d, l :
           IF l.tuteur = NULL \/ l.telTuteur = NULL THEN d
           ELSE AddCompte(d, Enseignant(l.tuteur, NULL, {l.classe}, Normal[l.telTuteur])), b, F)
             = iter[1..n]
  BY <1>1, Zenon DEF FoldLeft, MapThenFoldSet, TeacherRow
<1>10. iter[1..n] \in SoundTables
  <2>1. n \in 0..n  BY <1>1
  <2> HIDE DEF iter, g
  <2>2. QED  BY <1>8, <2>1 DEF T
<1>11. QED  BY <1>9, <1>10

\* The school of a teacher of the workbook, created unless its name is known.
SchoolRow(d, l) == IF l.tuteur = NULL THEN d ELSE AddIfUnknown(d, l.ecole)

\* The schools of the first k teachers are there.
SchoolsKnown(d, F, k) == \A j \in 1..k : F[j].tuteur # NULL => ParNom(d, F[j].ecole) # {}

\* After the first pass they all are.
LEMMA TeacherSchools ==
  ASSUME NEW b \in SoundTables, NEW F \in Fichiers
  PROVE  FoldLeft(LAMBDA d, l : IF l.tuteur = NULL THEN d ELSE AddIfUnknown(d, l.ecole), b, F)
           \in {x \in SoundTables : SchoolsKnown(x, F, Len(F))}
<1> DEFINE St == SoundTables
           n == Len(F)
           T == [k \in 0..n |-> {x \in SoundTables : SchoolsKnown(x, F, k)}]
<1>1. n \in Nat /\ DOMAIN F = 1..n /\ \A i \in 1..n : F[i] \in Ligne
  BY FichierIs
<1>2. b \in St  OBVIOUS
<1>3. ASSUME NEW x \in St, NEW i \in 1..n
      PROVE  SchoolRow(x, F[i]) \in St
  BY <1>1, AddIfUnknownSound, LigneIs DEF SchoolRow
<1>4. b \in T[0]
  <2>1. SchoolsKnown(b, F, 0) /\ 0 \in 0..n  BY <1>1 DEF SchoolsKnown
  <2>2. QED  BY <2>1
<1>5. ASSUME NEW k \in 1..n, NEW x \in T[k - 1]
      PROVE  SchoolRow(x, F[k]) \in T[k]
  <2> DEFINE y == SchoolRow(x, F[k])
  <2>1. k \in 0..n /\ k - 1 \in 0..n  BY <1>1
  <2>2. x \in SoundTables /\ SchoolsKnown(x, F, k - 1)  BY <1>5, <2>1
  <2>3. /\ y \in SoundTables /\ Grows(x, y)
        /\ F[k].tuteur # NULL => ParNom(y, F[k].ecole) # {}
    BY <1>1, <2>2, AddIfUnknownSound, GrowsSelf, LigneIs DEF SchoolRow
  <2> HIDE DEF y
  <2>4. ASSUME NEW j \in 1..k, F[j].tuteur # NULL
        PROVE  ParNom(y, F[j].ecole) # {}
    <3>1. CASE j = k  BY <2>3, <2>4, <3>1
    <3>2. CASE j # k
      <4>1. j \in 1..(k - 1)  BY <1>1, <3>2
      <4>2. ParNom(x, F[j].ecole) # {}  BY <2>2, <2>4, <4>1 DEF SchoolsKnown
      <4>3. QED  BY <2>2, <2>3, <4>2, NamesGrow DEF SoundTables
    <3>3. QED  BY <3>1, <3>2
  <2>5. SchoolsKnown(y, F, k)  BY <2>4 DEF SchoolsKnown
  <2>6. y \in T[k]  BY <2>1, <2>3, <2>5
  <2>7. QED  BY <2>6 DEF y
<1> HIDE DEF St, n, T
<1> DEFINE g == [i \in 1..n |-> [x \in St |-> SchoolRow(x, F[i])]]
           Iter(f) == f = [s \in SUBSET (DOMAIN F) |->
                             IF s = {} THEN b
                             ELSE LET i == Max(s)
                                  IN SchoolRow(f[s \ {i}], F[i])]
           iter == CHOOSE f : Iter(f)
<1>6. \E f : Iter(f)
  <2>1. g \in [1..n -> [St -> St]]  BY <1>3
  <2>2. PICK f \in [SUBSET (1..n) -> St] : Iterates(f, n, b, g)
    <3> HIDE DEF g, Iter, iter
    <3>1. QED  BY <2>1, <1>1, <1>2, FoldExists
  <2>3. ASSUME NEW s \in SUBSET (1..n), s # {}
        PROVE  f[s] = SchoolRow(f[s \ {Max(s)}], F[Max(s)])
    <3>1. Max(s) \in 1..n  BY <2>3, <1>1, MaxIs
    <3>2. f[s \ {Max(s)}] \in St  BY <2>2
    <3>3. f[s] = g[Max(s)][f[s \ {Max(s)}]]  BY <2>2, <2>3 DEF Iterates
    <3> HIDE DEF Iter, iter
    <3>4. QED  BY <3>1, <3>2, <3>3
  <2>4. f[{}] = b  BY <2>2 DEF Iterates
  <2>5. Iter(f)
    <3> HIDE DEF g, iter
    <3>1. QED  BY <1>1, <2>2, <2>3, <2>4
  <2>6. QED  BY <2>5
<1>7. Iter(iter)  BY <1>6
<1>8. iter[1..n] \in T[n]
  <2>1. iter[{}] = b
    <3> HIDE DEF g, iter
    <3>1. QED  BY <1>1, <1>7
  <2>2. ASSUME NEW k \in 1..n, iter[1..(k - 1)] \in T[k - 1]
        PROVE  iter[1..k] \in T[k]
    <3>1. /\ 1..k \in SUBSET (1..n) /\ 1..k # {}
          /\ Max(1..k) = k /\ (1..k) \ {k} = 1..(k - 1)
      BY <1>1, Segment
    <3>2. iter[1..k] = SchoolRow(iter[1..(k - 1)], F[k])
      <4> HIDE DEF g, iter
      <4>1. QED  BY <1>1, <1>7, <3>1
    <3>3. QED  BY <2>2, <3>2, <1>5
  <2> HIDE DEF iter, g
  <2>3. QED  BY <2>1, <2>2, <1>1, <1>4, IndexedInduction
<1>9. FoldLeft(LAMBDA d, l : IF l.tuteur = NULL THEN d ELSE AddIfUnknown(d, l.ecole), b, F)
        = iter[1..n]
  BY <1>1, Zenon DEF FoldLeft, MapThenFoldSet, SchoolRow
<1>10. iter[1..n] \in {x \in SoundTables : SchoolsKnown(x, F, Len(F))}
  <2>1. n \in 0..n  BY <1>1
  <2> HIDE DEF iter, g
  <2>2. QED  BY <1>8, <2>1 DEF T, n
<1>11. QED  BY <1>9, <1>10

\* The teacher of a row, unless the school has one of that name.
LEMMA ImportTeacherSound ==
  ASSUME NEW d \in SoundTables, NEW F \in Fichiers, NEW i \in 1..Len(F), NEW ordre,
         F[i].tuteur # NULL => ParNom(d, F[i].ecole) # {}
  PROVE  LET x == ImportTeacher(d, F[i], F, ordre)
         IN x \in SoundTables /\ Grows(d, x)
<1> DEFINE l == F[i]
           ecole == Dernier(ParNom(d, l.ecole), ordre)
           classes == {F[h].classe : h \in {j \in DOMAIN F :
                                       <<F[j].ecole, F[j].tuteur>> = <<l.ecole, l.tuteur>>}}
           connu == \E c \in Comptes(d) : /\ d.comptes[c].role = "enseignant"
                                          /\ d.comptes[c].ecole = ecole
                                          /\ d.comptes[c].nom = l.tuteur
           y == AddCompte(d, Enseignant(l.tuteur, ecole, classes, NULL))
           x == ImportTeacher(d, F[i], F, ordre)
<1>1. /\ d \in Base /\ Coherent(d) /\ PhonesOnce(d)
      /\ DOMAIN F = 1..Len(F) /\ \A j \in 1..Len(F) : F[j] \in Ligne
  BY FichierIs DEF SoundTables
<1>2. x = IF l.tuteur = NULL \/ connu THEN d ELSE y  BY Zenon DEF ImportTeacher
<1>3. CASE l.tuteur = NULL \/ connu
  <2>1. x = d  BY <1>2, <1>3
  <2>2. QED  BY <2>1, GrowsSelf
<1>4. CASE ~(l.tuteur = NULL \/ connu)
  <2>1. l.tuteur \in Personnes /\ classes \in SUBSET Classes
    BY <1>1, <1>4, LigneIs
  <2>2. ecole \in Ecoles(d)  BY <1>4, FoundByName
  <2>3. ~TelPris(d, NULL, 0)  BY DEF TelPris
  <2>4. x = y  BY <1>2, <1>4
  <2> DEFINE p == l.tuteur
  <2>5. p \in Personnes  BY <2>1
  <2> HIDE DEF x, ecole, classes, connu, l
  <2>6. Coherent(y) /\ Grows(d, y) /\ y \in Base /\ PhonesOnce(y)
    <3> DEFINE t == NULL
               z == AddCompte(d, Enseignant(p, ecole, classes, t))
    <3>1. t \in Telephones \cup {NULL} /\ ~TelPris(d, t, 0) /\ ecole \in Ecoles(d) \cup {NULL}
      BY <2>2, <2>3
    <3> HIDE DEF t, p
    <3>2. Coherent(z) /\ Grows(d, z) /\ z \in Base /\ PhonesOnce(z)
      BY <1>1, <2>1, <2>5, <3>1, TeacherAdded
    <3> HIDE DEF z
    <3>3. y = z  BY DEF z, t, p
    <3>4. QED  BY <3>2, <3>3
  <2> HIDE DEF y
  <2>7. QED  BY <2>4, <2>6 DEF SoundTables, x
<1>5. QED  BY <1>3, <1>4

\* The teachers of the workbook.
TeacherSheet(b, F, ordre) == FoldLeft(LAMBDA d, l : ImportTeacher(d, l, F, ordre), b, F)

\* They are sound, once their schools are there.
LEMMA TeachersSound ==
  ASSUME NEW b \in SoundTables, NEW F \in Fichiers, SchoolsKnown(b, F, Len(F)), NEW ordre
  PROVE  TeacherSheet(b, F, ordre) \in SoundTables
<1> SUFFICES FoldLeft(LAMBDA d, l : ImportTeacher(d, l, F, ordre), b, F) \in SoundTables
  BY Zenon DEF TeacherSheet
<1> DEFINE St == {x \in SoundTables : SchoolsKnown(x, F, Len(F))}
           n == Len(F)
<1>1. n \in Nat /\ DOMAIN F = 1..n /\ \A i \in 1..n : F[i] \in Ligne
  BY FichierIs
<1>2. b \in St  OBVIOUS
<1>3. ASSUME NEW x \in St, NEW i \in 1..n
      PROVE  ImportTeacher(x, F[i], F, ordre) \in St
  <2> DEFINE y == ImportTeacher(x, F[i], F, ordre)
  <2>1. /\ x \in SoundTables /\ \A j \in 1..n : F[j].tuteur # NULL => ParNom(x, F[j].ecole) # {}
    BY DEF SchoolsKnown
  <2>2. y \in SoundTables /\ Grows(x, y)  BY <2>1, ImportTeacherSound
  <2> HIDE DEF y
  <2>3. SchoolsKnown(y, F, n)  BY <2>1, <2>2, NamesGrow DEF SchoolsKnown, SoundTables
  <2>4. QED  BY <2>2, <2>3 DEF y
<1> HIDE DEF St, n
<1> DEFINE g == [i \in 1..n |-> [x \in St |-> ImportTeacher(x, F[i], F, ordre)]]
           Iter(f) == f = [s \in SUBSET (DOMAIN F) |->
                             IF s = {} THEN b
                             ELSE LET i == Max(s)
                                  IN ImportTeacher(f[s \ {i}], F[i], F, ordre)]
           iter == CHOOSE f : Iter(f)
<1>4. \E f : Iter(f)
  <2>1. g \in [1..n -> [St -> St]]  BY <1>3
  <2>2. PICK f \in [SUBSET (1..n) -> St] : Iterates(f, n, b, g)
    <3> HIDE DEF g, Iter, iter
    <3>1. QED  BY <2>1, <1>1, <1>2, FoldExists
  <2>3. ASSUME NEW s \in SUBSET (1..n), s # {}
        PROVE  f[s] = ImportTeacher(f[s \ {Max(s)}], F[Max(s)], F, ordre)
    <3>1. Max(s) \in 1..n  BY <2>3, <1>1, MaxIs
    <3>2. f[s \ {Max(s)}] \in St  BY <2>2
    <3>3. f[s] = g[Max(s)][f[s \ {Max(s)}]]  BY <2>2, <2>3 DEF Iterates
    <3> HIDE DEF Iter, iter
    <3>4. QED  BY <3>1, <3>2, <3>3
  <2>4. f[{}] = b  BY <2>2 DEF Iterates
  <2>5. Iter(f)
    <3> HIDE DEF g, iter
    <3>1. QED  BY <1>1, <2>2, <2>3, <2>4
  <2>6. QED  BY <2>5
<1>5. Iter(iter)  BY <1>4
<1>6. iter[1..n] \in St
  <2>1. iter[{}] = b
    <3> HIDE DEF g, iter
    <3>1. QED  BY <1>1, <1>5
  <2>2. ASSUME NEW k \in 1..n, iter[1..(k - 1)] \in St
        PROVE  iter[1..k] \in St
    <3>1. /\ 1..k \in SUBSET (1..n) /\ 1..k # {}
          /\ Max(1..k) = k /\ (1..k) \ {k} = 1..(k - 1)
      BY <1>1, Segment
    <3>2. iter[1..k] = ImportTeacher(iter[1..(k - 1)], F[k], F, ordre)
      <4> HIDE DEF g, iter
      <4>1. QED  BY <1>1, <1>5, <3>1
    <3>3. QED  BY <2>2, <3>2, <1>3
  <2> HIDE DEF iter, g
  <2>3. QED  BY <2>1, <2>2, <1>1, <1>2, FoldInduction
<1>7. FoldLeft(LAMBDA d, l : ImportTeacher(d, l, F, ordre), b, F) = iter[1..n]
  BY <1>1 DEF FoldLeft, MapThenFoldSet
<1>8. QED  BY <1>6, <1>7 DEF St

\* One row of the list of teachers: the account of that name, or a new one.
LEMMA ReimportTeacherKeeps ==
  ASSUME NEW d \in Base, Coherent(d), NEW l \in Ligne, NEW ordre
  PROVE  ReimportTeacher(d, l, ordre) \in {x \in Base : Coherent(x)}
<1> DEFINE enseignants == {c \in Comptes(d) : d.comptes[c].role = "enseignant"}
           connus == {c \in enseignants : d.comptes[c].nom = l.tuteur}
           c == Premier(connus, ordre)
           pris == /\ l.telTuteur # NULL
                   /\ \E o \in enseignants : /\ d.comptes[o].tel = l.telTuteur
                                             /\ connus # {} => o # c
           tel == IF l.telTuteur = NULL THEN d.comptes[c].tel ELSE l.telTuteur
           x == ReimportTeacher(d, l, ordre)
<1>1. /\ l.tuteur \in Personnes \cup {NULL} /\ l.telTuteur \in Telephones \cup {NULL}
      /\ {l.classe} \in SUBSET Classes
  BY LigneIs
<1>2. CASE l.tuteur = NULL \/ pris
  <2>1. x = d  BY <1>2 DEF ReimportTeacher
  <2>2. QED  BY <2>1
<1>3. CASE ~(l.tuteur = NULL \/ pris) /\ connus # {}
  <2> DEFINE K == {l.classe}
             account == [[d.comptes[c] EXCEPT !.tel = tel] EXCEPT !.classes = K]
             y == [d EXCEPT !.comptes[c] = account]
  <2>1. c \in Comptes(d)
    <3>1. connus \subseteq 1..Len(d.comptes) /\ Len(d.comptes) \in Nat
      BY RowsOf
    <3>2. connus \subseteq Comptes(d)  OBVIOUS
    <3> HIDE DEF connus
    <3>3. QED  BY <1>3, <3>1, <3>2, DernierIn
  <2>2. /\ d.comptes[c] \in Compte /\ d.comptes[c].ecole \in Ecoles(d) \cup {NULL}
        /\ c \in DOMAIN d.comptes
    BY <2>1, RowsOf DEF Coherent, Refs, Comptes
  <2>3. x = y
    <3>1. x = [d EXCEPT !.comptes[c].tel = IF l.telTuteur = NULL THEN @ ELSE l.telTuteur,
                        !.comptes[c].classes = {l.classe}]
      BY <1>3, Zenon DEF ReimportTeacher
    <3> HIDE DEF x, c
    <3>2. QED  BY <2>2, <3>1 DEF Base
  <2>4. tel \in Telephones \cup {NULL, PROVISOIRE}
    BY <1>1, <2>2 DEF Compte
  <2>5. K \in SUBSET Classes  BY <1>1
  <2> HIDE DEF c, tel, K, x
  <2>6. account \in Compte /\ account.ecole = d.comptes[c].ecole
    BY <2>2, <2>4, <2>5 DEF Compte
  <2> HIDE DEF account
  <2>7. Coherent(y)  BY <2>1, <2>2, <2>6, AccountWritten
  <2>8. QED  BY <2>3, <2>7 DEF Coherent, x
<1>4. CASE ~(l.tuteur = NULL \/ pris) /\ connus = {} /\ l.telTuteur = NULL
  <2>1. x = d  BY <1>4 DEF ReimportTeacher
  <2>2. QED  BY <2>1
<1>5. CASE ~(l.tuteur = NULL \/ pris) /\ connus = {} /\ l.telTuteur # NULL
  <2> DEFINE K == {l.classe}
             e == NULL
             p == l.tuteur
             t == l.telTuteur
             y == AddCompte(d, Enseignant(p, e, K, t))
  <2>1. x = AddCompte(d, Enseignant(l.tuteur, NULL, {l.classe}, l.telTuteur))
    BY <1>5 DEF ReimportTeacher
  <2>2. x = y  BY <2>1
  <2>3. /\ p \in Personnes /\ t \in Telephones \cup {NULL} /\ K \in SUBSET Classes
        /\ e \in Ecoles(d) \cup {NULL}
    BY <1>1, <1>5
  <2> HIDE DEF K, p, t, e, x
  <2>4. Coherent(y)  BY <2>3, TeacherAdded
  <2> HIDE DEF y
  <2>5. QED  BY <2>2, <2>4 DEF Coherent, x
<1>6. QED  BY <1>2, <1>3, <1>4, <1>5

\* The list of teachers, before its flush.
TeacherList(b, F, ordre) == FoldLeft(LAMBDA x, l : ReimportTeacher(x, l, ordre), b, F)

\* It is coherent.
LEMMA ReimportKeeps ==
  ASSUME NEW b \in SoundTables, NEW F \in Fichiers, NEW ordre
  PROVE  TeacherList(b, F, ordre) \in {x \in Base : Coherent(x)}
<1> SUFFICES FoldLeft(LAMBDA x, l : ReimportTeacher(x, l, ordre), b, F)
               \in {x \in Base : Coherent(x)}
  BY Zenon DEF TeacherList
<1> DEFINE St == {x \in Base : Coherent(x)}
           n == Len(F)
<1>1. n \in Nat /\ DOMAIN F = 1..n /\ \A i \in 1..n : F[i] \in Ligne
  BY FichierIs
<1>2. b \in St  BY DEF SoundTables
<1>3. ASSUME NEW x \in St, NEW i \in 1..n
      PROVE  ReimportTeacher(x, F[i], ordre) \in St
  <2>1. x \in Base /\ Coherent(x) /\ F[i] \in Ligne  BY <1>1
  <2>2. QED  BY <2>1, ReimportTeacherKeeps
<1> HIDE DEF St, n
<1> DEFINE g == [i \in 1..n |-> [x \in St |-> ReimportTeacher(x, F[i], ordre)]]
           Iter(f) == f = [s \in SUBSET (DOMAIN F) |->
                             IF s = {} THEN b
                             ELSE LET i == Max(s)
                                  IN ReimportTeacher(f[s \ {i}], F[i], ordre)]
           iter == CHOOSE f : Iter(f)
<1>4. \E f : Iter(f)
  <2>1. g \in [1..n -> [St -> St]]  BY <1>3
  <2>2. PICK f \in [SUBSET (1..n) -> St] : Iterates(f, n, b, g)
    <3> HIDE DEF g, Iter, iter
    <3>1. QED  BY <2>1, <1>1, <1>2, FoldExists
  <2>3. ASSUME NEW s \in SUBSET (1..n), s # {}
        PROVE  f[s] = ReimportTeacher(f[s \ {Max(s)}], F[Max(s)], ordre)
    <3>1. Max(s) \in 1..n  BY <2>3, <1>1, MaxIs
    <3>2. f[s \ {Max(s)}] \in St  BY <2>2
    <3>3. f[s] = g[Max(s)][f[s \ {Max(s)}]]  BY <2>2, <2>3 DEF Iterates
    <3> HIDE DEF Iter, iter
    <3>4. QED  BY <3>1, <3>2, <3>3
  <2>4. f[{}] = b  BY <2>2 DEF Iterates
  <2>5. Iter(f)
    <3> HIDE DEF g, iter
    <3>1. QED  BY <1>1, <2>2, <2>3, <2>4
  <2>6. QED  BY <2>5
<1>5. Iter(iter)  BY <1>4
<1>6. iter[1..n] \in St
  <2>1. iter[{}] = b
    <3> HIDE DEF g, iter
    <3>1. QED  BY <1>1, <1>5
  <2>2. ASSUME NEW k \in 1..n, iter[1..(k - 1)] \in St
        PROVE  iter[1..k] \in St
    <3>1. /\ 1..k \in SUBSET (1..n) /\ 1..k # {}
          /\ Max(1..k) = k /\ (1..k) \ {k} = 1..(k - 1)
      BY <1>1, Segment
    <3>2. iter[1..k] = ReimportTeacher(iter[1..(k - 1)], F[k], ordre)
      <4> HIDE DEF g, iter
      <4>1. QED  BY <1>1, <1>5, <3>1
    <3>3. QED  BY <2>2, <3>2, <1>3
  <2> HIDE DEF iter, g
  <2>3. QED  BY <2>1, <2>2, <1>1, <1>2, FoldInduction
<1>7. FoldLeft(LAMBDA x, l : ReimportTeacher(x, l, ordre), b, F) = iter[1..n]
  BY <1>1 DEF FoldLeft, MapThenFoldSet
<1>8. QED  BY <1>6, <1>7 DEF St

-----------------------------------------------------------------------------
(* A workbook imported twice *)

NamesOnce(d) == \A e, f \in Ecoles(d) : d.ecoles[e].nom = d.ecoles[f].nom => e = f

AccountsOnce(d) ==
  \A c, b \in Comptes(d) :
    /\ d.comptes[c].role = d.comptes[b].role /\ d.comptes[c].ecole = d.comptes[b].ecole
    /\ Cle[d.comptes[c].nom] = Cle[d.comptes[b].nom]
    => c = b

\* The school of a row: it has the code of the row, or its name when no school has the code.
HomeOf(d, l, e) ==
  /\ e \in Ecoles(d)
  /\ \/ l.code # NULL /\ d.ecoles[e].code = l.code
     \/ /\ d.ecoles[e].nom = l.ecole
        /\ l.code # NULL => \A f \in Ecoles(d) : d.ecoles[f].code # l.code

\* The supervisors of a row are those of the school, its class and its pupil are known.
Staffed(d, e, l) ==
  \A i \in 1..Len(l.superviseurs) : DeLEcole(d, e, l.superviseurs[i], "superviseur") # {}

Registered(d, e, l) == [ecole |-> e, nom |-> l.classe] \in d.classes /\ EleveConnu(d, e, l)

\* Everything a row says is in the tables.
Absorbed(d, l) ==
  \E e : /\ HomeOf(d, l, e) /\ Staffed(d, e, l) /\ Registered(d, e, l)
         /\ l.tuteur # NULL => Taught(d, e, l)

\* The school that is found is the school of the row.
LEMMA EcoleDeHome ==
  ASSUME NEW d \in Base, NEW l, Known(d, l), NEW ordre
  PROVE  HomeOf(d, l, EcoleDe(d, l, ordre))
<1> DEFINE parCode == {e \in Ecoles(d) : l.code # NULL /\ d.ecoles[e].code = l.code}
<1>1. Len(d.ecoles) \in Nat /\ Ecoles(d) \subseteq 1..Len(d.ecoles)  BY RowsOf
<1>2. parCode \subseteq Ecoles(d) /\ ParNom(d, l.ecole) \subseteq Ecoles(d)
  BY DEF ParNom
<1>3. CASE parCode # {}
  <2>1. Dernier(parCode, ordre) \in parCode  BY <1>1, <1>2, <1>3, DernierIn
  <2>2. EcoleDe(d, l, ordre) = Dernier(parCode, ordre)  BY <1>3 DEF EcoleDe
  <2>3. QED  BY <2>1, <2>2 DEF HomeOf
<1>4. CASE parCode = {}
  <2>1. ParNom(d, l.ecole) # {}  BY <1>4 DEF Known, ParNom
  <2>2. Dernier(ParNom(d, l.ecole), ordre) \in ParNom(d, l.ecole)
    BY <1>1, <1>2, <2>1, DernierIn
  <2>3. EcoleDe(d, l, ordre) = Dernier(ParNom(d, l.ecole), ordre)
    BY <1>4 DEF EcoleDe
  <2>4. \A f \in Ecoles(d) : l.code # NULL => d.ecoles[f].code # l.code  BY <1>4
  <2>5. QED  BY <2>2, <2>3, <2>4 DEF HomeOf, ParNom
<1>5. QED  BY <1>3, <1>4

\* While codes and names tell the schools apart, a row has one school.
LEMMA OneHome ==
  ASSUME NEW d \in Base, CodesOnce(d), NamesOnce(d), NEW l, NEW e, HomeOf(d, l, e), NEW ordre
  PROVE  EcoleDe(d, l, ordre) = e /\ Known(d, l)
<1>1. Known(d, l)  BY DEF HomeOf, Known
<1>2. HomeOf(d, l, EcoleDe(d, l, ordre))  BY <1>1, EcoleDeHome
<1> DEFINE f == EcoleDe(d, l, ordre)
<1> HIDE DEF f
<1>3. HomeOf(d, l, f) => f = e
  BY DEF HomeOf, CodesOnce, NamesOnce
<1>4. QED  BY <1>1, <1>2, <1>3 DEF f

\* Supervisors who are all known change nothing.
LEMMA SuperviseursKnown ==
  ASSUME NEW st, NEW l \in Ligne, NEW ordre, Staffed(st.d, EcoleDe(st.d, l, ordre), l)
  PROVE  Superviseurs(st, l, ordre) = st
<1> DEFINE n == Len(l.superviseurs)
           St == {st}
           T == [k \in 0..n |-> St]
<1>1. n \in Nat /\ 0 \in 0..n /\ \A i \in 1..n : i \in 0..n /\ i - 1 \in 0..n
  BY LigneIs
<1>2. \A x \in St, i \in 1..n : EtapeSuperviseur(x, l.superviseurs[i], l, ordre) \in St
  BY DEF Staffed, EtapeSuperviseur
<1>3. st \in St /\ st \in T[0]  BY <1>1
<1>4. \A i \in 1..n : \A x \in St :
        x \in T[i - 1] => EtapeSuperviseur(x, l.superviseurs[i], l, ordre) \in T[i]
  BY <1>1, <1>2
<1> HIDE DEF St, T
<1>5. Superviseurs(st, l, ordre) \in St  BY <1>2, <1>3, <1>4, SuperviseursFold
<1>6. QED  BY <1>5 DEF St

\* A tutor who has the class keeps it.
LEMMA ClassKept ==
  ASSUME NEW st \in Etat, NEW c \in Comptes(st.d), NEW classe \in st.d.comptes[c].classes
  PROVE  AjouterClasse(st, c, classe) = st
<1> DEFINE ligne == st.d.comptes[c]
           k == ligne.classes \cup {classe}
           account == [ligne EXCEPT !.classes = k]
           u == [st.d.comptes EXCEPT ![c] = account]
           t == [st.d EXCEPT !.comptes = u]
<1>1. st.d \in Base /\ st.d.comptes[c] \in Compte /\ c \in DOMAIN st.d.comptes
  BY RowsOf DEF Etat, Comptes
<1>2. account = st.d.comptes[c]
  <2>1. k = ligne.classes /\ ligne \in Compte  BY <1>1
  <2> HIDE DEF k, ligne
  <2> DEFINE A == Nat \cup {NULL}  B == SUBSET Classes  N == Telephones \cup {NULL, PROVISOIRE}
  <2>2. ligne \in [nom : Personnes, role : Roles, ecole : A, classes : B, tel : N]
    BY <2>1 DEF Compte
  <2> HIDE DEF A, B, N
  <2>3. account = [nom |-> ligne.nom, role |-> ligne.role, ecole |-> ligne.ecole,
                   classes |-> k, tel |-> ligne.tel]
    BY <2>2
  <2> HIDE DEF account
  <2>4. account = ligne  BY <2>1, <2>2, <2>3
  <2>5. QED  BY <2>4 DEF ligne
<1>3. u = st.d.comptes
  <2> HIDE DEF account
  <2>1. st.d.comptes \in [1..Len(st.d.comptes) -> Compte \cup {NULL}]  BY <1>1, RowsOf
  <2>2. account = st.d.comptes[c]  BY <1>2
  <2>3. QED  BY <1>1, <2>1, <2>2
<1>4. AjouterClasse(st, c, classe) = [st EXCEPT !.d = t]
  BY <1>1 DEF AjouterClasse, Etat, Base
<1> HIDE DEF u, account
<1>5. t = st.d  BY <1>1, <1>3 DEF Base
<1> HIDE DEF t
<1>6. [st EXCEPT !.d = t] = [d |-> t, orphelins |-> st.orphelins,
                             erreur |-> st.erreur, saute |-> st.saute, echec |-> st.echec]
  BY OtherTables
<1> DEFINE B == BOOLEAN  N == SUBSET Nat
<1>7. st \in [d : Base, orphelins : N, erreur : B, saute : B, echec : B]
  BY DEF Etat
<1> HIDE DEF B, N
<1>8. [d |-> st.d, orphelins |-> st.orphelins,
       erreur |-> st.erreur, saute |-> st.saute, echec |-> st.echec] = st
  BY <1>7
<1>9. QED  BY <1>4, <1>5, <1>6, <1>8

\* A tutor who is known and has the class changes nothing.
LEMMA TuteurKnown ==
  ASSUME NEW st, Sain(st), AccountsOnce(st.d), NEW l, NEW ordre,
         l.tuteur # NULL => Taught(st.d, EcoleDe(st.d, l, ordre), l)
  PROVE  EtapeTuteur(st, l, ordre) = st
<1> DEFINE ecole == EcoleDe(st.d, l, ordre)
           ici == DeLEcole(st.d, ecole, l.tuteur, "enseignant")
           c == Dernier(ici, ordre)
<1>1. CASE st.saute \/ l.tuteur = NULL  BY <1>1 DEF EtapeTuteur
<1>2. CASE ~(st.saute \/ l.tuteur = NULL)
  <2>1. PICK t \in ici : l.classe \in st.d.comptes[t].classes  BY <1>2 DEF Taught
  <2>2. st.d \in Base  BY DEF Sain, Coherent
  <2>3. ici \subseteq 1..Len(st.d.comptes) /\ Len(st.d.comptes) \in Nat
        /\ ici \subseteq Comptes(st.d)
    BY <2>2, RowsOf DEF DeLEcole, Homonymes
  <2>4. c \in ici
    <3> HIDE DEF ici
    <3>1. QED  BY <2>1, <2>3, DernierIn
  <2> HIDE DEF c
  <2>5. c = t  BY <2>1, <2>4 DEF DeLEcole, Homonymes, AccountsOnce
  <2>6. EtapeTuteur(st, l, ordre) = AjouterClasse(st, c, l.classe)
    BY <1>2, <2>1 DEF EtapeTuteur, c
  <2>7. QED  BY <2>1, <2>3, <2>5, <2>6, ClassKept DEF Sain
<1>3. QED  BY <1>1, <1>2

\* A class and a pupil that are known change nothing.
LEMMA PupilKnown ==
  ASSUME NEW st, Sain(st), NEW l, NEW ordre, Registered(st.d, EcoleDe(st.d, l, ordre), l)
  PROVE  EtapeClasseEleve(st, l, ordre) = st
<1> DEFINE ecole == EcoleDe(st.d, l, ordre)
           classe == [ecole |-> ecole, nom |-> l.classe]
           pupil == [ecole |-> ecole, classe |-> l.classe, nom |-> l.eleve,
                     code |-> l.codeEleve]
           k == st.d.classes \cup {classe}
           p == st.d.eleves
           t == [st.d EXCEPT !.classes = k, !.eleves = p]
<1>1. CASE st.saute  BY <1>1 DEF EtapeClasseEleve
<1>2. CASE ~st.saute
  <2>1. st \in Etat /\ st.d \in Base  BY DEF Sain, Coherent
  <2>2. EleveConnu(st.d, ecole, l) /\ k = st.d.classes  BY DEF Registered
  <2>3. EtapeClasseEleve(st, l, ordre)
          = [st EXCEPT !.d.classes = @ \cup {classe},
                       !.d.eleves = IF EleveConnu(st.d, ecole, l) THEN @ ELSE @ \cup {pupil}]
    BY <1>2 DEF EtapeClasseEleve
  <2> HIDE DEF ecole, classe, pupil
  <2>4. EtapeClasseEleve(st, l, ordre) = [st EXCEPT !.d = t]
    BY <2>1, <2>2, <2>3 DEF Etat, Base
  <2> HIDE DEF k
  <2>5. t = [ecoles |-> st.d.ecoles, comptes |-> st.d.comptes, classes |-> k, eleves |-> p]
    BY <2>1, TwoTables
  <2>6. t = st.d  BY <2>1, <2>2, <2>5 DEF Base
  <2> HIDE DEF t
  <2>7. [st EXCEPT !.d = t] = [d |-> t, orphelins |-> st.orphelins,
                               erreur |-> st.erreur, saute |-> st.saute, echec |-> st.echec]
    BY <2>1, OtherTables
  <2> DEFINE B == BOOLEAN  N == SUBSET Nat
  <2>8. st \in [d : Base, orphelins : N, erreur : B, saute : B, echec : B]
    BY <2>1 DEF Etat
  <2> HIDE DEF B, N
  <2>9. [d |-> st.d, orphelins |-> st.orphelins,
         erreur |-> st.erreur, saute |-> st.saute, echec |-> st.echec] = st
    BY <2>8
  <2>10. QED  BY <2>4, <2>6, <2>7, <2>9
<1>3. QED  BY <1>1, <1>2

\* Rows that are not left out.
LEMMA NotLeftOut ==
  ASSUME NEW st \in Etat, st.saute = FALSE
  PROVE  [st EXCEPT !.saute = FALSE] = st
<1> DEFINE B == BOOLEAN  N == SUBSET Nat  f == FALSE
<1>1. st \in [d : Base, orphelins : N, erreur : B, saute : B, echec : B]
  BY DEF Etat
<1>2. st.saute = f  OBVIOUS
<1> HIDE DEF B, N, f
<1>3. [st EXCEPT !.saute = f] = st  BY <1>1, <1>2
<1>4. QED  BY <1>3 DEF f

\* A row that has been absorbed changes nothing.
LEMMA RowAgain ==
  ASSUME NEW st, Sain(st), st.saute = FALSE, NamesOnce(st.d), AccountsOnce(st.d),
         NEW l \in Ligne, Absorbed(st.d, l), NEW ordre
  PROVE  ImportLigne(st, l, ordre) = st
<1>1. st \in Etat /\ st.d \in Base /\ CodesOnce(st.d)  BY DEF Sain, Coherent
<1>2. PICK e : /\ HomeOf(st.d, l, e) /\ Staffed(st.d, e, l) /\ Registered(st.d, e, l)
               /\ l.tuteur # NULL => Taught(st.d, e, l)
  BY DEF Absorbed
<1>3. EcoleDe(st.d, l, ordre) = e /\ Known(st.d, l)  BY <1>1, <1>2, OneHome
<1>4. [st EXCEPT !.saute = FALSE] = st  BY <1>1, NotLeftOut
<1>5. EtapeEcole(st, l) = st  BY <1>3 DEF EtapeEcole, Known
<1>6. Superviseurs(st, l, ordre) = st  BY <1>2, <1>3, SuperviseursKnown
<1>7. EtapeTuteur(st, l, ordre) = st  BY <1>2, <1>3, TuteurKnown
<1>8. EtapeClasseEleve(st, l, ordre) = st  BY <1>2, <1>3, PupilKnown
<1>9. CASE st.echec  BY <1>9 DEF ImportLigne
<1>10. CASE ~st.echec
  <2>1. ImportLigne(st, l, ordre) =
          EtapeClasseEleve(EtapeTuteur(Superviseurs(EtapeEcole([st EXCEPT !.saute = FALSE], l),
                                                    l, ordre), l, ordre), l, ordre)
    <3>1. l.ecole # NULL  BY LigneIs, NullIsNoRow
    <3>2. QED  BY <1>10, <3>1, Zenon DEF ImportLigne, Superviseurs
  <2>2. QED  BY <2>1, <1>4, <1>5, <1>6, <1>7, <1>8
<1>11. QED  BY <1>9, <1>10

\* A workbook whose rows have been absorbed changes nothing.
LEMMA ImportAgain ==
  ASSUME NEW d, Coherent(d), PhonesOnce(d), Univoque(d), NEW F \in Fichiers,
         \A i \in DOMAIN F : Absorbed(d, F[i]), NEW ordre
  PROVE  Import(d, F, ordre).d = d
<1> DEFINE b == Progress(d)
           St == {b}
           n == Len(F)
           T == [k \in 0..n |-> St]
<1>1. n \in Nat /\ DOMAIN F = 1..n /\ \A i \in 1..n : F[i] \in Ligne
  BY FichierIs
<1>2. Sain(b) /\ b.d = d /\ b.saute = FALSE /\ b.echec = FALSE  BY ProgressSound
<1>3. NamesOnce(d) /\ AccountsOnce(d)  BY DEF Univoque, NamesOnce, AccountsOnce
<1> HIDE DEF b, n
<1>4. \A x \in St, i \in 1..n : ImportLigne(x, F[i], ordre) \in St
  BY <1>1, <1>2, <1>3, RowAgain
<1>5. b \in St /\ b \in T[0]  BY <1>1
<1>6. \A i \in 1..n : \A x \in St : x \in T[i - 1] => ImportLigne(x, F[i], ordre) \in T[i]
  BY <1>1, <1>4
<1> HIDE DEF St, T
<1>7. Workbook(b, F, ordre) \in St  BY <1>1, <1>4, <1>5, <1>6, WorkbookFold
<1>8. Workbook(b, F, ordre) = b  BY <1>7 DEF St
<1>9. Import(d, F, ordre).d = LET st == Workbook(b, F, ordre) IN IF st.echec THEN d ELSE st.d
  BY Zenon DEF Import, Workbook, b
<1>10. QED  BY <1>2, <1>8, <1>9

-----------------------------------------------------------------------------
(* A workbook imported without error *)

\* A row that was left out, and a flush that failed, are errors.
Reported(st) == (st.saute => st.erreur) /\ (st.echec => st.erreur)

\* An error stays one.
Tallied(st, x) == Reported(x) /\ (st.erreur => x.erreur)

\* With other tables the flags are the same, and a failure is an error.
LEMMA FlagsKept ==
  ASSUME NEW st \in Etat, Reported(st), NEW t, NEW o, NEW x,
         \/ x = [st EXCEPT !.d = t] \/ x = [st EXCEPT !.d = t, !.orphelins = o]
         \/ x = Raise(st) \/ x = FlushFails(st)
  PROVE  Tallied(st, x) /\ (x = [st EXCEPT !.d = t] => x.saute = st.saute)
<1>1. CASE x = [st EXCEPT !.d = t] \/ x = [st EXCEPT !.d = t, !.orphelins = o]
  <2>1. \/ x = [d |-> t, orphelins |-> st.orphelins,
                erreur |-> st.erreur, saute |-> st.saute, echec |-> st.echec]
        \/ x = [d |-> t, orphelins |-> o,
                erreur |-> st.erreur, saute |-> st.saute, echec |-> st.echec]
    BY <1>1, OtherTables
  <2>2. x.erreur = st.erreur /\ x.saute = st.saute /\ x.echec = st.echec  BY <2>1
  <2>3. QED  BY <2>2, Zenon DEF Tallied, Reported
<1>2. CASE x = Raise(st) \/ x = FlushFails(st)
  <2>1. x.erreur  BY <1>2 DEF Raise, FlushFails, Etat
  <2>2. Tallied(st, x)  BY <2>1 DEF Tallied, Reported
  <2>3. x = [st EXCEPT !.d = t] => x.saute = st.saute
    <3>1. ASSUME x = [st EXCEPT !.d = t] PROVE x.saute = st.saute
      <4>1. x = [d |-> t, orphelins |-> st.orphelins,
                 erreur |-> st.erreur, saute |-> st.saute, echec |-> st.echec]
        BY <3>1, OtherTables
      <4>2. QED  BY <4>1
    <3>2. QED  BY <3>1
  <2>4. QED  BY <2>2, <2>3
<1>3. QED  BY <1>1, <1>2

\* The steps of a row tell of their failures.
LEMMA StepsTallied ==
  ASSUME NEW st, Sain(st), Reported(st)
  PROVE  /\ \A l : Tallied(st, EtapeEcole(st, l)) /\ EtapeEcole(st, l).saute = st.saute
         /\ \A classe : \A c \in Comptes(st.d) : Tallied(st, AjouterClasse(st, c, classe))
         /\ \A ecole : \A c \in Comptes(st.d) : Tallied(st, Attach(st, c, ecole))
         /\ \A nom, role, ecole, classes, ecrit :
              Tallied(st, CreateCompte(st, nom, role, ecole, classes, ecrit))
<1>1. st \in Etat /\ st.d \in Base /\ Tallied(st, st)
  BY DEF Sain, Coherent, Tallied
<1>2. ASSUME NEW l
      PROVE  Tallied(st, EtapeEcole(st, l)) /\ EtapeEcole(st, l).saute = st.saute
  <2>1. \/ EtapeEcole(st, l) = st
        \/ EtapeEcole(st, l) = [st EXCEPT !.d = AddEcole(st.d, l.ecole, l.code)]
    BY DEF EtapeEcole
  <2>2. QED  BY <1>1, <2>1, FlagsKept
<1>3. ASSUME NEW c \in Comptes(st.d), NEW classe
      PROVE  Tallied(st, AjouterClasse(st, c, classe))
  <2> DEFINE t == [st.d EXCEPT !.comptes[c].classes = @ \cup {classe}]
  <2>1. AjouterClasse(st, c, classe) = [st EXCEPT !.d = t]
    BY <1>1 DEF AjouterClasse, Etat, Base
  <2> HIDE DEF t
  <2> DEFINE x == AjouterClasse(st, c, classe)
  <2>2. x = [st EXCEPT !.d = t]  BY <2>1
  <2> HIDE DEF x
  <2>3. Tallied(st, x)  BY <1>1, <2>2, FlagsKept
  <2>4. QED  BY <2>3 DEF x
<1>4. ASSUME NEW c \in Comptes(st.d), NEW ecole
      PROVE  Tallied(st, Attach(st, c, ecole))
  <2> DEFINE t == [st.d EXCEPT !.comptes[c].ecole = ecole]
             o == st.orphelins \ Homonymes(st.d, st.d.comptes[c].nom, st.d.comptes[c].role)
  <2>1. Attach(st, c, ecole) = [st EXCEPT !.d = t, !.orphelins = o]
    BY <1>1 DEF Attach, Etat, Base
  <2> HIDE DEF t, o
  <2> DEFINE x == Attach(st, c, ecole)
  <2>2. x = [st EXCEPT !.d = t, !.orphelins = o]  BY <2>1
  <2> HIDE DEF x
  <2>3. Tallied(st, x)  BY <1>1, <2>2, FlagsKept
  <2>4. QED  BY <2>3 DEF x
<1>5. ASSUME NEW nom, NEW role, NEW ecole, NEW classes, NEW ecrit
      PROVE  Tallied(st, CreateCompte(st, nom, role, ecole, classes, ecrit))
  <2> DEFINE tel == IF ecrit = NULL THEN PROVISOIRE ELSE Normal[ecrit]
             t == AddCompte(st.d, [nom |-> nom, role |-> role, ecole |-> ecole,
                                   classes |-> classes, tel |-> tel])
             x == CreateCompte(st, nom, role, ecole, classes, ecrit)
  <2>1. x = Raise(st) \/ x = FlushFails(st) \/ x = [st EXCEPT !.d = t]
    BY DEF CreateCompte
  <2> HIDE DEF t, x
  <2>2. QED  BY <1>1, <2>1, FlagsKept DEF x
<1>6. QED  BY <1>2, <1>3, <1>4, <1>5

\* One step after another.
LEMMA TalliedOn ==
  ASSUME NEW a, NEW b, NEW c, Tallied(a, b), Tallied(b, c)
  PROVE  Tallied(a, c)
BY DEF Tallied

\* Accounts of a school stay in it.
LEMMA StaffStays ==
  ASSUME NEW a \in Base, NEW b, Grows(a, b), NEW ecole \in Ecoles(a), NEW nom, NEW role
  PROVE  DeLEcole(a, ecole, nom, role) \subseteq DeLEcole(b, ecole, nom, role)
<1>1. ecole # NULL  BY RowsOf, NullIsNoRow
<1>2. QED  BY <1>1 DEF DeLEcole, Homonymes, Grows

\* A supervisor of the row is one of the school afterwards, unless the row is left out.
LEMMA SuperviseurHere ==
  ASSUME NEW st, Sain(st), Reported(st), NEW nom \in Personnes, NEW l \in Ligne,
         Known(st.d, l), NEW ordre
  PROVE  LET x == EtapeSuperviseur(st, nom, l, ordre)
         IN /\ Tallied(st, x)
            /\ st.saute => x = st
            /\ x.saute \/ DeLEcole(x.d, EcoleDe(st.d, l, ordre), nom, "superviseur") # {}
<1> DEFINE x == EtapeSuperviseur(st, nom, l, ordre)
           ecole == EcoleDe(st.d, l, ordre)
           libres == SansEcole(st, nom, "superviseur", ordre)
           role == "superviseur"
<1>1. ecole \in Ecoles(st.d) /\ Tallied(st, st)
  BY EcoleDeIn DEF Sain, Coherent, Tallied
<1>2. CASE st.saute \/ DeLEcole(st.d, ecole, nom, "superviseur") # {}
  <2>1. x = st  BY <1>2 DEF EtapeSuperviseur
  <2>2. QED  BY <1>1, <1>2, <2>1
<1>3. CASE ~(st.saute \/ DeLEcole(st.d, ecole, nom, "superviseur") # {}) /\ libres # {}
  <2> DEFINE c == CHOOSE c \in libres : TRUE
             y == Attach(st, c, ecole)
  <2>1. x = y  BY <1>3 DEF EtapeSuperviseur
  <2>2. c \in libres  BY <1>3
  <2> HIDE DEF c, x, ecole, libres
  <2>3. c \in st.orphelins /\ c \in Homonymes(st.d, nom, role)
    BY <2>2, SansEcoleIn DEF libres
  <2>4. c \in Comptes(st.d) /\ st.d.comptes[c] \in Compte
    BY <2>3, RowsOf DEF Homonymes, Sain, Coherent
  <2>5. /\ Step(st, y) /\ c \in Comptes(y.d)
        /\ y.d.comptes[c] = [st.d.comptes[c] EXCEPT !.ecole = ecole]
    BY <1>1, <2>3, AttachStep
  <2>6. Tallied(st, y)  BY <2>4, StepsTallied
  <2> HIDE DEF y
  <2>7. /\ y.d.comptes[c].ecole = ecole /\ y.d.comptes[c].role = role
        /\ Cle[y.d.comptes[c].nom] = Cle[nom]
    BY <2>3, <2>4, <2>5 DEF Homonymes, Compte
  <2>8. c \in DeLEcole(y.d, ecole, nom, role)  BY <2>5, <2>7 DEF DeLEcole, Homonymes
  <2>9. QED  BY <1>3, <2>1, <2>6, <2>8 DEF x, ecole
<1>4. CASE ~(st.saute \/ DeLEcole(st.d, ecole, nom, "superviseur") # {}) /\ libres = {}
  <2> DEFINE K == {}
             y == CreateCompte(st, nom, role, ecole, K, l.telSuperviseur)
  <2>1. x = y  BY <1>4 DEF EtapeSuperviseur
  <2>2. l.telSuperviseur \in Telephones \cup {NULL} /\ role \in Roles /\ K \in SUBSET Classes
    BY LigneIs DEF Roles
  <2> HIDE DEF x, ecole, libres, K
  <2>3. \/ y.saute
        \/ \E c \in Comptes(y.d) :
             /\ y.d.comptes[c].nom = nom /\ y.d.comptes[c].role = role
             /\ y.d.comptes[c].ecole = ecole /\ y.d.comptes[c].classes = K
    BY <1>1, <2>2, CreateCompteStep
  <2>4. Tallied(st, y)  BY StepsTallied
  <2> HIDE DEF y
  <2>5. y.saute \/ DeLEcole(y.d, ecole, nom, role) # {}
    BY <2>3 DEF DeLEcole, Homonymes
  <2>6. QED  BY <1>4, <2>1, <2>4, <2>5 DEF x, ecole
<1>5. QED  BY <1>2, <1>3, <1>4

\* All supervisors of the row are.
LEMMA SuperviseursHere ==
  ASSUME NEW st, Sain(st), Reported(st), NEW l \in Ligne, Known(st.d, l), NEW ordre
  PROVE  LET x == Superviseurs(st, l, ordre)
         IN /\ Tallied(st, x)
            /\ x.saute \/ Staffed(x.d, EcoleDe(st.d, l, ordre), l)
<1> DEFINE n == Len(l.superviseurs)
           ecole == EcoleDe(st.d, l, ordre)
           role == "superviseur"
           St == {x \in Etat : Step(st, x) /\ Tallied(st, x)}
           T == [k \in 0..n |->
                   {x \in St :
                      \/ x.saute
                      \/ \A i \in 1..k : DeLEcole(x.d, ecole, l.superviseurs[i], role) # {}}]
<1>1. n \in Nat /\ \A i \in 1..n : l.superviseurs[i] \in Personnes
  BY LigneIs
<1>2. ecole \in Ecoles(st.d)  BY EcoleDeIn DEF Sain, Coherent
<1>3. st \in St  BY StepSelf DEF Sain, Tallied
<1>4. st \in T[0]  BY <1>1, <1>3
<1>5. ASSUME NEW x \in St, NEW i \in 1..n
      PROVE  LET y == EtapeSuperviseur(x, l.superviseurs[i], l, ordre)
             IN /\ y \in St /\ Step(x, y)
                /\ x.saute => y = x
                /\ y.saute \/ DeLEcole(y.d, ecole, l.superviseurs[i], role) # {}
  <2> DEFINE nom == l.superviseurs[i]
             y == EtapeSuperviseur(x, nom, l, ordre)
  <2>1. Sain(x) /\ Same(st.d, x.d) /\ Step(st, x) /\ Tallied(st, x) /\ Reported(x)
    BY DEF Step, Tallied
  <2>2. Known(x.d, l) /\ EcoleDe(x.d, l, ordre) = ecole  BY <2>1, EcoleDeSame
  <2>3. nom \in Personnes  BY <1>1
  <2> HIDE DEF n, nom, St, ecole
  <2>4. Step(x, y)  BY <2>1, <2>2, <2>3, EtapeSuperviseurStep
  <2>5. /\ Tallied(x, y) /\ (x.saute => y = x)
        /\ y.saute \/ DeLEcole(y.d, ecole, nom, role) # {}
    BY <2>1, <2>2, <2>3, SuperviseurHere
  <2> HIDE DEF y
  <2>6. Step(st, y) /\ Tallied(st, y)  BY <2>1, <2>4, <2>5, StepOn, TalliedOn
  <2>7. y \in St  BY <2>6 DEF Step, Sain, St
  <2>8. QED  BY <2>4, <2>5, <2>7 DEF y, nom
<1>6. ASSUME NEW i \in 1..n, NEW x \in St, x \in T[i - 1]
      PROVE  EtapeSuperviseur(x, l.superviseurs[i], l, ordre) \in T[i]
  <2> DEFINE y == EtapeSuperviseur(x, l.superviseurs[i], l, ordre)
  <2>1. /\ y \in St /\ Step(x, y)
        /\ x.saute => y = x
        /\ y.saute \/ DeLEcole(y.d, ecole, l.superviseurs[i], role) # {}
    BY <1>5
  <2>2. i - 1 \in 0..n /\ i \in 0..n  BY <1>1
  <2>3. x.saute \/ \A j \in 1..(i - 1) : DeLEcole(x.d, ecole, l.superviseurs[j], role) # {}
    BY <1>6, <2>2
  <2> HIDE DEF y
  <2>4. x.d \in Base /\ ecole \in Ecoles(x.d) /\ Grows(x.d, y.d)
    <3>1. Sain(x) /\ Same(st.d, x.d)  BY DEF Step
    <3>2. QED  BY <1>2, <2>1, <3>1 DEF Step, Sain, Coherent, Same, Ecoles
  <2>5. ASSUME ~y.saute, NEW j \in 1..i
        PROVE  DeLEcole(y.d, ecole, l.superviseurs[j], role) # {}
    <3>1. CASE j = i  BY <2>1, <2>5, <3>1
    <3>2. CASE j # i
      <4>1. j \in 1..(i - 1) /\ ~x.saute  BY <1>1, <2>1, <2>5, <3>2
      <4>2. DeLEcole(x.d, ecole, l.superviseurs[j], role) # {}  BY <2>3, <4>1
      <4>3. QED  BY <2>4, <4>2, StaffStays
    <3>3. QED  BY <3>1, <3>2
  <2>6. y \in T[i]  BY <2>1, <2>2, <2>5
  <2>7. QED  BY <2>6 DEF y
<1>7. \A x \in St, i \in 1..n : EtapeSuperviseur(x, l.superviseurs[i], l, ordre) \in St
  BY <1>5
<1>8. \A i \in 1..n : \A x \in St :
        x \in T[i - 1] => EtapeSuperviseur(x, l.superviseurs[i], l, ordre) \in T[i]
  BY <1>6
<1> HIDE DEF St, T
<1> DEFINE z == Superviseurs(st, l, ordre)
<1>9. z \in St /\ z \in T[n]  BY <1>3, <1>4, <1>7, <1>8, SuperviseursFold
<1> HIDE DEF z
<1>10. z.saute \/ \A i \in 1..n : DeLEcole(z.d, ecole, l.superviseurs[i], role) # {}
  BY <1>1, <1>9 DEF T
<1>11. Tallied(st, z)  BY <1>9 DEF St
<1>12. QED  BY <1>10, <1>11 DEF Staffed, z

\* The tutor's step tells of its failures.
LEMMA TuteurTallied ==
  ASSUME NEW st, Sain(st), Reported(st), NEW l \in Ligne, Known(st.d, l), NEW ordre
  PROVE  Tallied(st, EtapeTuteur(st, l, ordre))
<1> DEFINE x == EtapeTuteur(st, l, ordre)
           ecole == EcoleDe(st.d, l, ordre)
           ici == DeLEcole(st.d, ecole, l.tuteur, "enseignant")
           libres == SansEcole(st, l.tuteur, "enseignant", ordre)
           suite == ~(st.saute \/ l.tuteur = NULL)
<1>1. /\ ecole \in Ecoles(st.d) /\ Tallied(st, st) /\ l.classe \in Classes
      /\ st.d \in Base
  BY EcoleDeIn, LigneIs DEF Sain, Coherent, Tallied
<1>2. CASE ~suite
  <2>1. x = st  BY <1>2 DEF EtapeTuteur
  <2>2. QED  BY <1>1, <2>1
<1>3. CASE suite /\ ici # {}
  <2> DEFINE c == Dernier(ici, ordre)
  <2>1. x = AjouterClasse(st, c, l.classe)  BY <1>3 DEF EtapeTuteur
  <2>2. ici \subseteq 1..Len(st.d.comptes) /\ Len(st.d.comptes) \in Nat
        /\ ici \subseteq Comptes(st.d)
    BY <1>1, RowsOf DEF DeLEcole, Homonymes
  <2>3. c \in Comptes(st.d)
    <3> HIDE DEF ici
    <3>1. QED  BY <1>3, <2>2, DernierIn
  <2> HIDE DEF c, x
  <2>4. Tallied(st, AjouterClasse(st, c, l.classe))  BY <2>3, StepsTallied
  <2>5. QED  BY <2>1, <2>4 DEF x
<1>4. CASE suite /\ ici = {} /\ libres # {}
  <2> DEFINE c == CHOOSE c \in libres : TRUE
             y == Attach(st, c, ecole)
  <2>1. x = AjouterClasse(y, c, l.classe)  BY <1>4 DEF EtapeTuteur
  <2>2. c \in libres  BY <1>4
  <2> HIDE DEF c, x, ecole, libres
  <2>3. c \in st.orphelins /\ c \in Comptes(st.d)
    BY <2>2, SansEcoleIn DEF libres, Homonymes
  <2>4. Step(st, y) /\ c \in Comptes(y.d)  BY <1>1, <2>3, AttachStep
  <2>5. Tallied(st, y)  BY <2>3, StepsTallied
  <2> HIDE DEF y
  <2>6. Sain(y) /\ Reported(y)  BY <2>4, <2>5 DEF Step, Tallied
  <2>7. Tallied(y, AjouterClasse(y, c, l.classe))  BY <2>4, <2>6, StepsTallied
  <2>8. QED  BY <2>1, <2>5, <2>7, TalliedOn DEF x
<1>5. CASE suite /\ ici = {} /\ libres = {}
  <2> DEFINE K == {l.classe}
             y == CreateCompte(st, l.tuteur, "enseignant", ecole, K, l.telTuteur)
  <2>1. x = y  BY <1>5 DEF EtapeTuteur
  <2> HIDE DEF x, K, ecole
  <2>2. Tallied(st, y)  BY StepsTallied
  <2>3. QED  BY <2>1, <2>2 DEF x
<1>6. QED  BY <1>2, <1>3, <1>4, <1>5

\* The class and the pupil of a row that was not left out are known afterwards.
LEMMA PupilHere ==
  ASSUME NEW st, Sain(st), Reported(st), NEW l \in Ligne, Known(st.d, l), NEW ordre
  PROVE  LET x == EtapeClasseEleve(st, l, ordre)
         IN /\ Tallied(st, x) /\ x.saute = st.saute /\ x.d.ecoles = st.d.ecoles
            /\ st.saute \/ Registered(x.d, EcoleDe(st.d, l, ordre), l)
<1> DEFINE x == EtapeClasseEleve(st, l, ordre)
           ecole == EcoleDe(st.d, l, ordre)
           classe == [ecole |-> ecole, nom |-> l.classe]
           pupil == [ecole |-> ecole, classe |-> l.classe, nom |-> l.eleve,
                     code |-> l.codeEleve]
           k == st.d.classes \cup {classe}
           p == IF EleveConnu(st.d, ecole, l) THEN st.d.eleves ELSE st.d.eleves \cup {pupil}
           t == [st.d EXCEPT !.classes = k, !.eleves = p]
<1>1. CASE st.saute
  <2>1. x = st  BY <1>1 DEF EtapeClasseEleve
  <2>2. QED  BY <1>1, <2>1 DEF Tallied
<1>2. CASE ~st.saute
  <2>1. st \in Etat /\ st.d \in Base  BY DEF Sain, Coherent
  <2>2. x = [st EXCEPT !.d.classes = @ \cup {classe},
                       !.d.eleves = IF EleveConnu(st.d, ecole, l) THEN @ ELSE @ \cup {pupil}]
    BY <1>2 DEF EtapeClasseEleve
  <2>3. x = [st EXCEPT !.d = t]
    <3> HIDE DEF x, ecole, classe, pupil
    <3>1. QED  BY <2>1, <2>2 DEF Etat, Base
  <2>4. /\ pupil.ecole = ecole /\ pupil.classe = l.classe /\ pupil.nom = l.eleve
        /\ pupil \in p \/ EleveConnu(st.d, ecole, l)
        /\ st.d.eleves \subseteq p /\ classe \in k
    OBVIOUS
  <2> HIDE DEF x, ecole, pupil, p, k
  <2>5. t = [ecoles |-> st.d.ecoles, comptes |-> st.d.comptes, classes |-> k, eleves |-> p]
    BY <2>1, TwoTables
  <2>6. t.ecoles = st.d.ecoles /\ t.classes = k /\ t.eleves = p  BY <2>5
  <2> HIDE DEF t
  <2>7. EleveConnu(t, ecole, l)
    BY <2>4, <2>6 DEF EleveConnu
  <2>8. Registered(t, ecole, l)
    BY <2>4, <2>6, <2>7 DEF Registered
  <2>9. x = [d |-> t, orphelins |-> st.orphelins,
             erreur |-> st.erreur, saute |-> st.saute, echec |-> st.echec]
    BY <2>1, <2>3, OtherTables
  <2>10. x.d = t  BY <2>9
  <2>11. Tallied(st, x) /\ x.saute = st.saute  BY <2>1, <2>3, FlagsKept
  <2>12. QED  BY <2>6, <2>8, <2>10, <2>11 DEF x, ecole
<1>3. QED  BY <1>1, <1>2

\* The school a row brings is the row's.
LEMMA EcoleBrought ==
  ASSUME NEW st, Sain(st), NEW l \in Ligne
  PROVE  \A e \in Ecoles(EtapeEcole(st, l).d) :
           \/ e \in Ecoles(st.d)
           \/ EtapeEcole(st, l).d.ecoles[e] = [nom |-> l.ecole, code |-> l.code]
<1> DEFINE x == EtapeEcole(st, l)
           t == AddEcole(st.d, l.ecole, l.code)
           n == Len(st.d.ecoles) + 1
<1>1. st \in Etat /\ st.d \in Base  BY DEF Sain, Coherent
<1>2. x = st \/ x = [st EXCEPT !.d = t]  BY DEF EtapeEcole
<1>3. CASE x = st  BY <1>3
<1>4. CASE x = [st EXCEPT !.d = t]
  <2>1. Ecoles(t) = Ecoles(st.d) \cup {n} /\ t.ecoles[n] = [nom |-> l.ecole, code |-> l.code]
    BY <1>1, LigneIs, OneMoreSchool
  <2> HIDE DEF x, t, n
  <2>2. x = [d |-> t, orphelins |-> st.orphelins,
             erreur |-> st.erreur, saute |-> st.saute, echec |-> st.echec]
    BY <1>1, <1>4, OtherTables
  <2>3. x.d = t  BY <2>2
  <2>4. QED  BY <2>1, <2>3 DEF x
<1>5. QED  BY <1>2, <1>3, <1>4

\* A row that raised nothing is absorbed, and only its school is new.
LEMMA RowAbsorbed ==
  ASSUME NEW st, Sain(st), Reported(st), NEW l \in Ligne, NEW ordre
  PROVE  LET x == ImportLigne(st, l, ordre)
         IN /\ Tallied(st, x)
            /\ x.erreur \/ Absorbed(x.d, l)
            /\ \A e \in Ecoles(x.d) :
                 \/ e \in Ecoles(st.d)
                 \/ x.d.ecoles[e] = [nom |-> l.ecole, code |-> l.code]
<1> DEFINE x == ImportLigne(st, l, ordre)
           a == [st EXCEPT !.saute = FALSE]
           e == EtapeEcole(a, l)
           s == Superviseurs(e, l, ordre)
           t == EtapeTuteur(s, l, ordre)
           z == EtapeClasseEleve(t, l, ordre)
           ecole == EcoleDe(e.d, l, ordre)
<1>1. CASE st.echec
  <2>1. x = st  BY <1>1 DEF ImportLigne
  <2>2. Tallied(st, st) /\ st.erreur  BY <1>1 DEF Tallied, Reported
  <2>3. QED  BY <2>1, <2>2
<1>2. CASE ~st.echec
  <2>1. x = z
    <3>1. l.ecole # NULL  BY LigneIs, NullIsNoRow
    <3>2. QED  BY <1>2, <3>1, Zenon DEF ImportLigne, Superviseurs
  <2>2. Step(st, a) /\ Tallied(st, a)
    <3>1. Step(st, a)  BY FailedStep
    <3>2. ~a.saute /\ a.erreur = st.erreur /\ a.echec = st.echec  BY DEF Sain, Etat
    <3> HIDE DEF a
    <3>3. QED  BY <3>1, <3>2, Zenon DEF Tallied, Reported
  <2> HIDE DEF a
  <2>3. Sain(a) /\ Reported(a) /\ Same(st.d, a.d)  BY <2>2 DEF Step, Tallied
  <2>4. Sain(e) /\ Grows(a.d, e.d) /\ Known(e.d, l)  BY <2>3, EtapeEcoleStep
  <2>5. /\ Tallied(a, e)
        /\ \A f \in Ecoles(e.d) : \/ f \in Ecoles(a.d)
                                  \/ e.d.ecoles[f] = [nom |-> l.ecole, code |-> l.code]
    BY <2>3, StepsTallied, EcoleBrought
  <2> HIDE DEF e
  <2>6. Reported(e)  BY <2>5 DEF Tallied
  <2>7. Step(e, s)  BY <2>4, EtapeSuperviseurs
  <2>8. Tallied(e, s) /\ (s.saute \/ Staffed(s.d, ecole, l))
    BY <2>4, <2>6, SuperviseursHere
  <2> HIDE DEF s
  <2>9. Sain(s) /\ Reported(s) /\ Known(s.d, l) /\ EcoleDe(s.d, l, ordre) = ecole
    BY <2>4, <2>7, <2>8, EcoleDeSame DEF Step, Tallied
  <2>10. /\ Step(s, t) /\ Tallied(s, t)
         /\ t.saute \/ l.tuteur = NULL \/ Taught(t.d, EcoleDe(s.d, l, ordre), l)
    BY <2>9, EtapeTuteurStep, TuteurTallied
  <2> HIDE DEF t
  <2>11. Sain(t) /\ Reported(t) /\ Known(t.d, l) /\ EcoleDe(t.d, l, ordre) = ecole
    BY <2>9, <2>10, EcoleDeSame DEF Step, Tallied
  <2>12. /\ Sain(z) /\ Grows(t.d, z.d)
         /\ z.d.comptes = t.d.comptes /\ Comptes(z.d) = Comptes(t.d)
    BY <2>11, EtapeClasseEleveStep
  <2>13. /\ Tallied(t, z) /\ z.saute = t.saute /\ z.d.ecoles = t.d.ecoles
         /\ t.saute \/ Registered(z.d, ecole, l)
    BY <2>11, PupilHere
  <2> HIDE DEF z, x, ecole
  <2>14. Tallied(st, z)
    <3>1. Tallied(st, e)  BY <2>2, <2>5, TalliedOn
    <3>2. Tallied(st, s)  BY <2>8, <3>1, TalliedOn
    <3>3. Tallied(st, t)  BY <2>10, <3>2, TalliedOn
    <3>4. QED  BY <2>13, <3>3, TalliedOn
  <2>15. z.d.ecoles = e.d.ecoles /\ Ecoles(z.d) = Ecoles(e.d)
    BY <2>7, <2>10, <2>13 DEF Step, Same, Ecoles
  <2>16. Ecoles(a.d) = Ecoles(st.d)  BY <2>3 DEF Same, Ecoles
  <2>17. ASSUME ~z.erreur
         PROVE  Absorbed(z.d, l)
    <3>1. ~t.saute /\ ~s.saute
      BY <2>8, <2>10, <2>13, <2>17 DEF Tallied, Reported
    <3>2. HomeOf(e.d, l, ecole)
      BY <2>4, EcoleDeHome DEF Sain, Coherent, ecole
    <3>3. HomeOf(z.d, l, ecole)  BY <2>15, <3>2 DEF HomeOf
    <3>4. ecole \in Ecoles(s.d) /\ s.d \in Base /\ Grows(s.d, z.d)
      <4>1. ecole \in Ecoles(e.d) /\ Same(e.d, s.d) /\ Grows(s.d, t.d)
        BY <2>7, <2>10, <3>2 DEF HomeOf, Step
      <4>2. Grows(s.d, z.d)  BY <2>12, <4>1, GrowsOn
      <4>3. QED  BY <2>9, <4>1, <4>2 DEF Same, Ecoles, Sain, Coherent
    <3>5. Staffed(z.d, ecole, l)
      <4>1. Staffed(s.d, ecole, l)  BY <2>8, <3>1
      <4>2. QED  BY <3>4, <4>1, StaffStays DEF Staffed
    <3>6. l.tuteur # NULL => Taught(z.d, ecole, l)
      <4>1. l.tuteur # NULL => Taught(t.d, ecole, l)  BY <2>9, <2>10, <3>1
      <4>2. QED  BY <2>12, <4>1 DEF Taught, DeLEcole, Homonymes
    <3>7. Registered(z.d, ecole, l)  BY <2>13, <3>1
    <3>8. QED  BY <3>3, <3>5, <3>6, <3>7 DEF Absorbed
  <2>18. \A f \in Ecoles(z.d) :
           f \in Ecoles(st.d) \/ z.d.ecoles[f] = [nom |-> l.ecole, code |-> l.code]
    BY <2>5, <2>15, <2>16
  <2>19. QED  BY <2>1, <2>14, <2>17, <2>18 DEF x
<1>3. QED  BY <1>1, <1>2

\* What was absorbed stays so, unless a school comes with the row's code and another name.
LEMMA AbsorbedLater ==
  ASSUME NEW a, Coherent(a), NEW b, Coherent(b), Grows(a, b), NamesOnce(b),
         NEW l, Absorbed(a, l),
         \A e \in Ecoles(b) : \/ e \in Ecoles(a)
                              \/ l.code # NULL /\ b.ecoles[e].code = l.code
                                   => b.ecoles[e].nom = l.ecole
  PROVE  Absorbed(b, l)
<1>1. PICK e : /\ HomeOf(a, l, e) /\ Staffed(a, e, l) /\ Registered(a, e, l)
               /\ l.tuteur # NULL => Taught(a, e, l)
  BY DEF Absorbed
<1>2. a \in Base /\ e \in Ecoles(a)  BY <1>1 DEF Coherent, HomeOf
<1>3. \A f \in Ecoles(a) : f \in Ecoles(b) /\ b.ecoles[f] = a.ecoles[f]
  BY DEF Grows, Ecoles
<1>4. HomeOf(b, l, e)
  <2>1. CASE l.code # NULL /\ a.ecoles[e].code = l.code
    BY <1>2, <1>3, <2>1 DEF HomeOf
  <2>2. CASE ~(l.code # NULL /\ a.ecoles[e].code = l.code)
    <3>1. /\ a.ecoles[e].nom = l.ecole
          /\ l.code # NULL => \A f \in Ecoles(a) : a.ecoles[f].code # l.code
      BY <1>1, <2>2 DEF HomeOf
    <3>2. ASSUME l.code # NULL, NEW f \in Ecoles(b), b.ecoles[f].code = l.code
          PROVE  FALSE
      <4>1. f \notin Ecoles(a)  BY <1>3, <3>1, <3>2
      <4>2. b.ecoles[f].nom = b.ecoles[e].nom  BY <1>2, <1>3, <3>1, <3>2, <4>1
      <4>3. f = e  BY <1>2, <1>3, <4>2 DEF NamesOnce
      <4>4. QED  BY <1>2, <4>1, <4>3
    <3>3. QED  BY <1>2, <1>3, <3>1, <3>2 DEF HomeOf
  <2>3. QED  BY <2>1, <2>2
<1>5. Staffed(b, e, l)  BY <1>1, <1>2, StaffStays DEF Staffed
<1>6. l.tuteur # NULL => Taught(b, e, l)
  <2> SUFFICES ASSUME l.tuteur # NULL PROVE Taught(b, e, l)
    OBVIOUS
  <2>1. PICK c \in DeLEcole(a, e, l.tuteur, "enseignant") : l.classe \in a.comptes[c].classes
    BY <1>1 DEF Taught
  <2>2. c \in DeLEcole(b, e, l.tuteur, "enseignant")  BY <1>2, StaffStays
  <2>3. l.classe \in b.comptes[c].classes
    BY <2>1 DEF DeLEcole, Homonymes, Grows
  <2>4. QED  BY <2>2, <2>3 DEF Taught
<1>7. Registered(b, e, l)  BY <1>1 DEF Registered, EleveConnu, Grows
<1>8. QED  BY <1>4, <1>5, <1>6, <1>7 DEF Absorbed

\* A workbook imported without error, in which a code names one school, is absorbed.
LEMMA WorkbookAbsorbed ==
  ASSUME NEW d, Coherent(d), PhonesOnce(d), NEW F \in Fichiers, CodesUnivoques(F), NEW ordre
  PROVE  LET r == Import(d, F, ordre)
         IN ~r.erreur /\ NamesOnce(r.d) => \A i \in DOMAIN F : Absorbed(r.d, F[i])
<1> DEFINE b == Progress(d)
           n == Len(F)
           Ok(x, k) == ~x.erreur /\ NamesOnce(x.d) => \A j \in 1..k : Absorbed(x.d, F[j])
           St == {x \in Etat : Sain(x) /\ Reported(x)}
           T == [k \in 0..n |-> {x \in St : Ok(x, k)}]
           z == Workbook(b, F, ordre)
<1>1. n \in Nat /\ DOMAIN F = 1..n /\ \A i \in 1..n : F[i] \in Ligne
  BY FichierIs
<1>2. \A x \in St : Sain(x) /\ Coherent(x.d) /\ Reported(x)  BY DEF Sain
<1>3. b \in St
  <2>1. Sain(b) /\ ~b.saute /\ ~b.echec  BY ProgressSound
  <2> HIDE DEF b
  <2>2. QED  BY <2>1 DEF Sain, Reported
<1>4. b \in T[0]  BY <1>1, <1>3
<1>5. ASSUME NEW x \in St, NEW i \in 1..n
      PROVE  LET y == ImportLigne(x, F[i], ordre)
             IN /\ y \in St /\ Grows(x.d, y.d) /\ Tallied(x, y)
                /\ y.erreur \/ Absorbed(y.d, F[i])
                /\ \A e \in Ecoles(y.d) :
                     \/ e \in Ecoles(x.d)
                     \/ y.d.ecoles[e] = [nom |-> F[i].ecole, code |-> F[i].code]
  <2> DEFINE y == ImportLigne(x, F[i], ordre)
  <2>1. Sain(x) /\ Reported(x) /\ F[i] \in Ligne  BY <1>1, <1>2
  <2>2. Sain(y) /\ Grows(x.d, y.d)  BY <2>1, ImportLigneStep
  <2>3. /\ Tallied(x, y) /\ (y.erreur \/ Absorbed(y.d, F[i]))
        /\ \A e \in Ecoles(y.d) :
             \/ e \in Ecoles(x.d)
             \/ y.d.ecoles[e] = [nom |-> F[i].ecole, code |-> F[i].code]
    BY <2>1, RowAbsorbed
  <2> HIDE DEF y
  <2>4. y \in St  BY <2>2, <2>3 DEF Sain, Tallied
  <2>5. QED  BY <2>2, <2>3, <2>4 DEF y
<1>6. ASSUME NEW i \in 1..n, NEW x \in St, x \in T[i - 1]
      PROVE  ImportLigne(x, F[i], ordre) \in T[i]
  <2> DEFINE y == ImportLigne(x, F[i], ordre)
  <2>1. /\ y \in St /\ Grows(x.d, y.d) /\ Tallied(x, y)
        /\ y.erreur \/ Absorbed(y.d, F[i])
        /\ \A e \in Ecoles(y.d) :
             \/ e \in Ecoles(x.d)
             \/ y.d.ecoles[e] = [nom |-> F[i].ecole, code |-> F[i].code]
    BY <1>5
  <2> HIDE DEF y
  <2>2. i - 1 \in 0..n /\ i \in 0..n  BY <1>1
  <2>3. Ok(x, i - 1)  BY <1>6, <2>2
  <2>4. Ok(y, i)
    <3> SUFFICES ASSUME ~y.erreur, NamesOnce(y.d), NEW j \in 1..i
                 PROVE  Absorbed(y.d, F[j])
      OBVIOUS
    <3>1. CASE j = i  BY <2>1, <3>1
    <3>2. CASE j # i
      <4>1. j \in 1..(i - 1) /\ j \in DOMAIN F /\ i \in DOMAIN F  BY <1>1, <3>2
      <4>2. ~x.erreur  BY <2>1 DEF Tallied
      <4>3. NamesOnce(x.d)  BY <2>1 DEF NamesOnce, Grows, Ecoles
      <4>4. Absorbed(x.d, F[j])  BY <2>3, <4>1, <4>2, <4>3
      <4>5. F[j].code # NULL /\ F[j].code = F[i].code => F[j].ecole = F[i].ecole
        BY <4>1 DEF CodesUnivoques
      <4>6. \A e \in Ecoles(y.d) :
              \/ e \in Ecoles(x.d)
              \/ F[j].code # NULL /\ y.d.ecoles[e].code = F[j].code
                   => y.d.ecoles[e].nom = F[j].ecole
        BY <2>1, <4>5
      <4>7. Coherent(x.d) /\ Coherent(y.d)  BY <1>2, <2>1
      <4> DEFINE l == F[j]
      <4> HIDE DEF l, St, T, Ok
      <4>8. Absorbed(y.d, l)  BY <2>1, <4>4, <4>6, <4>7, AbsorbedLater DEF l
      <4>9. QED  BY <4>8 DEF l
    <3>3. QED  BY <3>1, <3>2
  <2>5. y \in T[i]  BY <2>1, <2>2, <2>4
  <2>6. QED  BY <2>5 DEF y
<1>7. \A x \in St, i \in 1..n : ImportLigne(x, F[i], ordre) \in St  BY <1>5
<1>8. \A i \in 1..n : \A x \in St : x \in T[i - 1] => ImportLigne(x, F[i], ordre) \in T[i]
  BY <1>6
<1>9. z \in T[n]
  <2> HIDE DEF St, T, b, n
  <2>1. QED  BY <1>1, <1>3, <1>4, <1>7, <1>8, WorkbookFold
<1> HIDE DEF z
<1>10. z \in St /\ Ok(z, n)  BY <1>1, <1>9
<1>11. Import(d, F, ordre) = [d |-> IF z.echec THEN d ELSE z.d, erreur |-> z.erreur,
                              echec |-> z.echec]
  BY Zenon DEF Import, Workbook, z
<1>12. ~z.erreur => ~z.echec  BY <1>10 DEF Reported
<1>13. QED  BY <1>1, <1>10, <1>11, <1>12

-----------------------------------------------------------------------------
(* An export imported *)

\* The numbers up to k that are in a set, in increasing order.
LEMMA Increasing ==
  ASSUME NEW n \in Nat, NEW S \in SUBSET (1..n)
  PROVE  \E f \in [1..Cardinality(S) -> S] :
           \A i, j \in 1..Cardinality(S) : i < j => f[i] < f[j]
<1> DEFINE R(k) == S \cap (1..k)
           Ok(k) == \E f \in [1..Cardinality(R(k)) -> R(k)] :
                      \A i, j \in 1..Cardinality(R(k)) : i < j => f[i] < f[j]
           T == {k \in 0..n : Ok(k)}
<1>1. \A k \in 0..n : IsFiniteSet(R(k)) /\ Cardinality(R(k)) \in Nat
  <2> SUFFICES ASSUME NEW k \in 0..n PROVE IsFiniteSet(R(k)) /\ Cardinality(R(k)) \in Nat
    OBVIOUS
  <2>1. IsFiniteSet(1..k)  BY FS_Interval
  <2>2. IsFiniteSet(R(k))  BY <2>1, FS_Subset
  <2>3. QED  BY <2>2, FS_CardinalityType
<1>2. 0 \in T
  <2>1. R(0) = {} /\ Cardinality(R(0)) = 0  BY FS_EmptySet
  <2> HIDE DEF R
  <2>2. [i \in 1..0 |-> i] \in [1..0 -> R(0)]  OBVIOUS
  <2>3. Ok(0)  BY <2>1, <2>2
  <2> HIDE DEF Ok
  <2>4. QED  BY <2>3
<1>3. ASSUME NEW k \in 1..n, k - 1 \in T
      PROVE  k \in T
  <2> DEFINE m == Cardinality(R(k - 1))
  <2>1. PICK f \in [1..m -> R(k - 1)] : \A i, j \in 1..m : i < j => f[i] < f[j]
    BY <1>3
  <2>2. m \in Nat /\ k - 1 \in 0..n /\ k \in 0..n /\ IsFiniteSet(R(k - 1))  BY <1>1
  <2>3. CASE k \notin S
    <3>1. R(k) = R(k - 1)  BY <2>3
    <3> HIDE DEF R
    <3>2. Ok(k)  BY <2>1, <3>1
    <3>3. QED  BY <2>2, <3>2
  <2>4. CASE k \in S
    <3>1. /\ R(k) = R(k - 1) \cup {k} /\ k \notin R(k - 1)
          /\ \A x \in R(k - 1) : x < k /\ x \in Nat
      BY <2>2, <2>4
    <3> DEFINE p == m + 1
               g == [i \in 1..p |-> IF i = p THEN k ELSE f[i]]
    <3>2. Cardinality(R(k)) = p
      <4> HIDE DEF R
      <4>1. QED  BY <2>2, <3>1, FS_AddElement
    <3> HIDE DEF R, m
    <3>3. \A i \in 1..p : i # p => i \in 1..m  BY <2>2
    <3>4. g \in [1..p -> R(k)]  BY <2>1, <3>1, <3>3
    <3>5. ASSUME NEW i \in 1..p, NEW j \in 1..p, i < j
          PROVE  g[i] < g[j]
      <4>1. i # p /\ i \in 1..m /\ g[i] = f[i] /\ f[i] \in R(k - 1)
        BY <2>1, <2>2, <3>3, <3>5
      <4>2. CASE j = p  BY <3>1, <4>1, <4>2
      <4>3. CASE j # p
        <5>1. j \in 1..m /\ g[j] = f[j]  BY <3>3, <4>3
        <5>2. QED  BY <2>1, <3>5, <4>1, <5>1
      <4>4. QED  BY <4>2, <4>3
    <3> HIDE DEF g
    <3>6. Ok(k)  BY <3>2, <3>4, <3>5
    <3>7. QED  BY <2>2, <3>6
  <2>5. QED  BY <2>3, <2>4
<1>4. n \in T
  <2> HIDE DEF T
  <2>1. \A k \in 1..n : k - 1 \in T => k \in T  BY <1>3
  <2>2. \A k \in 0..n : k \in T  BY <1>2, <2>1, Induction
  <2>3. QED  BY <2>2
<1>5. R(n) = S  OBVIOUS
<1> HIDE DEF R
<1>6. QED  BY <1>4, <1>5

\* A SELECT lists some of the rows, each once.
LEMMA ListeIn ==
  ASSUME NEW n \in Nat, NEW S \in SUBSET (1..n), NEW ordre
  PROVE  /\ Liste(S, ordre) \in SetToSeqs(S) /\ Cardinality(S) \in Nat
         /\ Liste(S, ordre) \in [1..Cardinality(S) -> S]
<1> DEFINE m == Cardinality(S)
           Rises(s) == \A i, j \in 1..m : i < j => s[i] < s[j]
           Falls(s) == \A i, j \in 1..m : i < j => s[j] < s[i]
<1>1. m \in Nat
  <2>1. IsFiniteSet(1..n)  BY FS_Interval
  <2>2. IsFiniteSet(S)  BY <2>1, FS_Subset
  <2>3. QED  BY <2>2, FS_CardinalityType
<1>2. PICK f \in [1..m -> S] : Rises(f)  BY Increasing
<1> HIDE DEF m
<1> DEFINE g == [i \in 1..m |-> f[m + 1 - i]]
<1>3. g \in [1..m -> S] /\ Falls(g)
  <2>1. \A i \in 1..m : m + 1 - i \in 1..m  BY <1>1
  <2>2. g \in [1..m -> S]  BY <2>1
  <2>3. ASSUME NEW i \in 1..m, NEW j \in 1..m, i < j PROVE g[j] < g[i]
    <3>1. m + 1 - j < m + 1 - i  BY <1>1, <2>3
    <3>2. QED  BY <1>2, <2>1, <3>1
  <2>4. QED  BY <2>2, <2>3
<1> HIDE DEF g
<1>4. \A s \in [1..m -> S] : Rises(s) \/ Falls(s) => s \in SetToSeqs(S)
  <2> SUFFICES ASSUME NEW s \in [1..m -> S], Rises(s) \/ Falls(s),
                      NEW i \in 1..m, NEW j \in 1..m, i # j
               PROVE  s[i] # s[j]
    BY DEF SetToSeqs, m
  <2>1. s[i] \in S /\ s[j] \in S /\ S \subseteq Nat
    <3> HIDE DEF Rises, Falls
    <3>1. QED  OBVIOUS
  <2>2. i < j \/ j < i  BY <1>1
  <2>3. s[i] < s[j] \/ s[j] < s[i]  BY <2>2
  <2> HIDE DEF Rises, Falls
  <2>4. s[i] \in Nat /\ s[j] \in Nat  BY <2>1
  <2>5. QED  BY <2>3, <2>4
<1>5. \E s \in SetToSeqs(S) :
        \A i, j \in DOMAIN s : i < j => IF ordre = "asc" THEN s[i] < s[j] ELSE s[j] < s[i]
  <2>1. CASE ordre = "asc"  BY <1>2, <1>4, <2>1
  <2>2. CASE ordre # "asc"  BY <1>3, <1>4, <2>2
  <2>3. QED  BY <2>1, <2>2
<1>6. Liste(S, ordre) \in SetToSeqs(S)  BY <1>5 DEF Liste
<1>7. Liste(S, ordre) \in [1..m -> S]  BY <1>6 DEF SetToSeqs, m
<1>8. QED  BY <1>1, <1>6, <1>7 DEF m

\* The tutor an exported pupil is written with is one of the school.
LEMMA TuteurPourIs ==
  ASSUME NEW d \in Base, NEW p, NEW ordre
  PROVE  LET t == TuteurPour(d, p, ordre)
         IN \/ t = NULL
            \/ /\ t \in Comptes(d) /\ d.comptes[t].role = "enseignant"
               /\ d.comptes[t].ecole = p.ecole
<1> DEFINE tuteurs == {c \in Comptes(d) : d.comptes[c].role = "enseignant"
                                          /\ d.comptes[c].ecole = p.ecole}
           siens == {c \in tuteurs : p.classe \in d.comptes[c].classes}
           t == TuteurPour(d, p, ordre)
<1>1. Len(d.comptes) \in Nat /\ tuteurs \subseteq 1..Len(d.comptes)  BY RowsOf
<1>2. CASE siens # {}
  <2>1. siens \subseteq 1..Len(d.comptes)  BY <1>1
  <2>2. t = Premier(siens, ordre)  BY <1>2 DEF TuteurPour
  <2> HIDE DEF siens, t
  <2>3. t \in siens  BY <1>1, <1>2, <2>1, <2>2, DernierIn
  <2>4. QED  BY <2>3 DEF siens, t
<1>3. CASE siens = {} /\ Cardinality(tuteurs) = 1
  <2>1. t = CHOOSE c \in tuteurs : TRUE  BY <1>3 DEF TuteurPour
  <2> HIDE DEF t
  <2>2. tuteurs # {}
    <3> HIDE DEF tuteurs
    <3>1. QED  BY <1>3, FS_EmptySet
  <2>3. t \in tuteurs  BY <2>1, <2>2
  <2>4. QED  BY <2>3 DEF t
<1>4. CASE siens = {} /\ Cardinality(tuteurs) # 1
  <2>1. t = NULL  BY <1>4 DEF TuteurPour
  <2>2. QED  BY <2>1
<1>5. QED  BY <1>2, <1>3, <1>4

\* The row of a pupil is a row, of the pupil's school, with supervisors and a tutor of it.
LEMMA ExportLigneIs ==
  ASSUME NEW d, Coherent(d), NEW p \in d.eleves, p.ecole # NULL, NEW ordre
  PROVE  LET l == ExportLigne(d, p, ordre)
         IN /\ l \in Ligne /\ p.ecole \in Ecoles(d)
            /\ l.ecole = d.ecoles[p.ecole].nom /\ l.code = d.ecoles[p.ecole].code
            /\ \A i \in 1..Len(l.superviseurs) : \E c \in Comptes(d) :
                 /\ d.comptes[c].role = "superviseur" /\ d.comptes[c].ecole = p.ecole
                 /\ d.comptes[c].nom = l.superviseurs[i]
            /\ \/ l.tuteur = NULL
               \/ \E c \in Comptes(d) :
                    /\ d.comptes[c].role = "enseignant" /\ d.comptes[c].ecole = p.ecole
                    /\ d.comptes[c].nom = l.tuteur
            /\ l.classe = p.classe /\ l.eleve = p.nom /\ l.codeEleve = p.code
<1> DEFINE S == SuperviseursDe(d, p.ecole)
           m == Cardinality(S)
           sups == Liste(S, ordre)
           t == TuteurPour(d, p, ordre)
           stored(tel) == IF tel = PROVISOIRE THEN NULL ELSE tel
           names == [i \in DOMAIN sups |-> d.comptes[sups[i]].nom]
           phone == IF sups = <<>> THEN NULL ELSE stored(d.comptes[sups[1]].tel)
           tutor == IF t = NULL THEN NULL ELSE d.comptes[t].nom
           number == IF t = NULL THEN NULL ELSE stored(d.comptes[t].tel)
           l == ExportLigne(d, p, ordre)
<1>1. d \in Base /\ p \in Pupil /\ p.ecole \in Ecoles(d)
  BY RowsOf DEF Coherent, Refs
<1>2. /\ S \subseteq Comptes(d) /\ S \in SUBSET (1..Len(d.comptes)) /\ Len(d.comptes) \in Nat
      /\ \A c \in S : d.comptes[c].role = "superviseur" /\ d.comptes[c].ecole = p.ecole
  BY <1>1, RowsOf DEF SuperviseursDe
<1>3. \A c \in Comptes(d) : /\ d.comptes[c].nom \in Personnes
                            /\ stored(d.comptes[c].tel) \in Telephones \cup {NULL}
  BY <1>1, RowsOf DEF Compte
<1> HIDE DEF S
<1>4. m \in Nat /\ sups \in [1..m -> S]  BY <1>2, ListeIn
<1> HIDE DEF m, sups, stored
<1>5. /\ names \in Seq(Personnes) /\ Len(names) = m
      /\ \A i \in 1..m : sups[i] \in Comptes(d) /\ names[i] = d.comptes[sups[i]].nom
  <2>1. \A i \in 1..m : sups[i] \in Comptes(d) /\ d.comptes[sups[i]].nom \in Personnes
    BY <1>2, <1>3, <1>4
  <2>2. names \in [1..m -> Personnes]  BY <1>4, <2>1
  <2>3. QED  BY <1>4, <2>1, <2>2
<1>6. phone \in Telephones \cup {NULL}
  <2>1. CASE m = 0  BY <1>4, <2>1
  <2>2. CASE m # 0
    <3>1. sups[1] \in Comptes(d)  BY <1>4, <1>5, <2>2
    <3>2. QED  BY <1>3, <3>1
  <2>3. QED  BY <2>1, <2>2
<1>7. \/ t = NULL
      \/ t \in Comptes(d) /\ d.comptes[t].role = "enseignant" /\ d.comptes[t].ecole = p.ecole
  BY <1>1, TuteurPourIs
<1> HIDE DEF t
<1>8. tutor \in Personnes \cup {NULL} /\ number \in Telephones \cup {NULL}
  BY <1>3, <1>7
<1>9. d.ecoles[p.ecole].nom \in Noms /\ d.ecoles[p.ecole].code \in Codes \cup {NULL}
  BY <1>1, RowsOf DEF Ecole
<1>10. p.classe \in Classes /\ p.nom \in Eleves /\ p.code \in CodesEleve \cup {NULL}
  BY <1>1 DEF Pupil
<1>11. l = [ecole |-> d.ecoles[p.ecole].nom, code |-> d.ecoles[p.ecole].code,
            superviseurs |-> names, telSuperviseur |-> phone,
            tuteur |-> tutor, telTuteur |-> number,
            classe |-> p.classe, eleve |-> p.nom, codeEleve |-> p.code]
  BY Zenon DEF ExportLigne, S, sups, t, stored
<1>12. \A i \in 1..m : \E c \in Comptes(d) :
         /\ d.comptes[c].role = "superviseur" /\ d.comptes[c].ecole = p.ecole
         /\ d.comptes[c].nom = names[i]
  BY <1>2, <1>4, <1>5
<1>13. \/ tutor = NULL
       \/ \E c \in Comptes(d) :
            /\ d.comptes[c].role = "enseignant" /\ d.comptes[c].ecole = p.ecole
            /\ d.comptes[c].nom = tutor
  BY <1>7
<1> HIDE DEF names, phone, tutor, number, l
<1>14. l \in Ligne  BY <1>5, <1>6, <1>8, <1>9, <1>10, <1>11 DEF Ligne
<1>15. /\ l.ecole = d.ecoles[p.ecole].nom /\ l.code = d.ecoles[p.ecole].code
       /\ l.superviseurs = names /\ l.tuteur = tutor
       /\ l.classe = p.classe /\ l.eleve = p.nom /\ l.codeEleve = p.code
  BY <1>11
<1>16. QED  BY <1>1, <1>5, <1>12, <1>13, <1>14, <1>15 DEF l

\* The classes the pupils are in, and those of a school.
Enrolled(d) ==
  {[ecole |-> p.ecole, nom |-> p.classe] : p \in {p \in d.eleves : p.ecole # NULL}}

Attended(d, ecole) == {k.nom : k \in {k \in Enrolled(d) : k.ecole = ecole}}

\* y is d with classes more, which pupils are in.
Enriched(d, y) ==
  /\ y.ecoles = d.ecoles /\ y.eleves = d.eleves
  /\ DOMAIN y.comptes = DOMAIN d.comptes /\ Comptes(y) = Comptes(d)
  /\ d.classes \subseteq y.classes /\ y.classes \subseteq d.classes \cup Enrolled(d)
  /\ \A c \in Comptes(d) : \E K \in SUBSET Attended(d, d.comptes[c].ecole) :
       y.comptes[c] = [d.comptes[c] EXCEPT !.classes = @ \cup K]

\* The row at hand has not failed, nor any flush.
Clean(st) == st.saute = FALSE /\ st.echec = FALSE

\* Tables are enriched with nothing.
LEMMA EnrichedSelf ==
  ASSUME NEW d \in Base
  PROVE  Enriched(d, d)
<1>1. ASSUME NEW c \in Comptes(d)
      PROVE  \E K \in SUBSET Attended(d, d.comptes[c].ecole) :
               d.comptes[c] = [d.comptes[c] EXCEPT !.classes = @ \cup K]
  <2> DEFINE r == d.comptes[c]
             K == {}
  <2>1. r \in Compte  BY RowsOf
  <2> HIDE DEF r
  <2>2. r.classes \cup K = r.classes  OBVIOUS
  <2> DEFINE k == r.classes \cup K
             A == Nat \cup {NULL}  B == SUBSET Classes  N == Telephones \cup {NULL, PROVISOIRE}
  <2>3. r \in [nom : Personnes, role : Roles, ecole : A, classes : B, tel : N]
    BY <2>1 DEF Compte
  <2>4. k = r.classes  BY <2>2
  <2> HIDE DEF A, B, N, k
  <2>5. [r EXCEPT !.classes = k] = r  BY <2>3, <2>4
  <2>6. [r EXCEPT !.classes = @ \cup K] = r  BY <2>5 DEF k
  <2>7. QED  BY <2>6 DEF r
<1>2. QED  BY <1>1 DEF Enriched

\* Enriched tables tell schools and accounts apart as before.
LEMMA EnrichedKeeps ==
  ASSUME NEW d \in Base, NEW y, Enriched(d, y)
  PROVE  /\ Ecoles(y) = Ecoles(d) /\ Comptes(y) = Comptes(d)
         /\ \A c \in Comptes(d) :
              /\ y.comptes[c].nom = d.comptes[c].nom
              /\ y.comptes[c].role = d.comptes[c].role
              /\ y.comptes[c].ecole = d.comptes[c].ecole
         /\ NamesOnce(d) => NamesOnce(y)
         /\ AccountsOnce(d) => AccountsOnce(y)
<1>1. Ecoles(y) = Ecoles(d) /\ Comptes(y) = Comptes(d) /\ y.ecoles = d.ecoles
  BY DEF Enriched, Ecoles
<1>2. ASSUME NEW c \in Comptes(d)
      PROVE  /\ y.comptes[c].nom = d.comptes[c].nom
             /\ y.comptes[c].role = d.comptes[c].role
             /\ y.comptes[c].ecole = d.comptes[c].ecole
  <2>1. PICK K : y.comptes[c] = [d.comptes[c] EXCEPT !.classes = @ \cup K]
    BY DEF Enriched
  <2>2. d.comptes[c] \in Compte  BY RowsOf
  <2>3. QED  BY <2>1, <2>2 DEF Compte
<1>3. QED  BY <1>1, <1>2 DEF NamesOnce, AccountsOnce

\* What AjouterClasse writes.
LEMMA ClassGiven ==
  ASSUME NEW st \in Etat, NEW c \in Comptes(st.d), NEW classe
  PROVE  LET y == AjouterClasse(st, c, classe)
             r == st.d.comptes[c]
         IN /\ y.d.ecoles = st.d.ecoles /\ y.d.classes = st.d.classes
            /\ y.d.eleves = st.d.eleves
            /\ DOMAIN y.d.comptes = DOMAIN st.d.comptes
            /\ \A b \in DOMAIN st.d.comptes : b # c => y.d.comptes[b] = st.d.comptes[b]
            /\ y.d.comptes[c] = [r EXCEPT !.classes = r.classes \cup {classe}]
            /\ Clean(st) => Clean(y)
            /\ y.erreur = st.erreur
<1> DEFINE r == st.d.comptes[c]
           account == [r EXCEPT !.classes = r.classes \cup {classe}]
           u == [st.d.comptes EXCEPT ![c] = account]
           t == [st.d EXCEPT !.comptes = u]
           y == AjouterClasse(st, c, classe)
<1>1. st.d \in Base /\ c \in DOMAIN st.d.comptes
  BY DEF Etat, Comptes
<1>2. y = [st EXCEPT !.d = t]  BY <1>1 DEF AjouterClasse, Etat, Base
<1> HIDE DEF y, account
<1>3. /\ DOMAIN u = DOMAIN st.d.comptes /\ u[c] = account
      /\ \A b \in DOMAIN st.d.comptes : b # c => u[b] = st.d.comptes[b]
  BY <1>1
<1> HIDE DEF u
<1>4. t = [ecoles |-> st.d.ecoles, comptes |-> u, classes |-> st.d.classes,
           eleves |-> st.d.eleves]
  BY <1>1, TableReplaced
<1>5. t.ecoles = st.d.ecoles /\ t.comptes = u /\ t.classes = st.d.classes
      /\ t.eleves = st.d.eleves
  BY <1>4
<1> HIDE DEF t
<1>6. y = [d |-> t, orphelins |-> st.orphelins,
           erreur |-> st.erreur, saute |-> st.saute, echec |-> st.echec]
  BY <1>2, OtherTables
<1>7. y.d = t /\ y.erreur = st.erreur /\ y.saute = st.saute /\ y.echec = st.echec
  BY <1>6
<1>8. QED  BY <1>3, <1>5, <1>7 DEF Clean, y, account

\* Classes given to an account twice.
LEMMA GivenTwice ==
  ASSUME NEW r \in Compte, NEW K, NEW k, NEW a,
         a = [r EXCEPT !.classes = r.classes \cup K]
  PROVE  [a EXCEPT !.classes = a.classes \cup {k}]
           = [r EXCEPT !.classes = r.classes \cup (K \cup {k})]
<1> DEFINE A == Nat \cup {NULL}  B == SUBSET Classes  N == Telephones \cup {NULL, PROVISOIRE}
           u == r.classes \cup K
           v == u \cup {k}
<1>1. r \in [nom : Personnes, role : Roles, ecole : A, classes : B, tel : N]
  BY DEF Compte
<1>2. v = r.classes \cup (K \cup {k})  OBVIOUS
<1>3. a = [r EXCEPT !.classes = u]  OBVIOUS
<1> HIDE DEF A, B, N, u
<1>4. a.classes = u  BY <1>1, <1>3
<1>5. a.classes \cup {k} = v  BY <1>4
<1> HIDE DEF v
<1>6. [a EXCEPT !.classes = v] = [r EXCEPT !.classes = v]  BY <1>1, <1>3
<1>7. QED  BY <1>2, <1>5, <1>6

\* A class more of a tutor whose pupils are in it.
LEMMA TutorEnriched ==
  ASSUME NEW d \in Base, NEW a, Enriched(d, a), NEW t \in Comptes(d),
         NEW k \in Attended(d, d.comptes[t].ecole), NEW b,
         b.ecoles = a.ecoles, b.classes = a.classes, b.eleves = a.eleves,
         DOMAIN b.comptes = DOMAIN a.comptes, t \in Comptes(b),
         \A c \in DOMAIN a.comptes : c # t => b.comptes[c] = a.comptes[c],
         b.comptes[t] = [a.comptes[t] EXCEPT !.classes = a.comptes[t].classes \cup {k}]
  PROVE  Enriched(d, b)
<1>1. DOMAIN a.comptes = DOMAIN d.comptes /\ Comptes(a) = Comptes(d)  BY DEF Enriched
<1>2. Comptes(b) = Comptes(d)
  <2>1. \A c \in DOMAIN a.comptes : c # t => (b.comptes[c] # NULL <=> a.comptes[c] # NULL)
    OBVIOUS
  <2>2. QED  BY <1>1, <2>1 DEF Comptes
<1>3. ASSUME NEW c \in Comptes(d)
      PROVE  \E K \in SUBSET Attended(d, d.comptes[c].ecole) :
               b.comptes[c] = [d.comptes[c] EXCEPT !.classes = @ \cup K]
  <2>1. PICK K \in SUBSET Attended(d, d.comptes[c].ecole) :
          a.comptes[c] = [d.comptes[c] EXCEPT !.classes = @ \cup K]
    BY DEF Enriched
  <2>2. CASE c = t
    <3>1. d.comptes[t] \in Compte  BY RowsOf
    <3> DEFINE r == d.comptes[t]
               s == a.comptes[t]
    <3>2. b.comptes[t] = [r EXCEPT !.classes = r.classes \cup (K \cup {k})]
      <4>1. s = [r EXCEPT !.classes = r.classes \cup K]  BY <2>1, <2>2
      <4>2. b.comptes[t] = [s EXCEPT !.classes = s.classes \cup {k}]  OBVIOUS
      <4>3. r \in Compte  BY <3>1
      <4> HIDE DEF r, s
      <4>4. QED  BY <4>1, <4>2, <4>3, GivenTwice
    <3>3. K \cup {k} \in SUBSET Attended(d, d.comptes[t].ecole)  BY <2>2
    <3>4. QED  BY <2>2, <3>2, <3>3
  <2>3. CASE c # t
    <3>1. c \in DOMAIN a.comptes  BY <1>1 DEF Comptes
    <3>2. b.comptes[c] = a.comptes[c]  BY <2>3, <3>1
    <3>3. QED  BY <2>1, <3>2
  <2>4. QED  BY <2>2, <2>3
<1>4. QED  BY <1>1, <1>2, <1>3 DEF Enriched

\* A row with a pupil that is known registers the class.
LEMMA ClassRegistered ==
  ASSUME NEW st \in Etat, Clean(st), NEW l, NEW ordre,
         EleveConnu(st.d, EcoleDe(st.d, l, ordre), l)
  PROVE  LET y == EtapeClasseEleve(st, l, ordre)
         IN /\ y.d.ecoles = st.d.ecoles /\ y.d.comptes = st.d.comptes
            /\ y.d.eleves = st.d.eleves
            /\ y.d.classes = st.d.classes
                 \cup {[ecole |-> EcoleDe(st.d, l, ordre), nom |-> l.classe]}
            /\ Clean(y) /\ y.erreur = st.erreur
<1> DEFINE ecole == EcoleDe(st.d, l, ordre)
           classe == [ecole |-> ecole, nom |-> l.classe]
           pupil == [ecole |-> ecole, classe |-> l.classe, nom |-> l.eleve,
                     code |-> l.codeEleve]
           k == st.d.classes \cup {classe}
           p == st.d.eleves
           t == [st.d EXCEPT !.classes = k, !.eleves = p]
           y == EtapeClasseEleve(st, l, ordre)
<1>1. st.d \in Base /\ ~st.saute  BY DEF Etat, Clean
<1>2. y = [st EXCEPT !.d.classes = @ \cup {classe},
                     !.d.eleves = IF EleveConnu(st.d, ecole, l) THEN @ ELSE @ \cup {pupil}]
  BY <1>1 DEF EtapeClasseEleve
<1> HIDE DEF ecole, classe, pupil, y
<1>3. y = [st EXCEPT !.d = t]
  <2>1. EleveConnu(st.d, ecole, l)  BY DEF ecole
  <2>2. QED  BY <1>1, <1>2, <2>1 DEF Etat, Base
<1> HIDE DEF k, p
<1>4. t = [ecoles |-> st.d.ecoles, comptes |-> st.d.comptes, classes |-> k, eleves |-> p]
  BY <1>1, TwoTables
<1>5. t.ecoles = st.d.ecoles /\ t.comptes = st.d.comptes /\ t.classes = k /\ t.eleves = p
  BY <1>4
<1> HIDE DEF t
<1>6. y = [d |-> t, orphelins |-> st.orphelins,
           erreur |-> st.erreur, saute |-> st.saute, echec |-> st.echec]
  BY <1>3, OtherTables
<1>7. y.d = t /\ y.erreur = st.erreur /\ y.saute = st.saute /\ y.echec = st.echec
  BY <1>6
<1>8. QED  BY <1>5, <1>7 DEF Clean, y, k, p, classe, ecole

\* The row of a pupil registers the class of the pupil, and no more than classes.
LEMMA ExportRow ==
  ASSUME NEW d, Coherent(d), NamesOnce(d), AccountsOnce(d),
         NEW x, Sain(x), Clean(x), Enriched(d, x.d),
         NEW p \in d.eleves, p.ecole # NULL, NEW ordre, NEW autre
  PROVE  LET y == ImportLigne(x, ExportLigne(d, p, ordre), autre)
         IN /\ Sain(y) /\ Clean(y) /\ y.erreur = x.erreur /\ Enriched(d, y.d)
            /\ x.d.classes \subseteq y.d.classes
            /\ [ecole |-> p.ecole, nom |-> p.classe] \in y.d.classes
<1> DEFINE l == ExportLigne(d, p, ordre)
           e == p.ecole
           y == ImportLigne(x, l, autre)
           z == EtapeTuteur(x, l, autre)
           new == [ecole |-> e, nom |-> p.classe]
<1>1. /\ l \in Ligne /\ e \in Ecoles(d)
      /\ l.ecole = d.ecoles[e].nom /\ l.code = d.ecoles[e].code
      /\ \A i \in 1..Len(l.superviseurs) : \E c \in Comptes(d) :
           /\ d.comptes[c].role = "superviseur" /\ d.comptes[c].ecole = e
           /\ d.comptes[c].nom = l.superviseurs[i]
      /\ \/ l.tuteur = NULL
         \/ \E c \in Comptes(d) :
              /\ d.comptes[c].role = "enseignant" /\ d.comptes[c].ecole = e
              /\ d.comptes[c].nom = l.tuteur
      /\ l.classe = p.classe /\ l.eleve = p.nom /\ l.codeEleve = p.code
  BY ExportLigneIs
<1> HIDE DEF l
<1>2. x \in Etat /\ x.d \in Base /\ CodesOnce(x.d) /\ d \in Base
  BY DEF Sain, Coherent
<1>3. /\ Ecoles(x.d) = Ecoles(d) /\ Comptes(x.d) = Comptes(d)
      /\ \A c \in Comptes(d) : /\ x.d.comptes[c].nom = d.comptes[c].nom
                               /\ x.d.comptes[c].role = d.comptes[c].role
                               /\ x.d.comptes[c].ecole = d.comptes[c].ecole
      /\ NamesOnce(x.d) /\ AccountsOnce(x.d)
  BY <1>2, EnrichedKeeps
<1>4. x.d.ecoles = d.ecoles /\ x.d.eleves = d.eleves  BY DEF Enriched
<1>5. HomeOf(x.d, l, e)  BY <1>1, <1>3, <1>4 DEF HomeOf
<1>6. Known(x.d, l) /\ EcoleDe(x.d, l, autre) = e
  BY <1>2, <1>3, <1>5, OneHome
<1>7. Staffed(x.d, e, l)
  <2> SUFFICES ASSUME NEW i \in 1..Len(l.superviseurs)
               PROVE  DeLEcole(x.d, e, l.superviseurs[i], "superviseur") # {}
    BY DEF Staffed
  <2>1. PICK c \in Comptes(d) :
          /\ d.comptes[c].role = "superviseur" /\ d.comptes[c].ecole = e
          /\ d.comptes[c].nom = l.superviseurs[i]
    BY <1>1
  <2>2. c \in DeLEcole(x.d, e, l.superviseurs[i], "superviseur")
    BY <1>3, <2>1 DEF DeLEcole, Homonymes
  <2>3. QED  BY <2>2
<1>8. [x EXCEPT !.saute = FALSE] = x  BY <1>2, NotLeftOut DEF Clean
<1>9. EtapeEcole(x, l) = x  BY <1>6 DEF EtapeEcole, Known
<1>10. Superviseurs(x, l, autre) = x  BY <1>1, <1>6, <1>7, SuperviseursKnown
<1>11. y = EtapeClasseEleve(z, l, autre)
  <2>1. ~x.echec  BY DEF Clean
  <2>2. y = EtapeClasseEleve(EtapeTuteur(Superviseurs(
              EtapeEcole([x EXCEPT !.saute = FALSE], l), l, autre), l, autre), l, autre)
    <3>1. l.ecole # NULL  BY <1>1, LigneIs, NullIsNoRow
    <3>2. QED  BY <2>1, <3>1, Zenon DEF ImportLigne, Superviseurs
  <2>3. QED  BY <2>2, <1>8, <1>9, <1>10
<1> HIDE DEF y
<1>12. new \in Enrolled(d)  BY DEF Enrolled
<1>13. p.classe \in Attended(d, e)
  <2>1. new.nom = p.classe /\ new.ecole = e  OBVIOUS
  <2>2. QED  BY <1>12, <2>1 DEF Attended
<1> HIDE DEF new
<1>14. /\ Sain(z) /\ Clean(z) /\ z.erreur = x.erreur
       /\ Enriched(d, z.d) /\ z.d.classes = x.d.classes
  <2> DEFINE role == "enseignant"
             ici == DeLEcole(x.d, e, l.tuteur, role)
             t == Dernier(ici, autre)
  <2>1. CASE l.tuteur = NULL
    <3>1. z = x  BY <2>1 DEF EtapeTuteur
    <3>2. QED  BY <3>1
  <2>2. CASE l.tuteur # NULL
    <3>1. PICK c \in Comptes(d) : /\ d.comptes[c].role = role /\ d.comptes[c].ecole = e
                                  /\ d.comptes[c].nom = l.tuteur
      BY <1>1, <2>2
    <3>2. c \in ici  BY <1>3, <3>1 DEF DeLEcole, Homonymes
    <3>3. ici \subseteq Comptes(d) /\ ici \subseteq 1..Len(x.d.comptes)
          /\ Len(x.d.comptes) \in Nat
      BY <1>2, <1>3, RowsOf DEF DeLEcole, Homonymes
    <3>4. z = AjouterClasse(x, t, l.classe)
      BY <1>6, <2>2, <3>2 DEF EtapeTuteur, Clean
    <3>5. t \in ici
      <4> HIDE DEF ici
      <4>1. QED  BY <3>2, <3>3, DernierIn
    <3>6. t \in Comptes(x.d) /\ d.comptes[t].ecole = e /\ t \in Comptes(d)
      BY <1>3, <3>3, <3>5 DEF DeLEcole
    <3> HIDE DEF t, z
    <3>7. Step(x, z) /\ t \in Comptes(z.d)
      <4>1. l.classe \in Classes  BY <1>1, LigneIs
      <4>2. QED  BY <3>4, <3>6, <4>1, AjouterClasseStep
    <3>8. /\ z.d.ecoles = x.d.ecoles /\ z.d.classes = x.d.classes
          /\ z.d.eleves = x.d.eleves
          /\ DOMAIN z.d.comptes = DOMAIN x.d.comptes
          /\ \A b \in DOMAIN x.d.comptes : b # t => z.d.comptes[b] = x.d.comptes[b]
          /\ z.d.comptes[t] = [x.d.comptes[t] EXCEPT
                                 !.classes = x.d.comptes[t].classes \cup {l.classe}]
          /\ Clean(z) /\ z.erreur = x.erreur
      BY <1>2, <3>4, <3>6, ClassGiven
    <3>9. l.classe \in Attended(d, d.comptes[t].ecole)  BY <1>1, <1>13, <3>6
    <3> DEFINE a == x.d  b == z.d  k == l.classe
    <3>10. Enriched(d, b)
      <4>1. /\ d \in Base /\ Enriched(d, a) /\ t \in Comptes(d)
            /\ k \in Attended(d, d.comptes[t].ecole)
            /\ b.ecoles = a.ecoles /\ b.classes = a.classes /\ b.eleves = a.eleves
            /\ DOMAIN b.comptes = DOMAIN a.comptes /\ t \in Comptes(b)
            /\ \A c1 \in DOMAIN a.comptes : c1 # t => b.comptes[c1] = a.comptes[c1]
            /\ b.comptes[t] = [a.comptes[t] EXCEPT !.classes = a.comptes[t].classes \cup {k}]
        BY <1>2, <3>6, <3>7, <3>8, <3>9
      <4> HIDE DEF a, b, k
      <4>2. QED  BY <4>1, TutorEnriched
    <3>11. QED  BY <3>7, <3>8, <3>10 DEF Step
  <2>3. QED  BY <2>1, <2>2
<1> HIDE DEF z
<1>15. z \in Etat /\ z.d.ecoles = d.ecoles /\ z.d.eleves = d.eleves /\ Ecoles(z.d) = Ecoles(d)
  BY <1>14 DEF Sain, Enriched, Ecoles
<1>16. Known(z.d, l) /\ EcoleDe(z.d, l, autre) = e
  <2>1. NamesOnce(z.d) /\ z.d \in Base /\ CodesOnce(z.d)
    BY <1>2, <1>14, EnrichedKeeps DEF Sain, Coherent
  <2>2. HomeOf(z.d, l, e)  BY <1>1, <1>15 DEF HomeOf
  <2>3. QED  BY <2>1, <2>2, OneHome
<1>17. EleveConnu(z.d, EcoleDe(z.d, l, autre), l)
  BY <1>1, <1>15, <1>16 DEF EleveConnu
<1>18. /\ y.d.ecoles = z.d.ecoles /\ y.d.comptes = z.d.comptes
       /\ y.d.eleves = z.d.eleves
       /\ y.d.classes = z.d.classes \cup {new}
       /\ Clean(y) /\ y.erreur = z.erreur
  BY <1>1, <1>11, <1>14, <1>15, <1>16, <1>17, ClassRegistered DEF new
<1>19. Sain(y)  BY <1>1, <1>11, <1>14, <1>16, EtapeClasseEleveStep
<1>20. Enriched(d, y.d)
  <2>1. Comptes(y.d) = Comptes(z.d)  BY <1>18 DEF Comptes
  <2>2. d.classes \subseteq y.d.classes /\ y.d.classes \subseteq d.classes \cup Enrolled(d)
    BY <1>12, <1>14, <1>18 DEF Enriched
  <2>3. \A c \in Comptes(d) : \E K \in SUBSET Attended(d, d.comptes[c].ecole) :
          y.d.comptes[c] = [d.comptes[c] EXCEPT !.classes = @ \cup K]
    <3>1. \A c \in Comptes(d) : \E K \in SUBSET Attended(d, d.comptes[c].ecole) :
            z.d.comptes[c] = [d.comptes[c] EXCEPT !.classes = @ \cup K]
      BY <1>14 DEF Enriched
    <3>2. y.d.comptes = z.d.comptes  BY <1>18
    <3>3. QED  BY <3>1, <3>2, Zenon
  <2>4. /\ y.d.ecoles = d.ecoles /\ y.d.eleves = d.eleves
        /\ DOMAIN y.d.comptes = DOMAIN d.comptes /\ Comptes(y.d) = Comptes(d)
    BY <1>14, <1>18, <2>1 DEF Enriched
  <2>5. QED  BY <2>2, <2>3, <2>4 DEF Enriched
<1>21. QED  BY <1>14, <1>18, <1>19, <1>20 DEF y, l, new

\* The row of a pupil without school is reported, and changes nothing.
LEMMA RowReported ==
  ASSUME NEW x, Sain(x), x.echec = FALSE, NEW l, l.ecole = NULL, NEW ordre
  PROVE  LET y == ImportLigne(x, l, ordre)
         IN Sain(y) /\ y.echec = FALSE /\ y.erreur /\ y.d = x.d
<1>1. x \in Etat  BY DEF Sain
<1>2. ImportLigne(x, l, ordre) = Raise(x)  BY Zenon DEF ImportLigne
<1>3. Sain(Raise(x))  BY FailedStep DEF Step
<1>4. Raise(x).d = x.d /\ Raise(x).echec = x.echec /\ Raise(x).erreur
  BY <1>1 DEF Raise, Etat
<1>5. QED  BY <1>2, <1>3, <1>4

\* The row of any pupil: those of the schools register their class, the others are reported.
LEMMA AnyRow ==
  ASSUME NEW d, Coherent(d), NamesOnce(d), AccountsOnce(d),
         NEW x, Sain(x), x.echec = FALSE, Enriched(d, x.d),
         NEW p \in d.eleves, NEW ordre, NEW autre
  PROVE  LET y == ImportLigne(x, LigneDe(d, p, ordre), autre)
         IN /\ Sain(y) /\ y.echec = FALSE /\ Enriched(d, y.d)
            /\ x.d.classes \subseteq y.d.classes
            /\ p.ecole # NULL => /\ [ecole |-> p.ecole, nom |-> p.classe] \in y.d.classes
                                 /\ y.erreur = x.erreur
            /\ p.ecole = NULL => y.erreur
<1> DEFINE l == LigneDe(d, p, ordre)
           y == ImportLigne(x, l, autre)
           a == [x EXCEPT !.saute = FALSE]
<1>1. CASE p.ecole = NULL
  <2>1. l = LigneSansEcole(p)  BY <1>1 DEF LigneDe
  <2>2. l.ecole = NULL  BY <2>1 DEF LigneSansEcole
  <2> HIDE DEF l
  <2>3. Sain(y) /\ y.echec = FALSE /\ y.erreur /\ y.d = x.d  BY <2>2, RowReported
  <2> HIDE DEF y
  <2>4. QED  BY <1>1, <2>3 DEF y, l
<1>2. CASE p.ecole # NULL
  <2>1. l = ExportLigne(d, p, ordre)  BY <1>2 DEF LigneDe
  <2>2. Sain(a) /\ Clean(a) /\ a.d = x.d /\ a.erreur = x.erreur
    <3>1. Sain(a)  BY FailedStep DEF Step
    <3>2. x \in Etat  BY DEF Sain
    <3>3. a.saute = FALSE /\ a.echec = x.echec /\ a.d = x.d /\ a.erreur = x.erreur
      BY <3>2 DEF Etat
    <3>4. QED  BY <3>1, <3>3 DEF Clean
  <2>3. y = ImportLigne(a, l, autre)
    <3>1. a.echec = FALSE /\ x.echec = FALSE  BY <2>2 DEF Clean
    <3>2. [a EXCEPT !.saute = FALSE] = a
      <4>1. a \in Etat /\ a.saute = FALSE  BY <2>2 DEF Sain, Clean
      <4> HIDE DEF a
      <4>2. QED  BY <4>1, NotLeftOut
    <3>3. l.ecole # NULL
      <4>1. ExportLigne(d, p, ordre) \in Ligne  BY <1>2, ExportLigneIs
      <4>2. QED  BY <2>1, <4>1, LigneIs, NullIsNoRow
    <3> DEFINE rest(w) == EtapeClasseEleve(EtapeTuteur(Superviseurs(EtapeEcole(w, l),
                                             l, autre), l, autre), l, autre)
    <3> HIDE DEF l
    <3>4. y = rest(a)  BY <3>1, <3>3, Zenon DEF ImportLigne, Superviseurs
    <3>5. ImportLigne(a, l, autre) = rest([a EXCEPT !.saute = FALSE])
      <4> HIDE DEF a
      <4>1. QED  BY <3>1, <3>3, Zenon DEF ImportLigne, Superviseurs
    <3> HIDE DEF a, y, rest
    <3>6. QED  BY <3>2, <3>4, <3>5
  <2> HIDE DEF a, l
  <2>4. Enriched(d, a.d)  BY <2>2
  <2> DEFINE w == ImportLigne(a, ExportLigne(d, p, ordre), autre)
  <2>5. /\ Sain(w) /\ Clean(w) /\ w.erreur = a.erreur /\ Enriched(d, w.d)
        /\ a.d.classes \subseteq w.d.classes
        /\ [ecole |-> p.ecole, nom |-> p.classe] \in w.d.classes
    BY <1>2, <2>2, <2>4, ExportRow
  <2>6. y = w  BY <2>1, <2>3
  <2> HIDE DEF w, y
  <2>7. QED  BY <1>2, <2>2, <2>5, <2>6 DEF Clean, y, l
<1>3. QED  BY <1>1, <1>2

\* Importing an export creates no school, account or pupil.
LEMMA ExportAgain ==
  ASSUME NEW d, Coherent(d), PhonesOnce(d), Univoque(d)
  PROVE  ExportCreatesNothing(d)
<1>1. NamesOnce(d) /\ AccountsOnce(d) /\ d \in Base /\ IsFiniteSet(d.eleves)
  BY DEF Univoque, NamesOnce, AccountsOnce, Coherent, PupilsOnce
<1>2. ASSUME NEW ordre \in Ordres, NEW autre \in Ordres, NEW F \in Exports(d, ordre)
      PROVE  LET r == Import(d, F, autre)
             IN /\ r.erreur <=> \E p \in d.eleves : p.ecole = NULL
                /\ Enriched(d, r.d)
                /\ r.d.classes = d.classes \cup Enrolled(d)
  <2> DEFINE n == Cardinality(d.eleves)
             b == Progress(d)
             class(p) == [ecole |-> p.ecole, nom |-> p.classe]
             r == Import(d, F, autre)
  <2>1. PICK s \in SetToSeqs(d.eleves) : F = [i \in DOMAIN s |-> LigneDe(d, s[i], ordre)]
    BY DEF Exports
  <2>2. n \in Nat /\ s \in [1..n -> d.eleves] /\ \A i, j \in 1..n : i # j => s[i] # s[j]
    BY <1>1, <2>1, FS_CardinalityType DEF SetToSeqs
  <2>3. \A p \in d.eleves : \E i \in 1..n : s[i] = p
    <3>1. s \in Injection(1..n, d.eleves)  BY <2>2 DEF Injection, IsInjective
    <3>2. Cardinality(1..n) = n  BY <2>2, FS_Interval
    <3>3. s \in Surjection(1..n, d.eleves)  BY <1>1, <3>1, <3>2, FS_Injection
    <3>4. QED  BY <3>3 DEF Surjection
  <2>4. DOMAIN F = 1..n /\ \A i \in 1..n : F[i] = LigneDe(d, s[i], ordre)
    BY <2>1, <2>2
  <2> HIDE DEF n
  <2> DEFINE seule(j) == s[j].ecole = NULL
             St == {x \in Etat : Sain(x) /\ x.echec = FALSE /\ Enriched(d, x.d)}
             T == [k \in 0..n |->
                     {x \in St : /\ \A j \in 1..k : seule(j) \/ class(s[j]) \in x.d.classes
                                 /\ x.erreur <=> \E j \in 1..k : seule(j)}]
  <2>5. b \in St
    <3>1. Sain(b) /\ b.echec = FALSE /\ b.d = d  BY ProgressSound
    <3> HIDE DEF b
    <3>2. QED  BY <1>1, <3>1, EnrichedSelf DEF Sain
  <2>6. b \in T[0]
    <3>1. b.erreur = FALSE  BY ProgressSound
    <3>2. 0 \in 0..n /\ 1..0 = {}  BY <2>2
    <3> HIDE DEF b, St, class, seule
    <3>3. QED  BY <2>5, <3>1, <3>2
  <2> HIDE DEF b
  <2>7. ASSUME NEW x \in St, NEW i \in 1..n
        PROVE  LET y == ImportLigne(x, F[i], autre)
               IN /\ y \in St /\ x.d.classes \subseteq y.d.classes
                  /\ IF seule(i) THEN y.erreur
                     ELSE class(s[i]) \in y.d.classes /\ y.erreur = x.erreur
    <3> DEFINE y == ImportLigne(x, F[i], autre)
    <3>1. /\ Sain(y) /\ y.echec = FALSE /\ Enriched(d, y.d)
          /\ x.d.classes \subseteq y.d.classes
          /\ IF seule(i) THEN y.erreur
             ELSE class(s[i]) \in y.d.classes /\ y.erreur = x.erreur
      <4> DEFINE p == s[i]
                 u == ImportLigne(x, LigneDe(d, p, ordre), autre)
      <4>1. p \in d.eleves  BY <2>2
      <4>2. y = u  BY <2>4
      <4>3. Sain(x) /\ x.echec = FALSE /\ Enriched(d, x.d)  BY <2>7
      <4> HIDE DEF p
      <4>4. /\ Sain(u) /\ u.echec = FALSE /\ Enriched(d, u.d)
            /\ x.d.classes \subseteq u.d.classes
            /\ p.ecole # NULL => class(p) \in u.d.classes /\ u.erreur = x.erreur
            /\ p.ecole = NULL => u.erreur
        BY <1>1, <4>1, <4>3, AnyRow
      <4> HIDE DEF u, y, class
      <4>5. IF p.ecole = NULL THEN u.erreur
            ELSE class(p) \in u.d.classes /\ u.erreur = x.erreur
        BY <4>4
      <4>6. QED  BY <4>2, <4>4, <4>5 DEF p
    <3> HIDE DEF y
    <3>2. y \in St  BY <3>1 DEF Sain
    <3>3. QED  BY <3>1, <3>2 DEF y
  <2>8. ASSUME NEW i \in 1..n, NEW x \in St, x \in T[i - 1]
        PROVE  ImportLigne(x, F[i], autre) \in T[i]
    <3> DEFINE y == ImportLigne(x, F[i], autre)
    <3>1. /\ y \in St /\ x.d.classes \subseteq y.d.classes
          /\ IF seule(i) THEN y.erreur
             ELSE class(s[i]) \in y.d.classes /\ y.erreur = x.erreur
      BY <2>7
    <3> HIDE DEF y, class, seule
    <3>2. i - 1 \in 0..n /\ i \in 0..n /\ 1..i = 1..(i - 1) \cup {i}  BY <2>2
    <3>3. /\ \A j \in 1..(i - 1) : seule(j) \/ class(s[j]) \in x.d.classes
          /\ x.erreur <=> \E j \in 1..(i - 1) : seule(j)
      BY <2>8, <3>2
    <3>4. \A j \in 1..i : seule(j) \/ class(s[j]) \in y.d.classes
      <4> SUFFICES ASSUME NEW j \in 1..i PROVE seule(j) \/ class(s[j]) \in y.d.classes
        OBVIOUS
      <4>1. CASE j = i  BY <3>1, <4>1
      <4>2. CASE j # i
        <5>1. j \in 1..(i - 1)  BY <3>2, <4>2
        <5>2. QED  BY <3>1, <3>3, <5>1
      <4>3. QED  BY <4>1, <4>2
    <3>5. y.erreur <=> \E j \in 1..i : seule(j)
      <4>1. CASE seule(i)  BY <3>1, <3>2, <4>1
      <4>2. CASE ~seule(i)  BY <3>1, <3>2, <3>3, <4>2
      <4>3. QED  BY <4>1, <4>2
    <3> HIDE DEF St
    <3>6. y \in T[i]  BY <3>1, <3>2, <3>4, <3>5
    <3>7. QED  BY <3>6 DEF y
  <2>9. \A x \in St, i \in 1..n : ImportLigne(x, F[i], autre) \in St  BY <2>7
  <2>10. \A i \in 1..n : \A x \in St : x \in T[i - 1] => ImportLigne(x, F[i], autre) \in T[i]
    BY <2>8
  <2> DEFINE z == Workbook(b, F, autre)
  <2>11. z \in T[n]
    <3> HIDE DEF St, T
    <3>1. QED  BY <2>2, <2>4, <2>5, <2>6, <2>9, <2>10, WorkbookFold
  <2> HIDE DEF z
  <2>12. /\ z \in St /\ \A j \in 1..n : seule(j) \/ class(s[j]) \in z.d.classes
         /\ z.erreur <=> \E j \in 1..n : seule(j)
    <3> HIDE DEF St, class, seule
    <3>1. n \in 0..n  BY <2>2
    <3>2. QED  BY <2>11, <3>1
  <2>13. r = [d |-> IF z.echec THEN d ELSE z.d, erreur |-> z.erreur, echec |-> z.echec]
    BY Zenon DEF Import, Workbook, z, b
  <2> HIDE DEF r
  <2>14. r.d = z.d /\ r.erreur = z.erreur  BY <2>12, <2>13
  <2>15. Enrolled(d) \subseteq z.d.classes
    <3> SUFFICES ASSUME NEW p \in d.eleves, p.ecole # NULL PROVE class(p) \in z.d.classes
      BY DEF Enrolled
    <3>1. PICK i \in 1..n : s[i] = p  BY <2>3
    <3>2. QED  BY <2>12, <3>1
  <2>16. z.d.classes = d.classes \cup Enrolled(d)
    BY <2>12, <2>15 DEF Enriched
  <2>17. r.erreur <=> \E p \in d.eleves : p.ecole = NULL
    BY <2>2, <2>3, <2>12, <2>14
  <2>18. QED  BY <2>12, <2>14, <2>16, <2>17 DEF r
<1>3. QED
  <2> DEFINE classes == {[ecole |-> p.ecole, nom |-> p.classe] :
                           p \in {p \in d.eleves : p.ecole # NULL}}
             here(c) == {k.nom : k \in {k \in classes : k.ecole = d.comptes[c].ecole}}
  <2> SUFFICES ASSUME NEW ordre \in Ordres, NEW autre \in Ordres, NEW F \in Exports(d, ordre)
               PROVE  LET r == Import(d, F, autre)
                      IN /\ r.erreur <=> \E p \in d.eleves : p.ecole = NULL
                         /\ <<r.d.ecoles, r.d.eleves>> = <<d.ecoles, d.eleves>>
                         /\ r.d.classes = d.classes \cup classes
                         /\ DOMAIN r.d.comptes = DOMAIN d.comptes
                         /\ \A c \in Comptes(d) : \E K \in SUBSET here(c) :
                              r.d.comptes[c] = [d.comptes[c] EXCEPT !.classes = @ \cup K]
    BY Zenon DEF ExportCreatesNothing
  <2> DEFINE r == Import(d, F, autre)
  <2>1. /\ r.erreur <=> \E p \in d.eleves : p.ecole = NULL
        /\ Enriched(d, r.d)
        /\ r.d.classes = d.classes \cup Enrolled(d)
    BY <1>2
  <2> HIDE DEF r
  <2>2. classes = Enrolled(d) /\ \A c : here(c) = Attended(d, d.comptes[c].ecole)
    BY DEF Enrolled, Attended
  <2> HIDE DEF classes, here
  <2>3. \A c \in Comptes(d) : \E K \in SUBSET here(c) :
          r.d.comptes[c] = [d.comptes[c] EXCEPT !.classes = @ \cup K]
    BY <2>1, <2>2 DEF Enriched
  <2>4. QED  BY <2>1, <2>2, <2>3 DEF Enriched, r

-----------------------------------------------------------------------------
(* Theorems *)

\* The inductive invariant: sound tables.
DirectoryInv == db \in SoundTables /\ etapes \in 0..MaxEtapes

\* The empty tables are.
LEMMA DirectoryInitHolds == DirectoryInit => DirectoryInv
<1> SUFFICES ASSUME DirectoryInit PROVE DirectoryInv
  OBVIOUS
<1>1. /\ db.ecoles = <<>> /\ db.comptes = <<>> /\ db.classes = {} /\ db.eleves = {}
      /\ etapes = 0
  BY DEF DirectoryInit
<1>2. db \in Base  BY DEF DirectoryInit, Base
<1>3. Ecoles(db) = {} /\ Comptes(db) = {}  BY <1>1 DEF Ecoles, Comptes
<1>4. Refs(db) /\ CodesOnce(db) /\ PupilsOnce(db) /\ PhonesOnce(db)
  BY <1>1, <1>3, FS_EmptySet DEF Refs, CodesOnce, PupilsOnce, PhonesOnce
<1>5. etapes \in 0..MaxEtapes  BY <1>1, DirectoryAssumption
<1>6. QED  BY <1>2, <1>4, <1>5 DEF DirectoryInv, SoundTables, Coherent

\* The workbook.
LEMMA ImportAllHolds ==
  ASSUME db \in SoundTables, NEW F \in Fichiers, ImportAll(F)
  PROVE  /\ db' \in SoundTables /\ Grows(db, db') /\ dernier'.fichier = F
         /\ \A p \in db'.eleves : p \notin db.eleves => \E i \in DOMAIN F : Seen(db', p, F[i])
<1>1. PICK ordre \in Ordres :
        LET r == Import(db, F, ordre)
        IN Save(r.d, [fichier |-> F, erreur |-> r.erreur, echec |-> r.echec])
  BY DEF ImportAll
<1>2. Coherent(db) /\ PhonesOnce(db)  BY DEF SoundTables
<1> DEFINE x == Import(db, F, ordre).d
<1>3. /\ Coherent(x) /\ PhonesOnce(x) /\ Grows(db, x)
      /\ \A p \in x.eleves : p \notin db.eleves => \E i \in DOMAIN F : Seen(x, p, F[i])
  BY <1>2, ImportStep
<1>4. db' = x /\ dernier'.fichier = F  BY <1>1 DEF Save
<1> HIDE DEF x
<1>5. QED  BY <1>3, <1>4 DEF SoundTables, Coherent

\* The lists of schools, classes and teachers.
LEMMA ListsHold ==
  ASSUME db \in SoundTables, NEW F \in Fichiers,
         \/ ImportSchoolsCsv(F) \/ ImportSchools(F) \/ ReimportClasses(F)
         \/ ImportTeachersCsv(F) \/ ImportTeachersXlsx(F) \/ ReimportTeachers(F)
  PROVE  db' \in SoundTables /\ dernier' = NULL
<1>1. CASE ImportSchoolsCsv(F)
  BY <1>1, SchoolsCsvSound, Zenon DEF ImportSchoolsCsv, Save
<1>2. CASE ImportSchools(F)
  BY <1>2, SchoolsSound, Zenon DEF ImportSchools, Save
<1>3. CASE ReimportClasses(F)
  <2>1. PICK ordre \in Ordres : Save(ClassList(db, F, ordre), NULL)
    BY <1>3, Zenon DEF ReimportClasses, ClassList
  <2>2. QED  BY <2>1, ClassesSound, Saved
<1>4. CASE ImportTeachersCsv(F)
  <2>1. \A i \in Inserts(F) : /\ Normal[F[i].telTuteur] # NULL
                              /\ ~TelPris(db, Normal[F[i].telTuteur], 0)
                              /\ \A j \in Inserts(F) :
                                   Normal[F[i].telTuteur] = Normal[F[j].telTuteur] => i = j
    BY <1>4, Zenon DEF ImportTeachersCsv, Inserts
  <2>2. FoldLeft(LAMBDA d, l :
           IF l.tuteur = NULL \/ l.telTuteur = NULL THEN d
           ELSE AddCompte(d, Enseignant(l.tuteur, NULL, {l.classe}, Normal[l.telTuteur])), db, F)
             \in SoundTables
    BY <2>1, TeachersCsvSound, Zenon
  <2>3. QED  BY <1>4, <2>2, Zenon DEF ImportTeachersCsv, Save
<1>5. CASE ImportTeachersXlsx(F)
  <2> DEFINE avec == FoldLeft(LAMBDA d, l : IF l.tuteur = NULL THEN d
                                            ELSE AddIfUnknown(d, l.ecole), db, F)
  <2>1. PICK ordre \in Ordres : Save(TeacherSheet(avec, F, ordre), NULL)
    BY <1>5, Zenon DEF ImportTeachersXlsx, TeacherSheet
  <2>2. avec \in {x \in SoundTables : SchoolsKnown(x, F, Len(F))}  BY TeacherSchools, Zenon
  <2> HIDE DEF avec
  <2>3. QED  BY <2>1, <2>2, TeachersSound, Saved
<1>6. CASE ReimportTeachers(F)
  <2>1. PICK ordre \in Ordres :
          LET d == TeacherList(db, F, ordre)
          IN /\ \A c \in Comptes(d) : ~TelPris(d, d.comptes[c].tel, c)
             /\ Save(d, NULL)
    BY <1>6, Zenon DEF ReimportTeachers, TeacherList
  <2> DEFINE d == TeacherList(db, F, ordre)
  <2>2. d \in {x \in Base : Coherent(x)}  BY ReimportKeeps
  <2> HIDE DEF d
  <2>3. PhonesOnce(d) /\ Save(d, NULL)  BY <2>1 DEF PhonesOnce, d
  <2>4. QED  BY <2>2, <2>3, Saved DEF SoundTables
<1>7. QED  BY <1>1, <1>2, <1>3, <1>4, <1>5, <1>6

\* Every request leaves sound tables, and only the workbook is remembered.
LEMMA Requested ==
  ASSUME db \in SoundTables, DirectoryNext
  PROVE  db' \in SoundTables /\ (dernier' = NULL \/ \E F \in Fichiers : ImportAll(F))
<1>1. CASE \E F \in Fichiers : ImportAll(F)  BY <1>1, ImportAllHolds
<1>2. CASE \E F \in Fichiers :
             \/ ImportSchoolsCsv(F) \/ ImportSchools(F) \/ ReimportClasses(F)
             \/ ImportTeachersCsv(F) \/ ImportTeachersXlsx(F) \/ ReimportTeachers(F)
  BY <1>2, ListsHold
<1>3. CASE \E nom \in Noms : CreateSchool(nom)
  BY <1>3, SchoolSound, Saved DEF CreateSchool
<1>4. CASE \E nom \in Noms, e \in DOMAIN db.ecoles : RenameSchool(e, nom)
  BY <1>4, RenameSchoolSound
<1>5. CASE \E e \in Ecoles(db) : DeleteSchool(e)  BY <1>5, DeleteSchoolSound
<1>6. CASE \E e \in Ecoles(db), c \in Classes : CreateClasse(e, c)
  BY <1>6, CreateClasseSound
<1>7. CASE \E e \in Ecoles(db) \cup {NULL}, c \in Classes, p \in Eleves : CreateEleve(e, c, p)
  BY <1>7, CreateEleveSound
<1>8. CASE \E k \in db.classes : DeleteClasse(k) \/ \E c \in Classes : UpdateClasse(k, c)
  BY <1>8, ClasseChangedSound
<1>9. CASE \E p \in Personnes, role \in Roles, e \in Ecoles(db) \cup {NULL}, t \in Telephones :
             CreateUser(p, role, e, t)
  BY <1>9, CreateUserSound
<1>10. CASE \E c \in Comptes(db) :
              \/ \E e \in Ecoles(db) : UpdateEcole(c, e)
              \/ \E t \in Telephones : UpdateTel(c, t)
              \/ \E K \in SUBSET Classes : UpdateClasses(c, K)
  BY <1>10, UpdateUserSound
<1>11. CASE \E S \in SUBSET Comptes(db) : DeleteUsers(S)  BY <1>11, DeleteUsersSound
<1>12. QED
  BY <1>1, <1>2, <1>3, <1>4, <1>5, <1>6, <1>7, <1>8, <1>9, <1>10, <1>11, Zenon DEF DirectoryNext

\* A request is one more.
LEMMA Counted ==
  ASSUME etapes \in 0..MaxEtapes, DirectoryNext
  PROVE  etapes' \in 0..MaxEtapes
<1>1. etapes < MaxEtapes /\ etapes' = etapes + 1
  BY Zenon DEF DirectoryNext, ImportAll, ImportSchoolsCsv, ImportSchools, ReimportClasses,
     ImportTeachersCsv, ImportTeachersXlsx, ReimportTeachers, CreateSchool, RenameSchool,
     DeleteSchool, CreateClasse, CreateEleve, DeleteClasse, UpdateClasse, CreateUser,
     UpdateEcole, UpdateTel, UpdateClasses, DeleteUsers, Save
<1>2. QED  BY <1>1, DirectoryAssumption

\* Every step keeps the invariant.
LEMMA DirectoryNextHolds == DirectoryInv /\ [DirectoryNext]_directoryVars => DirectoryInv'
<1> SUFFICES ASSUME DirectoryInv, [DirectoryNext]_directoryVars PROVE DirectoryInv'
  OBVIOUS
<1>1. CASE DirectoryNext  BY <1>1, Requested, Counted DEF DirectoryInv
<1>2. CASE UNCHANGED directoryVars  BY <1>2 DEF DirectoryInv, directoryVars
<1>3. QED  BY <1>1, <1>2

\* Whatever the requests and the files, the tables stay sound.
THEOREM DirectoryInvariant == DirectorySpec => []DirectoryInv
BY DirectoryInitHolds, DirectoryNextHolds, PTL DEF DirectorySpec

\* The rows have their types and refer to schools that exist, no two schools have one
\* code, no two pupils with a school and a prenom one place and no two accounts one number.
THEOREM DirectoryTypes == DirectorySpec => []TablesOK
<1>1. DirectoryInv => TablesOK
  <2> SUFFICES ASSUME DirectoryInv PROVE TablesOK
    OBVIOUS
  <2>1. db \in Base /\ Refs(db) /\ CodesOnce(db) /\ PupilsOnce(db) /\ PhonesOnce(db)
    BY DEF DirectoryInv, SoundTables, Coherent
  <2>2. \A e \in Ecoles(db) : db.ecoles[e] \in [nom : Noms, code : Codes \cup {NULL}]
    BY <2>1, RowsOf DEF Ecole
  <2>3. \A e, f \in Ecoles(db) :
          db.ecoles[e].code # NULL /\ db.ecoles[e].code = db.ecoles[f].code => e = f
    BY <2>1 DEF CodesOnce
  <2>4. ASSUME NEW c \in Comptes(db)
        PROVE  /\ db.comptes[c] \in [nom : Personnes, role : Roles,
                                     ecole : Ecoles(db) \cup {NULL},
                                     classes : SUBSET Classes,
                                     tel : Telephones \cup {NULL, PROVISOIRE}]
               /\ ~TelPris(db, db.comptes[c].tel, c)
    <3>1. db.comptes[c] \in Compte /\ db.comptes[c].ecole \in Ecoles(db) \cup {NULL}
      BY <2>1, RowsOf DEF Refs
    <3>2. QED  BY <2>1, <3>1 DEF Compte, PhonesOnce
  <2>5. db.classes \subseteq [ecole : Ecoles(db), nom : Classes]
    BY <2>1, RowsOf DEF Refs, Classe
  <2>6. db.eleves \subseteq [ecole : Ecoles(db) \cup {NULL}, classe : Classes, nom : Eleves,
                             code : CodesEleve \cup {NULL}]
    BY <2>1, RowsOf DEF Refs, Pupil
  <2>7. \A p, q \in db.eleves : MemePlace(p, q) /\ ~Distinct(p) => p = q
    BY <2>1 DEF PupilsOnce
  <2>8. etapes \in 0..MaxEtapes  BY DEF DirectoryInv
  <2>9. QED  BY <2>2, <2>3, <2>4, <2>5, <2>6, <2>7, <2>8 DEF TablesOK
<1>2. QED  BY <1>1, DirectoryInvariant, PTL

\* An import of the workbook, whatever the file and the tables, destroys nothing.
THEOREM ImportDestroysNothing == DirectorySpec => NothingDestroyed
<1> DEFINE A == IsImport =>
       /\ db.classes \subseteq db'.classes /\ db.eleves \subseteq db'.eleves
       /\ \A e \in DOMAIN db.ecoles : db'.ecoles[e] = db.ecoles[e]
       /\ \A c \in Comptes(db) :
            LET avant == db.comptes[c] apres == db'.comptes[c]
            IN /\ avant.classes \subseteq apres.classes
               /\ avant.ecole # NULL => apres.ecole = avant.ecole
               /\ <<avant.nom, avant.role, avant.tel>> = <<apres.nom, apres.role, apres.tel>>
<1>1. ASSUME DirectoryInv, [DirectoryNext]_directoryVars
      PROVE  [A]_directoryVars
  <2>1. CASE UNCHANGED directoryVars  BY <2>1
  <2>2. CASE DirectoryNext /\ dernier' = NULL  BY <2>2 DEF IsImport
  <2>3. CASE \E F \in Fichiers : ImportAll(F)
    <3>1. Grows(db, db')  BY <1>1, <2>3, ImportAllHolds DEF DirectoryInv
    <3>2. A  BY <3>1 DEF Grows
    <3>3. QED  BY <3>2
  <2>4. QED  BY <1>1, <2>1, <2>2, <2>3, Requested DEF DirectoryInv
<1>2. QED  BY <1>1, DirectoryInvariant, PTL DEF DirectorySpec, NothingDestroyed

\* A pupil the workbook creates is one of its rows, and is on the phone of the row's tutor.
THEOREM ImportShowsPupils == DirectorySpec => VisibleToTutor
<1> DEFINE A == IsImport =>
       \A p \in db'.eleves \ db.eleves :
         \E i \in DOMAIN dernier'.fichier :
           LET l == dernier'.fichier[i]
           IN /\ <<l.eleve, l.classe, l.codeEleve>> = <<p.nom, p.classe, p.code>>
              /\ l.tuteur # NULL =>
                   \E c \in DeLEcole(db', p.ecole, l.tuteur, "enseignant") :
                     p.classe \in db'.comptes[c].classes
<1>1. ASSUME DirectoryInv, [DirectoryNext]_directoryVars
      PROVE  [A]_directoryVars
  <2>1. CASE UNCHANGED directoryVars  BY <2>1
  <2>2. CASE DirectoryNext /\ dernier' = NULL  BY <2>2 DEF IsImport
  <2>3. CASE \E F \in Fichiers : ImportAll(F)
    <3>1. PICK F \in Fichiers : ImportAll(F)  BY <2>3
    <3>2. /\ dernier'.fichier = F
          /\ \A p \in db'.eleves : p \notin db.eleves =>
               \E i \in DOMAIN F : Seen(db', p, F[i])
      BY <1>1, <3>1, ImportAllHolds DEF DirectoryInv
    <3>3. A  BY <3>2 DEF Seen, Taught
    <3>4. QED  BY <3>3
  <2>4. QED  BY <1>1, <2>1, <2>2, <2>3, Requested DEF DirectoryInv
<1>2. QED  BY <1>1, DirectoryInvariant, PTL DEF DirectorySpec, VisibleToTutor

\* After an import without error in which a code names one school, every row of the file is
\* in the tables, as long as names tell the schools apart.
Relived ==
  dernier # NULL =>
    /\ dernier.fichier \in Fichiers
    /\ ~dernier.erreur /\ NamesOnce(db) /\ CodesUnivoques(dernier.fichier) =>
         \A i \in DOMAIN dernier.fichier : Absorbed(db, dernier.fichier[i])

\* It holds after an import, and nothing is remembered of another request.
LEMMA RelivedNext == DirectoryInv /\ Relived /\ [DirectoryNext]_directoryVars => Relived'
<1> SUFFICES ASSUME DirectoryInv, Relived, [DirectoryNext]_directoryVars PROVE Relived'
  OBVIOUS
<1>1. CASE UNCHANGED directoryVars
  <2>1. db' = db /\ dernier' = dernier  BY <1>1 DEF directoryVars
  <2>2. QED  BY <2>1 DEF Relived
<1>2. CASE DirectoryNext /\ dernier' = NULL  BY <1>2 DEF Relived
<1>3. CASE \E F \in Fichiers : ImportAll(F)
  <2>1. PICK F \in Fichiers, ordre \in Ordres :
          LET r == Import(db, F, ordre)
          IN Save(r.d, [fichier |-> F, erreur |-> r.erreur, echec |-> r.echec])
    BY <1>3 DEF ImportAll
  <2> DEFINE r == Import(db, F, ordre)
  <2>2. db' = r.d /\ dernier' = [fichier |-> F, erreur |-> r.erreur, echec |-> r.echec]
    BY <2>1 DEF Save
  <2>3. Coherent(db) /\ PhonesOnce(db)  BY DEF DirectoryInv, SoundTables
  <2>4. CodesUnivoques(F) /\ ~r.erreur /\ NamesOnce(r.d) =>
          \A i \in DOMAIN F : Absorbed(r.d, F[i])
    BY <2>3, WorkbookAbsorbed
  <2> HIDE DEF r
  <2>5. dernier'.fichier = F /\ dernier'.erreur = r.erreur  BY <2>2
  <2> DEFINE d == db'  m == dernier'
  <2>6. ~m.erreur /\ NamesOnce(d) /\ CodesUnivoques(m.fichier) =>
          \A i \in DOMAIN m.fichier : Absorbed(d, m.fichier[i])
    BY <2>2, <2>4, <2>5
  <2>7. QED  BY <2>5, <2>6 DEF Relived, NamesOnce, CodesUnivoques, Absorbed
<1>4. QED  BY <1>1, <1>2, <1>3, Requested DEF DirectoryInv

\* A workbook imported again brings nothing, and neither does an export.
THEOREM ImportedTwice == DirectorySpec => []ImportIdempotent
<1>1. DirectoryInv /\ Relived => ImportIdempotent
  <2> SUFFICES ASSUME DirectoryInv, Relived, Univoque(db) PROVE
        /\ dernier # NULL =>
             (~dernier.erreur /\ CodesUnivoques(dernier.fichier) =>
                \A ordre \in Ordres : Import(db, dernier.fichier, ordre).d = db)
        /\ ExportCreatesNothing(db)
    BY DEF ImportIdempotent
  <2>1. Coherent(db) /\ PhonesOnce(db)  BY DEF DirectoryInv, SoundTables
  <2>2. NamesOnce(db)  BY DEF Univoque, NamesOnce
  <2>3. ASSUME dernier # NULL, ~dernier.erreur, CodesUnivoques(dernier.fichier),
               NEW ordre \in Ordres
        PROVE  Import(db, dernier.fichier, ordre).d = db
    <3> DEFINE F == dernier.fichier
    <3>1. F \in Fichiers /\ \A i \in DOMAIN F : Absorbed(db, F[i])
      BY <2>2, <2>3 DEF Relived
    <3> HIDE DEF F
    <3>2. Import(db, F, ordre).d = db  BY <2>1, <3>1, ImportAgain
    <3>3. QED  BY <3>2 DEF F
  <2>4. ExportCreatesNothing(db)  BY <2>1, ExportAgain
  <2>5. QED  BY <2>3, <2>4
<1>2. DirectoryInit => Relived  BY DEF DirectoryInit, Relived
<1>3. QED  BY <1>1, <1>2, RelivedNext, DirectoryInvariant, PTL DEF DirectorySpec
=============================================================================
