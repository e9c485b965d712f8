----------------------------- MODULE Migrations -----------------------------
(***************************************************************************)
(* Deployments of the backend and migrations of its database: Dockerfile,  *)
(* alembic/env.py, scripts/redeploy.sh and the other deployment scripts.   *)
(*                                                                         *)
(* A container runs "alembic upgrade head" and then serves; the scripts    *)
(* also run the command in a second process, while the container runs it   *)
(* or while it serves. Each process reads alembic_version once, then       *)
(* applies the revisions it lacks, a transaction for each.                 *)
(***************************************************************************)
EXTENDS Schema

CONSTANTS
  Images,  \* heads of the images that are built; the newest is there
  MaxOps   \* bound: interventions of the operator and crashes

ASSUME MigrationsAssumption == Images \subseteq 1..Newest /\ Newest \in Images /\ MaxOps \in Nat

VARIABLES
  version,   \* alembic_version: position in Chain, 0 for an empty database
  schema,    \* elements of the database
  libelles,  \* groups of keys in rapport_libelles
  compte,    \* role and title of one account
  lignes,    \* rows that only the newer schema can hold
  image,     \* head of the image docker compose would start
  backend,   \* the backend's container: head of its image, and phase
  alembic,   \* alembic[p]: an alembic command, where it is and where it goes
  ops        \* interventions so far

vars == <<version, schema, libelles, compte, lignes, image, backend, alembic, ops>>

-----------------------------------------------------------------------------
Processes == {"conteneur", "ponctuel"}
NoCommand == [pos |-> 0, to |-> 0, running |-> FALSE]

Command(v, i) == [pos |-> v, to |-> i, running |-> TRUE]

Init ==
  /\ version = 0
  /\ schema = {}
  /\ libelles = {}
  /\ compte = [role |-> "coordonnateur", superviseur |-> TRUE]
  /\ lignes = {}
  /\ image \in Images
  /\ backend = [image |-> image, phase |-> "down"]
  /\ alembic = [p \in Processes |-> NoCommand]
  /\ ops = 0

-----------------------------------------------------------------------------
(* One revision, up or down *)

\* What an upgrade finds: what it refers to is there, what it creates is not.
CanUpgrade(r) == r.needs \cup r.drops \subseteq schema /\ r.adds \cap schema = {}

\* Rows that the older column, key or enumeration would refuse.
Blocked(r) ==
  \/ r.id = "k4l5m6n7o8p9" /\ "deux_semaines" \in lignes
  \/ r.id = "f3a1c8e2b945" /\ "photo_longue" \in lignes
  \/ r.id = "a9f1b2c3d4e5" /\ compte.role = "superviseur"

CanDowngrade(r) == r.reversible /\ r.undoes \subseteq schema /\ ~Blocked(r)

\* Groups of keys the data migrations insert, delete and put back.
LibellesUp(id) ==
  CASE id = "e4f5a6b7c8d9" -> {"tuteur", "obsoletes"}
    [] id = "z9a0b1c2d3e4" -> libelles \cup {"jour_cours"}
    [] id = "b1c2d3e4f5a6" -> libelles \cup {"supervision"}
    [] id = "c2d3e4f5a6b7" -> libelles \ {"obsoletes"}
    [] OTHER -> libelles

LibellesDown(id) ==
  CASE id = "e4f5a6b7c8d9" -> {}
    [] id = "z9a0b1c2d3e4" -> libelles \ {"jour_cours"}
    [] id = "b1c2d3e4f5a6" -> libelles \ {"supervision"}
    [] id = "c2d3e4f5a6b7" -> libelles \cup {"obsoletes"}
    [] OTHER -> libelles

RoleUp(id) ==
  IF id = "b0c1d2e3f4a5" /\ compte.role = "coordonnateur" /\ compte.superviseur
  THEN [compte EXCEPT !.role = "superviseur"] ELSE compte

RoleDown(id) ==
  IF id = "b0c1d2e3f4a5" /\ compte.role = "superviseur"
  THEN [role |-> "coordonnateur", superviseur |-> TRUE] ELSE compte

\* Faulty variant: the version is written whatever it has become.
VersionUnchecked(p) == TRUE

\* UPDATE alembic_version ... WHERE version_num = <the one this command left>.
VersionMatches(p) == version = alembic[p].pos

Upgrades(p) == alembic[p].running /\ alembic[p].pos < alembic[p].to
Downgrades(p) == alembic[p].running /\ alembic[p].pos > alembic[p].to
NextUp(p) == Chain[alembic[p].pos + 1]
NextDown(p) == Chain[alembic[p].pos]

Upgrade(p) ==
  /\ Upgrades(p)
  /\ LET r == NextUp(p)
     IN /\ CanUpgrade(r) /\ VersionMatches(p)
        /\ version' = alembic[p].pos + 1
        /\ schema' = (schema \ r.drops) \cup r.adds \cup r.ensures
        /\ libelles' = LibellesUp(r.id)
        /\ compte' = RoleUp(r.id)
  /\ alembic' = [alembic EXCEPT ![p].pos = @ + 1]
  /\ UNCHANGED <<lignes, image, backend, ops>>

Downgrade(p) ==
  /\ Downgrades(p)
  /\ LET r == NextDown(p)
     IN /\ CanDowngrade(r) /\ VersionMatches(p)
        /\ version' = alembic[p].pos - 1
        /\ schema' = (schema \ r.undoes) \cup r.restores
        /\ libelles' = LibellesDown(r.id)
        /\ compte' = RoleDown(r.id)
  /\ alembic' = [alembic EXCEPT ![p].pos = @ - 1]
  /\ UNCHANGED <<lignes, image, backend, ops>>

-----------------------------------------------------------------------------
(* Commands *)

Down == [backend EXCEPT !.phase = IF @ = "upgrade" THEN "down" ELSE @]

\* The command is over: nothing left, the DDL failed, or the version moved under it.
Ends(p) ==
  /\ \/ alembic[p].running /\ alembic[p].pos = alembic[p].to /\ p = "ponctuel"
     \/ Upgrades(p) /\ ~(CanUpgrade(NextUp(p)) /\ VersionMatches(p))
     \/ Downgrades(p) /\ ~(CanDowngrade(NextDown(p)) /\ VersionMatches(p))
  /\ alembic' = [alembic EXCEPT ![p] = NoCommand]
  /\ backend' = IF p = "conteneur" THEN Down ELSE backend
  /\ UNCHANGED <<version, schema, libelles, compte, lignes, image, ops>>

Downgrading == \E p \in Processes : Downgrades(p)

\* Container start: a database beyond the image's revisions is an error, and the
\* restart policy tries again. An operator who downgrades lets it finish first.
StartContainer ==
  /\ backend.phase = "down" /\ ~Downgrading
  /\ version <= backend.image
  /\ alembic' = [alembic EXCEPT !["conteneur"] = Command(version, backend.image)]
  /\ backend' = [backend EXCEPT !.phase = "upgrade"]
  /\ UNCHANGED <<version, schema, libelles, compte, lignes, image, ops>>

\* The chain of commands goes on to create_admin.py and gunicorn.
Serve ==
  /\ backend.phase = "upgrade"
  /\ alembic["conteneur"].pos = alembic["conteneur"].to
  /\ alembic' = [alembic EXCEPT !["conteneur"] = NoCommand]
  /\ backend' = [backend EXCEPT !.phase = "serving"]
  /\ UNCHANGED <<version, schema, libelles, compte, lignes, image, ops>>

Intervene == ops < MaxOps /\ ops' = ops + 1

\* docker compose build, after git pull or git reset.
Build(i) ==
  /\ Intervene
  /\ i # image
  /\ image' = i
  /\ UNCHANGED <<version, schema, libelles, compte, lignes, backend, alembic>>

\* docker compose up -d: the container is replaced by one of the image built last.
Replace ==
  /\ Intervene
  /\ backend' = [image |-> image, phase |-> "down"]
  /\ alembic' = [alembic EXCEPT !["conteneur"] = NoCommand]
  /\ UNCHANGED <<version, schema, libelles, compte, lignes, image>>

\* The container, or the command run beside it, dies and is started again or not.
Crash(p) ==
  /\ Intervene
  /\ alembic' = [alembic EXCEPT ![p] = NoCommand]
  /\ backend' = IF p = "conteneur" THEN [backend EXCEPT !.phase = "down"] ELSE backend
  /\ UNCHANGED <<version, schema, libelles, compte, lignes, image>>

\* alembic upgrade head beside the container: in a container of the image built
\* last (docker compose run), or in the running one (docker compose exec).
RunUpgrade(i) ==
  /\ Intervene
  /\ i \in {image, backend.image}
  /\ ~alembic["ponctuel"].running
  /\ version <= i
  /\ alembic' = [alembic EXCEPT !["ponctuel"] = Command(version, i)]
  /\ UNCHANGED <<version, schema, libelles, compte, lignes, image, backend>>

\* alembic downgrade, by hand, the backend being down and left down.
RunDowngrade(to) ==
  /\ Intervene
  /\ backend.phase = "down" /\ ~alembic["ponctuel"].running
  /\ to < version
  /\ alembic' = [alembic EXCEPT !["ponctuel"] = Command(version, to)]
  /\ UNCHANGED <<version, schema, libelles, compte, lignes, image, backend>>

\* Tables that some databases had before their revision: made by hand, early.
MakeByHand(t) ==
  /\ Intervene
  /\ t \notin schema /\ "users" \in schema
  /\ version < (IF t = "eleves" THEN 5 ELSE 3)
  /\ schema' = schema \cup {t}
  /\ UNCHANGED <<version, libelles, compte, lignes, image, backend, alembic>>

-----------------------------------------------------------------------------
(* What the served application writes meanwhile *)

Write ==
  /\ backend.phase = "serving"
  /\ \/ /\ \E role \in {"coordonnateur", "superviseur"}, superviseur \in BOOLEAN :
             /\ role = "superviseur" => "user_role.superviseur" \in schema
             /\ compte' = [role |-> role, superviseur |-> superviseur]
        /\ UNCHANGED lignes
     \/ /\ "planning_segments.semaine" \in schema
        /\ lignes' = lignes \cup {"deux_semaines"}
        /\ UNCHANGED compte
     \/ /\ "rapports_journalier.photo_classe_url(text)" \in schema
        /\ lignes' = lignes \cup {"photo_longue"}
        /\ UNCHANGED compte
  /\ UNCHANGED <<version, schema, libelles, image, backend, alembic, ops>>

Next ==
  \/ \E p \in Processes : Upgrade(p) \/ Downgrade(p) \/ Ends(p) \/ Crash(p)
  \/ StartContainer \/ Serve \/ Replace \/ Write
  \/ \E i \in Images : Build(i) \/ RunUpgrade(i)
  \/ \E to \in 0..Newest : RunDowngrade(to)
  \/ \E t \in {"eleves", "rapports_journalier"} : MakeByHand(t)

\* docker restarts what exits, and a started command runs on.
Fairness ==
  /\ WF_vars(StartContainer) /\ WF_vars(Serve)
  /\ \A p \in Processes : WF_vars(Upgrade(p)) /\ WF_vars(Downgrade(p)) /\ WF_vars(Ends(p))

Spec == Init /\ [][Next]_vars /\ Fairness

-----------------------------------------------------------------------------
(* Properties *)

Created(i) == UNION {Chain[k].adds \cup Chain[k].ensures : k \in 1..i}
Dropped(i) == UNION {Chain[k].drops : k \in 1..i}

\* What an image reads and writes: the models of this one, and for an older one what
\* its revisions had made, but for the keys that later ones replace.
Expected(i) == IF i = Newest THEN Models ELSE Created(i) \ Dropped(Newest)

\* What a downgrade leaves behind on purpose, or somebody made by hand.
Kept == {"rapports_journalier", "seance_status.manquee", "eleves"}

TypeOK ==
  /\ version \in 0..Newest
  /\ schema \subseteq Created(Newest)
  /\ libelles \subseteq {"tuteur", "obsoletes", "jour_cours", "supervision"}
  /\ compte \in [role : {"coordonnateur", "superviseur"}, superviseur : BOOLEAN]
  /\ lignes \subseteq {"deux_semaines", "photo_longue"}
  /\ image \in Images
  /\ backend \in [image : Images, phase : {"down", "upgrade", "serving"}]
  /\ alembic \in [Processes -> [pos : 0..Newest, to : 0..Newest, running : BOOLEAN]]
  /\ ops \in 0..MaxOps

\* A serving backend finds every table, column and value its code uses, also while the
\* image that replaces it migrates the database under it, and after any sequence of
\* downgrades, interrupted commands and upgrades run at the same time.
ServedSchema == backend.phase = "serving" => Expected(backend.image) \subseteq schema

\* alembic_version tells what the database holds, and every variable keeps its type: two
\* commands that apply the same revisions, or one that is stopped half way, never leave
\* it ahead of or behind the schema. Only what a downgrade keeps, or a hand made, may be
\* beyond it. The data migrations too: the keys of rapport_libelles are those of the
\* version, no account has a role its enumeration lacks, and unless an image as old serves,
\* none is a supervisor before the revision that makes some.
VersionTells ==
  /\ TypeOK
  /\ Created(version) \ Dropped(version) \subseteq schema
  /\ schema \subseteq (Created(version) \ Dropped(version)) \cup Kept
  /\ libelles = (IF version >= 32 THEN {"tuteur"} ELSE {})
                 \cup (IF version \in 32..36 THEN {"obsoletes"} ELSE {})
                 \cup (IF version >= 34 THEN {"jour_cours"} ELSE {})
                 \cup (IF version >= 36 THEN {"supervision"} ELSE {})
  /\ compte.role = "superviseur" => "user_role.superviseur" \in schema
  /\ version <= 9 /\ (\A i \in Images : i > 9) => compte.role = "coordonnateur"

\* Once the newest image is the one to deploy and its container has been created, the
\* backend ends up serving it, whatever was left of the earlier attempts.
Deployed ==
  <>[](backend.image = Newest /\ ~Downgrading)
    => <>[](backend.phase = "serving" /\ version = Newest)
=============================================================================
