# Ndaw Wune API: verification project

TLA+ models of the API of the Ndaw Wune programme (`app/`, FastAPI on SQLAlchemy 2 async, PostgreSQL and Redis,
nine gunicorn/uvicorn workers), checked with TLC and proved with TLAPS. Tutors' phones time their lessons
("séances") and report on them, often after a while offline; supervisors follow teachers, record attendance and
evaluate pupils; administrators plan, configure, import, correct and answer.

The system is a set of stateless workers over one database and one cache. Its hard behaviours come from three
facts, which the models make explicit:

1. **A request is one transaction at READ COMMITTED** (`app/core/database.py`, `get_db`): SELECTs, checks in
   Python, a flush, and the COMMIT when the handler has returned and before the answer is sent; an exception
   rolls everything back. `autoflush` is off and no row has a version column, so between the SELECTs and the
   COMMIT anything may be committed by another worker. A bulk UPDATE or DELETE waits for the rows another
   transaction holds, and does not see those committed after it started.
2. **An ORM flush writes columns, not rows**: the UPDATE names the columns whose value differs from the
   *loaded* one. Racing requests therefore mix column by column.
3. **Redis and the disk are outside the transaction**: every call to Redis is wrapped in a `try` that logs and
   goes on; files are written and removed before the COMMIT, and no rollback brings them back.

Every module has the same pattern: `ReadX` is everything up to the last SELECT, with the handler's early returns as
guards (a refused request changes nothing and has no action); `CommitX` is the flush and the COMMIT computed from the
*loaded* rows and merged by column into the rows as they are then; `Rollback` is whatever makes `get_db` roll back, a
worker that dies included. Operations of one statement are one action.

## 1. Inventory

| Component | State | Operations | What is hard | What makes it correct | Module |
|---|---|---|---|---|---|
| Séances and reports (`seance_service.py`) | `seances`, `rapports_prof` | start, pause, resume, finish, report missed, submit report, lazy cron | check-then-insert, stale loads, retries, offline times, a cron that only people trigger | a row is one life; what is over changes for named reasons only; one report; closed only when overdue; the forgotten ends | `Seances`, `SeanceLifecycle` |
| Sync cache (`sync.py`, `core/redis.py`) | keys `sync:{user}` | sync, invalidate one or all | invalidation before or after COMMIT, builds in flight, outage, death between two calls | bounded staleness; fresh when undisturbed; fresh in the end | `SyncCache` |
| Sessions, planning, progression | `program_sessions`, `teacher_sessions`, `planning_segments`, `progression_configs` | CRUD, activate, assign, import of a week, resolve | crossing activations and replacements, NULL in unique keys | one active; a replacement is whole; one configuration answers | `Programme` |
| Pupils and replacements | `eleves`, `eleve_remplacements` | CRUD, imports, substitutes, replacement | two tutors and one substitute, edits between load and COMMIT | taken once; the swap is what the phone shows | `Roster` |
| Evaluations by draw | `evaluation_sujets`, `_tirages`, `_resultats`, audio files | draw, redraw, absences, dated submission, deletions | two loads at two moments, midnight, file before COMMIT, cascades | draw and history agree; past days stay; recordings are there | `Evaluations` |
| Supervisors: lists, attendance, evaluations | `users.classes`, `supervisor_presence_checks`, `evaluations_eleves` | assign, change of school, batches of upserts | lost updates of arrays, unique keys inside a batch, retries | a supervisor follows whom he was assigned; a batch is stored whole | `Supervision` |
| Daily reports, difficulties, remarks, documents | one table each, files of `uploads_data` | send, resolve, reply, upload, delete | two people answer at once, file and row in two steps | an answer is coherent; what is listed can be downloaded | `Terrain` |
| Accounts, tokens (`auth.py`, `security.py`, `deps.py`) | `users`, Redis blacklist | login, refresh, logout, passwords, status | whole seconds, fail-open blacklist, crossing password changes | nobody refused without reason; a logout lasts | `Tokens` |
| Schools, classes, accounts, workbook | `schools`, `classes`, `users`, `eleves` | CRUD, eight imports, export | keys that find a row differently the second time, a failing row in one transaction | imports are repeatable, destroy nothing, show the pupil | `Directory` |
| Migrations and deployment | schema, `alembic_version`, containers | 41 revisions up and down, `upgrade head` at start-up, scripts | two commands at once, crashes half way, images older than the schema | the schema is the version's; the backend finds what it uses and ends up serving | `Schema`, `Migrations` |
| Dashboards, follow-up, payload of the supervisor's sync | none | read only | | | none |
| Audit middleware, logging, configuration, scripts, load test, monitoring | a log; none | after the response; by hand | | | none |

`PROJECT.json` lists every component with its files and status, and under `hazards` everything hard to test, at
its line, with the properties that watch it or the reason why none does.

The parts meet in the tables. A deleted account takes séances, reports and attendance along and empties its name in the
resolutions (`DeleteTeacher`, `DeleteAccount`, `DeleteAdmin`); a deleted program session takes its séances, a deleted
planning segment its mention (`DeleteSession`, `DeleteSegments`); a change of school edits the lists of the supervisors, and these decide which
difficulties a supervisor may resolve (`Terrain` EXTENDS `Supervision` for that); every writer of synchronised
tables is one of three disciplines for `SyncCache`; a séance belongs to the active session's planning
(`Programme`); an import of the workbook goes through schools, accounts, classes and pupils (`Directory`).

## 2. The modules

One module per component, an `MC` module per instance where values must be constructed, and a `Proof` module where
there are theorems. Data that no property tells apart (texts, head counts, titles, wording) is left out.

### `Seances`, with `SeanceLifecycle`

State: `users`, `sessions`, `planning` (the segments, each of a session), `seances` (a record of columns per primary key;
`absent` before the INSERT, `deleted` after the cascade), `rapports`, `req` (what each worker serves and has loaded), `now`. Every operation of `seance_service.py`
is there: `Read/CommitStart`, `...Missed`, `...Pause`, `...Resume`, `...Finish`, `...Close` (the cron that both
usage-log routes call), `...Rapport`, `Rollback`. So is what reaches the rows from outside through foreign keys: `DeleteTeacher` and `DeleteSession`
(`ON DELETE CASCADE`), `DeleteSegments` (a segment deleted, or a planning replaced by an import: `ON DELETE SET NULL`,
on séances that are over as well).

Two details of the code shape it. `record_resume` copies the list of pauses but not the dictionaries in it, so
the assigned value equals the loaded one at the flush and the column is not written: `Flushed` says so. The rows
therefore keep pauses that were resumed open; `SeanceShape` says nothing of them, `ResumeClosesThePause` is about them. And
`finish_seance` takes pauses kept offline only when the *loaded* row has none. The unit of time is
arbitrary; phones send times no later than the server's clock.

`SeanceLifecycle` is the promise: a séance appears running or missed, ends once and for good, gets at most one report
while it exists, and is deleted with its report. `ImplementsLifecycle` maps `status` to its phases.

### `SyncCache`

A payload is, for each table it is built from, the *version* (count of committed changes) its SELECT saw. A sync is
`ServeCached`, or `StartBuild`, one `ReadTable` per table, `FinishBuild`. Writers come in the three disciplines of
the code: COMMIT then invalidate (planning, remplacements), invalidate then COMMIT (questions, difficulties,
labels, `update_user`), COMMIT only (configurations, pupils, imports). `invalidate_sync_caches` is `ListKeys` (KEYS)
and `DeleteKeys` (DEL), or `SwallowRedisError`. Redis may fail and return with or without its keys; a worker may `Die`
between COMMIT and Redis. `age` measures since when a version is superseded. Redis' expiry and the clock are one.

### `Programme`

Activation (`ReadActivate`, `DeactivateAll`, `CommitActivate`), the form (`ReadUpdate`, `CommitUpdate`), replacement of
a session's teachers (`ReadAssign`, `DeleteAffectations`, `InsertAffectations`) and of a planning (`ReadImport`,
`DeletePlanning`, `InsertPlanning`), single segments, progression configurations (`ReadConfig`, `ReadPortee`, and their
COMMITs), and the cascades. Bulk statements lock: `Held` are the rows another transaction has changed and not
committed. The unique keys are there with their NULLs (`MemeCreneau`, `Inserable`). Rows carry the number
of the COMMIT that wrote them; `croisees` holds the COMMITs that crossed another one. A planning file is what the
parser understood of it, nothing included.

### `Roster`

`create_eleve`, `update_eleve`, deletions, the four imports (`ON CONFLICT DO NOTHING` under a key with NULLs),
`create_remplacant`, `create_remplacement` (`ReadRemplacement`, `CommitRemplacement`), the deletion of a tutor; and the
list a phone receives (`Vus`, `Titulaires`, `Remplacants`), which goes by the *name* of the school while
`create_remplacement` compares its key.

### `Evaluations`

Subjects and draws (`RandomEleves` is what `_random_eleves` may return), redraws, absences, submissions in three steps
(`ReadTirage`; `StoreAudio`, which writes the recording and looks for the day's row; `CommitSubmit`), deletions with
their cascades, a clock in days. `NbEvalues`, `TeacherPage`, `SupervisorPage` are what the three pages count. A subject
may have a language (`LangueDe`), and is proposed to the supervisors of that language and to those whose language
cannot be told (`Propose`). The teacher's page also has the classes whose name and school's name are normalised to
the same (`Homonymes`), the supervisor's only those he covers as they are written.

### `Supervision`, and `Terrain` which EXTENDS it

`Supervision`: assignment of a supervisor's teachers, a teacher's change of school (which edits the lists as they were
*loaded*), status and school of supervisors, the two batches of upserts (`ReadLot`, `CommitLot`), deletions.
`Perimetre` is `get_supervised_teacher_ids` with its fallback on the school's homonyms. `voulues` is what the lists
would be had the requests come one after another, `croisees` the lists of which two changes crossed.

`Terrain` composes it with the rest of what comes in from the field: reports, both routes that resolve a difficulty
(a supervisor may when the author is in `Perimetre`), remarks and replies, documents with their files. The deletion of an
account of the field is one action of both (`DeleteAccount`), that of an account of the dashboard is `DeleteAdmin`;
both empty the name of who resolved (`SansNom`) and leave the rest of the row. `Abandon` leaves the disk as it is. `updated_at`, which
every UPDATE sets, tells whether the row changed since it was loaded.

### `Tokens`

`login`, `refresh`, `logout`, `change_password`, `reset_password`, `admin_reset_password`, `update_user` with a password,
`toggle_status`, deletion. A JWT is its account, type and *second* of issue: two of one second are one string, and
`tokens_valid_from` is truncated to compare with it. The clock ticks in fractions of a second (`PerSecond`). `emis`
remembers with which password each holder has proved himself. Redis fails, returns with its keys or without, and while
it is up may evict any key (`Evict`: `docker-compose.yml:42` runs it with `allkeys-lru`). `sortis` is the tokens that
were given to `revoke_token` while Redis answered and whose key has not been lost.

### `Directory`

Imports are folds over the rows of a file: `import_all` row by row (school by code or name, supervisors, tutor, class,
pupil; the account without school that a row claims; the failed flush after which nothing succeeds; the row without a
school, which raises), the two
imports of teachers and the re-import, schools, classes. `Ordres` stands for a SELECT without ORDER BY. `Exports` are
the workbooks `export_all` may write: a row for every pupil, with the supervisors of the school (`Liste`) and the
tutor of the class (`TuteurPour`); for a pupil without school, a row with the cells of the school empty (`LigneSansEcole`).
`create_eleve` checks nothing, so only the table's key keeps pupils apart, and in it a NULL school or first name is
distinct from every other (`Distinct`, `SansPrenom`). Requests come one after the other: the question here is what a long series of
legal calls leads to. Its formulas are named `DirectoryInit`, `DirectoryNext`, `DirectorySpec`, so that one proof
module can extend it together with `Migrations`.

### `Schema`, `Migrations`

`Schema` is the 41 revisions, each with what it creates, ensures, drops, restores, undoes and requires, and what the
models use. `Migrations` is alembic applying them, a transaction for each, in the container's start-up and in
a command beside it, with crashes, downgrades, tables made by hand and rows written meanwhile that an older
schema would refuse.

## 3. The runs

| Run | Instance | What it shows |
|---|---|---|
| `seance_races` | 1 teacher, 1 séance, 1 session with 1 segment, 2 workers, limit 1, clock to 2, phones 1 late, 2 pauses | No mixture of columns makes a row of two lives (`SeanceShape`), what a handler checked it still holds (`RequestShape`), `OneRapportByOwner`, `AutoClosedWhenOverdue`, `EndedChangesOnlyByOverlap`, and the refinement |
| `seance_pairs` | 2 séances, 2 workers, limit 0, clock to 1 | `ChecksHoldIfSerial`: two séances under way, or two missed for one segment, only by overlapping requests; `ForgottenSeancesEnd` |
| `sync_cache` | 1 phone, one table per discipline, 2 builds at once, 1 writer, TTL 2, builds up to 1, 1 change | `BoundedStaleness`: nothing superseded more than TTL plus a build ago; `FreshIfUndisturbed`; `EventuallyFresh`; no deadlock |
| `programme` | 2 sessions, 2 teachers, 1 week, 2 hours, 1 school, 3 requests, 2 workers | `OneActivated`, `ReplacedWholly`, `ConfigResolves`, each with the crossing that breaks it excluded |
| `roster` | 3 pupils, 2 classes, 2 school rows of one name, 1 tutor, 2 workers, 1 row per file | `TakenOnceUnlessCrossed`; `SwapSeen`: the phone's next list has the newcomer for the outgoing pupil, and loses nobody else |
| `evaluations` | 2 pupils of a class, which is written in two ways, 1 subject in one of 2 languages, 1 draw, 1 supervisor, 2 results, 2 workers, 2 days | `PagesAgree`, `ShownDayInHistory`, `RecordingStored`, `PastDaysKept` |
| `supervision` | 2 teachers, 1 supervisor, 1 administrator, 1 pupil, 3 school rows (2 of one name), 1 report and difficulty, 1 remark, 2 documents, 3 requests in all, 2 workers | `FollowsAssigned`, `BatchStoredWhole`, `AnswersCoherent`, `ListedCanBeDownloaded` |
| `tokens` | 1 account, 2 workers, 2 instants a second, lives of 1 and 2 seconds, clock to 2, 1 change of password | `NoSpuriousRefusal`, `LoggedOutRefused` |
| `directory` | 4 kinds of rows, up to 2 per file, 2 schools, 3 accounts, 2 pupils of which one has no first name, 3 requests | `TablesOK`; `ImportIdempotent`, `NothingDestroyed`, `VisibleToTutor` after whatever edits and imports came before |
| `migrations` | 41 revisions, images at 31 and 41, 3 interventions | `ServedSchema`, `VersionTells`, `Deployed` |
| `resume_closes_pause` | as `seance_races` | violated: a resume never closes the pause in the database |
| `bad_row_stops_no_other` | as `directory`, 2 requests | violated: a row that fails in the flush loses all the others |

**Why the bounds are enough.** A conflict in this code is between one request that commits and one that loaded
before: two workers show all of them, and the proofs remove the bound. Where a property relates two rows, there
are two (`seance_pairs`, `programme`, `roster`). A limit of 1 with a clock to 2 reaches the exact boundary (not overdue
at 1, overdue at 2); two instants a second put a login before and after a change of password within one second, and
the clock's third instant is the next second; two days put midnight between the two loads of a submission. In
`supervision`, three requests are a change of a list and a batch or answer that overlaps a third; `Textes` is
empty there, so the motif and comment columns are NULL and their mixing is left to the proof, which holds
for every `Textes`. In `roster` pupils leave and change class; that one comes back is left to the proof,
which holds for every edit. In `directory`, the first request creates, the second edits or deletes, the third
imports. In `migrations`, image 31 is older than the revisions that change data and keys, and three interventions are a
build, a replacement and one accident.

**Deadlock** is checked in `sync_cache`. The other configurations say `CHECK_DEADLOCK FALSE`: with the clock at its
bound, every account deleted or the requests used up, there is nothing left to do.

**Symmetry** is used over workers, pupils, texts and documents in the runs without liveness, never with it.

**Fairness.** `LazyCronSpec`: the clock runs, some pending request commits or rolls back (WF: gunicorn kills a
worker that hangs), and administrators open the usage logs again and again until one such request commits (SF on
the cron's SELECT and COMMIT). The last is an assumption on *people*: nothing in the code schedules the cron, and
without it `ForgottenSeancesEnd` is false by design. `FairSpec` of `SyncCache`: the clock, hence Redis' expiry, runs and
a started build ends (WF); nothing is asked of Redis, writers or phones. `Fairness` of `Migrations`: docker
restarts what exits (`restart` policy) and a started command runs on or ends (WF); nothing is asked of the operator.

**The properties, in words.** Each type invariant also carries what the tables' keys promise (no row outlives
what it refers to). The others:
- `ChecksHoldIfSerial`: the checks of `start_seance` and `report_missed_seance` are enough exactly when a teacher's
  requests do not overlap. `EndedChangesOnlyByOverlap`: an ended séance goes with its teacher or session, loses the mention of a
  deleted segment, or changes by a request that read it under way; nothing else touches it.
- `SeanceShape`: no end, duration or mark of the cron on a séance under way, none missing on one that is over.
- `FreshIfUndisturbed`: with Redis up, no death after a COMMIT and no build during a write, nothing cached is behind
  once announced writes are over. `EventuallyFresh`: after the last change every payload shows it in the end.
- `OneActivated`: of any overlapping activations exactly the last to commit stays, since the UPDATE of all rows makes
  the others wait. `ReplacedWholly`: no mixture of two imports of a week or two assignments.
  `ConfigResolves`: `scalar_one_or_none` never meets two rows of one scope.
- `TakenOnceUnlessCrossed`: two replacements name one newcomer only if the pupils changed under one of them.
- `PagesAgree`: the draws evaluated are the same for administrator, teacher and supervisor, namely those with a dated result:
  the teacher's page has them for his class and its homonyms, the supervisor's for the subjects of his language. `PastDaysKept`: what was
  recorded on a past day stays. `RecordingStored`: a recording that is named is on the disk, whatever rolled back.
- `FollowsAssigned`: list and fallback are what the dashboard last assigned less who moved. `BatchStoredWhole`: a batch is
  stored whole or not at all, its retry too, and a line differs from what was sent only if another batch came between.
- `AnswersCoherent`: date, name and status of an answer agree unless two answers crossed; the name may only be missing once
  an account was deleted.
  `ListedCanBeDownloaded`: whatever is cut short, a listed document has its file until its own deletion begins.
- `NoSpuriousRefusal`: a token of the present password is accepted for its whole life, within the second of a change
  and while Redis is down too. `LoggedOutRefused`: a token given to `revoke_token` while Redis answered is
  refused whenever Redis answers, for the rest of its life, unless Redis has lost or evicted its key since.
- `TablesOK`: references to schools that exist, one school for a code, one account for a number, and one pupil for a place
  among those with a school and a first name.
- `ImportIdempotent`: while names tell things apart, a workbook imported without error, in which a code names one
  school, brings nothing the second time, and a whole export creates no school, account or pupil; it may register
  the classes its pupils are in. `VisibleToTutor`: a pupil created beside a tutor is in one of his classes.
  `NothingDestroyed`: an import creates rows, adds classes and gives a school to an account without one, no more.
- `ServedSchema`: a serving backend finds what its code uses while another image migrates under it. `VersionTells`:
  `alembic_version` is what the schema holds. `Deployed`: the newest image ends up serving.

## 4. Where code and documents disagree

Two runs expect a violation and are findings of `PROJECT.json`: a **resume never closes its pause in the database**
(`seance_service.py:210`; the loaded and the assigned list share their dictionaries), and **one row that fails in the
flush loses the whole workbook** (`import_export.py:399`; the `except` goes on in a transaction already rolled back).

The models show the following too; the properties above state what holds in spite of them.
- Two overlapping starts leave two séances under way, against "Lève 409 si une séance est déjà en
  cours" (`routes/app/seances.py:36`); `get_active_seance` then raises for that teacher. Two overlapping reports of
  a missed séance duplicate it, against "Idempotent" (`seance_service.py:65`). A pause sent twice is stored twice,
  against "Idempotent si déjà en pause" (`routes/app/seances.py:47`).
- `invalidate_sync_caches` promises fresh data at the next call (`core/redis.py:47`); questions, difficulties and labels
  call it before their COMMIT, and a sync in between caches the old rows for a whole TTL.
- Two submissions about one draw around midnight may leave the draw's result that of one and its day of the other.
- A substitute listed by the *name* of the school may be refused by `create_remplacement`, which compares its key, when two
  schools have one name. An outgoing pupil who is already inactive can be replaced again.
- Re-importing an export creates no pupil and no account (`import_export.py:10` says nothing at all), but may register a
  class that was missing and give it to the only tutor of the school. A workbook that is not an export can bring
  something twice when one code stands beside two names of schools: a row (name A, code K) that was found by its name
  is found by its code once a later row (name B, code K) has created a school, and its pupil is then created
  there. The attempt to prove `ImportIdempotent` without `CodesUnivoques` showed it, and TLC a run that does it.
- An unreadable planning file deletes the planning it was to replace: the DELETE does not look at what was parsed.
- `revoke_token` promises a blacklist "jusqu'à son expiration naturelle" (`core/security.py:101`), but Redis is run with
  `--maxmemory-policy allkeys-lru` (`docker-compose.yml:42`), which evicts keys of any kind, and may restart without
  them: a token logged out is then accepted again. `LoggedOutRefused` holds for the keys Redis was left with.
- `create_eleve` checks nothing, and the table's key distinguishes NULLs (`models/eleve.py:18`): a pupil without school or
  without first name can be created twice in one place.
- The supervisor's and the teacher's pages need not show the same draws: the supervisor's leaves out the subjects of
  other languages, and the teacher's adds the classes whose name, and whose school's name, read the same.
- Each deletion of an account empties `resolue_par` of what it resolved: the difficulty stays resolved, by nobody.
- After a rollback a recording may be played under the result it was to replace: the file is written before the COMMIT.
- When two batches cross, a teacher marked present may keep a motif of absence (`supervisor_presence.py:22` excludes it).
  A batch that names one target twice always fails on the unique key.
- A deleted teacher's id stays in a supervisor's list; when no other is left, the supervisor follows nobody and the
  fallback on the school does not apply. A change of school rewrites the lists from the teachers it loaded: an assignment
  committed between its SELECT and its COMMIT keeps the moved teacher, and `FollowsAssigned` counts that as his place.
- Two resolutions of one difficulty that cross may leave a date without a resolution, or the reverse.
- `models/remarque.py:41` says the author can read the reply in the application; `RemarqueOut`
  (`app/remarques.py:34`) does not return it. `admin/rapports_journalier.py:54` says the four views share one filter;
  the CSV export builds its own and searches one column less.
- `duree_minutes` of an auto-closed séance may be negative when a phone reported long pauses.

## 5. The proofs

Eight modules, for every value of the constants under the modules' named assumptions (bounds are naturals; NULL is
none of the values; a supervisor's classes are classes; a number of instants a second is positive). They remove
every bound of the runs: any number of workers, rows, requests and days. Every theorem listed in `PROJECT.json`
is an inductive invariant, an action property or a refinement; the lemmas are one per action, and what several
actions share is a lemma of its own.

In all of them the reason an invariant is not inductive alone is the same: a COMMIT writes values loaded earlier, so
the strengthening says *what a pending request may still rely on*.

- `SeancesProof`. `IInv == TypeOK /\ SeanceShape /\ OneRapportByOwner /\ AutoClosedWhenOverdue /\ RequestShape`: a
  séance loaded under way is now under way, over or deleted, with the same start. The four updates go through one
  lemma on what a good change of a row is. From it the action property, the refinement of `SeanceLifecycle`, and
  `SerialChecks`, whose strengthening is that a pending request of a teacher sees no other row as long as his
  requests do not overlap.
- `SyncCacheProof`. The invariant relates, for every cached or half-built payload, the age of what it shows to the
  life it has left: `Tick` moves both, `FinishBuild` turns the time of a build into age, a COMMIT gives age zero.
  `AnnouncedFresh` adds that, while undisturbed, whatever is behind is about to be deleted by a writer that still
  has its key listed or its listing to do.
- `ProgrammeProof`. `TypeInv` counts: every pending request has room for its COMMIT, hence a number larger than any in
  the tables. `Activations` says that an activation which has deactivated holds every session it saw;
  `Assignments` and `Plannings` that a replacement holds all it has deleted; `Scopes` that a request which
  has read saw its scope free.
- `RosterProof`. `TakenIsTitulaire`: who has taken a place is no substitute, so a later request that still takes
  him must have loaded him before, and is marked.
- `EvaluationsProof`. `ResultIsDated` joins a draw to its history; `Held` says that unless the draw is gone what was not NULL
  when it was loaded is not NULL now, and that the recording of a pending submission is there.
- `TokensProof`. `Delivered`: a token was proved with the account's password or an earlier one, and when it is the
  present one its second of issue is not before `tokens_valid_from`; `ValidFromPast`: that second is past; `Kept`: a
  token of `sortis` still has a key to its last second, or no whole second left to live, for which no key is written. The
  lemmas on seconds (`DivMonotone`, `DivAdd`) show that truncation loses nothing between them.
- `TerrainProof` proves `Supervision` first. `Lists`: a list whose changes did not cross is what one request after
  another would have made. Then `FieldImplementsSupervision`: every step of the composition is a step of
  `Supervision` or leaves it alone, so that its theorems carry over. Then `Times` (an answer's date is its own) and
  `LoadedResolutions`/`LoadedRemarks` (a row that still has the date loaded is the row loaded, but for the name of an
  account deleted since), from which an uncrossed answer is coherent; and `ListedCanBeDownloaded`.
- `DatabaseProof` has the two modules about the database as a whole.
  *Migrations*: `IInv == TypeOK /\ Data /\ Commands`. `Data` says what a version has (`Tells`), for every one of the 41
  positions, and which labels and rows; `Commands` which command may run beside which container, hence that a
  backend serves only at or after its own revision. The chain is concrete, so the proof follows it: `Held` is what the
  revisions up to a position have created less what they have dropped, and each revision moves `Tells` by one.
  *Directory*: the invariant `DirectoryInv` is that the tables are sound: references to schools that exist, codes and numbers
  that are unique, and pupils as far as the NULLs of their key let them be. What is hard is that a request is a fold over the rows of a file of any length, and
  `FoldLeft` is recursive. The lemmas `FoldExists`, `FoldInduction`, `IndexedInduction` state induction over a fold
  for a *set* in place of a predicate, which the provers can instantiate: the tables form a set closed under every
  step of the code, and the fold stays in it. The supervisors of a row are a fold inside that fold.
  `Grows` (an import only adds) gives `NothingDestroyed`; `Seen` (a pupil that was not there is in a row, and in
  a class of the row's tutor) gives `VisibleToTutor`. `ImportIdempotent` needs a fact about the past: every row of the last
  workbook is `Absorbed`, that is, its school is found, its supervisors, tutor, class and pupil are there. An absorbed
  row stays absorbed while later rows grow the tables (here a code must name one school), and importing it changes
  nothing. `Relived` carries this from the import to the state after it. A row of an export finds all it names
  whatever rows of the export came before (`Enriched`: the tables with classes more), and only registers a class.

**Only model-checked**: liveness (`ForgottenSeancesEnd`, `EventuallyFresh`, `Deployed`), which is out of the prover's
reach. Every other property of the passing runs is a theorem.

## 6. Not modelled

- Dashboards, follow-up, progression pages, statistics, galleries, the supervisor's sync payload, listings: they read.
- The audit log (written after the response in a session of its own), usage-log inserts, logging, configuration,
  pagination, export helpers: no state that two requests could bring into conflict.
- Formatting and parsing (PDF, Excel, CSV, questionnaires of `evaluation_docs`): an import is the rows it understood.
- Download tokens, profile pictures, class photos, reading of images, the title of a document, credential lists.
- Clocks of phones ahead of the server's; minutes and their rounding; the texts and columns no property is about.
- Scripts run by hand on a stopped service, load test, monitoring, nginx, backups. A downgrade is run by hand too
  (`RunDowngrade`), and begins only while no backend serves: what a serving backend would meet is not checked.
- The driver's row counts: `CommitLot` refuses a batch one of whose rows was deleted since it was loaded. asyncpg reports no
  row count when several rows are updated in one call, and the others would then be committed without it.

`PROJECT.json` gives the status and the reason for each component.

## 7. Running

    tlc -workers 2 -config MCSeanceRaces.cfg MCSeances.tla     # likewise MCSeancePairs.cfg
    tlc -workers 2 -config MCSyncCache.cfg MCSyncCache.tla     # likewise MCProgramme, MCRoster, MCEvaluations,
                                                               # MCTerrain, MCTokens, MCDirectory, MCMigrations
    tlc -workers 2 -config MCViolResumeClosesThePause.cfg MCSeances.tla
    tlc -workers 2 -config MCViolBadRowStopsNoOther.cfg MCDirectory.tla
    tlapm SeancesProof.tla                                     # likewise the seven other Proof modules

The longest runs take about two minutes. The definitions marked "Faulty variant", beside those they imitate, are
the mutants of `PROJECT.json`: each, put in the place of the right one, breaks one property of one run.
