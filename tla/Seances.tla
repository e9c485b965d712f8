------------------------------ MODULE Seances ------------------------------
(***************************************************************************)
(* The teaching sessions ("séances") of app/services/seance_service.py and *)
(* their reports: start, pause, resume, finish, missed segments, reports,  *)
(* the lazy cron that closes what was forgotten, and the deletions that    *)
(* reach their tables by foreign key: an account, a program session, a     *)
(* planning segment.                                                       *)
(*                                                                         *)
(* A request is served by a worker in one database transaction, READ       *)
(* COMMITTED and without version column: it SELECTs what it needs, checks  *)
(* it, and later flushes and commits. Between the two another worker may   *)
(* commit. So each operation has a Read action, whose guards are the early *)
(* returns of the handler (a refused request changes nothing), and a       *)
(* Commit action that works from the rows loaded by the Read. The flush    *)
(* names in its UPDATE only the columns whose value differs from the       *)
(* loaded one.                                                             *)
(*                                                                         *)
(* Times are those the devices send: no later than the server's clock.     *)
(***************************************************************************)
EXTENDS Integers, Sequences

CONSTANTS
  Teachers,        \* teacher accounts
  SeanceIds,       \* primary keys that uuid4 may draw
  Sessions,        \* program sessions
  Segments,        \* planning segments, on the one day the model follows
  SessionOf,       \* SessionOf[g]: the program session of segment g
  Workers,         \* requests served at the same time
  NULL,            \* SQL NULL
  AutoCloseAfter,  \* AUTO_CLOSE_AFTER, in units of the model's clock
  StartSegments,   \* bound: the segments, or NULL, named when a séance is started
  LastStart,       \* bound: no séance starts later than this
  MaxTime,         \* bound of the server's clock
  MaxDelay,        \* bound on the age of a time sent by a phone that was offline
  MaxPauses        \* bound on the pauses stored for a séance

ASSUME SeancesAssumption ==
  /\ NULL \notin Int /\ NULL \notin Teachers /\ NULL \notin Sessions /\ NULL \notin Segments
  /\ SessionOf \in [Segments -> Sessions]
  /\ StartSegments \subseteq Segments \cup {NULL}
  /\ {AutoCloseAfter, LastStart, MaxTime, MaxDelay, MaxPauses} \subseteq Nat

VARIABLES
  users,     \* accounts that exist
  sessions,  \* program sessions that exist
  planning,  \* planning segments that exist
  seances,   \* table seances, by primary key
  rapports,  \* rapports[s]: authors of the rows of rapports_prof for séance s
  req,       \* req[w]: the request worker w is serving, and what it has loaded
  now        \* the server's clock

vars == <<users, sessions, planning, seances, rapports, req, now>>

\* What the rows of seances refer to by foreign key.
parents == <<users, sessions, planning>>

-----------------------------------------------------------------------------
(* Rows and requests *)

\* SeanceStatus, but annulee, which no code assigns, and with two for a primary key
\* that has no row yet or no longer.
Statuses == {"absent", "en_cours", "terminee", "manquee", "deleted"}

Pause == [paused_at : Nat, resumed_at : Nat \cup {NULL}]

Seance == [status       : Statuses,
           teacher      : Teachers \cup {NULL},
           session      : Sessions \cup {NULL},
           segment      : Segments \cup {NULL},
           started_at   : Nat \cup {NULL},
           finished_at  : Nat \cup {NULL},
           duree        : Int \cup {NULL},
           pauses       : Seq(Pause),
           total_paused : Nat \cup {NULL},
           auto_closed  : BOOLEAN]

NoSeance == [status |-> "absent", teacher |-> NULL, session |-> NULL, segment |-> NULL,
             started_at |-> NULL, finished_at |-> NULL, duree |-> NULL,
             pauses |-> <<>>, total_paused |-> NULL, auto_closed |-> FALSE]

Exists(s) == seances[s].status \notin {"absent", "deleted"}

Ops == {"idle", "start", "missed", "pause", "resume", "finish", "close", "rapport"}

\* The pauses a phone may add to "finish" when it kept them offline.
Offline == [pauses : Seq(Pause), total : Nat \cup {NULL}]
NoOffline == [pauses |-> <<>>, total |-> NULL]

\* ids are the séances the request is about, loaded[s] the row it read of s.
Request == [op      : Ops,
            teacher : Teachers \cup {NULL},
            session : Sessions \cup {NULL},
            segment : Segments \cup {NULL},
            at      : Nat \cup {NULL},
            offline : Offline,
            ids     : SUBSET SeanceIds,
            loaded  : [SeanceIds -> Seance]]

Idle == [op |-> "idle", teacher |-> NULL, session |-> NULL, segment |-> NULL,
         at |-> NULL, offline |-> NoOffline, ids |-> {}, loaded |-> [s \in SeanceIds |-> NoSeance]]

Init ==
  /\ users = Teachers
  /\ sessions = Sessions
  /\ planning = Segments
  /\ seances = [s \in SeanceIds |-> NoSeance]
  /\ rapports = [s \in SeanceIds |-> <<>>]
  /\ req = [w \in Workers |-> Idle]
  /\ now = 0

-----------------------------------------------------------------------------
(* The first half of a request: authentication, SELECTs and checks *)

\* A request of teacher t, let through by the authentication of deps.py.
Arrive(w, t, request) ==
  /\ req[w] = Idle
  /\ t \in users
  /\ req' = [req EXCEPT ![w] = request]
  /\ UNCHANGED <<parents, seances, rapports, now>>

\* A time a phone may send: the present, or a past instant when it was offline.
Sent(at) == at <= now /\ now - at <= MaxDelay

Load(S) == [s \in SeanceIds |-> IF s \in S THEN seances[s] ELSE NoSeance]

\* Faulty variant: the check of start_seance forgotten.
NoActiveCheck(t) == {}

ActiveOf(t) ==
  {s \in SeanceIds : seances[s].teacher = t /\ seances[s].status = "en_cours"}

\* start_seance: 409 when the teacher has a séance under way (400 when several). The
\* session p and the segment g are those the phone sends; only the INSERT checks them.
ReadStart(w, t, p, g, at) ==
  /\ Sent(at) /\ at <= LastStart
  /\ ActiveOf(t) = {}
  /\ Arrive(w, t, [Idle EXCEPT !.op = "start", !.teacher = t, !.session = p,
                               !.segment = g, !.at = at])

MissedOf(t, g) ==
  {s \in SeanceIds : /\ seances[s].teacher = t
                     /\ seances[s].segment = g
                     /\ seances[s].status = "manquee"}

\* report_missed_seance: an existing row is returned as it is; without a
\* planning segment there is nothing to recognise it by.
ReadMissed(w, t, p, g) ==
  /\ g # NULL => MissedOf(t, g) = {}
  /\ Arrive(w, t, [Idle EXCEPT !.op = "missed", !.teacher = t, !.session = p, !.segment = g])

\* Faulty variant: a séance that has ended still passes.
EndedOwned(t, s) ==
  seances[s].teacher = t /\ seances[s].status \in {"en_cours", "terminee"}

\* _get_seance_owned, then the check of the status made by pause, resume and
\* finish: 404 for a séance of somebody else, 400 when it is not under way.
RunningOwned(t, s) == seances[s].teacher = t /\ seances[s].status = "en_cours"

ReadOwned(w, t, s, op, at, offline) ==
  /\ RunningOwned(t, s)
  /\ Sent(at) /\ at >= seances[s].started_at
  /\ Arrive(w, t, [Idle EXCEPT !.op = op, !.teacher = t, !.at = at, !.ids = {s},
                               !.offline = offline, !.loaded = Load({s})])

ReadPause(w, t, s, at) ==
  /\ Len(seances[s].pauses) < MaxPauses
  /\ ReadOwned(w, t, s, "pause", at, NoOffline)

ReadResume(w, t, s, at) == ReadOwned(w, t, s, "resume", at, NoOffline)

\* The device sends the pause it kept offline, from instant p on, or nothing.
ReadFinish(w, t, s, at, p) ==
  \/ ReadOwned(w, t, s, "finish", at, NoOffline)
  \/ /\ Sent(p) /\ p <= at /\ MaxPauses > 0
     /\ ReadOwned(w, t, s, "finish", at,
                  [pauses |-> <<[paused_at |-> p, resumed_at |-> at]>>,
                   total |-> at - p])

\* submit_rapport: 403 for a séance of somebody else, 409 when it has a report.
\* The status of the séance is not looked at.
ReadRapport(w, t, s) ==
  /\ seances[s].teacher = t
  /\ rapports[s] = <<>>
  /\ Arrive(w, t, [Idle EXCEPT !.op = "rapport", !.teacher = t, !.ids = {s}])

\* Faulty variant: the limit itself counts as past.
EagerStale == {s \in SeanceIds : /\ seances[s].status = "en_cours"
                                 /\ seances[s].started_at + AutoCloseAfter <= now}

\* close_stale_seances selects the séances under way for more than the limit.
Stale == {s \in SeanceIds : /\ seances[s].status = "en_cours"
                            /\ seances[s].started_at + AutoCloseAfter < now}

\* Faulty variant: the forgotten séance is fetched with scalar_one.
ReadCloseSingle(w) ==
  /\ req[w] = Idle
  /\ \E s \in SeanceIds :
       /\ Stale = {s}
       /\ req' = [req EXCEPT ![w] = [Idle EXCEPT !.op = "close", !.ids = {s},
                                                 !.loaded = Load({s})]]
  /\ UNCHANGED <<parents, seances, rapports, now>>

\* An administrator lists or exports the usage logs; nothing stale, nothing to flush.
ReadClose(w) ==
  /\ req[w] = Idle
  /\ Stale # {}
  /\ req' = [req EXCEPT ![w] = [Idle EXCEPT !.op = "close", !.ids = Stale,
                                            !.loaded = Load(Stale)]]
  /\ UNCHANGED <<parents, seances, rapports, now>>

-----------------------------------------------------------------------------
(* The second half: flush and commit, from what the Read loaded *)

\* The value of a column after the flush: the UPDATE leaves it out when the value
\* assigned is the one loaded, and then another transaction's value stays.
Flushed(stored, loaded, assigned) == IF assigned = loaded THEN stored ELSE assigned

Done(w) == req' = [req EXCEPT ![w] = Idle]

\* A fresh primary key is used by no row and no request. The foreign keys want the
\* account and the program session, and the planning segment when there is one.
Insert(w, row) ==
  /\ req[w].teacher \in users /\ req[w].session \in sessions
  /\ req[w].segment \in planning \cup {NULL}
  /\ \E s \in SeanceIds : /\ seances[s].status = "absent"
                          /\ seances' = [seances EXCEPT ![s] = row]
  /\ Done(w)
  /\ UNCHANGED <<parents, rapports, now>>

CommitStart(w) ==
  /\ req[w].op = "start"
  /\ Insert(w, [NoSeance EXCEPT !.status = "en_cours", !.teacher = req[w].teacher,
                                !.session = req[w].session, !.segment = req[w].segment,
                                !.started_at = req[w].at])

CommitMissed(w) ==
  /\ req[w].op = "missed"
  /\ Insert(w, [NoSeance EXCEPT !.status = "manquee", !.teacher = req[w].teacher,
                                !.session = req[w].session, !.segment = req[w].segment,
                                !.duree = 0])

\* Faulty variants: the UPDATE of a pause writes back the loaded row, or its status.
WholeRowPause(row, loaded, r) ==
  [loaded EXCEPT !.pauses = Append(loaded.pauses, [paused_at |-> r.at, resumed_at |-> NULL])]

StatusPause(row, loaded, r) ==
  [row EXCEPT !.status = loaded.status,
              !.pauses = Append(loaded.pauses, [paused_at |-> r.at, resumed_at |-> NULL])]

\* record_pause appends an open pause to the list it loaded.
PauseRow(row, loaded, r) ==
  [row EXCEPT !.pauses = Append(loaded.pauses, [paused_at |-> r.at, resumed_at |-> NULL])]

OpenPauses(pauses) == {i \in DOMAIN pauses : pauses[i].resumed_at = NULL}

LastOpen(pauses) ==
  CHOOSE i \in OpenPauses(pauses) : \A j \in OpenPauses(pauses) : j <= i

CloseLast(pauses, at) ==
  IF OpenPauses(pauses) = {} THEN pauses
  ELSE [pauses EXCEPT ![LastOpen(pauses)].resumed_at = at]

\* Faulty variant: the max(0, ...) forgotten.
UnclampedMinutes(pauses, at) ==
  IF OpenPauses(pauses) = {} THEN 0 ELSE at - pauses[LastOpen(pauses)].paused_at

\* The time of the closed pauses of the list. No resume stores the end of a pause
\* (ResumeRow, ResumeClosesThePause), so the pauses of a séance under way are all open and
\* the sum has one term, the pause just closed (PausesOpen in module SeancesProof).
PausedMinutes(pauses, at) ==
  IF OpenPauses(pauses) = {} THEN 0
  ELSE LET lasted == at - pauses[LastOpen(pauses)].paused_at
       IN  IF lasted > 0 THEN lasted ELSE 0

\* record_resume copies the list but not the events in it: closing the last one
\* in the copy closes it in the loaded list too, and the flush sees no difference.
ResumeRow(row, loaded, r) ==
  LET assigned == CloseLast(loaded.pauses, r.at)
      mutated  == CloseLast(loaded.pauses, r.at)
  IN [row EXCEPT
        !.pauses = Flushed(@, mutated, assigned),
        !.total_paused = Flushed(@, loaded.total_paused, PausedMinutes(loaded.pauses, r.at))]

\* finish_seance: the offline pauses are taken when the loaded row has none, the
\* offline total when it has none. The device sends the time since the start.
FinishRow(row, loaded, r) ==
  [row EXCEPT
     !.status = "terminee",
     !.finished_at = r.at,
     !.duree = r.at - loaded.started_at,
     !.pauses = IF loaded.pauses = <<>> /\ r.offline.pauses # <<>>
                THEN r.offline.pauses ELSE @,
     !.total_paused = IF loaded.total_paused = NULL /\ r.offline.total # NULL
                      THEN r.offline.total ELSE @]

\* close_stale_seances ends the séance at the limit, whatever time it is.
CloseRow(row, loaded, r) ==
  [row EXCEPT
     !.status = "terminee",
     !.auto_closed = TRUE,
     !.finished_at = loaded.started_at + AutoCloseAfter,
     !.duree = AutoCloseAfter - (IF loaded.total_paused = NULL THEN 0
                                 ELSE loaded.total_paused)]

\* UPDATE by primary key: a row deleted meanwhile is not touched.
Update(w, op, NewRow(_, _, _)) ==
  /\ req[w].op = op
  /\ seances' = [s \in SeanceIds |->
                   IF s \in req[w].ids /\ Exists(s)
                   THEN NewRow(seances[s], req[w].loaded[s], req[w])
                   ELSE seances[s]]
  /\ Done(w)
  /\ UNCHANGED <<parents, rapports, now>>

CommitPause(w)  == Update(w, "pause", PauseRow)
CommitResume(w) == Update(w, "resume", ResumeRow)
CommitFinish(w) == Update(w, "finish", FinishRow)
CommitClose(w)  == Update(w, "close", CloseRow)

\* Faulty variant: seance_id not unique.
ForeignKeyOnly(s) == Exists(s)

\* The constraints of table rapports_prof: foreign key, unique seance_id.
Insertable(s) == Exists(s) /\ rapports[s] = <<>>

CommitRapport(w) ==
  /\ req[w].op = "rapport"
  /\ \E s \in req[w].ids :
       /\ Insertable(s)
       /\ rapports' = [rapports EXCEPT ![s] = Append(@, req[w].teacher)]
  /\ Done(w)
  /\ UNCHANGED <<parents, seances, now>>

\* The handler raised, a constraint refused the row, or the worker died: get_db
\* rolls back. A client that retries sends a new request.
Rollback(w) ==
  /\ req[w] # Idle
  /\ Done(w)
  /\ UNCHANGED <<parents, seances, rapports, now>>

-----------------------------------------------------------------------------
(* The environment *)

Deleted == [NoSeance EXCEPT !.status = "deleted"]

\* ON DELETE SET NULL: the row of a séance once only the segments G are left.
Detached(row, G) == IF row.segment \in G \cup {NULL} THEN row ELSE [row EXCEPT !.segment = NULL]

\* ON DELETE CASCADE: the séances S and their reports go.
Cascade(S) ==
  /\ seances' = [s \in SeanceIds |-> IF s \in S THEN Deleted
                                     ELSE Detached(seances[s], planning')]
  /\ rapports' = [s \in SeanceIds |-> IF s \in S THEN <<>> ELSE rapports[s]]
  /\ UNCHANGED <<req, now>>

\* delete_user: the account's séances and reports go with it.
DeleteTeacher(t) ==
  /\ t \in users
  /\ users' = users \ {t}
  /\ UNCHANGED <<sessions, planning>>
  /\ Cascade({s \in SeanceIds : seances[s].teacher = t})

\* delete_session: the session's séances, reports and planning go with it.
DeleteSession(p) ==
  /\ p \in sessions
  /\ sessions' = sessions \ {p}
  /\ planning' = {g \in planning : SessionOf[g] # p}
  /\ UNCHANGED users
  /\ Cascade({s \in SeanceIds : seances[s].session = p})

\* delete_segment, or the import of a planning that replaces the session's segments, all
\* or those of a week. The segments put in their place have keys of their own.
DeleteSegments(p, G) ==
  /\ G # {} /\ \A g \in G : g \in planning /\ SessionOf[g] = p
  /\ planning' = planning \ G
  /\ UNCHANGED <<users, sessions>>
  /\ Cascade({})

Tick ==
  /\ now < MaxTime
  /\ now' = now + 1
  /\ UNCHANGED <<parents, seances, rapports, req>>

Read(w) ==
  \/ \E t \in Teachers, p \in Sessions :
       \/ \E g \in StartSegments, at \in 0..now : ReadStart(w, t, p, g, at)
       \/ \E g \in Segments \cup {NULL} : ReadMissed(w, t, p, g)
  \/ \E t \in Teachers, s \in SeanceIds, at \in 0..now :
       \/ ReadPause(w, t, s, at)
       \/ ReadResume(w, t, s, at)
       \/ \E p \in 0..now : ReadFinish(w, t, s, at, p)
  \/ \E t \in Teachers, s \in SeanceIds : ReadRapport(w, t, s)
  \/ ReadClose(w)

Commit(w) ==
  \/ CommitStart(w) \/ CommitMissed(w) \/ CommitPause(w) \/ CommitResume(w)
  \/ CommitFinish(w) \/ CommitClose(w) \/ CommitRapport(w)

Next ==
  \/ \E w \in Workers : Read(w) \/ Commit(w) \/ Rollback(w)
  \/ \E t \in Teachers : DeleteTeacher(t)
  \/ \E p \in Sessions : DeleteSession(p) \/ \E G \in SUBSET Segments : DeleteSegments(p, G)
  \/ Tick

Spec == Init /\ [][Next]_vars

-----------------------------------------------------------------------------
(* Fairness *)

\* The clock runs, workers do not sit on every request for ever (some request commits
\* or rolls back), and administrators open the usage logs again and again until one
\* such request commits. The last is an assumption on people: nothing schedules it.
LazyCronFairness ==
  /\ WF_vars(Tick)
  /\ WF_vars(\E w \in Workers : Commit(w) \/ Rollback(w))
  /\ SF_vars(\E w \in Workers : ReadClose(w))
  /\ SF_vars(\E w \in Workers : CommitClose(w))

LazyCronSpec == Spec /\ LazyCronFairness

-----------------------------------------------------------------------------
(* Correctness *)

TypeOK ==
  /\ users \in SUBSET Teachers
  /\ sessions \in SUBSET Sessions
  /\ planning \in SUBSET Segments
  /\ seances \in [SeanceIds -> Seance]
  /\ rapports \in [SeanceIds -> Seq(Teachers)]
  /\ req \in [Workers -> Request]
  /\ now \in Nat

Owned(row) == row.teacher \in Teachers /\ row.session \in Sessions

RunningShape(row) ==
  /\ Owned(row) /\ row.started_at # NULL
  /\ row.finished_at = NULL /\ row.duree = NULL /\ ~row.auto_closed

EndedShape(row) ==
  /\ Owned(row) /\ row.started_at # NULL
  /\ row.finished_at # NULL /\ row.duree # NULL

MissedShape(row) ==
  /\ Owned(row)
  /\ row = [NoSeance EXCEPT !.status = "manquee", !.teacher = row.teacher,
                            !.session = row.session, !.segment = row.segment, !.duree = 0]

RowShape(row) ==
  /\ row.status = "en_cours" => RunningShape(row)
  /\ row.status = "terminee" => EndedShape(row)
  /\ row.status = "manquee"  => MissedShape(row)
  /\ row.auto_closed => row.status = "terminee"
  /\ row.status \in {"absent", "deleted"} => row.teacher = NULL /\ row.session = NULL

\* However the column-wise writes of racing requests mix, a row never mixes two lives:
\* no end, duration or mark of the cron on a séance under way, no ended séance without its
\* end, nothing of a timer on a missed one (models/seance.py, the writes of
\* seance_service). Whether its pauses are closed is the matter of ResumeClosesThePause.
SeanceShape == \A s \in SeanceIds : RowShape(seances[s])

\* However many submissions race, a séance has at most one report, written by the
\* teacher of that séance, and no report outlives it (submit_rapport, rapports_prof).
OneRapportByOwner ==
  \A s \in SeanceIds :
    /\ Len(rapports[s]) <= 1
    /\ rapports[s] # <<>> => Exists(s) /\ rapports[s][1] = seances[s].teacher

\* A séance closed by the lazy cron was under way for longer than AUTO_CLOSE_AFTER,
\* even when the cron worked from rows loaded before a pause or a finish.
AutoClosedWhenOverdue ==
  \A s \in SeanceIds :
    seances[s].auto_closed => seances[s].started_at + AutoCloseAfter < now

Updates == {"pause", "resume", "finish", "close"}

\* What request r may still rely on at its commit, whatever was committed meanwhile.
RequestOK(r) ==
  /\ r.op \in {"start", "pause", "resume", "finish"} => r.at \in Nat
  /\ r.op \in {"start", "missed", "rapport"} => r.teacher \in Teachers
  /\ r.op \in Updates => \A s \in r.ids :
       /\ r.loaded[s].status = "en_cours" /\ RunningShape(r.loaded[s])
       /\ seances[s].status \in {"en_cours", "terminee", "deleted"}
       /\ Exists(s) => seances[s].started_at = r.loaded[s].started_at
  /\ r.op = "close" => \A s \in r.ids :
       r.loaded[s].started_at + AutoCloseAfter < now
  /\ r.op = "rapport" => \A s \in r.ids :
       /\ seances[s].status # "absent"
       /\ Exists(s) => seances[s].teacher = r.teacher

\* A pause, resume, finish or close only ever reaches a séance that was under way when
\* it was read, kept its start, and is now under way, over or deleted; a report only a
\* séance of its author: the checks of the handlers outlive the race to the commit.
RequestShape == \A w \in Workers : RequestOK(req[w])

\* A séance that is over changes in three ways only: it goes with its teacher or with its
\* program session; it loses the mention of a planning segment that is deleted; or a
\* request that loaded it while it was under way commits after its end, and then it had
\* been started. The status checks of pause, resume, finish and of the cron's SELECT, and
\* the foreign keys of models/seance.py, leave no other.
EndedChangesOnlyByOverlap ==
  [][\A s \in SeanceIds :
       seances[s].status \in {"terminee", "manquee"} /\ seances'[s] # seances[s] =>
         \/ /\ seances'[s].status = "deleted"
            /\ seances[s].teacher \notin users' \/ seances[s].session \notin sessions'
         \/ /\ seances'[s] = [seances[s] EXCEPT !.segment = NULL]
            /\ seances[s].segment \notin planning'
         \/ /\ seances[s].status = "terminee"
            /\ \E w \in Workers : /\ s \in req[w].ids
                                  /\ req[w].loaded[s].status = "en_cours"
                                  /\ req'[w] = Idle]_vars

\* Two requests of one teacher to start a séance are being served together.
OverlappingStarts ==
  \E v, w \in Workers :
    v # w /\ req[v].op = "start" /\ req[w].op = "start" /\ req[v].teacher = req[w].teacher

\* "Lève 409 si une séance est déjà en cours": one séance under way per teacher.
OneActive ==
  \A r, s \in SeanceIds :
    /\ seances[r].status = "en_cours" /\ seances[s].status = "en_cours"
    /\ seances[r].teacher = seances[s].teacher
    => r = s

\* Two reports of one missed segment are being served together.
OverlappingReports ==
  \E v, w \in Workers :
    /\ v # w /\ req[v].op = "missed" /\ req[w].op = "missed"
    /\ req[v].teacher = req[w].teacher /\ req[v].segment = req[w].segment

\* "Idempotent : si une séance manquée existe déjà pour ce segment ce jour-là, retourne
\* l'existante".
MissedOncePerSegment ==
  \A r, s \in SeanceIds :
    /\ seances[r].status = "manquee" /\ seances[s].status = "manquee"
    /\ seances[r].teacher = seances[s].teacher
    /\ seances[r].segment = seances[s].segment /\ seances[r].segment # NULL
    => r = s

OneActiveIfStartsSerial == [](~OverlappingStarts) => []OneActive
MissedOnceIfReportsSerial == [](~OverlappingReports) => []MissedOncePerSegment

\* If a teacher's starts never overlap then, whatever the other requests do meanwhile, a
\* teacher never has two séances under way (check of start_seance); and if the reports of a
\* missed segment never overlap, it has one row (check of report_missed_seance).
ChecksHoldIfSerial == OneActiveIfStartsSerial /\ MissedOnceIfReportsSerial

\* Every séance ends once the limit is past, if administrators keep looking:
\* no pause, stale request or rollback keeps it under way for ever (close_stale_seances).
ForgottenSeancesEnd ==
  \A s \in SeanceIds : seances[s].status = "en_cours" ~> seances[s].status # "en_cours"

Phase == [absent |-> "absent", en_cours |-> "running", terminee |-> "ended",
          manquee |-> "missed", deleted |-> "deleted"]

Lifecycle == INSTANCE SeanceLifecycle WITH
  phase <- [s \in SeanceIds |-> Phase[seances[s].status]],
  filed <- {s \in SeanceIds : rapports[s] # <<>>}

\* The tables keep the promises of SeanceLifecycle: whatever requests race, a séance
\* never starts again once over and is reported on at most once.
ImplementsLifecycle == Lifecycle!Spec

-----------------------------------------------------------------------------
(* What the code's documentation says and the code does not do *)

\* seance_service.py, record_resume: "Ferme le dernier événement de pause
\* (resumed_at)": once a resume is committed, no pause of the séance is open.
ResumeClosesThePause ==
  [][\A w \in Workers, s \in SeanceIds :
       CommitResume(w) /\ s \in req[w].ids /\ Exists(s)
         => OpenPauses(seances'[s].pauses) = {}]_vars
=============================================================================
