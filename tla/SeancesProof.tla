--------------------------- MODULE SeancesProof ---------------------------
(***************************************************************************)
(* Theorems about module Seances, for every set of teachers, keys, workers *)
(* and every bound.                                                        *)
(***************************************************************************)
EXTENDS Seances, TLAPS

AllOpen(pauses) == \A i \in DOMAIN pauses : pauses[i].resumed_at = NULL

\* Every pause of a séance under way, stored or loaded by a request, is open: not what
\* record_resume is written for (ResumeClosesThePause), but what it comes to, and what
\* lets PausedMinutes sum one pause.
PausesOpen ==
  /\ \A s \in SeanceIds : seances[s].status = "en_cours" => AllOpen(seances[s].pauses)
  /\ \A w \in Workers : req[w].op \in Updates =>
       \A s \in req[w].ids : AllOpen(req[w].loaded[s].pauses)

\* The inductive invariant. RequestShape carries what a Read established up to the
\* Commit that relies on it; the other conjuncts are the properties themselves, and the
\* fact about pauses that types the total a resume computes.
IInv == /\ TypeOK
        /\ SeanceShape
        /\ PausesOpen
        /\ OneRapportByOwner
        /\ AutoClosedWhenOverdue
        /\ RequestShape

-----------------------------------------------------------------------------
(* Rows: what a commit writes *)

\* The empty row is a row.
LEMMA NoSeanceType == NoSeance \in Seance
  BY SeancesAssumption DEF NoSeance, Seance, Statuses, Pause

\* An idle worker is a request record.
LEMMA IdleType == Idle \in Request
  BY NoSeanceType DEF Idle, Request, Ops, NoOffline, Offline

\* What a SELECT of the rows S loads is a table of rows.
LEMMA LoadType ==
  ASSUME TypeOK, NEW S
  PROVE  Load(S) \in [SeanceIds -> Seance]
  BY NoSeanceType DEF TypeOK, Load

\* While all its pauses are open, the pause a resume closes is the last one.
LEMMA LastOpenIsLast ==
  ASSUME NEW pauses \in Seq(Pause), AllOpen(pauses), pauses # <<>>
  PROVE  LastOpen(pauses) = Len(pauses)
<1>1. OpenPauses(pauses) = 1..Len(pauses)
  BY DEF OpenPauses, AllOpen
<1>2. Len(pauses) \in 1..Len(pauses)
  OBVIOUS
<1>3. \A i \in 1..Len(pauses) : (\A j \in 1..Len(pauses) : j <= i) => i = Len(pauses)
  BY <1>2
<1>. QED
  BY <1>1, <1>2, <1>3 DEF LastOpen

\* record_resume's total is a natural number, or 0 when there is nothing to close.
LEMMA PausedMinutesType ==
  ASSUME NEW pauses \in Seq(Pause), AllOpen(pauses), NEW at \in Nat
  PROVE  PausedMinutes(pauses, at) \in Nat
<1>1. CASE pauses = <<>>
  BY <1>1 DEF PausedMinutes, OpenPauses
<1>2. CASE pauses # <<>>
  <2>1. pauses[LastOpen(pauses)] \in Pause
    BY <1>2, LastOpenIsLast
  <2>2. pauses[LastOpen(pauses)].paused_at \in Nat
    BY <2>1 DEF Pause
  <2>. QED
    BY <2>2 DEF PausedMinutes
<1>. QED
  BY <1>1, <1>2

\* A row that carries an arbitrary well-typed pause list is well typed.
LEMMA PauseRowType ==
  ASSUME NEW row \in Seance, NEW loaded \in Seance, NEW r \in Request, r.at \in Nat
  PROVE  PauseRow(row, loaded, r) \in Seance
<1>1. [paused_at |-> r.at, resumed_at |-> NULL] \in Pause
  BY DEF Pause
<1>2. Append(loaded.pauses, [paused_at |-> r.at, resumed_at |-> NULL]) \in Seq(Pause)
  BY <1>1 DEF Seance
<1>. QED
  BY <1>2 DEF PauseRow, Seance

\* The UPDATE of a resume leaves a row of the right type.
LEMMA ResumeRowType ==
  ASSUME NEW row \in Seance, NEW loaded \in Seance, NEW r \in Request, r.at \in Nat,
         AllOpen(loaded.pauses)
  PROVE  /\ ResumeRow(row, loaded, r) \in Seance
         /\ ResumeRow(row, loaded, r).pauses = row.pauses
<1>1. PausedMinutes(loaded.pauses, r.at) \in Nat
  BY PausedMinutesType DEF Seance
<1>2. Flushed(row.total_paused, loaded.total_paused, PausedMinutes(loaded.pauses, r.at))
        \in Nat \cup {NULL}
  BY <1>1 DEF Flushed, Seance
<1>3. Flushed(row.pauses, CloseLast(loaded.pauses, r.at), CloseLast(loaded.pauses, r.at))
        = row.pauses
  BY DEF Flushed
<1>. QED
  BY <1>2, <1>3 DEF ResumeRow, Seance

\* The UPDATE of a finish leaves a row of the right type.
LEMMA FinishRowType ==
  ASSUME NEW row \in Seance, NEW loaded \in Seance, NEW r \in Request,
         r.at \in Nat, loaded.started_at \in Nat
  PROVE  FinishRow(row, loaded, r) \in Seance
<1>. DEFINE p  == IF loaded.pauses = <<>> /\ r.offline.pauses # <<>>
                  THEN r.offline.pauses ELSE row.pauses
            tp == IF loaded.total_paused = NULL /\ r.offline.total # NULL
                  THEN r.offline.total ELSE row.total_paused
            d  == r.at - loaded.started_at
<1>1. r.offline.pauses \in Seq(Pause) /\ r.offline.total \in Nat \cup {NULL}
  BY DEF Request, Offline
<1>2. p \in Seq(Pause) /\ tp \in Nat \cup {NULL}
  BY <1>1 DEF Seance
<1>3. "terminee" \in Statuses /\ d \in Int
  BY DEF Statuses
<1>4. FinishRow(row, loaded, r) =
        [row EXCEPT !.status = "terminee", !.finished_at = r.at,
                    !.duree = d, !.pauses = p, !.total_paused = tp]
  BY DEF FinishRow
<1>. HIDE DEF p, tp, d
<1>. QED
  BY <1>2, <1>3, <1>4 DEF Seance

\* The UPDATE of the lazy cron leaves a row of the right type.
LEMMA CloseRowType ==
  ASSUME NEW row \in Seance, NEW loaded \in Seance, NEW r \in Request,
         loaded.started_at \in Nat
  PROVE  CloseRow(row, loaded, r) \in Seance
<1>. DEFINE d == AutoCloseAfter - (IF loaded.total_paused = NULL THEN 0
                                   ELSE loaded.total_paused)
<1>1. loaded.total_paused \in Nat \cup {NULL}
  BY DEF Seance
<1>2. AutoCloseAfter \in Nat
  BY SeancesAssumption
<1>. DEFINE f == loaded.started_at + AutoCloseAfter
<1>3. d \in Int /\ f \in Nat
  BY <1>1, <1>2
<1>4. "terminee" \in Statuses
  BY DEF Statuses
<1>5. CloseRow(row, loaded, r) =
        [row EXCEPT !.status = "terminee", !.auto_closed = TRUE,
                    !.finished_at = f, !.duree = d]
  BY DEF CloseRow
<1>. HIDE DEF d, f
<1>. QED
  BY <1>3, <1>4, <1>5 DEF Seance

-----------------------------------------------------------------------------
(* What a commit may do to a row *)

GoodChange(old, new) ==
  /\ old.status \in {"en_cours", "terminee"}
  /\ new.status \in {old.status, "terminee"}
  /\ new.teacher = old.teacher /\ new.started_at = old.started_at
  /\ RowShape(new)
  /\ new.status = "en_cours" => AllOpen(new.pauses)
  /\ new.auto_closed => old.auto_closed \/ new.started_at + AutoCloseAfter < now

\* The row the request w works on, and what IInv says of it.
LEMMA Target ==
  ASSUME IInv, NEW w \in Workers, req[w].op \in Updates,
         NEW s \in SeanceIds, s \in req[w].ids, Exists(s)
  PROVE  /\ req[w] \in Request /\ seances[s] \in Seance /\ req[w].loaded[s] \in Seance
         /\ req[w].op # "close" => req[w].at \in Nat
         /\ req[w].loaded[s].started_at \in Nat
         /\ AllOpen(req[w].loaded[s].pauses)
         /\ seances[s].status \in {"en_cours", "terminee"}
         /\ seances[s].started_at = req[w].loaded[s].started_at
         /\ seances[s].status = "en_cours" => RunningShape(seances[s]) /\ AllOpen(seances[s].pauses)
         /\ seances[s].status = "terminee" => EndedShape(seances[s])
         /\ seances[s].auto_closed => seances[s].status = "terminee"
         /\ req[w].op = "close" => seances[s].started_at + AutoCloseAfter < now
<1>1. req[w] \in Request /\ seances[s] \in Seance
  BY DEF IInv, TypeOK
<1>2. req[w].loaded[s] \in Seance
  BY <1>1 DEF Request
<1>3. RequestOK(req[w])
  BY DEF IInv, RequestShape
<1>4. RunningShape(req[w].loaded[s])
  BY <1>3 DEF RequestOK
<1>5. req[w].loaded[s].started_at \in Nat
  BY <1>2, <1>4 DEF RunningShape, Seance
<1>6. AllOpen(req[w].loaded[s].pauses)
  BY DEF IInv, PausesOpen
<1>7. /\ seances[s].status \in {"en_cours", "terminee"}
      /\ seances[s].started_at = req[w].loaded[s].started_at
      /\ req[w].op = "close" => seances[s].started_at + AutoCloseAfter < now
      /\ req[w].op # "close" => req[w].at \in Nat
  BY <1>3 DEF RequestOK, Exists, Updates
<1>. QED
  BY <1>1, <1>2, <1>5, <1>6, <1>7 DEF IInv, SeanceShape, RowShape, PausesOpen

\* An open pause added to open pauses.
LEMMA AppendOpen ==
  ASSUME NEW p \in Seq(Pause), AllOpen(p), NEW e, e.resumed_at = NULL
  PROVE  AllOpen(Append(p, e))
<1> SUFFICES ASSUME NEW i \in DOMAIN Append(p, e)
             PROVE  Append(p, e)[i].resumed_at = NULL
  BY DEF AllOpen
<1>1. i \in 1..(Len(p) + 1)
  OBVIOUS
<1>2. CASE i = Len(p) + 1
  BY <1>2
<1>3. CASE i # Len(p) + 1
  <2>1. i \in DOMAIN p /\ Append(p, e)[i] = p[i]
    BY <1>1, <1>3
  <2>. QED
    BY <2>1 DEF AllOpen
<1>. QED
  BY <1>2, <1>3

\* A pause committed on any row that is under way or over keeps its shape.
LEMMA PauseGood ==
  ASSUME IInv, NEW w \in Workers, req[w].op = "pause",
         NEW s \in SeanceIds, s \in req[w].ids, Exists(s)
  PROVE  LET row == PauseRow(seances[s], req[w].loaded[s], req[w])
         IN  row \in Seance /\ GoodChange(seances[s], row)
<1>. DEFINE old == seances[s]  loaded == req[w].loaded[s]  r == req[w]
            row == PauseRow(old, loaded, r)
<1>1. req[w].op \in Updates
  BY DEF Updates
<1>2. row \in Seance
  BY <1>1, Target, PauseRowType
<1>3. /\ row.status = old.status /\ row.teacher = old.teacher /\ row.session = old.session
      /\ row.started_at = old.started_at /\ row.finished_at = old.finished_at
      /\ row.duree = old.duree /\ row.auto_closed = old.auto_closed
      /\ row.pauses = Append(loaded.pauses, [paused_at |-> r.at, resumed_at |-> NULL])
  BY <1>1, Target DEF PauseRow, Seance
<1>4. AllOpen(row.pauses)
  <2>1. loaded.pauses \in Seq(Pause) /\ AllOpen(loaded.pauses)
    BY <1>1, Target DEF Seance
  <2>2. PICK e : e = [paused_at |-> r.at, resumed_at |-> NULL]
    OBVIOUS
  <2>3. AllOpen(Append(loaded.pauses, e))
    BY <2>1, <2>2, AppendOpen
  <2>. QED
    BY <1>3, <2>2, <2>3
<1>. QED
  BY <1>1, <1>2, <1>3, <1>4, Target DEF GoodChange, RowShape, RunningShape, EndedShape, Owned

\* So does a resume: the pauses column is not written at all.
LEMMA ResumeGood ==
  ASSUME IInv, NEW w \in Workers, req[w].op = "resume",
         NEW s \in SeanceIds, s \in req[w].ids, Exists(s)
  PROVE  LET row == ResumeRow(seances[s], req[w].loaded[s], req[w])
         IN  row \in Seance /\ GoodChange(seances[s], row)
<1>. DEFINE old == seances[s]  loaded == req[w].loaded[s]  r == req[w]
            row == ResumeRow(old, loaded, r)
<1>1. req[w].op \in Updates
  BY DEF Updates
<1>2. row \in Seance /\ row.pauses = old.pauses
  BY <1>1, Target, ResumeRowType
<1>3. /\ row.status = old.status /\ row.teacher = old.teacher /\ row.session = old.session
      /\ row.started_at = old.started_at /\ row.finished_at = old.finished_at
      /\ row.duree = old.duree /\ row.auto_closed = old.auto_closed
  BY <1>1, Target DEF ResumeRow, Seance
<1>. QED
  BY <1>1, <1>2, <1>3, Target DEF GoodChange, RowShape, RunningShape, EndedShape, Owned

\* A finish makes an ended row of the row it finds, whatever was loaded.
LEMMA FinishGood ==
  ASSUME IInv, NEW w \in Workers, req[w].op = "finish",
         NEW s \in SeanceIds, s \in req[w].ids, Exists(s)
  PROVE  LET row == FinishRow(seances[s], req[w].loaded[s], req[w])
         IN  row \in Seance /\ GoodChange(seances[s], row)
<1>. DEFINE old == seances[s]  loaded == req[w].loaded[s]  r == req[w]
            row == FinishRow(old, loaded, r)
<1>1. req[w].op \in Updates
  BY DEF Updates
<1>2. row \in Seance
  BY <1>1, Target, FinishRowType
<1>3. /\ row.status = "terminee" /\ row.teacher = old.teacher /\ row.session = old.session
      /\ row.started_at = old.started_at /\ row.finished_at = r.at
      /\ row.duree = r.at - loaded.started_at /\ row.auto_closed = old.auto_closed
  BY <1>1, Target DEF FinishRow, Seance
<1>4. Owned(old) /\ old.started_at # NULL
  BY <1>1, Target DEF RunningShape, EndedShape
<1>5. row.finished_at # NULL /\ row.duree # NULL
  BY <1>1, <1>3, Target, SeancesAssumption
<1>. QED
  BY <1>1, <1>2, <1>3, <1>4, <1>5, Target DEF GoodChange, RowShape, EndedShape, Owned

\* So does the lazy cron, and the row it closes is overdue.
LEMMA CloseGood ==
  ASSUME IInv, NEW w \in Workers, req[w].op = "close",
         NEW s \in SeanceIds, s \in req[w].ids, Exists(s)
  PROVE  LET row == CloseRow(seances[s], req[w].loaded[s], req[w])
         IN  row \in Seance /\ GoodChange(seances[s], row)
<1>. DEFINE old == seances[s]  loaded == req[w].loaded[s]  r == req[w]
            row == CloseRow(old, loaded, r)
            d == AutoCloseAfter - (IF loaded.total_paused = NULL THEN 0
                                   ELSE loaded.total_paused)
<1>1. req[w].op \in Updates
  BY DEF Updates
<1>2. row \in Seance
  BY <1>1, Target, CloseRowType
<1>3. /\ row.status = "terminee" /\ row.teacher = old.teacher /\ row.session = old.session
      /\ row.started_at = old.started_at /\ row.duree = d
      /\ row.finished_at = loaded.started_at + AutoCloseAfter
  BY <1>1, Target DEF CloseRow, Seance
<1>4. Owned(old) /\ old.started_at # NULL
  BY <1>1, Target DEF RunningShape, EndedShape
<1>5. d \in Int /\ loaded.started_at + AutoCloseAfter \in Int
  <2>1. loaded.total_paused \in Nat \cup {NULL} /\ loaded.started_at \in Nat
    BY <1>1, Target DEF Seance
  <2>. QED
    BY <2>1, SeancesAssumption
<1>6. row.finished_at # NULL /\ row.duree # NULL
  BY <1>3, <1>5, SeancesAssumption
<1>. QED
  BY <1>1, <1>2, <1>3, <1>4, <1>6, Target DEF GoodChange, RowShape, EndedShape, Owned

-----------------------------------------------------------------------------
(* How a step keeps the invariant: one lemma per way of changing the state *)

\* Only a request changes: a Read, or the end of a request.
LEMMA RequestStep ==
  ASSUME IInv, NEW w \in Workers, NEW r \in Request, RequestOK(r),
         r.op \in Updates => \A s \in r.ids : AllOpen(r.loaded[s].pauses),
         req' = [req EXCEPT ![w] = r], UNCHANGED <<parents, seances, rapports, now>>
  PROVE  IInv'
<1>1. TypeOK'
  BY DEF IInv, TypeOK, parents
<1>2. SeanceShape' /\ OneRapportByOwner' /\ AutoClosedWhenOverdue' /\ PausesOpen'
  BY DEF IInv, TypeOK, SeanceShape, OneRapportByOwner, AutoClosedWhenOverdue, PausesOpen, Exists
<1>3. RequestShape'
  <2>. SUFFICES ASSUME NEW v \in Workers PROVE RequestOK(req[v])'
    BY DEF RequestShape
  <2>1. req'[v] = IF v = w THEN r ELSE req[v]
    BY DEF IInv, TypeOK
  <2>2. RequestOK(req'[v])
    BY <2>1 DEF IInv, RequestShape
  <2>. QED
    BY <2>2 DEF RequestOK, Exists
<1>. QED
  BY <1>1, <1>2, <1>3 DEF IInv

\* An idle worker relies on nothing.
LEMMA IdleOK == RequestOK(Idle) /\ Idle.op \notin Updates
  BY DEF RequestOK, Idle, Updates

\* A rollback keeps the inductive invariant.
LEMMA RollbackStep ==
  ASSUME IInv, NEW w \in Workers, Rollback(w)
  PROVE  IInv'
  BY IdleType, IdleOK, RequestStep DEF Rollback, Done

\* The requests still pending when the rows change the way GoodChange says.
LEMMA RequestsSurvive ==
  ASSUME IInv, NEW r \in Request, RequestOK(r),
         \A s \in SeanceIds : seances'[s] # seances[s] => GoodChange(seances[s], seances'[s]),
         now' = now
  PROVE  RequestOK(r)'
<1>1. ASSUME NEW s \in SeanceIds
      PROVE  /\ seances[s].status # "absent" => seances'[s].status # "absent"
             /\ seances[s].status \in {"en_cours", "terminee", "deleted"}
                  => seances'[s].status \in {"en_cours", "terminee", "deleted"}
             /\ Exists(s)' => /\ Exists(s)
                              /\ seances'[s].started_at = seances[s].started_at
                              /\ seances'[s].teacher = seances[s].teacher
  BY DEF GoodChange, Exists
<1>2. r.ids \subseteq SeanceIds
  BY DEF Request
<1>. QED
  BY <1>1, <1>2 DEF RequestOK, RunningShape

\* The end of a pause, resume, finish or close.
LEMMA UpdateStep ==
  ASSUME IInv, NEW w \in Workers, Done(w), UNCHANGED <<parents, rapports, now>>,
         seances' \in [SeanceIds -> Seance],
         \A s \in SeanceIds : seances'[s] # seances[s] => GoodChange(seances[s], seances'[s])
  PROVE  IInv'
<1>1. TypeOK'
  BY IdleType DEF IInv, TypeOK, Done, parents
<1>2. SeanceShape' /\ PausesOpen'
  BY IdleOK DEF IInv, TypeOK, Done, SeanceShape, PausesOpen, GoodChange
<1>3. OneRapportByOwner'
  BY DEF IInv, OneRapportByOwner, Exists, GoodChange
<1>4. AutoClosedWhenOverdue'
  BY DEF IInv, AutoClosedWhenOverdue, GoodChange
<1>5. RequestShape'
  <2>. SUFFICES ASSUME NEW v \in Workers PROVE RequestOK(req[v])'
    BY DEF RequestShape
  <2>1. req'[v] = IF v = w THEN Idle ELSE req[v]
    BY DEF IInv, TypeOK, Done
  <2>2. req'[v] \in Request /\ RequestOK(req'[v])
    BY <2>1, IdleType, IdleOK DEF IInv, RequestShape, TypeOK
  <2>3. PICK r \in Request : r = req'[v] /\ RequestOK(r)
    BY <2>2
  <2>4. RequestOK(r)'
    BY <2>3, RequestsSurvive
  <2>. QED
    BY <2>3, <2>4
<1>. QED
  BY <1>1, <1>2, <1>3, <1>4, <1>5 DEF IInv

\* A row appears under a key no row and no pending request uses.
LEMMA InsertStep ==
  ASSUME IInv, NEW w \in Workers, NEW row \in Seance, Insert(w, row),
         row.status \in {"en_cours", "manquee"}, ~row.auto_closed, RowShape(row),
         row.pauses = <<>>
  PROVE  IInv'
<1>1. PICK s \in SeanceIds : seances[s].status = "absent" /\ seances' = [seances EXCEPT ![s] = row]
  BY DEF Insert
<1>2. Done(w) /\ UNCHANGED <<parents, rapports, now>>
  BY DEF Insert
<1>3. \A q \in SeanceIds : seances'[q] = IF q = s THEN row ELSE seances[q]
  BY <1>1 DEF IInv, TypeOK
<1>4. TypeOK'
  BY <1>1, <1>2, IdleType DEF IInv, TypeOK, Done, parents
<1>5. SeanceShape' /\ PausesOpen'
  BY <1>2, <1>3, IdleOK DEF IInv, TypeOK, Done, SeanceShape, PausesOpen, AllOpen
<1>6. OneRapportByOwner'
  BY <1>1, <1>2, <1>3 DEF IInv, OneRapportByOwner, Exists
<1>7. AutoClosedWhenOverdue'
  BY <1>2, <1>3 DEF IInv, AutoClosedWhenOverdue
<1>8. RequestShape'
  <2>. SUFFICES ASSUME NEW v \in Workers PROVE RequestOK(req[v])'
    BY DEF RequestShape
  <2>1. req'[v] = IF v = w THEN Idle ELSE req[v]
    BY <1>2 DEF IInv, TypeOK, Done
  <2>2. req'[v] \in Request /\ RequestOK(req'[v])
    BY <2>1, IdleType, IdleOK DEF IInv, RequestShape, TypeOK
  <2>3. req'[v].ids \subseteq SeanceIds
    BY <2>2 DEF Request
  <2>. QED
    BY <1>1, <1>2, <1>3, <2>2, <2>3 DEF RequestOK, RunningShape, Exists, Updates
<1>. QED
  BY <1>4, <1>5, <1>6, <1>7, <1>8 DEF IInv

\* The INSERT of a report keeps it: foreign key and unique seance_id.
LEMMA CommitRapportStep ==
  ASSUME IInv, NEW w \in Workers, CommitRapport(w)
  PROVE  IInv'
<1>1. PICK s \in req[w].ids : /\ Insertable(s)
                              /\ rapports' = [rapports EXCEPT ![s] = Append(@, req[w].teacher)]
  BY DEF CommitRapport
<1>2. Done(w) /\ UNCHANGED <<parents, seances, now>> /\ req[w].op = "rapport"
  BY DEF CommitRapport
<1>3. req[w] \in Request /\ s \in SeanceIds /\ req[w].teacher \in Teachers
  BY <1>2 DEF IInv, TypeOK, Request, RequestShape, RequestOK
<1>4. Exists(s) /\ rapports[s] = <<>> /\ seances[s].teacher = req[w].teacher
  BY <1>1, <1>2, <1>3 DEF Insertable, IInv, RequestShape, RequestOK
<1>5. \A q \in SeanceIds : rapports'[q] = IF q = s THEN <<req[w].teacher>> ELSE rapports[q]
  BY <1>1, <1>3, <1>4 DEF IInv, TypeOK
<1>6. TypeOK'
  BY <1>1, <1>2, <1>3, <1>5, IdleType DEF IInv, TypeOK, Done, parents
<1>7. OneRapportByOwner'
  <2>1. Len(<<req[w].teacher>>) <= 1 /\ <<req[w].teacher>>[1] = req[w].teacher
    OBVIOUS
  <2>. QED
    BY <1>2, <1>4, <1>5, <2>1 DEF IInv, OneRapportByOwner, Exists
<1>8. SeanceShape' /\ AutoClosedWhenOverdue' /\ PausesOpen'
  BY <1>2, IdleOK DEF IInv, TypeOK, Done, SeanceShape, AutoClosedWhenOverdue, PausesOpen
<1>9. RequestShape'
  <2>. SUFFICES ASSUME NEW v \in Workers PROVE RequestOK(req[v])'
    BY DEF RequestShape
  <2>1. req'[v] = IF v = w THEN Idle ELSE req[v]
    BY <1>2 DEF IInv, TypeOK, Done
  <2>2. RequestOK(req'[v])
    BY <2>1, IdleOK DEF IInv, RequestShape
  <2>. QED
    BY <1>2, <2>2 DEF RequestOK, Exists
<1>. QED
  BY <1>6, <1>7, <1>8, <1>9 DEF IInv

\* A row that loses the mention of its segment keeps its type and its shape.
LEMMA DetachedRow ==
  ASSUME NEW row \in Seance, RowShape(row), NEW G
  PROVE  /\ Detached(row, G) \in Seance /\ RowShape(Detached(row, G))
         /\ Detached(row, G).status = row.status /\ Detached(row, G).teacher = row.teacher
         /\ Detached(row, G).started_at = row.started_at
         /\ Detached(row, G).auto_closed = row.auto_closed
         /\ Detached(row, G).pauses = row.pauses
<1>1. CASE row.segment \in G \cup {NULL}
  BY <1>1 DEF Detached
<1>2. CASE row.segment \notin G \cup {NULL}
  <2>. DEFINE new == [row EXCEPT !.segment = NULL]
  <2>1. new \in Seance
    BY DEF Seance
  <2>2. /\ new.status = row.status /\ new.teacher = row.teacher /\ new.session = row.session
        /\ new.started_at = row.started_at /\ new.finished_at = row.finished_at
        /\ new.duree = row.duree /\ new.pauses = row.pauses
        /\ new.auto_closed = row.auto_closed
    BY DEF Seance
  <2>3. MissedShape(row) => MissedShape(new)
    <3>. SUFFICES ASSUME MissedShape(row)
                  PROVE  MissedShape(new)
      OBVIOUS
    <3>1. row = [NoSeance EXCEPT !.status = "manquee", !.teacher = row.teacher,
                                 !.session = row.session, !.segment = row.segment, !.duree = 0]
      BY DEF MissedShape
    <3>2. new = [NoSeance EXCEPT !.status = "manquee", !.teacher = row.teacher,
                                 !.session = row.session, !.segment = NULL, !.duree = 0]
      BY <3>1, Zenon DEF NoSeance
    <3>3. new.segment = NULL
      BY DEF Seance
    <3>. HIDE DEF new
    <3>. QED
      BY <2>2, <3>2, <3>3, Zenon DEF MissedShape, Owned
  <2>4. Detached(row, G) = new
    BY <1>2 DEF Detached
  <2>. HIDE DEF new
  <2>5. RowShape(new)
    BY <2>2, <2>3 DEF RowShape, RunningShape, EndedShape, Owned
  <2>. QED
    BY <2>1, <2>2, <2>4, <2>5
<1>. QED
  BY <1>1, <1>2

\* The row that stands for a deleted séance.
LEMMA DeletedRow ==
  /\ Deleted \in Seance /\ Deleted.status = "deleted" /\ ~Deleted.auto_closed
  /\ Deleted.teacher = NULL /\ Deleted.session = NULL
  BY NoSeanceType DEF Deleted, Seance, Statuses, NoSeance

\* What a deletion that takes the séances S along leaves of each row and report.
LEMMA CascadeEffect ==
  ASSUME TypeOK, SeanceShape, NEW S, Cascade(S)
  PROVE  /\ seances' \in [SeanceIds -> Seance]
         /\ \A s \in SeanceIds :
              /\ RowShape(seances'[s])
              /\ s \in S => seances'[s] = Deleted /\ rapports'[s] = <<>>
              /\ s \notin S => /\ seances'[s] = Detached(seances[s], planning')
                              /\ seances'[s].status = seances[s].status
                              /\ seances'[s].teacher = seances[s].teacher
                              /\ seances'[s].started_at = seances[s].started_at
                              /\ seances'[s].auto_closed = seances[s].auto_closed
                              /\ seances'[s].pauses = seances[s].pauses
                              /\ rapports'[s] = rapports[s]
<1>1. \A s \in SeanceIds :
        seances'[s] = IF s \in S THEN Deleted ELSE Detached(seances[s], planning')
  BY DEF Cascade
<1>2. \A s \in SeanceIds : rapports'[s] = IF s \in S THEN <<>> ELSE rapports[s]
  BY DEF Cascade
<1>3. RowShape(Deleted)
  BY DeletedRow DEF RowShape
<1>4. \A s \in SeanceIds : seances[s] \in Seance /\ RowShape(seances[s])
  BY DEF TypeOK, SeanceShape
<1>5. seances' = [s \in SeanceIds |-> seances'[s]]
  BY DEF Cascade
<1>. QED
  BY <1>1, <1>2, <1>3, <1>4, <1>5, DeletedRow, DetachedRow

\* The deletion of an account, a session or segments keeps it: what goes takes its
\* reports along, what stays loses at most the mention of a segment.
LEMMA CascadeStep ==
  ASSUME IInv, NEW S, Cascade(S),
         users' \in SUBSET Teachers, sessions' \in SUBSET Sessions, planning' \in SUBSET Segments
  PROVE  IInv'
<1>1. req' = req /\ now' = now
  BY DEF Cascade
<1>2. /\ seances' \in [SeanceIds -> Seance]
      /\ \A s \in SeanceIds :
           /\ RowShape(seances'[s])
           /\ s \in S => seances'[s] = Deleted /\ rapports'[s] = <<>>
           /\ s \notin S => /\ seances'[s].status = seances[s].status
                           /\ seances'[s].teacher = seances[s].teacher
                           /\ seances'[s].started_at = seances[s].started_at
                           /\ seances'[s].auto_closed = seances[s].auto_closed
                           /\ seances'[s].pauses = seances[s].pauses
                           /\ rapports'[s] = rapports[s]
  BY CascadeEffect DEF IInv
<1>4. TypeOK'
  <2>1. rapports' \in [SeanceIds -> Seq(Teachers)]
    BY DEF Cascade, IInv, TypeOK
  <2>. QED
    BY <1>1, <1>2, <2>1 DEF IInv, TypeOK
<1>5. SeanceShape' /\ PausesOpen'
  BY <1>1, <1>2, DeletedRow DEF IInv, SeanceShape, PausesOpen
<1>6. OneRapportByOwner'
  BY <1>2, DeletedRow DEF IInv, OneRapportByOwner, Exists
<1>7. AutoClosedWhenOverdue'
  BY <1>1, <1>2, DeletedRow DEF IInv, AutoClosedWhenOverdue
<1>8. RequestShape'
  <2>. SUFFICES ASSUME NEW v \in Workers PROVE RequestOK(req[v])'
    BY DEF RequestShape
  <2>1. RequestOK(req[v]) /\ req[v].ids \subseteq SeanceIds /\ req'[v] = req[v]
    BY <1>1 DEF IInv, TypeOK, RequestShape, Request
  <2>2. ASSUME NEW s \in SeanceIds
        PROVE  /\ seances[s].status # "absent" => seances'[s].status # "absent"
               /\ seances[s].status \in {"en_cours", "terminee", "deleted"}
                    => seances'[s].status \in {"en_cours", "terminee", "deleted"}
               /\ Exists(s)' => /\ Exists(s)
                                /\ seances'[s].started_at = seances[s].started_at
                                /\ seances'[s].teacher = seances[s].teacher
    BY <1>2, DeletedRow DEF Exists
  <2>. QED
    BY <1>1, <2>1, <2>2 DEF RequestOK
<1>. QED
  BY <1>4, <1>5, <1>6, <1>7, <1>8 DEF IInv

\* Every deletion is such a cascade, and starts no request.
LEMMA Deletions ==
  ASSUME IInv, \/ \E t \in Teachers : DeleteTeacher(t)
               \/ \E p \in Sessions :
                    DeleteSession(p) \/ \E G \in SUBSET Segments : DeleteSegments(p, G)
  PROVE  /\ users' \in SUBSET Teachers /\ sessions' \in SUBSET Sessions
         /\ planning' \in SUBSET Segments
         /\ \E S \in SUBSET SeanceIds :
              /\ Cascade(S)
              /\ \A s \in S :
                   \/ seances[s].teacher \in Teachers /\ seances[s].teacher \notin users'
                   \/ seances[s].session \in Sessions /\ seances[s].session \notin sessions'
<1>1. /\ users \in SUBSET Teachers /\ sessions \in SUBSET Sessions
      /\ planning \in SUBSET Segments
  BY DEF IInv, TypeOK
<1>2. ASSUME NEW t \in Teachers, DeleteTeacher(t)
      PROVE  /\ users' = users \ {t} /\ sessions' = sessions /\ planning' = planning
             /\ Cascade({s \in SeanceIds : seances[s].teacher = t})
  BY <1>2 DEF DeleteTeacher
<1>3. ASSUME NEW p \in Sessions, DeleteSession(p)
      PROVE  /\ users' = users /\ sessions' = sessions \ {p}
             /\ planning' = {g \in planning : SessionOf[g] # p}
             /\ Cascade({s \in SeanceIds : seances[s].session = p})
  BY <1>3 DEF DeleteSession
<1>4. ASSUME NEW p \in Sessions, NEW G \in SUBSET Segments, DeleteSegments(p, G)
      PROVE  users' = users /\ sessions' = sessions /\ planning' = planning \ G /\ Cascade({})
  BY <1>4 DEF DeleteSegments
<1>5. CASE \E t \in Teachers : DeleteTeacher(t)
  <2>1. PICK t \in Teachers : DeleteTeacher(t)
    BY <1>5
  <2>2. PICK S \in SUBSET SeanceIds : S = {s \in SeanceIds : seances[s].teacher = t}
    OBVIOUS
  <2>. QED
    BY <1>1, <1>2, <2>1, <2>2
<1>6. CASE \E p \in Sessions : DeleteSession(p)
  <2>1. PICK p \in Sessions : DeleteSession(p)
    BY <1>6
  <2>2. PICK S \in SUBSET SeanceIds : S = {s \in SeanceIds : seances[s].session = p}
    OBVIOUS
  <2>. QED
    <3>1. /\ users' = users /\ sessions' = sessions \ {p} /\ Cascade(S)
          /\ planning' \in SUBSET Segments
      BY <1>1, <1>3, <2>1, <2>2
    <3>2. \A s \in S : seances[s].session \in Sessions /\ seances[s].session \notin sessions'
      BY <2>2, <3>1
    <3>. QED
      BY <1>1, <3>1, <3>2
<1>7. CASE \E p \in Sessions, G \in SUBSET Segments : DeleteSegments(p, G)
  <2>1. PICK p \in Sessions, G \in SUBSET Segments : DeleteSegments(p, G)
    BY <1>7
  <2>2. PICK S \in SUBSET SeanceIds : S = {}
    OBVIOUS
  <2>. QED
    BY <1>1, <1>4, <2>1, <2>2
<1>. QED
  BY <1>5, <1>6, <1>7

\* The passing of time keeps it: what was overdue stays overdue.
LEMMA TickStep ==
  ASSUME IInv, Tick
  PROVE  IInv'
<1>1. TypeOK'
  BY DEF IInv, TypeOK, Tick, parents
<1>2. SeanceShape' /\ OneRapportByOwner' /\ PausesOpen'
  BY DEF IInv, Tick, SeanceShape, OneRapportByOwner, PausesOpen, Exists
<1>3. AutoClosedWhenOverdue'
  <2>. SUFFICES ASSUME NEW s \in SeanceIds, seances[s].auto_closed
                PROVE  seances[s].started_at + AutoCloseAfter < now'
    BY DEF AutoClosedWhenOverdue, Tick
  <2>1. seances[s].started_at + AutoCloseAfter < now
    BY DEF IInv, AutoClosedWhenOverdue
  <2>2. seances[s].started_at # NULL
    BY DEF IInv, SeanceShape, RowShape, EndedShape
  <2>3. seances[s].started_at \in Nat /\ AutoCloseAfter \in Nat /\ now \in Nat
    BY <2>2, SeancesAssumption DEF IInv, TypeOK, Seance
  <2>. QED
    BY <2>1, <2>3 DEF Tick
<1>4. RequestShape'
  <2>. SUFFICES ASSUME NEW v \in Workers PROVE RequestOK(req[v])'
    BY DEF RequestShape
  <2>1. RequestOK(req[v]) /\ req[v] \in Request
    BY DEF IInv, TypeOK, RequestShape
  <2>2. ASSUME req[v].op = "close", NEW s \in req[v].ids
        PROVE  req[v].loaded[s].started_at + AutoCloseAfter < now'
    <3>1. req[v].loaded[s] \in Seance
      BY <2>1, <2>2 DEF Request
    <3>2. req[v].loaded[s].started_at \in Nat
      BY <2>1, <2>2, <3>1 DEF RequestOK, RunningShape, Updates, Seance
    <3>3. req[v].loaded[s].started_at + AutoCloseAfter < now
      BY <2>1, <2>2 DEF RequestOK
    <3>. QED
      BY <3>2, <3>3, SeancesAssumption DEF IInv, TypeOK, Tick
  <2>. QED
    BY <2>1, <2>2 DEF Tick, RequestOK, Exists, RunningShape
<1>. QED
  BY <1>1, <1>2, <1>3, <1>4 DEF IInv

-----------------------------------------------------------------------------
(* The reads *)

\* The first half of start_seance keeps it.
LEMMA ReadStartStep ==
  ASSUME IInv, NEW w \in Workers, NEW t \in Teachers, NEW p \in Sessions, NEW g \in StartSegments,
         NEW at \in 0..now, ReadStart(w, t, p, g, at)
  PROVE  IInv'
<1>. DEFINE r == [Idle EXCEPT !.op = "start", !.teacher = t, !.session = p, !.segment = g,
                              !.at = at]
<1>1. at \in Nat
  BY DEF IInv, TypeOK
<1>2. r \in Request
  BY <1>1, IdleType, SeancesAssumption DEF Request, Ops
<1>3. RequestOK(r) /\ r.op \notin Updates
  BY <1>1, IdleType DEF RequestOK, Updates, Idle
<1>. QED
  BY <1>2, <1>3, RequestStep DEF ReadStart, Arrive

\* The first half of report_missed_seance keeps it.
LEMMA ReadMissedStep ==
  ASSUME IInv, NEW w \in Workers, NEW t \in Teachers, NEW p \in Sessions,
         NEW g \in Segments \cup {NULL}, ReadMissed(w, t, p, g)
  PROVE  IInv'
<1>. DEFINE r == [Idle EXCEPT !.op = "missed", !.teacher = t, !.session = p, !.segment = g]
<1>1. r \in Request
  BY IdleType DEF Request, Ops
<1>2. RequestOK(r) /\ r.op \notin Updates
  BY IdleType DEF RequestOK, Updates, Idle
<1>. QED
  BY <1>1, <1>2, RequestStep DEF ReadMissed, Arrive

\* The request ReadOwned creates, for a pause, a resume or a finish.
LEMMA ReadOwnedStep ==
  ASSUME IInv, NEW w \in Workers, NEW t \in Teachers, NEW s \in SeanceIds, NEW at \in 0..now,
         NEW op \in {"pause", "resume", "finish"}, NEW offline \in Offline,
         ReadOwned(w, t, s, op, at, offline)
  PROVE  IInv'
<1>. DEFINE r == [Idle EXCEPT !.op = op, !.teacher = t, !.at = at, !.ids = {s},
                              !.offline = offline, !.loaded = Load({s})]
<1>1. at \in Nat
  BY DEF IInv, TypeOK
<1>2. Load({s}) \in [SeanceIds -> Seance] /\ Load({s})[s] = seances[s]
  BY LoadType DEF IInv, Load
<1>3. r \in Request
  BY <1>1, <1>2, IdleType DEF Request, Ops
<1>4. /\ r.op = op /\ r.at = at /\ r.ids = {s} /\ r.loaded[s] = seances[s]
  BY <1>2, IdleType DEF Request
<1>5. seances[s].status = "en_cours" /\ RunningShape(seances[s]) /\ AllOpen(seances[s].pauses)
  BY DEF ReadOwned, RunningOwned, IInv, SeanceShape, PausesOpen, RowShape
<1>. HIDE DEF r
<1>6. RequestOK(r) /\ \A q \in r.ids : AllOpen(r.loaded[q].pauses)
  BY <1>1, <1>4, <1>5 DEF RequestOK
<1>. QED
  BY <1>3, <1>6, RequestStep DEF ReadOwned, Arrive, r

\* The first half of finish_seance keeps it, with or without offline pauses.
LEMMA ReadFinishStep ==
  ASSUME IInv, NEW w \in Workers, NEW t \in Teachers, NEW s \in SeanceIds, NEW at \in 0..now,
         NEW p \in 0..now, ReadFinish(w, t, s, at, p)
  PROVE  IInv'
<1>1. NoOffline \in Offline
  BY DEF NoOffline, Offline, Pause
<1>2. CASE ReadOwned(w, t, s, "finish", at, NoOffline)
  BY <1>1, <1>2, ReadOwnedStep
<1>. DEFINE offline == [pauses |-> <<[paused_at |-> p, resumed_at |-> at]>>, total |-> at - p]
<1>3. CASE p <= at /\ ReadOwned(w, t, s, "finish", at, offline)
  <2>1. p \in Nat /\ at \in Nat
    BY DEF IInv, TypeOK
  <2>2. [paused_at |-> p, resumed_at |-> at] \in Pause /\ at - p \in Nat
    BY <1>3, <2>1 DEF Pause
  <2>3. offline \in Offline
    BY <2>2 DEF Offline
  <2>. QED
    BY <1>3, <2>3, ReadOwnedStep
<1>. QED
  BY <1>2, <1>3 DEF ReadFinish

\* The first half of submit_rapport keeps it.
LEMMA ReadRapportStep ==
  ASSUME IInv, NEW w \in Workers, NEW t \in Teachers, NEW s \in SeanceIds, ReadRapport(w, t, s)
  PROVE  IInv'
<1>. DEFINE r == [Idle EXCEPT !.op = "rapport", !.teacher = t, !.ids = {s}]
<1>1. r \in Request
  BY IdleType DEF Request, Ops
<1>2. seances[s].status # "absent"
  <2>1. seances[s].teacher \in Teachers
    BY DEF ReadRapport
  <2>. QED
    BY <2>1, SeancesAssumption DEF IInv, SeanceShape, RowShape
<1>3. RequestOK(r) /\ r.op \notin Updates
  BY <1>2, IdleType DEF RequestOK, Updates, Idle, ReadRapport
<1>. QED
  BY <1>1, <1>3, RequestStep DEF ReadRapport, Arrive

\* The lazy cron's SELECT keeps it.
LEMMA ReadCloseStep ==
  ASSUME IInv, NEW w \in Workers, ReadClose(w)
  PROVE  IInv'
<1>. DEFINE r == [Idle EXCEPT !.op = "close", !.ids = Stale, !.loaded = Load(Stale)]
<1>1. Stale \subseteq SeanceIds
  BY DEF Stale
<1>2. Load(Stale) \in [SeanceIds -> Seance] /\ \A s \in Stale : Load(Stale)[s] = seances[s]
  BY <1>1, LoadType DEF IInv, Load
<1>3. r \in Request
  BY <1>1, <1>2, IdleType DEF Request, Ops
<1>4. r.op = "close" /\ r.ids = Stale /\ \A s \in Stale : r.loaded[s] = seances[s]
  BY <1>2, IdleType DEF Request
<1>5. \A s \in Stale : /\ seances[s].status = "en_cours" /\ RunningShape(seances[s])
                       /\ seances[s].started_at + AutoCloseAfter < now
                       /\ AllOpen(seances[s].pauses)
  BY <1>1 DEF Stale, IInv, SeanceShape, PausesOpen, RowShape
<1>. HIDE DEF r
<1>6. RequestOK(r) /\ \A q \in r.ids : AllOpen(r.loaded[q].pauses)
  BY <1>4, <1>5 DEF RequestOK
<1>. QED
  BY <1>3, <1>6, RequestStep DEF ReadClose, r

-----------------------------------------------------------------------------
(* The commits *)

\* The row start_seance inserts has its shape.
LEMMA CommitStartRow ==
  ASSUME IInv, NEW w \in Workers, req[w].op = "start", req[w].session \in sessions
  PROVE  LET row == [NoSeance EXCEPT !.status = "en_cours", !.teacher = req[w].teacher,
                                     !.session = req[w].session, !.segment = req[w].segment,
                                     !.started_at = req[w].at]
         IN  /\ row \in Seance /\ RowShape(row) /\ ~row.auto_closed /\ row.pauses = <<>>
             /\ row.status = "en_cours" /\ row.teacher = req[w].teacher
<1>. DEFINE row == [NoSeance EXCEPT !.status = "en_cours", !.teacher = req[w].teacher,
                                    !.session = req[w].session, !.segment = req[w].segment,
                                    !.started_at = req[w].at]
<1>1. /\ req[w].at \in Nat /\ req[w].teacher \in Teachers /\ req[w].session \in Sessions
      /\ req[w].segment \in Segments \cup {NULL}
  BY DEF IInv, TypeOK, Request, RequestShape, RequestOK
<1>2. row \in Seance
  BY <1>1, NoSeanceType DEF Seance, Statuses
<1>3. /\ row.status = "en_cours" /\ row.teacher = req[w].teacher /\ row.started_at = req[w].at
      /\ row.session = req[w].session
      /\ row.finished_at = NULL /\ row.duree = NULL /\ row.pauses = <<>>
      /\ row.auto_closed = FALSE
  BY DEF NoSeance
<1>. HIDE DEF row
<1>4. RunningShape(row)
  BY <1>1, <1>3, SeancesAssumption DEF RunningShape, Owned
<1>5. RowShape(row)
  BY <1>3, <1>4 DEF RowShape
<1>. QED
  BY <1>2, <1>3, <1>5 DEF row

\* The row report_missed_seance inserts has its shape.
LEMMA CommitMissedRow ==
  ASSUME IInv, NEW w \in Workers, req[w].op = "missed", req[w].session \in sessions
  PROVE  LET row == [NoSeance EXCEPT !.status = "manquee", !.teacher = req[w].teacher,
                                     !.session = req[w].session, !.segment = req[w].segment,
                                     !.duree = 0]
         IN  /\ row \in Seance /\ RowShape(row) /\ ~row.auto_closed /\ row.pauses = <<>>
             /\ row.status = "manquee"
<1>. DEFINE row == [NoSeance EXCEPT !.status = "manquee", !.teacher = req[w].teacher,
                                    !.session = req[w].session, !.segment = req[w].segment,
                                    !.duree = 0]
<1>1. /\ req[w].teacher \in Teachers /\ req[w].session \in Sessions
      /\ req[w].segment \in Segments \cup {NULL}
  BY DEF IInv, RequestShape, RequestOK, TypeOK, Request
<1>2. row \in Seance
  <2>1. PICK d \in Int : d = 0
    OBVIOUS
  <2>2. [NoSeance EXCEPT !.status = "manquee", !.teacher = req[w].teacher,
                         !.session = req[w].session, !.segment = req[w].segment,
                         !.duree = d] \in Seance
    BY <1>1, NoSeanceType DEF Seance, Statuses
  <2>. QED
    BY <2>1, <2>2
<1>3. /\ row.status = "manquee" /\ row.auto_closed = FALSE /\ row.pauses = <<>>
      /\ row.teacher = req[w].teacher /\ row.session = req[w].session
      /\ row.segment = req[w].segment
  BY DEF NoSeance
<1>4. MissedShape(row)
  BY <1>1, <1>3 DEF MissedShape, Owned
<1>. HIDE DEF row
<1>5. RowShape(row)
  BY <1>3, <1>4 DEF RowShape
<1>. QED
  BY <1>2, <1>3, <1>5 DEF row

\* What the four updating commits have in common.
LEMMA UpdateEffect ==
  ASSUME IInv, NEW w \in Workers,
         CommitPause(w) \/ CommitResume(w) \/ CommitFinish(w) \/ CommitClose(w)
  PROVE  /\ Done(w) /\ UNCHANGED <<parents, rapports, now>>
         /\ req[w].op \in Updates
         /\ seances' \in [SeanceIds -> Seance]
         /\ \A s \in SeanceIds : seances'[s] # seances[s]
              => s \in req[w].ids /\ Exists(s) /\ GoodChange(seances[s], seances'[s])
<1>. DEFINE Effect ==
       /\ Done(w) /\ UNCHANGED <<parents, rapports, now>>
       /\ req[w].op \in Updates
       /\ seances' \in [SeanceIds -> Seance]
       /\ \A s \in SeanceIds : seances'[s] # seances[s]
            => s \in req[w].ids /\ Exists(s) /\ GoodChange(seances[s], seances'[s])
<1>0. seances \in [SeanceIds -> Seance]
  BY DEF IInv, TypeOK
<1>1. CASE CommitPause(w)
  <2>1. req[w].op = "pause" /\ Done(w) /\ UNCHANGED <<parents, rapports, now>>
    BY <1>1 DEF CommitPause, Update
  <2>2. seances' = [s \in SeanceIds |-> IF s \in req[w].ids /\ Exists(s)
                     THEN PauseRow(seances[s], req[w].loaded[s], req[w]) ELSE seances[s]]
    BY <1>1 DEF CommitPause, Update
  <2>. QED
    BY <1>0, <2>1, <2>2, PauseGood DEF Updates
<1>2. CASE CommitResume(w)
  <2>1. req[w].op = "resume" /\ Done(w) /\ UNCHANGED <<parents, rapports, now>>
    BY <1>2 DEF CommitResume, Update
  <2>2. seances' = [s \in SeanceIds |-> IF s \in req[w].ids /\ Exists(s)
                     THEN ResumeRow(seances[s], req[w].loaded[s], req[w]) ELSE seances[s]]
    BY <1>2 DEF CommitResume, Update
  <2>. QED
    BY <1>0, <2>1, <2>2, ResumeGood DEF Updates
<1>3. CASE CommitFinish(w)
  <2>1. req[w].op = "finish" /\ Done(w) /\ UNCHANGED <<parents, rapports, now>>
    BY <1>3 DEF CommitFinish, Update
  <2>2. seances' = [s \in SeanceIds |-> IF s \in req[w].ids /\ Exists(s)
                     THEN FinishRow(seances[s], req[w].loaded[s], req[w]) ELSE seances[s]]
    BY <1>3 DEF CommitFinish, Update
  <2>. QED
    BY <1>0, <2>1, <2>2, FinishGood DEF Updates
<1>4. CASE CommitClose(w)
  <2>1. req[w].op = "close" /\ Done(w) /\ UNCHANGED <<parents, rapports, now>>
    BY <1>4 DEF CommitClose, Update
  <2>2. seances' = [s \in SeanceIds |-> IF s \in req[w].ids /\ Exists(s)
                     THEN CloseRow(seances[s], req[w].loaded[s], req[w]) ELSE seances[s]]
    BY <1>4 DEF CommitClose, Update
  <2>. QED
    BY <1>0, <2>1, <2>2, CloseGood DEF Updates
<1>. QED
  BY <1>1, <1>2, <1>3, <1>4

-----------------------------------------------------------------------------
(* Every step, and the invariant *)

\* The inductive invariant holds in the empty tables.
LEMMA InitIInv == Init => IInv
<1>. SUFFICES ASSUME Init PROVE IInv
  OBVIOUS
<1>1. TypeOK
  BY NoSeanceType, IdleType DEF Init, TypeOK
<1>2. SeanceShape /\ AutoClosedWhenOverdue /\ PausesOpen
  BY IdleOK DEF Init, SeanceShape, RowShape, AutoClosedWhenOverdue, PausesOpen, NoSeance
<1>3. OneRapportByOwner
  BY DEF Init, OneRapportByOwner
<1>4. RequestShape
  BY IdleOK DEF Init, RequestShape
<1>. QED
  BY <1>1, <1>2, <1>3, <1>4 DEF IInv

\* Every step keeps the inductive invariant.
LEMMA StepIInv == IInv /\ [Next]_vars => IInv'
<1>. SUFFICES ASSUME IInv, [Next]_vars PROVE IInv'
  OBVIOUS
<1>1. ASSUME NEW w \in Workers, Read(w) PROVE IInv'
  <2>1. NoOffline \in Offline
    BY DEF NoOffline, Offline, Pause
  <2>2. ASSUME NEW t \in Teachers, NEW s \in SeanceIds, NEW at \in 0..now,
               ReadPause(w, t, s, at) \/ ReadResume(w, t, s, at)
        PROVE  IInv'
    BY <2>1, <2>2, ReadOwnedStep DEF ReadPause, ReadResume
  <2>. QED
    BY <1>1, <2>2, ReadStartStep, ReadMissedStep, ReadFinishStep, ReadRapportStep,
       ReadCloseStep DEF Read
<1>2. ASSUME NEW w \in Workers, CommitStart(w) PROVE IInv'
  BY <1>2, CommitStartRow, InsertStep DEF CommitStart, Insert
<1>3. ASSUME NEW w \in Workers, CommitMissed(w) PROVE IInv'
  BY <1>3, CommitMissedRow, InsertStep DEF CommitMissed, Insert
<1>4. ASSUME NEW w \in Workers,
             CommitPause(w) \/ CommitResume(w) \/ CommitFinish(w) \/ CommitClose(w)
      PROVE  IInv'
  BY <1>4, UpdateEffect, UpdateStep
<1>5. CASE UNCHANGED vars
  BY <1>5 DEF vars, IInv, TypeOK, SeanceShape, OneRapportByOwner, AutoClosedWhenOverdue,
              PausesOpen, RequestShape, RequestOK, Exists
<1>6. ASSUME \/ \E t \in Teachers : DeleteTeacher(t)
             \/ \E p \in Sessions :
                  DeleteSession(p) \/ \E G \in SUBSET Segments : DeleteSegments(p, G)
      PROVE  IInv'
  BY <1>6, Deletions, CascadeStep
<1>. QED
  BY <1>1, <1>2, <1>3, <1>4, <1>5, <1>6, RollbackStep, CommitRapportStep, TickStep
     DEF Next, Commit

\* The inductive invariant, and with it the type invariant and the four safety
\* invariants the runs check, hold in every reachable state.
THEOREM Invariance == Spec => []IInv
  BY InitIInv, StepIInv, PTL DEF Spec

\* Every variable keeps its type.
THEOREM TypeCorrect == Spec => []TypeOK
<1>1. IInv => TypeOK
  BY DEF IInv
<1>. QED
  BY <1>1, Invariance, PTL

\* A row never mixes two lives of a séance.
THEOREM SeanceShapeHolds == Spec => []SeanceShape
<1>1. IInv => SeanceShape
  BY DEF IInv
<1>. QED
  BY <1>1, Invariance, PTL

\* At most one report per séance, by the teacher of the séance.
THEOREM OneRapport == Spec => []OneRapportByOwner
<1>1. IInv => OneRapportByOwner
  BY DEF IInv
<1>. QED
  BY <1>1, Invariance, PTL

\* The cron closes only what has been under way for longer than the limit.
THEOREM NoEarlyAutoClose == Spec => []AutoClosedWhenOverdue
<1>1. IInv => AutoClosedWhenOverdue
  BY DEF IInv
<1>. QED
  BY <1>1, Invariance, PTL

\* What the checks made by the first half of a request still guarantee at its commit.
THEOREM RequestsHold == Spec => []RequestShape
<1>1. IInv => RequestShape
  BY DEF IInv
<1>. QED
  BY <1>1, Invariance, PTL

-----------------------------------------------------------------------------
(* One séance under way per teacher, while a teacher's starts do not overlap *)

\* A pending start was read when its teacher had no séance under way, and nothing but
\* another start can have changed that.
StartsAlone ==
  /\ OneActive
  /\ \A w \in Workers : req[w].op = "start" => ActiveOf(req[w].teacher) = {}

\* No séance goes under way, and no start begins.
LEMMA NoNewActive ==
  ASSUME StartsAlone,
         \A s \in SeanceIds : seances'[s].status = "en_cours"
           => seances[s].status = "en_cours" /\ seances'[s].teacher = seances[s].teacher,
         \A w \in Workers : req'[w].op = "start" => req'[w] = req[w]
  PROVE  StartsAlone'
<1>1. OneActive'
  BY DEF StartsAlone, OneActive
<1>2. \A w \in Workers : req'[w].op = "start" => ActiveOf(req[w].teacher)' = {}
  BY DEF StartsAlone, ActiveOf
<1>. QED
  BY <1>1, <1>2 DEF StartsAlone, ActiveOf

\* While starts are serial, every step keeps what makes the active séance unique.
LEMMA StepStartsAlone ==
  IInv /\ StartsAlone /\ ~OverlappingStarts /\ [Next]_vars => StartsAlone'
<1>. SUFFICES ASSUME IInv, StartsAlone, ~OverlappingStarts, [Next]_vars
              PROVE  StartsAlone'
  OBVIOUS
<1>0. Idle.op = "idle"
  BY DEF Idle
<1>1. ASSUME NEW w \in Workers, Done(w)
      PROVE  \A v \in Workers : req'[v].op = "start" => req'[v] = req[v]
  BY <1>0, <1>1 DEF Done, IInv, TypeOK
<1>2. ASSUME NEW w \in Workers, NEW t \in Teachers, NEW p \in Sessions, NEW g \in StartSegments,
             NEW at \in 0..now, ReadStart(w, t, p, g, at)
      PROVE  StartsAlone'
  <2>. DEFINE r == [Idle EXCEPT !.op = "start", !.teacher = t, !.session = p, !.segment = g,
                                !.at = at]
  <2>1. ActiveOf(t) = {} /\ req' = [req EXCEPT ![w] = r] /\ seances' = seances
    BY <1>2 DEF ReadStart, Arrive
  <2>2. r.teacher = t
    BY DEF Idle
  <2>3. \A v \in Workers : req'[v] = IF v = w THEN r ELSE req[v]
    BY <2>1 DEF IInv, TypeOK
  <2>. HIDE DEF r
  <2>. QED
    BY <2>1, <2>2, <2>3 DEF StartsAlone, OneActive, ActiveOf
<1>3. ASSUME NEW w \in Workers, NEW r, r.op # "start",
             req' = [req EXCEPT ![w] = r], seances' = seances
      PROVE  StartsAlone'
  <2>1. \A v \in Workers : req'[v].op = "start" => req'[v] = req[v]
    BY <1>3 DEF IInv, TypeOK
  <2>. QED
    BY <1>3, <2>1, NoNewActive
<1>4. ASSUME NEW w \in Workers, Read(w),
             ~\E t \in Teachers, p \in Sessions, g \in StartSegments, at \in 0..now :
                ReadStart(w, t, p, g, at)
      PROVE  StartsAlone'
  <2>1. PICK r : r.op # "start" /\ req' = [req EXCEPT ![w] = r] /\ seances' = seances
    <3>1. ASSUME NEW t \in Teachers, NEW s \in SeanceIds, NEW at \in 0..now,
                 NEW op \in {"pause", "resume", "finish"}, NEW offline,
                 ReadOwned(w, t, s, op, at, offline)
          PROVE  \E r : r.op # "start" /\ req' = [req EXCEPT ![w] = r] /\ seances' = seances
      <4>. DEFINE r == [Idle EXCEPT !.op = op, !.teacher = t, !.at = at, !.ids = {s},
                                    !.offline = offline, !.loaded = Load({s})]
      <4>1. r.op = op
        BY DEF Idle
      <4>. QED
        BY <3>1, <4>1 DEF ReadOwned, Arrive
    <3>2. ASSUME NEW t \in Teachers, NEW p \in Sessions, NEW g \in Segments \cup {NULL},
                 ReadMissed(w, t, p, g)
          PROVE  \E r : r.op # "start" /\ req' = [req EXCEPT ![w] = r] /\ seances' = seances
      <4>1. [Idle EXCEPT !.op = "missed", !.teacher = t, !.session = p, !.segment = g].op = "missed"
        BY DEF Idle
      <4>. QED
        BY <3>2, <4>1 DEF ReadMissed, Arrive
    <3>3. ASSUME NEW t \in Teachers, NEW s \in SeanceIds, ReadRapport(w, t, s)
          PROVE  \E r : r.op # "start" /\ req' = [req EXCEPT ![w] = r] /\ seances' = seances
      <4>1. [Idle EXCEPT !.op = "rapport", !.teacher = t, !.ids = {s}].op = "rapport"
        BY DEF Idle
      <4>. QED
        BY <3>3, <4>1 DEF ReadRapport, Arrive
    <3>4. ASSUME ReadClose(w)
          PROVE  \E r : r.op # "start" /\ req' = [req EXCEPT ![w] = r] /\ seances' = seances
      <4>1. [Idle EXCEPT !.op = "close", !.ids = Stale, !.loaded = Load(Stale)].op = "close"
        BY DEF Idle
      <4>. QED
        BY <3>4, <4>1 DEF ReadClose
    <3>. QED
      BY <1>4, <3>1, <3>2, <3>3, <3>4 DEF Read, ReadPause, ReadResume, ReadFinish
  <2>. QED
    BY <2>1, <1>3
<1>5. ASSUME NEW w \in Workers, CommitStart(w)
      PROVE  StartsAlone'
  <2>. DEFINE row == [NoSeance EXCEPT !.status = "en_cours", !.teacher = req[w].teacher,
                                      !.session = req[w].session, !.segment = req[w].segment,
                                      !.started_at = req[w].at]
  <2>1. /\ row.status = "en_cours" /\ row.teacher = req[w].teacher
    BY DEF NoSeance
  <2>2. PICK s \in SeanceIds : seances[s].status = "absent" /\ seances' = [seances EXCEPT ![s] = row]
    BY <1>5 DEF CommitStart, Insert
  <2>3. \A q \in SeanceIds : seances'[q] = IF q = s THEN row ELSE seances[q]
    BY <2>2 DEF IInv, TypeOK
  <2>4. Done(w) /\ req[w].op = "start"
    BY <1>5 DEF CommitStart, Insert
  <2>. HIDE DEF row
  <2>5. OneActive'
    BY <2>1, <2>3, <2>4 DEF StartsAlone, OneActive, ActiveOf
  <2>6. ASSUME NEW v \in Workers, req'[v].op = "start"
        PROVE  \A q \in SeanceIds :
                 ~(seances'[q].teacher = req'[v].teacher /\ seances'[q].status = "en_cours")
    <3>1. v # w
      BY <2>4, <2>6, <1>0 DEF Done, IInv, TypeOK
    <3>2. req'[v] = req[v] /\ req[v].op = "start"
      BY <2>4, <2>6, <1>1
    <3>3. req[v].teacher # req[w].teacher
      BY <2>4, <3>1, <3>2 DEF OverlappingStarts
    <3>. QED
      BY <2>1, <2>3, <3>2, <3>3 DEF StartsAlone, ActiveOf
  <2>. QED
    BY <2>5, <2>6 DEF StartsAlone, ActiveOf
<1>6. ASSUME NEW w \in Workers, CommitMissed(w)
      PROVE  StartsAlone'
  <2>. DEFINE row == [NoSeance EXCEPT !.status = "manquee", !.teacher = req[w].teacher,
                                      !.session = req[w].session, !.segment = req[w].segment,
                                      !.duree = 0]
  <2>1. row.status = "manquee"
    BY DEF NoSeance
  <2>2. PICK s \in SeanceIds : seances[s].status = "absent" /\ seances' = [seances EXCEPT ![s] = row]
    BY <1>6 DEF CommitMissed, Insert
  <2>3. \A q \in SeanceIds : seances'[q] = IF q = s THEN row ELSE seances[q]
    BY <2>2 DEF IInv, TypeOK
  <2>4. Done(w)
    BY <1>6 DEF CommitMissed, Insert
  <2>. HIDE DEF row
  <2>. QED
    BY <1>1, <2>1, <2>3, <2>4, NoNewActive
<1>7. ASSUME NEW w \in Workers,
             CommitPause(w) \/ CommitResume(w) \/ CommitFinish(w) \/ CommitClose(w)
      PROVE  StartsAlone'
  BY <1>1, <1>7, UpdateEffect, NoNewActive DEF GoodChange
<1>8. ASSUME NEW w \in Workers, CommitRapport(w) \/ Rollback(w)
      PROVE  StartsAlone'
  BY <1>1, <1>8, NoNewActive DEF CommitRapport, Rollback
<1>9. ASSUME \/ \E t \in Teachers : DeleteTeacher(t)
             \/ \E p \in Sessions :
                  DeleteSession(p) \/ \E G \in SUBSET Segments : DeleteSegments(p, G)
      PROVE  StartsAlone'
  <2>1. PICK S \in SUBSET SeanceIds : Cascade(S)
    BY <1>9, Deletions
  <2>2. \A s \in SeanceIds : seances'[s].status = "en_cours"
          => seances[s].status = "en_cours" /\ seances'[s].teacher = seances[s].teacher
    BY <2>1, CascadeEffect, DeletedRow DEF IInv
  <2>. QED
    BY <2>1, <2>2, NoNewActive DEF Cascade
<1>10. CASE Tick \/ UNCHANGED vars
  BY <1>10, NoNewActive DEF Tick, vars
<1>. QED
  BY <1>2, <1>4, <1>5, <1>6, <1>7, <1>8, <1>9, <1>10 DEF Next, Commit

\* If a teacher's starts never overlap, a teacher never has two séances under way,
\* whatever else runs at the same time: start_seance's check is enough in that case.
THEOREM SerialStarts == Spec => OneActiveIfStartsSerial
<1>1. Init => StartsAlone
  BY DEF Init, StartsAlone, OneActive, NoSeance, Idle
<1>2. StartsAlone => OneActive
  BY DEF StartsAlone
<1>. QED
  BY <1>1, <1>2, StepStartsAlone, Invariance, PTL DEF Spec, OneActiveIfStartsSerial

-----------------------------------------------------------------------------
(* One row per missed segment, while its reports do not overlap *)

\* A pending report was read when its segment had no row, and nothing but another report
\* can have changed that.
ReportsAlone ==
  /\ MissedOncePerSegment
  /\ \A w \in Workers : req[w].op = "missed" /\ req[w].segment # NULL
       => MissedOf(req[w].teacher, req[w].segment) = {}

\* No row of a missed séance appears, and no report begins.
LEMMA NoNewMissed ==
  ASSUME ReportsAlone,
         \A s \in SeanceIds : seances'[s].status = "manquee" =>
           /\ seances[s].status = "manquee" /\ seances'[s].teacher = seances[s].teacher
           /\ seances'[s].segment \in {seances[s].segment, NULL},
         \A w \in Workers : req'[w].op = "missed" => req'[w] = req[w]
  PROVE  ReportsAlone'
<1>1. MissedOncePerSegment'
  BY DEF ReportsAlone, MissedOncePerSegment
<1>2. \A w \in Workers : req'[w].op = "missed" /\ req[w].segment # NULL
        => MissedOf(req[w].teacher, req[w].segment)' = {}
  BY DEF ReportsAlone, MissedOf
<1>. QED
  BY <1>1, <1>2 DEF ReportsAlone, MissedOf

\* While the reports of a segment are serial, every step keeps its row unique.
LEMMA StepReportsAlone ==
  IInv /\ ReportsAlone /\ ~OverlappingReports /\ [Next]_vars => ReportsAlone'
<1>. SUFFICES ASSUME IInv, ReportsAlone, ~OverlappingReports, [Next]_vars
              PROVE  ReportsAlone'
  OBVIOUS
<1>0. Idle.op = "idle"
  BY DEF Idle
<1>1. ASSUME NEW w \in Workers, Done(w)
      PROVE  \A v \in Workers : req'[v].op = "missed" => req'[v] = req[v]
  BY <1>0, <1>1 DEF Done, IInv, TypeOK
<1>2. ASSUME NEW w \in Workers, NEW t \in Teachers, NEW p \in Sessions,
             NEW g \in Segments \cup {NULL}, ReadMissed(w, t, p, g)
      PROVE  ReportsAlone'
  <2>. DEFINE r == [Idle EXCEPT !.op = "missed", !.teacher = t, !.session = p, !.segment = g]
  <2>1. g # NULL => MissedOf(t, g) = {}
    BY <1>2 DEF ReadMissed
  <2>2. req' = [req EXCEPT ![w] = r] /\ seances' = seances
    BY <1>2 DEF ReadMissed, Arrive
  <2>3. r.teacher = t /\ r.segment = g
    BY DEF Idle
  <2>4. \A v \in Workers : req'[v] = IF v = w THEN r ELSE req[v]
    BY <2>2 DEF IInv, TypeOK
  <2>. HIDE DEF r
  <2>. QED
    BY <2>1, <2>2, <2>3, <2>4 DEF ReportsAlone, MissedOncePerSegment, MissedOf
<1>3. ASSUME NEW w \in Workers, NEW r, r.op # "missed",
             req' = [req EXCEPT ![w] = r], seances' = seances
      PROVE  ReportsAlone'
  <2>1. \A v \in Workers : req'[v].op = "missed" => req'[v] = req[v]
    BY <1>3 DEF IInv, TypeOK
  <2>. QED
    BY <1>3, <2>1, NoNewMissed
<1>4. ASSUME NEW w \in Workers, Read(w),
             ~\E t \in Teachers, p \in Sessions, g \in Segments \cup {NULL} : ReadMissed(w, t, p, g)
      PROVE  ReportsAlone'
  <2>1. PICK r : r.op # "missed" /\ req' = [req EXCEPT ![w] = r] /\ seances' = seances
    <3>1. ASSUME NEW t \in Teachers, NEW s \in SeanceIds, NEW at \in 0..now,
                 NEW op \in {"pause", "resume", "finish"}, NEW offline,
                 ReadOwned(w, t, s, op, at, offline)
          PROVE  \E r : r.op # "missed" /\ req' = [req EXCEPT ![w] = r] /\ seances' = seances
      <4>. DEFINE r == [Idle EXCEPT !.op = op, !.teacher = t, !.at = at, !.ids = {s},
                                    !.offline = offline, !.loaded = Load({s})]
      <4>1. r.op = op
        BY DEF Idle
      <4>. QED
        BY <3>1, <4>1 DEF ReadOwned, Arrive
    <3>2. ASSUME NEW t \in Teachers, NEW p \in Sessions, NEW g \in StartSegments,
                 NEW at \in 0..now, ReadStart(w, t, p, g, at)
          PROVE  \E r : r.op # "missed" /\ req' = [req EXCEPT ![w] = r] /\ seances' = seances
      <4>1. [Idle EXCEPT !.op = "start", !.teacher = t, !.session = p, !.segment = g,
                         !.at = at].op = "start"
        BY DEF Idle
      <4>. QED
        BY <3>2, <4>1 DEF ReadStart, Arrive
    <3>3. ASSUME NEW t \in Teachers, NEW s \in SeanceIds, ReadRapport(w, t, s)
          PROVE  \E r : r.op # "missed" /\ req' = [req EXCEPT ![w] = r] /\ seances' = seances
      <4>1. [Idle EXCEPT !.op = "rapport", !.teacher = t, !.ids = {s}].op = "rapport"
        BY DEF Idle
      <4>. QED
        BY <3>3, <4>1 DEF ReadRapport, Arrive
    <3>4. ASSUME ReadClose(w)
          PROVE  \E r : r.op # "missed" /\ req' = [req EXCEPT ![w] = r] /\ seances' = seances
      <4>1. [Idle EXCEPT !.op = "close", !.ids = Stale, !.loaded = Load(Stale)].op = "close"
        BY DEF Idle
      <4>. QED
        BY <3>4, <4>1 DEF ReadClose
    <3>. QED
      BY <1>4, <3>1, <3>2, <3>3, <3>4 DEF Read, ReadPause, ReadResume, ReadFinish
  <2>. QED
    BY <2>1, <1>3
<1>5. ASSUME NEW w \in Workers, CommitMissed(w)
      PROVE  ReportsAlone'
  <2>. DEFINE row == [NoSeance EXCEPT !.status = "manquee", !.teacher = req[w].teacher,
                                      !.session = req[w].session, !.segment = req[w].segment,
                                      !.duree = 0]
  <2>1. row.status = "manquee" /\ row.teacher = req[w].teacher /\ row.segment = req[w].segment
    BY DEF NoSeance
  <2>2. PICK s \in SeanceIds : seances[s].status = "absent" /\ seances' = [seances EXCEPT ![s] = row]
    BY <1>5 DEF CommitMissed, Insert
  <2>3. \A q \in SeanceIds : seances'[q] = IF q = s THEN row ELSE seances[q]
    BY <2>2 DEF IInv, TypeOK
  <2>4. Done(w) /\ req[w].op = "missed"
    BY <1>5 DEF CommitMissed, Insert
  <2>. HIDE DEF row
  <2>5. MissedOncePerSegment'
    BY <2>1, <2>3, <2>4 DEF ReportsAlone, MissedOncePerSegment, MissedOf
  <2>6. ASSUME NEW v \in Workers, req'[v].op = "missed", req'[v].segment # NULL
        PROVE  \A q \in SeanceIds :
                 ~(/\ seances'[q].teacher = req'[v].teacher /\ seances'[q].segment = req'[v].segment
                   /\ seances'[q].status = "manquee")
    <3>1. v # w
      BY <2>4, <2>6, <1>0 DEF Done, IInv, TypeOK
    <3>2. req'[v] = req[v] /\ req[v].op = "missed"
      BY <2>4, <2>6, <1>1
    <3>3. req[v].teacher # req[w].teacher \/ req[v].segment # req[w].segment
      BY <2>4, <3>1, <3>2 DEF OverlappingReports
    <3>. QED
      BY <2>1, <2>3, <2>6, <3>2, <3>3 DEF ReportsAlone, MissedOf
  <2>. QED
    BY <2>5, <2>6 DEF ReportsAlone, MissedOf
<1>6. ASSUME NEW w \in Workers, CommitStart(w)
      PROVE  ReportsAlone'
  <2>. DEFINE row == [NoSeance EXCEPT !.status = "en_cours", !.teacher = req[w].teacher,
                                      !.session = req[w].session, !.segment = req[w].segment,
                                      !.started_at = req[w].at]
  <2>1. row.status = "en_cours"
    BY DEF NoSeance
  <2>2. PICK s \in SeanceIds : seances[s].status = "absent" /\ seances' = [seances EXCEPT ![s] = row]
    BY <1>6 DEF CommitStart, Insert
  <2>3. \A q \in SeanceIds : seances'[q] = IF q = s THEN row ELSE seances[q]
    BY <2>2 DEF IInv, TypeOK
  <2>4. Done(w)
    BY <1>6 DEF CommitStart, Insert
  <2>. HIDE DEF row
  <2>. QED
    BY <1>1, <2>1, <2>3, <2>4, NoNewMissed
<1>7. ASSUME NEW w \in Workers,
             CommitPause(w) \/ CommitResume(w) \/ CommitFinish(w) \/ CommitClose(w)
      PROVE  ReportsAlone'
  BY <1>1, <1>7, UpdateEffect, NoNewMissed DEF GoodChange
<1>8. ASSUME NEW w \in Workers, CommitRapport(w) \/ Rollback(w)
      PROVE  ReportsAlone'
  BY <1>1, <1>8, NoNewMissed DEF CommitRapport, Rollback
<1>9. ASSUME \/ \E t \in Teachers : DeleteTeacher(t)
             \/ \E p \in Sessions :
                  DeleteSession(p) \/ \E G \in SUBSET Segments : DeleteSegments(p, G)
      PROVE  ReportsAlone'
  <2>1. PICK S \in SUBSET SeanceIds : Cascade(S)
    BY <1>9, Deletions
  <2>2. ASSUME NEW s \in SeanceIds, seances'[s].status = "manquee"
        PROVE  /\ seances[s].status = "manquee" /\ seances'[s].teacher = seances[s].teacher
               /\ seances'[s].segment \in {seances[s].segment, NULL}
    <3>1. /\ seances[s].status = "manquee" /\ seances'[s].teacher = seances[s].teacher
          /\ seances'[s] = Detached(seances[s], planning')
      BY <2>1, <2>2, CascadeEffect, DeletedRow DEF IInv
    <3>2. seances[s] \in Seance
      BY DEF IInv, TypeOK
    <3>. QED
      BY <3>1, <3>2 DEF Detached, Seance
  <2>. QED
    BY <2>1, <2>2, NoNewMissed DEF Cascade
<1>10. CASE Tick \/ UNCHANGED vars
  BY <1>10, NoNewMissed DEF Tick, vars
<1>. QED
  BY <1>2, <1>4, <1>5, <1>6, <1>7, <1>8, <1>9, <1>10 DEF Next, Commit

\* If the reports of a missed segment never overlap, it has one row:
\* report_missed_seance's check is enough in that case.
THEOREM SerialReports == Spec => MissedOnceIfReportsSerial
<1>1. Init => ReportsAlone
  BY DEF Init, ReportsAlone, MissedOncePerSegment, NoSeance, Idle
<1>2. ReportsAlone => MissedOncePerSegment
  BY DEF ReportsAlone
<1>. QED
  BY <1>1, <1>2, StepReportsAlone, Invariance, PTL DEF Spec, MissedOnceIfReportsSerial

\* Serial requests are enough for both checks of seance_service.
THEOREM SerialChecks == Spec => ChecksHoldIfSerial
  BY SerialStarts, SerialReports, PTL DEF ChecksHoldIfSerial

-----------------------------------------------------------------------------
(* A séance that is over *)

\* The first half of a request writes no table.
LEMMA ReadChangesNothing ==
  ASSUME NEW w \in Workers, Read(w)
  PROVE  seances' = seances /\ rapports' = rapports
<1>. SUFFICES ASSUME ~(seances' = seances /\ rapports' = rapports)
              PROVE  FALSE
  OBVIOUS
<1>1. ASSUME NEW t, NEW r, Arrive(w, t, r)
      PROVE  FALSE
  BY <1>1 DEF Arrive
<1>2. ASSUME NEW t, NEW q, NEW op, NEW at, NEW offline, ReadOwned(w, t, q, op, at, offline)
      PROVE  FALSE
  BY <1>1, <1>2 DEF ReadOwned
<1>3. ASSUME NEW t, NEW p, NEW g, NEW at, ReadStart(w, t, p, g, at)
      PROVE  FALSE
  BY <1>1, <1>3 DEF ReadStart
<1>4. ASSUME NEW t, NEW p, NEW g, ReadMissed(w, t, p, g)
      PROVE  FALSE
  BY <1>1, <1>4 DEF ReadMissed
<1>5. ASSUME NEW t, NEW q, ReadRapport(w, t, q)
      PROVE  FALSE
  BY <1>1, <1>5 DEF ReadRapport
<1>6. CASE ReadClose(w)
  BY <1>6 DEF ReadClose
<1>. QED
  BY <1>2, <1>3, <1>4, <1>5, <1>6 DEF Read, ReadPause, ReadResume, ReadFinish

EndedMay(s) ==
  \/ /\ seances'[s].status = "deleted"
     /\ seances[s].teacher \notin users' \/ seances[s].session \notin sessions'
  \/ /\ seances'[s] = [seances[s] EXCEPT !.segment = NULL]
     /\ seances[s].segment \notin planning'
  \/ /\ seances[s].status = "terminee"
     /\ \E w \in Workers : /\ s \in req[w].ids
                           /\ req[w].loaded[s].status = "en_cours"
                           /\ req'[w] = Idle

\* Every step changes an ended séance only as EndedChangesOnlyByOverlap allows.
LEMMA StepEnded ==
  IInv /\ [Next]_vars =>
    \A s \in SeanceIds :
      seances[s].status \in {"terminee", "manquee"} /\ seances'[s] # seances[s] => EndedMay(s)
<1>. SUFFICES ASSUME IInv, Next, NEW s \in SeanceIds,
                     seances[s].status \in {"terminee", "manquee"}, seances'[s] # seances[s]
              PROVE  EndedMay(s)
  BY DEF vars
<1>1. CASE \/ \E t \in Teachers : DeleteTeacher(t)
           \/ \E p \in Sessions :
                DeleteSession(p) \/ \E G \in SUBSET Segments : DeleteSegments(p, G)
  <2>1. PICK S \in SUBSET SeanceIds :
          /\ Cascade(S)
          /\ \A q \in S : seances[q].teacher \notin users' \/ seances[q].session \notin sessions'
    BY <1>1, Deletions
  <2>2. CASE s \in S
    <3>1. seances'[s].status = "deleted"
      BY <2>1, <2>2, CascadeEffect, DeletedRow DEF IInv
    <3>. QED
      BY <2>1, <2>2, <3>1 DEF EndedMay
  <2>3. CASE s \notin S
    <3>1. seances'[s] = Detached(seances[s], planning')
      BY <2>1, <2>3 DEF Cascade
    <3>2. /\ seances'[s] = [seances[s] EXCEPT !.segment = NULL]
          /\ seances[s].segment \notin planning'
      BY <3>1 DEF Detached
    <3>. QED
      BY <3>2 DEF EndedMay
  <2>. QED
    BY <2>2, <2>3
<1>2. ASSUME NEW w \in Workers,
             CommitPause(w) \/ CommitResume(w) \/ CommitFinish(w) \/ CommitClose(w)
      PROVE  EndedMay(s)
  <2>1. /\ s \in req[w].ids /\ req[w].op \in Updates /\ Done(w)
        /\ GoodChange(seances[s], seances'[s])
    BY <1>2, UpdateEffect
  <2>2. req[w].loaded[s].status = "en_cours"
    BY <2>1 DEF IInv, RequestShape, RequestOK
  <2>3. seances[s].status = "terminee" /\ req'[w] = Idle
    BY <2>1 DEF Done, GoodChange, IInv, TypeOK
  <2>. QED
    BY <2>1, <2>2, <2>3 DEF EndedMay
<1>3. ASSUME NEW w \in Workers, CommitStart(w) \/ CommitMissed(w)
      PROVE  FALSE
  BY <1>3 DEF CommitStart, CommitMissed, Insert, IInv, TypeOK
<1>4. ASSUME NEW w \in Workers, Read(w)
      PROVE  FALSE
  BY <1>4, ReadChangesNothing
<1>. QED
  BY <1>1, <1>2, <1>3, <1>4 DEF Next, Commit, CommitRapport, Rollback, Tick

\* What is over changes only by a deletion of what it refers to, or through a request
\* that read it under way.
THEOREM EndedChanges == Spec => EndedChangesOnlyByOverlap
  BY StepEnded, Invariance, PTL DEF Spec, EndedChangesOnlyByOverlap, EndedMay

-----------------------------------------------------------------------------
(* Seances implements SeanceLifecycle *)

\* The phase of a séance under the refinement mapping, status by status.
LEMMA PhaseOf ==
  /\ Phase["absent"] = "absent" /\ Phase["en_cours"] = "running"
  /\ Phase["terminee"] = "ended" /\ Phase["manquee"] = "missed"
  /\ Phase["deleted"] = "deleted"
  BY DEF Phase

\* A new row is a séance that appears.
LEMMA InsertMaps ==
  ASSUME TypeOK, NEW w \in Workers, NEW row, Insert(w, row),
         row.status \in {"en_cours", "manquee"}
  PROVE  Lifecycle!Next
<1>1. PICK s \in SeanceIds : seances[s].status = "absent" /\ seances' = [seances EXCEPT ![s] = row]
  BY DEF Insert
<1>2. \A q \in SeanceIds : seances'[q] = IF q = s THEN row ELSE seances[q]
  BY <1>1 DEF TypeOK
<1>3. rapports' = rapports
  BY DEF Insert
<1>. DEFINE p == Phase[row.status]
<1>4. p \in {"running", "missed"}
  BY PhaseOf
<1>5. \A q \in SeanceIds : Phase[seances'[q].status] = IF q = s THEN p ELSE Phase[seances[q].status]
  BY <1>2
<1>6. Phase[seances[s].status] = "absent"
  BY <1>1, PhaseOf
<1>. HIDE DEF p
<1>7. Lifecycle!Appear(s, p)
  BY <1>3, <1>5, <1>6 DEF Lifecycle!Appear
<1>. QED
  BY <1>4, <1>7 DEF Lifecycle!Next

\* A column-wise write ends some of the séances under way and changes no other phase.
LEMMA UpdateMaps ==
  ASSUME IInv, NEW w \in Workers,
         CommitPause(w) \/ CommitResume(w) \/ CommitFinish(w) \/ CommitClose(w)
  PROVE  Lifecycle!Next
<1>. DEFINE S == {s \in SeanceIds : /\ seances[s].status = "en_cours"
                                    /\ seances'[s].status = "terminee"}
<1>1. \A s \in SeanceIds : seances'[s].status # seances[s].status => s \in S
  BY UpdateEffect DEF GoodChange
<1>2. rapports' = rapports
  BY UpdateEffect
<1>3. PICK T \in SUBSET SeanceIds : T = S
  OBVIOUS
<1>. HIDE DEF S
<1>4. Lifecycle!End(T)
  <2>1. \A s \in T : seances[s].status = "en_cours" /\ seances'[s].status = "terminee"
    BY <1>3 DEF S
  <2>2. \A s \in SeanceIds \ T : seances'[s].status = seances[s].status
    BY <1>1, <1>3
  <2>. QED
    BY <1>2, <2>1, <2>2, PhaseOf DEF Lifecycle!End
<1>. QED
  BY <1>4 DEF Lifecycle!Next

\* The INSERT of a report is a File step of the abstract specification.
LEMMA RapportMaps ==
  ASSUME IInv, NEW w \in Workers, CommitRapport(w)
  PROVE  Lifecycle!Next
<1>1. PICK s \in req[w].ids : Insertable(s) /\ rapports' = [rapports EXCEPT ![s] = Append(@, req[w].teacher)]
  BY DEF CommitRapport
<1>2. req[w] \in Request /\ seances \in [SeanceIds -> Seance] /\ rapports \in [SeanceIds -> Seq(Teachers)]
  BY DEF IInv, TypeOK
<1>3. s \in SeanceIds /\ req[w].teacher \in Teachers
  BY <1>1, <1>2 DEF Request, CommitRapport, IInv, RequestShape, RequestOK
<1>4. seances[s].status \in {"en_cours", "terminee", "manquee"}
  BY <1>1, <1>2, <1>3 DEF Insertable, Exists, Seance, Statuses
<1>5. rapports[s] = <<>>
  BY <1>1 DEF Insertable
<1>6. rapports'[s] # <<>>
  <2>1. rapports'[s] = Append(<<>>, req[w].teacher)
    BY <1>1, <1>2, <1>3, <1>5
  <2>. QED
    BY <2>1, <1>3
<1>7. \A q \in SeanceIds \ {s} : rapports'[q] = rapports[q]
  BY <1>1, <1>2
<1>8. Lifecycle!File(s)
  <2>1. {q \in SeanceIds : rapports'[q] # <<>>} = {q \in SeanceIds : rapports[q] # <<>>} \cup {s}
    BY <1>3, <1>6, <1>7
  <2>2. Phase[seances[s].status] \in {"running", "ended", "missed"}
    BY <1>4, PhaseOf
  <2>3. seances' = seances
    BY DEF CommitRapport
  <2>. QED
    BY <1>3, <1>5, <2>1, <2>2, <2>3 DEF Lifecycle!File
<1>. QED
  BY <1>3, <1>8 DEF Lifecycle!Next

\* A deletion is a Delete step, of no séance when only segments go.
LEMMA DeleteMaps ==
  ASSUME IInv, \/ \E t \in Teachers : DeleteTeacher(t)
               \/ \E p \in Sessions :
                    DeleteSession(p) \/ \E G \in SUBSET Segments : DeleteSegments(p, G)
  PROVE  Lifecycle!Next
<1>0. PICK S \in SUBSET SeanceIds :
        /\ Cascade(S)
        /\ \A s \in S : seances[s].teacher \in Teachers \/ seances[s].session \in Sessions
  BY Deletions
<1>1. \A s \in S : seances[s].status \in {"en_cours", "terminee", "manquee"}
  <2>1. NULL \notin Teachers /\ NULL \notin Sessions
    BY SeancesAssumption
  <2>2. \A s \in SeanceIds : seances[s].status \in Statuses
    BY DEF IInv, TypeOK, Seance
  <2>. QED
    BY <1>0, <2>1, <2>2 DEF IInv, SeanceShape, RowShape, Statuses
<1>2. \A s \in SeanceIds : seances'[s].status = IF s \in S THEN "deleted" ELSE seances[s].status
  BY <1>0, CascadeEffect, DeletedRow DEF IInv
<1>3. \A s \in SeanceIds : rapports'[s] = IF s \in S THEN <<>> ELSE rapports[s]
  BY <1>0 DEF Cascade
<1>4. \A s \in S : Phase[seances[s].status] \in {"running", "ended", "missed"}
  BY <1>1, PhaseOf
<1>5. \A s \in SeanceIds : Phase[seances'[s].status] = IF s \in S THEN "deleted" ELSE Phase[seances[s].status]
  BY <1>2, PhaseOf
<1>6. {s \in SeanceIds : rapports'[s] # <<>>} = {s \in SeanceIds : rapports[s] # <<>>} \ S
  BY <1>3
<1>7. Lifecycle!Delete(S)
  BY <1>4, <1>5, <1>6 DEF Lifecycle!Delete
<1>. QED
  BY <1>7 DEF Lifecycle!Next

\* Every step is a step of SeanceLifecycle or stutters.
LEMMA StepMaps == IInv /\ [Next]_vars => [Lifecycle!Next]_Lifecycle!vars
<1>. SUFFICES ASSUME IInv, [Next]_vars
              PROVE  [Lifecycle!Next]_Lifecycle!vars
  OBVIOUS
<1>1. ASSUME NEW w \in Workers, CommitStart(w)
      PROVE  Lifecycle!Next
  <2>. DEFINE row == [NoSeance EXCEPT !.status = "en_cours", !.teacher = req[w].teacher,
                                      !.session = req[w].session, !.segment = req[w].segment,
                                      !.started_at = req[w].at]
  <2>1. row.status = "en_cours"
    BY DEF NoSeance
  <2>2. Insert(w, row)
    BY <1>1 DEF CommitStart
  <2>. HIDE DEF row
  <2>. QED
    BY <2>1, <2>2, InsertMaps DEF IInv
<1>2. ASSUME NEW w \in Workers, CommitMissed(w)
      PROVE  Lifecycle!Next
  <2>. DEFINE row == [NoSeance EXCEPT !.status = "manquee", !.teacher = req[w].teacher,
                                      !.session = req[w].session, !.segment = req[w].segment,
                                      !.duree = 0]
  <2>1. row.status = "manquee"
    BY DEF NoSeance
  <2>2. Insert(w, row)
    BY <1>2 DEF CommitMissed
  <2>. HIDE DEF row
  <2>. QED
    BY <2>1, <2>2, InsertMaps DEF IInv
<1>3. ASSUME NEW w \in Workers, Read(w)
      PROVE  UNCHANGED <<seances, rapports>>
  BY <1>3, ReadChangesNothing
<1>4. CASE UNCHANGED <<seances, rapports>>
  BY <1>4 DEF Lifecycle!vars
<1>. QED
  BY <1>1, <1>2, <1>3, <1>4, UpdateMaps, RapportMaps, DeleteMaps
  DEF Next, Commit, Rollback, Tick, vars

\* Whatever requests race, the tables keep the promises of SeanceLifecycle: the phases
\* of a séance only advance, and a report is filed once, for a séance that exists.
THEOREM Refinement == Spec => ImplementsLifecycle
<1>1. Init => Lifecycle!Init
  BY PhaseOf DEF Init, NoSeance, Lifecycle!Init
<1>. QED
  BY <1>1, StepMaps, Invariance, PTL DEF Spec, ImplementsLifecycle, Lifecycle!Spec
=============================================================================
