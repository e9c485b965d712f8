------------------------------ MODULE Programme ------------------------------
(***************************************************************************)
(* What the dashboard sets for the whole programme: the sessions and which *)
(* of them is active, the teachers of a session (session_service.py), its  *)
(* weekly planning (admin/planning.py) and the number of weeks and days of *)
(* a school or a session (admin/progression_configs.py,                    *)
(* progression_service.py).                                                *)
(*                                                                         *)
(* A request reads, changes and commits in separate actions, READ          *)
(* COMMITTED. A bulk UPDATE or DELETE is about the rows committed when it  *)
(* starts. It waits for those that another transaction holds, and then     *)
(* holds them itself until the COMMIT.                                     *)
(***************************************************************************)
EXTENDS Integers, FiniteSets, TLC

CONSTANTS
  Sessions,     \* primary keys of sessions
  Enseignants,  \* teachers
  Semaines,     \* weeks of a planning; NULL stands for all of them
  Heures,       \* day and starting hour of a segment
  Ecoles,       \* schools, of a progression configuration; NULL stands for all of them
  MaxRequetes,  \* bound: requests that change something
  Workers,      \* requests served at the same time
  NULL          \* SQL NULL, and a key without row

ASSUME ProgrammeAssumption ==
  /\ MaxRequetes \in Nat /\ IsFiniteSet(Workers)
  /\ NULL \notin Sessions \cup Semaines \cup Ecoles
  /\ NULL \notin [status : {"active", "inactive"}, no : Nat]

VARIABLES
  cles,          \* primary keys of sessions that uuid4 has not drawn yet
  sessions,      \* table program_sessions: status; no is the activation that made it
                 \* active, 0 after any other change
  affectations,  \* table teacher_sessions; no is the COMMIT that wrote the row
  segments,      \* table planning_segments; no likewise
  configs,       \* table progression_configs: cle, the primary key, and no likewise
  croisees,      \* COMMITs of what another request wrote at the same time, and of single rows
  req,           \* req[w]: the request of worker w
  no             \* COMMITs so far

vars == <<cles, sessions, affectations, segments, configs, croisees, req, no>>

-----------------------------------------------------------------------------
(* Tables and requests *)

Session == [status : {"active", "inactive"}, no : 0..MaxRequetes]
Affectation == [session : Sessions, enseignant : Enseignants, no : 1..MaxRequetes]
Segment == [session : Sessions, semaine : Semaines \cup {NULL}, heure : Heures, no : 1..MaxRequetes]
Config == [cle : 1..MaxRequetes, ecole : Ecoles \cup {NULL}, session : Sessions \cup {NULL}, no : 1..MaxRequetes]

Idle == [op |-> "idle"]

Exists(s) == sessions[s] # NULL

Init ==
  /\ sessions = [s \in Sessions |-> NULL] /\ cles = Sessions
  /\ affectations = {} /\ segments = {} /\ configs = {}
  /\ croisees = {} /\ no = 0
  /\ req = [w \in Workers |-> Idle]

Pending == {w \in Workers : req[w] # Idle}

Arrive(w, request) ==
  /\ req[w] = Idle
  /\ no + Cardinality(Pending) < MaxRequetes
  /\ req' = [req EXCEPT ![w] = request]
  /\ UNCHANGED <<cles, sessions, affectations, segments, configs, croisees, no>>

\* The COMMIT, which numbers the rows it wrote.
Done(w) == req' = [req EXCEPT ![w] = Idle] /\ no' = no + 1

\* Rows that the transactions of the workers W hold.
Held(W) == UNION {req[w].vues : w \in {v \in W : req[v].op \in {"activated", "assigned", "imported"}}}

\* The COMMIT of w crosses another one when that one wrote some of rows since w read.
Crossed(w, rows) ==
  croisees' = IF \E r \in rows : r.no > req[w].lu THEN croisees \cup {no + 1} ELSE croisees

\* The rows of a table that refer to a session.
De(s, rows) == {r \in rows : r.session = s}

-----------------------------------------------------------------------------
(* Sessions *)

\* create_session: inactive.
CreateSession(s) ==
  /\ s \in cles /\ cles' = cles \ {s}
  /\ sessions' = [sessions EXCEPT ![s] = [status |-> "inactive", no |-> 0]]
  /\ UNCHANGED <<affectations, segments, configs, croisees, req, no>>

\* update_session: the status sent, against the one loaded.
ReadUpdate(w, s, status) ==
  /\ Exists(s)
  /\ Arrive(w, [op |-> "update", session |-> s, loaded |-> sessions[s].status, sent |-> status])

CommitUpdate(w) ==
  /\ req[w].op = "update"
  /\ LET s == req[w].session
     IN /\ Exists(s) /\ s \notin Held(Workers \ {w})
        /\ sessions' = IF req[w].sent = req[w].loaded THEN sessions
                       ELSE [sessions EXCEPT ![s] = [status |-> req[w].sent, no |-> 0]]
  /\ Done(w)
  /\ UNCHANGED <<cles, affectations, segments, configs, croisees>>

\* Faulty variant: the configurations of the session stay.
DeleteSessionSeule(s) ==
  /\ Exists(s)
  /\ sessions' = [sessions EXCEPT ![s] = NULL]
  /\ affectations' = affectations \ De(s, affectations)
  /\ segments' = segments \ De(s, segments)
  /\ UNCHANGED <<cles, configs, croisees, req, no>>

\* delete_session: assignments, planning and configurations go with it.
DeleteSession(s) ==
  /\ Exists(s)
  /\ ({s} \cup De(s, affectations) \cup De(s, segments)) \cap Held(Workers) = {}
  /\ sessions' = [sessions EXCEPT ![s] = NULL]
  /\ affectations' = affectations \ De(s, affectations)
  /\ segments' = segments \ De(s, segments)
  /\ configs' = configs \ De(s, configs)
  /\ UNCHANGED <<cles, croisees, req, no>>

Existing == {s \in Sessions : Exists(s)}

ReadActivate(w, s) == Exists(s) /\ Arrive(w, [op |-> "activate", session |-> s, lues |-> Existing])

\* Faulty variant: only the rows seen active are deactivated, and only they are held.
DeactivateActive(w) ==
  /\ req[w].op = "activate"
  /\ LET S == {s \in req[w].lues \cap Existing : sessions[s].status = "active" \/ s = req[w].session}
     IN /\ S \cap Held(Workers \ {w}) = {}
        /\ req' = [req EXCEPT ![w] = [op |-> "activated", session |-> @.session, lues |-> @.lues, vues |-> S]]
  /\ UNCHANGED <<cles, sessions, affectations, segments, configs, croisees, no>>

\* activate_session: UPDATE of all the sessions, which waits for each.
DeactivateAll(w) ==
  /\ req[w].op = "activate"
  /\ LET S == req[w].lues \cap Existing
     IN /\ S \cap Held(Workers \ {w}) = {}
        /\ req' = [req EXCEPT ![w] = [op |-> "activated", session |-> @.session, lues |-> @.lues, vues |-> S]]
  /\ UNCHANGED <<cles, sessions, affectations, segments, configs, croisees, no>>

\* UPDATE of the target, and COMMIT. Without target db.refresh raises. The activation
\* is crossed by a session created since the first UPDATE started.
CommitActivate(w) ==
  /\ req[w].op = "activated" /\ req[w].session \in req[w].vues
  /\ sessions' = [s \in Sessions |->
       IF s = req[w].session THEN [status |-> "active", no |-> no + 1]
       ELSE IF s \in req[w].vues THEN [status |-> "inactive", no |-> 0]
       ELSE sessions[s]]
  /\ croisees' = IF Existing \subseteq req[w].lues THEN croisees ELSE croisees \cup {no + 1}
  /\ Done(w)
  /\ UNCHANGED <<cles, affectations, segments, configs>>

-----------------------------------------------------------------------------
(* Replacements by DELETE and INSERT *)

\* session_service.assign_teachers, after its checks.
ReadAssign(w, s, T) ==
  Exists(s) /\ Arrive(w, [op |-> "assign", session |-> s, enseignants |-> T, lu |-> no])

DeleteAffectations(w) ==
  /\ req[w].op = "assign"
  /\ LET r == req[w]
         anciennes == {a \in De(r.session, affectations) : a.no <= r.lu}
     IN /\ anciennes \cap Held(Workers \ {w}) = {}
        /\ req' = [req EXCEPT ![w] = [op |-> "assigned", session |-> r.session,
                     enseignants |-> r.enseignants, lu |-> r.lu, vues |-> anciennes]]
  /\ UNCHANGED <<cles, sessions, affectations, segments, configs, croisees, no>>

\* The INSERTs break the primary key when another request has assigned one of the teachers.
InsertAffectations(w) ==
  /\ req[w].op = "assigned" /\ Exists(req[w].session)
  /\ LET s == req[w].session
         restent == affectations \ req[w].vues
     IN /\ \A a \in De(s, restent) : a.enseignant \notin req[w].enseignants
        /\ affectations' = restent \cup {[session |-> s, enseignant |-> t, no |-> no + 1] :
                                           t \in req[w].enseignants}
        /\ Crossed(w, De(s, restent))
  /\ Done(w)
  /\ UNCHANGED <<cles, sessions, segments, configs>>

\* uq_planning_segment, where a NULL week equals no other.
MemeCreneau(g, h) ==
  g.semaine # NULL /\ <<g.session, g.semaine, g.heure>> = <<h.session, h.semaine, h.heure>>

\* create_segment.
CreateSegment(w, s, k, h) ==
  /\ Exists(s)
  /\ \A g \in segments : ~MemeCreneau(g, [session |-> s, semaine |-> k, heure |-> h])
  /\ req[w] = Idle /\ no + Cardinality(Pending) < MaxRequetes
  /\ no' = no + 1
  /\ segments' = segments \cup {[session |-> s, semaine |-> k, heure |-> h, no |-> no + 1]}
  /\ croisees' = croisees \cup {no + 1}
  /\ UNCHANGED <<cles, sessions, affectations, configs, req>>

\* update_segment moves a segment to another week, delete_segment removes it.
UpdateSegment(g, k) ==
  /\ g \notin Held(Workers)
  /\ LET h == [g EXCEPT !.semaine = k]
     IN /\ \A f \in segments \ {g} : ~MemeCreneau(f, h)
        /\ segments' = (segments \ {g}) \cup {h}
  /\ croisees' = croisees \cup {g.no}
  /\ UNCHANGED <<cles, sessions, affectations, configs, req, no>>

DeleteSegment(g) ==
  /\ g \notin Held(Workers)
  /\ segments' = segments \ {g}
  /\ UNCHANGED <<cles, sessions, affectations, configs, croisees, req, no>>

\* Faulty variant: without a week, only the segments without week are deleted.
DeSemaine(g, s, k) == g.session = s /\ g.semaine = k

\* What an import replaces: the week, or the whole planning of the session.
Remplaces(g, s, k) == g.session = s /\ (k # NULL => g.semaine = k)

\* import_planning: the old planning is deleted whatever the file held; H is what the
\* parser understood of it.
ReadImport(w, s, k, H) ==
  Exists(s) /\ Arrive(w, [op |-> "import", session |-> s, semaine |-> k, heures |-> H, lu |-> no])

DeletePlanning(w) ==
  /\ req[w].op = "import"
  /\ LET r == req[w]
         anciens == {g \in segments : Remplaces(g, r.session, r.semaine) /\ g.no <= r.lu}
     IN /\ anciens \cap Held(Workers \ {w}) = {}
        /\ req' = [req EXCEPT ![w] = [op |-> "imported", session |-> r.session, semaine |-> r.semaine,
                     heures |-> r.heures, lu |-> r.lu, vues |-> anciens]]
  /\ UNCHANGED <<cles, sessions, affectations, segments, configs, croisees, no>>

InsertPlanning(w) ==
  /\ req[w].op = "imported" /\ Exists(req[w].session)
  /\ LET r == req[w]
         restent == segments \ r.vues
         nouveaux == {[session |-> r.session, semaine |-> r.semaine, heure |-> h, no |-> no + 1] : h \in r.heures}
     IN /\ \A g \in nouveaux, h \in restent : ~MemeCreneau(g, h)
        /\ segments' = restent \cup nouveaux
        /\ Crossed(w, {g \in restent : Remplaces(g, r.session, r.semaine)})
  /\ Done(w)
  /\ UNCHANGED <<cles, sessions, affectations, configs>>

-----------------------------------------------------------------------------
(* Progression configurations *)

\* Faulty variant: = of SQL, which NULL never satisfies.
EgalePortee(e, s) == {c \in configs : c.ecole = e /\ c.session = s /\ NULL \notin {e, s}}

\* The configurations of a scope, where NULL stands for itself.
DePortee(e, s) == {c \in configs : c.ecole = e /\ c.session = s}

\* create_progression_config: SELECT of the scope, then INSERT. With two rows of the scope
\* the SELECT itself raises.
ReadConfig(w, e, s) ==
  /\ s # NULL => Exists(s)
  /\ DePortee(e, s) = {}
  /\ Arrive(w, [op |-> "config", ecole |-> e, session |-> s, lu |-> no])

\* uq_progression_config_school_session, where NULLs are distinct.
Inserable(c, autres) ==
  /\ c.session # NULL => Exists(c.session)
  /\ NULL \notin {c.ecole, c.session} => \A d \in autres : <<d.ecole, d.session>> # <<c.ecole, c.session>>

CommitConfig(w) ==
  /\ req[w].op = "config"
  /\ LET c == [cle |-> no + 1, ecole |-> req[w].ecole, session |-> req[w].session, no |-> no + 1]
     IN /\ Inserable(c, configs)
        /\ configs' = configs \cup {c}
        /\ Crossed(w, DePortee(c.ecole, c.session))
  /\ Done(w)
  /\ UNCHANGED <<cles, sessions, affectations, segments>>

\* update_progression_config: the same SELECT for the scope the row is to have.
ReadPortee(w, c, e, s) ==
  /\ <<e, s>> # <<c.ecole, c.session>> /\ DePortee(e, s) = {}
  /\ Arrive(w, [op |-> "portee", ligne |-> c, ecole |-> e, session |-> s, lu |-> no])

\* The UPDATE of the columns that change; without row to change it raises.
CommitPortee(w) ==
  /\ req[w].op = "portee"
  /\ \E ligne \in configs :
       LET r == req[w]
           c == [ligne EXCEPT !.no = no + 1,
                   !.ecole = IF r.ecole = r.ligne.ecole THEN @ ELSE r.ecole,
                   !.session = IF r.session = r.ligne.session THEN @ ELSE r.session]
       IN /\ ligne.cle = r.ligne.cle
          /\ Inserable(c, configs \ {ligne})
          /\ configs' = (configs \ {ligne}) \cup {c}
          /\ Crossed(w, {ligne} \cup DePortee(c.ecole, c.session))
  /\ Done(w)
  /\ UNCHANGED <<cles, sessions, affectations, segments>>

DeleteConfig(c) ==
  /\ configs' = configs \ {c}
  /\ UNCHANGED <<cles, sessions, affectations, segments, croisees, req, no>>

\* get_config_for: the scopes from the most precise to the most general.
Portees(e, s) ==
  LET candidates == <<<<e, s>>, <<e, NULL>>, <<NULL, s>>, <<NULL, NULL>>>>
  IN {candidates[i] : i \in {j \in 1..4 : /\ (j = 1 => e # NULL /\ s # NULL)
                                           /\ (j = 2 => e # NULL) /\ (j = 3 => s # NULL)}}

-----------------------------------------------------------------------------
(* The environment *)

\* The handler raised, a deadlock was broken, or the worker died.
Rollback(w) ==
  /\ req[w] # Idle
  /\ req' = [req EXCEPT ![w] = Idle]
  /\ UNCHANGED <<cles, sessions, affectations, segments, configs, croisees, no>>

DeleteTeacher(t) ==
  /\ \E a \in affectations : a.enseignant = t
  /\ affectations' = {a \in affectations : a.enseignant # t}
  /\ {a \in affectations : a.enseignant = t} \cap Held(Workers) = {}
  /\ UNCHANGED <<cles, sessions, segments, configs, croisees, req, no>>

Next ==
  \/ \E s \in Sessions : CreateSession(s) \/ DeleteSession(s)
  \/ \E w \in Workers :
       \/ \E s \in Sessions :
            \/ ReadActivate(w, s)
            \/ \E status \in {"active", "inactive"} : ReadUpdate(w, s, status)
            \/ \E T \in SUBSET Enseignants : ReadAssign(w, s, T)
            \/ \E k \in Semaines \cup {NULL} :
                 \/ \E h \in Heures : CreateSegment(w, s, k, h)
                 \/ \E H \in SUBSET Heures : ReadImport(w, s, k, H)
       \/ \E e \in Ecoles \cup {NULL}, s \in Sessions \cup {NULL} :
            ReadConfig(w, e, s) \/ \E c \in configs : ReadPortee(w, c, e, s)
       \/ CommitUpdate(w) \/ DeactivateAll(w) \/ CommitActivate(w)
       \/ DeleteAffectations(w) \/ InsertAffectations(w) \/ DeletePlanning(w) \/ InsertPlanning(w)
       \/ Rollback(w)
       \/ CommitConfig(w) \/ CommitPortee(w)
  \/ \E g \in segments : DeleteSegment(g) \/ \E k \in Semaines \cup {NULL} : UpdateSegment(g, k)
  \/ \E c \in configs : DeleteConfig(c)
  \/ \E t \in Enseignants : DeleteTeacher(t)

Spec == Init /\ [][Next]_vars

-----------------------------------------------------------------------------
(* Properties *)

\* Every variable keeps its type, and no row refers to a session that is gone.
TypeOK ==
  /\ sessions \in [Sessions -> Session \cup {NULL}]
  /\ affectations \subseteq Affectation /\ segments \subseteq Segment /\ configs \subseteq Config
  /\ cles \subseteq {s \in Sessions : ~Exists(s)}
  /\ \A a \in affectations : Exists(a.session)
  /\ \A g \in segments : Exists(g.session)
  /\ \A c \in configs : c.session # NULL => Exists(c.session)
  /\ croisees \subseteq 1..MaxRequetes /\ no \in 0..MaxRequetes

\* However activations overlap with each other and with the form, no two sessions are
\* active by them, unless one was created while the other was being activated.
OneActivated ==
  \A s, t \in Existing :
    /\ sessions[s].status = "active" /\ sessions[s].no \notin croisees \cup {0}
    /\ sessions[t].status = "active" /\ sessions[t].no \notin croisees \cup {0}
    => s = t

\* "Remplace integralement": the teachers of a session, and its planning, are never those
\* of two requests, unless another one committed between DELETE and INSERT.
ReplacedWholly ==
  /\ \A a, b \in affectations :
       a.session = b.session /\ a.no # b.no => a.no \in croisees \/ b.no \in croisees
  /\ \A g, h \in segments :
       /\ g.session = h.session /\ g.no # h.no /\ {g.no, h.no} \cap croisees = {}
       => g.semaine # h.semaine /\ (g.no < h.no => h.semaine # NULL)

\* For every school and session at most one configuration answers at each level, so that
\* get_config_for does not raise, unless two requests gave that level at the same time.
ConfigResolves ==
  \A e \in Ecoles \cup {NULL}, s \in Sessions \cup {NULL} :
    \A p \in Portees(e, s) :
      \A c, d \in configs :
        <<c.ecole, c.session>> = p /\ <<d.ecole, d.session>> = p /\ {c.no, d.no} \cap croisees = {} => c = d
=============================================================================
