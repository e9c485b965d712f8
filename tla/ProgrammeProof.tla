--------------------------- MODULE ProgrammeProof ---------------------------
(***************************************************************************)
(* Theorems about module Programme, for every set of sessions, teachers,   *)
(* weeks, hours, schools and workers, and every bound.                     *)
(***************************************************************************)
EXTENDS Programme, FiniteSetTheorems, TLAPS

-----------------------------------------------------------------------------
(* Types *)

Statuses == {"active", "inactive"}

\* The fields of a request, by the step it has reached.
Typed(r) ==
  /\ r.op = "update" => r.session \in Sessions /\ r.sent \in Statuses
  /\ r.op \in {"activate", "activated"} => r.session \in Sessions
  /\ r.op \in {"assign", "assigned"} =>
       r.session \in Sessions /\ r.enseignants \subseteq Enseignants /\ r.lu \in 0..no
  /\ r.op \in {"import", "imported"} =>
       /\ r.session \in Sessions /\ r.semaine \in Semaines \cup {NULL}
       /\ r.heures \subseteq Heures /\ r.lu \in 0..no
  /\ r.op \in {"config", "portee"} =>
       r.ecole \in Ecoles \cup {NULL} /\ r.session \in Sessions \cup {NULL} /\ r.lu \in 0..no

\* The strengthening that makes TypeOK inductive: the types of the requests, and room
\* for the COMMIT of each.
TypeInv ==
  /\ TypeOK
  /\ req = [w \in Workers |-> req[w]]
  /\ \A w \in Workers : Typed(req[w])
  /\ no + Cardinality(Pending) <= MaxRequetes

\* The requests under way are finitely many.
LEMMA PendingFinite == IsFiniteSet(Pending) /\ Cardinality(Pending) \in Nat
  BY ProgrammeAssumption, FS_Subset, FS_CardinalityType DEF Pending

\* A request that arrives has room for its COMMIT.
LEMMA ArriveFits ==
  ASSUME TypeInv, NEW w \in Workers, NEW r, Arrive(w, r)
  PROVE  no' = no /\ no' + Cardinality(Pending') <= MaxRequetes
<1>1. Pending' \subseteq Pending \cup {w}
  BY DEF Arrive, Pending, TypeInv
<1>2. IsFiniteSet(Pending \cup {w}) /\ Cardinality(Pending \cup {w}) <= Cardinality(Pending) + 1
  <2>1. w \notin Pending
    BY DEF Arrive, Pending
  <2>. QED
    BY <2>1, PendingFinite, FS_AddElement
<1>3. Cardinality(Pending') <= Cardinality(Pending \cup {w}) /\ Cardinality(Pending') \in Nat
  BY <1>1, <1>2, FS_Subset, FS_CardinalityType
<1>4. no \in Nat /\ Cardinality(Pending) \in Nat /\ Cardinality(Pending \cup {w}) \in Nat
  BY <1>2, PendingFinite, FS_CardinalityType DEF TypeInv, TypeOK
<1>. QED
  BY <1>2, <1>3, <1>4, ProgrammeAssumption DEF Arrive

\* A request that goes on keeps its room.
LEMMA GoOnFits ==
  ASSUME TypeInv, NEW w \in Workers, NEW r, req[w] # Idle, req' = [req EXCEPT ![w] = r], no' = no
  PROVE  no' + Cardinality(Pending') <= MaxRequetes
<1>1. Pending' \subseteq Pending
  BY DEF Pending, TypeInv
<1>2. Cardinality(Pending') <= Cardinality(Pending) /\ Cardinality(Pending') \in Nat
  BY <1>1, PendingFinite, FS_Subset, FS_CardinalityType
<1>. QED
  BY <1>2, PendingFinite, ProgrammeAssumption DEF TypeInv, TypeOK

\* A COMMIT uses the room of its request.
LEMMA CommitFits ==
  ASSUME TypeInv, NEW w \in Workers, req[w] # Idle, Done(w)
  PROVE  /\ no' = no + 1 /\ no' \in 1..MaxRequetes
         /\ no' + Cardinality(Pending') <= MaxRequetes
<1>1. Pending' = Pending \ {w} /\ w \in Pending
  BY DEF Done, Pending, TypeInv
<1>2. Cardinality(Pending') = Cardinality(Pending) - 1 /\ Cardinality(Pending') \in Nat
  BY <1>1, PendingFinite, FS_RemoveElement, FS_CardinalityType
<1>. QED
  BY <1>2, PendingFinite, ProgrammeAssumption DEF TypeInv, TypeOK, Done

\* The tables when a step writes none of them.
LEMMA TablesKept ==
  ASSUME TypeInv, UNCHANGED <<cles, sessions, affectations, segments, configs, croisees>>, no' \in 0..MaxRequetes
  PROVE  TypeOK'
  BY DEF TypeInv, TypeOK, Exists

\* The other requests, and the one that goes on, keep their types.
LEMMA RequestsKept ==
  ASSUME TypeInv, NEW w \in Workers, NEW r, req' = [req EXCEPT ![w] = r], Typed(r),
         no' \in Nat, no <= no'
  PROVE  req' = [v \in Workers |-> req'[v]] /\ \A v \in Workers : Typed(req[v])'
<1>1. \A v \in Workers : req'[v] = IF v = w THEN r ELSE req[v]
  BY DEF TypeInv
<1>2. \A v \in Workers : Typed(req'[v])
  BY <1>1 DEF TypeInv
<1>3. 0..no \subseteq 0..no'
  BY DEF TypeInv, TypeOK
<1>4. \A v \in Workers : Typed(req[v])'
  BY <1>2, <1>3 DEF Typed
<1>. QED
  BY <1>4 DEF TypeInv

\* The arrival of a request of the right type.
LEMMA ArriveTyped ==
  ASSUME TypeInv, NEW w \in Workers, NEW r, Arrive(w, r), Typed(r)
  PROVE  TypeInv'
<1>1. no' = no /\ no' + Cardinality(Pending') <= MaxRequetes /\ no \in 0..MaxRequetes
  BY ArriveFits DEF TypeInv, TypeOK
<1>2. TypeOK'
  BY <1>1, TablesKept DEF Arrive
<1>3. no' \in Nat /\ no <= no' /\ req' = [req EXCEPT ![w] = r]
  BY <1>1 DEF Arrive
<1>4. req' = [v \in Workers |-> req'[v]] /\ \A v \in Workers : Typed(req[v])'
  BY <1>3, RequestsKept
<1>. QED
  BY <1>1, <1>2, <1>4 DEF TypeInv

\* A bulk UPDATE or DELETE that has its locks.
LEMMA LockTyped ==
  ASSUME TypeInv, NEW w \in Workers, NEW r, req[w] # Idle, req' = [req EXCEPT ![w] = r], Typed(r),
         UNCHANGED <<cles, sessions, affectations, segments, configs, croisees, no>>
  PROVE  TypeInv'
<1>1. no' = no /\ no' + Cardinality(Pending') <= MaxRequetes /\ no \in 0..MaxRequetes
  BY GoOnFits DEF TypeInv, TypeOK
<1>2. TypeOK'
  BY <1>1, TablesKept
<1>3. no' \in Nat /\ no <= no'
  BY <1>1
<1>4. req' = [v \in Workers |-> req'[v]] /\ \A v \in Workers : Typed(req[v])'
  BY <1>3, RequestsKept
<1>. QED
  BY <1>1, <1>2, <1>4 DEF TypeInv

\* A COMMIT whose tables are of the right type.
LEMMA CommitTyped ==
  ASSUME TypeInv, NEW w \in Workers, req[w] # Idle, Done(w), TypeOK'
  PROVE  TypeInv'
<1>1. no' = no + 1 /\ no' + Cardinality(Pending') <= MaxRequetes /\ no \in 0..MaxRequetes
  BY CommitFits DEF TypeInv, TypeOK
<1>2. Typed(Idle)
  BY DEF Typed, Idle
<1>3. no' \in Nat /\ no <= no' /\ req' = [req EXCEPT ![w] = Idle]
  BY <1>1 DEF Done
<1>4. req' = [v \in Workers |-> req'[v]] /\ \A v \in Workers : Typed(req[v])'
  BY <1>2, <1>3, RequestsKept
<1>. QED
  BY <1>1, <1>4 DEF TypeInv

\* A step on single rows, outside the requests under way.
LEMMA RowTyped ==
  ASSUME TypeInv, UNCHANGED <<req, no>>, TypeOK'
  PROVE  TypeInv'
<1>1. Pending' = Pending
  BY DEF Pending
<1>. QED
  BY <1>1 DEF TypeInv, Typed

\* The requests that arrive, of Next.
Arrivals(w) ==
  \/ \E s \in Sessions :
       \/ ReadActivate(w, s)
       \/ \E status \in Statuses : ReadUpdate(w, s, status)
       \/ \E T \in SUBSET Enseignants : ReadAssign(w, s, T)
       \/ \E k \in Semaines \cup {NULL}, H \in SUBSET Heures : ReadImport(w, s, k, H)
  \/ \E e \in Ecoles \cup {NULL}, s \in Sessions \cup {NULL} :
       ReadConfig(w, e, s) \/ \E c \in configs : ReadPortee(w, c, e, s)

\* The requests that arrive are of the right type.
LEMMA ArrivalsTyped ==
  ASSUME TypeInv, NEW w \in Workers, Arrivals(w)
  PROVE  \E r : Typed(r) /\ Arrive(w, r)
<1>0. no \in 0..no
  BY DEF TypeInv, TypeOK
<1>1. ASSUME NEW s \in Sessions, ReadActivate(w, s)
      PROVE  \E r : Typed(r) /\ Arrive(w, r)
  <2>1. PICK r : r = [op |-> "activate", session |-> s, lues |-> Existing]
    OBVIOUS
  <2>2. Typed(r)
    BY <1>0, <2>1 DEF Typed
  <2>3. Arrive(w, r)
    BY <1>1, <2>1 DEF ReadActivate
  <2>. QED
    BY <2>2, <2>3
<1>2. ASSUME NEW s \in Sessions, NEW status \in Statuses, ReadUpdate(w, s, status)
      PROVE  \E r : Typed(r) /\ Arrive(w, r)
  <2>1. PICK r : r = [op |-> "update", session |-> s, loaded |-> sessions[s].status, sent |-> status]
    OBVIOUS
  <2>2. Typed(r)
    BY <1>0, <2>1 DEF Typed
  <2>3. Arrive(w, r)
    BY <1>2, <2>1 DEF ReadUpdate
  <2>. QED
    BY <2>2, <2>3
<1>3. ASSUME NEW s \in Sessions, NEW T \in SUBSET Enseignants, ReadAssign(w, s, T)
      PROVE  \E r : Typed(r) /\ Arrive(w, r)
  <2>1. PICK r : r = [op |-> "assign", session |-> s, enseignants |-> T, lu |-> no]
    OBVIOUS
  <2>2. Typed(r)
    BY <1>0, <2>1 DEF Typed
  <2>3. Arrive(w, r)
    BY <1>3, <2>1 DEF ReadAssign
  <2>. QED
    BY <2>2, <2>3
<1>4. ASSUME NEW s \in Sessions, NEW k \in Semaines \cup {NULL}, NEW H \in SUBSET Heures, ReadImport(w, s, k, H)
      PROVE  \E r : Typed(r) /\ Arrive(w, r)
  <2>1. PICK r : r = [op |-> "import", session |-> s, semaine |-> k, heures |-> H, lu |-> no]
    OBVIOUS
  <2>2. Typed(r)
    BY <1>0, <2>1 DEF Typed
  <2>3. Arrive(w, r)
    BY <1>4, <2>1 DEF ReadImport
  <2>. QED
    BY <2>2, <2>3
<1>5. ASSUME NEW e \in Ecoles \cup {NULL}, NEW s \in Sessions \cup {NULL}, ReadConfig(w, e, s)
      PROVE  \E r : Typed(r) /\ Arrive(w, r)
  <2>1. PICK r : r = [op |-> "config", ecole |-> e, session |-> s, lu |-> no]
    OBVIOUS
  <2>2. Typed(r)
    BY <1>0, <2>1 DEF Typed
  <2>3. Arrive(w, r)
    BY <1>5, <2>1 DEF ReadConfig
  <2>. QED
    BY <2>2, <2>3
<1>6. ASSUME NEW e \in Ecoles \cup {NULL}, NEW s \in Sessions \cup {NULL}, NEW c \in configs, ReadPortee(w, c, e, s)
      PROVE  \E r : Typed(r) /\ Arrive(w, r)
  <2>1. PICK r : r = [op |-> "portee", ligne |-> c, ecole |-> e, session |-> s, lu |-> no]
    OBVIOUS
  <2>2. Typed(r)
    BY <1>0, <2>1 DEF Typed
  <2>3. Arrive(w, r)
    BY <1>6, <2>1 DEF ReadPortee
  <2>. QED
    BY <2>2, <2>3
<1>. QED
  BY <1>1, <1>2, <1>3, <1>4, <1>5, <1>6 DEF Arrivals

\* A row of program_sessions is no NULL.
LEMMA SessionIsRow ==
  ASSUME NEW status \in Statuses, NEW n \in 0..MaxRequetes
  PROVE  [status |-> status, no |-> n] \in Session /\ [status |-> status, no |-> n] # NULL
<1>1. [status |-> status, no |-> n] \in [status : {"active", "inactive"}, no : Nat]
  BY DEF Statuses
<1>. QED
  BY <1>1, ProgrammeAssumption DEF Session, Statuses

\* Rewriting rows that are there keeps the references to sessions.
LEMMA SessionsRewritten ==
  ASSUME TypeInv, no' \in 0..MaxRequetes, sessions' \in [Sessions -> Session \cup {NULL}],
         \A s \in Sessions : sessions'[s] # NULL <=> sessions[s] # NULL,
         croisees' \subseteq 1..MaxRequetes, UNCHANGED <<cles, affectations, segments, configs>>
  PROVE  TypeOK'
<1>1. affectations \subseteq Affectation /\ segments \subseteq Segment /\ configs \subseteq Config
  BY DEF TypeInv, TypeOK
<1>2. /\ \A a \in affectations : sessions'[a.session] # NULL
      /\ \A g \in segments : sessions'[g.session] # NULL
      /\ \A c \in configs : c.session # NULL => sessions'[c.session] # NULL
  BY <1>1 DEF TypeInv, TypeOK, Exists, Affectation, Segment, Config
<1>3. cles \subseteq {s \in Sessions : ~(sessions'[s] # NULL)}
  BY DEF TypeInv, TypeOK, Exists
<1>. QED
  BY <1>1, <1>2, <1>3 DEF TypeInv, TypeOK, Exists

\* What a request that activates knows of the sessions: those it saw are not created
\* again, and it holds the rows of those that are left.
ActInv ==
  \A w \in Workers :
    /\ req[w].op \in {"activate", "activated"} => req[w].lues \cap cles = {}
    /\ req[w].op = "activated" =>
         req[w].lues \cap Existing \subseteq req[w].vues /\ req[w].vues \subseteq Existing

\* update_session and activate_session.
LEMMA CommitSessionTyped ==
  ASSUME TypeInv, ActInv, NEW w \in Workers, CommitUpdate(w) \/ CommitActivate(w)
  PROVE  TypeInv'
<1>. USE DEF TypeInv, TypeOK
<1>1. req[w] # Idle /\ Done(w) /\ UNCHANGED <<cles, affectations, segments, configs>>
  BY DEF CommitUpdate, CommitActivate, Idle
<1>2. no' = no + 1 /\ no' \in 1..MaxRequetes /\ no \in 0..MaxRequetes
  BY <1>1, CommitFits
<1>3. CASE CommitUpdate(w)
  <2>1. PICK q : q = [status |-> req[w].sent, no |-> 0]
    OBVIOUS
  <2>2. req[w].session \in Sessions /\ req[w].sent \in Statuses /\ 0 \in 0..MaxRequetes
    BY <1>3, <1>2, ProgrammeAssumption DEF CommitUpdate, Typed
  <2>3. q \in Session /\ q # NULL
    BY <2>1, <2>2, SessionIsRow
  <2>4. /\ Exists(req[w].session)
        /\ sessions' = sessions \/ sessions' = [sessions EXCEPT ![req[w].session] = q]
    BY <1>3, <2>1 DEF CommitUpdate
  <2>5. sessions' \in [Sessions -> Session \cup {NULL}]
    BY <2>2, <2>3, <2>4
  <2>6. \A s \in Sessions : sessions'[s] # NULL <=> sessions[s] # NULL
    BY <2>2, <2>3, <2>4 DEF Exists
  <2>7. croisees' \subseteq 1..MaxRequetes
    BY <1>3 DEF CommitUpdate
  <2>. HIDE DEF TypeInv, TypeOK
  <2>8. TypeOK'
    BY <1>1, <1>2, <2>5, <2>6, <2>7, SessionsRewritten
  <2>. QED
    BY <1>1, <2>8, CommitTyped
<1>4. CASE CommitActivate(w)
  <2>1. PICK q : q = [status |-> "active", no |-> no + 1]
    OBVIOUS
  <2>2. PICK i : i = [status |-> "inactive", no |-> 0]
    OBVIOUS
  <2>3. "active" \in Statuses /\ "inactive" \in Statuses /\ 0 \in 0..MaxRequetes /\ no + 1 \in 0..MaxRequetes
    BY <1>2, ProgrammeAssumption DEF Statuses
  <2>4. q \in Session /\ q # NULL /\ i \in Session /\ i # NULL
    BY <2>1, <2>2, <2>3, SessionIsRow
  <2>5. /\ req[w].session \in req[w].vues /\ req[w].vues \subseteq Existing
        /\ sessions' = [s \in Sessions |->
             IF s = req[w].session THEN q ELSE IF s \in req[w].vues THEN i ELSE sessions[s]]
    BY <1>4, <2>1, <2>2 DEF CommitActivate, ActInv
  <2>6. sessions' \in [Sessions -> Session \cup {NULL}]
    BY <2>4, <2>5
  <2>7. \A s \in Sessions : sessions'[s] # NULL <=> sessions[s] # NULL
    BY <2>4, <2>5 DEF Existing, Exists
  <2>8. croisees' \subseteq 1..MaxRequetes
    BY <1>2, <1>4 DEF CommitActivate
  <2>. HIDE DEF TypeInv, TypeOK
  <2>9. TypeOK'
    BY <1>1, <1>2, <2>6, <2>7, <2>8, SessionsRewritten
  <2>. QED
    BY <1>1, <2>9, CommitTyped
<1>. QED
  BY <1>3, <1>4

\* assign_teachers and import_planning.
LEMMA CommitReplacementTyped ==
  ASSUME TypeInv, NEW w \in Workers, InsertAffectations(w) \/ InsertPlanning(w)
  PROVE  TypeInv'
<1>1. req[w] # Idle /\ Done(w) /\ UNCHANGED <<cles, sessions, configs>>
  BY DEF InsertAffectations, InsertPlanning, Idle
<1>2. no' = no + 1 /\ no' \in 1..MaxRequetes /\ no' \in 0..MaxRequetes
  BY <1>1, CommitFits, ProgrammeAssumption
<1>3. croisees' \subseteq 1..MaxRequetes
  BY <1>2 DEF InsertAffectations, InsertPlanning, Crossed, TypeInv, TypeOK
<1>4. ASSUME InsertAffectations(w)
      PROVE  TypeOK'
  <2>1. req[w].session \in Sessions /\ req[w].enseignants \subseteq Enseignants /\ Exists(req[w].session)
    BY <1>4 DEF InsertAffectations, TypeInv, Typed
  <2>. DEFINE S == req[w].session
              T == req[w].enseignants
  <2>2. \A a \in affectations' : a \in affectations \/ \E t \in T : a = [session |-> S, enseignant |-> t, no |-> no']
    BY <1>2, <1>4 DEF InsertAffectations
  <2>3. \A t \in T : [session |-> S, enseignant |-> t, no |-> no'] \in Affectation
    BY <1>2, <2>1 DEF Affectation
  <2>4. affectations' \subseteq Affectation
    BY <2>2, <2>3 DEF TypeInv, TypeOK
  <2>5. \A a \in affectations' : Exists(a.session)
    BY <2>1, <2>2 DEF TypeInv, TypeOK
  <2>6. segments' = segments
    BY <1>4 DEF InsertAffectations
  <2>. QED
    BY <1>1, <1>2, <1>3, <2>4, <2>5, <2>6 DEF TypeInv, TypeOK, Exists
<1>5. ASSUME InsertPlanning(w)
      PROVE  TypeOK'
  <2>1. /\ req[w].session \in Sessions /\ Exists(req[w].session)
        /\ req[w].semaine \in Semaines \cup {NULL} /\ req[w].heures \subseteq Heures
    BY <1>5 DEF InsertPlanning, TypeInv, Typed
  <2>. DEFINE S == req[w].session
              K == req[w].semaine
              H == req[w].heures
  <2>2. \A g \in segments' : g \in segments
          \/ \E h \in H : g = [session |-> S, semaine |-> K, heure |-> h, no |-> no']
    BY <1>2, <1>5 DEF InsertPlanning
  <2>3. \A h \in H : [session |-> S, semaine |-> K, heure |-> h, no |-> no'] \in Segment
    BY <1>2, <2>1 DEF Segment
  <2>4. segments' \subseteq Segment
    BY <2>2, <2>3 DEF TypeInv, TypeOK
  <2>5. \A g \in segments' : Exists(g.session)
    BY <2>1, <2>2 DEF TypeInv, TypeOK
  <2>6. affectations' = affectations
    BY <1>5 DEF InsertPlanning
  <2>. QED
    BY <1>1, <1>2, <1>3, <2>4, <2>5, <2>6 DEF TypeInv, TypeOK, Exists
<1>. QED
  BY <1>1, <1>4, <1>5, CommitTyped

\* create_progression_config and update_progression_config.
LEMMA CommitConfigTyped ==
  ASSUME TypeInv, NEW w \in Workers, CommitConfig(w) \/ CommitPortee(w)
  PROVE  TypeInv'
<1>1. req[w] # Idle /\ Done(w) /\ UNCHANGED <<cles, sessions, affectations, segments>>
  <2>1. CASE CommitConfig(w)
    BY <2>1 DEF CommitConfig, Idle
  <2>2. CASE CommitPortee(w)
    <3>1. Done(w) /\ UNCHANGED <<cles, sessions, affectations, segments>> /\ req[w].op = "portee"
      BY ONLY <2>2 DEF CommitPortee
    <3>. QED
      BY <3>1 DEF Idle
  <2>. QED
    BY <2>1, <2>2
<1>2. no' = no + 1 /\ no' \in 1..MaxRequetes /\ no' \in 0..MaxRequetes
  BY <1>1, CommitFits, ProgrammeAssumption
<1>3. croisees' \subseteq 1..MaxRequetes
  BY <1>2 DEF CommitConfig, CommitPortee, Crossed, TypeInv, TypeOK
<1>4. req[w].ecole \in Ecoles \cup {NULL} /\ req[w].session \in Sessions \cup {NULL}
  BY DEF CommitConfig, CommitPortee, TypeInv, Typed
<1>5. configs \subseteq Config
  BY DEF TypeInv, TypeOK
<1>6. PICK c \in Config :
        /\ Inserable(c, configs) \/ \E ligne \in configs : Inserable(c, configs \ {ligne})
        /\ configs' \subseteq configs \cup {c}
  <2>1. CASE CommitConfig(w)
    <3>1. PICK c : c = [cle |-> no + 1, ecole |-> req[w].ecole, session |-> req[w].session, no |-> no + 1]
      OBVIOUS
    <3>2. c \in Config
      BY <1>2, <1>4, <3>1 DEF Config
    <3>. QED
      BY <2>1, <3>1, <3>2 DEF CommitConfig
  <2>2. CASE CommitPortee(w)
    <3>0. PICK ligne \in configs : \E c :
            /\ c = [ligne EXCEPT !.no = no + 1,
                      !.ecole = IF req[w].ecole = req[w].ligne.ecole THEN @ ELSE req[w].ecole,
                      !.session = IF req[w].session = req[w].ligne.session THEN @ ELSE req[w].session]
            /\ Inserable(c, configs \ {ligne})
            /\ configs' = (configs \ {ligne}) \cup {c}
      BY <2>2 DEF CommitPortee
    <3>1. PICK c :
            /\ c = [ligne EXCEPT !.no = no + 1,
                      !.ecole = IF req[w].ecole = req[w].ligne.ecole THEN @ ELSE req[w].ecole,
                      !.session = IF req[w].session = req[w].ligne.session THEN @ ELSE req[w].session]
            /\ Inserable(c, configs \ {ligne})
            /\ configs' = (configs \ {ligne}) \cup {c}
      BY <3>0
    <3>2. ligne \in Config
      BY <1>5
    <3>3. c \in Config
      BY <1>2, <1>4, <3>1, <3>2 DEF Config
    <3>. QED
      BY <3>1, <3>3
  <2>. QED
    BY <2>1, <2>2
<1>7. c.session # NULL => Exists(c.session)
  BY <1>6 DEF Inserable
<1>8. TypeOK'
  BY <1>1, <1>2, <1>3, <1>5, <1>6, <1>7 DEF TypeInv, TypeOK, Exists
<1>. QED
  BY <1>1, <1>8, CommitTyped

\* Steps on single rows of the sessions.
LEMMA SessionRowTyped ==
  ASSUME TypeInv, NEW s \in Sessions, CreateSession(s) \/ DeleteSession(s)
  PROVE  TypeInv'
<1>. USE DEF TypeInv, TypeOK
<1>1. CASE CreateSession(s)
  <2>1. PICK q : q = [status |-> "inactive", no |-> 0]
    OBVIOUS
  <2>2. q \in Session /\ q # NULL
    BY <2>1, SessionIsRow, ProgrammeAssumption DEF Statuses
  <2>3. /\ s \in cles /\ cles' = cles \ {s} /\ sessions' = [sessions EXCEPT ![s] = q]
        /\ UNCHANGED <<affectations, segments, configs, croisees, req, no>>
    BY <1>1, <2>1 DEF CreateSession
  <2>4. \A u \in Sessions : sessions'[u] = IF u = s THEN q ELSE sessions[u]
    BY <2>3
  <2>5. /\ \A a \in affectations : sessions'[a.session] # NULL
        /\ \A g \in segments : sessions'[g.session] # NULL
        /\ \A c \in configs : c.session # NULL => sessions'[c.session] # NULL
    BY <2>2, <2>4 DEF Exists, Affectation, Segment, Config
  <2>6. cles' \subseteq {u \in Sessions : ~(sessions'[u] # NULL)}
    BY <2>3, <2>4 DEF Exists
  <2>7. TypeOK'
    BY <2>2, <2>3, <2>5, <2>6 DEF Exists
  <2>. QED
    BY <2>3, <2>7, RowTyped
<1>2. CASE DeleteSession(s)
  <2>1. /\ sessions' = [sessions EXCEPT ![s] = NULL]
        /\ affectations' = affectations \ De(s, affectations)
        /\ segments' = segments \ De(s, segments) /\ configs' = configs \ De(s, configs)
        /\ UNCHANGED <<cles, croisees, req, no>>
    BY <1>2 DEF DeleteSession
  <2>2. \A u \in Sessions : sessions'[u] = IF u = s THEN NULL ELSE sessions[u]
    BY <2>1
  <2>3. \A a \in affectations' : a \in affectations /\ a.session # s /\ a.session \in Sessions
    BY <2>1 DEF De, Affectation
  <2>4. \A g \in segments' : g \in segments /\ g.session # s /\ g.session \in Sessions
    BY <2>1 DEF De, Segment
  <2>5. \A c \in configs' : c \in configs /\ c.session # s /\ c.session \in Sessions \cup {NULL}
    BY <2>1 DEF De, Config
  <2>6. TypeOK'
    BY <2>1, <2>2, <2>3, <2>4, <2>5 DEF Exists
  <2>. QED
    BY <2>1, <2>6, RowTyped
<1>. QED
  BY <1>1, <1>2

\* Steps on single rows of the other tables.
LEMMA OtherRowTyped ==
  ASSUME TypeInv,
         \/ \E g \in segments : DeleteSegment(g) \/ \E k \in Semaines \cup {NULL} : UpdateSegment(g, k)
         \/ \E c \in configs : DeleteConfig(c)
         \/ \E t \in Enseignants : DeleteTeacher(t)
  PROVE  TypeInv'
<1>. USE DEF TypeInv, TypeOK
<1>1. ASSUME NEW g \in segments, DeleteSegment(g)
      PROVE  TypeOK'
  BY <1>1 DEF DeleteSegment, Exists
<1>2. ASSUME NEW g \in segments, NEW k \in Semaines \cup {NULL}, UpdateSegment(g, k)
      PROVE  TypeOK'
  <2>1. [g EXCEPT !.semaine = k] \in Segment /\ g.no \in 1..MaxRequetes
        /\ [g EXCEPT !.semaine = k].session = g.session
    BY DEF Segment
  <2>2. segments' = (segments \ {g}) \cup {[g EXCEPT !.semaine = k]}
        /\ croisees' = croisees \cup {g.no} /\ UNCHANGED <<cles, sessions, affectations, configs, no>>
    BY <1>2 DEF UpdateSegment
  <2>. QED
    BY <2>1, <2>2 DEF Exists
<1>3. ASSUME NEW c \in configs, DeleteConfig(c)
      PROVE  TypeOK'
  BY <1>3 DEF DeleteConfig, Exists
<1>4. ASSUME NEW t \in Enseignants, DeleteTeacher(t)
      PROVE  TypeOK'
  BY <1>4 DEF DeleteTeacher, Exists
<1>5. UNCHANGED <<req, no>>
  BY DEF DeleteSegment, UpdateSegment, DeleteConfig, DeleteTeacher
<1>. QED
  BY <1>1, <1>2, <1>3, <1>4, <1>5, RowTyped

\* create_segment, the only COMMIT without request under way.
LEMMA CreateSegmentTyped ==
  ASSUME TypeInv, NEW w \in Workers, NEW s \in Sessions, NEW k \in Semaines \cup {NULL},
         NEW h \in Heures, CreateSegment(w, s, k, h)
  PROVE  TypeInv'
<1>. USE DEF TypeInv, TypeOK
<1>1. /\ no' = no + 1 /\ req' = req /\ Exists(s) /\ croisees' = croisees \cup {no + 1}
      /\ segments' = segments \cup {[session |-> s, semaine |-> k, heure |-> h, no |-> no + 1]}
      /\ UNCHANGED <<cles, sessions, affectations, configs>>
      /\ no + Cardinality(Pending) < MaxRequetes
  BY DEF CreateSegment
<1>2. Pending' = Pending
  BY <1>1 DEF Pending
<1>3. no' \in 1..MaxRequetes /\ no' \in 0..MaxRequetes /\ no' + Cardinality(Pending') <= MaxRequetes
  BY <1>1, <1>2, PendingFinite, ProgrammeAssumption
<1>4. PICK g : g = [session |-> s, semaine |-> k, heure |-> h, no |-> no + 1]
  OBVIOUS
<1>5. g \in Segment /\ g.session = s
  BY <1>1, <1>3, <1>4 DEF Segment
<1>6. TypeOK'
  BY <1>1, <1>3, <1>4, <1>5 DEF Exists
<1>7. \A v \in Workers : Typed(req[v])'
  BY <1>1, <1>3 DEF Typed
<1>. QED
  BY <1>1, <1>3, <1>6, <1>7

\* The bulk UPDATE and the bulk DELETEs.
LEMMA LocksTyped ==
  ASSUME TypeInv, NEW w \in Workers, DeactivateAll(w) \/ DeleteAffectations(w) \/ DeletePlanning(w)
  PROVE  TypeInv'
<1>1. req[w] # Idle /\ UNCHANGED <<cles, sessions, affectations, segments, configs, croisees, no>>
  BY DEF DeactivateAll, DeleteAffectations, DeletePlanning, Idle
<1>2. \E r : req' = [req EXCEPT ![w] = r] /\ Typed(r)
  <2>1. CASE DeactivateAll(w)
    <3>1. PICK r : r = [op |-> "activated", session |-> req[w].session, lues |-> req[w].lues,
                        vues |-> req[w].lues \cap Existing]
      OBVIOUS
    <3>2. req' = [req EXCEPT ![w] = r] /\ Typed(r)
      BY <2>1, <3>1 DEF DeactivateAll, TypeInv, Typed
    <3>. QED
      BY <3>2
  <2>2. CASE DeleteAffectations(w)
    <3>1. PICK r : r = [op |-> "assigned", session |-> req[w].session, enseignants |-> req[w].enseignants,
                        lu |-> req[w].lu,
                        vues |-> {a \in De(req[w].session, affectations) : a.no <= req[w].lu}]
      OBVIOUS
    <3>2. req' = [req EXCEPT ![w] = r] /\ Typed(r)
      BY <2>2, <3>1 DEF DeleteAffectations, TypeInv, Typed
    <3>. QED
      BY <3>2
  <2>3. CASE DeletePlanning(w)
    <3>1. PICK r : r = [op |-> "imported", session |-> req[w].session, semaine |-> req[w].semaine,
                        heures |-> req[w].heures, lu |-> req[w].lu,
                        vues |-> {g \in segments : /\ Remplaces(g, req[w].session, req[w].semaine)
                                                   /\ g.no <= req[w].lu}]
      OBVIOUS
    <3>2. req' = [req EXCEPT ![w] = r] /\ Typed(r)
      BY <2>3, <3>1 DEF DeletePlanning, TypeInv, Typed
    <3>. QED
      BY <3>2
  <2>. QED
    BY <2>1, <2>2, <2>3
<1>. QED
  BY <1>1, <1>2, LockTyped

\* The steps of the workers, by what they have in common.
LEMMA Steps ==
  ASSUME Next
  PROVE  \/ \E w \in Workers :
              \/ Arrivals(w)
              \/ DeactivateAll(w) \/ DeleteAffectations(w) \/ DeletePlanning(w)
              \/ CommitUpdate(w) \/ CommitActivate(w)
              \/ InsertAffectations(w) \/ InsertPlanning(w)
              \/ CommitConfig(w) \/ CommitPortee(w)
              \/ Rollback(w)
              \/ \E s \in Sessions, k \in Semaines \cup {NULL}, h \in Heures : CreateSegment(w, s, k, h)
         \/ \E s \in Sessions : CreateSession(s) \/ DeleteSession(s)
         \/ \E g \in segments : DeleteSegment(g) \/ \E k \in Semaines \cup {NULL} : UpdateSegment(g, k)
         \/ \E c \in configs : DeleteConfig(c)
         \/ \E t \in Enseignants : DeleteTeacher(t)
  BY Zenon DEF Next, Arrivals, Statuses

\* Every step keeps the types.
LEMMA TypeStep ==
  ASSUME TypeInv, ActInv, Next
  PROVE  TypeInv'
<1>1. ASSUME NEW w \in Workers, Arrivals(w)
      PROVE  TypeInv'
  <2>1. \E r : Typed(r) /\ Arrive(w, r)
    BY <1>1, ArrivalsTyped
  <2>. QED
    BY <2>1, ArriveTyped
<1>2. ASSUME NEW w \in Workers, Rollback(w)
      PROVE  TypeInv'
  <2>1. Typed(Idle)
    BY DEF Typed, Idle
  <2>. QED
    BY <1>2, <2>1, LockTyped DEF Rollback
<1>. QED
  BY <1>1, <1>2, Steps, LocksTyped, CommitSessionTyped, CommitReplacementTyped, CommitConfigTyped,
     CreateSegmentTyped, SessionRowTyped, OtherRowTyped

-----------------------------------------------------------------------------
(* Activations *)

\* The rows of the sessions know no later activation than the last COMMIT.
Activations ==
  /\ ActInv
  /\ \A s \in Existing : sessions[s].no <= no
  /\ OneActivated

\* What the activations rest on, when a step makes no session active by an activation.
LEMMA ActKept ==
  ASSUME TypeInv, Activations, no' \in Nat, no <= no', croisees \subseteq croisees',
         \A s \in Existing' : (sessions'[s] = sessions[s] /\ s \in Existing) \/ sessions'[s].no = 0
  PROVE  /\ \A s \in Existing' : sessions'[s].no <= no'
         /\ OneActivated'
<1>1. \A s \in Existing : sessions[s] \in Session
  BY DEF Existing, Exists, TypeInv, TypeOK
<1>2. \A s \in Existing : sessions[s].no \in Nat /\ no \in Nat
  BY <1>1 DEF Session, TypeInv, TypeOK
<1>3. \A s \in Existing' : sessions'[s].no <= no'
  BY <1>2 DEF Activations
<1>4. OneActivated'
  BY DEF Activations, OneActivated
<1>. QED
  BY <1>3, <1>4

\* What the requests know, when the sessions are those that were there.
LEMMA ActInvKept ==
  ASSUME TypeInv, ActInv, NEW w \in Workers, NEW r, req' = [req EXCEPT ![w] = r],
         cles' \subseteq cles, Existing' = Existing,
         r.op \in {"activate", "activated"} => r.lues \cap cles = {},
         r.op = "activated" => r.lues \cap Existing \subseteq r.vues /\ r.vues \subseteq Existing
  PROVE  ActInv'
<1>1. \A v \in Workers : req'[v] = IF v = w THEN r ELSE req[v]
  BY DEF TypeInv
<1>. QED
  BY <1>1 DEF ActInv

\* A COMMIT leaves the worker without request.
LEMMA ActInvDone ==
  ASSUME TypeInv, ActInv, NEW w \in Workers, req' = [req EXCEPT ![w] = Idle],
         cles' \subseteq cles, Existing' = Existing
  PROVE  ActInv'
  BY ActInvKept DEF Idle

\* A step outside the requests under way.
LEMMA ActInvRows ==
  ASSUME ActInv, req' = req, cles' = cles, sessions' = sessions
  PROVE  ActInv'
  BY DEF ActInv, Existing, Exists

\* What arrives, but an activation, is no activation.
LEMMA OtherArrivals ==
  ASSUME NEW w \in Workers, Arrivals(w), ~(\E s \in Sessions : ReadActivate(w, s))
  PROVE  \E r : req' = [req EXCEPT ![w] = r] /\ r.op \notin {"activate", "activated"}
<1>1. ASSUME NEW s \in Sessions, NEW status \in Statuses, ReadUpdate(w, s, status)
      PROVE  \E r : req' = [req EXCEPT ![w] = r] /\ r.op \notin {"activate", "activated"}
  <2>1. PICK r : r = [op |-> "update", session |-> s, loaded |-> sessions[s].status, sent |-> status]
    OBVIOUS
  <2>2. req' = [req EXCEPT ![w] = r] /\ r.op = "update"
    BY <1>1, <2>1 DEF ReadUpdate, Arrive
  <2>. QED
    BY <2>2
<1>2. ASSUME NEW s \in Sessions, NEW T \in SUBSET Enseignants, ReadAssign(w, s, T)
      PROVE  \E r : req' = [req EXCEPT ![w] = r] /\ r.op \notin {"activate", "activated"}
  <2>1. PICK r : r = [op |-> "assign", session |-> s, enseignants |-> T, lu |-> no]
    OBVIOUS
  <2>2. req' = [req EXCEPT ![w] = r] /\ r.op = "assign"
    BY <1>2, <2>1 DEF ReadAssign, Arrive
  <2>. QED
    BY <2>2
<1>3. ASSUME NEW s \in Sessions, NEW k \in Semaines \cup {NULL}, NEW H \in SUBSET Heures, ReadImport(w, s, k, H)
      PROVE  \E r : req' = [req EXCEPT ![w] = r] /\ r.op \notin {"activate", "activated"}
  <2>1. PICK r : r = [op |-> "import", session |-> s, semaine |-> k, heures |-> H, lu |-> no]
    OBVIOUS
  <2>2. req' = [req EXCEPT ![w] = r] /\ r.op = "import"
    BY <1>3, <2>1 DEF ReadImport, Arrive
  <2>. QED
    BY <2>2
<1>4. ASSUME NEW e, NEW s, ReadConfig(w, e, s)
      PROVE  \E r : req' = [req EXCEPT ![w] = r] /\ r.op \notin {"activate", "activated"}
  <2>1. PICK r : r = [op |-> "config", ecole |-> e, session |-> s, lu |-> no]
    OBVIOUS
  <2>2. req' = [req EXCEPT ![w] = r] /\ r.op = "config"
    BY <1>4, <2>1 DEF ReadConfig, Arrive
  <2>. QED
    BY <2>2
<1>5. ASSUME NEW e, NEW s, NEW c, ReadPortee(w, c, e, s)
      PROVE  \E r : req' = [req EXCEPT ![w] = r] /\ r.op \notin {"activate", "activated"}
  <2>1. PICK r : r = [op |-> "portee", ligne |-> c, ecole |-> e, session |-> s, lu |-> no]
    OBVIOUS
  <2>2. req' = [req EXCEPT ![w] = r] /\ r.op = "portee"
    BY <1>5, <2>1 DEF ReadPortee, Arrive
  <2>. QED
    BY <2>2
<1>. QED
  BY <1>1, <1>2, <1>3, <1>4, <1>5 DEF Arrivals

\* Arrivals change only the worker's request.
LEMMA ArrivalsAct ==
  ASSUME TypeInv, ActInv, NEW w \in Workers, Arrivals(w)
  PROVE  ActInv' /\ UNCHANGED <<cles, sessions, croisees, no>>
<1>1. UNCHANGED <<cles, sessions, croisees, no>> /\ Existing' = Existing
  BY DEF Arrivals, ReadActivate, ReadUpdate, ReadAssign, ReadImport, ReadConfig, ReadPortee, Arrive,
         Existing, Exists
<1>2. Existing \cap cles = {}
  BY DEF TypeInv, TypeOK, Existing
<1>3. \E r : /\ req' = [req EXCEPT ![w] = r] /\ r.op # "activated"
             /\ r.op = "activate" => r.lues = Existing
  <2>1. ASSUME NEW s \in Sessions, ReadActivate(w, s)
        PROVE  \E r : req' = [req EXCEPT ![w] = r] /\ r.op # "activated" /\ r.lues = Existing
    <3>1. PICK r : r = [op |-> "activate", session |-> s, lues |-> Existing]
      OBVIOUS
    <3>2. req' = [req EXCEPT ![w] = r] /\ r.op # "activated" /\ r.lues = Existing
      BY <2>1, <3>1 DEF ReadActivate, Arrive
    <3>. QED
      BY <3>2
  <2>2. ASSUME ~(\E s \in Sessions : ReadActivate(w, s))
        PROVE  \E r : req' = [req EXCEPT ![w] = r] /\ r.op \notin {"activate", "activated"}
    BY <2>2, OtherArrivals
  <2>. QED
    BY <2>1, <2>2
<1>. QED
  BY <1>1, <1>2, <1>3, ActInvKept

\* activate_session: what its second UPDATE and its COMMIT leave.
LEMMA CommitActivateOne ==
  ASSUME TypeInv, Activations, NEW w \in Workers, CommitActivate(w)
  PROVE  Activations'
<1>1. /\ req[w].session \in req[w].vues /\ Done(w) /\ cles' = cles
      /\ sessions' = [s \in Sessions |->
           IF s = req[w].session THEN [status |-> "active", no |-> no + 1]
           ELSE IF s \in req[w].vues THEN [status |-> "inactive", no |-> 0]
           ELSE sessions[s]]
      /\ croisees' = IF Existing \subseteq req[w].lues THEN croisees ELSE croisees \cup {no + 1}
      /\ req[w].op = "activated"
  BY DEF CommitActivate
<1>2. req[w] # Idle
  BY <1>1 DEF Idle
<1>3. no' = no + 1 /\ no \in Nat
  BY <1>1, <1>2, CommitFits DEF TypeInv, TypeOK
<1>4. req[w].lues \cap Existing \subseteq req[w].vues /\ req[w].vues \subseteq Existing
  BY <1>1 DEF Activations, ActInv
<1>5. TypeInv'
  BY CommitSessionTyped DEF Activations
<1>6. Existing' = Existing
  <2>1. PICK q, i : q = [status |-> "active", no |-> no + 1] /\ i = [status |-> "inactive", no |-> 0]
    OBVIOUS
  <2>2. no + 1 \in 0..MaxRequetes /\ 0 \in 0..MaxRequetes
    BY <1>3, <1>5, ProgrammeAssumption DEF TypeInv, TypeOK
  <2>3. q # NULL /\ i # NULL
    BY <2>1, <2>2, SessionIsRow DEF Statuses
  <2>4. \A s \in Sessions : sessions'[s] = IF s = req[w].session THEN q
                                           ELSE IF s \in req[w].vues THEN i ELSE sessions[s]
    BY <1>1, <2>1
  <2>5. \A s \in Sessions : sessions'[s] # NULL <=> sessions[s] # NULL
    BY <1>1, <1>4, <2>3, <2>4 DEF Existing, Exists
  <2>. QED
    BY <2>5 DEF Existing, Exists
<1>7. \A s \in Existing : /\ s \in Sessions
                          /\ sessions[s].no \in Nat /\ sessions[s].no <= no
  BY DEF Activations, Existing, Exists, TypeInv, TypeOK, Session
<1>8. \A s \in Existing' : sessions'[s].no <= no'
  BY <1>1, <1>3, <1>6, <1>7
<1>9. OneActivated'
  <2>1. CASE Existing \subseteq req[w].lues
    <3>1. \A s \in Existing' : sessions'[s].status = "active" => s = req[w].session
      BY <1>1, <1>4, <1>6, <1>7, <2>1
    <3>. QED
      BY <3>1 DEF OneActivated
  <2>2. CASE ~(Existing \subseteq req[w].lues)
    <3>1. croisees' = croisees \cup {no + 1}
      BY <1>1, <2>2
    <3>2. \A s \in Existing' : sessions'[s].status = "active" /\ sessions'[s].no \notin croisees' \cup {0}
                               => sessions'[s] = sessions[s] /\ s \in Existing
      BY <1>1, <1>6, <1>7, <3>1
    <3>. QED
      BY <3>1, <3>2 DEF Activations, OneActivated
  <2>. QED
    BY <2>1, <2>2
<1>10. ActInv'
  BY <1>1, <1>6, ActInvDone DEF Activations, Done
<1>. QED
  BY <1>8, <1>9, <1>10 DEF Activations

\* The locks of activate_session, assign_teachers and import_planning.
LEMMA LocksAct ==
  ASSUME TypeInv, ActInv, NEW w \in Workers, DeactivateAll(w) \/ DeleteAffectations(w) \/ DeletePlanning(w)
  PROVE  ActInv' /\ UNCHANGED <<cles, sessions, croisees, no>>
<1>1. UNCHANGED <<cles, sessions, croisees, no>> /\ Existing' = Existing
  BY DEF DeactivateAll, DeleteAffectations, DeletePlanning, Existing, Exists
<1>2. CASE DeactivateAll(w)
  <2>1. PICK r : r = [op |-> "activated", session |-> req[w].session, lues |-> req[w].lues,
                      vues |-> req[w].lues \cap Existing]
    OBVIOUS
  <2>2. req' = [req EXCEPT ![w] = r] /\ req[w].op = "activate"
    BY <1>2, <2>1 DEF DeactivateAll
  <2>3. r.lues \cap cles = {} /\ r.lues \cap Existing \subseteq r.vues /\ r.vues \subseteq Existing
    BY <2>1, <2>2 DEF ActInv
  <2>. QED
    BY <1>1, <2>2, <2>3, ActInvKept
<1>3. CASE DeleteAffectations(w) \/ DeletePlanning(w)
  <2>1. \E r : req' = [req EXCEPT ![w] = r] /\ r.op \notin {"activate", "activated"}
    <3>1. CASE DeleteAffectations(w)
      <4>1. PICK r : r = [op |-> "assigned", session |-> req[w].session, enseignants |-> req[w].enseignants,
                          lu |-> req[w].lu,
                          vues |-> {a \in De(req[w].session, affectations) : a.no <= req[w].lu}]
        OBVIOUS
      <4>2. req' = [req EXCEPT ![w] = r] /\ r.op = "assigned"
        BY <3>1, <4>1 DEF DeleteAffectations
      <4>. QED
        BY <4>2
    <3>2. CASE DeletePlanning(w)
      <4>1. PICK r : r = [op |-> "imported", session |-> req[w].session, semaine |-> req[w].semaine,
                          heures |-> req[w].heures, lu |-> req[w].lu,
                          vues |-> {g \in segments : /\ Remplaces(g, req[w].session, req[w].semaine)
                                                     /\ g.no <= req[w].lu}]
        OBVIOUS
      <4>2. req' = [req EXCEPT ![w] = r] /\ r.op = "imported"
        BY <3>2, <4>1 DEF DeletePlanning
      <4>. QED
        BY <4>2
    <3>. QED
      BY <1>3, <3>1, <3>2
  <2>. QED
    BY <1>1, <2>1, ActInvKept
<1>. QED
  BY <1>2, <1>3

\* create_session and delete_session: the first takes no row that an activation knows, the
\* second none that it holds.
LEMMA SessionRowAct ==
  ASSUME TypeInv, Activations, NEW s \in Sessions, CreateSession(s) \/ DeleteSession(s)
  PROVE  Activations'
<1>1. no' = no /\ croisees' = croisees /\ req' = req /\ no \in Nat
  BY DEF CreateSession, DeleteSession, TypeInv, TypeOK
<1>2. CASE CreateSession(s)
  <2>1. PICK q : q = [status |-> "inactive", no |-> 0]
    OBVIOUS
  <2>2. /\ s \in cles /\ cles' = cles \ {s} /\ q.no = 0 /\ q # NULL
        /\ \A u \in Sessions : sessions'[u] = IF u = s THEN q ELSE sessions[u]
    BY <1>2, <2>1, SessionIsRow, ProgrammeAssumption DEF CreateSession, TypeInv, TypeOK, Statuses
  <2>3. Existing' = Existing \cup {s}
    BY <2>2 DEF Existing, Exists
  <2>4. ActInv'
    BY <1>1, <2>2, <2>3 DEF Activations, ActInv
  <2>5. \A u \in Existing' : (sessions'[u] = sessions[u] /\ u \in Existing) \/ sessions'[u].no = 0
    BY <2>2, <2>3 DEF Existing
  <2>. QED
    BY <1>1, <2>4, <2>5, ActKept DEF Activations
<1>3. CASE DeleteSession(s)
  <2>1. /\ cles' = cles /\ s \notin Held(Workers)
        /\ \A u \in Sessions : sessions'[u] = IF u = s THEN NULL ELSE sessions[u]
    BY <1>3 DEF DeleteSession, TypeInv, TypeOK
  <2>2. Existing' = Existing \ {s}
    BY <2>1 DEF Existing, Exists
  <2>3. \A w \in Workers : req[w].op = "activated" => s \notin req[w].vues
    BY <2>1 DEF Held
  <2>4. ActInv'
    BY <1>1, <2>1, <2>2, <2>3 DEF Activations, ActInv
  <2>5. \A u \in Existing' : sessions'[u] = sessions[u] /\ u \in Existing
    BY <2>1, <2>2 DEF Existing
  <2>. QED
    BY <1>1, <2>4, <2>5, ActKept DEF Activations
<1>. QED
  BY <1>2, <1>3

\* The COMMITs that activate no session.
LEMMA OtherCommitsAct ==
  ASSUME TypeInv, Activations, NEW w \in Workers,
         \/ CommitUpdate(w) \/ InsertAffectations(w) \/ InsertPlanning(w) \/ CommitConfig(w) \/ CommitPortee(w)
  PROVE  Activations'
<1>1. Done(w) /\ cles' = cles /\ req[w] # Idle /\ croisees \subseteq croisees'
  <2>1. CASE CommitUpdate(w) \/ InsertAffectations(w) \/ InsertPlanning(w) \/ CommitConfig(w)
    BY ONLY <2>1 DEF CommitUpdate, InsertAffectations, InsertPlanning, CommitConfig, Crossed, Idle
  <2>2. CASE CommitPortee(w)
    <3>1. Done(w) /\ cles' = cles /\ req[w].op = "portee" /\ croisees \subseteq croisees'
      BY ONLY <2>2 DEF CommitPortee, Crossed
    <3>. QED
      BY <3>1 DEF Idle
  <2>. QED
    BY <2>1, <2>2
<1>2. no' = no + 1 /\ no \in Nat
  BY <1>1, CommitFits DEF TypeInv, TypeOK
<1>3. Existing' = Existing /\ \A s \in Existing : sessions'[s] = sessions[s] \/ sessions'[s].no = 0
  <2>1. CASE sessions' = sessions
    BY <2>1 DEF Existing, Exists
  <2>2. CASE sessions' # sessions
    <3>1. CommitUpdate(w)
      BY <2>2 DEF InsertAffectations, InsertPlanning, CommitConfig, CommitPortee
    <3>2. PICK q : q = [status |-> req[w].sent, no |-> 0]
      OBVIOUS
    <3>3. /\ Exists(req[w].session) /\ req[w].session \in Sessions /\ req[w].sent \in Statuses
          /\ sessions' = [sessions EXCEPT ![req[w].session] = q]
      BY <2>2, <3>1, <3>2 DEF CommitUpdate, TypeInv, Typed
    <3>4. q # NULL /\ q.no = 0
      BY <3>2, <3>3, SessionIsRow, ProgrammeAssumption
    <3>5. \A s \in Sessions : sessions'[s] = IF s = req[w].session THEN q ELSE sessions[s]
      BY <3>3 DEF TypeInv, TypeOK
    <3>. QED
      BY <3>3, <3>4, <3>5 DEF Existing, Exists
  <2>. QED
    BY <2>1, <2>2
<1>4. ActInv'
  BY <1>1, <1>3, ActInvDone DEF Activations, Done
<1>. QED
  BY <1>1, <1>2, <1>3, <1>4, ActKept DEF Activations

\* Every step keeps what the activations rest on.
LEMMA ActStep ==
  ASSUME TypeInv, Activations, Next
  PROVE  Activations'
<1>0. no \in Nat
  BY DEF TypeInv, TypeOK
<1>1. ASSUME ActInv', sessions' = sessions, croisees \subseteq croisees', no' \in Nat, no <= no'
      PROVE  Activations'
  <2>1. Existing' = Existing
    BY <1>1 DEF Existing, Exists
  <2>. QED
    BY <1>1, <2>1, ActKept DEF Activations
<1>2. ASSUME NEW w \in Workers, Arrivals(w)
      PROVE  Activations'
  BY <1>0, <1>1, <1>2, ArrivalsAct DEF Activations
<1>3. ASSUME NEW w \in Workers, DeactivateAll(w) \/ DeleteAffectations(w) \/ DeletePlanning(w)
      PROVE  Activations'
  BY <1>0, <1>1, <1>3, LocksAct DEF Activations
<1>4. ASSUME NEW w \in Workers, Rollback(w)
      PROVE  Activations'
  <2>1. Existing' = Existing /\ UNCHANGED <<cles, sessions, croisees, no>> /\ req' = [req EXCEPT ![w] = Idle]
    BY <1>4 DEF Rollback, Existing, Exists
  <2>2. ActInv'
    BY <2>1, ActInvDone DEF Activations
  <2>. QED
    BY <1>0, <1>1, <2>1, <2>2
<1>5. ASSUME NEW w \in Workers, NEW s \in Sessions, NEW k \in Semaines \cup {NULL}, NEW h \in Heures,
             CreateSegment(w, s, k, h)
      PROVE  Activations'
  <2>1. req' = req /\ cles' = cles /\ sessions' = sessions /\ croisees \subseteq croisees' /\ no' = no + 1
    BY <1>5 DEF CreateSegment
  <2>. QED
    BY <1>0, <1>1, <2>1, ActInvRows DEF Activations
<1>6. ASSUME \/ \E g \in segments : DeleteSegment(g) \/ \E k \in Semaines \cup {NULL} : UpdateSegment(g, k)
             \/ \E c \in configs : DeleteConfig(c)
             \/ \E t \in Enseignants : DeleteTeacher(t)
      PROVE  Activations'
  <2>1. req' = req /\ cles' = cles /\ sessions' = sessions /\ croisees \subseteq croisees' /\ no' = no
    BY <1>6 DEF DeleteSegment, UpdateSegment, DeleteConfig, DeleteTeacher
  <2>. QED
    BY <1>0, <1>1, <2>1, ActInvRows DEF Activations
<1>. QED
  BY <1>2, <1>3, <1>4, <1>5, <1>6, Steps, SessionRowAct, OtherCommitsAct, CommitActivateOne
-----------------------------------------------------------------------------
(* Where requests and rows come from *)

\* A request in a new state has come to it by its own step.
LEMMA Ancestors ==
  ASSUME TypeInv, Next, NEW v \in Workers, req'[v] # req[v]
  PROVE  /\ req'[v].op = "assigned" => DeleteAffectations(v)
         /\ req'[v].op = "imported" => DeletePlanning(v)
         /\ req'[v].op = "config" => \E e, s : ReadConfig(v, e, s)
         /\ req'[v].op = "portee" => \E e, s : \E c \in configs : ReadPortee(v, c, e, s)
<1>. DEFINE Goal == /\ req'[v].op = "assigned" => DeleteAffectations(v)
                    /\ req'[v].op = "imported" => DeletePlanning(v)
                    /\ req'[v].op = "config" => \E e, s : ReadConfig(v, e, s)
                    /\ req'[v].op = "portee" => \E e, s : \E c \in configs : ReadPortee(v, c, e, s)
<1>1. ASSUME NEW w \in Workers, NEW r, req' = [req EXCEPT ![w] = r]
      PROVE  v = w /\ req'[v] = r
  BY <1>1 DEF TypeInv
<1>2. ASSUME NEW w \in Workers, req' = [req EXCEPT ![w] = Idle]
      PROVE  Goal
  BY <1>1, <1>2 DEF Idle
<1>3. ASSUME NEW w \in Workers, Arrivals(w)
      PROVE  Goal
  <2>1. ASSUME NEW s, ReadActivate(w, s)
        PROVE  Goal
    <3>1. PICK r : r = [op |-> "activate", session |-> s, lues |-> Existing]
      OBVIOUS
    <3>2. req' = [req EXCEPT ![w] = r] /\ r.op = "activate"
      BY <2>1, <3>1 DEF ReadActivate, Arrive
    <3>3. req'[v] = r
      BY <1>1, <3>2
    <3>. QED
      BY <3>2, <3>3
  <2>2. ASSUME NEW s, NEW status, ReadUpdate(w, s, status)
        PROVE  Goal
    <3>1. PICK r : r = [op |-> "update", session |-> s, loaded |-> sessions[s].status, sent |-> status]
      OBVIOUS
    <3>2. req' = [req EXCEPT ![w] = r] /\ r.op = "update"
      BY <2>2, <3>1 DEF ReadUpdate, Arrive
    <3>3. req'[v] = r
      BY <1>1, <3>2
    <3>. QED
      BY <3>2, <3>3
  <2>3. ASSUME NEW s, NEW T, ReadAssign(w, s, T)
        PROVE  Goal
    <3>1. PICK r : r = [op |-> "assign", session |-> s, enseignants |-> T, lu |-> no]
      OBVIOUS
    <3>2. req' = [req EXCEPT ![w] = r] /\ r.op = "assign"
      BY <2>3, <3>1 DEF ReadAssign, Arrive
    <3>3. req'[v] = r
      BY <1>1, <3>2
    <3>. QED
      BY <3>2, <3>3
  <2>4. ASSUME NEW s, NEW k, NEW H, ReadImport(w, s, k, H)
        PROVE  Goal
    <3>1. PICK r : r = [op |-> "import", session |-> s, semaine |-> k, heures |-> H, lu |-> no]
      OBVIOUS
    <3>2. req' = [req EXCEPT ![w] = r] /\ r.op = "import"
      BY <2>4, <3>1 DEF ReadImport, Arrive
    <3>3. req'[v] = r
      BY <1>1, <3>2
    <3>. QED
      BY <3>2, <3>3
  <2>5. ASSUME NEW e, NEW s, ReadConfig(w, e, s)
        PROVE  Goal
    <3>1. PICK r : r = [op |-> "config", ecole |-> e, session |-> s, lu |-> no]
      OBVIOUS
    <3>2. req' = [req EXCEPT ![w] = r] /\ r.op = "config"
      BY <2>5, <3>1 DEF ReadConfig, Arrive
    <3>3. req'[v] = r /\ v = w
      BY <1>1, <3>2
    <3>4. \E f, u : ReadConfig(v, f, u)
      BY <2>5, <3>3
    <3>. QED
      BY <3>2, <3>3, <3>4
  <2>6. ASSUME NEW e, NEW s, NEW c \in configs, ReadPortee(w, c, e, s)
        PROVE  Goal
    <3>1. PICK r : r = [op |-> "portee", ligne |-> c, ecole |-> e, session |-> s, lu |-> no]
      OBVIOUS
    <3>2. req' = [req EXCEPT ![w] = r] /\ r.op = "portee"
      BY <2>6, <3>1 DEF ReadPortee, Arrive
    <3>3. req'[v] = r /\ v = w
      BY <1>1, <3>2
    <3>4. \E f, u : \E d \in configs : ReadPortee(v, d, f, u)
      BY <2>6, <3>3
    <3>. QED
      BY <3>2, <3>3, <3>4
  <2>. HIDE DEF Goal
  <2>. QED
    BY <1>3, <2>1, <2>2, <2>3, <2>4, <2>5, <2>6 DEF Arrivals
<1>4. ASSUME NEW w \in Workers, DeactivateAll(w)
      PROVE  Goal
  <2>1. PICK r : r = [op |-> "activated", session |-> req[w].session, lues |-> req[w].lues,
                      vues |-> req[w].lues \cap Existing]
    OBVIOUS
  <2>2. req' = [req EXCEPT ![w] = r] /\ r.op = "activated"
    BY <1>4, <2>1 DEF DeactivateAll
  <2>3. req'[v] = r
    BY <1>1, <2>2
  <2>. QED
    BY <2>2, <2>3
<1>5. ASSUME NEW w \in Workers, DeleteAffectations(w)
      PROVE  Goal
  <2>1. PICK r : r = [op |-> "assigned", session |-> req[w].session, enseignants |-> req[w].enseignants,
                      lu |-> req[w].lu,
                      vues |-> {a \in De(req[w].session, affectations) : a.no <= req[w].lu}]
    OBVIOUS
  <2>2. req' = [req EXCEPT ![w] = r] /\ r.op = "assigned"
    BY <1>5, <2>1 DEF DeleteAffectations
  <2>3. req'[v] = r /\ v = w
    BY <1>1, <2>2
  <2>. QED
    BY <1>5, <2>2, <2>3
<1>6. ASSUME NEW w \in Workers, DeletePlanning(w)
      PROVE  Goal
  <2>1. PICK r : r = [op |-> "imported", session |-> req[w].session, semaine |-> req[w].semaine,
                      heures |-> req[w].heures, lu |-> req[w].lu,
                      vues |-> {g \in segments : /\ Remplaces(g, req[w].session, req[w].semaine)
                                                 /\ g.no <= req[w].lu}]
    OBVIOUS
  <2>2. req' = [req EXCEPT ![w] = r] /\ r.op = "imported"
    BY <1>6, <2>1 DEF DeletePlanning
  <2>3. req'[v] = r /\ v = w
    BY <1>1, <2>2
  <2>. QED
    BY <1>6, <2>2, <2>3
<1>7. ASSUME NEW w \in Workers,
             \/ CommitUpdate(w) \/ CommitActivate(w) \/ InsertAffectations(w) \/ InsertPlanning(w)
             \/ CommitConfig(w) \/ CommitPortee(w) \/ Rollback(w)
      PROVE  req' = [req EXCEPT ![w] = Idle]
  <2>1. CASE CommitPortee(w)
    BY ONLY <2>1 DEF CommitPortee, Done
  <2>2. CASE ~CommitPortee(w)
    BY ONLY <1>7, <2>2 DEF CommitUpdate, CommitActivate, InsertAffectations, InsertPlanning, CommitConfig,
                           Rollback, Done
  <2>. QED
    BY <2>1, <2>2
<1>8. ASSUME NEW w \in Workers,
             \/ CommitUpdate(w) \/ CommitActivate(w) \/ InsertAffectations(w) \/ InsertPlanning(w)
             \/ CommitConfig(w) \/ CommitPortee(w) \/ Rollback(w)
      PROVE  Goal
  BY <1>2, <1>7, <1>8
<1>9. ASSUME \/ \E w, s, k, h : CreateSegment(w, s, k, h)
             \/ \E s \in Sessions : CreateSession(s) \/ DeleteSession(s)
             \/ \E g \in segments : DeleteSegment(g) \/ \E k \in Semaines \cup {NULL} : UpdateSegment(g, k)
             \/ \E c \in configs : DeleteConfig(c)
             \/ \E t \in Enseignants : DeleteTeacher(t)
      PROVE  req' = req
  BY <1>9 DEF CreateSegment, CreateSession, DeleteSession, DeleteSegment, UpdateSegment, DeleteConfig, DeleteTeacher
<1>. HIDE DEF Goal
<1>10. Goal
  BY <1>3, <1>4, <1>5, <1>6, <1>8, <1>9, Steps
<1>. QED
  BY <1>10 DEF Goal

\* The steps that write rows of each table; the others only delete some. COMMITs are
\* numbered upwards, and those that crossed stay so.
LEMMA Writers ==
  ASSUME TypeInv, ActInv, Next
  PROVE  /\ no \in Nat /\ no' \in Nat /\ no <= no' /\ croisees \subseteq croisees'
         /\ affectations' \subseteq affectations \/ \E w \in Workers : InsertAffectations(w)
         /\ \/ segments' \subseteq segments
            \/ \E w \in Workers : InsertPlanning(w)
            \/ \E w \in Workers, s \in Sessions, k \in Semaines \cup {NULL}, h \in Heures :
                 CreateSegment(w, s, k, h)
            \/ \E g \in segments, k \in Semaines \cup {NULL} : UpdateSegment(g, k)
         /\ configs' \subseteq configs \/ \E w \in Workers : CommitConfig(w) \/ CommitPortee(w)
<1>1. no \in Nat /\ no' \in Nat
  BY TypeStep DEF TypeInv, TypeOK
<1>. DEFINE Goal == /\ no <= no' /\ croisees \subseteq croisees'
                    /\ affectations' \subseteq affectations \/ \E w \in Workers : InsertAffectations(w)
                    /\ \/ segments' \subseteq segments
                       \/ \E w \in Workers : InsertPlanning(w)
                       \/ \E w \in Workers, s \in Sessions, k \in Semaines \cup {NULL}, h \in Heures :
                            CreateSegment(w, s, k, h)
                       \/ \E g \in segments, k \in Semaines \cup {NULL} : UpdateSegment(g, k)
                    /\ configs' \subseteq configs \/ \E w \in Workers : CommitConfig(w) \/ CommitPortee(w)
<1>2. ASSUME NEW w \in Workers, Arrivals(w)
      PROVE  Goal
  <2>1. UNCHANGED <<affectations, segments, configs, croisees, no>>
    BY <1>2 DEF Arrivals, ReadActivate, ReadUpdate, ReadAssign, ReadImport, ReadConfig, ReadPortee, Arrive
  <2>. QED
    BY <1>1, <2>1
<1>3. ASSUME NEW w \in Workers,
             DeactivateAll(w) \/ DeleteAffectations(w) \/ DeletePlanning(w) \/ Rollback(w)
      PROVE  Goal
  <2>1. UNCHANGED <<affectations, segments, configs, croisees, no>>
    BY <1>3 DEF DeactivateAll, DeleteAffectations, DeletePlanning, Rollback
  <2>. QED
    BY <1>1, <2>1
<1>4. ASSUME NEW w \in Workers, CommitUpdate(w) \/ CommitActivate(w)
      PROVE  Goal
  <2>1. UNCHANGED <<affectations, segments, configs>> /\ croisees \subseteq croisees' /\ no' = no + 1
    BY <1>4 DEF CommitUpdate, CommitActivate, Done
  <2>. QED
    BY <1>1, <2>1
<1>5. ASSUME NEW w \in Workers, InsertAffectations(w)
      PROVE  Goal
  <2>1. UNCHANGED <<segments, configs>> /\ croisees \subseteq croisees' /\ no' = no + 1
    BY <1>5 DEF InsertAffectations, Done, Crossed
  <2>. QED
    BY <1>1, <1>5, <2>1
<1>6. ASSUME NEW w \in Workers, InsertPlanning(w)
      PROVE  Goal
  <2>1. UNCHANGED <<affectations, configs>> /\ croisees \subseteq croisees' /\ no' = no + 1
    BY <1>6 DEF InsertPlanning, Done, Crossed
  <2>. QED
    BY <1>1, <1>6, <2>1
<1>7. ASSUME NEW w \in Workers, CommitConfig(w) \/ CommitPortee(w)
      PROVE  Goal
  <2>1. UNCHANGED <<affectations, segments>> /\ croisees \subseteq croisees' /\ no' = no + 1
    <3>1. CASE CommitConfig(w)
      BY <3>1 DEF CommitConfig, Done, Crossed
    <3>2. CASE CommitPortee(w)
      BY ONLY <3>2 DEF CommitPortee, Done, Crossed
    <3>. QED
      BY <1>7, <3>1, <3>2
  <2>. QED
    BY <1>1, <1>7, <2>1
<1>8. ASSUME NEW w \in Workers, NEW s \in Sessions, NEW k \in Semaines \cup {NULL}, NEW h \in Heures,
             CreateSegment(w, s, k, h)
      PROVE  Goal
  <2>1. UNCHANGED <<affectations, configs>> /\ croisees \subseteq croisees' /\ no' = no + 1
    BY <1>8 DEF CreateSegment
  <2>. QED
    BY <1>1, <1>8, <2>1
<1>9. ASSUME NEW s \in Sessions, CreateSession(s) \/ DeleteSession(s)
      PROVE  Goal
  <2>1. /\ affectations' \subseteq affectations /\ segments' \subseteq segments /\ configs' \subseteq configs
        /\ UNCHANGED <<croisees, no>>
    BY <1>9 DEF CreateSession, DeleteSession
  <2>. QED
    BY <1>1, <2>1
<1>10. ASSUME NEW g \in segments, NEW k \in Semaines \cup {NULL}, UpdateSegment(g, k)
       PROVE  Goal
  <2>1. UNCHANGED <<affectations, configs, no>> /\ croisees \subseteq croisees'
    BY <1>10 DEF UpdateSegment
  <2>. QED
    BY <1>1, <1>10, <2>1
<1>11. ASSUME \/ \E g \in segments : DeleteSegment(g)
              \/ \E c \in configs : DeleteConfig(c)
              \/ \E t \in Enseignants : DeleteTeacher(t)
       PROVE  Goal
  <2>1. /\ affectations' \subseteq affectations /\ segments' \subseteq segments /\ configs' \subseteq configs
        /\ UNCHANGED <<croisees, no>>
    BY <1>11 DEF DeleteSegment, DeleteConfig, DeleteTeacher
  <2>. QED
    BY <1>1, <2>1
<1>. HIDE DEF Goal
<1>12. Goal
  BY <1>2, <1>3, <1>4, <1>5, <1>6, <1>7, <1>8, <1>9, <1>10, <1>11, Steps
<1>. QED
  BY <1>1, <1>12 DEF Goal

-----------------------------------------------------------------------------
(* Assignments *)

\* The rows of the teachers' assignments are of past COMMITs, and a request that has
\* deleted holds all that it saw of its session.
Assignments ==
  /\ \A a \in affectations : a.no <= no
  /\ \A w \in Workers : req[w].op = "assigned" =>
       \A a \in affectations : a.session = req[w].session /\ a.no <= req[w].lu => a \in req[w].vues
  /\ \A a, b \in affectations :
       a.session = b.session /\ a.no # b.no => a.no \in croisees \/ b.no \in croisees

\* A request holds what it saw, whatever other requests insert.
LEMMA AssignmentsHeld ==
  ASSUME TypeInv, Assignments, Next,
         \A a \in affectations' : a \in affectations \/ a.no = no + 1
  PROVE  \A w \in Workers : req'[w].op = "assigned" =>
           \A a \in affectations' : a.session = req'[w].session /\ a.no <= req'[w].lu => a \in req'[w].vues
<1>. SUFFICES ASSUME NEW w \in Workers, req'[w].op = "assigned", NEW a \in affectations',
                     a.session = req'[w].session, a.no <= req'[w].lu
              PROVE  a \in req'[w].vues
  OBVIOUS
<1>1. CASE req'[w] = req[w]
  <2>1. req[w].lu \in 0..no /\ no \in Nat
    BY <1>1 DEF TypeInv, TypeOK, Typed
  <2>. QED
    BY <1>1, <2>1 DEF Assignments
<1>2. CASE req'[w] # req[w]
  <2>1. DeleteAffectations(w)
    BY <1>2, Ancestors
  <2>2. PICK r : r = [op |-> "assigned", session |-> req[w].session, enseignants |-> req[w].enseignants,
                      lu |-> req[w].lu,
                      vues |-> {b \in De(req[w].session, affectations) : b.no <= req[w].lu}]
    OBVIOUS
  <2>3. req' = [req EXCEPT ![w] = r] /\ affectations' = affectations
    BY <2>1, <2>2 DEF DeleteAffectations
  <2>4. req'[w] = r
    BY <2>3 DEF TypeInv
  <2>. QED
    BY <2>2, <2>3, <2>4 DEF De
<1>. QED
  BY <1>1, <1>2

\* Every step keeps what the assignments rest on.
LEMMA AssignmentsStep ==
  ASSUME TypeInv, ActInv, Assignments, Next
  PROVE  Assignments'
<1>0. no \in Nat /\ no' \in Nat /\ no <= no' /\ croisees \subseteq croisees'
  BY Writers
<1>1. \A a \in affectations : a.no \in Nat
  BY DEF TypeInv, TypeOK, Affectation
<1>2. CASE affectations' \subseteq affectations
  <2>1. \A a \in affectations' : a.no <= no'
    BY <1>0, <1>1, <1>2 DEF Assignments
  <2>2. \A a, b \in affectations' :
          a.session = b.session /\ a.no # b.no => a.no \in croisees' \/ b.no \in croisees'
    BY <1>0, <1>2 DEF Assignments
  <2>. QED
    BY <1>2, <2>1, <2>2, AssignmentsHeld DEF Assignments
<1>3. ASSUME NEW w \in Workers, InsertAffectations(w)
      PROVE  Assignments'
  <2>. DEFINE s == req[w].session
              restent == affectations \ req[w].vues
  <2>1. /\ req[w].op = "assigned" /\ no' = no + 1
        /\ croisees' = IF \E a \in De(s, restent) : a.no > req[w].lu THEN croisees \cup {no + 1} ELSE croisees
        /\ \A a \in affectations' : \/ a \in restent
                                    \/ a.session = s /\ a.no = no + 1
    BY <1>3 DEF InsertAffectations, Done, Crossed
  <2>2. req[w].lu \in 0..no
    BY <2>1 DEF TypeInv, Typed
  <2>3. \A a \in De(s, restent) : a.no > req[w].lu
    BY <1>1, <2>1, <2>2 DEF De, Assignments
  <2>4. no + 1 \in croisees' \/ De(s, restent) = {}
    BY <2>1, <2>3
  <2>5. \A a \in affectations' : a \in affectations \/ a.no = no + 1
    BY <2>1
  <2>6. \A a \in affectations' : a.no <= no'
    BY <1>0, <1>1, <2>1, <2>5 DEF Assignments
  <2>7. \A a, b \in affectations' :
          a.session = b.session /\ a.no # b.no => a.no \in croisees' \/ b.no \in croisees'
    <3>. SUFFICES ASSUME NEW a \in affectations', NEW b \in affectations',
                         a.session = b.session, a.no # b.no
                  PROVE  a.no \in croisees' \/ b.no \in croisees'
      OBVIOUS
    <3>1. CASE a \in restent /\ b \in restent
      BY <1>0, <3>1 DEF Assignments
    <3>2. CASE a \in restent /\ b \notin restent
      BY <2>1, <2>4, <3>2 DEF De
    <3>3. CASE a \notin restent /\ b \in restent
      BY <2>1, <2>4, <3>3 DEF De
    <3>4. CASE a \notin restent /\ b \notin restent
      BY <2>1, <3>4
    <3>. QED
      BY <3>1, <3>2, <3>3, <3>4
  <2>. QED
    BY <2>5, <2>6, <2>7, AssignmentsHeld DEF Assignments
<1>. QED
  BY <1>2, <1>3, Writers
-----------------------------------------------------------------------------
(* Plannings *)

\* The rows of the plannings are of past COMMITs, and an import that has deleted holds all
\* that it saw of what it replaces, but what single-row requests have changed.
Plannings ==
  /\ \A g \in segments : g.no <= no
  /\ \A w \in Workers : req[w].op = "imported" =>
       \A g \in segments :
         /\ Remplaces(g, req[w].session, req[w].semaine)
         /\ g.no <= req[w].lu /\ g.no \notin croisees
         => g \in req[w].vues
  /\ \A g, h \in segments :
       /\ g.session = h.session /\ g.no # h.no /\ {g.no, h.no} \cap croisees = {}
       => g.semaine # h.semaine /\ (g.no < h.no => h.semaine # NULL)

\* An import holds what it saw, whatever other requests insert or move.
LEMMA PlanningHeld ==
  ASSUME TypeInv, ActInv, Plannings, Next,
         \A g \in segments' : g \in segments \/ g.no = no + 1 \/ g.no \in croisees'
  PROVE  \A w \in Workers : req'[w].op = "imported" =>
           \A g \in segments' :
             /\ Remplaces(g, req'[w].session, req'[w].semaine)
             /\ g.no <= req'[w].lu /\ g.no \notin croisees'
             => g \in req'[w].vues
<1>. SUFFICES ASSUME NEW w \in Workers, req'[w].op = "imported", NEW g \in segments',
                     Remplaces(g, req'[w].session, req'[w].semaine),
                     g.no <= req'[w].lu, g.no \notin croisees'
              PROVE  g \in req'[w].vues
  OBVIOUS
<1>0. croisees \subseteq croisees'
  BY Writers
<1>1. CASE req'[w] = req[w]
  <2>1. req[w].lu \in 0..no /\ no \in Nat
    BY <1>1 DEF TypeInv, TypeOK, Typed
  <2>2. g \in segments
    BY <1>1, <2>1
  <2>. QED
    BY <1>0, <1>1, <2>2 DEF Plannings
<1>2. CASE req'[w] # req[w]
  <2>1. DeletePlanning(w)
    BY <1>2, Ancestors
  <2>2. PICK r : r = [op |-> "imported", session |-> req[w].session, semaine |-> req[w].semaine,
                      heures |-> req[w].heures, lu |-> req[w].lu,
                      vues |-> {h \in segments : /\ Remplaces(h, req[w].session, req[w].semaine)
                                                 /\ h.no <= req[w].lu}]
    OBVIOUS
  <2>3. req' = [req EXCEPT ![w] = r] /\ segments' = segments
    BY <2>1, <2>2 DEF DeletePlanning
  <2>4. req'[w] = r
    BY <2>3 DEF TypeInv
  <2>. QED
    BY <2>2, <2>3, <2>4
<1>. QED
  BY <1>1, <1>2

\* Every step keeps what the plannings rest on.
LEMMA PlanningsStep ==
  ASSUME TypeInv, ActInv, Plannings, Next
  PROVE  Plannings'
<1>0. no \in Nat /\ no' \in Nat /\ no <= no' /\ croisees \subseteq croisees'
  BY Writers
<1>1. \A g \in segments : g.no \in Nat /\ g.no <= no
  BY DEF Plannings, TypeInv, TypeOK, Segment
<1>2. CASE segments' \subseteq segments
  <2>1. \A g \in segments' : g.no <= no'
    BY <1>0, <1>1, <1>2
  <2>2. \A g, h \in segments' :
          /\ g.session = h.session /\ g.no # h.no /\ {g.no, h.no} \cap croisees' = {}
          => g.semaine # h.semaine /\ (g.no < h.no => h.semaine # NULL)
    BY <1>0, <1>2 DEF Plannings
  <2>. QED
    BY <1>2, <2>1, <2>2, PlanningHeld DEF Plannings
<1>3. ASSUME NEW w \in Workers, InsertPlanning(w)
      PROVE  Plannings'
  <2>. DEFINE s == req[w].session
              k == req[w].semaine
              restent == segments \ req[w].vues
              anciens == {g \in restent : Remplaces(g, s, k)}
  <2>1. /\ req[w].op = "imported" /\ no' = no + 1
        /\ croisees' = IF \E g \in anciens : g.no > req[w].lu THEN croisees \cup {no + 1} ELSE croisees
        /\ \A g \in segments' : \/ g \in restent
                                \/ g.session = s /\ g.semaine = k /\ g.no = no + 1
    BY <1>3 DEF InsertPlanning, Done, Crossed
  <2>2. req[w].lu \in 0..no
    BY <2>1 DEF TypeInv, Typed
  <2>3. \A g \in anciens : g.no > req[w].lu \/ g.no \in croisees
    BY <1>1, <2>1, <2>2 DEF Plannings
  <2>4. no + 1 \in croisees' \/ \A g \in anciens : g.no \in croisees'
    BY <1>0, <2>1, <2>3
  <2>5. \A g \in segments' : g \in segments \/ g.no = no + 1
    BY <2>1
  <2>6. \A g \in segments' : g.no <= no'
    BY <1>0, <1>1, <2>1, <2>5
  <2>7. \A g \in restent : \A h \in segments' :
          /\ h.session = s /\ h.semaine = k /\ h.no = no + 1
          /\ g.session = h.session /\ {g.no, h.no} \cap croisees' = {}
          => g.semaine # k /\ k # NULL /\ g.no < h.no
    BY <1>0, <1>1, <2>4 DEF Remplaces
  <2>8. \A g, h \in segments' :
          /\ g.session = h.session /\ g.no # h.no /\ {g.no, h.no} \cap croisees' = {}
          => g.semaine # h.semaine /\ (g.no < h.no => h.semaine # NULL)
    <3>. SUFFICES ASSUME NEW g \in segments', NEW h \in segments',
                         g.session = h.session, g.no # h.no, {g.no, h.no} \cap croisees' = {}
                  PROVE  g.semaine # h.semaine /\ (g.no < h.no => h.semaine # NULL)
      OBVIOUS
    <3>1. CASE g \in restent /\ h \in restent
      BY <1>0, <3>1 DEF Plannings
    <3>2. CASE g \in restent /\ h \notin restent
      BY <2>1, <2>7, <3>2
    <3>3. CASE g \notin restent /\ h \in restent
      <4>1. h.semaine # k /\ h.no < g.no /\ g.semaine = k
        BY <2>1, <2>7, <3>3
      <4>2. g.no = no + 1 /\ h.no \in Nat
        BY <1>1, <2>1, <3>3
      <4>. QED
        BY <1>0, <4>1, <4>2
    <3>4. CASE g \notin restent /\ h \notin restent
      BY <2>1, <3>4
    <3>. QED
      BY <3>1, <3>2, <3>3, <3>4
  <2>. QED
    BY <2>5, <2>6, <2>8, PlanningHeld DEF Plannings
<1>4. ASSUME NEW w \in Workers, NEW s \in Sessions, NEW k \in Semaines \cup {NULL}, NEW h \in Heures,
             CreateSegment(w, s, k, h)
      PROVE  Plannings'
  <2>1. no' = no + 1 /\ croisees' = croisees \cup {no + 1}
        /\ \A g \in segments' : g \in segments \/ g.no = no + 1
    BY <1>4 DEF CreateSegment
  <2>2. \A g \in segments' : g.no <= no'
    BY <1>0, <1>1, <2>1
  <2>3. \A f, g \in segments' :
          /\ f.session = g.session /\ f.no # g.no /\ {f.no, g.no} \cap croisees' = {}
          => f.semaine # g.semaine /\ (f.no < g.no => g.semaine # NULL)
    BY <2>1 DEF Plannings
  <2>. QED
    BY <2>1, <2>2, <2>3, PlanningHeld DEF Plannings
<1>5. ASSUME NEW s \in segments, NEW k \in Semaines \cup {NULL}, UpdateSegment(s, k)
      PROVE  Plannings'
  <2>1. s \in Segment
    BY DEF TypeInv, TypeOK
  <2>2. PICK n : n = [s EXCEPT !.semaine = k]
    OBVIOUS
  <2>3. n.no = s.no
    BY <2>1, <2>2 DEF Segment
  <2>4. segments' = (segments \ {s}) \cup {n} /\ croisees' = croisees \cup {s.no} /\ no' = no
    BY <1>5, <2>2 DEF UpdateSegment
  <2>5. \A g \in segments' : g \in segments \/ (g.no \in croisees' /\ g.no = s.no)
    BY <2>3, <2>4
  <2>6. \A g \in segments' : g.no <= no'
    BY <1>1, <2>4, <2>5
  <2>7. \A f, g \in segments' :
          /\ f.session = g.session /\ f.no # g.no /\ {f.no, g.no} \cap croisees' = {}
          => f.semaine # g.semaine /\ (f.no < g.no => g.semaine # NULL)
    BY <1>0, <2>5 DEF Plannings
  <2>. QED
    BY <2>5, <2>6, <2>7, PlanningHeld DEF Plannings
<1>. QED
  BY <1>2, <1>3, <1>4, <1>5, Writers

-----------------------------------------------------------------------------
(* Progression configurations *)

Portee(c, e, s) == c.ecole = e /\ c.session = s

\* The rows of the configurations are of past COMMITs, their keys are unique, and a request
\* that has read saw its scope free; one that moves a row saw it as it is, if it still is.
Scopes ==
  /\ \A c \in configs : c.no <= no /\ c.cle <= no
  /\ \A c, d \in configs : c.cle = d.cle => c = d
  /\ \A w \in Workers :
       /\ req[w].op \in {"config", "portee"} =>
            \A d \in configs : d.no <= req[w].lu => ~Portee(d, req[w].ecole, req[w].session)
       /\ req[w].op = "portee" =>
            \A d \in configs : d.cle = req[w].ligne.cle /\ d.no <= req[w].lu => d = req[w].ligne
  /\ \A c, d \in configs :
       c.ecole = d.ecole /\ c.session = d.session /\ {c.no, d.no} \cap croisees = {} => c = d

\* What a request saw stays true, whatever rows other requests write.
LEMMA ScopesSeen ==
  ASSUME TypeInv, Scopes, Next,
         \A c \in configs' : c \in configs \/ c.no = no + 1
  PROVE  \A w \in Workers :
           /\ req'[w].op \in {"config", "portee"} =>
                \A d \in configs' : d.no <= req'[w].lu => ~Portee(d, req'[w].ecole, req'[w].session)
           /\ req'[w].op = "portee" =>
                \A d \in configs' : d.cle = req'[w].ligne.cle /\ d.no <= req'[w].lu => d = req'[w].ligne
<1>. SUFFICES ASSUME NEW w \in Workers, req'[w].op \in {"config", "portee"}, NEW d \in configs',
                     d.no <= req'[w].lu
              PROVE  /\ ~Portee(d, req'[w].ecole, req'[w].session)
                     /\ req'[w].op = "portee" /\ d.cle = req'[w].ligne.cle => d = req'[w].ligne
  OBVIOUS
<1>1. CASE req'[w] = req[w]
  <2>1. req[w].lu \in 0..no /\ no \in Nat
    BY <1>1 DEF TypeInv, TypeOK, Typed
  <2>2. d \in configs
    BY <1>1, <2>1
  <2>. QED
    BY <1>1, <2>2 DEF Scopes
<1>2. CASE req'[w] # req[w] /\ req'[w].op = "config"
  <2>1. PICK e, s : ReadConfig(w, e, s)
    BY <1>2, Ancestors
  <2>2. PICK r : r = [op |-> "config", ecole |-> e, session |-> s, lu |-> no]
    OBVIOUS
  <2>3. req' = [req EXCEPT ![w] = r] /\ configs' = configs /\ DePortee(e, s) = {}
    BY <2>1, <2>2 DEF ReadConfig, Arrive
  <2>4. req'[w] = r
    BY <2>3 DEF TypeInv
  <2>. QED
    BY <1>2, <2>2, <2>3, <2>4 DEF DePortee, Portee
<1>3. CASE req'[w] # req[w] /\ req'[w].op = "portee"
  <2>1. PICK e, s : \E c \in configs : ReadPortee(w, c, e, s)
    BY <1>3, Ancestors
  <2>2. PICK c \in configs : ReadPortee(w, c, e, s)
    BY <2>1
  <2>3. PICK r : r = [op |-> "portee", ligne |-> c, ecole |-> e, session |-> s, lu |-> no]
    OBVIOUS
  <2>4. req' = [req EXCEPT ![w] = r] /\ configs' = configs /\ DePortee(e, s) = {}
    BY <2>2, <2>3 DEF ReadPortee, Arrive
  <2>5. req'[w] = r
    BY <2>4 DEF TypeInv
  <2>6. d.cle = c.cle => d = c
    BY <2>4 DEF Scopes
  <2>. QED
    BY <2>3, <2>4, <2>5, <2>6 DEF DePortee, Portee
<1>. QED
  BY <1>1, <1>2, <1>3

\* A row written by a COMMIT, which is the only one of its scope or is crossed.
LEMMA ScopesWritten ==
  ASSUME TypeInv, Scopes, Next, NEW c, NEW autres \in SUBSET configs,
         configs' = autres \cup {c}, no' = no + 1, no \in Nat, croisees \subseteq croisees',
         c.no = no + 1, c.cle \in Nat, c.cle <= no + 1, \A d \in autres : d.cle # c.cle,
         no + 1 \in croisees' \/ \A d \in autres : ~Portee(d, c.ecole, c.session)
  PROVE  Scopes'
<1>1. \A d \in configs : d.no \in Nat /\ d.cle \in Nat
  BY DEF TypeInv, TypeOK, Config
<1>2. \A d \in configs' : d.no <= no' /\ d.cle <= no'
  BY <1>1 DEF Scopes
<1>3. \A d, e \in configs' : d.cle = e.cle => d = e
  BY DEF Scopes
<1>4. \A d, e \in configs' :
        d.ecole = e.ecole /\ d.session = e.session /\ {d.no, e.no} \cap croisees' = {} => d = e
  BY DEF Scopes, Portee
<1>. QED
  BY <1>2, <1>3, <1>4, ScopesSeen DEF Scopes

\* Every step keeps what the configurations rest on.
LEMMA ScopesStep ==
  ASSUME TypeInv, ActInv, Scopes, Next
  PROVE  Scopes'
<1>0. no \in Nat /\ no' \in Nat /\ no <= no' /\ croisees \subseteq croisees'
  BY Writers
<1>1. \A c \in configs : c.no \in Nat /\ c.cle \in Nat /\ c.no <= no /\ c.cle <= no /\ c \in Config
  BY DEF Scopes, TypeInv, TypeOK, Config
<1>2. CASE configs' \subseteq configs
  <2>1. \A c \in configs' : c.no <= no' /\ c.cle <= no'
    BY <1>0, <1>1, <1>2
  <2>2. \A c, d \in configs' : c.cle = d.cle => c = d
    BY <1>2 DEF Scopes
  <2>3. \A c, d \in configs' :
          c.ecole = d.ecole /\ c.session = d.session /\ {c.no, d.no} \cap croisees' = {} => c = d
    BY <1>0, <1>2 DEF Scopes
  <2>. QED
    BY <1>2, <2>1, <2>2, <2>3, ScopesSeen DEF Scopes
<1>3. ASSUME NEW w \in Workers, CommitConfig(w)
      PROVE  Scopes'
  <2>1. PICK c : c = [cle |-> no + 1, ecole |-> req[w].ecole, session |-> req[w].session, no |-> no + 1]
    OBVIOUS
  <2>2. /\ req[w].op = "config" /\ configs' = configs \cup {c} /\ no' = no + 1
        /\ croisees' = IF \E d \in DePortee(c.ecole, c.session) : d.no > req[w].lu
                       THEN croisees \cup {no + 1} ELSE croisees
    BY <1>3, <2>1 DEF CommitConfig, Done, Crossed
  <2>3. req[w].lu \in 0..no
    BY <2>2 DEF TypeInv, Typed
  <2>4. no + 1 \in croisees' \/ \A d \in configs : ~Portee(d, c.ecole, c.session)
    BY <1>1, <2>1, <2>2, <2>3 DEF Scopes, Portee, DePortee
  <2>5. c.no = no + 1 /\ c.cle = no + 1 /\ \A d \in configs : d.cle # c.cle
    BY <1>0, <1>1, <2>1
  <2>. QED
    BY <1>0, <2>2, <2>4, <2>5, ScopesWritten
<1>4. ASSUME NEW w \in Workers, CommitPortee(w)
      PROVE  Scopes'
  <2>0. PICK ligne \in configs : \E c :
          /\ c = [ligne EXCEPT !.no = no + 1,
                    !.ecole = IF req[w].ecole = req[w].ligne.ecole THEN @ ELSE req[w].ecole,
                    !.session = IF req[w].session = req[w].ligne.session THEN @ ELSE req[w].session]
          /\ ligne.cle = req[w].ligne.cle
          /\ configs' = (configs \ {ligne}) \cup {c}
          /\ Crossed(w, {ligne} \cup DePortee(c.ecole, c.session))
    BY <1>4 DEF CommitPortee
  <2>1. PICK c :
          /\ c = [ligne EXCEPT !.no = no + 1,
                    !.ecole = IF req[w].ecole = req[w].ligne.ecole THEN @ ELSE req[w].ecole,
                    !.session = IF req[w].session = req[w].ligne.session THEN @ ELSE req[w].session]
          /\ ligne.cle = req[w].ligne.cle
          /\ configs' = (configs \ {ligne}) \cup {c}
          /\ Crossed(w, {ligne} \cup DePortee(c.ecole, c.session))
    BY <2>0
  <2>2. req[w].op = "portee" /\ no' = no + 1
    BY ONLY <1>4 DEF CommitPortee, Done
  <2>3. /\ c.no = no + 1 /\ c.cle = ligne.cle
        /\ c.ecole = IF req[w].ecole = req[w].ligne.ecole THEN ligne.ecole ELSE req[w].ecole
        /\ c.session = IF req[w].session = req[w].ligne.session THEN ligne.session ELSE req[w].session
    <3>1. ligne \in Config
      BY <1>1
    <3>. QED
      BY <2>1, <3>1 DEF Config
  <2>4. req[w].lu \in 0..no
    BY <2>2 DEF TypeInv, Typed
  <2>5. croisees' = IF \E d \in {ligne} \cup DePortee(c.ecole, c.session) : d.no > req[w].lu
                    THEN croisees \cup {no + 1} ELSE croisees
    BY <2>1 DEF Crossed
  <2>6. no + 1 \in croisees' \/ \A d \in configs : ~Portee(d, c.ecole, c.session)
    <3>. SUFFICES ASSUME no + 1 \notin croisees'
                  PROVE  \A d \in configs : ~Portee(d, c.ecole, c.session)
      OBVIOUS
    <3>1. ligne.no <= req[w].lu /\ \A d \in DePortee(c.ecole, c.session) : d \in configs /\ d.no <= req[w].lu
      BY <1>1, <2>4, <2>5 DEF DePortee
    <3>2. ligne = req[w].ligne
      BY <2>1, <2>2, <3>1 DEF Scopes
    <3>3. c.ecole = req[w].ecole /\ c.session = req[w].session
      BY <2>3, <3>2
    <3>4. \A d \in configs : d.no <= req[w].lu => ~Portee(d, c.ecole, c.session)
      BY <2>2, <3>3 DEF Scopes
    <3>. QED
      BY <3>1, <3>4 DEF DePortee, Portee
  <2>7. \A d \in configs \ {ligne} : d.cle # c.cle
    BY <2>3 DEF Scopes
  <2>8. c.cle \in Nat /\ c.cle <= no + 1
    BY <1>0, <1>1, <2>3
  <2>9. configs' = (configs \ {ligne}) \cup {c} /\ configs \ {ligne} \in SUBSET configs
    BY <2>1
  <2>. QED
    BY <1>0, <2>2, <2>3, <2>6, <2>7, <2>8, <2>9, ScopesWritten
<1>. QED
  BY <1>2, <1>3, <1>4, Writers

-----------------------------------------------------------------------------
(* Theorems *)

IInv == TypeInv /\ Activations /\ Assignments /\ Plannings /\ Scopes

\* The invariant holds in the first state.
LEMMA InitInv ==
  ASSUME Init
  PROVE  IInv
<1>1. \A w \in Workers : req[w] = Idle
  BY DEF Init
<1>2. Pending = {}
  BY <1>1 DEF Pending
<1>3. Cardinality(Pending) = 0
  BY <1>2, FS_EmptySet
<1>4. \A s \in Sessions : sessions[s] = NULL
  BY DEF Init
<1>5. TypeOK
  BY <1>4, ProgrammeAssumption DEF Init, TypeOK, Exists
<1>6. TypeInv
  BY <1>1, <1>3, <1>5, ProgrammeAssumption DEF Init, TypeInv, Typed, Idle
<1>7. Existing = {}
  BY <1>4 DEF Existing, Exists
<1>8. Activations
  BY <1>1, <1>7 DEF Activations, ActInv, OneActivated, Idle
<1>9. Assignments /\ Plannings /\ Scopes
  BY <1>1 DEF Init, Assignments, Plannings, Scopes, Idle
<1>. QED
  BY <1>6, <1>8, <1>9 DEF IInv

\* Every step keeps it.
LEMMA StepInv ==
  ASSUME IInv, [Next]_vars
  PROVE  IInv'
<1>1. CASE Next
  BY <1>1, TypeStep, ActStep, AssignmentsStep, PlanningsStep, ScopesStep DEF IInv, Activations
<1>2. CASE UNCHANGED vars
  <2>1. UNCHANGED <<cles, sessions, affectations, segments, configs, croisees, req, no>>
    BY <1>2 DEF vars
  <2>2. TypeInv'
    BY <2>1 DEF IInv, TypeInv, TypeOK, Typed, Pending, Exists
  <2>3. Activations'
    BY <2>1 DEF IInv, Activations, ActInv, OneActivated, Existing, Exists
  <2>4. Assignments' /\ Plannings'
    BY <2>1 DEF IInv, Assignments, Plannings, Remplaces
  <2>5. Scopes'
    BY <2>1 DEF IInv, Scopes, Portee
  <2>. QED
    BY <2>2, <2>3, <2>4, <2>5 DEF IInv
<1>. QED
  BY <1>1, <1>2

\* The invariant of the specification.
THEOREM Invariant == Spec => []IInv
<1>. QED
  BY InitInv, StepInv, PTL DEF Spec

\* Every variable keeps its type, and no row of a table refers to a session that
\* delete_session has removed.
THEOREM ProgrammeTypes == Spec => []TypeOK
<1>1. IInv => TypeOK
  BY DEF IInv, TypeInv
<1>. QED
  BY <1>1, Invariant, PTL

\* activate_session: however activations overlap, no two sessions are active by them, unless
\* one of them was created during the other's.
THEOREM ActivationsLeaveOne == Spec => []OneActivated
<1>1. IInv => OneActivated
  BY DEF IInv, Activations
<1>. QED
  BY <1>1, Invariant, PTL

\* assign_teachers and import_planning replace wholly: no rows of two COMMITs stand together,
\* unless one of the two crossed the other.
THEOREM ReplacementsAreWhole == Spec => []ReplacedWholly
<1>1. IInv => ReplacedWholly
  BY DEF IInv, Assignments, Plannings, ReplacedWholly
<1>. QED
  BY <1>1, Invariant, PTL

\* get_config_for finds at most one configuration at each level, unless two requests gave
\* that level at the same time.
THEOREM ConfigurationsResolve == Spec => []ConfigResolves
<1>1. IInv => ConfigResolves
  <2>. SUFFICES ASSUME IInv, NEW p, NEW c \in configs, NEW d \in configs,
                       <<c.ecole, c.session>> = p, <<d.ecole, d.session>> = p,
                       {c.no, d.no} \cap croisees = {}
                PROVE  c = d
    BY DEF ConfigResolves
  <2>1. c.ecole = d.ecole /\ c.session = d.session
    OBVIOUS
  <2>. QED
    BY <2>1 DEF IInv, Scopes
<1>. QED
  BY <1>1, Invariant, PTL
=============================================================================
