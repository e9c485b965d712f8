--------------------------- MODULE SyncCacheProof ---------------------------
(***************************************************************************)
(* Proofs about SyncCache: types, and the bound on staleness, for every    *)
(* number of teachers, tables, requests, every TTL and build time.         *)
(***************************************************************************)
EXTENDS SyncCache, TLAPS

-----------------------------------------------------------------------------
(* The inductive invariant *)

\* Only superseded versions have an age.
AgeOK ==
  /\ version \in [Data -> 0..MaxChanges]
  /\ age \in [Data -> [0..MaxChanges -> Nat]]
  /\ \A d \in Data, v \in 0..MaxChanges : v >= version[d] => age[d][v] = 0

\* A key lives at most as long as what it shows may still be served.
EntryOK(u, entry) ==
  /\ entry \in Entry
  /\ entry.left > 0 =>
       \A d \in Sources(u) :
         /\ entry.payload[d] \in 0..version[d]
         /\ Superseded(d, entry.payload[d]) + entry.left <= TTL + MaxBuild

\* What a build has read was current since the build began.
BuildOK(r) ==
  /\ r \in Build
  /\ r.dur <= MaxBuild
  /\ r.teacher # NULL => r.payload[r.teacher] # NULL
  /\ r.teacher = NULL => r = NoBuild
  /\ \A d \in Data :
       /\ r.payload[d] \in {NULL} \cup 0..version[d]
       /\ Superseded(d, r.payload[d]) <= r.dur

WriteOK(r) ==
  /\ r \in Write
  /\ r.step \in {"invalidate", "delete", "commit"} => r.data \in Data

IInv ==
  /\ AgeOK
  /\ redisUp \in BOOLEAN
  /\ cache \in [Teachers -> Entry]
  /\ build \in [Builders -> Build]
  /\ write \in [Writers -> Write]
  /\ \A u \in Teachers : EntryOK(u, cache[u])
  /\ \A b \in Builders : BuildOK(build[b])
  /\ \A a \in Writers : WriteOK(write[a])

-----------------------------------------------------------------------------
(* Initial values *)

\* The absent key is an entry without life.
LEMMA NoEntryOK == NoEntry \in Entry /\ NoEntry.left = 0
  BY DEF NoEntry, Entry, Payload

\* A free builder is a build record.
LEMMA NoBuildType ==
  /\ NoBuild \in Build /\ NoBuild.dur = 0 /\ NoBuild.teacher = NULL
  /\ \A d \in Data : NoBuild.payload[d] = NULL
  BY DEF NoBuild, Build, Payload

\* A free builder shows nothing superseded.
LEMMA NoBuildOK == BuildOK(NoBuild)
  BY NoBuildType, SyncAssumption DEF BuildOK, Superseded

\* A free writer is a write record in order.
LEMMA NoWriteOK == NoWrite \in Write /\ NoWrite.step = "idle" /\ WriteOK(NoWrite)
  BY DEF NoWrite, Write, Steps, WriteOK

\* The inductive invariant holds at the start.
LEMMA InitIInv == Init => IInv
<1>. SUFFICES ASSUME Init PROVE IInv
  OBVIOUS
<1>1. AgeOK
  BY SyncAssumption DEF Init, AgeOK
<1>2. /\ redisUp \in BOOLEAN /\ cache \in [Teachers -> Entry]
      /\ build \in [Builders -> Build] /\ write \in [Writers -> Write]
  BY NoEntryOK, NoBuildType, NoWriteOK DEF Init
<1>3. \A u \in Teachers : EntryOK(u, cache[u])
  BY NoEntryOK DEF Init, EntryOK
<1>4. \A b \in Builders : BuildOK(build[b])
  BY NoBuildOK DEF Init
<1>5. \A a \in Writers : WriteOK(write[a])
  BY NoWriteOK DEF Init
<1>. QED
  BY <1>1, <1>2, <1>3, <1>4, <1>5 DEF IInv

-----------------------------------------------------------------------------
(* Steps that neither commit nor let time pass *)

\* It is enough to look at the keys, builds and writes that change.
LEMMA QuietStep ==
  ASSUME IInv, UNCHANGED <<version, age>>, redisUp' \in BOOLEAN,
         cache' \in [Teachers -> Entry], build' \in [Builders -> Build],
         write' \in [Writers -> Write],
         \A u \in Teachers : cache'[u] # cache[u] => EntryOK(u, cache'[u]),
         \A b \in Builders : build'[b] # build[b] => BuildOK(build'[b]),
         \A a \in Writers : write'[a] # write[a] => WriteOK(write'[a])
  PROVE  IInv'
<1>1. AgeOK'
  BY DEF IInv, AgeOK
<1>2. \A u \in Teachers : EntryOK(u, cache[u])'
  <2>1. \A u \in Teachers : EntryOK(u, cache'[u])
    BY DEF IInv
  <2>. QED
    BY <2>1 DEF EntryOK, Superseded
<1>3. \A b \in Builders : BuildOK(build[b])'
  <2>1. \A b \in Builders : BuildOK(build'[b])
    BY DEF IInv
  <2>. QED
    BY <2>1 DEF BuildOK, Superseded
<1>4. \A a \in Writers : WriteOK(write[a])'
  <2>1. \A a \in Writers : WriteOK(write'[a])
    BY DEF IInv
  <2>. QED
    BY <2>1 DEF WriteOK
<1>. QED
  BY <1>1, <1>2, <1>3, <1>4 DEF IInv

\* A step that changes nothing but writers' records, to good ones, keeps the invariant.
LEMMA WriteOnly ==
  ASSUME IInv, NEW a \in Writers, NEW r, WriteOK(r),
         write' = [write EXCEPT ![a] = r], UNCHANGED <<version, age, cache, redisUp, build>>
  PROVE  IInv'
<1>1. write' \in [Writers -> Write] /\ \A x \in Writers : write'[x] # write[x] => write'[x] = r
  BY DEF IInv, WriteOK
<1>2. \A x \in Writers : write'[x] # write[x] => WriteOK(write'[x])
  BY <1>1
<1>. QED
  BY <1>1, <1>2, QuietStep DEF IInv

\* The cache loses keys.
LEMMA CacheShrinks ==
  ASSUME IInv, UNCHANGED <<version, age, build>>, redisUp' \in BOOLEAN,
         cache' \in [Teachers -> Entry],
         \A u \in Teachers : cache'[u] \in {cache[u], NoEntry},
         write' \in [Writers -> Write],
         \A a \in Writers : write'[a] # write[a] => WriteOK(write'[a])
  PROVE  IInv'
<1>1. \A u \in Teachers : cache'[u] # cache[u] => EntryOK(u, cache'[u])
  BY NoEntryOK DEF EntryOK
<1>. QED
  BY <1>1, QuietStep DEF IInv

\* A writer's record stays in order once the cache is dealt with.
LEMMA InvalidatedOK ==
  ASSUME NEW r, WriteOK(r), r.step \in {"invalidate", "delete"}
  PROVE  WriteOK(Invalidated(r))
<1>1. CASE r.committed
  BY <1>1, NoWriteOK DEF Invalidated
<1>2. CASE ~r.committed
  BY <1>2 DEF Invalidated, WriteOK, Write, Steps
<1>. QED
  BY <1>1, <1>2

-----------------------------------------------------------------------------
(* GET /app/sync *)

\* Every step of a sync request keeps the invariant.
LEMMA SyncStepKeeps ==
  ASSUME IInv, NEW b \in Builders, SyncStep(b)
  PROVE  IInv'
<1>0. /\ cache \in [Teachers -> Entry] /\ build \in [Builders -> Build]
      /\ version \in [Data -> 0..MaxChanges] /\ BuildOK(build[b])
  BY DEF IInv, AgeOK
<1>1. ASSUME NEW u \in Teachers, ServeCached(b, u)
      PROVE  IInv'
  <2>1. cache' = cache
    BY <1>0, <1>1 DEF ServeCached, Hit
  <2>. QED
    BY <1>1, <2>1, QuietStep DEF ServeCached, IInv
<1>2. ASSUME NEW u \in Teachers, StartBuild(b, u)
      PROVE  IInv'
  <2>. DEFINE r == [NoBuild EXCEPT !.teacher = u, !.redis = redisUp, !.payload[u] = version[u]]
  <2>1. u \in Data /\ version[u] \in Nat /\ u # NULL
    BY <1>0, SyncAssumption DEF Data
  <2>2. /\ r \in Build /\ r.dur = 0 /\ r.teacher = u
        /\ \A d \in Data : r.payload[d] = IF d = u THEN version[u] ELSE NULL
    BY <2>1 DEF NoBuild, Build, Payload, IInv
  <2>3. build' = [build EXCEPT ![b] = r]
    BY <1>2 DEF StartBuild
  <2>. HIDE DEF r
  <2>4. BuildOK(r)
    BY <1>0, <2>1, <2>2, SyncAssumption DEF BuildOK, Superseded
  <2>5. build' \in [Builders -> Build] /\ \A x \in Builders : build'[x] # build[x] => build'[x] = r
    BY <1>0, <2>2, <2>3
  <2>. QED
    BY <1>2, <2>4, <2>5, QuietStep DEF StartBuild, IInv
<1>3. CASE ReadTable(b)
  <2>1. PICK d \in Tables : build' = [build EXCEPT ![b].payload[d] = version[d]]
    BY <1>3 DEF ReadTable, Unread
  <2>. DEFINE r == [build[b] EXCEPT !.payload[d] = version[d]]
  <2>2. d \in Data /\ version[d] \in 0..MaxChanges
    BY <1>0 DEF Data
  <2>3. /\ r \in Build /\ r.dur = build[b].dur /\ r.teacher = build[b].teacher
        /\ \A x \in Data : r.payload[x] = IF x = d THEN version[d] ELSE build[b].payload[x]
    BY <1>0, <2>2 DEF Build, Payload
  <2>4. build' = [build EXCEPT ![b] = r]
    BY <1>0, <2>1
  <2>. HIDE DEF r
  <2>5. BuildOK(r)
    <3>1. r.teacher # NULL /\ r.dur \in Nat
      BY <1>0, <1>3, <2>3 DEF ReadTable, Build
    <3>2. r.payload[r.teacher] # NULL
      BY <1>0, <2>2, <2>3, <3>1, SyncAssumption DEF BuildOK, Build, Data
    <3>. QED
      BY <1>0, <2>2, <2>3, <3>1, <3>2 DEF BuildOK, Superseded
  <2>6. build' \in [Builders -> Build] /\ \A x \in Builders : build'[x] # build[x] => build'[x] = r
    BY <1>0, <2>3, <2>4
  <2>. QED
    BY <1>3, <2>5, <2>6, QuietStep DEF ReadTable, IInv
<1>4. CASE FinishBuild(b)
  <2>. DEFINE u == build[b].teacher
              e == Stored(build[b].payload)
  <2>1. u \in Teachers /\ build[b].payload \in Payload
    BY <1>0, <1>4 DEF FinishBuild, Built, Build
  <2>2. e \in Entry /\ e.left = TTL /\ e.payload = build[b].payload
    BY <2>1, SyncAssumption DEF Stored, Entry
  <2>3. \A d \in Sources(u) : build[b].payload[d] # NULL /\ d \in Data
    BY <1>0, <1>4, <2>1, SyncAssumption DEF FinishBuild, Built, Unread, Sources, BuildOK, Data
  <2>. HIDE DEF e
  <2>4. EntryOK(u, e)
    <3>1. \A d \in Sources(u) : /\ build[b].payload[d] \in 0..version[d]
                                /\ Superseded(d, build[b].payload[d]) <= build[b].dur
      BY <1>0, <2>3 DEF BuildOK
    <3>2. build[b].dur <= MaxBuild /\ build[b].dur \in Nat
      BY <1>0 DEF BuildOK, Build
    <3>3. \A d \in Sources(u) : Superseded(d, build[b].payload[d]) \in Nat
      <4>1. \A d \in Data : version[d] \in 0..MaxChanges /\ age[d] \in [0..MaxChanges -> Nat]
        BY DEF IInv, AgeOK
      <4>. QED
        BY <2>3, <3>1, <4>1, SyncAssumption DEF Superseded
    <3>4. TTL \in Nat /\ MaxBuild \in Nat
      BY SyncAssumption
    <3>. QED
      BY <2>2, <3>1, <3>2, <3>3, <3>4 DEF EntryOK
  <2>5. cache' \in {cache, [cache EXCEPT ![u] = e]}
    BY <1>4 DEF FinishBuild, e
  <2>. HIDE DEF u
  <2>6. cache' \in [Teachers -> Entry] /\ \A x \in Teachers : cache'[x] # cache[x] => EntryOK(x, cache'[x])
    <3>1. CASE cache' = cache
      BY <1>0, <3>1
    <3>2. CASE cache' = [cache EXCEPT ![u] = e]
      BY <1>0, <2>1, <2>2, <2>4, <3>2
    <3>. QED
      BY <2>5, <3>1, <3>2
  <2>7. build' = [build EXCEPT ![b] = NoBuild]
    BY <1>4 DEF FinishBuild
  <2>8. build' \in [Builders -> Build] /\ \A x \in Builders : build'[x] # build[x] => BuildOK(build'[x])
    BY <1>0, <2>7, NoBuildType, NoBuildOK
  <2>. QED
    BY <1>4, <2>6, <2>8, QuietStep DEF FinishBuild, IInv
<1>. QED
  BY <1>1, <1>2, <1>3, <1>4 DEF SyncStep

\* So does a manual invalidation.
LEMMA InvalidateOwnKeeps ==
  ASSUME IInv, NEW u \in Teachers, InvalidateOwn(u)
  PROVE  IInv'
<1>1. cache' \in [Teachers -> Entry] /\ \A x \in Teachers : cache'[x] \in {cache[x], NoEntry}
  BY NoEntryOK DEF InvalidateOwn, IInv
<1>. QED
  BY <1>1, CacheShrinks DEF InvalidateOwn, IInv

-----------------------------------------------------------------------------
(* Writers *)

\* A COMMIT changes the age of nothing that is shown.
LEMMA SupersedeKeeps ==
  ASSUME IInv, NEW d \in Data, Supersede(d), UNCHANGED <<age, cache, redisUp, build>>,
         write' \in [Writers -> Write],
         \A a \in Writers : write'[a] # write[a] => WriteOK(write'[a])
  PROVE  IInv'
<1>1. /\ version \in [Data -> 0..MaxChanges] /\ age \in [Data -> [0..MaxChanges -> Nat]]
      /\ \A x \in Data, v \in 0..MaxChanges : v >= version[x] => age[x][v] = 0
      /\ MaxChanges \in Nat
  BY SyncAssumption DEF IInv, AgeOK
<1>2. \A x \in Data : version'[x] = IF x = d THEN version[x] + 1 ELSE version[x]
  BY <1>1 DEF Supersede
<1>3. version[d] + 1 \in 0..MaxChanges
  BY <1>1 DEF Supersede, MayChange
<1>4. version' \in [Data -> 0..MaxChanges]
  BY <1>1, <1>3 DEF Supersede
<1>10. \A x \in Data : /\ version[x] \in Nat /\ version'[x] \in Nat
                       /\ version[x] <= version'[x] /\ version'[x] <= MaxChanges
  <2>1. \A x \in Data : version[x] \in Nat /\ version[x] <= MaxChanges
    BY <1>1
  <2>2. version[d] + 1 \in Nat /\ version[d] + 1 <= MaxChanges
    BY <1>3
  <2>. QED
    BY <1>2, <2>1, <2>2
<1>5. AgeOK'
  <2>1. \A x \in Data, v \in 0..MaxChanges : v >= version'[x] => age'[x][v] = 0
    <3>. SUFFICES ASSUME NEW x \in Data, NEW v \in 0..MaxChanges, v >= version'[x]
                  PROVE  age[x][v] = 0
      BY DEF Supersede
    <3>1. v >= version[x]
      BY <1>10
    <3>. QED
      BY <1>1, <3>1
  <2>. QED
    BY <1>1, <1>4, <2>1 DEF AgeOK
<1>6. \A x \in Data : \A v : v \in {NULL} \cup 0..version[x] =>
        v \in {NULL} \cup 0..version'[x] /\ Superseded(x, v)' = Superseded(x, v)
  <2>. SUFFICES ASSUME NEW x \in Data, NEW v, v \in {NULL} \cup 0..version[x]
                PROVE  v \in {NULL} \cup 0..version'[x] /\ Superseded(x, v)' = Superseded(x, v)
    OBVIOUS
  <2>1. CASE v = NULL
    BY <2>1 DEF Superseded
  <2>2. CASE v \in 0..version[x]
    <3>1. v \in 0..version'[x] /\ v \in 0..MaxChanges /\ v \in Nat
      BY <1>10, <2>2, SyncAssumption
    <3>2. CASE v = version[x]
      BY <1>1, <1>2, <3>1, <3>2 DEF Superseded
    <3>3. CASE v # version[x]
      BY <1>1, <1>2, <2>2, <3>1, <3>3 DEF Superseded
    <3>. QED
      BY <3>1, <3>2, <3>3
  <2>. QED
    BY <2>1, <2>2
<1>7. \A u \in Teachers : EntryOK(u, cache[u])'
  <2>1. \A u \in Teachers : \A x \in Sources(u) : x \in Data
    BY DEF Sources, Data
  <2>2. \A x \in Data : \A v : v \in 0..version[x] => v \in 0..version'[x]
    BY <1>10
  <2>3. \A u \in Teachers : \A e : EntryOK(u, e) => EntryOK(u, e)'
    <3>. SUFFICES ASSUME NEW u \in Teachers, NEW e, EntryOK(u, e)
                  PROVE  EntryOK(u, e)'
      OBVIOUS
    <3>. QED
      BY <1>6, <2>1, <2>2 DEF EntryOK
  <2>. QED
    BY <2>3 DEF IInv
<1>8. \A b \in Builders : BuildOK(build[b])'
  <2>1. \A r : BuildOK(r) => BuildOK(r)'
    BY <1>6 DEF BuildOK
  <2>. QED
    BY <2>1 DEF IInv
<1>9. \A a \in Writers : WriteOK(write[a])'
  <2>1. \A a \in Writers : WriteOK(write'[a])
    BY DEF IInv
  <2>. QED
    BY <2>1 DEF WriteOK
<1>. QED
  BY <1>4, <1>5, <1>7, <1>8, <1>9 DEF IInv

\* So does the arrival of a write request.
LEMMA BeginWriteKeeps ==
  ASSUME IInv, NEW a \in Writers, NEW d \in Data, NEW step \in {"commit", "invalidate"},
         BeginWrite(a, d, step)
  PROVE  IInv'
<1>. DEFINE r == [NoWrite EXCEPT !.data = d, !.step = step]
<1>1. WriteOK(r)
  BY DEF NoWrite, Write, Steps, WriteOK
<1>2. write' = [write EXCEPT ![a] = r] /\ UNCHANGED <<version, age, cache, redisUp, build>>
  BY DEF BeginWrite
<1>. HIDE DEF r
<1>. QED
  BY <1>1, <1>2, WriteOnly

\* So does a COMMIT: the version it supersedes has age zero.
LEMMA CommitKeeps ==
  ASSUME IInv, NEW a \in Writers, Commit(a)
  PROVE  IInv'
<1>. DEFINE d == write[a].data
            r == IF d \in CommitFirst
                 THEN [write[a] EXCEPT !.step = "invalidate", !.committed = TRUE]
                 ELSE NoWrite
<1>0. write \in [Writers -> Write] /\ WriteOK(write[a])
  BY DEF IInv
<1>1. d \in Data
  BY <1>0 DEF Commit, WriteOK
<1>2. WriteOK(r)
  <2>1. CASE d \in CommitFirst
    BY <1>0, <1>1, <2>1 DEF WriteOK, Write, Steps
  <2>2. CASE d \notin CommitFirst
    BY <2>2, NoWriteOK
  <2>. QED
    BY <2>1, <2>2
<1>3. write' = [write EXCEPT ![a] = r]
  BY <1>0 DEF Commit
<1>4. Supersede(d) /\ UNCHANGED <<age, cache, redisUp, build>>
  BY DEF Commit
<1>. HIDE DEF r
<1>5. write' \in [Writers -> Write] /\ \A x \in Writers : write'[x] # write[x] => write'[x] = r
  BY <1>0, <1>2, <1>3 DEF WriteOK
<1>6. \A x \in Writers : write'[x] # write[x] => WriteOK(write'[x])
  BY <1>2, <1>5
<1>. HIDE DEF d
<1>7. PICK e \in Data : e = d
  BY <1>1
<1>8. Supersede(e)
  BY <1>4, <1>7 DEF Supersede, MayChange
<1>. QED
  BY <1>4, <1>5, <1>6, <1>8, SupersedeKeeps

\* So does every step of a write request.
LEMMA WriteStepKeeps ==
  ASSUME IInv, NEW a \in Writers, WriteStep(a)
  PROVE  IInv'
<1>0. write \in [Writers -> Write] /\ WriteOK(write[a]) /\ cache \in [Teachers -> Entry]
  BY DEF IInv
<1>1. ASSUME NEW d \in Tables, BeginCommitFirst(a, d) \/ BeginInvalidateFirst(a, d)
      PROVE  IInv'
  BY <1>1, BeginWriteKeeps DEF BeginCommitFirst, BeginInvalidateFirst, Data
<1>2. ASSUME NEW u \in Teachers, BeginUpdateUser(a, u)
      PROVE  IInv'
  <2>. DEFINE r == [NoWrite EXCEPT !.data = u, !.step = "delete", !.keys = {u}]
  <2>1. WriteOK(r)
    BY DEF NoWrite, Write, Steps, WriteOK, Data
  <2>2. write' = [write EXCEPT ![a] = r] /\ UNCHANGED <<version, age, cache, redisUp, build>>
    BY <1>2 DEF BeginUpdateUser
  <2>. HIDE DEF r
  <2>. QED
    BY <2>1, <2>2, WriteOnly
<1>3. CASE ListKeys(a)
  <2>. DEFINE r == IF Keys = {} THEN Invalidated(write[a])
                   ELSE [write[a] EXCEPT !.step = "delete", !.keys = Keys]
  <2>1. WriteOK(r)
    <3>1. CASE Keys = {}
      BY <1>0, <1>3, <3>1, InvalidatedOK DEF ListKeys
    <3>2. CASE Keys # {}
      <4>1. Keys \in SUBSET Teachers
        BY DEF Keys
      <4>2. write[a].data \in Data
        BY <1>0, <1>3 DEF ListKeys, WriteOK
      <4>. QED
        BY <1>0, <3>2, <4>1, <4>2 DEF WriteOK, Write, Steps
    <3>. QED
      BY <3>1, <3>2
  <2>2. write' = [write EXCEPT ![a] = r] /\ UNCHANGED <<version, age, cache, redisUp, build>>
    BY <1>3 DEF ListKeys
  <2>. HIDE DEF r
  <2>. QED
    BY <2>1, <2>2, WriteOnly
<1>4. CASE DeleteKeys(a)
  <2>1. cache' \in [Teachers -> Entry] /\ \A x \in Teachers : cache'[x] \in {cache[x], NoEntry}
    BY <1>0, <1>4, NoEntryOK DEF DeleteKeys
  <2>. DEFINE r == Invalidated(write[a])
  <2>2. WriteOK(r)
    BY <1>0, <1>4, InvalidatedOK DEF DeleteKeys
  <2>3. write' = [write EXCEPT ![a] = r] /\ UNCHANGED <<version, age, redisUp, build>>
    BY <1>4 DEF DeleteKeys
  <2>. HIDE DEF r
  <2>4. write' \in [Writers -> Write] /\ \A x \in Writers : write'[x] # write[x] => write'[x] = r
    BY <1>0, <2>2, <2>3 DEF WriteOK
  <2>5. \A x \in Writers : write'[x] # write[x] => WriteOK(write'[x])
    BY <2>2, <2>4
  <2>6. redisUp' \in BOOLEAN
    BY <2>3 DEF IInv
  <2>. QED
    BY <2>1, <2>3, <2>4, <2>5, <2>6, CacheShrinks
<1>5. CASE SwallowRedisError(a)
  <2>. DEFINE r == Invalidated(write[a])
  <2>1. WriteOK(r)
    BY <1>0, <1>5, InvalidatedOK DEF SwallowRedisError
  <2>2. write' = [write EXCEPT ![a] = r] /\ UNCHANGED <<version, age, cache, redisUp, build>>
    BY <1>5 DEF SwallowRedisError
  <2>. HIDE DEF r
  <2>. QED
    BY <2>1, <2>2, WriteOnly
<1>6. CASE Rollback(a) \/ Replace(a)
  BY <1>6, NoWriteOK, WriteOnly DEF Rollback, Replace
<1>7. CASE Die(a)
  <2>. DEFINE r == [NoWrite EXCEPT !.step = "dead"]
  <2>1. WriteOK(r)
    BY DEF NoWrite, Write, Steps, WriteOK
  <2>2. write' = [write EXCEPT ![a] = r] /\ UNCHANGED <<version, age, cache, redisUp, build>>
    BY <1>7 DEF Die
  <2>. HIDE DEF r
  <2>. QED
    BY <2>1, <2>2, WriteOnly
<1>. QED
  BY <1>1, <1>2, <1>3, <1>4, <1>5, <1>6, <1>7, CommitKeeps DEF WriteStep

-----------------------------------------------------------------------------
(* Redis and the clock *)

\* So do the failures and returns of Redis.
LEMMA RedisKeeps ==
  ASSUME IInv, RedisFails \/ RedisReturns
  PROVE  IInv'
<1>1. cache' \in [Teachers -> Entry] /\ \A x \in Teachers : cache'[x] \in {cache[x], NoEntry}
  BY NoEntryOK DEF RedisFails, RedisReturns, IInv
<1>. QED
  BY <1>1, CacheShrinks DEF RedisFails, RedisReturns, IInv

\* What is shown ages by one at most.
LEMMA TickAges ==
  ASSUME IInv, Tick
  PROVE  /\ AgeOK'
         /\ \A d \in Data : \A v : v \in {NULL} \cup 0..version[d] =>
              /\ Superseded(d, v) \in Nat /\ Superseded(d, v)' \in Nat
              /\ Superseded(d, v)' <= Superseded(d, v) + 1
<1>1. /\ version \in [Data -> 0..MaxChanges] /\ age \in [Data -> [0..MaxChanges -> Nat]]
      /\ \A x \in Data, v \in 0..MaxChanges : v >= version[x] => age[x][v] = 0
      /\ version' = version
  BY DEF IInv, AgeOK, Tick
<1>2. TTL \in Nat /\ MaxBuild \in Nat /\ MaxChanges \in Nat
  BY SyncAssumption
<1>3. \A n \in Nat : Older(n) \in Nat /\ Older(n) <= n + 1
  BY <1>2 DEF Older
<1>4. \A d \in Data, v \in 0..MaxChanges :
        /\ age'[d][v] \in {0, Older(age[d][v])}
        /\ v >= version[d] => age'[d][v] = 0
  BY <1>1 DEF Tick
<1>5. \A d \in Data, v \in 0..MaxChanges :
        age[d][v] \in Nat /\ age'[d][v] \in Nat /\ age'[d][v] <= age[d][v] + 1
  <2>. TAKE d \in Data, v \in 0..MaxChanges
  <2>. DEFINE n == age[d][v]
              m == age'[d][v]
  <2>1. n \in Nat
    BY <1>1
  <2>2. m \in {0, Older(n)}
    BY <1>4
  <2>. HIDE DEF n, m
  <2>3. m \in Nat /\ m <= n + 1
    BY <1>3, <2>1, <2>2
  <2>. QED
    BY <2>1, <2>3 DEF n, m
<1>6. age' \in [Data -> [0..MaxChanges -> Nat]]
  <2>. DEFINE aged == [d \in Data |-> [v \in 0..MaxChanges |->
                         IF v < version[d] /\ Shown(d, v) THEN Older(age[d][v]) ELSE 0]]
  <2>1. \A d \in Data, v \in 0..MaxChanges :
          (IF v < version[d] /\ Shown(d, v) THEN Older(age[d][v]) ELSE 0) \in Nat
    BY <1>1, <1>3
  <2>2. aged \in [Data -> [0..MaxChanges -> Nat]]
    BY <2>1
  <2>. QED
    BY <2>2 DEF Tick
<1>7. AgeOK'
  BY <1>1, <1>4, <1>6 DEF AgeOK
<1>8. ASSUME NEW d \in Data, NEW v, v \in {NULL} \cup 0..version[d]
      PROVE  /\ Superseded(d, v) \in Nat /\ Superseded(d, v)' \in Nat
             /\ Superseded(d, v)' <= Superseded(d, v) + 1
  <2>1. CASE v = NULL \/ v = version[d]
    BY <1>1, <2>1 DEF Superseded
  <2>2. CASE v # NULL /\ v # version[d]
    <3>1. v \in 0..MaxChanges
      BY <1>1, <1>2, <1>8, <2>2
    <3>2. Superseded(d, v) = age[d][v] /\ Superseded(d, v)' = age'[d][v]
      BY <1>1, <2>2 DEF Superseded
    <3>. QED
      BY <1>5, <3>1, <3>2
  <2>. QED
    BY <2>1, <2>2
<1>. QED
  BY <1>7, <1>8

\* So does the clock: ages and lives move together.
LEMMA TickKeeps ==
  ASSUME IInv, Tick
  PROVE  IInv'
<1>1. /\ cache \in [Teachers -> Entry] /\ build \in [Builders -> Build]
      /\ TTL \in Nat /\ MaxBuild \in Nat
      /\ version' = version /\ redisUp' = redisUp /\ write' = write
  BY SyncAssumption DEF IInv, Tick
<1>2. \A u \in Teachers : \A d \in Sources(u) : d \in Data
  BY DEF Sources, Data
<1>3. \A e \in Entry : /\ Elapse(e) \in Entry
                       /\ Elapse(e).left > 0 =>
                            e.left = Elapse(e).left + 1 /\ Elapse(e).payload = e.payload
  <2>. SUFFICES ASSUME NEW e \in Entry
                PROVE  /\ Elapse(e) \in Entry
                       /\ Elapse(e).left > 0 =>
                            e.left = Elapse(e).left + 1 /\ Elapse(e).payload = e.payload
    OBVIOUS
  <2>1. CASE e.left <= 1
    BY <2>1, NoEntryOK DEF Elapse
  <2>2. CASE ~(e.left <= 1)
    <3>. DEFINE r == [e EXCEPT !.left = @ - 1]
    <3>1. e.left \in Nat /\ e.left - 1 \in Nat
      BY <2>2 DEF Entry
    <3>2. r \in Entry /\ r.left = e.left - 1 /\ r.payload = e.payload
      BY <3>1 DEF Entry
    <3>3. Elapse(e) = r
      BY <2>2 DEF Elapse
    <3>. HIDE DEF r
    <3>. QED
      BY <3>1, <3>2, <3>3
  <2>. QED
    BY <2>1, <2>2
<1>4. cache' \in [Teachers -> Entry] /\ \A u \in Teachers : cache'[u] = Elapse(cache[u])
  BY <1>1, <1>3 DEF Tick
<1>5. \A u \in Teachers : EntryOK(u, cache[u])'
  <2>. SUFFICES ASSUME NEW u \in Teachers, cache'[u].left > 0, NEW d \in Sources(u)
                PROVE  /\ cache'[u].payload[d] \in 0..version[d]
                       /\ Superseded(d, cache[u].payload[d])' + cache'[u].left <= TTL + MaxBuild
    BY <1>1, <1>4 DEF EntryOK
  <2>1. PICK e \in Entry : e = cache[u]
    BY <1>1
  <2>2. PICK f \in Entry : f = cache'[u]
    BY <1>4
  <2>3. f.left > 0 /\ e.left = f.left + 1 /\ f.payload = e.payload /\ e.left \in Nat /\ f.left \in Nat
    BY <1>3, <1>4, <2>1, <2>2 DEF Entry
  <2>4. e.payload[d] \in 0..version[d] /\ Superseded(d, e.payload[d]) + e.left <= TTL + MaxBuild
    <3>1. EntryOK(u, cache[u])
      BY DEF IInv
    <3>. QED
      BY <2>1, <2>3, <3>1 DEF EntryOK
  <2>5. PICK v : v = e.payload[d]
    OBVIOUS
  <2>6. Superseded(d, v) \in Nat /\ Superseded(d, v)' \in Nat /\ Superseded(d, v)' <= Superseded(d, v) + 1
    BY <1>2, <2>4, <2>5, TickAges
  <2>7. Superseded(d, v)' + f.left <= TTL + MaxBuild
    BY <1>1, <2>3, <2>4, <2>5, <2>6
  <2>8. cache'[u].payload[d] = v
    BY <2>2, <2>3, <2>5
  <2>9. Superseded(d, cache[u].payload[d])' = Superseded(d, v)'
    BY <2>8 DEF Superseded
  <2>. QED
    BY <2>2, <2>4, <2>5, <2>7, <2>8, <2>9
<1>6. ASSUME NEW b \in Builders
      PROVE  build'[b] \in Build /\ BuildOK(build[b])'
  <2>0. BuildOK(build[b]) /\ build[b] \in Build
    BY <1>1 DEF IInv
  <2>1. CASE build[b] = NoBuild
    <3>1. build'[b] = NoBuild
      BY <2>1 DEF Tick
    <3>. QED
      BY <3>1, NoBuildType, <1>1, SyncAssumption DEF BuildOK, Superseded
  <2>2. CASE build[b] # NoBuild
    <3>. DEFINE r == [build[b] EXCEPT !.dur = @ + 1]
    <3>1. build'[b] = r
      BY <2>2 DEF Tick
    <3>2. build[b].dur < MaxBuild /\ build[b].dur \in Nat
      BY <2>0, <2>2 DEF Tick, Build
    <3>3. /\ r \in Build /\ r.dur = build[b].dur + 1 /\ r.payload = build[b].payload
          /\ r.teacher = build[b].teacher
      BY <2>0, <3>2 DEF Build
    <3>. HIDE DEF r
    <3>4. r.dur <= MaxBuild
      BY <1>1, <3>2, <3>3
    <3>5. ASSUME NEW d \in Data
          PROVE  /\ build'[b].payload[d] \in {NULL} \cup 0..version[d]
                 /\ Superseded(d, build[b].payload[d])' <= build'[b].dur
      <4>1. PICK v : v = build[b].payload[d]
        OBVIOUS
      <4>2. v \in {NULL} \cup 0..version[d] /\ Superseded(d, v) <= build[b].dur
        BY <2>0, <4>1 DEF BuildOK
      <4>3. Superseded(d, v) \in Nat /\ Superseded(d, v)' \in Nat /\ Superseded(d, v)' <= Superseded(d, v) + 1
        BY <4>2, TickAges
      <4>4. build'[b].payload[d] = v /\ build'[b].dur = build[b].dur + 1
        BY <3>1, <3>3, <4>1
      <4>5. Superseded(d, build[b].payload[d])' = Superseded(d, v)'
        BY <4>4 DEF Superseded
      <4>. QED
        BY <3>2, <4>2, <4>3, <4>4, <4>5
    <3>6. build'[b] \in Build /\ build'[b].dur <= MaxBuild
      BY <3>1, <3>3, <3>4
    <3>7. /\ build'[b].teacher # NULL => build'[b].payload[build'[b].teacher] # NULL
          /\ build'[b].teacher # NULL
      BY <2>0, <2>2, <3>1, <3>3 DEF BuildOK
    <3>. QED
      BY <1>1, <3>5, <3>6, <3>7 DEF BuildOK
  <2>. QED
    BY <2>1, <2>2
<1>7. build' \in [Builders -> Build]
  <2>1. \A b \in Builders : build'[b] \in Build
    BY <1>6
  <2>2. build' = [b \in Builders |-> build'[b]]
    BY DEF Tick
  <2>. QED
    BY <2>1, <2>2
<1>8. \A a \in Writers : WriteOK(write[a])'
  <2>1. \A a \in Writers : WriteOK(write'[a])
    BY <1>1 DEF IInv
  <2>. QED
    BY <2>1 DEF WriteOK
<1>. QED
  BY <1>1, <1>4, <1>5, <1>6, <1>7, <1>8, TickAges DEF IInv

-----------------------------------------------------------------------------
(* The theorems *)

\* Every step keeps the inductive invariant.
LEMMA StepIInv == IInv /\ [Next]_vars => IInv'
<1>. SUFFICES ASSUME IInv, [Next]_vars
              PROVE  IInv'
  OBVIOUS
<1>1. ASSUME NEW d \in Tables, CommitUnannounced(d)
      PROVE  IInv'
  BY <1>1, SupersedeKeeps DEF CommitUnannounced, Data, IInv
<1>2. CASE UNCHANGED vars
  BY <1>2, QuietStep DEF vars, IInv
<1>. QED
  BY <1>1, <1>2, SyncStepKeeps, WriteStepKeeps, InvalidateOwnKeeps, RedisKeeps, TickKeeps DEF Next

\* The inductive invariant of the cache, and with it its type invariant and the bound
\* on staleness, hold in every reachable state.
THEOREM Invariance == Spec => []IInv
  BY InitIInv, StepIInv, PTL DEF Spec

\* Types; and a payload that is served shows all its sources, in versions that existed.
THEOREM TypeCorrect == Spec => []TypeOK
<1>1. IInv => TypeOK
  BY DEF IInv, AgeOK, TypeOK, EntryOK, Cached, Complete
<1>. QED
  BY <1>1, Invariance, PTL

\* Nothing served was superseded more than TTL plus the time of a build ago.
THEOREM Staleness == Spec => []BoundedStaleness
<1>1. IInv => BoundedStaleness
  BY DEF IInv, BoundedStaleness, EntryOK, BuildOK, Cached
<1>. QED
  BY <1>1, Invariance, PTL

-----------------------------------------------------------------------------
(* Announced changes reach the next sync, if nothing disturbs *)

\* The request of a has committed a change that it will still make u's key show.
WillDelete(a, d, u) ==
  /\ write[a].committed /\ write[a].data = d
  /\ write[a].step = "invalidate" \/ (write[a].step = "delete" /\ u \in write[a].keys)

Covered(u, d) ==
  cache[u].payload[d] \in {NULL, version[d]} \/ \E a \in Writers : WillDelete(a, d, u)

\* While nothing disturbs: builds show what is current; a key that is behind is about to
\* be deleted; and a request that invalidates first has left no key it could make stale.
Announced ==
  /\ \A b \in Builders : \A d \in Data \ Unannounced :
       build[b].payload[d] \in {NULL, version[d]}
  /\ \A u \in Teachers : Cached(u) => \A d \in Sources(u) \ Unannounced : Covered(u, d)
  /\ \A a \in Writers : write[a].step = "commit" /\ write[a].data \notin CommitFirst =>
       \A u \in Teachers : write[a].data \in Sources(u) => ~Cached(u)
  /\ \A a \in Writers : write[a].step = "delete" /\ ~write[a].committed
                        /\ write[a].data \notin CommitFirst =>
       \A u \in Teachers : write[a].data \in Sources(u) /\ Cached(u) => u \in write[a].keys
  /\ \A a \in Writers : write[a].committed => write[a].step \in {"invalidate", "delete"}

\* The strengthening for undisturbed behaviours holds at the start.
LEMMA InitAnnounced == Init => Announced
<1>1. Init => /\ \A b \in Builders : build[b] = NoBuild
              /\ \A u \in Teachers : ~Cached(u)
              /\ \A a \in Writers : write[a] = NoWrite
  BY NoEntryOK DEF Init, Cached
<1>2. NoWrite.step = "idle" /\ NoWrite.committed = FALSE
  BY DEF NoWrite
<1>. QED
  BY <1>1, <1>2, NoBuildType DEF Announced

\* A request that is past its beginning is pending.
LEMMA PendingSteps ==
  ASSUME IInv, NEW a \in Writers, write[a].step \in {"invalidate", "delete", "commit"}
  PROVE  Pending(a)
<1>1. NULL \notin Data
  BY SyncAssumption DEF Data, Tables
<1>. QED
  BY <1>1 DEF IInv, WriteOK, Pending

\* Without a change under way only the keys and builds matter.
LEMMA SyncAnnounced ==
  ASSUME IInv, Announced, Undisturbed, Undisturbed', NEW b \in Builders, SyncStep(b)
  PROVE  Announced'
<1>0. /\ cache \in [Teachers -> Entry] /\ build \in [Builders -> Build]
      /\ write' = write /\ version' = version
  BY DEF IInv, SyncStep, ServeCached, StartBuild, ReadTable, FinishBuild
<1>1. ASSUME NEW u \in Teachers, ServeCached(b, u)
      PROVE  Announced'
  <2>1. cache' = cache /\ build' = build
    BY <1>0, <1>1 DEF ServeCached, Hit
  <2>. QED
    BY <1>0, <2>1 DEF Announced, Covered, WillDelete, Cached
<1>2. ASSUME NEW u \in Teachers, StartBuild(b, u)
      PROVE  Announced'
  <2>. DEFINE r == [NoBuild EXCEPT !.teacher = u, !.redis = redisUp, !.payload[u] = version[u]]
  <2>1. \A d \in Data : r.payload[d] \in {NULL, version[d]}
    BY DEF NoBuild
  <2>2. build' = [build EXCEPT ![b] = r] /\ cache' = cache
    BY <1>2 DEF StartBuild
  <2>. HIDE DEF r
  <2>3. \A x \in Builders : build'[x] = IF x = b THEN r ELSE build[x]
    BY <1>0, <2>2
  <2>4. \A x \in Builders : \A d \in Data \ Unannounced : build'[x].payload[d] \in {NULL, version[d]}
    BY <2>1, <2>3 DEF Announced
  <2>. QED
    BY <1>0, <2>2, <2>4 DEF Announced, Covered, WillDelete, Cached
<1>3. CASE ReadTable(b)
  <2>1. PICK d \in Tables : build' = [build EXCEPT ![b].payload[d] = version[d]]
    BY <1>3 DEF ReadTable, Unread
  <2>. DEFINE r == [build[b] EXCEPT !.payload[d] = version[d]]
  <2>2. \A x \in Data : r.payload[x] = IF x = d THEN version[d] ELSE build[b].payload[x]
    BY <1>0 DEF Build, Payload
  <2>3. build' = [build EXCEPT ![b] = r]
    BY <1>0, <2>1
  <2>. HIDE DEF r
  <2>4. \A x \in Builders : build'[x] = IF x = b THEN r ELSE build[x]
    BY <1>0, <2>3
  <2>5. \A x \in Builders : \A y \in Data \ Unannounced : build'[x].payload[y] \in {NULL, version[y]}
    BY <2>2, <2>4 DEF Announced
  <2>6. cache' = cache
    BY <1>3 DEF ReadTable
  <2>. QED
    BY <1>0, <2>5, <2>6 DEF Announced, Covered, WillDelete, Cached
<1>4. CASE FinishBuild(b)
  <2>1. \A a \in Writers : write[a].step \notin {"invalidate", "delete", "commit"}
    BY <1>4, PendingSteps DEF Undisturbed, FinishBuild, Built
  <2>2. \A x \in Builders : build'[x] \in {build[x], NoBuild}
    BY <1>0, <1>4 DEF FinishBuild
  <2>3. \A x \in Builders : \A d \in Data \ Unannounced : build'[x].payload[d] \in {NULL, version[d]}
    BY <2>2, NoBuildType DEF Announced
  <2>. DEFINE e == Stored(build[b].payload)
  <2>4. e.payload = build[b].payload
    BY DEF Stored
  <2>5. \A u \in Teachers : cache'[u] \in {cache[u], e}
    BY <1>0, <1>4 DEF FinishBuild
  <2>. HIDE DEF e
  <2>6. \A d \in Data \ Unannounced : e.payload[d] \in {NULL, version[d]}
    BY <2>4 DEF Announced
  <2>7. \A u \in Teachers : Cached(u) => \A d \in Sources(u) \ Unannounced :
          cache[u].payload[d] \in {NULL, version[d]}
    BY <2>1 DEF Announced, Covered, WillDelete
  <2>8. \A u \in Teachers : cache'[u].left > 0 => \A d \in Sources(u) \ Unannounced :
          cache'[u].payload[d] \in {NULL, version[d]}
    <3>1. \A u \in Teachers : \A d \in Sources(u) : d \in Data
      BY DEF Sources, Data
    <3>. QED
      BY <2>5, <2>6, <2>7, <3>1 DEF Cached
  <2>. QED
    BY <1>0, <2>1, <2>3, <2>8 DEF Announced, Covered, Cached
<1>. QED
  BY <1>1, <1>2, <1>3, <1>4 DEF SyncStep

\* Keys disappear, or grow older, and nothing else changes.
LEMMA ShrinkAnnounced ==
  ASSUME Announced, version' = version, write' = write,
         \A b \in Builders : build'[b].payload = build[b].payload,
         \A u \in Teachers : cache'[u].left > 0 =>
           Cached(u) /\ cache'[u].payload = cache[u].payload
  PROVE  Announced'
<1>1. \A b \in Builders : \A d \in Data \ Unannounced :
        build'[b].payload[d] \in {NULL, version'[d]}
  BY DEF Announced
<1>2. \A u \in Teachers : cache'[u].left > 0 => \A d \in Sources(u) \ Unannounced :
        \/ cache'[u].payload[d] \in {NULL, version[d]}
        \/ \E a \in Writers : WillDelete(a, d, u)
  BY DEF Announced, Covered
<1>. QED
  BY <1>1, <1>2 DEF Announced, Covered, WillDelete, Cached

\* The request r that a turns to, with the same versions and no key added.
LEMMA TurnAnnounced ==
  ASSUME IInv, Announced, NEW a \in Writers, NEW r,
         write' = [write EXCEPT ![a] = r], version' = version, build' = build,
         \A u \in Teachers : cache'[u].left > 0 => Cached(u) /\ cache'[u] = cache[u],
         \A u \in Teachers, d \in Data : cache'[u].left > 0 /\ WillDelete(a, d, u) =>
           /\ r.committed /\ r.data = d
           /\ r.step = "invalidate" \/ (r.step = "delete" /\ u \in r.keys),
         r.step = "commit" /\ r.data \notin CommitFirst =>
           \A u \in Teachers : r.data \in Sources(u) => ~(cache'[u].left > 0),
         r.step = "delete" /\ ~r.committed /\ r.data \notin CommitFirst =>
           \A u \in Teachers : r.data \in Sources(u) /\ cache'[u].left > 0 => u \in r.keys,
         r.committed => r.step \in {"invalidate", "delete"}
  PROVE  Announced'
<1>1. \A x \in Writers : write'[x] = IF x = a THEN r ELSE write[x]
  BY DEF IInv
<1>2. \A u \in Teachers : \A d \in Sources(u) : d \in Data
  BY DEF Sources, Data
<1>3. \A u \in Teachers : cache'[u].left > 0 => \A d \in Sources(u) \ Unannounced : Covered(u, d)'
  <2>. SUFFICES ASSUME NEW u \in Teachers, cache'[u].left > 0, NEW d \in Sources(u) \ Unannounced
                PROVE  Covered(u, d)'
    OBVIOUS
  <2>1. CASE cache[u].payload[d] \in {NULL, version[d]}
    BY <2>1 DEF Covered
  <2>2. ASSUME NEW x \in Writers, WillDelete(x, d, u)
        PROVE  Covered(u, d)'
    <3>1. CASE x = a
      BY <1>1, <1>2, <2>2, <3>1 DEF Covered, WillDelete
    <3>2. CASE x # a
      BY <1>1, <2>2, <3>2 DEF Covered, WillDelete
    <3>. QED
      BY <3>1, <3>2
  <2>. QED
    BY <2>1, <2>2 DEF Announced, Covered
<1>4. \A x \in Writers : write'[x].step = "commit" /\ write'[x].data \notin CommitFirst =>
        \A u \in Teachers : write'[x].data \in Sources(u) => ~(cache'[u].left > 0)
  BY <1>1 DEF Announced
<1>5. \A x \in Writers : write'[x].step = "delete" /\ ~write'[x].committed
                         /\ write'[x].data \notin CommitFirst =>
        \A u \in Teachers : write'[x].data \in Sources(u) /\ cache'[u].left > 0
                            => u \in write'[x].keys
  BY <1>1 DEF Announced
<1>6. \A x \in Writers : write'[x].committed => write'[x].step \in {"invalidate", "delete"}
  BY <1>1 DEF Announced
<1>7. \A b \in Builders : \A d \in Data \ Unannounced :
        build'[b].payload[d] \in {NULL, version'[d]}
  BY DEF Announced
<1>. QED
  BY <1>3, <1>4, <1>5, <1>6, <1>7 DEF Announced, Cached

\* An undisturbed COMMIT keeps it.
LEMMA CommitAnnounced ==
  ASSUME IInv, Announced, Undisturbed, NEW a \in Writers, Commit(a)
  PROVE  Announced'
<1>. DEFINE d == write[a].data
            r == IF d \in CommitFirst
                 THEN [write[a] EXCEPT !.step = "invalidate", !.committed = TRUE]
                 ELSE NoWrite
<1>0. /\ write \in [Writers -> Write] /\ write[a].step = "commit" /\ ~write[a].committed
      /\ version \in [Data -> 0..MaxChanges]
      /\ cache' = cache /\ build' = build
  BY DEF IInv, AgeOK, Commit, Announced
<1>1. \A b \in Builders : build[b] = NoBuild
  BY <1>0, PendingSteps DEF Undisturbed, IInv, BuildOK
<1>2. /\ d \in CommitFirst => r.committed /\ r.step = "invalidate" /\ r.data = d
      /\ d \notin CommitFirst => ~r.committed /\ r.step = "idle"
  <2>1. CASE d \in CommitFirst
    <3>1. r = [write[a] EXCEPT !.step = "invalidate", !.committed = TRUE]
      BY <2>1
    <3>2. write[a] \in Write
      BY <1>0
    <3>. HIDE DEF r
    <3>. QED
      BY <2>1, <3>1, <3>2 DEF Write
  <2>2. CASE d \notin CommitFirst
    BY <2>2 DEF NoWrite
  <2>. QED
    BY <2>1, <2>2
<1>3. \A x \in Data : version'[x] = IF x = d THEN version[x] + 1 ELSE version[x]
  BY <1>0 DEF Commit, Supersede
<1>4. \A x \in Writers : write'[x] = IF x = a THEN r ELSE write[x]
  BY <1>0 DEF Commit
<1>5. d \notin CommitFirst => \A u \in Teachers : d \in Sources(u) => ~Cached(u)
  BY <1>0 DEF Announced
<1>. HIDE DEF d, r
<1>6. \A u \in Teachers : Cached(u) => \A x \in Sources(u) \ Unannounced : Covered(u, x)'
  <2>. SUFFICES ASSUME NEW u \in Teachers, Cached(u), NEW x \in Sources(u) \ Unannounced
                PROVE  Covered(u, x)'
    OBVIOUS
  <2>1. x \in Data
    BY DEF Sources, Data
  <2>2. CASE x = d
    <3>1. d \in CommitFirst
      BY <1>5, <2>2
    <3>2. WillDelete(a, x, u)'
      BY <1>2, <1>4, <2>2, <3>1 DEF WillDelete
    <3>. QED
      BY <3>2 DEF Covered
  <2>3. CASE x # d
    <3>1. version'[x] = version[x]
      BY <1>3, <2>1, <2>3
    <3>2. ASSUME NEW y \in Writers, WillDelete(y, x, u)
          PROVE  WillDelete(y, x, u)'
      BY <1>0, <1>4, <3>2 DEF WillDelete
    <3>. QED
      BY <1>0, <3>1, <3>2 DEF Announced, Covered
  <2>. QED
    BY <2>2, <2>3
<1>7. \A b \in Builders : \A x \in Data \ Unannounced : build'[b].payload[x] \in {NULL, version'[x]}
  BY <1>0, <1>1, NoBuildType
<1>. QED
  BY <1>0, <1>2, <1>4, <1>6, <1>7 DEF Announced, Cached

\* Every undisturbed step of a write request keeps it.
LEMMA WriteAnnounced ==
  ASSUME IInv, Announced, Undisturbed, Undisturbed', NEW a \in Writers, WriteStep(a)
  PROVE  Announced'
<1>0. /\ write \in [Writers -> Write] /\ WriteOK(write[a]) /\ redisUp
      /\ write[a].step # "dead"
      /\ NoWrite.committed = FALSE /\ NoWrite.step = "idle"
  BY DEF IInv, Undisturbed, NoWrite
<1>1. ASSUME NEW d \in Tables, BeginCommitFirst(a, d) \/ BeginInvalidateFirst(a, d)
      PROVE  Announced'
  <2>1. PICK step \in {"commit", "invalidate"} :
          BeginWrite(a, d, step) /\ (step = "commit" => d \in CommitFirst)
    BY <1>1 DEF BeginCommitFirst, BeginInvalidateFirst
  <2>. DEFINE r == [NoWrite EXCEPT !.data = d, !.step = step]
  <2>2. r.committed = FALSE /\ r.step = step /\ r.data = d
    BY DEF NoWrite
  <2>3. /\ write' = [write EXCEPT ![a] = r] /\ version' = version /\ build' = build
        /\ cache' = cache /\ write[a] = NoWrite
    BY <2>1 DEF BeginWrite
  <2>4. \A u \in Teachers, x \in Data : ~WillDelete(a, x, u)
    BY <1>0, <2>3 DEF WillDelete
  <2>. HIDE DEF r
  <2>. QED
    BY <2>1, <2>2, <2>3, <2>4, TurnAnnounced DEF Cached
<1>2. ASSUME NEW u \in Teachers, BeginUpdateUser(a, u)
      PROVE  Announced'
  <2>. DEFINE r == [NoWrite EXCEPT !.data = u, !.step = "delete", !.keys = {u}]
  <2>2. r.committed = FALSE /\ r.step = "delete" /\ r.data = u /\ r.keys = {u}
    BY DEF NoWrite
  <2>3. /\ write' = [write EXCEPT ![a] = r] /\ version' = version /\ build' = build
        /\ cache' = cache /\ write[a] = NoWrite
    BY <1>2 DEF BeginUpdateUser
  <2>4. \A x \in Teachers, d \in Data : ~WillDelete(a, d, x)
    BY <1>0, <2>3 DEF WillDelete
  <2>5. \A x \in Teachers : u \in Sources(x) => x = u
    BY SyncAssumption DEF Sources, Tables
  <2>. HIDE DEF r
  <2>. QED
    BY <2>2, <2>3, <2>4, <2>5, TurnAnnounced DEF Cached
<1>3. CASE ListKeys(a)
  <2>. DEFINE r == IF Keys = {} THEN Invalidated(write[a])
                   ELSE [write[a] EXCEPT !.step = "delete", !.keys = Keys]
  <2>1. /\ write' = [write EXCEPT ![a] = r] /\ version' = version /\ build' = build
        /\ cache' = cache
    BY <1>3 DEF ListKeys
  <2>2. CASE Keys = {}
    <3>1. \A u \in Teachers : ~Cached(u)
      BY <2>2 DEF Keys
    <3>2. r = Invalidated(write[a])
      BY <2>2
    <3>3. ~r.committed /\ r.step # "delete"
      BY <1>0, <3>2 DEF Invalidated, Write
    <3>. HIDE DEF r
    <3>. QED
      BY <2>1, <3>1, <3>3, TurnAnnounced DEF Cached
  <2>3. CASE Keys # {}
    <3>1. /\ r.step = "delete" /\ r.keys = Keys
          /\ r.data = write[a].data /\ r.committed = write[a].committed
      BY <1>0, <2>3 DEF Write
    <3>2. \A u \in Teachers : Cached(u) => u \in Keys
      BY DEF Keys
    <3>. HIDE DEF r
    <3>3. \A u \in Teachers, d \in Data : cache'[u].left > 0 /\ WillDelete(a, d, u) =>
            /\ r.committed /\ r.data = d /\ r.step = "delete" /\ u \in r.keys
      BY <2>1, <3>1, <3>2 DEF WillDelete, Cached
    <3>. QED
      BY <2>1, <3>1, <3>2, <3>3, TurnAnnounced DEF Cached
  <2>. QED
    BY <2>2, <2>3
<1>4. CASE DeleteKeys(a)
  <2>. DEFINE r == Invalidated(write[a])
  <2>1. /\ write' = [write EXCEPT ![a] = r] /\ version' = version /\ build' = build
        /\ write[a].step = "delete"
    BY <1>4 DEF DeleteKeys
  <2>2. \A u \in Teachers : cache'[u].left > 0 =>
          u \notin write[a].keys /\ Cached(u) /\ cache'[u] = cache[u]
    BY <1>4, NoEntryOK DEF DeleteKeys, Cached
  <2>3. \A u \in Teachers, d \in Data : cache'[u].left > 0 => ~WillDelete(a, d, u)
    BY <2>1, <2>2 DEF WillDelete
  <2>4. /\ ~r.committed /\ r.step # "delete"
        /\ r.step = "commit" => r.data = write[a].data /\ ~write[a].committed
    BY <1>0 DEF Invalidated, Write
  <2>. HIDE DEF r
  <2>5. r.step = "commit" /\ r.data \notin CommitFirst =>
          \A u \in Teachers : r.data \in Sources(u) => ~(cache'[u].left > 0)
    BY <2>1, <2>2, <2>4 DEF Announced
  <2>. QED
    BY <2>1, <2>2, <2>3, <2>4, <2>5, TurnAnnounced
<1>5. ~SwallowRedisError(a) /\ ~Replace(a)
  BY <1>0 DEF SwallowRedisError, Replace
<1>6. CASE Rollback(a)
  <2>1. \A u \in Teachers, d \in Data : ~WillDelete(a, d, u)
    BY <1>6 DEF Rollback, WillDelete
  <2>. QED
    BY <1>0, <1>6, <2>1, TurnAnnounced DEF Rollback, Cached
<1>7. ~Die(a)
  <2>1. SUFFICES ASSUME Die(a) PROVE FALSE
    OBVIOUS
  <2>. DEFINE r == [NoWrite EXCEPT !.step = "dead"]
  <2>2. r.step = "dead"
    BY DEF NoWrite
  <2>3. write' = [write EXCEPT ![a] = r]
    BY <2>1 DEF Die
  <2>. HIDE DEF r
  <2>4. write'[a].step = "dead"
    BY <1>0, <2>2, <2>3
  <2>. QED
    BY <2>4 DEF Undisturbed
<1>. QED
  BY <1>1, <1>2, <1>3, <1>4, <1>5, <1>6, <1>7, CommitAnnounced DEF WriteStep

\* Every undisturbed step keeps it.
LEMMA StepAnnounced ==
  IInv /\ Announced /\ Undisturbed /\ Undisturbed' /\ [Next]_vars => Announced'
<1>. SUFFICES ASSUME IInv, Announced, Undisturbed, Undisturbed', [Next]_vars
              PROVE  Announced'
  OBVIOUS
<1>1. ASSUME NEW u \in Teachers, InvalidateOwn(u)
      PROVE  Announced'
  <2>1. \A x \in Teachers : cache'[x] \in {cache[x], NoEntry}
    BY <1>1 DEF InvalidateOwn, IInv
  <2>. QED
    BY <1>1, <2>1, NoEntryOK, ShrinkAnnounced DEF InvalidateOwn, Cached
<1>2. ASSUME NEW d \in Tables, CommitUnannounced(d)
      PROVE  Announced'
  <2>1. \A x \in Data \ Unannounced : version'[x] = version[x]
    BY <1>2 DEF CommitUnannounced, Supersede, IInv, AgeOK
  <2>2. build' = build /\ cache' = cache /\ write' = write
    BY <1>2 DEF CommitUnannounced
  <2>3. \A u \in Teachers : \A x \in Sources(u) : x \in Data
    BY DEF Sources, Data
  <2>4. \A b \in Builders : \A x \in Data \ Unannounced : build'[b].payload[x] \in {NULL, version'[x]}
    BY <2>1, <2>2 DEF Announced
  <2>5. \A u \in Teachers : Cached(u) => \A x \in Sources(u) \ Unannounced : Covered(u, x)'
    BY <2>1, <2>2, <2>3 DEF Announced, Covered, WillDelete
  <2>. QED
    BY <2>2, <2>4, <2>5 DEF Announced, Cached
<1>3. ~RedisFails /\ ~RedisReturns
  BY DEF RedisFails, RedisReturns, Undisturbed
<1>4. CASE Tick
  <2>1. \A b \in Builders : build'[b].payload = build[b].payload
    BY <1>4 DEF Tick
  <2>2. \A u \in Teachers : cache'[u].left > 0 => Cached(u) /\ cache'[u].payload = cache[u].payload
    <3>1. ASSUME NEW e \in Entry, Elapse(e).left > 0
          PROVE  e.left > 0 /\ Elapse(e).payload = e.payload
      BY <3>1, NoEntryOK DEF Elapse, Entry
    <3>2. \A u \in Teachers : cache'[u] = Elapse(cache[u]) /\ cache[u] \in Entry
      BY <1>4 DEF Tick, IInv
    <3>. QED
      BY <3>1, <3>2 DEF Cached
  <2>. QED
    BY <1>4, <2>1, <2>2, ShrinkAnnounced DEF Tick
<1>5. CASE UNCHANGED vars
  BY <1>5, ShrinkAnnounced DEF vars, Cached
<1>. QED
  BY <1>1, <1>2, <1>3, <1>4, <1>5, SyncAnnounced, WriteAnnounced DEF Next

\* With Redis up, no death after a COMMIT and no build during a change, an announced
\* change is in every payload served once its request is over.
THEOREM AnnouncedFresh == Spec => FreshIfUndisturbed
<1>. DEFINE Fresh == \A u \in Teachers :
       Cached(u) /\ (\A a \in Writers : ~Pending(a)) => Current(u, cache[u].payload)
<1>1. IInv /\ Announced => Fresh
  <2>1. ASSUME IInv, NEW a \in Writers, ~Pending(a), NEW d, NEW u
        PROVE  ~WillDelete(a, d, u)
    BY <2>1, PendingSteps DEF WillDelete
  <2>. QED
    BY <2>1 DEF Announced, Covered, Current
<1>. HIDE DEF Fresh
<1>2. Spec => ([]Undisturbed => []Fresh)
  BY <1>1, InitAnnounced, StepAnnounced, Invariance, PTL DEF Spec
<1>. QED
  BY <1>2 DEF FreshIfUndisturbed, Fresh
=============================================================================
