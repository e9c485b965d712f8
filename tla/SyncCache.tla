----------------------------- MODULE SyncCache -----------------------------
(***************************************************************************)
(* The Redis cache of GET /app/sync (app/api/routes/app/sync.py) and the   *)
(* administrators' requests that change what the payload is built from.    *)
(*                                                                         *)
(* A sync request answers with the cached payload, or builds one with a    *)
(* series of SELECTs, each of which sees what is committed at that moment, *)
(* and stores it for TTL. Writers follow one of three disciplines:         *)
(*   commit, then invalidate      planning, remplacements, remplacants     *)
(*   invalidate, then commit      rapport_questions, rapport_difficultes,  *)
(*                                rapport_libelles, update_user            *)
(*   commit only                  eleves, sessions, schools, teachers,     *)
(*                                progression_configs, import_export, and  *)
(*                                update_user when it sets something else  *)
(*                                than school, classes or level            *)
(* Redis is best effort: while it is down, reads fall back on the database *)
(* and invalidations are logged and forgotten. A table's contents are      *)
(* abstracted to a count of the changes committed to it.                   *)
(***************************************************************************)
EXTENDS Integers, FiniteSetsExt

CONSTANTS
  Teachers,         \* each with an account that only this teacher's payload shows
  CommitFirst,      \* tables written by the first discipline
  InvalidateFirst,  \* tables written by the second
  Unannounced,      \* tables written by the third
  Builders,         \* sync requests served at the same time
  Writers,          \* administrators' requests served at the same time
  NULL,
  TTL,              \* SYNC_CACHE_TTL_SECONDS, in units of the model's clock
  MaxBuild,         \* bound: how long the building of a payload may last
  MaxChanges        \* bound: the changes committed altogether

ASSUME SyncAssumption ==
  /\ TTL \in Nat \ {0} /\ MaxBuild \in Nat /\ MaxChanges \in Nat
  /\ NULL \notin Int \cup Teachers \cup CommitFirst \cup InvalidateFirst \cup Unannounced
  /\ Teachers \cap (CommitFirst \cup InvalidateFirst \cup Unannounced) = {}

VARIABLES
  version,  \* version[d]: changes committed to d
  age,      \* age[d][v]: time since version v of d was superseded, while it is shown
  cache,    \* cache[u]: the key sync:{u} of Redis
  redisUp,
  build,    \* build[b]: the sync request b is serving
  write     \* write[a]: the administrator's request a is serving

vars == <<version, age, cache, redisUp, build, write>>

-----------------------------------------------------------------------------

Tables == CommitFirst \cup InvalidateFirst \cup Unannounced

\* A teacher names the school, classes and level that update_user may set on this
\* account; what others write on accounts is among the Unannounced.
Data == Tables \cup Teachers

\* What the payload of teacher u is built from: the tables and u's account row.
Sources(u) == Tables \cup {u}

\* For each of its sources, the version the payload shows; NULL while not read.
Payload == [Data -> Nat \cup {NULL}]

Entry == [payload : Payload, left : Nat]
NoEntry == [payload |-> [d \in Data |-> NULL], left |-> 0]
Cached(u) == cache[u].left > 0

Build == [teacher : Teachers \cup {NULL}, payload : Payload, dur : Nat, redis : BOOLEAN]
NoBuild == [teacher |-> NULL, payload |-> [d \in Data |-> NULL], dur |-> 0, redis |-> FALSE]

Steps == {"idle", "invalidate", "delete", "commit", "dead"}
Write == [data : Data \cup {NULL}, step : Steps, committed : BOOLEAN, keys : SUBSET Teachers]
NoWrite == [data |-> NULL, step |-> "idle", committed |-> FALSE, keys |-> {}]

Init ==
  /\ version = [d \in Data |-> 0]
  /\ age = [d \in Data |-> [v \in 0..MaxChanges |-> 0]]
  /\ cache = [u \in Teachers |-> NoEntry]
  /\ redisUp = TRUE
  /\ build = [b \in Builders |-> NoBuild]
  /\ write = [a \in Writers |-> NoWrite]

-----------------------------------------------------------------------------
(* GET /app/sync *)

\* Faulty variant: a read that extends the life of the key.
Touched(entry) == [entry EXCEPT !.left = TTL]

\* What redis.get leaves in the cache.
Hit(entry) == entry

ServeCached(b, u) ==
  /\ build[b] = NoBuild
  /\ redisUp /\ Cached(u)
  /\ cache' = [cache EXCEPT ![u] = Hit(@)]
  /\ UNCHANGED <<version, age, redisUp, build, write>>

\* A miss, or Redis cannot be reached: then nothing will be stored at the end. The
\* account row was loaded by the authentication.
StartBuild(b, u) ==
  /\ build[b] = NoBuild
  /\ redisUp => ~Cached(u)
  /\ build' = [build EXCEPT ![b] =
                 [NoBuild EXCEPT !.teacher = u, !.redis = redisUp, !.payload[u] = version[u]]]
  /\ UNCHANGED <<version, age, cache, redisUp, write>>

Unread(b) == {d \in Tables : build[b].payload[d] = NULL}

\* The next SELECT of build_sync_payload: their order is fixed, which it is does not
\* matter.
ReadTable(b) ==
  /\ build[b].teacher # NULL /\ Unread(b) # {}
  /\ LET d == CHOOSE d \in Unread(b) : TRUE
     IN  build' = [build EXCEPT ![b].payload[d] = version[d]]
  /\ UNCHANGED <<version, age, cache, redisUp, write>>

\* Faulty variant: the answer is sent before the last SELECTs.
Started(b) == build[b].teacher # NULL

Built(b) ==
  /\ build[b].teacher # NULL
  /\ Unread(b) = {}

\* Faulty variant: seconds mistaken for another unit.
StoredTwiceAsLong(payload) == [payload |-> payload, left |-> 2 * TTL]

Stored(payload) == [payload |-> payload, left |-> TTL]

\* The payload is stored, best effort, and sent.
FinishBuild(b) ==
  /\ Built(b)
  /\ cache' = IF build[b].redis /\ redisUp
              THEN [cache EXCEPT ![build[b].teacher] = Stored(build[b].payload)]
              ELSE cache
  /\ build' = [build EXCEPT ![b] = NoBuild]
  /\ UNCHANGED <<version, age, redisUp, write>>

\* POST /app/sync/invalidate
InvalidateOwn(u) ==
  /\ redisUp
  /\ cache' = [cache EXCEPT ![u] = NoEntry]
  /\ UNCHANGED <<version, age, redisUp, build, write>>

-----------------------------------------------------------------------------
(* Changes of the data *)

\* The bound MaxChanges (its first conjunct follows from the second).
MayChange(d) ==
  /\ version[d] < MaxChanges
  /\ MapThenSumSet(LAMBDA x : version[x], Data) < MaxChanges

\* The COMMIT of a change to d.
Supersede(d) ==
  /\ MayChange(d)
  /\ version' = [version EXCEPT ![d] = @ + 1]

BeginWrite(a, d, step) ==
  /\ write[a] = NoWrite
  /\ MayChange(d)
  /\ write' = [write EXCEPT ![a] = [NoWrite EXCEPT !.data = d, !.step = step]]
  /\ UNCHANGED <<version, age, cache, redisUp, build>>

BeginCommitFirst(a, d) == d \in CommitFirst /\ BeginWrite(a, d, "commit")

\* Questions, difficulties, labels: flushed, so not yet visible, when Redis is called.
BeginInvalidateFirst(a, d) == d \in InvalidateFirst /\ BeginWrite(a, d, "invalidate")

\* The account row: update_user deletes this teacher's key, without listing.
BeginUpdateUser(a, u) ==
  /\ write[a] = NoWrite
  /\ MayChange(u)
  /\ write' = [write EXCEPT ![a] = [NoWrite EXCEPT !.data = u, !.step = "delete", !.keys = {u}]]
  /\ UNCHANGED <<version, age, cache, redisUp, build>>

\* The writers that forget the cache.
CommitUnannounced(d) ==
  /\ d \in Unannounced
  /\ Supersede(d)
  /\ UNCHANGED <<age, cache, redisUp, build, write>>

\* Once the cache is dealt with: over, or on to the COMMIT.
Invalidated(r) == IF r.committed THEN NoWrite ELSE [r EXCEPT !.step = "commit"]

\* Faulty variant: a pattern that matches no key.
NoKeys == {}

\* redis.keys("sync:*")
Keys == {u \in Teachers : Cached(u)}

ListKeys(a) ==
  /\ write[a].step = "invalidate"
  /\ redisUp
  /\ write' = [write EXCEPT ![a] = IF Keys = {} THEN Invalidated(@)
                                   ELSE [@ EXCEPT !.step = "delete", !.keys = Keys]]
  /\ UNCHANGED <<version, age, cache, redisUp, build>>

DeleteKeys(a) ==
  /\ write[a].step = "delete"
  /\ redisUp
  /\ cache' = [u \in Teachers |-> IF u \in write[a].keys THEN NoEntry ELSE cache[u]]
  /\ write' = [write EXCEPT ![a] = Invalidated(@)]
  /\ UNCHANGED <<version, age, redisUp, build>>

\* The exception of a Redis call is logged and swallowed.
SwallowRedisError(a) ==
  /\ write[a].step \in {"invalidate", "delete"}
  /\ ~redisUp
  /\ write' = [write EXCEPT ![a] = Invalidated(@)]
  /\ UNCHANGED <<version, age, cache, redisUp, build>>

\* CommitFirst goes on to the cache; for the others it was the last thing to do.
Commit(a) ==
  /\ write[a].step = "commit"
  /\ Supersede(write[a].data)
  /\ write' = [write EXCEPT ![a] =
                 IF @.data \in CommitFirst THEN [@ EXCEPT !.step = "invalidate", !.committed = TRUE]
                 ELSE NoWrite]
  /\ UNCHANGED <<age, cache, redisUp, build>>

\* A handler that fails before its COMMIT is rolled back.
Rollback(a) ==
  /\ write[a].step \in {"invalidate", "delete", "commit"} /\ ~write[a].committed
  /\ write' = [write EXCEPT ![a] = NoWrite]
  /\ UNCHANGED <<version, age, cache, redisUp, build>>

\* The worker process dies between the COMMIT and the call of Redis, and is replaced.
Die(a) ==
  /\ write[a].committed
  /\ write' = [write EXCEPT ![a] = [NoWrite EXCEPT !.step = "dead"]]
  /\ UNCHANGED <<version, age, cache, redisUp, build>>

Replace(a) ==
  /\ write[a].step = "dead"
  /\ write' = [write EXCEPT ![a] = NoWrite]
  /\ UNCHANGED <<version, age, cache, redisUp, build>>

-----------------------------------------------------------------------------
(* Redis and the clock *)

RedisFails ==
  /\ redisUp
  /\ redisUp' = FALSE
  /\ UNCHANGED <<version, age, cache, build, write>>

\* Redis comes back with its keys, or without them.
RedisReturns ==
  /\ ~redisUp
  /\ redisUp' = TRUE
  /\ \/ UNCHANGED cache
     \/ cache' = [u \in Teachers |-> NoEntry]
  /\ UNCHANGED <<version, age, build, write>>

Elapse(entry) == IF entry.left <= 1 THEN NoEntry ELSE [entry EXCEPT !.left = @ - 1]

\* Some payload shows version v of d: only then does the age of v matter, and only
\* up to the bound of BoundedStaleness.
Shown(d, v) ==
  \/ \E u \in Teachers : cache[u].payload[d] = v
  \/ \E b \in Builders : build[b].payload[d] = v

Older(n) == IF n <= TTL + MaxBuild THEN n + 1 ELSE n

Tick ==
  /\ \A b \in Builders : build[b] # NoBuild => build[b].dur < MaxBuild
  /\ age' = [d \in Data |-> [v \in 0..MaxChanges |->
               IF v < version[d] /\ Shown(d, v) THEN Older(age[d][v]) ELSE 0]]
  /\ cache' = [u \in Teachers |-> Elapse(cache[u])]
  /\ build' = [b \in Builders |->
                 IF build[b] = NoBuild THEN NoBuild ELSE [build[b] EXCEPT !.dur = @ + 1]]
  /\ UNCHANGED <<version, redisUp, write>>

SyncStep(b) ==
  \/ \E u \in Teachers : ServeCached(b, u) \/ StartBuild(b, u)
  \/ ReadTable(b)
  \/ FinishBuild(b)

WriteStep(a) ==
  \/ \E d \in Tables : BeginCommitFirst(a, d) \/ BeginInvalidateFirst(a, d)
  \/ \E u \in Teachers : BeginUpdateUser(a, u)
  \/ ListKeys(a) \/ DeleteKeys(a) \/ SwallowRedisError(a) \/ Commit(a)
  \/ Rollback(a) \/ Die(a) \/ Replace(a)

Next ==
  \/ \E b \in Builders : SyncStep(b)
  \/ \E a \in Writers : WriteStep(a)
  \/ \E u \in Teachers : InvalidateOwn(u)
  \/ \E d \in Tables : CommitUnannounced(d)
  \/ RedisFails \/ RedisReturns \/ Tick

Spec == Init /\ [][Next]_vars

\* The clock runs (also the one that expires keys) and a payload under construction
\* is finished. Nothing is asked of Redis, of the writers or of the phones.
Fairness ==
  /\ WF_vars(Tick)
  /\ \A b \in Builders : WF_vars(ReadTable(b) \/ FinishBuild(b))

FairSpec == Spec /\ Fairness

-----------------------------------------------------------------------------
(* Correctness *)

\* A payload that may be served shows all its sources, in a version that existed.
Complete(u, payload) == \A d \in Sources(u) : payload[d] \in 0..version[d]

TypeOK ==
  /\ version \in [Data -> 0..MaxChanges]
  /\ age \in [Data -> [0..MaxChanges -> Nat]]
  /\ cache \in [Teachers -> Entry]
  /\ redisUp \in BOOLEAN
  /\ build \in [Builders -> Build]
  /\ write \in [Writers -> Write]
  /\ \A u \in Teachers : Cached(u) => Complete(u, cache[u].payload)

\* How long ago version v of d stopped being current.
Superseded(d, v) == IF v = NULL \/ v = version[d] THEN 0 ELSE age[d][v]

\* Whatever the writers forget, the races and the outages of Redis do, no phone is served
\* what was superseded more than TTL plus the time of a build ago: the promise "au plus
\* tard à l'expiration du TTL" of invalidate_sync_caches, made exact.
BoundedStaleness ==
  /\ \A u \in Teachers : Cached(u) =>
       \A d \in Sources(u) :
         Superseded(d, cache[u].payload[d]) + cache[u].left <= TTL + MaxBuild
  /\ \A b \in Builders : \A d \in Data :
       Superseded(d, build[b].payload[d]) <= build[b].dur

Current(u, payload) ==
  \A d \in Sources(u) \ Unannounced : payload[d] \in {NULL, version[d]}

Pending(a) == write[a].data # NULL

\* Redis answers, no worker died after a COMMIT, and no payload is being built while
\* a change is under way.
Undisturbed ==
  /\ redisUp
  /\ \A a \in Writers : write[a].step # "dead"
  /\ \A a \in Writers, b \in Builders : ~(Pending(a) /\ build[b].teacher # NULL)

\* Then, whatever cached reads and manual invalidations do, an announced change reaches
\* the next sync: when no change is under way no cached payload is behind. The call
\* of invalidate_sync_caches is what it takes, in either order.
FreshIfUndisturbed ==
  []Undisturbed =>
    [](\A u \in Teachers :
         Cached(u) /\ (\A a \in Writers : ~Pending(a)) => Current(u, cache[u].payload))

\* Once changes stop, every payload served in the end shows all of them, including
\* those nobody announced: a stale key cannot survive by being read (TTL of redis.set).
EventuallyFresh ==
  <>[](\A u \in Teachers : Cached(u) =>
         \A d \in Sources(u) : cache[u].payload[d] = version[d])
=============================================================================
