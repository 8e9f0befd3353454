----------------------------- MODULE Interactive -----------------------------
(***************************************************************************)
(* The counters of one resource (biz, bizId): reads, likes, collections.   *)
(* A write changes the tables in a transaction and then the hash in redis  *)
(* if there is one; Get reads the hash, or loads the row and writes it     *)
(* back (interactive/repository/interactive.go, dao/interactive.go,        *)
(* cache/interactive.go).                                                  *)
(*                                                                         *)
(* No action tests the history variables.                                  *)
(***************************************************************************)
EXTENDS Integers, FiniteSets

CONSTANTS Callers,    \* goroutines that serve requests or read events
          Users,      \* user ids
          MaxBatch,   \* bound: read events of this resource in one batch
          MaxWrites,  \* bound: writes of the counters
          Faults      \* "redis": its commands fail; "db": a row of a batch fails

ASSUME BoundAssumption == MaxBatch \in Nat /\ MaxWrites \in Nat

VARIABLES
  row,        \* read_cnt, like_cnt, collect_cnt of the row
  rowExists,  \* it has been inserted
  likeRow,    \* likeRow[u]: the UserLikeBiz row of u, "none", or its status
  collected,  \* users with a UserCollectionBiz row
  cached,     \* the key exists in redis
  cache,      \* the fields of the hash
  ttl,        \* the key has an expiry
  pc,         \* what each caller does next
  field,      \* the counter it has written, and has to write in redis
  delta,      \* by how much
  left,       \* rows of its batch still to be written
  snap,       \* the row it has loaded
  writes,     \* counts the writes, for the bound
  owed,       \* history: what has been written to the row and not to redis
  dirty,      \* history: dirty[p]: counters others were changing since p loaded the row
  stale,      \* history: counters whose value in redis is not to be trusted
  lasting,    \* history: an EXPIRE has failed, and the hash has no expiry
  repeated    \* history: a user has liked or collected twice, or cancelled nothing

db      == <<row, rowExists, likeRow, collected>>
redis   == <<cached, cache, ttl>>
threads == <<pc, field, delta, left, snap>>
history == <<owed, dirty, stale, lasting, repeated>>
vars    == <<db, redis, threads, writes, history>>

Fields == {"read", "like", "collect"}
Zero   == [f \in Fields |-> 0]

Init == /\ row = Zero /\ rowExists = FALSE
        /\ likeRow = [u \in Users |-> "none"] /\ collected = {}
        /\ cached = FALSE /\ cache = Zero /\ ttl = FALSE
        /\ pc    = [p \in Callers |-> "idle"]
        /\ field = [p \in Callers |-> "read"]
        /\ delta = [p \in Callers |-> 0]
        /\ left  = [p \in Callers |-> 0]
        /\ snap  = [p \in Callers |-> Zero]
        /\ writes = 0
        /\ owed = Zero /\ dirty = [p \in Callers |-> {}] /\ stale = {}
        /\ lasting = FALSE /\ repeated = FALSE

Goto(p, l) == pc' = [pc EXCEPT ![p] = l]

\* The request of p returns.
Returns(p) == /\ pc'    = [pc EXCEPT ![p] = "idle"]
              /\ field' = [field EXCEPT ![p] = "read"]

\* The outstanding changes of f grow by d: what a Get has loaded before and
\* writes back later need not go with them.
Owe(f, d) == /\ owed'  = [owed EXCEPT ![f] = @ + d]
             /\ dirty' = [p \in Callers |-> IF pc[p] = "set" THEN dirty[p] \cup {f} ELSE {}]

\* d changes of the counter of p will never reach redis.
Forgets(p, d) ==
  /\ Owe(field[p], -d)
  /\ delta' = [delta EXCEPT ![p] = @ - d]
  /\ stale' = IF cached /\ d # 0 THEN stale \cup {field[p]} ELSE stale

-----------------------------------------------------------------------------
\* The tables. Each write is one transaction.

\* INSERT ... ON DUPLICATE KEY UPDATE cnt = cnt + 1.
UpsertCnt(f) == /\ row' = [row EXCEPT ![f] = @ + 1]
                /\ rowExists' = TRUE

\* A request that adds d to f and then tells redis.
Begins(p, f, d) ==
  /\ pc[p] = "idle" /\ writes < MaxWrites
  /\ writes' = writes + 1
  /\ field' = [field EXCEPT ![p] = f]
  /\ delta' = [delta EXCEPT ![p] = d]
  /\ Goto(p, "update")
  /\ Owe(f, d)
  /\ UNCHANGED <<left, snap, redis, stale, lasting>>

IncrReadCnt(p) ==
  /\ Begins(p, "read", 1)
  /\ UpsertCnt("read")
  /\ UNCHANGED <<likeRow, collected, repeated>>

\* Mutant: the status of a row that is there is not set.
LikeKeepsStatus(p, u) ==
  /\ Begins(p, "like", 1)
  /\ likeRow' = [likeRow EXCEPT ![u] = IF @ = "none" THEN "on" ELSE @]
  /\ UpsertCnt("like")
  /\ repeated' = (repeated \/ likeRow[u] = "on")
  /\ UNCHANGED collected

\* InsertLikeInfo: the row of the user is inserted or has its status set,
\* and the counter goes up in both cases.
Like(p, u) ==
  /\ Begins(p, "like", 1)
  /\ likeRow' = [likeRow EXCEPT ![u] = "on"]
  /\ UpsertCnt("like")
  /\ repeated' = (repeated \/ likeRow[u] = "on")
  /\ UNCHANGED collected

\* DeleteLikeInfo: two updates, of which either may find no row.
CancelLike(p, u) ==
  /\ Begins(p, "like", -1)
  /\ likeRow' = [likeRow EXCEPT ![u] = IF @ = "none" THEN @ ELSE "off"]
  /\ row' = IF rowExists THEN [row EXCEPT !["like"] = @ - 1] ELSE row
  /\ repeated' = (repeated \/ likeRow[u] # "on")
  /\ UNCHANGED <<rowExists, collected>>

\* InsertCollectionBiz.
Collect(p, u) ==
  /\ Begins(p, "collect", 1)
  /\ collected' = collected \cup {u}
  /\ UpsertCnt("collect")
  /\ repeated' = (repeated \/ u \in collected)
  /\ UNCHANGED likeRow

\* BatchIncrReadCnt for n read events of this resource: row by row, each an
\* upsert of its own. A row that fails ends the batch.
StartBatch(p, n) ==
  /\ pc[p] = "idle" /\ writes + n <= MaxWrites
  /\ writes' = writes + n
  /\ field' = [field EXCEPT ![p] = "read"]
  /\ delta' = [delta EXCEPT ![p] = 0]
  /\ left'  = [left EXCEPT ![p] = n]
  /\ Goto(p, "batch")
  /\ UNCHANGED <<snap, db, redis, history>>

BatchRow(p) ==
  /\ pc[p] = "batch" /\ left[p] > 0
  /\ left'  = [left EXCEPT ![p] = @ - 1]
  /\ delta' = [delta EXCEPT ![p] = @ + 1]
  /\ UpsertCnt("read") /\ Owe("read", 1)
  /\ UNCHANGED <<likeRow, collected, redis, pc, field, snap, writes, stale, lasting, repeated>>

\* The rows written so far stay, and redis is not told of them.
BatchFails(p) ==
  /\ "db" \in Faults
  /\ pc[p] = "batch" /\ left[p] > 0
  /\ left' = [left EXCEPT ![p] = 0]
  /\ Forgets(p, delta[p])
  /\ Goto(p, "idle")
  /\ UNCHANGED <<db, redis, field, snap, writes, lasting, repeated>>

\* All rows are written: the batch returns, and a goroutine tells redis.
BatchDone(p) ==
  /\ pc[p] = "batch" /\ left[p] = 0
  /\ Goto(p, "async")
  /\ UNCHANGED <<db, redis, field, delta, left, snap, writes, history>>

-----------------------------------------------------------------------------
\* The hash.

\* Mutant: the hash is made by the first call, with one field.
IncrAlways(f, d) ==
  /\ cache' = [cache EXCEPT ![f] = @ + d]
  /\ cached' = TRUE
  /\ UNCHANGED ttl

\* incr_cnt.lua adds to a field of a hash that is there.
IncrIfPresent(f, d) ==
  /\ cache' = IF cached THEN [cache EXCEPT ![f] = @ + d] ELSE cache
  /\ UNCHANGED <<cached, ttl>>

\* The one call of a request.
UpdateCache(p) ==
  /\ pc[p] = "update"
  /\ IncrIfPresent(field[p], delta[p])
  /\ Owe(field[p], -delta[p])
  /\ delta' = [delta EXCEPT ![p] = 0]
  /\ Returns(p)
  /\ UNCHANGED <<db, left, snap, writes, stale, lasting, repeated>>

\* Redis fails, or the process dies: the row keeps the change.
UpdateFails(p) ==
  /\ "redis" \in Faults
  /\ pc[p] = "update"
  /\ Forgets(p, delta[p])
  /\ Returns(p)
  /\ UNCHANGED <<db, redis, left, snap, writes, lasting, repeated>>

\* The goroutine of a batch makes one call per event, and goes on when one
\* fails. Its context is cancelled when BatchConsume returns, so that any call
\* may fail.
AsyncUpdate(p) ==
  /\ pc[p] = "async" /\ delta[p] > 0
  /\ IncrIfPresent("read", 1)
  /\ Owe("read", -1)
  /\ delta' = [delta EXCEPT ![p] = @ - 1]
  /\ UNCHANGED <<db, pc, field, left, snap, writes, stale, lasting, repeated>>

AsyncFails(p) ==
  /\ pc[p] = "async" /\ delta[p] > 0
  /\ Forgets(p, 1)
  /\ UNCHANGED <<db, redis, pc, field, left, snap, writes, lasting, repeated>>

AsyncDone(p) ==
  /\ pc[p] = "async" /\ delta[p] = 0
  /\ Goto(p, "idle")
  /\ UNCHANGED <<db, redis, field, delta, left, snap, writes, history>>

-----------------------------------------------------------------------------
\* Get. A hash that is found is returned as it is.

GetHit(p) == pc[p] = "idle" /\ cached /\ UNCHANGED vars

\* There is no hash, or HGETALL fails.
GetMiss(p) ==
  /\ pc[p] = "idle"
  /\ ~cached \/ "redis" \in Faults
  /\ Goto(p, "load")
  /\ UNCHANGED <<db, redis, field, delta, left, snap, writes, history>>

Load(p) ==
  /\ pc[p] = "load" /\ rowExists
  /\ snap'  = [snap EXCEPT ![p] = row]
  /\ dirty' = [dirty EXCEPT ![p] = {f \in Fields : owed[f] # 0}]
  /\ Goto(p, "set")
  /\ UNCHANGED <<db, redis, field, delta, left, writes, owed, stale, lasting, repeated>>

LoadFindsNothing(p) ==
  /\ pc[p] = "load" /\ ~rowExists
  /\ Goto(p, "idle")
  /\ UNCHANGED <<db, redis, field, delta, left, snap, writes, history>>

\* The loaded row is not used after HSET.
DropsSnap(p) == /\ snap'  = [snap EXCEPT ![p] = Zero]
                /\ dirty' = [dirty EXCEPT ![p] = {}]

\* HSET writes the three fields, and keeps the expiry of a hash that is there.
SetHash(p) ==
  /\ pc[p] = "set"
  /\ cached' = TRUE /\ cache' = snap[p]
  /\ stale' = dirty[p]
  /\ DropsSnap(p)
  /\ Goto(p, "expire")
  /\ UNCHANGED <<db, ttl, field, delta, left, writes, owed, lasting, repeated>>

\* Mutant: no expiry is set.
ExpireNever(p) ==
  /\ pc[p] = "expire"
  /\ lasting' = FALSE
  /\ Goto(p, "idle")
  /\ UNCHANGED <<db, redis, field, delta, left, snap, writes,
                 owed, dirty, stale, repeated>>

\* EXPIRE is a command of its own, and does nothing without a hash.
Expire(p) ==
  /\ pc[p] = "expire"
  /\ ttl' = cached
  /\ lasting' = FALSE
  /\ Goto(p, "idle")
  /\ UNCHANGED <<db, cached, cache, field, delta, left, snap, writes,
                 owed, dirty, stale, repeated>>

\* HSET or EXPIRE fails, which Get only logs, or the process dies before it.
SetFails(p) ==
  /\ "redis" \in Faults
  /\ pc[p] \in {"set", "expire"}
  /\ DropsSnap(p)
  /\ lasting' = (lasting \/ (pc[p] = "expire" /\ cached /\ ~ttl))
  /\ Goto(p, "idle")
  /\ UNCHANGED <<db, redis, field, delta, left, writes, owed, stale, repeated>>

\* Fifteen minutes after EXPIRE.
KeyExpires ==
  /\ ttl
  /\ cached' = FALSE /\ ttl' = FALSE /\ cache' = Zero
  /\ stale' = {}
  /\ UNCHANGED <<db, threads, writes, owed, dirty, lasting, repeated>>

-----------------------------------------------------------------------------
Step(p) ==
  \/ BatchRow(p) \/ BatchFails(p) \/ BatchDone(p)
  \/ UpdateCache(p) \/ UpdateFails(p)
  \/ AsyncUpdate(p) \/ AsyncFails(p) \/ AsyncDone(p)
  \/ Load(p) \/ LoadFindsNothing(p) \/ SetHash(p) \/ Expire(p) \/ SetFails(p)

Request(p) ==
  \/ IncrReadCnt(p) \/ GetHit(p) \/ GetMiss(p)
  \/ \E u \in Users : Like(p, u) \/ CancelLike(p, u) \/ Collect(p, u)
  \/ \E n \in 1..MaxBatch : StartBatch(p, n)

Next == KeyExpires \/ \E p \in Callers : Request(p) \/ Step(p)

\* A call that has begun goes on, and redis expires the key.
Fairness == WF_vars(KeyExpires) /\ \A p \in Callers : WF_vars(Step(p))

Spec == Init /\ [][Next]_vars /\ Fairness

-----------------------------------------------------------------------------
TablesOK  == /\ row \in [Fields -> Int] /\ rowExists \in BOOLEAN
             /\ likeRow \in [Users -> {"none", "on", "off"}] /\ collected \subseteq Users
RedisOK   == /\ cached \in BOOLEAN /\ cache \in [Fields -> Int] /\ ttl \in BOOLEAN
             /\ stale \subseteq Fields
             /\ cached => rowExists
             /\ ~cached => ~ttl /\ stale = {}
ThreadsOK == /\ pc \in [Callers -> {"idle", "batch", "update", "async", "load", "set", "expire"}]
             /\ field \in [Callers -> Fields]
             /\ delta \in [Callers -> Int] /\ left \in [Callers -> Nat]
             /\ snap \in [Callers -> [Fields -> Int]]
HistoryOK == /\ writes \in Nat /\ owed \in [Fields -> Int]
             /\ dirty \in [Callers -> SUBSET Fields]
             /\ lasting \in BOOLEAN /\ repeated \in BOOLEAN

\* Every variable has its type; there is no hash before there is a row, and
\* no expiry and no distrust without a hash (cache/interactive.go:81-93).
TypeOK == TablesOK /\ RedisOK /\ ThreadsOK /\ HistoryOK

\* A counter in redis and what is still on its way to redis make the counter
\* in the row, unless a call was lost or the hash was written back by a Get
\* that others overtook (repository/interactive.go:104-123).
CacheFollows == \A f \in Fields : cached /\ f \notin stale => cache[f] + owed[f] = row[f]

\* A Get that still holds a counter nobody has touched holds it as it is.
SnapIsCurrent ==
  \A p \in Callers : pc[p] = "set" =>
    /\ rowExists
    /\ \A f \in Fields \ dirty[p] : snap[p][f] = row[f] /\ owed[f] = 0

CacheInv == TypeOK /\ CacheFollows /\ SnapIsCurrent

\* When no write is under way, readers of the hash are told what the row says
\* (the promise of "IfPresent" updates, repository/interactive.go:64-65).
CacheAgrees ==
  cached /\ (\A p \in Callers : pc[p] \notin {"batch", "update", "async"})
    => \A f \in Fields \ stale : cache[f] = row[f]

\* As long as users like and collect at most once, and cancel only what they
\* have liked, the counters count the users (dao/interactive.go:89-172).
CountersMatch ==
  ~repeated => /\ row["like"] = Cardinality({u \in Users : likeRow[u] = "on"})
               /\ row["collect"] = Cardinality(collected)

\* The two together: what readers are told, through redis, is the number of users.
CountersAgree == CacheAgrees /\ CountersMatch

\* A wrong counter is gone after the expiry, unless a failed EXPIRE has left
\* the hash without one (cache/interactive.go:81-93).
WrongCountersEnd == stale # {} ~> (stale = {} \/ lasting)
=============================================================================
