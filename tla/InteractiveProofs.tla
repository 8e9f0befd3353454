-------------------------- MODULE InteractiveProofs --------------------------
(***************************************************************************)
(* Proofs about the counters of a resource, for any number of callers,     *)
(* users, read events and writes: CacheInv is inductive, and with the sum  *)
(* of what the callers hold for redis it gives CountersAgree.              *)
(***************************************************************************)
EXTENDS MCInteractive, Places, TLAPS, FiniteSetTheorems

\* The three counters.
LEMMA FieldNames == "read" \in Fields /\ "like" \in Fields /\ "collect" \in Fields
  BY DEF Fields

\* There is nothing in the tables and nothing in redis to begin with.
LEMMA InitInv == Init => CacheInv
  <1> SUFFICES ASSUME Init PROVE CacheInv
    OBVIOUS
  <1>1. Zero \in [Fields -> Int]
    BY DEF Zero
  <1>2. TypeOK
    <2> USE <1>1, FieldNames DEF Init
    <2>1. TablesOK
      BY DEF TablesOK
    <2>2. RedisOK
      BY DEF RedisOK
    <2>3. ThreadsOK
      BY DEF ThreadsOK
    <2>4. HistoryOK
      BY DEF HistoryOK
    <2> QED BY <2>1, <2>2, <2>3, <2>4 DEF TypeOK
  <1>3. CacheFollows
    BY DEF Init, CacheFollows
  <1>4. SnapIsCurrent
    BY DEF Init, SnapIsCurrent
  <1> QED BY <1>2, <1>3, <1>4 DEF CacheInv

\* A write of one counter keeps the invariant, whatever it does to the rows of
\* the users: row and owed move together, and a row that was loaded is dirty.
LEMMA WriteInv ==
  ASSUME CacheInv, NEW f \in Fields, NEW d \in Int, row' \in [Fields -> Int],
         rowExists' \in BOOLEAN, rowExists => rowExists',
         \A g \in Fields : rowExists => row'[g] = IF g = f THEN row[g] + d ELSE row[g],
         Owe(f, d), UNCHANGED <<redis, stale, snap>>,
         \A q \in Callers : pc'[q] = "set" => pc[q] = "set"
  PROVE  CacheFollows' /\ SnapIsCurrent' /\ owed' \in [Fields -> Int]
         /\ dirty' \in [Callers -> SUBSET Fields]
  <1> USE DEF CacheInv, TypeOK, TablesOK, RedisOK, ThreadsOK, HistoryOK, Owe, redis
  <1>1. owed' \in [Fields -> Int] /\ dirty' \in [Callers -> SUBSET Fields]
    OBVIOUS
  <1>2. CacheFollows'
    BY DEF CacheFollows
  <1>3. SnapIsCurrent'
    BY DEF SnapIsCurrent
  <1> QED BY <1>1, <1>2, <1>3

\* A change of f by d leaves owed, and reaches redis or is forgotten.
LEMMA SettleInv ==
  ASSUME CacheInv, NEW f \in Fields, NEW d \in Int,
         cache' \in [Fields -> Int], stale \subseteq stale',
         \A g \in Fields : cached /\ g \notin stale' =>
           cache'[g] = IF g = f THEN cache[g] + d ELSE cache[g],
         Owe(f, -d), UNCHANGED <<db, cached, snap>>,
         \A q \in Callers : pc'[q] = "set" => pc[q] = "set"
  PROVE  CacheFollows' /\ SnapIsCurrent' /\ owed' \in [Fields -> Int]
         /\ dirty' \in [Callers -> SUBSET Fields]
  <1> USE DEF CacheInv, TypeOK, TablesOK, RedisOK, ThreadsOK, HistoryOK, Owe, db
  <1>1. owed' \in [Fields -> Int] /\ dirty' \in [Callers -> SUBSET Fields]
    OBVIOUS
  <1>2. CacheFollows'
    BY DEF CacheFollows
  <1>3. SnapIsCurrent'
    BY DEF SnapIsCurrent
  <1> QED BY <1>1, <1>2, <1>3

\* Every step keeps CacheInv, the writes by WriteInv and the calls to redis by SettleInv.
LEMMA StepInv == CacheInv /\ [Next]_vars => CacheInv'
  <1> SUFFICES ASSUME CacheInv, [Next]_vars PROVE CacheInv'
    OBVIOUS
  <1> USE BoundAssumption
      DEF CacheInv, TypeOK, TablesOK, RedisOK, ThreadsOK, HistoryOK,
          db, redis, threads, history, Goto
  <1>1. ASSUME KeyExpires PROVE CacheInv'
    <2> USE <1>1 DEF KeyExpires
    <2>1. CacheFollows' /\ SnapIsCurrent'
      BY DEF CacheFollows, SnapIsCurrent
    <2>2. cache' \in [Fields -> Int]
      BY DEF Zero
    <2>3. TypeOK'
      BY <2>2
    <2> QED BY <2>1, <2>3
  <1>2. ASSUME NEW p \in Callers, IncrReadCnt(p) PROVE CacheInv'
    <2> USE <1>2 DEF IncrReadCnt, Begins, UpsertCnt
    <2>1. /\ "read" \in Fields /\ 1 \in Int
          /\ row' \in [Fields -> Int] /\ rowExists' \in BOOLEAN /\ (rowExists => rowExists')
          /\ \A g \in Fields : rowExists => row'[g] = IF g = "read" THEN row[g] + 1 ELSE row[g]
          /\ Owe("read", 1) /\ UNCHANGED <<redis, stale, snap>>
          /\ \A q \in Callers : pc'[q] = "set" => pc[q] = "set"
      BY DEF Fields
    <2>2. CacheFollows' /\ SnapIsCurrent' /\ owed' \in [Fields -> Int]
          /\ dirty' \in [Callers -> SUBSET Fields]
      BY <2>1, WriteInv, FieldNames
    <2>3. TypeOK'
      <3> USE <2>1, <2>2, FieldNames
      <3>1. TablesOK'
        OBVIOUS
      <3>2. RedisOK'
        OBVIOUS
      <3>3. ThreadsOK'
        OBVIOUS
      <3>4. writes' \in Nat
        OBVIOUS
      <3>5. lasting' \in BOOLEAN /\ repeated' \in BOOLEAN
        OBVIOUS
      <3> QED BY <3>1, <3>2, <3>3, <3>4, <3>5
    <2> QED BY <2>2, <2>3
  <1>3. ASSUME NEW p \in Callers, NEW u \in Users, Like(p, u) PROVE CacheInv'
    <2> USE <1>3 DEF Like, Begins, UpsertCnt
    <2>1. /\ "like" \in Fields /\ 1 \in Int
          /\ row' \in [Fields -> Int] /\ rowExists' \in BOOLEAN /\ (rowExists => rowExists')
          /\ \A g \in Fields : rowExists => row'[g] = IF g = "like" THEN row[g] + 1 ELSE row[g]
          /\ Owe("like", 1) /\ UNCHANGED <<redis, stale, snap>>
          /\ \A q \in Callers : pc'[q] = "set" => pc[q] = "set"
      BY DEF Fields
    <2>2. CacheFollows' /\ SnapIsCurrent' /\ owed' \in [Fields -> Int]
          /\ dirty' \in [Callers -> SUBSET Fields]
      BY <2>1, WriteInv, FieldNames
    <2>3. TypeOK'
      <3> USE <2>1, <2>2, FieldNames
      <3>1. TablesOK'
        OBVIOUS
      <3>2. RedisOK'
        OBVIOUS
      <3>3. ThreadsOK'
        OBVIOUS
      <3>4. writes' \in Nat
        OBVIOUS
      <3>5. lasting' \in BOOLEAN /\ repeated' \in BOOLEAN
        OBVIOUS
      <3> QED BY <3>1, <3>2, <3>3, <3>4, <3>5
    <2> QED BY <2>2, <2>3
  <1>4. ASSUME NEW p \in Callers, NEW u \in Users, CancelLike(p, u) PROVE CacheInv'
    <2> USE <1>4 DEF CancelLike, Begins
    <2>1. /\ "like" \in Fields /\ -1 \in Int
          /\ row' \in [Fields -> Int] /\ rowExists' \in BOOLEAN /\ (rowExists => rowExists')
          /\ \A g \in Fields : rowExists => row'[g] = IF g = "like" THEN row[g] + (-1) ELSE row[g]
          /\ Owe("like", -1) /\ UNCHANGED <<redis, stale, snap>>
          /\ \A q \in Callers : pc'[q] = "set" => pc[q] = "set"
      BY DEF Fields
    <2>2. CacheFollows' /\ SnapIsCurrent' /\ owed' \in [Fields -> Int]
          /\ dirty' \in [Callers -> SUBSET Fields]
      BY <2>1, WriteInv, FieldNames
    <2>3. TypeOK'
      <3> USE <2>1, <2>2, FieldNames
      <3>1. TablesOK'
        OBVIOUS
      <3>2. RedisOK'
        OBVIOUS
      <3>3. ThreadsOK'
        OBVIOUS
      <3>4. writes' \in Nat
        OBVIOUS
      <3>5. lasting' \in BOOLEAN /\ repeated' \in BOOLEAN
        OBVIOUS
      <3> QED BY <3>1, <3>2, <3>3, <3>4, <3>5
    <2> QED BY <2>2, <2>3
  <1>5. ASSUME NEW p \in Callers, NEW u \in Users, Collect(p, u) PROVE CacheInv'
    <2> USE <1>5 DEF Collect, Begins, UpsertCnt
    <2>1. /\ "collect" \in Fields /\ 1 \in Int
          /\ row' \in [Fields -> Int] /\ rowExists' \in BOOLEAN /\ (rowExists => rowExists')
          /\ \A g \in Fields : rowExists => row'[g] = IF g = "collect" THEN row[g] + 1 ELSE row[g]
          /\ Owe("collect", 1) /\ UNCHANGED <<redis, stale, snap>>
          /\ \A q \in Callers : pc'[q] = "set" => pc[q] = "set"
      BY DEF Fields
    <2>2. CacheFollows' /\ SnapIsCurrent' /\ owed' \in [Fields -> Int]
          /\ dirty' \in [Callers -> SUBSET Fields]
      BY <2>1, WriteInv, FieldNames
    <2>3. TypeOK'
      <3> USE <2>1, <2>2, FieldNames
      <3>1. TablesOK'
        OBVIOUS
      <3>2. RedisOK'
        OBVIOUS
      <3>3. ThreadsOK'
        OBVIOUS
      <3>4. writes' \in Nat
        OBVIOUS
      <3>5. lasting' \in BOOLEAN /\ repeated' \in BOOLEAN
        OBVIOUS
      <3> QED BY <3>1, <3>2, <3>3, <3>4, <3>5
    <2> QED BY <2>2, <2>3
  <1>6. ASSUME NEW p \in Callers, NEW n \in 1..MaxBatch, StartBatch(p, n) PROVE CacheInv'
    BY <1>6 DEF StartBatch, CacheFollows, SnapIsCurrent, Fields
  <1>7. ASSUME NEW p \in Callers, BatchRow(p) PROVE CacheInv'
    <2> USE <1>7 DEF BatchRow, UpsertCnt
    <2>1. /\ "read" \in Fields /\ 1 \in Int
          /\ row' \in [Fields -> Int] /\ rowExists' \in BOOLEAN /\ (rowExists => rowExists')
          /\ \A g \in Fields : rowExists => row'[g] = IF g = "read" THEN row[g] + 1 ELSE row[g]
          /\ Owe("read", 1) /\ UNCHANGED <<redis, stale, snap>>
          /\ \A q \in Callers : pc'[q] = "set" => pc[q] = "set"
      BY DEF Fields
    <2>2. CacheFollows' /\ SnapIsCurrent' /\ owed' \in [Fields -> Int]
          /\ dirty' \in [Callers -> SUBSET Fields]
      BY <2>1, WriteInv, FieldNames
    <2>3. TypeOK'
      <3> USE <2>1, <2>2, FieldNames
      <3>1. TablesOK'
        OBVIOUS
      <3>2. RedisOK'
        OBVIOUS
      <3>3. ThreadsOK'
        OBVIOUS
      <3>4. HistoryOK'
        OBVIOUS
      <3> QED BY <3>1, <3>2, <3>3, <3>4
    <2> QED BY <2>2, <2>3
  <1>8. ASSUME NEW p \in Callers, BatchFails(p) PROVE CacheInv'
    <2> USE <1>8 DEF BatchFails, Forgets
    <2>1. field[p] \in Fields /\ delta[p] \in Int
      BY DEF Fields
    <2>2. /\ cache' \in [Fields -> Int] /\ stale \subseteq stale'
          /\ \A g \in Fields : cached /\ g \notin stale' =>
                cache'[g] = IF g = field[p] THEN cache[g] + delta[p] ELSE cache[g]
          /\ Owe(field[p], -delta[p]) /\ UNCHANGED <<db, cached, snap>>
          /\ \A q \in Callers : pc'[q] = "set" => pc[q] = "set"
      BY <2>1
    <2>3. CacheFollows' /\ SnapIsCurrent' /\ owed' \in [Fields -> Int]
          /\ dirty' \in [Callers -> SUBSET Fields]
      BY <2>1, <2>2, SettleInv
    <2>4. TypeOK'
      <3> USE <2>1, <2>2, <2>3, FieldNames
      <3>1. TablesOK'
        OBVIOUS
      <3>2. RedisOK'
        OBVIOUS
      <3>3. ThreadsOK'
        OBVIOUS
      <3>4. HistoryOK'
        OBVIOUS
      <3> QED BY <3>1, <3>2, <3>3, <3>4
    <2> QED BY <2>3, <2>4
  <1>9. ASSUME NEW p \in Callers, BatchDone(p) PROVE CacheInv'
    BY <1>9 DEF BatchDone, CacheFollows, SnapIsCurrent
  <1>10. ASSUME NEW p \in Callers, UpdateCache(p) PROVE CacheInv'
    <2> USE <1>10 DEF UpdateCache, IncrIfPresent, Returns
    <2>1. field[p] \in Fields /\ delta[p] \in Int
      BY DEF Fields
    <2>2. /\ cache' \in [Fields -> Int] /\ stale \subseteq stale'
          /\ \A g \in Fields : cached /\ g \notin stale' =>
                cache'[g] = IF g = field[p] THEN cache[g] + delta[p] ELSE cache[g]
          /\ Owe(field[p], -delta[p]) /\ UNCHANGED <<db, cached, snap>>
          /\ \A q \in Callers : pc'[q] = "set" => pc[q] = "set"
      BY <2>1
    <2>3. CacheFollows' /\ SnapIsCurrent' /\ owed' \in [Fields -> Int]
          /\ dirty' \in [Callers -> SUBSET Fields]
      BY <2>1, <2>2, SettleInv
    <2>4. TypeOK'
      <3> USE <2>1, <2>2, <2>3, FieldNames
      <3>1. TablesOK'
        OBVIOUS
      <3>2. RedisOK'
        OBVIOUS
      <3>3. ThreadsOK'
        OBVIOUS
      <3>4. HistoryOK'
        OBVIOUS
      <3> QED BY <3>1, <3>2, <3>3, <3>4
    <2> QED BY <2>3, <2>4
  <1>11. ASSUME NEW p \in Callers, UpdateFails(p) PROVE CacheInv'
    <2> USE <1>11 DEF UpdateFails, Forgets, Returns
    <2>1. field[p] \in Fields /\ delta[p] \in Int
      BY DEF Fields
    <2>2. /\ cache' \in [Fields -> Int] /\ stale \subseteq stale'
          /\ \A g \in Fields : cached /\ g \notin stale' =>
                cache'[g] = IF g = field[p] THEN cache[g] + delta[p] ELSE cache[g]
          /\ Owe(field[p], -delta[p]) /\ UNCHANGED <<db, cached, snap>>
          /\ \A q \in Callers : pc'[q] = "set" => pc[q] = "set"
      BY <2>1
    <2>3. CacheFollows' /\ SnapIsCurrent' /\ owed' \in [Fields -> Int]
          /\ dirty' \in [Callers -> SUBSET Fields]
      BY <2>1, <2>2, SettleInv
    <2>4. TypeOK'
      <3> USE <2>1, <2>2, <2>3, FieldNames
      <3>1. TablesOK'
        OBVIOUS
      <3>2. RedisOK'
        OBVIOUS
      <3>3. ThreadsOK'
        OBVIOUS
      <3>4. HistoryOK'
        OBVIOUS
      <3> QED BY <3>1, <3>2, <3>3, <3>4
    <2> QED BY <2>3, <2>4
  <1>12. ASSUME NEW p \in Callers, AsyncUpdate(p) PROVE CacheInv'
    <2> USE <1>12 DEF AsyncUpdate, IncrIfPresent
    <2>1. "read" \in Fields /\ 1 \in Int
      BY DEF Fields
    <2>2. /\ cache' \in [Fields -> Int] /\ stale \subseteq stale'
          /\ \A g \in Fields : cached /\ g \notin stale' =>
                cache'[g] = IF g = "read" THEN cache[g] + 1 ELSE cache[g]
          /\ Owe("read", -1) /\ UNCHANGED <<db, cached, snap>>
          /\ \A q \in Callers : pc'[q] = "set" => pc[q] = "set"
      BY <2>1
    <2>3. CacheFollows' /\ SnapIsCurrent' /\ owed' \in [Fields -> Int]
          /\ dirty' \in [Callers -> SUBSET Fields]
      BY <2>1, <2>2, SettleInv
    <2>4. TypeOK'
      <3> USE <2>1, <2>2, <2>3, FieldNames
      <3>1. TablesOK'
        OBVIOUS
      <3>2. RedisOK'
        OBVIOUS
      <3>3. ThreadsOK'
        OBVIOUS
      <3>4. HistoryOK'
        OBVIOUS
      <3> QED BY <3>1, <3>2, <3>3, <3>4
    <2> QED BY <2>3, <2>4
  <1>13. ASSUME NEW p \in Callers, AsyncFails(p) PROVE CacheInv'
    <2> USE <1>13 DEF AsyncFails, Forgets
    <2>1. field[p] \in Fields /\ 1 \in Int
      BY DEF Fields
    <2>2. /\ cache' \in [Fields -> Int] /\ stale \subseteq stale'
          /\ \A g \in Fields : cached /\ g \notin stale' =>
                cache'[g] = IF g = field[p] THEN cache[g] + 1 ELSE cache[g]
          /\ Owe(field[p], -1) /\ UNCHANGED <<db, cached, snap>>
          /\ \A q \in Callers : pc'[q] = "set" => pc[q] = "set"
      BY <2>1
    <2>3. CacheFollows' /\ SnapIsCurrent' /\ owed' \in [Fields -> Int]
          /\ dirty' \in [Callers -> SUBSET Fields]
      BY <2>1, <2>2, SettleInv
    <2>4. TypeOK'
      <3> USE <2>1, <2>2, <2>3, FieldNames
      <3>1. TablesOK'
        OBVIOUS
      <3>2. RedisOK'
        OBVIOUS
      <3>3. ThreadsOK'
        OBVIOUS
      <3>4. HistoryOK'
        OBVIOUS
      <3> QED BY <3>1, <3>2, <3>3, <3>4
    <2> QED BY <2>3, <2>4
  <1>14. ASSUME NEW p \in Callers, AsyncDone(p) PROVE CacheInv'
    BY <1>14 DEF AsyncDone, CacheFollows, SnapIsCurrent
  <1>15. ASSUME NEW p \in Callers, GetMiss(p) PROVE CacheInv'
    BY <1>15 DEF GetMiss, CacheFollows, SnapIsCurrent
  <1>16. ASSUME NEW p \in Callers, Load(p) PROVE CacheInv'
    BY <1>16 DEF Load, CacheFollows, SnapIsCurrent
  <1>17. ASSUME NEW p \in Callers, LoadFindsNothing(p) PROVE CacheInv'
    BY <1>17 DEF LoadFindsNothing, CacheFollows, SnapIsCurrent
  <1>18. ASSUME NEW p \in Callers, SetHash(p) PROVE CacheInv'
    BY <1>18 DEF SetHash, DropsSnap, CacheFollows, SnapIsCurrent, Zero
  <1>19. ASSUME NEW p \in Callers, Expire(p) PROVE CacheInv'
    BY <1>19 DEF Expire, CacheFollows, SnapIsCurrent
  <1>20. ASSUME NEW p \in Callers, SetFails(p) PROVE CacheInv'
    BY <1>20 DEF SetFails, DropsSnap, CacheFollows, SnapIsCurrent, Zero
  <1>21. ASSUME UNCHANGED vars PROVE CacheInv'
    BY <1>21 DEF vars, CacheFollows, SnapIsCurrent
  <1> QED
    BY <1>1, <1>2, <1>3, <1>4, <1>5, <1>6, <1>7, <1>8, <1>9, <1>10, <1>11, <1>12,
       <1>13, <1>14, <1>15, <1>16, <1>17, <1>18, <1>19, <1>20, <1>21
    DEF Next, Step, Request, GetHit

\* Redis shows what the row says, up to what is still to be written to it and
\* to what a lost call or an overtaken Get has spoilt.
THEOREM CacheTheorem == Spec => []CacheInv
  BY InitInv, StepInv, PTL DEF Spec
-----------------------------------------------------------------------------
\* The changes that callers hold for redis make up owed. A change by +k is k
\* tokens, a cancelled like a negative one, so that the sum over the callers is
\* a difference of two cardinalities.
Due(fl, de, f)    == {e \in Callers \X Nat : fl[e[1]] = f /\ 1 <= e[2] /\ e[2] <= de[e[1]]}
Undone(fl, de, f) == {q \in Callers : fl[q] = f /\ de[q] < 0}

Finite(fl, de, f)   == IsFiniteSet(Due(fl, de, f)) /\ IsFiniteSet(Undone(fl, de, f))
Held(fl, de, f)     == Cardinality(Due(fl, de, f)) - Cardinality(Undone(fl, de, f))
HeldBy(fl, de, p, f) == IF fl[p] = f THEN de[p] ELSE 0

OwedIsHeld == \A f \in Fields : Finite(field, delta, f) /\ owed[f] = Held(field, delta, f)

\* Who holds how much: a caller that is not about to tell redis holds nothing.
Hands ==
  \A p \in Callers : \/ pc[p] = "update" /\ delta[p] \in {-1, 1}
                     \/ pc[p] \in {"batch", "async"} /\ field[p] = "read" /\ delta[p] \in Nat
                     \/ pc[p] \notin {"batch", "async", "update"} /\ delta[p] = 0

Likers == {u \in Users : likeRow[u] = "on"}

LikesCounted ==
  /\ IsFiniteSet(Likers) /\ IsFiniteSet(collected)
  /\ ~rowExists => \A u \in Users : likeRow[u] = "none"
  /\ CountersMatch

AgreeInv == CacheInv /\ Hands /\ OwedIsHeld /\ LikesCounted

\* k tokens are k.
LEMMA Units ==
  ASSUME NEW k \in Int
  PROVE  IsFiniteSet(1 .. k) /\ Cardinality(1 .. k) = IF k < 0 THEN 0 ELSE k
  <1>1. \A a, b \in Int : /\ IsFiniteSet(a .. b)
                         /\ Cardinality(a .. b) = IF a > b THEN 0 ELSE b - a + 1
    BY FS_Interval
  <1> QED BY <1>1

\* The tokens of one caller, and those of the others.
LEMMA HeldSplits ==
  ASSUME NEW p \in Callers, NEW f, NEW fl, NEW de \in [Callers -> Int], de[p] >= -1
  PROVE  LET rest == {e \in Due(fl, de, f) : e[1] # p}
             back == {q \in Undone(fl, de, f) : q # p}
         IN  /\ Finite(fl, de, f) <=> IsFiniteSet(rest) /\ IsFiniteSet(back)
             /\ Finite(fl, de, f) =>
                  Held(fl, de, f) = Cardinality(rest) - Cardinality(back) + HeldBy(fl, de, p, f)
  <1> DEFINE rest == {e \in Due(fl, de, f) : e[1] # p}
             back == {q \in Undone(fl, de, f) : q # p}
             mine == {p} \X (1 .. HeldBy(fl, de, p, f))
             less == IF HeldBy(fl, de, p, f) < 0 THEN {p} ELSE {}
  <1>1. HeldBy(fl, de, p, f) \in Int /\ HeldBy(fl, de, p, f) >= -1
    BY DEF HeldBy
  <1>2. Due(fl, de, f) = rest \cup mine /\ rest \cap mine = {}
    <2>1. ASSUME NEW e \in Due(fl, de, f), e[1] = p PROVE e \in mine
      <3>1. e \in Callers \X Nat /\ fl[p] = f /\ 1 <= e[2] /\ e[2] <= de[p]
        BY <2>1 DEF Due
      <3>2. e = <<p, e[2]>> /\ e[2] \in 1 .. HeldBy(fl, de, p, f)
        BY <2>1, <3>1 DEF HeldBy
      <3> QED BY <3>2
    <2>2. ASSUME NEW e \in mine PROVE e \in Due(fl, de, f) /\ e[1] = p
      <3>1. PICK k \in 1 .. HeldBy(fl, de, p, f) : e = <<p, k>>
        BY <2>2
      <3>2. fl[p] = f /\ k \in Nat /\ 1 <= k /\ k <= de[p]
        BY <1>1, <3>1 DEF HeldBy
      <3> QED BY <3>1, <3>2 DEF Due
    <2> QED BY <2>1, <2>2
  <1>3. Undone(fl, de, f) = back \cup less /\ back \cap less = {}
    BY DEF Undone, HeldBy
  <1>4. /\ IsFiniteSet(mine)
        /\ Cardinality(mine) = IF HeldBy(fl, de, p, f) < 0 THEN 0 ELSE HeldBy(fl, de, p, f)
    <2> DEFINE k == HeldBy(fl, de, p, f)
    <2>1. IsFiniteSet(1 .. k) /\ Cardinality(1 .. k) = IF k < 0 THEN 0 ELSE k
      BY <1>1, Units
    <2> HIDE DEF k
    <2>2. IsFiniteSet({p}) /\ Cardinality({p}) = 1
      BY FS_Singleton
    <2>3. IsFiniteSet({p} \X (1 .. k)) /\ Cardinality({p} \X (1 .. k)) = 1 * Cardinality(1 .. k)
      BY <2>1, <2>2, FS_Product
    <2>4. Cardinality(1 .. k) \in Nat
      BY <2>1, FS_CardinalityType
    <2> QED BY <2>1, <2>3, <2>4 DEF k
  <1>5. IsFiniteSet(less) /\ Cardinality(less) = IF HeldBy(fl, de, p, f) < 0 THEN 1 ELSE 0
    BY FS_Singleton, FS_EmptySet
  <1> HIDE DEF rest, back, mine, less
  <1>6. Finite(fl, de, f) <=> IsFiniteSet(rest) /\ IsFiniteSet(back)
    <2>1. rest \subseteq Due(fl, de, f) /\ back \subseteq Undone(fl, de, f)
      BY DEF rest, back
    <2>2. IsFiniteSet(rest) => IsFiniteSet(rest \cup mine)
      BY <1>4, FS_Union
    <2>3. IsFiniteSet(back) => IsFiniteSet(back \cup less)
      BY <1>5, FS_Union
    <2> QED BY <1>2, <1>3, <2>1, <2>2, <2>3, FS_Subset DEF Finite
  <1>7. ASSUME Finite(fl, de, f)
        PROVE  Held(fl, de, f) = Cardinality(rest) - Cardinality(back) + HeldBy(fl, de, p, f)
    <2>1. IsFiniteSet(rest) /\ IsFiniteSet(back)
      BY <1>6, <1>7
    <2>0. Cardinality({}) = 0
      BY FS_EmptySet
    <2>4. /\ Cardinality(rest) \in Nat /\ Cardinality(back) \in Nat
          /\ Cardinality(mine) \in Nat /\ Cardinality(less) \in Nat
      BY <1>4, <1>5, <2>1, FS_CardinalityType
    <2>2. Cardinality(rest \cup mine) = Cardinality(rest) + Cardinality(mine)
      <3>1. Cardinality(rest \cup mine) =
              Cardinality(rest) + Cardinality(mine) - Cardinality(rest \cap mine)
        BY <1>4, <2>1, FS_Union
      <3> QED BY <1>2, <2>0, <2>4, <3>1
    <2>3. Cardinality(back \cup less) = Cardinality(back) + Cardinality(less)
      <3>1. Cardinality(back \cup less) =
              Cardinality(back) + Cardinality(less) - Cardinality(back \cap less)
        BY <1>5, <2>1, FS_Union
      <3> QED BY <1>3, <2>0, <2>4, <3>1
    <2> QED BY <1>1, <1>2, <1>3, <1>4, <1>5, <2>2, <2>3, <2>4 DEF Held
  <1> QED BY <1>6, <1>7 DEF rest, back

\* One caller does something with what it holds; the sum moves by as much.
LEMMA HeldMoves ==
  ASSUME NEW p \in Callers, NEW f, NEW fl, NEW de \in [Callers -> Int], de[p] >= -1,
         NEW fl2, NEW de2 \in [Callers -> Int], de2[p] >= -1,
         \A q \in Callers \ {p} : fl2[q] = fl[q] /\ de2[q] = de[q],
         Finite(fl, de, f)
  PROVE  /\ Finite(fl2, de2, f) /\ Held(fl, de, f) \in Int
         /\ Held(fl2, de2, f) = Held(fl, de, f) + HeldBy(fl2, de2, p, f) - HeldBy(fl, de, p, f)
  <1> DEFINE rest == {e \in Due(fl, de, f) : e[1] # p}
             back == {q \in Undone(fl, de, f) : q # p}
  <1>1. {e \in Due(fl2, de2, f) : e[1] # p} = rest
    BY DEF Due
  <1>2. {q \in Undone(fl2, de2, f) : q # p} = back
    BY DEF Undone
  <1> HIDE DEF rest, back
  <1>3. /\ IsFiniteSet(rest) /\ IsFiniteSet(back)
        /\ Held(fl, de, f) = Cardinality(rest) - Cardinality(back) + HeldBy(fl, de, p, f)
    BY HeldSplits DEF rest, back
  <1>4. /\ Finite(fl2, de2, f) <=> IsFiniteSet(rest) /\ IsFiniteSet(back)
        /\ Finite(fl2, de2, f) =>
             Held(fl2, de2, f) = Cardinality(rest) - Cardinality(back) + HeldBy(fl2, de2, p, f)
    BY <1>1, <1>2, HeldSplits
  <1>5. Cardinality(rest) \in Nat /\ Cardinality(back) \in Nat
    BY <1>3, FS_CardinalityType
  <1>6. HeldBy(fl, de, p, f) \in Int /\ HeldBy(fl2, de2, p, f) \in Int
    BY DEF HeldBy
  <1> QED BY <1>3, <1>4, <1>5, <1>6

\* What p holds of f changes by d, and so does what is owed.
LEMMA OwedMoves ==
  ASSUME AgreeInv, NEW p \in Callers, NEW f \in Fields, NEW d \in Int,
         delta' \in [Callers -> Int], delta'[p] >= -1,
         \A q \in Callers \ {p} : field'[q] = field[q] /\ delta'[q] = delta[q],
         \A g \in Fields : HeldBy(field', delta', p, g) =
                             HeldBy(field, delta, p, g) + (IF g = f THEN d ELSE 0),
         owed' = [owed EXCEPT ![f] = @ + d]
  PROVE  OwedIsHeld'
  <1>1. /\ delta \in [Callers -> Int] /\ owed \in [Fields -> Int] /\ delta[p] >= -1 /\ OwedIsHeld
    BY DEF AgreeInv, Hands, CacheInv, TypeOK, ThreadsOK, HistoryOK
  <1> SUFFICES ASSUME NEW g \in Fields
               PROVE  Finite(field', delta', g) /\ owed'[g] = Held(field', delta', g)
    BY DEF OwedIsHeld
  <1>2. Finite(field, delta, g) /\ owed[g] = Held(field, delta, g)
    BY <1>1 DEF OwedIsHeld
  <1>3. /\ Finite(field', delta', g) /\ Held(field, delta, g) \in Int
        /\ Held(field', delta', g) = Held(field, delta, g) + HeldBy(field', delta', p, g)
                                       - HeldBy(field, delta, p, g)
    BY <1>1, <1>2, HeldMoves
  <1>4. HeldBy(field, delta, p, g) \in Int
    BY <1>1 DEF HeldBy
  <1>5. owed'[g] = owed[g] + (IF g = f THEN d ELSE 0)
    BY <1>1
  <1> QED BY <1>2, <1>3, <1>4, <1>5

\* The counters of likes and collections are only moved with the rows of users.
LEMMA CountsStay ==
  ASSUME AgreeInv, UNCHANGED <<likeRow, collected, repeated>>, rowExists => rowExists',
         \A g \in {"like", "collect"} : row'[g] = row[g]
  PROVE  LikesCounted'
  <1>1. Likers' = Likers
    BY DEF Likers
  <1> QED BY <1>1 DEF AgreeInv, LikesCounted, CountersMatch, Likers

\* A like: its user is a liker from now on, and the counter goes up with a new one.
LEMMA LikeCounts ==
  ASSUME AgreeInv, NEW p \in Callers, NEW u \in Users, Like(p, u)
  PROVE  LikesCounted'
  <1>1. /\ likeRow' = [likeRow EXCEPT ![u] = "on"] /\ row' = [row EXCEPT !["like"] = @ + 1]
        /\ rowExists' = TRUE /\ repeated' = (repeated \/ likeRow[u] = "on") /\ collected' = collected
    BY DEF Like, UpsertCnt
  <1>2. /\ likeRow \in [Users -> {"none", "on", "off"}] /\ row \in [Fields -> Int]
        /\ IsFiniteSet(Likers) /\ IsFiniteSet(collected) /\ CountersMatch
    BY DEF AgreeInv, CacheInv, TypeOK, TablesOK, LikesCounted
  <1>3. Likers' = Likers \cup {u} /\ (u \in Likers <=> likeRow[u] = "on")
    BY <1>1, <1>2 DEF Likers
  <1>4. /\ IsFiniteSet(Likers')
        /\ Cardinality(Likers') = IF u \in Likers THEN Cardinality(Likers)
                                 ELSE Cardinality(Likers) + 1
    BY <1>2, <1>3, FS_AddElement
  <1>5. row'["like"] = row["like"] + 1 /\ row'["collect"] = row["collect"]
    BY <1>1, <1>2, FieldNames
  <1>6. CountersMatch'
    BY <1>1, <1>2, <1>3, <1>4, <1>5 DEF CountersMatch, Likers
  <1> QED BY <1>1, <1>2, <1>4, <1>6 DEF LikesCounted

\* A cancelled like: a liker less, or the history says that there was none.
LEMMA CancelCounts ==
  ASSUME AgreeInv, NEW p \in Callers, NEW u \in Users, CancelLike(p, u)
  PROVE  LikesCounted'
  <1>1. /\ likeRow' = [likeRow EXCEPT ![u] = IF @ = "none" THEN @ ELSE "off"]
        /\ row' = IF rowExists THEN [row EXCEPT !["like"] = @ - 1] ELSE row
        /\ rowExists' = rowExists /\ repeated' = (repeated \/ likeRow[u] # "on") /\ collected' = collected
    BY DEF CancelLike
  <1>2. /\ likeRow \in [Users -> {"none", "on", "off"}] /\ row \in [Fields -> Int]
        /\ IsFiniteSet(Likers) /\ IsFiniteSet(collected) /\ CountersMatch
        /\ (~rowExists => \A v \in Users : likeRow[v] = "none")
    BY DEF AgreeInv, CacheInv, TypeOK, TablesOK, LikesCounted
  <1>3. Likers' = Likers \ {u} /\ (u \in Likers <=> likeRow[u] = "on")
    BY <1>1, <1>2 DEF Likers
  <1>4. /\ IsFiniteSet(Likers')
        /\ Cardinality(Likers') = IF u \in Likers THEN Cardinality(Likers) - 1
                                 ELSE Cardinality(Likers)
    BY <1>2, <1>3, FS_RemoveElement
  <1>5. (rowExists => row'["like"] = row["like"] - 1) /\ row'["collect"] = row["collect"]
    BY <1>1, <1>2, FieldNames
  <1>6. CountersMatch'
    BY <1>1, <1>2, <1>3, <1>4, <1>5 DEF CountersMatch, Likers
  <1>7. ~rowExists' => \A v \in Users : likeRow'[v] = "none"
    BY <1>1, <1>2
  <1> QED BY <1>1, <1>2, <1>4, <1>6, <1>7 DEF LikesCounted

\* A collection: one user more, or the history says that it was there.
LEMMA CollectCounts ==
  ASSUME AgreeInv, NEW p \in Callers, NEW u \in Users, Collect(p, u)
  PROVE  LikesCounted'
  <1>1. /\ collected' = collected \cup {u} /\ row' = [row EXCEPT !["collect"] = @ + 1]
        /\ rowExists' = TRUE /\ repeated' = (repeated \/ u \in collected) /\ likeRow' = likeRow
    BY DEF Collect, UpsertCnt
  <1>2. /\ row \in [Fields -> Int] /\ IsFiniteSet(Likers) /\ IsFiniteSet(collected) /\ CountersMatch
    BY DEF AgreeInv, CacheInv, TypeOK, TablesOK, LikesCounted
  <1>3. Likers' = Likers
    BY <1>1 DEF Likers
  <1>4. /\ IsFiniteSet(collected')
        /\ Cardinality(collected') = IF u \in collected THEN Cardinality(collected)
                                 ELSE Cardinality(collected) + 1
    BY <1>1, <1>2, FS_AddElement
  <1>5. row'["collect"] = row["collect"] + 1 /\ row'["like"] = row["like"]
    BY <1>1, <1>2, FieldNames
  <1>6. CountersMatch'
    BY <1>1, <1>2, <1>3, <1>4, <1>5 DEF CountersMatch, Likers
  <1> QED BY <1>1, <1>2, <1>3, <1>4, <1>6 DEF LikesCounted

\* A write begins: the caller held nothing and now holds its change.
LEMMA BeginsHolds ==
  ASSUME AgreeInv, NEW p \in Callers, NEW f \in Fields, NEW d \in {-1, 1}, Begins(p, f, d)
  PROVE  Hands' /\ OwedIsHeld'
  <1>1. /\ pc \in [Callers -> {"idle", "batch", "update", "async", "load", "set", "expire"}]
        /\ field \in [Callers -> Fields] /\ delta \in [Callers -> Int] /\ Hands
    BY DEF AgreeInv, CacheInv, TypeOK, ThreadsOK
  <1>2. /\ pc[p] = "idle" /\ pc' = [pc EXCEPT ![p] = "update"] /\ field' = [field EXCEPT ![p] = f]
        /\ delta' = [delta EXCEPT ![p] = d] /\ owed' = [owed EXCEPT ![f] = @ + d]
    BY DEF Begins, Goto, Owe
  <1>3. Hands'
    BY <1>1, <1>2 DEF Hands
  <1>4. delta[p] = 0 /\ delta' \in [Callers -> Int] /\ delta'[p] >= -1 /\ d \in Int
    BY <1>1, <1>2 DEF Hands
  <1>5. \A q \in Callers \ {p} : field'[q] = field[q] /\ delta'[q] = delta[q]
    BY <1>1, <1>2
  <1>6. \A g \in Fields : HeldBy(field', delta', p, g) =
                             HeldBy(field, delta, p, g) + (IF g = f THEN d ELSE 0)
    BY <1>1, <1>2, <1>4 DEF HeldBy
  <1> QED BY <1>2, <1>3, <1>4, <1>5, <1>6, OwedMoves

\* The counter that p has written changes by d less in its hands.
LEMMA PaysHeld ==
  ASSUME AgreeInv, NEW p \in Callers, NEW d \in Int,
         pc[p] \in {"update", "batch", "async"},
         delta' = [delta EXCEPT ![p] = @ - d], delta[p] - d >= -1,
         field' = field \/ (d = delta[p] /\ field' = [field EXCEPT ![p] = "read"]),
         owed' = [owed EXCEPT ![field[p]] = @ + (-d)]
  PROVE  OwedIsHeld'
  <1>1. field \in [Callers -> Fields] /\ delta \in [Callers -> Int]
    BY DEF AgreeInv, CacheInv, TypeOK, ThreadsOK
  <1>2. /\ field[p] \in Fields /\ -d \in Int /\ delta' \in [Callers -> Int] /\ delta'[p] = delta[p] - d
        /\ \A q \in Callers \ {p} : field'[q] = field[q] /\ delta'[q] = delta[q]
    BY <1>1
  <1>3. ASSUME NEW g \in Fields
        PROVE  HeldBy(field', delta', p, g) =
                 HeldBy(field, delta, p, g) + (IF g = field[p] THEN -d ELSE 0)
    <2>1. delta[p] \in Int
      BY <1>1
    <2>2. CASE field' = field
      BY <1>2, <2>1, <2>2 DEF HeldBy
    <2>3. CASE d = delta[p] /\ field' = [field EXCEPT ![p] = "read"]
      <3>1. delta'[p] = 0
        BY <1>2, <2>1, <2>3
      <3>2. HeldBy(field', delta', p, g) = 0
        BY <3>1 DEF HeldBy
      <3>3. HeldBy(field, delta, p, g) = IF g = field[p] THEN d ELSE 0
        BY <2>3 DEF HeldBy
      <3> QED BY <3>2, <3>3
    <2> QED BY <2>2, <2>3
  <1> QED BY <1>2, <1>3, OwedMoves

\* Each step of a caller, and the expiry of the key, keeps all four parts.
LEMMA AgreeStep == AgreeInv /\ [Next]_vars => AgreeInv'
  <1> SUFFICES ASSUME AgreeInv, [Next]_vars PROVE AgreeInv'
    OBVIOUS
  <1>1. CacheInv'
    BY StepInv DEF AgreeInv
  <1>2. /\ pc \in [Callers -> {"idle", "batch", "update", "async", "load", "set", "expire"}]
        /\ field \in [Callers -> Fields] /\ delta \in [Callers -> Int] /\ row \in [Fields -> Int]
        /\ Hands
    BY DEF AgreeInv, CacheInv, TypeOK, ThreadsOK, TablesOK
  <1> DEFINE Goal == Hands' /\ OwedIsHeld' /\ LikesCounted'
  <1>3. ASSUME NEW p \in Callers, IncrReadCnt(p) PROVE Goal
    <2>1. Begins(p, "read", 1)
      BY <1>3 DEF IncrReadCnt
    <2>2. LikesCounted'
      <3>1. /\ UNCHANGED <<likeRow, collected, repeated>> /\ rowExists' = TRUE
            /\ row' = [row EXCEPT !["read"] = @ + 1]
        BY <1>3 DEF IncrReadCnt, UpsertCnt
      <3>2. \A g \in {"like", "collect"} : row'[g] = row[g]
        BY <1>2, <3>1
      <3> QED BY <3>1, <3>2, CountsStay
    <2> QED BY <2>1, <2>2, FieldNames, BeginsHolds
  <1>4. ASSUME NEW p \in Callers, NEW u \in Users, Like(p, u) \/ CancelLike(p, u) \/ Collect(p, u)
        PROVE  Goal
    <2>1. \E f \in Fields, d \in {-1, 1} : Begins(p, f, d)
      BY <1>4, FieldNames DEF Like, CancelLike, Collect
    <2>2. Hands' /\ OwedIsHeld'
      BY <2>1, BeginsHolds
    <2> QED BY <1>4, <2>2, LikeCounts, CancelCounts, CollectCounts
  <1>5. ASSUME NEW p \in Callers, NEW n \in 1..MaxBatch, StartBatch(p, n) PROVE Goal
    <2>1. /\ pc[p] = "idle" /\ pc' = [pc EXCEPT ![p] = "batch"] /\ field' = [field EXCEPT ![p] = "read"]
          /\ delta' = [delta EXCEPT ![p] = 0] /\ UNCHANGED <<db, repeated, owed>>
      BY <1>5 DEF StartBatch, Goto, history
    <2>2. Hands'
      BY <1>2, <2>1 DEF Hands
    <2>3. /\ delta[p] = 0 /\ delta' \in [Callers -> Int] /\ delta'[p] = 0 /\ delta'[p] >= -1
          /\ \A q \in Callers \ {p} : field'[q] = field[q] /\ delta'[q] = delta[q]
      BY <1>2, <2>1 DEF Hands
    <2>4. /\ 0 \in Int
          /\ \A g \in Fields : HeldBy(field', delta', p, g) =
                               HeldBy(field, delta, p, g) + (IF g = "read" THEN 0 ELSE 0)
      BY <2>3 DEF HeldBy
    <2>5. owed' = [owed EXCEPT !["read"] = @ + 0]
      <3>1. owed \in [Fields -> Int]
        BY DEF AgreeInv, CacheInv, TypeOK, HistoryOK
      <3> QED BY <2>1, <3>1
    <2>6. OwedIsHeld'
      BY <2>3, <2>4, <2>5, FieldNames, OwedMoves
    <2> QED BY <2>1, <2>2, <2>6, CountsStay DEF db
  <1>6. ASSUME NEW p \in Callers, BatchRow(p) PROVE Goal
    <2>1. /\ pc[p] = "batch" /\ UNCHANGED <<pc, field, likeRow, collected, repeated>>
          /\ delta' = [delta EXCEPT ![p] = @ + 1] /\ owed' = [owed EXCEPT !["read"] = @ + 1]
          /\ rowExists' = TRUE /\ row' = [row EXCEPT !["read"] = @ + 1]
      BY <1>6 DEF BatchRow, Owe, UpsertCnt
    <2>2. Hands'
      BY <1>2, <2>1 DEF Hands
    <2>3. field[p] = "read" /\ delta[p] \in Nat
      BY <1>2, <2>1 DEF Hands
    <2>4. /\ delta' \in [Callers -> Int] /\ delta'[p] = delta[p] + 1 /\ delta'[p] >= -1
          /\ \A q \in Callers \ {p} : field'[q] = field[q] /\ delta'[q] = delta[q]
      BY <1>2, <2>1, <2>3
    <2>5. \A g \in Fields : HeldBy(field', delta', p, g) =
                             HeldBy(field, delta, p, g) + (IF g = "read" THEN 1 ELSE 0)
      BY <2>1, <2>3, <2>4 DEF HeldBy
    <2>6. OwedIsHeld'
      <3>1. PICK d \in Int : d = 1
        OBVIOUS
      <3>2. owed' = [owed EXCEPT !["read"] = @ + d]
        BY <2>1, <3>1
      <3>3. \A g \in Fields : HeldBy(field', delta', p, g) =
                               HeldBy(field, delta, p, g) + (IF g = "read" THEN d ELSE 0)
        BY <2>5, <3>1
      <3> QED BY <2>4, <3>2, <3>3, FieldNames, OwedMoves
    <2>7. \A g \in {"like", "collect"} : row'[g] = row[g]
      BY <1>2, <2>1
    <2> QED BY <2>1, <2>2, <2>6, <2>7, CountsStay
  <1>7. ASSUME NEW p \in Callers, BatchFails(p) \/ UpdateFails(p) \/ UpdateCache(p) PROVE Goal
    <2>1. /\ pc[p] \in {"batch", "update"} /\ pc' = [pc EXCEPT ![p] = "idle"]
          /\ field' = field \/ field' = [field EXCEPT ![p] = "read"]
          /\ delta' = [delta EXCEPT ![p] = @ - delta[p]] \/ delta' = [delta EXCEPT ![p] = 0]
          /\ owed' = [owed EXCEPT ![field[p]] = @ + (-delta[p])] /\ UNCHANGED <<db, repeated>>
      BY <1>7 DEF BatchFails, UpdateFails, UpdateCache, Forgets, Owe, Goto, Returns
    <2>2. delta[p] \in Int /\ delta[p] - delta[p] = 0
      BY <1>2
    <2>3. delta' = [delta EXCEPT ![p] = @ - delta[p]] /\ delta'[p] = 0
      BY <1>2, <2>1, <2>2
    <2>4. Hands'
      BY <1>2, <2>1, <2>3 DEF Hands
    <2>5. OwedIsHeld'
      <3>1. PICK d \in Int : d = delta[p]
        BY <2>2
      <3>2. /\ delta' = [delta EXCEPT ![p] = @ - d] /\ delta[p] - d >= -1
            /\ owed' = [owed EXCEPT ![field[p]] = @ + (-d)]
            /\ field' = field \/ (d = delta[p] /\ field' = [field EXCEPT ![p] = "read"])
            /\ pc[p] \in {"update", "batch", "async"}
        BY <2>1, <2>2, <2>3, <3>1
      <3> QED BY <3>2, PaysHeld
    <2> QED BY <2>1, <2>4, <2>5, CountsStay DEF db
  <1>8. ASSUME NEW p \in Callers, AsyncUpdate(p) \/ AsyncFails(p) PROVE Goal
    <2>1. pc[p] = "async" /\ delta[p] > 0 /\ field[p] = "read" /\ delta[p] \in Nat
      BY <1>2, <1>8 DEF AsyncUpdate, AsyncFails, Hands
    <2>2. /\ UNCHANGED <<pc, field, db, repeated>> /\ delta' = [delta EXCEPT ![p] = @ - 1]
          /\ owed' = [owed EXCEPT ![field[p]] = @ + (-1)]
      BY <1>8, <2>1 DEF AsyncUpdate, AsyncFails, Forgets, Owe
    <2>3. Hands'
      BY <1>2, <2>1, <2>2 DEF Hands
    <2>4. OwedIsHeld'
      <3>1. PICK d \in Int : d = 1
        OBVIOUS
      <3>2. /\ delta' = [delta EXCEPT ![p] = @ - d] /\ delta[p] - d >= -1
            /\ owed' = [owed EXCEPT ![field[p]] = @ + (-d)]
            /\ pc[p] \in {"update", "batch", "async"} /\ field' = field
        BY <2>1, <2>2, <3>1
      <3> QED BY <3>2, PaysHeld
    <2> QED BY <2>2, <2>3, <2>4, CountsStay DEF db
  \* All other steps touch neither the tables nor what callers hold.
  <1>9. ASSUME UNCHANGED <<db, field, delta, owed, repeated>>, Hands' PROVE Goal
    BY <1>9, CountsStay DEF db, AgreeInv, OwedIsHeld
  <1>10. ASSUME NEW p \in Callers,
                \/ BatchDone(p) \/ AsyncDone(p) \/ GetMiss(p) \/ Load(p) \/ LoadFindsNothing(p)
                \/ SetHash(p) \/ Expire(p) \/ SetFails(p)
         PROVE  Goal
    <2>1. UNCHANGED <<db, field, delta, owed, repeated>>
      BY <1>10 DEF BatchDone, AsyncDone, GetMiss, Load, LoadFindsNothing, SetHash, Expire, SetFails,
                  DropsSnap, history
    <2>2. \/ pc[p] = "batch" /\ pc' = [pc EXCEPT ![p] = "async"]
          \/ pc[p] = "async" /\ delta[p] = 0 /\ pc' = [pc EXCEPT ![p] = "idle"]
          \/ /\ pc[p] \in {"idle", "load", "set", "expire"}
             /\ \E l \in {"idle", "load", "set", "expire"} : pc' = [pc EXCEPT ![p] = l]
      BY <1>10 DEF BatchDone, AsyncDone, GetMiss, Load, LoadFindsNothing, SetHash, Expire, SetFails, Goto
    <2>3. Hands'
      BY <1>2, <2>1, <2>2 DEF Hands
    <2> QED BY <1>9, <2>1, <2>3
  <1>11. ASSUME KeyExpires \/ UNCHANGED vars PROVE Goal
    <2>1. UNCHANGED <<db, pc, field, delta, owed, repeated>>
      BY <1>11 DEF KeyExpires, threads, vars, history
    <2> QED BY <1>2, <1>9, <2>1 DEF Hands
  <1>12. Goal
    <2> HIDE DEF Goal
    <2> QED
      BY <1>3, <1>4, <1>5, <1>6, <1>7, <1>8, <1>10, <1>11 DEF Next, Request, Step, GetHit
  <1> QED BY <1>1, <1>12 DEF AgreeInv

\* For any number of callers and users: when no write is under way redis says what
\* the row says, and the row the number of users who like and collect.
THEOREM AgreeTheorem == Spec => []CountersAgree
  <1>1. Init => AgreeInv
    <2> SUFFICES ASSUME Init PROVE AgreeInv
      OBVIOUS
    <2>1. CacheInv
      BY InitInv
    <2>2. Hands
      BY DEF Init, Hands
    <2>3. ASSUME NEW f \in Fields PROVE Finite(field, delta, f) /\ owed[f] = Held(field, delta, f)
      <3>1. Due(field, delta, f) = {} /\ Undone(field, delta, f) = {}
        BY DEF Init, Due, Undone
      <3>2. owed[f] = 0
        BY DEF Init, Zero
      <3> QED BY <3>1, <3>2, FS_EmptySet DEF Finite, Held
    <2>4. LikesCounted
      <3>1. Likers = {} /\ collected = {} /\ row["like"] = 0 /\ row["collect"] = 0
        BY FieldNames DEF Init, Likers, Zero
      <3> QED BY <3>1, FS_EmptySet DEF Init, LikesCounted, CountersMatch, Likers
    <2> QED BY <2>1, <2>2, <2>3, <2>4 DEF AgreeInv, OwedIsHeld
  <1>2. AgreeInv => CountersAgree
    <2> SUFFICES ASSUME AgreeInv PROVE CountersAgree
      OBVIOUS
    <2>1. CountersMatch
      BY DEF AgreeInv, LikesCounted
    <2>2. ASSUME cached, \A p \in Callers : pc[p] \notin {"batch", "update", "async"},
                 NEW f \in Fields \ stale
          PROVE  cache[f] = row[f]
      <3>1. \A p \in Callers : delta[p] = 0
        BY <2>2 DEF AgreeInv, Hands
      <3>2. Due(field, delta, f) = {} /\ Undone(field, delta, f) = {}
        BY <3>1 DEF Due, Undone
      <3>3. owed[f] = 0
        BY <3>2, FS_EmptySet DEF AgreeInv, OwedIsHeld, Held
      <3>4. cache[f] \in Int /\ cache[f] + owed[f] = row[f]
        BY <2>2 DEF AgreeInv, CacheInv, CacheFollows, TypeOK, RedisOK
      <3> QED BY <3>3, <3>4
    <2> QED BY <2>1, <2>2 DEF CountersAgree, CacheAgrees
  <1> QED BY <1>1, <1>2, AgreeStep, PTL DEF Spec

-----------------------------------------------------------------------------
\* Comments. Every row is a root or hangs below an older row of the same tree, and
\* an answer that is being written names the root of the row it answers, if that
\* row is still there: ids are not used twice.
Record == [pid : C!Ids \cup {None}, root : C!Ids \cup {None}]
RootOf(j) == IF comments[j].root = None THEN j ELSE comments[j].root

Records == /\ lastId \in 0 .. MaxId
           /\ comments \in [C!Ids -> Record \cup {None}] /\ drafts \subseteq Record
           /\ \A i \in C!Rows : i <= lastId

IsRoot(i)  == comments[i].pid = None /\ comments[i].root = None
IsReply(i) == /\ comments[i].pid \in C!Rows /\ comments[i].pid < i
              /\ comments[i].root = RootOf(comments[i].pid)
              /\ comments[i].root \in C!Rows /\ comments[comments[i].root].root = None

Tree    == \A i \in C!Rows : IsRoot(i) \/ IsReply(i)
Answers == \A d \in drafts : d.pid \in 1 .. lastId /\ (d.pid \in C!Rows => d.root = RootOf(d.pid))

\* What the client has to get is among the replies of the root it reads.
Paging == /\ cursor \in 0 .. MaxId /\ got \subseteq 1 .. cursor
          /\ present \subseteq (IF reading = None THEN {} ELSE C!Replies(reading))
          /\ PagesAreComplete

TreeInv     == Records /\ Tree /\ Answers
CommentsInv == TreeInv /\ Paging

\* The instance has operators of its own name for those of its libraries.
LEMMA SameCardinality == \A S : C!Cardinality(S) = Cardinality(S)
  BY DEF C!Cardinality, Cardinality, C!IsFiniteSet, IsFiniteSet

\* The id is new, the parent of a reply is there and names its root.
LEMMA InsertKeeps ==
  ASSUME C!Parameters, TreeInv, NEW c \in Record, C!Insert(c),
         c.pid = None => c.root = None,
         c.pid \in C!Rows => c.root = RootOf(c.pid)
  PROVE  /\ lastId' \in 0 .. MaxId /\ comments' \in [C!Ids -> Record \cup {None}]
         /\ \A i \in C!Rows' : i <= lastId'
         /\ Tree' /\ lastId' = lastId + 1 /\ C!Rows' = C!Rows \cup {lastId + 1}
         /\ \A i \in C!Rows : comments'[i] = comments[i] /\ RootOf(i)' = RootOf(i)
         /\ lastId + 1 \notin C!Rows
  <1>1. /\ lastId \in Nat /\ lastId < MaxId /\ lastId' = lastId + 1 /\ MaxId \in Nat
        /\ comments' = [comments EXCEPT ![lastId + 1] = c] /\ comments \in [C!Ids -> Record \cup {None}]
        /\ (c.pid # None => c.pid \in C!Rows) /\ \A i \in C!Rows : i <= lastId
    BY DEF C!Insert, TreeInv, Records, C!Parameters
  <1>2. PICK n \in C!Ids : n = lastId + 1 /\ n \in Nat
    BY <1>1 DEF C!Ids
  <1>3. C!Ids \subseteq Nat /\ None \notin C!Ids /\ None \notin Record /\ C!Rows \subseteq C!Ids
    BY DEF C!Parameters, C!Ids, Record, C!Rows
  <1>4. n \notin C!Rows
    BY <1>1, <1>2, <1>3
  <1>5. comments'[n] = c /\ \A i \in C!Ids \ {n} : comments'[i] = comments[i]
    BY <1>1, <1>2
  <1>6. C!Rows' = C!Rows \cup {n}
    BY <1>2, <1>3, <1>5 DEF C!Rows, C!Ids
  <1>7. \A i \in C!Rows : comments'[i] = comments[i] /\ RootOf(i)' = RootOf(i)
    BY <1>3, <1>4, <1>5 DEF RootOf
  <1>8. lastId' \in 0 .. MaxId /\ comments' \in [C!Ids -> Record \cup {None}] /\ \A i \in C!Rows' : i <= lastId'
    BY <1>1, <1>2, <1>3, <1>6 DEF C!Ids
  <1>9. ASSUME NEW i \in C!Rows PROVE (IsRoot(i) \/ IsReply(i))'
    <2>1. IsRoot(i) \/ IsReply(i)
      BY DEF TreeInv, Tree
    <2>2. CASE IsRoot(i)
      BY <1>7, <2>2 DEF IsRoot
    <2>3. CASE IsReply(i)
      BY <1>6, <1>7, <2>3 DEF IsReply
    <2> QED BY <2>1, <2>2, <2>3
  <1>10. (IsRoot(n) \/ IsReply(n))'
    <2>1. CASE c.pid = None
      BY <1>5, <2>1 DEF IsRoot
    <2>2. CASE c.pid # None
      <3>1. PICK p \in C!Rows : p = c.pid /\ c.root = RootOf(p) /\ p < n
        BY <1>1, <1>2, <1>3, <2>2
      <3>2. RootOf(p) \in C!Rows /\ comments[RootOf(p)].root = None
        <4>1. IsRoot(p) \/ IsReply(p)
          BY DEF TreeInv, Tree
        <4> QED BY <1>3, <4>1 DEF IsRoot, IsReply, RootOf
      <3> QED BY <1>5, <1>6, <1>7, <3>1, <3>2 DEF IsReply
    <2> QED BY <2>1, <2>2
  <1>11. Tree'
    BY <1>6, <1>9, <1>10 DEF Tree
  <1> QED BY <1>1, <1>2, <1>4, <1>6, <1>7, <1>8, <1>11

\* A cascade takes what hangs below the row, all of it if it is a root, and
\* nothing else that others name as their root.
LEMMA CascadeCloses ==
  ASSUME NEW i \in C!Rows
  PROVE  /\ i \in C!Cascade(i) /\ C!Cascade(i) \subseteq C!Rows
         /\ \A j \in C!Rows : comments[j].pid \in C!Cascade(i) => j \in C!Cascade(i)
         /\ \A ids \in SUBSET C!Rows : i \in ids /\ C!Cascaded(ids) => C!Cascade(i) \subseteq ids
  BY DEF C!Cascade, C!Cascaded

LEMMA RootsTakeTrees ==
  ASSUME C!Parameters, TreeInv, NEW i \in C!Rows, NEW j \in C!Rows \ C!Cascade(i), comments[j].root # None
  PROVE  comments[j].root \notin C!Cascade(i)
  <1> DEFINE gone == C!Cascade(i)
  <1> SUFFICES ASSUME comments[j].root \in gone PROVE FALSE
    OBVIOUS
  <1>0. C!Ids \subseteq Nat /\ C!Rows \subseteq C!Ids /\ None \notin C!Ids /\ None \notin C!Rows
    BY DEF C!Parameters, C!Ids, C!Rows
  <1>1. PICK r : r = comments[j].root
    OBVIOUS
  <1>2. r \in C!Rows /\ comments[r].root = None /\ r \in gone
    BY <1>1 DEF TreeInv, Tree, IsRoot, IsReply
  <1>3. IsRoot(r)
    BY <1>0, <1>2 DEF TreeInv, Tree, IsReply, RootOf
  \* A root is in the cascade only as its beginning.
  <1>4. r = i
    <2> SUFFICES ASSUME r # i PROVE FALSE
      OBVIOUS
    <2>1. i \in gone \ {r} /\ gone \ {r} \in SUBSET C!Rows
      BY CascadeCloses
    <2>2. C!Cascaded(gone \ {r})
      BY <1>0, <1>3, CascadeCloses DEF C!Cascaded, IsRoot
    <2> QED BY <1>2, <2>1, <2>2, CascadeCloses
  \* The oldest row of the tree that would stay has its parent in the cascade.
  <1> DEFINE stay == {k \in C!Rows \ gone : comments[k].root = r}
  <1>5. stay \subseteq Nat /\ stay # {}
    BY <1>0, <1>1
  <1> HIDE DEF gone
  <1>6. PICK k \in stay : \A l \in stay : k <= l
    <2> HIDE DEF stay
    <2> QED BY <1>5, Least
  <1>7. k \in C!Rows /\ k \notin gone /\ comments[k].root = r /\ IsReply(k)
    BY <1>0, <1>2, <1>6 DEF TreeInv, Tree, IsRoot
  <1>8. PICK p \in C!Rows : p = comments[k].pid /\ p < k /\ r = RootOf(p)
    BY <1>7 DEF IsReply
  <1>9. p \notin gone
    BY <1>7, <1>8, CascadeCloses DEF gone
  <1>10. p # r
    BY <1>2, <1>9
  <1>11. comments[p].root = r
    BY <1>8, <1>10 DEF RootOf
  <1>12. p \in stay
    BY <1>8, <1>9, <1>11
  <1>13. k <= p /\ p < k /\ p \in Nat /\ k \in Nat
    BY <1>0, <1>6, <1>7, <1>8, <1>12
  <1> QED BY <1>13

\* Every step of an author, of a deletion or of the client keeps the trees whole.
LEMMA TreeStep ==
  ASSUME C!Parameters, TreeInv, [C!Next]_(C!vars)
  PROVE  TreeInv'
  <1>0. /\ C!Ids \subseteq Nat /\ C!Rows \subseteq C!Ids /\ None \notin C!Ids /\ None \notin C!Rows
        /\ None \notin Record
    BY DEF C!Parameters, C!Ids, C!Rows, Record
  <1>1. /\ lastId \in 0 .. MaxId /\ lastId \in Nat /\ comments \in [C!Ids -> Record \cup {None}]
        /\ drafts \subseteq Record /\ (\A i \in C!Rows : i <= lastId /\ 1 <= i)
    BY <1>0 DEF TreeInv, Records, C!Parameters, C!Ids
  <1>2. \A i \in C!Rows : comments[i] \in Record
    BY <1>0, <1>1 DEF C!Rows
  \* A row that is inserted: for the drafts the rows they name stay as they are.
  <1>3. ASSUME NEW c \in Record, C!Insert(c), c.pid = None => c.root = None,
               c.pid \in C!Rows => c.root = RootOf(c.pid), drafts' \subseteq drafts
        PROVE  TreeInv'
    <2>1. /\ lastId' \in 0 .. MaxId /\ comments' \in [C!Ids -> Record \cup {None}]
          /\ \A i \in C!Rows' : i <= lastId'
          /\ Tree' /\ lastId' = lastId + 1 /\ C!Rows' = C!Rows \cup {lastId + 1}
          /\ \A i \in C!Rows : comments'[i] = comments[i] /\ RootOf(i)' = RootOf(i)
      BY <1>3, InsertKeeps
    <2>2. ASSUME NEW d \in drafts
          PROVE  d.pid \in 1 .. lastId' /\ (d.pid \in C!Rows' => d.root = RootOf(d.pid)')
      <3>1. d.pid \in 1 .. lastId /\ (d.pid \in C!Rows => d.root = RootOf(d.pid))
        BY DEF TreeInv, Answers
      <3>2. d.pid # lastId + 1 /\ d.pid \in 1 .. lastId'
        BY <1>1, <2>1, <3>1
      <3>3. ASSUME NEW i, i = d.pid, i \in C!Rows' PROVE d.root = RootOf(i)'
        BY <2>1, <3>1, <3>2, <3>3
      <3> QED BY <3>2, <3>3
    <2>3. Answers'
      BY <1>3, <2>2 DEF Answers
    <2> QED BY <1>1, <1>3, <2>1, <2>3 DEF TreeInv, Records
  <1>4. ASSUME UNCHANGED <<comments, lastId>>, drafts' \subseteq drafts PROVE TreeInv'
    BY <1>4 DEF TreeInv, Records, Tree, Answers, IsRoot, IsReply, RootOf, C!Rows
  <1>5. ASSUME C!CreateRoot PROVE TreeInv'
    <2>1. PICK c : c = [pid |-> None, root |-> None]
      OBVIOUS
    <2>2. c \in Record /\ C!Insert(c) /\ c.pid = None /\ c.root = None /\ drafts' = drafts
      BY <1>5, <2>1 DEF C!CreateRoot, Record
    <2> QED BY <1>0, <1>3, <2>2
  <1>6. ASSUME NEW c \in drafts, C!CreateReply(c) PROVE TreeInv'
    <2>1. /\ c \in Record /\ c.pid \in 1 .. lastId /\ (c.pid \in C!Rows => c.root = RootOf(c.pid))
          /\ drafts' \subseteq drafts
      BY <1>1, <1>6 DEF TreeInv, Answers, C!CreateReply
    <2>2. c.pid # None
      BY <1>0, <1>1, <2>1 DEF C!Ids, C!Parameters
    <2>3. C!Insert(c) \/ UNCHANGED <<comments, lastId>>
      BY <1>6 DEF C!CreateReply
    <2> QED BY <1>3, <1>4, <2>1, <2>2, <2>3
  <1>7. ASSUME NEW i \in C!Ids, C!Answer(i) PROVE TreeInv'
    <2>1. PICK d : d = [pid |-> i, root |-> RootOf(i)]
      OBVIOUS
    <2>2. i \in C!Rows /\ drafts' = drafts \cup {d} /\ UNCHANGED <<comments, lastId>>
      BY <1>7, <2>1 DEF C!Answer, RootOf
    <2>3. d \in Record /\ d.pid = i /\ d.root = RootOf(i)
      <3>1. RootOf(i) \in C!Ids
        BY <1>0, <1>2, <2>2 DEF RootOf, Record
      <3> QED BY <2>1, <3>1 DEF Record
    <2>4. C!Rows' = C!Rows /\ \A j : RootOf(j)' = RootOf(j)
      BY <2>2 DEF C!Rows, RootOf
    <2>5. Answers'
      <3>1. d.pid \in 1 .. lastId
        BY <1>0, <1>1, <2>2, <2>3
      <3> QED BY <2>2, <2>3, <2>4, <3>1 DEF TreeInv, Answers
    <2>6. Records' /\ Tree'
      BY <2>2, <2>3 DEF TreeInv, Records, Tree, IsRoot, IsReply, RootOf, C!Rows
    <2> QED BY <2>5, <2>6 DEF TreeInv
  <1>8. ASSUME NEW i \in C!Ids, C!Delete(i) PROVE TreeInv'
    <2> DEFINE gone == C!Cascade(i)
    <2>1. /\ i \in C!Rows /\ UNCHANGED <<lastId, drafts>>
          /\ comments' = [j \in C!Ids |-> IF j \in gone THEN None ELSE comments[j]]
      BY <1>8 DEF C!Delete
    <2>2. C!Rows' = C!Rows \ gone /\ \A j \in C!Rows \ gone : comments'[j] = comments[j] /\ RootOf(j)' = RootOf(j)
      BY <1>0, <2>1 DEF C!Rows, RootOf
    <2>3. /\ \A j \in C!Rows : comments[j].pid \in gone => j \in gone
          /\ \A j \in C!Rows \ gone : comments[j].root # None => comments[j].root \notin gone
      BY <2>1, CascadeCloses, RootsTakeTrees
    <2> HIDE DEF gone
    <2>4. Records'
      BY <1>0, <1>1, <2>1, <2>2 DEF Records
    <2>5. ASSUME NEW j \in C!Rows \ gone PROVE (IsRoot(j) \/ IsReply(j))'
      <3>1. IsRoot(j) \/ IsReply(j)
        BY DEF TreeInv, Tree
      <3>2. CASE IsRoot(j)
        BY <2>2, <3>2 DEF IsRoot
      <3>3. CASE IsReply(j)
        <4>1. PICK p, r \in C!Rows : p = comments[j].pid /\ r = comments[j].root
          BY <3>3 DEF IsReply
        <4>2. p \notin gone /\ r \notin gone /\ p < j /\ r = RootOf(p) /\ comments[r].root = None
          BY <1>0, <2>3, <3>3, <4>1 DEF IsReply
        <4> QED BY <2>2, <4>1, <4>2 DEF IsReply
      <3> QED BY <3>1, <3>2, <3>3
    <2>6. Tree'
      BY <2>2, <2>5 DEF Tree
    <2>7. Answers'
      <3>1. ASSUME NEW d \in drafts, NEW j, j = d.pid, j \in C!Rows' PROVE d.root = RootOf(j)'
        BY <2>2, <3>1 DEF TreeInv, Answers
      <3> QED BY <2>1, <3>1 DEF TreeInv, Answers
    <2> QED BY <2>4, <2>6, <2>7 DEF TreeInv
  <1>9. ASSUME \/ C!GetMoreReplies \/ C!CloseReplies \/ UNCHANGED C!vars
               \/ \E i \in C!Ids : C!OpenReplies(i)
        PROVE  TreeInv'
    BY <1>4, <1>9 DEF C!GetMoreReplies, C!CloseReplies, C!OpenReplies, C!vars
  <1> QED BY <1>5, <1>6, <1>7, <1>8, <1>9 DEF C!Next

\* Whatever is deleted while answers are written, for any number of comments: every
\* reply keeps its parent and the root of its tree.
THEOREM OrphansTheorem == C!Spec => []NoOrphans
  <1>1. C!Init => TreeInv
    <2> SUFFICES ASSUME C!Init PROVE TreeInv
      OBVIOUS
    <2>1. C!Rows = {}
      BY DEF C!Init, C!Rows
    <2>2. Records
      BY <2>1, CommentsAssumption DEF C!Init, Records, C!Parameters
    <2> QED BY <2>1, <2>2 DEF C!Init, TreeInv, Tree, Answers
  <1>2. TreeInv /\ [C!Next]_(C!vars) => TreeInv'
    BY CommentsAssumption, TreeStep
  <1>3. TreeInv => NoOrphans
    BY DEF TreeInv, Tree, IsRoot, IsReply, NoOrphans, C!NoOrphans
  <1> QED BY <1>1, <1>2, <1>3, PTL DEF C!Spec

\* A page holds the next replies: what is passed over is in it, and it goes on
\* from its newest.
LEMMA PageIsNext ==
  ASSUME C!Parameters, NEW r, NEW from \in Nat, NEW page, page = C!FindRepliesByRid(r, from), page # {}
  PROVE  /\ page \subseteq C!Ids /\ page \subseteq C!Replies(r) /\ (\A i \in page : i > from)
         /\ \E m \in page : /\ \A i \in page : i <= m
                            /\ m = CHOOSE i \in page : \A j \in page : j <= i
                            /\ \A i \in C!Replies(r) : from < i /\ i <= m => i \in page
  <1> DEFINE ids == {i \in C!Replies(r) : i > from}
  <1>1. /\ MaxId \in Nat /\ C!Ids = 1 .. MaxId /\ C!Replies(r) \subseteq C!Ids /\ ids \subseteq C!Ids
        /\ Limit \in Nat
    BY DEF C!Parameters, C!Ids, C!Replies, C!Rows
  <1>2. page = {i \in ids : C!Cardinality({j \in ids : j < i}) < Limit}
    BY DEF C!FindRepliesByRid, C!FirstOf
  <1>3. page \subseteq ids
    BY <1>2
  <1>4. PICK m \in page : \A i \in page : i <= m
    BY <1>1, <1>3, Greatest
  <1>5. m = CHOOSE i \in page : \A j \in page : j <= i
    <2>1. PICK l : l = CHOOSE i \in page : \A j \in page : j <= i
      OBVIOUS
    <2>2. l \in page /\ \A j \in page : j <= l
      BY <1>4, <2>1
    <2>3. l <= m /\ m <= l /\ l \in Nat /\ m \in Nat
      BY <1>1, <1>3, <1>4, <2>2
    <2> QED BY <2>1, <2>3
  <1>6. ASSUME NEW i \in C!Replies(r), from < i, i <= m PROVE i \in page
    <2> DEFINE before(k) == {j \in ids : j < k}
    <2>1. i \in ids /\ m \in ids /\ i \in Nat /\ m \in Nat
      BY <1>1, <1>3, <1>6
    <2>2. before(i) \subseteq before(m)
      BY <1>1, <1>6, <2>1
    <2>3. IsFiniteSet(before(m))
      <3>1. IsFiniteSet(1 .. MaxId)
        <4>1. \A a, b \in Int : IsFiniteSet(a .. b)
          BY FS_Interval
        <4> QED BY <1>1, <4>1
      <3>2. before(m) \subseteq 1 .. MaxId
        BY <1>1
      <3> QED BY <3>1, <3>2, FS_Subset
    <2> HIDE DEF before
    <2>4. /\ Cardinality(before(i)) <= Cardinality(before(m))
          /\ Cardinality(before(i)) \in Nat /\ Cardinality(before(m)) \in Nat
      BY <2>2, <2>3, FS_Subset, FS_CardinalityType
    <2>5. C!Cardinality(before(m)) < Limit
      BY <1>2 DEF before
    <2>6. Cardinality(before(m)) < Limit
      BY <2>5, SameCardinality
    <2>7. Cardinality(before(i)) < Limit
      BY <1>1, <2>4, <2>6
    <2>8. C!Cardinality(before(i)) < Limit
      BY <2>7, SameCardinality
    <2> QED BY <1>2, <2>1, <2>8 DEF before
  <1> QED BY <1>1, <1>3, <1>4, <1>5, <1>6

\* ... and what the client has to get within its reach.
LEMMA PagingStep ==
  ASSUME C!Parameters, CommentsInv, [C!Next]_(C!vars)
  PROVE  Paging'
  <1>0. /\ MaxId \in Nat /\ C!Ids \subseteq Nat /\ C!Rows \subseteq C!Ids /\ None \notin C!Ids
        /\ None \notin Record /\ None \notin C!Rows
    BY DEF C!Parameters, C!Ids, C!Rows, Record
  <1>1. /\ cursor \in 0 .. MaxId /\ cursor \in Nat /\ got \subseteq 1 .. cursor
        /\ present \subseteq (IF reading = None THEN {} ELSE C!Replies(reading))
        /\ ~twice /\ \A i \in present : i <= cursor => i \in got
    BY <1>0 DEF CommentsInv, Paging, PagesAreComplete, C!PagesAreComplete
  <1>2. present \subseteq C!Ids
    BY <1>0, <1>1 DEF C!Replies
  \* Replies are only added, or go together with what is to be got.
  <1>3. ASSUME UNCHANGED <<reading, cursor, got, twice>>, present' \subseteq present,
               \A i \in present' : reading # None => i \in C!Replies(reading)'
        PROVE  Paging'
    BY <1>1, <1>3 DEF Paging, PagesAreComplete, C!PagesAreComplete
  <1>4. ASSUME NEW c \in Record, C!Insert(c), c.pid = None => c.root = None,
               c.pid \in C!Rows => c.root = RootOf(c.pid),
               UNCHANGED <<reading, cursor, got, present, twice>>
        PROVE  Paging'
    <2>1. C!Rows \subseteq C!Rows' /\ \A i \in C!Rows : comments'[i] = comments[i]
      BY <1>4, InsertKeeps DEF CommentsInv
    <2>2. \A i \in present : reading # None => i \in C!Replies(reading)'
      BY <1>1, <1>4, <2>1 DEF C!Replies
    <2> QED BY <1>3, <1>4, <2>2
  <1>5. ASSUME UNCHANGED <<comments, reading, cursor, got, present, twice>> PROVE Paging'
    BY <1>1, <1>3, <1>5 DEF C!Replies, C!Rows
  <1>6. ASSUME C!CreateRoot PROVE Paging'
    <2>1. PICK c : c = [pid |-> None, root |-> None]
      OBVIOUS
    <2>2. /\ c \in Record /\ C!Insert(c) /\ c.pid = None /\ c.root = None
          /\ UNCHANGED <<reading, cursor, got, present, twice>>
      BY <1>6, <2>1 DEF C!CreateRoot, Record
    <2> QED BY <1>0, <1>4, <2>2
  <1>7. ASSUME NEW c \in drafts, C!CreateReply(c) PROVE Paging'
    <2>1. c \in Record /\ c.pid \in 1 .. lastId /\ (c.pid \in C!Rows => c.root = RootOf(c.pid))
      BY DEF CommentsInv, TreeInv, Answers, Records
    <2>2. c.pid # None
      BY <2>1 DEF C!Ids, C!Parameters, CommentsInv, TreeInv, Records
    <2>3. C!Insert(c) \/ UNCHANGED <<comments, lastId>>
      BY <1>7 DEF C!CreateReply
    <2>4. UNCHANGED <<reading, cursor, got, present, twice>>
      BY <1>7 DEF C!CreateReply
    <2> QED BY <1>4, <1>5, <2>1, <2>2, <2>3, <2>4
  <1>8. ASSUME NEW i \in C!Ids, C!Delete(i) PROVE Paging'
    <2> DEFINE gone == C!Cascade(i)
    <2>1. /\ UNCHANGED <<reading, cursor, got, twice>> /\ present' = present \ gone
          /\ comments' = [j \in C!Ids |-> IF j \in gone THEN None ELSE comments[j]]
      BY <1>8 DEF C!Delete
    <2> HIDE DEF gone
    <2>2. ASSUME NEW j \in present', reading # None PROVE j \in C!Replies(reading)'
      <3>1. j \in C!Replies(reading) /\ j \in C!Rows /\ j \in C!Ids /\ j \notin gone
        BY <1>0, <1>1, <2>1, <2>2 DEF C!Replies
      <3>2. comments'[j] = comments[j] /\ comments[j] # None
        BY <2>1, <3>1 DEF C!Rows
      <3> QED BY <2>1, <3>1, <3>2 DEF C!Replies, C!Rows
    <2> QED BY <1>3, <2>1, <2>2
  <1>9. ASSUME NEW r \in C!Ids, C!OpenReplies(r) PROVE Paging'
    <2>1. /\ reading' = r /\ cursor' = 0 /\ got' = {} /\ present' = C!Replies(r) /\ twice' = FALSE
          /\ comments' = comments
      BY <1>9 DEF C!OpenReplies
    <2>2. C!Replies(r)' = C!Replies(r) /\ \A i \in C!Replies(r) : i \in Nat /\ i > 0
      BY <1>0, <2>1 DEF C!Replies, C!Rows, C!Ids
    <2>3. present' \subseteq (IF reading' = None THEN {} ELSE C!Replies(reading)')
      BY <1>0, <2>1, <2>2
    <2> QED BY <1>0, <2>1, <2>2, <2>3 DEF Paging, PagesAreComplete, C!PagesAreComplete
  <1>10. ASSUME C!GetMoreReplies PROVE Paging'
    <2>1. PICK page : page = C!FindRepliesByRid(reading, cursor)
      OBVIOUS
    <2>2. /\ reading # None /\ page # {} /\ got' = got \cup page
          /\ twice' = (twice \/ page \cap got # {})
          /\ cursor' = CHOOSE i \in page : \A j \in page : j <= i
          /\ UNCHANGED <<comments, reading, present>>
      BY <1>10, <2>1 DEF C!GetMoreReplies
    <2>3. page \subseteq C!Ids /\ page \subseteq C!Replies(reading) /\ (\A i \in page : i > cursor)
      BY <1>1, <2>1, <2>2, PageIsNext
    <2>4. PICK m \in page : /\ \A i \in page : i <= m
                            /\ m = CHOOSE i \in page : \A j \in page : j <= i
                            /\ \A i \in C!Replies(reading) : cursor < i /\ i <= m => i \in page
      BY <1>1, <2>1, <2>2, PageIsNext
    <2>5. cursor' = m /\ m \in 1 .. MaxId /\ cursor < m
      BY <2>2, <2>3, <2>4 DEF C!Ids
    <2>6. got' \subseteq 1 .. cursor'
      <3>1. page \subseteq 1 .. m
        BY <2>3, <2>4, <2>5 DEF C!Ids
      <3>2. 1 .. cursor \subseteq 1 .. m
        BY <1>1, <2>5
      <3> QED BY <1>1, <2>2, <2>5, <3>1, <3>2
    <2>7. ~twice'
      <3>1. page \cap got = {}
        BY <1>1, <2>3 DEF C!Ids
      <3> QED BY <1>1, <2>2, <3>1
    <2>8. ASSUME NEW i \in present', i <= cursor' PROVE i \in got'
      <3>1. i \in present /\ i \in C!Replies(reading) /\ i \in Nat /\ i <= m
        BY <1>0, <1>1, <1>2, <2>2, <2>5, <2>8
      <3>2. CASE i <= cursor
        BY <1>1, <2>2, <3>1, <3>2
      <3>3. CASE ~(i <= cursor)
        BY <1>1, <2>2, <2>4, <3>1, <3>3
      <3> QED BY <3>2, <3>3
    <2>9. present' \subseteq (IF reading' = None THEN {} ELSE C!Replies(reading)')
      BY <1>1, <2>2 DEF C!Replies, C!Rows
    <2>10. cursor' \in 0 .. MaxId
      BY <1>0, <2>5
    <2> QED BY <2>6, <2>7, <2>8, <2>9, <2>10 DEF Paging, PagesAreComplete, C!PagesAreComplete
  <1>11. ASSUME C!CloseReplies PROVE Paging'
    BY <1>0, <1>11 DEF C!CloseReplies, Paging, PagesAreComplete, C!PagesAreComplete
  <1>12. ASSUME (\E i \in C!Ids : C!Answer(i)) \/ UNCHANGED C!vars PROVE Paging'
    BY <1>5, <1>12 DEF C!Answer, C!vars
  <1> QED BY <1>6, <1>7, <1>8, <1>9, <1>10, <1>11, <1>12 DEF C!Next

\* For any number of comments and any size of a page: a client that pages on from the
\* last id gets each reply once and misses none that was there all the time.
THEOREM PagesTheorem == C!Spec => []PagesAreComplete
  <1>1. C!Init => CommentsInv
    <2> SUFFICES ASSUME C!Init PROVE CommentsInv
      OBVIOUS
    <2>1. C!Rows = {}
      BY DEF C!Init, C!Rows
    <2>2. TreeInv
      BY <2>1, CommentsAssumption DEF C!Init, TreeInv, Tree, Answers, Records, C!Parameters
    <2>3. Paging
      BY CommentsAssumption DEF C!Init, Paging, PagesAreComplete, C!PagesAreComplete, C!Parameters
    <2> QED BY <2>2, <2>3 DEF CommentsInv
  <1>2. CommentsInv /\ [C!Next]_(C!vars) => CommentsInv'
    BY CommentsAssumption, TreeStep, PagingStep DEF CommentsInv
  <1>3. CommentsInv => PagesAreComplete
    BY DEF CommentsInv, Paging
  <1> QED BY <1>1, <1>2, <1>3, PTL DEF C!Spec
=============================================================================
