---------------------------- MODULE ServicesProofs ----------------------------
(***************************************************************************)
(* Proofs about the components of MCServices: Articles for every number of *)
(* requests, authors and articles; TimeoutFailover for every number of     *)
(* callers and providers, every threshold and every behaviour of the       *)
(* providers; Scheduler for every number of validations started and        *)
(* stopped; Balancer for all weights.                                      *)
(***************************************************************************)
EXTENDS MCServices, Sequences, Places

-----------------------------------------------------------------------------
(* Articles. *)


Locks(r) == req[r].at \in {"draft", "both"}

\* A transaction that holds a row will write the row of its author, and nobody else
\* can have made the row that of another: ids below the counter are not given again.
LockersOwn == \A r \in Requests :
  Locks(r) => /\ req[r].id <= lastId
              /\ req[r].row.status = "published"
              /\ articles[req[r].id] # None => articles[req[r].id].author = req[r].row.author

\* Commit joins the author's and the readers' row, so that it matters that both and
\* the transaction have the same author.
IInv == TablesInv /\ LockersOwn

\* Requests are what their place says.
LEMMA RequestTypes ==
  ASSUME TypeOK, NEW r \in Requests
  PROVE  /\ Locks(r) => req[r].id \in Ids /\ req[r].row \in Article
         /\ req[r].at = "miss" => req[r].key \in Keys
         /\ req[r].at = "fill" => req[r].key \in Keys /\ req[r].art \in Article
BY DEF TypeOK, Requested, Locks, Idle

\* A request that holds no lock before and after its step, and touches no table.
LEMMA ReadingStep ==
  ASSUME TypeOK, TypeOK', OneLocker, RowsOwned, PublishedAgrees, LockersOwn,
         UNCHANGED <<articles, published, lastId>>,
         NEW r \in Requests, NEW new, req' = [req EXCEPT ![r] = new],
         new.at \notin {"draft", "both"}
  PROVE  OneLocker' /\ RowsOwned' /\ PublishedAgrees' /\ LockersOwn'
<1>1. \A q \in Requests : Locks(q)' => Locks(q) /\ req'[q] = req[q]
  BY DEF TypeOK, Locks
<1>2. OneLocker' /\ LockersOwn'
  BY <1>1 DEF OneLocker, LockersOwn, Locks
<1>3. RowsOwned' /\ PublishedAgrees'
  BY DEF RowsOwned, PublishedAgrees, Owned
<1> QED
  BY <1>2, <1>3

\* Types are kept.
LEMMA TypeStep ==
  ASSUME Constants, TypeOK, [Next]_vars
  PROVE  TypeOK'
<1> USE DEF TypeOK, Constants, vars, tables
<1>1. ASSUME NEW r \in Requests, NEW u \in Users, NEW t \in Texts, Edit(r, u, t)
      PROVE  TypeOK'
  <2>1. Edited(u, t) \in Article
    BY DEF Edited, Article, Status
  <2>2. articles' \in [Ids -> Article \union {None}] /\ lastId' \in 0 .. MaxRows
    <3>1. CASE Insert(u, t)
      <4>1. lastId' \in 0 .. MaxRows
        BY <3>1 DEF Insert
      <4> QED
        BY <3>1, <2>1, <4>1 DEF Insert
    <3>2. ASSUME NEW i \in Ids, UpdateById(i, u, t)
          PROVE  articles' \in [Ids -> Article \union {None}] /\ lastId' \in 0 .. MaxRows
      BY <3>2, <2>1 DEF UpdateById
    <3> QED
      BY <1>1, <3>1, <3>2 DEF Edit
  <2>3. writes' \in 0 .. MaxWrites
    BY <1>1 DEF Edit, CanWrite
  <2> QED
    BY <1>1, <2>2, <2>3 DEF Edit
<1>2. ASSUME NEW r \in Requests, NEW u \in Users, NEW t \in Texts, Publish(r, u, t)
      PROVE  TypeOK'
  <2> DEFINE row == [author |-> u, text |-> t, status |-> "published"]
  <2>1. row \in Article
    BY DEF Article, Status
  <2>2. PICK i \in Ids :
          /\ \/ i = lastId + 1 /\ lastId' = i
             \/ Owned(i, u) /\ ~Locked(i) /\ UNCHANGED lastId
          /\ req' = [req EXCEPT ![r] = [at |-> "draft", id |-> i, row |-> row]]
    BY <1>2 DEF Publish
  <2>3. [at |-> "draft", id |-> i, row |-> row] \in Requested
    BY <2>1, <2>2 DEF Requested
  <2>4. lastId' \in 0 .. MaxRows /\ writes' \in 0 .. MaxWrites
    BY <1>2, <2>2 DEF Publish, CanWrite, Ids
  <2> QED
    BY <1>2, <2>2, <2>3, <2>4 DEF Publish
<1>3. ASSUME NEW r \in Requests, Sync(r) PROVE TypeOK'
  <2>1. [req[r] EXCEPT !.at = "both"] \in Requested
    BY <1>3 DEF Sync, Requested, Idle
  <2> QED
    BY <1>3, <2>1 DEF Sync
<1>4. ASSUME NEW r \in Requests, Commit(r) PROVE TypeOK'
  <2> DEFINE i == req[r].id
             w == req[r].row
  <2>1. i \in Ids /\ w \in Article
    BY <1>4, RequestTypes DEF Commit, Locks
  <2>2. published[i] \in Article \union {None}
    BY <2>1
  <2>3. Upsert(published[i], w) \in Article
    BY <2>1, <2>2 DEF Upsert, Article
  <2>4. [author |-> w.author, text |-> w.text] \in [author : Users, text : Texts]
    BY <2>1 DEF Article
  <2>5. articles' \in [Ids -> Article \union {None}]
        /\ published' \in [Ids -> Article \union {None}]
    BY <1>4, <2>1, <2>3 DEF Commit
  <2>6. released' \in [Ids -> SUBSET [author : Users, text : Texts]]
    BY <1>4, <2>1, <2>4 DEF Commit
  <2>7. req' \in [Requests -> Requested]
    BY <1>4 DEF Commit, Requested
  <2> QED
    BY <1>4, <2>5, <2>6, <2>7 DEF Commit
<1>5. ASSUME NEW r \in Requests, Rollback(r) PROVE TypeOK'
  BY <1>5 DEF Rollback, Requested
<1>6. ASSUME NEW r \in Requests, NEW i \in Ids, NEW u \in Users, Withdraw(r, i, u)
      PROVE  TypeOK'
  <2>1. ASSUME NEW row \in Article PROVE [row EXCEPT !.status = "private"] \in Article
    BY <2>1 DEF Article, Status
  <2>2. articles[i] \in Article
        /\ (published[i] # None => published[i] \in Article)
    BY <1>6 DEF Withdraw
  <2>3. writes' \in 0 .. MaxWrites
    BY <1>6 DEF Withdraw, CanWrite
  <2>4. articles' \in [Ids -> Article \union {None}]
    BY <1>6, <2>1, <2>2 DEF Withdraw
  <2>5. published' \in [Ids -> Article \union {None}]
    BY <1>6, <2>1, <2>2 DEF Withdraw
  <2> QED
    BY <1>6, <2>3, <2>4, <2>5 DEF Withdraw
<1>7. ASSUME NEW r \in Requests, NEW k \in Keys, Miss(r, k) PROVE TypeOK'
  BY <1>7 DEF Miss, Requested
<1>8. ASSUME NEW r \in Requests, NEW i \in Ids, GetById(r, i) \/ GetPubById(r, i)
      PROVE  TypeOK'
  <2>1. ASSUME NEW row \in Article \union {None}, NEW k \in Keys
        PROVE  (IF row = None THEN Idle ELSE [at |-> "fill", key |-> k, art |-> row])
                 \in Requested
    BY <2>1 DEF Requested
  <2>2. key(i) \in Keys /\ pubKey(i) \in Keys
    BY DEF key, pubKey, Keys
  <2>3. articles[i] \in Article \union {None} /\ published[i] \in Article \union {None}
    OBVIOUS
  <2>4. CASE GetById(r, i)
    <3>1. req' \in [Requests -> Requested]
      BY <2>1, <2>2, <2>3, <2>4 DEF GetById, Load
    <3> QED
      BY <2>4, <3>1 DEF GetById
  <2>5. CASE GetPubById(r, i)
    <3>1. req' \in [Requests -> Requested]
      BY <2>1, <2>2, <2>3, <2>5 DEF GetPubById, Load
    <3> QED
      BY <2>5, <3>1 DEF GetPubById
  <2> QED
    BY <1>8, <2>4, <2>5
<1>9. ASSUME NEW r \in Requests, AuthorMissing(r) \/ SetEntry(r) PROVE TypeOK'
  <2>1. req' \in [Requests -> Requested]
    BY <1>9 DEF AuthorMissing, SetEntry, Requested
  <2>2. CASE AuthorMissing(r)
    BY <2>1, <2>2 DEF AuthorMissing
  <2>3. CASE SetEntry(r)
    <3>1. req[r].art \in Article
      BY <2>3, RequestTypes DEF SetEntry
    <3>2. cache' \in [Keys -> Article \union {None}]
      BY <2>3, <3>1 DEF SetEntry
    <3>3. UNCHANGED <<articles, published, lastId, writes, released>>
      BY <2>3 DEF SetEntry
    <3> QED
      BY <2>1, <3>2, <3>3
  <2> QED
    BY <1>9, <2>2, <2>3
<1>10. ASSUME NEW k \in Keys, Expire(k) PROVE TypeOK'
  BY <1>10 DEF Expire
<1>11. CASE UNCHANGED vars
  BY <1>11
<1> HIDE DEF TypeOK
<1> QED
  BY <1>1, <1>2, <1>3, <1>4, <1>5, <1>6, <1>7, <1>8, <1>9, <1>10, <1>11 DEF Next

\* Nothing has been written.
LEMMA InitIInv == Constants /\ Init => IInv
<1> SUFFICES ASSUME Constants, Init PROVE IInv
  OBVIOUS
<1>1. TypeOK
  BY DEF Init, TypeOK, Constants, Requested
<1>2. OneLocker /\ RowsOwned /\ PublishedAgrees /\ LockersOwn
  BY DEF Init, OneLocker, RowsOwned, PublishedAgrees, LockersOwn, Locks, Idle
<1> QED
  BY <1>1, <1>2 DEF IInv, TablesInv

\* The statements of authors.
LEMMA WritingStep ==
  ASSUME Constants, IInv, TypeOK', NEW r \in Requests, NEW u \in Users,
         (\E t \in Texts : Edit(r, u, t) \/ Publish(r, u, t))
           \/ (\E i \in Ids : Withdraw(r, i, u))
  PROVE  OneLocker' /\ RowsOwned' /\ PublishedAgrees' /\ LockersOwn'
<1> USE DEF IInv, TablesInv, Constants
<1> DEFINE G == OneLocker' /\ RowsOwned' /\ PublishedAgrees' /\ LockersOwn'
<1>0. lastId \in Nat /\ \A i \in Ids : i \in Nat
  BY DEF TypeOK, Ids
<1>1. ASSUME NEW t \in Texts, Edit(r, u, t), Insert(u, t) PROVE G
  <2> DEFINE n == lastId + 1
  <2>1. n \in Ids /\ lastId' = n /\ req' = req /\ published' = published
        /\ articles' = [articles EXCEPT ![n] = Edited(u, t)]
    BY <1>0, <1>1 DEF Edit, Insert, Ids, TypeOK
  <2>2. articles[n] = None /\ published[n] = None
    BY <2>1, <1>0 DEF RowsOwned, Owned
  <2>3. articles'[n].status = "unpublished" /\ articles'[n] # None
        /\ \A j \in Ids : j # n => articles'[j] = articles[j]
    BY <2>1, <1>1 DEF TypeOK, Edited, Article, Status
  <2>4. PublishedAgrees'
    BY <2>1, <2>2, <2>3 DEF PublishedAgrees
  <2>5. RowsOwned'
    BY <2>1, <2>2, <2>3, <1>0 DEF RowsOwned, Owned
  <2>6. LockersOwn'
    <3> SUFFICES ASSUME NEW q \in Requests, Locks(q)
                 PROVE  /\ req[q].id <= lastId' /\ req[q].row.status = "published"
                        /\ articles'[req[q].id] # None
                             => articles'[req[q].id].author = req[q].row.author
      BY <2>1 DEF LockersOwn, Locks
    <3>1. req[q].id \in Ids /\ req[q].id <= lastId
      BY RequestTypes DEF LockersOwn
    <3> QED
      BY <3>1, <2>1, <2>3, <1>0 DEF LockersOwn
  <2>7. OneLocker'
    BY <2>1 DEF OneLocker
  <2> QED
    BY <2>4, <2>5, <2>6, <2>7
<1>2. ASSUME NEW t \in Texts, NEW i \in Ids, Edit(r, u, t), UpdateById(i, u, t) PROVE G
  <2>1. /\ req' = req /\ published' = published /\ lastId' = lastId
        /\ articles' = [articles EXCEPT ![i] = Edited(u, t)]
        /\ articles[i] # None /\ articles[i].author = u
        /\ \A q \in Requests : Locks(q) => req[q].id # i
    BY <1>2 DEF Edit, UpdateById, Owned, Locked, Locks
  <2>2. articles'[i].status = "unpublished" /\ articles'[i].author = u
        /\ articles'[i] # None
        /\ \A j \in Ids : j # i => articles'[j] = articles[j]
    BY <2>1 DEF TypeOK, Edited, Article, Status
  <2>3. PublishedAgrees' /\ RowsOwned' /\ OneLocker'
    BY <2>1, <2>2 DEF PublishedAgrees, RowsOwned, OneLocker, Owned
  <2>4. LockersOwn'
    BY <2>1, <2>2, RequestTypes DEF LockersOwn, Locks
  <2> QED
    BY <2>3, <2>4
<1>3. ASSUME NEW t \in Texts, Publish(r, u, t) PROVE G
  <2> DEFINE row == [author |-> u, text |-> t, status |-> "published"]
  <2>1. PICK i \in Ids :
          /\ \/ i = lastId + 1 /\ lastId' = i
             \/ Owned(i, u) /\ ~Locked(i) /\ UNCHANGED lastId
          /\ req' = [req EXCEPT ![r] = [at |-> "draft", id |-> i, row |-> row]]
    BY <1>3 DEF Publish
  <2>2. articles' = articles /\ published' = published /\ ~Locks(r)
    BY <1>3 DEF Publish, CanWrite, Locks
  <2>3. \A q \in Requests : Locks(q) => req[q].id # i /\ req[q].id <= lastId'
    BY <2>1, <1>0, RequestTypes DEF LockersOwn, Locked, Locks
  <2>4. req'[r] = [at |-> "draft", id |-> i, row |-> row]
        /\ \A q \in Requests : q # r => req'[q] = req[q]
    BY <2>1 DEF TypeOK
  <2>5. OneLocker'
    BY <2>3, <2>4 DEF OneLocker, Locks
  <2>6. /\ i <= lastId'
        /\ articles[i] # None => articles[i].author = u
    BY <2>1, <1>0 DEF RowsOwned, Owned
  <2>7. LockersOwn'
    BY <2>2, <2>3, <2>4, <2>6 DEF LockersOwn, Locks
  <2>8. PublishedAgrees' /\ RowsOwned'
    BY <2>1, <2>2, <1>0 DEF PublishedAgrees, RowsOwned, Owned
  <2> QED
    BY <2>5, <2>7, <2>8
<1>4. ASSUME NEW i \in Ids, Withdraw(r, i, u) PROVE G
  <2>1. /\ req' = req /\ lastId' = lastId
        /\ articles' = [articles EXCEPT ![i].status = "private"]
        /\ articles[i] # None /\ articles[i] \in Article
        /\ \A q \in Requests : Locks(q) => req[q].id # i
    BY <1>4 DEF Withdraw, Locked, Locks, TypeOK
  <2>2. /\ articles'[i].status = "private" /\ articles'[i].author = articles[i].author
        /\ articles'[i] # None
        /\ \A j \in Ids : j # i => articles'[j] = articles[j]
    <3>1. articles'[i] = [articles[i] EXCEPT !.status = "private"]
          /\ \A j \in Ids : j # i => articles'[j] = articles[j]
      BY <2>1 DEF TypeOK
    <3>2. [articles[i] EXCEPT !.status = "private"] \in Article
      BY <2>1 DEF Article, Status
    <3> QED
      BY <2>1, <3>1, <3>2 DEF Article
  <2>3. \A j \in Ids : /\ j # i => published'[j] = published[j]
                       /\ published'[j] # None => published[j] # None
                                                /\ published'[j].author = published[j].author
    BY <1>4 DEF Withdraw, TypeOK, Article
  <2>4. PublishedAgrees'
    BY <2>2, <2>3 DEF PublishedAgrees
  <2>5. RowsOwned' /\ OneLocker'
    BY <2>1, <2>2, <2>3 DEF RowsOwned, OneLocker, Owned
  <2>6. LockersOwn'
    BY <2>1, <2>2, RequestTypes DEF LockersOwn, Locks
  <2> QED
    BY <2>4, <2>5, <2>6
<1> QED
  BY <1>1, <1>2, <1>3, <1>4 DEF Edit

\* The end of a transaction: both rows get what the author has published.
LEMMA CommittedRows ==
  ASSUME Constants, IInv, NEW r \in Requests, Commit(r)
  PROVE  /\ req[r].id \in Ids /\ req[r].row \in Article /\ Locks(r)
         /\ req[r].id <= lastId /\ req[r].row.status = "published"
         /\ articles'[req[r].id] = req[r].row /\ published'[req[r].id] = req[r].row
         /\ \A j \in Ids : j # req[r].id =>
              articles'[j] = articles[j] /\ published'[j] = published[j]
<1> USE DEF IInv, TablesInv, Constants
<1> DEFINE i == req[r].id
           w == req[r].row
<1>1. i \in Ids /\ w \in Article /\ Locks(r) /\ i <= lastId /\ w.status = "published"
      /\ (articles[i] # None => articles[i].author = w.author)
  BY RequestTypes DEF Commit, Locks, LockersOwn
<1>2. /\ articles'  = [articles EXCEPT ![i] = w]
      /\ published' = [published EXCEPT ![i] = Upsert(published[i], w)]
  BY DEF Commit
<1>3. Upsert(published[i], w) = w
  <2>1. CASE published[i] = None
    BY <2>1 DEF Upsert
  <2>2. CASE published[i] # None
    <3>1. published[i] \in Article /\ published[i].author = w.author
      BY <1>1, <2>2 DEF RowsOwned, Owned, TypeOK
    <3> QED
      BY <1>1, <2>2, <3>1 DEF Upsert, Article
  <2> QED
    BY <2>1, <2>2
<1> QED
  BY <1>1, <1>2, <1>3 DEF TypeOK

\* ... and nobody else holds them.
LEMMA CommittingStep ==
  ASSUME Constants, IInv, TypeOK', NEW r \in Requests, Commit(r)
  PROVE  OneLocker' /\ RowsOwned' /\ PublishedAgrees' /\ LockersOwn'
<1> USE DEF IInv, TablesInv, Constants
<1> DEFINE i == req[r].id
           w == req[r].row
<1>1. /\ i \in Ids /\ w \in Article /\ w # None /\ Locks(r) /\ i <= lastId
      /\ articles'[i] = w /\ published'[i] = w
      /\ \A j \in Ids : j # i => articles'[j] = articles[j] /\ published'[j] = published[j]
  BY CommittedRows
<1>2. req' = [req EXCEPT ![r] = Idle] /\ lastId' = lastId
  BY DEF Commit
<1>3. PublishedAgrees' /\ RowsOwned'
  BY <1>1, <1>2 DEF PublishedAgrees, RowsOwned, Owned
<1>4. \A q \in Requests : Locks(q)' => q # r /\ Locks(q) /\ req'[q] = req[q] /\ req[q].id # i
  BY <1>1, <1>2 DEF TypeOK, Locks, OneLocker, Idle
<1>5. OneLocker'
  BY <1>4 DEF OneLocker, Locks
<1>6. LockersOwn'
  <2> SUFFICES ASSUME NEW q \in Requests, Locks(q)'
               PROVE  /\ req'[q].id <= lastId' /\ req'[q].row.status = "published"
                      /\ articles'[req'[q].id] # None
                           => articles'[req'[q].id].author = req'[q].row.author
    BY DEF LockersOwn
  <2>1. Locks(q) /\ req'[q] = req[q] /\ req[q].id \in Ids /\ req[q].id # i
    BY <1>4, RequestTypes
  <2> QED
    BY <2>1, <1>1, <1>2 DEF LockersOwn
<1> QED
  BY <1>3, <1>5, <1>6

\* Every step preserves the strengthened invariant.
LEMMA NextIInv == Constants /\ IInv /\ [Next]_vars => IInv'
<1> SUFFICES ASSUME Constants, IInv, [Next]_vars
             PROVE  OneLocker' /\ RowsOwned' /\ PublishedAgrees' /\ LockersOwn'
  BY TypeStep DEF IInv, TablesInv
<1> DEFINE G == OneLocker' /\ RowsOwned' /\ PublishedAgrees' /\ LockersOwn'
<1>0. TypeOK' /\ TypeOK /\ OneLocker /\ RowsOwned /\ PublishedAgrees /\ LockersOwn
  BY TypeStep DEF IInv, TablesInv
<1>1. ASSUME NEW r \in Requests, NEW u \in Users,
             (\E t \in Texts : Edit(r, u, t) \/ Publish(r, u, t))
               \/ (\E i \in Ids : Withdraw(r, i, u))
      PROVE  G
  BY <1>0, <1>1, WritingStep
<1>2. ASSUME NEW r \in Requests, Sync(r) PROVE G
  <2>1. /\ Locks(r) /\ req'[r].id = req[r].id /\ req'[r].row = req[r].row
        /\ \A q \in Requests : q # r => req'[q] = req[q]
        /\ UNCHANGED <<articles, published, lastId>>
    BY <1>0, <1>2 DEF Sync, Locks, TypeOK, Requested, Idle, tables
  <2>2. \A q \in Requests : Locks(q)' => Locks(q) /\ req'[q].id = req[q].id
                                        /\ req'[q].row = req[q].row
    BY <2>1 DEF Locks
  <2>3. OneLocker' /\ LockersOwn'
    BY <1>0, <2>1, <2>2 DEF OneLocker, LockersOwn, Locks
  <2>4. RowsOwned' /\ PublishedAgrees'
    BY <1>0, <2>1 DEF RowsOwned, PublishedAgrees, Owned
  <2> QED
    BY <2>3, <2>4
<1>3. ASSUME NEW r \in Requests, Commit(r) PROVE G
  BY <1>0, <1>3, CommittingStep
<1>4. ASSUME NEW r \in Requests,
             Rollback(r) \/ AuthorMissing(r) \/ SetEntry(r)
             \/ (\E k \in Keys : Miss(r, k))
             \/ (\E i \in Ids : GetById(r, i) \/ GetPubById(r, i))
      PROVE  G
  <2>1. UNCHANGED <<articles, published, lastId>>
    BY <1>4 DEF Rollback, AuthorMissing, SetEntry, Miss, GetById, GetPubById, tables
  <2>2. \E new : req' = [req EXCEPT ![r] = new] /\ new.at \notin {"draft", "both"}
    <3>1. CASE Rollback(r) \/ AuthorMissing(r) \/ SetEntry(r)
      BY <3>1 DEF Rollback, AuthorMissing, SetEntry, Idle
    <3>2. ASSUME NEW k \in Keys, Miss(r, k)
          PROVE  \E new : req' = [req EXCEPT ![r] = new] /\ new.at \notin {"draft", "both"}
      <4> WITNESS [at |-> "miss", key |-> k]
      <4> QED
        BY <3>2 DEF Miss
    <3>3. ASSUME NEW row, NEW k, Load(r, row, k)
          PROVE  \E new : req' = [req EXCEPT ![r] = new] /\ new.at \notin {"draft", "both"}
      <4> WITNESS IF row = None THEN Idle ELSE [at |-> "fill", key |-> k, art |-> row]
      <4> QED
        BY <3>3 DEF Load, Idle
    <3> QED
      BY <1>4, <3>1, <3>2, <3>3 DEF GetById, GetPubById
  <2> QED
    BY <1>0, <2>1, <2>2, ReadingStep
<1>5. CASE (\E k \in Keys : Expire(k)) \/ UNCHANGED vars
  <2>1. UNCHANGED <<articles, published, lastId, req>>
    BY <1>5 DEF Expire, vars, tables
  <2> QED
    BY <1>0, <2>1 DEF OneLocker, RowsOwned, PublishedAgrees, LockersOwn, Locks, Owned
<1> QED
  BY <1>1, <1>2, <1>3, <1>4, <1>5 DEF Next

\* An article that its author's table calls published is what readers get, and no
\* row is locked by two transactions or owned by two authors, for any number of
\* requests, authors and articles (dao/article.go:93-208).
THEOREM TablesTheorem == Spec => []TablesInv
<1>1. IInv => TablesInv
  BY DEF IInv
<1> QED
  BY ConstantsAssumption, InitIInv, NextIInv, <1>1, PTL DEF Spec

\* What readers are given was published before: the goroutine that fills the cache
\* carries a released row, and what has been released stays so.
LEMMA ReleaseStep ==
  ASSUME Constants, IInv, TypeOK', ReadersSeeReleases, [Next]_vars
  PROVE  ReadersSeeReleases'
<1> USE DEF Constants, IInv, TablesInv, Released
<1> DEFINE Pub(q, i) == req[q].at = "fill" /\ req[q].key = pubKey(i)
<1>1. ASSUME UNCHANGED <<published, cache, released>>,
             \A q \in Requests, i \in Ids : Pub(q, i)' => Released(i, req[q].art)'
      PROVE  ReadersSeeReleases'
  BY <1>1 DEF ReadersSeeReleases, pubKey
<1>2. ASSUME NEW r \in Requests, NEW new, req' = [req EXCEPT ![r] = new], new.at # "fill",
             UNCHANGED <<published, cache, released>>
      PROVE  ReadersSeeReleases'
  BY <1>1, <1>2 DEF ReadersSeeReleases, TypeOK, pubKey
<1>3. ASSUME NEW r \in Requests, NEW u \in Users, NEW t \in Texts, Edit(r, u, t)
      PROVE  ReadersSeeReleases'
  BY <1>1, <1>3 DEF Edit, ReadersSeeReleases
<1>4. ASSUME NEW r \in Requests, NEW u \in Users, NEW t \in Texts, Publish(r, u, t)
      PROVE  ReadersSeeReleases'
  <2>1. PICK i \in Ids :
          req' = [req EXCEPT ![r] =
            [at |-> "draft", id |-> i,
             row |-> [author |-> u, text |-> t, status |-> "published"]]]
    BY <1>4 DEF Publish
  <2> DEFINE new == [at |-> "draft", id |-> i,
                     row |-> [author |-> u, text |-> t, status |-> "published"]]
  <2>2. UNCHANGED <<published, cache, released>>
    BY <1>4 DEF Publish
  <2>3. new.at # "fill" /\ req' = [req EXCEPT ![r] = new]
    BY <2>1
  <2> HIDE DEF new
  <2> QED
    BY <1>2, <2>2, <2>3
<1>5. ASSUME NEW r \in Requests, Sync(r) PROVE ReadersSeeReleases'
  <2>1. [req[r] EXCEPT !.at = "both"].at # "fill"
    BY <1>5 DEF Sync, TypeOK, Requested, Idle
  <2> QED
    BY <1>2, <1>5, <2>1 DEF Sync, tables
<1>6. ASSUME NEW r \in Requests, Commit(r) PROVE ReadersSeeReleases'
  <2> DEFINE i == req[r].id
             w == req[r].row
  <2>1. /\ i \in Ids /\ published'[i] = w
        /\ \A j \in Ids : j # i => published'[j] = published[j]
    BY <1>6, CommittedRows
  <2>2. /\ [author |-> w.author, text |-> w.text] \in released'[i]
        /\ \A j \in Ids : released[j] \subseteq released'[j]
    BY <1>6, <2>1 DEF Commit, TypeOK
  <2>3. cache' = cache /\ \A q \in Requests : req'[q] = req[q] \/ req'[q] = Idle
    BY <1>6 DEF Commit, TypeOK
  <2>4. \A j \in Ids : Released(j, published[j])'
    BY <2>1, <2>2 DEF ReadersSeeReleases
  <2>5. \A j \in Ids : Released(j, cache[pubKey(j)])'
    BY <2>2, <2>3 DEF ReadersSeeReleases, pubKey
  <2>6. \A j \in Ids, q \in Requests : Pub(q, j)' => Released(j, req[q].art)'
    <3> SUFFICES ASSUME NEW j \in Ids, NEW q \in Requests, Pub(q, j)'
                 PROVE  Released(j, req[q].art)'
      OBVIOUS
    <3>1. req'[q] = req[q] /\ Pub(q, j)
      BY <2>3 DEF Idle, pubKey
    <3>2. Released(j, req[q].art)
      BY <3>1 DEF ReadersSeeReleases
    <3> QED
      BY <2>2, <3>1, <3>2
  <2> QED
    BY <2>4, <2>5, <2>6 DEF ReadersSeeReleases
<1>7. ASSUME NEW r \in Requests, Rollback(r) \/ AuthorMissing(r) PROVE ReadersSeeReleases'
  BY <1>2, <1>7 DEF Rollback, AuthorMissing, Idle, tables
<1>8. ASSUME NEW r \in Requests, NEW i \in Ids, NEW u \in Users, Withdraw(r, i, u)
      PROVE  ReadersSeeReleases'
  <2>1. \A j \in Ids :
          published'[j] # None => /\ published[j] # None
                                  /\ published'[j].author = published[j].author
                                  /\ published'[j].text = published[j].text
    BY <1>8 DEF Withdraw, TypeOK, Article
  <2> QED
    BY <1>8, <2>1 DEF Withdraw, ReadersSeeReleases
<1>9. ASSUME NEW r \in Requests, NEW k \in Keys, Miss(r, k) PROVE ReadersSeeReleases'
  <2>1. req' = [req EXCEPT ![r] = [at |-> "miss", key |-> k]]
        /\ UNCHANGED <<published, cache, released>>
    BY <1>9 DEF Miss, tables
  <2>2. [at |-> "miss", key |-> k].at # "fill"
    OBVIOUS
  <2> QED
    BY <1>2, <2>1, <2>2
<1>10. ASSUME NEW r \in Requests, NEW i \in Ids, GetById(r, i) PROVE ReadersSeeReleases'
  <2>1. \A j \in Ids : key(i) # pubKey(j)
    BY DEF key, pubKey
  <2>2. \A q \in Requests :
          req'[q] = IF q # r THEN req[q] ELSE IF articles[i] = None THEN Idle
                    ELSE [at |-> "fill", key |-> key(i), art |-> articles[i]]
    BY <1>10 DEF GetById, Load, TypeOK
  <2> QED
    BY <1>1, <1>10, <2>1, <2>2 DEF GetById, ReadersSeeReleases, Idle, tables
<1>11. ASSUME NEW r \in Requests, NEW i \in Ids, GetPubById(r, i) PROVE ReadersSeeReleases'
  <2>1. \A j \in Ids : pubKey(i) = pubKey(j) => i = j
    BY DEF pubKey
  <2>2. \A q \in Requests :
          req'[q] = IF q # r THEN req[q] ELSE IF published[i] = None THEN Idle
                    ELSE [at |-> "fill", key |-> pubKey(i), art |-> published[i]]
    BY <1>11 DEF GetPubById, Load, TypeOK
  <2> QED
    BY <1>1, <1>11, <2>1, <2>2 DEF GetPubById, ReadersSeeReleases, Idle, tables
<1>12. ASSUME NEW r \in Requests, SetEntry(r) PROVE ReadersSeeReleases'
  <2>1. \A q \in Requests : req'[q] = req[q] \/ req'[q] = Idle
    BY <1>12 DEF SetEntry, TypeOK
  <2>2. \A j \in Ids : \/ cache'[pubKey(j)] = cache[pubKey(j)]
                       \/ Pub(r, j) /\ cache'[pubKey(j)] = req[r].art
    BY <1>12, RequestTypes DEF SetEntry, TypeOK, pubKey, Keys
  <2>3. UNCHANGED <<published, released>>
    BY <1>12 DEF SetEntry, tables
  <2>4. \A j \in Ids, q \in Requests : Pub(q, j)' => Pub(q, j) /\ req'[q] = req[q]
    BY <2>1 DEF Idle, pubKey
  <2>5. \A j \in Ids, q \in Requests : Pub(q, j)' => Released(j, req[q].art)'
    BY <2>3, <2>4 DEF ReadersSeeReleases
  <2>6. \A j \in Ids : Released(j, cache[pubKey(j)])'
    BY <2>2, <2>3 DEF ReadersSeeReleases, pubKey
  <2>7. \A j \in Ids : Released(j, published[j])'
    BY <2>3 DEF ReadersSeeReleases
  <2> QED
    BY <2>5, <2>6, <2>7 DEF ReadersSeeReleases
<1>13. ASSUME NEW k \in Keys, Expire(k) PROVE ReadersSeeReleases'
  <2>1. \A j \in Ids : cache'[pubKey(j)] = cache[pubKey(j)] \/ cache'[pubKey(j)] = None
    BY <1>13 DEF Expire, TypeOK, pubKey, Keys
  <2> QED
    BY <1>13, <2>1 DEF Expire, ReadersSeeReleases, tables, pubKey
<1>14. CASE UNCHANGED vars
  BY <1>14 DEF vars, tables, ReadersSeeReleases, pubKey
<1> HIDE DEF Constants, IInv, TablesInv, Released
<1> QED
  BY <1>3, <1>4, <1>5, <1>6, <1>7, <1>8, <1>9, <1>10, <1>11, <1>12, <1>13, <1>14 DEF Next

\* Readers get nothing that its author has not published as this article, whatever
\* goroutine fills the cache late and whoever edits or withdraws meanwhile
\* (cache/article.go:131-160).
THEOREM ReleasesTheorem == Spec => []ReadersSeeReleases
<1>1. Init => ReadersSeeReleases
  BY DEF Init, ReadersSeeReleases, Released, Idle, pubKey, Keys
<1>2. IInv /\ ReadersSeeReleases /\ IInv' /\ [Next]_vars => ReadersSeeReleases'
  BY ConstantsAssumption, ReleaseStep DEF IInv, TablesInv
<1> QED
  BY ConstantsAssumption, InitIInv, NextIInv, <1>1, <1>2, PTL DEF Spec

-----------------------------------------------------------------------------
(* TimeoutFailover. *)

LEMMA FailoverCardinality == \A T : F!Cardinality(T) = Cardinality(T)
BY DEF F!Cardinality, Cardinality, F!IsFiniteSet, IsFiniteSet

LEMMA FailoverInit == F!Init => F!TypeOK
BY FailoverAssumption DEF F!Init, F!TypeOK, F!Providers, F!Parameters

LEMMA FailoverTypes ==
  ASSUME F!TypeOK, [F!Next]_(F!vars)
  PROVE  F!TypeOK'
<1>0. N \in Nat \ {0} /\ Threshold \in Nat \ {0}
  BY FailoverAssumption DEF F!Parameters
<1> USE <1>0 DEF F!TypeOK, F!Providers, F!Goto
<1>1. ASSUME NEW c \in Callers, F!LoadIdx(c) \/ F!LoadCnt(c) PROVE F!TypeOK'
  BY <1>1 DEF F!LoadIdx, F!LoadCnt
<1>2. ASSUME NEW c \in Callers, F!SwitchWon(c) \/ F!SwitchLost(c) PROVE F!TypeOK'
  <2>1. F!NewIdx(c) \in F!Providers
    BY DEF F!NewIdx
  <2> QED
    BY <1>2, <2>1 DEF F!SwitchWon, F!SwitchLost
<1>3. ASSUME NEW c \in Callers, F!ResetCnt(c) \/ F!Succeeds(c) \/ F!TimesOut(c) \/ F!Fails(c)
      PROVE  F!TypeOK'
  BY <1>3 DEF F!ResetCnt, F!Succeeds, F!TimesOut, F!Fails
<1>4. CASE UNCHANGED F!vars
  BY <1>4 DEF F!vars
<1> QED
  BY <1>1, <1>2, <1>3, <1>4 DEF F!Next, F!Send

\* Once the threshold is reached a caller can count one more timeout if it is calling,
\* or will call because another has switched.  After each further switch all may do
\* so again but for those that have switched and not yet reset the count.
MayCount == {c \in Callers : \/ pc[c] = "send"
                             \/ pc[c] \in {"load", "switch"} /\ myIdx[c] # idx}
Free     == {c \in Callers : pc[c] # "reset"}

Triangle(k) == k * (k - 1)

Room == cnt >= Threshold =>
  2 * cnt + 2 * Cardinality(MayCount) + Triangle(Cardinality(Free))
    <= 2 * Threshold - 2 + Triangle(Cardinality(Callers) + 1)

FailoverInv == F!TypeOK /\ Room

LEMMA Triangles == \A k, n \in Nat : /\ Triangle(k) \in Int
                                     /\ Triangle(k + 1) = Triangle(k) + 2 * k
                                     /\ k <= n => Triangle(k) <= Triangle(n)
<1> SUFFICES ASSUME NEW k \in Nat, NEW n \in Nat
             PROVE  /\ Triangle(k) \in Int
                    /\ Triangle(k + 1) = Triangle(k) + 2 * k
                    /\ k <= n => Triangle(k) <= Triangle(n)
  OBVIOUS
<1>1. Triangle(k) \in Int /\ Triangle(k + 1) = Triangle(k) + 2 * k
  BY DEF Triangle
<1>2. ASSUME k <= n PROVE Triangle(k) <= Triangle(n)
  <2>1. CASE k = 0
    <3>1. n = 0 \/ n >= 1
      OBVIOUS
    <3>2. n >= 1 => n * (n - 1) >= 0
      OBVIOUS
    <3> QED
      BY <2>1, <3>1, <3>2 DEF Triangle
  <2>2. CASE k # 0
    <3>1. k * (k - 1) <= n * (k - 1)
      BY <1>2, <2>2
    <3>2. n * (k - 1) <= n * (n - 1)
      BY <1>2, <2>2
    <3> QED
      BY <3>1, <3>2 DEF Triangle
  <2> QED
    BY <2>1, <2>2
<1> QED
  BY <1>1, <1>2

LEMMA CountedSets ==
  /\ \A T \in SUBSET Callers : IsFiniteSet(T) /\ Cardinality(T) \in Nat
  /\ \A T \in SUBSET Callers : \A R \in SUBSET T : Cardinality(R) <= Cardinality(T)
  /\ \A T \in SUBSET Callers : \A c \in T : Cardinality(T \ {c}) = Cardinality(T) - 1
BY CallersAssumption, FS_Subset, FS_CardinalityType, FS_RemoveElement

LEMMA RoomStep ==
  ASSUME FailoverInv, [F!Next]_(F!vars)
  PROVE  Room'
<1> DEFINE m == Cardinality(MayCount)
           k == Cardinality(Free)
           n == Cardinality(Callers)
<1>0. N \in Nat \ {0} /\ Threshold \in Nat \ {0} /\ cnt \in Nat
  BY FailoverAssumption DEF F!Parameters, FailoverInv, F!TypeOK
<1>1. /\ MayCount \subseteq Callers /\ Free \subseteq Callers /\ MayCount \subseteq Free
      /\ m \in Nat /\ k \in Nat /\ n \in Nat /\ k <= n
  BY CountedSets DEF MayCount, Free
<1>2. /\ MayCount' \subseteq Callers /\ Free' \subseteq Callers /\ MayCount' \subseteq Free'
      /\ m' \in Nat /\ k' \in Nat
  BY CountedSets DEF MayCount, Free
\* Nobody counts, and nobody else may.
<1>3. ASSUME cnt' = cnt, cnt >= Threshold => MayCount' \subseteq MayCount, Free' = Free
      PROVE  Room'
  <2> SUFFICES ASSUME cnt >= Threshold PROVE Room'
    BY <1>3 DEF Room
  <2>1. m' <= m
    BY <1>1, <1>3, CountedSets
  <2> QED
    BY <1>0, <1>1, <1>2, <1>3, <2>1, Triangles DEF Room, FailoverInv
<1>4. ASSUME cnt' = 0 PROVE Room'
  BY <1>0, <1>4 DEF Room
<1> USE DEF F!Goto, F!TypeOK, FailoverInv
<1>5. ASSUME NEW c \in Callers, F!LoadIdx(c) PROVE Room'
  BY <1>3, <1>5 DEF F!LoadIdx, MayCount, Free
<1>6. ASSUME NEW c \in Callers, F!LoadCnt(c) PROVE Room'
  BY <1>0, <1>3, <1>6 DEF F!LoadCnt, MayCount, Free
<1>7. ASSUME NEW c \in Callers, F!SwitchLost(c) PROVE Room'
  BY <1>3, <1>7 DEF F!SwitchLost, MayCount, Free
<1>8. ASSUME NEW c \in Callers, F!Fails(c) PROVE Room'
  BY <1>3, <1>8 DEF F!Fails, MayCount, Free
<1>9. ASSUME NEW c \in Callers, F!ResetCnt(c) \/ F!Succeeds(c) PROVE Room'
  BY <1>4, <1>9 DEF F!ResetCnt, F!Succeeds
<1>10. ASSUME NEW c \in Callers, F!SwitchWon(c) PROVE Room'
  <2>1. cnt' = cnt /\ Free' = Free \ {c} /\ c \in Free
    BY <1>10 DEF F!SwitchWon, Free
  <2>2. k' = k - 1 /\ m' <= k'
    BY <1>1, <1>2, <2>1, CountedSets
  <2>3. Triangle(k) = Triangle(k') + 2 * k' /\ Triangle(k) \in Int /\ Triangle(k') \in Int
    <3>1. k = k' + 1
      BY <1>1, <1>2, <2>2
    <3> QED
      BY <1>1, <1>2, <3>1, Triangles
  <2>4. Triangle(n + 1) \in Int
    BY <1>1, Triangles
  <2> QED
    BY <1>0, <1>1, <1>2, <2>1, <2>2, <2>3, <2>4 DEF Room
<1>11. ASSUME NEW c \in Callers, F!TimesOut(c) PROVE Room'
  <2>1. /\ cnt' = cnt + 1 /\ Free' = Free /\ c \in MayCount
        /\ MayCount' = MayCount \ {c}
    BY <1>11 DEF F!TimesOut, MayCount, Free
  <2>2. m' = m - 1
    BY <1>1, <2>1, CountedSets
  <2>3. Triangle(k) \in Int /\ Triangle(n + 1) \in Int
    BY <1>1, Triangles
  <2>4. CASE cnt >= Threshold
    BY <1>0, <1>1, <1>2, <2>1, <2>2, <2>3, <2>4 DEF Room
  <2>5. CASE cnt + 1 = Threshold
    <3>1. m <= k
      BY <1>1, CountedSets
    <3>2. Triangle(k + 1) = Triangle(k) + 2 * k /\ Triangle(k + 1) <= Triangle(n + 1)
      BY <1>1, Triangles
    <3> QED
      BY <1>0, <1>1, <1>2, <2>1, <2>2, <2>3, <2>5, <3>1, <3>2 DEF Room
  <2>6. CASE cnt + 1 < Threshold
    BY <1>0, <2>1, <2>6 DEF Room
  <2> QED
    BY <1>0, <2>4, <2>5, <2>6
<1>12. CASE UNCHANGED F!vars
  BY <1>3, <1>12 DEF F!vars, MayCount, Free
<1> HIDE DEF F!Goto, F!TypeOK, FailoverInv
<1> QED
  BY <1>5, <1>6, <1>7, <1>8, <1>9, <1>10, <1>11, <1>12 DEF F!Next, F!Send

\* The provider that is called exists, and the count, which the code does not bound,
\* is bounded by the threshold and the number of callers, however they interleave.
THEOREM CountTheorem == F!Spec => []CountInv
<1>1. F!Init => FailoverInv
  <2> SUFFICES ASSUME F!Init PROVE FailoverInv
    OBVIOUS
  <2>1. ~(cnt >= Threshold)
    BY FailoverAssumption DEF F!Init, F!Parameters
  <2> QED
    BY <2>1, FailoverInit DEF FailoverInv, Room
<1>2. FailoverInv /\ [F!Next]_(F!vars) => FailoverInv'
  BY FailoverTypes, RoomStep DEF FailoverInv
<1>3. FailoverInv => CountInv
  <2> SUFFICES ASSUME FailoverInv PROVE F!CountBounded
    BY DEF FailoverInv, CountInv, F!CountInv
  <2> DEFINE n == Cardinality(Callers)
  <2>1. Threshold \in Nat /\ cnt \in Nat /\ n \in Nat
    BY FailoverAssumption, CallersAssumption, FS_CardinalityType
    DEF F!Parameters, FailoverInv, F!TypeOK
  <2>2. MayCount \subseteq Callers /\ Free \subseteq Callers
    BY DEF MayCount, Free
  <2>3. Cardinality(MayCount) \in Nat /\ Cardinality(Free) \in Nat
    BY <2>2, CountedSets
  <2>4. Triangle(Cardinality(Free)) \in Int /\ Triangle(Cardinality(Free)) >= 0
    <3>1. Triangle(0) = 0
      BY DEF Triangle
    <3> QED
      BY <2>3, <3>1, Triangles
  <2>5. n * (n + 1) = Triangle(n + 1) /\ Triangle(n + 1) \in Nat
    <3>1. Triangle(0) = 0 /\ Triangle(n + 1) = (n + 1) * n
      BY <2>1 DEF Triangle
    <3>2. Triangle(0) <= Triangle(n + 1) /\ Triangle(n + 1) \in Int
      BY <2>1, Triangles
    <3>3. n * (n + 1) = (n + 1) * n
      BY <2>1
    <3> QED
      BY <3>1, <3>2, <3>3
  <2>6. F!Overshoot = Triangle(n + 1) \div 2 - 1
    BY <2>5, FailoverCardinality DEF F!Overshoot
  <2>7. cnt >= Threshold => 2 * (cnt - Threshold + 1) <= Triangle(n + 1)
    BY <2>1, <2>3, <2>4, <2>5 DEF FailoverInv, Room
  <2>8. \A t \in Nat, x \in Int : 2 * x <= t => x <= t \div 2
    OBVIOUS
  <2>9. Triangle(n + 1) \div 2 \in Nat
    BY <2>5
  <2> QED
    BY <2>1, <2>5, <2>6, <2>7, <2>8, <2>9 DEF F!CountBounded
<1> QED
  BY <1>1, <1>2, <1>3, PTL DEF F!Spec

-----------------------------------------------------------------------------
\* Who changes the provider next, and who has changed it and not yet reset the count.
Changing  == {c \in Callers : pc[c] = "switch"}
Resetting == {c \in Callers : pc[c] = "reset"}

\* While the count is at the threshold the first reset is still to come, so every change
\* has a caller that is about to reset; once it is below, only those that have read it
\* before can change the provider.
FewChanges ==
  /\ cnt >= Threshold => changes <= Cardinality(Resetting)
  /\ cnt < Threshold => changes + Cardinality(Changing) <= Cardinality(Callers)

ChangesInv == F!TypeOK /\ FewChanges

LEMMA DisjointCallers ==
  ASSUME NEW T \in SUBSET Callers, NEW R \in SUBSET Callers, T \intersect R = {}
  PROVE  Cardinality(T) + Cardinality(R) <= Cardinality(Callers)
<1>1. IsFiniteSet(T) /\ IsFiniteSet(R) /\ Cardinality(T) \in Nat /\ Cardinality(R) \in Nat
  BY CountedSets
<1>2. Cardinality(T \union R) = Cardinality(T) + Cardinality(R) - Cardinality(T \intersect R)
  BY <1>1, FS_Union
<1>3. Cardinality(T \intersect R) = 0
  BY FS_EmptySet
<1>4. Cardinality(T \union R) <= Cardinality(Callers)
  BY CountedSets
<1> QED
  BY <1>1, <1>2, <1>3, <1>4

LEMMA ChangingSets ==
  /\ Changing \subseteq Callers /\ Resetting \subseteq Callers
  /\ Cardinality(Changing) \in Nat /\ Cardinality(Resetting) \in Nat
  /\ Cardinality(Changing) + Cardinality(Resetting) <= Cardinality(Callers)
<1>1. Changing \subseteq Callers /\ Resetting \subseteq Callers /\ Changing \intersect Resetting = {}
  BY DEF Changing, Resetting
<1> QED
  BY <1>1, CountedSets, DisjointCallers

LEMMA ChangesStep ==
  ASSUME ChangesInv, [F!Next]_(F!vars)
  PROVE  FewChanges'
<1> DEFINE w == Cardinality(Changing)
           r == Cardinality(Resetting)
           n == Cardinality(Callers)
<1>0. /\ Threshold \in Nat \ {0} /\ cnt \in Nat /\ changes \in Nat
      /\ w \in Nat /\ r \in Nat /\ n \in Nat /\ w + r <= n
  BY FailoverAssumption, CountedSets, ChangingSets DEF F!Parameters, ChangesInv, F!TypeOK
<1>1. /\ Changing' \subseteq Callers /\ Resetting' \subseteq Callers
      /\ w' \in Nat /\ r' \in Nat /\ w' + r' <= n
  <2>1. /\ Changing' \subseteq Callers /\ Resetting' \subseteq Callers
        /\ Changing' \intersect Resetting' = {}
    BY DEF Changing, Resetting
  <2> QED
    BY <2>1, CountedSets, DisjointCallers
<1> USE DEF F!Goto, F!TypeOK, ChangesInv
\* Nobody joins those that change, nobody leaves those that reset.
<1>2. ASSUME cnt' = cnt, changes' = changes, Resetting' = Resetting,
             cnt < Threshold => Changing' \subseteq Changing
      PROVE  FewChanges'
  <2>1. cnt < Threshold => w' <= w
    BY <1>2, CountedSets DEF Changing
  <2> QED
    BY <1>0, <1>1, <1>2, <2>1 DEF FewChanges
<1>3. ASSUME cnt' = 0, changes' = changes, Changing' = Changing PROVE FewChanges'
  BY <1>0, <1>1, <1>3 DEF FewChanges
<1>4. ASSUME NEW c \in Callers, F!LoadIdx(c) \/ F!SwitchLost(c) \/ F!Fails(c) PROVE FewChanges'
  BY <1>2, <1>4 DEF F!LoadIdx, F!SwitchLost, F!Fails, Changing, Resetting
<1>5. ASSUME NEW c \in Callers, F!LoadCnt(c) PROVE FewChanges'
  BY <1>0, <1>2, <1>5 DEF F!LoadCnt, Changing, Resetting
<1>6. ASSUME NEW c \in Callers, F!ResetCnt(c) \/ F!Succeeds(c) PROVE FewChanges'
  BY <1>3, <1>6 DEF F!ResetCnt, F!Succeeds, Changing
<1>7. ASSUME NEW c \in Callers, F!SwitchWon(c) PROVE FewChanges'
  <2>1. /\ cnt' = cnt /\ changes' = changes + 1 /\ c \in Changing /\ c \in Resetting'
        /\ Changing' = Changing \ {c} /\ Resetting = Resetting' \ {c}
    BY <1>7 DEF F!SwitchWon, Changing, Resetting
  <2>2. w' = w - 1 /\ r = r' - 1
    BY <1>1, <2>1, CountedSets, ChangingSets
  <2> QED
    BY <1>0, <1>1, <2>1, <2>2 DEF FewChanges
<1>8. ASSUME NEW c \in Callers, F!TimesOut(c) PROVE FewChanges'
  BY <1>0, <1>1, <1>8 DEF F!TimesOut, FewChanges
<1>9. CASE UNCHANGED F!vars
  BY <1>2, <1>9 DEF F!vars, Changing, Resetting
<1> HIDE DEF F!Goto, F!TypeOK, ChangesInv
<1> QED
  BY <1>4, <1>5, <1>6, <1>7, <1>8, <1>9 DEF F!Next, F!Send

\* However the callers interleave, n of them change the provider at most n times before
\* another timeout is counted: a reset that is overtaken by changes costs no more.
THEOREM ChangesTheorem == F!Spec => []ChangesBounded
<1>1. F!Init => ChangesInv
  <2> SUFFICES ASSUME F!Init PROVE FewChanges
    BY FailoverInit DEF ChangesInv
  <2>1. cnt = 0 /\ changes = 0 /\ Threshold \in Nat \ {0}
    BY FailoverAssumption DEF F!Init, F!Parameters
  <2>2. Cardinality(Changing) <= Cardinality(Callers)
    BY ChangingSets, CountedSets
  <2> QED
    BY <2>1, <2>2, ChangingSets DEF FewChanges
<1>2. ChangesInv /\ [F!Next]_(F!vars) => ChangesInv'
  BY FailoverTypes, ChangesStep DEF ChangesInv
<1>3. ChangesInv => ChangesBounded
  <2> SUFFICES ASSUME ChangesInv PROVE changes <= Cardinality(Callers)
    BY FailoverCardinality DEF ChangesBounded, F!ChangesBounded
  <2>1. cnt \in Nat /\ changes \in Nat /\ Threshold \in Nat /\ Cardinality(Callers) \in Nat
    BY FailoverAssumption, CountedSets DEF F!Parameters, ChangesInv, F!TypeOK
  <2> QED
    BY <2>1, ChangingSets DEF ChangesInv, FewChanges
<1> QED
  BY <1>1, <1>2, <1>3, PTL DEF F!Spec

-----------------------------------------------------------------------------
(* Scheduler. *)

\* Goroutines that will cancel what cancelIncr stands for now.
Fresh == {v \in S!Unregistered : prev[v] = cancelIncr}

\* StopsReach is not inductive: a goroutine that registers takes a validation out of
\* reach unless it has captured it.  Each that has yet to register counts as one
\* that will, but for one of those that are fresh.
Budget == Cardinality(S!Unstoppable) + Cardinality(S!Unregistered)
            <= races + (IF Fresh = {} THEN 0 ELSE 1)

\* Validations that have not been asked for have no goroutine.
NotBegun == \A v \in S!Validations : v > started => place[v] = "none"

StopsInv == S!TypeOK /\ NotBegun /\ Budget

\* The sets that are counted are finite.
LEMMA FiniteValidations ==
  \A T \in SUBSET S!Validations : IsFiniteSet(T) /\ Cardinality(T) \in Nat
<1>1. IsFiniteSet(S!Validations)
  BY SchedulerAssumption, FS_Interval DEF S!Validations
<1> QED
  BY <1>1, FS_Subset, FS_CardinalityType

\* Nothing has been started.
LEMMA InitStops == S!Init => StopsInv
<1> SUFFICES ASSUME S!Init PROVE StopsInv
  OBVIOUS
<1>1. S!TypeOK /\ NotBegun
  BY SchedulerAssumption DEF S!Init, S!TypeOK, NotBegun, S!Validations
<1>2. S!Unstoppable = {} /\ S!Unregistered = {} /\ races = 0
  BY DEF S!Init, S!Unstoppable, S!Running, S!Unregistered
<1>3. Budget
  BY <1>2, FS_EmptySet DEF Budget
<1> QED
  BY <1>1, <1>3 DEF StopsInv

\* Types are kept.
LEMMA SchedulerTypes ==
  ASSUME StopsInv, [S!Next]_(S!vars)
  PROVE  S!TypeOK' /\ NotBegun'
<1> USE SchedulerAssumption DEF StopsInv, S!TypeOK, NotBegun, S!Validations
<1>1. ASSUME NEW k \in {"incr", "once"}, S!StartIncrementValidation(k)
      PROVE  S!TypeOK' /\ NotBegun'
  BY <1>1 DEF S!StartIncrementValidation, S!Start
<1>2. CASE S!StopIncrementValidation
  BY <1>2 DEF S!StopIncrementValidation, S!Cancels
<1>3. CASE S!StartFullValidation
  BY <1>3 DEF S!StartFullValidation, S!Start
<1>4. CASE S!StopFullValidation
  BY <1>4 DEF S!StopFullValidation, S!Cancels
<1>5. ASSUME NEW v \in S!Validations, S!Register(v) PROVE S!TypeOK' /\ NotBegun'
  BY <1>5 DEF S!Register, S!Goes
<1>6. ASSUME NEW v \in S!Validations, S!CancelPrevious(v) PROVE S!TypeOK' /\ NotBegun'
  <2>1. cancelled' \subseteq S!Validations
    <3>1. prev[v] \in 0 .. MaxStarts
      OBVIOUS
    <3>2. {prev[v]} \ {0} \subseteq S!Validations
      BY <3>1
    <3> QED
      BY <1>6, <3>2 DEF S!CancelPrevious, S!Cancels
  <2>2. place' = [place EXCEPT ![v] = "run"] /\ place[v] # "none"
        /\ UNCHANGED <<started, kind, prev, cancelIncr, cancelFull, races>>
    BY <1>6 DEF S!CancelPrevious, S!Goes
  <2> QED
    BY <2>1, <2>2
<1>7. ASSUME NEW v \in S!Validations, S!Returns(v) PROVE S!TypeOK' /\ NotBegun'
  BY <1>7 DEF S!Returns, S!Goes
<1>8. CASE UNCHANGED S!vars
  BY <1>8 DEF S!vars
<1> QED
  BY <1>1, <1>2, <1>3, <1>4, <1>5, <1>6, <1>7, <1>8 DEF S!Next

\* A step after which no more validations are out of reach, no more are to register
\* and the same ones are fresh stays within the budget.
LEMMA QuietStep ==
  ASSUME StopsInv,
         S!Unstoppable' \subseteq S!Unstoppable, S!Unregistered' = S!Unregistered,
         Fresh' = Fresh, races' = races
  PROVE  Budget'
<1>1. S!Unstoppable \subseteq S!Validations /\ S!Unregistered \subseteq S!Validations
  BY DEF S!Unstoppable, S!Running, S!Unregistered
<1>2. Cardinality(S!Unstoppable') <= Cardinality(S!Unstoppable)
  BY <1>1, FiniteValidations, FS_Subset
<1>3. Cardinality(S!Unstoppable) \in Nat /\ Cardinality(S!Unstoppable') \in Nat
      /\ Cardinality(S!Unregistered) \in Nat /\ races \in Nat
  BY <1>1, FiniteValidations DEF StopsInv, S!TypeOK
<1> QED
  BY <1>2, <1>3 DEF StopsInv, Budget

\* A start registers later and is fresh; if another has not registered yet, it counts
\* as a race.
LEMMA StartStep ==
  ASSUME StopsInv, NEW k \in {"incr", "once"}, S!StartIncrementValidation(k)
  PROVE  Budget'
<1> DEFINE n == started'
<1> USE SchedulerAssumption DEF StopsInv, S!TypeOK, NotBegun
<1>1. n \in S!Validations /\ place[n] = "none"
  BY DEF S!StartIncrementValidation, S!Start, S!Validations
<1>2. /\ place' = [place EXCEPT ![n] = "register"] /\ kind' = [kind EXCEPT ![n] = k]
      /\ prev' = [prev EXCEPT ![n] = cancelIncr]
      /\ cancelled' = cancelled /\ cancelIncr' = cancelIncr
      /\ races' = IF S!Unregistered = {} THEN races ELSE races + 1
  BY DEF S!StartIncrementValidation, S!Start
<1>3. S!Unregistered' = S!Unregistered \union {n} /\ n \notin S!Unregistered
  BY <1>1, <1>2 DEF S!Unregistered
<1>4. n \in Fresh'
  BY <1>1, <1>2, <1>3 DEF Fresh
<1>5. S!Unstoppable' \subseteq S!Unstoppable
  <2>1. S!Running' \subseteq S!Running
    BY <1>1, <1>2 DEF S!Running
  <2>2. S!Doomed \subseteq S!Doomed'
    BY <1>1, <1>2 DEF S!Doomed
  <2> QED
    BY <1>2, <2>1, <2>2 DEF S!Unstoppable
<1>6. S!Unstoppable \subseteq S!Validations /\ S!Unregistered \subseteq S!Validations
  BY DEF S!Unstoppable, S!Running, S!Unregistered
<1>7. Cardinality(S!Unregistered') = Cardinality(S!Unregistered) + 1
  BY <1>3, <1>6, FiniteValidations, FS_AddElement
<1>8. Cardinality(S!Unstoppable') <= Cardinality(S!Unstoppable)
  BY <1>5, <1>6, FiniteValidations, FS_Subset
<1>9. /\ Cardinality(S!Unstoppable) \in Nat /\ Cardinality(S!Unstoppable') \in Nat
      /\ Cardinality(S!Unregistered) \in Nat /\ races \in Nat
  BY <1>5, <1>6, FiniteValidations
<1>10. CASE S!Unregistered = {}
  <2>1. Fresh = {} /\ Cardinality(S!Unregistered) = 0
    BY <1>10, FS_EmptySet DEF Fresh
  <2> QED
    BY <1>2, <1>4, <1>7, <1>8, <1>9, <1>10, <2>1 DEF Budget
<1>11. CASE S!Unregistered # {}
  BY <1>2, <1>4, <1>7, <1>8, <1>9, <1>11 DEF Budget
<1> QED
  BY <1>10, <1>11

\* A goroutine that registers takes what cancelIncr stood for out of reach, unless
\* one that is fresh cancels it.
LEMMA RegisterStep ==
  ASSUME StopsInv, NEW v \in S!Validations, S!Register(v)
  PROVE  Budget'
<1> USE SchedulerAssumption DEF StopsInv, S!TypeOK
<1>1. /\ place[v] = "register" /\ place' = [place EXCEPT ![v] = "cancel"]
      /\ cancelIncr' = v
      /\ UNCHANGED <<kind, prev, cancelled, races>>
  BY DEF S!Register, S!Goes
<1>2. S!Unregistered' = S!Unregistered \ {v} /\ v \in S!Unregistered
  BY <1>1 DEF S!Unregistered
<1>3. S!Doomed' = S!Doomed
  BY <1>1 DEF S!Doomed
<1>4. S!Running' \subseteq S!Running \union {v}
  BY <1>1 DEF S!Running
<1>5. S!Unstoppable' \subseteq S!Unstoppable \union {cancelIncr}
  BY <1>1, <1>3, <1>4 DEF S!Unstoppable
<1>6. Fresh # {} => S!Unstoppable' \subseteq S!Unstoppable
  <2>1. Fresh # {} => cancelIncr \in S!Doomed
    BY DEF Fresh, S!Unregistered, S!Doomed
  <2> QED
    BY <1>1, <1>3, <1>4, <2>1 DEF S!Unstoppable
<1>7. S!Unstoppable \subseteq S!Validations /\ S!Unregistered \subseteq S!Validations
  BY DEF S!Unstoppable, S!Running, S!Unregistered
<1>8. S!Unstoppable' \subseteq S!Validations
  BY DEF S!Unstoppable, S!Running, S!Validations
<1>9. Cardinality(S!Unregistered') = Cardinality(S!Unregistered) - 1
  BY <1>2, <1>7, FiniteValidations, FS_RemoveElement
<1>10. Cardinality(S!Unstoppable') <= Cardinality(S!Unstoppable) + 1
  <2>1. IsFiniteSet(S!Unstoppable)
    BY <1>7, FiniteValidations
  <2>2. IsFiniteSet(S!Unstoppable \union {cancelIncr})
        /\ Cardinality(S!Unstoppable \union {cancelIncr}) <= Cardinality(S!Unstoppable) + 1
    BY <2>1, <1>7, FiniteValidations, FS_AddElement
  <2>3. Cardinality(S!Unstoppable') <= Cardinality(S!Unstoppable \union {cancelIncr})
    BY <1>5, <2>2, FS_Subset
  <2> QED
    BY <1>7, <1>8, <2>2, <2>3, FiniteValidations, FS_CardinalityType
<1>11. Fresh # {} => Cardinality(S!Unstoppable') <= Cardinality(S!Unstoppable)
  BY <1>6, <1>7, FiniteValidations, FS_Subset
<1>12. /\ Cardinality(S!Unstoppable) \in Nat /\ Cardinality(S!Unstoppable') \in Nat
       /\ Cardinality(S!Unregistered) \in Nat /\ races \in Nat
  BY <1>7, <1>8, FiniteValidations
<1> QED
  BY <1>1, <1>9, <1>10, <1>11, <1>12 DEF Budget

\* Every step preserves the strengthened invariant.
LEMMA NextStops == StopsInv /\ [S!Next]_(S!vars) => StopsInv'
<1> SUFFICES ASSUME StopsInv, [S!Next]_(S!vars) PROVE Budget'
  BY SchedulerTypes DEF StopsInv
<1> USE SchedulerAssumption DEF StopsInv, S!TypeOK
<1>1. ASSUME NEW k \in {"incr", "once"}, S!StartIncrementValidation(k) PROVE Budget'
  BY <1>1, StartStep
<1>2. ASSUME NEW v \in S!Validations, S!Register(v) PROVE Budget'
  BY <1>2, RegisterStep
<1>3. CASE S!StopIncrementValidation \/ S!StopFullValidation
  <2>1. cancelled \subseteq cancelled' /\ UNCHANGED <<kind, place, prev, cancelIncr, races>>
    BY <1>3 DEF S!StopIncrementValidation, S!StopFullValidation, S!Cancels
  <2> QED
    BY <2>1, QuietStep DEF S!Unstoppable, S!Running, S!Doomed, S!Unregistered, Fresh
<1>4. CASE S!StartFullValidation
  <2>1. started' \in S!Validations /\ place[started'] = "none"
    BY <1>4 DEF S!StartFullValidation, S!Start, S!Validations, NotBegun
  <2>2. /\ place' = [place EXCEPT ![started'] = "run"] /\ kind' = [kind EXCEPT ![started'] = "full"]
        /\ UNCHANGED <<prev, cancelled, cancelIncr, races>>
    BY <1>4 DEF S!StartFullValidation, S!Start
  <2>3. S!Unregistered' = S!Unregistered /\ S!Doomed' = S!Doomed /\ S!Running' = S!Running
    BY <2>1, <2>2 DEF S!Unregistered, S!Doomed, S!Running
  <2> QED
    BY <2>2, <2>3, QuietStep DEF S!Unstoppable, Fresh
<1>5. ASSUME NEW v \in S!Validations, S!CancelPrevious(v) PROVE Budget'
  <2>1. /\ place[v] = "cancel" /\ place' = [place EXCEPT ![v] = "run"]
        /\ cancelled' = cancelled \union ({prev[v]} \ {0})
        /\ UNCHANGED <<kind, prev, cancelIncr, races>>
    BY <1>5 DEF S!CancelPrevious, S!Goes, S!Cancels
  <2>2. S!Unregistered' = S!Unregistered
    BY <2>1 DEF S!Unregistered
  <2>3. S!Running' \subseteq S!Running /\ prev[v] \notin S!Running'
    BY <2>1 DEF S!Running, S!Validations
  <2>4. S!Doomed \subseteq S!Doomed' \union {prev[v]}
    BY <2>1 DEF S!Doomed
  <2>5. S!Unstoppable' \subseteq S!Unstoppable
    BY <2>1, <2>3, <2>4 DEF S!Unstoppable
  <2> QED
    BY <2>1, <2>2, <2>5, QuietStep DEF Fresh
<1>6. ASSUME NEW v \in S!Validations, S!Returns(v) PROVE Budget'
  <2>1. /\ place[v] = "run" /\ place' = [place EXCEPT ![v] = "done"]
        /\ UNCHANGED <<kind, prev, cancelled, cancelIncr, races>>
    BY <1>6 DEF S!Returns, S!Goes
  <2>2. S!Unregistered' = S!Unregistered /\ S!Doomed' = S!Doomed /\ S!Running' \subseteq S!Running
    BY <2>1 DEF S!Unregistered, S!Doomed, S!Running
  <2> QED
    BY <2>1, <2>2, QuietStep DEF S!Unstoppable, Fresh
<1>7. CASE UNCHANGED S!vars
  BY <1>7, QuietStep DEF S!vars, S!Unstoppable, S!Running, S!Doomed, S!Unregistered, Fresh
<1> QED
  BY <1>1, <1>2, <1>3, <1>4, <1>5, <1>6, <1>7 DEF S!Next

LEMMA SchedulerCardinality == \A T : S!Cardinality(T) = Cardinality(T)
BY DEF S!Cardinality, Cardinality, S!IsFiniteSet, IsFiniteSet

\* A validation that nobody can stop any more comes only of a start that overtook
\* the goroutine of an earlier one, at most one of each, however many validations
\* are started and stopped (scheduler.go:168-175).
THEOREM StopsTheorem == S!Spec => []StopsReach
<1>1. StopsInv => StopsReach
  <2> SUFFICES ASSUME StopsInv PROVE Cardinality(S!Unstoppable) <= races
    BY SchedulerCardinality DEF StopsInv, StopsReach, S!StopsReach
  <2>1. S!Unstoppable \subseteq S!Validations /\ S!Unregistered \subseteq S!Validations
        /\ Fresh \subseteq S!Unregistered
    BY DEF S!Unstoppable, S!Running, S!Unregistered, Fresh
  <2>2. Cardinality(S!Unregistered) \in Nat /\ Cardinality(S!Unstoppable) \in Nat /\ races \in Nat
    BY <2>1, FiniteValidations DEF StopsInv, S!TypeOK
  <2>3. Fresh # {} => Cardinality(S!Unregistered) # 0
    BY <2>1, FiniteValidations, FS_EmptySet
  <2> QED
    BY <2>2, <2>3 DEF StopsInv, Budget
<1> QED
  BY InitStops, NextStops, <1>1, PTL DEF S!Spec

-----------------------------------------------------------------------------
\* Balancer.

\* The total of the weights and the picks made, as sums of Places.
LEMMA BalancerSums == B!Total = SumFunction(Weights) /\ B!Picked = SumFunction(picks)
BY DEF B!Total, B!Picked, B!SumFunction, B!SumFunctionOnSet, B!FoldFunctionOnSet, B!MapThenFoldSet,
       SumFunction, SumFunctionOnSet, FoldFunctionOnSet, MapThenFoldSet

Connections == 1 .. Len(Weights)
Round       == SumFunction(Weights)

\* After the picks p, what connection i has between two picks: its weight, and what it
\* lags behind.
Lead(p, i)  == p[i] * Round - SumFunction(p) * Weights[i]
Spare(p, i) == Weights[i] - Lead(p, i)

\* l was taken last, and only l may be a whole pick ahead; it had more than any other.
TakenLast(p, l) ==
  /\ -Round < Spare(p, l)
  /\ \A j \in Connections :
       /\ j # l => Weights[j] - Round < Spare(p, j)
       /\ Spare(p, j) <= Spare(p, l) + Round
       /\ -2 * Lead(p, j) <= Len(Weights) * Round

Counts == [Connections -> Nat]

\* What the assumption says of the connections.
LEMMA Connected ==
  /\ Len(Weights) \in Nat /\ Len(Weights) > 0 /\ Weights \in Counts /\ B!Conns = Connections
  /\ IsFiniteSet(Connections) /\ Cardinality(Connections) = Len(Weights)
<1>1. Weights \in Seq(Nat) /\ Weights # <<>>
  BY BalancerAssumption DEF B!Parameters
<1>2. Len(Weights) \in Nat /\ Len(Weights) > 0 /\ Weights \in Counts /\ B!Conns = Connections
  BY <1>1 DEF Counts, Connections, B!Conns
<1> QED
  BY <1>2, FS_Interval DEF Connections

\* No count is greater than their sum.
LEMMA CountsSum ==
  ASSUME NEW p \in Counts
  PROVE  /\ SumFunction(p) \in Nat
         /\ \A i \in Connections : p[i] <= SumFunction(p)
<1> DEFINE z == [i \in Connections |-> 0]
<1>1. z \in [Connections -> Int] /\ p \in [Connections -> Int] /\ \A i \in Connections : 0 <= p[i] /\ p[i] \in Int
  BY DEF Counts
<1>2. SumFunction(z) = 0
  <2>1. \A i \in Connections : z[i] = 0
    OBVIOUS
  <2>2. SumFunction(z) = Cardinality(Connections) * 0
    <3> HIDE DEF z
    <3> QED
      BY <1>1, <2>1, Connected, SumConstant
  <2> QED
    BY <2>2, Connected
<1>3. \A i \in Connections : z[i] <= p[i]
  BY <1>1
<1> HIDE DEF z
<1>4. SumFunction(p) \in Int /\ SumFunction(z) <= SumFunction(p)
  BY <1>1, <1>3, Connected, SumGreater
<1>5. ASSUME NEW i \in Connections PROVE p[i] <= SumFunction(p)
  <2> DEFINE y == [z EXCEPT ![i] = p[i]]
  <2>1. y \in [Connections -> Int] /\ \A j \in Connections : y[j] <= p[j]
    BY <1>1, <1>3
  <2>2. z[i] = 0
    BY DEF z
  <2>3. SumFunction(y) = SumFunction(z) + p[i] - z[i]
    BY <1>1, Connected, SumChange
  <2> HIDE DEF y
  <2>4. SumFunction(y) <= SumFunction(p)
    BY <1>1, <2>1, Connected, SumGreater
  <2> QED
    BY <1>1, <1>2, <1>4, <2>2, <2>3, <2>4
<1> QED
  BY <1>2, <1>4, <1>5

\* What the connections have between two picks is, all in all, a round; with the
\* weights of the next pick it is two.
LEMMA SpareSum ==
  ASSUME NEW p \in Counts, NEW e \in Nat, NEW s,
         s = [i \in Connections |-> Spare(p, i) + e * Weights[i]]
  PROVE  /\ \A i \in Connections : Spare(p, i) \in Int /\ Lead(p, i) \in Int
         /\ s \in [Connections -> Int]
         /\ SumFunction(s) = Round + e * Round
<1>1. p \in [Connections -> Int] /\ Weights \in [Connections -> Int]
  BY Connected DEF Counts
<1>2. PICK P \in Int, T \in Int : P = SumFunction(p) /\ T = SumFunction(Weights)
  BY Connected, CountsSum
<1>3. \A i \in Connections : /\ Lead(p, i) = p[i] * T - P * Weights[i]
                             /\ Spare(p, i) = Weights[i] - Lead(p, i)
                             /\ p[i] \in Int /\ Weights[i] \in Int
  BY <1>1, <1>2 DEF Spare, Lead, Round
<1>4. \A i \in Connections : Spare(p, i) \in Int /\ Lead(p, i) \in Int
  BY <1>3
<1>5. s \in [Connections -> Int]
  BY <1>3, <1>4
<1>6. \A x, y \in Int : x - (y * T - P * x) + e * x = (1 + P + e) * x - T * y
  OBVIOUS
<1>7. \A i \in Connections : s[i] = (1 + P + e) * Weights[i] - T * p[i]
  BY <1>3, <1>6
<1>8. PICK a \in Int : a = 1 + P + e
  OBVIOUS
<1>9. SumFunction(s) = a * SumFunction(Weights) - T * SumFunction(p)
  <2>1. \A i \in Connections : s[i] = a * Weights[i] - T * p[i]
    BY <1>7, <1>8
  <2>2. IsFiniteSet(Connections)
    BY Connected
  <2> QED
    BY <1>1, <1>2, <1>5, <1>8, <2>1, <2>2, SumLinear
<1>10. SumFunction(s) = (1 + P + e) * T - T * P
  BY <1>2, <1>8, <1>9
<1>11. (1 + P + e) * T - T * P = T + e * T
  OBVIOUS
<1> QED
  BY <1>2, <1>4, <1>5, <1>10, <1>11 DEF Round

\* Before the first pick anyone will do for the one that was taken last.
LEMMA FirstShares ==
  ASSUME NEW p, p = [i \in Connections |-> 0], Round > 0, NEW l \in Connections
  PROVE  TakenLast(p, l)
<1>1. p \in Counts /\ p \in [Connections -> Int]
  BY DEF Counts
<1>2. SumFunction(p) = 0
  <2>1. SumFunction(p) = Cardinality(Connections) * 0
    BY <1>1, Connected, SumConstant
  <2> QED
    BY <2>1, Connected
<1>3. \A i \in Connections : Weights[i] \in Nat /\ Weights[i] <= Round /\ Round \in Nat
  BY Connected, CountsSum DEF Counts, Round
<1>4. \A i \in Connections : Lead(p, i) = 0 /\ Spare(p, i) = Weights[i]
  BY <1>2, <1>3 DEF Lead, Spare
<1>5. Len(Weights) * Round >= 0
  BY <1>3, Connected
<1> QED
  BY <1>3, <1>4, <1>5 DEF TakenLast

\* Nobody but the one taken last is behind by more picks than half the connections:
\* the one taken last had at least as much, and all together have a round.
LEMMA HalfBehind ==
  ASSUME NEW p \in Counts, NEW l \in Connections, NEW i \in Connections \ {l},
         \A j \in Connections : -Round < Spare(p, j) /\ Spare(p, j) <= Spare(p, l) + Round
  PROVE  2 * Spare(p, i) <= Len(Weights) * Round
<1> DEFINE s == [j \in Connections |-> Spare(p, j) + 0 * Weights[j]]
<1>1. Round \in Nat /\ \A j \in Connections : Weights[j] \in Nat
  BY Connected, CountsSum DEF Counts, Round
<1>2. s \in [Connections -> Int] /\ SumFunction(s) = Round + 0 * Round
      /\ \A j \in Connections : Spare(p, j) \in Int
  BY SpareSum
<1>3. \A j \in Connections : s[j] = Spare(p, j)
  BY <1>1, <1>2
<1> HIDE DEF s
<1> DEFINE x == Spare(p, i)
           low == [j \in Connections |-> -Round]
           mid == [low EXCEPT ![l] = x - Round]
           low3 == [mid EXCEPT ![i] = x]
<1>4. x \in Int /\ low \in [Connections -> Int] /\ \A j \in Connections : low[j] = -Round
  BY <1>1, <1>2
<1>5. mid \in [Connections -> Int] /\ mid[i] = -Round /\ mid[l] = x - Round
      /\ \A j \in Connections : mid[j] <= s[j]
  BY <1>1, <1>2, <1>3, <1>4
<1>6. low3 \in [Connections -> Int] /\ \A j \in Connections : low3[j] <= s[j]
  BY <1>3, <1>4, <1>5
<1>7. SumFunction(mid) = SumFunction(low) + (x - Round) - low[l]
  <2>1. x - Round \in Int
    BY <1>1, <1>4
  <2> HIDE DEF low, x
  <2> QED
    BY <1>4, <2>1, Connected, SumChange
<1>8. SumFunction(low3) = SumFunction(mid) + x - mid[i]
  <2> HIDE DEF mid, x
  <2> QED
    BY <1>4, <1>5, Connected, SumChange
<1>9. SumFunction(low) = Cardinality(Connections) * (-Round)
  <2> HIDE DEF low
  <2>1. -Round \in Int
    BY <1>1
  <2> QED
    BY <1>4, <2>1, Connected, SumConstant
<1> HIDE DEF x, low, mid, low3
<1>10. SumFunction(low3) <= SumFunction(s)
  BY <1>2, <1>6, Connected, SumGreater
<1>11. PICK c \in Int : c = Len(Weights) * Round
  BY <1>1, Connected
<1>12. SumFunction(low) = -c
  <2>1. \A m, r \in Int : m * (-r) = -(m * r)
    OBVIOUS
  <2> QED
    BY <1>1, <1>9, <1>11, <2>1, Connected
<1>13. SumFunction(low3) = -c + (x - Round) + Round + x + Round
  BY <1>1, <1>4, <1>5, <1>7, <1>8, <1>12
<1> QED
  BY <1>1, <1>2, <1>4, <1>10, <1>11, <1>13 DEF x

\* One pick more.
LEMMA OneMore ==
  ASSUME NEW p \in Counts, NEW i \in Connections
  PROVE  /\ [p EXCEPT ![i] = @ + 1] \in Counts
         /\ SumFunction([p EXCEPT ![i] = @ + 1]) = SumFunction(p) + 1
<1>1. p[i] \in Nat /\ p \in [Connections -> Int]
  BY DEF Counts
<1>2. PICK n \in Int : n = p[i] + 1
  BY <1>1
<1>3. [p EXCEPT ![i] = @ + 1] = [p EXCEPT ![i] = n]
  BY <1>2
<1>4. SumFunction([p EXCEPT ![i] = n]) = SumFunction(p) + n - p[i]
  BY <1>1, Connected, SumChange
<1>5. SumFunction(p) \in Int
  BY CountsSum
<1> QED
  BY <1>1, <1>2, <1>3, <1>4, <1>5 DEF Counts

\* Counts are integers.
LEMMA Integral == \A p \in Counts : p \in [Connections -> Int]
BY DEF Counts

\* With one more pick each has its weight more, and the one taken pays the round.
LEMMA NextSpare ==
  ASSUME NEW p \in Counts, NEW i \in Connections
  PROVE  \A q : q = [p EXCEPT ![i] = @ + 1] =>
           /\ q \in Counts
           /\ \A j \in Connections :
                Spare(q, j) = Spare(p, j) + (Weights[j] - (IF j = i THEN Round ELSE 0))
<1> SUFFICES ASSUME NEW q, q = [p EXCEPT ![i] = @ + 1]
             PROVE  /\ q \in Counts
                    /\ \A j \in Connections :
                         Spare(q, j) = Spare(p, j) + (Weights[j] - (IF j = i THEN Round ELSE 0))
  OBVIOUS
<1>1. Weights \in [Connections -> Int] /\ p \in [Connections -> Int]
  BY Connected, Integral
<1>2. PICK P \in Int, T \in Int : P = SumFunction(p) /\ T = Round
  BY Connected, CountsSum DEF Round
<1>3. q \in Counts /\ SumFunction(q) = P + 1
  BY <1>2, OneMore
<1>4. ASSUME NEW j \in Connections
      PROVE  Spare(q, j) = Spare(p, j) + (Weights[j] - (IF j = i THEN Round ELSE 0))
  <2>1. PICK w \in Int, y \in Int : w = Weights[j] /\ y = p[j]
    <3>1. Weights[j] \in Int /\ p[j] \in Int
      BY <1>1
    <3> QED
      BY <3>1
  <2>2. q[j] = y + (IF j = i THEN 1 ELSE 0)
    BY <2>1 DEF Counts
  <2>3. Spare(p, j) = w - (y * T - P * w)
        /\ Spare(q, j) = w - (q[j] * T - (P + 1) * w)
    BY <1>2, <1>3, <2>1 DEF Spare, Lead
  <2>4. w - ((y + 1) * T - (P + 1) * w) = w - (y * T - P * w) + w - T
    OBVIOUS
  <2>5. w - ((y + 0) * T - (P + 1) * w) = w - (y * T - P * w) + w - 0
    OBVIOUS
  <2>6. CASE j = i
    BY <1>2, <2>1, <2>2, <2>3, <2>4, <2>6
  <2>7. CASE j # i
    BY <1>2, <2>1, <2>2, <2>3, <2>5, <2>7
  <2> QED
    BY <2>6, <2>7
<1> QED
  BY <1>1, <1>2, <1>3, <1>4

\* Taking the connection that has most keeps the shares even, and it is now the last.
LEMMA NextShares ==
  ASSUME NEW p \in Counts, NEW l \in Connections, TakenLast(p, l), Round > 0,
         NEW i \in Connections, NEW q \in Counts,
         \A j \in Connections :
           Spare(q, j) = Spare(p, j) + (Weights[j] - (IF j = i THEN Round ELSE 0)),
         \A j \in Connections : Spare(p, j) + Weights[j] <= Spare(p, i) + Weights[i]
  PROVE  TakenLast(q, i)
<1> DEFINE s == [j \in Connections |-> Spare(p, j) + 1 * Weights[j]]
           z == [j \in Connections |-> 0]
<1>1. /\ Round \in Nat
      /\ \A j \in Connections : Weights[j] \in Nat /\ Weights[j] <= Round
  BY Connected, CountsSum DEF Counts, Round
<1>2. s \in [Connections -> Int] /\ SumFunction(s) = Round + 1 * Round
      /\ \A j \in Connections : Spare(p, j) \in Int
  BY SpareSum
<1>3. \A j \in Connections : s[j] = Spare(p, j) + Weights[j]
  BY <1>1
<1>4. z \in [Connections -> Int] /\ \A j \in Connections : z[j] = 0
  OBVIOUS
<1> HIDE DEF s, z
<1>5. SumFunction(z) = 0
  <2>1. SumFunction(z) = Cardinality(Connections) * 0
    BY <1>4, Connected, SumConstant
  <2> QED
    BY <2>1, Connected
<1>6. Spare(p, i) + Weights[i] > 0
  <2> SUFFICES ASSUME Spare(p, i) + Weights[i] <= 0 PROVE FALSE
    BY <1>1, <1>2
  <2>1. \A j \in Connections : s[j] <= z[j]
    BY <1>1, <1>2, <1>3, <1>4
  <2>2. SumFunction(s) <= SumFunction(z)
    BY <1>2, <1>4, <2>1, Connected, SumGreater
  <2> QED
    BY <1>1, <1>2, <1>5, <2>2
<1>7. /\ Spare(q, i) = Spare(p, i) + Weights[i] - Round
      /\ \A j \in Connections \ {i} : Spare(q, j) = Spare(p, j) + Weights[j]
  <2>1. \A j \in Connections \ {i} : Spare(p, j) + Weights[j] - 0 = Spare(p, j) + Weights[j]
    BY <1>1, <1>2
  <2> QED
    BY <2>1
<1>8. \A j \in Connections : -Round < Spare(p, j)
  <2>1. -Round < Spare(p, l) /\ \A j \in Connections \ {l} : Weights[j] - Round < Spare(p, j)
    BY DEF TakenLast
  <2> QED
    BY <1>1, <1>2, <2>1
<1>9. -Round < Spare(q, i)
  BY <1>1, <1>2, <1>6, <1>7
<1>10. \A j \in Connections : /\ j # i => Weights[j] - Round < Spare(q, j)
                              /\ Spare(q, j) <= Spare(q, i) + Round
                              /\ -Round < Spare(q, j)
  BY <1>1, <1>2, <1>7, <1>8, <1>9
<1>11. \A j \in Connections : /\ Lead(p, j) \in Int /\ Spare(p, j) = Weights[j] - Lead(p, j)
                              /\ Lead(q, j) \in Int /\ Spare(q, j) = Weights[j] - Lead(q, j)
  <2>1. \A r \in Counts : \A j \in Connections : Lead(r, j) \in Int
    <3> SUFFICES ASSUME NEW r \in Counts PROVE \A j \in Connections : Lead(r, j) \in Int
      OBVIOUS
    <3>1. PICK t : t = [j \in Connections |-> Spare(r, j) + 1 * Weights[j]]
      OBVIOUS
    <3> QED
      BY <3>1, SpareSum
  <2> QED
    BY <1>7, <2>1 DEF Spare
<1>12. PICK c \in Int : c = Len(Weights) * Round
  BY <1>1, Connected
<1>13. ASSUME NEW j \in Connections PROVE -2 * Lead(q, j) <= c
  <2>1. CASE j = i
    <3>1. -2 * Lead(p, i) <= c
      BY <1>12 DEF TakenLast
    <3>2. PICK x \in Int, y \in Int : x = Lead(p, i) /\ y = Lead(q, i)
      BY <1>11
    <3>3. Weights[i] - y = Weights[i] - x + Weights[i] - Round
      BY <1>7, <1>11, <3>2
    <3>4. -2 * y <= -2 * x
      BY <1>1, <3>3
    <3> QED
      BY <1>12, <2>1, <3>1, <3>2, <3>4
  <2>2. CASE j # i
    <3>1. 2 * Spare(q, j) <= c
      BY <1>7, <1>10, <1>12, <2>2, HalfBehind
    <3>2. PICK y \in Int, w \in Nat : y = Lead(q, j) /\ w = Weights[j] /\ Spare(q, j) = w - y
      BY <1>1, <1>11
    <3> QED
      BY <1>12, <3>1, <3>2
  <2> QED
    BY <2>1, <2>2
<1> QED
  BY <1>9, <1>10, <1>12, <1>13 DEF TakenLast

\* The sum of as many times the weights.
LEMMA ManyRounds ==
  ASSUME NEW m \in Nat, NEW v \in [Connections -> Int],
         \A i \in Connections : v[i] = m * Weights[i]
  PROVE  SumFunction(v) = m * Round
<1>1. Weights \in [Connections -> Int] /\ IsFiniteSet(Connections)
  BY Connected, Integral
<1>2. PICK a \in Int, z \in Int : a = m /\ z = 0
  OBVIOUS
<1>3. \A i \in Connections : v[i] = a * Weights[i] - z * v[i]
  <2>1. \A i \in Connections : Weights[i] \in Int /\ v[i] \in Int
    BY <1>1
  <2> QED
    BY <1>2, <2>1
<1>4. SumFunction(v) = a * SumFunction(Weights) - z * SumFunction(v)
  <2>1. /\ Weights \in [Connections -> Int] /\ v \in [Connections -> Int]
        /\ a \in Int /\ z \in Int
    BY <1>1, <1>2
  <2>2. IsFiniteSet(Connections)
    BY <1>1
  <2> QED
    BY <1>3, <2>1, <2>2, SumLinear
<1>5. SumFunction(Weights) \in Int /\ SumFunction(v) \in Int
  BY <1>1, SumGreater
<1> QED
  BY <1>2, <1>4, <1>5 DEF Round

\* After m rounds each connection has had m times its weight.  Were the last one ahead
\* by a pick, it would have had no more than its weight when it was taken, and no other
\* could be behind.
LEMMA WholeRounds ==
  ASSUME NEW p \in Counts, NEW l \in Connections, TakenLast(p, l), Round > 0,
         NEW m \in Nat, SumFunction(p) = m * Round
  PROVE  \A i \in Connections : p[i] = m * Weights[i]
<1> DEFINE v == [i \in Connections |-> m * Weights[i]]
<1>1. PICK T \in Nat : T = Round
  BY Connected, CountsSum DEF Round
<1>2. \A i \in Connections : /\ Weights[i] \in Nat /\ Weights[i] <= T
                             /\ m * Weights[i] \in Nat /\ p[i] \in Nat
  <2>1. \A i \in Connections : Weights[i] \in Nat /\ Weights[i] <= T /\ p[i] \in Nat
    BY <1>1, Connected, CountsSum DEF Counts, Round
  <2> QED
    BY <2>1
<1>3. v \in [Connections -> Int] /\ \A i \in Connections : v[i] = m * Weights[i]
  BY <1>2
<1> HIDE DEF v
<1>4. Weights \in [Connections -> Int] /\ p \in [Connections -> Int] /\ IsFiniteSet(Connections)
  BY Connected, Integral
<1>5. SumFunction(v) = SumFunction(p)
  BY <1>3, ManyRounds
<1> DEFINE d(i) == p[i] - m * Weights[i]
<1>6. \A i \in Connections : d(i) \in Int /\ p[i] - v[i] = d(i)
  BY <1>2, <1>3
<1>7. \A i \in Connections : Spare(p, i) = Weights[i] - d(i) * T
  <2> SUFFICES ASSUME NEW i \in Connections PROVE Spare(p, i) = Weights[i] - d(i) * T
    OBVIOUS
  <2>1. PICK w \in Nat, y \in Nat : w = Weights[i] /\ y = p[i]
    BY <1>2
  <2>2. Spare(p, i) = w - (y * T - (m * T) * w)
    BY <1>1, <2>1 DEF Spare, Lead
  <2>3. y * T - (m * T) * w = (y - m * w) * T
    OBVIOUS
  <2> QED
    BY <2>1, <2>2, <2>3
<1>8. /\ -T < Spare(p, l)
      /\ \A j \in Connections : /\ j # l => Weights[j] - T < Spare(p, j)
                               /\ Spare(p, j) <= Spare(p, l) + T
  BY <1>1 DEF TakenLast
<1>9. T > 0
  BY <1>1
<1> HIDE DEF d
<1>10. \A j \in Connections \ {l} : d(j) <= 0
  <2> SUFFICES ASSUME NEW j \in Connections, j # l, d(j) >= 1 PROVE FALSE
    BY <1>6
  <2>1. d(j) * T >= T
    <3>1. \A x \in Int : x >= 1 => x * T >= T
      BY <1>9
    <3> QED
      BY <1>6, <3>1
  <2>2. PICK x \in Int : x = d(j) * T
    BY <1>6
  <2> QED
    BY <1>2, <1>7, <1>8, <2>1, <2>2
<1>11. d(l) <= 1
  <2> SUFFICES ASSUME d(l) >= 2 PROVE FALSE
    BY <1>6
  <2>1. d(l) * T >= T + T
    <3>1. \A x \in Int : x >= 2 => x * T >= T + T
      BY <1>9
    <3> QED
      BY <1>6, <3>1
  <2>2. PICK x \in Int : x = d(l) * T
    BY <1>6
  <2> QED
    BY <1>2, <1>7, <1>8, <2>1, <2>2
<1>12. d(l) # 1
  <2> SUFFICES ASSUME d(l) = 1 PROVE FALSE
    OBVIOUS
  <2>1. Spare(p, l) = Weights[l] - T
    BY <1>2, <1>7
  <2>2. \A j \in Connections : d(j) >= 0
    <3> SUFFICES ASSUME NEW j \in Connections, d(j) <= -1 PROVE FALSE
      BY <1>6
    <3>1. d(j) * T <= -T
      <4>1. \A x \in Int : x <= -1 => x * T <= -T
        BY <1>9
      <4> QED
        BY <1>6, <4>1
    <3>2. PICK x \in Int : x = d(j) * T
      BY <1>6
    <3>3. PICK w \in Nat, u \in Nat : w = Weights[j] /\ u = Weights[l] /\ u <= T
      BY <1>2
    <3>4. w - x <= u - T + T
      BY <1>7, <1>8, <2>1, <3>2, <3>3
    <3>5. w = 0
      BY <3>1, <3>2, <3>3, <3>4
    <3>6. d(j) = p[j]
      BY <1>2, <3>3, <3>5 DEF d
    <3> QED
      BY <1>2, <3>6
  <2>3. \A i \in Connections : v[i] <= p[i]
    BY <1>2, <1>3, <1>6, <2>2
  <2>4. v = p
    BY <1>3, <1>4, <1>5, <2>3, SumGreater
  <2> QED
    BY <1>2, <1>6, <2>4
<1>13. \A i \in Connections : p[i] <= v[i]
  BY <1>2, <1>3, <1>6, <1>10, <1>11, <1>12
<1>14. p = v
  BY <1>3, <1>4, <1>5, <1>13, SumGreater
<1> QED
  BY <1>3, <1>14

\* What the invariant says of the shares.
LEMMA EvenShares ==
  ASSUME NEW p \in Counts, NEW l \in Connections, TakenLast(p, l), Round > 0
  PROVE  /\ \A i \in Connections : /\ Lead(p, i) < Round + Weights[i]
                                  /\ 2 * Lead(p, i) >= -Len(Weights) * Round
         /\ \A j \in Connections \ {l} : Lead(p, j) < Round
         /\ \A m \in 0 .. SumFunction(p) :
              SumFunction(p) = m * Round => \A i \in Connections : p[i] = m * Weights[i]
<1>1. Round \in Nat /\ \A i \in Connections : Weights[i] \in Nat
  BY Connected, CountsSum DEF Counts, Round
<1>2. \A i \in Connections : Lead(p, i) \in Int /\ Spare(p, i) = Weights[i] - Lead(p, i)
  <2>1. PICK s : s = [i \in Connections |-> Spare(p, i) + 0 * Weights[i]]
    OBVIOUS
  <2>2. \A i \in Connections : Lead(p, i) \in Int
    BY <2>1, SpareSum
  <2> QED
    BY <2>2 DEF Spare
<1>3. PICK c \in Int : c = Len(Weights) * Round
  BY <1>1, Connected
<1>4. -Len(Weights) * Round = -c
  <2>1. \A x, y \in Int : (-x) * y = -(x * y)
    OBVIOUS
  <2> QED
    BY <1>1, <1>3, <2>1, Connected
<1>5. /\ -Round < Spare(p, l)
      /\ \A j \in Connections : /\ j # l => Weights[j] - Round < Spare(p, j)
                               /\ -2 * Lead(p, j) <= c
  BY <1>3 DEF TakenLast
<1>6. ASSUME NEW i \in Connections
      PROVE  /\ Lead(p, i) < Round + Weights[i] /\ 2 * Lead(p, i) >= -c
             /\ i # l => Lead(p, i) < Round
  <2>1. PICK x \in Int, w \in Nat : x = Lead(p, i) /\ w = Weights[i] /\ Spare(p, i) = w - x
    BY <1>1, <1>2
  <2> QED
    BY <1>1, <1>5, <2>1
<1>7. SumFunction(p) \in Nat
  BY CountsSum
<1> QED
  BY <1>4, <1>6, <1>7, WholeRounds

PickTypes ==
  /\ picks \in Counts
  /\ current \in [Connections -> Int]
  /\ turn \in [Picking -> 0 .. 2 * Len(Weights) + 1]
  /\ read \in [Picking -> Int \union {None}]
  /\ chosen \in [Picking -> Connections]

\* The connections whose weight a pick in progress has added.
Added(i) == \E c \in Picking : i < turn[c]

\* One pick at a time: the weights are those between two picks, plus what the pick in
\* progress has added; what it has read is still so, and the connection it holds has the
\* most of those it has compared.
OnePick ==
  /\ \A c, d \in Picking : turn[c] # 0 /\ turn[d] # 0 => c = d
  /\ \A i \in Connections :
       current[i] = Spare(picks, i) + (IF Added(i) THEN Weights[i] ELSE 0)
  /\ \A c \in Picking :
       /\ read[c] # None => turn[c] # 0 /\ read[c] = current[B!Subject(c)]
       /\ \A j \in Connections : j + Len(Weights) < turn[c] => current[j] <= current[chosen[c]]

Even == Round > 0 => \E l \in Connections : TakenLast(picks, l)

SharesInv == ~overlapped => PickTypes /\ OnePick /\ Even

\* No pick has been made.
LEMMA SharesInit == B!Init => SharesInv
<1> SUFFICES ASSUME B!Init PROVE PickTypes /\ OnePick /\ Even
  BY DEF SharesInv
<1> USE DEF B!Init, B!Idle
<1>1. picks = [i \in Connections |-> 0] /\ picks \in Counts
  BY Connected DEF Counts
<1>2. PickTypes
  <2>1. 1 \in Connections /\ 0 \in 0 .. 2 * Len(Weights) + 1
    BY Connected DEF Connections
  <2> QED
    BY <1>1, <2>1, Connected, Integral DEF PickTypes, B!First
<1>3. Even
  <2>1. Connections # {}
    BY Connected DEF Connections
  <2> QED
    BY <1>1, <2>1, FirstShares DEF Even
<1>4. \A i \in Connections : Spare(picks, i) = Weights[i] /\ Weights[i] \in Int
  <2>1. SumFunction(picks) = 0
    <3>1. picks \in [Connections -> Int] /\ \A i \in Connections : picks[i] = 0
      BY <1>1
    <3>2. SumFunction(picks) = Cardinality(Connections) * 0
      BY <3>1, Connected, SumConstant
    <3> QED
      BY <3>2, Connected
  <2>2. Round \in Nat /\ \A i \in Connections : Weights[i] \in Nat
    BY Connected, CountsSum DEF Counts, Round
  <2> QED
    BY <1>1, <2>1, <2>2 DEF Spare, Lead
<1>5. OnePick
  <2>1. \A i \in Connections : ~Added(i)
    BY DEF Added, Connections
  <2>2. \A c \in Picking : turn[c] = 0 /\ read[c] = None
    OBVIOUS
  <2>3. \A c \in Picking, j \in Connections : ~(j + Len(Weights) < turn[c])
    BY <2>2, Connected DEF Connections
  <2> QED
    BY <1>4, <2>1, <2>2, <2>3 DEF OnePick
<1> QED
  BY <1>2, <1>3, <1>5

\* Every step of a pick that runs alone keeps the invariant.
LEMMA SharesStep == SharesInv /\ [B!Next]_(B!vars) => SharesInv'
<1> SUFFICES ASSUME PickTypes, OnePick, Even, [B!Next]_(B!vars), ~overlapped, ~overlapped'
             PROVE  PickTypes' /\ OnePick' /\ Even'
  <2>1. overlapped /\ [B!Next]_(B!vars) => overlapped'
    BY DEF B!Next, B!Pick, B!Read, B!Add, B!Compare, B!Take, B!vars
  <2> QED
    BY <2>1 DEF SharesInv
<1>0. Connections = B!Conns /\ Len(Weights) \in Nat /\ Connections = 1 .. Len(Weights)
  BY Connected DEF Connections
<1>1. ASSUME NEW c \in Picking, B!Pick(c) PROVE PickTypes' /\ OnePick' /\ Even'
  <2>1. /\ \A d \in Picking : turn[d] = 0
        /\ turn' = [turn EXCEPT ![c] = 1] /\ UNCHANGED <<current, read, chosen, picks>>
    <3>1. \A d \in Picking : turn[d] = 0
      BY <1>1 DEF B!Pick, B!Idle
    <3>2. turn' = [turn EXCEPT ![c] = turn[c] + 1] /\ UNCHANGED <<current, read, chosen, picks>>
      BY <1>1 DEF B!Pick, B!Step
    <3>3. turn[c] + 1 = 1
      BY <3>1
    <3> QED
      BY <3>1, <3>2, <3>3, Zenon
  <2>2. PickTypes'
    BY <1>0, <2>1 DEF PickTypes
  <2>3. Even'
    BY <2>1 DEF Even
  <2>4. \A i \in Connections : ~Added(i) /\ ~Added(i)'
    BY <1>0, <2>1 DEF Added, PickTypes
  <2>5. OnePick'
    <3>1. \A d, e \in Picking : turn'[d] # 0 /\ turn'[e] # 0 => d = e
      BY <2>1 DEF PickTypes
    <3>2. \A d \in Picking : read[d] = None
      BY <2>1 DEF OnePick
    <3>3. \A d \in Picking, j \in Connections : ~(j + Len(Weights) < turn'[d])
      BY <1>0, <2>1 DEF PickTypes
    <3> QED
      BY <2>1, <2>4, <3>1, <3>2, <3>3 DEF OnePick
  <2> QED
    BY <2>2, <2>3, <2>5
<1>2. ASSUME NEW c \in Picking, B!Read(c) PROVE PickTypes' /\ OnePick' /\ Even'
  <2>1. /\ turn[c] # 0
        /\ read' = [read EXCEPT ![c] = current[B!Subject(c)]]
        /\ UNCHANGED <<current, turn, chosen, picks>>
    BY <1>2 DEF B!Read, B!Idle
  <2>2. B!Subject(c) \in Connections
    BY <1>0, <2>1 DEF PickTypes, B!Subject, B!Updating, B!Comparing
  <2>3. PickTypes'
    BY <2>1, <2>2 DEF PickTypes
  <2>4. Even'
    BY <2>1 DEF Even
  <2>5. OnePick'
    BY <2>1 DEF OnePick, Added, PickTypes, B!Subject, B!Updating, B!Comparing
  <2> QED
    BY <2>3, <2>4, <2>5
<1>3. ASSUME NEW c \in Picking, B!Add(c) PROVE PickTypes' /\ OnePick' /\ Even'
  <2> DEFINE k == turn[c]
  <2>1. /\ k \in Connections /\ read[c] # None /\ read[c] = current[k]
        /\ current' = [current EXCEPT ![k] = read[c] + Weights[k]]
        /\ read' = [read EXCEPT ![c] = None]
        /\ turn' = [turn EXCEPT ![c] = @ + 1]
        /\ UNCHANGED <<chosen, picks>>
    BY <1>0, <1>3 DEF B!Add, B!Used, B!Updating, B!Step, B!Subject, OnePick
  <2>2. \A i \in Connections : Weights[i] \in Int /\ current[i] \in Int
    BY Connected DEF Counts, PickTypes
  <2>3. PickTypes'
    BY <1>0, <2>1, <2>2 DEF PickTypes
  <2>4. Even'
    BY <2>1 DEF Even
  <2>5. \A d \in Picking : turn[d] # 0 => d = c
    BY <1>0, <2>1 DEF OnePick
  <2>6. \A i \in Connections : /\ Added(i) <=> i < k
                               /\ Added(i)' <=> i < k + 1
    <3>1. turn'[c] = k + 1 /\ \A d \in Picking \ {c} : turn[d] = 0 /\ turn'[d] = 0
      BY <2>1, <2>5 DEF PickTypes
    <3>2. \A i \in Connections : ~(i < 0)
      BY <1>0
    <3> QED
      BY <3>1, <3>2 DEF Added
  <2>7. OnePick'
    <3>1. \A d, e \in Picking : turn'[d] # 0 /\ turn'[e] # 0 => d = e
      BY <2>1, <2>5 DEF PickTypes
    <3>2. \A i \in Connections :
            current'[i] = Spare(picks, i) + (IF Added(i)' THEN Weights[i] ELSE 0)
      <4> SUFFICES ASSUME NEW i \in Connections
                   PROVE  current'[i] = Spare(picks, i) + (IF i < k + 1 THEN Weights[i] ELSE 0)
        BY <2>6
      <4>1. Spare(picks, i) \in Int
        <5>1. PICK s : s = [j \in Connections |-> Spare(picks, j) + 0 * Weights[j]]
          OBVIOUS
        <5> QED
          BY <5>1, SpareSum DEF PickTypes
      <4>2. current[i] = Spare(picks, i) + (IF i < k THEN Weights[i] ELSE 0)
        BY <2>6 DEF OnePick
      <4>3. i \in Nat /\ k \in Nat
        BY <2>1 DEF Connections
      <4>4. CASE i = k
        BY <2>1, <2>2, <4>1, <4>2, <4>3, <4>4 DEF PickTypes
      <4>5. CASE i # k
        <5>1. current'[i] = current[i]
          BY <2>1, <4>5 DEF PickTypes
        <5>2. i < k <=> i < k + 1
          BY <4>3, <4>5
        <5> QED
          BY <4>2, <5>1, <5>2
      <4> QED
        BY <4>4, <4>5
    <3>3. \A d \in Picking : read'[d] = None
      <4>1. \A d \in Picking \ {c} : read[d] = None
        BY <2>5 DEF OnePick
      <4> QED
        BY <2>1, <4>1 DEF PickTypes
    <3>4. \A d \in Picking, j \in Connections : ~(j + Len(Weights) < turn'[d])
      <4>1. turn'[c] = k + 1 /\ \A d \in Picking \ {c} : turn'[d] = 0
        BY <2>1, <2>5 DEF PickTypes
      <4> QED
        BY <1>0, <2>1, <4>1
    <3> QED
      BY <2>1, <3>1, <3>2, <3>3, <3>4 DEF OnePick
  <2> QED
    BY <2>3, <2>4, <2>7
<1>4. ASSUME NEW c \in Picking, B!Compare(c) PROVE PickTypes' /\ OnePick' /\ Even'
  <2> DEFINE i == turn[c] - Len(Weights)
             m == IF current[i] > current[chosen[c]] THEN i ELSE chosen[c]
  <2>0. turn[c] \in Nat
    BY <1>0 DEF PickTypes
  <2>1. i \in Connections /\ turn[c] = i + Len(Weights) /\ turn[c] \notin Connections
    BY <1>0, <1>4, <2>0 DEF B!Compare, B!Comparing
  <2>2. /\ B!Subject(c) = i /\ read[c] = current[i]
        /\ read' = [read EXCEPT ![c] = None]
        /\ turn' = [turn EXCEPT ![c] = @ + 1]
        /\ UNCHANGED <<current, picks>>
    BY <1>0, <1>4, <2>1 DEF B!Compare, B!Used, B!Subject, B!Updating, B!Comparing, B!Step, OnePick
  <2>3. chosen' = [chosen EXCEPT ![c] = m] /\ m \in Connections
    BY <1>4, <2>1, <2>2 DEF B!Compare, PickTypes
  <2>4. PickTypes'
    BY <1>0, <2>1, <2>2, <2>3 DEF PickTypes
  <2>5. Even'
    BY <2>2 DEF Even
  <2>6. \A d \in Picking : turn[d] # 0 => d = c
    BY <1>0, <2>1 DEF OnePick
  <2>7. \A j \in Connections : Added(j) /\ Added(j)'
    <3>1. \A j \in Connections : j < turn[c] /\ j < turn'[c]
      BY <1>0, <2>1, <2>2 DEF PickTypes
    <3> QED
      BY <3>1 DEF Added
  <2>8. OnePick'
    <3>1. \A d, e \in Picking : turn'[d] # 0 /\ turn'[e] # 0 => d = e
      BY <2>2, <2>6 DEF PickTypes
    <3>2. \A d \in Picking : read'[d] = None
      <4>1. \A d \in Picking \ {c} : read[d] = None
        BY <2>6 DEF OnePick
      <4> QED
        BY <2>2, <4>1 DEF PickTypes
    <3>3. \A j \in Connections : j + Len(Weights) < turn'[c] => current[j] <= current[m]
      <4> SUFFICES ASSUME NEW j \in Connections, j + Len(Weights) < turn'[c]
                   PROVE  current[j] <= current[m]
        OBVIOUS
      <4>1. current[j] \in Int /\ current[i] \in Int /\ current[chosen[c]] \in Int
        BY <2>1 DEF PickTypes
      <4>2. turn'[c] = turn[c] + 1
        BY <2>2 DEF PickTypes
      <4>3. j = i \/ j + Len(Weights) < turn[c]
        BY <1>0, <2>1, <4>2
      <4>4. j + Len(Weights) < turn[c] => current[j] <= current[chosen[c]]
        BY DEF OnePick
      <4> QED
        BY <4>1, <4>3, <4>4
    <3>4. \A d \in Picking, j \in Connections :
            j + Len(Weights) < turn'[d] => current[j] <= current[chosen'[d]]
      <4>1. \A d \in Picking \ {c} : turn'[d] = 0
        BY <2>2, <2>6 DEF PickTypes
      <4>2. chosen'[c] = m
        BY <2>3 DEF PickTypes
      <4> QED
        BY <1>0, <3>3, <4>1, <4>2
    <3> QED
      BY <2>2, <2>7, <3>1, <3>2, <3>4 DEF OnePick
  <2> QED
    BY <2>4, <2>5, <2>8
<1>5. ASSUME NEW c \in Picking, B!Take(c) PROVE PickTypes' /\ OnePick' /\ Even'
  <2>0. PICK i : i = chosen[c]
    OBVIOUS
  <2>1. /\ turn[c] = 2 * Len(Weights) + 1 /\ read[c] # None
        /\ current' = [current EXCEPT ![i] = read[c] - Round]
        /\ picks' = [picks EXCEPT ![i] = @ + 1]
        /\ turn' = [turn EXCEPT ![c] = 0]
        /\ chosen' = [chosen EXCEPT ![c] = 1]
        /\ read' = [read EXCEPT ![c] = None]
    BY <1>5, <2>0, BalancerSums
    DEF B!Take, B!Paying, B!Used, B!Less, B!Idle, B!First, Round
  <2>2. /\ i \in Connections
        /\ \A j \in Connections : current[j] <= current[i]
    <3>1. \A j \in Connections : j + Len(Weights) < turn[c]
      BY <1>0, <2>1
    <3> QED
      BY <2>0, <3>1 DEF OnePick, PickTypes
  <2>3. \A j \in Connections : Added(j)
    BY <1>0, <2>1 DEF Added
  <2>4. /\ \A j \in Connections : current[j] = Spare(picks, j) + Weights[j]
        /\ \A d \in Picking : turn[d] # 0 => d = c
        /\ read[c] = current[i]
    <3>1. B!Subject(c) = i
      BY <1>0, <2>0, <2>1 DEF B!Subject, B!Updating, B!Comparing
    <3> QED
      BY <1>0, <2>1, <2>3, <3>1 DEF OnePick
  <2>5. \A d \in Picking : turn'[d] = 0
    BY <2>1, <2>4 DEF PickTypes
  <2>6. \A d \in Picking : read'[d] = None
    <3>1. \A d \in Picking \ {c} : read[d] = None
      BY <2>4 DEF OnePick
    <3> QED
      BY <2>1, <3>1 DEF PickTypes
  <2>7. PICK p, q : p = picks /\ q = picks'
    OBVIOUS
  <2>8. /\ q \in Counts
        /\ \A j \in Connections :
             Spare(q, j) = Spare(p, j) + (Weights[j] - (IF j = i THEN Round ELSE 0))
    <3>1. p \in Counts /\ q = [p EXCEPT ![i] = @ + 1]
      BY <2>1, <2>7 DEF PickTypes
    <3>2. i \in Connections
      BY <2>2
    <3>3. \A r : r = [p EXCEPT ![i] = @ + 1] =>
             /\ r \in Counts
             /\ \A j \in Connections :
                  Spare(r, j) = Spare(p, j) + (Weights[j] - (IF j = i THEN Round ELSE 0))
      BY <3>1, <3>2, NextSpare
    <3> QED
      BY <3>1, <3>3
  <2>9. Round \in Int
    BY Connected, CountsSum DEF Round
  <2>10. PickTypes'
    BY <1>0, <2>1, <2>2, <2>4, <2>7, <2>8, <2>9 DEF PickTypes
  <2>11. Even'
    <3> SUFFICES ASSUME Round > 0 PROVE \E l \in Connections : TakenLast(q, l)
      BY <2>7 DEF Even
    <3>1. PICK l \in Connections : TakenLast(p, l)
      BY <2>7 DEF Even
    <3>2. \A j \in Connections : Spare(p, j) + Weights[j] <= Spare(p, i) + Weights[i]
      BY <2>2, <2>4, <2>7
    <3>3. p \in Counts
      BY <2>7 DEF PickTypes
    <3>4. TakenLast(q, i)
      BY <2>2, <2>8, <3>1, <3>2, <3>3, NextShares
    <3> QED
      BY <2>2, <3>4
  <2>12. OnePick'
    <3>1. \A j \in Connections : ~Added(j)'
      BY <2>5 DEF Added, Connections
    <3>2. \A j \in Connections : current'[j] = Spare(q, j) /\ Spare(q, j) \in Int
      <4> SUFFICES ASSUME NEW j \in Connections
                   PROVE  current'[j] = Spare(q, j) /\ Spare(q, j) \in Int
        OBVIOUS
      <4>1. current[j] \in Int /\ current'[j] = current[j] - (IF j = i THEN Round ELSE 0)
        BY <2>1, <2>2, <2>4, <2>9 DEF PickTypes
      <4>2. Spare(q, j) = current[j] - (IF j = i THEN Round ELSE 0)
        <5>1. current[j] = Spare(p, j) + Weights[j]
          BY <2>4, <2>7
        <5>2. Spare(q, j) = Spare(p, j) + (Weights[j] - (IF j = i THEN Round ELSE 0))
          BY <2>8
        <5>3. Spare(p, j) \in Int /\ Weights[j] \in Int
          <6>1. PICK s : s = [k \in Connections |-> Spare(p, k) + 0 * Weights[k]]
            OBVIOUS
          <6>2. p \in Counts
            BY <2>7 DEF PickTypes
          <6> QED
            BY <6>1, <6>2, Connected, SpareSum DEF Counts
        <5> QED
          BY <2>9, <5>1, <5>2, <5>3
      <4> QED
        BY <2>9, <4>1, <4>2
    <3>3. \A j \in Connections :
            current'[j] = Spare(q, j) + (IF Added(j)' THEN Weights[j] ELSE 0)
      BY <3>1, <3>2
    <3>4. /\ \A d, e \in Picking : turn'[d] # 0 /\ turn'[e] # 0 => d = e
          /\ \A d \in Picking : read'[d] = None
          /\ \A d \in Picking, j \in Connections : ~(j + Len(Weights) < turn'[d])
      BY <1>0, <2>5, <2>6
    <3> QED
      BY <2>7, <3>3, <3>4 DEF OnePick
  <2> QED
    BY <2>10, <2>11, <2>12
<1>6. CASE UNCHANGED B!vars
  BY <1>6 DEF B!vars, PickTypes, OnePick, Added, Even, B!Subject, B!Updating, B!Comparing
<1> QED
  BY <1>1, <1>2, <1>3, <1>4, <1>5, <1>6 DEF B!Next

\* Whatever the weights, picks that come one after another follow them: no connection is
\* a pick and its share of the next ahead, only the one taken last is a whole pick ahead,
\* none is behind by more picks than half the connections, and whole rounds are exact
\* (wrr.go:28-58).
THEOREM SharesTheorem == B!Spec => []SharesAreEven
<1>1. SharesInv => SharesAreEven
  <2> SUFFICES ASSUME SharesInv, ~overlapped, B!Total # 0 PROVE B!SharesAreEven
    BY DEF SharesAreEven, B!SharesAreEven
  <2>1. /\ B!Total = Round /\ B!Picked = SumFunction(picks) /\ B!Conns = Connections
        /\ picks \in Counts
        /\ \A i : B!Ahead(i) = Lead(picks, i)
    BY BalancerSums, Connected DEF SharesInv, PickTypes, Round, B!Ahead, Lead
  <2>2. Round > 0
    BY <2>1, Connected, CountsSum DEF Round
  <2>3. PICK l \in Connections : TakenLast(picks, l)
    BY <2>2 DEF SharesInv, Even
  <2> QED
    BY <2>1, <2>2, <2>3, EvenShares DEF B!SharesAreEven
<1> QED
  BY SharesInit, SharesStep, <1>1, PTL DEF B!Spec
=============================================================================
