-------------------------- MODULE MigrationProofs --------------------------
(***************************************************************************)
(* The authority of the double-write migration loses no write, double       *)
(* writing keeps the two databases equal, and a validation that nothing     *)
(* disturbs makes them so, for any number of writers, keys and rows, and    *)
(* any bound on failures.                                                   *)
(***************************************************************************)
EXTENDS Migration, Places, TLAPS, FiniteSetTheorems

\* What a table holds: rows with a key, and a key at most once.
RowSet    == {NoRow} \union [biz : Biz, n : Nat]
TableSet  == [Ids -> RowSet]
Unique(T) == \A i, j \in Ids : T[i] # NoRow /\ T[i].biz = T[j].biz => i = j

\* A table whose rows have ids that AUTO_INCREMENT has passed.
TableOK(T, a) == T \in TableSet /\ Unique(T) /\ \A i \in Ids : T[i] # NoRow => i < a

\* A statement on b that has locked the id i: the row of b, or a place for it.
PutOK(T, a, i, b) ==
  /\ b \in Biz /\ i \in Ids /\ i < a
  /\ T[i].biz = b \/ (T[i] = NoRow /\ \A j \in Ids : T[j].biz # b)

\* The counter of b in a table.
CountIn(T, b) == IF \E i \in Ids : T[i].biz = b
                 THEN T[CHOOSE i \in Ids : T[i].biz = b].n ELSE 0

TxSet == [st : {"idle", "exec", "exec2", "commit", "commit2", "rollback", "leaked"},
          pat : Patterns, biz : Biz \union {NoBiz}, open : SUBSET DBs,
          put : [DBs -> 0..MaxId]]

\* The databases: their tables and counters, and what the transactions have locked.
DataTypes ==
  /\ table \in [DBs -> TableSet]
  /\ auto \in [DBs -> 1..(MaxId + 1)]
  /\ tx \in [Writers -> TxSet]

Tables  == \A d \in DBs : TableOK(table[d], auto[d])

Puts    == \A w \in Writers, d \in DBs : tx[w].put[d] # 0 =>
             d \in tx[w].open /\ PutOK(table[d], auto[d], tx[w].put[d], tx[w].biz)

Apart   == \A w, v \in Writers, d \in DBs :
             w # v /\ tx[w].put[d] # 0 /\ tx[v].put[d] # 0
               => tx[w].biz # tx[v].biz /\ tx[w].put[d] # tx[v].put[d]

\* A transaction has a key, and has written its first database when it goes on.
Started(t) ==
  /\ t.st # "idle" => t.biz \in Biz
  /\ t.st = "exec" => First(t) \in t.open
  /\ t.st \in {"exec2", "commit"} => t.put[First(t)] # 0

Data == DataTypes /\ Tables /\ Puts /\ Apart /\ \A w \in Writers : Started(tx[w])

\* The validator and the fixer.
ValSet == [kind : {"off", "full", "incr"}, base : DBs, cancelled : BOOLEAN]
FwdSet == [pc : {"off", "base", "compare", "done"}, off : Nat, got : RowSet, id : Ids \union {0}]
RevSet == [pc : {"off", "target", "base", "done"}, off : Nat, ids : SUBSET Ids]

Checks ==
  /\ topic \in Seq([id : Ids, base : DBs])
  /\ fix.st \in {"idle", "write"} /\ fix.row \in RowSet
  /\ fix.st = "write" => topic # <<>>
  /\ val \in ValSet /\ fwd \in FwdSet /\ rev \in RevSet
  /\ fwd.pc = "compare" => fwd.id \in Ids
  /\ fwd.pc \in {"base", "compare"} => val.kind # "off"
  /\ rev.pc \in {"target", "base"} => val.kind # "off"
  /\ written \in [Biz -> Nat]
  /\ pattern \in Patterns

\* As long as the authority was handed over safely, everything under way goes by the
\* authority of today.
Led ==
  /\ \A w \in Writers : tx[w].st # "idle" => Authority(tx[w].pat) = Authority(pattern)
  /\ \A i \in 1..Len(topic) : topic[i].base = Authority(pattern)
  /\ val.kind # "off" => val.base = Authority(pattern)
  /\ \A b \in Biz : CountIn(table[Authority(pattern)], b) = written[b]

\* Undisturbed double writing: each transaction writes both databases, of two that
\* write one key only one gets beyond its statements, and the first database is ahead
\* of the second by what waits for its second commit.
Staged(t) ==
  t.st # "idle" =>
    /\ Doubles(t.pat) /\ t.st # "leaked"
    /\ t.st \in {"exec", "exec2", "commit"} => t.open = DBs
    /\ t.st = "commit2" => t.open = {Second(t)}
    /\ t.st \in {"commit", "commit2"} => t.put[Second(t)] # 0

Past(w) == tx[w].st \in {"commit", "commit2"}

OnePast == \A w, v \in Writers : Past(w) /\ Past(v) /\ tx[w].biz = tx[v].biz => w = v

Behind(w, b) == tx[w].st = "commit2" /\ tx[w].biz = b

Even == \A b \in Biz :
  /\ (\A w \in Writers : ~Behind(w, b)) => CountIn(table["src"], b) = CountIn(table["dst"], b)
  /\ \A w \in Writers : Behind(w, b) =>
       CountIn(table[First(tx[w])], b) = CountIn(table[Second(tx[w])], b) + 1

InStep == /\ Doubles(pattern) /\ fix.st = "idle"
          /\ \A w \in Writers : Staged(tx[w])
          /\ OnePast /\ Even

Core == Data /\ Checks /\ (trusted => Led) /\ (paired => InStep)

\* What a crash brings back goes by the authority of today, too.
Marked ==
  /\ redo \in Seq([id : Ids, base : DBs])
  /\ trusted => \A i \in 1..Len(redo) : redo[i].base = Authority(pattern)

\* The inductive invariant.
IInv == Core /\ Marked

----------------------------------------------------------------------------
(* Tables. *)

\* Which databases and ids there are.
LEMMA Domains ==
  /\ MaxId \in Nat /\ Ids = 1..MaxId
  /\ NoRow \in RowSet /\ RowSet \subseteq [biz : Biz \union {NoBiz}, n : Nat]
  /\ DBs = {"src", "dst"} /\ \A d \in DBs : Peer(d) \in DBs /\ Peer(d) # d /\ Peer(Peer(d)) = d
  /\ \A p : Authority(p) \in DBs
  /\ NoRow.biz \notin Biz /\ NoRow.n = 0
  /\ \A r \in RowSet : r.n \in Nat /\ (r # NoRow <=> r.biz \in Biz)
<1>1. MaxId \in Nat /\ Ids = 1..MaxId
  BY MigrationAssumption DEF MaxId, Ids
<1>2. NoRow \in RowSet /\ NoRow.biz \notin Biz /\ NoRow.n = 0
  BY MigrationAssumption DEF NoRow, RowSet
<1>3. DBs = {"src", "dst"} /\ \A d \in DBs : Peer(d) \in DBs /\ Peer(d) # d /\ Peer(Peer(d)) = d
  BY DEF DBs, Peer
<1>4. \A p : Authority(p) \in DBs
  BY DEF Authority, DBs
<1>5. \A r \in RowSet : r.n \in Nat /\ (r # NoRow <=> r.biz \in Biz)
  BY MigrationAssumption DEF NoRow, RowSet
<1>6. RowSet \subseteq [biz : Biz \union {NoBiz}, n : Nat]
  BY DEF NoRow, RowSet
<1> QED
  BY <1>1, <1>2, <1>3, <1>4, <1>5, <1>6

\* The counter of a key is that of the row with the key.
LEMMA CountOfRow ==
  ASSUME NEW T, NEW a, TableOK(T, a), NEW b \in Biz
  PROVE  /\ CountIn(T, b) \in Nat
         /\ \A i \in Ids : T[i].biz = b => CountIn(T, b) = T[i].n
         /\ (\A i \in Ids : T[i].biz # b) => CountIn(T, b) = 0
<1>1. \A i \in Ids : T[i] \in RowSet
  BY DEF TableOK, TableSet
<1>2. ASSUME NEW i \in Ids, T[i].biz = b PROVE CountIn(T, b) = T[i].n
  <2> DEFINE j == CHOOSE k \in Ids : T[k].biz = b
  <2>1. j \in Ids /\ T[j].biz = b
    BY <1>2
  <2>2. j = i
    BY <1>1, <1>2, <2>1, Domains DEF TableOK, Unique
  <2> QED
    BY <1>2, <2>2 DEF CountIn
<1>3. (\A i \in Ids : T[i].biz # b) => CountIn(T, b) = 0
  BY DEF CountIn
<1> QED
  BY <1>1, <1>2, <1>3, Domains

\* Count of the model is CountIn.
LEMMA CountIsCountIn ==
  ASSUME NEW d \in DBs, table[d] \in TableSet, NEW b \in Biz
  PROVE  Count(d, b) = CountIn(table[d], b)
<1>1. IdOf(d, b) = {i \in Ids : table[d][i].biz = b}
  BY Domains DEF IdOf, Rows, TableSet
<1>2. (IdOf(d, b) = {}) <=> ~ \E i \in Ids : table[d][i].biz = b
  BY <1>1
<1>3. (CHOOSE i \in IdOf(d, b) : TRUE) = CHOOSE i \in Ids : table[d][i].biz = b
  BY <1>1
<1> QED
  BY <1>2, <1>3 DEF Count, CountIn

\* A commit adds one to its key and changes no other, and no statement loses its row.
LEMMA Committing ==
  ASSUME NEW T, NEW a, TableOK(T, a), NEW i, NEW b, PutOK(T, a, i, b),
         NEW U, U = [T EXCEPT ![i] = [biz |-> b, n |-> @.n + 1]]
  PROVE  /\ TableOK(U, a)
         /\ CountIn(U, b) = CountIn(T, b) + 1
         /\ \A c \in Biz \ {b} : CountIn(U, c) = CountIn(T, c)
         /\ \A k, c : PutOK(T, a, k, c) /\ k # i /\ c # b => PutOK(U, a, k, c)
<1>1. \A j \in Ids : T[j] \in RowSet
  BY DEF TableOK, TableSet
<1>2. /\ i \in Ids /\ b \in Biz /\ U[i] = [biz |-> b, n |-> T[i].n + 1]
      /\ \A j \in Ids \ {i} : U[j] = T[j]
  BY DEF PutOK, TableOK, TableSet
<1>3. \A j \in Ids \ {i} : T[j].biz # b
  BY <1>1, <1>2, Domains DEF PutOK, TableOK, Unique
<1>4. T[i].n \in Nat /\ U[i].biz = b /\ U[i].n = T[i].n + 1 /\ U[i] \in RowSet
  BY <1>1, <1>2, Domains DEF RowSet
<1>5. TableOK(U, a)
  <2>1. U \in TableSet
    BY <1>2, <1>4 DEF TableOK, TableSet
  <2>2. Unique(U)
    BY <1>2, <1>3, <1>4 DEF TableOK, Unique
  <2>3. \A j \in Ids : U[j] # NoRow => j < a
    BY <1>2 DEF TableOK, PutOK
  <2> QED
    BY <2>1, <2>2, <2>3 DEF TableOK
<1>6. CountIn(U, b) = CountIn(T, b) + 1
  <2>1. CountIn(U, b) = T[i].n + 1
    BY <1>2, <1>4, <1>5, CountOfRow
  <2>2. CASE T[i].biz = b
    BY <1>2, <2>1, <2>2, CountOfRow
  <2>3. CASE T[i].biz # b
    <3>1. T[i] = NoRow /\ CountIn(T, b) = 0
      BY <1>2, <1>3, <2>3, CountOfRow DEF PutOK
    <3> QED
      BY <2>1, <3>1, Domains
  <2> QED
    BY <2>2, <2>3
<1>7. ASSUME NEW c \in Biz \ {b} PROVE CountIn(U, c) = CountIn(T, c)
  <2>1. T[i].biz # c
    BY <1>2, Domains DEF PutOK
  <2>2. CASE \E j \in Ids : T[j].biz = c
    <3>1. PICK j \in Ids : T[j].biz = c
      BY <2>2
    <3>2. j # i /\ U[j] = T[j]
      BY <1>2, <2>1, <3>1
    <3>3. CountIn(T, c) = T[j].n
      BY <3>1, CountOfRow
    <3>4. CountIn(U, c) = U[j].n
      BY <1>5, <3>1, <3>2, CountOfRow
    <3> QED
      BY <3>2, <3>3, <3>4
  <2>3. CASE \A j \in Ids : T[j].biz # c
    <3>1. \A j \in Ids : U[j].biz # c
      BY <1>2, <1>4, <2>3
    <3>2. CountIn(T, c) = 0
      BY <2>3, CountOfRow
    <3>3. CountIn(U, c) = 0
      BY <1>5, <3>1, CountOfRow
    <3> QED
      BY <3>2, <3>3
  <2> QED
    BY <2>2, <2>3
<1>8. \A k, c : PutOK(T, a, k, c) /\ k # i /\ c # b => PutOK(U, a, k, c)
  BY <1>2, <1>4 DEF PutOK
<1> QED
  BY <1>5, <1>6, <1>7, <1>8

\* A repair keeps keys unique, and takes no row away from a statement that waits for
\* another id and another key.
LEMMA Repairing ==
  ASSUME NEW T, NEW a, TableOK(T, a), NEW i \in Ids, NEW row \in RowSet, NEW U,
         U = [j \in Ids |-> IF j = i THEN row
                            ELSE IF row # NoRow /\ T[j].biz = row.biz THEN NoRow ELSE T[j]],
         NEW e, e \in Nat, a \in Nat, e >= a, row # NoRow => e > i
  PROVE  /\ TableOK(U, e)
         /\ \A k, c : PutOK(T, a, k, c) /\ k # i /\ c # row.biz => PutOK(U, e, k, c)
<1>1. \A j \in Ids : T[j] \in RowSet
  BY DEF TableOK, TableSet
<1>2. U \in TableSet
  BY <1>1, Domains DEF TableSet
<1>3. Unique(U)
  BY <1>1, Domains DEF TableOK, Unique
<1>4. Ids \subseteq Nat
  BY Domains
<1>5. \A j \in Ids : U[j] # NoRow => j < e
  BY <1>4 DEF TableOK
<1>6. ASSUME NEW k, NEW c, PutOK(T, a, k, c), k # i, c # row.biz PROVE PutOK(U, e, k, c)
  <2>1. k \in Ids /\ k < e
    BY <1>4, <1>6 DEF PutOK
  <2>2. c \in Biz /\ NoRow.biz # c
    BY <1>6, Domains DEF PutOK
  <2>3. T[k].biz = c => U[k].biz = c
    BY <1>6, <2>1
  <2>4. T[k] = NoRow /\ (\A j \in Ids : T[j].biz # c) => U[k] = NoRow /\ \A j \in Ids : U[j].biz # c
    BY <1>6, <2>1, <2>2
  <2> QED
    BY <1>6, <2>1, <2>2, <2>3, <2>4 DEF PutOK
<1> QED
  BY <1>2, <1>3, <1>5, <1>6 DEF TableOK

----------------------------------------------------------------------------
(* Steps of the databases. *)

\* A writer keeps or gives up its locks and no table changes.
LEMMA Keeping ==
  ASSUME Data, NEW w \in Writers, NEW t \in TxSet, tx' = [tx EXCEPT ![w] = t],
         UNCHANGED tables, Started(t),
         \A d \in DBs : t.put[d] # 0 =>
           t.put[d] = tx[w].put[d] /\ t.biz = tx[w].biz /\ d \in t.open
  PROVE  Data'
<1>1. table' = table /\ auto' = auto
  BY DEF tables
<1>2. tx' \in [Writers -> TxSet] /\ tx'[w] = t /\ \A v \in Writers \ {w} : tx'[v] = tx[v]
  BY DEF Data, DataTypes
<1>3. \A v \in Writers, d \in DBs : tx'[v].put[d] # 0 =>
        /\ d \in tx'[v].open /\ tx[v].put[d] # 0
        /\ tx'[v].put[d] = tx[v].put[d] /\ tx'[v].biz = tx[v].biz
  BY <1>2 DEF Data, Puts
<1>4. Puts'
  BY <1>1, <1>3 DEF Data, Puts
<1>5. Apart'
  BY <1>3 DEF Data, Apart
<1>6. \A v \in Writers : Started(tx'[v])
  BY <1>2 DEF Data
<1> QED
  BY <1>1, <1>2, <1>4, <1>5, <1>6 DEF Data, DataTypes, Tables

\* A writer commits in d and is done there.
LEMMA Applying ==
  ASSUME Data, NEW w \in Writers, NEW t \in TxSet, tx' = [tx EXCEPT ![w] = t],
         NEW d \in DBs, tx[w].put[d] # 0, table' = Applied(w, d), auto' = auto, Started(t),
         t.put[d] = 0,
         \A e \in DBs : t.put[e] # 0 =>
           t.put[e] = tx[w].put[e] /\ t.biz = tx[w].biz /\ e \in t.open
  PROVE  /\ Data'
         /\ CountIn(table'[d], tx[w].biz) = CountIn(table[d], tx[w].biz) + 1
         /\ \A c \in Biz \ {tx[w].biz} : CountIn(table'[d], c) = CountIn(table[d], c)
         /\ table'[Peer(d)] = table[Peer(d)]
<1> DEFINE i == tx[w].put[d]
           b == tx[w].biz
           U == [table[d] EXCEPT ![i] = [biz |-> b, n |-> @.n + 1]]
<1>1. table \in [DBs -> TableSet] /\ TableOK(table[d], auto[d]) /\ PutOK(table[d], auto[d], i, b)
  BY DEF Data, DataTypes, Tables, Puts
<1>2. table' = [table EXCEPT ![d] = U]
  BY DEF Applied
<1>3. table'[d] = U /\ \A e \in DBs \ {d} : table'[e] = table[e]
  BY <1>1, <1>2
<1> HIDE DEF U
<1>4. /\ TableOK(U, auto[d])
      /\ CountIn(U, b) = CountIn(table[d], b) + 1
      /\ \A c \in Biz \ {b} : CountIn(U, c) = CountIn(table[d], c)
      /\ \A k, c : PutOK(table[d], auto[d], k, c) /\ k # i /\ c # b => PutOK(U, auto[d], k, c)
  <2>1. U = [table[d] EXCEPT ![i] = [biz |-> b, n |-> @.n + 1]]
    BY DEF U
  <2>2. TableOK(table[d], auto[d]) /\ PutOK(table[d], auto[d], i, b)
    BY <1>1
  <2> HIDE DEF i, b
  <2> QED
    BY <2>1, <2>2, Committing
<1>5. tx' \in [Writers -> TxSet] /\ tx'[w] = t /\ \A v \in Writers \ {w} : tx'[v] = tx[v]
  BY DEF Data, DataTypes
<1>6. \A v \in Writers, e \in DBs : tx'[v].put[e] # 0 =>
        /\ e \in tx'[v].open /\ tx[v].put[e] # 0
        /\ tx'[v].put[e] = tx[v].put[e] /\ tx'[v].biz = tx[v].biz
        /\ e = d => v # w
  BY <1>5 DEF Data, Puts
<1>7. Puts'
  <2> SUFFICES ASSUME NEW v \in Writers, NEW e \in DBs, tx'[v].put[e] # 0
               PROVE  /\ e \in tx'[v].open
                      /\ PutOK(table'[e], auto'[e], tx'[v].put[e], tx'[v].biz)
    BY DEF Puts
  <2>1. PutOK(table[e], auto[e], tx[v].put[e], tx[v].biz)
    BY <1>6 DEF Data, Puts
  <2>2. CASE e # d
    BY <1>3, <1>6, <2>1, <2>2
  <2>3. CASE e = d
    <3>1. tx[v].put[d] # i /\ tx[v].biz # b
      BY <1>6, <2>3 DEF Data, Apart
    <3> QED
      BY <1>3, <1>4, <1>6, <2>1, <2>3, <3>1
  <2> QED
    BY <2>2, <2>3
<1>8. Apart'
  BY <1>6 DEF Data, Apart
<1>9. \A v \in Writers : Started(tx'[v])
  BY <1>5 DEF Data
<1>10. Tables'
  BY <1>3, <1>4 DEF Tables, Data
<1>11. table' \in [DBs -> TableSet]
  BY <1>1, <1>2, <1>4 DEF TableOK
<1>12. Data'
  BY <1>5, <1>7, <1>8, <1>9, <1>10, <1>11 DEF Data, DataTypes
<1> QED
  BY <1>3, <1>4, <1>12, Domains

\* A statement of w in d takes a place that no other has.
LEMMA Executing ==
  ASSUME Data, NEW w \in Writers, NEW d \in DBs, d \in tx[w].open, tx[w].st # "idle",
         NEW next \in {"exec2", "commit"}, Exec(w, d, next),
         d = First(tx[w]) \/ tx[w].put[First(tx[w])] # 0
  PROVE  /\ Data' /\ table' = table
         /\ tx' = [tx EXCEPT ![w] = [tx[w] EXCEPT !.st = next, !.put[d] = PutId(d, tx[w].biz)]]
         /\ PutId(d, tx[w].biz) # 0
<1> DEFINE b == tx[w].biz
           i == PutId(d, b)
           t == [tx[w] EXCEPT !.st = next, !.put[d] = i]
<1>1. /\ table \in [DBs -> TableSet] /\ TableOK(table[d], auto[d]) /\ b \in Biz /\ tx[w] \in TxSet
      /\ auto \in [DBs -> 1..(MaxId + 1)]
  BY DEF Data, DataTypes, Tables, Started
<1>2. /\ table' = table /\ auto' = [auto EXCEPT ![d] = @ + 1] /\ auto[d] < MaxId
      /\ tx' = [tx EXCEPT ![w] = t]
      /\ \A v \in Writers \ {w} : tx[v].put[d] # 0 => tx[v].biz # b
  BY DEF Exec, Locked
<1>3. /\ auto' \in [DBs -> 1..(MaxId + 1)]
      /\ \A e \in DBs : auto[e] <= auto'[e] /\ auto[e] \in Int /\ auto'[e] \in Int
  BY <1>1, <1>2, Domains
<1>4. IdOf(d, b) = {j \in Ids : table[d][j].biz = b}
  BY <1>1, Domains DEF IdOf, Rows, TableSet
<1>5. i \in Ids /\ i < auto'[d] /\ (i = auto[d] \/ table[d][i].biz = b)
      /\ (i = auto[d] /\ table[d][i].biz # b => \A j \in Ids : table[d][j].biz # b)
  <2>1. CASE IdOf(d, b) = {}
    <3>1. i = auto[d]
      BY <2>1 DEF PutId
    <3> QED
      BY <1>1, <1>2, <1>4, <2>1, <3>1, Domains
  <2>2. CASE IdOf(d, b) # {}
    <3>1. i \in IdOf(d, b)
      BY <2>2 DEF PutId
    <3>2. i \in Ids /\ table[d][i].biz = b
      BY <1>4, <3>1
    <3>3. table[d][i] # NoRow
      BY <1>1, <3>2, Domains
    <3>4. i < auto[d]
      BY <1>1, <3>2, <3>3 DEF TableOK
    <3> QED
      BY <1>1, <1>2, <3>2, <3>4, Domains
  <2> QED
    BY <2>1, <2>2
<1> HIDE DEF i
<1>6. \A j \in Ids : table[d][j] # NoRow => j < auto[d]
  BY <1>1 DEF TableOK
<1>7. PutOK(table[d], auto'[d], i, b)
  <2>1. CASE table[d][i].biz = b
    BY <1>1, <1>5, <2>1 DEF PutOK
  <2>2. CASE table[d][i].biz # b
    <3>1. i = auto[d] /\ \A j \in Ids : table[d][j].biz # b
      BY <1>5, <2>2
    <3>2. table[d][i] = NoRow
      BY <1>1, <1>5, <1>6, <3>1, Domains
    <3> QED
      BY <1>1, <1>5, <3>1, <3>2 DEF PutOK
  <2> QED
    BY <2>1, <2>2
<1>8. ASSUME NEW v \in Writers \ {w}, tx[v].put[d] # 0
      PROVE  tx[v].biz # b /\ tx[v].put[d] # i
  <2>1. PutOK(table[d], auto[d], tx[v].put[d], tx[v].biz) /\ tx[v].biz # b
    BY <1>2, <1>8 DEF Data, Puts
  <2>2. ASSUME tx[v].put[d] = i PROVE FALSE
    <3>1. i < auto[d]
      BY <2>1, <2>2 DEF PutOK
    <3>2. table[d][i].biz = b
      BY <1>1, <1>5, <3>1, Domains
    <3> QED
      BY <1>1, <2>1, <2>2, <3>2, Domains DEF PutOK
  <2> QED
    BY <2>1, <2>2
<1>9. /\ t \in TxSet /\ t.biz = b /\ t.put[d] = i /\ t.open = tx[w].open
      /\ t.st = next /\ t.pat = tx[w].pat
      /\ \A e \in DBs \ {d} : t.put[e] = tx[w].put[e]
  <2>1. i \in 0..MaxId
    BY <1>5, Domains
  <2> QED
    BY <1>1, <2>1 DEF TxSet
<1> HIDE DEF t
<1>10. tx' \in [Writers -> TxSet] /\ tx'[w] = t /\ \A v \in Writers \ {w} : tx'[v] = tx[v]
  BY <1>2, <1>9 DEF Data, DataTypes
<1>11. i # 0
  BY <1>5, Domains
<1>12. Puts'
  <2> SUFFICES ASSUME NEW v \in Writers, NEW e \in DBs, tx'[v].put[e] # 0
               PROVE  /\ e \in tx'[v].open
                      /\ PutOK(table'[e], auto'[e], tx'[v].put[e], tx'[v].biz)
    BY DEF Puts
  <2>1. CASE v = w /\ e = d
    BY <1>2, <1>7, <1>9, <1>10, <2>1
  <2>2. CASE ~(v = w /\ e = d)
    <3>1. tx'[v].put[e] = tx[v].put[e] /\ tx'[v].biz = tx[v].biz /\ tx'[v].open = tx[v].open
      BY <1>9, <1>10, <2>2
    <3>2. e \in tx[v].open /\ PutOK(table[e], auto[e], tx[v].put[e], tx[v].biz)
      BY <3>1 DEF Data, Puts
    <3>3. tx[v].put[e] \in Int
      BY <3>2, Domains DEF PutOK
    <3>4. tx[v].put[e] < auto'[e]
      BY <1>3, <3>2, <3>3 DEF PutOK
    <3> QED
      BY <1>2, <3>1, <3>2, <3>4 DEF PutOK
  <2> QED
    BY <2>1, <2>2
<1>13. Apart'
  <2> SUFFICES ASSUME NEW v \in Writers, NEW u \in Writers, NEW e \in DBs,
                      v # u, tx'[v].put[e] # 0, tx'[u].put[e] # 0
               PROVE  tx'[v].biz # tx'[u].biz /\ tx'[v].put[e] # tx'[u].put[e]
    BY DEF Apart
  <2>1. CASE e = d /\ (v = w \/ u = w)
    BY <1>8, <1>9, <1>10, <2>1
  <2>2. CASE ~(e = d /\ (v = w \/ u = w))
    <3>1. /\ tx'[v].put[e] = tx[v].put[e] /\ tx'[v].biz = tx[v].biz
          /\ tx'[u].put[e] = tx[u].put[e] /\ tx'[u].biz = tx[u].biz
      BY <1>9, <1>10, <2>2
    <3> QED
      BY <3>1 DEF Data, Apart
  <2> QED
    BY <2>1, <2>2
<1>14. \A v \in Writers : Started(tx'[v])
  <2>1. First(t) = First(tx[w])
    BY <1>9 DEF First
  <2>2. First(t) \in DBs /\ t.put[First(t)] # 0
    BY <1>9, <1>11, <2>1, Domains DEF First
  <2>3. Started(t)
    BY <1>1, <1>9, <2>2 DEF Started
  <2> QED
    BY <1>10, <2>3 DEF Data
<1>15. Tables'
  <2> SUFFICES ASSUME NEW e \in DBs PROVE TableOK(table'[e], auto'[e])
    BY DEF Tables
  <2>1. TableOK(table[e], auto[e]) /\ Ids \subseteq Int
    BY Domains DEF Data, Tables
  <2> QED
    BY <1>2, <1>3, <2>1 DEF TableOK
<1>16. Data'
  BY <1>1, <1>2, <1>3, <1>10, <1>12, <1>13, <1>14, <1>15 DEF Data, DataTypes
<1> QED
  BY <1>2, <1>11, <1>16 DEF t, i

----------------------------------------------------------------------------
(* Steps of the transactions. *)

\* A transaction whose locks are what they were, or that has none.
Keeps(t, w) == \A d \in DBs : t.put[d] # 0 =>
                 t.put[d] = tx[w].put[d] /\ t.biz = tx[w].biz /\ d \in t.open

\* What a transaction is, written out for the steps.
LEMMA TxFacts ==
  ASSUME Data, NEW w \in Writers
  PROVE  /\ tx \in [Writers -> TxSet] /\ tx[w] \in TxSet /\ Idle \in TxSet /\ Started(tx[w])
         /\ Started(Idle) /\ Keeps(tx[w], w) /\ Keeps(Idle, w)
         /\ First(tx[w]) \in DBs /\ Second(tx[w]) \in DBs /\ First(tx[w]) # Second(tx[w])
         /\ DBs = {First(tx[w]), Second(tx[w])}
<1>1. tx \in [Writers -> TxSet] /\ tx[w] \in TxSet /\ Started(tx[w])
  BY DEF Data, DataTypes
<1>2. Idle \in TxSet /\ Started(Idle) /\ Idle.put = [d \in DBs |-> 0]
  BY Domains DEF Idle, TxSet, Started, Patterns
<1>3. Keeps(tx[w], w) /\ Keeps(Idle, w)
  BY <1>2 DEF Data, Puts, Keeps
<1>4. /\ First(tx[w]) \in DBs /\ Second(tx[w]) \in DBs /\ First(tx[w]) # Second(tx[w])
      /\ DBs = {First(tx[w]), Second(tx[w])}
  BY DEF First, Second, Authority, Peer, DBs
<1> QED
  BY <1>1, <1>2, <1>3, <1>4

\* What is under way goes on by the authority of today.
LEMMA StillLed ==
  ASSUME Data, Led, NEW w \in Writers, NEW t, tx' = [tx EXCEPT ![w] = t],
         t.st # "idle" => Authority(t.pat) = Authority(pattern),
         UNCHANGED <<pattern, topic, val>>,
         \A b \in Biz : CountIn(table'[Authority(pattern)], b) = written'[b]
  PROVE  Led'
<1>1. \A v \in Writers : tx'[v] = IF v = w THEN t ELSE tx[v]
  BY DEF Data, DataTypes
<1> QED
  BY <1>1 DEF Led

\* A step before the second commit, or without one, keeps the databases in step.
LEMMA StillInStep ==
  ASSUME Data, InStep, NEW w \in Writers, NEW t, tx' = [tx EXCEPT ![w] = t], Staged(t),
         UNCHANGED <<pattern, fix, table>>, tx[w].st # "commit2", t.st # "commit2",
         t.st = "commit" => \A v \in Writers : Past(v) /\ tx[v].biz = t.biz => v = w
  PROVE  InStep'
<1>1. \A v \in Writers : tx'[v] = IF v = w THEN t ELSE tx[v]
  BY DEF Data, DataTypes
<1>2. \A v \in Writers : Staged(tx'[v])
  BY <1>1 DEF InStep
<1>3. OnePast'
  BY <1>1 DEF InStep, OnePast, Past
<1>4. \A v \in Writers, b \in Biz :
        (Behind(v, b) <=> Behind(v, b)') /\ (Behind(v, b) => tx'[v] = tx[v])
  BY <1>1 DEF Behind
<1>5. Even'
  BY <1>4 DEF InStep, Even
<1> QED
  BY <1>2, <1>3, <1>5 DEF InStep

\* Steps that touch no table.
LEMMA NoTableStep ==
  ASSUME Data, trusted => Led, paired => InStep, NEW w \in Writers, NEW t \in TxSet,
         tx' = [tx EXCEPT ![w] = t], UNCHANGED <<tables, pattern, written, trusted, topic, val, fix>>,
         Started(t), Keeps(t, w),
         t.st # "idle" => t.pat = (IF tx[w].st = "idle" THEN pattern ELSE tx[w].pat),
         paired' => /\ paired /\ (InStep => Staged(t))
                    /\ tx[w].st # "commit2" /\ t.st \notin {"commit", "commit2"}
  PROVE  Data' /\ (trusted' => Led') /\ (paired' => InStep')
<1>1. Data'
  BY Keeping DEF Keeps
<1>2. table' = table
  BY DEF tables
<1>3. ASSUME trusted' PROVE Led'
  <2>1. Led
    BY <1>3
  <2>2. t.st # "idle" => Authority(t.pat) = Authority(pattern)
    BY <2>1 DEF Led
  <2>3. \A b \in Biz : CountIn(table'[Authority(pattern)], b) = written'[b]
    BY <1>2, <2>1 DEF Led
  <2> QED
    BY <2>1, <2>2, <2>3, StillLed
<1>4. ASSUME paired' PROVE InStep'
  <2>1. InStep /\ Staged(t) /\ tx[w].st # "commit2" /\ t.st # "commit2" /\ t.st # "commit"
    BY <1>4
  <2> QED
    BY <1>2, <2>1, StillInStep
<1> QED
  BY <1>1, <1>3, <1>4

\* The statements.
LEMMA ExecStep ==
  ASSUME Data, trusted => Led, paired => InStep, NEW w \in Writers, ExecFirst(w) \/ ExecSecond(w)
  PROVE  Data' /\ (trusted' => Led') /\ (paired' => InStep')
<1> DEFINE d == IF tx[w].st = "exec" THEN First(tx[w]) ELSE Second(tx[w])
           next == IF tx[w].st = "exec" /\ Doubles(tx[w].pat) THEN "exec2" ELSE "commit"
           t == [tx[w] EXCEPT !.st = next, !.put[d] = PutId(d, tx[w].biz)]
<1>1. /\ tx[w].st \in {"exec", "exec2"} /\ Exec(w, d, next) /\ d \in tx[w].open
      /\ UNCHANGED <<events, calm, paired, pattern, written, trusted, topic, val, fix>>
  BY TxFacts DEF ExecFirst, ExecSecond, NoFault, checks, repairs, Started
<1>2. d \in DBs /\ next \in {"exec2", "commit"} /\ (d = First(tx[w]) \/ tx[w].put[First(tx[w])] # 0)
  BY <1>1, TxFacts DEF Started
<1>3. Data' /\ table' = table /\ tx' = [tx EXCEPT ![w] = t] /\ PutId(d, tx[w].biz) # 0
  <2> HIDE DEF d, next, t
  <2>1. d \in DBs /\ next \in {"exec2", "commit"}
    BY <1>2
  <2>2. d \in tx[w].open /\ tx[w].st # "idle"
    BY <1>1
  <2>3. Exec(w, d, next)
    BY <1>1
  <2>4. d = First(tx[w]) \/ tx[w].put[First(tx[w])] # 0
    BY <1>2, Zenon
  <2>5. /\ Data' /\ table' = table
        /\ tx' = [tx EXCEPT ![w] = [tx[w] EXCEPT !.st = next, !.put[d] = PutId(d, tx[w].biz)]]
        /\ PutId(d, tx[w].biz) # 0
    BY ONLY Data, w \in Writers, <2>1, <2>2, <2>3, <2>4, Executing, Zenon
  <2> QED
    BY <2>5 DEF t
<1>4. t.st = next /\ t.pat = tx[w].pat /\ t.biz = tx[w].biz /\ t.open = tx[w].open
      /\ t.put[d] # 0 /\ First(t) = First(tx[w]) /\ Second(t) = Second(tx[w])
      /\ \A e \in DBs \ {d} : t.put[e] = tx[w].put[e]
  BY <1>2, <1>3, TxFacts DEF TxSet, First, Second
<1> HIDE DEF t
<1>5. ASSUME trusted' PROVE Led'
  <2>1. Led /\ Authority(t.pat) = Authority(pattern)
    BY <1>1, <1>4, <1>5 DEF Led
  <2>2. \A b \in Biz : CountIn(table'[Authority(pattern)], b) = written'[b]
    BY <1>1, <1>3, <2>1 DEF Led
  <2> QED
    BY <1>1, <1>3, <2>1, <2>2, StillLed
<1>6. ASSUME paired' PROVE InStep'
  <2>1. InStep /\ Staged(tx[w])
    BY <1>1, <1>6 DEF InStep
  <2>2. Staged(t)
    BY <1>1, <1>4, <2>1 DEF Staged
  <2>3. ASSUME t.st = "commit", NEW v \in Writers, Past(v), tx[v].biz = t.biz, v # w PROVE FALSE
    <3>1. Staged(tx[v]) /\ tx[v].put[Second(tx[v])] # 0 /\ Second(tx[v]) \in DBs
      BY <2>1, <2>3, TxFacts DEF InStep, Staged, Past
    <3>2. tx[w].st = "exec2" /\ d = Second(tx[w])
      BY <1>1, <1>4, <2>1, <2>3 DEF Staged
    <3>3. tx[w].put[First(tx[w])] # 0
      BY <3>2, TxFacts DEF Started
    <3>4. ~(tx[v].put[d] # 0)
      BY <1>1, <1>4, <2>3 DEF Exec, Locked
    <3>5. ~(tx[v].put[First(tx[w])] # 0)
      BY <1>4, <2>3, <3>3, TxFacts DEF Data, Apart
    <3> QED
      BY <3>1, <3>2, <3>4, <3>5, TxFacts
  <2>4. tx[w].st # "commit2" /\ t.st # "commit2"
    BY <1>1, <1>2, <1>4
  <2> QED
    BY <1>1, <1>3, <2>1, <2>2, <2>3, <2>4, StillInStep
<1> QED
  BY <1>3, <1>5, <1>6

\* What a transaction is after its first commit.
Committed(w, st) == IF Second(tx[w]) \in tx[w].open
                    THEN [tx[w] EXCEPT !.st = st, !.open = {Second(tx[w])}, !.put[First(tx[w])] = 0]
                    ELSE Idle

\* It has no lock in the first database, and in the second what it had.
LEMMA CommittedFacts ==
  ASSUME Data, NEW w \in Writers, tx[w].st = "commit", NEW st \in {"commit2", "leaked"}
  PROVE  LET t == Committed(w, st)
         IN  /\ t \in TxSet /\ Started(t) /\ Keeps(t, w) /\ t.put[First(tx[w])] = 0
             /\ tx[w].put[First(tx[w])] # 0 /\ tx[w].biz \in Biz
             /\ t.st # "idle" => t.pat = tx[w].pat
             /\ t.st \in {st, "idle"}
             /\ Second(tx[w]) \in tx[w].open =>
                  /\ t.st = st /\ t.biz = tx[w].biz /\ t.pat = tx[w].pat
                  /\ t.open = {Second(tx[w])} /\ t.put[Second(tx[w])] = tx[w].put[Second(tx[w])]
<1> DEFINE t == Committed(w, st)
<1>1. tx[w].put[First(tx[w])] # 0 /\ tx[w].biz \in Biz
  BY TxFacts DEF Started
<1>2. CASE Second(tx[w]) \in tx[w].open
  <2>1. /\ t.st = st /\ t.biz = tx[w].biz /\ t.pat = tx[w].pat /\ t.open = {Second(tx[w])}
        /\ t.put = [tx[w].put EXCEPT ![First(tx[w])] = 0] /\ t \in TxSet
    <3> DEFINE f == First(tx[w])
               e == Second(tx[w])
    <3>1. t = [tx[w] EXCEPT !.st = st, !.open = {e}, !.put[f] = 0] /\ f \in DBs /\ e \in DBs
      BY <1>2, TxFacts DEF Committed
    <3>2. tx[w] \in TxSet /\ 0 \in 0..MaxId
      BY TxFacts, Domains
    <3> HIDE DEF f, e, t
    <3>3. /\ t.st = st /\ t.biz = tx[w].biz /\ t.pat = tx[w].pat /\ t.open = {e}
          /\ t.put = [tx[w].put EXCEPT ![f] = 0]
      BY <3>1, <3>2 DEF TxSet
    <3>4. t.put \in [DBs -> 0..MaxId] /\ {e} \in SUBSET DBs
      BY <3>1, <3>2, <3>3 DEF TxSet
    <3>5. t \in TxSet
      BY <3>1, <3>2, <3>4 DEF TxSet
    <3> QED
      BY <3>3, <3>5 DEF f, e
  <2> HIDE DEF t
  <2>2. t.put[First(tx[w])] = 0 /\ t.put[Second(tx[w])] = tx[w].put[Second(tx[w])]
    BY <2>1, TxFacts DEF TxSet
  <2>3. Keeps(t, w)
    BY <2>1, <2>2, TxFacts DEF Keeps
  <2>4. Started(t)
    BY <1>1, <2>1 DEF Started
  <2> QED
    BY <1>1, <2>1, <2>2, <2>3, <2>4 DEF t
<1>3. CASE Second(tx[w]) \notin tx[w].open
  <2>1. t = Idle
    BY <1>3 DEF Committed
  <2>2. t.put[First(tx[w])] = 0 /\ t.st = "idle"
    BY <2>1, TxFacts DEF Idle
  <2>3. t \in TxSet /\ Started(t) /\ Keeps(t, w)
    BY <2>1, TxFacts
  <2> HIDE DEF t
  <2> QED
    BY <1>1, <1>3, <2>2, <2>3 DEF t
<1> QED
  BY <1>2, <1>3

\* The first commit, whether or not its answer arrives, is what written counts.
LEMMA FirstCommit ==
  ASSUME Data, written \in [Biz -> Nat], trusted => Led, NEW w \in Writers, tx[w].st = "commit",
         NEW st \in {"commit2", "leaked"}, tx' = [tx EXCEPT ![w] = Committed(w, st)],
         table' = Applied(w, First(tx[w])), written' = [written EXCEPT ![tx[w].biz] = @ + 1],
         UNCHANGED <<auto, pattern, trusted, topic, val>>
  PROVE  /\ Data' /\ (trusted' => Led')
         /\ CountIn(table'[First(tx[w])], tx[w].biz) = CountIn(table[First(tx[w])], tx[w].biz) + 1
         /\ \A c \in Biz \ {tx[w].biz} :
              CountIn(table'[First(tx[w])], c) = CountIn(table[First(tx[w])], c)
         /\ table'[Second(tx[w])] = table[Second(tx[w])]
<1> DEFINE t == Committed(w, st)
           d == First(tx[w])
<1>1. /\ t \in TxSet /\ Started(t) /\ Keeps(t, w) /\ t.put[d] = 0 /\ tx[w].put[d] # 0
      /\ tx[w].biz \in Biz /\ (t.st # "idle" => t.pat = tx[w].pat)
  BY CommittedFacts
<1>2. d \in DBs /\ Second(tx[w]) = Peer(d)
  BY TxFacts DEF Second
<1> HIDE DEF t, d
<1>3. /\ Data'
      /\ CountIn(table'[d], tx[w].biz) = CountIn(table[d], tx[w].biz) + 1
      /\ \A c \in Biz \ {tx[w].biz} : CountIn(table'[d], c) = CountIn(table[d], c)
      /\ table'[Peer(d)] = table[Peer(d)]
  <2>1. tx' = [tx EXCEPT ![w] = t] /\ table' = Applied(w, d)
    BY DEF t, d
  <2> QED
    BY <1>1, <1>2, <2>1, Applying DEF Keeps
<1>4. ASSUME trusted' PROVE Led'
  <2>1. Led /\ Authority(tx[w].pat) = Authority(pattern)
    BY <1>4 DEF Led
  <2>2. d = Authority(pattern)
    BY <2>1 DEF d, First
  <2>3. \A b \in Biz : CountIn(table[d], b) = written[b]
    BY <2>1, <2>2 DEF Led
  <2>4. \A b \in Biz : CountIn(table'[d], b) = written'[b]
    BY <1>1, <1>3, <2>3
  <2>5. t.st # "idle" => Authority(t.pat) = Authority(pattern)
    BY <1>1, <2>1
  <2>6. tx' = [tx EXCEPT ![w] = t]
    BY DEF t
  <2> QED
    BY <2>1, <2>2, <2>4, <2>5, <2>6, StillLed
<1> QED
  BY <1>2, <1>3, <1>4 DEF d

\* Between the two commits the first database is one ahead.
LEMMA CommitFirstStep ==
  ASSUME Data, written \in [Biz -> Nat], trusted => Led, paired => InStep,
         NEW w \in Writers, CommitFirst(w)
  PROVE  Data' /\ (trusted' => Led') /\ (paired' => InStep')
<1> DEFINE t == Committed(w, "commit2")
           d == First(tx[w])
           e == Second(tx[w])
           b == tx[w].biz
<1>1. /\ tx[w].st = "commit" /\ tx' = [tx EXCEPT ![w] = t] /\ table' = Applied(w, d)
      /\ written' = [written EXCEPT ![b] = @ + 1]
      /\ UNCHANGED <<auto, pattern, trusted, topic, val, paired, fix>>
  <2>1. [tx EXCEPT ![w] = IF Second(@) \in @.open
                          THEN [@ EXCEPT !.st = "commit2", !.open = {Second(tx[w])},
                                         !.put[First(tx[w])] = 0]
                          ELSE Idle] = [tx EXCEPT ![w] = t]
    BY TxFacts DEF Committed
  <2> QED
    BY <2>1 DEF CommitFirst, NoFault, checks, repairs
<1>2. /\ Data' /\ (trusted' => Led')
      /\ CountIn(table'[d], b) = CountIn(table[d], b) + 1
      /\ \A c \in Biz \ {b} : CountIn(table'[d], c) = CountIn(table[d], c)
      /\ table'[e] = table[e]
  BY <1>1, FirstCommit
<1>3. ASSUME paired' PROVE InStep'
  <2>1. InStep /\ Staged(tx[w]) /\ tx[w].open = DBs /\ tx[w].put[e] # 0 /\ b \in Biz
    BY <1>1, <1>3, TxFacts DEF InStep, Staged, Started
  <2>2. /\ t.st = "commit2" /\ t.biz = b /\ t.pat = tx[w].pat /\ t.open = {e}
        /\ t.put[e] = tx[w].put[e] /\ First(t) = d /\ Second(t) = e
    BY <1>1, <2>1, CommittedFacts, TxFacts DEF First, Second
  <2>3. d \in DBs /\ e \in DBs /\ DBs = {d, e} /\ d # e
    BY TxFacts
  <2>4. \A v \in Writers : tx'[v] = IF v = w THEN t ELSE tx[v]
    BY <1>1, TxFacts
  <2> HIDE DEF t, d, e, b
  <2>5. Staged(t)
    BY <1>1, <2>1, <2>2 DEF Staged
  <2>6. \A v \in Writers : Staged(tx'[v])
    BY <2>1, <2>4, <2>5 DEF InStep
  <2>7. \A v \in Writers : (Past(v) <=> Past(v)') /\ tx'[v].biz = tx[v].biz
    BY <1>1, <2>2, <2>4 DEF Past, b
  <2>8. OnePast'
    BY <2>1, <2>7 DEF InStep, OnePast
  <2>9. ASSUME NEW c \in Biz
        PROVE  /\ (\A v \in Writers : ~Behind(v, c)') =>
                    CountIn(table'["src"], c) = CountIn(table'["dst"], c)
               /\ \A v \in Writers : Behind(v, c)' =>
                    CountIn(table'[First(tx'[v])], c) = CountIn(table'[Second(tx'[v])], c) + 1
    <3>1. \A v \in Writers : Behind(v, c) => v # w /\ c # b
      BY <1>1, <2>1 DEF Behind, InStep, OnePast, Past, b
    <3>2. CASE c = b
      <4>1. CountIn(table[d], b) = CountIn(table[e], b)
        BY <2>1, <2>3, <3>1, <3>2, Domains DEF InStep, Even
      <4>2. CountIn(table'[d], b) = CountIn(table'[e], b) + 1
        BY <1>2, <4>1
      <4>3. Behind(w, c)' /\ \A v \in Writers \ {w} : ~Behind(v, c)'
        BY <2>2, <2>4, <3>1, <3>2 DEF Behind
      <4> QED
        BY <2>2, <2>4, <3>2, <4>2, <4>3
    <3>3. CASE c # b
      <4>1. \A g \in DBs : CountIn(table'[g], c) = CountIn(table[g], c)
        BY <1>2, <2>3, <3>3
      <4>2. \A v \in Writers : (Behind(v, c)' <=> Behind(v, c)) /\ (Behind(v, c) => tx'[v] = tx[v])
        BY <1>1, <2>2, <2>4, <3>3 DEF Behind
      <4>3. \A v \in Writers : First(tx[v]) \in DBs /\ Second(tx[v]) \in DBs
        BY TxFacts
      <4> QED
        BY <2>1, <4>1, <4>2, <4>3, Domains DEF InStep, Even
    <3> QED
      BY <3>2, <3>3
  <2>10. Even'
    BY <2>9 DEF Even
  <2> QED
    BY <1>1, <2>1, <2>6, <2>8, <2>10 DEF InStep
<1> QED
  BY <1>2, <1>3

\* The second commit makes up for it.
LEMMA CommitSecondStep ==
  ASSUME Data, trusted => Led, paired => InStep, NEW w \in Writers, CommitSecond(w)
  PROVE  Data' /\ (trusted' => Led') /\ (paired' => InStep')
<1> DEFINE d == First(tx[w])
           e == Second(tx[w])
           b == tx[w].biz
<1>1. /\ tx[w].st = "commit2" /\ tx' = [tx EXCEPT ![w] = Idle] /\ table' = Applied(w, e)
      /\ UNCHANGED <<auto, pattern, written, trusted, topic, val, paired, fix>>
  BY DEF CommitSecond, NoFault, checks, repairs
<1>2. CASE tx[w].put[e] = 0
  <2>1. table' = table
    BY <1>1, <1>2 DEF Applied
  <2>2. Idle.st = "idle" /\ ~paired'
    BY <1>1, <1>2, TxFacts DEF Idle, InStep, Staged
  <2> QED
    BY <1>1, <2>1, <2>2, TxFacts, NoTableStep DEF tables
<1>3. CASE tx[w].put[e] # 0
  <2>1. d \in DBs /\ e \in DBs /\ DBs = {d, e} /\ d # e /\ Peer(e) = d /\ Peer(d) = e
    BY TxFacts, Domains DEF Second
  <2>2. b \in Biz /\ Idle.put[e] = 0
    BY <1>1, <2>1, TxFacts DEF Started, Idle
  <2>3. /\ Data'
        /\ CountIn(table'[e], b) = CountIn(table[e], b) + 1
        /\ \A c \in Biz \ {b} : CountIn(table'[e], c) = CountIn(table[e], c)
        /\ table'[d] = table[d]
    BY <1>1, <1>3, <2>1, <2>2, TxFacts, Applying DEF Keeps
  <2>4. ASSUME trusted' PROVE Led'
    <3>1. Led /\ Authority(pattern) = d /\ Idle.st = "idle"
      BY <1>1, <2>4 DEF Led, First, Idle
    <3> QED
      BY <1>1, <2>3, <3>1, StillLed DEF Led
  <2>5. ASSUME paired' PROVE InStep'
    <3>1. InStep
      BY <1>1, <2>5
    <3>2. \A v \in Writers : tx'[v] = IF v = w THEN Idle ELSE tx[v]
      BY <1>1, TxFacts
    <3>3. \A v \in Writers : Staged(tx'[v])
      BY <3>1, <3>2 DEF InStep, Staged, Idle
    <3>4. OnePast'
      BY <3>1, <3>2 DEF InStep, OnePast, Past, Idle
    <3>5. ASSUME NEW c \in Biz
          PROVE  /\ (\A v \in Writers : ~Behind(v, c)') =>
                      CountIn(table'["src"], c) = CountIn(table'["dst"], c)
                 /\ \A v \in Writers : Behind(v, c)' =>
                      CountIn(table'[First(tx'[v])], c) = CountIn(table'[Second(tx'[v])], c) + 1
      <4>1. /\ ~Behind(w, c)'
            /\ \A v \in Writers \ {w} : (Behind(v, c)' <=> Behind(v, c)) /\ tx'[v] = tx[v]
        BY <3>2 DEF Behind, Idle
      <4>2. CASE c = b
        <5>1. Behind(w, c) /\ \A v \in Writers \ {w} : ~Behind(v, c)
          BY <1>1, <3>1, <4>2 DEF Behind, InStep, OnePast, Past
        <5>2. CountIn(table[d], c) = CountIn(table[e], c) + 1
          BY <3>1, <5>1 DEF InStep, Even
        <5>3. CountIn(table'[d], c) = CountIn(table'[e], c)
          BY <2>3, <4>2, <5>2
        <5>4. CountIn(table'["src"], c) = CountIn(table'["dst"], c)
          BY <2>1, <5>3, Domains
        <5> QED
          BY <4>1, <5>1, <5>4
      <4>3. CASE c # b
        <5>1. \A g \in DBs : CountIn(table'[g], c) = CountIn(table[g], c)
          BY <2>1, <2>3, <4>3
        <5>2. ~Behind(w, c)
          BY <4>3 DEF Behind
        <5>3. \A v \in Writers : First(tx[v]) \in DBs /\ Second(tx[v]) \in DBs
          BY TxFacts
        <5> QED
          BY <3>1, <4>1, <5>1, <5>2, <5>3, Domains DEF InStep, Even
      <4> QED
        BY <4>2, <4>3
    <3>6. Even'
      BY <3>5 DEF Even
    <3> QED
      BY <1>1, <3>1, <3>3, <3>4, <3>6 DEF InStep
  <2> QED
    BY <2>3, <2>4, <2>5
<1> QED
  BY <1>2, <1>3

\* A transaction's steps.
LEMMA WriteStep ==
  ASSUME Data, written \in [Biz -> Nat], pattern \in Patterns,
         trusted => Led, paired => InStep, NEW w \in Writers, Write(w), ~ExecSecondPanics(w)
  PROVE  Data' /\ (trusted' => Led') /\ (paired' => InStep')
<1> DEFINE Goal == Data' /\ (trusted' => Led') /\ (paired' => InStep')
<1>1. ASSUME NEW b \in Biz, BeginTx(w, b) \/ BeginSecondFails(w, b) PROVE Goal
  <2> DEFINE t == [Idle EXCEPT
                     !.st = IF BeginSecondFails(w, b) /\ pattern = "src_first"
                            THEN "leaked" ELSE "exec",
                     !.pat = pattern, !.biz = b,
                     !.open = IF ~BeginSecondFails(w, b) /\ Doubles(pattern)
                              THEN DBs ELSE {Authority(pattern)}]
  <2>1. tx[w].st = "idle" /\ UNCHANGED <<tables, pattern, written, trusted, topic, val, fix>>
        /\ (paired' => paired /\ ~BeginSecondFails(w, b))
    BY <1>1 DEF BeginTx, BeginSecondFails, Fault, Happens, checks, repairs, tables
  <2>2. tx' = [tx EXCEPT ![w] = t]
    <3>1. CASE BeginSecondFails(w, b)
      BY <3>1 DEF BeginSecondFails
    <3>2. CASE ~BeginSecondFails(w, b)
      BY <1>1, <3>2 DEF BeginTx
    <3> QED
      BY <3>1, <3>2
  <2>3. t \in TxSet /\ t.st \in {"exec", "leaked"} /\ t.pat = pattern /\ t.biz = b
        /\ t.put = [d \in DBs |-> 0] /\ First(t) \in t.open
        /\ (~BeginSecondFails(w, b) => t.st = "exec" /\ (Doubles(pattern) => t.open = DBs))
    BY TxFacts, Domains DEF TxSet, Idle, First, DBs
  <2> HIDE DEF t
  <2>4. Started(t) /\ Keeps(t, w)
    BY <2>3 DEF Started, Keeps
  <2>5. paired' => /\ paired /\ (InStep => Staged(t))
                   /\ tx[w].st # "commit2" /\ t.st \notin {"commit", "commit2"}
    BY <2>1, <2>3 DEF InStep, Staged
  <2> QED
    BY <2>1, <2>2, <2>3, <2>4, <2>5, NoTableStep
<1>2. ASSUME ExecFirst(w) \/ ExecSecond(w) PROVE Goal
  BY <1>2, ExecStep
<1>3. ASSUME ExecFirstFails(w) \/ ExecSecondFails(w) PROVE Goal
  <2> DEFINE t == [tx[w] EXCEPT !.st = IF tx[w].st = "exec" THEN "rollback" ELSE "commit"]
  <2>1. /\ tx[w].st \in {"exec", "exec2"}
        /\ UNCHANGED <<tables, pattern, written, trusted, topic, val, fix>>
        /\ tx' = [tx EXCEPT ![w] = t] /\ (paired' => paired /\ tx[w].st = "exec")
    BY <1>3 DEF ExecFirstFails, ExecSecondFails, Fault, NoFault, Upset, Happens, checks,
       repairs, tables
  <2>2. /\ t \in TxSet /\ t.pat = tx[w].pat /\ t.biz = tx[w].biz
        /\ t.put = tx[w].put /\ t.open = tx[w].open
        /\ t.st = IF tx[w].st = "exec" THEN "rollback" ELSE "commit"
    BY TxFacts DEF TxSet
  <2> HIDE DEF t
  <2>3. Started(t) /\ Keeps(t, w)
    BY <2>1, <2>2, TxFacts DEF Started, Keeps, First
  <2>4. paired' => /\ paired /\ (InStep => Staged(t))
                   /\ tx[w].st # "commit2" /\ t.st \notin {"commit", "commit2"}
    BY <2>1, <2>2 DEF InStep, Staged
  <2> QED
    BY <2>1, <2>2, <2>3, <2>4, NoTableStep
<1>4. ASSUME CommitFirst(w) PROVE Goal
  BY <1>4, CommitFirstStep
<1>5. ASSUME CommitFirstFails(w) PROVE Goal
  <2> DEFINE t == Committed(w, "leaked")
  <2>1. /\ tx[w].st = "commit" /\ ~paired' /\ tx' = [tx EXCEPT ![w] = t]
        /\ UNCHANGED <<auto, pattern, trusted, topic, val, fix>>
    <3>1. [tx EXCEPT ![w] = IF Second(@) \in @.open
                            THEN [@ EXCEPT !.st = "leaked", !.open = {Second(tx[w])},
                                           !.put[First(tx[w])] = 0]
                            ELSE Idle] = [tx EXCEPT ![w] = t]
      BY TxFacts DEF Committed
    <3> QED
      BY <1>5, <3>1 DEF CommitFirstFails, Fault, Happens, checks, repairs
  <2>2. CASE UNCHANGED <<table, written>>
    <3>1. t \in TxSet /\ Started(t) /\ Keeps(t, w) /\ (t.st # "idle" => t.pat = tx[w].pat)
      BY <2>1, CommittedFacts
    <3> HIDE DEF t
    <3> QED
      BY <2>1, <2>2, <3>1, NoTableStep DEF tables
  <2>3. CASE table' = Applied(w, First(tx[w])) /\ written' = [written EXCEPT ![tx[w].biz] = @ + 1]
    BY <2>1, <2>3, FirstCommit
  <2> QED
    BY <1>5, <2>2, <2>3 DEF CommitFirstFails
<1>6. ASSUME CommitSecond(w) PROVE Goal
  BY <1>6, CommitSecondStep
<1>7. ASSUME CommitSecondFails(w) \/ EndTx(w) PROVE Goal
  <2>1. /\ tx' = [tx EXCEPT ![w] = Idle]
        /\ UNCHANGED <<tables, pattern, written, trusted, topic, val, fix>>
        /\ (paired' => paired /\ tx[w].st # "commit2")
    BY <1>7 DEF CommitSecondFails, EndTx, Fault, NoFault, Happens, checks, repairs, tables
  <2>2. Idle.st = "idle" /\ Staged(Idle)
    BY DEF Idle, Staged
  <2> QED
    BY <2>1, <2>2, TxFacts, NoTableStep
<1> QED
  BY <1>1, <1>2, <1>3, <1>4, <1>5, <1>6, <1>7 DEF Write

----------------------------------------------------------------------------
(* Steps of the validator, the fixer, the admin server, and crashes. *)

\* Only rows that exist are looked at.
LEMMA ReadIds ==
  ASSUME DataTypes, NEW d \in DBs
  PROVE  /\ \A off : IdAt(d, off) # 0 => IdAt(d, off) \in Ids
         /\ \A i \in Ids : table[d][i] \in RowSet
<1>1. \A off : IdAt(d, off) # 0 => IdAt(d, off) \in Ids
  BY DEF IdAt, Rows
<1> QED
  BY <1>1 DEF DataTypes, TableSet

\* What a validator reports are rows of its base.
LEMMA Sending ==
  ASSUME topic \in Seq([id : Ids, base : DBs]), NEW ids \in SUBSET Ids, val.base \in DBs, Sends(ids)
  PROVE  /\ topic' \in Seq([id : Ids, base : DBs])
         /\ (topic # <<>> => topic' # <<>>)
         /\ \A i \in 1..Len(topic') :
              topic'[i].base \in {val.base} \union {topic[k].base : k \in 1..Len(topic)}
<1>1. Cardinality(ids) \in Nat
  <2>1. IsFiniteSet(Ids)
    BY Domains, FS_Interval
  <2> QED
    BY <2>1, FS_Subset, FS_CardinalityType
<1> DEFINE n == Cardinality(ids)
<1>2. PICK s \in [1..n -> ids] :
        topic' = topic \o [i \in DOMAIN s |-> [id |-> s[i], base |-> val.base]]
  BY DEF Sends, Reports
<1> DEFINE r == [i \in 1..n |-> [id |-> s[i], base |-> val.base]]
<1>3. topic' = topic \o r /\ n \in Nat
  BY <1>1, <1>2
<1> HIDE DEF n
<1>4. r \in Seq([id : Ids, base : DBs]) /\ Len(r) = n /\ \A i \in 1..n : r[i].base = val.base
  BY <1>3
<1> HIDE DEF r
<1>5. topic' \in Seq([id : Ids, base : DBs]) /\ Len(topic') = Len(topic) + n /\ Len(topic) \in Nat
  <2> DEFINE S == [id : Ids, base : DBs]
  <2>1. topic \in Seq(S) /\ r \in Seq(S)
    BY <1>4
  <2> HIDE DEF S
  <2>2. topic' \in Seq(S) /\ Len(topic') = Len(topic) + Len(r) /\ Len(topic) \in Nat
    BY <1>3, <2>1
  <2> QED
    BY <1>4, <2>2 DEF S
<1>6. topic # <<>> => topic' # <<>>
  BY <1>3, <1>4, <1>5
<1>7. ASSUME NEW i \in 1..Len(topic')
      PROVE  topic'[i].base \in {val.base} \union {topic[k].base : k \in 1..Len(topic)}
  <2>1. CASE i \in 1..Len(topic)
    <3>1. topic'[i] = topic[i]
      BY <1>3, <1>4, <2>1
    <3> QED
      BY <2>1, <3>1
  <2>2. CASE i \notin 1..Len(topic)
    <3>1. topic'[i] = r[i - Len(topic)] /\ i - Len(topic) \in 1..n
      BY <1>3, <1>4, <1>5, <1>7, <2>2
    <3> QED
      BY <1>4, <3>1
  <2> QED
    BY <2>1, <2>2
<1> QED
  BY <1>5, <1>6, <1>7

\* The databases are the same as before.
LEMMA DataSame ==
  ASSUME Data, UNCHANGED <<tables, tx>>
  PROVE  Data'
BY DEF Data, DataTypes, Tables, Puts, Apart, tables

\* ... and nobody moves.
LEMMA InStepSame ==
  ASSUME InStep, UNCHANGED <<table, tx, pattern, fix>>
  PROVE  InStep'
BY DEF InStep, OnePast, Past, Even, Behind

\* The validator reads the tables and reports.
LEMMA ValidatorStep ==
  ASSUME Core, Forward \/ Reverse
  PROVE  Core'
<1> DEFINE Reported == topic' = topic \/ \E ids \in SUBSET Ids : val.kind # "off" /\ Sends(ids)
           Scans == /\ val' \in ValSet /\ fwd' \in FwdSet /\ rev' \in RevSet
                    /\ val'.kind \in {val.kind, "off"} /\ val'.base = val.base
                    /\ fwd'.pc = "compare" => fwd'.id \in Ids
                    /\ fwd'.pc \in {"base", "compare"} => val'.kind # "off"
                    /\ rev'.pc \in {"target", "base"} => val'.kind # "off"
<1>1. UNCHANGED <<tables, traffic, fix>> /\ (paired' => paired)
  BY DEF Forward, Reverse, FwdReadBase, FwdReturns, FwdReadFails, FwdCompare, FwdCompareFails,
         RevReadTarget, RevReturns, RevReadBase, RevReadBaseFails, NoFault, Fault, repairs
<1>2. /\ Checks /\ val.base \in DBs /\ Peer(val.base) \in DBs
      /\ val \in ValSet /\ fwd \in FwdSet /\ rev \in RevSet
  BY Domains DEF Core, Checks, ValSet
<1>3. Reported /\ Scans
  <2>1. ASSUME FwdReadBase PROVE Reported /\ Scans
    <3> DEFINE id == IdAt(val.base, fwd.off)
    <3>1. id \in Ids /\ table[val.base][id] \in RowSet
      BY <1>2, <2>1, ReadIds DEF FwdReadBase, Core, Data
    <3>2. fwd' = [fwd EXCEPT !.pc = "compare", !.id = id, !.got = table[val.base][id]]
      BY <2>1 DEF FwdReadBase
    <3>3. fwd.pc = "base" /\ UNCHANGED <<val, rev, topic>>
      BY <2>1 DEF FwdReadBase, repairs
    <3> HIDE DEF id
    <3>4. fwd' \in FwdSet /\ fwd'.pc = "compare" /\ fwd'.id = id
      BY <1>2, <3>1, <3>2 DEF FwdSet
    <3> QED
      BY <1>2, <3>1, <3>3, <3>4 DEF Checks
  <2>2. ASSUME fwd.pc \in {"base", "compare"}, FwdEnds, rev' = rev PROVE Scans
    <3>1. fwd' \in FwdSet /\ fwd'.pc = "done"
      BY <2>2, Domains DEF FwdEnds, NoScan, FwdSet
    <3>2. CASE rev.pc = "done"
      <4>1. val' = [kind |-> "off", base |-> val.base, cancelled |-> FALSE]
        BY <2>2, <3>2 DEF FwdEnds, NoCheck
      <4> QED
        BY <1>2, <2>2, <3>1, <3>2, <4>1 DEF ValSet
    <3>3. CASE rev.pc # "done"
      BY <1>2, <2>2, <3>1, <3>3 DEF FwdEnds, Checks
    <3> QED
      BY <3>2, <3>3
  <2>3. ASSUME FwdReturns \/ FwdReadFails PROVE Reported /\ Scans
    <3>1. /\ fwd.pc = "base" /\ UNCHANGED <<rev, topic>>
          /\ FwdEnds \/ (fwd' = [fwd EXCEPT !.off = @ + 1] /\ val' = val)
      BY <2>3 DEF FwdReturns, FwdReadFails, repairs
    <3>2. CASE fwd' = [fwd EXCEPT !.off = @ + 1] /\ val' = val
      <4>1. fwd' \in FwdSet /\ fwd'.pc = "base"
        BY <1>2, <3>1, <3>2 DEF FwdSet
      <4> QED
        BY <1>2, <3>1, <3>2, <4>1 DEF Checks
    <3> QED
      BY <2>2, <3>1, <3>2
  <2>4. ASSUME FwdCompare \/ FwdCompareFails PROVE Reported /\ Scans
    <3>1. /\ fwd.pc = "compare" /\ UNCHANGED <<val, rev>> /\ (topic' = topic \/ Sends({fwd.id}))
          /\ fwd' = [NoScan EXCEPT !.pc = "base", !.off = fwd.off + 1]
      BY <2>4 DEF FwdCompare, FwdCompareFails, repairs
    <3>2. val.kind # "off" /\ {fwd.id} \in SUBSET Ids
      BY <1>2, <3>1 DEF Checks
    <3>3. fwd' = [pc |-> "base", off |-> fwd.off + 1, got |-> NoRow, id |-> 0]
      BY <3>1 DEF NoScan
    <3>4. fwd.off + 1 \in Nat
      BY <1>2 DEF FwdSet
    <3>5. fwd' \in FwdSet /\ fwd'.pc = "base"
      BY <3>3, <3>4, Domains DEF FwdSet
    <3> QED
      BY <1>2, <3>1, <3>2, <3>5 DEF Checks
  <2>5. ASSUME RevReadTarget PROVE Reported /\ Scans
    <3>1. Page(rev.off) \subseteq Ids
      BY <1>2, ReadIds DEF Page, Core, Data
    <3>2. /\ rev' = [rev EXCEPT !.pc = "base", !.ids = Page(rev.off)]
          /\ rev.pc = "target" /\ UNCHANGED <<val, fwd, topic>>
      BY <2>5 DEF RevReadTarget, repairs
    <3>3. rev' \in RevSet /\ rev'.pc = "base"
      BY <1>2, <3>1, <3>2 DEF RevSet
    <3> QED
      BY <1>2, <3>2, <3>3 DEF Checks
  <2>6. ASSUME rev.pc \in {"target", "base"}, RevEnds, fwd' = fwd PROVE Scans
    <3>1. rev' \in RevSet /\ rev'.pc = "done"
      BY <2>6 DEF RevEnds, NoPage, RevSet
    <3>2. CASE fwd.pc = "done"
      <4>1. val' = [kind |-> "off", base |-> val.base, cancelled |-> FALSE]
        BY <2>6, <3>2 DEF RevEnds, NoCheck
      <4> QED
        BY <1>2, <2>6, <3>1, <3>2, <4>1 DEF ValSet
    <3>3. CASE fwd.pc # "done"
      BY <1>2, <2>6, <3>1, <3>3 DEF RevEnds, Checks
    <3> QED
      BY <3>2, <3>3
  <2>7. ASSUME RevReturns PROVE Reported /\ Scans
    BY <2>6, <2>7 DEF RevReturns, repairs
  <2>8. ASSUME NEW page, rev.pc = "base", AfterPage(page), fwd' = fwd PROVE Scans
    <3>1. CASE RevEnds
      BY <2>6, <2>8, <3>1
    <3>2. CASE ~RevEnds
      <4>1. val' = val /\ Cardinality(rev.ids) \in Nat
        <5>1. IsFiniteSet(Ids) /\ rev.ids \subseteq Ids
          BY <1>2, Domains, FS_Interval DEF RevSet
        <5> QED
          BY <2>8, <3>2, <5>1, FS_Subset, FS_CardinalityType DEF AfterPage
      <4>2. \/ rev' = [NoPage EXCEPT !.pc = "target", !.off = rev.off + Cardinality(rev.ids)]
            \/ rev' = [rev EXCEPT !.pc = "target", !.ids = {}]
        BY <2>8, <3>2 DEF AfterPage
      <4>3. rev' \in RevSet /\ rev'.pc = "target"
        <5>1. rev.off + Cardinality(rev.ids) \in Nat
          BY <1>2, <4>1 DEF RevSet
        <5>2. CASE rev' = [NoPage EXCEPT !.pc = "target", !.off = rev.off + Cardinality(rev.ids)]
          <6>1. rev' = [pc |-> "target", off |-> rev.off + Cardinality(rev.ids), ids |-> {}]
            BY <5>2 DEF NoPage
          <6> QED
            BY <5>1, <6>1 DEF RevSet
        <5>3. CASE rev' = [rev EXCEPT !.pc = "target", !.ids = {}]
          BY <1>2, <5>3 DEF RevSet
        <5> QED
          BY <4>2, <5>2, <5>3
      <4> QED
        BY <1>2, <2>8, <4>1, <4>3 DEF Checks
    <3> QED
      BY <3>1, <3>2
  <2>9. ASSUME RevReadBase \/ RevReadBaseFails PROVE Reported /\ Scans
    <3>1. PICK missing \in SUBSET Ids, page \in SUBSET Ids :
            rev.pc = "base" /\ Sends(missing) /\ AfterPage(page) /\ fwd' = fwd
      <4>1. \A lost : {rev.ids, rev.ids \ Rows(val.base), rev.ids \ (Rows(val.base) \union {lost})}
                       \subseteq SUBSET Ids
        BY <1>2 DEF RevSet
      <4>2. CASE RevReadBase
        BY <4>1, <4>2 DEF RevReadBase
      <4>3. CASE RevReadBaseFails
        <5>1. \/ Sends(rev.ids) /\ AfterPage(rev.ids)
              \/ \E lost : /\ Sends(rev.ids \ (Rows(val.base) \union {lost}))
                          /\ AfterPage(rev.ids \ Rows(val.base))
          BY <4>3 DEF RevReadBaseFails
        <5> QED
          BY <4>1, <4>3, <5>1 DEF RevReadBaseFails
      <4> QED
        BY <2>9, <4>2, <4>3
    <3>2. val.kind # "off"
      BY <1>2, <3>1 DEF Checks
    <3> QED
      BY <2>8, <3>1, <3>2
  <2> QED
    BY <2>1, <2>3, <2>4, <2>5, <2>7, <2>9 DEF Forward, Reverse
<1>4. /\ topic' \in Seq([id : Ids, base : DBs]) /\ (topic # <<>> => topic' # <<>>)
      /\ val.kind # "off" \/ topic' = topic
      /\ \A i \in 1..Len(topic') :
           topic'[i].base \in {val.base} \union {topic[k].base : k \in 1..Len(topic)}
  <2>1. CASE topic' = topic
    BY <1>2, <2>1 DEF Checks
  <2>2. CASE topic' # topic
    BY <1>2, <1>3, <2>2, Sending DEF Checks
  <2> QED
    BY <2>1, <2>2
<1>5. Data'
  BY <1>1, DataSame DEF Core, traffic
<1>6. Checks'
  BY <1>1, <1>2, <1>3, <1>4 DEF Checks, traffic
<1>7. ASSUME trusted' PROVE Led'
  <2>1. Led
    BY <1>1, <1>7 DEF Core, traffic
  <2>2. \A i \in 1..Len(topic') : topic'[i].base = Authority(pattern)
    BY <1>4, <2>1 DEF Led
  <2>3. val'.kind # "off" => val'.base = Authority(pattern)
    BY <1>3, <2>1 DEF Led
  <2> QED
    BY <1>1, <2>1, <2>2, <2>3 DEF Led, traffic, tables
<1>8. ASSUME paired' PROVE InStep'
  BY <1>1, <1>8, InStepSame DEF Core, traffic, tables
<1> QED
  BY <1>5, <1>6, <1>7, <1>8 DEF Core

\* What the fixer handles.
LEMMA Heading ==
  ASSUME Core, topic # <<>>
  PROVE  /\ Head(topic) \in [id : Ids, base : DBs] /\ Base \in DBs /\ Target \in DBs
         /\ Tail(topic) \in Seq([id : Ids, base : DBs])
         /\ Led => /\ Target = Peer(Authority(pattern))
                   /\ \A i \in 1..Len(Tail(topic)) : Tail(topic)[i].base = Authority(pattern)
<1> DEFINE S == [id : Ids, base : DBs]
<1>1. topic \in Seq(S)
  BY DEF Core, Checks
<1> HIDE DEF S
<1>2. /\ Head(topic) \in S /\ Tail(topic) \in Seq(S) /\ Len(topic) >= 1 /\ Head(topic) = topic[1]
      /\ \A i \in 1..Len(Tail(topic)) : i + 1 \in 1..Len(topic) /\ Tail(topic)[i] = topic[i + 1]
  BY <1>1
<1>3. Base \in DBs /\ Target \in DBs
  BY <1>2, Domains DEF S, Base, Target
<1>4. Led => Base = Authority(pattern)
  BY <1>1, <1>2 DEF Led, Base
<1> QED
  BY <1>2, <1>3, <1>4 DEF S, Target, Led

\* A repair writes the target, which is never the authority.
LEMMA RepairStep ==
  ASSUME Core, Repair
  PROVE  Core'
<1>1. ASSUME FixRead PROVE Core'
  <2>1. /\ topic # <<>> /\ UNCHANGED <<topic, tables, traffic, checks>> /\ ~paired'
        /\ fix' = [st |-> "write", row |-> table[Base][Head(topic).id]]
    BY <1>1 DEF FixRead
  <2>2. fix'.row \in RowSet
    BY <2>1, Heading, ReadIds DEF Core, Data
  <2>3. Data'
    BY <2>1, DataSame DEF Core, traffic
  <2>4. Checks'
    BY <2>1, <2>2 DEF Core, Checks, traffic, checks
  <2>5. trusted' => Led'
    BY <2>1 DEF Core, Led, traffic, checks, tables
  <2> QED
    BY <2>1, <2>3, <2>4, <2>5 DEF Core
<1>2. ASSUME FixCollides \/ FixFails PROVE Core'
  <2>1. /\ topic # <<>> /\ UNCHANGED <<tables, traffic, checks>> /\ ~paired'
        /\ topic' = Tail(topic) /\ fix' = NoFix
    BY <1>2 DEF FixCollides, FixFails, Handled, Upset, Fault, Core, Checks
  <2>2. Data'
    BY <2>1, DataSame DEF Core, traffic
  <2>3. Checks'
    BY <2>1, Heading, Domains DEF Core, Checks, traffic, checks, NoFix
  <2>4. trusted' => Led'
    BY <2>1, Heading DEF Core, Led, traffic, checks, tables
  <2> QED
    BY <2>1, <2>2, <2>3, <2>4 DEF Core
<1>3. ASSUME FixWrite PROVE Core'
  <2> DEFINE id  == Head(topic).id
             row == fix.row
             T   == table[Target]
             a   == auto[Target]
             e   == auto'[Target]
             U   == [j \in Ids |-> IF j = id THEN row
                                   ELSE IF row # NoRow /\ T[j].biz = row.biz THEN NoRow ELSE T[j]]
  <2>1. /\ fix.st = "write" /\ topic # <<>> /\ ~FixWaits(id, row) /\ table' = FixedTable(id, row)
        /\ auto' = IF row # NoRow /\ auto[Target] <= id
                   THEN [auto EXCEPT ![Target] = id + 1] ELSE auto
        /\ topic' = Tail(topic) /\ fix' = NoFix /\ UNCHANGED <<traffic, checks, paired>>
    BY <1>3 DEF FixWrite, Handled, NoFault, Core, Checks
  <2>2. id \in Ids /\ row \in RowSet /\ Target \in DBs /\ Base \in DBs
    BY <2>1, Heading DEF Core, Checks
  <2>3. /\ table \in [DBs -> TableSet] /\ TableOK(T, a) /\ auto \in [DBs -> 1..(MaxId + 1)]
        /\ tx \in [Writers -> TxSet] /\ \A j \in Ids : T[j] \in RowSet
    BY <2>2 DEF Core, Data, DataTypes, Tables, TableSet
  <2>4. ~paired'
    BY <2>1 DEF Core, InStep
  <2>5. /\ auto' \in [DBs -> 1..(MaxId + 1)] /\ a \in Nat /\ e \in Nat /\ e >= a
        /\ (row # NoRow => e > id)
        /\ \A d \in DBs \ {Target} : auto'[d] = auto[d]
    <3>1. id + 1 \in 1..(MaxId + 1) /\ id \in Nat
      BY <2>2, Domains
    <3>2. a \in 1..(MaxId + 1)
      BY <2>2, <2>3
    <3>3. CASE row # NoRow /\ a <= id
      BY <2>1, <2>2, <2>3, <3>1, <3>2, <3>3, Domains
    <3>4. CASE ~(row # NoRow /\ a <= id)
      BY <2>1, <2>2, <2>3, <3>1, <3>2, <3>4, Domains
    <3> QED
      BY <3>3, <3>4
  <2>6. table' = [table EXCEPT ![Target] = U]
    <3>1. \A j \in Ids : j \in Met(id, row) <=> T[j] # NoRow /\ (j = id \/ T[j].biz = row.biz)
      BY DEF Met, Rows
    <3>2. \A j \in Ids \ {id} : row # NoRow => (j \in Met(id, row) <=> T[j].biz = row.biz)
      BY <2>2, <2>3, <3>1, Domains
    <3>3. [j \in Ids |-> IF j = id THEN row
                         ELSE IF row # NoRow /\ j \in Met(id, row) THEN NoRow ELSE T[j]] = U
      BY <3>2
    <3> HIDE DEF U, id, row
    <3> QED
      BY <2>1, <3>3 DEF FixedTable
  <2>7. table'[Target] = U /\ \A d \in DBs \ {Target} : table'[d] = table[d]
    BY <2>2, <2>3, <2>6
  <2>8. /\ TableOK(U, e)
        /\ \A k, c : PutOK(T, a, k, c) /\ k # id /\ c # row.biz => PutOK(U, e, k, c)
    <3>1. U = [j \in Ids |-> IF j = id THEN row
                             ELSE IF row # NoRow /\ T[j].biz = row.biz THEN NoRow ELSE T[j]]
      OBVIOUS
    <3> HIDE DEF U, id, row, T, a, e
    <3> QED
      BY <2>2, <2>3, <2>5, <3>1, Repairing
  <2> HIDE DEF U
  <2>9. Puts'
    <3> SUFFICES ASSUME NEW w \in Writers, NEW d \in DBs, tx'[w].put[d] # 0
                 PROVE  /\ d \in tx'[w].open
                        /\ PutOK(table'[d], auto'[d], tx'[w].put[d], tx'[w].biz)
      BY DEF Puts
    <3>1. tx' = tx /\ d \in tx[w].open /\ PutOK(table[d], auto[d], tx[w].put[d], tx[w].biz)
      BY <2>1 DEF traffic, Core, Data, Puts
    <3>2. CASE d = Target
      <4>1. tx[w].put[d] # id /\ tx[w].biz # row.biz
        BY <2>1, <3>1, <3>2 DEF FixWaits
      <4> QED
        BY <2>7, <2>8, <3>1, <3>2, <4>1
    <3>3. CASE d # Target
      BY <2>5, <2>7, <3>1, <3>3
    <3> QED
      BY <3>2, <3>3
  <2>10. Data'
    <3>1. Tables'
      BY <2>5, <2>7, <2>8 DEF Tables, Core, Data
    <3>2. table' \in [DBs -> TableSet]
      BY <2>2, <2>3, <2>6, <2>8 DEF TableOK
    <3>3. Apart' /\ \A w \in Writers : Started(tx'[w])
      BY <2>1 DEF Core, Data, Apart, traffic
    <3> QED
      BY <2>1, <2>3, <2>5, <2>9, <3>1, <3>2, <3>3 DEF Data, DataTypes, traffic
  <2>11. Checks'
    BY <2>1, Heading, Domains DEF Core, Checks, traffic, checks, NoFix
  <2>12. ASSUME trusted' PROVE Led'
    <3>1. Led /\ Target = Peer(Authority(pattern)) /\ Authority(pattern) \in DBs \ {Target}
      BY <2>1, <2>12, Heading, Domains DEF Core, traffic
    <3> QED
      BY <2>1, <2>7, <3>1, Heading DEF Led, traffic, checks
  <2> QED
    BY <2>4, <2>10, <2>11, <2>12 DEF Core
<1> QED
  BY <1>1, <1>2, <1>3 DEF Repair

\* A safe handover finds nothing under way.
LEMMA Handover ==
  ASSUME Core, SafeHandover
  PROVE  /\ fix.st = "idle" /\ val.kind = "off" /\ Len(topic) = 0 /\ Len(redo) = 0
         /\ \A w \in Writers : tx[w] = Idle
         /\ \A p, q, b : CountIn(table[Authority(p)], b) = CountIn(table[Authority(q)], b)
<1>1. /\ fix.st = "idle" /\ val.kind = "off" /\ Len(topic) = 0 /\ Len(redo) = 0
      /\ \A w \in Writers : tx[w] = Idle
  BY DEF SafeHandover, Core, Checks
<1>2. \A p, q : table[Authority(p)] = table[Authority(q)]
  BY DEF SafeHandover, Authority
<1> QED
  BY <1>1, <1>2

\* A new pattern keeps the authority, or hands it over safely, or trusted is lost.
LEMMA PatternStep ==
  ASSUME Core, NEW p \in Patterns, UpdatePattern(p)
  PROVE  Core'
<1>1. /\ pattern' = p /\ trusted' = Trusts(p) /\ paired' = (Doubles(p) /\ (paired \/ SafeHandover))
      /\ UNCHANGED <<tx, written, tables, checks, repairs>>
  BY DEF UpdatePattern
<1>2. Data'
  BY <1>1, DataSame DEF Core
<1>3. Checks'
  BY <1>1 DEF Core, Checks, checks, repairs
<1>4. ASSUME trusted' PROVE Led'
  <2>1. Led
    BY <1>1, <1>4 DEF Trusts, Core
  <2>2. CASE SafeHandover
    <3>1. \A b \in Biz : CountIn(table[Authority(p)], b) = written[b]
      BY <2>1, <2>2, Handover DEF Led
    <3>2. Idle.st = "idle"
      BY DEF Idle
    <3> QED
      BY <1>1, <2>2, <3>1, <3>2, Handover DEF Led, tables, checks, repairs
  <2>3. CASE Authority(p) = Authority(pattern)
    BY <1>1, <2>1, <2>3 DEF Led, tables, checks, repairs
  <2> QED
    BY <1>1, <1>4, <2>2, <2>3 DEF Trusts
<1>5. ASSUME paired' PROVE InStep'
  <2>1. Doubles(p)
    BY <1>1, <1>5
  <2>2. CASE SafeHandover
    <3>1. Idle.st = "idle"
      BY DEF Idle
    <3>2. \A w \in Writers : Staged(tx[w]) /\ ~Past(w) /\ \A b \in Biz : ~Behind(w, b)
      BY <2>2, <3>1, Handover DEF Staged, Past, Behind
    <3>3. OnePast /\ Even
      BY <2>2, <3>2 DEF OnePast, Even, SafeHandover
    <3>4. OnePast' /\ Even'
      BY <1>1, <3>3 DEF OnePast, Even, Past, Behind, tables
    <3>5. fix'.st = "idle" /\ Doubles(pattern') /\ \A w \in Writers : Staged(tx'[w])
      BY <1>1, <2>1, <2>2, <3>2, Handover DEF repairs
    <3> QED
      BY <3>4, <3>5 DEF InStep
  <2>3. CASE ~SafeHandover
    <3>1. InStep
      BY <1>1, <1>5, <2>3 DEF Core
    <3>2. OnePast' /\ Even'
      BY <1>1, <3>1 DEF InStep, OnePast, Even, Past, Behind, tables
    <3> QED
      BY <1>1, <2>1, <3>1, <3>2 DEF InStep, repairs
  <2> QED
    BY <2>2, <2>3
<1> QED
  BY <1>2, <1>3, <1>4, <1>5 DEF Core

\* A validator starts with the authority as its base, or is told to stop.
LEMMA ValidationStep ==
  ASSUME Core, (\E kind \in {"full", "incr"} : StartValidation(kind)) \/ StopValidation
  PROVE  Core'
<1> DEFINE Scans == /\ val' \in ValSet /\ fwd' \in FwdSet /\ rev' \in RevSet
                    /\ fwd'.pc = "compare" => fwd'.id \in Ids
                    /\ fwd'.pc \in {"base", "compare"} => val'.kind # "off"
                    /\ rev'.pc \in {"target", "base"} => val'.kind # "off"
                    /\ val'.kind # "off" =>
                      val'.base \in {Authority(pattern),
                                     IF val.kind = "off" THEN Authority(pattern) ELSE val.base}
<1>1. UNCHANGED <<tables, traffic, repairs, paired>>
  BY DEF StartValidation, StopValidation
<1>2. Data'
  BY <1>1, DataSame DEF Core, traffic
<1>3. Checks /\ val \in ValSet /\ fwd \in FwdSet /\ rev \in RevSet
  BY DEF Core, Checks
<1>4. Scans
  <2>1. ASSUME NEW kind \in {"full", "incr"}, StartValidation(kind) PROVE Scans
    <3>1. val' = [kind |-> kind, base |-> Authority(pattern), cancelled |-> FALSE]
      BY <2>1 DEF StartValidation
    <3>2. fwd' = [pc |-> "base", off |-> 0, got |-> NoRow, id |-> 0]
      BY <2>1 DEF StartValidation, NoScan
    <3>3. rev' = [pc |-> "target", off |-> 0, ids |-> {}]
      BY <2>1 DEF StartValidation, NoPage
    <3>4. val' \in ValSet /\ fwd' \in FwdSet /\ rev' \in RevSet
      BY <3>1, <3>2, <3>3, Domains DEF ValSet, FwdSet, RevSet
    <3> QED
      BY <3>1, <3>2, <3>3, <3>4
  <2>2. ASSUME StopValidation PROVE Scans
    <3>1. val' = [val EXCEPT !.cancelled = TRUE] /\ UNCHANGED <<fwd, rev>> /\ val.kind # "off"
      BY <2>2 DEF StopValidation
    <3>2. val' \in ValSet /\ val'.kind = val.kind /\ val'.base = val.base
      BY <1>3, <3>1 DEF ValSet
    <3> QED
      BY <1>3, <3>1, <3>2 DEF Checks
  <2> QED
    BY <2>1, <2>2
<1>5. Checks'
  BY <1>1, <1>3, <1>4 DEF Checks, traffic, repairs
<1>6. trusted' => Led'
  <2>1. val.kind # "off" /\ Led => val.base = Authority(pattern)
    BY DEF Led
  <2> QED
    BY <1>1, <1>4, <2>1 DEF Core, Led, traffic, repairs, tables
<1>7. paired' => InStep'
  BY <1>1, InStepSame DEF Core, traffic, tables, repairs
<1> QED
  BY <1>2, <1>5, <1>6, <1>7 DEF Core

\* A step of a transaction, short of a panic, leaves the validators and the fixer alone.
LEMMA WriteKeeps ==
  ASSUME NEW w \in Writers, Write(w), ~ExecSecondPanics(w)
  PROVE  /\ UNCHANGED <<pattern, trusted, topic, redo, fix, val, fwd, rev>>
         /\ written' = written \/ written' = [written EXCEPT ![tx[w].biz] = @ + 1]
<1>1. ASSUME NEW b \in Biz, BeginTx(w, b) \/ BeginSecondFails(w, b)
      PROVE  UNCHANGED <<pattern, trusted, topic, redo, fix, val, fwd, rev>> /\ written' = written
  BY <1>1 DEF BeginTx, BeginSecondFails, checks, repairs
<1>2. CASE ExecFirst(w) \/ ExecFirstFails(w) \/ ExecSecond(w) \/ ExecSecondFails(w)
  BY <1>2 DEF ExecFirst, ExecFirstFails, ExecSecond, ExecSecondFails, checks, repairs
<1>3. CASE CommitFirst(w) \/ CommitFirstFails(w) \/ CommitSecond(w) \/ CommitSecondFails(w)
  BY <1>3 DEF CommitFirst, CommitFirstFails, CommitSecond, CommitSecondFails, checks, repairs
<1>4. CASE EndTx(w)
  BY <1>4 DEF EndTx, checks, repairs
<1> QED
  BY <1>1, <1>2, <1>3, <1>4 DEF Write

\* A restart forgets what is under way; src_only was the authority, or takes over
\* safely, or trusted is lost.
LEMMA DieStep ==
  ASSUME IInv, Die, ~paired'
  PROVE  IInv'
<1> USE DEF IInv
<1>1. /\ pattern' = "src_only" /\ trusted' = Trusts("src_only") /\ tx' = [w \in Writers |-> Idle]
      /\ fix' = NoFix /\ val' = NoCheck /\ fwd' = NoScan /\ rev' = NoPage
      /\ table' = table /\ auto' = auto /\ written' = written
      /\ topic' = redo \o topic /\ redo' = <<>>
  BY DEF Die, tables
<1>2. /\ topic' \in Seq([id : Ids, base : DBs])
      /\ \A i \in 1..Len(topic') : \/ i \in 1..Len(redo) /\ topic'[i] = redo[i]
                                   \/ \E k \in 1..Len(topic) : topic'[i] = topic[k]
  <2> DEFINE S == [id : Ids, base : DBs]
  <2>1. redo \in Seq(S) /\ topic \in Seq(S)
    BY DEF Core, Checks, Marked
  <2> HIDE DEF S
  <2>2. /\ redo \o topic \in Seq(S) /\ Len(redo \o topic) = Len(redo) + Len(topic)
        /\ Len(redo) \in Nat /\ Len(topic) \in Nat
        /\ \A i \in 1..Len(redo) : (redo \o topic)[i] = redo[i]
        /\ \A i \in 1..Len(topic) : (redo \o topic)[Len(redo) + i] = topic[i]
    BY <2>1
  <2>3. ASSUME NEW i \in 1..Len(redo \o topic), i \notin 1..Len(redo)
        PROVE  \E k \in 1..Len(topic) : (redo \o topic)[i] = topic[k]
    <3>1. i - Len(redo) \in 1..Len(topic) /\ i = Len(redo) + (i - Len(redo))
      BY <2>2, <2>3
    <3> QED
      BY <2>2, <3>1
  <2> QED
    BY <1>1, <2>2, <2>3 DEF S
<1>3. Data'
  <2>1. \A w \in Writers : tx'[w] = Idle
    BY <1>1
  <2>2. Idle \in TxSet /\ Started(Idle) /\ \A d \in DBs : Idle.put[d] = 0
    BY Domains DEF Idle, TxSet, Started, Patterns
  <2>3. tx' \in [Writers -> TxSet]
    BY <1>1, <2>2
  <2>4. Puts' /\ Apart'
    BY <2>1, <2>2 DEF Puts, Apart
  <2> QED
    BY <1>1, <2>1, <2>2, <2>3, <2>4 DEF Core, Data, DataTypes, Tables
<1>4. Checks'
  <2>1. val' \in ValSet /\ val'.kind = "off"
    BY <1>1 DEF NoCheck, ValSet, DBs
  <2>2. fwd' \in FwdSet /\ fwd'.pc = "off"
    BY <1>1, Domains DEF NoScan, FwdSet
  <2>3. rev' \in RevSet /\ rev'.pc = "off"
    BY <1>1 DEF NoPage, RevSet
  <2>4. fix'.st = "idle" /\ fix'.row \in RowSet
    BY <1>1, Domains DEF NoFix
  <2> QED
    BY <1>1, <1>2, <2>1, <2>2, <2>3, <2>4 DEF Core, Checks, Patterns
<1>5. ASSUME trusted' PROVE Led'
  <2>1. Led /\ Idle.st = "idle" /\ NoCheck.kind = "off" /\ \A w \in Writers : tx'[w] = Idle
    BY <1>1, <1>5 DEF Trusts, Core, Idle, NoCheck
  <2>2. /\ \A b \in Biz : CountIn(table[Authority("src_only")], b) = written[b]
        /\ \A i \in 1..Len(topic) : topic[i].base = Authority("src_only")
        /\ \A i \in 1..Len(redo) : redo[i].base = Authority("src_only")
    <3>1. CASE SafeHandover
      BY <2>1, <3>1, Handover DEF Led
    <3>2. CASE Authority("src_only") = Authority(pattern)
      BY <1>1, <1>5, <2>1, <3>2 DEF Led, Marked, Trusts
    <3> QED
      BY <1>1, <1>5, <3>1, <3>2 DEF Trusts
  <2>3. \A i \in 1..Len(topic') : topic'[i].base = Authority("src_only")
    BY <1>2, <2>2
  <2> QED
    BY <1>1, <2>1, <2>2, <2>3 DEF Led
<1>6. Marked'
  BY <1>1 DEF Marked
<1> QED
  BY <1>3, <1>4, <1>5, <1>6 DEF Core

\* A report handled joins those to be handled again if the process dies before the
\* commit; a new authority finds none of them.
LEMMA MarkedStep ==
  ASSUME IInv, [Next]_vars
  PROVE  IInv /\ Core' => IInv'
<1> DEFINE S == [id : Ids, base : DBs]
<1> SUFFICES ASSUME Core' PROVE Marked'
  BY DEF IInv
<1>0. redo \in Seq(S) /\ topic \in Seq(S)
  BY DEF IInv, Core, Checks, Marked
<1> USE DEF IInv
\* Only a new pattern and a crash change the authority, or win trust.
<1>1. ASSUME redo' = redo, pattern' = pattern, trusted' = trusted PROVE Marked'
  BY <1>1 DEF Marked
<1>2. ASSUME NEW w \in Writers, Write(w) PROVE Marked'
  <2>1. CASE ExecSecondPanics(w)
    BY <2>1 DEF ExecSecondPanics, Die, Marked
  <2>2. CASE ~ExecSecondPanics(w)
    BY <1>1, <1>2, <2>2, WriteKeeps
  <2> QED
    BY <2>1, <2>2
<1>3. ASSUME NEW p \in Patterns, UpdatePattern(p) PROVE Marked'
  <2>1. redo' = redo /\ pattern' = p /\ trusted' = Trusts(p)
    BY <1>3 DEF UpdatePattern, repairs
  <2>2. CASE SafeHandover
    <3>1. redo = <<>>
      BY <2>2 DEF SafeHandover
    <3>2. \A i \in 1..Len(redo') : FALSE
      BY <2>1, <3>1
    <3> HIDE DEF S
    <3> QED
      BY <1>0, <2>1, <3>2 DEF Marked, S
  <2>3. CASE ~SafeHandover
    <3>1. trusted' => trusted /\ Authority(p) = Authority(pattern)
      BY <2>1, <2>3 DEF Trusts
    <3> QED
      BY <2>1, <3>1 DEF Marked
  <2> QED
    BY <2>2, <2>3
<1>4. CASE (\E kind \in {"full", "incr"} : StartValidation(kind)) \/ StopValidation
  BY <1>1, <1>4 DEF StartValidation, StopValidation, traffic, repairs
<1>5. CASE Forward \/ Reverse
  BY <1>1, <1>5 DEF Forward, Reverse, FwdReadBase, FwdReturns, FwdReadFails, FwdCompare,
     FwdCompareFails, RevReadTarget, RevReturns, RevReadBase, RevReadBaseFails, traffic, repairs
<1>6. CASE FixRead
  BY <1>1, <1>6 DEF FixRead, traffic
<1>7. CASE FixWrite \/ FixCollides \/ FixFails
  <2>1. /\ topic # <<>> /\ redo' = Append(redo, Head(topic))
        /\ pattern' = pattern /\ trusted' = trusted
    BY <1>7 DEF FixWrite, FixCollides, FixFails, Handled, traffic, Core, Checks
  <2> HIDE DEF S
  <2>2. Head(topic) \in S /\ Head(topic) = topic[1] /\ 1 \in 1..Len(topic)
    BY <1>0, <2>1
  <2>3. PICK r \in S : r = Head(topic)
    BY <2>2
  <2>4. /\ redo' \in Seq(S) /\ Len(redo') = Len(redo) + 1 /\ redo'[Len(redo) + 1] = r
        /\ Len(redo) \in Nat /\ \A i \in 1..Len(redo) : redo'[i] = redo[i]
    BY <1>0, <2>1, <2>3
  <2>5. trusted => r.base = Authority(pattern)
    BY <2>2, <2>3 DEF Core, Led
  <2>6. \A i \in 1..Len(redo') : i \in 1..Len(redo) \/ i = Len(redo) + 1
    BY <2>4
  <2> QED
    BY <2>1, <2>4, <2>5, <2>6 DEF Marked, S
<1>8. CASE AutoCommit
  <2>1. redo # <<>> /\ redo' = Tail(redo) /\ pattern' = pattern /\ trusted' = trusted
    BY <1>8 DEF AutoCommit, traffic
  <2> HIDE DEF S
  <2>2. /\ redo' \in Seq(S)
        /\ \A i \in 1..Len(redo') : i + 1 \in 1..Len(redo) /\ redo'[i] = redo[i + 1]
    BY <1>0, <2>1
  <2> QED
    BY <2>1, <2>2 DEF Marked, S
<1>9. CASE Crash
  BY <1>9 DEF Crash, Die, Marked
<1>10. CASE UNCHANGED vars
  BY <1>1, <1>10 DEF vars
<1> QED
  BY <1>2, <1>3, <1>4, <1>5, <1>6, <1>7, <1>8, <1>9, <1>10 DEF Next, Repair

----------------------------------------------------------------------------
(* The theorems. *)

\* The invariant holds initially, ...
LEMMA InitInv == Init => IInv
<1> SUFFICES ASSUME Init PROVE IInv
  OBVIOUS
<1>1. PICK k \in 0..MaxRows : \E owner \in Injection(1..k, Biz) :
        /\ table = [d \in DBs |-> [id \in Ids |->
                      IF d = "src" /\ id \in 1..k THEN [biz |-> owner[id], n |-> 1] ELSE NoRow]]
        /\ auto = [d \in DBs |-> IF d = "src" THEN k + 1 ELSE 1]
  BY DEF Init
<1>2. PICK owner \in Injection(1..k, Biz) :
        /\ table = [d \in DBs |-> [id \in Ids |->
                      IF d = "src" /\ id \in 1..k THEN [biz |-> owner[id], n |-> 1] ELSE NoRow]]
        /\ auto = [d \in DBs |-> IF d = "src" THEN k + 1 ELSE 1]
  BY <1>1
<1>3. /\ tx = [w \in Writers |-> Idle] /\ pattern = "src_only" /\ topic = <<>> /\ fix = NoFix
      /\ redo = <<>>
      /\ val = NoCheck /\ fwd = NoScan /\ rev = NoPage /\ paired = FALSE
      /\ written = [b \in Biz |-> Count("src", b)]
  BY DEF Init
<1>4. k \in Nat /\ k <= MaxId /\ MaxRows \in Nat
  BY <1>1, MigrationAssumption DEF MaxId
<1>5. owner \in [1..k -> Biz] /\ \A i, j \in 1..k : owner[i] = owner[j] => i = j
  BY DEF Injection, IsInjective
<1>6. \A d \in DBs, i \in Ids :
        table[d][i] = IF d = "src" /\ i \in 1..k THEN [biz |-> owner[i], n |-> 1] ELSE NoRow
  BY <1>2
<1>7. table \in [DBs -> TableSet]
  <2>1. \A d \in DBs, i \in Ids :
          (IF d = "src" /\ i \in 1..k THEN [biz |-> owner[i], n |-> 1] ELSE NoRow) \in RowSet
    BY <1>5, Domains DEF RowSet
  <2> QED
    BY <1>2, <2>1 DEF TableSet
<1>8. auto \in [DBs -> 1..(MaxId + 1)]
  BY <1>2, <1>4, Domains
<1>9. Tables
  <2> SUFFICES ASSUME NEW d \in DBs PROVE TableOK(table[d], auto[d])
    BY DEF Tables
  <2>1. Unique(table[d])
    <3> SUFFICES ASSUME NEW i \in Ids, NEW j \in Ids, table[d][i] # NoRow,
                        table[d][i].biz = table[d][j].biz
                 PROVE  i = j
      BY DEF Unique
    <3>1. d = "src" /\ i \in 1..k
      BY <1>6
    <3>2. \A l \in Ids : table[d][l].biz = IF l \in 1..k THEN owner[l] ELSE NoRow.biz
      <4>1. \A l \in Ids : table[d][l] = IF l \in 1..k THEN [biz |-> owner[l], n |-> 1] ELSE NoRow
        BY <1>6, <3>1
      <4>2. ASSUME NEW l \in Ids, l \in 1..k PROVE table[d][l].biz = owner[l]
        <5>1. table[d][l] = [biz |-> owner[l], n |-> 1]
          BY <4>1, <4>2
        <5> QED
          BY <5>1
      <4>3. \A l \in Ids : l \notin 1..k => table[d][l].biz = NoRow.biz
        BY <4>1
      <4> QED
        BY <4>2, <4>3
    <3>3. table[d][i].biz = owner[i] /\ owner[i] \in Biz
      BY <1>5, <3>1, <3>2
    <3>4. j \in 1..k /\ table[d][j].biz = owner[j]
      BY <3>2, <3>3, Domains
    <3> QED
      BY <1>5, <3>1, <3>3, <3>4
  <2>2. \A i \in Ids : table[d][i] # NoRow => i < auto[d]
    BY <1>2, <1>4, <1>6, Domains
  <2> QED
    BY <1>7, <2>1, <2>2 DEF TableOK
<1>10. Idle \in TxSet /\ Started(Idle) /\ Idle.st = "idle" /\ \A d \in DBs : Idle.put[d] = 0
  BY Domains DEF Idle, TxSet, Started, Patterns
<1>11. tx \in [Writers -> TxSet] /\ \A w \in Writers : tx[w] = Idle
  BY <1>3, <1>10
<1>12. Data
  BY <1>7, <1>8, <1>9, <1>10, <1>11 DEF Data, DataTypes, Puts, Apart
<1>13. written \in [Biz -> Nat] /\ \A b \in Biz : CountIn(table["src"], b) = written[b]
  <2>1. "src" \in DBs /\ TableOK(table["src"], auto["src"]) /\ table["src"] \in TableSet
    BY <1>7, <1>9, Domains DEF Tables
  <2>2. \A b \in Biz : Count("src", b) = CountIn(table["src"], b) /\ CountIn(table["src"], b) \in Nat
    BY <2>1, CountIsCountIn, CountOfRow
  <2> QED
    BY <1>3, <2>2
<1>14. Checks
  <2>1. val \in ValSet /\ val.kind = "off"
    BY <1>3 DEF NoCheck, ValSet, DBs
  <2>2. fwd \in FwdSet /\ fwd.pc = "off"
    BY <1>3, Domains DEF NoScan, FwdSet
  <2>3. rev \in RevSet /\ rev.pc = "off"
    BY <1>3 DEF NoPage, RevSet
  <2>4. fix.st = "idle" /\ fix.row \in RowSet
    BY <1>3, Domains DEF NoFix
  <2>5. topic \in Seq([id : Ids, base : DBs])
    BY <1>3
  <2> QED
    BY <1>3, <1>13, <2>1, <2>2, <2>3, <2>4, <2>5 DEF Checks, Patterns
<1>15. Led
  <2>1. val.kind = "off" /\ Len(topic) = 0 /\ Authority(pattern) = "src"
    BY <1>3 DEF NoCheck, Authority
  <2> QED
    BY <1>10, <1>11, <1>13, <2>1 DEF Led
<1>16. Marked
  BY <1>3 DEF Marked
<1> QED
  BY <1>3, <1>12, <1>14, <1>15, <1>16 DEF IInv, Core

\* ... and every step keeps it.
LEMMA NextInv == IInv /\ [Next]_vars => IInv'
<1> SUFFICES ASSUME IInv, [Next]_vars PROVE Core'
  BY MarkedStep
<1>0. Core
  BY DEF IInv
<1>1. ASSUME NEW w \in Writers, Write(w) PROVE Core'
  <2>1. CASE ExecSecondPanics(w)
    BY <2>1, DieStep DEF ExecSecondPanics, Upset, IInv
  <2>2. CASE ~ExecSecondPanics(w)
    <3>1. Data' /\ (trusted' => Led') /\ (paired' => InStep')
      BY <1>0, <1>1, <2>2, WriteStep DEF Core, Checks
    <3>2. /\ UNCHANGED <<pattern, topic, fix, val, fwd, rev>>
          /\ written' = written \/ written' = [written EXCEPT ![tx[w].biz] = @ + 1]
      BY <1>1, <2>2, WriteKeeps
    <3>3. Checks'
      BY <1>0, <3>2 DEF Core, Checks
    <3> QED
      BY <3>1, <3>3 DEF Core
  <2> QED
    BY <2>1, <2>2
<1>2. ASSUME NEW p \in Patterns, UpdatePattern(p) PROVE Core'
  BY <1>0, <1>2, PatternStep
<1>3. CASE (\E kind \in {"full", "incr"} : StartValidation(kind)) \/ StopValidation
  BY <1>0, <1>3, ValidationStep
<1>4. CASE Forward \/ Reverse
  BY <1>0, <1>4, ValidatorStep
<1>5. CASE Repair
  BY <1>0, <1>5, RepairStep
<1>6. CASE Crash
  BY <1>6, DieStep DEF Crash, Fault, IInv
<1>7. CASE AutoCommit \/ UNCHANGED vars
  <2>1. UNCHANGED <<tables, tx, pattern, trusted, written, topic, fix, val, fwd, rev, paired>>
    BY <1>7 DEF AutoCommit, vars, tables, traffic, checks
  <2>2. Data'
    BY <1>0, <2>1, DataSame DEF Core
  <2>3. Checks' /\ (trusted' => Led')
    BY <1>0, <2>1 DEF Core, Checks, Led, tables
  <2>4. paired' => InStep'
    BY <1>0, <2>1, InStepSame DEF Core, tables
  <2> QED
    BY <2>2, <2>3, <2>4 DEF Core
<1> QED
  BY <1>1, <1>2, <1>3, <1>4, <1>5, <1>6, <1>7 DEF Next

\* What the invariant says of the counters of the model.
LEMMA Counters ==
  ASSUME Core
  PROVE  \A d \in DBs, b \in Biz : Count(d, b) = CountIn(table[d], b)
BY CountIsCountIn DEF Core, Data, DataTypes

\* As long as the authority is handed over only while nothing is under way, its
\* database holds every committed write exactly once, whatever fails, repairs or
\* restarts, for any number of writers, keys and rows.
THEOREM AuthorityTheorem == Spec => []AuthorityInv
<1>1. IInv => AuthorityInv
  <2> SUFFICES ASSUME Core, Marked PROVE AuthorityInv
    BY DEF IInv
  <2>1. TypeOK
    <3>1. table \in [DBs -> [Ids -> [biz : Biz \union {NoBiz}, n : Nat]]]
      <4>1. TableSet \subseteq [Ids -> [biz : Biz \union {NoBiz}, n : Nat]]
        BY Domains DEF TableSet
      <4> QED
        BY <4>1 DEF Core, Data, DataTypes
    <3>2. topic \in Seq([id : Ids, base : DBs]) /\ redo \in Seq([id : Ids, base : DBs])
      BY DEF Core, Checks, Marked
    <3>3. \A s \in {topic, redo} : \A i \in DOMAIN s : s[i].id \in Ids /\ s[i].base \in DBs
      <4> DEFINE S == [id : Ids, base : DBs]
      <4>1. \A s \in {topic, redo} : s \in Seq(S)
        BY <3>2
      <4> HIDE DEF S
      <4>2. \A s \in {topic, redo} : \A i \in DOMAIN s : s[i] \in S
        BY <4>1
      <4> QED
        BY <4>2 DEF S
    <3>4. \A w \in Writers, d \in DBs : tx[w].put[d] # 0 => d \in tx[w].open
      BY DEF Core, Data, Puts
    <3>5. pattern \in Patterns /\ fix.st \in {"idle", "write"} /\ val.kind \in {"off", "full", "incr"}
      BY DEF Core, Checks, ValSet
    <3> QED
      BY <3>1, <3>3, <3>4, <3>5 DEF TypeOK, Core, Data, DataTypes, TxSet
  <2>2. NoWriteLost
    BY Counters, Domains DEF NoWriteLost, Core, Led
  <2> QED
    BY <2>1, <2>2 DEF AuthorityInv
<1> QED
  BY <1>1, InitInv, NextInv, PTL DEF Spec

\* Undisturbed double writing leaves the same counters in both databases whenever no
\* transaction is open, in whatever order any number of writers meet in the two.
THEOREM PairTheorem == Spec => []PairAgrees
<1>1. IInv => PairAgrees
  <2> SUFFICES ASSUME Core, paired, \A w \in Writers : tx[w] = Idle
               PROVE  \A b \in Biz : Count("src", b) = Count("dst", b)
    BY DEF PairAgrees, IInv
  <2>1. InStep /\ \A w \in Writers, b \in Biz : ~Behind(w, b)
    BY DEF Core, Behind, Idle
  <2> QED
    BY <2>1, Counters, Domains DEF InStep, Even
<1> QED
  BY <1>1, InitInv, NextInv, PTL DEF Spec

----------------------------------------------------------------------------
(* An undisturbed validation. *)

\* The pass of a validator that nothing disturbs: the rows of its base do not change,
\* and all reports and the repair in hand are about them.
Pending(id) == \E i \in 1..Len(topic) : topic[i].id = id

Quiet ==
  /\ \A w \in Writers : tx[w] = Idle
  /\ \A i \in 1..Len(topic) : topic[i].base = val.base
  /\ ~val.cancelled /\ fwd.pc # "off" /\ rev.pc # "off"
  /\ fix.st = "write" => fix.row = table[val.base][Head(topic).id]

\* What the forward direction has passed is right or reported.
Right(id) == table[Peer(val.base)][id] = table[val.base][id] \/ Pending(id)

Compared ==
  /\ \A id \in Rows(val.base) :
       fwd.pc = "done" \/ Place(Rows(val.base), id) < fwd.off => Right(id)
  /\ fwd.pc = "compare" => /\ fwd.id \in Rows(val.base)
                           /\ Place(Rows(val.base), fwd.id) = fwd.off
                           /\ fwd.got = table[val.base][fwd.id]

\* What the base lacks is reported, on the page in hand, or on a later one; there are
\* later ones only if this one is full.
OnPage(id)  == rev.pc = "base" /\ id \in rev.ids
Later(id)   == \/ rev.pc = "target" /\ rev.off <= Place(Rows(Peer(val.base)), id)
               \/ /\ rev.pc = "base" /\ Cardinality(rev.ids) = BatchSize
                  /\ rev.off + BatchSize <= Place(Rows(Peer(val.base)), id)

Searched == \A id \in Rows(Peer(val.base)) \ Rows(val.base) :
              Pending(id) \/ OnPage(id) \/ Later(id)

PassInv == calm => Quiet /\ Compared /\ (~shifted => Searched)

\* Where the rows are.
LEMMA PassFacts ==
  ASSUME Core
  PROVE  /\ MaxId \in Nat /\ BatchSize \in Nat \ {0}
         /\ val.base \in DBs /\ Peer(val.base) \in DBs /\ Peer(val.base) # val.base
         /\ \A d \in DBs : /\ Rows(d) \subseteq 1..MaxId /\ Rows(d) \subseteq Ids
                           /\ Unique(table[d]) /\ \A i \in Ids : table[d][i] \in RowSet
         /\ fwd.off \in Nat /\ rev.off \in Nat /\ rev.ids \subseteq Ids
         /\ topic \in Seq([id : Ids, base : DBs])
<1>1. val \in ValSet /\ fwd \in FwdSet /\ rev \in RevSet /\ topic \in Seq([id : Ids, base : DBs])
  BY DEF Core, Checks
<1>2. \A d \in DBs : Unique(table[d]) /\ \A i \in Ids : table[d][i] \in RowSet
  BY DEF Core, Data, DataTypes, Tables, TableOK, TableSet
<1>3. \A d \in DBs : Rows(d) \subseteq 1..MaxId /\ Rows(d) \subseteq Ids
  BY Domains DEF Rows
<1>4. MaxId \in Nat /\ BatchSize \in Nat \ {0}
  BY Domains, MigrationAssumption
<1>5. val.base \in DBs /\ Peer(val.base) \in DBs /\ Peer(val.base) # val.base
  BY <1>1, Domains DEF ValSet
<1> QED
  BY <1>1, <1>2, <1>3, <1>4, <1>5 DEF FwdSet, RevSet

\* OFFSET finds the row at its place.
LEMMA AtPlace ==
  ASSUME Core, NEW d \in DBs, NEW off \in Nat
  PROVE  /\ IdAt(d, off) # 0 => IdAt(d, off) \in Rows(d) /\ Place(Rows(d), IdAt(d, off)) = off
         /\ \A id \in Rows(d) : Place(Rows(d), id) = off => IdAt(d, off) = id
         /\ \A id \in Rows(d) : Place(Rows(d), id) \in Nat
<1> DEFINE at == {id \in Rows(d) : Place(Rows(d), id) = off}
<1>1. IdAt(d, off) = IF at = {} THEN 0 ELSE CHOOSE id \in at : TRUE
  BY DEF IdAt, Place
<1>2. \A a, b \in Rows(d) : a < b => Place(Rows(d), a) < Place(Rows(d), b)
  BY PassFacts, OnePlace
<1>3. \A id \in Rows(d) : Place(Rows(d), id) \in Nat
  BY PassFacts, UnderPlaces
<1>4. \A a, b \in at : a = b
  <2> SUFFICES ASSUME NEW a \in at, NEW b \in at, a # b PROVE FALSE
    OBVIOUS
  <2>1. a \in Nat /\ b \in Nat
    BY PassFacts
  <2>2. a < b \/ b < a
    BY <2>1
  <2>3. Place(Rows(d), a) = off /\ Place(Rows(d), b) = off /\ ~(off < off)
    OBVIOUS
  <2> QED
    BY <1>2, <2>2, <2>3
<1>5. 0 \notin Rows(d)
  BY PassFacts
<1>6. ASSUME IdAt(d, off) # 0 PROVE IdAt(d, off) \in at
  BY <1>1, <1>6
<1>7. ASSUME NEW id \in at PROVE IdAt(d, off) = id
  BY <1>1, <1>4, <1>7
<1> QED
  BY <1>3, <1>6, <1>7

\* A page is the rows of the target at the next places.
LEMMA PageIsSlice ==
  ASSUME Core, NEW off \in Nat
  PROVE  Page(off) = Slice(Rows(Peer(val.base)), off, BatchSize)
<1> DEFINE d == Peer(val.base)
<1>1. d \in DBs /\ BatchSize \in Nat /\ 0 \notin Rows(d)
  BY PassFacts
<1>2. \A k \in off..(off + BatchSize - 1) : k \in Nat
  BY <1>1
<1>3. ASSUME NEW k \in off..(off + BatchSize - 1), IdAt(d, k) # 0
      PROVE  IdAt(d, k) \in Slice(Rows(d), off, BatchSize)
  <2>1. IdAt(d, k) \in Rows(d) /\ Place(Rows(d), IdAt(d, k)) = k
    BY <1>1, <1>2, <1>3, AtPlace
  <2>2. off <= k /\ k < off + BatchSize
    BY <1>1
  <2> QED
    BY <2>1, <2>2 DEF Slice
<1>4. ASSUME NEW id \in Slice(Rows(d), off, BatchSize)
      PROVE  \E k \in off..(off + BatchSize - 1) : id = IdAt(d, k) /\ id # 0
  <2>1. /\ id \in Rows(d) /\ off <= Place(Rows(d), id) /\ Place(Rows(d), id) < off + BatchSize
        /\ Place(Rows(d), id) \in Nat /\ id # 0
    BY <1>1, AtPlace DEF Slice
  <2>2. Place(Rows(d), id) \in off..(off + BatchSize - 1)
    BY <1>1, <2>1
  <2> QED
    BY <1>1, <2>1, <2>2, AtPlace
<1> HIDE DEF d
<1>5. Page(off) = {IdAt(d, k) : k \in off..(off + BatchSize - 1)} \ {0}
  BY DEF Page, d
<1> QED
  BY <1>3, <1>4, <1>5 DEF d

\* What is reported waits for the fixer, behind what was reported before.
LEMMA Reporting ==
  ASSUME topic \in Seq([id : Ids, base : DBs]), NEW ids \in SUBSET Ids, val.base \in DBs, Sends(ids)
  PROVE  /\ \A id : Pending(id) => Pending(id)'
         /\ \A id \in ids : Pending(id)'
         /\ topic # <<>> => Head(topic') = Head(topic)
<1>1. MaxId \in Nat /\ ids \subseteq 1..MaxId /\ ids \subseteq Nat
  BY Domains
<1>2. IsFiniteSet(ids) /\ Cardinality(ids) \in Nat
  BY <1>1, Bounded
<1> DEFINE n == Cardinality(ids)
<1>3. PICK s \in [1..n -> ids] :
        /\ \A i, j \in 1..n : i < j => s[i] < s[j]
        /\ topic' = topic \o [i \in DOMAIN s |-> [id |-> s[i], base |-> val.base]]
  BY DEF Sends, Reports
<1> DEFINE r == [i \in 1..n |-> [id |-> s[i], base |-> val.base]]
<1>4. topic' = topic \o r /\ n \in Nat
  BY <1>2, <1>3
<1>5. \A id \in ids : \E i \in 1..n : s[i] = id
  BY <1>1, <1>2, <1>3, NoneLeftOut
<1> HIDE DEF n
<1>6. r \in Seq([id : Ids, base : DBs]) /\ Len(r) = n /\ \A i \in 1..n : r[i].id = s[i]
  <2>1. \A i \in 1..n : [id |-> s[i], base |-> val.base] \in [id : Ids, base : DBs]
    BY <1>3
  <2> QED
    BY <1>4, <2>1
<1> HIDE DEF r
<1> DEFINE S == [id : Ids, base : DBs]
<1>7. topic \in Seq(S) /\ r \in Seq(S)
  BY <1>6
<1> HIDE DEF S
<1>8. /\ Len(topic) \in Nat /\ Len(topic') = Len(topic) + n
      /\ \A i \in 1..Len(topic) : topic'[i] = topic[i]
      /\ \A i \in 1..n : topic'[Len(topic) + i] = r[i]
      /\ topic # <<>> => Head(topic') = Head(topic)
  <2>1. topic \o r \in Seq(S) /\ Len(topic \o r) = Len(topic) + Len(r) /\ Len(topic) \in Nat
    BY <1>7
  <2>2. /\ \A i \in 1..Len(topic) : (topic \o r)[i] = topic[i]
        /\ \A i \in 1..Len(r) : (topic \o r)[Len(topic) + i] = r[i]
    BY <1>7
  <2>3. topic # <<>> => 1 \in 1..Len(topic) /\ Head(topic) = topic[1]
    BY <1>7
  <2>4. topic # <<>> => Head(topic \o r) = (topic \o r)[1]
    BY <1>7, <2>1, <2>3
  <2> QED
    BY <1>4, <1>6, <2>1, <2>2, <2>3, <2>4
<1>9. ASSUME NEW id, Pending(id) PROVE Pending(id)'
  <2>1. PICK i \in 1..Len(topic) : topic[i].id = id
    BY <1>9 DEF Pending
  <2>2. i \in 1..Len(topic') /\ topic'[i].id = id
    BY <1>4, <1>8, <2>1
  <2> QED
    BY <2>2 DEF Pending
<1>10. ASSUME NEW id \in ids PROVE Pending(id)'
  <2>1. PICK i \in 1..n : s[i] = id
    BY <1>5
  <2>2. Len(topic) + i \in 1..Len(topic') /\ topic'[Len(topic) + i].id = id
    BY <1>4, <1>6, <1>8, <2>1
  <2> QED
    BY <2>2 DEF Pending
<1> QED
  BY <1>8, <1>9, <1>10

\* A step of the validator changes no row, and what is reported stays reported.
LEMMA ReportsOnly ==
  ASSUME Core, Quiet, UNCHANGED <<tables, tx, fix>>, val'.base = val.base, ~val'.cancelled,
         fwd'.pc # "off", rev'.pc # "off",
         topic' = topic \/ \E ids \in SUBSET Ids : Sends(ids)
  PROVE  /\ Quiet' /\ \A d : Rows(d)' = Rows(d)
         /\ \A id : (Pending(id) => Pending(id)') /\ (Right(id) => Right(id)')
         /\ Compared /\ fwd' = fwd => Compared'
         /\ Searched /\ rev' = rev => Searched'
<1>1. /\ topic \in Seq([id : Ids, base : DBs]) /\ val.base \in DBs
      /\ fix.st = "write" => topic # <<>>
  BY PassFacts DEF Core, Checks
<1>2. table' = table /\ tx' = tx /\ fix' = fix
  BY DEF tables
<1>3. \A d : Rows(d)' = Rows(d)
  BY <1>2 DEF Rows
<1> DEFINE Extended == /\ \A id : Pending(id) => Pending(id)'
                       /\ topic # <<>> => Head(topic') = Head(topic)
                       /\ \A i \in 1..Len(topic') : topic'[i].base = val.base
<1>4. Extended
  <2>1. ASSUME topic' = topic PROVE Extended
    BY <2>1 DEF Quiet, Pending
  <2>2. ASSUME NEW ids \in SUBSET Ids, Sends(ids) PROVE Extended
    <3>1. \A i \in 1..Len(topic') :
            topic'[i].base \in {val.base} \union {topic[k].base : k \in 1..Len(topic)}
      BY <1>1, <2>2, Sending
    <3>2. \A k \in 1..Len(topic) : topic[k].base = val.base
      BY DEF Quiet
    <3>3. \A i \in 1..Len(topic') : topic'[i].base = val.base
      BY <3>1, <3>2
    <3> QED
      BY <1>1, <2>2, <3>3, Reporting
  <2> QED
    BY <2>1, <2>2
<1>5. \A id : Right(id) => Right(id)'
  BY <1>2, <1>4 DEF Right
<1>6. Quiet'
  BY <1>1, <1>2, <1>4 DEF Quiet
<1>7. Compared /\ fwd' = fwd => Compared'
  BY <1>2, <1>3, <1>5 DEF Compared
<1>8. Searched /\ rev' = rev => Searched'
  BY <1>2, <1>3, <1>4 DEF Searched, OnPage, Later
<1> QED
  BY <1>3, <1>4, <1>5, <1>6, <1>7, <1>8

\* The forward direction goes from row to row, and returns behind the last one.
LEMMA PassForward ==
  ASSUME Core, PassInv, Forward
  PROVE  PassInv'
<1> SUFFICES ASSUME calm' PROVE Quiet' /\ Compared' /\ (~shifted' => Searched')
  BY DEF PassInv
<1> DEFINE B == Rows(val.base)
<1>0. /\ UNCHANGED <<tables, tx, fix, rev, shifted>>
      /\ calm /\ ~FwdReadFails /\ ~FwdCompareFails
  <2>1. UNCHANGED <<tables, tx, fix, rev, shifted>> /\ calm /\ ~FwdReadFails
    BY DEF Forward, FwdReadBase, FwdReturns, FwdReadFails, FwdCompare, FwdCompareFails,
           NoFault, Fault, traffic, repairs
  <2>2. ~FwdCompareFails
    BY <2>1 DEF FwdCompareFails, Fault, PassInv, Quiet
  <2> QED
    BY <2>1, <2>2
<1>1. Quiet /\ Compared /\ (~shifted => Searched)
  BY <1>0 DEF PassInv
<1>2. /\ val.base \in DBs /\ fwd.off \in Nat /\ fwd \in FwdSet /\ B \subseteq Ids
      /\ MaxId \in Nat /\ B \subseteq 1..MaxId
  BY PassFacts DEF Core, Checks
<1>3. ASSUME FwdReadBase PROVE Quiet' /\ Compared' /\ (Searched => Searched')
  <2> DEFINE id == IdAt(val.base, fwd.off)
  <2>1. id \in B /\ Place(B, id) = fwd.off
    BY <1>2, <1>3, AtPlace DEF FwdReadBase
  <2>2. /\ fwd' = [fwd EXCEPT !.pc = "compare", !.id = id, !.got = table[val.base][id]]
        /\ topic' = topic /\ val' = val /\ fwd.pc = "base" /\ table' = table
    BY <1>0, <1>3 DEF FwdReadBase, repairs, tables
  <2> HIDE DEF id
  <2>3. /\ fwd'.pc = "compare" /\ fwd'.id = id /\ fwd'.got = table[val.base][id]
        /\ fwd'.off = fwd.off
    BY <1>2, <2>2 DEF FwdSet
  <2>4. /\ Quiet' /\ Rows(val.base)' = B /\ (Searched => Searched')
        /\ \A i : Right(i) => Right(i)'
    BY <1>0, <1>1, <2>2, <2>3, ReportsOnly DEF Quiet
  <2>5. Compared'
    BY <1>1, <2>1, <2>2, <2>3, <2>4 DEF Compared
  <2> QED
    BY <2>4, <2>5
<1>4. ASSUME FwdReturns PROVE Quiet' /\ Compared' /\ (Searched => Searched')
  <2>1. /\ IdAt(val.base, fwd.off) = 0 /\ fwd' = [NoScan EXCEPT !.pc = "done"]
        /\ val' = IF rev.pc = "done" THEN [NoCheck EXCEPT !.base = val.base] ELSE val
        /\ topic' = topic
    BY <1>1, <1>4 DEF FwdReturns, FwdEnds, Quiet, repairs
  <2>2. fwd'.pc = "done" /\ val'.base = val.base /\ ~val'.cancelled
    BY <1>1, <2>1 DEF NoScan, NoCheck, Quiet
  <2>3. /\ Quiet' /\ Rows(val.base)' = B /\ (Searched => Searched')
        /\ \A i : Right(i) => Right(i)'
    BY <1>0, <1>1, <2>1, <2>2, ReportsOnly DEF Quiet
  <2>4. \A i \in B : Place(B, i) < fwd.off
    <3>1. ASSUME NEW i \in B, ~(Place(B, i) < fwd.off) PROVE FALSE
      <4>1. PICK m \in B : Place(B, m) = fwd.off
        BY <1>2, <3>1, EveryPlace
      <4>2. IdAt(val.base, fwd.off) = m /\ m # 0
        BY <1>2, <4>1, AtPlace
      <4> QED
        BY <2>1, <4>2
    <3> QED
      BY <3>1
  <2>5. \A i \in B : Right(i)'
    BY <1>1, <2>3, <2>4 DEF Compared
  <2>6. Compared'
    BY <2>2, <2>3, <2>5 DEF Compared
  <2> QED
    BY <2>3, <2>6
<1>5. ASSUME FwdCompare PROVE Quiet' /\ Compared' /\ (Searched => Searched')
  <2>1. /\ fwd.pc = "compare" /\ val' = val
        /\ fwd' = [NoScan EXCEPT !.pc = "base", !.off = fwd.off + 1]
        /\ IF Differs(fwd.id, fwd.got) THEN Sends({fwd.id}) ELSE topic' = topic
    BY <1>5 DEF FwdCompare
  <2>2. fwd'.pc = "base" /\ fwd'.off = fwd.off + 1
    BY <2>1 DEF NoScan
  <2>3. PICK id \in B : /\ id = fwd.id /\ Place(B, id) = fwd.off
                        /\ fwd.got = table[val.base][id]
    BY <1>1, <2>1 DEF Compared
  <2>4. {fwd.id} \in SUBSET Ids
    BY <1>2, <2>3
  <2>5. /\ Quiet' /\ Rows(val.base)' = B /\ (Searched => Searched')
        /\ \A i : Right(i) => Right(i)'
    BY <1>0, <1>1, <2>1, <2>2, <2>4, ReportsOnly DEF Quiet
  <2>6. Right(id)'
    <3>1. CASE Differs(fwd.id, fwd.got)
      <4>1. topic \in Seq([id : Ids, base : DBs])
        BY PassFacts
      <4>2. \A i \in {fwd.id} : Pending(i)'
        BY <1>2, <2>1, <2>4, <3>1, <4>1, Reporting
      <4> QED
        BY <2>3, <4>2 DEF Right
    <3>2. CASE ~Differs(fwd.id, fwd.got)
      BY <2>3, <2>5, <3>2 DEF Differs, Right
    <3> QED
      BY <3>1, <3>2
  <2>7. ASSUME NEW i \in B, Place(B, i) < fwd.off + 1 PROVE Right(i)'
    <3>1. Place(B, i) \in Nat /\ (Place(B, i) = fwd.off => i = id)
      BY <1>2, <2>3, AtPlace
    <3>2. Place(B, i) < fwd.off \/ Place(B, i) = fwd.off
      BY <1>2, <2>7, <3>1
    <3> QED
      BY <1>1, <2>5, <2>6, <3>1, <3>2 DEF Compared
  <2>8. Compared'
    BY <2>1, <2>2, <2>5, <2>7 DEF Compared
  <2> QED
    BY <2>5, <2>8
<1> QED
  BY <1>0, <1>1, <1>3, <1>4, <1>5 DEF Forward

\* The reverse direction goes from page to page, and returns behind the last row.
LEMMA PassReverse ==
  ASSUME Core, PassInv, Reverse
  PROVE  PassInv'
<1> SUFFICES ASSUME calm' PROVE Quiet' /\ Compared' /\ (~shifted' => Searched')
  BY DEF PassInv
<1> DEFINE T     == Rows(Peer(val.base))
           Extra == T \ Rows(val.base)
<1>0. /\ UNCHANGED <<tables, tx, fix, fwd, shifted>>
      /\ calm /\ ~RevReadBaseFails
  <2>1. UNCHANGED <<tables, tx, fix, fwd, shifted>> /\ calm
    BY DEF Reverse, RevReadTarget, RevReturns, RevReadBase, RevReadBaseFails,
           NoFault, Fault, traffic, repairs
  <2>2. ~RevReadBaseFails
    BY <2>1 DEF RevReadBaseFails, Fault, PassInv, Quiet
  <2> QED
    BY <2>1, <2>2
<1>1. Quiet /\ Compared /\ (~shifted => Searched)
  BY <1>0 DEF PassInv
<1>2. /\ val.base \in DBs /\ Peer(val.base) \in DBs /\ rev.off \in Nat /\ rev \in RevSet
      /\ rev.ids \subseteq Ids /\ T \subseteq Ids /\ MaxId \in Nat /\ T \subseteq 1..MaxId
      /\ BatchSize \in Nat \ {0}
  BY PassFacts DEF Core, Checks
<1>3. /\ Page(rev.off) = Slice(T, rev.off, BatchSize)
      /\ \A id \in T : Place(T, id) \in Nat
  BY <1>2, PageIsSlice, AtPlace
<1>4. /\ Cardinality(Page(rev.off)) \in Nat /\ Cardinality(Page(rev.off)) <= BatchSize
      /\ Cardinality(Page(rev.off)) < BatchSize =>
           \A id \in T : id \in Page(rev.off) \/ Place(T, id) < rev.off
  <2> HIDE DEF T
  <2>1. /\ Cardinality(Slice(T, rev.off, BatchSize)) \in Nat
        /\ Cardinality(Slice(T, rev.off, BatchSize)) <= BatchSize
        /\ Cardinality(Slice(T, rev.off, BatchSize)) < BatchSize =>
             T \subseteq Under(T, rev.off) \cup Slice(T, rev.off, BatchSize)
    BY <1>2, SlicePlaces
  <2> QED
    BY <1>3, <2>1 DEF Under
<1>5. ASSUME RevReadTarget PROVE Quiet' /\ Compared' /\ (Searched => Searched')
  <2>1. /\ rev' = [rev EXCEPT !.pc = "base", !.ids = Page(rev.off)] /\ rev.pc = "target"
        /\ topic' = topic /\ val' = val
    BY <1>5 DEF RevReadTarget, repairs
  <2>2. rev'.pc = "base" /\ rev'.ids = Page(rev.off) /\ rev'.off = rev.off
    BY <1>2, <2>1 DEF RevSet
  <2>3. /\ Quiet' /\ Rows(val.base)' = Rows(val.base) /\ T' = T /\ Compared'
        /\ \A id : Pending(id) => Pending(id)'
    BY <1>0, <1>1, <2>1, <2>2, ReportsOnly DEF Quiet
  <2>4. ASSUME NEW id \in Extra, rev.off <= Place(T, id) PROVE OnPage(id)' \/ Later(id)'
    <3>1. CASE id \in Page(rev.off)
      BY <2>2, <3>1 DEF OnPage
    <3>2. CASE id \notin Page(rev.off)
      <4>1. Place(T, id) \in Nat /\ ~(Place(T, id) < rev.off)
        BY <1>2, <1>3, <2>4
      <4>2. ~(Place(T, id) < rev.off + BatchSize)
        BY <1>3, <2>4, <3>2 DEF Slice
      <4>3. Cardinality(Page(rev.off)) = BatchSize
        BY <1>2, <1>4, <3>2, <4>1
      <4>4. rev.off + BatchSize <= Place(T, id)
        BY <1>2, <4>1, <4>2
      <4> QED
        BY <2>2, <2>3, <4>3, <4>4 DEF Later
    <3> QED
      BY <3>1, <3>2
  <2>5. ASSUME Searched PROVE Searched'
    <3>1. \A id \in Extra : Pending(id) \/ rev.off <= Place(T, id)
      BY <2>1, <2>5 DEF Searched, OnPage, Later
    <3>2. \A id \in Extra : Pending(id)' \/ OnPage(id)' \/ Later(id)'
      BY <2>3, <2>4, <3>1
    <3> QED
      BY <2>3, <3>2 DEF Searched
  <2> QED
    BY <2>3, <2>5
<1>6. ASSUME RevReturns PROVE Quiet' /\ Compared' /\ (Searched => Searched')
  <2>1. /\ rev.pc = "target" /\ Page(rev.off) = {} /\ rev' = [NoPage EXCEPT !.pc = "done"]
        /\ val' = IF fwd.pc = "done" THEN [NoCheck EXCEPT !.base = val.base] ELSE val
        /\ topic' = topic
    BY <1>1, <1>6 DEF RevReturns, RevEnds, Fault, Quiet, repairs
  <2>2. rev'.pc = "done" /\ val'.base = val.base /\ ~val'.cancelled
    BY <1>1, <2>1 DEF NoPage, NoCheck, Quiet
  <2>3. /\ Quiet' /\ Rows(val.base)' = Rows(val.base) /\ T' = T /\ Compared'
        /\ \A id : Pending(id) => Pending(id)'
    BY <1>0, <1>1, <2>1, <2>2, ReportsOnly DEF Quiet
  <2>4. \A id \in T : Place(T, id) < rev.off /\ ~(rev.off <= Place(T, id))
    <3>1. Cardinality(Page(rev.off)) = 0
      BY <2>1, FS_EmptySet
    <3> QED
      BY <1>2, <1>3, <1>4, <2>1, <3>1
  <2>5. ASSUME Searched PROVE Searched'
    <3>1. \A id \in Extra : Pending(id)
      BY <2>1, <2>4, <2>5 DEF Searched, OnPage, Later
    <3> QED
      BY <2>3, <3>1 DEF Searched
  <2> QED
    BY <2>3, <2>5
<1>7. ASSUME RevReadBase PROVE Quiet' /\ Compared' /\ (Searched => Searched')
  <2> DEFINE missing == rev.ids \ Rows(val.base)
  <2>1. rev.pc = "base" /\ Sends(missing) /\ AfterPage(missing)
    BY <1>7 DEF RevReadBase
  <2>2. missing \in SUBSET Ids
    BY <1>2
  <2>3. /\ rev'.pc \in {"target", "done"} /\ val'.base = val.base /\ ~val'.cancelled
        /\ Cardinality(rev.ids) = BatchSize => rev'.pc = "target" /\ rev'.off = rev.off + BatchSize
    <3>1. CASE RevEnds /\ Cardinality(rev.ids) # BatchSize
      BY <1>1, <3>1 DEF RevEnds, NoPage, NoCheck, Quiet
    <3>2. CASE /\ rev' = [NoPage EXCEPT !.pc = "target", !.off = rev.off + Cardinality(rev.ids)]
               /\ val' = val
      BY <1>1, <3>2 DEF NoPage, Quiet
    <3>3. CASE /\ rev' = [rev EXCEPT !.pc = "target", !.ids = {}] /\ val' = val
               /\ Cardinality(rev.ids) # BatchSize
      BY <1>1, <1>2, <3>3 DEF RevSet, Quiet
    <3> QED
      BY <2>1, <3>1, <3>2, <3>3 DEF AfterPage
  <2>4. /\ Quiet' /\ Rows(val.base)' = Rows(val.base) /\ T' = T /\ Compared'
        /\ \A id : Pending(id) => Pending(id)'
    BY <1>0, <1>1, <2>1, <2>2, <2>3, ReportsOnly DEF Quiet
  <2>5. \A id \in missing : Pending(id)'
    <3>1. topic \in Seq([id : Ids, base : DBs])
      BY PassFacts
    <3> QED
      BY <1>2, <2>1, <2>2, <3>1, Reporting
  <2>6. ASSUME Searched PROVE Searched'
    <3>1. ASSUME NEW id \in Extra PROVE Pending(id)' \/ Later(id)'
      <4>1. Pending(id) \/ id \in rev.ids
            \/ (Cardinality(rev.ids) = BatchSize /\ rev.off + BatchSize <= Place(T, id))
        BY <2>1, <2>6, <3>1 DEF Searched, OnPage, Later
      <4>2. CASE id \in rev.ids
        BY <2>5, <4>2
      <4>3. CASE Cardinality(rev.ids) = BatchSize /\ rev.off + BatchSize <= Place(T, id)
        BY <2>3, <2>4, <4>3 DEF Later
      <4> QED
        BY <2>4, <4>1, <4>2, <4>3
    <3> QED
      BY <2>4, <3>1 DEF Searched
  <2> QED
    BY <2>4, <2>6
<1> QED
  BY <1>0, <1>1, <1>5, <1>6, <1>7 DEF Reverse

\* The fixer reads the row of the base for the report in hand, and puts it into the
\* target; a row that this pushes out was wrong, and is still to be repaired.
LEMMA PassRepair ==
  ASSUME Core, PassInv, Repair
  PROVE  PassInv'
<1> SUFFICES ASSUME calm' PROVE Quiet' /\ Compared' /\ (~shifted' => Searched')
  BY DEF PassInv
<1>0. UNCHANGED <<tx, checks>> /\ calm /\ topic # <<>> /\ (FixRead \/ FixWrite)
  BY DEF Repair, FixRead, FixWrite, FixCollides, FixFails, NoFault, Upset, Fault, traffic,
         Core, Checks
<1>1. Quiet /\ Compared /\ (~shifted => Searched)
  BY <1>0 DEF PassInv
<1>2. val.base \in DBs /\ Peer(val.base) \in DBs /\ Peer(val.base) # val.base
  BY PassFacts
<1>3. /\ Head(topic) = topic[1] /\ Head(topic).id \in Ids /\ Base = val.base
      /\ Target = Peer(val.base) /\ Len(topic) \in Nat
      /\ Len(Tail(topic)) = Len(topic) - 1
      /\ \A i \in 1..Len(Tail(topic)) : i + 1 \in 1..Len(topic) /\ Tail(topic)[i] = topic[i + 1]
  <2> DEFINE S == [id : Ids, base : DBs]
  <2>1. topic \in Seq(S)
    BY PassFacts
  <2> HIDE DEF S
  <2>2. /\ Head(topic) = topic[1] /\ Head(topic) \in S /\ 1 \in 1..Len(topic)
        /\ Len(topic) \in Nat /\ Len(Tail(topic)) = Len(topic) - 1
        /\ \A i \in 1..Len(Tail(topic)) : i + 1 \in 1..Len(topic) /\ Tail(topic)[i] = topic[i + 1]
    BY <1>0, <2>1
  <2>3. Base = val.base
    BY <1>1, <2>2 DEF Base, Quiet
  <2> QED
    BY <2>2, <2>3 DEF S, Target
<1>4. ASSUME FixRead PROVE Quiet' /\ Compared' /\ (~shifted' => Searched')
  <2>1. /\ fix' = [st |-> "write", row |-> table[val.base][Head(topic).id]]
        /\ table' = table /\ topic' = topic /\ tx' = tx /\ shifted' = shifted
        /\ val' = val /\ fwd' = fwd /\ rev' = rev
    BY <1>0, <1>3, <1>4 DEF FixRead, tables, checks
  <2>2. Quiet'
    BY <1>1, <2>1 DEF Quiet
  <2>3. /\ \A d : Rows(d)' = Rows(d)
        /\ \A id : (Pending(id) <=> Pending(id)') /\ (Right(id) <=> Right(id)')
    BY <2>1 DEF Rows, Pending, Right
  <2> QED
    BY <1>1, <2>1, <2>2, <2>3 DEF Compared, Searched, OnPage, Later
<1>5. ASSUME FixWrite PROVE Quiet' /\ Compared' /\ (~shifted' => Searched')
  <2> DEFINE B == Rows(val.base)
             T == Rows(Peer(val.base))
  <2>1. PICK id \in Ids : id = Head(topic).id
    BY <1>3
  <2>2. PICK row : row = table[val.base][id]
    OBVIOUS
  <2>3. /\ fix.row = row /\ table' = FixedTable(id, row)
        /\ shifted' = (shifted \/ ~(Rows(Target) \subseteq {i \in Ids : table'[Target][i] # NoRow}))
        /\ topic' = Tail(topic) /\ fix' = NoFix
        /\ val' = val /\ fwd' = fwd /\ rev' = rev /\ tx' = tx
    BY <1>0, <1>1, <1>5, <2>1, <2>2 DEF FixWrite, Handled, Quiet, checks
  <2>4. /\ \A i \in Ids : table'[Peer(val.base)][i] =
             IF i = id THEN row
             ELSE IF row # NoRow /\ i \in Met(id, row) THEN NoRow ELSE table[Peer(val.base)][i]
        /\ table'[val.base] = table[val.base]
    BY <1>2, <1>3, <2>3 DEF FixedTable, Core, Data, DataTypes
  <2>5. Quiet'
    <3>1. \A i \in 1..Len(topic') : topic'[i].base = val.base
      BY <1>1, <1>3, <2>3 DEF Quiet
    <3> QED
      BY <1>1, <2>3, <3>1 DEF Quiet, NoFix
  <2>6. ASSUME NEW i, i # id, Pending(i) PROVE Pending(i)'
    <3>1. PICK k \in 1..Len(topic) : topic[k].id = i
      BY <2>6 DEF Pending
    <3>2. k # 1
      BY <1>3, <2>1, <2>6, <3>1
    <3>3. k - 1 \in 1..Len(Tail(topic)) /\ Tail(topic)[k - 1] = topic[k]
      BY <1>3, <3>1, <3>2
    <3> QED
      BY <2>3, <3>1, <3>3 DEF Pending
  <2>7. B' = B
    BY <2>3, <2>4 DEF Rows
  <2>8. ASSUME NEW i \in B, Right(i) PROVE Right(i)'
    <3>1. CASE i = id
      BY <2>2, <2>3, <2>4, <3>1 DEF Right
    <3>2. CASE i # id /\ Pending(i)
      BY <2>6, <3>2 DEF Right
    <3>3. CASE i # id /\ ~Pending(i)
      <4>1. table[Peer(val.base)][i] = table[val.base][i] /\ i \in Ids /\ table[val.base][i] # NoRow
        BY <2>8, <3>3 DEF Right, Rows
      <4>2. ~(row # NoRow /\ i \in Met(id, row))
        <5>1. ASSUME row # NoRow, i \in Met(id, row) PROVE FALSE
          <6>1. table[val.base][id].biz = table[val.base][i].biz
            BY <1>3, <2>2, <3>3, <4>1, <5>1 DEF Met
          <6>2. Unique(table[val.base])
            BY PassFacts
          <6> QED
            BY <3>3, <4>1, <6>1, <6>2 DEF Unique
        <5> QED
          BY <5>1
      <4> QED
        BY <2>3, <2>4, <3>3, <4>1, <4>2 DEF Right
    <3> QED
      BY <3>1, <3>2, <3>3
  <2>9. Compared'
    BY <1>1, <2>3, <2>4, <2>7, <2>8 DEF Compared
  <2>10. ASSUME ~shifted' PROVE Searched'
    <3>1. ~shifted /\ T \subseteq T' /\ Searched
      BY <1>1, <1>3, <2>3, <2>10 DEF Rows
    <3>2. MaxId \in Nat /\ T' \subseteq 1..MaxId
      BY Domains DEF Rows
    <3>3. ASSUME NEW i \in T' \ B PROVE i # id /\ i \in T
      <4>1. i \in Ids /\ table'[Peer(val.base)][i] # NoRow /\ table[val.base][i] = NoRow
        BY <2>3, <3>3 DEF Rows
      <4>2. i # id
        BY <2>2, <2>4, <4>1
      <4> QED
        BY <2>4, <4>1, <4>2 DEF Rows
    <3>4. ASSUME NEW i, Later(i) PROVE Later(i)'
      <4>1. PICK old, new : old = T /\ new = T'
        OBVIOUS
      <4>2. Place(old, i) <= Place(new, i) /\ Place(old, i) \in Nat /\ Place(new, i) \in Nat
        BY <3>1, <3>2, <4>1, PlacesGrow
      <4>3. rev.off \in Nat /\ BatchSize \in Nat
        BY PassFacts
      <4>4. rev.off + BatchSize \in Nat
        BY <4>3
      <4>5. \A k \in Nat : k <= Place(old, i) => k <= Place(new, i)
        BY <4>2
      <4>6. Place(T, i) = Place(old, i) /\ Place(T', i) = Place(new, i)
        BY <4>1
      <4> QED
        BY <2>3, <3>4, <4>3, <4>4, <4>5, <4>6 DEF Later
    <3>5. \A i \in T' \ B : Pending(i)' \/ OnPage(i)' \/ Later(i)'
      BY <2>3, <2>6, <3>1, <3>3, <3>4 DEF Searched, OnPage
    <3> QED
      BY <2>3, <2>7, <3>5 DEF Searched
  <2> QED
    BY <2>5, <2>9, <2>10
<1> QED
  BY <1>0, <1>4, <1>5

\* Nothing else is done to the pass without its being disturbed, and it begins with
\* nothing compared and nothing reported.
LEMMA PassNext ==
  ASSUME Core, PassInv, [Next]_vars
  PROVE  PassInv'
<1>1. CASE UNCHANGED <<calm, shifted, tx, tables, checks, topic, fix>>
  <2>1. UNCHANGED <<calm, shifted, tx, table, val, fwd, rev, topic, fix>>
    BY <1>1 DEF tables, checks
  <2>2. /\ \A d : Rows(d)' = Rows(d)
        /\ \A id : (Pending(id) <=> Pending(id)') /\ (Right(id) <=> Right(id)')
    BY <2>1 DEF Rows, Pending, Right
  <2> QED
    BY <2>1, <2>2 DEF PassInv, Quiet, Compared, Searched, OnPage, Later
<1>2. ASSUME NEW w \in Writers, Write(w), calm' PROVE FALSE
  <2>1. calm
    BY <1>2 DEF Write, BeginTx, BeginSecondFails, ExecFirst, ExecFirstFails, ExecSecond,
         ExecSecondFails, ExecSecondPanics, CommitFirst, CommitFirstFails, CommitSecond,
         CommitSecondFails, EndTx, NoFault, Upset, Fault
  <2>2. tx[w].st = "idle"
    BY <2>1 DEF PassInv, Quiet, Idle
  <2> QED
    BY <1>2, <2>2 DEF Write, BeginTx, BeginSecondFails, ExecFirst, ExecFirstFails, ExecSecond,
         ExecSecondFails, ExecSecondPanics, CommitFirst, CommitFirstFails, CommitSecond,
         CommitSecondFails, EndTx, Fault
<1>3. ASSUME NEW p \in Patterns, UpdatePattern(p)
      PROVE  UNCHANGED <<calm, shifted, tx, tables, checks, topic, fix>>
  BY <1>3 DEF UpdatePattern, repairs
<1>4. ASSUME NEW kind \in {"full", "incr"}, StartValidation(kind), calm'
      PROVE  Quiet' /\ Compared' /\ Searched'
  <2>1. /\ val' = [kind |-> kind, base |-> Authority(pattern), cancelled |-> FALSE]
        /\ fwd' = [NoScan EXCEPT !.pc = "base"] /\ rev' = [NoPage EXCEPT !.pc = "target"]
        /\ topic = <<>> /\ (\A w \in Writers : tx[w] = Idle)
        /\ UNCHANGED <<tx, tables, topic, fix>>
    BY <1>4 DEF StartValidation, traffic, repairs
  <2>2. /\ fwd'.pc = "base" /\ fwd'.off = 0 /\ rev'.pc = "target" /\ rev'.off = 0
        /\ val'.base \in DBs /\ ~val'.cancelled
    BY <2>1, Domains DEF NoScan, NoPage
  <2>3. fix.st # "write" /\ Len(topic') = 0
    BY <2>1 DEF Core, Checks
  <2>4. Quiet'
    BY <2>1, <2>2, <2>3 DEF Quiet
  <2>5. ASSUME NEW d \in DBs, NEW id \in Rows(d)'
        PROVE  0 <= Place(Rows(d)', id) /\ ~(Place(Rows(d)', id) < 0)
    <3>1. MaxId \in Nat /\ Rows(d)' \subseteq 1..MaxId
      BY Domains DEF Rows
    <3>2. PICK R : R = Rows(d)'
      OBVIOUS
    <3>3. Place(R, id) \in Nat
      BY <2>5, <3>1, <3>2, UnderPlaces
    <3> QED
      BY <3>2, <3>3
  <2>6. Compared'
    BY <2>2, <2>5 DEF Compared
  <2>7. Searched'
    <3>1. Peer(val'.base) \in DBs
      BY <2>2, Domains
    <3> QED
      BY <2>2, <2>5, <3>1 DEF Searched, Later
  <2> QED
    BY <2>4, <2>6, <2>7
<1>5. StopValidation \/ Crash => ~calm'
  BY DEF StopValidation, Crash, Fault
<1>6. AutoCommit \/ UNCHANGED vars => UNCHANGED <<calm, shifted, tx, tables, checks, topic, fix>>
  BY DEF AutoCommit, vars, tables, traffic, checks
<1> QED
  BY <1>1, <1>2, <1>3, <1>4, <1>5, <1>6, PassForward, PassReverse, PassRepair DEF Next, PassInv

\* A validation that nothing disturbs from its start on, once its reports are handled,
\* leaves in the target every row of its base and, unless a repair moved the pages of
\* the reverse direction, no other: for any number of rows, any size of a page, and
\* however the two directions and the fixer go along with one another.
THEOREM RepairsTheorem == Spec => []FullPassRepairs
<1>1. Init => PassInv
  BY DEF Init, PassInv
<1>2. IInv /\ PassInv => FullPassRepairs
  <2> SUFFICES ASSUME Core, PassInv PROVE FullPassRepairs
    BY DEF IInv
  <2>1. Drained => \A id : ~Pending(id)
    BY DEF Drained, Pending
  <2>2. ForwardPassRepairs
    BY <2>1 DEF ForwardPassRepairs, PassInv, Compared, Right
  <2>3. ReversePassRepairs
    BY <2>1 DEF ReversePassRepairs, PassInv, Searched, OnPage, Later
  <2> QED
    BY <2>2, <2>3 DEF FullPassRepairs
<1>3. IInv /\ PassInv /\ [Next]_vars => PassInv'
  BY PassNext DEF IInv
<1> QED
  BY InitInv, NextInv, <1>1, <1>2, <1>3, PTL DEF Spec
=============================================================================
