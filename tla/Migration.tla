----------------------------- MODULE Migration -----------------------------
(* The double-write migration of the interactive table: every business      *)
(* write goes through a DoubleWriteTx (pkg/gormx/connpool), a validator      *)
(* compares the two tables (pkg/migrator/validator) and reports differences  *)
(* to a Kafka topic, and one consumer (pkg/migrator/events/fixer) repairs    *)
(* the target row of each report from the base row                           *)
(* (pkg/migrator/fixer).  The admin server (pkg/migrator/scheduler) changes  *)
(* the pattern and starts validators while traffic goes on.                  *)
(*                                                                           *)
(* A row is [biz, n]: its unique key and its counter.  A business write is   *)
(* GORMInteractiveDAO.IncrReadCnt: INSERT with n = 1 ON DUPLICATE KEY n + 1, *)
(* with the id left to AUTO_INCREMENT of the database that runs it.          *)
EXTENDS Integers, Sequences, FiniteSets, Functions

CONSTANTS
  Writers,      \* concurrent business transactions
  Biz,          \* business objects, the unique key of the table
  NoBiz,        \* the key of an absent row
  BatchSize,    \* Validator.batchSize (100 in the code)
  MaxEvents,    \* bound: transactions begun, pattern changes, validators
                \* started, failures (of a statement, a commit, a message)
                \* and crashes, taken together
  MaxReports,   \* bound: reports waiting or not yet committed before a validator
                \* goes on
  MaxRows       \* bound: rows of src when the migration starts

ASSUME MigrationAssumption ==
  /\ {BatchSize, MaxRows} \subseteq Nat \ {0}
  /\ {MaxEvents, MaxReports} \subseteq Nat
  /\ NoBiz \notin Biz

VARIABLES
  table,    \* table[d][id]: the committed row of database d under that id
  auto,     \* auto[d]: the next AUTO_INCREMENT value of database d
  pattern,  \* DoubleWritePool.pattern, which Scheduler.pattern follows
  tx,       \* tx[w]: the DoubleWriteTx of w
  topic,    \* reports not yet marked, the first one being handled or next
  redo,     \* reports handled and marked whose mark the broker does not have yet
  fix,      \* OverrideFixer.Fix of the report at the head of topic
  val,      \* the running validator: "off", "full" or "incr", and its base
  fwd,      \* validateBaseToTarget
  rev,      \* validateTargetToBase
  written,    \* written[b]: writes of b committed on the first database of their tx
  trusted,  \* every change of authority so far was a SafeHandover
  calm,     \* nothing disturbed the last full validation since it began
  paired,   \* the tables agreed when double writing began, and since then
            \* nothing failed and nothing was repaired
  shifted,  \* a target row lost its id while rev was paging
  events    \* counts towards MaxEvents

vars == <<table, auto, pattern, tx, topic, redo, fix, val, fwd, rev, written, trusted,
          calm, paired, shifted, events>>
tables  == <<table, auto>>
traffic == <<pattern, tx, written, trusted>>
checks  == <<val, fwd, rev>>
repairs == <<topic, redo, fix>>

DBs      == {"src", "dst"}
Patterns == {"src_only", "src_first", "dst_first", "dst_only"}
MaxId    == 2 * MaxRows + MaxEvents
Ids      == 1..MaxId
NoRow    == [biz |-> NoBiz, n |-> 0]

Authority(p) == IF p \in {"src_only", "src_first"} THEN "src" ELSE "dst"
Doubles(p)   == p \in {"src_first", "dst_first"}
Peer(d)      == IF d = "src" THEN "dst" ELSE "src"

Rows(d)       == {id \in Ids : table[d][id] # NoRow}
IdOf(d, b)    == {id \in Rows(d) : table[d][id].biz = b}
Count(d, b)   == IF IdOf(d, b) = {} THEN 0
                 ELSE LET id == CHOOSE i \in IdOf(d, b) : TRUE IN table[d][id].n
(* The ids of d in ascending order, the (off + 1)-th of them or 0.            *)
IdAt(d, off)  == LET at == {id \in Rows(d) :
                              Cardinality({i \in Rows(d) : i < id}) = off}
                 IN  IF at = {} THEN 0 ELSE CHOOSE id \in at : TRUE

Idle    == [st |-> "idle", pat |-> "src_only", biz |-> NoBiz, open |-> {},
            put |-> [d \in DBs |-> 0]]
NoFix   == [st |-> "idle", row |-> NoRow]
NoScan  == [pc |-> "off", off |-> 0, got |-> NoRow, id |-> 0]
NoPage  == [pc |-> "off", off |-> 0, ids |-> {}]
NoCheck == [kind |-> "off", base |-> "src", cancelled |-> FALSE]

First(t)  == Authority(t.pat)
Second(t) == Peer(First(t))

(* Locked(d, b, w): another transaction holds the row lock of b in d until   *)
(* it commits or rolls back there.                                           *)
Locked(d, b, w) ==
  \E v \in Writers \ {w} : tx[v].biz = b /\ tx[v].put[d] # 0

(* Nothing of the past is under way, nor can it come back, and the tables     *)
(* agree: the moment at which the authority may be handed over.              *)
SafeHandover ==
  /\ table["src"] = table["dst"]
  /\ topic = <<>> /\ redo = <<>>
  /\ val.kind = "off"
  /\ \A w \in Writers : tx[w] = Idle

Init ==
  \E k \in 0..MaxRows : \E owner \in Injection(1..k, Biz) :
    /\ table = [d \in DBs |-> [id \in Ids |->
                  IF d = "src" /\ id \in 1..k THEN [biz |-> owner[id], n |-> 1]
                                              ELSE NoRow]]
    /\ auto  = [d \in DBs |-> IF d = "src" THEN k + 1 ELSE 1]
    /\ pattern = "src_only"
    /\ tx = [w \in Writers |-> Idle]
    /\ topic = <<>> /\ redo = <<>> /\ fix = NoFix
    /\ val = NoCheck /\ fwd = NoScan /\ rev = NoPage
    /\ written = [b \in Biz |-> Count("src", b)]
    /\ trusted = TRUE /\ calm = FALSE /\ paired = FALSE /\ shifted = FALSE
    /\ events = 0

(* A statement, a commit or a message may fail, within the bound.            *)
Happens  == events < MaxEvents /\ events' = events + 1
Fault   == Happens /\ calm' = FALSE /\ paired' = FALSE
NoFault == UNCHANGED <<events, calm, paired>>
Upset   == calm' = FALSE /\ paired' = FALSE /\ UNCHANGED events
----------------------------------------------------------------------------
(* Business transactions: DoubleWritePool.BeginTx and DoubleWriteTx.         *)

(* BeginTx remembers the pattern of this moment.                              *)
BeginTx(w, b) ==
  /\ tx[w].st = "idle" /\ Happens /\ calm' = FALSE /\ UNCHANGED paired
  /\ tx' = [tx EXCEPT ![w] = [Idle EXCEPT
               !.st = "exec", !.pat = pattern, !.biz = b,
               !.open = IF Doubles(pattern) THEN DBs ELSE {Authority(pattern)}]]
  /\ UNCHANGED <<table, auto, pattern, written, trusted,
                 shifted, checks, repairs>>

(* The second database cannot begin.  Under src_first BeginTx returns the    *)
(* error, gorm never rolls the first transaction back, and it stays open     *)
(* until its context ends; under dst_first the caller goes on without src.   *)
BeginSecondFails(w, b) ==
  /\ tx[w].st = "idle" /\ Doubles(pattern) /\ Fault
  /\ tx' = [tx EXCEPT ![w] = [Idle EXCEPT
               !.st = IF pattern = "src_first" THEN "leaked" ELSE "exec",
               !.pat = pattern, !.biz = b, !.open = {Authority(pattern)}]]
  /\ UNCHANGED <<table, auto, pattern, written, trusted, shifted,
                 checks, repairs>>

(* The row a write of b locks and, if it is absent, the id it will have.      *)
PutId(d, b) == IF IdOf(d, b) = {} THEN auto[d]
               ELSE CHOOSE i \in IdOf(d, b) : TRUE

(* The INSERT ... ON DUPLICATE KEY UPDATE of w in d: it waits for the row     *)
(* lock and takes an AUTO_INCREMENT value whether or not it inserts.          *)
Exec(w, d, next) ==
  /\ ~Locked(d, tx[w].biz, w)
  /\ auto[d] < MaxId
  /\ tx' = [tx EXCEPT ![w].st = next, ![w].put[d] = PutId(d, tx[w].biz)]
  /\ auto' = [auto EXCEPT ![d] = @ + 1]
  /\ UNCHANGED table

ExecFirst(w) ==
  /\ tx[w].st = "exec"
  /\ Exec(w, First(tx[w]), IF Doubles(tx[w].pat) THEN "exec2" ELSE "commit")
  /\ NoFault
  /\ UNCHANGED <<pattern, written, trusted, shifted, checks, repairs>>

(* The first statement fails, or waits for its lock until it times out: the   *)
(* caller rolls back.                                                         *)
ExecFirstFails(w) ==
  /\ tx[w].st = "exec"
  /\ IF Locked(First(tx[w]), tx[w].biz, w) THEN NoFault ELSE Fault
  /\ tx' = [tx EXCEPT ![w].st = "rollback"]
  /\ UNCHANGED <<pattern, written, trusted, tables, shifted,
                 checks, repairs>>

ExecSecond(w) ==
  /\ tx[w].st = "exec2" /\ Second(tx[w]) \in tx[w].open
  /\ Exec(w, Second(tx[w]), "commit")
  /\ NoFault
  /\ UNCHANGED <<pattern, written, trusted, shifted, checks, repairs>>

(* A failing or timed-out second statement is only logged.                    *)
ExecSecondFails(w) ==
  /\ tx[w].st = "exec2" /\ Second(tx[w]) \in tx[w].open
  /\ IF Locked(Second(tx[w]), tx[w].biz, w) THEN Upset ELSE Fault
  /\ tx' = [tx EXCEPT ![w].st = "commit"]
  /\ UNCHANGED <<pattern, written, trusted, tables, shifted,
                 checks, repairs>>

(* What d holds once w has committed there.                                   *)
Applied(w, d) ==
  LET t == tx[w]
  IN  IF t.put[d] = 0 THEN table
      ELSE [table EXCEPT ![d][t.put[d]] = [biz |-> t.biz, n |-> @.n + 1]]

(* Commit of the authority's transaction, then of the other one.              *)
CommitFirst(w) ==
  /\ tx[w].st = "commit"
  /\ table' = Applied(w, First(tx[w]))
  /\ written' = [written EXCEPT ![tx[w].biz] = @ + 1]
  /\ tx' = [tx EXCEPT ![w] = IF Second(@) \in @.open
                             THEN [@ EXCEPT !.st = "commit2",
                                            !.open = {Second(tx[w])},
                                            !.put[First(tx[w])] = 0]
                             ELSE Idle]
  /\ NoFault
  /\ UNCHANGED <<auto, pattern, trusted, shifted, checks, repairs>>

(* Commit fails and gorm calls Rollback, whose first Rollback returns         *)
(* sql.ErrTxDone: the second transaction is left open.  The database may      *)
(* have committed although its answer was lost.                               *)
CommitFirstFails(w) ==
  /\ tx[w].st = "commit" /\ Fault
  /\ \/ UNCHANGED <<table, written>>
     \/ /\ table' = Applied(w, First(tx[w]))
        /\ written' = [written EXCEPT ![tx[w].biz] = @ + 1]
  /\ tx' = [tx EXCEPT ![w] = IF Second(@) \in @.open
                             THEN [@ EXCEPT !.st = "leaked",
                                            !.open = {Second(tx[w])},
                                            !.put[First(tx[w])] = 0]
                             ELSE Idle]
  /\ UNCHANGED <<auto, pattern, trusted, shifted, checks, repairs>>

(* Mutant: Commit returns after the first commit.                             *)
CommitSecondForgotten(w) ==
  /\ tx[w].st = "commit2"
  /\ tx' = [tx EXCEPT ![w] = Idle]
  /\ NoFault
  /\ UNCHANGED <<pattern, written, trusted, tables, shifted, checks, repairs>>

CommitSecond(w) ==
  /\ tx[w].st = "commit2"
  /\ table' = Applied(w, Second(tx[w]))
  /\ tx' = [tx EXCEPT ![w] = Idle]
  /\ NoFault
  /\ UNCHANGED <<auto, pattern, written, trusted, shifted,
                 checks, repairs>>

(* A failing second commit is only logged: that write is missing there.       *)
CommitSecondFails(w) ==
  /\ tx[w].st = "commit2" /\ Fault
  /\ tx' = [tx EXCEPT ![w] = Idle]
  /\ UNCHANGED <<pattern, written, trusted, tables, shifted,
                 checks, repairs>>

(* Rollback of both, or the end of the context of a leaked transaction.       *)
EndTx(w) ==
  /\ tx[w].st \in {"rollback", "leaked"}
  /\ tx' = [tx EXCEPT ![w] = Idle]
  /\ NoFault
  /\ UNCHANGED <<pattern, written, trusted, tables, shifted,
                 checks, repairs>>
----------------------------------------------------------------------------
(* The admin server: Scheduler.                                              *)

(* SrcOnly, SrcFirst, DstFirst, DstOnly: nothing but the pattern changes;     *)
(* open transactions and running validators keep what they captured.          *)
Trusts(p) == trusted /\ (Authority(p) = Authority(pattern) \/ SafeHandover)

UpdatePattern(p) ==
  /\ p # pattern /\ Happens
  /\ pattern' = p
  /\ trusted' = Trusts(p)
  /\ paired' = (Doubles(p) /\ (paired \/ SafeHandover))
  /\ UNCHANGED <<tx, written, calm, tables, shifted, checks, repairs>>

(* StartFullValidation, StartIncrementValidation: the validator's base is     *)
(* the authority of this moment, and its two directions run side by side.     *)
StartValidation(kind) ==
  /\ val.kind = "off" /\ Happens
  /\ val' = [kind |-> kind, base |-> Authority(pattern), cancelled |-> FALSE]
  /\ fwd' = [NoScan EXCEPT !.pc = "base"]
  /\ rev' = [NoPage EXCEPT !.pc = "target"]
  /\ calm' = (/\ topic = <<>>
              /\ \A w \in Writers : tx[w] = Idle)
  /\ shifted' = FALSE
  /\ UNCHANGED <<tables, traffic, paired, repairs>>

(* StopFullValidation, StopIncrementValidation: each direction sees the       *)
(* cancelled context at its next query.                                       *)
StopValidation ==
  /\ val.kind # "off" /\ ~val.cancelled
  /\ val' = [val EXCEPT !.cancelled = TRUE]
  /\ calm' = FALSE
  /\ UNCHANGED <<fwd, rev, events, paired, shifted, tables, traffic, repairs>>
----------------------------------------------------------------------------
(* Validator.                                                                *)

(* notify: a report that cannot be sent is only logged.                       *)
Reports(ids) ==
  {[i \in DOMAIN s |-> [id |-> s[i], base |-> val.base]] :
     s \in {t \in [1..Cardinality(ids) -> ids] : \A i, j \in DOMAIN t : i < j => t[i] < t[j]}}

Sends(ids) == \E reports \in Reports(ids) : topic' = topic \o reports

HasRoom == Len(redo \o topic) < MaxReports

(* A direction returns; the second one to return ends Validate.               *)

FwdEnds ==
  /\ fwd' = [NoScan EXCEPT !.pc = "done"]
  /\ val' = IF rev.pc = "done" THEN [NoCheck EXCEPT !.base = val.base] ELSE val

(* fullFromBase and incrFromBase: the row at the offset, in the order of id.  *)
(* At the end of the table a full pass returns and an incremental one sleeps  *)
(* and asks for the same offset again (no step of this model).                *)
FwdReadBase ==
  /\ fwd.pc = "base" /\ ~val.cancelled
  /\ IdAt(val.base, fwd.off) # 0
  /\ LET id == IdAt(val.base, fwd.off)
     IN  fwd' = [fwd EXCEPT !.pc = "compare", !.id = id, !.got = table[val.base][id]]
  /\ NoFault
  /\ UNCHANGED <<val, rev, shifted, tables, traffic, repairs>>

FwdReturns ==
  /\ fwd.pc = "base"
  /\ val.cancelled \/ (val.kind = "full" /\ IdAt(val.base, fwd.off) = 0)
  /\ FwdEnds
  /\ NoFault
  /\ UNCHANGED <<rev, shifted, tables, traffic, repairs>>

(* A query that fails for another reason skips the row; one that outlives its *)
(* second ends the pass.                                                      *)
FwdReadFails ==
  /\ fwd.pc = "base" /\ ~val.cancelled /\ Fault
  /\ \/ fwd' = [fwd EXCEPT !.off = @ + 1] /\ UNCHANGED val
     \/ FwdEnds
  /\ UNCHANGED <<rev, shifted, tables, traffic, repairs>>

(* Mutant: a row that is present is not compared.                             *)
DiffersIfMissing(id, row) == table[Peer(val.base)][id] = NoRow

Differs(id, row) == table[Peer(val.base)][id] # row

FwdCompare ==
  /\ fwd.pc = "compare" /\ HasRoom
  /\ fwd' = [NoScan EXCEPT !.pc = "base", !.off = fwd.off + 1]
  /\ IF Differs(fwd.id, fwd.got) THEN Sends({fwd.id}) ELSE UNCHANGED topic
  /\ NoFault
  /\ UNCHANGED <<val, rev, redo, fix, shifted, tables, traffic>>

(* The query of the target, or the report, fails: the row is passed over.  A  *)
(* cancelled context makes the query fail.                                    *)
FwdCompareFails ==
  /\ fwd.pc = "compare"
  /\ IF val.cancelled THEN NoFault ELSE Fault
  /\ fwd' = [NoScan EXCEPT !.pc = "base", !.off = fwd.off + 1]
  /\ UNCHANGED <<val, rev, shifted, tables, traffic, repairs>>

RevEnds ==
  /\ rev' = [NoPage EXCEPT !.pc = "done"]
  /\ val' = IF fwd.pc = "done" THEN [NoCheck EXCEPT !.base = val.base] ELSE val

(* The ids at Offset(off).Limit(batchSize) of the target.                     *)
Page(off) == {IdAt(Peer(val.base), k) : k \in off..(off + BatchSize - 1)} \ {0}

RevReadTarget ==
  /\ rev.pc = "target" /\ ~val.cancelled
  /\ Page(rev.off) # {}
  /\ rev' = [rev EXCEPT !.pc = "base", !.ids = Page(rev.off)]
  /\ NoFault
  /\ UNCHANGED <<val, fwd, shifted, tables, traffic, repairs>>

(* An empty page ends a full pass, and so does a failing query, whose result  *)
(* is empty too: line 162 comes before line 170.                              *)
RevReturns ==
  /\ rev.pc = "target"
  /\ \/ NoFault /\ (val.cancelled \/ (val.kind = "full" /\ Page(rev.off) = {}))
     \/ Fault /\ val.kind = "full"
  /\ RevEnds
  /\ UNCHANGED <<fwd, shifted, tables, traffic, repairs>>

(* Mutant: a full pass, too, takes a page that is not full again.             *)
AfterPageAgain(missing) ==
  IF missing = rev.ids \/ Cardinality(rev.ids) = BatchSize
  THEN /\ rev' = [NoPage EXCEPT !.pc = "target", !.off = rev.off + Cardinality(rev.ids)]
       /\ UNCHANGED val
  ELSE rev' = [rev EXCEPT !.pc = "target", !.ids = {}] /\ UNCHANGED val

(* The ids of the page that base lacks are reported; when base has none of    *)
(* them, the branch of line 181 does not look at the size of the page.  A     *)
(* page that is not full ends a full pass; an incremental one sleeps and      *)
(* takes the same page again.                                                 *)
AfterPage(missing) ==
  IF missing = rev.ids \/ Cardinality(rev.ids) = BatchSize
  THEN /\ rev' = [NoPage EXCEPT !.pc = "target", !.off = rev.off + Cardinality(rev.ids)]
       /\ UNCHANGED val
  ELSE IF val.kind = "full" THEN RevEnds
  ELSE rev' = [rev EXCEPT !.pc = "target", !.ids = {}] /\ UNCHANGED val

RevReadBase ==
  /\ rev.pc = "base" /\ HasRoom
  /\ LET missing == rev.ids \ Rows(val.base)
     IN  Sends(missing) /\ AfterPage(missing)
  /\ NoFault
  /\ UNCHANGED <<fwd, redo, fix, shifted, tables, traffic>>

(* A failing or cancelled query of base has an empty result, so that the      *)
(* whole page is reported as missing (line 181 comes before line 188); or a   *)
(* report is lost.                                                            *)
RevReadBaseFails ==
  /\ rev.pc = "base" /\ HasRoom
  /\ \/ /\ IF val.cancelled THEN NoFault ELSE Fault
        /\ Sends(rev.ids) /\ AfterPage(rev.ids)
     \/ \E lost \in rev.ids \ Rows(val.base) :
          /\ Fault
          /\ Sends(rev.ids \ (Rows(val.base) \union {lost}))
          /\ AfterPage(rev.ids \ Rows(val.base))
  /\ UNCHANGED <<fwd, redo, fix, shifted, tables, traffic>>
----------------------------------------------------------------------------
(* The consumer of the reports: Consumer.Consume and OverrideFixer.Fix.      *)

(* Mutant: Consume takes the fixer of the other direction.                    *)
BaseSwapped == Peer(Head(topic).base)

Base   == Head(topic).base
Target == Peer(Base)

FixRead ==
  /\ fix.st = "idle" /\ topic # <<>>
  /\ fix' = [st |-> "write", row |-> table[Base][Head(topic).id]]
  /\ paired' = FALSE
  /\ UNCHANGED <<topic, redo, calm, shifted, events, tables, traffic, checks>>

(* The rows of the target that INSERT ... ON DUPLICATE KEY UPDATE meets: the  *)
(* one with this id and the one with this key.                                *)
Met(id, row) == {i \in Rows(Target) : i = id \/ table[Target][i].biz = row.biz}

FixWaits(id, row) ==
  \E w \in Writers : /\ tx[w].put[Target] # 0
                     /\ tx[w].put[Target] = id \/ tx[w].biz = row.biz

(* Delete of a row base does not have; else the upsert of the whole row, id   *)
(* included: an insert, or an overwrite of the one row it meets.              *)
FixedTable(id, row) ==
  [table EXCEPT ![Target] =
     [i \in Ids |-> IF i = id THEN row
                    ELSE IF row # NoRow /\ i \in Met(id, row) THEN NoRow
                    ELSE @[i]]]

(* Two different rows are met: the overwrite of the first one (the id) would  *)
(* repeat the key of the other, and MySQL refuses it.                         *)
Collides(id, row) == row # NoRow /\ Cardinality(Met(id, row)) > 1

(* The report is marked, whatever became of it.                               *)
Handled == /\ topic' = Tail(topic)
           /\ redo' = Append(redo, Head(topic))
           /\ fix' = NoFix

FixWrite ==
  LET id == Head(topic).id IN
  /\ fix.st = "write"
  /\ ~FixWaits(id, fix.row) /\ ~Collides(id, fix.row)
  /\ table' = FixedTable(id, fix.row)
  /\ auto' = IF fix.row # NoRow /\ auto[Target] <= id
             THEN [auto EXCEPT ![Target] = id + 1] ELSE auto
  /\ shifted' = (shifted \/ ~(Rows(Target) \subseteq
                      {i \in Ids : table'[Target][i] # NoRow}))
  /\ Handled
  /\ NoFault
  /\ UNCHANGED <<traffic, checks>>

FixCollides ==
  /\ fix.st = "write"
  /\ Collides(Head(topic).id, fix.row)
  /\ Upset
  /\ Handled
  /\ UNCHANGED <<shifted, tables, traffic, checks>>

(* A statement fails or waits for a lock past the second of the context: the  *)
(* error is logged and the report marked all the same (samarax.Handler).      *)
FixFails ==
  /\ topic # <<>>
  /\ IF fix.st = "write" /\ FixWaits(Head(topic).id, fix.row)
     THEN Upset ELSE Fault
  /\ Handled
  /\ UNCHANGED <<shifted, tables, traffic, checks>>
(* sarama commits once a second what is marked by then, the oldest first.     *)
AutoCommit ==
  /\ redo # <<>>
  /\ redo' = Tail(redo)
  /\ UNCHANGED <<topic, fix, events, calm, paired, shifted, tables, traffic, checks>>
----------------------------------------------------------------------------
(* Death and restart of the process.  The databases roll back, the pattern    *)
(* is src_only again (NewDoubleWritePool), no validator runs, and the reports *)
(* from the last commit on are delivered again, those handled included.       *)
Die ==
  /\ pattern' = "src_only" /\ trusted' = Trusts("src_only")
  /\ tx' = [w \in Writers |-> Idle]
  /\ topic' = redo \o topic /\ redo' = <<>>
  /\ fix' = NoFix /\ val' = NoCheck /\ fwd' = NoScan /\ rev' = NoPage
  /\ UNCHANGED <<tables, written, shifted>>

Crash == Fault /\ Die

(* dst_first without a transaction on src: ExecContext calls a nil *sql.Tx,   *)
(* and no interceptor of the gRPC server recovers from the panic.             *)
ExecSecondPanics(w) ==
  /\ tx[w].st = "exec2" /\ Second(tx[w]) \notin tx[w].open
  /\ Die
  /\ Upset
----------------------------------------------------------------------------
Write(w) ==
  \/ \E b \in Biz : BeginTx(w, b) \/ BeginSecondFails(w, b)
  \/ ExecFirst(w) \/ ExecFirstFails(w) \/ ExecSecond(w) \/ ExecSecondFails(w)
  \/ ExecSecondPanics(w)
  \/ CommitFirst(w) \/ CommitFirstFails(w) \/ CommitSecond(w) \/ CommitSecondFails(w)
  \/ EndTx(w)
Forward == FwdReadBase \/ FwdReturns \/ FwdReadFails \/ FwdCompare \/ FwdCompareFails
Reverse == RevReadTarget \/ RevReturns \/ RevReadBase \/ RevReadBaseFails
Repair  == FixRead \/ FixWrite \/ FixCollides \/ FixFails

Next ==
  \/ \E w \in Writers : Write(w)
  \/ \E p \in Patterns : UpdatePattern(p)
  \/ \E kind \in {"full", "incr"} : StartValidation(kind)
  \/ StopValidation
  \/ Forward \/ Reverse \/ Repair \/ AutoCommit
  \/ Crash

(* Goroutines run, and sarama's ticker fires; no writer has to go on.         *)
Fairness == /\ WF_vars(Forward) /\ WF_vars(Reverse)
            /\ WF_vars(Repair) /\ WF_vars(AutoCommit)

Spec     == Init /\ [][Next]_vars
FairSpec == Spec /\ Fairness
----------------------------------------------------------------------------
(* Types, and a transaction holds locks only where it is open.                *)
TypeOK ==
  /\ table \in [DBs -> [Ids -> [biz : Biz \union {NoBiz}, n : Nat]]]
  /\ auto \in [DBs -> 1..(MaxId + 1)]
  /\ pattern \in Patterns
  /\ tx \in [Writers -> [st : {"idle", "exec", "exec2", "commit", "commit2",
                               "rollback", "leaked"},
                         pat : Patterns, biz : Biz \union {NoBiz},
                         open : SUBSET DBs, put : [DBs -> 0..MaxId]]]
  /\ \A w \in Writers, d \in DBs : tx[w].put[d] # 0 => d \in tx[w].open
  /\ \A s \in {topic, redo} : \A i \in DOMAIN s : s[i].id \in Ids /\ s[i].base \in DBs
  /\ fix.st \in {"idle", "write"}
  /\ val.kind \in {"off", "full", "incr"}

(* As long as the authority is only handed over when nothing is under way     *)
(* (SafeHandover), the authoritative database holds every committed write     *)
(* exactly once: neither a failing second database, nor a leaked transaction, *)
(* nor a repair, nor a report that is stale or is handled again after a crash *)
(* takes one away.  A report handled less than a second ago is why a safe     *)
(* handover waits for the commit of its mark.                                 *)
NoWriteLost ==
  trusted => \A b \in Biz : Count(Authority(pattern), b) = written[b]

(* The authority loses no write, and no row is locked without a transaction   *)
(* (double_write_pool.go:190-265).                                            *)
AuthorityInv == TypeOK /\ NoWriteLost

(* Double writing keeps the counters of the two databases equal whenever no   *)
(* transaction is open, whatever the order in which writers, also writers     *)
(* that began under different patterns, meet in the two databases: as long as *)
(* nothing fails, no second statement times out and no repair begins.  A      *)
(* repair that read its row before a write and writes it afterwards takes the *)
(* write back (FixRead, FixWrite).                                            *)
PairAgrees ==
  paired /\ (\A w \in Writers : tx[w] = Idle) =>
    \A b \in Biz : Count("src", b) = Count("dst", b)

Drained == topic = <<>> /\ fix = NoFix

(* A full validation that nothing disturbed, once its reports are handled,    *)
(* leaves every row of its base in the target, under the same id: also when   *)
(* repairs ran while it was paging.                                           *)
ForwardPassRepairs ==
  calm /\ fwd.pc = "done" /\ Drained =>
    \A d \in {val.base} : \A id \in Rows(d) : table[Peer(d)][id] = table[d][id]

(* ... and no row in the target that its base lacks, unless a repair took a   *)
(* row out of the table the reverse pass was paging through: Offset then      *)
(* jumps over a row.                                                          *)
ReversePassRepairs ==
  calm /\ ~shifted /\ rev.pc = "done" /\ Drained =>
    Rows(Peer(val.base)) \subseteq Rows(val.base)

(* Both directions together: what a full validation is for (validator.go:47). *)
FullPassRepairs == ForwardPassRepairs /\ ReversePassRepairs

(* A full validation ends, whatever the writers and the fixer do to the rows. *)
FullPassEnds == (val.kind = "full") ~> (val.kind = "off")

(* fixer.go:35 says of Fix that it cannot go wrong whatever the row: a report *)
(* whose statements reach the database leaves the row of base in the target.  *)
FixNeverWrong == [][trusted => ~FixCollides]_vars
=============================================================================
