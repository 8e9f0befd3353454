# Verification of webook

TLA+ models of the concurrent and fault-exposed parts of `src/webook` (a Go
publishing platform: articles, likes, comments, follows, SMS, rankings), the TLC
runs that check them on small instances and theorems that TLAPS proves for all
instances. Paths below are relative to `src/webook/`.

## 1. The system

| Component | State | Operations | Who shares it | What makes it correct | Here |
|---|---|---|---|---|---|
| Cron scheduler (`internal/job/mysql_job.go`, `internal/service/job.go`, `dao/job.go`) | table `jobs` (status, version, next_time, utime), a semaphore and goroutines per process | Schedule, Preempt, refresh, ResetNextTime, Release | all processes, by optimistic locking | one lease per job; not before it is due; once per firing; leases come back; the limiter is neither overdrawn nor leaks | `CronJob`, `JobLease` |
| Redis-elected cron jobs (`internal/job/ranking.go`, `like100.go`) | redis key; `r.lock`, `localLock` per process | Run once a second, AutoRefresh goroutine, Close | all processes; overlapping firings inside one | one process computes; another takes over; it goes on for ever | `RankingJob` |
| Async SMS (`internal/service/sms/async`, `dao/async_sms.go`) | table of messages (status, retry_cnt, utime) | Send, AsyncSend loop, report | all processes, by `SELECT ... FOR UPDATE` and utime | nobody sends what another is sending; outcomes are true, final and reached; bounded attempts | `AsyncSms` |
| SMS failover (`internal/service/sms/failover`) | two atomics: index and timeout count | Send | all callers in a process | a provider is left when `threshold` timeouts have been counted, not over and over for the same timeouts; a dead one is left | `TimeoutFailover` |
| Interactive counters (`interactive/`) | tables of counters, likes, collections; a redis hash | IncrReadCnt, Like, CancelLike, Collect, Get | HTTP and gRPC handlers, Kafka batches | counters equal rows; the cache follows the database | `Interactive` |
| Read events (`pkg/samarax`, `interactive/events`) | batch, offsets, group membership | GetPubById sends, ConsumeClaim, BatchConsume | producers, consumer group | every event applied, once where possible | `ReadEvents` |
| Migration (`pkg/gormx/connpool`, `pkg/migrator`) | write pattern, two databases, validators, reports | double write, BeginTx/Commit, Validate, Fix, change of pattern | all writers, a validator, the fixer | the databases converge; the authority loses nothing; what was started can be stopped | `Migration`, `Scheduler` |
| Smooth WRR (`pkg/grpcx/balancer/wrr`) | current weights | Pick | concurrent RPCs | shares proportional to weights | `Balancer` |
| Sliding-window limiter (`pkg/limiter`) | sorted set in redis | the script | all processes | at most `rate` milliseconds of a window let requests through; nobody is turned away undeservedly | `Limiter` |
| Articles (`internal/repository/article.go`, `dao/article.go`, `cache/article.go`) | authors' and readers' table, redis entries | Save, Publish, Withdraw, Detail, PubDetail | handlers and their goroutines | what readers get is what was published; caches come right again | `Articles` |
| Ranking computation (`internal/service/ranking_service.go`) | a scan: offset, heap | topN | the ranking job; authors change the table meanwhile | the N best of the articles | `HotList` |
| Users (`internal/service/user.go`, `dao/user.go`, `cache/user.go`) | table and cache | SignUp, logins by password, code, WeChat; FindById | handlers | one account per phone or open id; a token is for its owner | `Users` |
| Comments (`comment/`) | comment tree | create, delete, GetMoreReplies | handlers | every reply reachable and listed once; deletion cascades | `Comments` |
| Follow, verification codes, ranking caches, grayscale client, handlers, gRPC, providers, wiring | | | | | section 6 |

The parts meet in few places. `ioc/job.go` runs the ranking job from cron, and the
job calls `topN`, which reads the readers' table by pages; handlers call the SMS
decorators, which wrap each other around one provider; the article service sends
read events that the interactive consumer turns into counters; the double-write
pool sits under the interactive DAO, and validators and fixer talk over Kafka.
Where two parts share state that matters they are in one model (`Migration`: pool,
validators, fixer, admin server, topic; `ReadEvents`: producer, consumers,
coordinator, counting statements; `Articles`: tables, transactions, cache fills;
`HotList`: the scan and the authors).

`PROJECT.json` lists under `hazards` what is hard to test in this code, at its
line; the properties are aimed at that list.

## 2. How the modules are built

A module has one action per statement, redis command, message or atomic operation:
what another process can come between. Its history variables are named as such and
tested by no action. `PROJECT.json` (`map`) names the code lines of each definition.
A definition beside another one and named after it (`CancelNothing` beside
`CancelPrevious`, commented "Mutant" or by the bug it stands for) is that definition
with a plausible bug; nothing uses it, and it serves to show that a property would
notice the bug.

The components that share no state have small state spaces and are explored side by
side in one run: an MC module instantiates them with their own variables and has a
variable `part` that says which moves, chosen in the initial state and never
changed. The other variables keep their initial values, so that the states of a run
are the sum of the states of its parts. A property of a part that does not move
holds of its initial state.

| MC module | Parts |
|---|---|
| `MCJobs` | `table`: `CronJob`; `ranking`: `RankingJob`, both without faults, under fairness |
| `MCJobsFaults` | `lock`: `RankingJob`; `scan`: `HotList`; `table`: `CronJob`, all with every fault |
| `MCAsyncSms` | `faults`, `calm`: `AsyncSms` with and without faults; `users`: `Users`; `limiter`: `Limiter` |
| `MCServices` | `failover`: `TimeoutFailover`; `balancer`: `Balancer`; `articles`: `Articles`; `admin`: `Scheduler` |
| `MCInteractive` | `counters`: `Interactive`; `comments`: `Comments` |
| `MCMigration` | `wide`, `deep`: `Migration` under different bounds |
| `MCReadEvents` | `events`: `ReadEvents`; `passes`: `Migration` with pages of two rows, both under fairness |
| `MCFailover` | `TimeoutFailover` with one more history variable, for the run `failover_row` |

## 3. What is modelled

### CronJob and JobLease

`CronJob` has one `Schedule` loop per instance (`pc`, and `cur`, the row it has
read), one goroutine per executing job (`task`) and one ticker per lease
(`ticking`). Every SQL statement is an action: `SelectDue`, `Preempt` (the UPDATE
that tests the version), `ResetNextTime`, `Release`, `Refresh`. A statement may
take effect, fail before it does (`PreemptFails`, `ResetFails`, `ReleaseFails`) or
take effect with a lost reply (`PreemptReplyLost`). `Faults` says which of these a
run admits: `"db"`, `"crash"`, and `"ctx"` for the end of the scheduler's context.

Times are abstracted to the comparisons made on them: `due[j]` is
`next_time < now`, `recent[j]` that utime was written lately. `ran` is a history
variable. A refresh that is under way when its ticker is stopped is not a state of
its own: it writes `utime` only, and may write it once more after the lease has
ended, which `recent` does not tell apart from the write of `Release`.
`NewScheduler` sets neither `dbTimeout` nor any executor; the model stands for a
scheduler that has both. (With `dbTimeout` 0 every round is `PreemptFails`.)

`JobLease` is what the scheduler promises: a due job that nobody has is granted to
one instance, or to nobody when the reply is lost; only its holder moves its firing
time or gives it back. Only losing a lease (`Forget`) needs nobody's permission.

### RankingJob

`Run` and `Close` of `RankingJob` and `UpdateLikeJob` are the same code.
`localLock` is the process mutex, `lock` the field `r.lock` (0 for nil, n for the
n-th lock this process made), `refresher[i][n]` the AutoRefresh goroutine of that
lock. The redis key holds the process and number that set it. `run[i][r]` follows
overlapping firings. `Faults`: `"redis"` (commands fail, replies are lost),
`"stall"` (the key expires although its refresher is alive), `"close"`.
The library gotomicro/redis-lock is external and modelled from its use. What the hot list
computes is an input: `TopNReturns` is a return, with an error or without, and a panic of
`TopN` (see HotList) is a `Crash`.

### AsyncSms

One `AsyncSend` loop per process. The transaction of `GetWaitingSMS` is two steps:
`SelectForUpdate`, which takes the row lock and blocks while another has it, and
`Preempt`, its update and commit. `Delivered`, `Refused` and `AnswersLate` are the
outcomes of the provider; `late` records that the one-second context shared by
`svc.Send` and `ReportScheduleResult` has ended, which makes `ReportFails` the only
way on. `ripe[m]` is `utime < now - 1 minute`; unless the fault `"slow"` is admitted,
no minute passes while a process is between its commit and its report, each of which
takes at most a second. `sent` counts deliveries and is a history variable.

### TimeoutFailover

Each atomic operation of `Send` is one action: `LoadIdx`, `LoadCnt`, the
`CompareAndSwap` (`SwitchWon`, `SwitchLost`), the reset `ResetCnt`, and the call of
the provider with the update of the count that follows it (`Succeeds`, `TimesOut`,
`Fails`). The local `cnt` is used for one comparison and is not kept.
`Outcomes[p]` is what provider p may answer. An error that is no timeout leaves the
count alone (`Fails`), so that it counts timeouts since the last success or switch, and
not timeouts in a row. `changes` is a history variable: how often the provider was
changed since a timeout was last counted.

### Interactive

The counters of one resource. `row`, `likeRow` and `collected` are the tables,
`cache`, `cached` and `ttl` the redis hash. A write (`IncrReadCnt`, `Like`,
`CancelLike`, `Collect`) is one transaction and leaves its caller in `"update"`,
from where the call to redis succeeds (`UpdateCache`) or not (`UpdateFails`). A batch
of read events writes row by row (`BatchRow`, `BatchFails`) and then starts the
goroutine that tells redis once per event (`AsyncUpdate`, `AsyncFails`: its context
is cancelled as soon as `BatchConsume` returns, so that it may fail without a fault).
`Get` is `GetHit`, or `GetMiss`, `Load`, `SetHash` and `Expire`. `incr_cnt.lua` is
an empty file in this commit; `IncrIfPresent` is what the method names and the
integration test ask of it (`interactive_svc_test.go:103`: a hash that is there is
incremented, `:149`: none is created). As the file stands the hash never moves
between two expiries, and `Eval` returns an error after the row was written.

History variables say what the code does not promise: `owed` (written to the row,
not yet to redis), `dirty` (touched since a Get loaded the row), `stale` (a call was
lost or an overtaken Get has written), `lasting` (an EXPIRE failed), `repeated` (a
user liked or collected twice, or cancelled what he had not liked).

### ReadEvents

One partition of the topic of read events. `articleService.GetPubById` appends an
event; `BatchHandler.ConsumeClaim` collects up to `BatchSize` messages (`Collect`,
`Dispatch`), `BatchConsume` counts them one statement at a time (`Apply`), and then
all are marked whatever became of them (`Mark`). A statement fails, or succeeds with
a lost answer, and the rest of its batch is never counted (`ApplyFails`,
`ApplyReplyLost`). Coordinator and offset manager belong to Kafka and sarama and are
modelled from their use: `Claim` gives the partition to a process that is joining,
at the committed offset or else at the newest; `AutoCommit` commits marks; a process
that joins, or an eviction, ends the session (`SessionEnds`, `LastCommitLost`), and
because `Start` calls `Consume` once (`interactive/events/consumer.go:29`) a
consumer whose session has ended is `"stopped"` for good. An evicted process goes on
with its batch while another has the partition. A message is appended to the slice of
messages twice (`batch_hanler.go:51`, `:62`) and marked twice, which changes nothing.

`dropped` and `skipTo` are history: offsets lost with their batch, and offsets passed
over by a group that had committed nothing. `times` counts what the table gets.

### Migration

Two databases with a table each (`table[d][id]`, rows of a unique key `biz` and a
counter) and their AUTO_INCREMENT (`auto`). A business write is `IncrReadCnt`, an
upsert inside a `DoubleWriteTx` that keeps the pattern of the moment it began.
`BeginTx`, `ExecFirst`, `ExecSecond`, `CommitFirst`, `CommitSecond` are its steps, each
with its failure, and `put` holds the row it has locked in each database:
`BeginSecondFails` (under src_first the error leaves the first transaction open,
`"leaked"`, although the comment at `double_write_pool.go:49` says that it does not
matter; under dst_first the call goes on with a nil transaction and panics at its
first statement, `ExecSecondPanics`), `ExecSecondFails` and `CommitSecondFails` (only
logged), `CommitFirstFails` (gorm's Rollback stops at the first error, so that the
second transaction is left open). A statement that waits for a lock times out.

A validator has two directions that run side by side: `Fwd...` compares row by row in
the order of ids, `Rev...` pages through the ids of the target. Each difference is a
report in `topic`; the fixer reads the base row (`FixRead`) and writes the target
(`FixWrite`), or fails, and the report is marked in any case (`Handled`). Marks are
committed later (`AutoCommit`, sarama's, once a second): `redo` holds the reports that
are handled but not committed, and after a crash they come again, before those of `topic`,
to be repaired with what is in the base row then. `UpdatePattern` is the
admin server: the pattern changes and nothing else does, open transactions and
validators keep what they captured. `Crash` loses everything in memory, the pattern
included, which is src_only again afterwards (`double_write_pool.go:165`). A handover of
the authority is safe (`SafeHandover`) if the tables agree and nothing of the past can
write any more: no transaction, no validator, no report to be handled, or handled again.

What the code does in corners, kept in the model: a failing query of the target ends
the reverse pass (`validator.go:162` comes before `:170`), a failing or cancelled
query of the base reports the whole page as missing (`:181` before `:188`), an
incremental validator never looks again at rows it has passed and ignores its
`utime`, and an upsert that meets two rows, one with the id and one with the key, is
refused (`FixCollides`). History: `written` (writes committed), `trusted` (the
authority was handed over only in states of `SafeHandover`), `paired`, `calm`,
`shifted` (what has disturbed double writing, the last full pass, or the pages of its
reverse direction).

### Scheduler

The admin server starts and stops validations; `Migration` has one of them, whose work
it follows, and `Scheduler` several, and the functions that cancel them. The handlers
hold `Scheduler.lock` and are one action each. `StartIncrementValidation` captures
`cancelIncr` (`prev`); its goroutine replaces it later, without the lock (`Register`),
and then cancels what was captured (`CancelPrevious`). Full validations do not cancel
one another: the call is commented out (`scheduler.go:202`). `races` is history: starts
that overtook the goroutine of an earlier one.

### Articles

`articles` and `published` are the two tables, `cache` the entries
`article:detail` and `article:pub:detail`. `Edit` is one statement; publishing is a
transaction of two (`Publish`, `Sync`, `Commit` or `Rollback`) that locks the row
it has written. Withdrawing (`SyncStatus`) lacks `=?` in its first WHERE
(`dao/article.go:186-208`): the model has both outcomes, a refusal that changes
nothing and a status that is changed whoever asks. A read that misses the cache
answers with the row and fills the cache in a goroutine (`Miss`, `GetById`,
`SetEntry`). No write deletes an entry, and readers are not asked whether the row
is published: both are in the model as they are in the code.

### HotList

`topN`: `List` reads a page by offset, `Enqueue` scores one of its articles and offers
the score to the heap, and `NextPage` decides whether to go on; meanwhile articles are
published and withdrawn. The likes are whatever they are: a score is any number up to
`MaxScore`.
`ListPub` leaves out articles updated since the scan began and gives no order, so
that pages come by primary key. However a scan that meets no error ends, the process ends
with it (`"dead"`): an article without counters is a nil entry (`NoCounters`); the loop that
empties the heap counts upwards (`Drain`, `ranking_service.go:127`); and if the heap
is empty, the list goes to `repo` (`Store`, `:51`), which the constructor never sets. That is
why no property speaks of the stored list.

### Users

Rows with unique email, phone and open id. A login is `Find`, for an unknown phone or
open id `Create` and `Again`, then `SetLoginToken`, each statement on its own;
`Fault` is a failing one. `FindById` compares the email with the id
(`dao/user.go:97`): `Leading` is the number MySQL takes from the text of an email,
and what is found is put into redis under the id of the row. A login by WeChat puts
the open id into the phone (`service/user.go:99`) and never succeeds;
`LoginByPhoneSucceeds` says so only of phones.

### Comments, Limiter, Balancer

`Comments` has the tree with its cascading parent and the plain column `root`, and a
client that pages through the replies of a root by last id; an answer carries the
parent and root that its author saw, which may be gone (`CreateReply`).
`Limiter` is the script of `slide_window.lua` and the clock that the client reads
before it sends: members of the sorted set are the times themselves, so that all
requests of a millisecond are one. `passed` and `limited` are the requests that the
script has let through and turned away, one by one. `Balancer` follows `Pick`, whose
receiver is a value, so that each call locks a mutex of its own: the reads and writes of the
weights of two picks interleave. Reading a weight (`Read`) and writing it back (`Add`,
`Take`), and both reads of a comparison (`Read`, `Compare`), are steps of their own. (`md["weight"].(int)` fails for numbers that came
through JSON; then all weights are 0 and the first connection is always chosen.)

## 4. What TLC checks

| Run | Instance | Shows |
|---|---|---|
| `jobs_faults` | all faults: 2 processes with 2 overlapping firings and 2 locks each, a crash; 4 articles in pages of 2, heap of 2, 2 changes; 2 instances, 2 jobs (one without executor), limiter 2, 2 leases per job | `LockInv` (`RefresherIsCurrent`, `LockIsWatched`); `ScanInv` (`KeptAreBest`, `ScoredOnce`, `MissedWithinChanges`); `LeaseInv` (`MutualExclusion` and what makes it inductive), `WithinLimit`, `NotEarly`, and that `CronJob` implements `JobLease` (`LeaseSpec`) |
| `jobs_fair` | 2 instances, 2 jobs, limiter 1, no faults, fair; 2 processes with 2 overlapping firings, one crash, fair | `FiresOnce`, `LeaseReturns`, `LeaseIsRenewed`; `SoleComputer`, `Failover` |
| `cron_next_round` | 1 instance, 1 job, no faults | violated: rounds that take nothing keep their permit |
| `ranking_keeps` | 1 process, no faults, fair | violated: the second firing keeps `localLock` |
| `sms` | 2 senders, 2 messages, RetryMax 2, with late replies, database errors and crashes, and without; 2 requests of 2 people, one failing statement; 4 requests in windows of 3 ms, rate 2 | `SenderInv` (with `OneSender`), `SuccessWasSent`, `OutcomeStays`; without faults `CalmExactlyOnce`, `CalmEventuallyDecided`; `AccountInv` (`OwnAccount`, accounts are distinct), `EntryIsRow`, `LoginByPhoneSucceeds`; `WindowInv` (`WithinRate`, `RejectionIsEarned`) |
| `sms_late` | 1 sender, 1 message, RetryMax 3, a provider that uses up the second | violated: unbounded attempts |
| `services` | 3 callers, a dead provider and 2 that may do anything, threshold 2; 2 picking goroutines, weights 4, 0, 1, 1, 6 picks, of which 2 may come before the last overlap; 2 requests, 2 authors, one article, 4 writes; 3 validations | `CountInv` (`CountBounded`: threshold + n(n+1)/2 - 1 for n callers; reached), `ChangesBounded` (n for n callers; reached), `FailoverLeavesDead`; `SharesAreEven`; `TablesInv` (`PublishedAgrees`), `ReadersSeeReleases`, `WrongEntriesEnd`; `StopsReach` |
| `interactive` | 2 callers, 2 users, 3 writes, batches of 2, failing redis commands and rows; 4 comments in pages of 2 | `CacheInv`, `CountersAgree` (`CacheAgrees`, `CountersMatch`), `WrongCountersEnd`; `NoOrphans`, `PagesAreComplete` |
| `migration` | pages of 1; 2 writers, 2 keys, four events (transactions, changes of pattern, validators, failures, crashes); one transaction and report at a time, 1 key, five events | `AuthorityInv` (`NoWriteLost`; no row is locked without a transaction), `PairAgrees`, `FullPassRepairs` (`ForwardPassRepairs`, `ReversePassRepairs`) |
| `read_events` | fair: 2 consumers, batches of 2, 3 messages, one loss, one failing statement; 1 writer, 2 keys, src with 2 rows, pages of 2, two events | `CommittedIsSettled`, `RepeatsAreLosses`, `EventuallySettled`; `FullPassEnds` |
| `hot_list_age` | 4 articles in pages of 2 | violated: the age of one article ends the scan before younger ones |
| `failover_row` | 1 caller, 2 providers, threshold 2 | violated: the provider is changed after timeout, another error, timeout |

A property in the table may be a conjunction; its parts, in brackets, are defined
beside it and say each one thing.

**What the less obvious ones mean.** `NoWriteLost`: as long as the authority is handed
over only while nothing is under way and the tables agree, the authoritative database
holds every committed write once; no failing second database, leaked transaction,
repair, stale report or report that comes again takes one away. The premise includes the
marks: with `redo` left out of `SafeHandover` a repair of src while dst is the authority, a
crash before its mark is committed and a write to src alone end with the report coming again
and the stale row of dst written over that of src (the part `deep` of `migration` has the room
for this, and finds it then). `PairAgrees`: double writing by itself keeps
the two databases equal, in whatever order writers meet in them, until something
fails or a repair begins. It stops at the first repair because a repair that has
read its row before a double write and writes it afterwards takes that write back.
`ForwardPassRepairs` and `ReversePassRepairs` are about a full pass that no failure,
writer or change of pattern has disturbed; the second one is limited to passes during which no row
vanished from the target, because paging by offset then jumps over rows.
`StopsReach`: a validation that nobody can stop any more comes only of a start that
overtook the goroutine of an earlier start, and each such start costs at most one.
`CommittedIsSettled`: the group commits past no event that was neither counted, nor
undecodable, nor part of a batch that failed, nor older than the first start.
`EventuallySettled` has "or nobody consumes any more" in it since the code comes to
that: a start of one process ends the consumption of all others for good.
`SharesAreEven`: picks that come one after another follow the weights. A connection
starts with its weight instead of 0 (`wrr.go:67`), so that it is not true that nobody is
ever a whole pick ahead: of the weights 4, 0, 1, 1 the first is, having had all of the
first three picks. Only the one that was taken last can be, and never by its share of the next
pick on top; after each round of `Total` picks the shares are exact.
`MissedWithinChanges`: paging by offset under changes misses no more unchanged
articles than articles have changed. `WithinRate` and `RejectionIsEarned` count
milliseconds, as the script does: nothing bounds the requests of one millisecond.
`WithinRate` needs the requests to reach redis in the
order of their times; one delayed request breaks it. `ChangesBounded`: two callers may
change the provider twice on one count, which skips a provider nobody has tried; the
bound says that it goes no further than that, one change for each caller.

**Bounds.** `MaxVersion` limits how often a job is taken: two leases are enough for
a stale reader to meet both the lease that followed its read and the next one.
`MaxLocks = 2` lets a process lose a lock and take another while the handler of the
first is pending; `MaxAttempts` exceeds `RetryMax` so that an attempt too many is
reachable. `MaxWrites = 3` of `Interactive` has a write before, during and after a
cache fill, and a like, a cancel and a like of one user; `MaxBatch = 2` a batch that
fails half way. `MaxWrites = 4` of `Articles` has two publications that race and a
withdrawal or edit on each side of a fill. `WideEvents = 4` of `MCMigration` is enough
for a change of pattern, two transactions and a failure, or for a change of pattern,
a transaction, a validation and a failure; `BatchSize = 1` there makes every row a
page, and `read_events` has pages of two for the branch that compares a page with its
size. Five events are what a report takes to come again with a stale row: a change of
pattern, a transaction, a validator, a crash, a transaction. A full validation is one event
and leaves one for a write, a change of pattern or a failure beside the fixer, which counts
no events. `MaxReports` is 2:
a validator waits while that many reports are not handled or not committed.
`MaxLog = 3` with batches of two has a full batch and a broken one; `MaxStarts = 3`
starts of two processes have a rebalance and a restart. The three validations
of `Scheduler` are one that runs and two that race. `LastId = 4` with pages of
two has two full pages and a shift between them; `MaxId = 4` a tree of three
generations and a page of replies that is not the last. `MaxPicks = 6` is the
sum of the weights, a whole round; `MaxMixed = 2` lets the picks that overlap come first,
since afterwards nothing is said of the shares. `MaxTime = 4` lets a time leave its
window of 3 ms, with two more requests after it.
Two processes are the fewest that can race. The theorems remove the bounds on
everything they cover; `SuccessTheorem` also covers sends that outlast a minute, which
no run admits because they break `OneSender`, a conjunct of `SenderInv`.

**Symmetry** is used in `jobs_faults` (processes, firings) and
`migration` (writers and keys), which check no liveness. It is not used where sets are ordered:
jobs, ids, offsets.

**Fairness.** A goroutine that can run runs, tickers fire, statements end. Most have a
deadline; the reads of a validator have none of their own (`validator.go:129`, `:157`,
`:180`), but take no locks, and return or fail with their connection. Nothing is assumed of executors, of the clock that makes jobs due, or
of failures. `RankingJob` takes strong fairness where a goroutine waits for
`localLock`: a `sync.Mutex` hands itself to a waiter that has starved for 1 ms.
`Interactive`, `Users` and `Articles` assume that a request or goroutine that has begun
goes on and that redis expires keys; nobody has to make requests, and no transaction
has to commit. `LoginByPhoneSucceeds` has as its premise that the person goes on trying.
`ReadEvents` assumes that the coordinator assigns the partition to somebody who is
joining and that consumers go on; nobody has to start, publish or commit.
`Migration` assumes that both directions of a validator and the fixer go on and that sarama
commits marks; no transaction has to end. Of `RankingJob` the run assumes only that some
firing of a process goes on. `TimeoutFailover` assumes that
callers keep calling.

**CHECK_DEADLOCK FALSE** is used where bounds let a system run out of steps
(versions, locks, writes, events used up) and where the code itself stops: a scheduler
whose context ended, the blocked `localLock`, consumers that have stopped.

**Violations.** `PROJECT.json` quotes under `findings` the comment in the code that
each violated run contradicts. More departures from what comments say are in the
models and have no run of their own:

- A burst of one millisecond passes the limiter, however large: the member that ZADD
  writes is the time itself, so that ZCARD counts milliseconds, while
  `slide_window.lua:9` and `redis_slide_window.go:16` call the number it is compared with
  the threshold of the limited object.
- A second like of one user counts again, although `repository/interactive.go:73`
  says that a user can like only once (`CountersMatch` without its condition fails).
- The lease of a dead process is never taken back, since no code looks at utime
  (`dao/job.go:75` asks for it).
- `RankingJob.Close` after a `Run` that did not get the redis lock unlocks nil.
- Two callers of the failover switch twice on one count: one swaps the index, the
  other sees the new index with the old count (`timeout_failover.go:32-34`).
- `fixer.go:35` says that Fix cannot go wrong; under `FixNeverWrong` of `Migration`,
  which no run checks because it fails, ids that the two databases have given to
  different keys make the upsert meet two rows, and it is refused.
- `batch_hanler.go:79` says that the marked messages were processed
  (`MarkedWereProcessed` of `ReadEvents`, also not run): those of a failed batch were not.
- `dao/user.go:68` says that a duplicate can only be of the email; phone and open id
  are unique too, and the loser of two first logins is told that its email exists.

## 5. What is proved

Every theorem is about all values of the constants that the module's assumptions admit:
any number of processes, requests, rows and messages, any bound and any combination of
faults, except where the table names a restriction. Proofs about a component that an MC
module instantiates extend that MC module and speak of the instance (`C!Spec`), so that
the theorem states the very definition that the run checks.

| Theorem | Module | Says |
|---|---|---|
| `LeaseInvariance` | `CronJobProofs` | `LeaseInv` is invariant |
| `ExclusionTheorem`, `NotEarlyTheorem` | | one holder per lease; a job is taken only while it is due |
| `FiresOnceTheorem` | | without faults a job is executed once for each firing time |
| `LimitTheorem` | | what an instance executes, plus its free weight, never exceeds `Limit` |
| `LeaseRefinement` | | `CronJob` implements `JobLease` |
| `LockTheorem` | `RankingJobProofs` | `r.lock` and its refreshers stay in step, under every fault |
| `SoleComputerTheorem` | | without faults one process computes, also across crashes |
| `ScanTheorem` | | a scan scores each article once, keeps the best, and misses no more unchanged articles than have changed, unless age ends it |
| `SenderInvariance`, `OneSenderTheorem`, `OutcomeTheorem` | `AsyncSmsProofs` | no two processes work on a message; outcomes stay (for sends shorter than a minute) |
| `SuccessTheorem` | | success is recorded for delivered messages only, under every fault |
| `ExactlyOnceTheorem` | | without faults a message is delivered at most once, and exactly if it is recorded as sent |
| `AccountTheorem`, `EntryTheorem` | | one account per e-mail, phone and WeChat id, tokens for their owners; what redis has of a user is the user's row |
| `WindowTheorem` | | while requests come in order, requests are let through in at most `Rate` milliseconds of an interval; in any order none is turned away unless that was so in `Rate` of them |
| `TablesTheorem`, `ReleasesTheorem` | `ServicesProofs` | the authors' and the readers' table agree, rows have one owner and one locker; readers get only what was published as this article |
| `CountTheorem`, `ChangesTheorem` | | n callers push the failover's count at most n(n + 1)/2 - 1 above the threshold, and change the provider at most n times before another timeout is counted |
| `StopsTheorem` | | validations out of reach of their stop are no more than the starts that raced |
| `SharesTheorem` | | picks that come one after another follow the weights, whatever they are: bounds on being ahead and behind, exact after every round |
| `CacheTheorem` | `InteractiveProofs` | a counter in redis and what is on its way there make the counter of the row, unless a call was lost or a Get overtaken |
| `AgreeTheorem` | | with nothing under way trusted counters in redis are those of the row, and the row counts who likes and collects |
| `OrphansTheorem`, `PagesTheorem` | | no deletion leaves a reply without its parent or root; paging gets each reply once and misses none |
| `ReadEventsInvariance`, `NothingSkipped` | `ReadEventsProofs` | nothing unsettled is committed |
| `RepeatsTheorem` | | an event is counted again at most once for each crash, eviction or lost commit |
| `AuthorityTheorem` | `MigrationProofs` | the authority holds every committed write once, as long as it is handed over safely, also when handled reports come again |
| `PairTheorem` | | undisturbed double writing keeps the databases equal |
| `RepairsTheorem` | | an undisturbed validation, its reports handled, leaves the rows of the base in the target and, unless a repair moved the pages, no others |

`Places` holds what four of these modules need about finite sets of numbers: least and
greatest members, sizes of parts, differences and unions, rows and their places
(the place of a row is the number of rows before it, which is what OFFSET counts), and
sums. `SumFunction` is a recursive function over sets: `Sums` proves that the recursion
has a solution, and `SubsetInduction`, an induction whose hypothesis is a set instead of
an operator and which follows from there being a least counterexample, carries the facts
about sums that the proofs cite (`SumLinear`, `SumChange`, `SumGreater`, `SumConstant`).

The assumptions are the named ASSUMEs of the modules and of the MC modules that
instantiate them (`Parameters` of `HotList`, `Comments`, `Users`, `Limiter`,
`Balancer` and `TimeoutFailover`, the last with callers that are finite in number): keys and ids are
natural numbers, sets of jobs and callers are finite, page sizes are positive, weights
are natural numbers (nothing in `wrr.go` refuses a negative one) and there is a connection,
`None` and garbage are no values; `Leading` of `Users` may be any function, so that
nothing is assumed of how MySQL reads an e-mail as a number. Restrictions on `Faults`
are premises of the theorems: `"slow"` is absent for `OneSender`, and `Faults = {}` for
`FiresOnce` and `SoleComputer`.

*Why leases exclude.* `MutualExclusion` is not inductive: an instance whose UPDATE
is about to be sent looks harmless. `LeaseInv` adds `HeldIsRunning` (a held job is
`running`) and `PendingReads`: a pending UPDATE either carries a version that the row
has left behind, and loses, or the row is as it was read, waiting and due. It is the
version that makes this so: every lease increases it, so that a row that was leased
and released in between no longer matches. `PendingReads` also gives `NotEarly`,
although the UPDATE does not look at `next_time`: only a lease holder moves the firing
time, and taking the lease changes the version. `FiresOnce` adds `RanIsOver`: a job that
has been executed and is still due has its goroutine before `ResetNextTime`, hence a
holder, and a job with a holder is not taken (`TakenByUpdate`). `LeaseRefinement` maps
`taken` to `status = "running"` and `holders` to the instances that believe they hold
the lease, and goes through the actions one by one under `LeaseInv`.

*Why senders exclude.* `SenderInv` adds that a transaction between its two statements
holds the lock of a row that is waiting and ripe (`LockedRow`) and that the row of a
message being sent is waiting, unlocked and not ripe (`SendingRow`), so that no
`SELECT` offers it. Without faults a sender's result then is the truth about its
message (`ReportIsTrue`), and `ExactlyOnce` follows.

*Why accounts are their owners'.* `OwnAccount` needs that a request about to give a token
has found exactly the account of its person (`TokenIsOwn`), which two sign-ups that race
keep because the unique indexes (`Unique`) let one insert win, and that no row ever
changes hands.

*Why a window has no more milliseconds than its rate.* The script counts the sorted set, and
redis may have dropped it. `LogIsWindow`: while requests come in order, the set holds every
millisecond that let requests through since the window of the newest began, because what
expiry removes is older. A new time can only add to intervals that end with it, and those
lie in that window.

*Why the hash follows the row.* `CacheFollows` is not kept by `SetHash` alone, which
writes what was read long before. `SnapIsCurrent` carries the fact over: a counter
that nothing has touched since `Load`, and that was not on its way to redis then, is
the same in the snapshot and in the row and owes nothing. Two lemmas cover the
writes: `WriteInv` (row and `owed` move together) and `SettleInv` (`owed` falls by
what redis gains, or the counter is distrusted). For `CountersAgree` what is owed must be
nothing once the callers are done: `OwedIsHeld` equates it with what the callers have in
hand, a sum that is written as a difference of two cardinalities (`Due`, `Undone`).

*Why no reply is orphaned.* `TreeInv`: a reply hangs below an older row of the same tree
and names the tree's root, and so does an answer that is being written, as long as the row
it answers is there. A cascade takes every row below a deleted one; if it left a row of a
tree, the oldest such row would have a parent older still that is left too. Paging is
complete because a page is the next ids without a gap (`PageIsNext`).

*Why nothing unsettled is committed.* `CommittedIsSettled` says nothing of marks, and
a commit writes a mark. The strengthening (`IInv`) is that everything before the
cursor `at` of any process, also of one that has lost the partition, is settled
(`CursorSettled`), with marks behind cursors (`Ordered`). A session begins at the
committed offset, or at the end of the log with everything before it passed over, so
that its cursor starts behind settled events; `SettledStays` says that what is settled
stays so.

*Why each loss repeats an event at most once.* `Paid` counts in advance: how often an event
was counted, plus the live processes whose cursor has not reached it, plus one if nobody
owns the partition and the next owner will, is at most one more than the losses. A
rebalance moves a process from one summand to another; a crash, an eviction or a lost
commit adds one and is a loss.

*Why `r.lock` is the lock that is refreshed.* `LockInv` would be broken by two `Run`s
that request the redis lock at once: the second to get it would overwrite `r.lock` while
the refresher of the first goes on. `LockerHolds` says that who requests it holds
`localLock`, alone, with `r.lock` nil. `SoleComputerTheorem` adds `KeyInv`: without
faults a lock is refreshed as long as its process lives, and then the key has its value.

*Why a scan misses little.* During a scan rows only leave the result, so that the places
of those that stay only shrink: whatever the scan has been at stays behind it (`Behind`).
The offset is the number of rows scored; no more rows than that are under it, so
that for every unscored row that has slipped under the offset a scored one has
left the result, and that one has changed (`MissedWithinChanges`). `Best` says what the heap
is while it fills: the best of what was scored, as many as fit.

*Why the tables agree.* `Commit` writes both rows, but the upsert keeps the author that
the readers' row has. `LockersOwn` carries from the first statement of a transaction to
its commit that the row is still nobody else's: it is locked, or its id, taken from the
counter, is given to no other insert. `ReadersSeeReleases` is inductive on top of that.

*Why the failover overshoots by so little.* Beyond the threshold a caller counts one more
timeout only if it is calling, or will call because another has switched (`MayCount`);
after each switch all can do so again, but for those that have switched and not yet
reset. `Room` is the potential of this argument: twice the count, plus twice those that may count,
plus k(k - 1) for the k callers that are not about to reset, never exceeds its first value.
`ChangesTheorem` rests on who may still change the provider (`FewChanges`): while the count
is at the threshold every change so far has a caller that is about to reset, and below it
only callers that had read the old count can add one.

*Why the shares are even.* Between two picks a connection has `Spare`: its weight and what
it lags behind, all together a round; when every one has been given its weight once
more, two. So the most that one has is positive, and who pays a round for being taken keeps
more than minus a round; at its next weight it is back above `Weights[l] - Total`
(`TakenLast`). Only the one taken last can therefore be a whole pick ahead. At the
end of a round that would mean that it was taken with no more than its weight, which was
the most, so that nobody was behind to balance it (`WholeRounds`). One that lags has at
most a round more than the last one, the others above minus a round; the sum gives the
bound of half the connections (`HalfBehind`), which the run does not come near. `OnePick`
relates the reads and writes of a pick in progress to `Spare`, as long as it runs alone.

*Why each race costs at most one validation.* A goroutine that registers drops what
`cancelIncr` stood for, which is harmless if one that has captured it is still to come.
`Budget` counts in advance: validations out of reach and goroutines yet to register are
no more than the races, plus one if some goroutine has captured the present `cancelIncr`.

*Why the authority loses no write.* `Data` says what a transaction has in its hands: it has
locked a row of its key or the place for one (`Puts`), and no other transaction has that
(`Apart`), so that its commit adds one to one counter whatever happened in between. `Led`: as
long as the authority is handed over safely everything under way (transactions, reports, a
validator) goes by the authority of today, so that the fixer never writes there; `Marked`
says the same of the reports that a crash would bring back.
`InStep` follows a pair of writes: of the transactions on one key one at most is beyond
its statements, and the first database is ahead of the second by its pending commit.

*Why an undisturbed validation repairs.* While nothing disturbs it the base does not change
(`Quiet`). What the forward direction has passed is right or reported (`Compared`), and a
repair keeps it so: a row that an upsert pushes out of the target had the key of another row,
so that it was not right, and its own report is still to come. What the base lacks is
reported, on the page in hand, or on a later one (`Searched`); rows that the fixer adds
only move it further back, and a repair that takes rows out sets `shifted`. At the end
there is no later page and no row behind the offset, and reports that are handled leave
nothing but right rows.

Only model-checked: everything under fairness (`LeaseReturns`, `LeaseIsRenewed`,
`Failover`, `CalmEventuallyDecided`, `FailoverLeavesDead`, `WrongCountersEnd`,
`WrongEntriesEnd`, `LoginByPhoneSucceeds`, `EventuallySettled`, `FullPassEnds`), which
TLAPS does not reach. Every invariant and every action property that a run checks is
proved.

## 6. Not modelled

- **Generated code and mocks** (`api/proto/gen`, `*mocks`): most of the lines of the
  repository. They hold no decision of this program.
- **Follow** (`follow/`): `UpdateStatus` and the counts are given neither Model nor
  Table, and gorm refuses them; only the insert of a relation ever takes effect, and
  nothing calls `GetFollowStatics`. A model would have one action.
- **Verification codes** (`internal/service/code.go`): the Lua scripts that decide are
  empty files in this commit. A right code is an input of `Users`.
- **Ranking caches**: never reached, since every scan ends with an error or a panic (see
  HotList); the variant with a local cache is not wired.
- **The like-top list** (`GetTopArticles`): its query names columns the table does
  not have, so that the job of `like100.go` fails before it writes anything. Its lock is
  modelled with that of the ranking job.
- **Lists of an author** (`GetByAuthor`): `dao/article.go:210` panics, so that the
  first-page cache is never filled, and `DelFirstPage` panics after the commit of
  a withdrawal.
- **Comment lists** (`GetCommentList`): no state; `comment/grpc/comment.go` computes a
  minimal id and passes the one of the request, so that the first page is empty, and
  `FindByBiz` gives no order.
- **Grayscale client** (`internal/client/intr.go`): a random choice and one atomic.
- **`FailOverSMSService`**: tries the providers in order, without state.
- **The work of two validators at once**: `Migration` compares the tables with one;
  `Scheduler` has several and only what starts and stops them. `FixV1`, which nothing
  calls, and statements outside a transaction are left out too.
- **HTTP handlers, sessions, middleware**: conversion of requests and tokens around one
  or two service calls, which are the actions of the models. (Most handlers of
  articles look up the key `user` while the middleware sets `claims`.)
- **gRPC server, etcd registration, SMS providers, logging, metrics, wiring**: start-up
  code, pure I/O and stateless wrappers.
