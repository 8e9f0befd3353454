------------------------------ MODULE HotList ------------------------------
(***************************************************************************)
(* BatchRankingService.topN (service/ranking_service.go): the published    *)
(* articles are read page by page, by offset, while authors go on          *)
(* publishing and withdrawing; a heap keeps the best of them.              *)
(*                                                                         *)
(* ListPub gives no order, so that the table is read by primary key.       *)
(* No action tests the history variables.                                  *)
(***************************************************************************)
EXTENDS Integers, FiniteSets, FiniteSetsExt

CONSTANTS LastId,     \* articles have the ids 1 .. LastId
          BatchSize,  \* batchSize
          Capacity,   \* n, the capacity of the heap
          MaxScore,   \* bound: scores are 0 .. MaxScore
          MaxChanges  \* bound: articles published or withdrawn during a scan

VARIABLES
  live,     \* articles whose status is published
  fresh,    \* articles updated in the last seven days
  late,     \* articles updated since the scan began
  at,       \* "idle", "list", "score", "drain", "dead"
  offset,   \* where the next page begins
  page,     \* the articles of the page that ListPub has returned
  left,     \* those of them that have no score yet
  old,      \* the last of the page is older than seven days
  heap,     \* topN
  scored,   \* history: the scores given in this scan
  changes,  \* history: articles that changed during the scan
  start,    \* history: the articles to be ranked when it began
  byAge     \* history: the age of an article has ended it

table   == <<live, fresh, late>>
scan    == <<at, offset, page, left, old, heap>>
history == <<scored, changes, start, byAge>>
vars    == <<table, scan, history>>

Ids   == 1 .. LastId
Score == [id : Ids, score : 0 .. MaxScore]

Parameters ==
  /\ {LastId, MaxScore, MaxChanges} \subseteq Nat
  /\ {BatchSize, Capacity} \subseteq Nat \ {0}

Init == /\ live \in SUBSET Ids /\ fresh \in SUBSET live /\ late = {}
        /\ at = "idle" /\ offset = 0 /\ page = {} /\ left = {} /\ old = FALSE /\ heap = {}
        /\ scored = {} /\ changes = {} /\ start = {} /\ byAge = FALSE

Scanning == at \in {"list", "score"}

-----------------------------------------------------------------------------
(* The scan. *)

Begin ==
  /\ at = "idle"
  /\ at' = "list" /\ late' = {} /\ start' = live
  /\ UNCHANGED <<live, fresh, offset, page, left, old, heap, scored, changes, byAge>>

\* WHERE utime < start AND status = 2 LIMIT limit OFFSET offset, by primary key.
Rows        == live \ late
Position(i) == Cardinality({j \in Rows : j < i})

ListPub(from, limit) == {i \in Rows : from <= Position(i) /\ Position(i) < from + limit}

List ==
  /\ at = "list"
  /\ page' = ListPub(offset, BatchSize) /\ left' = page'
  /\ old' = \E i \in page' : i \notin fresh /\ \A j \in page' : j <= i
  /\ at' = "score"
  /\ UNCHANGED <<table, offset, heap, history>>

\* The scan is over, and its local variables are gone.
End(next) == /\ at' = next
             /\ offset' = 0 /\ page' = {} /\ left' = {} /\ old' = FALSE /\ heap' = {}
             /\ scored' = {} /\ changes' = {} /\ start' = {} /\ byAge' = FALSE
             /\ UNCHANGED table

\* An error of the table or of the interactive service ends the scan.
Fail == Scanning /\ End("idle")

\* A full heap gives up its least element, and takes the better of the two.
Offer(h, e) ==
  IF Cardinality(h) < Capacity THEN h \union {e}
  ELSE LET min == CHOOSE m \in h : \A o \in h : m.score <= o.score
       IN IF min.score < e.score THEN (h \ {min}) \union {e} ELSE h

NextOffset(o, n) == o + n

StopsWhenFull(n, aged) == n <= BatchSize \/ aged

\* The page is short, or its last article is older than seven days.
Stops(n, aged) == n < BatchSize \/ aged

\* The next article of the page is scored; its likes may be what they are.
Enqueue(i, s) ==
  /\ at = "score" /\ i \in left /\ \A j \in left : i <= j
  /\ left' = left \ {i}
  /\ heap' = Offer(heap, [id |-> i, score |-> s])
  /\ scored' = scored \union {[id |-> i, score |-> s]}
  /\ UNCHANGED <<table, at, offset, page, old, changes, start, byAge>>

NextPage ==
  /\ at = "score" /\ left = {}
  /\ offset' = NextOffset(offset, Cardinality(page))
  /\ at' = IF Stops(Cardinality(page), old) THEN "drain" ELSE "list"
  /\ byAge' = (Cardinality(page) = BatchSize /\ old)
  /\ page' = {} /\ old' = FALSE
  /\ UNCHANGED <<table, left, heap, scored, changes, start>>

\* An article that has never been read, liked or collected has no counters: the
\* nil entry of the map is used all the same, and the process panics.
NoCounters == at = "score" /\ left # {} /\ End("dead")

\* Nothing is ever stored: the loop that empties the heap counts upwards and leaves
\* the slice at its second round.
Drain == at = "drain" /\ heap # {} /\ End("dead")

\* An empty list goes to repo, which the constructor leaves nil.
Store == at = "drain" /\ heap = {} /\ End("dead")

Restart == at = "dead" /\ End("idle")

-----------------------------------------------------------------------------
(* The authors. *)

Changes(i) ==
  /\ Scanning => Cardinality(changes \union {i}) <= MaxChanges
  /\ changes' = IF Scanning THEN changes \union {i} ELSE changes

\* The article is put on line, for the first time or again: utime is now.
PublishArticle(i) ==
  /\ Changes(i)
  /\ live' = live \union {i} /\ fresh' = fresh \union {i}
  /\ late' = IF Scanning THEN late \union {i} ELSE late
  /\ UNCHANGED <<scan, scored, start, byAge>>

\* It is withdrawn, if the statement of SyncStatus is accepted.
WithdrawArticle(i) ==
  /\ i \in live
  /\ Changes(i)
  /\ live' = live \ {i} /\ fresh' = fresh \ {i}
  /\ UNCHANGED <<late, scan, scored, start, byAge>>

\* Seven days go by.  A scan compares with seven days before its own beginning.
Ages(i) == /\ at = "idle" /\ i \in fresh
           /\ fresh' = fresh \ {i}
           /\ UNCHANGED <<live, late, scan, history>>

Next == \/ Begin \/ List \/ Fail \/ NextPage \/ NoCounters \/ Drain \/ Store \/ Restart
        \/ \E i \in left, s \in 0 .. MaxScore : Enqueue(i, s)
        \/ \E i \in Ids : PublishArticle(i) \/ WithdrawArticle(i) \/ Ages(i)

Spec == Init /\ [][Next]_vars

-----------------------------------------------------------------------------
(* What is checked. *)

Seen == {e.id : e \in scored}

\* The heap holds the best of all the articles scored so far, as many as it can:
\* none that was turned away or given up has a better score (:97-116).
KeptAreBest ==
  /\ heap \subseteq scored
  /\ Cardinality(heap) = Min({Capacity, Cardinality(scored)})
  /\ \A kept \in heap, out \in scored \ heap : out.score <= kept.score

\* Pages do not overlap, although rows leave the result between two pages: an
\* article is scored once, and has one place in the list (:97, :118).
ScoredOnce == at \in {"list", "drain"} => Cardinality(scored) = offset /\ Cardinality(Seen) = offset

\* A row that leaves the result moves those behind it into the page before, where
\* the scan has been: an unchanged article may be missed, but no more of them than
\* articles have changed, if the age of an article does not end the scan.
MissedWithinChanges ==
  (at = "drain" /\ ~byAge)
    => Cardinality((start \ changes) \ Seen) <= Cardinality(changes)

\* What a scan has ranked when authors interfere: articles are scored once, the best
\* of them are kept, and it misses few (ranking_service.go:75-137).
ScanInv == KeptAreBest /\ ScoredOnce /\ MissedWithinChanges

\* What the comment at ranking_service.go:119-120 says of the end of the scan: when
\* the last article of a page is older than seven days there is nothing left to
\* take.  Articles are not read in the order of their age.
NothingFreshIsLeft ==
  byAge => (start \ changes) \intersect fresh \subseteq Seen
=============================================================================
