------------------------------ MODULE Articles ------------------------------
(***************************************************************************)
(* Articles: the authors' table (articles), the readers' table             *)
(* (published_articles) and the two redis entries of an article            *)
(* (web/article.go, service/article.go, repository/article.go,             *)
(* repository/dao/article.go, repository/cache/article.go).                *)
(*                                                                         *)
(* A transaction holds the locks of its rows and shows nothing before it   *)
(* commits.  A reader that misses the cache reads the table and writes the *)
(* entry in a goroutine of its own, after it has answered.                 *)
(*                                                                         *)
(* No action tests the history variable released.                          *)
(***************************************************************************)
EXTENDS Naturals

CONSTANTS Requests,   \* goroutines that serve requests
          Users,      \* user ids
          Texts,      \* titles and contents
          MaxRows,    \* bound: articles
          MaxWrites,  \* bound: requests that write
          None        \* no row, no entry

VARIABLES
  articles,   \* articles[i]: the author's row
  published,  \* published[i]: the readers' row
  lastId,     \* the auto-increment counter of articles
  cache,      \* the entries of redis
  req,        \* what each request is doing
  writes,     \* counts the writes, for the bound
  released    \* history: released[i]: what authors have published as article i

tables  == <<articles, published, lastId>>
vars    == <<tables, cache, req, writes, released>>

Ids     == 1 .. MaxRows
Status  == {"unpublished", "published", "private"}
Article == [author : Users, text : Texts, status : Status]
Idle    == [at |-> "idle"]

Constants == None \notin Article /\ MaxRows \in Nat /\ MaxWrites \in Nat
ASSUME ConstantsAssumption == Constants

\* "article:detail:<id>", for authors, and "article:pub:detail:<id>".
Keys      == {"detail", "pub"} \X Ids
key(i)    == <<"detail", i>>

\* One entry for both.
pubKeyShared(i) == key(i)

pubKey(i) == <<"pub", i>>

Init == /\ articles  = [i \in Ids |-> None]
        /\ published = [i \in Ids |-> None]
        /\ lastId = 0
        /\ cache = [k \in Keys |-> None]
        /\ req = [r \in Requests |-> Idle]
        /\ writes = 0
        /\ released = [i \in Ids |-> {}]

-----------------------------------------------------------------------------
(* The authors' table. *)

\* A row is locked from the first statement of a transaction to its end.
Locked(i) == \E r \in Requests : req[r].at \in {"draft", "both"} /\ req[r].id = i

\* Both columns have to match: nobody updates the article of somebody else.
Owned(i, u) == articles[i] # None /\ articles[i].author = u

CanWrite(r) == req[r].at = "idle" /\ writes < MaxWrites

Edited(u, t) == [author |-> u, text |-> t, status |-> "unpublished"]

Insert(u, t) ==
  /\ lastId < MaxRows
  /\ lastId' = lastId + 1
  /\ articles' = [articles EXCEPT ![lastId + 1] = Edited(u, t)]

UpdateById(i, u, t) ==
  /\ ~Locked(i)
  /\ Owned(i, u)          \* otherwise no row is affected: an error, no change
  /\ articles' = [articles EXCEPT ![i] = Edited(u, t)]
  /\ UNCHANGED lastId

\* Save: one statement, and the status goes back to unpublished.
Edit(r, u, t) ==
  /\ CanWrite(r)
  /\ Insert(u, t) \/ \E i \in Ids : UpdateById(i, u, t)
  /\ writes' = writes + 1
  /\ UNCHANGED <<published, cache, req, released>>

\* Publish, the first statement of the transaction of Sync: insert the row or
\* update one's own.  The id of an insert is gone even if it is rolled back.
Publish(r, u, t) ==
  /\ CanWrite(r)
  /\ \E i \in Ids :
       /\ \/ i = lastId + 1 /\ lastId' = i
          \/ Owned(i, u) /\ ~Locked(i) /\ UNCHANGED lastId
       /\ req' = [req EXCEPT ![r] =
            [at |-> "draft", id |-> i,
             row |-> [author |-> u, text |-> t, status |-> "published"]]]
  /\ writes' = writes + 1
  /\ UNCHANGED <<articles, published, cache, released>>

\* SyncV1, which nothing calls, does not assign the status.
UpsertKeepsStatus(old, new) ==
  IF old = None THEN new ELSE [old EXCEPT !.text = new.text]

\* INSERT ... ON DUPLICATE KEY UPDATE title, content, utime, status.
Upsert(old, new) ==
  IF old = None THEN new ELSE [old EXCEPT !.text = new.text, !.status = new.status]

\* The second statement of Sync locks the readers' row.
Sync(r) ==
  /\ req[r].at = "draft"
  /\ req' = [req EXCEPT ![r].at = "both"]
  /\ UNCHANGED <<tables, cache, writes, released>>

Commit(r) ==
  LET i == req[r].id
      w == req[r].row
  IN /\ req[r].at = "both"
     /\ articles'  = [articles EXCEPT ![i] = w]
     /\ published' = [published EXCEPT ![i] = Upsert(@, w)]
     /\ released'  = [released EXCEPT ![i] = @ \union {[author |-> w.author, text |-> w.text]}]
     /\ req' = [req EXCEPT ![r] = Idle]
     /\ UNCHANGED <<lastId, cache, writes>>

\* A statement or the commit fails, or the process dies: nothing has happened.
Rollback(r) ==
  /\ req[r].at \in {"draft", "both"}
  /\ req' = [req EXCEPT ![r] = Idle]
  /\ UNCHANGED <<tables, cache, writes, released>>

\* SyncStatus.  The first WHERE lacks a "=?", so that the statement has an
\* argument too many: a driver that counts them refuses it, always (a step that
\* changes nothing); one that does not lets the user id play no part.
Withdraw(r, i, u) ==
  /\ CanWrite(r)
  /\ ~Locked(i)
  /\ articles[i] # None
  /\ articles' = [articles EXCEPT ![i].status = "private"]
  /\ published' = IF published[i] # None /\ published[i].author = u
                  THEN [published EXCEPT ![i].status = "private"] ELSE published
  /\ writes' = writes + 1
  /\ UNCHANGED <<lastId, cache, req, released>>

-----------------------------------------------------------------------------
(* Reading. *)

\* Detail and PubDetail: the entry is not there, or redis does not answer.
\* A hit changes nothing.
Miss(r, k) ==
  /\ req[r].at = "idle"
  /\ req' = [req EXCEPT ![r] = [at |-> "miss", key |-> k]]
  /\ UNCHANGED <<tables, cache, writes, released>>

\* Answer with the row, whatever its status, and go on in a goroutine.
Load(r, row, k) ==
  req' = [req EXCEPT ![r] =
            IF row = None THEN Idle ELSE [at |-> "fill", key |-> k, art |-> row]]

GetById(r, i) ==
  /\ req[r].at = "miss" /\ req[r].key = key(i)
  /\ Load(r, articles[i], key(i))
  /\ UNCHANGED <<tables, cache, writes, released>>

GetPubById(r, i) ==
  /\ req[r].at = "miss" /\ req[r].key = pubKey(i)
  /\ Load(r, published[i], pubKey(i))
  /\ UNCHANGED <<tables, cache, writes, released>>

\* The author of the article is not found: an error, and no entry.
AuthorMissing(r) ==
  /\ req[r].at = "miss" /\ req[r].key[1] = "pub"
  /\ req' = [req EXCEPT ![r] = Idle]
  /\ UNCHANGED <<tables, cache, writes, released>>

\* The goroutine writes the entry, or fails within its second.
SetEntry(r) ==
  /\ req[r].at = "fill"
  /\ \/ cache' = [cache EXCEPT ![req[r].key] = req[r].art]
     \/ UNCHANGED cache
  /\ req' = [req EXCEPT ![r] = Idle]
  /\ UNCHANGED <<tables, writes, released>>

\* No expiry: a write would have to delete the entry.
ExpireNever(k) == FALSE /\ UNCHANGED vars

\* Ten minutes after it was written.
Expire(k) ==
  /\ cache[k] # None
  /\ cache' = [cache EXCEPT ![k] = None]
  /\ UNCHANGED <<tables, req, writes, released>>

-----------------------------------------------------------------------------
Next == \/ \E r \in Requests, u \in Users, t \in Texts : Edit(r, u, t) \/ Publish(r, u, t)
        \/ \E r \in Requests : Sync(r) \/ Commit(r) \/ Rollback(r)
        \/ \E r \in Requests, i \in Ids, u \in Users : Withdraw(r, i, u)
        \/ \E r \in Requests, k \in Keys : Miss(r, k)
        \/ \E r \in Requests, i \in Ids : GetById(r, i) \/ GetPubById(r, i)
        \/ \E r \in Requests : AuthorMissing(r) \/ SetEntry(r)
        \/ \E k \in Keys : Expire(k)

Spec == Init /\ [][Next]_vars

\* A goroutine that fills the cache has a second, and redis expires its keys.
\* Nothing obliges a request to come, or a transaction to commit.
Fairness == /\ \A r \in Requests : WF_vars(SetEntry(r))
            /\ \A k \in Keys : WF_vars(Expire(k))

FairSpec == Spec /\ Fairness

-----------------------------------------------------------------------------
(* What is checked. *)

Requested == {Idle}
  \union [at : {"draft", "both"}, id : Ids, row : Article]
  \union [at : {"miss"}, key : Keys]
  \union [at : {"fill"}, key : Keys, art : Article]

\* Ids, requests and entries of the expected shape.
TypeOK == /\ articles \in [Ids -> Article \union {None}]
          /\ published \in [Ids -> Article \union {None}]
          /\ lastId \in 0 .. MaxRows
          /\ cache \in [Keys -> Article \union {None}]
          /\ req \in [Requests -> Requested]
          /\ writes \in 0 .. MaxWrites
          /\ released \in [Ids -> SUBSET [author : Users, text : Texts]]

\* A row is locked by one transaction at most.
OneLocker == \A r, q \in Requests :
  (req[r].at \in {"draft", "both"} /\ req[q].at \in {"draft", "both"}
     /\ req[r].id = req[q].id) => r = q

\* A readers' row has an author's row of the same author, and ids come from the
\* counter.
RowsOwned == \A i \in Ids : /\ articles[i] # None => i <= lastId
                            /\ published[i] # None => Owned(i, published[i].author)

\* An article that its author's table calls published is what readers get: the
\* two statements of Sync (dao/article.go:93) agree in author, text and status,
\* whatever other requests edit, publish or withdraw in between.
PublishedAgrees ==
  \A i \in Ids : articles[i] # None /\ articles[i].status = "published"
                  => published[i] = articles[i]

\* ... and rows are in step with who owns them: one transaction at a time has a row
\* locked, and readers' rows belong to the authors of the articles.
TablesInv == TypeOK /\ OneLocker /\ RowsOwned /\ PublishedAgrees

\* The row or entry a is one that its author has published as article i.
Released(i, a) == a # None => [author |-> a.author, text |-> a.text] \in released[i]

\* What readers get was published, by its author, as this article: no edit that
\* has only been saved reaches them, not through the row, not through the entry
\* of redis (cache/article.go:131-160) and not through a goroutine that is late.
ReadersSeeReleases ==
  \A i \in Ids :
    /\ Released(i, published[i])
    /\ Released(i, cache[pubKey(i)])
    /\ \A r \in Requests : req[r].at = "fill" /\ req[r].key = pubKey(i)
                             => Released(i, req[r].art)

\* No write deletes an entry, and a late goroutine can put an old article back
\* over a newer one: all that makes the entries right again is that they expire
\* (cache/article.go:121-151).  Writing stops, and then a wrong entry goes.
WrongEntriesEnd ==
  \A i \in Ids :
    /\ <>[](cache[key(i)] # None => cache[key(i)] = articles[i])
    /\ <>[](cache[pubKey(i)] # None => cache[pubKey(i)] = published[i])
=============================================================================
