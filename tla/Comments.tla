------------------------------ MODULE Comments ------------------------------
(***************************************************************************)
(* The comments of one resource and a client that pages through the        *)
(* replies of one of them while others write and delete                    *)
(* (comment/repository/dao/comment.go, comment/repository/comment.go,      *)
(* comment/service/comment.go, comment/grpc/comment.go).                   *)
(*                                                                         *)
(* A comment has its parent (pid, a foreign key that cascades) and the     *)
(* root of its tree (root_id, a plain column), both given by its author.   *)
(***************************************************************************)
EXTENDS Integers, FiniteSets

CONSTANTS MaxId,  \* bound: comments
          Limit,  \* the size of a page
          None    \* NULL, no row

Parameters ==
  /\ MaxId \in Nat /\ Limit \in Nat \ {0}
  /\ None \notin 1 .. MaxId
  /\ None \notin [pid : (1 .. MaxId) \union {None}, root : (1 .. MaxId) \union {None}]

VARIABLES
  comments,  \* comments[i]: the row with the id i
  lastId,    \* the auto-increment counter
  drafts,    \* answers being written: the parent and the root their author saw
  reading,   \* the root whose replies the client pages through
  cursor,    \* the last id it has got
  got,       \* the replies it has got
  present,   \* history: the replies that have been there since it began
  repeated   \* history: it has got a reply twice

vars == <<comments, lastId, drafts, reading, cursor, got, present, repeated>>

Ids == 1 .. MaxId

Init == /\ comments = [i \in Ids |-> None]
        /\ lastId = 0
        /\ drafts = {}
        /\ reading = None /\ cursor = 0 /\ got = {} /\ present = {}
        /\ repeated = FALSE

Rows       == {i \in Ids : comments[i] # None}
Replies(r) == {i \in Rows : comments[i].root = r}

-----------------------------------------------------------------------------
(* Writing. *)

\* An author sees comment i and answers it; the answer belongs to the root of i.
Answer(i) ==
  /\ i \in Rows
  /\ drafts' = drafts \union
       {[pid |-> i, root |-> IF comments[i].root = None THEN i ELSE comments[i].root]}
  /\ UNCHANGED <<comments, lastId, reading, cursor, got, present, repeated>>

InsertUnchecked(c) ==
  /\ lastId < MaxId
  /\ lastId' = lastId + 1
  /\ comments' = [comments EXCEPT ![lastId + 1] = c]

\* The foreign key refuses a comment whose parent is gone.
Insert(c) ==
  /\ lastId < MaxId
  /\ c.pid # None => c.pid \in Rows
  /\ lastId' = lastId + 1
  /\ comments' = [comments EXCEPT ![lastId + 1] = c]

CreateRoot ==
  /\ Insert([pid |-> None, root |-> None])
  /\ UNCHANGED <<drafts, reading, cursor, got, present, repeated>>

\* Nobody checks that the answered comment still exists but the foreign key.
CreateReply(c) ==
  /\ c \in drafts
  /\ drafts' = drafts \ {c}
  /\ Insert(c) \/ UNCHANGED <<comments, lastId>>
  /\ UNCHANGED <<reading, cursor, got, present, repeated>>

\* A table created without the cascade, by a column of its own.
CascadeOnce(i) == {i} \union {j \in Rows : comments[j].pid = i}

\* ON DELETE CASCADE: the comment, its replies, their replies: with a comment, those
\* that have it as their parent.
Cascaded(ids) == \A j \in Rows : comments[j].pid \in ids => j \in ids

Cascade(i) ==
  {j \in Rows : \A ids \in SUBSET Rows : i \in ids /\ Cascaded(ids) => j \in ids}

Delete(i) ==
  /\ i \in Rows
  /\ LET gone == Cascade(i)
     IN /\ comments' = [j \in Ids |-> IF j \in gone THEN None ELSE comments[j]]
        /\ present' = present \ gone
  /\ UNCHANGED <<lastId, drafts, reading, cursor, got, repeated>>

-----------------------------------------------------------------------------
(* Reading. *)

FirstOf(ids) == {i \in ids : Cardinality({j \in ids : j < i}) < Limit}
LastOf(ids)  == {i \in ids : Cardinality({j \in ids : j > i}) < Limit}

\* The order that FindRepliesByPid has: the newest first.
RepliesDescending(r, from) == LastOf({i \in Replies(r) : i > from})

\* WHERE root_id = r AND id > from ORDER BY id ASC LIMIT limit.
FindRepliesByRid(r, from) == FirstOf({i \in Replies(r) : i > from})

OpenReplies(r) ==
  /\ reading = None
  /\ r \in Rows /\ comments[r].root = None
  /\ reading' = r /\ cursor' = 0 /\ got' = {} /\ present' = Replies(r)
  /\ repeated' = FALSE
  /\ UNCHANGED <<comments, lastId, drafts>>

\* The client gives the last id it has got as max_id.
GetMoreReplies ==
  /\ reading # None
  /\ LET page == FindRepliesByRid(reading, cursor)
     IN /\ page # {}
        /\ got' = got \union page
        /\ repeated' = (repeated \/ page \intersect got # {})
        /\ cursor' = CHOOSE i \in page : \A j \in page : j <= i
  /\ UNCHANGED <<comments, lastId, drafts, reading, present>>

\* An empty page is the end.
CloseReplies ==
  /\ reading # None
  /\ FindRepliesByRid(reading, cursor) = {}
  /\ reading' = None /\ cursor' = 0 /\ got' = {} /\ present' = {} /\ repeated' = FALSE
  /\ UNCHANGED <<comments, lastId, drafts>>

Next == \/ CreateRoot \/ GetMoreReplies \/ CloseReplies
        \/ \E i \in Ids : Answer(i) \/ Delete(i) \/ OpenReplies(i)
        \/ \E c \in drafts : CreateReply(c)

Spec == Init /\ [][Next]_vars

-----------------------------------------------------------------------------
(* What is checked. *)

\* Whatever is deleted while answers are being written, every reply has its parent
\* and the root of its tree, although only the parent is a foreign key
\* (dao/comment.go:54-62): a reply whose root is gone would be shown nowhere.
NoOrphans ==
  \A i \in Rows : comments[i].pid # None =>
     /\ comments[i].pid \in Rows
     /\ comments[i].root \in Rows /\ comments[comments[i].root].root = None

\* A client that pages on from the last id it has got never gets a reply twice, and
\* has got every reply up to that id that was there all the time, whatever is
\* written and deleted between two pages (dao/comment.go:68-76).
PagesAreComplete ==
  /\ ~repeated
  /\ \A i \in present : i <= cursor => i \in got
=============================================================================
