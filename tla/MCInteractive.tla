---------------------------- MODULE MCInteractive ----------------------------
(* Small instances of what users do under an article, Interactive and        *)
(* Comments.  They share no state and are explored side by side in one run;  *)
(* part says which moves.  Two callers are enough for a Get that another     *)
(* request overtakes and for two batches in a row; two writes of a counter   *)
(* make each order of row and redis.                                         *)
EXTENDS Interactive

CONSTANTS MaxId, Limit, None

VARIABLES part, comments, lastId, drafts, reading, cursor, got, present, twice

C == INSTANCE Comments WITH repeated <- twice

ASSUME CommentsAssumption == C!Parameters

cvars  == <<comments, lastId, drafts, reading, cursor, got, present, twice>>
mcvars == <<vars, cvars, part>>

MCInit == Init /\ C!Init /\ part \in {"counters", "comments"}

InCounters(A) == part = "counters" /\ A /\ UNCHANGED <<cvars, part>>
InComments(A) == part = "comments" /\ A /\ UNCHANGED <<vars, part>>

MCNext == InCounters(Next) \/ InComments(C!Next)

MCSpec == /\ MCInit /\ [][MCNext]_mcvars
          /\ WF_mcvars(InCounters(KeyExpires))
          /\ \A p \in Callers : WF_mcvars(InCounters(Step(p)))

\* NoOrphans of Comments: every reply has its parent and the root of its tree.
NoOrphans == C!NoOrphans

\* PagesAreComplete of Comments: a client that pages through the replies gets each
\* once, and all that were there.
PagesAreComplete == C!PagesAreComplete
=============================================================================
