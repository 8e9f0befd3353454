------------------------------- MODULE Limiter -------------------------------
(***************************************************************************)
(* The sliding window of pkg/limiter: a client takes the time and sends it *)
(* with its request to redis, where a script counts the requests admitted  *)
(* in the last interval (redis_slide_window.go, slide_window.lua).         *)
(*                                                                         *)
(* The member of the sorted set is the time itself: requests admitted in   *)
(* one millisecond are one entry, and the script counts milliseconds.      *)
(***************************************************************************)
EXTENDS Integers, FiniteSets

CONSTANTS Requests,  \* calls of Limit
          Window,    \* interval, in milliseconds
          Rate,      \* rate
          MaxTime,   \* bound: the clock
          None       \* nothing sent

VARIABLES
  clock,     \* the clock of clients and redis
  sent,      \* sent[r]: the time that r has taken for its command
  passed,    \* requests the script has let through
  limited,   \* requests it has turned away
  log,       \* the sorted set
  expiry,    \* when redis drops it
  newest,    \* history: the latest time of a script or of a drop of the set
  inOrder    \* history: no script has run with an earlier time than newest

vars == <<clock, sent, passed, limited, log, expiry, newest, inOrder>>

Times == 0 .. MaxTime

Parameters == Window \in Nat /\ Rate \in Nat /\ MaxTime \in Nat

Init == /\ clock = 0 /\ sent = [r \in Requests |-> None]
        /\ passed = {} /\ limited = {}
        /\ log = {} /\ expiry = 0
        /\ newest = 0 /\ inOrder = TRUE

Tick == /\ clock < MaxTime
        /\ clock' = clock + 1
        /\ UNCHANGED <<sent, passed, limited, log, expiry, newest, inOrder>>

\* Limit: time.Now() is taken before the command travels to redis.
Limit(r) == /\ sent[r] = None
            /\ sent' = [sent EXCEPT ![r] = clock]
            /\ UNCHANGED <<clock, passed, limited, log, expiry, newest, inOrder>>

UnderWay(r) == sent[r] # None /\ r \notin passed \union limited

Within(times, now) == {t \in times : t > now - Window}

Admit(r, kept) == /\ log' = kept \union {sent[r]}
                  /\ expiry' = clock + Window
                  /\ passed' = passed \union {r}
                  /\ UNCHANGED limited

Reject(r, kept) == /\ log' = kept
                   /\ limited' = limited \union {r}
                   /\ UNCHANGED <<expiry, passed>>

\* cnt > threshold.
FullLate(kept) == Cardinality(kept) > Rate

Full(kept) == Cardinality(kept) >= Rate

\* The script: drop what is older than the interval, count the rest.
Script(r) ==
  LET kept == Within(log, sent[r])
  IN /\ UnderWay(r)
     /\ IF Full(kept) THEN Reject(r, kept) ELSE Admit(r, kept)
     /\ inOrder' = (inOrder /\ sent[r] >= newest)
     /\ newest' = IF sent[r] > newest THEN sent[r] ELSE newest
     /\ UNCHANGED <<clock, sent>>

\* The command is lost before redis has it; the caller may try again.
Lose(r) == /\ UnderWay(r)
           /\ sent' = [sent EXCEPT ![r] = None]
           /\ UNCHANGED <<clock, passed, limited, log, expiry, newest, inOrder>>

\* PEXPIRE, renewed by each request that is admitted.
Expire == /\ log # {} /\ clock >= expiry
          /\ log' = {} /\ newest' = clock
          /\ UNCHANGED <<clock, sent, passed, limited, expiry, inOrder>>

Next == Tick \/ Expire \/ \E r \in Requests : Limit(r) \/ Script(r) \/ Lose(r)

Spec == Init /\ [][Next]_vars

-----------------------------------------------------------------------------
(* What is checked. *)

\* The milliseconds in which requests were let through.
Admitted == {sent[r] : r \in passed}

\* As long as the commands reach redis in the order of their times, no interval of
\* Window milliseconds has more than Rate milliseconds in which requests were let
\* through.  It says nothing of how many these requests are: ZADD of a time that is a
\* member already adds nothing, and a burst of one millisecond passes.  One command that is
\* overtaken, or that comes after the set has expired, can break it: entries are
\* gone that its own interval still had (slide_window.lua:13-22).
WithinRate ==
  inOrder => \A t \in Times : Cardinality(Within(Admitted, t) \intersect (0 .. t)) <= Rate

\* A request is turned away only if others have been let through in Rate different
\* milliseconds since its interval began, also when commands overtake each other
\* and redis drops the set: those turned away do not count.
RejectionIsEarned ==
  \A r \in limited : Cardinality(Within(Admitted, sent[r])) >= Rate

\* The two together: the window lets through as many milliseconds as the rate says,
\* no fewer and, in order, no more (slide_window.lua:13-26).
WindowInv == WithinRate /\ RejectionIsEarned
=============================================================================
