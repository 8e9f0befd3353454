----------------------------- MODULE MCReadEvents ----------------------------
(* Small instances of the consumption of read events and of the validations   *)
(* of the table it writes to, under fairness: "events", ReadEvents, and       *)
(* "passes", Migration with pages of two rows, from a src table with MaxRows  *)
(* rows.  They share no state and are explored side by side in one run; part  *)
(* says which moves.                                                          *)
EXTENDS ReadEvents, FiniteSets

CONSTANTS Writers, Biz, NoBiz, MaxEvents, MaxReports, MaxRows

VARIABLES part, table, auto, pattern, tx, topic, redo, fix, val, fwd, rev, written,
          trusted, calm, paired, shifted, events

M == INSTANCE Migration

ASSUME MigrationAssumption == M!MigrationAssumption

mvars  == <<table, auto, pattern, tx, topic, redo, fix, val, fwd, rev, written,
            trusted, calm, paired, shifted, events>>
mcvars == <<vars, mvars, part>>

\* The keys are interchangeable: one order of them is enough.
KeyOf == CHOOSE f \in [1..MaxRows -> Biz] : \A i, j \in 1..MaxRows : f[i] = f[j] => i = j

MCInit == /\ Init /\ M!Init
          /\ \A id \in M!Rows("src") : table["src"][id].biz = KeyOf[id]
          /\ \/ part = "events" /\ M!Rows("src") = {}
             \/ part = "passes" /\ Cardinality(M!Rows("src")) = MaxRows

InEvents(A) == part = "events" /\ A /\ UNCHANGED <<mvars, part>>
InPasses(A) == part = "passes" /\ A /\ UNCHANGED <<vars, part>>

MCNext == InEvents(Next) \/ InPasses(M!Next)

\* part never changes, so that one condition of fairness can stand for an action of
\* each.  A full validation needs its two directions, the fixer and the commits of the
\* marks; the writers may stop.
Either(A, B) == InEvents(A) \/ InPasses(B)

MCSpec == /\ MCInit /\ [][MCNext]_mcvars
          /\ \A i \in Consumers : /\ WF_mcvars(Either(Claim(i), M!Forward))
                                  /\ WF_mcvars(Either(Consume(i), M!Reverse))
          /\ WF_mcvars(InPasses(M!Repair)) /\ WF_mcvars(InPasses(M!AutoCommit))

\* FullPassEnds of Migration: a full validation ends, whatever the writers and the
\* fixer do to the rows.
FullPassEnds == M!FullPassEnds
=============================================================================
