----------------------------- MODULE MCMigration ----------------------------
(* Small instances of Migration for TLC, in two parts: "wide" has all writers *)
(* and keys and at most WideEvents events, "deep" has one transaction and one *)
(* report at a time, all of one key, and MaxEvents events: enough for a       *)
(* repair of src, a crash before its mark is committed, and a write after it. *)
EXTENDS Migration, TLC

CONSTANT WideEvents

VARIABLE part

mcvars == <<vars, part>>

\* The keys that have a row or a transaction, and the transactions under way.
Keys == {tx[w].biz : w \in Writers} \union {table[d][id].biz : d \in DBs, id \in Ids}
Open == {w \in Writers : tx[w] # Idle}

MCInit == Init /\ part \in {"wide", "deep"}

MCNext ==
  /\ Next
  /\ \/ part = "wide" /\ events' <= WideEvents
     \/ /\ part = "deep"
        /\ Len(redo' \o topic') <= 1
        /\ Cardinality(Open') <= 1 /\ Cardinality(Keys' \ {NoBiz}) <= 1
  /\ UNCHANGED part

MCSpec == MCInit /\ [][MCNext]_mcvars

Symmetry == Permutations(Writers) \union Permutations(Biz)
=============================================================================
