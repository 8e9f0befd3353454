------------------------------ MODULE Balancer ------------------------------
(***************************************************************************)
(* Smooth weighted round robin (pkg/grpcx/balancer/wrr/wrr.go).  Pick has  *)
(* a value receiver: it locks a copy of the mutex, so that two picks may   *)
(* read and write the weights of the connections at the same time.  Every  *)
(* read of a weight that is written back or compared is a step.            *)
(***************************************************************************)
EXTENDS Integers, Sequences, Functions

CONSTANTS Callers,   \* goroutines that make calls
          Weights,   \* Weights[i]: the weight of connection i, a sequence
          MaxPicks,  \* bound: picks
          MaxMixed,  \* bound: picks before the last one that overlaps another
          None

Conns == DOMAIN Weights

\* The metadata of an address gives its weight, 0 when there is none; without
\* connections Pick returns an error and changes nothing.
Parameters == Weights \in Seq(Nat) /\ Weights # <<>>

VARIABLES
  current,     \* current[i]: the currentWeight of connection i
  at,          \* at[c]: the statement that c executes next, one number for each
               \* iteration of the two loops
  read,        \* read[c]: the weight it has read and not yet used
  chosen,      \* chosen[c]: maxCC, the connection of the greatest weight it has met
  picks,       \* history: picks[i]: how often connection i has been taken
  overlapped   \* history: two picks have run at the same time

vars == <<current, at, read, chosen, picks, overlapped>>

Total  == SumFunction(Weights)
Picked == SumFunction(picks)
First  == 1

\* Where a pick is: before it, in the iteration that updates connection at[c], in the
\* one that compares connection at[c] - Len(Weights), after the loops.
Idle         == 0
Updating(c)  == at[c] \in Conns
Comparing(c) == at[c] - Len(Weights) \in Conns
Paying(c)    == at[c] = 2 * Len(Weights) + 1

\* Build: the current weight of a connection is its weight.
Init == /\ current = Weights
        /\ at = [c \in Callers |-> Idle]
        /\ read = [c \in Callers |-> None]
        /\ chosen = [c \in Callers |-> First]
        /\ picks = [i \in Conns |-> 0]
        /\ overlapped = FALSE

Step(c) == at' = [at EXCEPT ![c] = @ + 1]
Used(c) == read[c] # None /\ read' = [read EXCEPT ![c] = None]

Pick(c) == /\ at[c] = Idle /\ Picked < MaxPicks
           /\ Step(c)
           /\ overlapped' = (overlapped \/ \E d \in Callers : at[d] # Idle)
           /\ overlapped' => Picked < MaxMixed
           /\ UNCHANGED <<current, read, chosen, picks>>

\* The connection whose weight the next statement begins by reading.
Subject(c) == IF Updating(c) THEN at[c]
              ELSE IF Comparing(c) THEN at[c] - Len(Weights)
              ELSE chosen[c]

Read(c) == /\ at[c] # Idle /\ read[c] = None
           /\ read' = [read EXCEPT ![c] = current[Subject(c)]]
           /\ UNCHANGED <<current, at, chosen, picks, overlapped>>

\* currentWeight + weight is written back.
Add(c) == /\ Updating(c) /\ Used(c)
          /\ current' = [current EXCEPT ![at[c]] = read[c] + Weights[at[c]]]
          /\ Step(c)
          /\ UNCHANGED <<chosen, picks, overlapped>>

\* maxCC is a pointer: its weight is read again for every comparison.
Compare(c) == /\ Comparing(c) /\ Used(c)
              /\ chosen' = [chosen EXCEPT ![c] =
                              IF read[c] > current[@] THEN Subject(c) ELSE @]
              /\ Step(c)
              /\ UNCHANGED <<current, picks, overlapped>>

\* Mutant: nothing is subtracted.
LessNothing(i) == 0

\* The chosen one pays for the round.
Less(i) == Total

Take(c) ==
  LET i == chosen[c]
  IN /\ Paying(c) /\ Used(c)
     /\ current' = [current EXCEPT ![i] = read[c] - Less(i)]
     /\ picks' = [picks EXCEPT ![i] = @ + 1]
     /\ at' = [at EXCEPT ![c] = Idle]
     /\ chosen' = [chosen EXCEPT ![c] = First]
     /\ UNCHANGED overlapped

Next == \E c \in Callers : Pick(c) \/ Read(c) \/ Add(c) \/ Compare(c) \/ Take(c)

Spec == Init /\ [][Next]_vars

-----------------------------------------------------------------------------
(* What is checked. *)

\* How far connection i is ahead of its share of the picks, in parts of Total.
Ahead(i) == picks[i] * Total - Picked * Weights[i]

\* While picks come one after another, a connection is never a pick and its share of
\* the next one ahead (so that a weight of nought gets none), only one at a time is a
\* whole pick ahead, none is behind by more picks than half the connections, and
\* after m rounds of Total picks each has had exactly m times its weight.  With picks
\* at the same time nothing of the kind holds, a lost update is never made good
\* (wrr.go:28-61).
SharesAreEven ==
  (~overlapped /\ Total # 0 /\ \A c \in Callers : at[c] = Idle) =>
     /\ \A i \in Conns : /\ Ahead(i) < Total + Weights[i]
                        /\ 2 * Ahead(i) >= -Len(Weights) * Total
     /\ \E i \in Conns : \A j \in Conns \ {i} : Ahead(j) < Total
     /\ \A m \in 0 .. Picked :
          Picked = m * Total => \A i \in Conns : picks[i] = m * Weights[i]
=============================================================================
