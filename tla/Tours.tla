------------------------------- MODULE Tours --------------------------------
(***************************************************************************)
(* What edge elimination is for: tours.  These definitions model no code,  *)
(* they are what the properties of the algorithms are stated with.  A tour *)
(* is the set of its edges, each edge the set of its two ends, over the    *)
(* complete graph on the nodes.                                            *)
(***************************************************************************)
EXTENDS Integers, FiniteSets, FiniteSetsExt

CONSTANTS Nodes,    \* 0 .. n-1
          Tables    \* distance tables

\* Node orders that start at node 0, each giving a Hamiltonian cycle.
LOCAL Count == Cardinality(Nodes)
LOCAL Orders ==
  {p \in [0 .. Count - 1 -> Nodes] :
     p[0] = 0 /\ \A i, j \in 0 .. Count - 1 : i # j => p[i] # p[j]}

AllTours == {{{p[i], p[(i + 1) % Count]} : i \in 0 .. Count - 1} : p \in Orders}

LOCAL Length(d, pair) == d[Min(pair), Max(pair)]
Cost(d, tour) == MapThenSumSet(LAMBDA pair : Length(d, pair), tour)

OptimalTours ==
  [d \in Tables |->
     LET best == Min({Cost(d, t) : t \in AllTours})
     IN  {t \in AllTours : Cost(d, t) = best}]
=============================================================================
