------------------------------ MODULE Snapshot ------------------------------
(***************************************************************************)
(* The sparse TSP graph every algorithm of the program works on            *)
(* (GraphSnapshot, src/common/graph.cpp).  Nodes and edges keep the source *)
(* ids; the edge list is sorted by (u, v) once, at load, and never changes *)
(* afterwards: eliminating an edge only clears its active bit.  A          *)
(* snapshot therefore is two sets of edge ids,                             *)
(*   active : the edges whose active bit is set,                           *)
(*   csr    : the edges the adjacency rows were last built from,           *)
(* and everything that reads a row (Degree, the neighbour loops,           *)
(* HasActiveEdge) sees csr, which RebuildCsr brings up to date.            *)
(***************************************************************************)
EXTENDS Integers, Sequences, FiniteSets

CONSTANTS
  Dimension,   \* number of nodes
  NumEdges,    \* number of entries of the edge list, deleted ones included
  EndU, EndV   \* endpoints of each edge

Node == 0 .. Dimension - 1
Edge == 0 .. NumEdges - 1

\* What GraphSnapshot::Load guarantees of the edge list: ids in range, u < v,
\* and strictly increasing in (u, v), so that no edge is listed twice.
ASSUME SnapshotAssumption ==
  /\ Dimension \in Nat \ {0}
  /\ NumEdges \in Nat
  /\ EndU \in [Edge -> Node]
  /\ EndV \in [Edge -> Node]
  /\ \A e \in Edge : EndU[e] < EndV[e]
  /\ \A e, f \in Edge :
       e < f => \/ EndU[e] < EndU[f]
                \/ EndU[e] = EndU[f] /\ EndV[e] < EndV[f]

Incident(e, n) == n = EndU[e] \/ n = EndV[e]

\* The CSR row of n, as the ids of its edges, and its length.
Row(csr, n) == {e \in csr : Incident(e, n)}
Degree(csr, n) == Cardinality(Row(csr, n))

OtherEnd(e, n) == IF EndU[e] = n THEN EndV[e] ELSE EndU[e]
Neighbors(csr, n) == {OtherEnd(e, n) : e \in Row(csr, n)}

\* The degree gate of every selector and of the committer: an edge may be
\* tried or deleted only while both endpoints have more than two edges.
Deletable(csr, e) == Degree(csr, EndU[e]) > 2 /\ Degree(csr, EndV[e]) > 2

\* ContentHash covers the dimension, the points, the edge list and the active
\* bits.  The first three never change during a run, so the hash stands for
\* the set of active edges (64-bit FNV-1a collisions are not modelled).
ContentHash(active) == active

-----------------------------------------------------------------------------
(* Which edges a Hamilton-Tutte scan tries, and in which order             *)
(* (SelectHtTargetEdgeIds, src/cpu/ht_scan.cpp).                           *)

TargetOrders == {"canonical", "weight-desc"}

Eligible(active, csr) == {e \in active : Deletable(csr, e)}

\* Edge ids follow the (u, v) order, so the tie break is on the id.
Precedes(weight, order, e, f) ==
  IF order = "weight-desc" /\ weight[e] # weight[f]
  THEN weight[e] > weight[f]
  ELSE e < f

\* The eligible targets by rank; SelectHtTargetEdgeIds is
\* InOrder(Eligible(active, csr), weight, order).
InOrder(targets, weight, order) ==
  [i \in 0 .. Cardinality(targets) - 1 |->
     CHOOSE e \in targets :
       Cardinality({f \in targets : Precedes(weight, order, f, e)}) = i]

\* The slice of at most max targets from offset on.
TargetSlice(targets, offset, max) ==
  [i \in {j \in 0 .. max - 1 : offset + j \in DOMAIN targets} |-> targets[offset + i]]
=============================================================================
