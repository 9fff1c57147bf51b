------------------------------ MODULE JvKernel ------------------------------
(***************************************************************************)
(* One thread of the Jonker-Volgenant kernel (src/cuda/jv_cuda.cu), which  *)
(* looks for a witness of one edge on the arrays it is given: the ends and *)
(* weights of the edges, the active bits, the adjacency rows as sequences  *)
(* of [node, edge], and distances.  It keeps the best scored nodes in a    *)
(* short sorted array instead of sorting all of them.  Scores stay within  *)
(* their word, so none is left out for its size.                           *)
(***************************************************************************)
EXTENDS Integers, Sequences

CONSTANT MaxCandidateNodes   \* kMaxCandidateNodes

LOCAL INSTANCE SequencesExt

NoJvWitness == -1
ScoreLess(x, y) == x.score < y.score \/ (x.score = y.score /\ x.node < y.node)

\* Fault: the search stops one entry early.
RowContains_Short(row, needle) ==
  LET found[low \in 0 .. Len(row), high \in 0 .. Len(row)] ==
        IF low >= high THEN low
        ELSE LET middle == low + (high - low) \div 2
             IN  IF row[middle + 1].node < needle THEN found[middle + 1, high]
                                                  ELSE found[low, middle]
      low == found[0, Len(row) - 1]
  IN  low < Len(row) - 1 /\ row[low + 1].node = needle

\* Binary search in an adjacency row.
RowContains(row, needle) ==
  LET found[low \in 0 .. Len(row), high \in 0 .. Len(row)] ==
        IF low >= high THEN low
        ELSE LET middle == low + (high - low) \div 2
             IN  IF row[middle + 1].node < needle THEN found[middle + 1, high]
                                                  ELSE found[low, middle]
      low == found[0, Len(row)]
  IN  low < Len(row) /\ row[low + 1].node = needle

\* Into the sorted array, dropping the last entry when it is full.
InsertCandidate(best, new) ==
  LET full == Len(best) = MaxCandidateNodes
      kept == IF full THEN Front(best) ELSE best
      before == SelectSeq(kept, LAMBDA x : ~ ScoreLess(new, x))
  IN  IF full /\ ~ ScoreLess(new, Last(best)) THEN best
      ELSE before \o <<new>> \o SubSeq(kept, Len(before) + 1, Len(kept))

(* The neighbours of both ends; one of the second end's that the first has *)
(* too was scored already.                                                 *)
BestCandidates(edges, weight, rows, dist, e) ==
  LET a == edges[e][1]
      b == edges[e][2]
      Scored(slot, other) == [node |-> slot.node, score |-> weight[slot.edge] + dist[slot.node, other]]
      fromA == SelectSeq(rows[a], LAMBDA s : s.node # b)
      fromB == SelectSeq(rows[b], LAMBDA s : s.node # a /\ ~ RowContains(rows[a], s.node))
      scored == [i \in DOMAIN fromA |-> Scored(fromA[i], b)]
                \o [i \in DOMAIN fromB |-> Scored(fromB[i], a)]
  IN  FoldLeft(InsertCandidate, <<>>, scored)

\* Neither exchange of the edge with (c, d) keeps the tour as short.
Compatible(edges, weight, dist, e, c, slot) ==
  LET a == edges[e][1]
      b == edges[e][2]
      d == slot.node
      left == weight[e] + weight[slot.edge]
  IN  d \notin {a, b} /\ (left <= dist[a, c] + dist[d, b] \/ left <= dist[a, d] + dist[b, c])

\* What the thread leaves in its slot, which held NoJvWitness.
JvWitness(edges, weight, active, rows, dist, e) ==
  LET best == BestCandidates(edges, weight, rows, dist, e)
      good == SelectSeq(best, LAMBDA x :
                \A i \in DOMAIN rows[x.node] :
                  ~ Compatible(edges, weight, dist, e, x.node, rows[x.node][i]))
  IN  IF \/ ~ active[e] \/ good = <<>>
         \/ Len(rows[edges[e][1]]) <= 2 \/ Len(rows[edges[e][2]]) <= 2
      THEN NoJvWitness ELSE good[1].node
=============================================================================
