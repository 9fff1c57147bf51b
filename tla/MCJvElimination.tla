--------------------------- MODULE MCJvElimination --------------------------
(* JvElimination on complete graphs on six nodes with up to two edges      *)
(* missing.  The first two point sets take up to five epochs, the third    *)
(* has twelve optimal tours, and the fourth has graphs without an optimal  *)
(* tour on which the degree gate refuses deletions.                        *)
EXTENDS JvElimination, TLC

LOCAL INSTANCE SequencesExt

Pairs == <<<<0, 1>>, <<0, 2>>, <<0, 3>>, <<0, 4>>, <<0, 5>>, <<1, 2>>, <<1, 3>>, <<1, 4>>,
           <<1, 5>>, <<2, 3>>, <<2, 4>>, <<2, 5>>, <<3, 4>>, <<3, 5>>, <<4, 5>>>>
K6U == [e \in 0 .. 14 |-> Pairs[e + 1][1]]
K6V == [e \in 0 .. 14 |-> Pairs[e + 1][2]]

PointSets ==
  {<< <<4, 8>>, <<2, 9>>, <<9, 6>>, <<1, 9>>, <<4, 5>>, <<4, 7>> >>,
   << <<3, 0>>, <<8, 0>>, <<5, 9>>, <<1, 6>>, <<4, 5>>, <<6, 1>> >>,
   << <<3, 4>>, <<9, 1>>, <<0, 5>>, <<7, 5>>, <<7, 4>>, <<4, 4>> >>,
   << <<4, 0>>, <<0, 9>>, <<6, 5>>, <<9, 7>>, <<3, 3>>, <<9, 3>> >>}

\* EUC_2D: the Euclidean distance rounded to the nearest integer.
Nearest(s) == CHOOSE r \in 0 .. 20 : s <= r * r + r /\ (r > 0 => s > r * r - r)
Square(x) == x * x
DistanceTable(points) ==
  [p \in (0 .. 5) \X (0 .. 5) |->
     Nearest(Square(points[p[1] + 1][1] - points[p[2] + 1][1])
             + Square(points[p[1] + 1][2] - points[p[2] + 1][2]))]
EuclideanMetrics == {DistanceTable(points) : points \in PointSets}

NearlyComplete == {S \in SUBSET (0 .. 14) : Cardinality(S) >= 13}

\* No proposal, a node, and an id that is none.
AnySlot == {-1, 0, 6}

T == INSTANCE Tours WITH Nodes <- Node, Tables <- Metrics

(* Every optimal tour of the complete graph that the loaded graph contains *)
(* is still there after any number of epochs, although each epoch deletes  *)
(* several edges that were only tested one by one, and although the device *)
(* that proposes them may be wrong (jv_elimination.cpp:86-117, 297-307).   *)
InGraph(tour, graph) == tour \subseteq {Ends(e) : e \in graph}
OptimalToursSurvive ==
  \A tour \in T!OptimalTours[dist] :
    InGraph(tour, stage.initial) => InGraph(tour, active)

Kernel == INSTANCE JvKernel
\* The adjacency rows as the arrays the kernel reads.
RowArray(n) ==
  LET ends == SetToSortSeq(Row(csr, n), LAMBDA e, f : OtherEnd(e, n) < OtherEnd(f, n))
  IN  [i \in DOMAIN ends |-> [node |-> OtherEnd(ends[i], n), edge |-> ends[i]]]

(* The kernel proposes what the CPU search finds, edge by edge, although   *)
(* it never sorts all candidates (jv_cuda.cu:158-288 against               *)
(* jv_elimination.cpp:45-117, 209-224).                                    *)
KernelAgrees ==
  jvPc = "propose" =>
    \E rows \in {[n \in Node |-> RowArray(n)]} :
      FindJvCandidates(dist, active, csr) =
        {c \in [edge : Edge, witness : Node, method : {kJv}] :
           c.witness = Kernel!JvWitness([e \in Edge |-> <<EndU[e], EndV[e]>>],
                                        [e \in Edge |-> Weight(dist, e)],
                                        [e \in Edge |-> e \in active], rows, dist, c.edge)}
=============================================================================
