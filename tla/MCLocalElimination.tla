------------------------- MODULE MCLocalElimination -------------------------
(* LocalElimination on the complete graph on six nodes.  Hamilton-Tutte    *)
(* proofs exist for edges of no optimal tour only, some at once and some   *)
(* after other edges are gone, so that a proof can become possible behind  *)
(* the offset, and Jonker-Volgenant witnesses can appear after a scan.     *)
EXTENDS LocalElimination, TLC

Pairs == <<<<0, 1>>, <<0, 2>>, <<0, 3>>, <<0, 4>>, <<0, 5>>, <<1, 2>>, <<1, 3>>, <<1, 4>>,
           <<1, 5>>, <<2, 3>>, <<2, 4>>, <<2, 5>>, <<3, 4>>, <<3, 5>>, <<4, 5>>>>
K6U == [e \in 0 .. 14 |-> Pairs[e + 1][1]]
K6V == [e \in 0 .. 14 |-> Pairs[e + 1][2]]

PointSets ==
  {<< <<4, 8>>, <<2, 9>>, <<9, 6>>, <<1, 9>>, <<4, 5>>, <<4, 7>> >>,
   << <<3, 4>>, <<9, 1>>, <<0, 5>>, <<7, 5>>, <<7, 4>>, <<4, 4>> >>,
   << <<4, 0>>, <<0, 9>>, <<6, 5>>, <<9, 7>>, <<3, 3>>, <<9, 3>> >>}

Nearest(s) == CHOOSE r \in 0 .. 20 : s <= r * r + r /\ (r > 0 => s > r * r - r)
Square(x) == x * x
DistanceTable(points) ==
  [p \in (0 .. 5) \X (0 .. 5) |->
     Nearest(Square(points[p[1] + 1][1] - points[p[2] + 1][1])
             + Square(points[p[1] + 1][2] - points[p[2] + 1][2]))]
EuclideanMetrics == {DistanceTable(points) : points \in PointSets}

Complete == {0 .. 14}

T == INSTANCE Tours WITH Nodes <- Node, Tables <- Metrics

InOptimalTour(d, e) == \E tour \in T!OptimalTours[d] : Ends(e) \in tour

\* An edge of an optimal tour is its own obstacle, so it is never proven;
\* any other edge is proven when the k-th edge after it is gone, k = 0
\* standing for at once.
Chains ==
  {[d \in Metrics |->
     [e \in Edge |-> IF InOptimalTour(d, e) THEN {e}
                     ELSE IF k = 0 THEN {}
                     ELSE {(e + k) % 15}]] : k \in {0, 1, 4, 14}}

Budgets ==
  {[order |-> o, maxTargets |-> m, maxHtEpochs |-> h] :
     o \in {"weight-desc", "canonical"}, m \in {1, 3, 15}, h \in {2, 30}}

=============================================================================
