---------------------------- MODULE KOptWitness -----------------------------
(***************************************************************************)
(* The evidence that a path system can be improved: for one outside        *)
(* matching, path edges to delete, edges to add instead, and the inside    *)
(* matching that results (src/cpu/kopt_search.cpp).  The outside part of a *)
(* tour is contracted to one edge per outside pair; together with the      *)
(* paths these edges form a small tour, the context.  Counts and costs a   *)
(* witness carries are determined by its edges and left out.               *)
(***************************************************************************)
EXTENDS PathSystem, SequencesExt

CONSTANT kMaxTestablePathCount   \* at most this many paths, 7 in the code

ASSUME KOptAssumption == kMaxTestablePathCount \in Nat \ {0}

AllEdges == {{x, y} : x, y \in Nodes} \ {{x} : x \in Nodes}
EdgeLength(d, edge) == d[Min(edge), Max(edge)]
EdgesLength(d, edges) == MapThenSumSet(LAMBDA e : EdgeLength(d, e), edges)

Testable(paths) == paths # {} /\ Cardinality(paths) <= kMaxTestablePathCount

\* Path i in the order of the first nodes, and the node at each endpoint.
PathAt(paths, i) == CHOOSE p \in paths : Cardinality({q \in paths : q[1] < p[1]}) = i
EndpointNode(paths) ==
  [e \in Endpoints(Cardinality(paths)) |->
     LET p == PathAt(paths, e \div 2) IN IF e % 2 = 0 THEN p[1] ELSE p[Len(p)]]

OutsideEdges(paths, outside) ==
  {{EndpointNode(paths)[e], EndpointNode(paths)[outside[e]]} : e \in DOMAIN outside}

\* BuildCycle: the edges form one cycle through exactly these nodes, and Tour
\* is that cycle from its smallest node towards the smaller neighbour.
Tour(nodes, edges) ==
  LET start == Min(nodes)
      back == Max({x \in nodes : {start, x} \in edges})
  IN  Chain(edges \ {{start, back}}, start)
IsTour(nodes, edges) ==
  /\ Cardinality(nodes) >= 3
  /\ Cardinality(edges) = Cardinality(nodes)
  /\ UNION edges \subseteq nodes
  /\ \A x \in nodes : DegreeIn(edges, x) = 2
  /\ Len(Tour(nodes, edges)) = Cardinality(nodes)

ContextEdges(paths, outside) == EdgeUnion(paths) \cup OutsideEdges(paths, outside)

\* BuildTourContext succeeds: canonical paths, a matching, and no outside edge
\* that doubles a path edge or another outside edge.
HasContext(paths, outside, required) ==
  LET m == Cardinality(paths)
  IN  /\ Testable(paths)
      /\ IsPerfectEndpointMatching(outside, m)
      /\ OutsideEdges(paths, outside) \cap EdgeUnion(paths) = {}
      /\ Cardinality(OutsideEdges(paths, outside)) = m
      /\ IsTour(CoveredNodes(paths), ContextEdges(paths, outside))
      /\ required \in EdgeUnion(paths)

\* The endpoints in the order the improved tour meets them; the outside pairs
\* are neighbours in it, and what lies between them is inside.
ExtractInsideMatching(paths, outside, tour) ==
  LET m == Cardinality(paths)
      node == EndpointNode(paths)
      isEnd(x) == \E e \in Endpoints(m) : node[e] = x
      met == SelectSeq(tour, isEnd)
      name(i) == CHOOSE e \in Endpoints(m) : node[e] = met[i]
      shift == IF outside[name(1)] = name(2) THEN 1 ELSE 0
  IN  Mate({{name(2 * j - 1 + shift), name(((2 * j + shift - 1) % (2 * m)) + 1)} : j \in 1 .. m})

\* Fault: an exchange that costs nothing counts as an improvement.
VerifyKOptWitness_NotStrict(d, paths, outside, required, w) ==
  LET nodes == CoveredNodes(paths)
      remaining == ContextEdges(paths, outside) \ w.deleted
      improved == remaining \cup w.added
  IN  /\ Cardinality(w.deleted) >= 2
      /\ Cardinality(w.added) = Cardinality(w.deleted)
      /\ w.deleted \subseteq EdgeUnion(paths)
      /\ required \in w.deleted
      /\ EdgesLength(d, w.added) <= EdgesLength(d, w.deleted)
      /\ HasContext(paths, outside, required)
      /\ w.added \subseteq AllEdges \ (remaining \cup w.deleted)
      /\ IsTour(nodes, improved)
      /\ w.inside = ExtractInsideMatching(paths, outside, Tour(nodes, improved))
      /\ IsAlternatingHamiltonianCycle(outside, w.inside, Cardinality(paths))

VerifyKOptWitness(d, paths, outside, required, w) ==
  LET nodes == CoveredNodes(paths)
      remaining == ContextEdges(paths, outside) \ w.deleted
      improved == remaining \cup w.added
  IN  /\ Cardinality(w.deleted) >= 2
      /\ Cardinality(w.added) = Cardinality(w.deleted)
      /\ w.deleted \subseteq EdgeUnion(paths)
      /\ required \in w.deleted
      /\ EdgesLength(d, w.added) < EdgesLength(d, w.deleted)
      /\ HasContext(paths, outside, required)
      /\ w.added \subseteq AllEdges \ (remaining \cup w.deleted)
      /\ IsTour(nodes, improved)
      /\ w.inside = ExtractInsideMatching(paths, outside, Tour(nodes, improved))
      /\ IsAlternatingHamiltonianCycle(outside, w.inside, Cardinality(paths))

-----------------------------------------------------------------------------
(* What the searches for a witness may return.  The order in which they    *)
(* try exchanges, and what that costs, is left out here: any witness of    *)
(* the kind a search looks for may be the one it meets first.  KOptProver  *)
(* has the order.                                                          *)

\* The tours of each set of nodes, from all readings of the rest of it.
ToursOn ==
  LET readings[nodes \in SUBSET Nodes] ==
        IF nodes = {} THEN {<<>>}
        ELSE UNION {{Append(r, x) : r \in readings[nodes \ {x}]} : x \in nodes}
      closed(start, r) == <<start>> \o r \o <<start>>
  IN  [nodes \in SUBSET Nodes |->
         IF Cardinality(nodes) < 3 THEN {}
         ELSE {PathEdges(closed(Min(nodes), r)) : r \in readings[nodes \ {Min(nodes)}]}]

\* The tours of the context that keep the outside edges and use only the
\* edges given for the rest, and the exchange that leads to one of them.
Reroutings(paths, outside, edges) ==
  LET kept == OutsideEdges(paths, outside)
  IN  {tour \in ToursOn[CoveredNodes(paths)] : kept \subseteq tour /\ tour \ kept \subseteq edges}

WitnessFor(paths, outside, tour) ==
  LET all == ContextEdges(paths, outside)
  IN  [deleted |-> all \ tour, added |-> tour \ all,
       inside |-> ExtractInsideMatching(paths, outside, Tour(CoveredNodes(paths), tour))]

\* Fault: a tour of the same length will do.
Improving_OrEqual(d, paths, outside, required) ==
  LET length == EdgesLength(d, ContextEdges(paths, outside))
  IN  IF ~ HasContext(paths, outside, required) THEN {}
      ELSE {tour \in Reroutings(paths, outside, AllEdges \ {required}) :
              EdgesLength(d, tour) <= length}

\* The shorter tours without the required edge.
Improving(d, paths, outside, required) ==
  LET length == EdgesLength(d, ContextEdges(paths, outside))
  IN  IF ~ HasContext(paths, outside, required) THEN {}
      ELSE {tour \in Reroutings(paths, outside, AllEdges \ {required}) :
              EdgesLength(d, tour) < length}

\* FindKOptWitness: moves of 3 up to max_k edges, the smaller first, each
\* smaller than the number of path edges.
KOptWitnesses(d, paths, outside, required, max_k) ==
  LET sizes == 3 .. Min({max_k, Cardinality(EdgeUnion(paths)) - 1})
      inRange == {w \in {WitnessFor(paths, outside, t) : t \in Improving(d, paths, outside, required)} :
                    Cardinality(w.deleted) \in sizes}
  IN  {w \in inRange : \A x \in inRange : Cardinality(w.deleted) <= Cardinality(x.deleted)}

\* FindExactTourWitness: the shortest rerouting, of whatever size.
ExactWitnesses(d, paths, outside, required) ==
  LET improving == Improving(d, paths, outside, required)
  IN  {WitnessFor(paths, outside, t) : t \in
         {x \in improving : \A y \in improving : EdgesLength(d, x) <= EdgesLength(d, y)}}
=============================================================================
