----------------------------- MODULE PathSystem -----------------------------
(***************************************************************************)
(* Path systems (src/cpu/path_system.cpp): sets of node-disjoint simple    *)
(* paths that a tour is asked to contain.  NormalizePathSystem turns any   *)
(* list of paths into its canonical form, the chains of the union of their *)
(* edges, each chain read from its smaller end.  The code keeps the chains *)
(* sorted; since they are disjoint the order follows from the set, and a   *)
(* set stands for the sorted list here.                                    *)
(***************************************************************************)
EXTENDS Integers, Sequences, FiniteSets

CONSTANT NodeCount   \* the dimension of the graph

ASSUME PathSystemAssumption == NodeCount \in Nat \ {0}

Nodes == 0 .. NodeCount - 1

\* An undirected edge is the set of its two ends.
PathEdges(path) == {{path[i], path[i + 1]} : i \in 1 .. Len(path) - 1}
PathNodes(path) == {path[i] : i \in 1 .. Len(path)}
EdgeUnion(paths) == UNION {PathEdges(p) : p \in paths}
CoveredNodes(paths) == UNION {PathNodes(p) : p \in paths}
DegreeIn(edges, x) == Cardinality({e \in edges : x \in e})

Invalid(reason) == [valid |-> FALSE, reason |-> reason, paths |-> {}]
Valid(paths) == [valid |-> TRUE, reason |-> "none", paths |-> paths]

----------------------------------------------------------------------------
(* The scan of the raw list, edge by edge in the order they are written.   *)

Malformed(path) ==
  \/ Len(path) < 2
  \/ PathNodes(path) \ Nodes # {}
  \/ Cardinality(PathNodes(path)) < Len(path)

\* <<p, i>> is the edge from node i to node i + 1 of path p; <<p, 0>> the
\* check of path p as a whole, which precedes its edges.
Places(raw) == {q \in (1 .. Len(raw)) \X (0 .. NodeCount) : q[2] < Len(raw[q[1]])}
EdgePlaces(raw) == {q \in Places(raw) : q[2] > 0}
EdgeAt(raw, q) == {raw[q[1]][q[2]], raw[q[1]][q[2] + 1]}
Earlier(q, r) == q[1] < r[1] \/ (q[1] = r[1] /\ q[2] < r[2])
EdgesBefore(raw, r) == {EdgeAt(raw, q) : q \in {x \in EdgePlaces(raw) : Earlier(x, r)}}

\* What stops the scan at a place, if anything does.
FaultAt(raw, q) ==
  IF q[2] = 0
  THEN IF Malformed(raw[q[1]]) THEN "malformed" ELSE "none"
  ELSE LET edge == EdgeAt(raw, q)
           before == EdgesBefore(raw, q)
       IN  IF edge \in before THEN "repeated edge"
           ELSE IF \E x \in edge : DegreeIn(before, x) = 2 THEN "degree"
           ELSE "none"

ScanFault(raw) ==
  LET faults == {q \in Places(raw) : FaultAt(raw, q) # "none"}
  IN  IF faults = {} THEN "none"
      ELSE FaultAt(raw, CHOOSE q \in faults : \A r \in faults \ {q} : Earlier(q, r))

----------------------------------------------------------------------------
(* The chains of a set of edges in which no node has more than two.        *)

\* The walk from the end s, and where it came from: <<previous, current>>,
\* with -1 for "none".
Walk(edges, s) ==
  LET onward(from, x) == {y \in Nodes \ {from} : {x, y} \in edges}
      at[i \in 0 .. NodeCount] ==
        IF i = 0 THEN <<-1, s>>
        ELSE LET from == at[i - 1][1]
                 x == at[i - 1][2]
             IN  IF x = -1 \/ onward(from, x) = {} THEN <<x, -1>>
                 ELSE <<x, CHOOSE y \in onward(from, x) : TRUE>>
  IN  [i \in 0 .. NodeCount |-> at[i][2]]

Chain(edges, s) ==
  LET walk == Walk(edges, s)
      length == Cardinality({i \in 0 .. NodeCount : walk[i] # -1})
  IN  [i \in 1 .. length |-> walk[i - 1]]

\* Chains start where degree is one; of the two readings the one from the
\* smaller end is met first.
Chains(edges) ==
  {c \in {Chain(edges, s) : s \in {x \in Nodes : DegreeIn(edges, x) = 1}} : c[1] < c[Len(c)]}

\* Fault: what is left over after the chains, a cycle, is not noticed.
Normalize_CyclesDropped(raw) ==
  LET fault == ScanFault(raw)
      edges == {EdgeAt(raw, q) : q \in EdgePlaces(raw)}
  IN  IF raw = <<>> THEN Invalid("malformed")
      ELSE IF fault # "none" THEN Invalid(fault)
      ELSE Valid(Chains(edges))

\* NormalizePathSystem, and NormalizeSparsePathSystem, which computes the same
\* from a map of the nodes that occur.
Normalize(raw) ==
  LET fault == ScanFault(raw)
      edges == {EdgeAt(raw, q) : q \in EdgePlaces(raw)}
      chains == Chains(edges)
  IN  IF raw = <<>> THEN Invalid("malformed")
      ELSE IF fault # "none" THEN Invalid(fault)
      ELSE IF EdgeUnion(chains) # edges THEN Invalid("cycle")
      ELSE Valid(chains)

----------------------------------------------------------------------------
(* How m paths can be joined up.  Path i has the endpoints 2i and 2i + 1.  *)
(* A tour that contains the paths joins their endpoints outside of them,   *)
(* in one of the outside matchings; rerouting the tour joins them anew     *)
(* inside, and the result is one tour exactly if the two matchings         *)
(* alternate along a single cycle.  A matching is the function from an     *)
(* endpoint to its mate.                                                   *)

Endpoints(m) == 0 .. 2 * m - 1

Mate(pairs) == [x \in UNION pairs |-> CHOOSE y \in UNION pairs : y # x /\ {x, y} \in pairs]

IsPerfectEndpointMatching(matching, m) ==
  /\ DOMAIN matching = Endpoints(m)
  /\ \A x \in Endpoints(m) :
       matching[x] \in Endpoints(m) \ {x} /\ matching[matching[x]] = x

\* The outside matching of a tour that runs through path 0 forwards, then the
\* others in order p, path p[j] entered at its second endpoint if r[j] = 1.
RunThrough(m, p, r) ==
  LET incoming(j) == IF j = 0 THEN 0 ELSE 2 * p[j] + r[j]
      outgoing(j) == IF j = 0 THEN 1 ELSE 2 * p[j] + (1 - r[j])
  IN  Mate({{outgoing(j), incoming((j + 1) % m)} : j \in 0 .. m - 1})

Orders(m) == {p \in [1 .. m - 1 -> 1 .. m - 1] : \A i, j \in 1 .. m - 1 : i # j => p[i] # p[j]}

\* Fault: no path is ever entered at its second endpoint.
OutsideMatchings_Forwards(m) == {RunThrough(m, p, [j \in 1 .. m - 1 |-> 0]) : p \in Orders(m)}

OutsideMatchings(m) == {RunThrough(m, p, r) : p \in Orders(m), r \in [1 .. m - 1 -> {0, 1}]}

\* Fault: any return to endpoint 0 counts, however few endpoints were met.
IsAlternatingHamiltonianCycle_AnyCycle(outside, inside, m) ==
  /\ IsPerfectEndpointMatching(outside, m)
  /\ IsPerfectEndpointMatching(inside, m)

\* The walk that starts at endpoint 0 and follows inside and outside in turn
\* meets every endpoint before it is back at 0.
IsAlternatingHamiltonianCycle(outside, inside, m) ==
  /\ IsPerfectEndpointMatching(outside, m)
  /\ IsPerfectEndpointMatching(inside, m)
  /\ LET walk[i \in 0 .. 2 * m] ==
           IF i = 0 THEN 0
           ELSE IF i % 2 = 1 THEN inside[walk[i - 1]]
           ELSE outside[walk[i - 1]]
     IN  /\ {walk[i] : i \in 0 .. 2 * m - 1} = Endpoints(m)
         /\ walk[2 * m] = 0

\* The row of the compatibility table for one inside matching.
Covers(inside, m) == {o \in OutsideMatchings(m) : IsAlternatingHamiltonianCycle(o, inside, m)}
=============================================================================
