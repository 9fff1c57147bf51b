------------------------------ MODULE HtMoves -------------------------------
(***************************************************************************)
(* The moves of the Hamilton-Tutte argument and their replies              *)
(* (src/cpu/hamilton_tutte.cpp, hamilton_tutte_recursive.cpp).  Suppose an *)
(* optimal tour contains the target edge and a system of paths.  A move    *)
(* picks a node and asks how the tour goes on there; the replies are the   *)
(* ways that no cheap exchange rules out.  If all replies are refuted, so  *)
(* is the supposition.  The verifier enumerates replies by loops of its    *)
(* own over the same predicates, which give the same list.                 *)
(***************************************************************************)
EXTENDS KOptWitness

\* The elements of a finite set by rank, no two of the same.
Ranked(S, rank) ==
  [i \in 1 .. Cardinality(S) |->
     CHOOSE x \in S : Cardinality({y \in S : rank[y] < rank[x]}) = i - 1]
Lexicographic(i, x) == i * NodeCount + x   \* by i, then by the node x

\* A graph is a record of the active edges, points and distances.
Neighbors(g, x) == {y \in Nodes : {x, y} \in g.active}

\* Fault: neither way of reconnecting may be shorter.
EdgesSurviveTwoOpt_OneEnough(g, target, other) ==
  LET u == Min(target)  v == Max(target)
      x == Min(other)   y == Max(other)
      original == g.dist[u, v] + g.dist[x, y]
  IN  g.dist[u, y] + g.dist[v, x] >= original /\ g.dist[u, x] + g.dist[v, y] >= original

\* Two edges can be in one optimal tour unless both ways of reconnecting them
\* are shorter: one of the two ways always gives a tour.
EdgesSurviveTwoOpt(g, target, other) ==
  LET u == Min(target)  v == Max(target)
      x == Min(other)   y == Max(other)
      original == g.dist[u, v] + g.dist[x, y]
  IN  g.dist[u, y] + g.dist[v, x] >= original \/ g.dist[u, x] + g.dist[v, y] >= original

\* c and d may be played when no optimal tour with the target has the edge cd.
CdMoveAdmissible(g, target, c, d, cd_mode) ==
  LET active == {c, d} \in g.active
      incompatible == ~ EdgesSurviveTwoOpt(g, target, {c, d})
  IN  /\ c \in Nodes \ target /\ d \in Nodes \ target /\ c # d
      /\ \/ cd_mode = "kActiveIncompatible" /\ active /\ incompatible
         \/ cd_mode = "kMissingOrIncompatible" /\ (~ active \/ incompatible)

\* Fault: an exchange that saves nothing rules a pair out.
NeighborPairs_Strict(g, target, center) ==
  {pair \in kSubset(2, Neighbors(g, center)) :
     /\ pair # target
     /\ \A x \in pair : EdgesSurviveTwoOpt(g, target, {center, x})
     /\ EdgeLength(g.dist, target) + EdgesLength(g.dist, {{center, x} : x \in pair})
          < EdgeLength(g.dist, pair) + EdgesLength(g.dist, {{center, x} : x \in target})}

\* The pairs of neighbours a center can have in such a tour.
NeighborPairs(g, target, center) ==
  {pair \in kSubset(2, Neighbors(g, center)) :
     /\ pair # target
     /\ \A x \in pair : EdgesSurviveTwoOpt(g, target, {center, x})
     /\ EdgeLength(g.dist, target) + EdgesLength(g.dist, {{center, x} : x \in pair})
          <= EdgeLength(g.dist, pair) + EdgesLength(g.dist, {{center, x} : x \in target})}

\* In the order of the adjacency rows, as paths first - center - second.
PointReplies(g, target, center) ==
  LET rank == [pair \in kSubset(2, Nodes) |-> Lexicographic(Min(pair), Max(pair))]
      pairs == Ranked(NeighborPairs(g, target, center), rank)
  IN  [i \in 1 .. Len(pairs) |-> <<Min(pairs[i]), center, Max(pairs[i])>>]

\* The edges by which a tour can leave the end of a path.
EndReplies(g, endpoint, internal_neighbor) ==
  LET others == Ranked(Neighbors(g, endpoint) \ {internal_neighbor}, [x \in Nodes |-> x])
  IN  [i \in 1 .. Len(others) |-> <<endpoint, others[i]>>]

\* The replies to a move [type, first, second]: each the list of paths it adds.
Replies(g, target, move) ==
  CASE move.type = "kCd" ->
         LET c == PointReplies(g, target, move.first)
             d == PointReplies(g, target, move.second)
         IN  [i \in 1 .. Len(c) * Len(d) |->
                <<c[((i - 1) \div Len(d)) + 1], d[((i - 1) % Len(d)) + 1]>>]
    [] move.type = "kPoint" ->
         LET c == PointReplies(g, target, move.first) IN [i \in 1 .. Len(c) |-> <<c[i]>>]
    [] move.type = "kEnd" ->
         LET e == EndReplies(g, move.first, move.second) IN [i \in 1 .. Len(e) |-> <<e[i]>>]

AddPaths(paths, additions) == Normalize(SetToSeq(paths) \o additions)

\* Each end of each path with the node before it.
PathEnds(paths) ==
  UNION {{<<p[1], p[2]>>, <<p[Len(p)], p[Len(p) - 1]>>} : p \in paths}

\* What the verifier lets a node of the proof play; node 0 is the root.
LegalMove(g, target, cd_mode, node_index, paths, move) ==
  CASE move.type = "kCd" ->
         node_index = 0 /\ CdMoveAdmissible(g, target, move.first, move.second, cd_mode)
    [] move.type = "kPoint" ->
         node_index # 0 /\ move.second = -1 /\ move.first \in Nodes \ CoveredNodes(paths)
    [] move.type = "kEnd" -> node_index # 0 /\ <<move.first, move.second>> \in PathEnds(paths)
    [] OTHER -> FALSE

\* A leaf has a proof the verifier accepts: witnesses of any size, one for
\* each outside matching.  (A witness that covers a second matching improves
\* that one too.)
LeafProvable(g, target, paths) ==
  /\ Testable(paths)
  /\ \A o \in OutsideMatchings(Cardinality(paths)) : Improving(g.dist, paths, o, target) # {}

\* The prover without the exact fallback finds one, if its budget allows.
LeafFound(g, target, paths, max_k) ==
  /\ Testable(paths)
  /\ \A o \in OutsideMatchings(Cardinality(paths)) :
       KOptWitnesses(g.dist, paths, o, target, max_k) # {}

----------------------------------------------------------------------------
(* Which moves the prover tries, most promising first.  A limit of 0 is    *)
(* none.                                                                   *)

AtMost(limit, s) == IF limit = 0 \/ Len(s) <= limit THEN s ELSE SubSeq(s, 1, limit)

\* Distance from the middle of the target, doubled and squared.
MidpointScore(g, target, x) ==
  LET offset(i) == 2 * g.points[x][i] - g.points[Min(target)][i] - g.points[Max(target)][i]
  IN  offset(1) * offset(1) + offset(2) * offset(2)

Neighborhood(g, target, covered, options) ==
  LET candidates == {x \in Nodes \ covered :
                       options.max_candidate_degree = 0
                         \/ Cardinality(Neighbors(g, x)) <= options.max_candidate_degree}
      rank == [x \in candidates |-> Lexicographic(MidpointScore(g, target, x), x)]
  IN  AtMost(options.max_neighborhood, Ranked(candidates, rank))

\* Ranked by the number of replies, then by the nodes played.
Fewest(g, target, limit, moves) ==
  LET rank == [m \in moves |->
                 Lexicographic(Lexicographic(Len(Replies(g, target, m)), m.first), m.second)]
  IN  AtMost(limit, Ranked(moves, rank))

Move(type, first, second) == [type |-> type, first |-> first, second |-> second]

CdCandidates(g, target, cd_mode, options) ==
  LET near == Neighborhood(g, target, target, options)
      pairs == kSubset(2, {near[i] : i \in DOMAIN near})
      admissible == {p \in pairs : CdMoveAdmissible(g, target, Min(p), Max(p), cd_mode)}
  IN  Fewest(g, target, options.max_cd_candidates,
             {Move("kCd", Min(p), Max(p)) : p \in admissible})

PointCandidates(g, target, paths, options) ==
  LET near == Neighborhood(g, target, CoveredNodes(paths), options)
  IN  Fewest(g, target, options.max_point_candidates,
             {Move("kPoint", near[i], -1) : i \in DOMAIN near})

EndCandidates(g, target, paths, options) ==
  Fewest(g, target, options.max_end_candidates,
         {Move("kEnd", e[1], e[2]) : e \in PathEnds(paths)})
=============================================================================
