----------------------------- MODULE HtInstances -----------------------------
(* Graphs, targets and options that the model checking of both provers uses, *)
(* and what they are to find: a proof if there is one among the candidates.  *)
EXTENDS HtMoves

\* Rounded Euclidean distance: the r with (2r-1)^2 <= 4s < (2r+1)^2.
Rounded(s) == CHOOSE r \in 0 .. 20 : (r = 0 \/ (2 * r - 1) * (2 * r - 1) <= 4 * s)
                                       /\ 4 * s < (2 * r + 1) * (2 * r + 1)
Distances(p) ==
  [u, v \in Nodes |-> Rounded((p[u][1] - p[v][1]) * (p[u][1] - p[v][1])
                                + (p[u][2] - p[v][2]) * (p[u][2] - p[v][2]))]

\* No missing edge is in an optimal tour: what was deleted before is sound.
Graph7(points, missing) ==
  LET p == [x \in Nodes |-> points[x + 1]]
  IN  [points |-> p, dist |-> Distances(p), active |-> AllEdges \ missing]

Graph1 == Graph7(<<<<9, 6>>, <<1, 9>>, <<8, 3>>, <<9, 1>>, <<4, 5>>, <<4, 9>>, <<8, 1>>>>,
                 {{0, 1}, {1, 2}, {1, 3}, {2, 5}, {4, 5}, {5, 6}})
Graph2 == Graph7(<<<<7, 4>>, <<9, 5>>, <<3, 4>>, <<9, 3>>, <<0, 9>>, <<6, 5>>, <<6, 3>>>>,
                 {{0, 2}, {2, 3}, {3, 4}, {3, 5}, {4, 6}})
Graph3 == Graph7(<<<<3, 4>>, <<1, 1>>, <<3, 6>>, <<5, 7>>, <<1, 2>>, <<0, 0>>, <<9, 0>>>>,
                 {{0, 3}, {1, 2}, {1, 3}, {2, 4}, {3, 4}, {4, 6}})

\* Target edges, some in an optimal tour and some not, for which the search
\* uses every kind of move, goes back, fails, or closes a tour.
ChosenQueries ==
  [graph : {Graph1}, target : {{0, 4}}, cd_mode : {"kActiveIncompatible"}]
    \cup [graph : {Graph1}, target : {{0, 3}, {0, 4}, {1, 5}}, cd_mode : {"kMissingOrIncompatible"}]
    \cup [graph : {Graph2}, target : {{0, 1}, {1, 2}, {5, 6}}, cd_mode : {"kActiveIncompatible"}]
    \cup [graph : {Graph2}, target : {{2, 5}}, cd_mode : {"kMissingOrIncompatible"}]
    \cup [graph : {Graph3}, target : {{0, 1}, {1, 4}}, cd_mode : {"kActiveIncompatible"}]

Default ==
  [max_k |-> 5, max_depth |-> 2, max_states |-> 0, max_total_replies |-> 0,
   max_replies_per_move |-> 0, max_reply_combinations |-> 0, max_cd_candidates |-> 5,
   max_point_candidates |-> 3, max_end_candidates |-> 3, max_neighborhood |-> 25,
   max_candidate_degree |-> 50, enable_point_moves |-> TRUE, enable_end_moves |-> TRUE]

----------------------------------------------------------------------------
MovesTried(q, options, paths, depth) ==
  IF depth >= options.max_depth THEN <<>>
  ELSE (IF options.enable_point_moves THEN PointCandidates(q.graph, q.target, paths, options)
        ELSE <<>>)
         \o (IF options.enable_end_moves THEN EndCandidates(q.graph, q.target, paths, options)
             ELSE <<>>)

\* A state is refutable if it is a leaf or one of its moves leaves nothing.
RECURSIVE Refutable(_, _, _, _)
Refuted(q, options, paths, depth, moves) ==
  \E m \in {moves[i] : i \in DOMAIN moves} :
    LET replies == Replies(q.graph, q.target, m)
    IN  /\ options.max_replies_per_move = 0 \/ Len(replies) <= options.max_replies_per_move
        /\ \A k \in DOMAIN replies :
             LET child == AddPaths(paths, replies[k])
             IN  child.valid => Refutable(q, options, child.paths, depth + 1)
Refutable(q, options, paths, depth) ==
  \/ LeafFound(q.graph, q.target, paths, options.max_k)
  \/ Refuted(q, options, paths, depth, MovesTried(q, options, paths, depth))

ProofExists(q, options) ==
  Refuted(q, options, {<<Min(q.target), Max(q.target)>>}, -1,
          CdCandidates(q.graph, q.target, q.cd_mode, options))
==============================================================================
