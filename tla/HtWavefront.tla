----------------------------- MODULE HtWavefront -----------------------------
(***************************************************************************)
(* ProveEdgeByWavefrontHt (src/cpu/hamilton_tutte_wavefront.cpp): breadth  *)
(* first search for a proof.  For one root move after the other, all its   *)
(* states are expanded level by level, every allowed move of a state being *)
(* generated with all its replies; then the leaves are propagated to the   *)
(* root, on the CPU and perhaps on a device, and if the root is proven the *)
(* moves that succeeded are copied into a proof, which is verified.        *)
(*                                                                         *)
(* Replies, children and statuses are computed in batches, by backends     *)
(* that can fail: a batch whose device result differs from the CPU's is    *)
(* "invalid", one the device cannot compute "failed", and any may run out  *)
(* of memory.  A batch that succeeds holds what the CPU enumerates.        *)
(***************************************************************************)
EXTENDS HtProofWalk

CONSTANTS
  Options,         \* HtWavefrontOptions with the search options of HtRecursive
  GenerationLimit, \* largest value of PointCandidateOrderCache::generation
  HardLimit        \* kHardWavefrontStates, -Moves, -Replies

VARIABLES
  options,
  cd_moves,        \* the root moves not tried yet, the first being built
  stage,           \* what the search does next
  reason,          \* proof.reason once it is over
  status,          \* HtSearchStatus, or "searching", "verifying", "threw"
  states,          \* the work graph of the root move, state i at i + 1
  level_offsets,
  batch,           \* [begin, end] of the frontier states being expanded
  leaf_batches,    \* batches of states whose leaf search is still to come
  selecting,       \* state whose point candidates are selected next
  cache,           \* PointCandidateOrderCache
  prepared,        \* states of the batch with their candidates
  plan,            \* [moves, blocked, kind]: moves of the first prepared state
  spent,           \* [states, replies, moves] used so far, and exhausted
  proven           \* proof.proven

callVars == <<walkVars, options>>
resultVars == <<reason, status, proven>>
treeVars == <<states, level_offsets>>
frontierVars == <<batch, leaf_batches>>
selectVars == <<selecting, cache>>
moveVars == <<prepared, plan>>
searchVars == <<options, cd_moves, stage, reason, status, states, level_offsets, batch,
                leaf_batches, selecting, cache, prepared, plan, spent, proven>>
vars == <<walkVars, searchVars>>

Graph == query.graph
Target == query.target
Within(limit, count) == limit = 0 \/ count <= limit

NoBatch == [begin |-> 0, end |-> 0]
NoPlan == [moves |-> <<>>, blocked |-> FALSE, kind |-> "none"]
EmptyCache == [ordered_nodes |-> <<>>, marks |-> [x \in Nodes |-> 0], generation |-> 0,
               initialized |-> FALSE]
WaveState(paths, depth, incoming) ==
  [paths |-> paths, depth |-> depth, incoming |-> incoming, leaf |-> "unknown", moves |-> <<>>]
StateAt(i) == states[i + 1]

Init ==
  /\ query \in Queries /\ options \in Options
  /\ WalkInit
  /\ cd_moves = <<>> /\ stage = "candidates" /\ reason = "none" /\ status = "searching"
  /\ states = <<>> /\ level_offsets = <<>> /\ batch = NoBatch /\ leaf_batches = <<>>
  /\ selecting = 0 /\ cache = EmptyCache /\ prepared = <<>> /\ plan = NoPlan
  /\ spent = [states |-> 0, replies |-> 0, moves |-> 0, exhausted |-> FALSE]
  /\ proven = FALSE

----------------------------------------------------------------------------
(* How a search ends.                                                      *)

End(result, why) ==
  /\ status' = result /\ reason' = why /\ stage' = "ended"
  /\ UNCHANGED <<callVars, treeVars, frontierVars, selectVars, moveVars, cd_moves, proven>>

\* A budget is spent: the loop over the root moves is left.
Exhaust == End("kUnresolved", "exhausted") /\ spent' = [spent EXCEPT !.exhausted = TRUE]

\* What a batch of a backend can end with.
Outcomes(backend) ==
  {"ok"} \cup (IF backend = "cpu" THEN {} ELSE {"invalid"})
         \cup (IF backend = "cuda" THEN {"failed"} ELSE {})

BatchFails(outcome, what) ==
  /\ End(IF outcome = "invalid" THEN "kInvalid" ELSE "kUnresolved", what)
  /\ UNCHANGED spent

\* std::bad_alloc anywhere in the loop over the root moves counts as a budget.
OutOfMemory ==
  /\ stage \notin {"candidates", "ended"}
  /\ Exhaust

----------------------------------------------------------------------------
(* The root moves.                                                         *)

\* EvaluateHtCdCandidates; "auto" tries again on the CPU.
FindCandidates ==
  /\ stage = "candidates"
  /\ \E outcome \in {"ok", "throws"} :
       IF outcome = "throws"
       THEN /\ End(IF options.candidate_backend = "cuda" THEN "kUnresolved" ELSE "kInvalid",
                   "candidates")
            /\ UNCHANGED spent
       ELSE LET found == CdCandidates(Graph, Target, query.cd_mode, options)
            IN  IF found = <<>> THEN End("kUnresolved", "unresolved") /\ UNCHANGED spent
                ELSE /\ cd_moves' = found /\ stage' = "root"
                     /\ UNCHANGED <<callVars, resultVars, treeVars, frontierVars, selectVars,
                                    moveVars, spent>>

RootMove == Head(cd_moves)
RootReplies == Replies(Graph, Target, RootMove)
NextRoot == cd_moves' = Tail(cd_moves) /\ stage' = "root"

NoRootLeft ==
  /\ stage = "root" /\ cd_moves = <<>>
  /\ End("kUnresolved", "unresolved") /\ UNCHANGED spent

SkipRoot ==
  /\ stage = "root" /\ cd_moves # <<>>
  /\ ~ Within(options.max_reply_combinations, Len(RootReplies))
       \/ ~ Within(options.max_replies_per_move, Len(RootReplies))
  /\ NextRoot
  /\ UNCHANGED <<callVars, resultVars, treeVars, frontierVars, selectVars, moveVars, spent>>

\* The budgets, before count more states or replies are used.
FitsStates(count) ==
  /\ Len(states) + count <= HardLimit
  /\ Within(options.max_states, spent.states + count)
FitsReplies(planned, count) ==
  /\ spent.replies + planned + count <= HardLimit
  /\ Within(options.max_total_replies, spent.replies + planned + count)

(***************************************************************************)
(* The replies to a move of a state, its children numbered from base.  A   *)
(* reply whose paths are impossible has no child (AppendNormalizedChild).  *)
(***************************************************************************)
ChildrenOfMove(paths, move) ==
  LET replies == Replies(Graph, Target, move)
  IN  [i \in DOMAIN replies |-> [additions |-> replies[i], child |-> AddPaths(paths, replies[i])]]
Feasible(children) == SelectSeq(children, LAMBDA c : c.child.valid)
Records(children, base) ==
  [i \in DOMAIN children |->
     [additions |-> children[i].additions,
      path_infeasible |-> ~ children[i].child.valid,
      child_index |-> IF children[i].child.valid
                      THEN base + Len(Feasible(SubSeq(children, 1, i))) - 1 ELSE kNoHtChild]]
WaveMove(move, children, base) == [move |-> move, replies |-> Records(children, base)]
NewStates(children, depth) ==
  LET feasible == Feasible(children)
  IN  [i \in DOMAIN feasible |-> WaveState(feasible[i].child.paths, depth, Len(children))]

\* The states with move recorded at state i and its children appended.
WithMove(s, i, move, children, depth) ==
  [s EXCEPT ![i + 1].moves = Append(@, WaveMove(move, children, Len(s)))]
    \o NewStates(children, depth)

\* Spend children states, replies and the move, as far as the budgets go.
FitsMove(children) ==
  /\ FitsReplies(0, Len(children)) /\ FitsStates(Len(Feasible(children)))
  /\ spent.moves < HardLimit
Spend(children) ==
  spent' = [spent EXCEPT !.states = @ + Len(Feasible(children)),
                         !.replies = @ + Len(children), !.moves = @ + 1]

RootBuilt(children) ==
  /\ FitsMove(children)
  /\ Spend(children)
  /\ states' = WithMove(<<WaveState(RootPaths(query), 0, 0)>>, 0, RootMove, children, 0)
  /\ level_offsets' = IF Len(states') > 1 THEN <<0, 1, Len(states')>> ELSE <<0, 1>>
  /\ batch' = [begin |-> 1, end |-> 1]
  /\ stage' = "expand"
  /\ UNCHANGED <<callVars, resultVars, selectVars, moveVars, cd_moves, leaf_batches>>

\* BuildRootMove: the root state, its one move and level 1.
BuildRoot ==
  /\ stage = "root" /\ cd_moves # <<>>
  /\ Within(options.max_reply_combinations, Len(RootReplies))
  /\ Within(options.max_replies_per_move, Len(RootReplies))
  /\ \E outcome \in Outcomes(options.hamilton_reply_backend),
        children \in {ChildrenOfMove(RootPaths(query), RootMove)} :
       \/ outcome # "ok" /\ Len(children) <= HardLimit /\ BatchFails(outcome, "replies")
       \/ outcome = "ok" /\ ~ FitsMove(children) /\ Exhaust
       \/ outcome = "ok" /\ RootBuilt(children)

----------------------------------------------------------------------------
(* ExpandWavefront: batches of the last complete level.                    *)

AtMostStates(limit, begin, end) == IF limit = 0 \/ end - begin <= limit THEN end ELSE begin + limit

\* The level being expanded ends where the next begins.
FrontierEnd == level_offsets[Len(level_offsets)]

\* States with equal keys are searched together: LeafBucketKey as a number.
LogTwo(n) == CHOOSE b \in 0 .. 20 : 2 ^ b <= n /\ n < 2 ^ (b + 1)
ReplyCountBucket(n) == IF n = 0 THEN 0 ELSE LogTwo(n)
LeafBucketKey(s) ==
  (Cardinality(s.paths) * (NodeCount + 1) + Cardinality(CoveredNodes(s.paths))) * 21
    + ReplyCountBucket(s.incoming)

RECURSIVE Batches(_, _)
Batches(limit, indices) ==
  IF indices = <<>> THEN <<>>
  ELSE IF limit = 0 \/ Len(indices) <= limit THEN <<indices>>
  ELSE <<SubSeq(indices, 1, limit)>> \o Batches(limit, SubSeq(indices, limit + 1, Len(indices)))

\* The buckets of a batch in the order of their keys, or fused into one, each
\* cut into leaf batches.
LeafBatches(begin, end) ==
  LET key == [i \in begin .. end - 1 |-> LeafBucketKey(StateAt(i))]
      keys == SetToSortSeq({key[i] : i \in DOMAIN key}, <)
      bucket(k) == SelectSeq([i \in 1 .. end - begin |-> begin + i - 1], LAMBDA i : key[i] = k)
      buckets == [j \in DOMAIN keys |-> bucket(keys[j])]
      limit == options.leaf_frontier_batch_states
  IN  IF options.fuse_leaf_buckets THEN Batches(limit, FlattenSeq(buckets))
      ELSE FlattenSeq([j \in DOMAIN buckets |-> Batches(limit, buckets[j])])

\* The next batch of the level, the next level, or the end of the expansion.
NextBatch ==
  /\ stage = "expand"
  /\ IF batch.end < FrontierEnd
     THEN LET end == AtMostStates(options.reply_frontier_batch_states, batch.end, FrontierEnd)
          IN  /\ batch' = [begin |-> batch.end, end |-> end]
              /\ leaf_batches' = LeafBatches(batch.end, end)
              /\ stage' = "leaves"
              /\ UNCHANGED level_offsets
     ELSE IF Len(states) > batch.end
     THEN /\ level_offsets' = Append(level_offsets, Len(states))
          /\ UNCHANGED <<batch, leaf_batches, stage>>
     ELSE stage' = "propagate" /\ UNCHANGED <<batch, leaf_batches, level_offsets>>
  /\ UNCHANGED <<callVars, resultVars, selectVars, moveVars, cd_moves, states, spent>>

\* ProvePathSystemsByKOpt for one batch of leaves.
LeafBatch ==
  /\ stage = "leaves" /\ leaf_batches # <<>>
  /\ states' = [j \in DOMAIN states |->
                  IF \E k \in DOMAIN leaf_batches[1] : leaf_batches[1][k] = j - 1
                  THEN [states[j] EXCEPT !.leaf =
                          IF LeafFound(Graph, Target, states[j].paths, options.max_k)
                          THEN "records" ELSE "none"]
                  ELSE states[j]]
  /\ leaf_batches' = Tail(leaf_batches)
  /\ UNCHANGED <<callVars, resultVars, selectVars, moveVars, cd_moves, stage, level_offsets,
                 batch, spent>>

\* Unlike the batches of replies, one of leaves that fails for another reason
\* than memory is not caught: the search has no result and its caller handles it.
LeafBatchThrows ==
  /\ stage = "leaves" /\ leaf_batches # <<>>
  /\ End("threw", "leaves") /\ UNCHANGED spent

LeavesSearched ==
  /\ stage = "leaves" /\ leaf_batches = <<>>
  /\ stage' = IF options.enable_point_moves \/ options.enable_end_moves THEN "select" ELSE "expand"
  /\ selecting' = batch.begin /\ prepared' = <<>>
  /\ UNCHANGED <<callVars, resultVars, treeVars, frontierVars, cd_moves, cache, plan, spent>>

----------------------------------------------------------------------------
(* BuildPointCandidateNodes: the order of the candidates is computed once, *)
(* and the nodes of a state are marked with a generation of its own.       *)

OrderedNodes == Neighborhood(Graph, Target, Target, [options EXCEPT !.max_neighborhood = 0])

\* Fault: the marks stay when the generations start again.
NextGeneration_MarksKept(c) ==
  IF c.generation = GenerationLimit THEN [c EXCEPT !.generation = 1]
  ELSE [c EXCEPT !.generation = @ + 1]

\* When the generations run out, the marks are cleared.
NextGeneration(c) ==
  IF c.generation = GenerationLimit
  THEN [c EXCEPT !.marks = [x \in Nodes |-> 0], !.generation = 1]
  ELSE [c EXCEPT !.generation = @ + 1]

CacheFor(paths) ==
  LET filled == IF cache.initialized THEN cache
                ELSE [EmptyCache EXCEPT !.ordered_nodes = OrderedNodes, !.initialized = TRUE]
      next == NextGeneration(filled)
  IN  [next EXCEPT !.marks = [x \in Nodes |-> IF x \in CoveredNodes(paths) THEN next.generation
                                              ELSE next.marks[x]]]

SelectedNodes(c) ==
  AtMost(options.max_neighborhood,
         SelectSeq(c.ordered_nodes, LAMBDA x : c.marks[x] # c.generation))

PreparedState(i, point) == [state_index |-> i, point |-> point, end |-> <<>>]
SelectState ==
  /\ stage = "select" /\ selecting < batch.end
  /\ LET s == StateAt(selecting)
     IN  IF s.leaf = "records" \/ s.depth >= options.max_depth
         THEN UNCHANGED <<cache, prepared>>
         ELSE IF options.enable_point_moves
         THEN /\ cache' = CacheFor(s.paths)
              /\ prepared' = Append(prepared, PreparedState(selecting, SelectedNodes(cache')))
         ELSE /\ prepared' = Append(prepared, PreparedState(selecting, <<>>))
              /\ UNCHANGED cache
  /\ selecting' = selecting + 1
  /\ UNCHANGED <<callVars, resultVars, treeVars, frontierVars, cd_moves, stage, plan, spent>>

----------------------------------------------------------------------------
(* PrepareFrontierCandidates: the replies and children of all states of    *)
(* the batch, kind by kind.                                                *)

MoveReplyCountAllowed(move) ==
  Within(options.max_replies_per_move, Len(Replies(Graph, Target, move)))
AllowedMoves(moves) == SelectSeq(moves, MoveReplyCountAllowed)
SomeReplies(field) ==
  \E j \in DOMAIN prepared : \E k \in DOMAIN prepared[j][field] :
    LET m == prepared[j][field][k]
    IN  MoveReplyCountAllowed(m) /\ Replies(Graph, Target, m) # <<>>

\* A batch without tasks is not evaluated at all.
BatchOutcomes(wanted, backend) == IF wanted THEN Outcomes(backend) ELSE {"ok"}

PrepareStage(here, next, outcomes, what) ==
  /\ stage = here
  /\ \E outcome \in outcomes :
       \/ outcome # "ok" /\ BatchFails(outcome, what)
       \/ /\ outcome = "ok"
          /\ stage' = next
          /\ UNCHANGED <<callVars, resultVars, treeVars, frontierVars, selectVars, moveVars,
                         cd_moves, spent>>

\* The centers are ranked by their replies and cut to max_point_candidates.
RankedPoints(nodes) ==
  Fewest(Graph, Target, options.max_point_candidates,
         {Move("kPoint", nodes[i], -1) : i \in DOMAIN nodes})
PointReplyBatch ==
  /\ stage = "select" /\ selecting = batch.end
  /\ \E outcome \in BatchOutcomes(\E j \in DOMAIN prepared : prepared[j].point # <<>>,
                                  options.hamilton_reply_backend) :
       \/ outcome # "ok" /\ BatchFails(outcome, "replies")
       \/ /\ outcome = "ok"
          /\ prepared' = [j \in DOMAIN prepared |->
                            [prepared[j] EXCEPT !.point = RankedPoints(prepared[j].point)]]
          /\ stage' = "point appends"
          /\ UNCHANGED <<callVars, resultVars, treeVars, frontierVars, selectVars, cd_moves,
                         plan, spent>>

PointAppendBatch ==
  PrepareStage("point appends", "end replies",
               BatchOutcomes(SomeReplies("point"), options.path_append_backend), "appends")

\* A state one of whose point moves leaves nothing needs no end moves.
Vacuous(paths, move) == Feasible(ChildrenOfMove(paths, move)) = <<>>
HasVacuousPoint(p) ==
  \E k \in DOMAIN p.point :
    MoveReplyCountAllowed(p.point[k]) /\ Vacuous(StateAt(p.state_index).paths, p.point[k])
NeedsEnds(p) == options.enable_end_moves /\ ~ HasVacuousPoint(p)

EndReplyBatch ==
  /\ stage = "end replies"
  /\ \E outcome \in BatchOutcomes(\E j \in DOMAIN prepared : NeedsEnds(prepared[j]),
                                  options.hamilton_reply_backend) :
       \/ outcome # "ok" /\ BatchFails(outcome, "end replies")
       \/ /\ outcome = "ok"
          /\ prepared' = [j \in DOMAIN prepared |->
                IF NeedsEnds(prepared[j])
                THEN [prepared[j] EXCEPT !.end =
                        EndCandidates(Graph, Target, StateAt(prepared[j].state_index).paths, options)]
                ELSE prepared[j]]
          /\ stage' = "end appends"
          /\ UNCHANGED <<callVars, resultVars, treeVars, frontierVars, selectVars, cd_moves,
                         plan, spent>>

EndAppendBatch ==
  PrepareStage("end appends", "generate",
               BatchOutcomes(SomeReplies("end"), options.path_append_backend), "appends")

----------------------------------------------------------------------------
(* GeneratePointMoves and GenerateEndMoves for the first prepared state.   *)

\* The allowed moves, as many as their replies fit the budget together.
RECURSIVE Planned(_, _)
Planned(moves, replies) ==
  IF moves = <<>> THEN [moves |-> <<>>, blocked |-> FALSE]
  ELSE LET count == Len(Replies(Graph, Target, moves[1]))
           rest == Planned(Tail(moves), replies + count)
       IN  IF FitsReplies(replies, count) THEN [rest EXCEPT !.moves = <<moves[1]>> \o @]
           ELSE [moves |-> <<>>, blocked |-> TRUE]

PlanMoves(kind, moves) ==
  LET p == Planned(AllowedMoves(moves), 0)
  IN  plan' = [moves |-> p.moves, blocked |-> p.blocked, kind |-> kind]

BeginPoints ==
  /\ stage = "generate" /\ plan = NoPlan /\ prepared # <<>>
  /\ PlanMoves("point", prepared[1].point)
  /\ UNCHANGED <<callVars, resultVars, treeVars, frontierVars, selectVars, cd_moves, stage,
                 prepared, spent>>

MoveGenerated(i, move, children) ==
  /\ FitsMove(children)
  /\ Spend(children)
  /\ states' = WithMove(states, i, move, children, StateAt(i).depth + 1)
  /\ plan' = IF Feasible(children) = <<>> THEN [plan EXCEPT !.moves = <<>>, !.blocked = FALSE]
             ELSE [plan EXCEPT !.moves = Tail(@)]
  /\ UNCHANGED <<callVars, resultVars, frontierVars, selectVars, cd_moves, stage,
                 level_offsets, prepared>>

\* One move with all its replies; one that leaves nothing ends the plan.
GenerateMove ==
  /\ stage = "generate" /\ plan.moves # <<>>
  /\ \E i \in {prepared[1].state_index} :
       \E children \in {ChildrenOfMove(StateAt(i).paths, plan.moves[1])} :
         \/ ~ FitsMove(children) /\ Exhaust
         \/ MoveGenerated(i, plan.moves[1], children)

PlanDone == stage = "generate" /\ plan # NoPlan /\ plan.moves = <<>>

\* A plan that did not fit the budget ends the search, after its moves.
PlanBlocked == plan.blocked
BudgetBlocks == PlanDone /\ PlanBlocked /\ Exhaust

LastMoveVacuous(s) ==
  s.moves # <<>> /\ \A k \in DOMAIN s.moves[Len(s.moves)].replies :
                      s.moves[Len(s.moves)].replies[k].path_infeasible

BeginEnds ==
  /\ PlanDone /\ ~ PlanBlocked
  /\ plan.kind = "point" /\ options.enable_end_moves
  /\ ~ LastMoveVacuous(StateAt(prepared[1].state_index))
  /\ PlanMoves("end", prepared[1].end)
  /\ UNCHANGED <<callVars, resultVars, treeVars, frontierVars, selectVars, cd_moves, stage,
                 prepared, spent>>

StateExpanded ==
  /\ PlanDone /\ ~ PlanBlocked
  /\ \/ plan.kind = "end" \/ ~ options.enable_end_moves
     \/ LastMoveVacuous(StateAt(prepared[1].state_index))
  /\ prepared' = Tail(prepared) /\ plan' = NoPlan
  /\ UNCHANGED <<callVars, resultVars, treeVars, frontierVars, selectVars, cd_moves, stage,
                 spent>>

BatchExpanded ==
  /\ stage = "generate" /\ prepared = <<>>
  /\ stage' = "expand"
  /\ UNCHANGED <<callVars, resultVars, treeVars, frontierVars, selectVars, moveVars, cd_moves,
                 spent>>

----------------------------------------------------------------------------
(* PropagateWavefront: the CPU decides the states from the leaves up, and  *)
(* a device must come to the same.                                         *)

\* Fault: an impossible reply counts against its move.
EvaluateWavefrontCpu_Strict(wave) ==
  LET proved[i \in 0 .. Len(wave) - 1] ==
        \/ wave[i + 1].leaf = "records"
        \/ \E k \in DOMAIN wave[i + 1].moves :
             \A r \in Range(wave[i + 1].moves[k].replies) :
               ~ r.path_infeasible /\ proved[r.child_index]
  IN  [i \in 0 .. Len(wave) - 1 |-> IF proved[i] THEN 1 ELSE 0]

EvaluateWavefrontCpu(wave) ==
  LET proved[i \in 0 .. Len(wave) - 1] ==
        \/ wave[i + 1].leaf = "records"
        \/ \E k \in DOMAIN wave[i + 1].moves :
             \A r \in Range(wave[i + 1].moves[k].replies) :
               r.path_infeasible \/ proved[r.child_index]
  IN  [i \in 0 .. Len(wave) - 1 |-> IF proved[i] THEN 1 ELSE 0]

MoveProven(move, st) ==
  \A r \in Range(move.replies) : r.path_infeasible \/ st[r.child_index] = 1

\* The proof below state i, placed at index base of the array: its first
\* successful move, and behind it the children in the order of the replies.
RECURSIVE CopySuccessfulState(_, _, _)
CopySuccessfulState(i, base, st) ==
  LET s == StateAt(i)
      Place(sofar, r) ==
        IF r.path_infeasible THEN [sofar EXCEPT !.replies = Append(@, r)]
        ELSE LET index == base + 1 + Len(sofar.nodes)
             IN  [nodes |-> sofar.nodes \o CopySuccessfulState(r.child_index, index, st),
                  replies |-> Append(sofar.replies, [r EXCEPT !.child_index = index])]
      first == CHOOSE k \in DOMAIN s.moves :
                 MoveProven(s.moves[k], st) /\ \A j \in 1 .. k - 1 : ~ MoveProven(s.moves[j], st)
      placed == FoldLeft(Place, [nodes |-> <<>>, replies |-> <<>>], s.moves[first].replies)
  IN  IF s.leaf = "records"
      THEN <<[paths |-> s.paths, move |-> LeafMove, leaf |-> s.leaf, replies |-> <<>>]>>
      ELSE <<[paths |-> s.paths, move |-> s.moves[first].move, leaf |-> "none",
              replies |-> placed.replies]>> \o placed.nodes

PropagationOutcomes ==
  IF options.propagation_backend = "cpu" THEN {"agrees"} ELSE {"agrees", "differs", "throws"}

\* A device that cannot be used leaves the CPU's result, or ends the search.
PropagationFails ==
  /\ stage = "propagate"
  /\ \E outcome \in PropagationOutcomes \ {"agrees"} :
       \/ outcome = "differs" /\ End("kInvalid", "propagation")
       \/ /\ outcome = "throws" /\ options.propagation_backend = "cuda"
          /\ End("kUnresolved", "propagation")
  /\ UNCHANGED spent

RootProven == EvaluateWavefrontCpu(states)[0] = 1

RootNotProven ==
  /\ stage = "propagate" /\ ~ RootProven
  /\ NextRoot
  /\ UNCHANGED <<callVars, resultVars, treeVars, frontierVars, selectVars, moveVars, spent>>

\* The proof is copied out of the work graph and goes to the verifier.
VerifyOwn ==
  /\ stage = "propagate" /\ RootProven
  /\ \E st \in {EvaluateWavefrontCpu(states)} : BeginWalk(CopySuccessfulState(0, 0, st))
  /\ proven' = TRUE
  /\ status' = "verifying" /\ stage' = "verify"
  /\ UNCHANGED <<options, reason, treeVars, frontierVars, selectVars, moveVars, cd_moves, spent>>

Verify == stage = "verify" /\ WalkStep /\ UNCHANGED searchVars

Conclude ==
  /\ stage = "verify" /\ verdict \in {"accepted", "rejected"}
  /\ status' = IF verdict = "accepted" THEN "kProven" ELSE "kInvalid"
  /\ reason' = IF verdict = "accepted" THEN "proven" ELSE "own proof"
  /\ proven' = (verdict = "accepted")
  /\ stage' = "ended"
  /\ UNCHANGED <<callVars, treeVars, frontierVars, selectVars, moveVars, cd_moves, spent>>

Next ==
  \/ FindCandidates \/ NoRootLeft \/ SkipRoot \/ BuildRoot
  \/ NextBatch \/ LeafBatch \/ LeafBatchThrows \/ LeavesSearched \/ SelectState
  \/ PointReplyBatch \/ PointAppendBatch \/ EndReplyBatch \/ EndAppendBatch
  \/ BeginPoints \/ GenerateMove \/ BudgetBlocks \/ BeginEnds \/ StateExpanded \/ BatchExpanded
  \/ PropagationFails \/ RootNotProven \/ VerifyOwn \/ Verify \/ Conclude
  \/ OutOfMemory

Spec == Init /\ [][Next]_vars

----------------------------------------------------------------------------
W == INSTANCE WaveGraph

TasksOf(s) ==
  [j \in DOMAIN s |-> [leaf_proven |-> s[j].leaf = "records",
                       moves |-> [k \in DOMAIN s[j].moves |-> s[j].moves[k].replies]]]

\* Whenever a wavefront is propagated, however its batches were cut, the device
\* accepts its arrays, they are a tree, and what the CPU computes solves it: so
\* a device that computes right is never called wrong.
TasksFaithful ==
  stage = "propagate" =>
    \A wave \in {TasksOf(states)} : \A tasks \in {W!FlattenWavefront(wave)} :
      /\ W!UniqueParents(wave)
      /\ W!AcceptsTasks(tasks, level_offsets)
      /\ \A graph \in {W!GraphOf(tasks)}, st \in {EvaluateWavefrontCpu(states)} :
           W!ValidGraph(graph) /\ W!Solves(graph, st)

\* The marks of earlier states never hide a node or show one: the cached order
\* with its generations selects what a fresh scan of the nodes would.
CandidatesFresh ==
  stage = "select" /\ options.enable_point_moves =>
    \A j \in DOMAIN prepared :
      prepared[j].point =
        Neighborhood(Graph, Target, CoveredNodes(StateAt(prepared[j].state_index).paths), options)
==============================================================================
