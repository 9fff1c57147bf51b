---------------------------- MODULE HtRecursive -----------------------------
(***************************************************************************)
(* ProveEdgeByRecursiveHt (src/cpu/hamilton_tutte_recursive.cpp): depth    *)
(* first search for a proof.  A state is a path system; it is proven by a  *)
(* leaf, or by one move all of whose replies are proven states or          *)
(* impossible.  The proof array grows as states are entered and is cut     *)
(* back when a move or a state fails.  What the search has found is passed *)
(* to the verifier; a proof that has been stored can be read back changed. *)
(***************************************************************************)
EXTENDS HtProofWalk

CONSTANTS
  Options,     \* search options
  Changed(_)   \* the proofs a stored one may be read back as

VARIABLES
  options,           \* options of this search
  nodes,             \* the proof being built
  stack,             \* one frame for each state whose moves are being tried
  entering,          \* the path system ProveState is called with, or NoState
  returned,          \* what it returned: a node index, Failed, or NoResult
  states_expanded,
  replies_expanded,
  budget_exhausted,
  status             \* "searching", "verifying", then kProven, kUnresolved or
                     \* kInvalid, and "read back"

searchVars == <<options, nodes, stack, entering, returned,
                states_expanded, replies_expanded, budget_exhausted>>
vars == <<walkVars, searchVars, status>>

NoState == {}
NoResult == -2
Failed == -1

Graph == query.graph
Target == query.target
Within(limit, count) == limit = 0 \/ count <= limit
Spent(limit, count) == limit # 0 /\ count >= limit

NewNode(paths) == [paths |-> paths, move |-> LeafMove, leaf |-> "none", replies |-> <<>>]

\* moves are those not given up yet, the first being tried; records are its
\* replies so far; checkpoint is the size of the proof before them.
Frame(node_index, depth, moves, checkpoint) ==
  [node_index |-> node_index, depth |-> depth, moves |-> moves, records |-> <<>>,
   checkpoint |-> checkpoint]

Search == stack[Len(stack)]
FrameIs(f) == stack' = [stack EXCEPT ![Len(stack)] = f]
PopFrame == stack' = SubSeq(stack, 1, Len(stack) - 1)
Searching == status = "searching" /\ stack # <<>>
Idle == Searching /\ entering = NoState /\ returned = NoResult

MovesOf(depth, paths) ==
  IF depth >= options.max_depth THEN <<>>
  ELSE (IF options.enable_point_moves THEN PointCandidates(Graph, Target, paths, options) ELSE <<>>)
         \o (IF options.enable_end_moves THEN EndCandidates(Graph, Target, paths, options) ELSE <<>>)

\* The root tries the c,d moves; depth -1 makes its children depth 0.
Init ==
  /\ query \in Queries /\ options \in Options
  /\ WalkInit
  /\ nodes = <<NewNode(RootPaths(query))>>
  /\ stack = <<Frame(0, -1, CdCandidates(Graph, Target, query.cd_mode, options), 1)>>
  /\ entering = NoState /\ returned = NoResult
  /\ states_expanded = 0 /\ replies_expanded = 0 /\ budget_exhausted = FALSE
  /\ status = "searching"

----------------------------------------------------------------------------
(* One frame: the moves of a state.                                        *)

Current == Search.moves[1]
CurrentReplies == Replies(Graph, Target, Current)
Combinations == IF Current.type = "kCd" THEN options.max_reply_combinations ELSE 0
Allowed ==
  /\ Within(options.max_replies_per_move, Len(CurrentReplies))
  /\ Within(Combinations, Len(CurrentReplies))
NextAddition == CurrentReplies[Len(Search.records) + 1]
NextChild == AddPaths(nodes[Search.node_index + 1].paths, NextAddition)
RepliesRemain == Search.moves # <<>> /\ Allowed /\ Len(Search.records) < Len(CurrentReplies)

RecordOf(infeasible, child_index) ==
  [additions |-> NextAddition, path_infeasible |-> infeasible, child_index |-> child_index]
WithRecord(r) == [Search EXCEPT !.records = Append(@, r)]

\* ConsumeReply, then the reply is impossible or its state must be proven.
TryReply ==
  /\ Idle /\ RepliesRemain
  /\ ~ Spent(options.max_total_replies, replies_expanded)
  /\ replies_expanded' = replies_expanded + 1
  /\ IF NextChild.valid
     THEN entering' = NextChild.paths /\ UNCHANGED stack
     ELSE FrameIs(WithRecord(RecordOf(TRUE, kNoHtChild))) /\ UNCHANGED entering
  /\ UNCHANGED <<walkVars, options, nodes, returned, states_expanded, budget_exhausted, status>>

\* Fault: the nodes of the replies that were proven stay behind.
GiveUpMove_NodesKept == FrameIs([Search EXCEPT !.moves = Tail(@), !.records = <<>>]) /\ UNCHANGED nodes

\* Fault: a state has only one try.
GiveUpMove_StateToo ==
  /\ nodes' = SubSeq(nodes, 1, Search.checkpoint)
  /\ FrameIs([Search EXCEPT !.moves = <<>>, !.records = <<>>])

\* The nodes of the move are dropped, and the next one is tried.
GiveUpMove ==
  /\ nodes' = SubSeq(nodes, 1, Search.checkpoint)
  /\ FrameIs([Search EXCEPT !.moves = Tail(@), !.records = <<>>])

SkipMove ==
  /\ Idle /\ Search.moves # <<>> /\ ~ Allowed
  /\ GiveUpMove
  /\ UNCHANGED <<walkVars, options, entering, returned, states_expanded, replies_expanded,
                 budget_exhausted, status>>

ChildProven ==
  /\ Searching /\ returned >= 0
  /\ FrameIs(WithRecord(RecordOf(FALSE, returned)))
  /\ returned' = NoResult
  /\ UNCHANGED <<walkVars, options, nodes, entering, states_expanded, replies_expanded,
                 budget_exhausted, status>>

ChildFailed ==
  /\ Searching /\ returned = Failed /\ ~ budget_exhausted
  /\ GiveUpMove
  /\ returned' = NoResult
  /\ UNCHANGED <<walkVars, options, entering, states_expanded, replies_expanded,
                 budget_exhausted, status>>

\* A budget ran out, here or below: the frame fails whatever moves are left.
ReplyBudgetSpent ==
  /\ Idle /\ RepliesRemain
  /\ Spent(options.max_total_replies, replies_expanded)
  /\ budget_exhausted' = TRUE
  /\ returned' = Failed
  /\ UNCHANGED <<walkVars, options, nodes, stack, entering, states_expanded, replies_expanded, status>>

LeaveFrame(result) ==
  /\ PopFrame
  /\ returned' = result
  /\ UNCHANGED <<walkVars, options, entering, states_expanded, replies_expanded,
                 budget_exhausted, status>>

\* The nodes up to the one of the frame itself are cut off; those of the root
\* are cleared.
StateFails ==
  /\ Searching
  /\ \/ returned = Failed /\ budget_exhausted
     \/ Idle /\ Search.moves = <<>>
  /\ nodes' = SubSeq(nodes, 1, Search.node_index)
  /\ LeaveFrame(Failed)

\* Every reply has been answered: the move is written into the node.
MoveSucceeds ==
  /\ Idle /\ Search.moves # <<>> /\ Allowed
  /\ Len(Search.records) = Len(CurrentReplies)
  /\ nodes' = [nodes EXCEPT ![Search.node_index + 1].move = Current,
                            ![Search.node_index + 1].replies = Search.records]
  /\ LeaveFrame(Search.node_index)

----------------------------------------------------------------------------
(* ProveState, entered with a path system one deeper than the frame.       *)

EnterState ==
  /\ Searching /\ entering # NoState
  /\ ~ Spent(options.max_states, states_expanded)
  /\ states_expanded' = states_expanded + 1
  /\ LET index == Len(nodes)
         depth == Search.depth + 1
         moves == MovesOf(depth, entering)
     IN  IF LeafFound(Graph, Target, entering, options.max_k)
         THEN /\ nodes' = Append(nodes, [NewNode(entering) EXCEPT !.leaf = "records"])
              /\ returned' = index
              /\ UNCHANGED stack
         ELSE /\ nodes' = Append(nodes, NewNode(entering))
              /\ stack' = Append(stack, Frame(index, depth, moves, index + 1))
              /\ UNCHANGED returned
  /\ entering' = NoState
  /\ UNCHANGED <<walkVars, options, replies_expanded, budget_exhausted, status>>

StateBudgetSpent ==
  /\ Searching /\ entering # NoState
  /\ Spent(options.max_states, states_expanded)
  /\ budget_exhausted' = TRUE
  /\ returned' = Failed /\ entering' = NoState
  /\ UNCHANGED <<walkVars, options, nodes, stack, states_expanded, replies_expanded, status>>

----------------------------------------------------------------------------
(* The end of the search, and what becomes of the proof.                   *)

Unresolved ==
  /\ status = "searching" /\ stack = <<>> /\ returned = Failed
  /\ status' = "kUnresolved"
  /\ UNCHANGED <<walkVars, searchVars>>

\* The proof is checked before it is handed out.
VerifyOwn ==
  /\ status = "searching" /\ stack = <<>> /\ returned >= 0
  /\ BeginWalk(nodes)
  /\ status' = "verifying"
  /\ UNCHANGED searchVars

Conclude ==
  /\ status = "verifying" /\ verdict \in {"accepted", "rejected"}
  /\ status' = IF verdict = "accepted" THEN "kProven" ELSE "kInvalid"
  /\ UNCHANGED <<walkVars, searchVars>>

ReadBack ==
  /\ status = "kProven"
  /\ \E changed \in Changed(nodes) : BeginWalk(changed)
  /\ status' = "read back"
  /\ UNCHANGED searchVars

Verify == WalkStep /\ UNCHANGED <<searchVars, status>>

Next ==
  \/ TryReply \/ SkipMove \/ ChildProven \/ ChildFailed \/ ReplyBudgetSpent
  \/ StateFails \/ MoveSucceeds \/ EnterState \/ StateBudgetSpent
  \/ Unresolved \/ VerifyOwn \/ Conclude \/ ReadBack \/ Verify

Spec == Init /\ [][Next]_vars

-----------------------------------------------------------------------------
(* What an accepted Hamilton-Tutte proof shows.  Nothing from here on      *)
(* models code.                                                            *)

T == INSTANCE Tours WITH Tables <- {q.graph.dist : q \in Queries}

InOptimalTour(q, paths) ==
  \E tour \in T!OptimalTours[q.graph.dist] : EdgeUnion(paths) \subseteq tour

\* A reply that adds the last edges of an optimal tour.  The edges form a
\* cycle, and the normaliser refuses every cycle.
ClosesTour(q, paths, additions) ==
  EdgeUnion(paths) \cup EdgeUnion({additions[i] : i \in DOMAIN additions})
    \in T!OptimalTours[q.graph.dist]

\* How a reply can keep the supposition alive.
Survives(q, paths, additions) ==
  LET child == Child(paths, additions) IN child.valid /\ InOptimalTour(q, child.paths)

\* A node that has been taken from the stack had a reply of the other kind.
TourClosed ==
  \E i \in visited :
    /\ i \in NodeIndices /\ NodeAt(i).move # LeafMove
    /\ \E k \in 1 .. Len(ExpectedReplies(i)) :
         ClosesTour(query, NodeAt(i).paths, ExpectedReplies(i)[k])

\* The replies to the move being checked leave no optimal tour out: one with
\* the paths of the node goes on by one of them.
MoveExhaustive ==
  current # NoNode /\ InOptimalTour(query, NodeAt(current).paths) =>
    \E k \in 1 .. Len(ExpectedReplies(current)) :
      \/ Survives(query, NodeAt(current).paths, ExpectedReplies(current)[k])
      \/ ClosesTour(query, NodeAt(current).paths, ExpectedReplies(current)[k])

\* A leaf that verifies is in no optimal tour.
LeafRefutes ==
  AtNode /\ TopInOrder /\ GoodLeaf(Top.node_index) =>
    ~ InOptimalTour(query, Top.expected_paths)

\* While the verifier runs, an optimal tour with the target edge has a place
\* to go: a node still on the stack, or a reply of the current node that has
\* not been checked yet.
SomethingLeft ==
  verdict = "running" /\ InOptimalTour(query, RootPaths(query)) =>
    \/ TourClosed
    \/ \E i \in 1 .. Len(work) : InOptimalTour(query, work[i].expected_paths)
    \/ /\ current # NoNode
       /\ \E k \in cursor + 1 .. Len(NodeAt(current).replies) :
            Survives(query, NodeAt(current).paths, ExpectedReplies(current)[k])

\* An edge whose proof is accepted, whoever wrote the proof, is in no optimal
\* tour, unless a reply in it closes one.
AcceptedIsSound ==
  verdict = "accepted" =>
    TourClosed \/ ~ InOptimalTour(query, RootPaths(query))

\* The same without the exception, as the repository states it.
ProvenEdgeInNoOptimalTour ==
  status = "kProven" => ~ InOptimalTour(query, RootPaths(query))

\* What the prover finds its verifier accepts.
ProverVerifies == status # "kInvalid"
=============================================================================
