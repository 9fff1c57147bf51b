---------------------------- MODULE HtProofWalk -----------------------------
(***************************************************************************)
(* VerifyHtRecursiveProof (src/cpu/hamilton_tutte_recursive.cpp).  A proof *)
(* is an array of nodes.  The verifier walks it from node 0 with a stack   *)
(* of nodes still to be checked, each with the path system its parent says *)
(* it must have, recomputes the replies of every move, and accepts if      *)
(* every reply is impossible or leads to a node, every node is met once    *)
(* and every leaf holds.                                                   *)
(***************************************************************************)
EXTENDS HtMoves

CONSTANT Queries   \* [graph, target, cd_mode]: what a proof is about

VARIABLES
  query,      \* one of them
  proof,      \* the nodes: [paths, move, leaf, replies], node i at i + 1
  work,       \* the stack of [node_index, expected_paths]
  visited,    \* indices of the nodes taken from it
  current,    \* the node whose replies are being checked, or NoNode
  cursor,     \* how many of its replies have been
  verdict     \* "none" before, "running", then "accepted" or "rejected"

walkVars == <<query, proof, work, visited, current, cursor, verdict>>

NoNode == -1
kNoHtChild == -1
LeafMove == Move("kLeaf", -1, -1)

\* leaf is what a node carries as a leaf proof marked as proven: "records" that
\* are the witnesses asked for, if there are any, or "junk"; or it is "none".
LeafVerifies(q, paths, leaf) == leaf = "records" /\ LeafProvable(q.graph, q.target, paths)

RootPaths(q) == Normalize(<<(<<Min(q.target), Max(q.target)>>)>>).paths
NodeAt(i) == proof[i + 1]
NodeIndices == 0 .. Len(proof) - 1
ExpectedReplies(i) == Replies(query.graph, query.target, NodeAt(i).move)
Child(paths, additions) == AddPaths(paths, additions)

WalkInit ==
  /\ proof = <<>> /\ work = <<>> /\ visited = {}
  /\ current = NoNode /\ cursor = 0 /\ verdict = "none"

\* The snapshot and the target have been found in order, the proof says that
\* it is one and has nodes.
BeginWalk(nodes) ==
  /\ nodes # <<>>
  /\ proof' = nodes
  /\ work' = <<[node_index |-> 0, expected_paths |-> RootPaths(query)]>>
  /\ visited' = {} /\ current' = NoNode /\ cursor' = 0
  /\ verdict' = "running"
  /\ UNCHANGED query

Reject ==
  /\ verdict' = "rejected"
  /\ UNCHANGED <<query, proof, work, visited, current, cursor>>

----------------------------------------------------------------------------
Top == work[Len(work)]
BetweenNodes == verdict = "running" /\ current = NoNode
AtNode == BetweenNodes /\ work # <<>>

\* The checks that do not depend on the kind of node.
TopInOrder ==
  /\ Top.node_index \in NodeIndices \ visited
  /\ NodeAt(Top.node_index).paths = Top.expected_paths

GoodLeaf(i) ==
  /\ NodeAt(i).move = LeafMove
  /\ NodeAt(i).replies = <<>>
  /\ LeafVerifies(query, NodeAt(i).paths, NodeAt(i).leaf)

GoodMove(i) ==
  LET node == NodeAt(i)
  IN  /\ node.leaf = "none"
      /\ LegalMove(query.graph, query.target, query.cd_mode, i, node.paths, node.move)
      /\ Len(node.replies) = Len(ExpectedReplies(i))

Visit == visited' = visited \cup {Top.node_index} /\ work' = SubSeq(work, 1, Len(work) - 1)

CheckLeaf ==
  /\ AtNode /\ TopInOrder
  /\ GoodLeaf(Top.node_index)
  /\ Visit
  /\ UNCHANGED <<query, proof, current, cursor, verdict>>

EnterMove ==
  /\ AtNode /\ TopInOrder
  /\ GoodMove(Top.node_index)
  /\ Visit
  /\ current' = Top.node_index /\ cursor' = 0
  /\ UNCHANGED <<query, proof, verdict>>

RejectNode ==
  /\ AtNode
  /\ ~ (TopInOrder /\ (GoodLeaf(Top.node_index) \/ GoodMove(Top.node_index)))
  /\ Reject

----------------------------------------------------------------------------
\* The next reply record of the current node, what it must say and where it
\* must lead (QueueChild).
Record == NodeAt(current).replies[cursor + 1]
Addition == ExpectedReplies(current)[cursor + 1]
NextPaths == Child(NodeAt(current).paths, Addition)
RepliesLeft == verdict = "running" /\ current # NoNode /\ cursor < Len(NodeAt(current).replies)

GoodRecord ==
  /\ Record.additions = Addition
  /\ IF NextPaths.valid
     THEN ~ Record.path_infeasible /\ Record.child_index \in current + 1 .. Len(proof) - 1
     ELSE Record.path_infeasible /\ Record.child_index = kNoHtChild

QueueChild ==
  /\ RepliesLeft /\ GoodRecord
  /\ work' = IF NextPaths.valid
             THEN Append(work, [node_index |-> Record.child_index, expected_paths |-> NextPaths.paths])
             ELSE work
  /\ cursor' = cursor + 1
  /\ UNCHANGED <<query, proof, visited, current, verdict>>

RejectReply == RepliesLeft /\ ~ GoodRecord /\ Reject

LeaveMove ==
  /\ verdict = "running" /\ current # NoNode
  /\ cursor = Len(NodeAt(current).replies)
  /\ current' = NoNode /\ cursor' = 0
  /\ UNCHANGED <<query, proof, work, visited, verdict>>

\* Nothing left to check: every node must have been met.
EndWalk ==
  /\ BetweenNodes /\ work = <<>>
  /\ verdict' = IF visited = NodeIndices THEN "accepted" ELSE "rejected"
  /\ UNCHANGED <<query, proof, work, visited, current, cursor>>

WalkStep ==
  \/ CheckLeaf \/ EnterMove \/ RejectNode
  \/ QueueChild \/ RejectReply \/ LeaveMove
  \/ EndWalk
=============================================================================
