------------------------- MODULE HtRecursive_proofs -------------------------
(***************************************************************************)
(* An accepted Hamilton-Tutte proof is sound, for every graph, every proof *)
(* the verifier may be given and every set of options: if the replies to   *)
(* every move that is checked are exhaustive and every leaf that verifies  *)
(* refutes its paths, the walk over the array of nodes, with its stack,    *)
(* shared children and early exits, loses no case.                         *)
(***************************************************************************)
EXTENDS HtRecursive, SequenceTheorems, TLAPS

\* What the steps of the walk need to know of its bookkeeping.
WalkShape ==
  /\ \E S : work \in Seq(S)
  /\ cursor \in Nat

IInv == WalkShape /\ SomethingLeft /\ AcceptedIsSound

----------------------------------------------------------------------------
(* The stack.                                                              *)

\* Taking the top off a nonempty stack leaves the entries below it.
LEMMA PopStack ==
  ASSUME NEW S, NEW s \in Seq(S), s # <<>>
  PROVE  /\ SubSeq(s, 1, Len(s) - 1) \in Seq(S)
         /\ Len(SubSeq(s, 1, Len(s) - 1)) = Len(s) - 1
         /\ \A i \in 1 .. Len(s) - 1 : SubSeq(s, 1, Len(s) - 1)[i] = s[i]
<1> DEFINE n == Len(s) - 1
<1>1. n \in Nat
  BY EmptySeq
<1>2. \A i \in 1 .. n : s[i] \in S
  BY <1>1, ElementOfSeq
<1> HIDE DEF n
<1>3. /\ SubSeq(s, 1, n) \in Seq(S)
      /\ Len(SubSeq(s, 1, n)) = IF 1 <= n THEN n - 1 + 1 ELSE 0
      /\ \A i \in 1 .. n - 1 + 1 : SubSeq(s, 1, n)[i] = s[1 + i - 1]
  BY <1>1, <1>2, SubSeqProperties
<1>4. Len(SubSeq(s, 1, n)) = n
  BY <1>1, <1>3
<1>5. \A i \in 1 .. n : SubSeq(s, 1, n)[i] = s[i]
  BY <1>1, <1>3
<1> QED
  BY <1>3, <1>4, <1>5 DEF n

\* Pushing an entry keeps the others where they were.
LEMMA PushStack ==
  ASSUME NEW S, NEW s \in Seq(S), NEW e
  PROVE  /\ Append(s, e) \in Seq(S \cup {e})
         /\ Len(Append(s, e)) = Len(s) + 1
         /\ \A i \in 1 .. Len(s) : Append(s, e)[i] = s[i]
         /\ Append(s, e)[Len(s) + 1] = e
<1>1. s \in Seq(S \cup {e})
  BY SeqMonotonic
<1> QED
  BY <1>1, AppendProperties

----------------------------------------------------------------------------
(* One step of the walk.                                                   *)

\* What has been found closed stays closed while the same proof is read.
LEMMA TourClosedStays ==
  ASSUME TourClosed, query' = query, proof' = proof, visited \subseteq visited'
  PROVE  TourClosed'
  BY DEF TourClosed, NodeIndices, NodeAt, ExpectedReplies

\* A step that touches nothing of the walk.
LEMMA OutsideTheWalk ==
  ASSUME IInv, UNCHANGED walkVars
  PROVE  IInv'
<1> USE DEF walkVars
<1>1. WalkShape'
  BY DEF IInv, WalkShape
<1>2. TourClosed' = TourClosed
  BY DEF TourClosed, NodeIndices, NodeAt, ExpectedReplies
<1>3. RootPaths(query)' = RootPaths(query)
  BY DEF RootPaths
<1>4. SomethingLeft'
  BY <1>2, <1>3 DEF IInv, SomethingLeft, NodeAt, ExpectedReplies
<1>5. AcceptedIsSound'
  BY <1>2, <1>3 DEF IInv, AcceptedIsSound
<1> QED
  BY <1>1, <1>4, <1>5 DEF IInv

\* A walk begins with the root on its stack.
LEMMA WalkBegins ==
  ASSUME NEW p, BeginWalk(p)
  PROVE  IInv'
<1> DEFINE entry == [node_index |-> 0, expected_paths |-> RootPaths(query)]
<1>1. work' = <<entry>> /\ cursor' = 0 /\ verdict' = "running" /\ query' = query
  BY DEF BeginWalk
<1>2. <<entry>> \in Seq({entry})
  OBVIOUS
<1>3. WalkShape'
  BY <1>1, <1>2 DEF WalkShape
<1>4. RootPaths(query)' = RootPaths(query)
  BY <1>1 DEF RootPaths
<1>5. 1 \in 1 .. Len(work') /\ work'[1].expected_paths = RootPaths(query)
  BY <1>1
<1>6. SomethingLeft'
  BY <1>1, <1>4, <1>5 DEF SomethingLeft
<1>7. AcceptedIsSound'
  BY <1>1 DEF AcceptedIsSound
<1> QED
  BY <1>3, <1>6, <1>7 DEF IInv

\* A step that ends the walk without accepting.
LEMMA WalkEnds ==
  ASSUME IInv, Reject
  PROVE  IInv'
  BY DEF IInv, Reject, WalkShape, SomethingLeft, AcceptedIsSound

\* The stack without its top is a stack.
LEMMA TopTakenShape ==
  ASSUME IInv, AtNode, Visit
  PROVE  \E S : work' \in Seq(S)
<1>1. PICK S : work \in Seq(S)
  BY DEF IInv, WalkShape
<1> QED
  BY <1>1, PopStack DEF Visit, AtNode

\* Between two nodes what is left is on the stack; taking the top of it off
\* leaves the rest, unless the top is where an optimal tour was.
LEMMA TopTaken ==
  ASSUME IInv, AtNode, Visit, query' = query, proof' = proof,
         InOptimalTour(query, RootPaths(query))
  PROVE  \/ TourClosed'
         \/ InOptimalTour(query, Top.expected_paths)
         \/ \E i \in 1 .. Len(work') : InOptimalTour(query, work'[i].expected_paths)
<1>1. PICK S : work \in Seq(S)
  BY DEF IInv, WalkShape
<1>2. work # <<>> /\ verdict = "running" /\ current = NoNode
  BY DEF AtNode, BetweenNodes
<1>3. Len(work) \in Nat \ {0}
  BY <1>1, <1>2, EmptySeq
<1>4. /\ Len(work') = Len(work) - 1
      /\ \A i \in 1 .. Len(work) - 1 : work'[i] = work[i]
  BY <1>1, <1>2, PopStack DEF Visit
<1>5. CASE TourClosed
  BY <1>5, TourClosedStays DEF Visit
<1>6. CASE ~ TourClosed
  <2>1. PICK i \in 1 .. Len(work) : InOptimalTour(query, work[i].expected_paths)
    BY <1>2, <1>6 DEF IInv, SomethingLeft
  <2>2. CASE i = Len(work)
    BY <2>1, <2>2 DEF Top
  <2>3. CASE i # Len(work)
    <3>1. i \in 1 .. Len(work) - 1
      BY <1>3, <2>3
    <3> QED
      BY <1>4, <2>1, <3>1
  <2> QED
    BY <2>2, <2>3
<1> QED
  BY <1>5, <1>6

\* A leaf is in no optimal tour, so taking it off loses nothing.
LEMMA CheckLeafStep ==
  ASSUME IInv, LeafRefutes, CheckLeaf
  PROVE  IInv'
<1>1. AtNode /\ TopInOrder /\ GoodLeaf(Top.node_index) /\ Visit
  BY DEF CheckLeaf
<1>2. UNCHANGED <<query, proof, current, cursor, verdict>>
  BY DEF CheckLeaf
<1>3. RootPaths(query)' = RootPaths(query)
  BY <1>2 DEF RootPaths
<1>4. WalkShape'
  BY <1>1, <1>2, TopTakenShape DEF IInv, WalkShape
<1>5. ~ InOptimalTour(query, Top.expected_paths)
  BY <1>1 DEF LeafRefutes
<1>6. SomethingLeft'
  <2> SUFFICES ASSUME InOptimalTour(query, RootPaths(query))
               PROVE  TourClosed' \/ \E i \in 1 .. Len(work') :
                                        InOptimalTour(query, work'[i].expected_paths)
    BY <1>2, <1>3 DEF SomethingLeft
  <2> QED
    BY <1>1, <1>2, <1>5, TopTaken
<1>7. AcceptedIsSound'
  BY <1>1, <1>2 DEF AcceptedIsSound, AtNode, BetweenNodes
<1> QED
  BY <1>4, <1>6, <1>7 DEF IInv

\* The optimal tour at the top of the stack goes on by one of the replies to
\* the move of that node.
LEMMA EnterMoveStep ==
  ASSUME IInv, MoveExhaustive', EnterMove
  PROVE  IInv'
<1> DEFINE i == Top.node_index
<1>1. AtNode /\ TopInOrder /\ GoodMove(i) /\ Visit
  BY DEF EnterMove
<1>2. UNCHANGED <<query, proof, verdict>> /\ current' = i /\ cursor' = 0
  BY DEF EnterMove
<1>3. /\ RootPaths(query)' = RootPaths(query)
      /\ ExpectedReplies(current)' = ExpectedReplies(i)
      /\ NodeAt(current)' = NodeAt(i)
  BY <1>2 DEF RootPaths, ExpectedReplies, NodeAt
<1>4. /\ i \in NodeIndices /\ i # NoNode
      /\ NodeAt(i).paths = Top.expected_paths
  BY <1>1 DEF TopInOrder, NodeIndices, NoNode
<1>5. /\ NodeAt(i).move # LeafMove
      /\ Len(NodeAt(i).replies) = Len(ExpectedReplies(i))
  BY <1>1 DEF GoodMove, LegalMove, LeafMove, Move
<1>6. i \in visited'
  BY <1>1 DEF Visit
<1>7. WalkShape'
  BY <1>1, <1>2, TopTakenShape DEF IInv, WalkShape
<1> HIDE DEF i
<1>8. SomethingLeft'
  <2> SUFFICES ASSUME InOptimalTour(query, RootPaths(query)), ~ TourClosed'
               PROVE  \/ \E j \in 1 .. Len(work') :
                           InOptimalTour(query, work'[j].expected_paths)
                      \/ \E k \in 1 .. Len(NodeAt(i).replies) :
                           Survives(query, NodeAt(i).paths, ExpectedReplies(i)[k])
    BY <1>2, <1>3, <1>4 DEF SomethingLeft
  <2>1. CASE InOptimalTour(query, Top.expected_paths)
    <3>1. PICK k \in 1 .. Len(ExpectedReplies(i)) :
             \/ Survives(query, NodeAt(i).paths, ExpectedReplies(i)[k])
             \/ ClosesTour(query, NodeAt(i).paths, ExpectedReplies(i)[k])
      BY <1>2, <1>3, <1>4, <2>1 DEF MoveExhaustive
    <3>2. ~ ClosesTour(query, NodeAt(i).paths, ExpectedReplies(i)[k])
      BY <1>2, <1>4, <1>5, <1>6 DEF TourClosed, NodeIndices, NodeAt, ExpectedReplies
    <3> QED
      BY <1>5, <3>1, <3>2
  <2>2. CASE ~ InOptimalTour(query, Top.expected_paths)
    BY <1>1, <1>2, <2>2, TopTaken
  <2> QED
    BY <2>1, <2>2
<1>9. AcceptedIsSound'
  BY <1>1, <1>2 DEF AcceptedIsSound, AtNode, BetweenNodes
<1> QED
  BY <1>7, <1>8, <1>9 DEF IInv

\* A reply that survives is possible, and its node goes on the stack.
LEMMA QueueChildStep ==
  ASSUME IInv, QueueChild
  PROVE  IInv'
<1> DEFINE entry == [node_index |-> Record.child_index, expected_paths |-> NextPaths.paths]
<1>1. RepliesLeft /\ GoodRecord
  BY DEF QueueChild
<1>2. UNCHANGED <<query, proof, visited, current, verdict>> /\ cursor' = cursor + 1
  BY DEF QueueChild
<1>3. work' = IF NextPaths.valid THEN Append(work, entry) ELSE work
  BY DEF QueueChild
<1>4. PICK S : work \in Seq(S)
  BY DEF IInv, WalkShape
<1>5. cursor \in Nat
  BY DEF IInv, WalkShape
<1>6. Len(work) \in Nat
  BY <1>4, LenProperties
<1> HIDE DEF entry
<1>7. /\ Append(work, entry) \in Seq(S \cup {entry})
      /\ Len(Append(work, entry)) = Len(work) + 1
      /\ \A i \in 1 .. Len(work) : Append(work, entry)[i] = work[i]
      /\ Append(work, entry)[Len(work) + 1] = entry
  BY <1>4, PushStack
<1>8. WalkShape'
  <2>1. \E Entries : work' \in Seq(Entries)
    BY <1>3, <1>4, <1>7
  <2> QED
    BY <1>2, <1>5, <2>1 DEF WalkShape
<1>9. \A i \in 1 .. Len(work) : i \in 1 .. Len(work') /\ work'[i] = work[i]
  BY <1>3, <1>6, <1>7
<1>10. /\ RootPaths(query)' = RootPaths(query)
       /\ ExpectedReplies(current)' = ExpectedReplies(current)
       /\ NodeAt(current)' = NodeAt(current)
  BY <1>2 DEF RootPaths, ExpectedReplies, NodeAt
<1>11. verdict = "running" /\ current # NoNode
  BY <1>1 DEF RepliesLeft
<1>12. SomethingLeft'
  <2> SUFFICES ASSUME InOptimalTour(query, RootPaths(query)), ~ TourClosed'
               PROVE  \/ \E i \in 1 .. Len(work') :
                           InOptimalTour(query, work'[i].expected_paths)
                      \/ \E k \in cursor' + 1 .. Len(NodeAt(current).replies) :
                           Survives(query, NodeAt(current).paths, ExpectedReplies(current)[k])
    BY <1>2, <1>10, <1>11 DEF SomethingLeft
  <2>1. ~ TourClosed
    BY <1>2, TourClosedStays
  <2>2. CASE \E i \in 1 .. Len(work) : InOptimalTour(query, work[i].expected_paths)
    BY <1>9, <2>2
  <2>3. CASE \E k \in cursor + 1 .. Len(NodeAt(current).replies) :
               Survives(query, NodeAt(current).paths, ExpectedReplies(current)[k])
    <3>1. PICK k \in cursor + 1 .. Len(NodeAt(current).replies) :
             Survives(query, NodeAt(current).paths, ExpectedReplies(current)[k])
      BY <2>3
    <3>2. CASE k = cursor + 1
      <4>1. NextPaths.valid /\ InOptimalTour(query, NextPaths.paths)
        BY <3>1, <3>2 DEF Survives, NextPaths, Addition
      <4>2. Len(work) + 1 \in 1 .. Len(work') /\ work'[Len(work) + 1] = entry
        BY <1>3, <1>6, <1>7, <4>1
      <4>3. entry.expected_paths = NextPaths.paths
        BY DEF entry
      <4> QED
        BY <4>1, <4>2, <4>3
    <3>3. CASE k # cursor + 1
      <4>1. k \in cursor' + 1 .. Len(NodeAt(current).replies)
        BY <1>2, <1>5, <3>1, <3>3
      <4> QED
        BY <3>1, <4>1
    <3> QED
      BY <3>2, <3>3
  <2> QED
    BY <1>11, <2>1, <2>2, <2>3 DEF IInv, SomethingLeft
<1>13. AcceptedIsSound'
  BY <1>2, <1>11 DEF AcceptedIsSound
<1> QED
  BY <1>8, <1>12, <1>13 DEF IInv

LEMMA LeaveMoveStep ==
  ASSUME IInv, LeaveMove
  PROVE  IInv'
<1>1. /\ verdict = "running" /\ current # NoNode
      /\ cursor = Len(NodeAt(current).replies)
      /\ current' = NoNode /\ cursor' = 0
      /\ UNCHANGED <<query, proof, work, visited, verdict>>
  BY DEF LeaveMove
<1>2. RootPaths(query)' = RootPaths(query)
  BY <1>1 DEF RootPaths
<1>3. TourClosed' = TourClosed
  BY <1>1 DEF TourClosed, NodeIndices, NodeAt, ExpectedReplies
<1>4. cursor \in Nat
  BY DEF IInv, WalkShape
<1>5. cursor + 1 .. Len(NodeAt(current).replies) = {}
  BY <1>1, <1>4
<1>6. WalkShape'
  BY <1>1 DEF IInv, WalkShape
<1>7. SomethingLeft'
  BY <1>1, <1>2, <1>3, <1>5 DEF IInv, SomethingLeft
<1>8. AcceptedIsSound'
  BY <1>1 DEF AcceptedIsSound
<1> QED
  BY <1>6, <1>7, <1>8 DEF IInv

\* When the stack is empty nothing is left, so there was no optimal tour.
LEMMA EndWalkStep ==
  ASSUME IInv, EndWalk
  PROVE  IInv'
<1>1. /\ verdict = "running" /\ current = NoNode /\ work = <<>>
      /\ verdict' \in {"accepted", "rejected"}
      /\ UNCHANGED <<query, proof, work, visited, current, cursor>>
  BY DEF EndWalk, BetweenNodes
<1>2. RootPaths(query)' = RootPaths(query)
  BY <1>1 DEF RootPaths
<1>3. TourClosed' = TourClosed
  BY <1>1 DEF TourClosed, NodeIndices, NodeAt, ExpectedReplies
<1>4. 1 .. Len(work) = {}
  BY <1>1
<1>5. WalkShape'
  BY <1>1 DEF IInv, WalkShape
<1>6. SomethingLeft'
  BY <1>1 DEF SomethingLeft
<1>7. AcceptedIsSound'
  BY <1>1, <1>2, <1>3, <1>4 DEF IInv, SomethingLeft, AcceptedIsSound
<1> QED
  BY <1>5, <1>6, <1>7 DEF IInv

\* Every step of the search or of the verifier keeps the invariant.
LEMMA StepIInv ==
  ASSUME IInv, LeafRefutes, MoveExhaustive', [Next]_vars
  PROVE  IInv'
<1>1. CASE UNCHANGED vars
  BY <1>1, OutsideTheWalk DEF vars
<1>2. CASE TryReply \/ SkipMove \/ ChildProven \/ ChildFailed \/ ReplyBudgetSpent
             \/ StateFails \/ MoveSucceeds \/ EnterState \/ StateBudgetSpent
             \/ Unresolved \/ Conclude
  BY <1>2, OutsideTheWalk
  DEF TryReply, SkipMove, ChildProven, ChildFailed, ReplyBudgetSpent, StateFails,
      MoveSucceeds, EnterState, StateBudgetSpent, Unresolved, Conclude, LeaveFrame
<1>3. CASE VerifyOwn \/ ReadBack
  BY <1>3, WalkBegins DEF VerifyOwn, ReadBack
<1>4. CASE Verify
  <2>1. CASE CheckLeaf BY <2>1, CheckLeafStep
  <2>2. CASE EnterMove BY <2>2, EnterMoveStep
  <2>3. CASE RejectNode BY <2>3, WalkEnds DEF RejectNode
  <2>4. CASE QueueChild BY <2>4, QueueChildStep
  <2>5. CASE RejectReply BY <2>5, WalkEnds DEF RejectReply
  <2>6. CASE LeaveMove BY <2>6, LeaveMoveStep
  <2>7. CASE EndWalk BY <2>7, EndWalkStep
  <2> QED
    BY <1>4, <2>1, <2>2, <2>3, <2>4, <2>5, <2>6, <2>7 DEF Verify, WalkStep
<1> QED
  BY <1>1, <1>2, <1>3, <1>4 DEF Next

LEMMA InitIInv ==
  ASSUME Init
  PROVE  IInv
<1>1. work = <<>> /\ cursor = 0 /\ verdict = "none"
  BY DEF Init, WalkInit
<1>2. <<>> \in Seq({})
  OBVIOUS
<1> QED
  BY <1>1, <1>2 DEF IInv, WalkShape, SomethingLeft, AcceptedIsSound

----------------------------------------------------------------------------
\* While the verifier runs, an optimal tour with the target edge has a place
\* to go, whatever proof is being read.
THEOREM SomethingIsLeft ==
  Spec /\ []MoveExhaustive /\ []LeafRefutes => []SomethingLeft
<1>1. IInv /\ LeafRefutes /\ MoveExhaustive' /\ [Next]_vars => IInv'
  BY StepIInv
<1>2. IInv => SomethingLeft
  BY DEF IInv
<1> QED
  BY InitIInv, <1>1, <1>2, PTL DEF Spec

\* The target of an accepted proof is in no optimal tour, unless a reply in
\* the proof closes one.
THEOREM AcceptedProofsAreSound ==
  Spec /\ []MoveExhaustive /\ []LeafRefutes => []AcceptedIsSound
<1>1. IInv /\ LeafRefutes /\ MoveExhaustive' /\ [Next]_vars => IInv'
  BY StepIInv
<1>2. IInv => AcceptedIsSound
  BY DEF IInv
<1> QED
  BY InitIInv, <1>1, <1>2, PTL DEF Spec
=============================================================================
