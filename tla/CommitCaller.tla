---------------------------- MODULE CommitCaller ----------------------------
(***************************************************************************)
(* Any sequence of calls of CommitVerifiedCandidates.  A caller hashes the *)
(* graph, and calls with some batch and that hash, possibly after other    *)
(* calls have committed: what the interface itself guarantees, whoever the *)
(* caller is.                                                              *)
(***************************************************************************)
EXTENDS EdgeCommit

CONSTANT Batches        \* candidate batches a caller may hand in

ASSUME BatchAssumption == Batches \subseteq SUBSET Candidate

TakeSnapshot ==
  /\ phase = "idle"
  /\ snapshotHash' = ContentHash(active)
  /\ UNCHANGED <<graphVars, sweepVars>>

Call ==
  /\ \E batch \in Batches :
       BeginCommit(batch, snapshotHash) \/ RejectCommit(batch, snapshotHash)
  /\ UNCHANGED snapshotHash

CommitNext == TakeSnapshot \/ Call \/ (Sweep /\ UNCHANGED snapshotHash)

CommitSpec == CommitInit /\ [][CommitNext]_commitVars

-----------------------------------------------------------------------------
DegreesStayUp ==
  \A n \in Node : Degree(active', n) >= 2 \/ Degree(active', n) = Degree(active, n)

(* Whatever batches are committed one after the other, no call lowers the  *)
(* degree of a node below two: a node either keeps at least two edges or   *)
(* is left alone (elimination_commit.cpp:54-63).                           *)
DegreeFloor == [][DegreesStayUp]_active

Atomic == INSTANCE AtomicCommit
            WITH held <- snapshotHash,
                 EdgeBatches <- {EdgesOf(batch) : batch \in Batches}

(* The loop implements the one-step commit: what is deleted is the greedy  *)
(* subset of some batch, and only on the graph whose hash the caller took  *)
(* (elimination_commit.cpp:13-75).                                         *)
ImplementsAtomicCommit == Atomic!Spec

(* Why it does, as the loop sees it: some batch is being worked off, and   *)
(* of its edges that left the queue exactly those are accepted that the    *)
(* degree gate lets pass behind the accepted edges with smaller ids.       *)
GreedySoFar ==
  phase = "sweep" =>
    \E batch \in Batches :
      /\ EdgesOf(batch) \subseteq active
      /\ EdgesOf(queue) \cup Committed \subseteq EdgesOf(batch)
      /\ \A e \in EdgesOf(batch) \ EdgesOf(queue) :
           /\ \A f \in EdgesOf(queue) : e < f
           /\ e \in Committed <=> Deletable(active \ Atomic!Below(Committed, e), e)
=============================================================================
