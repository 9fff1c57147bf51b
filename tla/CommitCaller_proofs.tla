------------------------ MODULE CommitCaller_proofs -------------------------
(***************************************************************************)
(* Proofs about CommitVerifiedCandidates under any caller, for every graph *)
(* and every set of batches: the invariant of the sweep loop, what follows *)
(* from it about the graph, and that the loop implements a commit in one   *)
(* step.                                                                   *)
(***************************************************************************)
EXTENDS CommitCaller, EdgeCommit_proofs

-----------------------------------------------------------------------------
(* A caller that hashes the graph between two calls keeps the invariant.   *)
LEMMA TakeSnapshotInv ==
  ASSUME CommitInv, TakeSnapshot
  PROVE  CommitInv'
BY HashInv DEF TakeSnapshot

(* Every step of any caller keeps the invariant.                           *)
LEMMA NextInv ==
  ASSUME CommitInv, [CommitNext]_commitVars
  PROVE  CommitInv'
<1>1. CASE TakeSnapshot
  BY <1>1, TakeSnapshotInv
<1>2. CASE Call
  <2>1. PICK B \in Batches : BeginCommit(B, snapshotHash) \/ RejectCommit(B, snapshotHash)
    BY <1>2 DEF Call
  <2>2. B \in SUBSET Candidate /\ UNCHANGED snapshotHash
    BY <1>2, BatchAssumption DEF Call
  <2>3. QED
    BY <2>1, <2>2, BeginInv, RejectInv
<1>3. CASE Sweep /\ UNCHANGED snapshotHash
  BY <1>3, LeaveInv, SkipInv, TakeInv DEF Sweep
<1>4. CASE UNCHANGED commitVars
  BY <1>4, CommitStutters
<1>5. QED
  BY <1>1, <1>2, <1>3, <1>4 DEF CommitNext

-----------------------------------------------------------------------------
(* The invariant holds throughout, for every graph and every batch.        *)
THEOREM CommitInvariant == CommitSpec => []CommitInv
<1>1. CommitInit => CommitInv
  BY InitInv
<1>2. CommitInv /\ [CommitNext]_commitVars => CommitInv'
  BY NextInv
<1>3. QED
  BY <1>1, <1>2, PTL DEF CommitSpec

(* Types of the variables of a commit.                                     *)
THEOREM TypesCorrect == CommitSpec => []CommitTypeOK
<1>1. CommitInv => CommitTypeOK
  BY DEF CommitInv
<1>2. QED
  BY <1>1, CommitInvariant, PTL

(* Rows and active bits agree whenever the graph can be looked at.         *)
THEOREM RowsAreFresh == CommitSpec => []CsrFresh
<1>1. CommitInv => CsrFresh
  BY DEF CommitInv
<1>2. QED
  BY <1>1, CommitInvariant, PTL

(* The loop works on the snapshot its candidates were verified on, and its *)
(* counters are the degrees the graph would have if it stopped.            *)
THEOREM SweepIsExact == CommitSpec => []SweepInv
<1>1. CommitInv => SweepInv
  BY DEF CommitInv
<1>2. QED
  BY <1>1, CommitInvariant, PTL

(* No deletion is reported twice, and the records come in edge order.      *)
THEOREM RecordsAreCanonical == CommitSpec => []OneRecordPerDeletion
<1>1. CommitInv => OneRecordPerDeletion
  BY DEF CommitInv
<1>2. QED
  BY <1>1, CommitInvariant, PTL

(* No commit leaves a node it touched with fewer than two edges.           *)
THEOREM DegreesKept == CommitSpec => DegreeFloor
<1>1. CommitInv /\ [CommitNext]_commitVars
        => [DegreesStayUp]_active
  <2> SUFFICES ASSUME CommitInv, [CommitNext]_commitVars
               PROVE  [DegreesStayUp]_active
    OBVIOUS
  <2>1. CASE PublishCommit
    <3>1. active' = active \ Committed /\ phase = "sweep"
      BY <2>1 DEF PublishCommit
    <3>2. ASSUME NEW n \in Node
          PROVE  Degree(active', n) >= 2 \/ Degree(active', n) = Degree(active, n)
      <4>1. /\ degrees[n] = Degree(active \ Committed, n)
            /\ degrees[n] >= 2 \/ \A e \in Committed : ~ Incident(e, n)
        BY <3>1 DEF CommitInv, SweepInv
      <4>2. CASE degrees[n] >= 2
        BY <3>1, <4>1, <4>2
      <4>3. CASE \A e \in Committed : ~ Incident(e, n)
        BY <3>1, <4>3, UntouchedNode
      <4>4. QED
        BY <4>1, <4>2, <4>3
    <3>3. QED
      BY <3>2 DEF DegreesStayUp
  <2>2. CASE UNCHANGED active
    BY <2>2
  <2>3. PublishCommit \/ UNCHANGED active
    BY DEF CommitNext, TakeSnapshot, Call, BeginCommit, RejectCommit, Sweep,
               SkipCandidate, TakeCandidate, AbortCommit, graphVars, commitVars
  <2>4. QED
    BY <2>1, <2>2, <2>3
<1>2. QED
  BY <1>1, CommitInvariant, PTL DEF CommitSpec, DegreeFloor

-----------------------------------------------------------------------------
(***************************************************************************)
(* The sweep loop implements the one-step commit of AtomicCommit.  On top  *)
(* of the invariant above the proof carries GreedySoFar, which relates the *)
(* loop to the batch it was given.                                         *)
(***************************************************************************)

-----------------------------------------------------------------------------
(* The loop works off some batch, greedily.                                *)
GreedyInv == CommitInv /\ GreedySoFar

(* GreedySoFar says of some batch what GreedyOver says of a set of edges.  *)
LEMMA GreedyForSome ==
  GreedySoFar <=> (phase = "sweep" => \E B \in Batches : GreedyOver(EdgesOf(B)))
BY DEF GreedySoFar, GreedyOver, EdgesBelow, Atomic!Below

(* The same of the next state.                                             *)
LEMMA GreedyForSomeNext ==
  GreedySoFar' <=> (phase' = "sweep" => \E B \in Batches : GreedyOver(EdgesOf(B))')
BY DEF GreedySoFar, GreedyOver, EdgesBelow, Atomic!Below, EdgesOf

(* Every step of any caller keeps the strengthened invariant.              *)
LEMMA NextGreedy ==
  ASSUME GreedyInv, [CommitNext]_commitVars
  PROVE  GreedyInv'
<1>1. CommitInv'
  BY NextInv DEF GreedyInv
<1>2. CASE Call
  <2>1. PICK B \in Batches : BeginCommit(B, snapshotHash) \/ RejectCommit(B, snapshotHash)
    BY <1>2 DEF Call
  <2>2. CASE BeginCommit(B, snapshotHash)
    BY <1>1, <2>2, BatchAssumption, BeginGreedy, GreedyForSomeNext DEF GreedyInv
  <2>3. CASE RejectCommit(B, snapshotHash)
    BY <1>1, <2>3 DEF RejectCommit, GreedyInv, GreedySoFar
  <2>4. QED
    BY <2>1, <2>2, <2>3
<1>3. CASE PublishCommit \/ AbortCommit
  BY <1>1, <1>3 DEF PublishCommit, AbortCommit, GreedyInv, GreedySoFar
<1>4. CASE \E c \in queue : SkipCandidate(c) \/ TakeCandidate(c)
  <2>1. PICK c \in queue : SkipCandidate(c) \/ TakeCandidate(c)
    BY <1>4
  <2>2. phase = "sweep" /\ CommitInv
    BY <2>1 DEF SkipCandidate, TakeCandidate, GreedyInv
  <2>3. PICK B \in Batches : GreedyOver(EdgesOf(B))
    BY <2>2, GreedyForSome DEF GreedyInv
  <2>4. GreedyOver(EdgesOf(B))'
    <3> DEFINE wanted == EdgesOf(B)
    <3>1. GreedyOver(wanted)
      BY <2>3
    <3> HIDE DEF wanted
    <3>2. GreedyOver(wanted)'
      BY <2>1, <2>2, <3>1, IterationGreedy
    <3> QED
      BY <3>2 DEF wanted, GreedyOver
  <2>5. GreedySoFar'
    BY <2>4, GreedyForSomeNext
  <2> QED
    BY <1>1, <2>5 DEF GreedyInv
<1>5. CASE TakeSnapshot \/ UNCHANGED commitVars
  <2>1. UNCHANGED <<active, queue, committed, phase>>
    BY <1>5 DEF TakeSnapshot, graphVars, sweepVars, commitVars
  <2>2. Committed' = Committed /\ EdgesOf(queue)' = EdgesOf(queue)
    BY <2>1 DEF Committed, EdgesOf
  <2>3. GreedySoFar'
    BY <2>1, <2>2 DEF GreedyInv, GreedySoFar, EdgesOf
  <2>4. QED
    BY <1>1, <2>3 DEF GreedyInv
<1>6. QED
  BY <1>2, <1>3, <1>4, <1>5 DEF CommitNext, Sweep

(* The strengthened invariant holds throughout.                            *)
LEMMA GreedyInvariant == CommitSpec => []GreedyInv
<1>1. CommitInit => GreedyInv
  BY InitInv DEF GreedyInv, GreedySoFar, CommitInit
<1>2. GreedyInv /\ [CommitNext]_commitVars => GreedyInv'
  BY NextGreedy
<1>3. QED
  BY <1>1, <1>2, PTL DEF CommitSpec

(* The loop is always in the middle of a greedy selection from one batch,  *)
(* for every graph, every set of batches and every sequence of calls.      *)
THEOREM SelectionIsGreedy == CommitSpec => []GreedySoFar
<1>1. GreedyInv => GreedySoFar
  BY DEF GreedyInv
<1>2. QED
  BY <1>1, GreedyInvariant, PTL

-----------------------------------------------------------------------------
(* Publishing is the one step of the abstract commit.                      *)
LEMMA PublishSimulates ==
  ASSUME GreedyInv, PublishCommit, UNCHANGED snapshotHash
  PROVE  Atomic!Commit
<1>1. PICK B \in Batches :
        /\ EdgesOf(B) \subseteq active
        /\ Committed \subseteq EdgesOf(B)
        /\ \A e \in EdgesOf(B) :
             e \in Committed <=> Deletable(active \ Atomic!Below(Committed, e), e)
  BY DEF PublishCommit, GreedyInv, GreedySoFar, EdgesOf
<1>2. active' = active \ Committed /\ active \ active' = Committed
  BY <1>1 DEF PublishCommit
<1>3. Atomic!IsGreedy(active \ active', EdgesOf(B), active)
  BY <1>1, <1>2 DEF Atomic!IsGreedy
<1>4. snapshotHash = active
  BY DEF PublishCommit, GreedyInv, CommitInv, SweepInv, ContentHash
<1>5. QED
  BY <1>1, <1>2, <1>3, <1>4 DEF Atomic!Commit

(* The detailed commit implements the abstract one, for every graph, every *)
(* set of batches and every sequence of calls.                             *)
THEOREM CommitIsAtomic == CommitSpec => ImplementsAtomicCommit
<1>1. CommitInit => Atomic!Init
  BY DEF CommitInit, Atomic!Init, ContentHash
<1>2. GreedyInv /\ [CommitNext]_commitVars => [Atomic!Next]_Atomic!vars
  <2> SUFFICES ASSUME GreedyInv, [CommitNext]_commitVars
               PROVE  [Atomic!Next]_Atomic!vars
    OBVIOUS
  <2>1. CASE TakeSnapshot
    BY <2>1 DEF TakeSnapshot, graphVars, ContentHash, Atomic!Next, Atomic!Hash
  <2>2. CASE PublishCommit /\ UNCHANGED snapshotHash
    BY <2>2, PublishSimulates DEF Atomic!Next
  <2>3. CASE UNCHANGED <<active, snapshotHash>>
    BY <2>3 DEF Atomic!vars
  <2>4. TakeSnapshot \/ (PublishCommit /\ UNCHANGED snapshotHash)
          \/ UNCHANGED <<active, snapshotHash>>
    BY DEF CommitNext, Call, BeginCommit, RejectCommit, Sweep, SkipCandidate,
           TakeCandidate, AbortCommit, graphVars, commitVars
  <2>5. QED
    BY <2>1, <2>2, <2>3, <2>4
<1>3. QED
  BY <1>1, <1>2, GreedyInvariant, PTL
  DEF CommitSpec, ImplementsAtomicCommit, Atomic!Spec
=============================================================================
