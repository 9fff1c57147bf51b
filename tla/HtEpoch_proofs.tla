--------------------------- MODULE HtEpoch_proofs ----------------------------
(***************************************************************************)
(* Lemmas about CommitHtProofEpoch for every caller: the invariant of an   *)
(* epoch, kept by each of its actions, and what its log certifies.  The    *)
(* proofs about the scan and about the commands cite them.                 *)
(***************************************************************************)
EXTENDS HtEpoch, EdgeCommit_proofs

\* The edges the proofs of the batch are about.
Targets == {p.target : p \in batch}

(* While an epoch runs, the caller's graph is the hashed snapshot, on      *)
(* which every proof of the batch was verified; the sweep works on a copy  *)
(* of it, selects greedily from the targets, and has deleted exactly that  *)
(* from the copy when it is through.                                       *)
EpochInv ==
  /\ CommitInv
  /\ graph \subseteq Edge
  /\ epochPc = "commit" =>
       /\ snapshotHash = graph
       /\ \A p \in batch : VerifyHtRecursiveProof(graph, p) /\ p.text \in Nat
       /\ phase = "sweep" => active = graph /\ GreedyOver(Targets)
       /\ phase = "idle" /\ result = "committed" =>
            active = graph \ Committed /\ GreedySubset(Committed, Targets, graph)
  /\ EpochCertified

(* An epoch of verified proofs establishes it.                             *)
LEMMA BeginEpochInv ==
  ASSUME EpochInv, NEW proofs, BeginEpoch(proofs), active = graph,
         \A p \in proofs : p.text \in Nat
  PROVE  EpochInv'
<1> DEFINE B == {HtCandidate(p.target) : p \in proofs}
<1>1. /\ BeginCommit(B, graph) /\ snapshotHash' = graph /\ batch' = proofs
      /\ graph' = graph /\ epochPc' = "commit"
      /\ \A p \in proofs : VerifyHtRecursiveProof(graph, p)
  BY DEF BeginEpoch, ContentHash
<1>2. B \in SUBSET Candidate
  <2>1. \A p \in proofs : p.target \in Int
    <3>1. Edge \subseteq Int
      BY SnapshotAssumption DEF Edge
    <3>2. \A p \in proofs : p.target \in graph
      BY <1>1 DEF VerifyHtRecursiveProof
    <3> QED
      BY <3>1, <3>2 DEF EpochInv
  <2>2. \A p \in proofs : HtCandidate(p.target) \in Candidate
    BY <2>1 DEF HtCandidate, Candidate, NoWitness, kHamiltonTutte
  <2> QED
    BY <2>2
<1>3. EdgesOf(B) = {p.target : p \in proofs}
  <2>1. \A p \in proofs : HtCandidate(p.target).edge = p.target
    BY DEF HtCandidate
  <2>2. \A e : e \in EdgesOf(B) <=> \E p \in proofs : e = HtCandidate(p.target).edge
    BY DEF EdgesOf
  <2> QED
    BY <2>1, <2>2
<1> HIDE DEF B
<1>4. CommitInv'
  BY <1>1, <1>2, BeginInv DEF EpochInv
<1>5. GreedyOver(EdgesOf(B))'
  BY <1>1, <1>2, BeginGreedy
<1>6. Targets' = EdgesOf(B)'
  BY <1>1, <1>3 DEF Targets, EdgesOf
<1>7. GreedyOver(Targets)'
  BY <1>5, <1>6 DEF GreedyOver
<1>8. phase' = "sweep" /\ active' = active
  BY <1>1 DEF BeginCommit, graphVars
<1>9. EpochCertified'
  BY <1>1 DEF EpochCertified
<1>10. \A p \in batch' : VerifyHtRecursiveProof(graph', p) /\ p.text \in Nat
  BY <1>1
<1> QED
  BY <1>1, <1>4, <1>7, <1>8, <1>9, <1>10 DEF EpochInv, VerifyHtRecursiveProof, ContentHash

(* So does any step that leaves the epoch alone, when it keeps CommitInv   *)
(* and no epoch is running.                                                *)
LEMMA NoEpochInv ==
  ASSUME EpochInv, CommitInv', graph' \subseteq Edge, epochPc' \notin {"commit", "returned"}
  PROVE  EpochInv'
BY DEF EpochInv, EpochCertified

(* A step of nobody.                                                       *)
LEMMA EpochStutters ==
  ASSUME EpochInv, UNCHANGED <<commitVars, epochVars>>
  PROVE  EpochInv'
<1>1. UNCHANGED <<active, csr, snapshotHash, phase, queue, degrees, committed, result,
                  graph, epochPc, batch, epochLog>>
  BY DEF commitVars, epochVars
<1>2. CommitInv'
  BY CommitStutters DEF EpochInv
<1>3. EpochCertified'
  BY <1>1 DEF EpochInv, EpochCertified
<1>4. Targets' = Targets /\ Committed' = Committed
  BY <1>1 DEF Targets, Committed
<1>5. GreedyOver(Targets)' <=> GreedyOver(Targets)
  BY <1>1, <1>4 DEF GreedyOver, EdgesOf
<1> QED
  BY <1>1, <1>2, <1>3, <1>4, <1>5 DEF EpochInv

(* One step of the sweep.                                                  *)
LEMMA SweepEpochInv ==
  ASSUME EpochInv, SweepEpoch
  PROVE  EpochInv'
<1>1. /\ epochPc = "commit" /\ Sweep
      /\ UNCHANGED <<snapshotHash, graph, epochPc, batch, epochLog>>
  BY DEF SweepEpoch
<1>2. CommitInv'
  BY <1>1, LeaveInv, SkipInv, TakeInv DEF Sweep, EpochInv
<1>3. EpochCertified'
  BY <1>1 DEF EpochCertified
<1>4. Targets' = Targets
  BY <1>1 DEF Targets
<1>5. phase = "sweep"
  BY <1>1 DEF Sweep, PublishCommit, AbortCommit, SkipCandidate, TakeCandidate
<1>6. active = graph /\ GreedyOver(Targets)
  BY <1>1, <1>5 DEF EpochInv
<1>7. ASSUME NEW c \in queue, SkipCandidate(c) \/ TakeCandidate(c)
      PROVE  EpochInv'
  <2>1. phase' = "sweep" /\ active' = active
    BY <1>5, <1>7 DEF SkipCandidate, TakeCandidate
  <2>2. GreedyOver(Targets)'
    <3> DEFINE W == Targets
    <3>1. GreedyOver(W)
      BY <1>6
    <3>2. W' = W
      BY <1>4
    <3> SUFFICES ASSUME NEW w, w = W
                 PROVE  GreedyOver(w)'
      BY <3>2 DEF GreedyOver
    <3>3. GreedyOver(w)
      BY <3>1
    <3> QED
      BY <1>7, <3>3, IterationGreedy DEF EpochInv
  <2> QED
    BY <1>1, <1>2, <1>3, <1>6, <2>1, <2>2 DEF EpochInv
<1>8. CASE PublishCommit
  <2>1. /\ GreedySubset(Committed, Targets, active)
        /\ active' = active \ Committed /\ Committed' = Committed
    BY <1>6, <1>8, PublishGreedy
  <2>2. phase' = "idle"
    BY <1>8 DEF PublishCommit
  <2>3. GreedySubset(Committed', Targets', graph')
    BY <1>1, <1>4, <1>6, <2>1
  <2> QED
    BY <1>1, <1>2, <1>3, <1>6, <2>1, <2>2, <2>3 DEF EpochInv
<1>9. CASE AbortCommit
  <2>1. phase' = "idle" /\ result' = "threw"
    BY <1>9 DEF AbortCommit
  <2> QED
    BY <1>1, <1>2, <1>3, <2>1 DEF EpochInv
<1> QED
  BY <1>1, <1>7, <1>8, <1>9 DEF Sweep

(* Of the proofs of an edge one comes first.                               *)
LEMMA SelectedFirst ==
  ASSUME NEW proofs, NEW e, \A p \in proofs : p.text \in Nat, \E p \in proofs : p.target = e
  PROVE  LET own == Selected(proofs, e)
         IN  /\ own \in proofs /\ own.target = e
             /\ \A q \in proofs : q.target = e => own.text <= q.text
<1> DEFINE Texts == {p.text : p \in {q \in proofs : q.target = e}}
<1>1. Texts \in SUBSET Nat /\ Texts # {}
  OBVIOUS
<1>2. PICK t \in Texts : \A u \in Texts : t <= u
  <2> HIDE DEF Texts
  <2> QED
    BY <1>1, SmallestOf
<1>3. PICK p \in proofs : p.target = e /\ p.text = t
  BY <1>2
<1>4. \A q \in proofs : q.target = e => p.text <= q.text
  BY <1>2, <1>3
<1> QED
  BY <1>3, <1>4 DEF Selected

(* Publishing: the graph loses what was deleted from the copy, and the log *)
(* certifies each deletion.                                                *)
LEMMA PublishEpochInv ==
  ASSUME EpochInv, PublishEpoch
  PROVE  EpochInv'
<1>1. /\ epochPc = "commit" /\ phase = "idle" /\ result = "committed"
      /\ graph' = active /\ epochPc' = "returned" /\ batch' = batch
      /\ UNCHANGED commitVars
  BY DEF PublishEpoch, ContentHash
<1>2. /\ epochLog'.initial = snapshotHash
      /\ epochLog'.final = active
      /\ epochLog'.proof = HtRecords(snapshotHash, committed)
      /\ epochLog'.certificates = [i \in DOMAIN committed |-> Selected(batch, committed[i].edge)]
  BY DEF PublishEpoch, ContentHash
<1>3. /\ snapshotHash = graph
      /\ \A p \in batch : VerifyHtRecursiveProof(graph, p) /\ p.text \in Nat
      /\ active = graph \ Committed
      /\ Committed \subseteq Targets
  BY <1>1 DEF EpochInv, GreedySubset
<1>4. CommitInv'
  BY <1>1, CommitStutters DEF EpochInv
<1>5. committed \in Seq(Candidate)
  BY DEF EpochInv, CommitInv, CommitTypeOK
<1>6. EpochCertified'
  <2> DEFINE records == HtRecords(snapshotHash, committed)
             sidecars == [i \in DOMAIN committed |-> Selected(batch, committed[i].edge)]
  <2>1. DOMAIN committed = 1 .. Len(committed) /\ Len(committed) \in Nat
    BY <1>5
  <2>2. Len(sidecars) = Len(records) /\ DOMAIN records = DOMAIN committed
    BY <2>1 DEF HtRecords
  <2>3. graph' = snapshotHash \ {records[i].edge : i \in DOMAIN records}
    BY <1>1, <1>3 DEF HtRecords, Committed
  <2>4. ASSUME NEW i \in DOMAIN records
        PROVE  LET own == sidecars[records[i].certificate + 1]
               IN  /\ own.target = records[i].edge
                   /\ VerifyHtRecursiveProof(snapshotHash, own)
                   /\ \A q \in batch : q.target = own.target => own.text <= q.text
    <3> DEFINE own == Selected(batch, committed[i].edge)
    <3>1. i \in DOMAIN committed /\ i \in Int
      BY <2>1 DEF HtRecords
    <3>2. records[i].certificate + 1 = i /\ records[i].edge = committed[i].edge
      BY <3>1 DEF HtRecords
    <3>3. sidecars[records[i].certificate + 1] = own
      BY <3>1, <3>2
    <3>4. \E p \in batch : p.target = committed[i].edge
      BY <1>3, <3>1 DEF Committed, Targets
    <3>5. /\ own \in batch /\ own.target = committed[i].edge
          /\ \A q \in batch : q.target = committed[i].edge => own.text <= q.text
      BY <1>3, <3>4, SelectedFirst
    <3> HIDE DEF own
    <3> QED
      BY <1>3, <3>2, <3>3, <3>5
  <2> HIDE DEF records, sidecars
  <2>5. /\ epochLog'.initial = snapshotHash /\ epochLog'.final = active
        /\ epochLog'.proof = records /\ epochLog'.certificates = sidecars
    BY <1>2 DEF records, sidecars
  <2>6. graph' = epochLog'.final /\ batch' = batch
    BY <1>1, <2>5
  <2>7. graph' = epochLog'.initial \ {epochLog'.proof[i].edge : i \in DOMAIN epochLog'.proof}
    BY <2>3, <2>5
  <2>8. Len(epochLog'.certificates) = Len(epochLog'.proof)
    BY <2>2, <2>5
  <2>9. ASSUME NEW i \in DOMAIN epochLog'.proof
        PROVE  LET own == epochLog'.certificates[epochLog'.proof[i].certificate + 1]
               IN  /\ own.target = epochLog'.proof[i].edge
                   /\ VerifyHtRecursiveProof(epochLog'.initial, own)
                   /\ \A q \in batch' : q.target = own.target => own.text <= q.text
    BY <2>4, <2>5, <2>6
  <2> QED
    BY <2>6, <2>7, <2>8, <2>9 DEF EpochCertified, ContentHash, VerifyHtRecursiveProof
<1>7. graph' \subseteq Edge
  BY <1>1, <1>3 DEF EpochInv
<1> QED
  BY <1>1, <1>4, <1>6, <1>7 DEF EpochInv

(* An exception: the copy goes.                                            *)
LEMMA AbortEpochInv ==
  ASSUME EpochInv, AbortEpoch
  PROVE  EpochInv'
<1>1. /\ active' = graph /\ csr' = graph /\ phase = "idle" /\ epochPc' = "threw"
      /\ graph' = graph
      /\ UNCHANGED <<snapshotHash, phase, queue, degrees, committed, result>>
  BY DEF AbortEpoch, sweepVars
<1>2. CommitInv'
  BY <1>1 DEF EpochInv, CommitInv, CommitTypeOK, CsrFresh, SweepInv, OneRecordPerDeletion
<1> QED
  BY <1>1, <1>2, NoEpochInv DEF EpochInv

(* Every step of an epoch keeps its invariant.                             *)
LEMMA EpochStepInv ==
  ASSUME EpochInv, EpochStep
  PROVE  EpochInv'
BY SweepEpochInv, PublishEpochInv, AbortEpochInv DEF EpochStep

(* What a step of an epoch does to the graph of the caller.                *)
LEMMA EpochStepGraph ==
  ASSUME EpochInv, EpochStep
  PROVE  \/ graph' = graph /\ epochPc' # "returned"
         \/ epochPc' = "returned" /\ graph' = graph \ Committed
BY DEF EpochStep, SweepEpoch, PublishEpoch, AbortEpoch, EpochInv
=============================================================================
