-------------------------- MODULE EdgeCommit_proofs --------------------------
(***************************************************************************)
(* Lemmas about CommitVerifiedCandidates for every caller: the invariant   *)
(* of the sweep loop, kept by each of its actions, and that the loop       *)
(* accepts the greedy subset of what it is given.  The proofs about the    *)
(* callers (CommitCaller_proofs, HtScan_proofs, Commands_proofs and        *)
(* LocalElimination_proofs) cite them.                                     *)
(***************************************************************************)
EXTENDS EdgeCommit, FiniteSetTheorems, TLAPS

-----------------------------------------------------------------------------
(* Rows and degrees.                                                       *)

(* A row of a set of edges is a finite set.                                *)
LEMMA RowFinite ==
  ASSUME NEW S \in SUBSET Edge, NEW n \in Node
  PROVE  /\ IsFiniteSet(Row(S, n))
         /\ Degree(S, n) \in Nat
<1>1. IsFiniteSet(Edge)
  BY SnapshotAssumption, FS_Interval DEF Edge
<1>2. IsFiniteSet(Row(S, n))
  BY <1>1, FS_Subset DEF Row
<1>3. QED
  BY <1>2, FS_CardinalityType DEF Degree

(* Deleting an edge takes one from the degree of its endpoints and leaves  *)
(* the other degrees alone: what the decrements of the loop compute.       *)
LEMMA DeleteEdge ==
  ASSUME NEW S \in SUBSET Edge, NEW e \in S, NEW n \in Node
  PROVE  Degree(S \ {e}, n) = IF Incident(e, n) THEN Degree(S, n) - 1 ELSE Degree(S, n)
<1>1. CASE Incident(e, n)
  <2>1. Row(S \ {e}, n) = Row(S, n) \ {e} /\ e \in Row(S, n)
    BY <1>1 DEF Row
  <2>2. Cardinality(Row(S, n) \ {e}) = Cardinality(Row(S, n)) - 1
    BY <2>1, RowFinite, FS_RemoveElement
  <2>3. QED
    BY <1>1, <2>1, <2>2 DEF Degree
<1>2. CASE ~ Incident(e, n)
  <2>1. Row(S \ {e}, n) = Row(S, n)
    BY <1>2 DEF Row
  <2>2. QED
    BY <1>2, <2>1 DEF Degree
<1>3. QED
  BY <1>1, <1>2

(* A node that no deleted edge touches keeps its degree.                   *)
LEMMA UntouchedNode ==
  ASSUME NEW S, NEW D, NEW n, \A e \in D : ~ Incident(e, n)
  PROVE  Degree(S \ D, n) = Degree(S, n)
<1>1. Row(S \ D, n) = Row(S, n)
  BY DEF Row
<1>2. QED
  BY <1>1 DEF Degree

(* The endpoints of an edge are two nodes.                                 *)
LEMMA EndsAreNodes ==
  ASSUME NEW e \in Edge
  PROVE  EndU[e] \in Node /\ EndV[e] \in Node
BY SnapshotAssumption

(* Of the candidates for one edge exactly one is canonical: the order on   *)
(* methods and witnesses is total.                                         *)
LEMMA CanonicalUnique ==
  ASSUME NEW B \in SUBSET Candidate, NEW c \in Canonical(B), NEW d \in Canonical(B),
         c.edge = d.edge
  PROVE  c = d
<1>1. c \in Candidate /\ d \in Candidate /\ ~ Before(c, d) /\ ~ Before(d, c)
  BY DEF Canonical
<1>2. /\ c.method \in Int /\ d.method \in Int
      /\ c.witness \in Int /\ d.witness \in Int
  BY <1>1, SnapshotAssumption DEF Candidate, Node, NoWitness
<1>3. c.method = d.method /\ c.witness = d.witness
  BY <1>1, <1>2 DEF Before
<1>4. QED
  BY <1>1, <1>3 DEF Candidate

-----------------------------------------------------------------------------
(* The inductive invariant.  CsrFresh makes the counters start from the    *)
(* true degrees, SweepInv carries them through the loop, and the order     *)
(* between the queue and the accepted edges in SweepInv is what makes the  *)
(* records strictly ordered.                                               *)
CommitInv == CommitTypeOK /\ CsrFresh /\ SweepInv /\ OneRecordPerDeletion

(* The invariant holds before the first call.                              *)
LEMMA InitInv ==
  ASSUME CommitInit
  PROVE  CommitInv
<1>1. CommitTypeOK
  BY CommitAssumption DEF CommitInit, CommitTypeOK, NoDegrees, ContentHash
<1>2. CsrFresh /\ SweepInv /\ OneRecordPerDeletion
  BY DEF CommitInit, CsrFresh, SweepInv, OneRecordPerDeletion
<1>3. QED
  BY <1>1, <1>2 DEF CommitInv

(* Entering the loop establishes its invariant, whatever the batch.        *)
LEMMA BeginInv ==
  ASSUME CommitInv, NEW B \in SUBSET Candidate, NEW hash,
         BeginCommit(B, hash), snapshotHash' = hash
  PROVE  CommitInv'
<1> USE DEF BeginCommit, graphVars
<1>1. CommitTypeOK'
  <2>1. Canonical(B) \subseteq Candidate
    BY DEF Canonical
  <2>2. degrees' \in [Node -> Int]
    BY RowFinite DEF CommitInv, CommitTypeOK
  <2>3. QED
    BY <2>1, <2>2 DEF CommitInv, CommitTypeOK, WellFormed, ContentHash
<1>2. CsrFresh'
  BY DEF CommitInv, CsrFresh
<1>3. SweepInv'
  <2>1. Committed' = {}
    BY DEF Committed
  <2>2. EdgesOf(queue)' \subseteq active'
    BY DEF WellFormed, EdgesOf, Canonical
  <2>3. \A c, d \in queue' : c.edge = d.edge => c = d
    BY CanonicalUnique
  <2>4. \A n \in Node : degrees'[n] = Degree(active' \ Committed', n)
    BY <2>1 DEF CommitInv, CsrFresh
  <2>5. snapshotHash' = ContentHash(active')
    BY DEF WellFormed
  <2>6. QED
    BY <2>1, <2>2, <2>3, <2>4, <2>5 DEF SweepInv
<1>4. OneRecordPerDeletion'
  BY DEF OneRecordPerDeletion
<1>5. QED
  BY <1>1, <1>2, <1>3, <1>4 DEF CommitInv

(* A refused call changes nothing that the invariant is about.             *)
LEMMA RejectInv ==
  ASSUME CommitInv, NEW B, RejectCommit(B, snapshotHash), UNCHANGED snapshotHash
  PROVE  CommitInv'
<1>1. CommitTypeOK' /\ CsrFresh'
  BY DEF RejectCommit, CommitInv, CommitTypeOK, CsrFresh
<1>2. SweepInv' /\ OneRecordPerDeletion'
  BY DEF RejectCommit, SweepInv, OneRecordPerDeletion
<1>3. QED
  BY <1>1, <1>2 DEF CommitInv

(* A candidate the gate refuses leaves the queue, and nothing else moves.  *)
LEMMA SkipInv ==
  ASSUME CommitInv, NEW c \in queue, SkipCandidate(c), UNCHANGED snapshotHash
  PROVE  CommitInv'
<1> USE DEF SkipCandidate
<1>1. CommitTypeOK' /\ CsrFresh'
  BY DEF CommitInv, CommitTypeOK, CsrFresh
<1>2. SweepInv'
  <2>1. Committed' = Committed /\ queue' \subseteq queue
    BY DEF Committed
  <2>2. EdgesOf(queue)' \subseteq EdgesOf(queue)
    BY <2>1 DEF EdgesOf
  <2>3. QED
    BY <2>1, <2>2 DEF CommitInv, SweepInv
<1>3. OneRecordPerDeletion'
  BY DEF CommitInv, OneRecordPerDeletion
<1>4. QED
  BY <1>1, <1>2, <1>3 DEF CommitInv

(* What the candidate the loop is at has to do with the accepted ones.     *)
LEMMA CandidateFacts ==
  ASSUME CommitInv, phase = "sweep", NEW c \in queue
  PROVE  /\ c.edge \in active
         /\ c.edge \in Edge
         /\ c.edge \notin Committed
         /\ Committed \subseteq Edge
<1>1. c.edge \in active /\ Committed \subseteq active
  BY DEF CommitInv, SweepInv, EdgesOf
<1>2. active \subseteq Edge
  BY DEF CommitInv, CommitTypeOK
<1>3. c.edge \notin Committed
  <2>1. \A e \in Committed : e < c.edge
    BY DEF CommitInv, SweepInv
  <2>2. c.edge \in Int
    BY DEF CommitInv, CommitTypeOK, Candidate
  <2>3. QED
    BY <2>1, <2>2
<1>4. QED
  BY <1>1, <1>2, <1>3

(* Accepting a candidate adds its edge to the accepted ones.               *)
LEMMA CommittedGrows ==
  ASSUME CommitInv, NEW c \in queue, TakeCandidate(c)
  PROVE  Committed' = Committed \cup {c.edge}
<1>1. committed \in Seq(Candidate) /\ c \in Candidate
  BY DEF CommitInv, CommitTypeOK
<1>2. committed' = Append(committed, c)
  BY DEF TakeCandidate
<1>3. DOMAIN committed' = DOMAIN committed \cup {Len(committed) + 1}
  BY <1>1, <1>2
<1>4. \A i \in DOMAIN committed : committed'[i] = committed[i]
  BY <1>1, <1>2
<1>5. committed'[Len(committed) + 1] = c /\ Len(committed) + 1 \notin DOMAIN committed
  BY <1>1, <1>2
<1>6. QED
  BY <1>3, <1>4, <1>5 DEF Committed

(* An accepted candidate: the counters follow the degrees, and the gate    *)
(* keeps both endpoints at two or more.                                    *)
LEMMA TakeInv ==
  ASSUME CommitInv, NEW c \in queue, TakeCandidate(c), UNCHANGED snapshotHash
  PROVE  CommitInv'
<1>1. /\ c.edge \in active /\ c.edge \in Edge
      /\ c.edge \notin Committed /\ Committed \subseteq Edge
  BY CandidateFacts DEF TakeCandidate
<1>2. Committed' = Committed \cup {c.edge}
  BY CommittedGrows
<1>3. /\ queue' = queue \ {c}
      /\ active' = active /\ csr' = csr /\ phase' = phase /\ result' = result
      /\ committed' = Append(committed, c)
      /\ phase = "sweep"
  BY DEF TakeCandidate
<1>4. c \in Candidate /\ committed \in Seq(Candidate) /\ degrees \in [Node -> Int]
  BY DEF CommitInv, CommitTypeOK
<1>5. CommitTypeOK'
  <2>1. degrees' \in [Node -> Int]
    BY <1>4 DEF TakeCandidate
  <2>2. committed' \in Seq(Candidate)
    BY <1>3, <1>4
  <2>3. QED
    BY <1>3, <2>1, <2>2 DEF CommitInv, CommitTypeOK
<1>6. CsrFresh'
  BY <1>3 DEF CommitInv, CsrFresh
<1>7. SweepInv'
  <2>1. EdgesOf(queue)' \subseteq active'
    BY <1>3 DEF CommitInv, SweepInv, EdgesOf
  <2>2. Committed' \subseteq active'
    BY <1>1, <1>2, <1>3 DEF CommitInv, SweepInv
  <2>3. \A d, f \in queue' : d.edge = f.edge => d = f
    BY <1>3 DEF CommitInv, SweepInv
  <2>4. ASSUME NEW d \in queue', NEW e \in Committed'
        PROVE  e < d.edge
    <3>1. d \in queue /\ d # c
      BY <1>3
    <3>2. CASE e \in Committed
      BY <1>3, <3>1, <3>2 DEF CommitInv, SweepInv
    <3>3. CASE e = c.edge
      <4>1. c.edge <= d.edge
        BY <3>1 DEF TakeCandidate, IsNext
      <4>2. c.edge # d.edge
        BY <1>3, <3>1 DEF CommitInv, SweepInv
      <4>3. d.edge \in Int /\ c.edge \in Int
        BY <3>1 DEF CommitInv, CommitTypeOK, Candidate
      <4>4. QED
        BY <3>3, <4>1, <4>2, <4>3
    <3>4. QED
      BY <1>2, <3>2, <3>3
  <2>5. ASSUME NEW n \in Node
        PROVE  /\ degrees'[n] = Degree(active' \ Committed', n)
               /\ degrees'[n] >= 2 \/ \A e \in Committed' : ~ Incident(e, n)
    <3>1. /\ degrees[n] = Degree(active \ Committed, n)
          /\ degrees[n] >= 2 \/ \A e \in Committed : ~ Incident(e, n)
      BY <1>3 DEF CommitInv, SweepInv
    <3>2. degrees'[n] = IF Incident(c.edge, n) THEN degrees[n] - 1 ELSE degrees[n]
      BY DEF TakeCandidate
    <3>3. active' \ Committed' = (active \ Committed) \ {c.edge}
      BY <1>2, <1>3
    <3>4. Degree((active \ Committed) \ {c.edge}, n)
            = IF Incident(c.edge, n) THEN Degree(active \ Committed, n) - 1
              ELSE Degree(active \ Committed, n)
      <4>1. active \ Committed \in SUBSET Edge /\ c.edge \in active \ Committed
        BY <1>1 DEF CommitInv, CommitTypeOK
      <4>2. QED
        BY <4>1, DeleteEdge
    <3>5. degrees'[n] = Degree(active' \ Committed', n)
      BY <3>1, <3>2, <3>3, <3>4
    <3>6. degrees'[n] >= 2 \/ \A e \in Committed' : ~ Incident(e, n)
      <4>1. CASE Incident(c.edge, n)
        <5>1. degrees[n] > 2
          BY <4>1 DEF TakeCandidate, GateOpen, Incident
        <5>2. degrees[n] \in Int
          BY <1>4
        <5>3. QED
          BY <3>2, <4>1, <5>1, <5>2
      <4>2. CASE ~ Incident(c.edge, n)
        BY <1>2, <3>1, <3>2, <4>2
      <4>3. QED
        BY <4>1, <4>2
    <3>7. QED
      BY <3>5, <3>6
  <2>6. snapshotHash' = ContentHash(active')
    BY <1>3 DEF CommitInv, SweepInv, ContentHash
  <2>7. QED
    BY <2>1, <2>2, <2>3, <2>4, <2>5, <2>6 DEF SweepInv
<1>8. OneRecordPerDeletion'
  <2> SUFFICES ASSUME NEW i \in DOMAIN committed', NEW j \in DOMAIN committed', i < j
               PROVE  committed'[i].edge < committed'[j].edge
    BY DEF OneRecordPerDeletion
  <2>1. i \in DOMAIN committed /\ committed'[i] = committed[i]
    BY <1>3, <1>4
  <2>2. CASE j \in DOMAIN committed
    BY <1>3, <1>4, <2>1, <2>2 DEF CommitInv, OneRecordPerDeletion
  <2>3. CASE j = Len(committed) + 1
    <3>1. committed'[j] = c
      BY <1>3, <1>4, <2>3
    <3>2. committed[i].edge \in Committed
      BY <2>1 DEF Committed
    <3>3. QED
      BY <1>3, <2>1, <3>1, <3>2 DEF CommitInv, SweepInv
  <2>4. QED
    BY <1>3, <1>4, <2>2, <2>3
<1>9. QED
  BY <1>5, <1>6, <1>7, <1>8 DEF CommitInv

(* Publishing rebuilds the rows of what it deletes from; leaving by an     *)
(* exception touches neither.                                              *)
LEMMA LeaveInv ==
  ASSUME CommitInv, PublishCommit \/ AbortCommit, UNCHANGED snapshotHash
  PROVE  CommitInv'
<1>1. CommitTypeOK'
  <2>1. NoDegrees \in [Node -> Int]
    BY DEF NoDegrees
  <2>2. CASE PublishCommit
    <3>1. active' \subseteq Edge /\ csr' \subseteq Edge
      BY <2>2 DEF PublishCommit, CommitInv, CommitTypeOK
    <3>2. QED
      BY <2>1, <2>2, <3>1 DEF PublishCommit, CommitInv, CommitTypeOK
  <2>3. CASE AbortCommit
    <3>1. committed' \in Seq(Candidate)
      BY <2>3 DEF AbortCommit
    <3>2. QED
      BY <2>1, <2>3, <3>1 DEF AbortCommit, graphVars, CommitInv, CommitTypeOK
  <2>4. QED
    BY <2>2, <2>3
<1>2. CsrFresh'
  <2>1. CASE PublishCommit /\ committed = <<>>
    <3>1. active' = active
      BY <2>1 DEF PublishCommit, Committed
    <3>2. QED
      BY <2>1, <3>1 DEF PublishCommit, CommitInv, CsrFresh
  <2>2. CASE PublishCommit /\ committed # <<>>
    BY <2>2 DEF PublishCommit, CsrFresh
  <2>3. CASE AbortCommit
    BY <2>3 DEF AbortCommit, graphVars, CommitInv, CsrFresh
  <2>4. QED
    BY <2>1, <2>2, <2>3
<1>3. SweepInv'
  BY DEF PublishCommit, AbortCommit, SweepInv
<1>4. OneRecordPerDeletion'
  BY DEF PublishCommit, AbortCommit, CommitInv, OneRecordPerDeletion
<1>5. QED
  BY <1>1, <1>2, <1>3, <1>4 DEF CommitInv

(* A caller that hashes the graph keeps the invariant.                     *)
LEMMA HashInv ==
  ASSUME CommitInv, snapshotHash' = ContentHash(active), UNCHANGED <<graphVars, sweepVars>>
  PROVE  CommitInv'
<1>1. CommitTypeOK' /\ CsrFresh'
  BY DEF graphVars, sweepVars, CommitInv, CommitTypeOK, CsrFresh, ContentHash
<1>2. Committed' = Committed /\ EdgesOf(queue)' = EdgesOf(queue)
  BY DEF sweepVars, Committed, EdgesOf
<1>3. SweepInv' /\ OneRecordPerDeletion'
  BY <1>2 DEF graphVars, sweepVars, CommitInv, SweepInv, OneRecordPerDeletion, ContentHash
<1> QED
  BY <1>1, <1>3 DEF CommitInv

(* So does a step that leaves the variables of the commit alone.          *)
LEMMA CommitStutters ==
  ASSUME CommitInv, UNCHANGED commitVars
  PROVE  CommitInv'
<1>1. CommitTypeOK' /\ CsrFresh' /\ OneRecordPerDeletion'
  BY DEF commitVars, CommitInv, CommitTypeOK, CsrFresh, OneRecordPerDeletion
<1>2. SweepInv'
  BY DEF commitVars, CommitInv, SweepInv, Committed, EdgesOf
<1> QED
  BY <1>1, <1>2 DEF CommitInv

-----------------------------------------------------------------------------
(* What the loop accepts.                                                  *)

(* A set of numbers that is not empty has a smallest.                      *)
LEMMA SmallestOf ==
  ASSUME NEW S \in SUBSET Nat, S # {}
  PROVE  \E r \in S : \A s \in S : r <= s
<1> DEFINE Less == {p \in Nat \X Nat : p[1] < p[2]}
<1>1. IsWellFoundedOn(Less, Nat)
  BY NatLessThanWellFounded DEF OpToRel
<1> HIDE DEF Less
<1>2. PICK r \in S : \A s \in S : ~ (<<s, r>> \in Less)
  BY <1>1, WFMin
<1>3. \A s \in S : ~ (s < r)
  BY <1>2 DEF Less
<1> QED
  BY <1>3

(* A linear order on a finite set numbers its elements without a gap: for  *)
(* each rank there is one element, and an element has one rank.            *)
LEMMA RankOnto ==
  ASSUME NEW S, IsFiniteSet(S), NEW before \in [S -> SUBSET S],
         \A e \in S : e \notin before[e],
         \A e, f \in S : e \in before[f] => before[e] \subseteq before[f],
         \A e, f \in S : e = f \/ e \in before[f] \/ f \in before[e]
  PROVE  /\ \A i \in 0 .. Cardinality(S) - 1 : \E e \in S : Cardinality(before[e]) = i
         /\ \A e \in S : Cardinality(before[e]) \in 0 .. Cardinality(S) - 1
         /\ \A e, f \in S : Cardinality(before[e]) = Cardinality(before[f]) => e = f
<1> DEFINE T == 0 .. Cardinality(S) - 1
           rank == [e \in S |-> Cardinality(before[e])]
<1>1. Cardinality(S) \in Nat
  BY FS_CardinalityType
<1>2. \A e \in S : IsFiniteSet(before[e]) /\ rank[e] \in T
  <2> TAKE e \in S
  <2>1. before[e] \subseteq S /\ before[e] # S
    OBVIOUS
  <2>2. IsFiniteSet(before[e])
    BY <2>1, FS_Subset
  <2>3. Cardinality(before[e]) <= Cardinality(S) /\ Cardinality(before[e]) # Cardinality(S)
    BY <2>1, FS_Subset
  <2>4. Cardinality(before[e]) \in Nat
    BY <2>2, FS_CardinalityType
  <2> QED
    BY <1>1, <2>2, <2>3, <2>4
<1>3. \A e, f \in S : e \in before[f] => rank[e] # rank[f]
  <2> TAKE e \in S, f \in S
  <2> HAVE e \in before[f]
  <2>1. before[e] \subseteq before[f] /\ before[e] # before[f]
    OBVIOUS
  <2>2. Cardinality(before[e]) # Cardinality(before[f])
    BY <1>2, <2>1, FS_Subset
  <2> QED
    BY <2>2
<1>4. IsFiniteSet(T) /\ Cardinality(T) = Cardinality(S)
  <2>1. Cardinality(S) - 1 \in Int /\ 0 \in Int
    BY <1>1
  <2> QED
    BY <1>1, <2>1, FS_Interval
<1>5. rank \in [S -> T]
  BY <1>2
<1>6. \A e \in S : rank[e] = Cardinality(before[e])
  OBVIOUS
<1> HIDE DEF T, rank
<1>7. rank \in Injection(S, T)
  BY <1>3, <1>5 DEF Injection, IsInjective
<1>8. rank \in Surjection(S, T)
  BY <1>4, <1>7, FS_Injection
<1>9. \A e, f \in S : rank[e] = rank[f] => e = f
  BY <1>3
<1> QED
  BY <1>5, <1>6, <1>8, <1>9 DEF Surjection, T

(* The order of the targets is linear: every entry of the order is a       *)
(* target, and every target is an entry.                                   *)
LEMMA OrderedTargets ==
  ASSUME NEW S \in SUBSET Edge, NEW order, NEW weight, \A e \in S : weight[e] \in Nat
  PROVE  /\ DOMAIN InOrder(S, weight, order) = 0 .. Cardinality(S) - 1
         /\ \A i \in DOMAIN InOrder(S, weight, order) : InOrder(S, weight, order)[i] \in S
         /\ \A e \in S : \E i \in DOMAIN InOrder(S, weight, order) :
                           InOrder(S, weight, order)[i] = e
<1> DEFINE before == [e \in S |-> {f \in S : Precedes(weight, order, f, e)}]
           T == InOrder(S, weight, order)
<1>1. S \subseteq Int
  BY SnapshotAssumption DEF Edge
<1>2. \A e \in S : e \notin before[e]
  BY <1>1 DEF Precedes
<1>3. \A e, f \in S : e \in before[f] => before[e] \subseteq before[f]
  <2> SUFFICES ASSUME NEW e \in S, NEW f \in S, NEW g \in S,
                      Precedes(weight, order, e, f), Precedes(weight, order, g, e)
               PROVE  Precedes(weight, order, g, f)
    OBVIOUS
  <2>1. e \in Int /\ f \in Int /\ g \in Int
    BY <1>1
  <2>2. weight[e] \in Nat /\ weight[f] \in Nat /\ weight[g] \in Nat
    OBVIOUS
  <2> QED
    BY <2>1, <2>2 DEF Precedes
<1>4. \A e, f \in S : e = f \/ e \in before[f] \/ f \in before[e]
  <2> SUFFICES ASSUME NEW e \in S, NEW f \in S, e # f
               PROVE  Precedes(weight, order, e, f) \/ Precedes(weight, order, f, e)
    OBVIOUS
  <2>1. e \in Int /\ f \in Int /\ weight[e] \in Nat /\ weight[f] \in Nat
    BY <1>1
  <2> QED
    BY <2>1 DEF Precedes
<1>5. IsFiniteSet(S)
  <2>1. IsFiniteSet(Edge)
    BY SnapshotAssumption, FS_Interval DEF Edge
  <2> QED
    BY <2>1, FS_Subset
<1>6. before \in [S -> SUBSET S]
  OBVIOUS
<1>7. \A e \in S : before[e] = {f \in S : Precedes(weight, order, f, e)}
  OBVIOUS
<1> HIDE DEF before
<1>8. /\ \A i \in 0 .. Cardinality(S) - 1 : \E e \in S : Cardinality(before[e]) = i
      /\ \A e \in S : Cardinality(before[e]) \in 0 .. Cardinality(S) - 1
      /\ \A e, f \in S : Cardinality(before[e]) = Cardinality(before[f]) => e = f
  BY <1>2, <1>3, <1>4, <1>5, <1>6, RankOnto
<1>9. /\ DOMAIN T = 0 .. Cardinality(S) - 1
      /\ \A i \in DOMAIN T :
           T[i] = CHOOSE e \in S : Cardinality({f \in S : Precedes(weight, order, f, e)}) = i
  BY DEF InOrder
<1> HIDE DEF T
<1>10. \A i \in DOMAIN T : T[i] \in S /\ Cardinality(before[T[i]]) = i
  <2> TAKE i \in DOMAIN T
  <2>1. \E e \in S : Cardinality({f \in S : Precedes(weight, order, f, e)}) = i
    <3>1. PICK e \in S : Cardinality(before[e]) = i
      BY <1>8, <1>9
    <3> QED
      BY <1>7, <3>1
  <2>2. T[i] \in S /\ Cardinality({f \in S : Precedes(weight, order, f, T[i])}) = i
    BY <1>9, <2>1
  <2> QED
    BY <1>7, <2>2
<1>11. ASSUME NEW e \in S PROVE \E i \in DOMAIN T : T[i] = e
  <2>1. Cardinality(before[e]) \in DOMAIN T
    BY <1>8, <1>9
  <2>2. T[Cardinality(before[e])] = e
    BY <1>8, <1>10, <2>1
  <2> QED
    BY <2>1, <2>2
<1> QED
  BY <1>9, <1>10, <1>11 DEF T

(* Canonical drops duplicates but no edge: of the candidates for an edge   *)
(* one comes first.                                                        *)
LEMMA CanonicalKeepsEdges ==
  ASSUME NEW B \in SUBSET Candidate, \A c \in B : c.method \in Methods
  PROVE  EdgesOf(Canonical(B)) = EdgesOf(B)
<1>1. ASSUME NEW e \in EdgesOf(B)
      PROVE  e \in EdgesOf(Canonical(B))
  <2> DEFINE Rank(c) == IF c.method = 1 THEN c.witness + 1 ELSE c.witness + 2 + Dimension
             Ranks == {Rank(c) : c \in {d \in B : d.edge = e}}
  <2>1. Dimension \in Nat
    BY SnapshotAssumption
  <2>2. \A c \in B : /\ c.method \in {1, 2}
                     /\ c.witness \in -1 .. Dimension - 1
    BY <2>1 DEF Candidate, Node, NoWitness, Methods
  <2>3. Ranks \in SUBSET Nat
    BY <2>1, <2>2
  <2>4. Ranks # {}
    BY <1>1 DEF EdgesOf
  <2>5. PICK r \in Ranks : \A s \in Ranks : r <= s
    <3> HIDE DEF Ranks
    <3> QED
      BY <2>3, <2>4, SmallestOf
  <2>6. PICK c \in B : c.edge = e /\ r = Rank(c)
    BY <2>5
  <2>7. ASSUME NEW d \in B, d.edge = c.edge
        PROVE  ~ Before(d, c)
    <3>1. Rank(c) <= Rank(d)
      BY <2>5, <2>6, <2>7
    <3>2. QED
      BY <2>1, <2>2, <2>6, <3>1 DEF Before
  <2>8. c \in Canonical(B)
    BY <2>6, <2>7 DEF Canonical
  <2>9. QED
    BY <2>6, <2>8 DEF EdgesOf
<1>2. EdgesOf(Canonical(B)) \subseteq EdgesOf(B)
  BY DEF EdgesOf, Canonical
<1>3. QED
  BY <1>1, <1>2

EdgesBelow(S, e) == {f \in S : f < e}

(* Accepted edges below some bound do not change when an edge beyond it is *)
(* accepted.                                                               *)
LEMMA BelowStable ==
  ASSUME NEW D \in SUBSET Int, NEW e \in Int, NEW f \in Int, e <= f
  PROVE  EdgesBelow(D \cup {f}, e) = EdgesBelow(D, e)
BY DEF EdgesBelow

\* Of the wanted edges that left the queue exactly those are accepted that the
\* degree gate lets pass behind the accepted edges with smaller ids.
GreedyOver(wanted) ==
  /\ wanted \subseteq active
  /\ EdgesOf(queue) \cup Committed \subseteq wanted
  /\ \A e \in wanted \ EdgesOf(queue) :
       /\ \A f \in EdgesOf(queue) : e < f
       /\ e \in Committed <=> Deletable(active \ EdgesBelow(Committed, e), e)

\* The same of a loop that has come to its end on graph g.
GreedySubset(S, wanted, g) ==
  /\ S \subseteq wanted
  /\ \A e \in wanted : e \in S <=> Deletable(g \ EdgesBelow(S, e), e)

(* Entering the loop: no edge has left the queue yet.                      *)
LEMMA BeginGreedy ==
  ASSUME NEW B \in SUBSET Candidate, NEW hash, BeginCommit(B, hash)
  PROVE  GreedyOver(EdgesOf(B))'
<1>1. /\ \A c \in B : c.method \in Methods
      /\ EdgesOf(B) \subseteq active
  BY DEF BeginCommit, WellFormed, EdgesOf
<1>2. EdgesOf(queue') = EdgesOf(B)
  BY <1>1, CanonicalKeepsEdges DEF BeginCommit
<1>3. active' = active
  BY DEF BeginCommit, graphVars
<1>4. Committed' = {}
  BY DEF BeginCommit, Committed
<1>5. QED
  BY <1>1, <1>2, <1>3, <1>4 DEF GreedyOver, EdgesOf

(* One iteration.  The gate is evaluated on counters that are the degrees  *)
(* behind all accepted edges, and these are all smaller than the edge the  *)
(* loop is at, so it decides as the one-step definition does.              *)
LEMMA IterationGreedy ==
  ASSUME CommitInv, NEW wanted, GreedyOver(wanted),
         NEW c \in queue, SkipCandidate(c) \/ TakeCandidate(c)
  PROVE  GreedyOver(wanted)'
<1>1. /\ phase = "sweep" /\ phase' = "sweep"
      /\ IsNext(c)
      /\ queue' = queue \ {c}
      /\ active' = active
  BY DEF SkipCandidate, TakeCandidate, CommitInv
<1>2. /\ c.edge \in active /\ c.edge \in Edge
      /\ c.edge \notin Committed /\ Committed \subseteq Edge
      /\ \A e \in Committed : e < c.edge
  BY <1>1, CandidateFacts DEF CommitInv, SweepInv
<1>3. Edge \subseteq Int
  BY SnapshotAssumption DEF Edge
<1>4. EdgesOf(queue) = EdgesOf(queue') \cup {c.edge}
  BY <1>1 DEF EdgesOf
<1>5. \A f \in EdgesOf(queue') : f \in Int /\ c.edge < f
  <2>1. ASSUME NEW d \in queue'
        PROVE  d.edge \in Int /\ c.edge < d.edge
    <3>1. d \in queue /\ d # c
      BY <1>1
    <3>2. c.edge <= d.edge /\ c.edge # d.edge
      BY <1>1, <3>1 DEF IsNext, CommitInv, SweepInv
    <3>3. d.edge \in Int
      BY <3>1 DEF CommitInv, CommitTypeOK, Candidate
    <3>4. c.edge \in Int
      BY <1>2, <1>3
    <3>5. QED
      BY <3>2, <3>3, <3>4
  <2>2. QED
    BY <2>1 DEF EdgesOf
<1>6. GateOpen(c) <=> Deletable(active \ Committed, c.edge)
  <2>1. EndU[c.edge] \in Node /\ EndV[c.edge] \in Node
    BY <1>2, EndsAreNodes
  <2>2. \A n \in Node : degrees[n] = Degree(active \ Committed, n)
    BY <1>1 DEF CommitInv, SweepInv
  <2>3. QED
    BY <2>1, <2>2 DEF GateOpen, Deletable
<1>7. EdgesBelow(Committed, c.edge) = Committed
  BY <1>2 DEF EdgesBelow
<1>8. \/ GateOpen(c) /\ Committed' = Committed \cup {c.edge}
      \/ ~ GateOpen(c) /\ Committed' = Committed
  <2>1. CASE TakeCandidate(c)
    BY <2>1, CommittedGrows DEF TakeCandidate
  <2>2. CASE SkipCandidate(c)
    BY <2>2 DEF SkipCandidate, Committed
  <2>3. QED
    BY <2>1, <2>2
<1>9. /\ wanted \subseteq active
      /\ EdgesOf(queue) \cup Committed \subseteq wanted
      /\ \A e \in wanted \ EdgesOf(queue) :
             /\ \A f \in EdgesOf(queue) : e < f
             /\ e \in Committed <=> Deletable(active \ EdgesBelow(Committed, e), e)
  BY DEF GreedyOver
<1>10. EdgesBelow(Committed', c.edge) = Committed
  <2>1. Committed \in SUBSET Int /\ c.edge \in Int
    BY <1>2, <1>3
  <2>2. EdgesBelow(Committed \cup {c.edge}, c.edge) = EdgesBelow(Committed, c.edge)
    BY <2>1, BelowStable
  <2>3. QED
    BY <1>7, <1>8, <2>2
<1>11. ASSUME NEW e \in wanted \ EdgesOf(queue')
       PROVE  /\ \A f \in EdgesOf(queue') : e < f
              /\ e \in Committed' <=> Deletable(active \ EdgesBelow(Committed', e), e)
  <2>1. CASE e = c.edge
    BY <1>2, <1>5, <1>6, <1>8, <1>10, <2>1
  <2>2. CASE e # c.edge
    <3>1. e \in wanted \ EdgesOf(queue)
      BY <1>4, <1>11, <2>2
    <3>2. e < c.edge /\ \A f \in EdgesOf(queue') : e < f
      BY <1>4, <1>9, <3>1
    <3>3. e \in Int
      BY <1>3, <1>9, <3>1 DEF CommitInv, CommitTypeOK
    <3>4. EdgesBelow(Committed', e) = EdgesBelow(Committed, e)
      <4>1. Committed \in SUBSET Int /\ c.edge \in Int
        BY <1>2, <1>3
      <4>2. e <= c.edge
        BY <3>2, <3>3, <4>1
      <4>3. EdgesBelow(Committed \cup {c.edge}, e) = EdgesBelow(Committed, e)
        BY <3>3, <4>1, <4>2, BelowStable
      <4>4. QED
        BY <1>8, <4>3
    <3>5. e \in Committed' <=> e \in Committed
      BY <1>8, <2>2
    <3>6. QED
      BY <1>9, <3>1, <3>2, <3>4, <3>5
  <2>3. QED
    BY <2>1, <2>2
<1>12. EdgesOf(queue') \cup Committed' \subseteq wanted
  BY <1>4, <1>8, <1>9
<1>13. QED
  BY <1>1, <1>9, <1>11, <1>12 DEF GreedyOver, EdgesOf

(* Leaving the loop: the queue is empty, and the greedy subset of what was *)
(* wanted is deleted.                                                      *)
LEMMA PublishGreedy ==
  ASSUME NEW wanted, GreedyOver(wanted), PublishCommit
  PROVE  /\ GreedySubset(Committed, wanted, active)
         /\ Committed \subseteq active
         /\ active' = active \ Committed
         /\ Committed' = Committed
<1>1. EdgesOf(queue) = {} /\ committed' = committed
  BY DEF PublishCommit, EdgesOf
<1>2. QED
  BY <1>1 DEF GreedyOver, GreedySubset, PublishCommit, Committed

(* A deletion is due if anything is proven: the degree gate is open for    *)
(* the first proven edge, which was eligible.                              *)
LEMMA FirstProvenGoes ==
  ASSUME NEW g \in SUBSET Edge, NEW wanted \in SUBSET Eligible(g, g), wanted # {},
         NEW S, GreedySubset(S, wanted, g)
  PROVE  S # {}
<1>1. wanted \in SUBSET Nat
  BY SnapshotAssumption DEF Eligible, Edge
<1>2. PICK e \in wanted : \A f \in wanted : e <= f
  BY <1>1, SmallestOf
<1>3. SUFFICES ASSUME S = {} PROVE FALSE
  OBVIOUS
<1>4. EdgesBelow(S, e) = {}
  BY <1>3 DEF EdgesBelow
<1>5. Deletable(g \ EdgesBelow(S, e), e)
  <2>1. g \ EdgesBelow(S, e) = g
    BY <1>4
  <2> QED
    BY <2>1 DEF Eligible
<1> QED
  BY <1>2, <1>3, <1>5 DEF GreedySubset
=============================================================================
