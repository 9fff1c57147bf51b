---------------------------- MODULE Commands_proofs ----------------------------
(***************************************************************************)
(* What is proved about the commands: the replay loop of ReplayRun decides *)
(* ReplayProof; an epoch returns a log that replays; the two output files  *)
(* are accepted only when they are whole, and then agree.  The invariant   *)
(* is CmdInv, one conjunct for each part; each action of CommandsNext has  *)
(* a lemma of its own.                                                     *)
(***************************************************************************)
EXTENDS Commands, HtEpoch_proofs, SequenceTheorems

-----------------------------------------------------------------------------
(* What the loop of the replay has established after k records.            *)

GraphAt(l, k) == Without(l, 1 .. k)
Expected(l, k) == IF k = 0 THEN 0 ELSE l.proof[k].epoch + 1

\* The first k records are whole epochs that replay.
ReplayedTo(l, d, k) ==
  /\ k \in 0 .. Len(l.proof)
  /\ \A i \in 1 .. k :
       /\ EpochFollows(l, i)
       /\ RecordReplays(d, l, i)
       /\ l.proof[i].method = 2 => l.proof[i].certificate = Cardinality(HtRecordsBefore(l, i))
       /\ l.proof[i].epoch < Expected(l, k)
  /\ k # 0 /\ k # Len(l.proof) => l.proof[k + 1].epoch # l.proof[k].epoch

\* Record r verifies on graph g.
HeldOn(d, g, r) ==
  /\ r.snapshot = g
  /\ r.edge \in g
  /\ IF r.method = kJv THEN VerifyJvCandidate(d, g, g, JvCandidate(r.edge, r.witness))
                       ELSE HtHolds(d, g, r.edge)

\* The records from s + 1 to c are of the next epoch, and verify on its graph.
EpochHeld(l, d, s, c) ==
  /\ s \in 0 .. Len(l.proof) - 1
  /\ c \in s .. Len(l.proof)
  /\ l.proof[s + 1].epoch = Expected(l, s)
  /\ \A i \in s + 1 .. c : /\ l.proof[i].epoch = l.proof[s + 1].epoch
                           /\ HeldOn(d, GraphAt(l, s), l.proof[i])

BatchOf(l, s, c) == {Recorded(l.proof[i]) : i \in s + 1 .. c}

(* The fields of a record.                                                 *)
LEMMA RecordType ==
  ASSUME NEW l, l.proof \in Seq(ProofRecord)
  PROVE  /\ Len(l.proof) \in Nat
         /\ DOMAIN l.proof = 1 .. Len(l.proof)
         /\ \A i \in 1 .. Len(l.proof) :
              /\ l.proof[i] \in ProofRecord
              /\ l.proof[i].epoch \in Nat
              /\ l.proof[i].edge \in Int
              /\ l.proof[i].method \in Int
              /\ l.proof[i].certificate \in Int
<1>1. Len(l.proof) \in Nat /\ DOMAIN l.proof = 1 .. Len(l.proof)
  OBVIOUS
<1>2. \A i \in 1 .. Len(l.proof) : l.proof[i] \in ProofRecord
  OBVIOUS
<1>3. \A r \in ProofRecord : r.epoch \in Nat /\ r.edge \in Int /\ r.method \in Int
                           /\ r.certificate \in Int
  BY DEF ProofRecord
<1> QED
  BY <1>1, <1>2, <1>3

(* In the epoch that starts behind record s, a record replays if it        *)
(* verifies on the graph behind s and passes the gate behind its           *)
(* predecessors in the epoch.                                              *)
LEMMA RecordMeans ==
  ASSUME NEW l, NEW d, NEW s, NEW i, l.proof \in Seq(ProofRecord),
         ReplayedTo(l, d, s), s \in 0 .. Len(l.proof) - 1, i \in s + 1 .. Len(l.proof),
         \A j \in s + 1 .. i : l.proof[j].epoch = Expected(l, s)
  PROVE  RecordReplays(d, l, i) <=>
           /\ HeldOn(d, GraphAt(l, s), l.proof[i])
           /\ \A j \in s + 1 .. i - 1 : l.proof[j].edge < l.proof[i].edge
           /\ Deletable(GraphAt(l, s) \ {l.proof[j].edge : j \in s + 1 .. i - 1},
                        l.proof[i].edge)
<1>1. s \in Nat /\ i \in Nat /\ Len(l.proof) \in Nat /\ s < i /\ i <= Len(l.proof)
  OBVIOUS
<1>2. {j \in 1 .. i - 1 : l.proof[j].epoch = l.proof[i].epoch} = s + 1 .. i - 1
  <2>1. l.proof[i].epoch = Expected(l, s)
    BY <1>1
  <2>2. \A j \in 1 .. s : l.proof[j].epoch < Expected(l, s) /\ l.proof[j].epoch \in Nat
    <3>1. \A j \in 1 .. s : j \in 1 .. Len(l.proof)
      BY <1>1
    <3>2. \A j \in 1 .. s : l.proof[j].epoch < Expected(l, s)
      BY DEF ReplayedTo
    <3> QED
      BY <3>1, <3>2, RecordType
  <2>3. \A j \in s + 1 .. i - 1 : j \in 1 .. i - 1 /\ l.proof[j].epoch = Expected(l, s)
    BY <1>1
  <2>4. \A j \in 1 .. i - 1 : j \in 1 .. s \/ j \in s + 1 .. i - 1
    BY <1>1
  <2>5. Expected(l, s) \in Nat
    BY <1>1, <2>1, RecordType
  <2>6. \A j \in 1 .. s : l.proof[j].epoch # Expected(l, s)
    BY <2>2, <2>5
  <2> QED
    BY <2>1, <2>3, <2>4, <2>6
<1>3. {j \in 1 .. i - 1 : l.proof[j].epoch # l.proof[i].epoch} = 1 .. s
  <2>1. 1 .. s = (1 .. i - 1) \ (s + 1 .. i - 1)
    BY <1>1
  <2> QED
    BY <1>2, <2>1
<1> DEFINE beside == {j \in 1 .. i - 1 : l.proof[j].epoch = l.proof[i].epoch}
           g == Without(l, {j \in 1 .. i - 1 : l.proof[j].epoch # l.proof[i].epoch})
<1>4. g = GraphAt(l, s)
  BY <1>3 DEF GraphAt
<1>5. beside = s + 1 .. i - 1
  BY <1>2
<1>6. RecordReplays(d, l, i) <=>
        /\ l.proof[i].snapshot = ContentHash(g)
        /\ l.proof[i].edge \in g
        /\ IF l.proof[i].method = kJv
           THEN VerifyJvCandidate(d, g, g, JvCandidate(l.proof[i].edge, l.proof[i].witness))
           ELSE HtHolds(d, g, l.proof[i].edge)
        /\ \A j \in beside : l.proof[j].edge < l.proof[i].edge
        /\ Deletable(g \ {l.proof[j].edge : j \in beside}, l.proof[i].edge)
  BY DEF RecordReplays
<1> HIDE DEF beside, g
<1> QED
  BY <1>4, <1>5, <1>6 DEF HeldOn, ContentHash

(* The epoch behind record s is done when all of it has been committed in  *)
(* the order of the records.                                               *)
LEMMA EpochDone ==
  ASSUME NEW l, NEW d, NEW s, NEW c, l.proof \in Seq(ProofRecord),
         ReplayedTo(l, d, s), EpochHeld(l, d, s, c), s < c,
         \A i, j \in s + 1 .. c : i < j => l.proof[i].edge < l.proof[j].edge,
         GreedySubset({l.proof[i].edge : i \in s + 1 .. c}, {l.proof[i].edge : i \in s + 1 .. c},
                      GraphAt(l, s)),
         \A i \in s + 1 .. c :
           l.proof[i].method = 2 => l.proof[i].certificate = Cardinality(HtRecordsBefore(l, i)),
         c # Len(l.proof) => l.proof[c + 1].epoch # l.proof[s + 1].epoch
  PROVE  /\ ReplayedTo(l, d, c)
         /\ GraphAt(l, c) = GraphAt(l, s) \ {l.proof[i].edge : i \in s + 1 .. c}
<1> DEFINE wanted == {l.proof[i].edge : i \in s + 1 .. c}
<1>1. /\ s \in Nat /\ c \in Nat /\ Len(l.proof) \in Nat /\ c <= Len(l.proof)
      /\ s \in 0 .. Len(l.proof) - 1
      /\ \A i \in 1 .. c : i \in 1 .. Len(l.proof)
      /\ s + 1 \in s + 1 .. c /\ c \in s + 1 .. c
  BY RecordType DEF EpochHeld
<1>2. \A i \in s + 1 .. c : /\ l.proof[i].epoch = Expected(l, s)
                            /\ HeldOn(d, GraphAt(l, s), l.proof[i])
  BY DEF EpochHeld
<1>3. Expected(l, c) = Expected(l, s) + 1 /\ Expected(l, s) \in Nat
  <2>1. l.proof[c].epoch = Expected(l, s) /\ l.proof[c].epoch \in Nat /\ c # 0
    BY <1>1, <1>2, RecordType
  <2>2. Expected(l, c) = l.proof[c].epoch + 1
    BY <2>1 DEF Expected
  <2> QED
    BY <2>1, <2>2
<1>4. \A i \in 1 .. s : l.proof[i].epoch < Expected(l, c)
  <2>1. \A i \in 1 .. s : l.proof[i].epoch < Expected(l, s)
    BY DEF ReplayedTo
  <2>2. \A i \in 1 .. s : l.proof[i].epoch \in Nat
    BY <1>1, RecordType
  <2> QED
    BY <1>3, <2>1, <2>2
<1>5. \A i \in s + 1 .. c : l.proof[i].epoch < Expected(l, c)
  BY <1>2, <1>3
<1>6. ASSUME NEW i \in s + 1 .. c
      PROVE  EpochFollows(l, i)
  <2>1. CASE i = s + 1
    <3>1. l.proof[i].epoch = Expected(l, s)
      BY <1>2
    <3>2. CASE s = 0
      BY <2>1, <3>1, <3>2 DEF EpochFollows, Expected
    <3>3. CASE s # 0
      <4>1. Expected(l, s) = l.proof[i - 1].epoch + 1 /\ i # 1
        BY <1>1, <2>1, <3>3 DEF Expected
      <4> QED
        BY <3>1, <4>1 DEF EpochFollows
    <3> QED
      BY <3>2, <3>3
  <2>2. CASE i # s + 1
    <3>1. i - 1 \in s + 1 .. c /\ i # 1
      BY <1>1, <2>2
    <3>2. l.proof[i].epoch = l.proof[i - 1].epoch
      BY <1>2, <3>1
    <3> QED
      BY <3>1, <3>2 DEF EpochFollows
  <2> QED
    BY <2>1, <2>2
<1>7. ASSUME NEW i \in s + 1 .. c
      PROVE  RecordReplays(d, l, i)
  <2>1. i \in s + 1 .. Len(l.proof) /\ \A j \in s + 1 .. i : j \in s + 1 .. c
    BY <1>1
  <2>2. EdgesBelow(wanted, l.proof[i].edge) = {l.proof[j].edge : j \in s + 1 .. i - 1}
    <3>0. \A j \in s + 1 .. i - 1 : j \in s + 1 .. c /\ j < i
      BY <1>1
    <3>1. \A j \in s + 1 .. i - 1 : j \in s + 1 .. c /\ l.proof[j].edge < l.proof[i].edge
      BY <3>0
    <3>2. ASSUME NEW j \in s + 1 .. c, l.proof[j].edge < l.proof[i].edge
          PROVE  j \in s + 1 .. i - 1
      <4>1. l.proof[j].edge \in Int /\ l.proof[i].edge \in Int
        BY <1>1, RecordType
      <4>2. ~ (i < j) /\ i # j
        BY <3>2, <4>1
      <4> QED
        BY <1>1, <4>2
    <3> QED
      BY <3>1, <3>2 DEF EdgesBelow
  <2>3. l.proof[i].edge \in wanted
    OBVIOUS
  <2>4. Deletable(GraphAt(l, s) \ EdgesBelow(wanted, l.proof[i].edge), l.proof[i].edge)
    BY <2>3 DEF GreedySubset
  <2>5. \A j \in s + 1 .. i - 1 : l.proof[j].edge < l.proof[i].edge
    <3>1. \A j \in s + 1 .. i - 1 : j \in s + 1 .. c /\ j < i
      BY <1>1
    <3> QED
      BY <3>1
  <2> HIDE DEF wanted
  <2>6. /\ HeldOn(d, GraphAt(l, s), l.proof[i])
        /\ \A j \in s + 1 .. i : l.proof[j].epoch = Expected(l, s)
    BY <1>2, <2>1
  <2>7. Deletable(GraphAt(l, s) \ {l.proof[j].edge : j \in s + 1 .. i - 1}, l.proof[i].edge)
    BY <2>2, <2>4
  <2> QED
    BY <1>1, <2>1, <2>5, <2>6, <2>7, RecordMeans
<1>8. \A i \in 1 .. c : i \in 1 .. s \/ i \in s + 1 .. c
  BY <1>1
<1>9. c # 0 /\ c # Len(l.proof) => l.proof[c + 1].epoch # l.proof[c].epoch
  <2>1. l.proof[c].epoch = l.proof[s + 1].epoch
    BY <1>1, <1>2
  <2> QED
    BY <2>1
<1>10. ReplayedTo(l, d, c)
  <2>1. \A i \in 1 .. s : /\ EpochFollows(l, i) /\ RecordReplays(d, l, i)
                          /\ l.proof[i].method = 2 =>
                               l.proof[i].certificate = Cardinality(HtRecordsBefore(l, i))
    BY DEF ReplayedTo
  <2>2. c \in 0 .. Len(l.proof)
    BY <1>1
  <2> QED
    BY <1>4, <1>5, <1>6, <1>7, <1>8, <1>9, <2>1, <2>2 DEF ReplayedTo
<1>11. GraphAt(l, c) = GraphAt(l, s) \ wanted
  <2>1. 1 .. c = (1 .. s) \cup (s + 1 .. c)
    BY <1>1
  <2>2. {l.proof[i].edge : i \in 1 .. c} = {l.proof[i].edge : i \in 1 .. s} \cup wanted
    BY <2>1
  <2> QED
    BY <2>2 DEF GraphAt, Without
<1> QED
  BY <1>10, <1>11

(* If the records of the epoch replay, the greedy selection is all of them.*)
LEMMA EpochAgrees ==
  ASSUME NEW l, NEW d, NEW s, NEW c, NEW S, l.proof \in Seq(ProofRecord),
         ReplayedTo(l, d, s), EpochHeld(l, d, s, c), GraphAt(l, s) \subseteq Edge,
         \A i \in s + 1 .. c : RecordReplays(d, l, i),
         GreedySubset(S, {l.proof[i].edge : i \in s + 1 .. c}, GraphAt(l, s))
  PROVE  /\ S = {l.proof[i].edge : i \in s + 1 .. c}
         /\ \A i, j \in s + 1 .. c : i < j => l.proof[i].edge < l.proof[j].edge
<1> DEFINE wanted == {l.proof[i].edge : i \in s + 1 .. c}
<1>1. /\ s \in Nat /\ c \in Nat /\ Len(l.proof) \in Nat /\ c <= Len(l.proof)
      /\ s \in 0 .. Len(l.proof) - 1
  BY RecordType DEF EpochHeld
<1>2. ASSUME NEW i \in s + 1 .. c
      PROVE  /\ l.proof[i].edge \in Nat
             /\ \A j \in s + 1 .. i - 1 : l.proof[j].edge < l.proof[i].edge
             /\ Deletable(GraphAt(l, s) \ {l.proof[j].edge : j \in s + 1 .. i - 1},
                          l.proof[i].edge)
  <2>1. i \in s + 1 .. Len(l.proof) /\ \A j \in s + 1 .. i : j \in s + 1 .. c
    BY <1>1
  <2>2. \A j \in s + 1 .. i : l.proof[j].epoch = Expected(l, s)
    BY <2>1 DEF EpochHeld
  <2>3. RecordReplays(d, l, i)
    OBVIOUS
  <2>4. l.proof[i].edge \in GraphAt(l, s)
    BY DEF EpochHeld, HeldOn
  <2>5. Edge \subseteq Nat
    BY SnapshotAssumption DEF Edge
  <2> QED
    BY <1>1, <2>1, <2>2, <2>3, <2>4, <2>5, RecordMeans
<1>3. \A i, j \in s + 1 .. c : i < j => l.proof[i].edge < l.proof[j].edge
  <2>1. \A i, j \in s + 1 .. c : i < j => i \in s + 1 .. j - 1
    BY <1>1
  <2> QED
    BY <1>2, <2>1
<1>4. /\ S \subseteq wanted
      /\ \A e \in wanted : Deletable(GraphAt(l, s) \ EdgesBelow(S, e), e) => e \in S
  BY DEF GreedySubset
<1>5. wanted \subseteq Nat
  BY <1>2
<1>6. wanted \ S = {}
  <2> SUFFICES ASSUME wanted \ S # {} PROVE FALSE
    OBVIOUS
  <2>1. PICK e \in wanted \ S : \A f \in wanted \ S : e <= f
    <3>1. wanted \ S \in SUBSET Nat
      BY <1>5
    <3> HIDE DEF wanted
    <3> QED
      BY <3>1, SmallestOf
  <2>2. PICK i \in s + 1 .. c : e = l.proof[i].edge
    BY <2>1
  <2>3. ASSUME NEW f \in EdgesBelow(S, e)
        PROVE  f \in {l.proof[j].edge : j \in s + 1 .. i - 1}
    <3>1. PICK j \in s + 1 .. c : f = l.proof[j].edge
      BY <1>4, <2>3 DEF EdgesBelow
    <3>2. f < e /\ e \in Nat /\ f \in Nat
      BY <1>2, <2>2, <2>3, <3>1 DEF EdgesBelow
    <3>3. ~ (i < j) /\ i # j
      BY <1>3, <2>2, <3>1, <3>2
    <3>4. j \in s + 1 .. i - 1
      BY <1>1, <3>3
    <3> QED
      BY <3>1, <3>4
  <2>4. ASSUME NEW j \in s + 1 .. i - 1
        PROVE  l.proof[j].edge \in EdgesBelow(S, e)
    <3>1. j \in s + 1 .. c /\ l.proof[j].edge < e
      <4>1. j \in s + 1 .. c
        BY <1>1
      <4> QED
        BY <1>2, <2>2, <4>1
    <3>2. l.proof[j].edge \in wanted /\ l.proof[j].edge \in Nat /\ e \in Nat
      BY <1>2, <2>2, <3>1
    <3>3. l.proof[j].edge \in S
      BY <2>1, <3>1, <3>2, SMTT(30)
    <3> QED
      BY <3>1, <3>3 DEF EdgesBelow
  <2>5. EdgesBelow(S, e) = {l.proof[j].edge : j \in s + 1 .. i - 1}
    BY <2>3, <2>4
  <2>6. Deletable(GraphAt(l, s) \ EdgesBelow(S, e), e)
    BY <1>2, <2>2, <2>5
  <2> QED
    BY <1>4, <2>1, <2>6
<1> QED
  BY <1>3, <1>4, <1>6

\* Sequence f of length n holds the numbers of S in increasing order.
Lists(f, n, S) ==
  /\ n \in Nat
  /\ f \in [1 .. n -> Int]
  /\ \A i, j \in 1 .. n : i < j => f[i] < f[j]
  /\ {f[i] : i \in 1 .. n} = S

(* Two increasing sequences of the same numbers are the same.              *)
LEMMA SameSequence ==
  ASSUME NEW a, NEW m, NEW b, NEW n, NEW S, Lists(a, m, S), Lists(b, n, S)
  PROVE  m = n /\ \A i \in 1 .. m : a[i] = b[i]
<1> DEFINE D == {i \in 1 .. m : i > n \/ a[i] # b[i]}
<1>a. /\ m \in Nat /\ n \in Nat
      /\ a \in [1 .. m -> Int] /\ b \in [1 .. n -> Int]
  BY DEF Lists
<1>b. \A i, j \in 1 .. m : i < j => a[i] < a[j]
  BY DEF Lists
<1>c. \A i, j \in 1 .. n : i < j => b[i] < b[j]
  BY DEF Lists
<1>0. /\ \A i \in 1 .. m : \E j \in 1 .. n : a[i] = b[j]
      /\ \A j \in 1 .. n : \E i \in 1 .. m : a[i] = b[j]
  <2>1. \A i \in 1 .. m : a[i] \in S
    BY DEF Lists
  <2>2. \A j \in 1 .. n : b[j] \in S
    BY DEF Lists
  <2>3. \A x \in S : \E i \in 1 .. m : a[i] = x
    BY DEF Lists
  <2>4. \A x \in S : \E j \in 1 .. n : b[j] = x
    BY DEF Lists
  <2> QED
    BY <2>1, <2>2, <2>3, <2>4
<1>1. D = {}
  <2> SUFFICES ASSUME D # {} PROVE FALSE
    OBVIOUS
  <2>1. PICK i \in D : \A k \in D : i <= k
    <3>1. D \in SUBSET Nat
      BY <1>a
    <3> HIDE DEF D
    <3> QED
      BY <1>a, <1>b, <1>c, <3>1, SmallestOf
  <2>2. i \in 1 .. m /\ \A k \in 1 .. i - 1 : k \in 1 .. m /\ k \in 1 .. n /\ a[k] = b[k]
    <3>1. i \in 1 .. m
      BY <1>a, <1>b, <1>c, <2>1
    <3>2. ASSUME NEW k \in 1 .. i - 1
          PROVE  k \in 1 .. m /\ k \in 1 .. n /\ a[k] = b[k]
      <4>1. k \in 1 .. m /\ k < i
        BY <1>a, <1>b, <1>c, <3>1
      <4>2. k \notin D
        BY <1>a, <1>b, <1>c, <2>1, <3>1, <4>1
      <4> QED
        BY <1>a, <1>b, <1>c, <4>1, <4>2
    <3> QED
      BY <1>a, <1>b, <1>c, <3>1, <3>2
  <2>3. PICK j \in 1 .. n : a[i] = b[j]
    BY <1>a, <1>b, <1>c, <1>0, <2>2
  <2>4. i <= j
    <3> SUFFICES ASSUME j < i PROVE FALSE
      BY <1>a, <1>b, <1>c, <2>2
    <3>1. j \in 1 .. i - 1 /\ j \in 1 .. m
      BY <1>a, <1>b, <1>c, <2>2
    <3>2. a[j] = b[j] /\ a[j] < a[i] /\ a[i] \in Int
      BY <1>a, <1>b, <1>c, <2>2, <3>1
    <3> QED
      BY <1>a, <1>b, <1>c, <2>3, <3>2
  <2>5. i \in 1 .. n /\ a[i] # b[i] /\ i < j
    BY <1>a, <1>b, <1>c, <2>1, <2>2, <2>3, <2>4
  <2>6. b[i] < b[j] /\ b[i] \in Int /\ b[j] \in Int
    BY <1>a, <1>b, <1>c, <2>5
  <2>7. PICK k \in 1 .. m : a[k] = b[i]
    BY <1>a, <1>b, <1>c, <1>0, <2>5
  <2>8. CASE k < i
    <3>1. k \in 1 .. i - 1
      BY <1>a, <1>b, <1>c, <2>2, <2>8
    <3>2. a[k] = b[k] /\ k \in 1 .. n /\ k < i
      BY <1>a, <1>b, <1>c, <2>2, <2>8, <3>1
    <3>3. b[k] < b[i]
      BY <1>a, <1>b, <1>c, <2>5, <3>2
    <3> QED
      BY <1>a, <1>b, <1>c, <2>6, <2>7, <3>2, <3>3
  <2>9. CASE i < k
    <3>1. a[i] < a[k] /\ a[i] \in Int
      BY <1>a, <1>b, <1>c, <2>2, <2>9
    <3> QED
      BY <1>a, <1>b, <1>c, <2>3, <2>6, <2>7, <3>1
  <2> QED
    BY <1>a, <1>b, <1>c, <2>2, <2>5, <2>7, <2>8, <2>9
<1>2. \A i \in 1 .. m : i \in 1 .. n /\ a[i] = b[i]
  <2>1. \A i \in 1 .. m : ~ (i > n \/ a[i] # b[i])
    BY <1>a, <1>b, <1>c, <1>1
  <2> QED
    BY <1>a, <1>b, <1>c, <2>1
<1>3. ~ (m < n)
  <2> SUFFICES ASSUME m < n PROVE FALSE
    BY <1>a
  <2>1. m + 1 \in 1 .. n
    BY <1>a
  <2>2. PICK k \in 1 .. m : a[k] = b[m + 1]
    BY <1>a, <1>b, <1>c, <1>0, <2>1
  <2>3. k < m + 1 /\ k \in 1 .. n /\ a[k] = b[k] /\ b[k] \in Int
    BY <1>a, <1>b, <1>c, <1>2
  <2>4. b[k] < b[m + 1]
    BY <1>a, <1>b, <1>c, <2>1, <2>3
  <2> QED
    BY <1>a, <1>b, <1>c, <2>2, <2>3, <2>4
<1>4. ~ (n < m)
  <2> SUFFICES ASSUME n < m PROVE FALSE
    BY <1>a
  <2>1. m \in 1 .. n
    BY <1>a, <1>b, <1>c, <1>2
  <2> QED
    BY <1>a, <1>b, <1>c, <2>1
<1> QED
  BY <1>a, <1>b, <1>c, <1>2, <1>3, <1>4

(* Certificates are counted from the start of the log, the loop counts     *)
(* them from the start of the epoch.                                       *)
LEMMA SidecarCount ==
  ASSUME NEW l, NEW s, NEW c, NEW n, l.proof \in Seq(ProofRecord),
         s \in 0 .. Len(l.proof), c \in s .. Len(l.proof), n \in 1 .. c - s + 1
  PROVE  /\ Cardinality(HtRecordsBefore(l, s + n)) =
              Cardinality(HtRecordsBefore(l, s + 1))
              + Cardinality({k \in 1 .. n - 1 : SubSeq(l.proof, s + 1, c)[k].method = 2})
         /\ Cardinality(HtRecordsBefore(l, s + n)) \in Nat
<1> DEFINE A == HtRecordsBefore(l, s + 1)
           K == {k \in 1 .. n - 1 : SubSeq(l.proof, s + 1, c)[k].method = 2}
           B == {k \in s + 1 .. s + n - 1 : l.proof[k].method = 2}
<1>1. s \in Nat /\ c \in Nat /\ n \in Nat /\ Len(l.proof) \in Nat
  BY RecordType
<1>2. HtRecordsBefore(l, s + n) = A \cup B /\ A \cap B = {}
  <2>1. 1 .. s + n - 1 = (1 .. s) \cup (s + 1 .. s + n - 1)
    BY <1>1
  <2>2. s + 1 - 1 = s
    BY <1>1
  <2> QED
    BY <1>1, <2>1, <2>2 DEF HtRecordsBefore
<1>3. IsFiniteSet(A) /\ IsFiniteSet(B) /\ IsFiniteSet(K)
  <2>1. \A p, q \in Nat : IsFiniteSet(p .. q)
    BY FS_Interval
  <2>2. IsFiniteSet(1 .. s) /\ IsFiniteSet(s + 1 .. s + n - 1) /\ IsFiniteSet(1 .. n - 1)
    BY <1>1, <2>1
  <2>3. A \in SUBSET (1 .. s) /\ B \in SUBSET (s + 1 .. s + n - 1) /\ K \in SUBSET (1 .. n - 1)
    BY <1>1 DEF HtRecordsBefore
  <2> HIDE DEF A, B, K
  <2> QED
    BY <2>2, <2>3, FS_Subset
<1>4. Cardinality(B) = Cardinality(K)
  <2> DEFINE shift == [k \in K |-> k + s]
  <2>1. \A k \in 1 .. n - 1 : /\ SubSeq(l.proof, s + 1, c)[k] = l.proof[k + s]
                              /\ k + s \in s + 1 .. s + n - 1
    BY <1>1
  <2>2. \A k \in K : k + s \in B
    BY <2>1
  <2>3. \A x \in B : x - s \in K /\ (x - s) + s = x
    <3>1. \A x \in B : x - s \in 1 .. n - 1 /\ (x - s) + s = x
      BY <1>1
    <3> QED
      BY <2>1, <3>1
  <2>4. \A k \in K : k \in Int
    OBVIOUS
  <2> HIDE DEF K, B
  <2>5. shift \in Bijection(K, B)
    <3>1. shift \in [K -> B]
      BY <2>2
    <3>2. \A j, k \in K : shift[j] = shift[k] => j = k
      BY <1>1, <2>4
    <3>3. \A x \in B : \E k \in K : shift[k] = x
      BY <2>3
    <3> QED
      BY <3>1, <3>2, <3>3 DEF Bijection, Injection, Surjection, IsInjective
  <2> HIDE DEF shift
  <2>6. ExistsBijection(K, B)
    BY <2>5 DEF ExistsBijection
  <2> QED
    BY <1>3, <2>6, FS_Bijection
<1> HIDE DEF A, B, K
<1>5. Cardinality(A \cup B) = Cardinality(A) + Cardinality(B) - Cardinality({})
  BY <1>2, <1>3, FS_Union
<1>6. Cardinality(A) \in Nat /\ Cardinality(B) \in Nat /\ Cardinality({}) = 0
  BY <1>3, FS_CardinalityType, FS_EmptySet
<1>7. Cardinality(A \cup B) = Cardinality(A) + Cardinality(B)
  <2>1. \A x, y \in Nat : x + y - 0 = x + y
    OBVIOUS
  <2> QED
    BY <1>5, <1>6, <2>1
<1>8. Cardinality(HtRecordsBefore(l, s + n)) = Cardinality(A) + Cardinality(K)
  BY <1>2, <1>4, <1>7
<1>9. Cardinality(HtRecordsBefore(l, s + n)) \in Nat
  <2>1. \A x, y \in Nat : x + y \in Nat
    OBVIOUS
  <2> QED
    BY <1>4, <1>6, <1>8, <2>1
<1> QED
  BY <1>8, <1>9 DEF A, K

(* Which records of the log the loop has consumed, what they have been     *)
(* found to be, and how the working copy follows from them.                *)
EpochEdges(l, s, c) == {l.proof[i].edge : i \in s + 1 .. c}

\* Before the checks at the head of the call.
AtStart ==
  /\ cursor = 0 /\ epochStart = 0 /\ sidecars = 0
  /\ phase = "idle" /\ active = graph

InLoop == graph = log.initial /\ ValidateProofContainer(log)

\* Between two epochs.
AtEpoch ==
  /\ InLoop
  /\ phase = "idle"
  /\ ReplayedTo(log, dist, cursor)
  /\ active = GraphAt(log, cursor)
  /\ sidecars = Cardinality(HtRecordsBefore(log, cursor + 1))

\* Inside the epoch that begins behind record epochStart.
InEpoch ==
  /\ InLoop
  /\ ReplayedTo(log, dist, epochStart)
  /\ EpochHeld(log, dist, epochStart, cursor)
  /\ snapshotHash = GraphAt(log, epochStart)
  /\ sidecars = Cardinality(HtRecordsBefore(log, epochStart + 1))

AtRecord ==
  /\ InEpoch
  /\ phase = "idle"
  /\ active = GraphAt(log, epochStart)

AtCommit ==
  LET wanted == EpochEdges(log, epochStart, cursor)
      records == BatchOf(log, epochStart, cursor)
  IN  /\ InEpoch
      /\ epochStart < cursor /\ ~ SameEpoch
      /\ queue \subseteq records
      /\ \A i \in DOMAIN committed : committed[i] \in records
      /\ phase = "sweep" => active = GraphAt(log, epochStart) /\ GreedyOver(wanted)
      /\ phase = "idle" /\ result = "committed" =>
           /\ GreedySubset(Committed, wanted, GraphAt(log, epochStart))
           /\ active = GraphAt(log, epochStart) \ Committed

ReplayShape ==
  /\ replayPc \in {"idle", "start", "epoch", "record", "commit", "returned", "threw"}
  /\ Replaying => log.proof \in Seq(ProofRecord)
  /\ replayPc = "start" => AtStart
  /\ replayPc = "epoch" => AtEpoch
  /\ replayPc = "record" => AtRecord
  /\ replayPc = "commit" => AtCommit

ReplayInv == CommitInv /\ graph \subseteq Edge /\ ReplayShape /\ ReplayDecides
-----------------------------------------------------------------------------
(* Each action of the replay keeps it.                                     *)

(* What a step of the replay has to show about the rest of its variables.  *)
LEMMA ReplayCases ==
  ASSUME CommitInv', graph' \subseteq Edge,
         replayPc' \in {"start", "epoch", "record", "commit"},
         log'.proof \in Seq(ProofRecord),
         replayPc' = "start" => AtStart',
         replayPc' = "epoch" => AtEpoch',
         replayPc' = "record" => AtRecord',
         replayPc' = "commit" => AtCommit'
  PROVE  ReplayInv'
<1>1. ReplayShape'
  BY DEF ReplayShape
<1>2. ReplayDecides'
  BY DEF ReplayDecides
<1> QED
  BY <1>1, <1>2 DEF ReplayInv

(* A step that ends the replay, or is not of it.                           *)
LEMMA ReplayEnds ==
  ASSUME CommitInv', graph' \subseteq Edge, replayPc' \in {"idle", "returned", "threw"},
         replayPc' = "returned" => ReplayProof(dist', log'.initial, log'),
         replayPc' = "threw" /\ result' # "threw" =>
           ~ (graph' = log'.initial /\ ReplayProof(dist', graph', log'))
  PROVE  ReplayInv'
<1>1. ReplayShape'
  BY DEF ReplayShape, Replaying
<1>2. ReplayDecides'
  BY DEF ReplayDecides, ContentHash
<1> QED
  BY <1>1, <1>2 DEF ReplayInv

(* The call.                                                               *)
LEMMA BeginReplayInv ==
  ASSUME ReplayInv, NEW expected, expected.proof \in Seq(ProofRecord), BeginReplay(expected),
         AtStart
  PROVE  ReplayInv'
<1>1. /\ UNCHANGED <<commitVars, graph, cursor, epochStart, sidecars, phase, active>>
      /\ log' = expected /\ replayPc' = "start"
  BY DEF BeginReplay, epochVars, commitVars
<1>2. CommitInv' /\ graph' \subseteq Edge
  BY <1>1, CommitStutters DEF ReplayInv
<1>3. AtStart'
  BY <1>1 DEF AtStart
<1> QED
  BY <1>1, <1>2, <1>3, ReplayCases

(* The records of the log, and where the loop is in it.                    *)
LEMMA ReplayTypes ==
  ASSUME ReplayInv, Replaying
  PROVE  /\ log.proof \in Seq(ProofRecord)
         /\ Len(log.proof) \in Nat
         /\ graph \subseteq Edge /\ CommitInv
         /\ csr = active /\ active \subseteq Edge
BY RecordType DEF ReplayInv, ReplayShape, CommitInv, CsrFresh, CommitTypeOK

(* The checks at the head of the call.                                     *)
LEMMA CheckContainerInv ==
  ASSUME ReplayInv, CheckContainer
  PROVE  ReplayInv'
<1>1. /\ replayPc = "start"
      /\ UNCHANGED <<commitVars, graph, dist, log, cursor, epochStart, sidecars, phase, active>>
  BY DEF CheckContainer, epochVars, commitVars
<1>2. AtStart /\ log.proof \in Seq(ProofRecord) /\ Len(log.proof) \in Nat /\ graph \subseteq Edge
  BY <1>1, ReplayTypes DEF ReplayInv, ReplayShape, Replaying
<1>3. CommitInv'
  BY <1>1, CommitStutters DEF ReplayInv
<1>4. CASE graph = log.initial /\ ValidateProofContainer(log)
  <2>1. replayPc' = "epoch"
    BY <1>4 DEF CheckContainer, ContentHash
  <2>2. ReplayedTo(log, dist, 0)
    BY <1>2 DEF ReplayedTo
  <2>3. GraphAt(log, 0) = log.initial
    BY DEF GraphAt, Without
  <2>4. Cardinality(HtRecordsBefore(log, 1)) = 0
    <3>1. HtRecordsBefore(log, 1) = {}
      BY DEF HtRecordsBefore
    <3> QED
      BY <3>1, FS_EmptySet
  <2>5. AtEpoch
    BY <1>2, <1>4, <2>2, <2>3, <2>4 DEF AtEpoch, AtStart, InLoop
  <2>6. AtEpoch'
    BY <1>1, <2>5 DEF AtEpoch, InLoop
  <2> QED
    BY <1>1, <1>2, <1>3, <2>1, <2>6, ReplayCases
<1>5. CASE ~ (graph = log.initial /\ ValidateProofContainer(log))
  <2>1. replayPc' = "threw"
    BY <1>5 DEF CheckContainer, ContentHash
  <2>2. ~ (graph = log.initial /\ ReplayProof(dist, graph, log))
    BY <1>5 DEF ReplayProof
  <2> QED
    BY <1>1, <1>2, <1>3, <2>1, <2>2, ReplayEnds
<1> QED
  BY <1>4, <1>5

(* A record that is not the first goes on with an epoch or starts one.     *)
LEMMA FollowsMeans ==
  ASSUME NEW l, NEW i, i # 1, EpochFollows(l, i)
  PROVE  \/ l.proof[i].epoch = l.proof[i - 1].epoch
         \/ l.proof[i].epoch = l.proof[i - 1].epoch + 1
<1> DEFINE S == {l.proof[i - 1].epoch, l.proof[i - 1].epoch + 1}
<1>1. l.proof[i].epoch \in IF i = 1 THEN {0} ELSE S
  BY DEF EpochFollows
<1>2. l.proof[i].epoch \in S
  <2> HIDE DEF S
  <2> QED
    BY <1>1
<1> QED
  BY <1>2

(* The next epoch is the next number, or the log does not replay.          *)
LEMMA StartEpochInv ==
  ASSUME ReplayInv, StartEpoch
  PROVE  ReplayInv'
<1>1. /\ replayPc = "epoch" /\ cursor < Len(log.proof)
      /\ snapshotHash' = active /\ epochStart' = cursor
      /\ UNCHANGED <<graphVars, sweepVars, graph, dist, log, cursor, sidecars>>
      /\ UNCHANGED <<active, phase>>
  BY DEF StartEpoch, epochVars, ContentHash, graphVars, sweepVars
<1>2. AtEpoch /\ log.proof \in Seq(ProofRecord) /\ Len(log.proof) \in Nat /\ graph \subseteq Edge
  BY <1>1, ReplayTypes DEF ReplayInv, ReplayShape, Replaying
<1>3. CommitInv'
  BY <1>1, HashInv DEF ReplayInv, ContentHash
<1>4. cursor \in 0 .. Len(log.proof) - 1 /\ cursor \in Nat
  BY <1>1, <1>2 DEF AtEpoch, ReplayedTo
<1>5. ExpectedEpoch = Expected(log, cursor)
  BY DEF ExpectedEpoch, Expected
<1>6. CASE NextRecord.epoch = ExpectedEpoch
  <2>1. replayPc' = "record"
    BY <1>6 DEF StartEpoch
  <2>2. EpochHeld(log, dist, cursor, cursor)
    BY <1>4, <1>5, <1>6 DEF EpochHeld, NextRecord
  <2>3. AtRecord'
    BY <1>1, <1>2, <2>2 DEF AtRecord, InEpoch, AtEpoch, InLoop
  <2> QED
    BY <1>1, <1>2, <1>3, <2>1, <2>3, ReplayCases
<1>7. CASE NextRecord.epoch # ExpectedEpoch
  <2>1. replayPc' = "threw"
    BY <1>7 DEF StartEpoch
  <2>2. ~ EpochFollows(log, cursor + 1)
    <3> SUFFICES ASSUME EpochFollows(log, cursor + 1) PROVE FALSE
      OBVIOUS
    <3>1. CASE cursor = 0
      BY <1>5, <1>7, <3>1 DEF EpochFollows, NextRecord, Expected
    <3>2. CASE cursor # 0
      <4>1. cursor + 1 # 1 /\ cursor + 1 - 1 = cursor /\ cursor # Len(log.proof)
        BY <1>4, <3>2, <1>2
      <4>2. \/ log.proof[cursor + 1].epoch = log.proof[cursor].epoch
            \/ log.proof[cursor + 1].epoch = log.proof[cursor].epoch + 1
        <5>1. PICK k \in Nat : k = cursor + 1
          BY <1>4
        <5>2. k # 1 /\ k - 1 = cursor
          BY <1>4, <4>1, <5>1
        <5>3. EpochFollows(log, k)
          BY <5>1, Zenon
        <5>4. \/ log.proof[k].epoch = log.proof[k - 1].epoch
              \/ log.proof[k].epoch = log.proof[k - 1].epoch + 1
          BY <5>2, <5>3, FollowsMeans
        <5> QED
          BY <5>1, <5>2, <5>4
      <4>3. log.proof[cursor + 1].epoch # log.proof[cursor].epoch
        BY <1>2, <3>2, <4>1 DEF AtEpoch, ReplayedTo
      <4>4. ExpectedEpoch = log.proof[cursor].epoch + 1
        BY <3>2 DEF ExpectedEpoch
      <4> QED
        BY <1>7, <4>2, <4>3, <4>4 DEF NextRecord
    <3> QED
      BY <3>1, <3>2
  <2>3. cursor + 1 \in DOMAIN log.proof
    BY <1>2, <1>4
  <2>4. ~ ReplayProof(dist, graph, log)
    BY <2>2, <2>3 DEF ReplayProof
  <2> QED
    BY <1>1, <1>2, <1>3, <2>1, <2>4, ReplayEnds
<1> QED
  BY <1>6, <1>7

(* A record verifies on the graph its epoch starts from, or the log does   *)
(* not replay.                                                             *)
LEMMA VerifyRecordInv ==
  ASSUME ReplayInv, VerifyRecord
  PROVE  ReplayInv'
<1> DEFINE r == NextRecord
           g == GraphAt(log, epochStart)
<1>1. /\ replayPc = "record" /\ SameEpoch
      /\ UNCHANGED <<commitVars, graph, dist, log, epochStart, sidecars>>
      /\ UNCHANGED <<active, phase, snapshotHash>>
  BY DEF VerifyRecord, epochVars, commitVars
<1>2. /\ AtRecord /\ log.proof \in Seq(ProofRecord) /\ Len(log.proof) \in Nat
      /\ graph \subseteq Edge /\ csr = active /\ active \subseteq Edge
  BY <1>1, ReplayTypes DEF ReplayInv, ReplayShape, Replaying
<1>3. CommitInv'
  BY <1>1, CommitStutters DEF ReplayInv
<1>4. /\ ReplayedTo(log, dist, epochStart) /\ EpochHeld(log, dist, epochStart, cursor)
      /\ snapshotHash = g /\ active = g /\ csr = g
  BY <1>2 DEF AtRecord, InEpoch
<1>5. /\ epochStart \in 0 .. Len(log.proof) - 1 /\ epochStart \in Nat
      /\ cursor \in epochStart .. Len(log.proof) /\ cursor < Len(log.proof)
      /\ cursor \in Nat /\ cursor + 1 \in epochStart + 1 .. Len(log.proof)
      /\ cursor + 1 \in DOMAIN log.proof
      /\ r.epoch = log.proof[epochStart + 1].epoch
      /\ r.epoch = Expected(log, epochStart)
  BY <1>1, <1>2, <1>4 DEF EpochHeld, SameEpoch
<1>6. RecordHolds(r) <=> HeldOn(dist, g, r)
  <2>1. JvCandidate(r.edge, r.witness).edge = r.edge
    BY DEF JvCandidate
  <2>2. VerifyJvCandidate(dist, g, g, JvCandidate(r.edge, r.witness)) => r.edge \in g
    BY <2>1 DEF VerifyJvCandidate
  <2> HIDE DEF r, g
  <2> QED
    BY <1>2, <1>4, <2>2 DEF RecordHolds, HeldOn
<1>7. CASE RecordHolds(r)
  <2>1. cursor' = cursor + 1 /\ replayPc' = "record"
    BY <1>1, <1>7 DEF VerifyRecord
  <2>2. EpochHeld(log, dist, epochStart, cursor + 1)
    <3>1. \A i \in epochStart + 1 .. cursor + 1 : i \in epochStart + 1 .. cursor \/ i = cursor + 1
      BY <1>5
    <3>2. log.proof[cursor + 1].epoch = log.proof[epochStart + 1].epoch
          /\ HeldOn(dist, GraphAt(log, epochStart), log.proof[cursor + 1])
      BY <1>5, <1>6, <1>7 DEF NextRecord
    <3>3. cursor + 1 \in epochStart .. Len(log.proof)
      BY <1>5
    <3> QED
      BY <1>4, <3>1, <3>2, <3>3 DEF EpochHeld
  <2>3. AtRecord'
    BY <1>1, <1>2, <2>1, <2>2 DEF AtRecord, InEpoch, InLoop
  <2> QED
    BY <1>1, <1>2, <1>3, <2>1, <2>3, ReplayCases
<1>8. CASE ~ RecordHolds(r)
  <2>1. replayPc' = "threw"
    BY <1>8 DEF VerifyRecord
  <2>2. ~ HeldOn(dist, g, log.proof[cursor + 1])
    BY <1>6, <1>8 DEF NextRecord
  <2>3. \A j \in epochStart + 1 .. cursor + 1 : log.proof[j].epoch = Expected(log, epochStart)
    <3>1. \A j \in epochStart + 1 .. cursor + 1 : j \in epochStart + 1 .. cursor \/ j = cursor + 1
      BY <1>5
    <3>2. log.proof[cursor + 1].epoch = Expected(log, epochStart)
      BY <1>5 DEF NextRecord
    <3> QED
      BY <1>4, <3>1, <3>2 DEF EpochHeld
  <2>4. ~ RecordReplays(dist, log, cursor + 1)
    BY <1>2, <1>4, <1>5, <2>2, <2>3, RecordMeans
  <2>5. ~ ReplayProof(dist, graph, log)
    BY <1>5, <2>4 DEF ReplayProof
  <2> QED
    BY <1>1, <1>2, <1>3, <2>1, <2>5, ReplayEnds
<1> QED
  BY <1>7, <1>8

(* What the records of the epoch have to do with its candidates.           *)
LEMMA BatchFacts ==
  ASSUME ReplayInv, Replaying, InEpoch
  PROVE  /\ BatchOf(log, epochStart, cursor) \in SUBSET Candidate
         /\ EdgesOf(BatchOf(log, epochStart, cursor)) = EpochEdges(log, epochStart, cursor)
         /\ epochStart \in Nat /\ cursor \in Nat /\ Len(log.proof) \in Nat
         /\ epochStart < Len(log.proof) /\ epochStart <= cursor /\ cursor <= Len(log.proof)
         /\ Len(EpochRecords) = cursor - epochStart
         /\ DOMAIN EpochRecords = 1 .. cursor - epochStart
         /\ \A n \in 1 .. cursor - epochStart : EpochRecords[n] = log.proof[epochStart + n]
<1>1. /\ log.proof \in Seq(ProofRecord) /\ Len(log.proof) \in Nat
      /\ ReplayedTo(log, dist, epochStart) /\ EpochHeld(log, dist, epochStart, cursor)
      /\ ValidateProofContainer(log)
  BY ReplayTypes DEF InEpoch, InLoop
<1>2. /\ epochStart \in Nat /\ cursor \in Nat
      /\ epochStart < Len(log.proof) /\ epochStart <= cursor /\ cursor <= Len(log.proof)
  BY <1>1 DEF EpochHeld
<1>3. ASSUME NEW i \in epochStart + 1 .. cursor
      PROVE  Recorded(log.proof[i]) \in Candidate
  <2>1. i \in 1 .. Len(log.proof) /\ i \in DOMAIN log.proof
    BY <1>1, <1>2
  <2>2. log.proof[i].edge \in Int /\ log.proof[i].method \in Int
    BY <1>1, <2>1, RecordType
  <2>3. log.proof[i].witness \in Node \cup {-1}
    <3>1. CASE log.proof[i].method = kJv
      <4>1. VerifyJvCandidate(dist, GraphAt(log, epochStart), GraphAt(log, epochStart),
                              JvCandidate(log.proof[i].edge, log.proof[i].witness))
        BY <1>1, <3>1 DEF EpochHeld, HeldOn
      <4> QED
        BY <4>1 DEF VerifyJvCandidate, IsJvWitness, JvCandidate
    <3>2. CASE log.proof[i].method # kJv
      BY <1>1, <2>1, <3>2 DEF ValidateProofContainer
    <3> QED
      BY <3>1, <3>2
  <2> QED
    BY <2>2, <2>3 DEF Recorded, Candidate, NoWitness
<1>4. BatchOf(log, epochStart, cursor) \in SUBSET Candidate
  BY <1>3 DEF BatchOf
<1>5. EdgesOf(BatchOf(log, epochStart, cursor)) = EpochEdges(log, epochStart, cursor)
  <2>1. \A i : Recorded(log.proof[i]).edge = log.proof[i].edge
    BY DEF Recorded
  <2>2. \A e : e \in EdgesOf(BatchOf(log, epochStart, cursor)) <=>
                 \E i \in epochStart + 1 .. cursor : e = Recorded(log.proof[i]).edge
    BY DEF EdgesOf, BatchOf
  <2> QED
    BY <2>1, <2>2 DEF EpochEdges
<1>6. /\ Len(EpochRecords) = cursor - epochStart
      /\ DOMAIN EpochRecords = 1 .. cursor - epochStart
      /\ \A n \in 1 .. cursor - epochStart : EpochRecords[n] = log.proof[epochStart + n]
  <2>1. epochStart + 1 \in 1 .. Len(log.proof) + 1 /\ cursor \in epochStart .. Len(log.proof)
    BY <1>1, <1>2
  <2>2. EpochRecords = [n \in 1 .. cursor - epochStart |-> log.proof[epochStart + n]]
    BY <1>1, <1>2, <2>1 DEF EpochRecords
  <2> QED
    BY <1>2, <2>2
<1> QED
  BY <1>1, <1>2, <1>4, <1>5, <1>6

(* The commit begins with all records of the epoch.                        *)
LEMMA CommitRecordsInv ==
  ASSUME ReplayInv, CommitRecords
  PROVE  ReplayInv'
<1> DEFINE B == BatchOf(log, epochStart, cursor)
<1>1. /\ replayPc = "record" /\ ~ SameEpoch /\ replayPc' = "commit"
      /\ BeginCommit({Recorded(EpochRecords[i]) : i \in DOMAIN EpochRecords}, snapshotHash)
      /\ UNCHANGED <<snapshotHash, graph, dist, log, cursor, epochStart, sidecars>>
  BY DEF CommitRecords, epochVars
<1>2. /\ AtRecord /\ InEpoch /\ log.proof \in Seq(ProofRecord)
      /\ graph \subseteq Edge /\ Replaying
  BY <1>1, ReplayTypes DEF ReplayInv, ReplayShape, Replaying, AtRecord
<1>3. /\ B \in SUBSET Candidate /\ EdgesOf(B) = EpochEdges(log, epochStart, cursor)
      /\ epochStart \in Nat /\ cursor \in Nat /\ Len(log.proof) \in Nat
      /\ epochStart < Len(log.proof) /\ epochStart <= cursor /\ cursor <= Len(log.proof)
      /\ DOMAIN EpochRecords = 1 .. cursor - epochStart
      /\ \A n \in 1 .. cursor - epochStart : EpochRecords[n] = log.proof[epochStart + n]
  BY <1>2, BatchFacts
<1>4. {Recorded(EpochRecords[i]) : i \in DOMAIN EpochRecords} = B
  <2>1. \A n \in 1 .. cursor - epochStart : /\ epochStart + n \in epochStart + 1 .. cursor
                                            /\ EpochRecords[n] = log.proof[epochStart + n]
    BY <1>3
  <2>2. \A i \in epochStart + 1 .. cursor : i - epochStart \in 1 .. cursor - epochStart
                                            /\ EpochRecords[i - epochStart] = log.proof[i]
    <3>1. \A i \in epochStart + 1 .. cursor : i - epochStart \in 1 .. cursor - epochStart
                                              /\ epochStart + (i - epochStart) = i
      BY <1>3
    <3> QED
      BY <1>3, <3>1
  <2> QED
    BY <1>3, <2>1, <2>2 DEF BatchOf
<1>5. epochStart < cursor
  <2> SUFFICES ASSUME epochStart = cursor PROVE FALSE
    BY <1>3
  <2>1. cursor < Len(log.proof) /\ NextRecord = log.proof[epochStart + 1]
    BY <1>3 DEF NextRecord
  <2> QED
    BY <1>1, <2>1 DEF SameEpoch
<1> HIDE DEF B
<1>6. BeginCommit(B, snapshotHash)
  BY <1>1, <1>4
<1>7. CommitInv'
  BY <1>1, <1>3, <1>6, BeginInv DEF ReplayInv
<1>8. \A b : b = B => GreedyOver(EdgesOf(b))'
  BY <1>3, <1>6, BeginGreedy
<1>9. /\ active' = active /\ phase' = "sweep" /\ queue' \subseteq B
      /\ committed' = <<>>
  BY <1>6 DEF BeginCommit, graphVars, Canonical
<1>10. B' = B /\ EdgesOf(B)' = EdgesOf(B)
       /\ EpochEdges(log, epochStart, cursor)' = EpochEdges(log, epochStart, cursor)
  BY <1>1 DEF B, EdgesOf, BatchOf, EpochEdges, Recorded
<1>11. GreedyOver(EpochEdges(log, epochStart, cursor))'
  <2>1. PICK b : b = B
    OBVIOUS
  <2>2. GreedyOver(EdgesOf(b))'
    BY <1>8, <2>1
  <2>3. EdgesOf(b) = EpochEdges(log, epochStart, cursor)'
    BY <1>3, <1>10, <2>1
  <2>4. EdgesOf(b)' = EdgesOf(b)
    BY DEF EdgesOf
  <2> QED
    BY <2>2, <2>3, <2>4 DEF GreedyOver
<1>12. InEpoch' /\ ~ SameEpoch' /\ epochStart' < cursor'
  BY <1>1, <1>2, <1>5 DEF InEpoch, InLoop, SameEpoch, NextRecord
<1>13. active' = GraphAt(log', epochStart')
  BY <1>1, <1>2, <1>9 DEF AtRecord
<1>14. BatchOf(log', epochStart', cursor') = B
  BY <1>1 DEF B
<1>15. AtCommit'
  BY <1>9, <1>11, <1>12, <1>13, <1>14 DEF AtCommit
<1> QED
  BY <1>1, <1>2, <1>7, <1>15, ReplayCases

(* A step of the loop of the commit.                                       *)
LEMMA ReplaySweepInv ==
  ASSUME ReplayInv, ReplaySweep
  PROVE  ReplayInv'
<1> DEFINE B == BatchOf(log, epochStart, cursor)
           W == EpochEdges(log, epochStart, cursor)
           g == GraphAt(log, epochStart)
<1>1. /\ replayPc = "commit" /\ replayPc' = "commit" /\ Sweep
      /\ UNCHANGED <<snapshotHash, graph, dist, log, cursor, epochStart, sidecars>>
  BY DEF ReplaySweep, epochVars, replayVars
<1>2. AtCommit /\ log.proof \in Seq(ProofRecord) /\ graph \subseteq Edge /\ CommitInv
  BY <1>1, ReplayTypes DEF ReplayInv, ReplayShape, Replaying
<1>3. CommitInv'
  BY <1>1, <1>2, LeaveInv, SkipInv, TakeInv DEF Sweep
<1>4. /\ InEpoch /\ epochStart < cursor /\ ~ SameEpoch /\ queue \subseteq B
      /\ \A i \in DOMAIN committed : committed[i] \in B
      /\ phase = "sweep" => active = g /\ GreedyOver(W)
  BY <1>2 DEF AtCommit
<1>5. phase = "sweep"
  BY <1>1 DEF Sweep, PublishCommit, AbortCommit, SkipCandidate, TakeCandidate
<1>6. /\ InEpoch' /\ epochStart' < cursor' /\ ~ SameEpoch'
      /\ BatchOf(log', epochStart', cursor') = B
      /\ EpochEdges(log', epochStart', cursor') = W
      /\ GraphAt(log', epochStart') = g
  BY <1>1, <1>4 DEF InEpoch, InLoop, SameEpoch, NextRecord
<1> HIDE DEF B, W, g
<1>7. SUFFICES /\ queue' \subseteq B
               /\ \A i \in DOMAIN committed' : committed'[i] \in B
               /\ phase' = "sweep" => active' = g /\ \A w : w = W => GreedyOver(w)'
               /\ phase' = "idle" /\ result' = "committed" =>
                    GreedySubset(Committed', W, g) /\ active' = g \ Committed'
  <2> SUFFICES AtCommit'
    BY <1>1, <1>2, <1>3, ReplayCases
  <2>1. (phase = "sweep" => active = GraphAt(log, epochStart)
           /\ GreedyOver(EpochEdges(log, epochStart, cursor)))'
    <3>2. W' = W
      BY <1>6 DEF W
    <3>1. phase' = "sweep" => GreedyOver(W)'
      <4>1. PICK w : w = W
        OBVIOUS
      <4>2. phase' = "sweep" => GreedyOver(w)'
        BY <1>7, <4>1
      <4> QED
        BY <3>2, <4>1, <4>2 DEF GreedyOver
    <3>3. GreedyOver(W)' <=> GreedyOver(EpochEdges(log, epochStart, cursor))'
      BY DEF W
    <3> QED
      BY <1>6, <1>7, <3>1, <3>2, <3>3 DEF GreedyOver, W
  <2> QED
    BY <1>6, <1>7, <2>1 DEF AtCommit
<1>8. ASSUME NEW c \in queue, SkipCandidate(c) \/ TakeCandidate(c)
      PROVE  /\ queue' \subseteq B
             /\ \A i \in DOMAIN committed' : committed'[i] \in B
             /\ phase' = "sweep" /\ active' = active
             /\ \A w : w = W => GreedyOver(w)'
  <2>1. phase' = "sweep" /\ active' = active /\ queue' = queue \ {c}
    BY <1>5, <1>8 DEF SkipCandidate, TakeCandidate
  <2>2. \A i \in DOMAIN committed' : committed'[i] \in B
    <3>1. CASE SkipCandidate(c)
      BY <1>4, <3>1 DEF SkipCandidate
    <3>2. CASE TakeCandidate(c)
      <4>1. committed' = Append(committed, c) /\ committed \in Seq(Candidate) /\ c \in Candidate
        BY <1>2, <3>2 DEF TakeCandidate, CommitInv, CommitTypeOK
      <4>2. \A i \in DOMAIN committed' :
              \/ i \in DOMAIN committed /\ committed'[i] = committed[i]
              \/ committed'[i] = c
        BY <4>1
      <4> QED
        BY <1>4, <4>2
    <3> QED
      BY <1>8, <3>1, <3>2
  <2>3. ASSUME NEW w, w = W PROVE GreedyOver(w)'
    <3>1. GreedyOver(w)
      BY <1>4, <1>5, <2>3
    <3> QED
      BY <1>2, <1>8, <3>1, IterationGreedy
  <2> QED
    BY <1>4, <2>1, <2>2, <2>3
<1>9. CASE PublishCommit
  <2>1. /\ GreedySubset(Committed, W, active) /\ active' = active \ Committed
        /\ Committed' = Committed
    BY <1>4, <1>5, <1>9, PublishGreedy
  <2>2. phase' = "idle" /\ queue' = queue /\ committed' = committed
    BY <1>9 DEF PublishCommit
  <2> QED
    BY <1>4, <1>5, <2>1, <2>2
<1>10. CASE AbortCommit
  <2>1. phase' = "idle" /\ result' = "threw" /\ queue' = {} /\ committed' = <<>>
    BY <1>10 DEF AbortCommit
  <2> QED
    BY <2>1
<1> QED
  BY <1>1, <1>4, <1>5, <1>8, <1>9, <1>10 DEF Sweep

(* A commit that has run out of memory.                                    *)
LEMMA ReplayThrowsInv ==
  ASSUME ReplayInv, ReplayThrows
  PROVE  ReplayInv'
<1>1. /\ replayPc' = "threw" /\ result' = "threw" /\ graph' = graph /\ UNCHANGED commitVars
  BY DEF ReplayThrows, epochVars, commitVars
<1>2. CommitInv' /\ graph' \subseteq Edge
  BY <1>1, CommitStutters DEF ReplayInv
<1> QED
  BY <1>1, <1>2, ReplayEnds

(* The end of the log.                                                     *)
LEMMA PublishInv ==
  ASSUME ReplayInv, Publish
  PROVE  ReplayInv'
<1>1. /\ replayPc = "epoch" /\ cursor = Len(log.proof)
      /\ UNCHANGED <<commitVars, dist, log>>
      /\ \/ active = log.final /\ replayPc' = "returned" /\ graph' = active
         \/ active # log.final /\ replayPc' = "threw" /\ graph' = graph
  BY DEF Publish, ContentHash
<1>2. /\ AtEpoch /\ log.proof \in Seq(ProofRecord) /\ graph \subseteq Edge
      /\ active \subseteq Edge /\ Len(log.proof) \in Nat
  BY <1>1, ReplayTypes DEF ReplayInv, ReplayShape, Replaying
<1>3. CommitInv' /\ graph' \subseteq Edge
  BY <1>1, <1>2, CommitStutters DEF ReplayInv
<1>4. DOMAIN log.proof = 1 .. Len(log.proof)
  BY <1>2
<1>5. /\ graph = log.initial /\ ValidateProofContainer(log)
      /\ ReplayedTo(log, dist, Len(log.proof)) /\ active = GraphAt(log, Len(log.proof))
  BY <1>1, <1>2 DEF AtEpoch, InLoop
<1>6. active = Replayed(log)
  BY <1>4, <1>5 DEF GraphAt, Replayed
<1>7. active = log.final => ReplayProof(dist, log.initial, log)
  BY <1>4, <1>5, <1>6 DEF ReplayProof, ReplayedTo, ContentHash
<1>8. active # log.final => ~ ReplayProof(dist, graph, log)
  BY <1>6 DEF ReplayProof
<1> QED
  BY <1>1, <1>3, <1>7, <1>8, ReplayEnds

(* The deletions are those of the records, or the log does not replay: the *)
(* commit accepts the greedy subset of the records' edges, in edge order,  *)
(* so it accepts all of them in their order exactly if the definition says *)
(* so of each.                                                             *)
LEMMA DeletionsDecide ==
  ASSUME ReplayInv, Replaying, AtCommit, phase = "idle", result = "committed",
         \A i \in epochStart + 1 .. cursor : RecordReplays(dist, log, i)
  PROVE  SameDeletions
<1> DEFINE W == EpochEdges(log, epochStart, cursor)
           n == cursor - epochStart
           a == [i \in 1 .. Len(committed) |-> committed[i].edge]
           b == [i \in 1 .. n |-> log.proof[epochStart + i].edge]
<1>1. /\ InEpoch /\ log.proof \in Seq(ProofRecord) /\ epochStart < cursor
      /\ ReplayedTo(log, dist, epochStart) /\ EpochHeld(log, dist, epochStart, cursor)
      /\ GreedySubset(Committed, W, GraphAt(log, epochStart))
      /\ \A i \in DOMAIN committed : committed[i] \in BatchOf(log, epochStart, cursor)
      /\ graph \subseteq Edge /\ graph = log.initial
      /\ committed \in Seq(Candidate)
      /\ OneRecordPerDeletion
  BY ReplayTypes DEF AtCommit, InEpoch, InLoop, CommitInv, CommitTypeOK
<1>2. /\ epochStart \in Nat /\ cursor \in Nat /\ Len(log.proof) \in Nat
      /\ epochStart <= cursor /\ cursor <= Len(log.proof) /\ n \in Nat
      /\ Len(EpochRecords) = n
      /\ \A i \in 1 .. n : EpochRecords[i] = log.proof[epochStart + i]
  BY <1>1, BatchFacts
<1>3. GraphAt(log, epochStart) \subseteq Edge
  BY <1>1 DEF GraphAt, Without
<1>4. /\ Committed = W
      /\ \A i, j \in epochStart + 1 .. cursor : i < j => log.proof[i].edge < log.proof[j].edge
  <2>1. GreedySubset(Committed, {log.proof[i].edge : i \in epochStart + 1 .. cursor},
                     GraphAt(log, epochStart))
    BY <1>1 DEF EpochEdges
  <2>2. /\ Committed = {log.proof[i].edge : i \in epochStart + 1 .. cursor}
        /\ \A i, j \in epochStart + 1 .. cursor : i < j => log.proof[i].edge < log.proof[j].edge
    <3> HIDE DEF W, n, a, b
    <3> QED
      BY <1>1, <1>3, <2>1, EpochAgrees
  <2>3. W = {log.proof[i].edge : i \in epochStart + 1 .. cursor}
    BY DEF EpochEdges
  <2> HIDE DEF W
  <2>4. Committed = W
    BY <2>2, <2>3, Zenon
  <2> QED
    BY <2>2, <2>4, Zenon
<1>5. Len(committed) \in Nat /\ DOMAIN committed = 1 .. Len(committed)
      /\ a \in [1 .. Len(committed) -> Int]
  <2>1. Len(committed) \in Nat /\ DOMAIN committed = 1 .. Len(committed)
    BY <1>1
  <2>2. \A i \in 1 .. Len(committed) : committed[i] \in Candidate
    BY <1>1
  <2>3. \A i \in 1 .. Len(committed) : committed[i].edge \in Int
    BY <2>2 DEF Candidate
  <2> QED
    BY <2>1, <2>3
<1>6. \A i \in 1 .. n : /\ epochStart + i \in epochStart + 1 .. cursor
                        /\ epochStart + i \in 1 .. Len(log.proof)
  BY <1>2
<1>7. b \in [1 .. n -> Int]
  BY <1>1, <1>6, RecordType
<1>8. \A i, j \in 1 .. Len(committed) : i < j => a[i] < a[j]
  BY <1>1, <1>5 DEF OneRecordPerDeletion
<1>9. \A i, j \in 1 .. n : i < j => b[i] < b[j]
  <2>1. \A i, j \in 1 .. n : i < j => epochStart + i < epochStart + j
    BY <1>2
  <2> QED
    BY <1>4, <1>6, <2>1
<1>10. {a[i] : i \in 1 .. Len(committed)} = Committed
  BY <1>5 DEF Committed
<1>11. {b[i] : i \in 1 .. n} = W
  <2>1. \A i \in epochStart + 1 .. cursor : i - epochStart \in 1 .. n
                                            /\ epochStart + (i - epochStart) = i
    BY <1>2
  <2>2. \A i \in epochStart + 1 .. cursor : log.proof[i].edge = b[i - epochStart]
    BY <2>1
  <2>3. \A i \in 1 .. n : b[i] = log.proof[epochStart + i].edge
    OBVIOUS
  <2> QED
    BY <1>6, <2>1, <2>2, <2>3 DEF EpochEdges
<1>12. \A i \in 1 .. Len(committed) : a[i] = committed[i].edge
  OBVIOUS
<1>13. \A i \in 1 .. n : b[i] = log.proof[epochStart + i].edge
  OBVIOUS
<1> HIDE DEF a, b, n, W
<1>14. Len(committed) = n /\ \A i \in 1 .. n : a[i] = b[i]
  <2>1. n \in Nat
    BY <1>2 DEF n
  <2>2. Lists(a, Len(committed), W)
    BY <1>4, <1>5, <1>8, <1>10 DEF Lists
  <2>3. Lists(b, n, W)
    BY <1>7, <1>9, <1>11, <2>1 DEF Lists
  <2>4. Len(committed) = n /\ \A i \in 1 .. Len(committed) : a[i] = b[i]
    BY <2>2, <2>3, SameSequence
  <2> QED
    BY <2>4
<1>15. ASSUME NEW i \in 1 .. n
       PROVE  committed[i] = Recorded(EpochRecords[i])
  <2>1. PICK j \in epochStart + 1 .. cursor : committed[i] = Recorded(log.proof[j])
    BY <1>1, <1>5, <1>14 DEF BatchOf
  <2>2. committed[i].edge = log.proof[j].edge
    BY <2>1 DEF Recorded
  <2>3. committed[i].edge = log.proof[epochStart + i].edge
    BY <1>12, <1>13, <1>14
  <2>4. log.proof[j].edge \in Int /\ log.proof[epochStart + i].edge \in Int
    <3>1. j \in 1 .. Len(log.proof)
      BY <1>2
    <3> QED
      BY <1>1, <1>6, <3>1, RecordType
  <2>5. PICK k \in epochStart + 1 .. cursor : k = epochStart + i
    BY <1>6
  <2>7. ~ (j < k) /\ ~ (k < j)
    <3>1. log.proof[k].edge = log.proof[epochStart + i].edge
      BY <2>5, Zenon
    <3>2. log.proof[k].edge = log.proof[j].edge /\ log.proof[k].edge \in Int
      BY <2>2, <2>3, <2>4, <3>1
    <3> QED
      BY <1>4, <3>2
  <2>6. j = epochStart + i
    BY <1>2, <2>5, <2>7
  <2> QED
    BY <1>2, <2>1, <2>6
<1> QED
  BY <1>2, <1>5, <1>14, <1>15 DEF SameDeletions

(* How many certificates the epoch has used behind each of its records.    *)
LEMMA SidecarsBefore ==
  ASSUME ReplayInv, Replaying, InEpoch, epochStart < cursor,
         NEW n \in 1 .. cursor - epochStart + 1
  PROVE  /\ Cardinality(HtRecordsBefore(log, epochStart + n)) = sidecars + HtBefore(n)
         /\ Cardinality(HtRecordsBefore(log, epochStart + n)) \in Nat
<1>1. /\ log.proof \in Seq(ProofRecord)
      /\ epochStart \in 0 .. Len(log.proof) /\ cursor \in epochStart .. Len(log.proof)
      /\ sidecars = Cardinality(HtRecordsBefore(log, epochStart + 1))
  <2>1. /\ log.proof \in Seq(ProofRecord)
        /\ sidecars = Cardinality(HtRecordsBefore(log, epochStart + 1))
    BY ReplayTypes DEF InEpoch
  <2>2. /\ epochStart \in Nat /\ cursor \in Nat /\ Len(log.proof) \in Nat
        /\ epochStart < Len(log.proof) /\ epochStart <= cursor /\ cursor <= Len(log.proof)
    BY BatchFacts
  <2> QED
    BY <2>1, <2>2
<1>2. HtBefore(n) = Cardinality({k \in 1 .. n - 1 :
                                   SubSeq(log.proof, epochStart + 1, cursor)[k].method = 2})
  BY DEF HtBefore, EpochRecords
<1>3. /\ Cardinality(HtRecordsBefore(log, epochStart + n)) =
              Cardinality(HtRecordsBefore(log, epochStart + 1))
              + Cardinality({k \in 1 .. n - 1 :
                               SubSeq(log.proof, epochStart + 1, cursor)[k].method = 2})
      /\ Cardinality(HtRecordsBefore(log, epochStart + n)) \in Nat
  BY <1>1, SidecarCount, Zenon
<1> QED
  BY <1>1, <1>2, <1>3, Zenon

(* The comparison behind the commit.                                       *)
LEMMA CheckDeletionsInv ==
  ASSUME ReplayInv, CheckDeletions
  PROVE  ReplayInv'
<1> DEFINE s == epochStart
           W == EpochEdges(log, epochStart, cursor)
           n == cursor - epochStart
<1>1. /\ replayPc = "commit" /\ phase = "idle" /\ result = "committed"
      /\ sidecars' = sidecars + HtBefore(Len(EpochRecords) + 1)
      /\ UNCHANGED <<commitVars, graph, dist, log, cursor, epochStart, phase, active>>
  BY DEF CheckDeletions, epochVars, commitVars
<1>2. /\ AtCommit /\ InEpoch /\ epochStart < cursor /\ ~ SameEpoch
      /\ log.proof \in Seq(ProofRecord) /\ graph \subseteq Edge /\ CommitInv /\ Replaying
      /\ ReplayedTo(log, dist, epochStart) /\ EpochHeld(log, dist, epochStart, cursor)
      /\ GreedySubset(Committed, W, GraphAt(log, epochStart))
      /\ active = GraphAt(log, epochStart) \ Committed
      /\ committed \in Seq(Candidate) /\ OneRecordPerDeletion
  BY <1>1, ReplayTypes
     DEF ReplayInv, ReplayShape, Replaying, AtCommit, InEpoch, CommitInv, CommitTypeOK
<1>3. /\ epochStart \in Nat /\ cursor \in Nat /\ Len(log.proof) \in Nat
      /\ epochStart < Len(log.proof) /\ epochStart <= cursor /\ cursor <= Len(log.proof)
      /\ n \in Nat /\ Len(EpochRecords) = n /\ DOMAIN EpochRecords = 1 .. n
      /\ \A i \in 1 .. n : EpochRecords[i] = log.proof[epochStart + i]
  BY <1>2, BatchFacts
<1>4. CommitInv'
  BY <1>1, <1>2, CommitStutters
<1>5. \A i \in 1 .. n : /\ epochStart + i \in epochStart + 1 .. cursor
                        /\ epochStart + i \in 1 .. Len(log.proof)
                        /\ i \in 1 .. cursor - epochStart + 1
  BY <1>3
<1>6. \A i \in epochStart + 1 .. cursor : /\ i - epochStart \in 1 .. n
                                          /\ epochStart + (i - epochStart) = i
                                          /\ i \in DOMAIN log.proof
  BY <1>2, <1>3
<1>7. CASE SameDeletions /\ SidecarsInOrder
  <2>1. replayPc' = "epoch"
    BY <1>7 DEF CheckDeletions
  <2>2. Len(committed) = n /\ \A i \in 1 .. n : committed[i] = Recorded(log.proof[epochStart + i])
        /\ DOMAIN committed = 1 .. n
    BY <1>2, <1>3, <1>7 DEF SameDeletions
  <2>3. \A i \in 1 .. n : committed[i].edge = log.proof[epochStart + i].edge
    BY <2>2 DEF Recorded
  <2>4. Committed = W
    <3>1. ASSUME NEW i \in 1 .. n
          PROVE  committed[i].edge \in W
      <4>1. PICK k \in epochStart + 1 .. cursor : k = epochStart + i
        BY <1>5
      <4>2. committed[i].edge = log.proof[k].edge
        BY <2>3, <4>1
      <4> QED
        BY <4>2 DEF EpochEdges
    <3>2. ASSUME NEW i \in epochStart + 1 .. cursor
          PROVE  log.proof[i].edge \in Committed
      <4>1. PICK k \in 1 .. n : epochStart + k = i
        BY <1>6
      <4>2. committed[k].edge = log.proof[i].edge
        BY <2>3, <4>1
      <4> QED
        BY <2>2, <4>2 DEF Committed
    <3>3. Committed \subseteq W
      BY <2>2, <3>1 DEF Committed
    <3>4. W \subseteq Committed
      BY <3>2 DEF EpochEdges
    <3> QED
      BY <3>3, <3>4
  <2>5. \A i, j \in epochStart + 1 .. cursor : i < j => log.proof[i].edge < log.proof[j].edge
    <3> TAKE i \in epochStart + 1 .. cursor, j \in epochStart + 1 .. cursor
    <3> HAVE i < j
    <3>1. PICK k \in 1 .. n : epochStart + k = i
      BY <1>6
    <3>2. PICK m \in 1 .. n : epochStart + m = j
      BY <1>6
    <3>3. k < m
      BY <1>3, <3>1, <3>2
    <3>4. committed[k].edge < committed[m].edge
      BY <1>2, <2>2, <3>3 DEF OneRecordPerDeletion
    <3>5. committed[k].edge = log.proof[i].edge /\ committed[m].edge = log.proof[j].edge
      BY <2>3, <3>1, <3>2
    <3> QED
      BY <3>4, <3>5
  <2>6. \A i \in epochStart + 1 .. cursor :
          log.proof[i].method = 2 => log.proof[i].certificate = Cardinality(HtRecordsBefore(log, i))
    <3> TAKE i \in epochStart + 1 .. cursor
    <3> DEFINE k == i - epochStart
    <3>1. k \in 1 .. n /\ epochStart + k = i /\ k \in 1 .. cursor - epochStart + 1
      BY <1>5, <1>6
    <3>2. EpochRecords[k].method = 2 => EpochRecords[k].certificate = sidecars + HtBefore(k)
      BY <1>3, <1>7, <3>1 DEF SidecarsInOrder
    <3>3. EpochRecords[k] = log.proof[i]
      BY <1>3, <3>1
    <3> HIDE DEF k
    <3>4. Cardinality(HtRecordsBefore(log, epochStart + k)) = sidecars + HtBefore(k)
      BY <1>2, <3>1, SidecarsBefore
    <3>5. Cardinality(HtRecordsBefore(log, i)) = sidecars + HtBefore(k)
      BY <3>1, <3>4
    <3> QED
      BY <3>2, <3>3, <3>5
  <2>7. cursor # Len(log.proof) => log.proof[cursor + 1].epoch # log.proof[epochStart + 1].epoch
    BY <1>2, <1>3 DEF SameEpoch, NextRecord
  <2>8. /\ ReplayedTo(log, dist, cursor)
        /\ GraphAt(log, cursor) = GraphAt(log, epochStart) \ W
    <3>1. GreedySubset(W, W, GraphAt(log, epochStart))
      BY <1>2, <2>4
    <3>2. W = {log.proof[i].edge : i \in epochStart + 1 .. cursor}
      BY DEF EpochEdges
    <3> HIDE DEF W
    <3>3. GreedySubset({log.proof[i].edge : i \in epochStart + 1 .. cursor},
                       {log.proof[i].edge : i \in epochStart + 1 .. cursor},
                       GraphAt(log, epochStart))
      BY <3>1, <3>2
    <3> QED
      BY <1>2, <2>5, <2>6, <2>7, <3>2, <3>3, EpochDone
  <2>9. sidecars' = Cardinality(HtRecordsBefore(log, cursor + 1))
    <3>1. PICK k \in Nat : k = n + 1
      BY <1>3
    <3>2. k \in 1 .. cursor - epochStart + 1 /\ epochStart + k = cursor + 1
          /\ Len(EpochRecords) + 1 = k
      BY <1>3, <3>1
    <3>3. Cardinality(HtRecordsBefore(log, epochStart + k)) = sidecars + HtBefore(k)
      BY <1>2, <3>2, SidecarsBefore
    <3>4. HtBefore(Len(EpochRecords) + 1) = HtBefore(k)
      BY <3>2, Zenon
    <3>5. HtRecordsBefore(log, epochStart + k) = HtRecordsBefore(log, cursor + 1)
      BY <3>2, Zenon
    <3> QED
      BY <1>1, <3>3, <3>4, <3>5
  <2>10. AtEpoch'
    BY <1>1, <1>2, <2>4, <2>8, <2>9 DEF AtEpoch, InEpoch, InLoop
  <2> QED
    BY <1>1, <1>2, <1>4, <2>1, <2>10, ReplayCases
<1>8. CASE ~ (SameDeletions /\ SidecarsInOrder)
  <2>1. replayPc' = "threw"
    BY <1>8 DEF CheckDeletions
  <2>2. ASSUME ReplayProof(dist, graph, log)
        PROVE  SameDeletions /\ SidecarsInOrder
    <3>1. \A i \in DOMAIN log.proof :
            /\ RecordReplays(dist, log, i)
            /\ log.proof[i].method = 2 =>
                 log.proof[i].certificate = Cardinality(HtRecordsBefore(log, i))
      BY <2>2 DEF ReplayProof
    <3>2. \A i \in epochStart + 1 .. cursor : RecordReplays(dist, log, i)
      BY <1>6, <3>1
    <3>3. SameDeletions
      BY <1>1, <1>2, <3>2, DeletionsDecide
    <3>4. ASSUME NEW i \in 1 .. n, EpochRecords[i].method = 2
          PROVE  EpochRecords[i].certificate = sidecars + HtBefore(i)
      <4>1. EpochRecords[i] = log.proof[epochStart + i] /\ epochStart + i \in DOMAIN log.proof
        BY <1>2, <1>3, <1>5
      <4>2. PICK k \in Int : k = epochStart + i
        BY <1>3
      <4>3. log.proof[k].certificate = Cardinality(HtRecordsBefore(log, k))
        BY <3>1, <3>4, <4>1, <4>2
      <4>4. Cardinality(HtRecordsBefore(log, epochStart + i)) = sidecars + HtBefore(i)
        BY <1>2, <1>5, SidecarsBefore
      <4>5. HtRecordsBefore(log, epochStart + i) = HtRecordsBefore(log, k)
        BY <4>2, Zenon
      <4> QED
        BY <4>1, <4>2, <4>3, <4>4, <4>5
    <3> QED
      BY <1>3, <3>3, <3>4 DEF SidecarsInOrder
  <2>3. ~ ReplayProof(dist, graph, log)
    BY <1>8, <2>2
  <2> QED
    BY <1>1, <1>2, <1>4, <2>1, <2>3, ReplayEnds
<1> QED
  BY <1>7, <1>8

(* Together.                                                               *)
LEMMA ReplayNextInv ==
  ASSUME ReplayInv, ReplayNext
  PROVE  ReplayInv'
BY CheckContainerInv, StartEpochInv, VerifyRecordInv, CommitRecordsInv, ReplaySweepInv,
   CheckDeletionsInv, ReplayThrowsInv, PublishInv DEF ReplayNext

-----------------------------------------------------------------------------
(* Sets of numbers in increasing order.                                    *)

(* Ascending lists the elements of a finite set, each once, the smaller    *)
(* ones first.                                                             *)
LEMMA AscendingLists ==
  ASSUME NEW S \in SUBSET Int, IsFiniteSet(S)
  PROVE  /\ Cardinality(S) \in Nat
         /\ DOMAIN Ascending(S) = 1 .. Cardinality(S)
         /\ Lists(Ascending(S), Cardinality(S), S)
<1> DEFINE n == Cardinality(S)
           before == [x \in S |-> {y \in S : y < x}]
           at == Ascending(S)
<1>1. n \in Nat
  BY FS_CardinalityType
<1>2. \A x \in S : before[x] = {y \in S : y < x} /\ x \in Int
  OBVIOUS
<1>3. before \in [S -> SUBSET S]
  OBVIOUS
<1>4. \A x, y \in S : x \in before[y] <=> x < y
  OBVIOUS
<1> HIDE DEF before
<1>5. \A r \in 0 .. n - 1 : \E x \in S : Cardinality(before[x]) = r
  <2>1. \A x \in S : x \notin before[x]
    BY <1>2
  <2>2. \A x, y \in S : x \in before[y] => before[x] \subseteq before[y]
    <3> TAKE x \in S, y \in S
    <3> HAVE x \in before[y]
    <3>1. x < y /\ x \in Int /\ y \in Int
      BY <1>2, <1>4
    <3>2. \A z \in S : z < x => z < y
      BY <3>1
    <3> QED
      BY <1>2, <3>2, Zenon
  <2>3. \A x, y \in S : x = y \/ x \in before[y] \/ y \in before[x]
    BY <1>2
  <2>4. \A r \in 0 .. Cardinality(S) - 1 : \E x \in S : Cardinality(before[x]) = r
    <3>1. /\ \A r \in 0 .. Cardinality(S) - 1 : \E x \in S : Cardinality(before[x]) = r
          /\ \A x \in S : Cardinality(before[x]) \in 0 .. Cardinality(S) - 1
          /\ \A x, y \in S : Cardinality(before[x]) = Cardinality(before[y]) => x = y
      BY <1>3, <2>1, <2>2, <2>3, RankOnto, Zenon
    <3> QED
      BY <3>1
  <2> QED
    BY <2>4
<1>6. /\ DOMAIN at = 1 .. n
      /\ \A i \in 1 .. n : at[i] = CHOOSE x \in S : Cardinality({y \in S : y < x}) = i - 1
  BY DEF Ascending
<1>0. at = [i \in 1 .. n |-> at[i]]
  BY SMTT(30) DEF Ascending
<1> HIDE DEF at
<1>7. \A i \in 1 .. n : at[i] \in S /\ Cardinality(before[at[i]]) = i - 1
  <2> TAKE i \in 1 .. n
  <2>1. i - 1 \in 0 .. n - 1
    BY <1>1
  <2>2. PICK x \in S : Cardinality(before[x]) = i - 1
    BY <1>5, <2>1
  <2>3. Cardinality({y \in S : y < x}) = i - 1
    BY <1>2, <2>2
  <2>4. at[i] \in S /\ Cardinality({y \in S : y < at[i]}) = i - 1
    BY <1>6, <2>3
  <2> QED
    BY <1>2, <2>4
<1>8. \A i, j \in 1 .. n : i < j => at[i] < at[j]
  <2> TAKE i \in 1 .. n, j \in 1 .. n
  <2> HAVE i < j
  <2>0. at[i] \in S /\ at[j] \in S /\ at[i] \in Int /\ at[j] \in Int
    BY <1>7
  <2> SUFFICES ASSUME at[j] <= at[i] PROVE FALSE
    BY <2>0
  <2>1. before[at[j]] \in SUBSET before[at[i]]
    <3>1. \A y \in S : y < at[j] => y < at[i]
      BY <2>0
    <3>2. before[at[j]] = {y \in S : y < at[j]} /\ before[at[i]] = {y \in S : y < at[i]}
      BY <1>2, <2>0
    <3> QED
      BY <3>1, <3>2
  <2>2. IsFiniteSet(before[at[i]])
    <3>1. before[at[i]] \in SUBSET S
      BY <1>3, <1>7
    <3> QED
      BY <3>1, FS_Subset
  <2>3. Cardinality(before[at[j]]) <= Cardinality(before[at[i]])
    BY <2>1, <2>2, FS_Subset
  <2> QED
    BY <1>7, <2>3
<1>9. at \in [1 .. n -> Int]
  <2>1. \A i \in 1 .. n : at[i] \in Int
    BY <1>7
  <2>2. at = [i \in 1 .. n |-> at[i]]
    BY <1>0
  <2> QED
    BY <2>1, <2>2
<1>10. at \in Injection(1 .. n, S)
  <2>1. at \in [1 .. n -> S]
    <3>1. at = [i \in 1 .. n |-> at[i]]
      BY <1>0
    <3> QED
      BY <1>7, <3>1
  <2>2. \A i, j \in 1 .. n : at[i] = at[j] => i = j
    <3>1. \A i, j \in 1 .. n : at[i] = at[j] => i - 1 = j - 1
      BY <1>7
    <3> QED
      BY <3>1
  <2> QED
    BY <2>1, <2>2 DEF Injection, IsInjective
<1>11. at \in Surjection(1 .. n, S)
  <2>1. Cardinality(1 .. n) = n
    BY <1>1, FS_Interval
  <2> QED
    BY <1>10, <2>1, FS_Injection
<1>12. {at[i] : i \in 1 .. n} = S
  BY <1>7, <1>11 DEF Surjection
<1> QED
  BY <1>1, <1>6, <1>8, <1>9, <1>12 DEF at, Lists

(* An interval is listed by counting.                                      *)
LEMMA AscendingInterval ==
  ASSUME NEW p \in Nat, NEW q \in Nat, p <= q + 1
  PROVE  /\ Cardinality(p .. q) = q - p + 1
         /\ DOMAIN Ascending(p .. q) = 1 .. q - p + 1
         /\ \A n \in 1 .. q - p + 1 : Ascending(p .. q)[n] = p + n - 1
<1> DEFINE S == p .. q
           m == q - p + 1
           a == Ascending(S)
           b == [n \in 1 .. m |-> p + n - 1]
<1>1. IsFiniteSet(S)
  BY FS_Interval
<1>2. Cardinality(S) = m /\ m \in Nat
  <2>1. Cardinality(S) = IF p > q THEN 0 ELSE q - p + 1
    BY FS_Interval
  <2> QED
    BY <2>1
<1>3. S \in SUBSET Int
  OBVIOUS
<1>4. b \in [1 .. m -> Int] /\ \A i, j \in 1 .. m : i < j => b[i] < b[j]
  OBVIOUS
<1>5. {b[i] : i \in 1 .. m} = S
  <2>1. \A i \in 1 .. m : b[i] \in S
    BY <1>2
  <2>2. \A x \in S : x - p + 1 \in 1 .. m /\ b[x - p + 1] = x
    BY <1>2
  <2> QED
    BY <2>1, <2>2
<1>6. Lists(b, m, S)
  BY <1>2, <1>4, <1>5 DEF Lists
<1> HIDE DEF S
<1>9. DOMAIN a = 1 .. m /\ Lists(a, m, S)
  BY <1>1, <1>2, <1>3, AscendingLists
<1>7. \A i \in 1 .. m : b[i] = p + i - 1
  OBVIOUS
<1> HIDE DEF a, b, m
<1>8. \A i \in 1 .. m : a[i] = b[i]
  <2>1. Lists(b, m, S)
    BY <1>6
  <2>2. Lists(a, m, S)
    BY <1>9
  <2> QED
    BY <2>1, <2>2, SameSequence
<1> QED
  BY <1>2, <1>7, <1>8, <1>9 DEF a, m, S

(* The values of a kind whose lines follow one another.                    *)
LEMMA ValuesAt ==
  ASSUME NEW lines, NEW kind, NEW p \in Nat, NEW q \in Nat, NEW m, p <= q + 1,
         Places(lines, kind) = p .. q, q - p + 1 = m
  PROVE  /\ Count(lines, kind) = m
         /\ ValuesOf(lines, kind) = [n \in 1 .. m |-> lines[p + n - 1].value]
         /\ Seen(lines, kind) <=> p <= q
<1> DEFINE at == Ascending(p .. q)
<1>1. /\ Cardinality(p .. q) = m /\ DOMAIN at = 1 .. m
      /\ \A n \in 1 .. m : at[n] = p + n - 1
  BY AscendingInterval
<1>2. ValuesOf(lines, kind) = [n \in DOMAIN at |-> lines[at[n]].value]
  BY DEF ValuesOf
<1>3. Seen(lines, kind) <=> p <= q
  <2>1. p <= q => p \in p .. q
    OBVIOUS
  <2>2. p .. q # {} => p <= q
    OBVIOUS
  <2> QED
    BY <2>1, <2>2 DEF Seen
<1> HIDE DEF at
<1>4. [n \in DOMAIN at |-> lines[at[n]].value] = [n \in 1 .. m |-> lines[p + n - 1].value]
  BY <1>1
<1> QED
  BY <1>1, <1>2, <1>3, <1>4 DEF Count

-----------------------------------------------------------------------------
(* The proof file.                                                         *)

\* How long the parts of a proof file are: R records, M metrics, and X lines of
\* certificates with the line that counts them.
Sidecars(l) == IF l.certificates = <<>> THEN 0 ELSE Len(l.certificates) + 1

\* w is s, of length m, followed by t, of length n.
Glued(w, s, t, m, n) ==
  /\ Len(w) = m + n
  /\ \A i \in 1 .. m : w[i] = s[i]
  /\ \A i \in 1 .. n : w[m + i] = t[i]

(* Concatenation.                                                          *)
LEMMA Joined ==
  ASSUME NEW S, NEW s \in Seq(S), NEW t \in Seq(S), NEW m, NEW n, Len(s) = m, Len(t) = n
  PROVE  s \o t \in Seq(S) /\ Glued(s \o t, s, t, m, n)
<1>1. /\ s \o t \in Seq(S) /\ Len(s \o t) = m + n
      /\ \A i \in 1 .. m + n : (s \o t)[i] = IF i <= m THEN s[i] ELSE t[i - m]
  BY ConcatProperties
<1>2. m \in Nat /\ n \in Nat
  BY LenProperties
<1>3. \A i \in 1 .. n : m + i \in 1 .. m + n /\ ~ (m + i <= m) /\ (m + i) - m = i
  BY <1>2
<1>4. \A i \in 1 .. m : i \in 1 .. m + n /\ i <= m
  BY <1>2
<1> QED
  BY <1>1, <1>3, <1>4 DEF Glued

\* Line by line, the file W of a log l with R records, M metrics, C certificates
\* and X lines about certificates.
Laid(W, l, R, M, C, X) ==
  /\ R \in Nat /\ M \in Nat /\ C \in Nat /\ X \in Nat
  /\ DOMAIN l.proof = 1 .. R /\ DOMAIN l.certificates = 1 .. C
  /\ IF l.certificates = <<>> THEN X = 0 /\ C = 0 ELSE X = C + 1
  /\ DOMAIN W = 1 .. Len(W) /\ Len(W) = R + M + X + 5
  /\ W[1] = Line("magic", IF l.certificates = <<>> THEN 1 ELSE 2)
  /\ W[2] = Line("backend", 0)
  /\ W[3] = Line("initial_hash", l.initial)
  /\ \A i \in 1 .. R : W[3 + i] = Line("record", l.proof[i])
  /\ \A i \in 1 .. M : W[3 + R + i] = Line("metrics", l.metrics[i])
  /\ X # 0 => W[3 + R + M + 1] = Line("ht_proof_count", C)
  /\ \A i \in 1 .. X - 1 :
       W[4 + R + M + i] = Line("ht_proof", [index |-> i - 1, proof |-> l.certificates[i]])
  /\ W[4 + R + M + X] = Line("final_hash", l.final)
  /\ W[5 + R + M + X] = Line("END", 0)

(* The lines of the file, part by part.                                    *)
LEMMA WrittenLines ==
  ASSUME NEW l \in EliminationResult
  PROVE  /\ Laid(WriteProof(l), l, Len(l.proof), Len(l.metrics), Len(l.certificates),
                  Sidecars(l))
         /\ \E S : WriteProof(l) \in Seq(S)
<1> DEFINE R == Len(l.proof)
           M == Len(l.metrics)
           C == Len(l.certificates)
           X == Sidecars(l)
           v == IF l.certificates = <<>> THEN 1 ELSE 2
           a == <<Line("magic", v), Line("backend", 0), Line("initial_hash", l.initial)>>
           b == LinesOf("record", l.proof)
           c == LinesOf("metrics", l.metrics)
           e == <<Line("ht_proof_count", C)>>
           f == [i \in DOMAIN l.certificates |->
                   Line("ht_proof", [index |-> i - 1, proof |-> l.certificates[i]])]
           x == IF v = 2 THEN e \o f ELSE <<>>
           z == <<Line("final_hash", l.final), Line("END", 0)>>
           S == {a[i] : i \in 1 .. 3} \cup {b[i] : i \in 1 .. R} \cup {c[i] : i \in 1 .. M}
                  \cup {e[1]} \cup {f[i] : i \in 1 .. C} \cup {z[i] : i \in 1 .. 2}
<1>1. /\ R \in Nat /\ DOMAIN l.proof = 1 .. R
      /\ M \in Nat /\ DOMAIN l.metrics = 1 .. M
      /\ C \in Nat /\ DOMAIN l.certificates = 1 .. C
  <2>1. /\ l.proof \in Seq(ProofRecord) /\ l.metrics \in Seq(Nat)
        /\ l.certificates \in Seq(HtRecursiveProof)
    BY DEF EliminationResult
  <2> QED
    BY <2>1, LenProperties
<1>2. /\ a = [i \in 1 .. 3 |-> a[i]] /\ e = [i \in 1 .. 1 |-> e[i]]
      /\ z = [i \in 1 .. 2 |-> z[i]]
      /\ Len(a) = 3 /\ Len(e) = 1 /\ Len(z) = 2
  OBVIOUS
<1>3. /\ b = [i \in 1 .. R |-> b[i]] /\ c = [i \in 1 .. M |-> c[i]]
      /\ f = [i \in 1 .. C |-> f[i]]
  BY <1>1 DEF LinesOf
<1>4. Len(b) = R /\ Len(c) = M /\ Len(f) = C
  BY <1>1 DEF LinesOf
<1>5. /\ \A i \in 1 .. R : b[i] = Line("record", l.proof[i])
      /\ \A i \in 1 .. M : c[i] = Line("metrics", l.metrics[i])
      /\ \A i \in 1 .. C :
           f[i] = Line("ht_proof", [index |-> i - 1, proof |-> l.certificates[i]])
  BY <1>1 DEF LinesOf
<1>6. /\ a[1] = Line("magic", v) /\ a[2] = Line("backend", 0)
      /\ a[3] = Line("initial_hash", l.initial)
      /\ e[1] = Line("ht_proof_count", C)
      /\ z[1] = Line("final_hash", l.final) /\ z[2] = Line("END", 0)
  OBVIOUS
<1>7. WriteProof(l) = a \o b \o c \o x \o z
  BY DEF WriteProof
<1>8. \/ l.certificates = <<>> /\ x = <<>> /\ X = 0 /\ C = 0
      \/ l.certificates # <<>> /\ x = e \o f /\ X = C + 1
  BY DEF Sidecars
<1> HIDE DEF a, b, c, e, f, x, z
<1>9. a \in Seq(S) /\ b \in Seq(S) /\ c \in Seq(S) /\ e \in Seq(S) /\ f \in Seq(S) /\ z \in Seq(S)
  <2>1. \A n \in Nat : \A g : g = [i \in 1 .. n |-> g[i]] /\ (\A i \in 1 .. n : g[i] \in S)
                           => g \in Seq(S)
    <3> HIDE DEF S
    <3> QED
      OBVIOUS
  <2>2. /\ \A i \in 1 .. 3 : a[i] \in S
        /\ \A i \in 1 .. R : b[i] \in S
        /\ \A i \in 1 .. M : c[i] \in S
        /\ \A i \in 1 .. 1 : e[i] \in S
        /\ \A i \in 1 .. C : f[i] \in S
        /\ \A i \in 1 .. 2 : z[i] \in S
    OBVIOUS
  <2> HIDE DEF S, R, M, C
  <2> QED
    BY <1>1, <1>2, <1>3, <2>1, <2>2
<1>10. /\ x \in Seq(S) /\ Len(x) = X /\ X \in Nat
       /\ X # 0 => x[1] = Line("ht_proof_count", C)
       /\ \A i \in 1 .. X - 1 : x[1 + i] = f[i]
       /\ X # 0 => X - 1 = C
  <2> HIDE DEF S, R, M, C, X
  <2>1. CASE l.certificates = <<>>
    BY <1>8, <1>9, <2>1
  <2>2. CASE l.certificates # <<>>
    <3>1. x = e \o f /\ X = C + 1
      BY <1>8, <2>2
    <3>2. e \o f \in Seq(S) /\ Glued(e \o f, e, f, 1, C)
      BY <1>2, <1>4, <1>9, Joined
    <3>3. x \in Seq(S) /\ Glued(x, e, f, 1, C)
      BY <3>1, <3>2
    <3>4. /\ Len(x) = 1 + C
          /\ \A i \in 1 .. 1 : x[i] = e[i]
          /\ \A i \in 1 .. C : x[1 + i] = f[i]
      BY <3>3 DEF Glued
    <3>5. X - 1 = C /\ X \in Nat /\ 1 + C = X
      BY <1>1, <3>1
    <3> QED
      BY <1>6, <3>3, <3>4, <3>5
  <2> QED
    BY <2>1, <2>2
<1> HIDE DEF S, R, M, C, X
<1>11. a \o b \in Seq(S) /\ Glued(a \o b, a, b, 3, R)
  BY <1>2, <1>4, <1>9, Joined
<1> DEFINE ab == a \o b
<1> HIDE DEF ab
<1>12. ab \in Seq(S) /\ Glued(ab, a, b, 3, R) /\ Len(ab) = 3 + R
  BY <1>11 DEF ab, Glued
<1>13. ab \o c \in Seq(S) /\ Glued(ab \o c, ab, c, 3 + R, M)
  BY <1>4, <1>9, <1>12, Joined
<1> DEFINE ac == ab \o c
<1> HIDE DEF ac
<1>14. ac \in Seq(S) /\ Glued(ac, ab, c, 3 + R, M) /\ Len(ac) = 3 + R + M
  BY <1>13 DEF ac, Glued
<1>15. ac \o x \in Seq(S) /\ Glued(ac \o x, ac, x, 3 + R + M, X)
  BY <1>9, <1>10, <1>14, Joined
<1> DEFINE ax == ac \o x
<1> HIDE DEF ax
<1>16. ax \in Seq(S) /\ Glued(ax, ac, x, 3 + R + M, X) /\ Len(ax) = 3 + R + M + X
  BY <1>15 DEF ax, Glued
<1>17. ax \o z \in Seq(S) /\ Glued(ax \o z, ax, z, 3 + R + M + X, 2)
  BY <1>2, <1>9, <1>16, Joined
<1> DEFINE W == WriteProof(l)
<1>18. W = ax \o z
  BY <1>7 DEF ab, ac, ax
<1> HIDE DEF W
<1>35. W \in Seq(S) /\ Glued(W, ax, z, 3 + R + M + X, 2)
  BY <1>17, <1>18
<1>36. /\ Len(W) = 3 + R + M + X + 2
       /\ \A i \in 1 .. 3 + R + M + X : W[i] = ax[i]
       /\ \A i \in 1 .. 2 : W[3 + R + M + X + i] = z[i]
  BY <1>35 DEF Glued
<1>37. /\ \A i \in 1 .. 3 : ab[i] = a[i]
       /\ \A i \in 1 .. R : ab[3 + i] = b[i]
       /\ \A i \in 1 .. 3 + R : ac[i] = ab[i]
       /\ \A i \in 1 .. M : ac[3 + R + i] = c[i]
       /\ \A i \in 1 .. 3 + R + M : ax[i] = ac[i]
       /\ \A i \in 1 .. X : ax[3 + R + M + i] = x[i]
  BY <1>12, <1>14, <1>16 DEF Glued
<1>19. DOMAIN W = 1 .. Len(W) /\ Len(W) = R + M + X + 5
  <2>1. DOMAIN W = 1 .. Len(W)
    BY <1>35, LenProperties
  <2>2. 3 + R + M + X + 2 = R + M + X + 5
    BY <1>1, <1>10
  <2> QED
    BY <1>36, <2>1, <2>2
<1>20. /\ W[1] = a[1] /\ W[2] = a[2] /\ W[3] = a[3]
  <2>1. \A i \in 1 .. 3 : /\ i \in 1 .. 3 + R + M + X /\ i \in 1 .. 3 + R + M
                          /\ i \in 1 .. 3 + R
    BY <1>1, <1>10
  <2>2. \A i \in 1 .. 3 : W[i] = a[i]
    BY <1>36, <1>37, <2>1
  <2> QED
    BY <2>2
<1>21. \A i \in 1 .. R : W[3 + i] = b[i]
  <2>1. \A i \in 1 .. R : /\ 3 + i \in 1 .. 3 + R + M + X /\ 3 + i \in 1 .. 3 + R + M
                          /\ 3 + i \in 1 .. 3 + R
    BY <1>1, <1>10
  <2> QED
    BY <1>36, <1>37, <2>1
<1>22. \A i \in 1 .. M : W[3 + R + i] = c[i]
  <2>1. \A i \in 1 .. M : /\ 3 + R + i \in 1 .. 3 + R + M + X /\ 3 + R + i \in 1 .. 3 + R + M
    BY <1>1, <1>10
  <2> QED
    BY <1>36, <1>37, <2>1
<1>23. \A i \in 1 .. X : W[3 + R + M + i] = x[i]
  <2>1. \A i \in 1 .. X : 3 + R + M + i \in 1 .. 3 + R + M + X
    BY <1>1, <1>10
  <2> QED
    BY <1>36, <1>37, <2>1
<1>24. X # 0 => W[3 + R + M + 1] = x[1]
  <2>1. X # 0 => 1 \in 1 .. X
    BY <1>10
  <2> QED
    BY <1>23, <2>1
<1>25. \A i \in 1 .. X - 1 : W[4 + R + M + i] = f[i]
  <2>1. \A i \in 1 .. X - 1 : 1 + i \in 1 .. X /\ 3 + R + M + (1 + i) = 4 + R + M + i
    BY <1>1, <1>10
  <2>2. \A i \in 1 .. X - 1 : W[3 + R + M + (1 + i)] = x[1 + i]
    BY <1>23, <2>1
  <2> QED
    BY <1>10, <2>1, <2>2
<1>26. W[4 + R + M + X] = z[1] /\ W[5 + R + M + X] = z[2]
  <2>1. 3 + R + M + X + 1 = 4 + R + M + X /\ 3 + R + M + X + 2 = 5 + R + M + X
    BY <1>1, <1>10
  <2>2. W[3 + R + M + X + 1] = z[1] /\ W[3 + R + M + X + 2] = z[2]
    BY <1>36
  <2> QED
    BY <2>1, <2>2
<1>27. \A i \in 1 .. X - 1 : i \in 1 .. C
  BY <1>1, <1>10
<1>28. \E T : W \in Seq(T)
  BY <1>17, <1>18
<1>29. /\ W[1] = Line("magic", IF l.certificates = <<>> THEN 1 ELSE 2)
       /\ W[2] = Line("backend", 0) /\ W[3] = Line("initial_hash", l.initial)
  BY <1>6, <1>20
<1>30. \A i \in 1 .. R : W[3 + i] = Line("record", l.proof[i])
  BY <1>5, <1>21
<1>31. \A i \in 1 .. M : W[3 + R + i] = Line("metrics", l.metrics[i])
  BY <1>5, <1>22
<1>32. X # 0 => W[3 + R + M + 1] = Line("ht_proof_count", C)
  BY <1>10, <1>24
<1>33. \A i \in 1 .. X - 1 :
         W[4 + R + M + i] = Line("ht_proof", [index |-> i - 1, proof |-> l.certificates[i]])
  BY <1>5, <1>25, <1>27
<1>34. /\ W[4 + R + M + X] = Line("final_hash", l.final)
       /\ W[5 + R + M + X] = Line("END", 0)
  BY <1>6, <1>26
<1>38. IF l.certificates = <<>> THEN X = 0 /\ C = 0 ELSE X = C + 1
  BY <1>8 DEF X
<1>39. Laid(W, l, R, M, C, X)
  BY <1>1, <1>10, <1>19, <1>29, <1>30, <1>31, <1>32, <1>33, <1>34, <1>38 DEF Laid
<1> QED
  BY <1>28, <1>39 DEF W, R, M, C, X

(* Which kind of line stands where.                                        *)
LEMMA LineKinds ==
  ASSUME NEW W, NEW l, NEW R, NEW M, NEW C, NEW X, Laid(W, l, R, M, C, X),
         NEW i \in DOMAIN W
  PROVE  \/ i = 1 /\ W[i].kind = "magic"
         \/ i = 2 /\ W[i].kind = "backend"
         \/ i = 3 /\ W[i].kind = "initial_hash"
         \/ i \in 4 .. R + 3 /\ W[i].kind = "record" /\ W[i].value = l.proof[i - 3]
         \/ i \in R + 4 .. R + M + 3 /\ W[i].kind = "metrics"
         \/ X # 0 /\ i = R + M + 4 /\ W[i].kind = "ht_proof_count" /\ W[i].value = C
         \/ /\ X # 0 /\ i \in R + M + 5 .. R + M + C + 4 /\ W[i].kind = "ht_proof"
            /\ W[i].value.index = i - (R + M + 5)
            /\ W[i].value.proof = l.certificates[i - (R + M + 4)]
         \/ i = R + M + X + 4 /\ W[i].kind = "final_hash"
         \/ i = R + M + X + 5 /\ W[i].kind = "END"
<1>1. /\ R \in Nat /\ M \in Nat /\ C \in Nat /\ X \in Nat
      /\ X = 0 \/ X = C + 1
      /\ i \in 1 .. R + M + X + 5
  BY DEF Laid
<1>2. \A kind, value : Line(kind, value).kind = kind /\ Line(kind, value).value = value
  BY DEF Line
<1>3. CASE i \in 4 .. R + 3
  <2>1. PICK j : j = i - 3
    OBVIOUS
  <2>2. j \in 1 .. R /\ i = 3 + j
    BY <1>1, <1>3, <2>1
  <2>3. W[i] = Line("record", l.proof[j])
    BY <2>2 DEF Laid
  <2> QED
    BY <1>2, <1>3, <2>1, <2>3
<1>4. CASE i \in R + 4 .. R + M + 3
  <2>1. PICK j : j = i - 3 - R
    OBVIOUS
  <2>2. j \in 1 .. M /\ i = 3 + R + j
    BY <1>1, <1>4, <2>1
  <2>3. W[i] = Line("metrics", l.metrics[j])
    BY <2>2 DEF Laid
  <2> QED
    BY <1>2, <1>4, <2>3
<1>5. CASE X # 0 /\ i = R + M + 4
  <2>1. i = 3 + R + M + 1
    BY <1>1, <1>5
  <2>2. W[i] = Line("ht_proof_count", C)
    BY <1>5, <2>1 DEF Laid
  <2> QED
    BY <1>2, <1>5, <2>2
<1>6. CASE X # 0 /\ i \in R + M + 5 .. R + M + C + 4
  <2>1. PICK j : j = i - (R + M + 4)
    OBVIOUS
  <2>2. j \in 1 .. X - 1 /\ i = 4 + R + M + j /\ j - 1 = i - (R + M + 5)
    BY <1>1, <1>6, <2>1
  <2>3. W[i] = Line("ht_proof", [index |-> j - 1, proof |-> l.certificates[j]])
    BY <2>2 DEF Laid
  <2>4. W[i].kind = "ht_proof" /\ W[i].value = [index |-> j - 1, proof |-> l.certificates[j]]
    BY <1>2, <2>3
  <2>5. W[i].value.index = j - 1 /\ W[i].value.proof = l.certificates[j]
    BY <2>4
  <2> QED
    BY <1>6, <2>1, <2>2, <2>4, <2>5
<1>7. CASE i = R + M + X + 4
  <2>1. i = 4 + R + M + X
    BY <1>1, <1>7
  <2>2. W[i] = Line("final_hash", l.final)
    BY <2>1 DEF Laid
  <2> QED
    BY <1>2, <1>7, <2>2
<1>8. CASE i = R + M + X + 5
  <2>1. i = 5 + R + M + X
    BY <1>1, <1>8
  <2>2. W[i] = Line("END", 0)
    BY <2>1 DEF Laid
  <2> QED
    BY <1>2, <1>8, <2>2
<1>9. CASE i \in 1 .. 3
  <2>1. /\ W[1].kind = "magic" /\ W[2].kind = "backend" /\ W[3].kind = "initial_hash"
    BY <1>2 DEF Laid
  <2> QED
    BY <1>9, <2>1
<1> QED
  BY <1>1, <1>3, <1>4, <1>5, <1>6, <1>7, <1>8, <1>9

(* The lines of each kind are next to each other.                          *)
LEMMA WrittenPlaces ==
  ASSUME NEW W, NEW l, NEW R, NEW M, NEW C, NEW X, Laid(W, l, R, M, C, X)
  PROVE  /\ Places(W, "backend") = 2 .. 2
         /\ Places(W, "initial_hash") = 3 .. 3
         /\ Places(W, "record") = 4 .. R + 3
         /\ Places(W, "ht_proof_count") =
              IF X = 0 THEN {} ELSE R + M + 4 .. R + M + 4
         /\ Places(W, "ht_proof") = R + M + 5 .. R + M + C + 4
         /\ Places(W, "final_hash") = R + M + X + 4 .. R + M + X + 4
         /\ Places(W, "END") = R + M + X + 5 .. R + M + X + 5
<1>1. /\ R \in Nat /\ M \in Nat /\ C \in Nat /\ X \in Nat
      /\ (X = 0 /\ C = 0) \/ X = C + 1
      /\ DOMAIN W = 1 .. R + M + X + 5
  BY DEF Laid
<1>2. \A i \in DOMAIN W :
         \/ i = 1 /\ W[i].kind = "magic"
         \/ i = 2 /\ W[i].kind = "backend"
         \/ i = 3 /\ W[i].kind = "initial_hash"
         \/ i \in 4 .. R + 3 /\ W[i].kind = "record"
         \/ i \in R + 4 .. R + M + 3 /\ W[i].kind = "metrics"
         \/ X # 0 /\ i = R + M + 4 /\ W[i].kind = "ht_proof_count"
         \/ X # 0 /\ i \in R + M + 5 .. R + M + C + 4 /\ W[i].kind = "ht_proof"
         \/ i = R + M + X + 4 /\ W[i].kind = "final_hash"
         \/ i = R + M + X + 5 /\ W[i].kind = "END"
  BY LineKinds
<1> DEFINE kind == [i \in DOMAIN W |-> W[i].kind]
<1>3. \A k : Places(W, k) = {i \in 1 .. R + M + X + 5 : kind[i] = k}
  BY <1>1 DEF Places
<1>4. \A i \in 1 .. R + M + X + 5 :
         \/ i = 1 /\ kind[i] = "magic"
         \/ i = 2 /\ kind[i] = "backend"
         \/ i = 3 /\ kind[i] = "initial_hash"
         \/ i \in 4 .. R + 3 /\ kind[i] = "record"
         \/ i \in R + 4 .. R + M + 3 /\ kind[i] = "metrics"
         \/ X # 0 /\ i = R + M + 4 /\ kind[i] = "ht_proof_count"
         \/ X # 0 /\ i \in R + M + 5 .. R + M + C + 4 /\ kind[i] = "ht_proof"
         \/ i = R + M + X + 4 /\ kind[i] = "final_hash"
         \/ i = R + M + X + 5 /\ kind[i] = "END"
  <2> TAKE i \in 1 .. R + M + X + 5
  <2>1. kind[i] = W[i].kind
    BY <1>1
  <2>2. \/ i = 1 /\ W[i].kind = "magic"
        \/ i = 2 /\ W[i].kind = "backend"
        \/ i = 3 /\ W[i].kind = "initial_hash"
        \/ i \in 4 .. R + 3 /\ W[i].kind = "record"
        \/ i \in R + 4 .. R + M + 3 /\ W[i].kind = "metrics"
        \/ X # 0 /\ i = R + M + 4 /\ W[i].kind = "ht_proof_count"
        \/ X # 0 /\ i \in R + M + 5 .. R + M + C + 4 /\ W[i].kind = "ht_proof"
        \/ i = R + M + X + 4 /\ W[i].kind = "final_hash"
        \/ i = R + M + X + 5 /\ W[i].kind = "END"
    BY <1>1, <1>2
  <2> HIDE DEF kind
  <2> QED
    BY <2>1, <2>2, Zenon
<1> HIDE DEF kind
<1>5. {i \in 1 .. R + M + X + 5 : kind[i] = "backend"} = 2 .. 2
  BY <1>1, <1>4
<1>6. {i \in 1 .. R + M + X + 5 : kind[i] = "initial_hash"} = 3 .. 3
  BY <1>1, <1>4
<1>7. {i \in 1 .. R + M + X + 5 : kind[i] = "record"} = 4 .. R + 3
  BY <1>1, <1>4
<1>8. {i \in 1 .. R + M + X + 5 : kind[i] = "ht_proof_count"} =
         IF X = 0 THEN {} ELSE R + M + 4 .. R + M + 4
  BY <1>1, <1>4
<1>9. {i \in 1 .. R + M + X + 5 : kind[i] = "ht_proof"} = R + M + 5 .. R + M + C + 4
  BY <1>1, <1>4
<1>10. {i \in 1 .. R + M + X + 5 : kind[i] = "final_hash"} = R + M + X + 4 .. R + M + X + 4
  BY <1>1, <1>4
<1>11. {i \in 1 .. R + M + X + 5 : kind[i] = "END"} = R + M + X + 5 .. R + M + X + 5
  BY <1>1, <1>4
<1>12. /\ Places(W, "backend") = 2 .. 2
       /\ Places(W, "initial_hash") = 3 .. 3
       /\ Places(W, "record") = 4 .. R + 3
  BY <1>3, <1>5, <1>6, <1>7, Zenon
<1>13. /\ Places(W, "ht_proof_count") = IF X = 0 THEN {} ELSE R + M + 4 .. R + M + 4
       /\ Places(W, "ht_proof") = R + M + 5 .. R + M + C + 4
  BY <1>3, <1>8, <1>9, Zenon
<1>14. /\ Places(W, "final_hash") = R + M + X + 4 .. R + M + X + 4
       /\ Places(W, "END") = R + M + X + 5 .. R + M + X + 5
  BY <1>3, <1>10, <1>11, Zenon
<1> QED
  BY <1>12, <1>13, <1>14, Zenon

(* The part of an interval that lies in the first so many numbers.         *)
LEMMA CutInterval ==
  ASSUME NEW a \in Nat, NEW b \in Nat, NEW c \in Nat, 1 <= a
  PROVE  /\ b <= c => (a .. b) \cap 1 .. c = a .. b
         /\ c <= b => (a .. b) \cap 1 .. c = a .. c
OBVIOUS

(* The value of a kind that one line has.                                  *)
LEMMA ValueAt ==
  ASSUME NEW lines, NEW kind, NEW p \in Nat, Places(lines, kind) = p .. p
  PROVE  ValueOf(lines, kind) = lines[p].value /\ Seen(lines, kind)
<1>1. PICK q \in Nat : q = p
  OBVIOUS
<1>2. PICK m : m = 1
  OBVIOUS
<1>3. p <= q + 1 /\ p <= q /\ Places(lines, kind) = p .. q /\ q - p + 1 = m
  BY <1>1, <1>2
<1>4. /\ ValuesOf(lines, kind) = [n \in 1 .. m |-> lines[p + n - 1].value]
      /\ Seen(lines, kind) <=> p <= q
  BY <1>3, ValuesAt
<1>5. 1 \in 1 .. m /\ p + 1 - 1 = p
  BY <1>2
<1>6. ValuesOf(lines, kind)[1] = lines[p].value
  BY <1>4, <1>5
<1> QED
  BY <1>3, <1>4, <1>6 DEF ValueOf

(* A reader of the whole file gets the log that was written.               *)
LEMMA WholeFileCarries ==
  ASSUME NEW l \in EliminationResult
  PROVE  /\ Carries(WriteProof(l), l)
         /\ Complete(WriteProof(l))
<1> DEFINE W == WriteProof(l)
           R == Len(l.proof)
           M == Len(l.metrics)
           C == Len(l.certificates)
           X == Sidecars(l)
<1>1. Laid(W, l, R, M, C, X)
  BY WrittenLines
<1> HIDE DEF W, R, M, C, X
<1>2. /\ R \in Nat /\ M \in Nat /\ C \in Nat /\ X \in Nat
      /\ IF l.certificates = <<>> THEN X = 0 /\ C = 0 ELSE X = C + 1
      /\ DOMAIN W = 1 .. R + M + X + 5
      /\ DOMAIN l.proof = 1 .. R /\ DOMAIN l.certificates = 1 .. C
      /\ W[1] = Line("magic", IF l.certificates = <<>> THEN 1 ELSE 2)
      /\ W[3] = Line("initial_hash", l.initial)
      /\ W[4 + R + M + X] = Line("final_hash", l.final)
  BY <1>1 DEF Laid
<1>3. /\ Places(W, "backend") = 2 .. 2
      /\ Places(W, "initial_hash") = 3 .. 3
      /\ Places(W, "record") = 4 .. R + 3
      /\ Places(W, "ht_proof_count") =
              IF X = 0 THEN {} ELSE R + M + 4 .. R + M + 4
      /\ Places(W, "ht_proof") = R + M + 5 .. R + M + C + 4
      /\ Places(W, "final_hash") = R + M + X + 4 .. R + M + X + 4
      /\ Places(W, "END") = R + M + X + 5 .. R + M + X + 5
  BY <1>1, WrittenPlaces
<1>4. \A kind, value : Line(kind, value).kind = kind /\ Line(kind, value).value = value
  BY DEF Line
<1>5. ValueOf(W, "initial_hash") = l.initial /\ Seen(W, "initial_hash")
  <2>1. ValueOf(W, "initial_hash") = W[3].value /\ Seen(W, "initial_hash")
    BY <1>3, ValueAt
  <2> QED
    BY <1>2, <1>4, <2>1
<1>6. Seen(W, "backend")
  BY <1>3 DEF Seen
<1>7. Seen(W, "END")
  <2>1. R + M + X + 5 \in Places(W, "END")
    BY <1>2, <1>3
  <2> QED
    BY <2>1 DEF Seen
<1>8. ValueOf(W, "final_hash") = l.final /\ Seen(W, "final_hash")
  <2>1. PICK p \in Nat : p = R + M + X + 4
    BY <1>2
  <2>2. Places(W, "final_hash") = p .. p
    BY <1>3, <2>1
  <2>3. ValueOf(W, "final_hash") = W[p].value /\ Seen(W, "final_hash")
    BY <2>2, ValueAt
  <2>4. p = 4 + R + M + X
    BY <1>2, <2>1
  <2> QED
    BY <1>2, <1>4, <2>3, <2>4
<1>9. ValuesOf(W, "record") = l.proof
  <2>1. PICK q \in Nat : q = R + 3
    BY <1>2
  <2>2. 4 <= q + 1 /\ q - 4 + 1 = R
    BY <1>2, <2>1
  <2>3. ValuesOf(W, "record") = [n \in 1 .. R |-> W[4 + n - 1].value]
    BY <1>3, <2>1, <2>2, ValuesAt
  <2>4. \A n \in 1 .. R : W[4 + n - 1].value = l.proof[n]
    <3>1. \A n \in 1 .. R : 4 + n - 1 = 3 + n
      OBVIOUS
    <3>2. \A n \in 1 .. R : W[3 + n] = Line("record", l.proof[n])
      BY <1>1 DEF Laid
    <3> QED
      BY <1>4, <3>1, <3>2
  <2>5. l.proof = [n \in 1 .. R |-> l.proof[n]]
    <3>1. l.proof \in Seq(ProofRecord)
      BY DEF EliminationResult
    <3> QED
      BY <1>2, <3>1
  <2> QED
    BY <2>3, <2>4, <2>5
<1> DEFINE cs == ValuesOf(W, "ht_proof")
<1>10. /\ Count(W, "ht_proof") = C
       /\ DOMAIN cs = 1 .. C
       /\ \A n \in 1 .. C : cs[n].proof = l.certificates[n]
  <2>0. R \in Nat /\ M \in Nat /\ C \in Nat
    BY <1>2
  <2>1. PICK p \in Nat, q \in Nat : p = R + M + 5 /\ q = R + M + C + 4
    <3> HIDE DEF R, M, C
    <3> QED
      BY <2>0
  <2>2. p <= q + 1 /\ q - p + 1 = C
    BY <1>2, <2>1
  <2>3. /\ Count(W, "ht_proof") = C /\ cs = [n \in 1 .. C |-> W[p + n - 1].value]
    <3>1. Places(W, "ht_proof") = p .. q
      BY <1>3, <2>1
    <3> QED
      BY <2>2, <3>1, ValuesAt
  <2>4. \A n \in 1 .. C : W[p + n - 1].value.proof = l.certificates[n]
    <3> TAKE n \in 1 .. C
    <3>1. PICK i : i = p + n - 1
      OBVIOUS
    <3>2. i = 4 + R + M + n /\ n \in 1 .. X - 1
      BY <1>2, <2>1, <3>1
    <3>3. W[i] = Line("ht_proof", [index |-> n - 1, proof |-> l.certificates[n]])
      BY <1>1, <3>2 DEF Laid
    <3>4. W[i].value = [index |-> n - 1, proof |-> l.certificates[n]]
      BY <1>4, <3>3
    <3> QED
      BY <3>1, <3>4
  <2> QED
    BY <2>3, <2>4
<1>11. [i \in DOMAIN cs |-> cs[i].proof] = l.certificates
  <2>1. l.certificates \in Seq(HtRecursiveProof)
    BY DEF EliminationResult
  <2>2. l.certificates = [n \in 1 .. C |-> l.certificates[n]]
    BY <1>2, <2>1
  <2> HIDE DEF cs
  <2> QED
    BY <1>10, <2>2
<1>12. X # 0 => Seen(W, "ht_proof_count") /\ ValueOf(W, "ht_proof_count") = C
  <2> HAVE X # 0
  <2>1. PICK p \in Nat : p = R + M + 4
    BY <1>2
  <2>2. Places(W, "ht_proof_count") = p .. p
    BY <1>3, <2>1
  <2>3. ValueOf(W, "ht_proof_count") = W[p].value /\ Seen(W, "ht_proof_count")
    BY <2>2, ValueAt
  <2>4. p = 3 + R + M + 1
    BY <1>2, <2>1
  <2>5. W[p] = Line("ht_proof_count", C)
    BY <1>1, <2>4 DEF Laid
  <2> QED
    BY <1>4, <2>3, <2>5
<1>13. W[1].value = 2 => X # 0
  BY <1>2, <1>4
<1>14. Complete(W)
  BY <1>5, <1>6, <1>7, <1>8, <1>10, <1>12, <1>13 DEF Complete
<1>15. Carries(W, l)
  BY <1>5, <1>8, <1>9, <1>11 DEF Carries, ReadLog
<1> QED
  BY <1>14, <1>15 DEF W

\* A file of which a prefix has been written, or is left.
Prefix(lines, whole) == \E n \in 0 .. Len(whole) : lines = SubSeq(whole, 1, n)

(* A prefix, line by line.                                                 *)
LEMMA PrefixLines ==
  ASSUME NEW S, NEW whole \in Seq(S), NEW n \in 0 .. Len(whole)
  PROVE  LET lines == SubSeq(whole, 1, n)
         IN  /\ lines \in Seq(S)
             /\ Len(lines) = n /\ DOMAIN lines = 1 .. n
             /\ \A i \in 1 .. n : lines[i] = whole[i]
             /\ n = Len(whole) => lines = whole
             /\ n < Len(whole) => Append(lines, whole[Len(lines) + 1]) = SubSeq(whole, 1, n + 1)
<1> DEFINE lines == SubSeq(whole, 1, n)
<1>1. Len(whole) \in Nat /\ n \in Nat
  BY LenProperties
<1>2. \A i \in 1 .. n : whole[i] \in S
  BY <1>1, ElementOfSeq
<1>3. /\ lines \in Seq(S) /\ Len(lines) = IF 1 <= n THEN n - 1 + 1 ELSE 0
      /\ \A i \in 1 .. n - 1 + 1 : lines[i] = whole[1 + i - 1]
  BY <1>1, <1>2, SubSeqProperties
<1>4. Len(lines) = n /\ \A i \in 1 .. n : lines[i] = whole[i]
  BY <1>1, <1>3
<1>5. DOMAIN lines = 1 .. n
  BY <1>3, <1>4, LenProperties
<1>6. n = Len(whole) => lines = whole
  BY SubSeqFull
<1>7. n < Len(whole) => Append(lines, whole[Len(lines) + 1]) = SubSeq(whole, 1, n + 1)
  <2> HAVE n < Len(whole)
  <2>1. PICK m \in 1 .. Len(whole) : m = n + 1
    BY <1>1
  <2>2. 1 \in 1 .. Len(whole) /\ m - 1 = n
    BY <1>1, <2>1
  <2>3. SubSeq(whole, 1, m) = SubSeq(whole, 1, m - 1) \o <<whole[m]>>
    <3>1. m \in 1 .. Len(whole)
      BY <2>1
    <3> QED
      BY <2>2, <3>1, SubSeqRecursiveSecond
  <2>4. SubSeq(whole, 1, m) = lines \o <<whole[m]>>
    BY <2>2, <2>3
  <2>5. Append(lines, whole[m]) = lines \o <<whole[m]>>
    BY <1>3, <2>1, ElementOfSeq, AppendIsConcat
  <2> QED
    BY <1>4, <2>1, <2>4, <2>5
<1> QED
  BY <1>3, <1>4, <1>5, <1>6, <1>7

(* A prefix of a proof file that ends with END is the whole file.          *)
LEMMA OnlyTheWholeFileEnds ==
  ASSUME NEW l \in EliminationResult, NEW lines, Prefix(lines, WriteProof(l)),
         Seen(lines, "END")
  PROVE  lines = WriteProof(l)
<1> DEFINE W == WriteProof(l)
           R == Len(l.proof)
           M == Len(l.metrics)
           C == Len(l.certificates)
           X == Sidecars(l)
<1>1. Laid(W, l, R, M, C, X) /\ \E S : W \in Seq(S)
  BY WrittenLines
<1>2. PICK n \in 0 .. Len(W) : lines = SubSeq(W, 1, n)
  BY DEF Prefix
<1> HIDE DEF W, R, M, C, X
<1>3. PICK S : W \in Seq(S)
  BY <1>1
<1>4. /\ Len(lines) = n /\ DOMAIN lines = 1 .. n
      /\ \A i \in 1 .. n : lines[i] = W[i]
      /\ n = Len(W) => lines = W
  BY <1>2, <1>3, PrefixLines
<1>5. Len(W) = R + M + X + 5 /\ R + M + X + 5 \in Nat /\ DOMAIN W = 1 .. Len(W)
  BY <1>1 DEF Laid
<1>6. PICK i \in 1 .. n : W[i].kind = "END"
  BY <1>4 DEF Seen, Places
<1>7. i \in Places(W, "END")
  BY <1>5, <1>6 DEF Places
<1>8. i = R + M + X + 5
  BY <1>1, <1>5, <1>7, WrittenPlaces
<1>9. n = Len(W)
  BY <1>5, <1>6, <1>8
<1> QED
  BY <1>4, <1>9 DEF W

(* A valid log has at most as many certificates as records.                *)
LEMMA FewCertificates ==
  ASSUME NEW l \in EliminationResult, ValidateProofContainer(l)
  PROVE  /\ Len(l.certificates) <= Len(l.proof)
         /\ l.certificates = <<>> => \A i \in DOMAIN l.proof : l.proof[i].method = kJv
<1> DEFINE ht == {i \in DOMAIN l.proof : l.proof[i].method = 2}
           f == [i \in ht |-> l.proof[i].certificate + 1]
<1>1. /\ Len(l.proof) \in Nat /\ DOMAIN l.proof = 1 .. Len(l.proof)
      /\ Len(l.certificates) \in Nat /\ DOMAIN l.certificates = 1 .. Len(l.certificates)
  <2>1. l.proof \in Seq(ProofRecord) /\ l.certificates \in Seq(HtRecursiveProof)
    BY DEF EliminationResult
  <2> QED
    BY <2>1, LenProperties
<1>2. /\ \A i \in ht : l.proof[i].certificate + 1 \in DOMAIN l.certificates
      /\ {l.proof[i].certificate + 1 : i \in ht} = DOMAIN l.certificates
      /\ \A i \in DOMAIN l.proof \ ht : l.proof[i].method = kJv
  BY DEF ValidateProofContainer
<1>3. f \in Surjection(ht, DOMAIN l.certificates)
  <2>1. f \in [ht -> DOMAIN l.certificates]
    BY <1>2
  <2>2. \A t \in DOMAIN l.certificates : \E i \in ht : f[i] = t
    BY <1>2
  <2> QED
    BY <2>1, <2>2 DEF Surjection
<1> HIDE DEF f
<1>4. IsFiniteSet(1 .. Len(l.proof)) /\ Cardinality(1 .. Len(l.proof)) = Len(l.proof)
  <2>1. PICK k \in Nat : k = Len(l.proof)
    BY <1>1
  <2>2. IsFiniteSet(1 .. k) /\ Cardinality(1 .. k) = k
    BY FS_Interval
  <2> QED
    BY <2>1, <2>2
<1>5. IsFiniteSet(ht) /\ Cardinality(ht) <= Len(l.proof) /\ Cardinality(ht) \in Nat
  <2>1. ht \in SUBSET (1 .. Len(l.proof))
    BY <1>1
  <2> HIDE DEF ht
  <2> QED
    BY <1>4, <2>1, FS_Subset, FS_CardinalityType
<1>6. Cardinality(DOMAIN l.certificates) <= Cardinality(ht)
  <2> HIDE DEF ht
  <2> QED
    BY <1>3, <1>5, FS_Surjection
<1>7. Cardinality(DOMAIN l.certificates) = Len(l.certificates)
  <2>1. PICK k \in Nat : k = Len(l.certificates) /\ DOMAIN l.certificates = 1 .. k
    BY <1>1
  <2>2. Cardinality(1 .. k) = k
    BY FS_Interval
  <2> QED
    BY <2>1, <2>2
<1>8. l.certificates = <<>> => ht = {}
  <2>1. l.certificates = <<>> => DOMAIN l.certificates = {}
    OBVIOUS
  <2> QED
    BY <1>2, <2>1
<1> QED
  BY <1>1, <1>2, <1>5, <1>6, <1>7, <1>8

(* What a reader of line i has seen of a kind.                             *)
LEMMA EarlierPlaces ==
  ASSUME NEW S, NEW W \in Seq(S), NEW i \in 1 .. Len(W)
  PROVE  LET earlier == SubSeq(W, 1, i - 1)
         IN  /\ \A kind : Places(earlier, kind) = Places(W, kind) \cap 1 .. i - 1
             /\ \A j \in 1 .. i - 1 : earlier[j] = W[j]
<1> DEFINE earlier == SubSeq(W, 1, i - 1)
<1>1. Len(W) \in Nat /\ DOMAIN W = 1 .. Len(W) /\ i - 1 \in 0 .. Len(W)
  BY LenProperties
<1>2. PICK n \in 0 .. Len(W) : n = i - 1
  BY <1>1
<1>3. /\ DOMAIN SubSeq(W, 1, n) = 1 .. n
      /\ \A j \in 1 .. n : SubSeq(W, 1, n)[j] = W[j]
  BY PrefixLines
<1>4. DOMAIN earlier = 1 .. i - 1 /\ \A j \in 1 .. i - 1 : earlier[j] = W[j]
  BY <1>2, <1>3
<1> HIDE DEF earlier
<1>5. ASSUME NEW kind PROVE Places(earlier, kind) = Places(W, kind) \cap 1 .. i - 1
  <2>1. \A j \in 1 .. i - 1 : j \in DOMAIN W
    BY <1>1
  <2> QED
    BY <1>4, <2>1 DEF Places
<1> QED
  BY <1>4, <1>5 DEF earlier

(* Each line that is written for a valid log is legal where it stands.     *)
LEMMA WrittenLineIsLegal ==
  ASSUME NEW l \in EliminationResult, ValidateProofContainer(l),
         NEW i \in 2 .. Len(WriteProof(l))
  PROVE  LegalAt(WriteProof(l), i)
<1> DEFINE W == WriteProof(l)
           R == Len(l.proof)
           M == Len(l.metrics)
           C == Len(l.certificates)
           X == Sidecars(l)
           E == SubSeq(W, 1, i - 1)
<1>1. Laid(W, l, R, M, C, X) /\ \E S : W \in Seq(S)
  BY WrittenLines
<1>2. C <= R /\ (l.certificates = <<>> => \A n \in DOMAIN l.proof : l.proof[n].method = kJv)
  BY FewCertificates
<1>0. i \in 2 .. Len(W)
  OBVIOUS
<1> HIDE DEF W, R, M, C, X
<1>3. /\ R \in Nat /\ M \in Nat /\ C \in Nat /\ X \in Nat
      /\ IF l.certificates = <<>> THEN X = 0 /\ C = 0 ELSE X = C + 1
      /\ Len(W) = R + M + X + 5 /\ DOMAIN W = 1 .. R + M + X + 5
      /\ DOMAIN l.proof = 1 .. R
      /\ W[1].value = IF l.certificates = <<>> THEN 1 ELSE 2
  BY <1>1 DEF Laid, Line
<1>4. i \in Nat /\ 2 <= i /\ i <= R + M + X + 5 /\ i \in DOMAIN W /\ i \in 1 .. Len(W)
  BY <1>0, <1>3
<1>5. PICK S : W \in Seq(S)
  BY <1>1
<1>6. /\ \A kind : Places(E, kind) = Places(W, kind) \cap 1 .. i - 1
      /\ \A j \in 1 .. i - 1 : E[j] = W[j]
  BY <1>4, <1>5, EarlierPlaces
<1> HIDE DEF E
<1>7. /\ Places(W, "backend") = 2 .. 2
      /\ Places(W, "initial_hash") = 3 .. 3
      /\ Places(W, "record") = 4 .. R + 3
      /\ Places(W, "ht_proof_count") =
              IF X = 0 THEN {} ELSE R + M + 4 .. R + M + 4
      /\ Places(W, "ht_proof") = R + M + 5 .. R + M + C + 4
      /\ Places(W, "final_hash") = R + M + X + 4 .. R + M + X + 4
      /\ Places(W, "END") = R + M + X + 5 .. R + M + X + 5
  BY <1>1, WrittenPlaces
<1>8. \/ i = 2 /\ W[i].kind = "backend"
      \/ i = 3 /\ W[i].kind = "initial_hash"
      \/ i \in 4 .. R + 3 /\ W[i].kind = "record" /\ W[i].value = l.proof[i - 3]
      \/ i \in R + 4 .. R + M + 3 /\ W[i].kind = "metrics"
      \/ X # 0 /\ i = R + M + 4 /\ W[i].kind = "ht_proof_count" /\ W[i].value = C
      \/ /\ X # 0 /\ i \in R + M + 5 .. R + M + C + 4 /\ W[i].kind = "ht_proof"
         /\ W[i].value.index = i - (R + M + 5)
      \/ i = R + M + X + 4 /\ W[i].kind = "final_hash"
      \/ i = R + M + X + 5 /\ W[i].kind = "END"
  BY <1>1, <1>4, LineKinds
<1>9. W[i].kind # "magic"
  BY <1>8
<1>10. ~ Seen(E, "END")
  <2>1. Places(W, "END") \cap 1 .. i - 1 = {}
    BY <1>3, <1>4, <1>7
  <2> QED
    BY <1>6, <2>1 DEF Seen
<1>11. W[i].kind \in {"backend", "initial_hash", "ht_proof_count", "final_hash"} =>
          ~ Seen(E, W[i].kind)
  <2> HAVE W[i].kind \in {"backend", "initial_hash", "ht_proof_count", "final_hash"}
  <2>1. Places(W, W[i].kind) = i .. i
    BY <1>3, <1>7, <1>8
  <2>2. (i .. i) \cap 1 .. i - 1 = {}
    BY <1>4
  <2> QED
    BY <1>6, <2>1, <2>2 DEF Seen
<1>12. W[i].kind = "record" /\ W[1].value = 1 => W[i].value.method = kJv
  <2> HAVE W[i].kind = "record" /\ W[1].value = 1
  <2>1. i \in 4 .. R + 3 /\ W[i].value = l.proof[i - 3]
    BY <1>8
  <2>2. PICK n : n = i - 3
    OBVIOUS
  <2>3. n \in DOMAIN l.proof /\ W[i].value = l.proof[n]
    <3>1. R \in Nat /\ DOMAIN l.proof = 1 .. R
      BY <1>3
    <3>2. i \in 4 .. R + 3 => i - 3 \in 1 .. R
      BY ONLY <3>1
    <3> QED
      BY <2>1, <2>2, <3>1, <3>2, Zenon
  <2>4. l.certificates = <<>>
    BY <1>3
  <2> QED
    BY <1>2, <2>3, <2>4
<1>13. W[i].kind = "ht_proof_count" => W[1].value = 2 /\ W[i].value <= Count(E, "record")
  <2> HAVE W[i].kind = "ht_proof_count"
  <2>1. X # 0 /\ i = R + M + 4 /\ W[i].value = C
    BY <1>8
  <2>2. (4 .. R + 3) \cap 1 .. i - 1 = 4 .. R + 3
    <3>1. R \in Nat /\ M \in Nat /\ i = R + M + 4
      BY <1>3, <2>1
    <3>2. R + 3 \in Nat /\ i - 1 \in Nat /\ R + 3 <= i - 1
      BY ONLY <3>1
    <3> QED
      BY <3>2, CutInterval
  <2>3. Places(E, "record") = 4 .. R + 3
    BY <1>6, <1>7, <2>2
  <2>4. PICK q \in Nat : q = R + 3
    BY <1>3
  <2>5. 4 <= q + 1 /\ Places(E, "record") = 4 .. q
    BY <1>3, <2>3, <2>4
  <2>6. Count(E, "record") = q - 4 + 1
    <3>1. Count(E, "record") = Cardinality(4 .. q)
      BY <2>5 DEF Count
    <3>2. Cardinality(4 .. q) = IF 4 > q THEN 0 ELSE q - 4 + 1
      BY FS_Interval
    <3> QED
      BY <2>5, <3>1, <3>2
  <2> QED
    BY <1>2, <1>3, <2>1, <2>4, <2>6
<1>14. W[i].kind = "ht_proof" =>
         /\ Seen(E, "ht_proof_count")
         /\ W[i].value.index = Count(E, "ht_proof")
         /\ W[i].value.index < ValueOf(E, "ht_proof_count")
  <2> HAVE W[i].kind = "ht_proof"
  <2>1. /\ X # 0 /\ i \in R + M + 5 .. R + M + C + 4
        /\ W[i].value.index = i - (R + M + 5)
    BY <1>8
  <2>2. PICK p \in Nat : p = R + M + 4
    BY <1>3
  <2>3. Places(E, "ht_proof_count") = p .. p
    <3>1. Places(W, "ht_proof_count") = p .. p
      BY <1>7, <2>1, <2>2
    <3>2. (p .. p) \cap 1 .. i - 1 = p .. p
      <4>1. 1 <= p /\ i - 1 \in Nat /\ p <= i - 1
        <5>1. /\ R \in Nat /\ M \in Nat /\ p = R + M + 4
              /\ i \in R + M + 5 .. R + M + C + 4 /\ C \in Nat
          BY <1>3, <2>1, <2>2
        <5> QED
          BY ONLY <5>1
      <4> QED
        BY <4>1, CutInterval
    <3> QED
      BY <1>6, <3>1, <3>2
  <2>4. Seen(E, "ht_proof_count") /\ ValueOf(E, "ht_proof_count") = E[p].value
    BY <2>3, ValueAt
  <2>5. E[p].value = C
    <3>1. p \in 1 .. i - 1 /\ p = 3 + R + M + 1
      BY <1>3, <2>1, <2>2
    <3>2. W[p] = Line("ht_proof_count", C)
      BY <1>1, <2>1, <3>1 DEF Laid
    <3> QED
      BY <1>6, <3>1, <3>2 DEF Line
  <2>6. PICK a \in Nat, q \in Nat : a = R + M + 5 /\ q = i - 1
    <3>1. R + M + 5 \in Nat /\ i - 1 \in Nat
      BY <1>3, <1>4
    <3> QED
      BY <3>1
  <2>7. Places(E, "ht_proof") = a .. q
    <3>1. PICK b \in Nat : b = R + M + C + 4
      BY <1>3
    <3>2. Places(W, "ht_proof") = a .. b
      BY <1>7, <2>6, <3>1
    <3>3. 1 <= a /\ q <= b
      <4>1. /\ R \in Nat /\ M \in Nat /\ C \in Nat /\ a = R + M + 5 /\ b = R + M + C + 4
            /\ i \in R + M + 5 .. R + M + C + 4 /\ q = i - 1
        BY <1>3, <2>1, <2>6, <3>1
      <4> QED
        BY ONLY <4>1
    <3>4. (a .. b) \cap 1 .. q = a .. q
      BY <3>3, CutInterval
    <3> QED
      BY <1>6, <2>6, <3>2, <3>4
  <2>8. a <= q + 1
    BY <1>3, <1>4, <2>1, <2>6
  <2>9. Count(E, "ht_proof") = q - a + 1
    <3>1. a \in Nat /\ q \in Nat
      BY <2>6
    <3>2. Count(E, "ht_proof") = Cardinality(a .. q)
      BY <2>7 DEF Count
    <3>3. Cardinality(a .. q) = IF a > q THEN 0 ELSE q - a + 1
      BY <3>1, FS_Interval
    <3> QED
      BY <2>8, <3>1, <3>2, <3>3
  <2>10. W[i].value.index = q - a + 1 /\ W[i].value.index < C
    BY <1>3, <1>4, <2>1, <2>6
  <2> QED
    BY <2>4, <2>5, <2>9, <2>10
<1> QED
  BY <1>9, <1>10, <1>11, <1>12, <1>13, <1>14 DEF LegalAt, W, E

(* The checks of the log look at what the file carries.                    *)
LEMMA SameContainer ==
  ASSUME NEW l, NEW k, l.proof = k.proof, l.certificates = k.certificates
  PROVE  ValidateProofContainer(l) <=> ValidateProofContainer(k)
BY DEF ValidateProofContainer

(* The whole file of a valid log is accepted.                              *)
LEMMA WholeFileReadable ==
  ASSUME NEW l \in EliminationResult, ValidateProofContainer(l)
  PROVE  Readable(WriteProof(l))
<1> DEFINE W == WriteProof(l)
<1>1. PICK R, M, C, X : Laid(W, l, R, M, C, X)
  BY WrittenLines
<1>2. W # <<>> /\ W[1].kind = "magic"
  <2> HIDE DEF W
  <2>1. DOMAIN W = 1 .. R + M + X + 5 /\ R \in Nat /\ M \in Nat /\ X \in Nat
    BY <1>1 DEF Laid
  <2>2. W[1].kind = "magic"
    BY <1>1 DEF Laid, Line
  <2>3. 1 \in DOMAIN W
    BY <2>1
  <2> QED
    BY <2>2, <2>3
<1>3. ValidateProofContainer(ReadLog(W))
  <2>1. Carries(W, l)
    BY WholeFileCarries
  <2>2. ReadLog(W).proof = l.proof /\ ReadLog(W).certificates = l.certificates
    BY <2>1 DEF Carries
  <2> QED
    BY <2>2, SameContainer
<1>4. Complete(W)
  BY WholeFileCarries
<1> QED
  BY <1>2, <1>3, <1>4, WrittenLineIsLegal DEF Readable

(* A prefix of a proof file that is accepted is the whole file, and carries *)
(* the log.                                                                *)
LEMMA AcceptedFileIsWhole ==
  ASSUME NEW l \in EliminationResult, NEW lines, Prefix(lines, WriteProof(l)), Readable(lines)
  PROVE  lines = WriteProof(l) /\ Carries(lines, l)
<1>1. Seen(lines, "END")
  BY DEF Readable, Complete
<1> QED
  BY <1>1, OnlyTheWholeFileEnds, WholeFileCarries

-----------------------------------------------------------------------------
(* The edge file.                                                          *)

(* The lines of the file.                                                  *)
LEMMA EdgeFileLines ==
  ASSUME NEW g \in SUBSET Edge
  PROVE  LET F == EdgeLines(g)
         IN  /\ \E S : F \in Seq(S)
             /\ Cardinality(g) \in Nat /\ Len(F) = Cardinality(g) + 1
             /\ F[1] = Line("edges", Cardinality(g))
             /\ {F[i].value : i \in 2 .. Len(F)} = g
<1> DEFINE n == Cardinality(g)
           at == Ascending(g)
           a == <<Line("edges", n)>>
           b == LinesOf("edge", at)
           S == {a[1]} \cup {b[i] : i \in 1 .. n}
           F == a \o b
<1>1. g \in SUBSET Int /\ IsFiniteSet(g)
  <2>1. Edge \subseteq Int /\ IsFiniteSet(Edge)
    BY SnapshotAssumption, FS_Interval DEF Edge
  <2> QED
    BY <2>1, FS_Subset
<1>2. n \in Nat /\ DOMAIN at = 1 .. n /\ Lists(at, n, g)
  BY <1>1, AscendingLists
<1>3. {at[i] : i \in 1 .. n} = g
  BY <1>2 DEF Lists
<1>4. b = [i \in 1 .. n |-> b[i]] /\ Len(b) = n /\ \A i \in 1 .. n : b[i] = Line("edge", at[i])
  BY <1>2 DEF LinesOf
<1>5. a = [i \in 1 .. 1 |-> a[i]] /\ Len(a) = 1 /\ a[1] = Line("edges", n)
  OBVIOUS
<1> HIDE DEF n, at, a, b
<1>6. a \in Seq(S) /\ b \in Seq(S)
  <2>1. \A m \in Nat : \A f : f = [i \in 1 .. m |-> f[i]] /\ (\A i \in 1 .. m : f[i] \in S)
                           => f \in Seq(S)
    <3> HIDE DEF S
    <3> QED
      OBVIOUS
  <2>2. (\A i \in 1 .. 1 : a[i] \in S) /\ (\A i \in 1 .. n : b[i] \in S)
    OBVIOUS
  <2> HIDE DEF S
  <2> QED
    BY <1>2, <1>4, <1>5, <2>1, <2>2
<1> HIDE DEF S
<1>7. /\ F \in Seq(S) /\ Len(F) = 1 + n
      /\ \A i \in 1 .. 1 : F[i] = a[i]
      /\ \A i \in 1 .. n : F[1 + i] = b[i]
  <2>1. F \in Seq(S) /\ Glued(F, a, b, 1, n)
    BY <1>4, <1>5, <1>6, Joined
  <2> QED
    BY <2>1 DEF Glued
<1> HIDE DEF F
<1>8. {F[i].value : i \in 2 .. Len(F)} = g
  <2>1. \A i \in 1 .. n : F[1 + i].value = at[i]
    BY <1>4, <1>7 DEF Line
  <2>2. \A i \in 2 .. Len(F) : F[i].value \in g
    <3> TAKE i \in 2 .. Len(F)
    <3>1. PICK j : j = i - 1
      OBVIOUS
    <3>2. j \in 1 .. n /\ i = 1 + j
      BY <1>2, <1>7, <3>1
    <3> QED
      BY <1>3, <2>1, <3>2
  <2>3. ASSUME NEW e \in g PROVE \E i \in 2 .. Len(F) : F[i].value = e
    <3>1. PICK j \in 1 .. n : at[j] = e
      BY <1>3
    <3>2. 1 + j \in 2 .. Len(F)
      BY <1>2, <1>7
    <3> QED
      BY <2>1, <3>1, <3>2
  <2> QED
    BY <2>2, <2>3
<1>9. EdgeLines(g) = F
  BY DEF EdgeLines, F, a, b, n, at
<1>10. n + 1 = 1 + n
  BY <1>2
<1> QED
  BY <1>2, <1>5, <1>7, <1>8, <1>9, <1>10 DEF n

(* A prefix of an edge file that is accepted is the whole file.            *)
LEMMA LoadedFileIsWhole ==
  ASSUME NEW g \in SUBSET Edge, NEW lines, Prefix(lines, EdgeLines(g)), Loadable(lines)
  PROVE  lines = EdgeLines(g) /\ LoadedEdges(lines) = g
<1> DEFINE F == EdgeLines(g)
<1>1. /\ \E S : F \in Seq(S)
      /\ Cardinality(g) \in Nat /\ Len(F) = Cardinality(g) + 1
      /\ F[1] = Line("edges", Cardinality(g))
      /\ {F[i].value : i \in 2 .. Len(F)} = g
  BY EdgeFileLines
<1>2. PICK n \in 0 .. Len(F) : lines = SubSeq(F, 1, n)
  BY DEF Prefix
<1> HIDE DEF F
<1>3. PICK S : F \in Seq(S)
  BY <1>1
<1>4. /\ Len(lines) = n /\ DOMAIN lines = 1 .. n
      /\ \A i \in 1 .. n : lines[i] = F[i]
      /\ n = Len(F) => lines = F
  BY <1>2, <1>3, PrefixLines
<1>5. n # 0
  <2>1. DOMAIN lines # {}
    <3>1. lines \in Seq(S) /\ lines # <<>>
      BY <1>2, <1>3, PrefixLines DEF Loadable
    <3>2. Len(lines) \in Nat \ {0}
      BY <3>1, EmptySeq
    <3> QED
      BY <1>4, <3>2
  <2> QED
    BY <1>4, <2>1
<1>6. 1 \in 1 .. n
  BY <1>1, <1>5
<1>7. lines[1].value = Cardinality(g)
  BY <1>1, <1>4, <1>6 DEF Line
<1>8. n = Len(F)
  BY <1>1, <1>4, <1>7 DEF Loadable
<1>9. lines = F
  BY <1>4, <1>8
<1> QED
  BY <1>1, <1>9 DEF LoadedEdges, F

(* The log of an epoch.                                                    *)

(* What an epoch returns replays on the graph it was given: one epoch, the *)
(* edges in order, each certificate in the place its record names.         *)
LEMMA EpochLogReplays ==
  ASSUME EpochInv, PublishEpoch, batch \in SUBSET HtRecursiveProof, NEW d,
         \A p \in batch :
           VerifyHtRecursiveProof(p.snapshot, p) => HtHolds(d, p.snapshot, p.target)
  PROVE  /\ epochLog' \in EliminationResult
         /\ epochLog'.final = graph'
         /\ ReplayProof(d, graph, epochLog')
<1> DEFINE n == Len(committed)
           records == HtRecords(snapshotHash, committed)
           own == [i \in 1 .. n |-> Selected(batch, committed[i].edge)]
           L == [initial |-> graph, final |-> active, proof |-> records,
                 certificates |-> own, metrics |-> <<n>>]
<1>1. /\ snapshotHash = graph /\ active = graph \ Committed
      /\ GreedySubset(Committed, Targets, graph)
      /\ \A p \in batch : VerifyHtRecursiveProof(graph, p) /\ p.text \in Nat
      /\ graph \subseteq Edge /\ graph' = active
  BY DEF EpochInv, PublishEpoch
<1>2. committed \in Seq(Candidate) /\ OneRecordPerDeletion
  BY DEF EpochInv, CommitInv, CommitTypeOK
<1>3. n \in Nat /\ DOMAIN committed = 1 .. n
  BY <1>2
<1>4. epochLog' = L
  BY <1>1, <1>3 DEF PublishEpoch, ContentHash
<1>5. /\ DOMAIN records = 1 .. n
      /\ \A i \in 1 .. n : /\ records[i].epoch = 0 /\ records[i].snapshot = graph
                           /\ records[i].edge = committed[i].edge
                           /\ records[i].witness = -1 /\ records[i].method = 2
                           /\ records[i].certificate = i - 1
                           /\ committed[i].edge \in Int
  <2>1. \A i \in 1 .. n : committed[i].edge \in Int
    <3>1. \A i \in 1 .. n : committed[i] \in Candidate
      BY <1>2, <1>3
    <3> HIDE DEF n
    <3> QED
      BY <3>1 DEF Candidate
  <2>2. records = [i \in 1 .. n |->
                     [epoch |-> 0, snapshot |-> graph, edge |-> committed[i].edge,
                      witness |-> -1, method |-> 2, certificate |-> i - 1]]
    BY <1>1, <1>3 DEF HtRecords, NoWitness, kHamiltonTutte
  <2> HIDE DEF records
  <2> QED
    BY <2>1, <2>2
<1>6. ASSUME NEW i \in 1 .. n
      PROVE  /\ own[i] \in batch /\ own[i].target = committed[i].edge
             /\ own[i].snapshot = graph
             /\ committed[i].edge \in graph
             /\ HtHolds(d, graph, committed[i].edge)
  <2>1. committed[i].edge \in Targets
    BY <1>1, <1>3 DEF Committed, GreedySubset
  <2>2. \E p \in batch : p.target = committed[i].edge
    BY <2>1 DEF Targets
  <2>3. /\ Selected(batch, committed[i].edge) \in batch
        /\ Selected(batch, committed[i].edge).target = committed[i].edge
    BY <1>1, <2>2, SelectedFirst
  <2>4. own[i] \in batch /\ own[i].target = committed[i].edge
    BY <2>3
  <2> HIDE DEF own
  <2>5. VerifyHtRecursiveProof(graph, own[i])
    BY <1>1, <2>4
  <2>6. own[i].snapshot = graph /\ own[i].target \in graph
    BY <2>5 DEF VerifyHtRecursiveProof, ContentHash
  <2> QED
    BY <2>4, <2>5, <2>6
<1>7. \A i \in 1 .. n : own[i] \in HtRecursiveProof
  BY <1>6
<1>8. records \in Seq(ProofRecord)
  <2>1. records = [i \in 1 .. n |-> records[i]]
    BY <1>3 DEF HtRecords
  <2>2. \A i \in 1 .. n : records[i] \in ProofRecord
    <3>1. \A i \in 1 .. n :
            records[i] = [epoch |-> 0, snapshot |-> graph, edge |-> committed[i].edge,
                          witness |-> -1, method |-> 2, certificate |-> i - 1]
      BY <1>1, <1>3 DEF HtRecords, NoWitness, kHamiltonTutte
    <3> HIDE DEF records
    <3> QED
      BY <1>1, <1>3, <1>5, <3>1 DEF ProofRecord
  <2> HIDE DEF records
  <2> QED
    BY <1>3, <2>1, <2>2
<1>9. own \in Seq(HtRecursiveProof)
  <2>1. own = [i \in 1 .. n |-> own[i]]
    OBVIOUS
  <2> HIDE DEF own
  <2> QED
    BY <1>3, <1>7, <2>1
<1>10. DOMAIN own = 1 .. n
  OBVIOUS
<1> HIDE DEF records, own, n
<1>11. /\ L.initial = graph /\ L.final = active /\ L.proof = records
       /\ L.certificates = own
  OBVIOUS
<1>12. L \in EliminationResult
  <2>1. <<n>> \in Seq(Nat)
    BY <1>3
  <2>2. graph \in SUBSET Edge /\ active \in SUBSET Edge
    BY <1>1
  <2> QED
    BY <1>8, <1>9, <2>1, <2>2 DEF EliminationResult
<1> HIDE DEF L
<1>13. ValidateProofContainer(L)
  <2> DEFINE ht == {i \in DOMAIN L.proof : L.proof[i].method = 2}
  <2>1. ht = 1 .. n
    BY <1>5, <1>11
  <2>2. \A i \in 1 .. n : L.proof[i].certificate + 1 = i
    BY <1>3, <1>5, <1>11
  <2>3. DOMAIN L.proof \ ht = {}
    BY <1>5, <1>11, <2>1
  <2>4. \A i \in 1 .. n : /\ L.proof[i].witness = -1
                          /\ L.proof[i].certificate + 1 \in DOMAIN L.certificates
                          /\ L.certificates[L.proof[i].certificate + 1].target
                               = L.proof[i].edge
                          /\ L.certificates[L.proof[i].certificate + 1].snapshot
                               = L.proof[i].snapshot
    BY <1>5, <1>6, <1>10, <1>11, <2>2
  <2>5. {L.proof[i].certificate + 1 : i \in 1 .. n} = DOMAIN L.certificates
    BY <1>10, <1>11, <2>2
  <2>6. \A i, j \in 1 .. n : i # j => L.proof[i].certificate + 1 # L.proof[j].certificate + 1
    BY <2>2
  <2> QED
    BY <2>1, <2>3, <2>4, <2>5, <2>6 DEF ValidateProofContainer
<1>14. \A i \in 1 .. n : EpochFollows(L, i)
  <2> TAKE i \in 1 .. n
  <2>1. L.proof[i].epoch = 0
    BY <1>5, <1>11
  <2>2. CASE i = 1
    BY <2>1, <2>2 DEF EpochFollows
  <2>3. CASE i # 1
    <3>1. PICK j : j = i - 1
      OBVIOUS
    <3>2. j \in 1 .. n
      BY <1>3, <2>3, <3>1
    <3>3. L.proof[i - 1].epoch = 0
      BY <1>5, <1>11, <3>1, <3>2
    <3> QED
      BY <2>1, <2>3, <3>3 DEF EpochFollows
  <2> QED
    BY <2>2, <2>3
<1>15. ASSUME NEW i \in 1 .. n PROVE RecordReplays(d, L, i)
  <2> DEFINE r == L.proof[i]
             before == 1 .. i - 1
  <2>0. \A j \in before : j \in 1 .. n /\ j < i
    BY <1>3
  <2>1. L.proof \in Seq(ProofRecord) /\ Len(L.proof) = n
    BY <1>3, <1>5, <1>8, <1>11
  <2>2. PICK s : s = 0
    OBVIOUS
  <2>3. /\ ReplayedTo(L, d, s) /\ s \in 0 .. Len(L.proof) - 1 /\ i \in s + 1 .. Len(L.proof)
        /\ \A j \in s + 1 .. i : L.proof[j].epoch = Expected(L, s)
    BY <1>3, <1>5, <1>11, <2>1, <2>2 DEF ReplayedTo, Expected
  <2>9. GraphAt(L, s) = graph
    BY <1>11, <2>2 DEF GraphAt, Without
  <2>10. s + 1 .. i - 1 = before
    BY <2>2
  <2>11. RecordReplays(d, L, i) <=>
           /\ HeldOn(d, GraphAt(L, s), L.proof[i])
           /\ \A j \in s + 1 .. i - 1 : L.proof[j].edge < L.proof[i].edge
           /\ Deletable(GraphAt(L, s) \ {L.proof[j].edge : j \in s + 1 .. i - 1},
                        L.proof[i].edge)
    BY <2>1, <2>3, RecordMeans
  <2>4. r.snapshot = graph /\ r.edge = committed[i].edge /\ r.method = 2
    BY <1>5, <1>11
  <2>5. r.edge \in graph /\ HtHolds(d, graph, r.edge)
    BY <1>6, <2>4
  <2>6. \A j \in before : L.proof[j].edge < r.edge
    <3>1. \A j \in before : committed[j].edge < committed[i].edge
      BY <1>2, <1>3, <2>0 DEF OneRecordPerDeletion
    <3> QED
      BY <1>5, <1>11, <2>0, <2>4, <3>1
  <2>7. {L.proof[j].edge : j \in before} = EdgesBelow(Committed, r.edge)
    <3>1. \A j \in 1 .. n : committed[j].edge < committed[i].edge => j \in before
      <4> TAKE j \in 1 .. n
      <4> SUFFICES ASSUME i <= j PROVE ~ (committed[j].edge < committed[i].edge)
        BY <1>3
      <4>1. i < j => committed[i].edge < committed[j].edge
        BY <1>2, <1>3 DEF OneRecordPerDeletion
      <4> QED
        BY <1>5, <4>1
    <3>2. \A e : e \in EdgesBelow(Committed, r.edge) <=>
                   \E j \in 1 .. n : e = committed[j].edge /\ e < r.edge
      BY <1>3 DEF EdgesBelow, Committed
    <3>3. \A e : e \in {L.proof[j].edge : j \in before} <=>
                   \E j \in before : e = committed[j].edge
      <4>1. \A j \in before : L.proof[j].edge = committed[j].edge
        BY <1>5, <1>11, <2>0
      <4> QED
        BY <4>1
    <3>4. \A j \in before : committed[j].edge < r.edge
      BY <1>5, <1>11, <2>0, <2>6
    <3>5. \A e : e \in {L.proof[j].edge : j \in before} <=> e \in EdgesBelow(Committed, r.edge)
      <4>1. \A j \in 1 .. n : j \in before <=> committed[j].edge < r.edge
        BY <2>0, <2>4, <3>1, <3>4
      <4> HIDE DEF before, r
      <4> QED
        BY <2>0, <3>2, <3>3, <4>1
    <3> QED
      BY <3>5
  <2>8. Deletable(graph \ EdgesBelow(Committed, r.edge), r.edge)
    <3>1. r.edge \in Committed
      BY <1>3, <2>4 DEF Committed
    <3> QED
      BY <1>1, <3>1 DEF GreedySubset
  <2>12. HeldOn(d, graph, r)
    BY <2>4, <2>5 DEF HeldOn, kJv
  <2> HIDE DEF before
  <2> QED
    BY <2>6, <2>7, <2>8, <2>9, <2>10, <2>11, <2>12
<1>16. ASSUME NEW i \in 1 .. n
       PROVE  L.proof[i].certificate = Cardinality(HtRecordsBefore(L, i))
  <2>1. HtRecordsBefore(L, i) = 1 .. i - 1
    <3>1. \A j \in 1 .. i - 1 : j \in 1 .. n
      BY <1>3
    <3> QED
      BY <1>5, <1>11, <3>1 DEF HtRecordsBefore
  <2>2. PICK k \in Nat : k = i - 1
    BY <1>3
  <2>3. Cardinality(1 .. k) = k
    BY FS_Interval
  <2> QED
    BY <1>5, <1>11, <2>1, <2>2, <2>3
<1>17. Replayed(L) = L.final
  <2>1. {L.proof[j].edge : j \in DOMAIN L.proof} = Committed
    <3>1. /\ DOMAIN L.proof = DOMAIN committed
          /\ \A j \in DOMAIN committed : L.proof[j].edge = committed[j].edge
      BY <1>3, <1>5, <1>11
    <3> QED
      BY <3>1 DEF Committed
  <2> QED
    BY <1>1, <1>11, <2>1 DEF Replayed, Without
<1>18. DOMAIN L.proof = 1 .. n
  BY <1>5, <1>11
<1>19. ReplayProof(d, graph, L)
  BY <1>11, <1>13, <1>14, <1>15, <1>16, <1>17, <1>18 DEF ReplayProof, ContentHash
<1> QED
  BY <1>1, <1>4, <1>11, <1>12, <1>19

-----------------------------------------------------------------------------
(* The commands.                                                           *)

\* One library call at a time, inside the command that asked for it.
CallInv ==
  /\ commandPc = "loaded" =>
       /\ epochPc = "idle" /\ replayPc = "idle"
       /\ cursor = 0 /\ epochStart = 0 /\ sidecars = 0
       /\ phase = "idle" /\ graph = command.input /\ active = graph
  /\ epochPc = "commit" =>
       /\ commandPc = "computing" /\ command.kind = "epoch"
       /\ graph = command.input /\ batch = command.proofs
  /\ Replaying => commandPc = "computing" /\ command.kind = "verify"
  /\ commandPc = "computing" /\ command.kind # "epoch" => epochPc = "idle"
  /\ commandPc = "computing" /\ command.kind # "verify" => replayPc = "idle"

\* What a writing command is about to write, or has written.
ResultInv ==
  commandPc \in {"computing", "edges", "proof", "returned"}
    /\ command.kind # "verify" /\ Computed =>
      /\ Result \in EliminationResult
      /\ Result.final = graph
      /\ ReplayProof(dist, command.input, Result)

\* What is on disk, and who meant to write it.
FileInv ==
  /\ meant.edges \subseteq Edge
  /\ meant.log \in EliminationResult
  /\ Prefix(edgesFile, EdgeLines(meant.edges))
  /\ Prefix(proofFile, WriteProof(meant.log))
  /\ InGraph(meant.by.tour, meant.edges)
  /\ commandPc \in {"edges", "proof"} => command.kind # "verify"
  /\ commandPc \in {"edges", "proof", "returned"} /\ command.kind # "verify" =>
       Computed /\ meant.edges = graph
  /\ commandPc \in {"proof", "returned"} /\ command.kind # "verify" => meant.log = Result

ScriptInv ==
  /\ commandPc \in {"none", "loaded", "computing", "edges", "proof", "returned", "failed"}
  /\ script \in Seq(Command)
  /\ commandPc # "none" => script # <<>>
  /\ \A i \in DOMAIN script : Justified(dist, script[i])

CmdInv == EpochInv /\ ReplayInv /\ ScriptInv /\ CallInv /\ ResultInv /\ FileInv

(* The command that runs.                                                  *)
LEMMA CommandFacts ==
  ASSUME ScriptInv, script # <<>>
  PROVE  /\ command \in Command
         /\ command.kind \in {"log", "epoch", "verify"}
         /\ command.input \in SUBSET Edge
         /\ command.log \in EliminationResult
         /\ command.proofs \in SUBSET HtRecursiveProof
         /\ Justified(dist, command)
<1>1. script \in Seq(Command) /\ 1 \in DOMAIN script /\ command = script[1]
  BY DEF ScriptInv, command
<1>2. command \in Command /\ Justified(dist, command)
  BY <1>1 DEF ScriptInv
<1> QED
  BY <1>2 DEF Command

(* A step that leaves the replay and what it works on alone.               *)
LEMMA ReplayStutters ==
  ASSUME ReplayInv, UNCHANGED allReplayVars
  PROVE  ReplayInv'
<1>1. /\ UNCHANGED commitVars /\ UNCHANGED <<graph, epochPc, batch, epochLog>>
      /\ UNCHANGED <<dist, log, replayPc, cursor, epochStart, sidecars>>
      /\ UNCHANGED <<active, csr, snapshotHash, phase, queue, degrees, committed, result>>
  BY DEF allReplayVars, epochVars, replayVars, commitVars
<1>2. CommitInv'
  BY <1>1, CommitStutters DEF ReplayInv
<1>3. ReplayDecides'
  BY <1>1 DEF ReplayInv, ReplayDecides
<1>4. Committed' = Committed /\ (Replaying' <=> Replaying) /\ (SameEpoch' <=> SameEpoch)
  BY <1>1 DEF Committed, Replaying, SameEpoch, NextRecord
<1>5. \A w : GreedyOver(w)' <=> GreedyOver(w)
  BY <1>1, <1>4 DEF GreedyOver, EdgesOf
<1>6. /\ AtStart' <=> AtStart
      /\ AtEpoch' <=> AtEpoch
      /\ InEpoch' <=> InEpoch
      /\ AtRecord' <=> AtRecord
  BY <1>1 DEF AtStart, AtEpoch, InEpoch, AtRecord, InLoop
<1>7. AtCommit' <=> AtCommit
  BY <1>1, <1>4, <1>5, <1>6 DEF AtCommit, GreedyOver, EdgesOf
<1>8. ReplayShape'
  BY <1>1, <1>4, <1>6, <1>7 DEF ReplayInv, ReplayShape
<1> QED
  BY <1>1, <1>2, <1>3, <1>8 DEF ReplayInv

(* A step that leaves the library alone.                                   *)
LEMMA QuietStep ==
  ASSUME EpochInv, ReplayInv, UNCHANGED allReplayVars
  PROVE  /\ EpochInv' /\ ReplayInv'
         /\ UNCHANGED <<active, csr, snapshotHash, phase, queue, degrees, committed, result>>
         /\ UNCHANGED <<graph, epochPc, batch, epochLog>>
         /\ UNCHANGED <<dist, log, replayPc, cursor, epochStart, sidecars>>
         /\ (Replaying' <=> Replaying)
<1>1. UNCHANGED <<commitVars, epochVars>>
  BY DEF allReplayVars
<1>2. /\ UNCHANGED <<active, csr, snapshotHash, phase, queue, degrees, committed, result>>
      /\ UNCHANGED <<graph, epochPc, batch, epochLog>>
      /\ UNCHANGED <<dist, log, replayPc, cursor, epochStart, sidecars>>
  BY DEF allReplayVars, commitVars, epochVars, replayVars
<1>3. Replaying' <=> Replaying
  BY <1>2 DEF Replaying
<1> QED
  BY <1>1, <1>2, <1>3, EpochStutters, ReplayStutters

(* The first state, whatever proof file is found.                          *)
LEMMA CmdInit ==
  ASSUME CommandsInit
  PROVE  CmdInv
<1>1. CommitInv /\ graph \subseteq Edge
  BY InitInv DEF CommandsInit
<1>2. EpochInv
  BY <1>1 DEF CommandsInit, EpochInv, EpochCertified
<1>3. ReplayInv
  BY <1>1 DEF CommandsInit, ReplayInv, ReplayIdle, ReplayShape, ReplayDecides, Replaying
<1>4. PICK s \in Scripts : /\ dist = s.dist /\ script = s.commands
                           /\ proofFile = IF s.found = NoLog THEN <<>> ELSE WriteProof(s.found)
                           /\ meant = [by |-> NoCommand, edges |-> {}, log |-> s.found]
  BY DEF CommandsInit
<1>5. /\ s.found \in EliminationResult /\ s.commands \in Seq(Command)
      /\ \A i \in DOMAIN s.commands : Justified(s.dist, s.commands[i])
  BY ScriptsAssumption
<1>6. commandPc = "none" /\ edgesFile = <<>> /\ epochPc = "idle" /\ replayPc = "idle"
  BY DEF CommandsInit, ReplayIdle
<1>7. ScriptInv
  BY <1>4, <1>5, <1>6 DEF ScriptInv
<1>8. CallInv
  BY <1>6 DEF CallInv, Replaying
<1>9. ResultInv
  BY <1>6 DEF ResultInv
<1>10. meant.by = NoCommand /\ meant.edges = {} /\ meant.log = s.found
  BY <1>4
<1>11. Prefix(edgesFile, EdgeLines(meant.edges))
  <2>1. PICK g \in SUBSET Edge : g = {}
    OBVIOUS
  <2>2. PICK S : EdgeLines(g) \in Seq(S)
    BY EdgeFileLines
  <2>3. Len(EdgeLines(g)) \in Nat
    BY <2>2, LenProperties
  <2>4. 0 \in 0 .. Len(EdgeLines(g)) /\ SubSeq(EdgeLines(g), 1, 0) = <<>>
    BY <2>3, SubSeqEmpty
  <2> QED
    BY <1>6, <1>10, <2>1, <2>4 DEF Prefix
<1>12. Prefix(proofFile, WriteProof(meant.log))
  <2>1. PICK S : WriteProof(s.found) \in Seq(S)
    BY <1>5, WrittenLines
  <2>2. Len(WriteProof(s.found)) \in Nat
    BY <2>1, LenProperties
  <2>3. /\ 0 \in 0 .. Len(WriteProof(s.found)) /\ SubSeq(WriteProof(s.found), 1, 0) = <<>>
        /\ Len(WriteProof(s.found)) \in 0 .. Len(WriteProof(s.found))
        /\ SubSeq(WriteProof(s.found), 1, Len(WriteProof(s.found))) = WriteProof(s.found)
    BY <2>1, <2>2, SubSeqEmpty, SubSeqFull
  <2>4. proofFile = <<>> \/ proofFile = WriteProof(s.found)
    BY <1>4
  <2> QED
    BY <1>10, <2>3, <2>4 DEF Prefix
<1>13. InGraph(meant.by.tour, meant.edges)
  BY <1>10 DEF InGraph, NoCommand
<1>14. FileInv
  BY <1>5, <1>6, <1>10, <1>11, <1>12, <1>13 DEF FileInv
<1> QED
  BY <1>2, <1>3, <1>7, <1>8, <1>9, <1>14 DEF CmdInv

(* A command is loaded into a new process.                                 *)
LEMMA LoadInv ==
  ASSUME CmdInv, Load
  PROVE  CmdInv'
<1>1. /\ commandPc = "none" /\ script # <<>> /\ commandPc' = "loaded"
      /\ graph' = command.input /\ active' = command.input /\ csr' = command.input
      /\ snapshotHash' = command.input
      /\ phase' = "idle" /\ queue' = {} /\ degrees' = NoDegrees
      /\ committed' = <<>> /\ result' = "none"
      /\ epochPc' = "idle" /\ batch' = {} /\ epochLog' = NoLog
      /\ replayPc' = "idle" /\ cursor' = 0 /\ epochStart' = 0 /\ sidecars' = 0
      /\ dist' = dist /\ script' = script
      /\ UNCHANGED <<edgesFile, proofFile, meant>>
  BY DEF Load, filesVars, ContentHash
<1>2. ScriptInv /\ FileInv
  BY DEF CmdInv
<1>3. command.input \subseteq Edge
  BY <1>1, <1>2, CommandFacts
<1>4. CommitInv'
  BY <1>1, <1>3 DEF CommitInv, CommitTypeOK, CsrFresh, SweepInv, OneRecordPerDeletion, NoDegrees
<1>5. EpochInv'
  <2>1. EpochInv
    BY DEF CmdInv
  <2> QED
    BY <1>1, <1>3, <1>4, <2>1, NoEpochInv
<1>6. ReplayInv'
  BY <1>1, <1>3, <1>4, ReplayEnds
<1>7. ScriptInv'
  BY <1>1, <1>2 DEF ScriptInv
<1>8. CallInv'
  BY <1>1 DEF CallInv, Replaying, command
<1>9. ResultInv'
  BY <1>1 DEF ResultInv
<1>10. FileInv'
  BY <1>1, <1>2 DEF FileInv, Prefix, InGraph
<1> QED
  BY <1>5, <1>6, <1>7, <1>8, <1>9, <1>10 DEF CmdInv

(* The rest of the script.                                                 *)
LEMMA RestOfScript ==
  ASSUME ScriptInv, Len(script) > 1
  PROVE  /\ Tail(script) \in Seq(Command)
         /\ \A i \in DOMAIN Tail(script) : Justified(dist, Tail(script)[i])
<1>1. script \in Seq(Command) /\ script # <<>>
  BY DEF ScriptInv
<1>2. /\ Tail(script) \in Seq(Command) /\ Len(Tail(script)) = Len(script) - 1
      /\ \A i \in 1 .. Len(Tail(script)) : Tail(script)[i] = script[i + 1]
  BY <1>1, HeadTailProperties
<1>3. /\ DOMAIN script = 1 .. Len(script) /\ Len(script) \in Nat
      /\ DOMAIN Tail(script) = 1 .. Len(Tail(script))
  BY <1>1, <1>2, LenProperties
<1>4. \A i \in DOMAIN Tail(script) : i + 1 \in DOMAIN script /\ Tail(script)[i] = script[i + 1]
  BY <1>2, <1>3
<1> QED
  BY <1>2, <1>4 DEF ScriptInv

(* The process ends and the next command is up.                            *)
LEMMA NextCommandInv ==
  ASSUME CmdInv, NextCommand
  PROVE  CmdInv'
<1>1. /\ commandPc \in {"returned", "failed"} /\ commandPc' = "none"
      /\ Len(script) > 1 /\ script' = Tail(script)
      /\ UNCHANGED allReplayVars /\ UNCHANGED <<edgesFile, proofFile, meant>>
  BY DEF NextCommand, filesVars
<1>2. EpochInv /\ ReplayInv /\ ScriptInv /\ CallInv /\ FileInv
  BY DEF CmdInv
<1>3. /\ EpochInv' /\ ReplayInv'
      /\ UNCHANGED <<graph, epochPc, batch, epochLog>>
      /\ UNCHANGED <<dist, log, replayPc, cursor, epochStart, sidecars>>
      /\ (Replaying' <=> Replaying)
  BY <1>1, <1>2, QuietStep
<1>4. ScriptInv'
  BY <1>1, <1>2, <1>3, RestOfScript DEF ScriptInv
<1>5. CallInv'
  BY <1>1, <1>2, <1>3 DEF CallInv
<1>6. ResultInv'
  BY <1>1 DEF ResultInv
<1>7. FileInv'
  BY <1>1, <1>2 DEF FileInv, Prefix, InGraph
<1> QED
  BY <1>3, <1>4, <1>5, <1>6, <1>7 DEF CmdInv

(* The process dies.                                                       *)
LEMMA DiesInv ==
  ASSUME CmdInv, Dies
  PROVE  CmdInv'
<1>1. /\ commandPc \in {"loaded", "computing", "edges", "proof"} /\ commandPc' = "failed"
      /\ script' = script /\ UNCHANGED <<edgesFile, proofFile, meant>>
      /\ epochPc' = "idle" /\ replayPc' = "idle"
      /\ UNCHANGED commitVars
      /\ UNCHANGED <<graph, batch, epochLog, dist, log, cursor, epochStart, sidecars>>
  BY DEF Dies, Exit, filesVars
<1>2. EpochInv /\ ReplayInv /\ ScriptInv /\ FileInv
  BY DEF CmdInv
<1>3. CommitInv' /\ graph' \subseteq Edge
  BY <1>1, <1>2, CommitStutters DEF EpochInv
<1>4. EpochInv'
  BY <1>1, <1>2, <1>3, NoEpochInv
<1>5. ReplayInv'
  BY <1>1, <1>3, ReplayEnds
<1>6. ScriptInv'
  BY <1>1, <1>2 DEF ScriptInv
<1>7. CallInv'
  BY <1>1 DEF CallInv, Replaying
<1>8. ResultInv'
  BY <1>1 DEF ResultInv
<1>9. FileInv'
  BY <1>1, <1>2 DEF FileInv, Prefix, InGraph
<1> QED
  BY <1>4, <1>5, <1>6, <1>7, <1>8, <1>9 DEF CmdInv

(* A proof file that is accepted holds records.                            *)
LEMMA ReadRecords ==
  ASSUME FileInv, Readable(proofFile)
  PROVE  ReadLog(proofFile).proof \in Seq(ProofRecord)
<1>1. meant.log \in EliminationResult /\ Prefix(proofFile, WriteProof(meant.log))
  BY DEF FileInv
<1>2. Carries(proofFile, meant.log)
  BY <1>1, AcceptedFileIsWhole
<1>3. ReadLog(proofFile).proof = meant.log.proof
  BY <1>2 DEF Carries
<1> QED
  BY <1>1, <1>3 DEF EliminationResult

(* The library is called, or the command gives up.                         *)
LEMMA StartComputingInv ==
  ASSUME CmdInv, StartComputing
  PROVE  CmdInv'
<1>1. EpochInv /\ ReplayInv /\ ScriptInv /\ CallInv /\ FileInv /\ commandPc = "loaded"
  BY DEF CmdInv, StartComputing
<1>2. /\ epochPc = "idle" /\ replayPc = "idle"
      /\ cursor = 0 /\ epochStart = 0 /\ sidecars = 0
      /\ phase = "idle" /\ graph = command.input /\ active = graph
  BY <1>1 DEF CallInv
<1>3. /\ command.kind \in {"log", "epoch", "verify"}
      /\ command.log \in EliminationResult
      /\ command.proofs \in SUBSET HtRecursiveProof
      /\ Justified(dist, command)
  BY <1>1, CommandFacts DEF ScriptInv
<1>4. CommitInv /\ graph \subseteq Edge
  BY <1>1 DEF EpochInv
<1>5. script' = script /\ UNCHANGED <<edgesFile, proofFile, meant>>
      /\ commandPc' \in {"computing", "failed"}
  BY DEF StartComputing, Exit, filesVars
<1>6. FileInv'
  BY <1>1, <1>5 DEF FileInv, Prefix, InGraph
<1>7. command' = command
  BY <1>5 DEF command
<1>8. dist' = dist => ScriptInv'
  BY <1>1, <1>5 DEF ScriptInv
<1>9. CASE commandPc' = "failed"
  <2>1. UNCHANGED allReplayVars
    BY <1>9 DEF StartComputing, Exit
  <2>2. /\ EpochInv' /\ ReplayInv'
        /\ UNCHANGED <<graph, epochPc, batch, epochLog>>
        /\ UNCHANGED <<dist, log, replayPc, cursor, epochStart, sidecars>>
        /\ (Replaying' <=> Replaying)
    BY <1>1, <2>1, QuietStep
  <2>3. CallInv'
    BY <1>2, <1>9, <2>2 DEF CallInv, Replaying
  <2>4. ResultInv'
    BY <1>9 DEF ResultInv
  <2> QED
    BY <1>6, <1>8, <2>2, <2>3, <2>4 DEF CmdInv
<1>10. CASE /\ command.kind = "verify" /\ Readable(proofFile)
            /\ BeginReplay(ReadLog(proofFile)) /\ commandPc' = "computing"
  <2>1. /\ UNCHANGED <<commitVars, epochVars>> /\ dist' = dist /\ replayPc' = "start"
        /\ UNCHANGED <<graph, epochPc, batch, epochLog>>
    BY <1>10 DEF BeginReplay, epochVars
  <2>2. EpochInv'
    BY <1>1, <2>1, EpochStutters
  <2>3. PICK expected : expected = ReadLog(proofFile)
    OBVIOUS
  <2>4. expected.proof \in Seq(ProofRecord)
    BY <1>1, <1>10, <2>3, ReadRecords
  <2>5. BeginReplay(expected)
    BY <1>10, <2>3
  <2>6. ReplayInv'
    BY <1>1, <1>2, <2>4, <2>5, BeginReplayInv DEF AtStart
  <2>7. CallInv'
    BY <1>2, <1>7, <1>10, <2>1 DEF CallInv, Replaying
  <2>8. ResultInv'
    BY <1>7, <1>10 DEF ResultInv
  <2> QED
    BY <1>6, <1>8, <2>1, <2>2, <2>6, <2>7, <2>8 DEF CmdInv
<1>11. CASE /\ command.kind = "epoch" /\ commandPc' = "computing"
            /\ BeginEpoch(command.proofs) \/ RejectEpoch(command.proofs)
            /\ UNCHANGED replayVars
  <2>1. UNCHANGED <<dist, log, replayPc, cursor, epochStart, sidecars>>
    BY <1>11 DEF replayVars
  <2>2. /\ graph' = graph
        /\ \/ epochPc' = "commit" /\ batch' = command.proofs
           \/ epochPc' = "threw"
    BY <1>11 DEF BeginEpoch, RejectEpoch
  <2>3. EpochInv'
    <3>1. PICK proofs \in SUBSET HtRecursiveProof : proofs = command.proofs
      BY <1>3
    <3>2. \A p \in proofs : p.text \in Nat
      BY <3>1 DEF HtRecursiveProof
    <3>3. BeginEpoch(proofs) => EpochInv'
      BY <1>1, <1>2, <3>2, BeginEpochInv
    <3>4. RejectEpoch(proofs) => EpochInv'
      <4> HAVE RejectEpoch(proofs)
      <4>1. UNCHANGED commitVars /\ graph' = graph /\ epochPc' = "threw"
        BY DEF RejectEpoch
      <4>2. CommitInv' /\ graph' \subseteq Edge
        BY <1>4, <4>1, CommitStutters
      <4> QED
        BY <1>1, <4>1, <4>2, NoEpochInv
    <3> QED
      BY <1>11, <3>1, <3>3, <3>4
  <2>4. ReplayInv'
    BY <1>2, <2>1, <2>3, ReplayEnds DEF EpochInv
  <2>5. CallInv'
    BY <1>2, <1>7, <1>11, <2>1, <2>2 DEF CallInv, Replaying
  <2>6. ResultInv'
    BY <1>7, <1>11, <2>2 DEF ResultInv, Computed
  <2> QED
    BY <1>6, <1>8, <2>1, <2>3, <2>4, <2>5, <2>6 DEF CmdInv
<1>12. CASE /\ command.kind = "log" /\ commandPc' = "computing"
            /\ graph' = command.log.final /\ log' = command.log
            /\ UNCHANGED <<commitVars, epochPc, batch, epochLog,
                           dist, replayPc, cursor, epochStart, sidecars>>
  <2>1. CommitInv'
    BY <1>4, <1>12, CommitStutters
  <2>2. graph' \subseteq Edge
    BY <1>3, <1>12 DEF EliminationResult
  <2>3. EpochInv'
    BY <1>1, <1>2, <1>12, <2>1, <2>2, NoEpochInv
  <2>4. ReplayInv'
    BY <1>2, <1>12, <2>1, <2>2, ReplayEnds
  <2>5. CallInv'
    BY <1>2, <1>7, <1>12 DEF CallInv, Replaying
  <2>6. Result' = command.log /\ dist' = dist
    BY <1>7, <1>12 DEF Result
  <2>7. ReplayProof(dist, command.input, command.log)
    BY <1>3, <1>12 DEF Justified
  <2>8. ResultInv'
    BY <1>3, <1>7, <1>12, <2>6, <2>7 DEF ResultInv
  <2> QED
    BY <1>6, <1>8, <1>12, <2>3, <2>4, <2>5, <2>8 DEF CmdInv
<1>13. \/ commandPc' = "failed"
       \/ /\ command.kind = "verify" /\ Readable(proofFile)
          /\ BeginReplay(ReadLog(proofFile)) /\ commandPc' = "computing"
       \/ /\ command.kind = "epoch" /\ commandPc' = "computing"
          /\ BeginEpoch(command.proofs) \/ RejectEpoch(command.proofs)
          /\ UNCHANGED replayVars
       \/ /\ command.kind = "log" /\ commandPc' = "computing"
          /\ graph' = command.log.final /\ log' = command.log
          /\ UNCHANGED <<commitVars, epochPc, batch, epochLog,
                         dist, replayPc, cursor, epochStart, sidecars>>
  BY DEF StartComputing, Exit
<1> QED
  BY <1>9, <1>10, <1>11, <1>12, <1>13

(* A step inside the library.                                              *)
LEMMA ComputeInv ==
  ASSUME CmdInv, Compute
  PROVE  CmdInv'
<1>1. /\ EpochInv /\ ReplayInv /\ ScriptInv /\ CallInv /\ FileInv /\ ResultInv
      /\ commandPc = "computing" /\ commandPc' = "computing" /\ script' = script
      /\ UNCHANGED <<edgesFile, proofFile, meant>>
  BY DEF CmdInv, Compute, commandVars, filesVars
<1>2. FileInv'
  BY <1>1 DEF FileInv, Prefix, InGraph
<1>3. command' = command
  BY <1>1 DEF command
<1>4. dist' = dist => ScriptInv'
  BY <1>1 DEF ScriptInv
<1>5. CASE command.kind = "epoch" /\ EpochStep /\ UNCHANGED replayVars
  <2>1. UNCHANGED <<dist, log, replayPc, cursor, epochStart, sidecars>> /\ replayPc = "idle"
    BY <1>1, <1>5 DEF replayVars, CallInv
  <2>2. EpochInv'
    BY <1>1, <1>5, EpochStepInv
  <2>3. ReplayInv'
    BY <2>1, <2>2, ReplayEnds DEF EpochInv
  <2>4. epochPc = "commit" /\ graph = command.input /\ batch = command.proofs
    BY <1>1, <1>5 DEF EpochStep, SweepEpoch, PublishEpoch, AbortEpoch, CallInv
  <2>5. /\ batch' = batch
        /\ epochPc' \in {"commit", "returned", "threw"}
        /\ epochPc' = "commit" => graph' = graph
        /\ epochPc' = "returned" => PublishEpoch
    BY <1>5, <2>4 DEF EpochStep, SweepEpoch, PublishEpoch, AbortEpoch
  <2>6. CallInv'
    BY <1>1, <1>3, <1>5, <2>1, <2>4, <2>5 DEF CallInv, Replaying
  <2>7. ResultInv'
    <3>1. CASE epochPc' # "returned"
      BY <1>3, <1>5, <3>1 DEF ResultInv, Computed
    <3>2. CASE epochPc' = "returned"
      <4>1. PublishEpoch
        BY <2>5, <3>2
      <4>2. /\ batch \in SUBSET HtRecursiveProof
            /\ \A p \in batch : VerifyHtRecursiveProof(p.snapshot, p) =>
                                  HtHolds(dist, p.snapshot, p.target)
        BY <1>1, <2>4, CommandFacts DEF ScriptInv, Justified
      <4>3. PICK d : d = dist
        OBVIOUS
      <4>4. \A p \in batch : VerifyHtRecursiveProof(p.snapshot, p) =>
                                  HtHolds(d, p.snapshot, p.target)
        BY <4>2, <4>3
      <4>5. /\ epochLog' \in EliminationResult
            /\ epochLog'.final = graph'
            /\ ReplayProof(d, graph, epochLog')
        BY <1>1, <4>1, <4>2, <4>4, EpochLogReplays
      <4>6. Result' = epochLog' /\ dist' = d /\ command.input = graph
        BY <1>3, <1>5, <2>1, <2>4, <4>3 DEF Result
      <4> QED
        BY <1>3, <4>5, <4>6 DEF ResultInv
    <3> QED
      BY <3>1, <3>2
  <2> QED
    BY <1>2, <1>4, <2>1, <2>2, <2>3, <2>6, <2>7 DEF CmdInv
<1>6. CASE command.kind = "verify" /\ ReplayNext
  <2>1. /\ dist' = dist /\ UNCHANGED <<epochPc, batch, epochLog>>
    BY <1>6 DEF ReplayNext, CheckContainer, StartEpoch, VerifyRecord, CommitRecords, ReplaySweep,
                CheckDeletions, ReplayThrows, Publish, epochVars, replayVars
  <2>2. ReplayInv'
    BY <1>1, <1>6, ReplayNextInv
  <2>3. epochPc = "idle"
    BY <1>1, <1>6 DEF CallInv
  <2>4. EpochInv'
    BY <1>1, <2>1, <2>2, <2>3, NoEpochInv DEF ReplayInv
  <2>5. CallInv'
    BY <1>1, <1>3, <1>6, <2>1, <2>3 DEF CallInv
  <2>6. ResultInv'
    BY <1>3, <1>6 DEF ResultInv
  <2> QED
    BY <1>2, <1>4, <2>1, <2>2, <2>4, <2>5, <2>6 DEF CmdInv
<1> QED
  BY <1>5, <1>6 DEF Compute

(* A command that gives up leaves what is on disk as it is.                *)
LEMMA GivesUpInv ==
  ASSUME CmdInv, commandPc = "computing", Exit("failed"), UNCHANGED allReplayVars,
         ~ Replaying, epochPc # "commit"
  PROVE  CmdInv'
<1>1. /\ EpochInv /\ ReplayInv /\ ScriptInv /\ FileInv
      /\ commandPc' = "failed" /\ script' = script
      /\ UNCHANGED <<edgesFile, proofFile, meant>>
  BY DEF CmdInv, Exit, filesVars
<1>2. /\ EpochInv' /\ ReplayInv'
      /\ UNCHANGED <<graph, epochPc, batch, epochLog>>
      /\ UNCHANGED <<dist, log, replayPc, cursor, epochStart, sidecars>>
      /\ (Replaying' <=> Replaying)
  BY <1>1, QuietStep
<1>3. ScriptInv'
  BY <1>1, <1>2 DEF ScriptInv
<1>4. CallInv'
  BY <1>1, <1>2 DEF CallInv
<1>5. ResultInv'
  BY <1>1 DEF ResultInv
<1>6. FileInv'
  BY <1>1 DEF FileInv, Prefix, InGraph
<1> QED
  BY <1>2, <1>3, <1>4, <1>5, <1>6 DEF CmdInv

(* One library call at a time.                                             *)
LEMMA OneCall ==
  ASSUME CmdInv, commandPc = "computing"
  PROVE  /\ Computed => ~ Replaying /\ epochPc # "commit"
         /\ "threw" \in {epochPc, replayPc} => ~ Replaying /\ epochPc # "commit"
<1>1. ScriptInv /\ CallInv
  BY DEF CmdInv
<1>2. command.kind \in {"log", "epoch", "verify"}
  BY <1>1, CommandFacts DEF ScriptInv
<1> QED
  BY <1>1, <1>2 DEF CallInv, Computed, Replaying

(* The library threw.                                                      *)
LEMMA FailsInv ==
  ASSUME CmdInv, Fails
  PROVE  CmdInv'
<1>1. /\ commandPc = "computing" /\ "threw" \in {epochPc, replayPc}
      /\ Exit("failed") /\ UNCHANGED allReplayVars
  BY DEF Fails
<1>2. ~ Replaying /\ epochPc # "commit"
  BY <1>1, OneCall
<1> QED
  BY <1>1, <1>2, GivesUpInv

(* The last gate is closed.                                                *)
LEMMA GateClosedInv ==
  ASSUME CmdInv, GateClosed
  PROVE  CmdInv'
<1>1. /\ commandPc = "computing" /\ Computed
      /\ Exit("failed") /\ UNCHANGED allReplayVars
  BY DEF GateClosed
<1>2. ~ Replaying /\ epochPc # "commit"
  BY <1>1, OneCall
<1> QED
  BY <1>1, <1>2, GivesUpInv

(* verify returns.                                                         *)
LEMMA VerifiedInv ==
  ASSUME CmdInv, Verified
  PROVE  CmdInv'
<1>1. /\ EpochInv /\ ReplayInv /\ ScriptInv /\ CallInv /\ FileInv
      /\ commandPc = "computing" /\ replayPc = "returned"
      /\ commandPc' = "returned" /\ script' = script
      /\ UNCHANGED <<edgesFile, proofFile, meant>> /\ UNCHANGED allReplayVars
  BY DEF CmdInv, Verified, Exit, filesVars
<1>2. command.kind = "verify" /\ epochPc = "idle" /\ ~ Replaying
  BY <1>1 DEF CallInv, Replaying
<1>3. /\ EpochInv' /\ ReplayInv'
      /\ UNCHANGED <<graph, epochPc, batch, epochLog>>
      /\ UNCHANGED <<dist, log, replayPc, cursor, epochStart, sidecars>>
      /\ (Replaying' <=> Replaying)
  BY <1>1, QuietStep
<1>4. ScriptInv'
  BY <1>1, <1>3 DEF ScriptInv
<1>5. CallInv'
  BY <1>1, <1>2, <1>3 DEF CallInv
<1>6. command' = command
  BY <1>1 DEF command
<1>7. ResultInv'
  BY <1>2, <1>6 DEF ResultInv
<1>8. FileInv'
  BY <1>1, <1>2, <1>6 DEF FileInv, Prefix, InGraph
<1> QED
  BY <1>3, <1>4, <1>5, <1>7, <1>8 DEF CmdInv

(* The steps of a command that writes its result: its result stays what it *)
(* is, so only the files need looking after.                               *)
LEMMA WritingStep ==
  ASSUME CmdInv, UNCHANGED allReplayVars, script' = script,
         commandPc \in {"computing", "edges", "proof"}, Computed, command.kind # "verify",
         commandPc' \in {"edges", "proof", "returned"},
         FileInv'
  PROVE  CmdInv'
<1>1. EpochInv /\ ReplayInv /\ ScriptInv /\ CallInv /\ ResultInv
  BY DEF CmdInv
<1>2. /\ EpochInv' /\ ReplayInv'
      /\ UNCHANGED <<graph, epochPc, batch, epochLog>>
      /\ UNCHANGED <<dist, log, replayPc, cursor, epochStart, sidecars>>
      /\ (Replaying' <=> Replaying)
  BY <1>1, QuietStep
<1>3. ScriptInv'
  BY <1>1, <1>2 DEF ScriptInv
<1>4. ~ Replaying /\ epochPc # "commit"
  <2>1. CASE commandPc = "computing"
    BY <2>1, OneCall
  <2>2. CASE commandPc # "computing"
    BY <1>1, <2>2 DEF CallInv
  <2> QED
    BY <2>1, <2>2
<1>5. CallInv'
  BY <1>2, <1>4 DEF CallInv
<1>6. command' = command
  BY DEF command
<1>7. Result' = Result /\ (Computed' <=> Computed)
  BY <1>2, <1>6 DEF Result, Computed
<1>8. ResultInv'
  BY <1>1, <1>2, <1>6, <1>7 DEF ResultInv
<1> QED
  BY <1>2, <1>3, <1>5, <1>8 DEF CmdInv

(* What the command that runs keeps while it writes.                       *)
LEMMA WritingFacts ==
  ASSUME UNCHANGED allReplayVars, script' = script
  PROVE  /\ command' = command /\ Result' = Result /\ (Computed' <=> Computed)
         /\ graph' = graph
<1>1. UNCHANGED <<graph, epochPc, batch, epochLog>> /\ log' = log
  BY DEF allReplayVars, epochVars, replayVars
<1>2. command' = command
  BY DEF command
<1> QED
  BY <1>1, <1>2 DEF Result, Computed

(* The edge file is opened, behind the last gate.                          *)
LEMMA OpenEdgesInv ==
  ASSUME CmdInv, OpenEdges
  PROVE  CmdInv'
<1>1. /\ commandPc = "computing" /\ Computed /\ commandPc' = "edges"
      /\ InGraph(command.tour, graph)
      /\ edgesFile' = <<>> /\ proofFile' = proofFile /\ script' = script
      /\ meant' = [meant EXCEPT !.by = command, !.edges = graph]
      /\ UNCHANGED allReplayVars
  BY DEF OpenEdges
<1>2. ScriptInv /\ CallInv /\ FileInv /\ EpochInv
  BY DEF CmdInv
<1>3. command.kind # "verify"
  BY <1>1, <1>2 DEF CallInv, Computed
<1>4. /\ command' = command /\ Result' = Result /\ (Computed' <=> Computed)
      /\ graph' = graph
  BY <1>1, WritingFacts
<1>5. graph \in SUBSET Edge
  BY <1>2 DEF EpochInv
<1>6. meant'.by = command /\ meant'.edges = graph /\ meant'.log = meant.log
  BY <1>1
<1>7. Prefix(<<>>, EdgeLines(graph))
  <2>1. PICK S : EdgeLines(graph) \in Seq(S)
    BY <1>5, EdgeFileLines
  <2>2. Len(EdgeLines(graph)) \in Nat
    BY <2>1, LenProperties
  <2>3. 0 \in 0 .. Len(EdgeLines(graph)) /\ SubSeq(EdgeLines(graph), 1, 0) = <<>>
    BY <2>2, SubSeqEmpty
  <2> QED
    BY <2>3 DEF Prefix
<1>8. FileInv'
  BY <1>1, <1>2, <1>3, <1>4, <1>5, <1>6, <1>7 DEF FileInv, Prefix, InGraph
<1> QED
  BY <1>1, <1>3, <1>8, WritingStep

(* One more line of the edge file.                                         *)
LEMMA PutEdgeInv ==
  ASSUME CmdInv, PutEdge
  PROVE  CmdInv'
<1>1. /\ commandPc = "edges" /\ commandPc' = "edges"
      /\ edgesFile # EdgeLines(graph)
      /\ edgesFile' = Append(edgesFile, EdgeLines(graph)[Len(edgesFile) + 1])
      /\ proofFile' = proofFile /\ script' = script /\ meant' = meant
      /\ UNCHANGED allReplayVars
  BY DEF PutEdge, NextLine
<1>2. FileInv /\ EpochInv
  BY DEF CmdInv
<1>3. /\ command.kind # "verify" /\ Computed /\ meant.edges = graph
      /\ Prefix(edgesFile, EdgeLines(graph))
  BY <1>1, <1>2 DEF FileInv
<1>4. /\ command' = command /\ Result' = Result /\ (Computed' <=> Computed)
      /\ graph' = graph
  BY <1>1, WritingFacts
<1>5. graph \in SUBSET Edge
  BY <1>2 DEF EpochInv
<1>6. Prefix(edgesFile', EdgeLines(graph))
  <2>1. PICK S : EdgeLines(graph) \in Seq(S)
    BY <1>5, EdgeFileLines
  <2>2. PICK n \in 0 .. Len(EdgeLines(graph)) : edgesFile = SubSeq(EdgeLines(graph), 1, n)
    BY <1>3 DEF Prefix
  <2>3. Len(EdgeLines(graph)) \in Nat
    BY <2>1, LenProperties
  <2>4. n # Len(EdgeLines(graph))
    BY <1>1, <2>1, <2>2, SubSeqFull
  <2>5. Append(edgesFile, EdgeLines(graph)[Len(edgesFile) + 1]) = SubSeq(EdgeLines(graph), 1, n + 1)
    BY <2>1, <2>2, <2>3, <2>4, PrefixLines
  <2>6. n + 1 \in 0 .. Len(EdgeLines(graph))
    BY <2>2, <2>3, <2>4
  <2> QED
    BY <1>1, <2>5, <2>6 DEF Prefix
<1>7. FileInv'
  BY <1>1, <1>2, <1>3, <1>4, <1>6 DEF FileInv, Prefix, InGraph
<1> QED
  BY <1>1, <1>3, <1>7, WritingStep

(* The edge file is closed and the proof file opened.                      *)
LEMMA OpenProofInv ==
  ASSUME CmdInv, OpenProof
  PROVE  CmdInv'
<1>1. /\ commandPc = "edges" /\ commandPc' = "proof"
      /\ proofFile' = <<>> /\ edgesFile' = edgesFile /\ script' = script
      /\ meant' = [meant EXCEPT !.log = Result]
      /\ UNCHANGED allReplayVars
  BY DEF OpenProof
<1>2. FileInv /\ ResultInv
  BY DEF CmdInv
<1>3. /\ command.kind # "verify" /\ Computed /\ meant.edges = graph
  BY <1>1, <1>2 DEF FileInv
<1>4. /\ command' = command /\ Result' = Result /\ (Computed' <=> Computed)
      /\ graph' = graph
  BY <1>1, WritingFacts
<1>5. Result \in EliminationResult
  BY <1>1, <1>2, <1>3 DEF ResultInv
<1>6. meant.log \in EliminationResult /\ meant'.log = Result
      /\ meant'.by = meant.by /\ meant'.edges = meant.edges
  BY <1>1, <1>2 DEF FileInv
<1>7. Prefix(<<>>, WriteProof(Result))
  <2>1. PICK S : WriteProof(Result) \in Seq(S)
    BY <1>5, WrittenLines
  <2>2. Len(WriteProof(Result)) \in Nat
    BY <2>1, LenProperties
  <2>3. 0 \in 0 .. Len(WriteProof(Result)) /\ SubSeq(WriteProof(Result), 1, 0) = <<>>
    BY <2>2, SubSeqEmpty
  <2> QED
    BY <2>3 DEF Prefix
<1>8. FileInv'
  BY <1>1, <1>2, <1>3, <1>4, <1>5, <1>6, <1>7 DEF FileInv, Prefix, InGraph
<1> QED
  BY <1>1, <1>3, <1>8, WritingStep

(* One more line of the proof file.                                        *)
LEMMA PutProofInv ==
  ASSUME CmdInv, PutProof
  PROVE  CmdInv'
<1>1. /\ commandPc = "proof" /\ commandPc' = "proof"
      /\ proofFile # WriteProof(Result)
      /\ proofFile' = Append(proofFile, WriteProof(Result)[Len(proofFile) + 1])
      /\ edgesFile' = edgesFile /\ script' = script /\ meant' = meant
      /\ UNCHANGED allReplayVars
  BY DEF PutProof, NextLine
<1>2. FileInv /\ ResultInv
  BY DEF CmdInv
<1>3. /\ command.kind # "verify" /\ Computed /\ meant.edges = graph
      /\ meant.log = Result /\ Prefix(proofFile, WriteProof(Result))
  BY <1>1, <1>2 DEF FileInv
<1>4. /\ command' = command /\ Result' = Result /\ (Computed' <=> Computed)
      /\ graph' = graph
  BY <1>1, WritingFacts
<1>5. Result \in EliminationResult
  BY <1>2, <1>3 DEF FileInv
<1>6. Prefix(proofFile', WriteProof(Result))
  <2>1. PICK S : WriteProof(Result) \in Seq(S)
    BY <1>5, WrittenLines
  <2>2. PICK n \in 0 .. Len(WriteProof(Result)) : proofFile = SubSeq(WriteProof(Result), 1, n)
    BY <1>3 DEF Prefix
  <2>3. Len(WriteProof(Result)) \in Nat
    BY <2>1, LenProperties
  <2>4. n # Len(WriteProof(Result))
    BY <1>1, <2>1, <2>2, SubSeqFull
  <2>5. Append(proofFile, WriteProof(Result)[Len(proofFile) + 1])
          = SubSeq(WriteProof(Result), 1, n + 1)
    BY <2>1, <2>2, <2>3, <2>4, PrefixLines
  <2>6. n + 1 \in 0 .. Len(WriteProof(Result))
    BY <2>2, <2>3, <2>4
  <2> QED
    BY <1>1, <2>5, <2>6 DEF Prefix
<1>7. FileInv'
  BY <1>1, <1>2, <1>3, <1>4, <1>6 DEF FileInv, Prefix, InGraph
<1> QED
  BY <1>1, <1>3, <1>7, WritingStep

(* The command returns, whether or not all of its files was written.       *)
LEMMA ReturnInv ==
  ASSUME CmdInv, Return
  PROVE  CmdInv'
<1>1. /\ commandPc = "proof" /\ commandPc' = "returned" /\ script' = script
      /\ UNCHANGED <<edgesFile, proofFile, meant>> /\ UNCHANGED allReplayVars
  BY DEF Return, Exit, filesVars
<1>2. FileInv
  BY DEF CmdInv
<1>3. command.kind # "verify" /\ Computed
  BY <1>1, <1>2 DEF FileInv
<1>4. /\ command' = command /\ Result' = Result /\ (Computed' <=> Computed)
      /\ graph' = graph
  BY <1>1, WritingFacts
<1>5. FileInv'
  BY <1>1, <1>2, <1>3, <1>4 DEF FileInv, Prefix, InGraph
<1> QED
  BY <1>1, <1>3, <1>5, WritingStep

(* Nothing happens.                                                        *)
LEMMA CommandsStutter ==
  ASSUME CmdInv, UNCHANGED allVars
  PROVE  CmdInv'
<1>1. /\ EpochInv /\ ReplayInv /\ ScriptInv /\ CallInv /\ ResultInv /\ FileInv
      /\ UNCHANGED allReplayVars /\ UNCHANGED <<script, commandPc, edgesFile, proofFile, meant>>
  BY DEF CmdInv, allVars, commandVars, filesVars
<1>2. /\ EpochInv' /\ ReplayInv'
      /\ UNCHANGED <<active, csr, snapshotHash, phase, queue, degrees, committed, result>>
      /\ UNCHANGED <<graph, epochPc, batch, epochLog>>
      /\ UNCHANGED <<dist, log, replayPc, cursor, epochStart, sidecars>>
      /\ (Replaying' <=> Replaying)
  BY <1>1, QuietStep
<1>3. /\ command' = command /\ Result' = Result /\ (Computed' <=> Computed)
  BY <1>1, WritingFacts
<1>4. ScriptInv' /\ CallInv'
  BY <1>1, <1>2, <1>3 DEF ScriptInv, CallInv
<1>5. ResultInv' /\ FileInv'
  BY <1>1, <1>2, <1>3 DEF ResultInv, FileInv, Prefix, InGraph
<1> QED
  BY <1>2, <1>4, <1>5 DEF CmdInv

(* Every step keeps the invariant.                                         *)
LEMMA CommandsNextInv ==
  ASSUME CmdInv, [CommandsNext]_allVars
  PROVE  CmdInv'
<1>1. CASE CommandsNext
  BY <1>1, LoadInv, NextCommandInv, DiesInv, StartComputingInv, ComputeInv, FailsInv,
     VerifiedInv, OpenEdgesInv, GateClosedInv, PutEdgeInv, OpenProofInv, PutProofInv, ReturnInv
     DEF CommandsNext
<1>2. CASE UNCHANGED allVars
  BY <1>2, CommandsStutter
<1> QED
  BY <1>1, <1>2

-----------------------------------------------------------------------------
(* The theorems.                                                           *)

(* The invariant of the commands: the library's own invariants, one call   *)
(* at a time, results that replay, and files that are prefixes of what     *)
(* their last writers meant.                                               *)
THEOREM CommandsInvariant == CommandsSpec => []CmdInv
<1>1. CommandsInit => CmdInv
  BY CmdInit
<1>2. CmdInv /\ [CommandsNext]_allVars => CmdInv'
  BY CommandsNextInv
<1> QED
  BY <1>1, <1>2, PTL DEF CommandsSpec

(* The replay accepts exactly the logs that the definition accepts, unless *)
(* memory runs out, whoever wrote the proof file (jv_elimination.cpp:      *)
(* 525-605).                                                               *)
THEOREM ReplayIsExact == CommandsSpec => []ReplayDecides
<1>1. CmdInv => ReplayDecides
  BY DEF CmdInv, ReplayInv
<1> QED
  BY <1>1, CommandsInvariant, PTL

(* The log of ht-commit and ht-scan certifies the change of the graph, also *)
(* when other commands ran before (ht_epoch.cpp:108-126).                  *)
THEOREM EpochsAreCertified == CommandsSpec => []EpochCertified
<1>1. CmdInv => EpochCertified
  BY DEF CmdInv, EpochInv
<1> QED
  BY <1>1, CommandsInvariant, PTL

(* Neither a replay nor an epoch leaves its caller a partly edited graph   *)
(* (jv_elimination.cpp:530-531, 599-603, ht_epoch.cpp:107-128).            *)
THEOREM NoPartialEdit == CommandsSpec => AllOrNothing
<1>1. ASSUME CmdInv, [CommandsNext]_allVars
      PROVE  /\ [Replaying => replayPc' = "returned" /\ ContentHash(graph') = log.final]_graph
             /\ [epochPc = "commit" => epochPc' = "returned" /\ graph' = graph \ Committed]_graph
  <2> SUFFICES ASSUME graph' # graph
               PROVE  /\ Replaying => replayPc' = "returned" /\ ContentHash(graph') = log.final
                      /\ epochPc = "commit" =>
                           epochPc' = "returned" /\ graph' = graph \ Committed
    OBVIOUS
  <2>1. CallInv /\ EpochInv
    BY <1>1 DEF CmdInv
  <2>2. CommandsNext
    BY <1>1 DEF allVars, allReplayVars, epochVars
  <2>3. CASE Replaying \/ epochPc = "commit"
    <3>1. commandPc = "computing"
      BY <2>1, <2>3 DEF CallInv
    <3>2. Compute
      BY <2>2, <3>1 DEF CommandsNext, Load, NextCommand, Dies, StartComputing, Fails, Verified,
         OpenEdges, GateClosed, PutEdge, OpenProof, PutProof, Return, allReplayVars, epochVars
    <3>3. CASE command.kind = "epoch" /\ EpochStep
      <4>1. ~ Replaying
        BY <2>1, <3>3 DEF CallInv
      <4> QED
        BY <2>1, <3>3, <4>1, EpochStepGraph
    <3>4. CASE command.kind = "verify" /\ ReplayNext
      <4>1. epochPc # "commit"
        BY <2>1, <3>4 DEF CallInv
      <4>2. Publish
        BY <3>4 DEF ReplayNext, CheckContainer, StartEpoch, VerifyRecord, CommitRecords,
                    ReplaySweep, CheckDeletions, ReplayThrows, epochVars
      <4> QED
        BY <4>1, <4>2 DEF Publish
    <3> QED
      BY <3>2, <3>3, <3>4 DEF Compute
  <2> QED
    BY <2>3
<1> QED
  BY <1>1, CommandsInvariant, PTL
     DEF CommandsSpec, AllOrNothing, ReplayAllOrNothing, EpochAllOrNothing

(* A file that is accepted is whole and carries what its last writer meant, *)
(* wherever that writer died or lost the end of its output, and the whole  *)
(* proof file of a valid log is accepted (graph.cpp:183-221,               *)
(* jv_elimination.cpp:324-520).                                            *)
THEOREM AcceptedFilesAreWhole == CommandsSpec => []OnlyWholeFilesRead
<1>1. CmdInv => OnlyWholeFilesRead
  <2> SUFFICES ASSUME FileInv PROVE OnlyWholeFilesRead
    BY DEF CmdInv
  <2>1. /\ meant.edges \in SUBSET Edge /\ meant.log \in EliminationResult
        /\ Prefix(edgesFile, EdgeLines(meant.edges))
        /\ Prefix(proofFile, WriteProof(meant.log))
    BY DEF FileInv
  <2>2. Loadable(edgesFile) =>
          edgesFile = EdgeLines(meant.edges) /\ LoadedEdges(edgesFile) = meant.edges
    BY <2>1, LoadedFileIsWhole
  <2>3. Readable(proofFile) =>
          proofFile = WriteProof(meant.log) /\ Carries(proofFile, meant.log)
    BY <2>1, AcceptedFileIsWhole
  <2>4. ValidateProofContainer(meant.log) => Readable(WriteProof(meant.log))
    BY <2>1, WholeFileReadable
  <2> QED
    BY <2>2, <2>3, <2>4 DEF OnlyWholeFilesRead
<1> QED
  BY <1>1, CommandsInvariant, PTL

(* What a replay looks at is in the file.                                  *)
LEMMA CarriedReplays ==
  ASSUME NEW d, NEW g, NEW lines, NEW l, Carries(lines, l), ReplayProof(d, g, l)
  PROVE  ReplayProof(d, g, ReadLog(lines)) /\ Replayed(ReadLog(lines)) = l.final
<1> DEFINE k == ReadLog(lines)
<1>1. /\ k.initial = l.initial /\ k.final = l.final
      /\ k.proof = l.proof /\ k.certificates = l.certificates
  BY DEF Carries
<1> HIDE DEF k
<1>2. \A S : Without(k, S) = Without(l, S)
  BY <1>1 DEF Without
<1>3. Replayed(k) = Replayed(l) /\ Replayed(l) = l.final
  BY <1>1, <1>2 DEF Replayed, ReplayProof
<1>4. \A i : EpochFollows(k, i) <=> EpochFollows(l, i)
  BY <1>1 DEF EpochFollows
<1>5. \A i : RecordReplays(d, k, i) <=> RecordReplays(d, l, i)
  BY <1>1, <1>2, ZenonT(40) DEF RecordReplays
<1>6. \A i : HtRecordsBefore(k, i) = HtRecordsBefore(l, i)
  BY <1>1 DEF HtRecordsBefore
<1>7. ValidateProofContainer(k) <=> ValidateProofContainer(l)
  BY <1>1, SameContainer
<1>8. ReplayProof(d, g, k)
  BY <1>1, <1>3, <1>4, <1>5, <1>6, <1>7 DEF ReplayProof
<1> QED
  BY <1>3, <1>8 DEF k

(* The two files a returned command leaves, if both can be read, belong    *)
(* together: the proof verifies on the input and leads to the edges        *)
(* (main.cpp:257-258).                                                     *)
THEOREM PairAgrees == CommandsSpec => []ReturnedPairAgrees
<1>1. CmdInv => ReturnedPairAgrees
  <2> SUFFICES ASSUME CmdInv, commandPc = "returned", command.kind # "verify",
                      Loadable(edgesFile), Readable(proofFile)
               PROVE  /\ ReplayProof(dist, command.input, ReadLog(proofFile))
                      /\ LoadedEdges(edgesFile) = Replayed(ReadLog(proofFile))
    BY DEF ReturnedPairAgrees
  <2>1. FileInv /\ ResultInv
    BY DEF CmdInv
  <2>2. Computed /\ meant.edges = graph /\ meant.log = Result
    BY <2>1 DEF FileInv
  <2>3. Result.final = graph /\ ReplayProof(dist, command.input, Result)
    BY <2>1, <2>2 DEF ResultInv
  <2>4. /\ meant.edges \in SUBSET Edge /\ meant.log \in EliminationResult
        /\ Prefix(edgesFile, EdgeLines(meant.edges))
        /\ Prefix(proofFile, WriteProof(meant.log))
    BY <2>1 DEF FileInv
  <2>5. LoadedEdges(edgesFile) = meant.edges
    BY <2>4, LoadedFileIsWhole
  <2>6. Carries(proofFile, Result)
    BY <2>2, <2>4, AcceptedFileIsWhole
  <2>7. /\ ReplayProof(dist, command.input, ReadLog(proofFile))
        /\ Replayed(ReadLog(proofFile)) = Result.final
    BY <2>3, <2>6, CarriedReplays
  <2> QED
    BY <2>2, <2>3, <2>5, <2>7
<1> QED
  BY <1>1, CommandsInvariant, PTL

(* The protected tour of the command that wrote it is in every edge file   *)
(* that loads: the last gate comes before the first byte of output         *)
(* (main.cpp:1211-1221, 1341-1351).                                        *)
THEOREM ProtectedTourIsWritten ==
  CommandsSpec => [](Loadable(edgesFile) => InGraph(meant.by.tour, LoadedEdges(edgesFile)))
<1>1. CmdInv => (Loadable(edgesFile) => InGraph(meant.by.tour, LoadedEdges(edgesFile)))
  <2> SUFFICES ASSUME FileInv, Loadable(edgesFile)
               PROVE  InGraph(meant.by.tour, LoadedEdges(edgesFile))
    BY DEF CmdInv
  <2>1. /\ meant.edges \in SUBSET Edge /\ Prefix(edgesFile, EdgeLines(meant.edges))
        /\ InGraph(meant.by.tour, meant.edges)
    BY DEF FileInv
  <2>2. LoadedEdges(edgesFile) = meant.edges
    BY <2>1, LoadedFileIsWhole
  <2> QED
    BY <2>1, <2>2
<1> QED
  BY <1>1, CommandsInvariant, PTL
=============================================================================
