----------------------- MODULE LocalElimination_proofs -----------------------
(***************************************************************************)
(* What is proved of the Jonker-Volgenant rounds (JvElimination) and of    *)
(* the local driver that runs them in turn with Hamilton-Tutte scans       *)
(* (LocalElimination).                                                     *)
(*                                                                         *)
(*   Logs      a log that replays, followed by a log that replays from     *)
(*             where the first one ends, is one that replays               *)
(*             (AppendedGood); what one commit accepts is such a log       *)
(*             (EpochGood).                                                *)
(*   Rounds    JvInv: the stage is a log that replays to the graph, or to  *)
(*             the snapshot the running commit works on.                   *)
(*   Scans     Searched: no target before the offset is provable.          *)
(*   Driver    LocalInv: the combined log ends where the stage at work     *)
(*             begins, and the caller's graph is one of its ends.          *)
(***************************************************************************)
EXTENDS LocalElimination, EdgeCommit_proofs, SequenceTheorems

-----------------------------------------------------------------------------
(* Logs.  Good(d, o, L) is what ReplayProof(d, L.initial, L) asks of a     *)
(* log, with d the distances and o the obstacles of the searches, and what *)
(* has to be known of it so that another log can be appended: its epochs   *)
(* do not go beyond that of its last record.                               *)

LogRecord == [epoch : Nat, snapshot : SUBSET Edge, edge : Edge, witness : Int,
              method : Methods, certificate : Int]
LogCertificate == [target : Edge, snapshot : SUBSET Edge]

\* The records before record i in its own epoch and in other ones.
Beside(L, i) == {j \in 1 .. i - 1 : L.proof[j].epoch = L.proof[i].epoch}
Earlier(L, i) == {j \in 1 .. i - 1 : L.proof[j].epoch # L.proof[i].epoch}
EdgesAt(L, places) == {L.proof[j].edge : j \in places}

HeldOn(d, o, g, r) ==
  /\ r.edge \in g
  /\ IF r.method = kJv
     THEN VerifyJvCandidate(d, g, g, JvCandidate(r.edge, r.witness))
     ELSE o[d][r.edge] \cap g = {}

ReplaysAt(d, o, L, i) ==
  LET r == L.proof[i]
      g == L.initial \ EdgesAt(L, Earlier(L, i))
  IN  /\ r.snapshot = g
      /\ HeldOn(d, o, g, r)
      /\ \A e \in EdgesAt(L, Beside(L, i)) : e < r.edge
      /\ Deletable(g \ EdgesAt(L, Beside(L, i)), r.edge)

LogTypes(L) ==
  /\ L.initial \in SUBSET Edge
  /\ L.proof \in Seq(LogRecord)
  /\ L.certificates \in Seq(LogCertificate)

HtRecord(L) == {i \in DOMAIN L.proof : L.proof[i].method # kJv}
HtBefore(L, i) == {j \in 1 .. i - 1 : L.proof[j].method # kJv}

Container(L) ==
  /\ \A i \in DOMAIN L.proof \ HtRecord(L) : L.proof[i].certificate = NoCertificate
  /\ \A i \in HtRecord(L) :
       /\ L.proof[i].witness = -1
       /\ L.proof[i].certificate + 1 \in DOMAIN L.certificates
       /\ L.certificates[L.proof[i].certificate + 1].target = L.proof[i].edge
       /\ L.certificates[L.proof[i].certificate + 1].snapshot = L.proof[i].snapshot
       /\ L.proof[i].certificate = Cardinality(HtBefore(L, i))
  /\ \A i, j \in HtRecord(L) : i # j => L.proof[i].certificate # L.proof[j].certificate
  /\ {L.proof[i].certificate + 1 : i \in HtRecord(L)} = DOMAIN L.certificates
  /\ Cardinality(HtRecord(L)) = Len(L.certificates)

EpochsOf(L) ==
  \A i \in DOMAIN L.proof :
    /\ IF i = 1 THEN L.proof[i].epoch = 0
       ELSE L.proof[i].epoch \in {L.proof[i - 1].epoch, L.proof[i - 1].epoch + 1}
    /\ L.proof[i].epoch <= Last(L.proof).epoch

Good(d, o, L) ==
  /\ LogTypes(L)
  /\ Container(L)
  /\ EpochsOf(L)
  /\ \A i \in DOMAIN L.proof : ReplaysAt(d, o, L, i)
  /\ L.final = L.initial \ EdgesAt(L, DOMAIN L.proof)

(* Concatenation.                                                          *)
LEMMA TwoSequences ==
  ASSUME NEW S, NEW s \in Seq(S), NEW t \in Seq(S), NEW m, NEW n, Len(s) = m, Len(t) = n
  PROVE  /\ m \in Nat /\ n \in Nat
         /\ s \o t \in Seq(S)
         /\ Len(s \o t) = m + n
         /\ DOMAIN (s \o t) = 1 .. m + n
         /\ \A i \in 1 .. m : (s \o t)[i] = s[i]
         /\ \A i \in 1 .. n : (s \o t)[m + i] = t[i]
<1>1. /\ s \o t \in Seq(S) /\ Len(s \o t) = m + n
      /\ \A i \in 1 .. m + n : (s \o t)[i] = IF i <= m THEN s[i] ELSE t[i - m]
  BY ConcatProperties
<1>2. m \in Nat /\ n \in Nat
  BY LenProperties
<1>3. \A i \in 1 .. n : m + i \in 1 .. m + n /\ ~ (m + i <= m) /\ (m + i) - m = i
  BY <1>2
<1>4. \A i \in 1 .. m : i \in 1 .. m + n /\ i <= m
  BY <1>2
<1>5. DOMAIN (s \o t) = 1 .. m + n
  BY <1>1, LenProperties
<1> QED
  BY <1>1, <1>2, <1>3, <1>4, <1>5

(* The length of a sequence.                                               *)
LEMMA NonEmptySeq ==
  ASSUME NEW S, NEW s \in Seq(S)
  PROVE  /\ s # <<>> => Len(s) \in Nat \ {0} /\ Len(s) \in DOMAIN s
         /\ s = <<>> => Len(s) = 0 /\ DOMAIN s = {}
OBVIOUS

\* J is log N behind log A.
IsAppended(A, N, J) ==
  /\ J.initial = A.initial
  /\ J.final = N.final
  /\ J.proof = A.proof \o [i \in DOMAIN N.proof |-> Rebase(A, N.proof[i])]
  /\ J.certificates = A.certificates \o N.certificates

FirstEpoch(A) == IF A.proof = <<>> THEN 0 ELSE Last(A.proof).epoch + 1

\* In J the first n records are those of A as they are, with epochs below f, the
\* other m those of N, their epochs shifted by f, their certificates by c.
Shifted(A, N, J, n, m, f, c) ==
  /\ n \in Nat /\ m \in Nat /\ f \in Nat /\ c \in Nat
  /\ DOMAIN A.proof = 1 .. n /\ DOMAIN N.proof = 1 .. m
  /\ J.proof \in Seq(LogRecord)
  /\ Len(J.proof) = n + m /\ DOMAIN J.proof = 1 .. n + m
  /\ \A i \in 1 .. n : /\ A.proof[i] \in LogRecord
                       /\ J.proof[i] = A.proof[i]
                       /\ A.proof[i].epoch < f
  /\ \A k \in 1 .. m : /\ N.proof[k] \in LogRecord
                       /\ J.proof[n + k].epoch = N.proof[k].epoch + f
                       /\ J.proof[n + k].snapshot = N.proof[k].snapshot
                       /\ J.proof[n + k].edge = N.proof[k].edge
                       /\ J.proof[n + k].witness = N.proof[k].witness
                       /\ J.proof[n + k].method = N.proof[k].method
                       /\ J.proof[n + k].certificate
                            = IF N.proof[k].method = kJv THEN N.proof[k].certificate
                              ELSE N.proof[k].certificate + c

(* The records of the two logs in the new one.                             *)
LEMMA AppendedRecords ==
  ASSUME NEW A, NEW N, NEW J, LogTypes(A), LogTypes(N), EpochsOf(A), IsAppended(A, N, J)
  PROVE  Shifted(A, N, J, Len(A.proof), Len(N.proof), FirstEpoch(A), Len(A.certificates))
<1> DEFINE n == Len(A.proof)
           m == Len(N.proof)
           B == [i \in DOMAIN N.proof |-> Rebase(A, N.proof[i])]
<1>1. A.proof \in Seq(LogRecord) /\ N.proof \in Seq(LogRecord) /\ Len(A.certificates) \in Nat
  BY DEF LogTypes
<1>2. /\ n \in Nat /\ DOMAIN A.proof = 1 .. n /\ \A i \in 1 .. n : A.proof[i] \in LogRecord
      /\ m \in Nat /\ DOMAIN N.proof = 1 .. m /\ \A k \in 1 .. m : N.proof[k] \in LogRecord
  BY <1>1
<1>3. A.proof # <<>> => n \in DOMAIN A.proof
  BY <1>1, <1>2, NonEmptySeq
<1>4. FirstEpoch(A) \in Nat
  <2>1. A.proof # <<>> => Last(A.proof).epoch \in Nat
    BY <1>2, <1>3 DEF Last, LogRecord
  <2> QED
    BY <2>1 DEF FirstEpoch
<1>5. ASSUME NEW k \in 1 .. m
      PROVE  /\ Rebase(A, N.proof[k]) \in LogRecord
             /\ Rebase(A, N.proof[k]).epoch = N.proof[k].epoch + FirstEpoch(A)
             /\ Rebase(A, N.proof[k]).snapshot = N.proof[k].snapshot
             /\ Rebase(A, N.proof[k]).edge = N.proof[k].edge
             /\ Rebase(A, N.proof[k]).witness = N.proof[k].witness
             /\ Rebase(A, N.proof[k]).method = N.proof[k].method
             /\ Rebase(A, N.proof[k]).certificate
                  = IF N.proof[k].method = kJv THEN N.proof[k].certificate
                    ELSE N.proof[k].certificate + Len(A.certificates)
  <2>1. PICK r \in LogRecord : r = N.proof[k]
    BY <1>2
  <2>2. PICK c \in Int : c = IF r.method = kJv THEN r.certificate
                             ELSE r.certificate + Len(A.certificates)
    BY <1>1 DEF LogRecord
  <2>3. PICK e \in Nat : e = r.epoch + FirstEpoch(A)
    BY <1>4 DEF LogRecord
  <2>4. Rebase(A, r) = [r EXCEPT !.epoch = e, !.certificate = c]
    BY <2>2, <2>3 DEF Rebase, FirstEpoch
  <2> QED
    BY <2>1, <2>2, <2>3, <2>4 DEF LogRecord
<1>6. B = [k \in 1 .. m |-> Rebase(A, N.proof[k])]
  BY <1>2
<1>7. B \in Seq(LogRecord) /\ Len(B) = m
  <2>1. \A k \in 1 .. m : Rebase(A, N.proof[k]) \in LogRecord
    BY <1>5
  <2> HIDE DEF m, B
  <2> QED
    BY <1>2, <1>6, <2>1
<1>8. \A k \in 1 .. m : B[k] = Rebase(A, N.proof[k])
  BY <1>6
<1>9. J.proof = A.proof \o B
  BY DEF IsAppended
<1> HIDE DEF B
<1>10. /\ J.proof \in Seq(LogRecord) /\ Len(J.proof) = n + m
       /\ DOMAIN J.proof = 1 .. n + m
       /\ \A i \in 1 .. n : J.proof[i] = A.proof[i]
       /\ \A k \in 1 .. m : J.proof[n + k] = B[k]
  <2> HIDE DEF n, m
  <2>1. Len(A.proof) = n
    BY DEF n
  <2>2. PICK P \in Seq(LogRecord) : P = A.proof
    BY <1>1
  <2>3. Len(P) = n /\ J.proof = P \o B
    BY <1>9, <2>1, <2>2
  <2>4. /\ P \o B \in Seq(LogRecord)
        /\ Len(P \o B) = n + m
        /\ DOMAIN (P \o B) = 1 .. n + m
        /\ \A i \in 1 .. n : (P \o B)[i] = P[i]
        /\ \A k \in 1 .. m : (P \o B)[n + k] = B[k]
    BY <1>7, <2>3, TwoSequences
  <2> QED
    BY <2>2, <2>3, <2>4
<1>11. \A i \in 1 .. n : A.proof[i].epoch < FirstEpoch(A)
  <2> TAKE i \in 1 .. n
  <2>1. A.proof # <<>> /\ A.proof[i].epoch <= Last(A.proof).epoch
    BY <1>2 DEF EpochsOf
  <2>2. A.proof[i].epoch \in Nat /\ Last(A.proof).epoch \in Nat
    BY <1>2, <1>3, <2>1 DEF LogRecord, Last
  <2> QED
    BY <2>1, <2>2 DEF FirstEpoch
<1> HIDE DEF n, m
<1>12. n = Len(A.proof) /\ m = Len(N.proof)
  BY DEF n, m
<1>13. \A i \in 1 .. n : /\ A.proof[i] \in LogRecord
                          /\ J.proof[i] = A.proof[i]
                          /\ A.proof[i].epoch < FirstEpoch(A)
  BY <1>2, <1>10, <1>11
<1>14. ASSUME NEW k \in 1 .. m
       PROVE  /\ N.proof[k] \in LogRecord
              /\ J.proof[n + k].epoch = N.proof[k].epoch + FirstEpoch(A)
              /\ J.proof[n + k].snapshot = N.proof[k].snapshot
              /\ J.proof[n + k].edge = N.proof[k].edge
              /\ J.proof[n + k].witness = N.proof[k].witness
              /\ J.proof[n + k].method = N.proof[k].method
              /\ J.proof[n + k].certificate
                   = IF N.proof[k].method = kJv THEN N.proof[k].certificate
                     ELSE N.proof[k].certificate + Len(A.certificates)
  <2>1. J.proof[n + k] = Rebase(A, N.proof[k])
    BY <1>8, <1>10
  <2> QED
    BY <1>2, <1>5, <2>1
<1>15. /\ J.proof \in Seq(LogRecord)
       /\ Len(J.proof) = n + m /\ DOMAIN J.proof = 1 .. n + m
  BY <1>10
<1>16. Shifted(A, N, J, n, m, FirstEpoch(A), Len(A.certificates))
  BY <1>1, <1>2, <1>4, <1>13, <1>14, <1>15 DEF Shifted
<1> QED
  BY <1>12, <1>16

(* Which records stand beside and before a record of the new log.          *)
LEMMA AppendedPlaces ==
  ASSUME NEW A, NEW N, NEW J, NEW n, NEW m, NEW f, NEW c, Shifted(A, N, J, n, m, f, c)
  PROVE  /\ EdgesAt(J, 1 .. n + m) = EdgesAt(A, 1 .. n) \cup EdgesAt(N, 1 .. m)
         /\ \A i \in 1 .. n : /\ EdgesAt(J, Beside(J, i)) = EdgesAt(A, Beside(A, i))
                              /\ EdgesAt(J, Earlier(J, i)) = EdgesAt(A, Earlier(A, i))
         /\ \A k \in 1 .. m :
              /\ EdgesAt(J, Beside(J, n + k)) = EdgesAt(N, Beside(N, k))
              /\ EdgesAt(J, Earlier(J, n + k))
                   = EdgesAt(A, 1 .. n) \cup EdgesAt(N, Earlier(N, k))
<1>1. /\ n \in Nat /\ m \in Nat /\ f \in Nat
      /\ \A i \in 1 .. n : /\ J.proof[i].edge = A.proof[i].edge
                           /\ J.proof[i].epoch = A.proof[i].epoch
                           /\ A.proof[i].epoch \in Nat
                           /\ A.proof[i].epoch < f
      /\ \A k \in 1 .. m : /\ J.proof[n + k].edge = N.proof[k].edge
                           /\ J.proof[n + k].epoch = N.proof[k].epoch + f
                           /\ N.proof[k].epoch \in Nat
  BY DEF Shifted, LogRecord
<1>2. \A j \in 1 .. n + m : j \in 1 .. n \/ \E k \in 1 .. m : j = n + k
  <2> TAKE j \in 1 .. n + m
  <2>1. j > n => j - n \in 1 .. m /\ j = n + (j - n)
    BY <1>1
  <2> QED
    BY <1>1, <2>1
<1>3. /\ \A i \in 1 .. n : i \in 1 .. n + m
      /\ \A k \in 1 .. m : n + k \in 1 .. n + m
  BY <1>1
<1>0. \A L, i, j : /\ j \in Beside(L, i)
                        <=> j \in 1 .. i - 1 /\ L.proof[j].epoch = L.proof[i].epoch
                   /\ j \in Earlier(L, i)
                        <=> j \in 1 .. i - 1 /\ L.proof[j].epoch # L.proof[i].epoch
  BY DEF Beside, Earlier
<1>4. EdgesAt(J, 1 .. n + m) = EdgesAt(A, 1 .. n) \cup EdgesAt(N, 1 .. m)
  <2>1. ASSUME NEW e \in EdgesAt(J, 1 .. n + m)
        PROVE  e \in EdgesAt(A, 1 .. n) \cup EdgesAt(N, 1 .. m)
    <3>1. PICK j \in 1 .. n + m : e = J.proof[j].edge
      BY <2>1 DEF EdgesAt
    <3>2. CASE j \in 1 .. n
      BY <1>1, <3>1, <3>2 DEF EdgesAt
    <3>3. CASE \E k \in 1 .. m : j = n + k
      BY <1>1, <3>1, <3>3 DEF EdgesAt
    <3> QED
      BY <1>2, <3>2, <3>3
  <2>2. ASSUME NEW e \in EdgesAt(A, 1 .. n) \cup EdgesAt(N, 1 .. m)
        PROVE  e \in EdgesAt(J, 1 .. n + m)
    BY <1>1, <1>3, <2>2 DEF EdgesAt
  <2> QED
    BY <2>1, <2>2
<1>5. ASSUME NEW i \in 1 .. n
      PROVE  /\ EdgesAt(J, Beside(J, i)) = EdgesAt(A, Beside(A, i))
             /\ EdgesAt(J, Earlier(J, i)) = EdgesAt(A, Earlier(A, i))
  <2>1. \A j \in 1 .. i - 1 : j \in 1 .. n
    BY <1>1
  <2>2. /\ Beside(J, i) = Beside(A, i) /\ Beside(A, i) \subseteq 1 .. n
        /\ Earlier(J, i) = Earlier(A, i) /\ Earlier(A, i) \subseteq 1 .. n
    BY <1>1, <2>1 DEF Beside, Earlier
  <2> QED
    BY <1>1, <2>2 DEF EdgesAt
<1>6. ASSUME NEW k \in 1 .. m
      PROVE  /\ EdgesAt(J, Beside(J, n + k)) = EdgesAt(N, Beside(N, k))
             /\ EdgesAt(J, Earlier(J, n + k)) = EdgesAt(A, 1 .. n) \cup EdgesAt(N, Earlier(N, k))
  <2>1. \A j \in 1 .. (n + k) - 1 : j \in 1 .. n \/ \E l \in 1 .. k - 1 : j = n + l
    <3> TAKE j \in 1 .. (n + k) - 1
    <3>1. j > n => j - n \in 1 .. k - 1 /\ j = n + (j - n)
      BY <1>1
    <3> QED
      BY <1>1, <3>1
  <2>2. /\ \A j \in 1 .. n : j \in 1 .. (n + k) - 1
        /\ \A l \in 1 .. k - 1 : n + l \in 1 .. (n + k) - 1 /\ l \in 1 .. m
    BY <1>1
  <2>3. \A j \in 1 .. n : J.proof[j].epoch # J.proof[n + k].epoch
    <3> TAKE j \in 1 .. n
    <3>1. J.proof[j].epoch < f /\ J.proof[j].epoch \in Nat
      BY <1>1
    <3>2. J.proof[n + k].epoch = N.proof[k].epoch + f /\ N.proof[k].epoch \in Nat
      BY <1>1
    <3> QED
      BY <1>1, <3>1, <3>2
  <2>4. \A l \in 1 .. k - 1 : J.proof[n + l].epoch = J.proof[n + k].epoch
                                <=> N.proof[l].epoch = N.proof[k].epoch
    <3> TAKE l \in 1 .. k - 1
    <3>1. J.proof[n + l].epoch = N.proof[l].epoch + f /\ N.proof[l].epoch \in Nat
      BY <1>1, <2>2
    <3>2. J.proof[n + k].epoch = N.proof[k].epoch + f /\ N.proof[k].epoch \in Nat
      BY <1>1
    <3> QED
      BY <1>1, <3>1, <3>2
  <2>5. Beside(J, n + k) = {n + l : l \in Beside(N, k)}
    <3>1. ASSUME NEW j \in Beside(J, n + k) PROVE j \in {n + l : l \in Beside(N, k)}
      <4>1. j \in 1 .. (n + k) - 1 /\ J.proof[j].epoch = J.proof[n + k].epoch
        BY <1>0
      <4>2. PICK l \in 1 .. k - 1 : j = n + l
        BY <2>1, <2>3, <4>1
      <4>3. l \in Beside(N, k)
        BY <2>4, <4>1, <4>2, <1>0
      <4> QED
        BY <4>2, <4>3
    <3>2. ASSUME NEW l \in Beside(N, k) PROVE n + l \in Beside(J, n + k)
      <4>1. l \in 1 .. k - 1 /\ N.proof[l].epoch = N.proof[k].epoch
        BY <1>0
      <4>2. n + l \in 1 .. (n + k) - 1 /\ J.proof[n + l].epoch = J.proof[n + k].epoch
        BY <2>2, <2>4, <4>1
      <4> QED
        BY <4>2, <1>0
    <3> QED
      BY <3>1, <3>2
  <2>6. Earlier(J, n + k) = (1 .. n) \cup {n + l : l \in Earlier(N, k)}
    <3>1. ASSUME NEW j \in Earlier(J, n + k)
          PROVE  j \in (1 .. n) \cup {n + l : l \in Earlier(N, k)}
      <4>1. j \in 1 .. (n + k) - 1 /\ J.proof[j].epoch # J.proof[n + k].epoch
        BY <1>0
      <4>2. CASE j \in 1 .. n
        BY <4>2
      <4>3. CASE \E l \in 1 .. k - 1 : j = n + l
        <5>1. PICK l \in 1 .. k - 1 : j = n + l
          BY <4>3
        <5>2. l \in Earlier(N, k)
          BY <2>4, <4>1, <5>1, <1>0
        <5> QED
          BY <5>1, <5>2
      <4> QED
        BY <2>1, <4>1, <4>2, <4>3
    <3>2. ASSUME NEW l \in Earlier(N, k) PROVE n + l \in Earlier(J, n + k)
      <4>1. l \in 1 .. k - 1 /\ N.proof[l].epoch # N.proof[k].epoch
        BY <1>0
      <4>2. n + l \in 1 .. (n + k) - 1 /\ J.proof[n + l].epoch # J.proof[n + k].epoch
        BY <2>2, <2>4, <4>1
      <4> QED
        BY <4>2, <1>0
    <3>3. ASSUME NEW j \in 1 .. n PROVE j \in Earlier(J, n + k)
      <4>1. j \in 1 .. (n + k) - 1 /\ J.proof[j].epoch # J.proof[n + k].epoch
        BY <2>2, <2>3
      <4> QED
        BY <4>1, <1>0
    <3>4. \A j \in (1 .. n) \cup {n + l : l \in Earlier(N, k)} : j \in Earlier(J, n + k)
      BY <3>2, <3>3
    <3> QED
      BY <3>1, <3>4
  <2>7. /\ \A l \in Beside(N, k) : l \in 1 .. m
        /\ \A l \in Earlier(N, k) : l \in 1 .. m
    BY <2>2 DEF Beside, Earlier
  <2>8. EdgesAt(J, Beside(J, n + k)) = EdgesAt(N, Beside(N, k))
    <3>1. \A l \in Beside(N, k) : J.proof[n + l].edge = N.proof[l].edge
      BY <1>1, <2>7
    <3>2. EdgesAt(J, Beside(J, n + k)) = {J.proof[n + l].edge : l \in Beside(N, k)}
      BY <2>5 DEF EdgesAt
    <3> QED
      BY <3>1, <3>2 DEF EdgesAt
  <2>9. EdgesAt(J, Earlier(J, n + k)) = EdgesAt(A, 1 .. n) \cup EdgesAt(N, Earlier(N, k))
    <3>1. \A e : e \in EdgesAt(J, Earlier(J, n + k))
                   <=> \/ \E j \in 1 .. n : e = J.proof[j].edge
                       \/ \E l \in Earlier(N, k) : e = J.proof[n + l].edge
      BY <2>6 DEF EdgesAt
    <3>2. \A e : e \in EdgesAt(A, 1 .. n) \cup EdgesAt(N, Earlier(N, k))
                   <=> \/ \E j \in 1 .. n : e = A.proof[j].edge
                       \/ \E l \in Earlier(N, k) : e = N.proof[l].edge
      BY DEF EdgesAt
    <3>3. \A e : e \in EdgesAt(J, Earlier(J, n + k))
                   <=> e \in EdgesAt(A, 1 .. n) \cup EdgesAt(N, Earlier(N, k))
      <4>1. \A j \in 1 .. n : J.proof[j].edge = A.proof[j].edge
        BY <1>1
      <4>2. \A l \in Earlier(N, k) : J.proof[n + l].edge = N.proof[l].edge
        BY <1>1, <2>7
      <4> QED
        BY <3>1, <3>2, <4>1, <4>2
    <3> QED
      BY <3>3
  <2> QED
    BY <2>8, <2>9
<1> QED
  BY <1>4, <1>5, <1>6

(* Every record of the new log replays: the records of the second log find *)
(* the graph the first one leads to.                                       *)
LEMMA AppendedReplays ==
  ASSUME NEW d, NEW o, NEW A, NEW N, NEW J, NEW n, NEW m, NEW f, NEW c,
         Shifted(A, N, J, n, m, f, c), IsAppended(A, N, J), A.final = N.initial,
         \A i \in DOMAIN A.proof : ReplaysAt(d, o, A, i),
         \A k \in DOMAIN N.proof : ReplaysAt(d, o, N, k),
         A.final = A.initial \ EdgesAt(A, DOMAIN A.proof),
         N.final = N.initial \ EdgesAt(N, DOMAIN N.proof)
  PROVE  /\ \A i \in DOMAIN J.proof : ReplaysAt(d, o, J, i)
         /\ J.final = J.initial \ EdgesAt(J, DOMAIN J.proof)
<1>1. /\ J.initial = A.initial /\ J.final = N.final
      /\ DOMAIN A.proof = 1 .. n /\ DOMAIN N.proof = 1 .. m /\ DOMAIN J.proof = 1 .. n + m
      /\ n \in Nat /\ m \in Nat
  BY DEF IsAppended, Shifted
<1>2. ASSUME NEW i \in 1 .. n PROVE ReplaysAt(d, o, J, i)
  <2>1. J.proof[i] = A.proof[i]
    BY DEF Shifted
  <2>2. /\ EdgesAt(J, Beside(J, i)) = EdgesAt(A, Beside(A, i))
        /\ EdgesAt(J, Earlier(J, i)) = EdgesAt(A, Earlier(A, i))
    BY AppendedPlaces
  <2>3. ReplaysAt(d, o, A, i)
    BY <1>1
  <2> QED
    BY <1>1, <2>1, <2>2, <2>3 DEF ReplaysAt
<1>3. ASSUME NEW k \in 1 .. m PROVE ReplaysAt(d, o, J, n + k)
  <2> DEFINE r == J.proof[n + k]
             s == N.proof[k]
  <2>1. r.snapshot = s.snapshot /\ r.edge = s.edge /\ r.witness = s.witness /\ r.method = s.method
    BY DEF Shifted
  <2>2. /\ EdgesAt(J, Beside(J, n + k)) = EdgesAt(N, Beside(N, k))
        /\ EdgesAt(J, Earlier(J, n + k)) = EdgesAt(A, 1 .. n) \cup EdgesAt(N, Earlier(N, k))
    BY AppendedPlaces
  <2>3. J.initial \ EdgesAt(J, Earlier(J, n + k)) = N.initial \ EdgesAt(N, Earlier(N, k))
    BY <1>1, <2>2
  <2>4. ReplaysAt(d, o, N, k)
    BY <1>1
  <2>5. \A g : HeldOn(d, o, g, s) => HeldOn(d, o, g, r)
    BY <2>1 DEF HeldOn
  <2> QED
    BY <2>1, <2>2, <2>3, <2>4, <2>5 DEF ReplaysAt
<1>4. ASSUME NEW i \in 1 .. n + m PROVE ReplaysAt(d, o, J, i)
  <2>1. CASE i <= n
    BY <1>1, <1>2, <2>1
  <2>2. CASE ~ (i <= n)
    <3>1. i - n \in 1 .. m /\ i = n + (i - n)
      BY <1>1, <2>2
    <3> QED
      BY <1>3, <3>1
  <2> QED
    BY <2>1, <2>2
<1>5. J.final = J.initial \ EdgesAt(J, 1 .. n + m)
  <2>1. EdgesAt(J, 1 .. n + m) = EdgesAt(A, 1 .. n) \cup EdgesAt(N, 1 .. m)
    BY AppendedPlaces
  <2> QED
    BY <1>1, <2>1
<1> QED
  BY <1>1, <1>4, <1>5

(* The epochs of the new log go up one by one.                             *)
LEMMA AppendedEpochs ==
  ASSUME NEW A, NEW N, NEW J, LogTypes(A), LogTypes(N), EpochsOf(A), EpochsOf(N),
         IsAppended(A, N, J)
  PROVE  EpochsOf(J)
<1> DEFINE n == Len(A.proof)
           m == Len(N.proof)
           f == FirstEpoch(A)
<1>1. Shifted(A, N, J, n, m, f, Len(A.certificates))
  BY AppendedRecords
<1>2. /\ n \in Nat /\ m \in Nat /\ f \in Nat
      /\ DOMAIN A.proof = 1 .. n /\ DOMAIN N.proof = 1 .. m /\ DOMAIN J.proof = 1 .. n + m
      /\ Len(J.proof) = n + m
      /\ \A i \in 1 .. n : J.proof[i].epoch = A.proof[i].epoch /\ A.proof[i].epoch \in Nat
                           /\ A.proof[i].epoch < f
      /\ \A k \in 1 .. m : J.proof[n + k].epoch = N.proof[k].epoch + f
                           /\ N.proof[k].epoch \in Nat
  BY <1>1 DEF Shifted, LogRecord
<1>3. n # 0 => Last(A.proof) = A.proof[n] /\ f = A.proof[n].epoch + 1
  BY <1>2 DEF FirstEpoch, Last
<1>4. n = 0 => f = 0
  <2>1. n = 0 => A.proof = <<>>
    BY DEF LogTypes
  <2> QED
    BY <2>1 DEF FirstEpoch
<1>5. Last(N.proof) = N.proof[m] /\ Last(J.proof) = J.proof[n + m]
  BY <1>2 DEF Last
<1> HIDE DEF n, m, f
<1>6. ASSUME NEW i \in 1 .. n
      PROVE  /\ IF i = 1 THEN J.proof[i].epoch = 0
                ELSE J.proof[i].epoch \in {J.proof[i - 1].epoch, J.proof[i - 1].epoch + 1}
             /\ J.proof[i].epoch <= Last(J.proof).epoch
  <2>1. i # 1 => i - 1 \in 1 .. n
    BY <1>2
  <2>2. IF i = 1 THEN A.proof[i].epoch = 0
        ELSE A.proof[i].epoch \in {A.proof[i - 1].epoch, A.proof[i - 1].epoch + 1}
    BY <1>2 DEF EpochsOf
  <2>3. A.proof[i].epoch <= Last(J.proof).epoch
    <3>1. CASE m = 0
      <4>1. Last(J.proof) = J.proof[n] /\ J.proof[n].epoch = A.proof[n].epoch
        BY <1>2, <1>5, <3>1
      <4>2. A.proof[i].epoch <= A.proof[n].epoch
        BY <1>2, <1>3 DEF EpochsOf
      <4> QED
        BY <4>1, <4>2
    <3>2. CASE m # 0
      <4>1. m \in 1 .. m
        BY <1>2, <3>2
      <4>2. Last(J.proof).epoch = N.proof[m].epoch + f /\ N.proof[m].epoch \in Nat
        BY <1>2, <1>5, <4>1
      <4>3. A.proof[i].epoch \in Nat /\ A.proof[i].epoch < f /\ f \in Nat
        BY <1>2
      <4> QED
        BY <4>2, <4>3
    <3> QED
      BY <3>1, <3>2
  <2> QED
    BY <1>2, <2>1, <2>2, <2>3
<1>7. ASSUME NEW k \in 1 .. m
      PROVE  /\ IF n + k = 1 THEN J.proof[n + k].epoch = 0
                ELSE J.proof[n + k].epoch
                       \in {J.proof[(n + k) - 1].epoch, J.proof[(n + k) - 1].epoch + 1}
             /\ J.proof[n + k].epoch <= Last(J.proof).epoch
  <2>1. /\ IF k = 1 THEN N.proof[k].epoch = 0
           ELSE N.proof[k].epoch \in {N.proof[k - 1].epoch, N.proof[k - 1].epoch + 1}
        /\ N.proof[k].epoch <= N.proof[m].epoch
    BY <1>2, <1>5 DEF EpochsOf
  <2>2. m \in 1 .. m /\ k \in Nat \ {0}
    BY <1>2
  <2>3. J.proof[n + k].epoch <= Last(J.proof).epoch
    <3>1. /\ J.proof[n + k].epoch = N.proof[k].epoch + f
          /\ J.proof[n + m].epoch = N.proof[m].epoch + f
          /\ N.proof[k].epoch \in Nat /\ N.proof[m].epoch \in Nat
      BY <1>2, <2>2
    <3>2. f \in Nat /\ Last(J.proof).epoch = J.proof[n + m].epoch
      BY <1>2, <1>5
    <3>3. N.proof[k].epoch <= N.proof[m].epoch
      BY <2>1
    <3> QED
      BY <3>1, <3>2, <3>3
  <2>4. CASE k = 1
    <3>1. J.proof[n + k].epoch = f
      <4>1. J.proof[n + k].epoch = N.proof[k].epoch + f /\ N.proof[k].epoch = 0
        BY <1>2, <2>1, <2>4
      <4> QED
        BY <1>2, <4>1
    <3>2. CASE n = 0
      BY <1>4, <2>3, <2>4, <3>1, <3>2
    <3>3. CASE n # 0
      <4>1. n \in 1 .. n /\ n + k # 1 /\ (n + k) - 1 = n
        BY <1>2, <2>4, <3>3
      <4>2. J.proof[(n + k) - 1].epoch = A.proof[n].epoch
        BY <1>2, <4>1
      <4> QED
        BY <1>3, <2>3, <3>1, <3>3, <4>1, <4>2
    <3> QED
      BY <3>2, <3>3
  <2>5. CASE k # 1
    <3>1. k - 1 \in 1 .. m /\ n + k # 1 /\ (n + k) - 1 = n + (k - 1)
      BY <1>2, <2>2, <2>5
    <3>2. /\ J.proof[n + k].epoch = N.proof[k].epoch + f
          /\ J.proof[n + (k - 1)].epoch = N.proof[k - 1].epoch + f
          /\ N.proof[k].epoch \in Nat /\ N.proof[k - 1].epoch \in Nat
      BY <1>2, <3>1
    <3>3. J.proof[n + k].epoch \in {J.proof[n + (k - 1)].epoch, J.proof[n + (k - 1)].epoch + 1}
      <4>1. N.proof[k].epoch \in {N.proof[k - 1].epoch, N.proof[k - 1].epoch + 1}
        BY <2>1, <2>5
      <4>2. f \in Nat
        BY <1>2
      <4> QED
        BY <3>2, <4>1, <4>2
    <3> QED
      BY <2>3, <3>1, <3>3
  <2> QED
    BY <2>4, <2>5
<1>8. ASSUME NEW i \in 1 .. n + m
      PROVE  i \in 1 .. n \/ \E k \in 1 .. m : i = n + k
  <2>1. i > n => i - n \in 1 .. m /\ i = n + (i - n)
    BY <1>2
  <2> QED
    BY <1>2, <2>1
<1>9. ASSUME NEW i, i \in 1 .. n + m
      PROVE  /\ IF i = 1 THEN J.proof[i].epoch = 0
                ELSE J.proof[i].epoch \in {J.proof[i - 1].epoch, J.proof[i - 1].epoch + 1}
             /\ J.proof[i].epoch <= Last(J.proof).epoch
  <2>1. CASE i \in 1 .. n
    BY <1>6, <2>1
  <2>2. CASE \E k \in 1 .. m : i = n + k
    <3>1. PICK k \in 1 .. m : i = n + k
      BY <2>2
    <3> QED
      BY <1>7, <3>1
  <2> QED
    BY <1>8, <1>9, <2>1, <2>2
<1> QED
  BY <1>2, <1>9 DEF EpochsOf

Moved(n, places) == {n + l : l \in places}

(* The size of a set of places in a log with another one appended.         *)
LEMMA PlacesSize ==
  ASSUME NEW n \in Nat, NEW m \in Nat, NEW X \in SUBSET (1 .. n), NEW Y \in SUBSET (1 .. m)
  PROVE  Cardinality(X \cup Moved(n, Y)) = Cardinality(X) + Cardinality(Y)
<1> DEFINE Z == {n + l : l \in Y}
           shift == [l \in Y |-> n + l]
<1>1. IsFiniteSet(X) /\ IsFiniteSet(Y)
  <2>1. IsFiniteSet(1 .. n) /\ IsFiniteSet(1 .. m)
    BY FS_Interval
  <2> QED
    BY <2>1, FS_Subset
<1>2. IsFiniteSet(Z) /\ Cardinality(Z) = Cardinality(Y)
  <2>1. \A l \in Y : l \in Int
    OBVIOUS
  <2>2. \A k, l \in Y : n + k = n + l => k = l
    BY <2>1
  <2>3. shift \in [Y -> Z]
    OBVIOUS
  <2>4. \A k, l \in Y : shift[k] = shift[l] => k = l
    BY <2>2
  <2>5. \A z \in Z : \E l \in Y : shift[l] = z
    OBVIOUS
  <2> HIDE DEF Z, shift
  <2>6. shift \in Injection(Y, Z)
    BY <2>3, <2>4 DEF Injection, IsInjective
  <2>7. shift \in Bijection(Y, Z)
    BY <2>3, <2>5, <2>6 DEF Surjection, Bijection
  <2>8. ExistsBijection(Y, Z)
    BY <2>7 DEF ExistsBijection
  <2> QED
    BY <1>1, <2>8, FS_Bijection
<1>3. X \cap Z = {}
  OBVIOUS
<1> HIDE DEF Z
<1>4. Cardinality(X \cup Z) = Cardinality(X) + Cardinality(Z) - Cardinality({})
  BY <1>1, <1>2, <1>3, FS_Union
<1>5. Cardinality({}) = 0 /\ Cardinality(X) \in Nat /\ Cardinality(Z) \in Nat
  BY <1>1, <1>2, FS_EmptySet, FS_CardinalityType
<1>6. Cardinality(X \cup Z) = Cardinality(X) + Cardinality(Y)
  BY <1>2, <1>4, <1>5
<1> QED
  BY <1>6 DEF Z, Moved

(* The Hamilton-Tutte records of the new log.                              *)
LEMMA AppendedHtRecords ==
  ASSUME NEW A, NEW N, NEW J, NEW n, NEW m, NEW f, NEW c, Shifted(A, N, J, n, m, f, c)
  PROVE  /\ HtRecord(J) = HtRecord(A) \cup {n + k : k \in HtRecord(N)}
         /\ Cardinality(HtRecord(J)) = Cardinality(HtRecord(A)) + Cardinality(HtRecord(N))
         /\ HtRecord(A) \subseteq 1 .. n /\ HtRecord(N) \subseteq 1 .. m
         /\ \A i \in 1 .. n : HtBefore(J, i) = HtBefore(A, i)
         /\ \A k \in 1 .. m : Cardinality(HtBefore(J, n + k))
                                = Cardinality(HtRecord(A)) + Cardinality(HtBefore(N, k))
<1>1. /\ n \in Nat /\ m \in Nat
      /\ DOMAIN A.proof = 1 .. n /\ DOMAIN N.proof = 1 .. m /\ DOMAIN J.proof = 1 .. n + m
      /\ \A i \in 1 .. n : J.proof[i].method = A.proof[i].method
      /\ \A k \in 1 .. m : J.proof[n + k].method = N.proof[k].method
  BY DEF Shifted
<1>2. HtRecord(A) \subseteq 1 .. n /\ HtRecord(N) \subseteq 1 .. m
  BY <1>1 DEF HtRecord
<1>3. \A k \in 1 .. m + 1 : \A j \in 1 .. (n + k) - 1 :
        j \in 1 .. n \/ \E l \in 1 .. k - 1 : j = n + l
  <2> TAKE k \in 1 .. m + 1
  <2> TAKE j \in 1 .. (n + k) - 1
  <2>1. j > n => j - n \in 1 .. k - 1 /\ j = n + (j - n)
    BY <1>1
  <2> QED
    BY <1>1, <2>1
<1>4. \A k \in 1 .. m + 1 :
        /\ \A j \in 1 .. n : j \in 1 .. (n + k) - 1
        /\ \A l \in 1 .. k - 1 : n + l \in 1 .. (n + k) - 1 /\ l \in 1 .. m
  BY <1>1
<1>5. \A L, i, j : j \in HtBefore(L, i) <=> j \in 1 .. i - 1 /\ L.proof[j].method # kJv
  BY DEF HtBefore
<1>6. ASSUME NEW k \in 1 .. m + 1
      PROVE  HtBefore(J, n + k) = HtRecord(A) \cup {n + l : l \in HtBefore(N, k)}
  <2>1. ASSUME NEW j \in HtBefore(J, n + k)
        PROVE  j \in HtRecord(A) \cup {n + l : l \in HtBefore(N, k)}
    <3>1. j \in 1 .. (n + k) - 1 /\ J.proof[j].method # kJv
      BY <1>5
    <3>2. CASE j \in 1 .. n
      BY <1>1, <3>1, <3>2 DEF HtRecord
    <3>3. CASE \E l \in 1 .. k - 1 : j = n + l
      <4>1. PICK l \in 1 .. k - 1 : j = n + l
        BY <3>3
      <4>2. l \in HtBefore(N, k)
        BY <1>1, <1>4, <1>5, <3>1, <4>1
      <4> QED
        BY <4>1, <4>2
    <3> QED
      BY <1>3, <3>1, <3>2, <3>3
  <2>2. ASSUME NEW j \in HtRecord(A) PROVE j \in HtBefore(J, n + k)
    <3>1. j \in 1 .. n /\ A.proof[j].method # kJv
      BY <1>2 DEF HtRecord
    <3>2. j \in 1 .. (n + k) - 1 /\ J.proof[j].method # kJv
      BY <1>1, <1>4, <3>1
    <3> QED
      BY <1>5, <3>2
  <2>3. ASSUME NEW l \in HtBefore(N, k) PROVE n + l \in HtBefore(J, n + k)
    <3>1. l \in 1 .. k - 1 /\ N.proof[l].method # kJv
      BY <1>5
    <3>2. n + l \in 1 .. (n + k) - 1 /\ J.proof[n + l].method # kJv
      BY <1>1, <1>4, <3>1
    <3> QED
      BY <1>5, <3>2
  <2> QED
    BY <2>1, <2>2, <2>3
<1>7. /\ HtBefore(J, n + (m + 1)) = HtRecord(J)
      /\ HtBefore(N, m + 1) = HtRecord(N)
  <2>1. (n + (m + 1)) - 1 = n + m /\ (m + 1) - 1 = m
    BY <1>1
  <2> QED
    BY <1>1, <2>1 DEF HtBefore, HtRecord
<1>8. \A k \in 1 .. m : HtBefore(N, k) \subseteq 1 .. m
  <2> TAKE k \in 1 .. m
  <2>1. \A l \in 1 .. k - 1 : l \in 1 .. m
    BY <1>1
  <2> QED
    BY <2>1, <1>5
<1>9. m + 1 \in 1 .. m + 1 /\ \A k \in 1 .. m : k \in 1 .. m + 1
  BY <1>1
<1>10. HtRecord(J) = HtRecord(A) \cup {n + k : k \in HtRecord(N)}
  <2>1. HtBefore(J, n + (m + 1)) = HtRecord(A) \cup {n + l : l \in HtBefore(N, m + 1)}
    BY <1>6, <1>9
  <2> QED
    BY <1>7, <2>1
<1>11. ASSUME NEW X \in SUBSET (1 .. n), NEW Y \in SUBSET (1 .. m)
       PROVE  Cardinality(X \cup Moved(n, Y)) = Cardinality(X) + Cardinality(Y)
  <2>1. n \in Nat /\ m \in Nat
    BY <1>1
  <2>2. X \in SUBSET (1 .. n) /\ Y \in SUBSET (1 .. m)
    OBVIOUS
  <2> QED
    BY <2>1, <2>2, PlacesSize, ZenonT(60)
<1>12. Cardinality(HtRecord(J)) = Cardinality(HtRecord(A)) + Cardinality(HtRecord(N))
  <2>1. HtRecord(A) \in SUBSET (1 .. n) /\ HtRecord(N) \in SUBSET (1 .. m)
    BY <1>2
  <2>2. Cardinality(HtRecord(A) \cup Moved(n, HtRecord(N)))
          = Cardinality(HtRecord(A)) + Cardinality(HtRecord(N))
    BY <1>11, <2>1
  <2> QED
    BY <1>10, <2>2 DEF Moved
<1>13. ASSUME NEW k \in 1 .. m
       PROVE  Cardinality(HtBefore(J, n + k))
                = Cardinality(HtRecord(A)) + Cardinality(HtBefore(N, k))
  <2>1. HtRecord(A) \in SUBSET (1 .. n) /\ HtBefore(N, k) \in SUBSET (1 .. m)
    BY <1>2, <1>8
  <2>2. Cardinality(HtRecord(A) \cup Moved(n, HtBefore(N, k)))
          = Cardinality(HtRecord(A)) + Cardinality(HtBefore(N, k))
    BY <1>11, <2>1
  <2>3. HtBefore(J, n + k) = HtRecord(A) \cup {n + l : l \in HtBefore(N, k)}
    BY <1>6, <1>9
  <2> QED
    BY <2>2, <2>3 DEF Moved
<1>14. ASSUME NEW i \in 1 .. n PROVE HtBefore(J, i) = HtBefore(A, i)
  <2>1. \A j \in 1 .. i - 1 : j \in 1 .. n
    BY <1>1
  <2>2. \A j : j \in HtBefore(J, i) <=> j \in HtBefore(A, i)
    BY <1>1, <1>5, <2>1
  <2>3. HtBefore(J, i) \subseteq 1 .. i - 1 /\ HtBefore(A, i) \subseteq 1 .. i - 1
    BY <1>5
  <2> QED
    BY <2>2, <2>3
<1> QED
  BY <1>2, <1>10, <1>12, <1>13, <1>14

(* The certificates of the new log are named by its records.               *)
LEMMA AppendedContainer ==
  ASSUME NEW A, NEW N, NEW J, LogTypes(A), LogTypes(N), EpochsOf(A),
         Container(A), Container(N), IsAppended(A, N, J)
  PROVE  Container(J)
<1> DEFINE n == Len(A.proof)
           m == Len(N.proof)
           f == FirstEpoch(A)
           c == Len(A.certificates)
           x == Len(N.certificates)
<1>1. Shifted(A, N, J, n, m, f, c)
  BY AppendedRecords
<1>2. /\ c \in Nat /\ x \in Nat /\ DOMAIN A.certificates = 1 .. c
      /\ DOMAIN N.certificates = 1 .. x /\ DOMAIN J.certificates = 1 .. c + x
      /\ Len(J.certificates) = c + x
      /\ \A i \in 1 .. c : J.certificates[i] = A.certificates[i]
      /\ \A i \in 1 .. x : J.certificates[c + i] = N.certificates[i]
  <2>1. /\ A.certificates \in Seq(LogCertificate) /\ N.certificates \in Seq(LogCertificate)
        /\ J.certificates = A.certificates \o N.certificates
    BY DEF LogTypes, IsAppended
  <2>2. Len(A.certificates) = c /\ Len(N.certificates) = x
    OBVIOUS
  <2>3. A.certificates \in Seq(LogCertificate) => DOMAIN A.certificates = 1 .. c
    OBVIOUS
  <2>4. N.certificates \in Seq(LogCertificate) => DOMAIN N.certificates = 1 .. x
    OBVIOUS
  <2> HIDE DEF c, x
  <2>5. PICK s \in Seq(LogCertificate), t \in Seq(LogCertificate) :
          s = A.certificates /\ t = N.certificates
    BY <2>1
  <2>6. Len(s) = c /\ Len(t) = x
    BY <2>2, <2>5
  <2>7. /\ c \in Nat /\ x \in Nat
        /\ Len(s \o t) = c + x
        /\ DOMAIN (s \o t) = 1 .. c + x
        /\ \A i \in 1 .. c : (s \o t)[i] = s[i]
        /\ \A i \in 1 .. x : (s \o t)[c + i] = t[i]
    BY <2>6, TwoSequences
  <2> QED
    BY <2>1, <2>3, <2>4, <2>5, <2>7
<1> HIDE DEF n, m, f, c, x
<1>3. /\ HtRecord(J) = HtRecord(A) \cup {n + k : k \in HtRecord(N)}
      /\ Cardinality(HtRecord(J)) = Cardinality(HtRecord(A)) + Cardinality(HtRecord(N))
      /\ HtRecord(A) \subseteq 1 .. n /\ HtRecord(N) \subseteq 1 .. m
      /\ \A i \in 1 .. n : HtBefore(J, i) = HtBefore(A, i)
      /\ \A k \in 1 .. m : Cardinality(HtBefore(J, n + k))
                             = Cardinality(HtRecord(A)) + Cardinality(HtBefore(N, k))
  BY <1>1, AppendedHtRecords
<1>4. /\ n \in Nat /\ m \in Nat
      /\ DOMAIN A.proof = 1 .. n /\ DOMAIN N.proof = 1 .. m /\ DOMAIN J.proof = 1 .. n + m
      /\ \A i \in 1 .. n : J.proof[i] = A.proof[i] /\ A.proof[i].certificate \in Int
      /\ \A k \in 1 .. m : /\ J.proof[n + k].snapshot = N.proof[k].snapshot
                           /\ J.proof[n + k].edge = N.proof[k].edge
                           /\ J.proof[n + k].witness = N.proof[k].witness
                           /\ J.proof[n + k].method = N.proof[k].method
                           /\ N.proof[k].certificate \in Int
                           /\ J.proof[n + k].certificate
                                = IF N.proof[k].method = kJv THEN N.proof[k].certificate
                                  ELSE N.proof[k].certificate + c
  BY <1>1 DEF Shifted, LogRecord
<1>5. Cardinality(HtRecord(A)) = c /\ Cardinality(HtRecord(N)) = x
  BY DEF Container, c, x
<1>6. \A k \in HtRecord(N) : N.proof[k].method # kJv
  BY DEF HtRecord
<1>7. ASSUME NEW i \in HtRecord(A)
      PROVE  /\ J.proof[i].witness = -1
             /\ J.proof[i].certificate = A.proof[i].certificate
             /\ J.proof[i].certificate + 1 \in 1 .. c
             /\ J.certificates[J.proof[i].certificate + 1].target = J.proof[i].edge
             /\ J.certificates[J.proof[i].certificate + 1].snapshot = J.proof[i].snapshot
             /\ J.proof[i].certificate = Cardinality(HtBefore(J, i))
  <2>1. i \in 1 .. n /\ J.proof[i] = A.proof[i] /\ HtBefore(J, i) = HtBefore(A, i)
    BY <1>3, <1>4
  <2>2. /\ A.proof[i].witness = -1
        /\ A.proof[i].certificate + 1 \in 1 .. c
        /\ A.certificates[A.proof[i].certificate + 1].target = A.proof[i].edge
        /\ A.certificates[A.proof[i].certificate + 1].snapshot = A.proof[i].snapshot
        /\ A.proof[i].certificate = Cardinality(HtBefore(A, i))
    BY <1>2 DEF Container
  <2> QED
    BY <1>2, <2>1, <2>2
<1>8. ASSUME NEW k \in HtRecord(N)
      PROVE  /\ J.proof[n + k].witness = -1
             /\ J.proof[n + k].certificate = N.proof[k].certificate + c
             /\ N.proof[k].certificate + 1 \in 1 .. x
             /\ J.proof[n + k].certificate + 1 = c + (N.proof[k].certificate + 1)
             /\ J.certificates[J.proof[n + k].certificate + 1].target = J.proof[n + k].edge
             /\ J.certificates[J.proof[n + k].certificate + 1].snapshot = J.proof[n + k].snapshot
             /\ J.proof[n + k].certificate = Cardinality(HtBefore(J, n + k))
  <2>1. k \in 1 .. m /\ Cardinality(HtBefore(J, n + k)) = c + Cardinality(HtBefore(N, k))
    BY <1>3, <1>5
  <2>2. /\ N.proof[k].witness = -1
        /\ N.proof[k].certificate + 1 \in 1 .. x
        /\ N.certificates[N.proof[k].certificate + 1].target = N.proof[k].edge
        /\ N.certificates[N.proof[k].certificate + 1].snapshot = N.proof[k].snapshot
        /\ N.proof[k].certificate = Cardinality(HtBefore(N, k))
    BY <1>2 DEF Container
  <2>3. J.proof[n + k].certificate = N.proof[k].certificate + c /\ N.proof[k].certificate \in Int
    BY <1>4, <1>6, <2>1
  <2>4. J.proof[n + k].certificate + 1 = c + (N.proof[k].certificate + 1)
    BY <1>2, <2>3
  <2>5. J.certificates[J.proof[n + k].certificate + 1]
          = N.certificates[N.proof[k].certificate + 1]
    <3>1. PICK z : z = N.proof[k].certificate + 1
      OBVIOUS
    <3>2. z \in 1 .. x /\ J.proof[n + k].certificate + 1 = c + z
      BY <2>2, <2>4, <3>1, Zenon
    <3>3. J.certificates[c + z] = N.certificates[z]
      BY <1>2, <3>2
    <3> QED
      BY <3>1, <3>2, <3>3, Zenon
  <2>6. J.proof[n + k].certificate = Cardinality(HtBefore(J, n + k))
    <3>1. PICK z \in Int : z = N.proof[k].certificate
      BY <2>3
    <3>2. c \in Nat
      BY <1>2
    <3>3. z + c = c + z
      BY ONLY <3>1, <3>2
    <3> QED
      BY <2>1, <2>2, <2>3, <3>1, <3>3, Zenon
  <2> QED
    BY <1>4, <2>1, <2>2, <2>3, <2>4, <2>5, <2>6
<1>9. ASSUME NEW i \in DOMAIN J.proof \ HtRecord(J)
      PROVE  J.proof[i].certificate = NoCertificate
  <2>1. i \in 1 .. n + m /\ J.proof[i].method = kJv
    BY <1>4 DEF HtRecord
  <2>2. CASE i \in 1 .. n
    <3>1. i \in DOMAIN A.proof \ HtRecord(A)
      BY <1>4, <2>1, <2>2 DEF HtRecord
    <3>2. A.proof[i].certificate = NoCertificate
      BY <3>1 DEF Container
    <3>3. J.proof[i] = A.proof[i]
      BY <1>4, <2>2
    <3> QED
      BY <3>2, <3>3
  <2>3. CASE i \notin 1 .. n
    <3>1. PICK k \in 1 .. m : i = n + k
      <4>1. i - n \in 1 .. m /\ i = n + (i - n)
        BY <1>4, <2>1, <2>3
      <4> QED
        BY <4>1
    <3>2. k \in DOMAIN N.proof \ HtRecord(N)
      BY <1>4, <2>1, <3>1 DEF HtRecord
    <3>3. N.proof[k].certificate = NoCertificate /\ N.proof[k].method = kJv
      BY <3>2 DEF Container, HtRecord
    <3> QED
      BY <1>4, <3>1, <3>3
  <2> QED
    BY <2>2, <2>3
<1>10. ASSUME NEW i \in HtRecord(J)
       PROVE  i \in HtRecord(A) \/ \E k \in HtRecord(N) : i = n + k
  BY <1>3
<1>11. ASSUME NEW i \in HtRecord(J)
       PROVE  /\ J.proof[i].witness = -1
              /\ J.proof[i].certificate + 1 \in 1 .. c + x
              /\ J.certificates[J.proof[i].certificate + 1].target = J.proof[i].edge
              /\ J.certificates[J.proof[i].certificate + 1].snapshot = J.proof[i].snapshot
              /\ J.proof[i].certificate = Cardinality(HtBefore(J, i))
  <2>1. CASE i \in HtRecord(A)
    <3>1. J.proof[i].certificate + 1 \in 1 .. c + x
      BY <1>2, <1>7, <2>1
    <3> QED
      BY <1>7, <2>1, <3>1
  <2>2. CASE \E k \in HtRecord(N) : i = n + k
    <3>1. PICK k \in HtRecord(N) : i = n + k
      BY <2>2
    <3>2. J.proof[n + k].certificate + 1 \in 1 .. c + x
      BY <1>2, <1>8
    <3> QED
      BY <1>8, <3>1, <3>2
  <2> QED
    BY <1>10, <2>1, <2>2
<1>12. ASSUME NEW i \in HtRecord(J), NEW j \in HtRecord(J), i # j
       PROVE  J.proof[i].certificate # J.proof[j].certificate
  <2>1. CASE i \in HtRecord(A) /\ j \in HtRecord(A)
    <3>1. A.proof[i].certificate # A.proof[j].certificate
      BY <1>12, <2>1 DEF Container
    <3>2. /\ J.proof[i].certificate = A.proof[i].certificate
          /\ J.proof[j].certificate = A.proof[j].certificate
      BY <1>7, <2>1
    <3> QED
      BY <3>1, <3>2
  <2>2. ASSUME NEW k \in HtRecord(N), NEW p \in HtRecord(A)
        PROVE  J.proof[n + k].certificate # J.proof[p].certificate
    <3>1. J.proof[n + k].certificate = N.proof[k].certificate + c
          /\ N.proof[k].certificate + 1 \in 1 .. x
      BY <1>8
    <3>2. J.proof[p].certificate + 1 \in 1 .. c /\ J.proof[p].certificate \in Int
      BY <1>3, <1>4, <1>7
    <3>3. PICK u \in Int : u = N.proof[k].certificate
      BY <1>3, <1>4
    <3>4. PICK v \in Int : v = J.proof[p].certificate
      BY <3>2
    <3>5. u + 1 >= 1 /\ v + 1 <= c /\ c \in Nat
      BY <1>2, <3>1, <3>2, <3>3, <3>4
    <3>6. u + c # v
      BY <3>5
    <3> QED
      BY <3>1, <3>3, <3>4, <3>6
  <2>3. ASSUME NEW k \in HtRecord(N), NEW l \in HtRecord(N), n + k # n + l
        PROVE  J.proof[n + k].certificate # J.proof[n + l].certificate
    <3>1. N.proof[k].certificate # N.proof[l].certificate
      BY <2>3 DEF Container
    <3>2. /\ J.proof[n + k].certificate = N.proof[k].certificate + c
          /\ J.proof[n + l].certificate = N.proof[l].certificate + c
          /\ N.proof[k].certificate \in Int /\ N.proof[l].certificate \in Int
      BY <1>3, <1>4, <1>8
    <3> QED
      BY <1>2, <3>1, <3>2
  <2> QED
    BY <1>10, <1>12, <2>1, <2>2, <2>3
<1>13. {J.proof[i].certificate + 1 : i \in HtRecord(J)} = 1 .. c + x
  <2>1. ASSUME NEW y \in 1 .. c + x
        PROVE  \E i \in HtRecord(J) : y = J.proof[i].certificate + 1
    <3>1. CASE y \in 1 .. c
      <4>0. {A.proof[i].certificate + 1 : i \in HtRecord(A)} = 1 .. c
        BY <1>2 DEF Container
      <4>1. PICK i \in HtRecord(A) : y = A.proof[i].certificate + 1
        BY <3>1, <4>0
      <4>2. y = J.proof[i].certificate + 1 /\ i \in HtRecord(J)
        BY <1>3, <1>7, <4>1
      <4> QED
        BY <4>2
    <3>2. CASE y \notin 1 .. c
      <4>1. y - c \in 1 .. x /\ y = c + (y - c)
        BY <1>2, <3>2
      <4>0. {N.proof[k].certificate + 1 : k \in HtRecord(N)} = 1 .. x
        BY <1>2 DEF Container
      <4>2. PICK k \in HtRecord(N) : y - c = N.proof[k].certificate + 1
        BY <4>0, <4>1
      <4>3. y = J.proof[n + k].certificate + 1 /\ n + k \in HtRecord(J)
        BY <1>3, <1>8, <4>1, <4>2
      <4> QED
        BY <4>3
    <3> QED
      BY <3>1, <3>2
  <2> QED
    BY <1>11, <2>1
<1>14. Cardinality(HtRecord(J)) = Len(J.certificates)
  BY <1>2, <1>3, <1>5
<1> QED
  BY <1>2, <1>9, <1>11, <1>12, <1>13, <1>14 DEF Container

(* The main lemma: a log that replays from the graph another one leads to  *)
(* can be appended to it, and both together replay.                        *)
LEMMA AppendedGood ==
  ASSUME NEW d, NEW o, NEW A, NEW N, NEW J, Good(d, o, A), Good(d, o, N),
         A.final = N.initial, IsAppended(A, N, J)
  PROVE  Good(d, o, J)
<1>1. /\ LogTypes(A) /\ Container(A) /\ EpochsOf(A)
      /\ LogTypes(N) /\ Container(N) /\ EpochsOf(N)
      /\ \A i \in DOMAIN A.proof : ReplaysAt(d, o, A, i)
      /\ \A i \in DOMAIN N.proof : ReplaysAt(d, o, N, i)
      /\ A.final = A.initial \ EdgesAt(A, DOMAIN A.proof)
      /\ N.final = N.initial \ EdgesAt(N, DOMAIN N.proof)
  BY DEF Good
<1>2. Shifted(A, N, J, Len(A.proof), Len(N.proof), FirstEpoch(A), Len(A.certificates))
  BY <1>1, AppendedRecords
<1>3. LogTypes(J)
  <2>1. J.certificates \in Seq(LogCertificate)
    BY <1>1, TwoSequences DEF LogTypes, IsAppended
  <2>2. J.proof \in Seq(LogRecord) /\ J.initial = A.initial
    BY <1>2 DEF Shifted, IsAppended
  <2> QED
    BY <1>1, <2>1, <2>2 DEF LogTypes
<1>4. Container(J) /\ EpochsOf(J)
  BY <1>1, AppendedContainer, AppendedEpochs
<1>5. /\ \A i \in DOMAIN J.proof : ReplaysAt(d, o, J, i)
      /\ J.final = J.initial \ EdgesAt(J, DOMAIN J.proof)
  BY <1>1, <1>2, AppendedReplays
<1> QED
  BY <1>3, <1>4, <1>5 DEF Good

-----------------------------------------------------------------------------
(* The log of one epoch.                                                   *)

\* Log N records the accepted candidates, all on snapshot g.
RecordsCommit(d, o, g, N) ==
  /\ N.initial = g /\ N.final = g \ Committed
  /\ DOMAIN N.proof = 1 .. Len(committed)
  /\ \A i \in 1 .. Len(committed) :
       /\ N.proof[i].epoch = 0
       /\ N.proof[i].snapshot = g
       /\ N.proof[i].edge = committed[i].edge
       /\ HeldOn(d, o, g, N.proof[i])

(* What a commit accepts replays: it is the greedy subset of what was      *)
(* proven on the snapshot, and it is accepted in edge order.               *)
LEMMA EpochGood ==
  ASSUME CommitInv, NEW d, NEW o, NEW g, NEW wanted, GreedySubset(Committed, wanted, g),
         NEW N, LogTypes(N), Container(N), RecordsCommit(d, o, g, N)
  PROVE  Good(d, o, N)
<1> DEFINE n == Len(committed)
<1>1. /\ n \in Nat /\ DOMAIN committed = 1 .. n
      /\ \A i \in 1 .. n : committed[i].edge \in Int
      /\ \A i, j \in 1 .. n : i < j => committed[i].edge < committed[j].edge
  <2>1. committed \in Seq(Candidate) /\ OneRecordPerDeletion
    BY DEF CommitInv, CommitTypeOK
  <2>2. n \in Nat /\ DOMAIN committed = 1 .. n
    BY <2>1
  <2>3. \A i \in 1 .. n : committed[i] \in Candidate
    BY <2>1, <2>2
  <2> HIDE DEF n
  <2> QED
    BY <2>1, <2>2, <2>3 DEF Candidate, OneRecordPerDeletion
<1> HIDE DEF n
<1>2. /\ N.initial = g /\ N.final = g \ Committed
      /\ DOMAIN N.proof = 1 .. n
      /\ \A i \in 1 .. n : /\ N.proof[i].epoch = 0
                           /\ N.proof[i].snapshot = g
                           /\ N.proof[i].edge = committed[i].edge
                           /\ HeldOn(d, o, g, N.proof[i])
  BY DEF RecordsCommit, n
<1>3. EpochsOf(N)
  <2> SUFFICES ASSUME NEW i \in 1 .. n
               PROVE  /\ IF i = 1 THEN N.proof[i].epoch = 0
                         ELSE N.proof[i].epoch \in {N.proof[i - 1].epoch, N.proof[i - 1].epoch + 1}
                      /\ N.proof[i].epoch <= Last(N.proof).epoch
    BY <1>2 DEF EpochsOf
  <2>1. i # 1 => i - 1 \in 1 .. n
    BY <1>1
  <2>2. Last(N.proof).epoch = 0
    <3>1. N.proof \in Seq(LogRecord)
      BY DEF LogTypes
    <3>2. Len(N.proof) = n
      BY <1>1, <1>2, <3>1
    <3>3. n \in 1 .. n
      BY <1>1
    <3> QED
      BY <1>2, <3>2, <3>3 DEF Last
  <2> QED
    BY <1>2, <2>1, <2>2
<1>4. ASSUME NEW i \in 1 .. n PROVE ReplaysAt(d, o, N, i)
  <2>1. \A j \in 1 .. i - 1 : j \in 1 .. n /\ j < i
    BY <1>1
  <2>2. Beside(N, i) = 1 .. i - 1 /\ Earlier(N, i) = {}
    BY <1>2, <2>1 DEF Beside, Earlier
  <2>3. EdgesAt(N, Earlier(N, i)) = {}
    BY <2>2 DEF EdgesAt
  <2>4. EdgesAt(N, Beside(N, i)) = EdgesBelow(Committed, committed[i].edge)
    <3>1. ASSUME NEW e \in EdgesAt(N, Beside(N, i))
          PROVE  e \in Committed /\ e < committed[i].edge
      <4>1. PICK j \in 1 .. i - 1 : e = N.proof[j].edge
        BY <2>2 DEF EdgesAt
      <4>2. e = committed[j].edge /\ j \in 1 .. n /\ j < i
        BY <1>2, <2>1, <4>1
      <4> QED
        BY <1>1, <4>2 DEF Committed
    <3>2. ASSUME NEW e \in Committed, e < committed[i].edge
          PROVE  e \in EdgesAt(N, Beside(N, i))
      <4>1. PICK j \in 1 .. n : e = committed[j].edge
        BY <1>1 DEF Committed
      <4>2. ~ (i < j) /\ i # j
        BY <1>1, <3>2, <4>1
      <4>3. j \in 1 .. i - 1
        BY <1>1, <4>2
      <4> QED
        BY <1>2, <2>2, <4>1, <4>3 DEF EdgesAt
    <3> QED
      BY <3>1, <3>2 DEF EdgesBelow
  <2>5. committed[i].edge \in Committed
    BY <1>1 DEF Committed
  <2>6. Deletable(g \ EdgesBelow(Committed, committed[i].edge), committed[i].edge)
    BY <2>5 DEF GreedySubset
  <2>7. \A e \in EdgesBelow(Committed, committed[i].edge) : e < committed[i].edge
    BY DEF EdgesBelow
  <2>8. N.initial \ EdgesAt(N, Earlier(N, i)) = g
    BY <1>2, <2>3
  <2> QED
    BY <1>2, <2>4, <2>6, <2>7, <2>8 DEF ReplaysAt
<1>5. EdgesAt(N, DOMAIN N.proof) = Committed
  BY <1>1, <1>2 DEF EdgesAt, Committed
<1> QED
  BY <1>2, <1>3, <1>4, <1>5 DEF Good

\* The log of the round that just ended, as if it were the first.
RoundLog == [initial |-> snapshotHash, final |-> snapshotHash \ Committed,
             proof |-> Records(0, snapshotHash, committed), certificates |-> <<>>]

(* The records of a Jonker-Volgenant round.                                *)
LEMMA RoundRecords ==
  ASSUME CommitInv, Committed \subseteq snapshotHash,
         \A i \in DOMAIN committed :
           VerifyJvCandidate(dist, snapshotHash, snapshotHash, committed[i])
  PROVE  /\ LogTypes(RoundLog) /\ Container(RoundLog)
         /\ HtRecord(RoundLog) = {}
         /\ \A o : RecordsCommit(dist, o, snapshotHash, RoundLog)
<1> DEFINE n == Len(committed)
           B == Records(0, snapshotHash, committed)
<1>1. committed \in Seq(Candidate) /\ n \in Nat /\ DOMAIN committed = 1 .. n
  BY DEF CommitInv, CommitTypeOK
<1>2. /\ \A i \in 1 .. n : committed[i] \in Candidate
      /\ snapshotHash \subseteq Edge
  BY <1>1 DEF CommitInv, CommitTypeOK
<1> HIDE DEF n
<1>3. \A i \in 1 .. n : B[i] = Record(0, snapshotHash, committed[i])
  BY <1>1 DEF Records
<1>4. DOMAIN B = 1 .. n /\ B = [i \in 1 .. n |-> B[i]]
  BY <1>1 DEF Records
<1> HIDE DEF B
<1>5. ASSUME NEW i \in 1 .. n
      PROVE  /\ B[i] \in LogRecord
             /\ B[i].epoch = 0 /\ B[i].snapshot = snapshotHash /\ B[i].edge = committed[i].edge
             /\ B[i].witness = committed[i].witness
             /\ B[i].method = kJv /\ B[i].certificate = NoCertificate
  <2>1. PICK c \in Candidate : c = committed[i]
    BY <1>2
  <2>2. B[i] = Record(0, snapshotHash, c)
    BY <1>3, <2>1
  <2>3. c.edge \in snapshotHash /\ c.method = kJv
    BY <1>1, <2>1 DEF VerifyJvCandidate
  <2>4. c.witness \in Int
    BY SnapshotAssumption DEF Candidate, Node, NoWitness
  <2>5. c.edge \in Edge /\ kJv \in Methods /\ NoCertificate \in Int /\ 0 \in Nat
        /\ snapshotHash \in SUBSET Edge
    BY <1>2, <2>3 DEF kJv, Methods, NoCertificate
  <2>6. B[i] = [epoch |-> 0, snapshot |-> snapshotHash, edge |-> c.edge,
                witness |-> c.witness, method |-> kJv, certificate |-> NoCertificate]
    BY <2>2, <2>3 DEF Record
  <2> QED
    BY <2>1, <2>4, <2>5, <2>6 DEF LogRecord
<1>6. RoundLog.initial = snapshotHash /\ RoundLog.final = snapshotHash \ Committed
      /\ RoundLog.proof = B /\ RoundLog.certificates = <<>>
  BY DEF RoundLog, B
<1>7. LogTypes(RoundLog)
  <2>1. B \in Seq(LogRecord)
    BY <1>1, <1>4, <1>5
  <2>2. <<>> \in Seq(LogCertificate)
    OBVIOUS
  <2> QED
    BY <1>2, <1>6, <2>1, <2>2 DEF LogTypes
<1>8. HtRecord(RoundLog) = {}
  BY <1>4, <1>5, <1>6 DEF HtRecord
<1>9. Container(RoundLog)
  <2>1. Cardinality({}) = 0 /\ Len(<<>>) = 0 /\ DOMAIN <<>> = {}
    BY FS_EmptySet
  <2>2. \A i \in DOMAIN RoundLog.proof : RoundLog.proof[i].certificate = NoCertificate
    BY <1>4, <1>5, <1>6
  <2> QED
    BY <1>6, <1>8, <2>1, <2>2 DEF Container
<1>10. ASSUME NEW o PROVE RecordsCommit(dist, o, snapshotHash, RoundLog)
  <2>1. ASSUME NEW i \in 1 .. n PROVE HeldOn(dist, o, snapshotHash, B[i])
    <3>1. VerifyJvCandidate(dist, snapshotHash, snapshotHash, committed[i])
      BY <1>1
    <3>2. VerifyJvCandidate(dist, snapshotHash, snapshotHash,
                            JvCandidate(B[i].edge, B[i].witness))
      BY <1>5, <3>1 DEF VerifyJvCandidate, JvCandidate
    <3>3. B[i].edge \in snapshotHash
      BY <1>5, <3>1 DEF VerifyJvCandidate
    <3> QED
      BY <1>5, <3>2, <3>3 DEF HeldOn
  <2> QED
    BY <1>4, <1>5, <1>6, <2>1 DEF RecordsCommit, n
<1> QED
  BY <1>7, <1>8, <1>9, <1>10

(* What JvRecord appends to the stage is the log of the round, shifted.    *)
LEMMA RoundAppended ==
  ASSUME CommitInv, LogTypes(JvLog), FirstEpoch(JvLog) = epoch,
         NEW J, J.initial = stage.initial, J.final = snapshotHash \ Committed,
         J.proof = stage.proof \o Records(epoch, snapshotHash, committed),
         J.certificates = <<>>
  PROVE  IsAppended(JvLog, RoundLog, J)
<1>1. /\ JvLog.initial = stage.initial /\ JvLog.proof = stage.proof
      /\ JvLog.certificates = <<>>
      /\ RoundLog.proof = Records(0, snapshotHash, committed)
      /\ RoundLog.certificates = <<>> /\ RoundLog.final = snapshotHash \ Committed
  BY DEF JvLog, RoundLog
<1>2. FirstEpoch(JvLog) \in Nat
  <2>1. JvLog.proof \in Seq(LogRecord)
    BY DEF LogTypes
  <2>2. CASE JvLog.proof = <<>>
    BY <2>2 DEF FirstEpoch
  <2>3. CASE JvLog.proof # <<>>
    <3>1. Len(JvLog.proof) \in DOMAIN JvLog.proof
      BY <2>1, <2>3, NonEmptySeq
    <3>2. Last(JvLog.proof) \in LogRecord
      BY <2>1, <3>1 DEF Last
    <3> QED
      BY <2>3, <3>2 DEF FirstEpoch, LogRecord
  <2> QED
    BY <2>2, <2>3
<1>3. Len(JvLog.certificates) = 0 /\ NoCertificate + 0 = NoCertificate /\ 0 + epoch = epoch
  BY <1>1, <1>2 DEF NoCertificate
<1>4. ASSUME NEW c
      PROVE  Rebase(JvLog, Record(0, snapshotHash, c)) = Record(epoch, snapshotHash, c)
  <2>1. PICK r : r = Record(0, snapshotHash, c)
    OBVIOUS
  <2>2. r = [epoch |-> 0, snapshot |-> snapshotHash, edge |-> c.edge, witness |-> c.witness,
             method |-> c.method, certificate |-> NoCertificate]
    BY <2>1 DEF Record
  <2>3. Rebase(JvLog, r) = [r EXCEPT !.epoch = 0 + epoch, !.certificate = NoCertificate]
    BY <1>3, <2>2 DEF Rebase, FirstEpoch
  <2>4. Rebase(JvLog, r)
          = [epoch |-> epoch, snapshot |-> snapshotHash, edge |-> c.edge,
             witness |-> c.witness, method |-> c.method, certificate |-> NoCertificate]
    BY <1>3, <2>2, <2>3
  <2> QED
    BY <2>1, <2>4 DEF Record
<1>5. \A c : Rebase(JvLog, Record(0, snapshotHash, c)) = Record(epoch, snapshotHash, c)
  BY <1>4
<1>6. [i \in DOMAIN RoundLog.proof |-> Rebase(JvLog, RoundLog.proof[i])]
        = Records(epoch, snapshotHash, committed)
  BY <1>1, <1>5 DEF Records
<1>7. <<>> \o <<>> = <<>>
  OBVIOUS
<1> QED
  BY <1>1, <1>6, <1>7 DEF IsAppended

-----------------------------------------------------------------------------
(* The commit under a caller that hands in the candidates P.               *)

Batch(P) ==
  /\ queue \subseteq P
  /\ \A i \in DOMAIN committed : committed[i] \in P
  /\ phase = "sweep" => active = snapshotHash /\ GreedyOver(EdgesOf(P))
  /\ phase = "idle" =>
       \/ result = "threw" /\ active = snapshotHash
       \/ /\ result = "committed"
          /\ GreedySubset(Committed, EdgesOf(P), snapshotHash)
          /\ Committed \subseteq snapshotHash
          /\ active = snapshotHash \ Committed

(* The call enters the loop.                                               *)
LEMMA BatchBegins ==
  ASSUME NEW P, P \in SUBSET Candidate, BeginCommit(P, ContentHash(active)),
         snapshotHash' = ContentHash(active)
  PROVE  Batch(P)'
<1>1. GreedyOver(EdgesOf(P))'
  BY BeginGreedy
<1>2. /\ queue' \subseteq P /\ committed' = <<>> /\ phase' = "sweep" /\ active' = active
      /\ snapshotHash' = active'
  BY DEF BeginCommit, Canonical, graphVars, ContentHash
<1>3. DOMAIN committed' = {}
  BY <1>2
<1> QED
  BY <1>1, <1>2, <1>3 DEF Batch, EdgesOf

(* The loop and its exits keep the invariants of the commit.               *)
LEMMA SweepKeeps ==
  ASSUME CommitInv, NEW P, Batch(P), Sweep, UNCHANGED snapshotHash
  PROVE  CommitInv' /\ Batch(P)'
<1>1. phase = "sweep" /\ active = snapshotHash /\ GreedyOver(EdgesOf(P))
      /\ queue \subseteq P /\ \A i \in DOMAIN committed : committed[i] \in P
  BY DEF Sweep, PublishCommit, AbortCommit, SkipCandidate, TakeCandidate, Batch
<1>2. CASE PublishCommit
  <2>1. /\ GreedySubset(Committed, EdgesOf(P), active)
        /\ Committed \subseteq active
        /\ active' = active \ Committed
        /\ Committed' = Committed
    BY <1>1, <1>2, PublishGreedy
  <2>2. phase' = "idle" /\ result' = "committed" /\ queue' = queue /\ committed' = committed
    BY <1>2 DEF PublishCommit
  <2>3. Batch(P)'
    <3>1. \A i \in DOMAIN committed' : committed'[i] \in P
      BY <1>1, <2>2
    <3>2. GreedySubset(Committed', EdgesOf(P), snapshotHash')
      BY <1>1, <2>1
    <3> QED
      BY <1>1, <2>1, <2>2, <3>1, <3>2 DEF Batch, EdgesOf
  <2> QED
    BY <1>2, <2>3, LeaveInv
<1>3. CASE AbortCommit
  <2>1. /\ phase' = "idle" /\ result' = "threw" /\ queue' = {} /\ committed' = <<>>
        /\ active' = active
    BY <1>3 DEF AbortCommit, graphVars
  <2>2. DOMAIN committed' = {}
    BY <2>1
  <2> QED
    BY <1>1, <1>3, <2>1, <2>2, LeaveInv DEF Batch
<1>4. ASSUME NEW c \in queue, SkipCandidate(c) \/ TakeCandidate(c)
      PROVE  CommitInv' /\ Batch(P)'
  <2>1. CommitInv'
    BY <1>4, SkipInv, TakeInv
  <2>2. GreedyOver(EdgesOf(P))'
    BY <1>1, <1>4, IterationGreedy
  <2>3. phase' = "sweep" /\ active' = active /\ queue' \subseteq queue
    BY <1>1, <1>4 DEF SkipCandidate, TakeCandidate
  <2>4. \A i \in DOMAIN committed' : committed'[i] \in P
    <3>1. CASE SkipCandidate(c)
      BY <1>1, <3>1 DEF SkipCandidate
    <3>2. CASE TakeCandidate(c)
      <4>1. committed' = Append(committed, c) /\ c \in P /\ committed \in Seq(Candidate)
        BY <1>1, <3>2 DEF TakeCandidate, CommitInv, CommitTypeOK
      <4>2. DOMAIN committed' = DOMAIN committed \cup {Len(committed) + 1}
            /\ committed'[Len(committed) + 1] = c
            /\ \A i \in DOMAIN committed : committed'[i] = committed[i]
        <5>1. c \in Candidate
          BY DEF CommitInv, CommitTypeOK
        <5> QED
          BY <4>1, <5>1
      <4> QED
        BY <1>1, <4>1, <4>2
    <3> QED
      BY <1>4, <3>1, <3>2
  <2> QED
    BY <1>1, <2>1, <2>2, <2>3, <2>4 DEF Batch, EdgesOf
<1> QED
  BY <1>2, <1>3, <1>4 DEF Sweep

-----------------------------------------------------------------------------
(* The Jonker-Volgenant rounds.                                            *)

\* No device takes part, or none that hides a candidate.
HonestProposers == DeviceSlots = {} \/ JvBackends \subseteq {"cpu"}

NoObstacles == <<>>

\* What the round hands to the commit.
JvBatch == {c \in proposed : VerifyJvCandidate(dist, snapshotHash, snapshotHash, c)}

\* The stage as far as it has been logged.
JvLogged ==
  /\ dist \in Metrics
  /\ \E i, f, p, m : stage = [initial |-> i, final |-> f, proof |-> p, metrics |-> m]
  /\ Good(dist, NoObstacles, JvLog)
  /\ HtRecord(JvLog) = {}
  /\ epoch \in Nat
  /\ stage.metrics \in Seq(Nat)
  /\ Len(stage.metrics) = epoch
  /\ \A i \in DOMAIN stage.metrics :
       stage.metrics[i] # 0 => stage.proof # <<>> /\ i - 1 <= Last(stage.proof).epoch
  /\ jvPc \in {"propose", "verify", "commit"} => FirstEpoch(JvLog) = epoch
  /\ jvPc = "done" => epoch # 0
  /\ \A c \in proposed : \E e, w : c = JvCandidate(e, w)
  /\ JvBackends \subseteq {"cpu"} => useCuda = FALSE

\* The stage and the graph it works on.
JvRunning ==
  /\ jvPc \in {"start", "propose", "verify", "commit", "done", "threw"}
  /\ jvPc # "commit" => phase = "idle"
  /\ jvPc \in {"propose", "verify", "done"} => stage.final = active
  /\ jvPc = "commit" => stage.final = snapshotHash /\ Batch(JvBatch)
  /\ HonestProposers =>
       /\ jvPc = "verify" => proposed = FindJvCandidates(dist, active, active)
       /\ jvPc = "commit" => proposed = FindJvCandidates(dist, snapshotHash, snapshotHash)
       /\ jvPc = "done" /\ Last(stage.metrics) = 0 =>
            FindJvCandidates(dist, active, active) = {}

JvInv == CommitInv /\ JvLogged /\ JvRunning

(* A log without records replays.                                          *)
LEMMA EmptyGood ==
  ASSUME NEW d, NEW o, NEW L, L.initial \in SUBSET Edge, L.final = L.initial,
         L.proof = <<>>, L.certificates = <<>>
  PROVE  Good(d, o, L) /\ HtRecord(L) = {} /\ FirstEpoch(L) = 0
<1>1. DOMAIN L.proof = {}
  OBVIOUS
<1>2. LogTypes(L)
  <2>1. <<>> \in Seq(LogRecord) /\ <<>> \in Seq(LogCertificate)
    OBVIOUS
  <2> QED
    BY <2>1 DEF LogTypes
<1>3. HtRecord(L) = {}
  BY <1>1 DEF HtRecord
<1>4. Container(L)
  <2>1. Cardinality({}) = 0 /\ Len(<<>>) = 0 /\ DOMAIN <<>> = {}
    BY FS_EmptySet
  <2> QED
    BY <1>1, <1>3, <2>1 DEF Container
<1>5. EpochsOf(L)
  BY <1>1 DEF EpochsOf
<1>6. EdgesAt(L, {}) = {}
  BY DEF EdgesAt
<1> QED
  BY <1>1, <1>2, <1>3, <1>4, <1>5, <1>6 DEF Good, FirstEpoch

(* Without Hamilton-Tutte records the obstacles do not matter.             *)
LEMMA ObstaclesDoNotMatter ==
  ASSUME NEW d, NEW o, NEW p, NEW L, Good(d, o, L), HtRecord(L) = {}
  PROVE  Good(d, p, L)
<1>1. ASSUME NEW i \in DOMAIN L.proof PROVE ReplaysAt(d, p, L, i)
  <2>1. L.proof[i].method = kJv
    BY DEF HtRecord
  <2>2. ReplaysAt(d, o, L, i)
    BY DEF Good
  <2>3. \A g : HeldOn(d, o, g, L.proof[i]) => HeldOn(d, p, g, L.proof[i])
    BY <2>1 DEF HeldOn
  <2> QED
    BY <2>2, <2>3 DEF ReplaysAt
<1> QED
  BY <1>1 DEF Good

(* What the search finds passes the verification.                          *)
LEMMA FoundVerifies ==
  ASSUME NEW d, NEW g, NEW c \in FindJvCandidates(d, g, g)
  PROVE  VerifyJvCandidate(d, g, g, c) /\ \E e, w : c = JvCandidate(e, w)
<1>1. PICK q \in g \X Node : /\ Deletable(g, q[1]) /\ FoundWitness(d, g, q[1], q[2])
                             /\ c = JvCandidate(q[1], q[2])
  BY DEF FindJvCandidates
<1>2. IsJvWitness(d, g, q[1], q[2])
  BY <1>1 DEF FoundWitness
<1> QED
  BY <1>1, <1>2 DEF VerifyJvCandidate, JvCandidate

(* A proposal that passes is a candidate as the commit wants it.           *)
LEMMA VerifiedCandidates ==
  ASSUME NEW g \in SUBSET Edge, \A c \in proposed : \E e, w : c = JvCandidate(e, w)
  PROVE  {c \in proposed : VerifyJvCandidate(dist, g, g, c)} \in SUBSET Candidate
<1> SUFFICES ASSUME NEW c \in proposed, VerifyJvCandidate(dist, g, g, c)
             PROVE  c \in Candidate
  OBVIOUS
<1>1. PICK e, w : c = [edge |-> e, witness |-> w, method |-> kJv]
  BY DEF JvCandidate
<1>2. e \in Edge /\ w \in Node
  BY <1>1 DEF VerifyJvCandidate, IsJvWitness
<1>3. e \in Int /\ kJv \in Int
  BY <1>2, SnapshotAssumption DEF Edge, kJv
<1> QED
  BY <1>1, <1>2, <1>3 DEF Candidate

(* The run begins with an empty log.                                       *)
LEMMA JvInitInv ==
  ASSUME JvInit
  PROVE  JvInv
<1>1. CommitInv
  BY InitInv DEF JvInit
<1>2. active \in SUBSET Edge /\ phase = "idle"
  BY <1>1 DEF CommitInv, CommitTypeOK, JvInit, CommitInit
<1>3. stage = [initial |-> active, final |-> active, proof |-> <<>>, metrics |-> <<>>]
  BY DEF JvInit, EmptyResult, ContentHash
<1>4. JvLog.initial = active /\ JvLog.final = active /\ JvLog.proof = <<>>
      /\ JvLog.certificates = <<>>
  BY <1>3 DEF JvLog
<1>5. Good(dist, NoObstacles, JvLog) /\ HtRecord(JvLog) = {}
  BY <1>2, <1>4, EmptyGood
<1>6. JvLogged
  <2>1. stage.metrics = <<>>
    BY <1>3
  <2>2. stage.metrics \in Seq(Nat) /\ Len(stage.metrics) = 0 /\ DOMAIN stage.metrics = {}
    BY <2>1
  <2>3. /\ dist \in Metrics /\ jvPc = "start" /\ useCuda = FALSE /\ epoch = 0
        /\ proposed = {}
    BY DEF JvInit
  <2> QED
    BY <1>3, <1>5, <2>2, <2>3 DEF JvLogged
<1>7. JvRunning
  BY <1>2 DEF JvInit, JvRunning
<1> QED
  BY <1>1, <1>6, <1>7 DEF JvInv

(* A backend is chosen, and the log starts anew.  Nothing is asked of the  *)
(* log of an earlier run.                                                  *)
LEMMA JvStartInv ==
  ASSUME JvInv, NEW backend \in JvBackends, JvStart(backend)
  PROVE  JvInv'
<1>1. CommitInv'
  BY CommitStutters DEF JvInv, JvStart
<1>2. /\ active' = active /\ phase' = phase /\ dist' = dist /\ proposed' = proposed
      /\ epoch' = 0 /\ jvPc' \in {"threw", "propose"} /\ jvPc = "start"
  BY DEF JvStart, commitVars
<1>3. stage' = [initial |-> active, final |-> active, proof |-> <<>>, metrics |-> <<>>]
  BY DEF JvStart, EmptyResult, ContentHash
<1>4. active \in SUBSET Edge /\ phase = "idle"
  BY <1>2 DEF JvInv, CommitInv, CommitTypeOK, JvRunning
<1>5. JvLog'.initial = active /\ JvLog'.final = active /\ JvLog'.proof = <<>>
      /\ JvLog'.certificates = <<>>
  BY <1>3 DEF JvLog
<1>6. Good(dist, NoObstacles, JvLog') /\ HtRecord(JvLog') = {} /\ FirstEpoch(JvLog') = 0
  BY <1>4, <1>5, EmptyGood
<1>7. JvBackends \subseteq {"cpu"} => useCuda' = FALSE
  BY DEF JvStart
<1>8. JvLogged'
  <2>1. stage'.metrics = <<>>
    BY <1>3
  <2>2. stage'.metrics \in Seq(Nat) /\ Len(stage'.metrics) = 0 /\ DOMAIN stage'.metrics = {}
    BY <2>1
  <2>3. dist \in Metrics /\ \A c \in proposed : \E e, w : c = JvCandidate(e, w)
    BY DEF JvInv, JvLogged
  <2> QED
    BY <1>2, <1>3, <1>6, <1>7, <2>2, <2>3 DEF JvLogged
<1>9. JvRunning'
  BY <1>2, <1>3, <1>4 DEF JvRunning
<1> QED
  BY <1>1, <1>8, <1>9 DEF JvInv

(* A step that leaves the stage and its pc alone keeps what is logged.     *)
LEMMA LoggedStays ==
  ASSUME JvLogged, UNCHANGED <<dist, stage, epoch, useCuda>>,
         jvPc' \in {"propose", "verify", "commit"} => jvPc \in {"propose", "verify", "commit"},
         jvPc' = "done" => jvPc = "done",
         \A c \in proposed' : \E e, w : c = JvCandidate(e, w)
  PROVE  JvLogged'
<1>1. JvLog' = JvLog
  BY DEF JvLog
<1>2. Good(dist', NoObstacles, JvLog') /\ HtRecord(JvLog') = {}
  BY <1>1 DEF JvLogged
<1>3. jvPc' \in {"propose", "verify", "commit"} => FirstEpoch(JvLog') = epoch'
  BY <1>1 DEF JvLogged
<1> QED
  BY <1>2, <1>3 DEF JvLogged

(* Proposals, honest or not.                                               *)
LEMMA JvProposeInv ==
  ASSUME JvInv, JvPropose
  PROVE  JvInv'
<1>1. CommitInv'
  BY HashInv DEF JvInv, JvPropose
<1>2. /\ active' = active /\ csr' = csr /\ phase' = phase /\ stage' = stage /\ dist' = dist
      /\ jvPc = "propose" /\ jvPc' = "verify" /\ csr = active
  BY DEF JvPropose, graphVars, sweepVars, JvInv, CommitInv, CsrFresh
<1> DEFINE found == FindJvCandidates(dist, active, csr)
<1>3. IF useCuda THEN proposed' \in DeviceProposals(found) ELSE proposed' = found
  BY DEF JvPropose
<1>4. \A c \in found : \E e, w : c = JvCandidate(e, w)
  BY <1>2, FoundVerifies
<1> HIDE DEF found
<1>5. \A c \in proposed' : \E e, w : c = JvCandidate(e, w)
  <2>1. CASE proposed' = found
    BY <1>4, <2>1
  <2>2. CASE proposed' \in DeviceProposals(found)
    <3>1. \/ proposed' = found
          \/ \E e \in Edge, w \in DeviceSlots :
               proposed' = {c \in found : c.edge # e}
                             \cup (IF w < 0 THEN {} ELSE {JvCandidate(e, w)})
      BY <2>2 DEF DeviceProposals
    <3> QED
      BY <1>4, <3>1
  <2> QED
    BY <1>3, <2>1, <2>2
<1>6. HonestProposers => proposed' = found
  <2>1. CASE DeviceSlots = {}
    BY <1>3, <2>1 DEF DeviceProposals
  <2>2. CASE JvBackends \subseteq {"cpu"}
    BY <1>3, <2>2 DEF JvInv, JvLogged
  <2> QED
    BY <2>1, <2>2 DEF HonestProposers
<1>7. JvLogged'
  BY <1>2, <1>5, LoggedStays DEF JvInv, JvPropose
<1>8. JvRunning'
  <2>1. stage.final = active /\ phase = "idle"
    BY <1>2 DEF JvInv, JvRunning
  <2>2. HonestProposers => proposed' = FindJvCandidates(dist', active', active')
    BY <1>2, <1>6 DEF found
  <2> QED
    BY <1>2, <2>1, <2>2 DEF JvRunning
<1> QED
  BY <1>1, <1>7, <1>8 DEF JvInv

(* A round that throws has nothing more to say.                            *)
LEMMA JvThrowsInv ==
  ASSUME JvInv, JvAbort \/ JvThrow
  PROVE  JvInv'
<1>1. /\ UNCHANGED commitVars /\ UNCHANGED <<dist, stage, epoch, useCuda, proposed>>
      /\ jvPc' = "threw" /\ phase = "idle"
  BY DEF JvAbort, JvThrow, JvInv, JvRunning
<1>2. CommitInv'
  BY <1>1, CommitStutters DEF JvInv
<1>3. JvLogged'
  <2>1. \A c \in proposed' : \E e, w : c = JvCandidate(e, w)
    BY <1>1 DEF JvInv, JvLogged
  <2> QED
    BY <1>1, <2>1, LoggedStays DEF JvInv
<1>4. JvRunning'
  BY <1>1 DEF JvRunning, commitVars
<1> QED
  BY <1>2, <1>3, <1>4 DEF JvInv

(* The verified proposals go to the commit.                                *)
LEMMA JvCommitInv ==
  ASSUME JvInv, JvCommit
  PROVE  JvInv'
<1>1. /\ jvPc = "verify" /\ snapshotHash' = snapshotHash /\ phase = "idle"
      /\ UNCHANGED <<dist, stage, epoch, useCuda, proposed>>
      /\ csr = active /\ active \in SUBSET Edge /\ stage.final = active
      /\ HonestProposers => proposed = FindJvCandidates(dist, active, active)
      /\ \A c \in proposed : \E e, w : c = JvCandidate(e, w)
  BY DEF JvCommit, JvInv, JvRunning, JvLogged, CommitInv, CsrFresh, CommitTypeOK
<1>2. PICK P : P = VerifyCandidates
  OBVIOUS
<1>3. P = {c \in proposed : VerifyJvCandidate(dist, active, active, c)}
  BY <1>1, <1>2 DEF VerifyCandidates
<1>4. P \in SUBSET Candidate
  BY <1>1, <1>3, VerifiedCandidates
<1>5. \A c \in proposed' : \E e, w : c = JvCandidate(e, w)
  BY <1>1
<1>6. CASE WellFormed(VerifyCandidates, snapshotHash)
  <2>1. BeginCommit(P, snapshotHash) /\ jvPc' = "commit"
    BY <1>2, <1>6 DEF JvCommit
  <2>2. snapshotHash = ContentHash(active) /\ snapshotHash = active
    BY <1>6 DEF WellFormed, ContentHash
  <2>3. CommitInv'
    BY <1>1, <1>4, <2>1, BeginInv DEF JvInv
  <2>4. Batch(P)'
    BY <1>1, <1>4, <2>1, <2>2, BatchBegins
  <2>5. JvBatch' = P
    BY <1>1, <1>3, <2>2 DEF JvBatch
  <2>6. JvLogged'
    BY <1>1, <1>5, <2>1, LoggedStays DEF JvInv
  <2>7. JvRunning'
    <3>1. Batch(JvBatch)'
      BY <2>4, <2>5 DEF Batch
    <3>2. active' = active
      BY <2>1 DEF BeginCommit, graphVars
    <3> QED
      BY <1>1, <2>1, <2>2, <3>1 DEF JvRunning
  <2> QED
    BY <2>3, <2>6, <2>7 DEF JvInv
<1>7. CASE ~ WellFormed(VerifyCandidates, snapshotHash)
  <2>1. RejectCommit(P, snapshotHash) /\ jvPc' = "threw" /\ phase' = "idle"
    BY <1>1, <1>2, <1>7 DEF JvCommit, RejectCommit
  <2>2. CommitInv'
    BY <1>1, <2>1, RejectInv DEF JvInv
  <2>3. JvLogged'
    BY <1>1, <1>5, <2>1, LoggedStays DEF JvInv
  <2>4. JvRunning'
    BY <2>1 DEF JvRunning
  <2> QED
    BY <2>2, <2>3, <2>4 DEF JvInv
<1> QED
  BY <1>6, <1>7

(* The loop of the commit.                                                 *)
LEMMA JvSweepInv ==
  ASSUME JvInv, JvSweep
  PROVE  JvInv'
<1>1. /\ jvPc = "commit" /\ Sweep /\ snapshotHash' = snapshotHash
      /\ UNCHANGED <<dist, jvPc, useCuda, epoch, proposed, stage>>
  BY DEF JvSweep, jvVars
<1>2. PICK P : P = JvBatch
  OBVIOUS
<1>3. JvBatch' = P
  BY <1>1, <1>2 DEF JvBatch
<1>4. CommitInv' /\ Batch(P)'
  <2>1. Batch(P)
    BY <1>1, <1>2 DEF JvInv, JvRunning
  <2> QED
    BY <1>1, <2>1, SweepKeeps DEF JvInv
<1>5. JvLogged'
  <2>1. \A c \in proposed' : \E e, w : c = JvCandidate(e, w)
    BY <1>1 DEF JvInv, JvLogged
  <2> QED
    BY <1>1, <2>1, LoggedStays DEF JvInv
<1>6. JvRunning'
  <2>1. Batch(JvBatch)'
    BY <1>3, <1>4 DEF Batch
  <2> QED
    BY <1>1, <2>1 DEF JvInv, JvRunning
<1> QED
  BY <1>4, <1>5, <1>6 DEF JvInv

(* The last record of the new log.                                         *)
LEMMA AppendedLast ==
  ASSUME NEW A, NEW N, NEW J, LogTypes(A), NEW n, NEW m, NEW f, NEW c,
         Shifted(A, N, J, n, m, f, c)
  PROVE  /\ m # 0 => J.proof # <<>> /\ Last(J.proof).epoch = N.proof[m].epoch + f
         /\ m = 0 /\ A.proof # <<>> =>
              J.proof # <<>> /\ Last(J.proof).epoch = Last(A.proof).epoch
<1>1. /\ n \in Nat /\ m \in Nat
      /\ DOMAIN A.proof = 1 .. n /\ DOMAIN N.proof = 1 .. m
      /\ J.proof \in Seq(LogRecord) /\ Len(J.proof) = n + m
      /\ \A i \in 1 .. n : J.proof[i] = A.proof[i]
      /\ \A k \in 1 .. m : J.proof[n + k].epoch = N.proof[k].epoch + f
  BY DEF Shifted
<1>2. Last(J.proof) = J.proof[n + m]
  BY <1>1 DEF Last
<1>3. n + m # 0 => J.proof # <<>>
  BY <1>1
<1>4. ASSUME m # 0
      PROVE  J.proof # <<>> /\ Last(J.proof).epoch = N.proof[m].epoch + f
  <2>1. m \in 1 .. m /\ n + m # 0
    BY <1>1, <1>4
  <2> QED
    BY <1>1, <1>2, <1>3, <2>1
<1>5. ASSUME m = 0, A.proof # <<>>
      PROVE  J.proof # <<>> /\ Last(J.proof).epoch = Last(A.proof).epoch
  <2>1. A.proof \in Seq(LogRecord)
    BY DEF LogTypes
  <2>2. Len(A.proof) \in Nat \ {0} /\ Len(A.proof) = n
    BY <1>1, <1>5, <2>1, NonEmptySeq
  <2>3. n \in 1 .. n /\ n + m = n /\ n + m # 0 /\ Last(A.proof) = A.proof[n]
    BY <1>1, <1>5, <2>2 DEF Last
  <2> QED
    BY <1>1, <1>2, <1>3, <2>3
<1> QED
  BY <1>4, <1>5

(* A round that deletes nothing had no candidate.                          *)
LEMMA NothingCommitted ==
  ASSUME NEW g \in SUBSET Edge, NEW P, GreedySubset(Committed, EdgesOf(P), g),
         EdgesOf(P) \subseteq Eligible(g, g), committed = <<>>
  PROVE  P = {}
<1>1. Committed = {}
  <2>1. DOMAIN committed = {}
    OBVIOUS
  <2> QED
    BY <2>1 DEF Committed
<1>2. EdgesOf(P) = {}
  BY <1>1, FirstProvenGoes
<1> QED
  BY <1>2 DEF EdgesOf

(* The round is over and logged.                                           *)
LEMMA JvRecordInv ==
  ASSUME JvInv, JvRecord
  PROVE  JvInv'
<1> DEFINE J == JvLog'
<1>1. /\ jvPc = "commit" /\ phase = "idle" /\ result = "committed"
      /\ epoch' = epoch + 1 /\ UNCHANGED <<commitVars, dist, useCuda, proposed>>
      /\ jvPc' \in {"done", "propose"} /\ (jvPc' = "propose" => committed # <<>>)
  BY DEF JvRecord
<1>2. CommitInv /\ CommitInv'
  BY <1>1, CommitStutters DEF JvInv
<1>3. /\ GreedySubset(Committed, EdgesOf(JvBatch), snapshotHash)
      /\ Committed \subseteq snapshotHash /\ active = snapshotHash \ Committed
      /\ \A i \in DOMAIN committed : committed[i] \in JvBatch
      /\ stage.final = snapshotHash
      /\ HonestProposers => proposed = FindJvCandidates(dist, snapshotHash, snapshotHash)
  BY <1>1 DEF JvInv, JvRunning, Batch
<1>4. /\ dist \in Metrics /\ Good(dist, NoObstacles, JvLog) /\ HtRecord(JvLog) = {}
      /\ epoch \in Nat /\ stage.metrics \in Seq(Nat) /\ Len(stage.metrics) = epoch
      /\ FirstEpoch(JvLog) = epoch
      /\ \A c \in proposed : \E e, w : c = JvCandidate(e, w)
      /\ JvBackends \subseteq {"cpu"} => useCuda = FALSE
      /\ \A i \in DOMAIN stage.metrics :
           stage.metrics[i] # 0 => stage.proof # <<>> /\ i - 1 <= Last(stage.proof).epoch
  BY <1>1 DEF JvInv, JvLogged
<1>5. \A i \in DOMAIN committed :
        VerifyJvCandidate(dist, snapshotHash, snapshotHash, committed[i])
  BY <1>3 DEF JvBatch
<1>6. /\ LogTypes(RoundLog) /\ Container(RoundLog) /\ HtRecord(RoundLog) = {}
      /\ RecordsCommit(dist, NoObstacles, snapshotHash, RoundLog)
  BY <1>2, <1>3, <1>5, RoundRecords
<1>7. Good(dist, NoObstacles, RoundLog)
  BY <1>2, <1>3, <1>6, EpochGood
<1>8. stage' = [initial |-> stage.initial, final |-> active,
                proof |-> stage.proof \o Records(epoch, snapshotHash, committed),
                metrics |-> Append(stage.metrics, Len(committed))]
  <2>1. PICK i, f, p, m : stage = [initial |-> i, final |-> f, proof |-> p, metrics |-> m]
    BY DEF JvInv, JvLogged
  <2> QED
    BY <2>1 DEF JvRecord, ContentHash
<1>9. /\ J.initial = stage.initial /\ J.final = snapshotHash \ Committed
      /\ J.proof = stage.proof \o Records(epoch, snapshotHash, committed)
      /\ J.certificates = <<>>
  BY <1>3, <1>8 DEF JvLog
<1> HIDE DEF J
<1>10. LogTypes(JvLog) /\ EpochsOf(JvLog)
  BY <1>4 DEF Good
<1>11. IsAppended(JvLog, RoundLog, J)
  BY <1>2, <1>4, <1>9, <1>10, RoundAppended
<1>12. JvLog.final = RoundLog.initial
  BY <1>3 DEF JvLog, RoundLog
<1>13. Good(dist, NoObstacles, J)
  BY <1>4, <1>7, <1>11, <1>12, AppendedGood
<1>14. PICK n, m, f, c : /\ n = Len(JvLog.proof) /\ m = Len(RoundLog.proof)
                         /\ f = FirstEpoch(JvLog) /\ c = Len(JvLog.certificates)
  OBVIOUS
<1>15. Shifted(JvLog, RoundLog, J, n, m, f, c)
  BY <1>6, <1>10, <1>11, <1>14, AppendedRecords
<1>16. HtRecord(J) = {}
  BY <1>4, <1>6, <1>15, AppendedHtRecords
<1>17. committed \in Seq(Candidate) /\ Len(committed) \in Nat
  BY <1>2 DEF CommitInv, CommitTypeOK
<1>18. m \in Nat /\ DOMAIN RoundLog.proof = 1 .. m
       /\ m = Len(committed) /\ \A i \in 1 .. m : RoundLog.proof[i].epoch = 0
  <2>1. m \in Nat /\ DOMAIN RoundLog.proof = 1 .. m
    BY <1>15 DEF Shifted
  <2>2. DOMAIN RoundLog.proof = 1 .. Len(committed)
        /\ \A i \in 1 .. Len(committed) : RoundLog.proof[i].epoch = 0
    BY <1>6 DEF RecordsCommit
  <2>3. Len(committed) = m
    BY <1>17, <2>1, <2>2
  <2> QED
    BY <2>1, <2>2, <2>3
<1>19. /\ m # 0 => J.proof # <<>> /\ Last(J.proof).epoch = RoundLog.proof[m].epoch + f
       /\ m = 0 /\ JvLog.proof # <<>> =>
            J.proof # <<>> /\ Last(J.proof).epoch = Last(JvLog.proof).epoch
  BY <1>10, <1>15, AppendedLast
<1>20. m # 0 => J.proof # <<>> /\ Last(J.proof).epoch = epoch
  <2>1. m # 0 => RoundLog.proof[m].epoch = 0
    BY <1>18
  <2> QED
    BY <1>4, <1>14, <1>19, <2>1
<1>21. m = 0 /\ stage.proof # <<>> =>
         J.proof # <<>> /\ Last(J.proof).epoch = Last(stage.proof).epoch
  <2>1. JvLog.proof = stage.proof
    BY DEF JvLog
  <2> QED
    BY <1>19, <2>1
<1>22. stage'.proof = J.proof
  BY <1>8, <1>9
<1>23. /\ stage'.metrics = Append(stage.metrics, m)
       /\ stage'.metrics \in Seq(Nat) /\ Len(stage'.metrics) = epoch + 1
       /\ DOMAIN stage'.metrics = 1 .. epoch + 1
       /\ \A i \in 1 .. epoch : i \in DOMAIN stage.metrics /\ stage'.metrics[i] = stage.metrics[i]
       /\ stage'.metrics[epoch + 1] = m
  <2>1. stage'.metrics = Append(stage.metrics, m)
    BY <1>8, <1>18
  <2>2. PICK s \in Seq(Nat) : s = stage.metrics
    BY <1>4
  <2> QED
    BY <1>4, <1>18, <2>1, <2>2
<1>24. ASSUME NEW i \in DOMAIN stage'.metrics, stage'.metrics[i] # 0
       PROVE  stage'.proof # <<>> /\ i - 1 <= Last(stage'.proof).epoch
  <2>1. CASE m # 0
    BY <1>4, <1>20, <1>22, <1>23, <2>1
  <2>2. CASE m = 0
    <3>1. i \in 1 .. epoch
      BY <1>4, <1>23, <1>24, <2>2
    <3>2. stage.proof # <<>> /\ i - 1 <= Last(stage.proof).epoch
      BY <1>4, <1>23, <1>24, <3>1
    <3> QED
      BY <1>21, <1>22, <2>2, <3>2
  <2> QED
    BY <2>1, <2>2
<1>25. jvPc' \in {"propose", "verify", "commit"} => FirstEpoch(J) = epoch'
  <2>1. committed # <<>> => m # 0
    BY <1>17, <1>18, NonEmptySeq
  <2> QED
    BY <1>1, <1>20, <2>1 DEF FirstEpoch
<1>26. JvLogged'
  <2>1. \E i, f2, p, m2 : stage' = [initial |-> i, final |-> f2, proof |-> p, metrics |-> m2]
    BY <1>8
  <2>2. epoch' \in Nat /\ Len(stage'.metrics) = epoch' /\ epoch' # 0
    BY <1>1, <1>4, <1>23
  <2>3. Good(dist', NoObstacles, JvLog') /\ HtRecord(JvLog') = {}
    BY <1>1, <1>13, <1>16 DEF J
  <2>4. jvPc' \in {"propose", "verify", "commit"} => FirstEpoch(JvLog') = epoch'
    BY <1>25 DEF J
  <2> QED
    BY <1>1, <1>4, <1>23, <1>24, <2>1, <2>2, <2>3, <2>4 DEF JvLogged
<1>27. ASSUME HonestProposers, Last(stage'.metrics) = 0
       PROVE  FindJvCandidates(dist, active, active) = {}
  <2>1. committed = <<>>
    <3>1. Last(stage'.metrics) = m
      BY <1>23 DEF Last
    <3> QED
      BY <1>17, <1>18, <1>27, <3>1, NonEmptySeq
  <2>2. EdgesOf(JvBatch) \subseteq Eligible(snapshotHash, snapshotHash)
    BY DEF EdgesOf, JvBatch, VerifyJvCandidate, Eligible
  <2>3. snapshotHash \in SUBSET Edge
    BY <1>2 DEF CommitInv, CommitTypeOK
  <2>4. JvBatch = {}
    BY <1>3, <2>1, <2>2, <2>3, NothingCommitted
  <2>5. Committed = {}
    <3>1. DOMAIN committed = {}
      BY <2>1
    <3> QED
      BY <3>1 DEF Committed
  <2>6. \A x \in FindJvCandidates(dist, snapshotHash, snapshotHash) : x \in JvBatch
    BY <1>3, <1>27, FoundVerifies DEF JvBatch
  <2> QED
    BY <1>3, <2>4, <2>5, <2>6
<1>28. JvRunning'
  <2>1. stage'.final = active' /\ phase' = "idle" /\ dist' = dist /\ active' = active
    BY <1>1, <1>8 DEF commitVars
  <2> QED
    BY <1>1, <1>27, <2>1 DEF JvRunning
<1> QED
  BY <1>2, <1>26, <1>28 DEF JvInv

(* Every step keeps the invariant.                                         *)
LEMMA JvNextInv ==
  ASSUME JvInv, JvNext
  PROVE  JvInv'
BY JvStartInv, JvProposeInv, JvThrowsInv, JvCommitInv, JvSweepInv, JvRecordInv DEF JvNext, JvStep

(* The replay reads a graph with the operators the run reads it with.      *)
LEMMA JvReplaySame ==
  /\ \A S : JvReplay!Cardinality(S) = Cardinality(S)
  /\ \A g, e : JvReplay!Deletable(g, e) <=> Deletable(g, e)
  /\ \A d, g, h, x : JvReplay!VerifyJvCandidate(d, g, h, x) <=> VerifyJvCandidate(d, g, h, x)
<1>1. \A S : JvReplay!Cardinality(S) = Cardinality(S)
  BY DEF JvReplay!Cardinality, Cardinality
<1>2. \A g, n : JvReplay!Row(g, n) = Row(g, n)
  BY DEF JvReplay!Row, Row, JvReplay!Incident, Incident
<1>3. \A g, e : JvReplay!Deletable(g, e) <=> Deletable(g, e)
  BY <1>1, <1>2 DEF JvReplay!Deletable, Deletable, JvReplay!Degree, Degree
<1>4. \A g, n : JvReplay!Neighbors(g, n) = Neighbors(g, n)
  BY <1>2 DEF JvReplay!Neighbors, Neighbors, JvReplay!OtherEnd, OtherEnd
<1>5. \A e : JvReplay!Ends(e) = Ends(e)
  BY DEF JvReplay!Ends, Ends
<1>6. \A d, e, c, x : JvReplay!Exchangeable(d, e, c, x) <=> Exchangeable(d, e, c, x)
  BY DEF JvReplay!Exchangeable, Exchangeable, JvReplay!Weight, Weight
<1>7. JvReplay!Node = Node
  BY DEF JvReplay!Node, Node
<1>8. \A d, g, e, c : JvReplay!IsJvWitness(d, g, e, c) <=> IsJvWitness(d, g, e, c)
  BY <1>4, <1>5, <1>6, <1>7 DEF JvReplay!IsJvWitness, IsJvWitness
<1>9. \A d, g, h, x : JvReplay!VerifyJvCandidate(d, g, h, x) <=> VerifyJvCandidate(d, g, h, x)
  BY <1>3, <1>8 DEF JvReplay!VerifyJvCandidate, VerifyJvCandidate, JvReplay!kJv, kJv
<1> QED
  BY <1>1, <1>3, <1>9

(* A good log is accepted by the replay: without a Hamilton-             *)
(* Tutte record it asks for no such proof.                                 *)
LEMMA JvReplayAccepts ==
  ASSUME NEW d, NEW o, NEW L, Good(d, o, L), HtRecord(L) = {}
  PROVE  JvReplay!ReplayProof(d, L.initial, L)
<1>1. LogTypes(L) /\ Container(L) /\ EpochsOf(L)
  BY DEF Good
<1>2. \A i \in DOMAIN L.proof : L.proof[i].method \in 1 .. 2
  <2>1. \A i \in DOMAIN L.proof : L.proof[i] \in LogRecord
    BY <1>1 DEF LogTypes
  <2> QED
    BY <2>1 DEF LogRecord, Methods
<1>3. HtRecord(L) = {i \in DOMAIN L.proof : L.proof[i].method = 2}
      /\ \A i \in DOMAIN L.proof \ HtRecord(L) : L.proof[i].method = kJv
  BY <1>2 DEF HtRecord, kJv
<1>4. JvReplay!ValidateProofContainer(L)
  <2>1. \A i, j \in HtRecord(L) : i # j => L.proof[i].certificate + 1 # L.proof[j].certificate + 1
    <3> TAKE i, j \in HtRecord(L)
    <3> HAVE i # j
    <3>1. L.proof[i].certificate # L.proof[j].certificate
      BY <1>1 DEF Container
    <3>2. L.proof[i] \in LogRecord /\ L.proof[j] \in LogRecord
      BY <1>1 DEF HtRecord, LogTypes
    <3>3. L.proof[i].certificate \in Int /\ L.proof[j].certificate \in Int
      BY <3>2 DEF LogRecord
    <3> QED
      BY <3>1, <3>3
  <2>2. /\ \A i \in DOMAIN L.proof \ HtRecord(L) : L.proof[i].certificate = NoCertificate
        /\ \A i \in HtRecord(L) :
             /\ L.proof[i].witness = -1
             /\ L.proof[i].certificate + 1 \in DOMAIN L.certificates
             /\ L.certificates[L.proof[i].certificate + 1].target = L.proof[i].edge
             /\ L.certificates[L.proof[i].certificate + 1].snapshot = L.proof[i].snapshot
        /\ {L.proof[i].certificate + 1 : i \in HtRecord(L)} = DOMAIN L.certificates
    BY <1>1 DEF Container
  <2> QED
    BY <1>3, <2>1, <2>2 DEF JvReplay!ValidateProofContainer, JvReplay!kJv, kJv, NoCertificate,
       JvReplay!NoCertificateIndex
<1>5. ASSUME NEW i \in DOMAIN L.proof PROVE JvReplay!EpochFollows(L, i)
  BY <1>1 DEF JvReplay!EpochFollows, EpochsOf
<1>6. ASSUME NEW i \in DOMAIN L.proof PROVE JvReplay!RecordReplays(d, L, i)
  <2>1. PICK g : g = L.initial \ EdgesAt(L, Earlier(L, i))
    OBVIOUS
  <2>2. /\ L.proof[i].snapshot = g /\ HeldOn(d, o, g, L.proof[i])
        /\ \A e \in EdgesAt(L, Beside(L, i)) : e < L.proof[i].edge
        /\ Deletable(g \ EdgesAt(L, Beside(L, i)), L.proof[i].edge)
    BY <2>1 DEF Good, ReplaysAt
  <2>3. /\ L.proof[i].edge \in g
        /\ IF L.proof[i].method = kJv
           THEN JvReplay!VerifyJvCandidate(d, g, g,
                                           JvCandidate(L.proof[i].edge, L.proof[i].witness))
           ELSE NoProof(d, g, L.proof[i].edge)
    <3>1. L.proof[i].method = kJv
      BY <1>3
    <3>2. L.proof[i].edge \in g
          /\ VerifyJvCandidate(d, g, g, JvCandidate(L.proof[i].edge, L.proof[i].witness))
      BY <2>2, <3>1 DEF HeldOn
    <3>3. PICK x : x = JvCandidate(L.proof[i].edge, L.proof[i].witness)
      OBVIOUS
    <3>4. JvReplay!VerifyJvCandidate(d, g, g, x) <=> VerifyJvCandidate(d, g, g, x)
      BY JvReplaySame
    <3> QED
      BY <3>1, <3>2, <3>3, <3>4
  <2>4. JvCandidate(L.proof[i].edge, L.proof[i].witness)
          = JvReplay!JvCandidate(L.proof[i].edge, L.proof[i].witness)
    BY DEF JvCandidate, JvReplay!JvCandidate, kJv, JvReplay!kJv
  <2>5. \A j \in Beside(L, i) : L.proof[j].edge < L.proof[i].edge
    BY <2>2 DEF EdgesAt
  <2>6. JvReplay!Deletable(g \ EdgesAt(L, Beside(L, i)), L.proof[i].edge)
    BY <2>2, JvReplaySame
  <2>7. g = JvReplay!Without(L, {j \in 1 .. i - 1 : L.proof[j].epoch # L.proof[i].epoch})
    BY <2>1 DEF JvReplay!Without, EdgesAt, Earlier
  <2>8. /\ \A j \in {j \in 1 .. i - 1 : L.proof[j].epoch = L.proof[i].epoch} :
             L.proof[j].edge < L.proof[i].edge
        /\ JvReplay!Deletable(
             g \ {L.proof[j].edge : j \in {j \in 1 .. i - 1 : L.proof[j].epoch = L.proof[i].epoch}},
             L.proof[i].edge)
    BY <2>5, <2>6 DEF EdgesAt, Beside
  <2>9. kJv = JvReplay!kJv /\ JvReplay!ContentHash(g) = g
    BY DEF kJv, JvReplay!kJv, JvReplay!ContentHash
  <2> QED
    BY <2>2, <2>3, <2>4, <2>7, <2>8, <2>9 DEF JvReplay!RecordReplays
<1>7. ASSUME NEW i \in DOMAIN L.proof, L.proof[i].method = 2
      PROVE  L.proof[i].certificate = JvReplay!Cardinality(JvReplay!HtRecordsBefore(L, i))
  <2>1. L.proof[i].certificate = Cardinality(HtBefore(L, i))
    BY <1>1, <1>3, <1>7 DEF Container
  <2>2. HtBefore(L, i) = JvReplay!HtRecordsBefore(L, i)
    <3>1. \A j \in 1 .. i - 1 : j \in DOMAIN L.proof
      <4>1. DOMAIN L.proof = 1 .. Len(L.proof) /\ Len(L.proof) \in Nat
        BY <1>1 DEF LogTypes
      <4> QED
        BY <4>1
    <3> QED
      BY <1>2, <3>1 DEF HtBefore, JvReplay!HtRecordsBefore, kJv
  <2> QED
    BY <2>1, <2>2, JvReplaySame
<1>8. JvReplay!Replayed(L) = L.final
  BY DEF Good, JvReplay!Replayed, JvReplay!Without, EdgesAt
<1> QED
  BY <1>4, <1>5, <1>6, <1>7, <1>8 DEF JvReplay!ReplayProof, JvReplay!ContentHash

(* Stuttering.                                                             *)
LEMMA JvStutters ==
  ASSUME JvInv, UNCHANGED allJvVars
  PROVE  JvInv'
<1>1. UNCHANGED commitVars /\ UNCHANGED <<dist, jvPc, stage, epoch, useCuda, proposed>>
  BY DEF allJvVars, commitVars
<1>2. CommitInv'
  BY <1>1, CommitStutters DEF JvInv
<1>3. JvLogged'
  <2>1. \A c \in proposed' : \E e, w : c = JvCandidate(e, w)
    BY <1>1 DEF JvInv, JvLogged
  <2> QED
    BY <1>1, <2>1, LoggedStays DEF JvInv
<1>4. JvRunning'
  <2>1. JvBatch' = JvBatch
    BY <1>1 DEF JvBatch, commitVars
  <2>2. /\ Committed' = Committed
        /\ UNCHANGED <<active, snapshotHash, phase, queue, committed, result>>
    BY <1>1 DEF commitVars, Committed
  <2>3. Batch(JvBatch) => Batch(JvBatch)'
    BY <2>1, <2>2 DEF Batch, GreedyOver
  <2> QED
    BY <1>1, <2>2, <2>3 DEF JvInv, JvRunning
<1> QED
  BY <1>2, <1>3, <1>4 DEF JvInv

(* The rounds keep a log that replays, whatever a device left in a slot.   *)
THEOREM JvInvariant == JvSpec => []JvInv
<1>1. JvInit => JvInv
  BY JvInitInv
<1>2. JvInv /\ [JvNext]_allJvVars => JvInv'
  BY JvNextInv, JvStutters
<1> QED
  BY <1>1, <1>2, PTL DEF JvSpec

(* The log of a Jonker-Volgenant run that ends replays from the graph it   *)
(* started on, whatever a device left in a slot of its answer              *)
(* (jv_elimination.cpp:282-315 against 525-605).                           *)
THEOREM JvRunReplays == JvSpec => []JvLogReplays
<1>1. JvInv => JvLogReplays
  <2> SUFFICES ASSUME JvInv
               PROVE  JvReplay!ReplayProof(dist, stage.initial, JvLog)
    BY DEF JvLogReplays
  <2>1. Good(dist, NoObstacles, JvLog) /\ HtRecord(JvLog) = {}
    BY DEF JvInv, JvLogged
  <2>2. JvLog.initial = stage.initial
    BY DEF JvLog
  <2> QED
    BY <2>1, <2>2, JvReplayAccepts
<1> QED
  BY <1>1, JvInvariant, PTL

(* The replay reads a graph with the operators the run reads it with.      *)
LEMMA ReplaySame ==
  /\ \A S : Replay!Cardinality(S) = Cardinality(S)
  /\ \A g, e : Replay!Deletable(g, e) <=> Deletable(g, e)
  /\ \A d, g, h, x : Replay!VerifyJvCandidate(d, g, h, x) <=> VerifyJvCandidate(d, g, h, x)
<1>1. \A S : Replay!Cardinality(S) = Cardinality(S)
  BY DEF Replay!Cardinality, Cardinality
<1>2. \A g, n : Replay!Row(g, n) = Row(g, n)
  BY DEF Replay!Row, Row, Replay!Incident, Incident
<1>3. \A g, e : Replay!Deletable(g, e) <=> Deletable(g, e)
  BY <1>1, <1>2 DEF Replay!Deletable, Deletable, Replay!Degree, Degree
<1>4. \A g, n : Replay!Neighbors(g, n) = Neighbors(g, n)
  BY <1>2 DEF Replay!Neighbors, Neighbors, Replay!OtherEnd, OtherEnd
<1>5. \A e : Replay!Ends(e) = Ends(e)
  BY DEF Replay!Ends, Ends
<1>6. \A d, e, c, x : Replay!Exchangeable(d, e, c, x) <=> Exchangeable(d, e, c, x)
  BY DEF Replay!Exchangeable, Exchangeable, Replay!Weight, Weight
<1>7. Replay!Node = Node
  BY DEF Replay!Node, Node
<1>8. \A d, g, e, c : Replay!IsJvWitness(d, g, e, c) <=> IsJvWitness(d, g, e, c)
  BY <1>4, <1>5, <1>6, <1>7 DEF Replay!IsJvWitness, IsJvWitness
<1>9. \A d, g, h, x : Replay!VerifyJvCandidate(d, g, h, x) <=> VerifyJvCandidate(d, g, h, x)
  BY <1>3, <1>8 DEF Replay!VerifyJvCandidate, VerifyJvCandidate, Replay!kJv, kJv
<1> QED
  BY <1>1, <1>3, <1>9

(* A good log is accepted by the replay.                                  *)
LEMMA ReplayAccepts ==
  ASSUME NEW d, NEW L, Good(d, obstacles, L)
  PROVE  Replay!ReplayProof(d, L.initial, L)
<1>1. LogTypes(L) /\ Container(L) /\ EpochsOf(L)
  BY DEF Good
<1>2. \A i \in DOMAIN L.proof : L.proof[i].method \in 1 .. 2
  <2>1. \A i \in DOMAIN L.proof : L.proof[i] \in LogRecord
    BY <1>1 DEF LogTypes
  <2> QED
    BY <2>1 DEF LogRecord, Methods
<1>3. HtRecord(L) = {i \in DOMAIN L.proof : L.proof[i].method = 2}
      /\ \A i \in DOMAIN L.proof \ HtRecord(L) : L.proof[i].method = kJv
  BY <1>2 DEF HtRecord, kJv
<1>4. Replay!ValidateProofContainer(L)
  <2>1. \A i, j \in HtRecord(L) : i # j => L.proof[i].certificate + 1 # L.proof[j].certificate + 1
    <3> TAKE i, j \in HtRecord(L)
    <3> HAVE i # j
    <3>1. L.proof[i].certificate # L.proof[j].certificate
      BY <1>1 DEF Container
    <3>2. L.proof[i] \in LogRecord /\ L.proof[j] \in LogRecord
      BY <1>1 DEF HtRecord, LogTypes
    <3>3. L.proof[i].certificate \in Int /\ L.proof[j].certificate \in Int
      BY <3>2 DEF LogRecord
    <3> QED
      BY <3>1, <3>3
  <2>2. /\ \A i \in DOMAIN L.proof \ HtRecord(L) : L.proof[i].certificate = NoCertificate
        /\ \A i \in HtRecord(L) :
             /\ L.proof[i].witness = -1
             /\ L.proof[i].certificate + 1 \in DOMAIN L.certificates
             /\ L.certificates[L.proof[i].certificate + 1].target = L.proof[i].edge
             /\ L.certificates[L.proof[i].certificate + 1].snapshot = L.proof[i].snapshot
        /\ {L.proof[i].certificate + 1 : i \in HtRecord(L)} = DOMAIN L.certificates
    BY <1>1 DEF Container
  <2> QED
    BY <1>3, <2>1, <2>2 DEF Replay!ValidateProofContainer, Replay!kJv, kJv, NoCertificate,
       Replay!NoCertificateIndex
<1>5. ASSUME NEW i \in DOMAIN L.proof PROVE Replay!EpochFollows(L, i)
  BY <1>1 DEF Replay!EpochFollows, EpochsOf
<1>6. ASSUME NEW i \in DOMAIN L.proof PROVE Replay!RecordReplays(d, L, i)
  <2>1. PICK g : g = L.initial \ EdgesAt(L, Earlier(L, i))
    OBVIOUS
  <2>2. /\ L.proof[i].snapshot = g /\ HeldOn(d, obstacles, g, L.proof[i])
        /\ \A e \in EdgesAt(L, Beside(L, i)) : e < L.proof[i].edge
        /\ Deletable(g \ EdgesAt(L, Beside(L, i)), L.proof[i].edge)
    BY <2>1 DEF Good, ReplaysAt
  <2>3. /\ L.proof[i].edge \in g
        /\ IF L.proof[i].method = kJv
           THEN Replay!VerifyJvCandidate(d, g, g, JvCandidate(L.proof[i].edge, L.proof[i].witness))
           ELSE HtHolds(d, g, L.proof[i].edge)
    <3>1. PICK x : x = JvCandidate(L.proof[i].edge, L.proof[i].witness)
      OBVIOUS
    <3>2. Replay!VerifyJvCandidate(d, g, g, x) <=> VerifyJvCandidate(d, g, g, x)
      BY ReplaySame
    <3> QED
      BY <2>2, <3>1, <3>2 DEF HeldOn, HtHolds
  <2>4. JvCandidate(L.proof[i].edge, L.proof[i].witness)
          = Replay!JvCandidate(L.proof[i].edge, L.proof[i].witness)
    BY DEF JvCandidate, Replay!JvCandidate, kJv, Replay!kJv
  <2>5. \A j \in Beside(L, i) : L.proof[j].edge < L.proof[i].edge
    BY <2>2 DEF EdgesAt
  <2>6. Replay!Deletable(g \ EdgesAt(L, Beside(L, i)), L.proof[i].edge)
    BY <2>2, ReplaySame
  <2>7. g = Replay!Without(L, {j \in 1 .. i - 1 : L.proof[j].epoch # L.proof[i].epoch})
    BY <2>1 DEF Replay!Without, EdgesAt, Earlier
  <2>8. /\ \A j \in {j \in 1 .. i - 1 : L.proof[j].epoch = L.proof[i].epoch} :
             L.proof[j].edge < L.proof[i].edge
        /\ Replay!Deletable(
             g \ {L.proof[j].edge : j \in {j \in 1 .. i - 1 : L.proof[j].epoch = L.proof[i].epoch}},
             L.proof[i].edge)
    BY <2>5, <2>6 DEF EdgesAt, Beside
  <2>9. kJv = Replay!kJv /\ Replay!ContentHash(g) = g
    BY DEF kJv, Replay!kJv, Replay!ContentHash
  <2> QED
    BY <2>2, <2>3, <2>4, <2>7, <2>8, <2>9 DEF Replay!RecordReplays
<1>7. ASSUME NEW i \in DOMAIN L.proof, L.proof[i].method = 2
      PROVE  L.proof[i].certificate = Replay!Cardinality(Replay!HtRecordsBefore(L, i))
  <2>1. L.proof[i].certificate = Cardinality(HtBefore(L, i))
    BY <1>1, <1>3, <1>7 DEF Container
  <2>2. HtBefore(L, i) = Replay!HtRecordsBefore(L, i)
    <3>1. \A j \in 1 .. i - 1 : j \in DOMAIN L.proof
      <4>1. DOMAIN L.proof = 1 .. Len(L.proof) /\ Len(L.proof) \in Nat
        BY <1>1 DEF LogTypes
      <4> QED
        BY <4>1
    <3> QED
      BY <1>2, <3>1 DEF HtBefore, Replay!HtRecordsBefore, kJv
  <2> QED
    BY <2>1, <2>2, ReplaySame
<1>8. Replay!Replayed(L) = L.final
  BY DEF Good, Replay!Replayed, Replay!Without, EdgesAt
<1> QED
  BY <1>4, <1>5, <1>6, <1>7, <1>8 DEF Replay!ReplayProof, Replay!ContentHash

-----------------------------------------------------------------------------
(* The local driver.                                                       *)

\* The targets of a scan of graph g, the slice at the offset, and what the
\* searches prove of it.
TargetsOf(g) == InOrder(Eligible(g, g), EdgeWeights, localOptions.order)
SliceOf(g) == TargetSlice(TargetsOf(g), offset, localOptions.maxTargets)
ProvenOn(g) == {SliceOf(g)[i] : i \in {j \in DOMAIN SliceOf(g) : HtHolds(dist, g, SliceOf(g)[j])}}

HtBatch == {[edge |-> e, witness |-> NoWitness, method |-> 2] : e \in ProvenOn(snapshotHash)}

\* The scans of graph g reached the offset, and proved nothing before it.
Searched(g) ==
  /\ offset = 0 \/ offset < Cardinality(Eligible(g, g))
  /\ \A i \in DOMAIN TargetsOf(g) : i < offset => ~ HtHolds(dist, g, TargetsOf(g)[i])

IsLog(L) ==
  \E i, f, p, c, m :
    L = [initial |-> i, final |-> f, proof |-> p, certificates |-> c, metrics |-> m]

NoWitnessLeft(g) == HonestProposers => FindJvCandidates(dist, g, g) = {}
NoTargetLeft(g) == \A e \in Eligible(g, g) : ~ HtHolds(dist, g, e)

LocalTypes ==
  /\ obstacles \in Obstacles /\ localOptions \in LocalOptions
  /\ offset \in Nat /\ htEpoch \in Nat
  /\ localPc \in {"jv", "scan", "commit", "returned", "threw"}

\* The log of the run replays, and says where the caller's graph is.
LoggedRun ==
  /\ IsLog(combined)
  /\ Good(dist, obstacles, combined)
  /\ IF localPc = "returned" THEN combined.final = graph ELSE combined.initial = graph

\* A Jonker-Volgenant stage goes on where the log of the run ends.
StageFollows ==
  localPc = "jv" =>
    /\ JvRunning
    /\ offset = 0
    /\ jvPc = "start" => combined.final = active
    /\ jvPc \in {"propose", "verify", "commit", "done"} => combined.final = stage.initial

\* So does a scan; it has the graph of the last stage before it.
ScanFollows ==
  localPc = "scan" =>
    /\ phase = "idle" /\ combined.final = active
    /\ Searched(active) /\ NoWitnessLeft(active)

CommitFollows ==
  localPc = "commit" =>
    /\ Batch(HtBatch) /\ combined.final = snapshotHash
    /\ Searched(snapshotHash) /\ NoWitnessLeft(snapshotHash)
    /\ sweep = [eligible |-> Cardinality(Eligible(snapshotHash, snapshotHash)),
                attempted |-> Cardinality(DOMAIN SliceOf(snapshotHash))]

EndOfRun ==
  /\ localPc \in {"jv", "scan", "commit"} => termination = "none"
  /\ termination # "internal-error"
  /\ termination = "converged" => NoWitnessLeft(graph) /\ NoTargetLeft(graph)

LocalInv ==
  /\ CommitInv /\ JvLogged
  /\ LocalTypes /\ LoggedRun /\ StageFollows /\ ScanFollows /\ CommitFollows /\ EndOfRun

(* Slices.                                                                 *)

(* The slice begins at the offset and ends at its limit or with the last   *)
(* target; it is empty only behind the last one.                           *)
LEMMA SliceShape ==
  ASSUME dist \in Metrics, LocalTypes, NEW g \in SUBSET Edge, Searched(g)
  PROVE  \E n, k \in Nat :
           /\ n = Cardinality(Eligible(g, g)) /\ DOMAIN TargetsOf(g) = 0 .. n - 1
           /\ \A i \in 0 .. n - 1 : TargetsOf(g)[i] \in Eligible(g, g)
           /\ \A e \in Eligible(g, g) : \E i \in 0 .. n - 1 : TargetsOf(g)[i] = e
           /\ DOMAIN SliceOf(g) = 0 .. k - 1 /\ Cardinality(DOMAIN SliceOf(g)) = k
           /\ offset + k <= n /\ (k = 0 => offset = n)
           /\ \A i \in 0 .. k - 1 : SliceOf(g)[i] = TargetsOf(g)[offset + i]
<1> DEFINE S == Eligible(g, g)
           T == TargetsOf(g)
<1>1. S \in SUBSET Edge
  BY DEF Eligible
<1>2. \A e \in S : EdgeWeights[e] \in Nat
  <2> TAKE e \in S
  <2>1. e \in Edge /\ EndU[e] \in Node /\ EndV[e] \in Node
    BY <1>1, SnapshotAssumption
  <2>2. dist \in [Node \X Node -> Nat]
    BY JvAssumption
  <2>3. dist[EndU[e], EndV[e]] \in Nat
    BY <2>1, <2>2
  <2> QED
    BY <2>1, <2>3 DEF EdgeWeights, Weight
<1>3. PICK n : n = Cardinality(S)
  OBVIOUS
<1>4. n \in Nat
  <2>1. IsFiniteSet(Edge)
    BY SnapshotAssumption, FS_Interval DEF Edge
  <2> QED
    BY <1>1, <1>3, <2>1, FS_Subset, FS_CardinalityType
<1>5. /\ DOMAIN T = 0 .. n - 1
      /\ \A i \in 0 .. n - 1 : T[i] \in S
      /\ \A e \in S : \E i \in 0 .. n - 1 : T[i] = e
  <2> HIDE DEF S
  <2>1. PICK w : w = EdgeWeights
    OBVIOUS
  <2>2. \A e \in S : w[e] \in Nat
    BY <1>2, <2>1
  <2>3. T = InOrder(S, w, localOptions.order)
    BY <2>1 DEF TargetsOf, S
  <2>4. PICK r : r = localOptions.order
    OBVIOUS
  <2>5. /\ DOMAIN InOrder(S, w, r) = 0 .. Cardinality(S) - 1
        /\ \A i \in DOMAIN InOrder(S, w, r) : InOrder(S, w, r)[i] \in S
        /\ \A e \in S : \E i \in DOMAIN InOrder(S, w, r) : InOrder(S, w, r)[i] = e
    <3>1. PICK R \in SUBSET Edge : R = S
      BY <1>1
    <3>2. \A e \in R : w[e] \in Nat
      BY <2>2, <3>1
    <3>3. /\ DOMAIN InOrder(R, w, r) = 0 .. Cardinality(R) - 1
          /\ \A i \in DOMAIN InOrder(R, w, r) : InOrder(R, w, r)[i] \in R
          /\ \A e \in R : \E i \in DOMAIN InOrder(R, w, r) : InOrder(R, w, r)[i] = e
      BY <3>2, OrderedTargets
    <3> QED
      BY <3>1, <3>3
  <2> HIDE DEF T
  <2> QED
    BY <1>3, <2>3, <2>4, <2>5
<1>6. offset \in Nat /\ localOptions.maxTargets \in Nat
  BY LocalAssumption DEF LocalTypes
<1>7. offset <= n /\ localOptions.maxTargets # 0
  <2>1. offset = 0 \/ offset < n
    BY <1>3 DEF Searched
  <2>2. localOptions.maxTargets # 0
    BY LocalAssumption DEF LocalTypes
  <2>3. offset <= n
    BY <1>4, <1>6, <2>1
  <2> QED
    BY <2>2, <2>3
<1> DEFINE x == localOptions.maxTargets
           k == IF x <= n - offset THEN x ELSE n - offset
           D == {j \in 0 .. x - 1 : offset + j \in DOMAIN T}
<1>8. SliceOf(g) = [i \in D |-> T[offset + i]]
  BY DEF SliceOf, TargetSlice
<1> HIDE DEF T, S
<1>9. k \in Nat /\ D = 0 .. k - 1 /\ offset + k <= n /\ (k = 0 => offset = n)
  BY <1>4, <1>5, <1>6, <1>7
<1>10. Cardinality(0 .. k - 1) = k
  <2> HIDE DEF k
  <2>1. Cardinality(0 .. k - 1) = IF 0 > k - 1 THEN 0 ELSE ((k - 1) - 0) + 1
    BY <1>9, FS_Interval
  <2> QED
    BY <1>9, <2>1
<1> HIDE DEF k, D
<1>11. DOMAIN SliceOf(g) = 0 .. k - 1 /\ \A i \in 0 .. k - 1 : SliceOf(g)[i] = T[offset + i]
  BY <1>8, <1>9
<1> QED
  BY <1>3, <1>4, <1>5, <1>9, <1>10, <1>11 DEF S, T

(* What is proven was eligible.                                            *)
LEMMA ProvenEligible ==
  ASSUME dist \in Metrics, LocalTypes, NEW g \in SUBSET Edge, Searched(g)
  PROVE  ProvenOn(g) \subseteq Eligible(g, g) /\ \A e \in ProvenOn(g) : HtHolds(dist, g, e)
<1> DEFINE S == Eligible(g, g)
           T == TargetsOf(g)
           s == SliceOf(g)
<1>1. PICK n \in Nat, k \in Nat :
        /\ \A i \in 0 .. n - 1 : T[i] \in S
        /\ DOMAIN s = 0 .. k - 1 /\ offset + k <= n
        /\ \A i \in 0 .. k - 1 : s[i] = T[offset + i]
  BY SliceShape
<1>2. ProvenOn(g) = {s[i] : i \in {j \in DOMAIN s : HtHolds(dist, g, s[j])}}
  BY DEF ProvenOn
<1>3. offset \in Nat
  BY DEF LocalTypes
<1> HIDE DEF S, T, s
<1>4. \A i \in DOMAIN s : s[i] \in S
  <2> TAKE i \in DOMAIN s
  <2>1. i \in 0 .. k - 1 /\ offset + i \in 0 .. n - 1
    BY <1>1, <1>3
  <2> QED
    BY <1>1, <2>1
<1> QED
  BY <1>2, <1>4 DEF S

(* A scan that proves nothing moves the frontier of what was searched.     *)
LEMMA NothingProven ==
  ASSUME dist \in Metrics, LocalTypes, NEW g \in SUBSET Edge, Searched(g), ProvenOn(g) = {},
         NEW n, NEW k, n = Cardinality(Eligible(g, g)), k = Cardinality(DOMAIN SliceOf(g))
  PROVE  /\ n \in Nat /\ k \in Nat /\ offset + k <= n /\ (k = 0 => offset = n)
         /\ \A i \in DOMAIN TargetsOf(g) : i < offset + k => ~ HtHolds(dist, g, TargetsOf(g)[i])
         /\ offset + k = n => NoTargetLeft(g)
<1> DEFINE S == Eligible(g, g)
           T == TargetsOf(g)
           s == SliceOf(g)
<1>1. /\ n \in Nat /\ k \in Nat /\ DOMAIN T = 0 .. n - 1
      /\ \A e \in S : \E i \in 0 .. n - 1 : T[i] = e
      /\ DOMAIN s = 0 .. k - 1 /\ offset + k <= n /\ (k = 0 => offset = n)
      /\ \A i \in 0 .. k - 1 : s[i] = T[offset + i]
  <2>1. PICK a \in Nat, b \in Nat :
           /\ a = Cardinality(S) /\ DOMAIN T = 0 .. a - 1
           /\ \A e \in S : \E i \in 0 .. a - 1 : T[i] = e
           /\ DOMAIN s = 0 .. b - 1 /\ Cardinality(DOMAIN s) = b
           /\ offset + b <= a /\ (b = 0 => offset = a)
           /\ \A i \in 0 .. b - 1 : s[i] = T[offset + i]
    BY SliceShape
  <2> QED
    BY <2>1
<1>2. \A j \in DOMAIN s : ~ HtHolds(dist, g, s[j])
  BY DEF ProvenOn
<1>3. \A i \in DOMAIN T : i < offset => ~ HtHolds(dist, g, T[i])
  BY DEF Searched
<1>4. offset \in Nat
  BY DEF LocalTypes
<1> HIDE DEF S, T, s
<1>5. ASSUME NEW i \in DOMAIN T, i < offset + k
      PROVE  ~ HtHolds(dist, g, T[i])
  <2>1. CASE i < offset
    BY <1>3, <2>1
  <2>2. CASE ~ (i < offset)
    <3>1. PICK j \in 0 .. k - 1 : i = offset + j
      <4>1. i - offset \in 0 .. k - 1 /\ i = offset + (i - offset)
        BY <1>1, <1>4, <1>5, <2>2
      <4> QED
        BY <4>1
    <3> QED
      BY <1>1, <1>2, <3>1
  <2> QED
    BY <2>1, <2>2
<1>6. offset + k = n => \A e \in S : ~ HtHolds(dist, g, e)
  <2> SUFFICES ASSUME offset + k = n, NEW e \in S PROVE ~ HtHolds(dist, g, e)
    OBVIOUS
  <2>1. PICK i \in 0 .. n - 1 : T[i] = e
    BY <1>1
  <2>2. i \in DOMAIN T /\ i < offset + k
    BY <1>1, <1>4
  <2> QED
    BY <1>5, <2>1, <2>2
<1> QED
  BY <1>1, <1>5, <1>6 DEF S, T, NoTargetLeft

(* Stages are appended.                                                    *)

LEMMA StageAppended ==
  ASSUME NEW A, NEW N, NEW d, NEW o, IsLog(A), Good(d, o, A), Good(d, o, N),
         A.final = N.initial
  PROVE  /\ IsLog(AppendStage(A, N)) /\ Good(d, o, AppendStage(A, N))
         /\ AppendStage(A, N).initial = A.initial
         /\ AppendStage(A, N).final = N.final
<1>1. CASE N.proof = <<>>
  <2>1. AppendStage(A, N) = A
    BY <1>1 DEF AppendStage
  <2>2. EdgesAt(N, DOMAIN N.proof) = {}
    <3>1. DOMAIN N.proof = {}
      BY <1>1
    <3> QED
      BY <3>1 DEF EdgesAt
  <2>3. N.final = N.initial
    BY <2>2 DEF Good
  <2> QED
    BY <2>1, <2>3
<1>2. CASE N.proof # <<>>
  <2>1. PICK z : z = SelectSeq(N.metrics, LAMBDA count : count # 0)
    OBVIOUS
  <2>2. AppendStage(A, N) =
          [A EXCEPT !.final = N.final,
                    !.proof = @ \o [i \in DOMAIN N.proof |-> Rebase(A, N.proof[i])],
                    !.certificates = @ \o N.certificates,
                    !.metrics = @ \o z]
    BY <1>2, <2>1 DEF AppendStage
  <2>3. PICK i, f, p, c, m :
          A = [initial |-> i, final |-> f, proof |-> p, certificates |-> c, metrics |-> m]
    BY DEF IsLog
  <2>4. /\ AppendStage(A, N).final = N.final
        /\ AppendStage(A, N).initial = A.initial
        /\ AppendStage(A, N).proof = A.proof \o [j \in DOMAIN N.proof |-> Rebase(A, N.proof[j])]
        /\ AppendStage(A, N).certificates = A.certificates \o N.certificates
        /\ IsLog(AppendStage(A, N))
    BY <2>2, <2>3 DEF IsLog
  <2>5. PICK J : J = AppendStage(A, N)
    OBVIOUS
  <2>6. IsAppended(A, N, J)
    BY <2>4, <2>5 DEF IsAppended
  <2>7. Good(d, o, J)
    BY <2>6, AppendedGood
  <2> QED
    BY <2>4, <2>5, <2>7
<1> QED
  BY <1>1, <1>2

\* No epoch beyond the last record deleted anything.
NoTrailingEpoch(N) ==
  \A i \in DOMAIN N.metrics :
    N.metrics[i] # 0 => N.proof # <<>> /\ i - 1 <= Last(N.proof).epoch

(* The checks at the head of AppendEliminationStage never fail.            *)
LEMMA StageAppendable ==
  ASSUME NEW A, NEW N, NEW d, NEW o, Good(d, o, N), A.final = N.initial, NoTrailingEpoch(N)
  PROVE  Appendable(A, N)
<1>1. LogTypes(N) /\ Container(N) /\ EpochsOf(N) /\ N.final = N.initial \ EdgesAt(N, DOMAIN N.proof)
  BY DEF Good
<1>2. ASSUME N.proof = <<>>
      PROVE  N.certificates = <<>> /\ N.initial = N.final
  <2>1. DOMAIN N.proof = {}
    BY <1>2
  <2>2. HtRecord(N) = {} /\ EdgesAt(N, DOMAIN N.proof) = {}
    BY <2>1 DEF HtRecord, EdgesAt
  <2>3. DOMAIN N.certificates = {}
    BY <1>1, <2>2 DEF Container
  <2>4. N.certificates \in Seq(LogCertificate)
    BY <1>1 DEF LogTypes
  <2>5. N.certificates # <<>> => Len(N.certificates) \in DOMAIN N.certificates
    BY <2>4, NonEmptySeq
  <2> QED
    BY <1>1, <2>2, <2>3, <2>5
<1>3. EpochsAreConsecutive(N.proof)
  BY <1>1 DEF EpochsOf, EpochsAreConsecutive
<1>4. ASSUME NEW i \in DOMAIN N.proof
      PROVE  IF N.proof[i].method = kJv
             THEN N.proof[i].certificate = NoCertificate
             ELSE N.proof[i].certificate < Len(N.certificates)
  <2>1. CASE N.proof[i].method = kJv
    BY <1>1, <2>1 DEF Container, HtRecord
  <2>2. CASE N.proof[i].method # kJv
    <3>1. N.proof[i].certificate + 1 \in DOMAIN N.certificates
      BY <1>1, <2>2 DEF Container, HtRecord
    <3>2. N.proof[i] \in LogRecord
      BY <1>1 DEF LogTypes
    <3>3. N.proof[i].certificate \in Int
      BY <3>2 DEF LogRecord
    <3>4. Len(N.certificates) \in Nat /\ DOMAIN N.certificates = 1 .. Len(N.certificates)
      BY <1>1 DEF LogTypes
    <3> QED
      BY <2>2, <3>1, <3>3, <3>4
  <2> QED
    BY <2>1, <2>2
<1> QED
  BY <1>2, <1>3, <1>4 DEF Appendable, NoTrailingEpoch

(* The log of a stage of Jonker-Volgenant rounds.                          *)
LEMMA JvStageLog ==
  ASSUME JvLogged
  PROVE  Good(dist, obstacles, JvLog) /\ NoTrailingEpoch(JvLog)
<1>1. Good(dist, obstacles, JvLog)
  BY ObstaclesDoNotMatter DEF JvLogged
<1>2. NoTrailingEpoch(JvLog)
  BY DEF JvLogged, JvLog, NoTrailingEpoch
<1> QED
  BY <1>1, <1>2

(* The log of a scan.                                                      *)
LEMMA HtStageLog ==
  ASSUME CommitInv, Batch(HtBatch), phase = "idle", result = "committed",
         ProvenOn(snapshotHash) \subseteq Eligible(snapshotHash, snapshotHash),
         \A e \in ProvenOn(snapshotHash) : HtHolds(dist, snapshotHash, e)
  PROVE  /\ Good(dist, obstacles, HtLog) /\ NoTrailingEpoch(HtLog)
         /\ HtLog.initial = snapshotHash /\ HtLog.final = active
<1> DEFINE n == Len(committed)
<1>1. committed \in Seq(Candidate) /\ n \in Nat /\ DOMAIN committed = 1 .. n
  BY DEF CommitInv, CommitTypeOK
<1>2. /\ GreedySubset(Committed, EdgesOf(HtBatch), snapshotHash)
      /\ Committed \subseteq snapshotHash /\ active = snapshotHash \ Committed
      /\ \A i \in 1 .. n : committed[i] \in HtBatch
  BY <1>1 DEF Batch
<1>3. snapshotHash \in SUBSET Edge
  BY DEF CommitInv, CommitTypeOK
<1>4. \A i \in 1 .. n : committed[i].edge \in ProvenOn(snapshotHash)
  BY <1>2 DEF HtBatch
<1>5. \A i \in 1 .. n : /\ committed[i].edge \in snapshotHash /\ committed[i].edge \in Edge
                        /\ HtHolds(dist, snapshotHash, committed[i].edge)
  BY <1>3, <1>4 DEF Eligible
<1> DEFINE R == [i \in DOMAIN committed |->
                   [epoch |-> 0, snapshot |-> snapshotHash, edge |-> committed[i].edge,
                    witness |-> NoWitness, method |-> 2, certificate |-> i - 1]]
           C == [i \in DOMAIN committed |->
                   [target |-> committed[i].edge, snapshot |-> snapshotHash]]
<1>6. /\ HtLog.initial = snapshotHash /\ HtLog.final = active
      /\ HtLog.proof = R /\ HtLog.certificates = C /\ HtLog.metrics = <<n>>
  BY DEF HtLog, ContentHash
<1>7. /\ DOMAIN R = 1 .. n /\ DOMAIN C = 1 .. n
      /\ \A i \in 1 .. n :
           /\ R[i] = [epoch |-> 0, snapshot |-> snapshotHash, edge |-> committed[i].edge,
                      witness |-> NoWitness, method |-> 2, certificate |-> i - 1]
           /\ C[i] = [target |-> committed[i].edge, snapshot |-> snapshotHash]
  BY <1>1
<1>8. R = [i \in 1 .. n |-> R[i]] /\ C = [i \in 1 .. n |-> C[i]]
  BY <1>1
<1> HIDE DEF n, R, C
<1>9. \A i \in 1 .. n : R[i] \in LogRecord /\ C[i] \in LogCertificate
  <2> TAKE i \in 1 .. n
  <2>1. committed[i].edge \in Edge /\ i - 1 \in Int /\ -1 \in Int /\ 2 \in Methods /\ 0 \in Nat
    BY <1>1, <1>5 DEF Methods
  <2> QED
    BY <1>3, <1>7, <2>1 DEF LogRecord, LogCertificate, NoWitness
<1>10. R \in Seq(LogRecord) /\ C \in Seq(LogCertificate) /\ Len(R) = n /\ Len(C) = n
  <2>1. \A i \in 1 .. n : R[i] \in LogRecord
    BY <1>9
  <2>2. \A i \in 1 .. n : C[i] \in LogCertificate
    BY <1>9
  <2>3. R \in Seq(LogRecord)
    <3>1. R \in [1 .. n -> LogRecord]
      BY <1>8, <2>1, ZenonT(20)
    <3>2. n \in Nat
      BY <1>1
    <3> QED
      BY <3>1, <3>2
  <2>4. C \in Seq(LogCertificate)
    <3>1. C \in [1 .. n -> LogCertificate]
      BY <1>8, <2>2, ZenonT(20)
    <3>2. n \in Nat
      BY <1>1
    <3> QED
      BY <3>1, <3>2
  <2> QED
    BY <1>1, <1>7, <2>3, <2>4
<1>11. LogTypes(HtLog)
  BY <1>3, <1>6, <1>10 DEF LogTypes
<1>12. HtRecord(HtLog) = 1 .. n
  BY <1>6, <1>7 DEF HtRecord, kJv
<1>13. \A i \in 1 .. n : Cardinality(HtBefore(HtLog, i)) = i - 1
  <2> TAKE i \in 1 .. n
  <2>1. \A j \in 1 .. i - 1 : j \in 1 .. n
    BY <1>1
  <2>2. HtBefore(HtLog, i) = 1 .. i - 1
    BY <1>6, <1>7, <2>1 DEF HtBefore, kJv
  <2>3. i - 1 \in Nat /\ 1 \in Int
    BY <1>1
  <2>4. Cardinality(1 .. i - 1) = IF 1 > i - 1 THEN 0 ELSE ((i - 1) - 1) + 1
    BY <2>3, FS_Interval
  <2> QED
    BY <2>2, <2>3, <2>4
<1>14. Container(HtLog)
  <2>1. /\ \A i \in HtRecord(HtLog) :
             /\ HtLog.proof[i].witness = -1
             /\ HtLog.proof[i].certificate + 1 = i
             /\ HtLog.proof[i].certificate = i - 1
             /\ HtLog.certificates[i].target = HtLog.proof[i].edge
             /\ HtLog.certificates[i].snapshot = HtLog.proof[i].snapshot
        /\ DOMAIN HtLog.certificates = 1 .. n
        /\ DOMAIN HtLog.proof \ HtRecord(HtLog) = {}
    BY <1>1, <1>6, <1>7, <1>12 DEF NoWitness
  <2>2. Cardinality(1 .. n) = n
    <3>1. Cardinality(1 .. n) = IF 1 > n THEN 0 ELSE (n - 1) + 1
      BY <1>1, FS_Interval
    <3> QED
      BY <1>1, <3>1
  <2>3. {HtLog.proof[i].certificate + 1 : i \in HtRecord(HtLog)} = 1 .. n
    BY <1>12, <2>1
  <2>4. \A i, j \in HtRecord(HtLog) :
          i # j => HtLog.proof[i].certificate # HtLog.proof[j].certificate
    BY <1>1, <1>12, <2>1
  <2>5. \A i \in HtRecord(HtLog) :
          HtLog.proof[i].certificate = Cardinality(HtBefore(HtLog, i))
    BY <1>12, <1>13, <2>1
  <2>6. Len(HtLog.certificates) = n
    BY <1>6, <1>10
  <2> QED
    BY <1>12, <2>1, <2>2, <2>3, <2>4, <2>5, <2>6 DEF Container
<1>15. RecordsCommit(dist, obstacles, snapshotHash, HtLog)
  <2>1. ASSUME NEW i \in 1 .. n
        PROVE  /\ R[i].epoch = 0 /\ R[i].snapshot = snapshotHash /\ R[i].edge = committed[i].edge
               /\ HeldOn(dist, obstacles, snapshotHash, R[i])
    BY <1>5, <1>7 DEF HeldOn, HtHolds, kJv
  <2> QED
    BY <1>2, <1>6, <1>7, <2>1 DEF RecordsCommit, n
<1>16. Good(dist, obstacles, HtLog)
  BY <1>2, <1>11, <1>14, <1>15, EpochGood
<1>17. NoTrailingEpoch(HtLog)
  <2>1. ASSUME n # 0 PROVE R # <<>> /\ 0 <= Last(R).epoch
    <3>1. n \in 1 .. n
      BY <1>1, <2>1
    <3>2. R # <<>>
      BY <1>7, <3>1
    <3> QED
      BY <1>7, <1>10, <3>1, <3>2 DEF Last
  <2>2. DOMAIN <<n>> = {1} /\ <<n>>[1] = n /\ 1 - 1 = 0
    OBVIOUS
  <2> QED
    BY <1>6, <2>1, <2>2 DEF NoTrailingEpoch
<1> QED
  BY <1>6, <1>16, <1>17

-----------------------------------------------------------------------------
(* The steps of the driver.                                                *)

(* The driver starts with an empty log, before any stage.                  *)
LEMMA LocalInitInv ==
  ASSUME LocalInit
  PROVE  LocalInv
<1>1. JvInv
  BY JvInitInv DEF LocalInit
<1>2. /\ obstacles \in Obstacles /\ localOptions \in LocalOptions /\ localPc = "jv"
      /\ offset = 0 /\ htEpoch = 0 /\ termination = "none" /\ graph = active
  BY DEF LocalInit
<1>3. combined = [initial |-> active, final |-> active, proof |-> <<>>,
                  certificates |-> <<>>, metrics |-> <<>>]
  BY DEF LocalInit, EmptyLog, ContentHash
<1>4. active \in SUBSET Edge /\ jvPc = "start"
  BY <1>1 DEF JvInv, CommitInv, CommitTypeOK, LocalInit, JvInit
<1>5. Good(dist, obstacles, combined)
  BY <1>3, <1>4, EmptyGood
<1>6. LoggedRun
  BY <1>2, <1>3, <1>5 DEF LoggedRun, IsLog
<1> QED
  BY <1>1, <1>2, <1>3, <1>4, <1>6
     DEF JvInv, LocalInv, LocalTypes, StageFollows, ScanFollows, CommitFollows, EndOfRun

(* Steps within a Jonker-Volgenant stage.                                  *)
LEMMA LocalJvInv ==
  ASSUME LocalInv, LocalJv
  PROVE  LocalInv'
<1>1. /\ localPc = "jv" /\ JvNext
      /\ UNCHANGED <<graph, obstacles, localOptions, localPc, combined, offset, htEpoch,
                     sweep, termination>>
  BY DEF LocalJv, localVars
<1>2. JvInv
  BY <1>1 DEF LocalInv, StageFollows, JvInv
<1>3. JvInv'
  BY <1>1, <1>2, JvNextInv
<1>4. dist' = dist
  BY <1>1 DEF JvNext, JvStep, JvStart, JvPropose, JvAbort, JvCommit, JvSweep, JvRecord, JvThrow,
     jvVars
<1>5. LocalTypes' /\ LoggedRun' /\ EndOfRun'
  <2>1. LocalTypes'
    BY <1>1 DEF LocalInv, LocalTypes
  <2>2. LoggedRun'
    BY <1>1, <1>4 DEF LocalInv, LoggedRun
  <2>3. EndOfRun'
    BY <1>1 DEF LocalInv, EndOfRun
  <2> QED
    BY <2>1, <2>2, <2>3
<1>6. /\ jvPc' # "start"
      /\ jvPc' \in {"propose", "verify", "commit", "done"} => combined.final = stage'.initial
  <2>1. /\ jvPc = "start" => combined.final = active
        /\ jvPc \in {"propose", "verify", "commit", "done"} => combined.final = stage.initial
    BY <1>1 DEF LocalInv, StageFollows
  <2>2. ASSUME NEW backend \in JvBackends, JvStart(backend)
        PROVE  jvPc' # "start" /\ combined.final = stage'.initial
    BY <2>1, <2>2 DEF JvStart, EmptyResult, ContentHash
  <2>3. ASSUME JvPropose \/ JvAbort \/ JvCommit \/ JvSweep \/ JvThrow
        PROVE  /\ jvPc' # "start" /\ stage' = stage
               /\ jvPc \in {"propose", "verify", "commit"}
    BY <2>3 DEF JvPropose, JvAbort, JvCommit, JvSweep, JvThrow, jvVars
  <2>4. ASSUME JvRecord
        PROVE  jvPc' # "start" /\ stage'.initial = stage.initial /\ jvPc = "commit"
    <3>1. PICK i, f, p, m : stage = [initial |-> i, final |-> f, proof |-> p, metrics |-> m]
      BY DEF LocalInv, JvLogged
    <3> QED
      BY <2>4, <3>1 DEF JvRecord
  <2> QED
    BY <1>1, <2>1, <2>2, <2>3, <2>4 DEF JvNext, JvStep
<1>7. StageFollows' /\ ScanFollows' /\ CommitFollows'
  <2>1. JvRunning' /\ localPc' = "jv" /\ offset' = 0 /\ combined' = combined
    BY <1>1, <1>3 DEF JvInv, LocalInv, StageFollows
  <2> QED
    BY <1>6, <2>1 DEF StageFollows, ScanFollows, CommitFollows
<1> QED
  BY <1>3, <1>5, <1>7 DEF JvInv, LocalInv

(* A step of the driver that leaves the stages alone.                      *)
LEMMA StagesStay ==
  ASSUME CommitInv, JvLogged, UNCHANGED allJvVars
  PROVE  CommitInv' /\ JvLogged'
<1>1. UNCHANGED commitVars /\ UNCHANGED <<dist, jvPc, stage, epoch, useCuda, proposed>>
  BY DEF allJvVars, commitVars
<1>2. CommitInv'
  BY <1>1, CommitStutters
<1>3. JvLogged'
  <2>1. \A c \in proposed' : \E e, w : c = JvCandidate(e, w)
    BY <1>1 DEF JvLogged
  <2> QED
    BY <1>1, <2>1, LoggedStays
<1> QED
  BY <1>2, <1>3

(* An exception leaves the caller's graph and the log as they were.        *)
LEMMA LocalThrowsInv ==
  ASSUME LocalInv, JvStageThrows \/ ScanThrows \/ HtStageThrows
  PROVE  LocalInv'
<1>1. /\ UNCHANGED allJvVars
      /\ UNCHANGED <<graph, obstacles, localOptions, combined, offset, htEpoch>>
      /\ localPc' = "threw" /\ termination' = "stage-threw" /\ localPc \in {"jv", "scan", "commit"}
  BY DEF JvStageThrows, ScanThrows, HtStageThrows, LocalThrow
<1>2. CommitInv' /\ JvLogged'
  BY <1>1, StagesStay DEF LocalInv
<1>3. dist' = dist
  BY <1>1 DEF allJvVars
<1>4. LoggedRun'
  BY <1>1, <1>3 DEF LocalInv, LoggedRun
<1> QED
  BY <1>1, <1>2, <1>4
     DEF LocalInv, LocalTypes, StageFollows, ScanFollows, CommitFollows, EndOfRun

(* The stage is logged: the driver returns, or scans the graph it left.    *)
LEMMA JvStageReturnsInv ==
  ASSUME LocalInv, JvStageReturns
  PROVE  LocalInv'
<1>1. /\ localPc = "jv" /\ jvPc = "done" /\ UNCHANGED allJvVars
      /\ UNCHANGED <<obstacles, localOptions, offset, htEpoch, sweep>>
  BY DEF JvStageReturns
<1>2. /\ JvRunning /\ JvLogged /\ CommitInv /\ offset = 0 /\ combined.final = stage.initial
      /\ IsLog(combined) /\ Good(dist, obstacles, combined) /\ combined.initial = graph
      /\ LocalTypes /\ termination = "none"
  BY <1>1 DEF LocalInv, StageFollows, LoggedRun, EndOfRun
<1>3. /\ phase = "idle" /\ stage.final = active
      /\ HonestProposers /\ Last(stage.metrics) = 0 => FindJvCandidates(dist, active, active) = {}
  BY <1>1, <1>2 DEF JvRunning
<1>4. Good(dist, obstacles, JvLog) /\ NoTrailingEpoch(JvLog)
  BY <1>2, JvStageLog
<1>5. JvLog.initial = stage.initial /\ JvLog.final = active /\ JvLog.metrics = stage.metrics
  BY <1>3 DEF JvLog
<1>6. Appendable(combined, JvLog)
  BY <1>2, <1>4, <1>5, StageAppendable
<1>7. PICK J : J = AppendStage(combined, JvLog)
  OBVIOUS
<1>8. IsLog(J) /\ Good(dist, obstacles, J) /\ J.initial = graph /\ J.final = active
  BY <1>2, <1>4, <1>5, <1>7, StageAppended
<1>9. /\ combined' = J
      /\ \/ LocalReturn("jv-round-limit") \/ LocalReturn("ht-epoch-limit")
         \/ Last(stage.metrics) = 0 /\ LocalGoesOn("scan")
  BY <1>6, <1>7 DEF JvStageReturns
<1>10. CommitInv' /\ JvLogged'
  BY <1>1, <1>2, StagesStay
<1>11. UNCHANGED <<dist, active, phase>>
  BY <1>1 DEF allJvVars
<1>12. LocalTypes'
  BY <1>1, <1>2, <1>9 DEF LocalTypes, LocalReturn, LocalGoesOn
<1>13. CASE LocalReturn("jv-round-limit") \/ LocalReturn("ht-epoch-limit")
  <2>1. /\ localPc' = "returned" /\ graph' = active
        /\ termination' \in {"jv-round-limit", "ht-epoch-limit"}
    BY <1>13 DEF LocalReturn
  <2>2. LoggedRun'
    BY <1>1, <1>8, <1>9, <1>11, <2>1 DEF LoggedRun
  <2> QED
    BY <1>10, <1>12, <2>1, <2>2 DEF LocalInv, StageFollows, ScanFollows, CommitFollows, EndOfRun
<1>14. CASE Last(stage.metrics) = 0 /\ LocalGoesOn("scan")
  <2>1. localPc' = "scan" /\ graph' = graph /\ termination' = "none"
    BY <1>2, <1>14 DEF LocalGoesOn
  <2>2. LoggedRun'
    BY <1>1, <1>8, <1>9, <1>11, <2>1 DEF LoggedRun
  <2>3. Searched(active)'
    <3>1. offset' = 0
      BY <1>1, <1>2
    <3>2. \A i \in (DOMAIN TargetsOf(active))' :
            i \in 0 .. (Cardinality(Eligible(active, active)))' - 1
      BY DEF TargetsOf, InOrder
    <3>3. \A i \in (DOMAIN TargetsOf(active))' : ~ (i < 0)
      BY <3>2
    <3> QED
      BY <3>1, <3>3 DEF Searched
  <2>4. NoWitnessLeft(active)'
    BY <1>3, <1>11, <1>14 DEF NoWitnessLeft
  <2>5. phase' = "idle" /\ combined'.final = active'
    BY <1>3, <1>8, <1>9, <1>11
  <2>6. ScanFollows'
    BY <2>3, <2>4, <2>5 DEF ScanFollows
  <2> QED
    BY <1>10, <1>12, <2>1, <2>2, <2>6 DEF LocalInv, StageFollows, CommitFollows, EndOfRun
<1> QED
  BY <1>9, <1>13, <1>14

(* A slice is searched, and what is proven goes to the commit.             *)
LEMMA ScanSliceInv ==
  ASSUME LocalInv, ScanSlice
  PROVE  LocalInv'
<1>1. /\ localPc = "scan" /\ localPc' = "commit" /\ snapshotHash' = ContentHash(active)
      /\ UNCHANGED <<dist, jvPc, useCuda, epoch, proposed, stage>>
      /\ UNCHANGED <<graph, obstacles, localOptions, combined, offset, htEpoch, termination>>
  BY DEF ScanSlice, jvVars
<1>2. /\ CommitInv /\ JvLogged /\ LocalTypes /\ LoggedRun /\ csr = active /\ active \in SUBSET Edge
      /\ combined.final = active /\ Searched(active) /\ NoWitnessLeft(active)
      /\ termination = "none"
  BY <1>1 DEF LocalInv, ScanFollows, EndOfRun, CommitInv, CsrFresh, CommitTypeOK
<1>3. /\ sweep' = [eligible |-> Cardinality(Eligible(active, active)),
                   attempted |-> Cardinality(DOMAIN SliceOf(active))]
      /\ BeginCommit(HtCandidates(SliceOf(active)), ContentHash(active))
  BY <1>2 DEF ScanSlice, SliceOf, TargetsOf
<1>4. PICK P : P = {[edge |-> e, witness |-> NoWitness, method |-> 2] : e \in ProvenOn(active)}
  OBVIOUS
<1>5. HtCandidates(SliceOf(active)) = P
  BY <1>4 DEF HtCandidates, ProvenOn
<1>6. ProvenOn(active) \subseteq Edge
  <2>1. ProvenOn(active) \subseteq Eligible(active, active)
    BY <1>2, ProvenEligible DEF JvLogged
  <2> QED
    BY <1>2, <2>1 DEF Eligible
<1>7. P \in SUBSET Candidate
  <2> SUFFICES ASSUME NEW c \in P PROVE c \in Candidate
    OBVIOUS
  <2>1. PICK e \in ProvenOn(active) : c = [edge |-> e, witness |-> NoWitness, method |-> 2]
    BY <1>4
  <2>2. e \in Int /\ 2 \in Int
    BY <1>6, SnapshotAssumption DEF Edge
  <2> QED
    BY <2>1, <2>2 DEF Candidate
<1>8. BeginCommit(P, ContentHash(active)) /\ active' = active
  BY <1>3, <1>5 DEF BeginCommit, graphVars
<1>9. CommitInv'
  BY <1>1, <1>2, <1>7, <1>8, BeginInv
<1>10. Batch(P)'
  BY <1>1, <1>7, <1>8, BatchBegins
<1>11. PICK g : g = active
  OBVIOUS
<1>12. snapshotHash' = g
  BY <1>1, <1>11 DEF ContentHash
<1>13. /\ SliceOf(snapshotHash)' = SliceOf(g) /\ ProvenOn(snapshotHash)' = ProvenOn(g)
       /\ Searched(snapshotHash)' = Searched(g)
       /\ Eligible(snapshotHash, snapshotHash)' = Eligible(g, g)
       /\ NoWitnessLeft(snapshotHash)' = NoWitnessLeft(g)
  BY <1>1, <1>12 DEF SliceOf, ProvenOn, Searched, NoWitnessLeft, TargetsOf, HtHolds, EdgeWeights
<1>14. HtBatch' = P
  BY <1>4, <1>11, <1>13 DEF HtBatch
<1>15. JvLogged'
  <2>1. \A c \in proposed' : \E e, w : c = JvCandidate(e, w)
    BY <1>1, <1>2 DEF JvLogged
  <2> QED
    BY <1>1, <1>2, <2>1, LoggedStays
<1>16. LoggedRun' /\ LocalTypes'
  BY <1>1, <1>2 DEF LoggedRun, LocalTypes
<1>17. CommitFollows'
  <2>1. Batch(HtBatch)'
    BY <1>10, <1>14 DEF Batch
  <2>2. Searched(snapshotHash)' /\ NoWitnessLeft(snapshotHash)'
    BY <1>2, <1>11, <1>13
  <2>3. combined'.final = snapshotHash'
    BY <1>1, <1>2 DEF ContentHash
  <2>4. sweep' = [eligible |-> Cardinality(Eligible(snapshotHash, snapshotHash)),
                  attempted |-> Cardinality(DOMAIN SliceOf(snapshotHash))]'
    BY <1>3, <1>11, <1>13
  <2> QED
    BY <2>1, <2>2, <2>3, <2>4 DEF CommitFollows
<1> QED
  BY <1>1, <1>2, <1>9, <1>15, <1>16, <1>17 DEF LocalInv, StageFollows, ScanFollows, EndOfRun

(* The loop of the commit.                                                 *)
LEMMA HtSweepInv ==
  ASSUME LocalInv, HtSweep
  PROVE  LocalInv'
<1>1. /\ localPc = "commit" /\ Sweep /\ snapshotHash' = snapshotHash
      /\ UNCHANGED <<dist, jvPc, useCuda, epoch, proposed, stage>>
      /\ UNCHANGED <<graph, obstacles, localOptions, localPc, combined, offset, htEpoch, sweep,
                     termination>>
  BY DEF HtSweep, jvVars, localVars
<1>2. PICK P : P = HtBatch
  OBVIOUS
<1>3. CommitInv' /\ Batch(P)'
  <2>1. Batch(P)
    BY <1>1, <1>2 DEF LocalInv, CommitFollows
  <2> QED
    BY <1>1, <2>1, SweepKeeps DEF LocalInv
<1>4. HtBatch' = P
  BY <1>1, <1>2 DEF HtBatch, ProvenOn, SliceOf, TargetsOf, HtHolds, EdgeWeights
<1>5. JvLogged'
  <2>1. \A c \in proposed' : \E e, w : c = JvCandidate(e, w)
    BY <1>1 DEF LocalInv, JvLogged
  <2> QED
    BY <1>1, <2>1, LoggedStays DEF LocalInv
<1>6. LoggedRun' /\ LocalTypes' /\ EndOfRun'
  BY <1>1 DEF LocalInv, LoggedRun, LocalTypes, EndOfRun
<1>7. CommitFollows'
  <2>1. Batch(HtBatch)'
    BY <1>3, <1>4 DEF Batch
  <2>2. /\ SliceOf(snapshotHash)' = SliceOf(snapshotHash)
        /\ Searched(snapshotHash)' = Searched(snapshotHash)
        /\ NoWitnessLeft(snapshotHash)' = NoWitnessLeft(snapshotHash)
    BY <1>1 DEF SliceOf, Searched, NoWitnessLeft, TargetsOf, HtHolds, EdgeWeights
  <2> QED
    BY <1>1, <2>1, <2>2 DEF LocalInv, CommitFollows
<1> QED
  BY <1>1, <1>3, <1>5, <1>6, <1>7 DEF LocalInv, StageFollows, ScanFollows

(* A finished scan: what was deleted is the greedy subset of what was      *)
(* proven, and if nothing was proven the search has moved on.              *)
LEMMA ScanFinished ==
  ASSUME LocalInv, localPc = "commit", phase = "idle", result = "committed"
  PROVE  /\ Good(dist, obstacles, HtLog) /\ NoTrailingEpoch(HtLog)
         /\ HtLog.initial = combined.final /\ HtLog.final = active
         /\ Appendable(combined, HtLog)
         /\ committed # <<>> => active # combined.final /\ active \subseteq combined.final
         /\ committed = <<>> =>
              /\ active = snapshotHash /\ active = combined.final
              /\ offset \in Nat /\ sweep.attempted \in Nat /\ sweep.eligible \in Nat
              /\ sweep.eligible = Cardinality(Eligible(active, active))
              /\ offset + sweep.attempted <= sweep.eligible
              /\ sweep.attempted = 0 => offset = sweep.eligible
              /\ \A i \in DOMAIN TargetsOf(active) :
                   i < offset + sweep.attempted => ~ HtHolds(dist, active, TargetsOf(active)[i])
              /\ offset + sweep.attempted = sweep.eligible => NoTargetLeft(active)
<1>1. /\ CommitInv /\ JvLogged /\ LocalTypes /\ Batch(HtBatch) /\ combined.final = snapshotHash
      /\ Searched(snapshotHash) /\ snapshotHash \in SUBSET Edge
      /\ sweep = [eligible |-> Cardinality(Eligible(snapshotHash, snapshotHash)),
                  attempted |-> Cardinality(DOMAIN SliceOf(snapshotHash))]
  BY DEF LocalInv, CommitFollows, CommitInv, CommitTypeOK
<1>2. /\ ProvenOn(snapshotHash) \subseteq Eligible(snapshotHash, snapshotHash)
      /\ \A e \in ProvenOn(snapshotHash) : HtHolds(dist, snapshotHash, e)
  BY <1>1, ProvenEligible DEF JvLogged
<1>3. /\ Good(dist, obstacles, HtLog) /\ NoTrailingEpoch(HtLog)
      /\ HtLog.initial = combined.final /\ HtLog.final = active
  BY <1>1, <1>2, HtStageLog
<1>4. Appendable(combined, HtLog)
  BY <1>3, StageAppendable
<1>5. /\ GreedySubset(Committed, EdgesOf(HtBatch), snapshotHash)
      /\ Committed \subseteq snapshotHash /\ active = snapshotHash \ Committed
  BY <1>1 DEF Batch
<1>6. EdgesOf(HtBatch) = ProvenOn(snapshotHash)
  <2>1. PICK Q : Q = ProvenOn(snapshotHash)
    OBVIOUS
  <2>2. HtBatch = {[edge |-> e, witness |-> NoWitness, method |-> 2] : e \in Q}
    BY <2>1 DEF HtBatch
  <2>3. ASSUME NEW e \in Q PROVE \E c \in HtBatch : c.edge = e
    <3>1. PICK c : c = [edge |-> e, witness |-> NoWitness, method |-> 2]
      OBVIOUS
    <3>2. c \in HtBatch /\ c.edge = e
      BY <2>2, <3>1
    <3> QED
      BY <3>2
  <2>4. \A c \in HtBatch : c.edge \in Q
    BY <2>2
  <2> QED
    BY <2>1, <2>3, <2>4 DEF EdgesOf
<1>7. ASSUME committed # <<>>
      PROVE  active # combined.final /\ active \subseteq combined.final
  <2>1. committed \in Seq(Candidate)
    BY <1>1 DEF CommitInv, CommitTypeOK
  <2>2. Len(committed) \in DOMAIN committed
    BY <1>7, <2>1, NonEmptySeq
  <2>3. committed[Len(committed)].edge \in Committed
    BY <2>2 DEF Committed
  <2> QED
    BY <1>1, <1>5, <2>3
<1>8. ASSUME committed = <<>>
      PROVE  active = snapshotHash /\ ProvenOn(snapshotHash) = {}
  <2>1. Committed = {}
    <3>1. DOMAIN committed = {}
      BY <1>8
    <3> QED
      BY <3>1 DEF Committed
  <2>2. HtBatch = {}
    BY <1>1, <1>2, <1>5, <1>6, <1>8, NothingCommitted
  <2>3. EdgesOf(HtBatch) = {}
    BY <2>2 DEF EdgesOf
  <2> QED
    BY <1>5, <1>6, <2>1, <2>3
<1>9. PICK n, k : /\ n = Cardinality(Eligible(snapshotHash, snapshotHash))
                  /\ k = Cardinality(DOMAIN SliceOf(snapshotHash))
  OBVIOUS
<1>10. sweep.eligible = n /\ sweep.attempted = k
  BY <1>1, <1>9
<1>11. ASSUME committed = <<>>
       PROVE  /\ n \in Nat /\ k \in Nat /\ offset + k <= n /\ (k = 0 => offset = n)
              /\ \A i \in DOMAIN TargetsOf(snapshotHash) :
                   i < offset + k => ~ HtHolds(dist, snapshotHash, TargetsOf(snapshotHash)[i])
              /\ offset + k = n => NoTargetLeft(snapshotHash)
  <2>1. ProvenOn(snapshotHash) = {}
    BY <1>8, <1>11
  <2>2. dist \in Metrics
    BY <1>1 DEF JvLogged
  <2>3. PICK g \in SUBSET Edge : g = snapshotHash
    BY <1>1
  <2>4. Searched(g) /\ ProvenOn(g) = {} /\ n = Cardinality(Eligible(g, g))
        /\ k = Cardinality(DOMAIN SliceOf(g))
    BY <1>1, <1>9, <2>1, <2>3
  <2>5. /\ n \in Nat /\ k \in Nat /\ offset + k <= n /\ (k = 0 => offset = n)
        /\ \A i \in DOMAIN TargetsOf(g) :
             i < offset + k => ~ HtHolds(dist, g, TargetsOf(g)[i])
        /\ offset + k = n => NoTargetLeft(g)
    BY <1>1, <2>2, <2>4, NothingProven
  <2> QED
    BY <2>3, <2>5
<1>12. offset \in Nat
  BY <1>1 DEF LocalTypes
<1>13. ASSUME committed = <<>>
       PROVE  /\ active = snapshotHash /\ active = combined.final
              /\ offset \in Nat /\ sweep.attempted \in Nat /\ sweep.eligible \in Nat
              /\ sweep.eligible = Cardinality(Eligible(active, active))
              /\ offset + sweep.attempted <= sweep.eligible
              /\ sweep.attempted = 0 => offset = sweep.eligible
              /\ \A i \in DOMAIN TargetsOf(active) :
                   i < offset + sweep.attempted => ~ HtHolds(dist, active, TargetsOf(active)[i])
              /\ offset + sweep.attempted = sweep.eligible => NoTargetLeft(active)
  BY <1>1, <1>8, <1>9, <1>10, <1>11, <1>12, <1>13
<1> QED
  BY <1>3, <1>4, <1>7, <1>13

(* The scan is logged: back to the rounds, on to the next slice, or done.  *)
LEMMA HtStageReturnsInv ==
  ASSUME LocalInv, HtStageReturns
  PROVE  LocalInv'
<1>1. /\ localPc = "commit" /\ phase = "idle" /\ result = "committed" /\ htEpoch' = htEpoch + 1
      /\ UNCHANGED <<commitVars, dist, useCuda, epoch, proposed, stage>>
      /\ UNCHANGED <<obstacles, localOptions, sweep>>
  BY DEF HtStageReturns
<1>2. /\ CommitInv /\ JvLogged /\ LocalTypes /\ combined.final = snapshotHash
      /\ IsLog(combined) /\ Good(dist, obstacles, combined) /\ combined.initial = graph
      /\ NoWitnessLeft(snapshotHash) /\ termination = "none"
  BY <1>1 DEF LocalInv, CommitFollows, LoggedRun, EndOfRun
<1>3. /\ Good(dist, obstacles, HtLog) /\ HtLog.initial = combined.final /\ HtLog.final = active
      /\ Appendable(combined, HtLog)
  BY <1>1, ScanFinished
<1>4. PICK J : J = AppendStage(combined, HtLog)
  OBVIOUS
<1>5. IsLog(J) /\ Good(dist, obstacles, J) /\ J.initial = graph /\ J.final = active
  BY <1>2, <1>3, <1>4, StageAppended
<1>6. /\ combined' = J
      /\ IF committed # <<>> THEN ScanDeleted ELSE ScanFoundNothing
  BY <1>3, <1>4 DEF HtStageReturns
<1>7. CommitInv'
  BY <1>1, <1>2, CommitStutters
<1>8. UNCHANGED <<active, phase>>
  BY <1>1 DEF commitVars
<1>9. /\ jvPc' \in {"propose", "verify", "commit"} => jvPc \in {"propose", "verify", "commit"}
      /\ jvPc' = "done" => jvPc = "done"
  BY <1>6 DEF ScanDeleted, ScanFoundNothing
<1>10. JvLogged'
  <2>1. \A c \in proposed' : \E e, w : c = JvCandidate(e, w)
    BY <1>1, <1>2 DEF JvLogged
  <2> QED
    BY <1>1, <1>2, <1>9, <2>1, LoggedStays
<1>11. /\ obstacles' \in Obstacles /\ localOptions' \in LocalOptions
       /\ offset \in Nat /\ htEpoch' \in Nat
  BY <1>1, <1>2 DEF LocalTypes
<1>12. IsLog(combined)' /\ Good(dist, obstacles, combined)' /\ combined'.initial = graph
       /\ combined'.final = active'
  BY <1>1, <1>5, <1>6, <1>8
<1>13. CASE committed # <<>>
  <2>1. offset' = 0 /\ jvPc' = "start" /\ localPc' = "jv" /\ UNCHANGED <<graph, termination>>
    BY <1>6, <1>13 DEF ScanDeleted, LocalGoesOn
  <2>2. LocalTypes' /\ LoggedRun'
    BY <1>11, <1>12, <2>1 DEF LocalTypes, LoggedRun
  <2>3. StageFollows'
    BY <1>1, <1>8, <1>12, <2>1 DEF StageFollows, JvRunning
  <2> QED
    BY <1>2, <1>7, <1>10, <2>1, <2>2, <2>3 DEF LocalInv, ScanFollows, CommitFollows, EndOfRun
<1>14. CASE committed = <<>>
  <2>1. /\ active = snapshotHash
        /\ offset \in Nat /\ sweep.attempted \in Nat /\ sweep.eligible \in Nat
        /\ sweep.eligible = Cardinality(Eligible(active, active))
        /\ offset + sweep.attempted <= sweep.eligible
        /\ sweep.attempted = 0 => offset = sweep.eligible
        /\ \A i \in DOMAIN TargetsOf(active) :
             i < offset + sweep.attempted => ~ HtHolds(dist, active, TargetsOf(active)[i])
        /\ offset + sweep.attempted = sweep.eligible => NoTargetLeft(active)
    BY <1>1, <1>14, ScanFinished
  <2>2. PICK g : g = active
    OBVIOUS
  <2>3. active' = g /\ snapshotHash = g
    BY <1>8, <2>1, <2>2
  <2>4. /\ NoTargetLeft(active)' = NoTargetLeft(g) /\ NoWitnessLeft(active)' = NoWitnessLeft(g)
    BY <1>1, <2>3 DEF NoTargetLeft, NoWitnessLeft, HtHolds
  <2>5. /\ offset' = offset + sweep.attempted /\ offset' \in Nat
        /\ \/ offset' = sweep.eligible /\ LocalReturn("converged")
           \/ offset' # sweep.eligible /\ LocalReturn("ht-epoch-limit")
           \/ offset' # sweep.eligible /\ LocalGoesOn("scan")
    BY <1>6, <1>14, <2>1 DEF ScanFoundNothing
  <2>6. ASSUME NEW why, LocalReturn(why), why \in {"converged", "ht-epoch-limit"},
               why = "converged" => NoWitnessLeft(g) /\ NoTargetLeft(g)
        PROVE  LocalInv'
    <3>1. localPc' = "returned" /\ graph' = g /\ termination' = why
      BY <2>2, <2>6 DEF LocalReturn
    <3>2. LocalTypes' /\ LoggedRun'
      BY <1>11, <1>12, <2>3, <2>5, <3>1 DEF LocalTypes, LoggedRun
    <3>3. NoTargetLeft(graph)' = NoTargetLeft(g) /\ NoWitnessLeft(graph)' = NoWitnessLeft(g)
      BY <1>1, <3>1 DEF NoTargetLeft, NoWitnessLeft, HtHolds
    <3>4. EndOfRun'
      BY <2>6, <3>1, <3>3 DEF EndOfRun
    <3> QED
      BY <1>7, <1>10, <3>1, <3>2, <3>4 DEF LocalInv, StageFollows, ScanFollows, CommitFollows
  <2>7. ASSUME offset' # sweep.eligible, LocalGoesOn("scan")
        PROVE  LocalInv'
    <3>1. localPc' = "scan" /\ UNCHANGED <<graph, termination>>
      BY <2>7 DEF LocalGoesOn
    <3>2. LocalTypes' /\ LoggedRun'
      BY <1>11, <1>12, <2>5, <3>1 DEF LocalTypes, LoggedRun
    <3>3. Searched(active)'
      <4>1. offset' < Cardinality(Eligible(g, g))
        BY <2>1, <2>2, <2>5, <2>7
      <4>2. \A i \in DOMAIN TargetsOf(g) : i < offset' => ~ HtHolds(dist, g, TargetsOf(g)[i])
        BY <2>1, <2>2, <2>5
      <4>3. Searched(active)' =
              /\ offset' = 0 \/ offset' < Cardinality(Eligible(g, g))
              /\ \A i \in DOMAIN TargetsOf(g) :
                   i < offset' => ~ HtHolds(dist, g, TargetsOf(g)[i])
        BY <1>1, <2>3 DEF Searched, TargetsOf, HtHolds, EdgeWeights
      <4> QED
        BY <4>1, <4>2, <4>3
    <3>4. ScanFollows'
      BY <1>1, <1>2, <1>8, <1>12, <2>3, <2>4, <3>3 DEF ScanFollows
    <3> QED
      BY <1>2, <1>7, <1>10, <3>1, <3>2, <3>4 DEF LocalInv, StageFollows, CommitFollows, EndOfRun
  <2>8. offset' = sweep.eligible => NoWitnessLeft(g) /\ NoTargetLeft(g)
    BY <1>2, <2>1, <2>2, <2>3, <2>5
  <2> QED
    BY <2>5, <2>6, <2>7, <2>8
<1> QED
  BY <1>13, <1>14

(* Every step of the driver keeps its invariant.                           *)
LEMMA LocalNextInv ==
  ASSUME LocalInv, [LocalNext]_allLocalVars
  PROVE  LocalInv'
<1>1. CASE LocalStep
  BY <1>1, LocalJvInv, JvStageReturnsInv, LocalThrowsInv, ScanSliceInv, HtSweepInv,
     HtStageReturnsInv DEF LocalStep
<1>2. CASE UNCHANGED allLocalVars
  <2>1. /\ UNCHANGED allJvVars
        /\ UNCHANGED <<graph, obstacles, localOptions, localPc, combined, offset, htEpoch, sweep,
                       termination>>
    BY <1>2 DEF allLocalVars, allJvVars
  <2>2. CommitInv' /\ JvLogged'
    BY <2>1, StagesStay DEF LocalInv
  <2>3. UNCHANGED <<active, csr, snapshotHash, phase, queue, committed, result, dist, jvPc, stage,
                    proposed>>
    BY <2>1 DEF allJvVars
  <2>4. LocalTypes' /\ LoggedRun'
    BY <2>1, <2>3 DEF LocalInv, LocalTypes, LoggedRun
  <2>5. EndOfRun'
    BY <2>1, <2>3 DEF LocalInv, EndOfRun, NoWitnessLeft, NoTargetLeft, HtHolds
  <2>6. StageFollows'
    <3>1. JvRunning => JvRunning'
      <4>1. JvInv /\ JvRunning => JvInv'
        BY <2>1, JvStutters
      <4> QED
        BY <4>1 DEF JvInv, LocalInv
    <3> QED
      BY <2>1, <2>3, <3>1 DEF LocalInv, StageFollows
  <2>7. /\ Searched(active)' = Searched(active) /\ NoWitnessLeft(active)' = NoWitnessLeft(active)
        /\ Searched(snapshotHash)' = Searched(snapshotHash)
        /\ NoWitnessLeft(snapshotHash)' = NoWitnessLeft(snapshotHash)
        /\ SliceOf(snapshotHash)' = SliceOf(snapshotHash)
        /\ HtBatch' = HtBatch
    BY <2>1, <2>3 DEF Searched, NoWitnessLeft, SliceOf, TargetsOf, HtHolds, EdgeWeights, HtBatch,
       ProvenOn
  <2>8. ScanFollows'
    BY <2>1, <2>3, <2>7 DEF LocalInv, ScanFollows
  <2>9. CommitFollows'
    <3>1. Committed' = Committed
      BY <2>3 DEF Committed
    <3>2. Batch(HtBatch) => Batch(HtBatch)'
      BY <2>3, <2>7, <3>1 DEF Batch, GreedyOver
    <3> QED
      BY <2>1, <2>3, <2>7, <3>2 DEF LocalInv, CommitFollows
  <2> QED
    BY <2>2, <2>4, <2>5, <2>6, <2>8, <2>9 DEF LocalInv
<1> QED
  BY <1>1, <1>2 DEF LocalNext, Ended

(* The driver keeps one log from which its working copy follows, a scan is *)
(* never left with an unsearched gap before its offset, and the stages     *)
(* agree on the graph they hand over.                                      *)
THEOREM LocalInvariant == LocalSpec => []LocalInv
<1>1. LocalInit => LocalInv
  BY LocalInitInv
<1>2. LocalInv /\ [LocalNext]_allLocalVars => LocalInv'
  BY LocalNextInv
<1> QED
  BY <1>1, <1>2, PTL DEF LocalSpec

(* The combined log of a run that returns replays from the initial graph   *)
(* to the graph that is returned; a run that has not returned leaves the   *)
(* caller's graph alone (local_elimination.cpp:32-108 against              *)
(* jv_elimination.cpp:525-605).                                            *)
THEOREM LocalRunReplays == LocalSpec => []RunReplays
<1>1. LocalInv => RunReplays
  <2> SUFFICES ASSUME LocalInv PROVE RunReplays
    OBVIOUS
  <2>1. Replay!ReplayProof(dist, combined.initial, combined)
    BY ReplayAccepts DEF LocalInv, LoggedRun
  <2> QED
    BY <2>1 DEF RunReplays, LocalInv, LoggedRun, ContentHash
<1> QED
  BY <1>1, LocalInvariant, PTL

(* AppendEliminationStage accepts the log of every stage, and a slice is   *)
(* empty only when all targets were searched, so neither exception of the  *)
(* driver for an internal error is ever thrown                             *)
(* (local_elimination.cpp:34-66, 256-259).                                 *)
THEOREM NoInternalError == LocalSpec => [](termination # "internal-error")
<1>1. LocalInv => termination # "internal-error"
  BY DEF LocalInv, EndOfRun
<1> QED
  BY <1>1, LocalInvariant, PTL

(* Every finished scan deletes an edge or moves on                         *)
(* (local_elimination.cpp:242-264).                                        *)
THEOREM LocalScanProgress == LocalSpec => ScanProgress
<1>1. LocalInv /\ [LocalNext]_allLocalVars =>
        [htEpoch' # htEpoch =>
           \/ active # combined.final /\ active \subseteq combined.final
           \/ active = combined.final /\ (offset' > offset \/ sweep.eligible = 0)]_htEpoch
  <2> SUFFICES ASSUME LocalInv, [LocalNext]_allLocalVars, htEpoch' # htEpoch
               PROVE  \/ active # combined.final /\ active \subseteq combined.final
                      \/ active = combined.final /\ (offset' > offset \/ sweep.eligible = 0)
    OBVIOUS
  <2>1. HtStageReturns
    BY DEF LocalNext, LocalStep, Ended, allLocalVars, LocalJv, localVars, JvStageReturns,
       JvStageThrows, ScanSlice, ScanThrows, HtSweep, HtStageThrows
  <2>2. localPc = "commit" /\ phase = "idle" /\ result = "committed"
    BY <2>1 DEF HtStageReturns
  <2>3. CASE committed # <<>>
    BY <2>2, <2>3, ScanFinished
  <2>4. CASE committed = <<>>
    <3>1. /\ active = combined.final
          /\ offset \in Nat /\ sweep.attempted \in Nat /\ sweep.eligible \in Nat
          /\ sweep.attempted = 0 => offset = sweep.eligible
      BY <2>2, <2>4, ScanFinished
    <3>2. ScanFoundNothing
      BY <2>1, <2>2, <2>4, ScanFinished DEF HtStageReturns
    <3>3. offset' = offset + sweep.attempted
      BY <3>2 DEF ScanFoundNothing
    <3>4. sweep.attempted = 0 => sweep.eligible = 0
      <4>1. offset = 0 \/ offset < Cardinality(Eligible(snapshotHash, snapshotHash))
        BY <2>2 DEF LocalInv, CommitFollows, Searched
      <4>2. sweep.eligible = Cardinality(Eligible(snapshotHash, snapshotHash))
        BY <2>2 DEF LocalInv, CommitFollows
      <4> QED
        BY <3>1, <4>1, <4>2
    <3> QED
      BY <3>1, <3>3, <3>4
  <2> QED
    BY <2>3, <2>4
<1> QED
  BY <1>1, LocalInvariant, PTL DEF LocalSpec, ScanProgress

(* "converged": no eligible target of the returned graph is provable,      *)
(* although slices were searched one at a time and deletions came in       *)
(* between, whatever a device left in a slot of its answer                 *)
(* (local_elimination.cpp:227-265).                                        *)
THEOREM ConvergedScan ==
  LocalSpec => [](termination = "converged" =>
                    \A e \in Eligible(graph, graph) : ~ HtHolds(dist, graph, e))
<1>1. LocalInv => (termination = "converged" =>
                     \A e \in Eligible(graph, graph) : ~ HtHolds(dist, graph, e))
  BY DEF LocalInv, EndOfRun, NoTargetLeft
<1> QED
  BY <1>1, LocalInvariant, PTL

(* The other half of "converged" needs a proposer that hides nothing: what *)
(* a device proposes is rechecked, what it does not propose is not looked  *)
(* for (jv_elimination.cpp:282-315).                                       *)
THEOREM ConvergedRun == HonestProposers => (LocalSpec => []ConvergedIsFixedPoint)
<1> SUFFICES ASSUME HonestProposers PROVE LocalSpec => []ConvergedIsFixedPoint
  OBVIOUS
<1>1. LocalInv => ConvergedIsFixedPoint
  BY DEF LocalInv, EndOfRun, NoTargetLeft, NoWitnessLeft, ConvergedIsFixedPoint
<1> QED
  BY <1>1, LocalInvariant, PTL
=============================================================================
