----------------------------- MODULE ProofReplay -----------------------------
(***************************************************************************)
(* The independent replay of an elimination proof (ValidateProofContainer  *)
(* and ReplayProof, src/cpu/jv_elimination.cpp) as a pure function of the  *)
(* initial graph and the log.  A log is a record                           *)
(*   initial, final : hashes,                                              *)
(*   proof : records [epoch, snapshot, edge, witness, method, certificate],*)
(*   certificates : Hamilton-Tutte proofs [target, snapshot, text, holds], *)
(*   metrics : a number for each epoch.                                    *)
(***************************************************************************)
EXTENDS JvRule

\* Whether a tree of moves and replies eliminates edge e on graph g with
\* distances d: HtHolds(d, g, e).
CONSTANT HtHolds(_, _, _)

NoCertificateIndex == -1

ProofRecord == [epoch : Nat, snapshot : SUBSET Edge, edge : Int, witness : Int,
                method : Int, certificate : Int]
HtRecursiveProof == [target : Int, snapshot : SUBSET Edge, text : Nat, holds : BOOLEAN]
EliminationResult ==
  [initial : SUBSET Edge, final : SUBSET Edge, proof : Seq(ProofRecord),
   certificates : Seq(HtRecursiveProof), metrics : Seq(Nat)]

\* Every HT record names its own certificate, made for its edge and snapshot;
\* every certificate is named; a JV record names none.
ValidateProofContainer(log) ==
  LET ht == {i \in DOMAIN log.proof : log.proof[i].method = 2}
      named(i) == log.proof[i].certificate + 1
  IN  /\ \A i \in DOMAIN log.proof \ ht :
           log.proof[i].method = kJv /\ log.proof[i].certificate = NoCertificateIndex
      /\ \A i \in ht :
           /\ log.proof[i].witness = -1
           /\ named(i) \in DOMAIN log.certificates
           /\ log.certificates[named(i)].target = log.proof[i].edge
           /\ log.certificates[named(i)].snapshot = log.proof[i].snapshot
      /\ \A i, j \in ht : i # j => named(i) # named(j)
      /\ {named(i) : i \in ht} = DOMAIN log.certificates

\* The first record starts epoch 0, every other one goes on with the epoch of
\* the record before it or starts the next.
EpochFollows(log, i) ==
  log.proof[i].epoch \in
    IF i = 1 THEN {0} ELSE {log.proof[i - 1].epoch, log.proof[i - 1].epoch + 1}

\* The graph without the edges of some records.
Without(log, records) == log.initial \ {log.proof[j].edge : j \in records}

\* Record i is verified on the graph its epoch starts from, and then committed
\* behind the records before it in the epoch, in edge order, without being
\* refused by the degree gate.
RecordReplays(d, log, i) ==
  LET r == log.proof[i]
      beside == {j \in 1 .. i - 1 : log.proof[j].epoch = r.epoch}
      graph == Without(log, {j \in 1 .. i - 1 : log.proof[j].epoch # r.epoch})
  IN  /\ r.snapshot = ContentHash(graph)
      /\ r.edge \in graph
      /\ IF r.method = kJv
         THEN VerifyJvCandidate(d, graph, graph, JvCandidate(r.edge, r.witness))
         ELSE HtHolds(d, graph, r.edge)
      /\ \A j \in beside : log.proof[j].edge < r.edge
      /\ Deletable(graph \ {log.proof[j].edge : j \in beside}, r.edge)

HtRecordsBefore(log, i) == {j \in 1 .. i - 1 : log.proof[j].method = 2}

\* The graph the whole log leads to.
Replayed(log) == Without(log, DOMAIN log.proof)

ReplayProof(d, graph, log) ==
  /\ ContentHash(graph) = log.initial
  /\ ValidateProofContainer(log)
  /\ \A i \in DOMAIN log.proof :
       /\ EpochFollows(log, i)
       /\ RecordReplays(d, log, i)
       /\ log.proof[i].method = 2 =>
            log.proof[i].certificate = Cardinality(HtRecordsBefore(log, i))
  /\ Replayed(log) = log.final

-----------------------------------------------------------------------------
(* The text file that carries an elimination proof from the process that   *)
(* eliminates to the process that verifies (WriteProof and ReadProof).  A  *)
(* file is a sequence of lines, a line has a kind and a value; tokens and  *)
(* numbers are not taken apart.  A proof without Hamilton-Tutte            *)
(* certificates is written in version 1.                                   *)
(*                                                                         *)
(* A line cut in two is not modelled: at worst it is a line with a wrong   *)
(* value at the end of a file without END.                                 *)

Line(kind, value) == [kind |-> kind, value |-> value]
LinesOf(kind, values) == [i \in DOMAIN values |-> Line(kind, values[i])]

WriteProof(l) ==
  LET version == IF l.certificates = <<>> THEN 1 ELSE 2
      sidecars == <<Line("ht_proof_count", Len(l.certificates))>>
                    \o [i \in DOMAIN l.certificates |->
                          Line("ht_proof", [index |-> i - 1, proof |-> l.certificates[i]])]
  IN  <<Line("magic", version), Line("backend", 0), Line("initial_hash", l.initial)>>
        \o LinesOf("record", l.proof)
        \o LinesOf("metrics", l.metrics)
        \o (IF version = 2 THEN sidecars ELSE <<>>)
        \o <<Line("final_hash", l.final), Line("END", 0)>>

\* The elements of a set of numbers in increasing order.
Ascending(S) ==
  [n \in 1 .. Cardinality(S) |-> CHOOSE x \in S : Cardinality({y \in S : y < x}) = n - 1]

Places(lines, kind) == {i \in DOMAIN lines : lines[i].kind = kind}
Seen(lines, kind) == Places(lines, kind) # {}
ValuesOf(lines, kind) ==
  LET at == Ascending(Places(lines, kind)) IN [n \in DOMAIN at |-> lines[at[n]].value]
ValueOf(lines, kind) == ValuesOf(lines, kind)[1]
Count(lines, kind) == Cardinality(Places(lines, kind))

\* What the loop demands of line i, knowing the lines before it.
LegalAt(lines, i) ==
  LET line == lines[i]
      earlier == SubSeq(lines, 1, i - 1)
  IN  /\ line.kind # "magic" /\ ~ Seen(earlier, "END")
      /\ line.kind \in {"backend", "initial_hash", "ht_proof_count", "final_hash"} =>
           ~ Seen(earlier, line.kind)
      /\ line.kind = "record" /\ lines[1].value = 1 => line.value.method = kJv
      /\ line.kind = "ht_proof_count" =>
           lines[1].value = 2 /\ line.value <= Count(earlier, "record")
      /\ line.kind = "ht_proof" =>
           /\ Seen(earlier, "ht_proof_count")
           /\ line.value.index = Count(earlier, "ht_proof")
           /\ line.value.index < ValueOf(earlier, "ht_proof_count")

\* Fault: the end mark is not asked for.
Complete_NoEnd(lines) ==
  \A kind \in {"backend", "initial_hash", "final_hash"} : Seen(lines, kind)

Complete(lines) ==
  /\ \A kind \in {"backend", "initial_hash", "final_hash", "END"} : Seen(lines, kind)
  /\ lines[1].value = 2 =>
       /\ Seen(lines, "ht_proof_count")
       /\ Count(lines, "ht_proof") = ValueOf(lines, "ht_proof_count")

ReadLog(lines) ==
  LET sidecars == ValuesOf(lines, "ht_proof")
  IN  [initial |-> ValueOf(lines, "initial_hash"),
       final |-> ValueOf(lines, "final_hash"),
       proof |-> ValuesOf(lines, "record"),
       certificates |-> [i \in DOMAIN sidecars |-> sidecars[i].proof]]

Readable(lines) ==
  /\ lines # <<>> /\ lines[1].kind = "magic"
  /\ \A i \in 2 .. Len(lines) : LegalAt(lines, i)
  /\ Complete(lines)
  /\ ValidateProofContainer(ReadLog(lines))

Carries(lines, l) ==
  LET read == ReadLog(lines)
  IN  /\ read.initial = l.initial /\ read.final = l.final
      /\ read.proof = l.proof /\ read.certificates = l.certificates
=============================================================================
