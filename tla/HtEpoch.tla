------------------------------- MODULE HtEpoch -------------------------------
(***************************************************************************)
(* CommitHtProofEpoch (src/cpu/ht_epoch.cpp): one commit of Hamilton-Tutte *)
(* deletions.  Every proof of the batch is verified against the caller's   *)
(* graph before anything is changed; of several proofs of one edge the one *)
(* that serialises first is kept; the commit runs on a copy of the graph,  *)
(* the certificates of the accepted deletions are collected, and the copy  *)
(* is moved over the caller's graph in the end.                            *)
(*                                                                         *)
(* active and csr of EdgeCommit are the copy, graph is the caller's; the   *)
(* two agree while no epoch runs.  The batch is a set: the code sorts it,  *)
(* and equal proofs of one edge are interchangeable.                       *)
(***************************************************************************)
EXTENDS EdgeCommit

VARIABLES
  graph,      \* the caller's graph
  epochPc,    \* "idle", "commit", "returned" or "threw"
  batch,      \* the proofs the epoch was called with
  epochLog    \* the EliminationResult of the last epoch that returned

epochVars == <<graph, epochPc, batch, epochLog>>

kHamiltonTutte == 2

\* A proof is bound to the snapshot it was found on.  holds says whether its
\* tree of moves and replies is complete; text ranks its serialised form.
HtProof(e, hash, n, holds) == [target |-> e, snapshot |-> hash, text |-> n, holds |-> holds]

VerifyHtRecursiveProof(g, proof) ==
  /\ proof.snapshot = ContentHash(g)
  /\ proof.target \in g
  /\ proof.holds

HtCandidate(e) == [edge |-> e, witness |-> NoWitness, method |-> kHamiltonTutte]

\* Fault: the proof that serialises last is kept.
Selected_Last(proofs, e) ==
  CHOOSE p \in proofs :
    p.target = e /\ \A q \in proofs : q.target = e => q.text <= p.text

Selected(proofs, e) ==
  CHOOSE p \in proofs :
    p.target = e /\ \A q \in proofs : q.target = e => p.text <= q.text

\* Record i refers to certificate i - 1 of the epoch's own list.
HtRecords(hash, candidates) ==
  [i \in DOMAIN candidates |->
     [epoch |-> 0, snapshot |-> hash, edge |-> candidates[i].edge,
      witness |-> NoWitness, method |-> kHamiltonTutte, certificate |-> i - 1]]

NoLog == [initial |-> {}, final |-> {}, proof |-> <<>>, certificates |-> <<>>,
          metrics |-> <<>>]

HtEpochInit ==
  /\ CommitInit
  /\ graph = active
  /\ epochPc = "idle"
  /\ batch = {}
  /\ epochLog = NoLog

BeginEpoch(proofs) ==
  /\ epochPc = "idle"
  /\ \A p \in proofs : VerifyHtRecursiveProof(graph, p)
  /\ BeginCommit({HtCandidate(p.target) : p \in proofs}, ContentHash(graph))
  /\ snapshotHash' = ContentHash(graph)
  /\ batch' = proofs
  /\ epochPc' = "commit"
  /\ UNCHANGED <<graph, epochLog>>

RejectEpoch(proofs) ==
  /\ epochPc = "idle"
  /\ \E p \in proofs : ~ VerifyHtRecursiveProof(graph, p)
  /\ epochPc' = "threw"
  /\ UNCHANGED <<commitVars, graph, batch, epochLog>>

SweepEpoch ==
  /\ epochPc = "commit"
  /\ Sweep
  /\ UNCHANGED <<snapshotHash, graph, epochPc, batch, epochLog>>

PublishEpoch ==
  /\ epochPc = "commit"
  /\ phase = "idle" /\ result = "committed"
  /\ epochLog' = [initial |-> snapshotHash,
                  final |-> ContentHash(active),
                  proof |-> HtRecords(snapshotHash, committed),
                  certificates |->
                    [i \in DOMAIN committed |-> Selected(batch, committed[i].edge)],
                  metrics |-> <<Len(committed)>>]
  /\ graph' = active
  /\ epochPc' = "returned"
  /\ UNCHANGED <<commitVars, batch>>

\* The commit threw, or memory ran out while the result was put together:
\* the copy goes, whatever was deleted from it.
AbortEpoch ==
  /\ epochPc = "commit"
  /\ phase = "idle"
  /\ active' = graph
  /\ csr' = graph
  /\ epochPc' = "threw"
  /\ UNCHANGED <<snapshotHash, sweepVars, graph, batch, epochLog>>

EpochStep == SweepEpoch \/ PublishEpoch \/ AbortEpoch

-----------------------------------------------------------------------------
(* The log of a returned epoch justifies the change of the graph by itself *)
(* (ht_epoch.cpp:108-126): the graph lost the edges of its records, and    *)
(* each record names a certificate of its own that was verified on the     *)
(* very graph the epoch started from and comes first among its rivals.     *)
EpochCertified ==
  epochPc = "returned" =>
    LET log == epochLog.proof
        certificates == epochLog.certificates
    IN  /\ graph = epochLog.initial \ {log[i].edge : i \in DOMAIN log}
        /\ ContentHash(graph) = epochLog.final
        /\ Len(certificates) = Len(log)
        /\ \A i \in DOMAIN log :
             LET own == certificates[log[i].certificate + 1]
             IN  /\ own.target = log[i].edge
                 /\ VerifyHtRecursiveProof(epochLog.initial, own)
                 /\ \A q \in batch : q.target = own.target => own.text <= q.text

(* An epoch changes the caller's graph in one step, when it returns, or    *)
(* not at all: a bad proof, the degree gate and a late exception leave no  *)
(* partly edited graph (ht_epoch.cpp:107-128).                             *)
EpochAllOrNothing ==
  [][epochPc = "commit" => epochPc' = "returned" /\ graph' = graph \ Committed]_graph
=============================================================================
