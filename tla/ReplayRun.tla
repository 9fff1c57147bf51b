------------------------------ MODULE ReplayRun ------------------------------
(***************************************************************************)
(* ReplayProof (src/cpu/jv_elimination.cpp) step by step: record by record *)
(* and epoch by epoch, on a working copy of the caller's graph.  All the   *)
(* records of an epoch are verified on the graph the epoch starts from;    *)
(* they are committed through EdgeCommit, and what that deletes must be    *)
(* exactly the records, in their order.  The log may come from anywhere.   *)
(*                                                                         *)
(* active and csr are the working copy, graph is the caller's graph, which *)
(* a Hamilton-Tutte epoch of the same program would edit as well.          *)
(* ProofReplay says which logs are to be accepted.                         *)
(***************************************************************************)
EXTENDS HtEpoch, ProofReplay

VARIABLES
  dist,        \* the points of the graph, as their distance table
  log,         \* the EliminationResult in memory: "expected"
  replayPc,    \* "idle", "start", "epoch", "record", "commit", "returned", "threw"
  cursor,      \* records consumed
  epochStart,  \* the value of cursor when the epoch began
  sidecars     \* replayed.ht_proofs.size()

replayVars == <<dist, log, replayPc, cursor, epochStart, sidecars>>
allReplayVars == <<commitVars, epochVars, replayVars>>

ReplayIdle ==
  /\ replayPc = "idle"
  /\ cursor = 0
  /\ epochStart = 0
  /\ sidecars = 0

\* The call, on the caller's graph.
BeginReplay(expected) ==
  /\ replayPc = "idle"
  /\ log' = expected
  /\ replayPc' = "start"
  /\ UNCHANGED <<commitVars, epochVars, dist, cursor, epochStart, sidecars>>

CheckContainer ==
  /\ replayPc = "start"
  /\ replayPc' = IF /\ ContentHash(graph) = log.initial
                    /\ ValidateProofContainer(log)
                 THEN "epoch" ELSE "threw"
  /\ UNCHANGED <<commitVars, epochVars, dist, log, cursor, epochStart, sidecars>>

NextRecord == log.proof[cursor + 1]

\* The epoch of the last record consumed, plus one.
ExpectedEpoch == IF cursor = 0 THEN 0 ELSE log.proof[cursor].epoch + 1

StartEpoch ==
  /\ replayPc = "epoch"
  /\ cursor < Len(log.proof)
  /\ replayPc' = IF NextRecord.epoch = ExpectedEpoch THEN "record" ELSE "threw"
  /\ snapshotHash' = ContentHash(active)
  /\ epochStart' = cursor
  /\ UNCHANGED <<graphVars, sweepVars, epochVars, dist, log, cursor, sidecars>>

SameEpoch == cursor < Len(log.proof) /\ NextRecord.epoch = log.proof[epochStart + 1].epoch

\* Fault: only edge and snapshot are compared, the proof is not checked.
RecordHolds_NoProof(r) == r.snapshot = snapshotHash /\ r.edge \in active

\* A certificate is for the edge and snapshot of its record: the container
\* check has seen to that.
RecordHolds(r) ==
  /\ r.snapshot = snapshotHash
  /\ r.edge \in Edge
  /\ IF r.method = kJv
     THEN VerifyJvCandidate(dist, active, csr, JvCandidate(r.edge, r.witness))
     ELSE r.edge \in active /\ HtHolds(dist, active, r.edge)

VerifyRecord ==
  /\ replayPc = "record"
  /\ SameEpoch
  /\ IF RecordHolds(NextRecord)
     THEN cursor' = cursor + 1 /\ UNCHANGED replayPc
     ELSE replayPc' = "threw" /\ UNCHANGED cursor
  /\ UNCHANGED <<commitVars, epochVars, dist, log, epochStart, sidecars>>

EpochRecords == SubSeq(log.proof, epochStart + 1, cursor)

Recorded(r) == [edge |-> r.edge, witness |-> r.witness, method |-> r.method]

CommitRecords ==
  /\ replayPc = "record"
  /\ ~ SameEpoch
  /\ BeginCommit({Recorded(EpochRecords[i]) : i \in DOMAIN EpochRecords}, snapshotHash)
  /\ replayPc' = "commit"
  /\ UNCHANGED <<snapshotHash, epochVars, dist, log, cursor, epochStart, sidecars>>

ReplaySweep ==
  /\ replayPc = "commit"
  /\ Sweep
  /\ UNCHANGED <<snapshotHash, epochVars, replayVars>>

HtBefore(i) == Cardinality({k \in 1 .. i - 1 : EpochRecords[k].method = 2})

\* Fault: deletions are compared with the first records, not with all.
SameDeletions_Prefix ==
  \A i \in DOMAIN committed : committed[i] = Recorded(EpochRecords[i])

\* What was deleted is what the records say, in the order of the records.
SameDeletions ==
  /\ Len(committed) = Len(EpochRecords)
  /\ \A i \in DOMAIN committed : committed[i] = Recorded(EpochRecords[i])

SidecarsInOrder ==
  \A i \in DOMAIN EpochRecords :
    EpochRecords[i].method = 2 => EpochRecords[i].certificate = sidecars + HtBefore(i)

CheckDeletions ==
  /\ replayPc = "commit"
  /\ phase = "idle" /\ result = "committed"
  /\ replayPc' = IF SameDeletions /\ SidecarsInOrder THEN "epoch" ELSE "threw"
  /\ sidecars' = sidecars + HtBefore(Len(EpochRecords) + 1)
  /\ UNCHANGED <<commitVars, epochVars, dist, log, cursor, epochStart>>

ReplayThrows ==
  /\ replayPc = "commit"
  /\ phase = "idle" /\ result = "threw"
  /\ replayPc' = "threw"
  /\ UNCHANGED <<commitVars, epochVars, dist, log, cursor, epochStart, sidecars>>

\* Fault: the working copy is handed over before the last hash is compared.
Publish_BeforeCheck ==
  /\ replayPc = "epoch"
  /\ cursor = Len(log.proof)
  /\ graph' = active
  /\ replayPc' = IF ContentHash(active) = log.final THEN "returned" ELSE "threw"
  /\ UNCHANGED <<commitVars, epochPc, batch, epochLog, dist, log, cursor, epochStart, sidecars>>

Publish ==
  /\ replayPc = "epoch"
  /\ cursor = Len(log.proof)
  /\ IF ContentHash(active) = log.final
     THEN replayPc' = "returned" /\ graph' = active
     ELSE replayPc' = "threw" /\ UNCHANGED graph
  /\ UNCHANGED <<commitVars, epochPc, batch, epochLog, dist, log, cursor, epochStart, sidecars>>

ReplayNext ==
  \/ CheckContainer \/ StartEpoch \/ VerifyRecord \/ CommitRecords
  \/ ReplaySweep \/ CheckDeletions \/ ReplayThrows \/ Publish

Replaying == replayPc \in {"start", "epoch", "record", "commit"}

-----------------------------------------------------------------------------
(* The loop decides what the definition says: a log is accepted only if    *)
(* its container is consistent, its epochs follow one another, and every   *)
(* epoch verifies on its own snapshot and is committed in full; and such a *)
(* log is refused only when memory runs out (jv_elimination.cpp:525-605).  *)
ReplayDecides ==
  /\ replayPc = "returned" => ReplayProof(dist, log.initial, log)
  /\ replayPc = "threw" /\ result # "threw" =>
       ~ (ContentHash(graph) = log.initial /\ ReplayProof(dist, graph, log))

(* The caller's graph is replaced in one step, by the graph the log ends   *)
(* on, or not at all: a bad record in a late epoch leaves no partly edited *)
(* graph (jv_elimination.cpp:530-531, 599-603).                            *)
ReplayAllOrNothing ==
  [][Replaying => replayPc' = "returned" /\ ContentHash(graph') = log.final]_graph
=============================================================================
