--------------------------- MODULE JvElimination ----------------------------
(***************************************************************************)
(* RunJvElimination (src/cpu/jv_elimination.cpp): rounds of Jonker-        *)
(* Volgenant elimination.  Each round (an "epoch") hashes the graph, lets  *)
(* the CPU or the CUDA kernel propose candidates, verifies every one of    *)
(* them on the CPU, commits the batch through EdgeCommit, and logs one     *)
(* proof record per deletion.  A round that commits nothing ends the run,  *)
(* and so does the round limit.  The CUDA kernel is a proposer whose       *)
(* output is not trusted: one rejected proposal aborts the run before the  *)
(* commit.                                                                 *)
(***************************************************************************)
EXTENDS EdgeCommit, JvRule

CONSTANTS
  Metrics,        \* distance tables of the instances considered
  JvBackends,     \* values of the backend option: "auto", "cpu", "cuda"
  MaxJvRounds,    \* max_rounds
  DeviceSlots     \* witnesses a faulty kernel may leave in one edge's slot

ASSUME JvAssumption ==
  /\ Metrics \subseteq [Node \X Node -> Nat]
  /\ JvBackends \subseteq {"auto", "cpu", "cuda"}
  /\ MaxJvRounds \in Nat \ {0}
  /\ DeviceSlots \subseteq Int

VARIABLES
  dist,       \* the points of the graph, as their distance table
  jvPc,       \* "start", "propose", "verify", "commit", "done" or "threw"
  useCuda,
  epoch,
  proposed,   \* this round's proposals
  stage       \* the EliminationResult being built

jvVars == <<dist, jvPc, useCuda, epoch, proposed, stage>>
allJvVars == <<active, csr, snapshotHash, phase, queue, degrees, committed, result,
               dist, jvPc, useCuda, epoch, proposed, stage>>

\* An EliminationResult: hashes before and after, proof records in order,
\* and the number of deletions of every epoch that was run.
EmptyResult(hash) == [initial |-> hash, final |-> hash, proof |-> <<>>, metrics |-> <<>>]

\* Fault: a record is stamped with the graph after its deletion.
Record_HashedLate(n, hash, c) ==
  [epoch |-> n, snapshot |-> ContentHash(active), edge |-> c.edge, witness |-> c.witness,
   method |-> c.method, certificate |-> -1]

\* The record of candidate c, verified against snapshot hash in epoch n; a
\* Jonker-Volgenant record refers to no certificate.
NoCertificate == -1
Record(n, hash, c) ==
  [epoch |-> n, snapshot |-> hash, edge |-> c.edge, witness |-> c.witness,
   method |-> c.method, certificate |-> NoCertificate]

Records(n, hash, candidates) ==
  [i \in DOMAIN candidates |-> Record(n, hash, candidates[i])]

JvInit ==
  /\ CommitInit
  /\ dist \in Metrics
  /\ jvPc = "start"
  /\ useCuda = FALSE
  /\ epoch = 0
  /\ proposed = {}
  /\ stage = EmptyResult(ContentHash(active))

\* Backend selection.  Whether a usable device is present, with coordinates
\* the kernel supports, is not the program's choice.
JvStart(backend) ==
  /\ jvPc = "start"
  /\ \E usable \in BOOLEAN :
       /\ useCuda' = (backend # "cpu" /\ usable)
       /\ jvPc' = IF backend = "cuda" /\ ~ usable THEN "threw" ELSE "propose"
  /\ epoch' = 0
  /\ stage' = EmptyResult(ContentHash(active))
  /\ UNCHANGED <<commitVars, dist, proposed>>

\* What the kernel hands back: its own search, or that search with the slot
\* of one edge holding something else (a negative slot is no proposal).
DeviceProposals(found) ==
  {found} \cup
  {{c \in found : c.edge # e} \cup (IF w < 0 THEN {} ELSE {JvCandidate(e, w)}) :
     e \in Edge, w \in DeviceSlots}

JvPropose ==
  /\ jvPc = "propose"
  /\ snapshotHash' = ContentHash(active)
  /\ LET found == FindJvCandidates(dist, active, csr)
     IN  IF useCuda THEN proposed' \in DeviceProposals(found) ELSE proposed' = found
  /\ jvPc' = "verify"
  /\ UNCHANGED <<graphVars, sweepVars, dist, useCuda, epoch, stage>>

\* Fault: the device is trusted.
VerifyCandidates_Trusting == proposed

VerifyCandidates == {c \in proposed : VerifyJvCandidate(dist, active, csr, c)}

JvAbort ==
  /\ jvPc = "verify"
  /\ useCuda /\ VerifyCandidates # proposed
  /\ jvPc' = "threw"
  /\ UNCHANGED <<commitVars, dist, useCuda, epoch, proposed, stage>>

JvCommit ==
  /\ jvPc = "verify"
  /\ ~ (useCuda /\ VerifyCandidates # proposed)
  /\ IF WellFormed(VerifyCandidates, snapshotHash)
     THEN BeginCommit(VerifyCandidates, snapshotHash) /\ jvPc' = "commit"
     ELSE RejectCommit(VerifyCandidates, snapshotHash) /\ jvPc' = "threw"
  /\ UNCHANGED <<snapshotHash, dist, useCuda, epoch, proposed, stage>>

JvSweep ==
  /\ jvPc = "commit"
  /\ Sweep
  /\ UNCHANGED <<snapshotHash, jvVars>>

\* The commit returned: log it; go on unless nothing was deleted or the
\* rounds are used up.
JvRecord ==
  /\ jvPc = "commit"
  /\ phase = "idle" /\ result = "committed"
  /\ stage' = [stage EXCEPT
                 !.final = ContentHash(active),
                 !.proof = @ \o Records(epoch, snapshotHash, committed),
                 !.metrics = Append(@, Len(committed))]
  /\ epoch' = epoch + 1
  /\ jvPc' = IF committed = <<>> \/ epoch' = MaxJvRounds THEN "done" ELSE "propose"
  /\ UNCHANGED <<commitVars, dist, useCuda, proposed>>

JvThrow ==
  /\ jvPc = "commit"
  /\ phase = "idle" /\ result = "threw"
  /\ jvPc' = "threw"
  /\ UNCHANGED <<commitVars, dist, useCuda, epoch, proposed, stage>>

JvStep == JvPropose \/ JvAbort \/ JvCommit \/ JvSweep \/ JvRecord \/ JvThrow

JvNext == JvStep \/ \E backend \in JvBackends : JvStart(backend)

JvSpec == JvInit /\ [][JvNext]_allJvVars

\* The stage as the log that is replayed, or appended to another one.
JvLog == [initial |-> stage.initial, final |-> stage.final, proof |-> stage.proof,
          certificates |-> <<>>, metrics |-> stage.metrics]

-----------------------------------------------------------------------------
\* There is no Hamilton-Tutte proof in such a log.
NoProof(d, graph, e) == FALSE
JvReplay == INSTANCE ProofReplay WITH HtHolds <- NoProof

(* The log of a run that ends replays from the graph it started on: every  *)
(* record has a witness on the graph of its epoch, the degree gate lets it *)
(* pass behind the records before it, and the hashes agree, whatever the   *)
(* device proposed (jv_elimination.cpp:282-315 against 525-605).           *)
JvLogReplays ==
  jvPc = "done" => JvReplay!ReplayProof(dist, stage.initial, JvLog)
=============================================================================
