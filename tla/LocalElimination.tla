-------------------------- MODULE LocalElimination --------------------------
(***************************************************************************)
(* RunLocalElimination (src/cpu/local_elimination.cpp): Jonker-Volgenant   *)
(* rounds and Hamilton-Tutte scans in turn, on a working copy of the       *)
(* caller's graph, their logs appended to one log that can be replayed     *)
(* from the initial graph alone.                                           *)
(*                                                                         *)
(*   JV fixed point --> scan a slice --> deleted: back to JV, offset 0     *)
(*                          ^     \----> nothing: next slice, or converged *)
(*                                                                         *)
(* active and csr are the working copy.  The scan is taken at its contract *)
(* (HtScanContract): one step, or an exception.  Which targets the search  *)
(* proves is given by an oracle: edge e is proven on a snapshot once the   *)
(* edges obstacles[dist][e] are gone from it.                              *)
(***************************************************************************)
EXTENDS JvElimination, SequencesExt

CONSTANTS
  Obstacles,       \* what the searches prove
  LocalOptions     \* order, max targets, max HT epochs

ASSUME LocalAssumption ==
  /\ Obstacles \subseteq [Metrics -> [Edge -> SUBSET Edge]]
  /\ \A o \in LocalOptions :
       o.order \in TargetOrders /\ o.maxTargets \in Nat \ {0} /\ o.maxHtEpochs \in Nat \ {0}

VARIABLES
  graph,         \* the caller's graph
  obstacles,     \* what has to be gone before an edge can be proven
  localOptions,
  localPc,       \* "jv", "scan", "commit", "returned" or "threw"
  combined,      \* the log of the whole run
  offset,        \* target_offset
  htEpoch,
  sweep,         \* the running scan: eligible and attempted targets
  termination

localVars == <<graph, obstacles, localOptions, localPc, combined, offset, htEpoch,
               sweep, termination>>
allLocalVars == <<active, csr, snapshotHash, phase, queue, degrees, committed, result,
                  dist, jvPc, useCuda, epoch, proposed, stage,
                  graph, obstacles, localOptions, localPc, combined, offset, htEpoch,
                  sweep, termination>>

HtHolds(d, g, e) == e \in g /\ obstacles[d][e] \cap g = {}

-----------------------------------------------------------------------------
(* AppendEliminationStage: the log of a stage, its epochs and certificate  *)
(* indices shifted past those of the combined log.                         *)

EmptyLog(hash) ==
  [initial |-> hash, final |-> hash, proof |-> <<>>, certificates |-> <<>>, metrics |-> <<>>]

EpochsAreConsecutive(proof) ==
  \A i \in DOMAIN proof :
    IF i = 1 THEN proof[i].epoch = 0
    ELSE proof[i].epoch \in {proof[i - 1].epoch, proof[i - 1].epoch + 1}

Appendable(log, new) ==
  /\ log.final = new.initial
  /\ new.proof = <<>> => new.certificates = <<>> /\ new.initial = new.final
  /\ EpochsAreConsecutive(new.proof)
  /\ \A i \in DOMAIN new.proof :
       IF new.proof[i].method = kJv
       THEN new.proof[i].certificate = NoCertificate
       ELSE new.proof[i].certificate < Len(new.certificates)
  /\ \A i \in DOMAIN new.metrics :
       new.metrics[i] # 0 => new.proof # <<>> /\ i - 1 <= Last(new.proof).epoch

\* Fault: certificate indices are not shifted.
Rebase_EpochOnly(log, r) ==
  [r EXCEPT !.epoch = @ + IF log.proof = <<>> THEN 0 ELSE Last(log.proof).epoch + 1]

Rebase(log, r) ==
  LET first == IF log.proof = <<>> THEN 0 ELSE Last(log.proof).epoch + 1
  IN  [r EXCEPT !.epoch = @ + first,
                !.certificate = IF r.method = kJv THEN @ ELSE @ + Len(log.certificates)]

AppendStage(log, new) ==
  IF new.proof = <<>> THEN log
  ELSE [log EXCEPT
          !.final = new.final,
          !.proof = @ \o [i \in DOMAIN new.proof |-> Rebase(log, new.proof[i])],
          !.certificates = @ \o new.certificates,
          !.metrics = @ \o SelectSeq(new.metrics, LAMBDA count : count # 0)]

-----------------------------------------------------------------------------
LocalInit ==
  /\ JvInit
  /\ graph = active
  /\ obstacles \in Obstacles
  /\ localOptions \in LocalOptions
  /\ localPc = "jv"
  /\ combined = EmptyLog(ContentHash(active))
  /\ offset = 0
  /\ htEpoch = 0
  /\ sweep = [eligible |-> 0, attempted |-> 0]
  /\ termination = "none"

LocalJv ==
  /\ localPc = "jv"
  /\ JvNext
  /\ UNCHANGED localVars

LocalReturn(why) ==
  /\ localPc' = "returned"
  /\ termination' = why
  /\ graph' = active

LocalGoesOn(pc) ==
  /\ localPc' = pc
  /\ UNCHANGED <<graph, termination>>

LocalThrow(why) ==
  /\ localPc' = "threw"
  /\ termination' = why
  /\ UNCHANGED graph

\* The JV stage returned: a fixed point, unless its last round still deleted.
JvStageReturns ==
  /\ localPc = "jv"
  /\ jvPc = "done"
  /\ IF ~ Appendable(combined, JvLog)
     THEN LocalThrow("internal-error") /\ UNCHANGED combined
     ELSE /\ combined' = AppendStage(combined, JvLog)
          /\ IF Last(stage.metrics) # 0 THEN LocalReturn("jv-round-limit")
             ELSE IF htEpoch = localOptions.maxHtEpochs THEN LocalReturn("ht-epoch-limit")
             ELSE LocalGoesOn("scan")
  /\ UNCHANGED <<allJvVars, obstacles, localOptions, offset, htEpoch, sweep>>

JvStageThrows ==
  /\ localPc = "jv"
  /\ jvPc = "threw"
  /\ LocalThrow("stage-threw")
  /\ UNCHANGED <<allJvVars, obstacles, localOptions, combined, offset, htEpoch, sweep>>

EdgeWeights == [e \in Edge |-> Weight(dist, e)]

HtCandidates(slice) ==
  {[edge |-> e, witness |-> NoWitness, method |-> 2] :
     e \in {slice[i] : i \in {j \in DOMAIN slice : HtHolds(dist, active, slice[j])}}}

\* The scan reports every target of its slice and hands the proven ones to
\* the commit, whose loop is EdgeCommit's.
ScanSlice ==
  /\ localPc = "scan"
  /\ \E eligible \in {Eligible(active, csr)} :
     \E targets \in {InOrder(eligible, EdgeWeights, localOptions.order)} :
     \E slice \in {TargetSlice(targets, offset, localOptions.maxTargets)} :
       /\ sweep' = [eligible |-> Cardinality(eligible), attempted |-> Cardinality(DOMAIN slice)]
       /\ BeginCommit(HtCandidates(slice), ContentHash(active))
  /\ snapshotHash' = ContentHash(active)
  /\ localPc' = "commit"
  /\ UNCHANGED <<jvVars, graph, obstacles, localOptions, combined, offset, htEpoch, termination>>

\* A search, a worker thread or the recheck of a proof threw.
ScanThrows ==
  /\ localPc = "scan"
  /\ LocalThrow("stage-threw")
  /\ UNCHANGED <<allJvVars, obstacles, localOptions, combined, offset, htEpoch, sweep>>

HtSweep ==
  /\ localPc = "commit"
  /\ Sweep
  /\ UNCHANGED <<snapshotHash, jvVars, localVars>>

HtLog ==
  [initial |-> snapshotHash, final |-> ContentHash(active),
   proof |-> [i \in DOMAIN committed |->
                [epoch |-> 0, snapshot |-> snapshotHash, edge |-> committed[i].edge,
                 witness |-> NoWitness, method |-> 2, certificate |-> i - 1]],
   certificates |-> [i \in DOMAIN committed |->
                       [target |-> committed[i].edge, snapshot |-> snapshotHash]],
   metrics |-> <<Len(committed)>>]

\* Fault: the scan goes on where it was.
ScanDeleted_KeepsOffset ==
  /\ UNCHANGED offset
  /\ jvPc' = "start"
  /\ LocalGoesOn("jv")

\* Something was deleted: back to JV, and to the head of the target order.
ScanDeleted ==
  /\ offset' = 0
  /\ jvPc' = "start"
  /\ LocalGoesOn("jv")

\* Fault: the same slice again.
ScanFoundNothing_Again ==
  /\ IF htEpoch' = localOptions.maxHtEpochs THEN LocalReturn("ht-epoch-limit")
     ELSE LocalGoesOn("scan")
  /\ UNCHANGED <<offset, jvPc>>

\* Nothing was deleted: on to the next slice, if there is one.
ScanFoundNothing ==
  /\ offset' = offset + sweep.attempted
  /\ IF offset' = sweep.eligible THEN LocalReturn("converged")
     ELSE IF sweep.attempted = 0 THEN LocalThrow("internal-error")
     ELSE IF htEpoch' = localOptions.maxHtEpochs THEN LocalReturn("ht-epoch-limit")
     ELSE LocalGoesOn("scan")
  /\ UNCHANGED jvPc

HtStageReturns ==
  /\ localPc = "commit"
  /\ phase = "idle" /\ result = "committed"
  /\ htEpoch' = htEpoch + 1
  /\ IF ~ Appendable(combined, HtLog)
     THEN LocalThrow("internal-error") /\ UNCHANGED <<combined, offset, jvPc>>
     ELSE /\ combined' = AppendStage(combined, HtLog)
          /\ IF committed # <<>> THEN ScanDeleted ELSE ScanFoundNothing
  /\ UNCHANGED <<commitVars, dist, useCuda, epoch, proposed, stage,
                 obstacles, localOptions, sweep>>

HtStageThrows ==
  /\ localPc = "commit"
  /\ phase = "idle" /\ result = "threw"
  /\ LocalThrow("stage-threw")
  /\ UNCHANGED <<allJvVars, obstacles, localOptions, combined, offset, htEpoch, sweep>>

LocalStep ==
  \/ LocalJv \/ JvStageReturns \/ JvStageThrows
  \/ ScanSlice \/ ScanThrows \/ HtSweep
  \/ HtStageReturns \/ HtStageThrows

Ended == localPc \in {"returned", "threw"} /\ UNCHANGED allLocalVars

LocalNext == LocalStep \/ Ended

LocalSpec == LocalInit /\ [][LocalNext]_allLocalVars

-----------------------------------------------------------------------------
(* "converged" means what it says: on the graph that is returned, no edge  *)
(* has a Jonker-Volgenant witness the finder would see and no eligible     *)
(* target is provable, although slices were searched one at a time and     *)
(* deletions came in between (local_elimination.cpp:227-265).              *)
ConvergedIsFixedPoint ==
  termination = "converged" =>
    /\ FindJvCandidates(dist, graph, graph) = {}
    /\ \A e \in Eligible(graph, graph) : ~ HtHolds(dist, graph, e)

Replay == INSTANCE ProofReplay

(* The combined log of a run that returns, whatever ended it, replays from *)
(* the initial graph alone to exactly the graph that is returned           *)
(* (local_elimination.cpp:32-108 against jv_elimination.cpp:525-605); a    *)
(* run that throws leaves the caller's graph as it was.                    *)
RunReplays ==
  /\ localPc = "returned" =>
       /\ combined.final = ContentHash(graph)
       /\ Replay!ReplayProof(dist, combined.initial, combined)
  /\ localPc # "returned" => ContentHash(graph) = combined.initial

(* Every finished scan makes progress: it deletes an edge, or it moves the *)
(* offset forward on the same graph (local_elimination.cpp:242-264).  The  *)
(* degree gate never refuses all the proven targets of a slice.            *)
ScanProgress ==
  [][htEpoch' # htEpoch =>
       \/ active # combined.final /\ active \subseteq combined.final
       \/ active = combined.final /\ (offset' > offset \/ sweep.eligible = 0)]_htEpoch

=============================================================================
