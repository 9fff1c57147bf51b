---------------------------- MODULE HtScan_proofs ----------------------------
(***************************************************************************)
(* Proofs about RunHtScanEpoch, for every graph, every table of verdicts,  *)
(* every set of options and any number of worker threads: no worker        *)
(* outlives the call, the log of the scan certifies its deletions, and the *)
(* threads implement a scan in one step.                                   *)
(***************************************************************************)
EXTENDS HtScan, HtEpoch_proofs

-----------------------------------------------------------------------------
(* The inductive invariant.                                                *)

Searching == {"start", "spawn", "unwind", "join", "consume"}

\* Workers run only while the calling thread makes them or waits for them.
WorkerInv ==
  /\ worker \in [Worker -> {"unborn", "bind", "run", "ended"}]
  /\ scanPc \in {"start", "consume", "commit", "returned", "threw"} => Running = {}

\* Slots are numbered from 0 without a gap; a filled slot holds the verdict of
\* its target; the consumed slots are the first ones, and all filled.
SlotInv ==
  /\ Slot \subseteq Nat
  /\ \A i \in Slot : 0 .. i \subseteq Slot
  /\ evaluation \in [Slot -> {"none", "proven", "unresolved"}]
  /\ \A i \in Slot : evaluation[i] # "none" => evaluation[i] = verdict[slice[i]]
  /\ consumed \in Nat /\ (scanPc = "start" => consumed = 0)
  /\ 0 .. consumed - 1 \subseteq Slot
  /\ \A i \in 0 .. consumed - 1 : evaluation[i] # "none"

\* The slice is the one of the caller's graph until that graph changes.
SliceInv ==
  scanPc \notin {"start", "threw"} /\ epochPc # "returned" =>
    /\ options.offset <= Cardinality(Eligible(graph, graph))
    /\ slice = TargetSlice(InOrder(Eligible(graph, graph), EdgeWeight, options.order),
                           options.offset, options.max)

\* The epoch is begun with the proven targets of a fully consumed slice.
CommitPhaseInv ==
  /\ scanPc \in Searching => epochPc = "idle" /\ active = graph
  /\ scanPc = "threw" => epochPc \in {"idle", "threw"}
  /\ scanPc = "returned" => epochPc = "returned"
  /\ scanPc = "commit" =>
       /\ epochPc \in {"commit", "returned", "threw"}
       /\ consumed \notin Slot
       /\ Targets = Proven

ScanTypeInv ==
  /\ scanPc \in Searching \cup {"commit", "returned", "threw"}
  /\ options \in ScanOptions /\ verdict \in Verdicts

ScanInv ==
  ScanTypeInv /\ EpochInv /\ WorkerInv /\ SlotInv /\ SliceInv /\ CommitPhaseInv

-----------------------------------------------------------------------------
(* The slice.                                                              *)

(* The slice consists of eligible edges.                                   *)
LEMMA SliceEligible ==
  ASSUME ScanInv, scanPc \notin {"start", "threw"}, epochPc # "returned", NEW i \in Slot
  PROVE  slice[i] \in Eligible(graph, graph)
<1> DEFINE S == Eligible(graph, graph)
           targets == InOrder(S, EdgeWeight, options.order)
<1>1. slice = TargetSlice(targets, options.offset, options.max)
  BY DEF ScanInv, SliceInv
<1>2. S \in SUBSET Edge
  BY DEF Eligible, ScanInv, EpochInv
<1> HIDE DEF S
<1>3. options.offset + i \in DOMAIN targets /\ slice[i] = targets[options.offset + i]
  BY <1>1 DEF TargetSlice, Slot
<1>4. targets[options.offset + i] \in S
  <2>1. \A e \in S : EdgeWeight[e] \in Nat
    BY <1>2, HtScanAssumption
  <2> QED
    BY <1>2, <1>3, <2>1, OrderedTargets
<1> QED
  BY <1>3, <1>4 DEF S

(* The verdict of a slot is one of three.                                  *)
LEMMA VerdictOfSlot ==
  ASSUME ScanInv, scanPc \in {"spawn", "unwind", "join"}, NEW i \in Slot,
         verdict[slice[i]] # "throws"
  PROVE  verdict[slice[i]] \in {"proven", "unresolved"}
<1>1. epochPc = "idle"
  BY DEF ScanInv, CommitPhaseInv, Searching
<1>2. slice[i] \in Edge
  BY <1>1, SliceEligible DEF Eligible, ScanInv, EpochInv
<1>3. verdict \in [Edge -> {"proven", "unresolved", "throws"}]
  BY HtScanAssumption DEF ScanInv, ScanTypeInv
<1> QED
  BY <1>2, <1>3

-----------------------------------------------------------------------------
(* Each action keeps the invariant.                                        *)

(* Before the call nothing has begun.                                      *)
LEMMA ScanInitInv ==
  ASSUME ScanInit
  PROVE  ScanInv
<1>1. /\ CommitInit /\ graph = active /\ epochPc = "idle" /\ options \in ScanOptions
      /\ verdict \in Verdicts /\ scanPc = "start" /\ slice = [i \in {} |-> 0] /\ worker = [w \in {} |-> "unborn"]
      /\ evaluation = [i \in {} |-> "none"] /\ consumed = 0
  BY DEF ScanInit, HtEpochInit, NoWorker
<1>2. CommitInv
  BY <1>1, InitInv
<1>3. EpochInv
  BY <1>1, <1>2 DEF EpochInv, EpochCertified, CommitInv, CommitTypeOK
<1>4. Slot = {} /\ Worker = {}
  BY <1>1 DEF Slot, Worker
<1>5. WorkerInv
  BY <1>1, <1>4 DEF WorkerInv, Running
<1>6. SlotInv
  BY <1>1, <1>4 DEF SlotInv
<1> QED
  BY <1>1, <1>3, <1>5, <1>6 DEF ScanInv, ScanTypeInv, SliceInv, CommitPhaseInv, Searching

(* What the commit and the epoch see of a step of another part.            *)
LEMMA QuietStep ==
  ASSUME ScanInv, UNCHANGED <<commitVars, epochVars>>
  PROVE  /\ EpochInv' /\ Targets' = Targets
         /\ graph' = graph /\ epochPc' = epochPc /\ active' = active
BY EpochStutters DEF ScanInv, commitVars, epochVars, Targets

(* An exception of the calling thread, when no worker runs.                *)
LEMMA ThrowInv ==
  ASSUME ScanInv, scanPc' = "threw", Running = {}, epochPc \in {"idle", "threw"},
         UNCHANGED <<commitVars, epochVars, verdict, options, slice, worker, evaluation,
                     consumed>>
  PROVE  ScanInv'
<1>1. /\ EpochInv' /\ epochPc' = epochPc
  BY QuietStep
<1>2. WorkerInv'
  BY DEF ScanInv, WorkerInv, Worker, Running
<1>3. SlotInv'
  BY DEF ScanInv, SlotInv, Slot
<1> QED
  BY <1>1, <1>2, <1>3 DEF ScanInv, ScanTypeInv, SliceInv, CommitPhaseInv, Searching

(* The call begins with its slice and a team that is not born.             *)
LEMMA SelectTargetsInv ==
  ASSUME ScanInv, SelectTargets
  PROVE  ScanInv'
<1> DEFINE targets == InOrder(Eligible(graph, graph), EdgeWeight, options.order)
           chosen == TargetSlice(targets, options.offset, options.max)
<1>1. /\ scanPc = "start" /\ ValidOptions
      /\ snapshotHash' = graph
      /\ UNCHANGED <<active, csr, phase, queue, degrees, committed, result>>
      /\ UNCHANGED <<graph, epochPc, batch, epochLog, verdict, options, consumed>>
  BY DEF SelectTargets, ContentHash, graphVars, sweepVars, epochVars
<1>2. active = graph /\ csr = graph /\ epochPc = "idle"
  BY <1>1 DEF ScanInv, CommitPhaseInv, Searching, EpochInv, CommitInv, CsrFresh
<1>3. /\ slice' = chosen
      /\ evaluation' = [i \in DOMAIN chosen |-> "none"]
      /\ \E team : /\ worker' = [w \in team |-> "unborn"]
                   /\ scanPc' = IF team # {} THEN "spawn" ELSE "consume"
  BY <1>2 DEF SelectTargets
<1>4. EpochInv'
  <2>1. CommitInv'
    BY <1>1, <1>2, HashInv DEF ScanInv, EpochInv, graphVars, sweepVars, ContentHash
  <2> QED
    BY <1>1, <1>2, <2>1, NoEpochInv DEF ScanInv, EpochInv
<1>5. WorkerInv'
  <2>1. PICK team : /\ worker' = [w \in team |-> "unborn"]
                    /\ scanPc' = IF team # {} THEN "spawn" ELSE "consume"
    BY <1>3
  <2>2. worker' \in [DOMAIN worker' -> {"unborn", "bind", "run", "ended"}]
    BY <2>1
  <2>3. {w \in DOMAIN worker' : worker'[w] \in {"bind", "run"}} = {}
    BY <2>1
  <2> QED
    BY <2>2, <2>3 DEF WorkerInv, Worker, Running
<1>6. SlotInv'
  <2>1. options \in ScanOptions
    BY DEF ScanInv, ScanTypeInv
  <2>2. options.max \in Nat /\ options.offset \in Nat
    BY <2>1, HtScanAssumption
  <2>3. DOMAIN targets = 0 .. Cardinality(Eligible(graph, graph)) - 1
    BY DEF InOrder
  <2>4. Cardinality(Eligible(graph, graph)) \in Nat
    <3>1. IsFiniteSet(Edge)
      BY SnapshotAssumption, FS_Interval DEF Edge
    <3>2. Eligible(graph, graph) \subseteq Edge
      BY DEF Eligible, ScanInv, EpochInv
    <3> QED
      BY <3>1, <3>2, FS_Subset, FS_CardinalityType
  <2> DEFINE n == Cardinality(Eligible(graph, graph))
  <2>5. DOMAIN chosen = {j \in 0 .. options.max - 1 : options.offset + j \in 0 .. n - 1}
    BY <2>3 DEF TargetSlice
  <2>6. consumed' = 0
    BY <1>1 DEF ScanInv, SlotInv
  <2>7. n \in Nat
    BY <2>4
  <2> HIDE DEF n
  <2>8. \A i \in DOMAIN chosen : i \in Nat /\ 0 .. i \subseteq DOMAIN chosen
    BY <2>2, <2>5, <2>7
  <2> HIDE DEF chosen
  <2>9. Slot' = DOMAIN chosen
    BY <1>3 DEF Slot
  <2>10. /\ evaluation' \in [Slot' -> {"none", "proven", "unresolved"}]
         /\ \A i \in Slot' : evaluation'[i] = "none"
    BY <1>3, <2>9
  <2>11. 0 .. consumed' - 1 = {}
    BY <2>6
  <2> QED
    BY <2>6, <2>8, <2>9, <2>10, <2>11 DEF SlotInv
<1>7. SliceInv'
  BY <1>1, <1>2, <1>3 DEF SliceInv, ValidOptions
<1>8. CommitPhaseInv'
  BY <1>1, <1>2, <1>3 DEF CommitPhaseInv, Searching
<1> QED
  BY <1>1, <1>3, <1>4, <1>5, <1>6, <1>7, <1>8 DEF ScanInv, ScanTypeInv, Searching

(* A step of the calling thread that is not about slots, workers or epoch. *)
LEMMA MoveOnInv ==
  ASSUME ScanInv,
         scanPc \notin {"start", "threw", "commit", "returned"},
         scanPc' \in {"unwind", "consume"}, scanPc' = "consume" => Running = {},
         UNCHANGED <<commitVars, epochVars, verdict, options, slice, worker, evaluation,
                     consumed>>
  PROVE  ScanInv'
<1>1. /\ EpochInv' /\ epochPc' = epochPc /\ active' = active /\ graph' = graph
  BY QuietStep
<1>2. WorkerInv'
  BY DEF ScanInv, WorkerInv, Worker, Running
<1>3. SlotInv'
  BY DEF ScanInv, SlotInv, Slot
<1>4. scanPc \in Searching
  BY DEF ScanInv, ScanTypeInv, Searching
<1>5. CommitPhaseInv'
  BY <1>1, <1>4 DEF ScanInv, CommitPhaseInv, Searching
<1> QED
  BY <1>1, <1>2, <1>3, <1>5 DEF ScanInv, ScanTypeInv, SliceInv, Searching

(* Starting a thread.                                                      *)
LEMMA SpawnInv ==
  ASSUME ScanInv, Spawn
  PROVE  ScanInv'
<1>1. /\ EpochInv' /\ epochPc' = epochPc /\ active' = active /\ graph' = graph
  BY QuietStep DEF Spawn
<1>2. PICK w \in Unborn : /\ worker' = [worker EXCEPT ![w] = "bind"]
                          /\ scanPc' \in {"spawn", "join"}
  BY DEF Spawn
<1>3. /\ scanPc = "spawn"
      /\ UNCHANGED <<verdict, options, slice, evaluation, consumed>>
  BY DEF Spawn
<1>4. WorkerInv'
  BY <1>2 DEF ScanInv, WorkerInv, Worker
<1>5. SlotInv'
  BY <1>2, <1>3 DEF ScanInv, SlotInv, Slot
<1> QED
  BY <1>1, <1>2, <1>3, <1>4, <1>5 DEF ScanInv, ScanTypeInv, SliceInv, CommitPhaseInv, Searching

(* The workers are joined: the call goes on, or rethrows.                  *)
LEMMA JoinInv ==
  ASSUME ScanInv, Join
  PROVE  ScanInv'
<1>1. epochPc = "idle"
  BY DEF Join, ScanInv, CommitPhaseInv, Searching
<1>2. CASE scanPc' = "consume"
  BY <1>2, MoveOnInv DEF Join, workerVars
<1>3. CASE scanPc' = "threw"
  BY <1>1, <1>3, ThrowInv DEF Join, workerVars
<1> QED
  BY <1>2, <1>3 DEF Join, ScanThrow

(* A slot is consumed, and holds a verdict from then on.                   *)
LEMMA ConsumeInv ==
  ASSUME ScanInv, Consume
  PROVE  ScanInv'
<1>1. /\ EpochInv' /\ epochPc' = epochPc /\ active' = active /\ graph' = graph
  BY QuietStep DEF Consume
<1>2. /\ scanPc = "consume" /\ consumed \in Slot
      /\ UNCHANGED <<commitVars, epochVars, verdict, options, slice, worker>>
  BY DEF Consume
<1>3. Running = {} /\ epochPc = "idle"
  BY <1>2 DEF ScanInv, WorkerInv, CommitPhaseInv, Searching
<1> DEFINE searched == IF Worker = {} THEN verdict[slice[consumed]] ELSE evaluation[consumed]
<1>4. CASE searched \in {"proven", "unresolved"}
  <2>1. /\ evaluation' = [evaluation EXCEPT ![consumed] = searched]
        /\ consumed' = consumed + 1
        /\ scanPc' = scanPc
    BY <1>4 DEF Consume
  <2>2. searched = verdict[slice[consumed]]
    BY <1>2, <1>4 DEF ScanInv, SlotInv
  <2>3. Slot' = Slot
    BY <1>2 DEF Slot
  <2>4. SlotInv'
    <3>1. /\ evaluation \in [Slot -> {"none", "proven", "unresolved"}]
          /\ consumed \in Nat /\ 0 .. consumed - 1 \subseteq Slot
          /\ \A i \in 0 .. consumed - 1 : evaluation[i] # "none"
          /\ \A i \in Slot : evaluation[i] # "none" => evaluation[i] = verdict[slice[i]]
          /\ Slot \subseteq Nat /\ \A i \in Slot : 0 .. i \subseteq Slot
      BY DEF ScanInv, SlotInv
    <3>2. evaluation' \in [Slot -> {"none", "proven", "unresolved"}]
      BY <1>4, <2>1, <3>1
    <3>3. /\ consumed' \in Nat
          /\ \A i \in 0 .. consumed' - 1 : i \in 0 .. consumed - 1 \/ i = consumed
      BY <2>1, <3>1
    <3>4. \A i \in 0 .. consumed' - 1 : i \in Slot /\ evaluation'[i] # "none"
      BY <1>2, <1>4, <2>1, <3>1, <3>3
    <3>5. \A i \in Slot : evaluation'[i] # "none" => evaluation'[i] = verdict[slice[i]]
      BY <1>2, <2>1, <2>2, <3>1
    <3> QED
      BY <1>2, <2>1, <2>3, <3>1, <3>2, <3>3, <3>4, <3>5 DEF SlotInv
  <2>5. WorkerInv'
    BY <1>2, <2>1 DEF ScanInv, WorkerInv, Worker, Running
  <2> QED
    BY <1>1, <1>2, <2>1, <2>4, <2>5
    DEF ScanInv, ScanTypeInv, SliceInv, CommitPhaseInv, Searching
<1>5. CASE searched \notin {"proven", "unresolved"}
  <2>1. scanPc' = "threw" /\ UNCHANGED <<evaluation, consumed>>
    BY <1>5 DEF Consume, ScanThrow
  <2> QED
    BY <1>2, <1>3, <2>1, ThrowInv
<1> QED
  BY <1>4, <1>5

(* The epoch begins with a proof of each proven target.                    *)
LEMMA CommitScanInv ==
  ASSUME ScanInv, CommitScan
  PROVE  ScanInv'
<1> DEFINE proofs == {ProofOf(e) : e \in Proven}
<1>1. /\ scanPc = "consume" /\ consumed \notin Slot /\ BeginEpoch(proofs)
      /\ scanPc' = "commit"
      /\ UNCHANGED <<verdict, options, slice, worker, evaluation, consumed>>
  BY DEF CommitScan, workerVars
<1>2. active = graph /\ epochPc = "idle"
  BY <1>1 DEF ScanInv, CommitPhaseInv, Searching
<1>3. \A p \in proofs : p.text \in Nat
  BY DEF ProofOf, HtProof
<1>4. Targets' = Proven
  <2>1. batch' = proofs
    BY <1>1 DEF BeginEpoch
  <2>2. \A e : ProofOf(e).target = e
    BY DEF ProofOf, HtProof
  <2> QED
    BY <2>1, <2>2 DEF Targets
<1> HIDE DEF proofs
<1>5. EpochInv'
  BY <1>1, <1>2, <1>3, BeginEpochInv DEF ScanInv
<1>6. epochPc' = "commit" /\ graph' = graph
  BY <1>1 DEF BeginEpoch
<1>7. WorkerInv'
  BY <1>1 DEF ScanInv, WorkerInv, Worker, Running
<1>8. SlotInv' /\ Slot' = Slot /\ Proven' = Proven
  BY <1>1 DEF ScanInv, SlotInv, Slot, Proven
<1>9. SliceInv'
  BY <1>1, <1>2, <1>6 DEF ScanInv, SliceInv
<1>10. CommitPhaseInv'
  BY <1>1, <1>4, <1>6, <1>8 DEF CommitPhaseInv, Searching
<1> QED
  BY <1>1, <1>5, <1>7, <1>8, <1>9, <1>10 DEF ScanInv, ScanTypeInv

(* A step of the epoch.                                                    *)
LEMMA CommitStepInv ==
  ASSUME ScanInv, CommitStep
  PROVE  ScanInv'
<1>1. /\ scanPc = "commit" /\ EpochStep
      /\ UNCHANGED <<verdict, options, scanPc, slice, worker, evaluation, consumed>>
  BY DEF CommitStep, workerVars
<1>2. EpochInv'
  BY <1>1, EpochStepInv DEF ScanInv
<1>3. /\ batch' = batch /\ epochPc = "commit" /\ epochPc' \in {"commit", "returned", "threw"}
      /\ epochPc' # "returned" => graph' = graph
  BY <1>1 DEF EpochStep, SweepEpoch, PublishEpoch, AbortEpoch
<1>4. WorkerInv'
  BY <1>1 DEF ScanInv, WorkerInv, Worker, Running
<1>5. SlotInv' /\ Slot' = Slot /\ Proven' = Proven
  BY <1>1 DEF ScanInv, SlotInv, Slot, Proven
<1>6. Targets' = Targets
  BY <1>3 DEF Targets
<1>7. SliceInv'
  BY <1>1, <1>3 DEF ScanInv, SliceInv
<1>8. CommitPhaseInv'
  BY <1>1, <1>3, <1>5, <1>6 DEF ScanInv, CommitPhaseInv, Searching
<1> QED
  BY <1>1, <1>2, <1>4, <1>5, <1>7, <1>8 DEF ScanInv, ScanTypeInv

(* The call returns.                                                       *)
LEMMA ScanReturnInv ==
  ASSUME ScanInv, ScanReturn
  PROVE  ScanInv'
<1>1. /\ EpochInv' /\ epochPc' = epochPc /\ graph' = graph
  BY QuietStep DEF ScanReturn
<1>2. /\ scanPc = "commit" /\ epochPc = "returned" /\ scanPc' = "returned"
      /\ UNCHANGED <<verdict, options, slice, worker, evaluation, consumed>>
  BY DEF ScanReturn, workerVars
<1>3. WorkerInv'
  BY <1>2 DEF ScanInv, WorkerInv, Worker, Running
<1>4. SlotInv'
  BY <1>2 DEF ScanInv, SlotInv, Slot
<1> QED
  BY <1>1, <1>2, <1>3, <1>4 DEF ScanInv, ScanTypeInv, SliceInv, CommitPhaseInv, Searching

(* A step of a worker.  Workers are at work only in the phases that allow  *)
(* it, and fill a slot with the verdict of its target.                     *)
LEMMA WorkerStepInv ==
  ASSUME ScanInv, NEW w \in Worker, WorkerStep(w)
  PROVE  ScanInv'
<1>1. /\ EpochInv' /\ Targets' = Targets /\ epochPc' = epochPc /\ active' = active
      /\ graph' = graph
  BY QuietStep DEF WorkerStep
<1>2. UNCHANGED <<verdict, options, scanPc, slice, consumed>>
  BY DEF WorkerStep
<1>3. w \in Running
  BY DEF WorkerStep, Bind, Search, SearchThrows, Finish, Running
<1>4. scanPc \in {"spawn", "unwind", "join"}
  BY <1>3 DEF ScanInv, WorkerInv, ScanTypeInv, Searching
<1>5. /\ worker \in [Worker -> {"unborn", "bind", "run", "ended"}]
      /\ \/ worker' = worker
         \/ \E s \in {"run", "ended"} : worker' = [worker EXCEPT ![w] = s]
  BY DEF WorkerStep, Bind, Search, SearchThrows, Finish, ScanInv, WorkerInv
<1>6. WorkerInv'
  BY <1>2, <1>4, <1>5 DEF WorkerInv, Worker
<1>7. SlotInv'
  <2>1. CASE evaluation' = evaluation
    BY <1>2, <1>4, <2>1 DEF ScanInv, SlotInv, Slot
  <2>2. CASE Search(w)
    <3>1. /\ cursor[w] \in Slot /\ verdict[slice[cursor[w]]] # "throws"
          /\ evaluation' = [evaluation EXCEPT ![cursor[w]] = verdict[slice[cursor[w]]]]
      BY <2>2 DEF Search
    <3>2. verdict[slice[cursor[w]]] \in {"proven", "unresolved"}
      BY <1>4, <3>1, VerdictOfSlot
    <3>3. Slot' = Slot
      BY <1>2 DEF Slot
    <3>4. /\ evaluation \in [Slot -> {"none", "proven", "unresolved"}]
          /\ \A i \in Slot : evaluation[i] # "none" => evaluation[i] = verdict[slice[i]]
          /\ \A i \in 0 .. consumed - 1 : i \in Slot /\ evaluation[i] # "none"
      BY DEF ScanInv, SlotInv
    <3>5. evaluation' \in [Slot -> {"none", "proven", "unresolved"}]
      BY <3>1, <3>2, <3>4
    <3>6. \A i \in Slot : evaluation'[i] # "none" => evaluation'[i] = verdict[slice[i]]
      BY <3>1, <3>4
    <3>7. \A i \in 0 .. consumed - 1 : evaluation'[i] # "none"
      BY <3>1, <3>2, <3>4
    <3> QED
      BY <1>2, <1>4, <3>3, <3>5, <3>6, <3>7 DEF ScanInv, SlotInv
  <2> QED
    BY <2>1, <2>2 DEF WorkerStep, Bind, SearchThrows, Finish
<1> QED
  BY <1>1, <1>2, <1>4, <1>6, <1>7 DEF ScanInv, ScanTypeInv, SliceInv, CommitPhaseInv, Searching

(* Every step keeps the invariant.                                         *)
LEMMA ScanNextInv ==
  ASSUME ScanInv, [ScanNext]_scanVars
  PROVE  ScanInv'
<1>1. CASE RejectOptions
  <2>1. Running = {} /\ epochPc = "idle"
    BY <1>1 DEF RejectOptions, ScanInv, WorkerInv, CommitPhaseInv, Searching
  <2> QED
    BY <1>1, <2>1, ThrowInv DEF RejectOptions, ScanThrow, workerVars
<1>2. CASE SpawnFails
  BY <1>2, MoveOnInv DEF SpawnFails, workerVars
<1>3. CASE Unwind
  <2>1. epochPc = "idle"
    BY <1>3 DEF Unwind, ScanInv, CommitPhaseInv, Searching
  <2> QED
    BY <1>3, <2>1, ThrowInv DEF Unwind, ScanThrow, workerVars
<1>4. CASE CommitThrew
  <2>1. Running = {}
    BY <1>4 DEF CommitThrew, ScanInv, WorkerInv
  <2> QED
    BY <1>4, <2>1, ThrowInv DEF CommitThrew, ScanThrow, workerVars
<1>5. CASE MainStep
  BY <1>1, <1>2, <1>3, <1>4, <1>5, SelectTargetsInv, SpawnInv, JoinInv, ConsumeInv,
     CommitScanInv, CommitStepInv, ScanReturnInv DEF MainStep
<1>6. CASE \E w \in Worker : WorkerStep(w)
  BY <1>6, WorkerStepInv
<1>7. CASE UNCHANGED scanVars
  <2>1. /\ EpochInv' /\ Targets' = Targets /\ epochPc' = epochPc /\ active' = active
        /\ graph' = graph
    BY <1>7, QuietStep DEF scanVars
  <2>2. UNCHANGED <<verdict, options, scanPc, slice, worker, evaluation, consumed>>
    BY <1>7 DEF scanVars, workerVars
  <2>3. WorkerInv' /\ SlotInv' /\ Slot' = Slot /\ Proven' = Proven
    BY <2>2 DEF ScanInv, WorkerInv, SlotInv, Slot, Worker, Running, Proven
  <2> QED
    BY <2>1, <2>2, <2>3 DEF ScanInv, ScanTypeInv, SliceInv, CommitPhaseInv, Searching
<1> QED
  BY <1>5, <1>6, <1>7 DEF ScanNext

-----------------------------------------------------------------------------
(* What follows of the scan.                                               *)

(* The invariant holds throughout.                                         *)
THEOREM ScanInvariant == ScanSpec => []ScanInv
<1>1. ScanInit => ScanInv
  BY ScanInitInv
<1>2. ScanInv /\ [ScanNext]_scanVars => ScanInv'
  BY ScanNextInv
<1> QED
  BY <1>1, <1>2, PTL DEF ScanSpec

(* Whichever thread fails first, and wherever, no worker runs once the     *)
(* call has gone on to the commit, returned or thrown (ht_scan.cpp:402-433)*)
THEOREM NoWorkerIsLeft == ScanSpec => []NoWorkerOutlivesScan
<1>1. ScanInv => NoWorkerOutlivesScan
  BY DEF ScanInv, WorkerInv, NoWorkerOutlivesScan
<1> QED
  BY <1>1, ScanInvariant, PTL

(* The log of a scan that returned certifies each of its deletions on the  *)
(* graph the scan began with.                                              *)
THEOREM ScanIsCertified == ScanSpec => []EpochCertified
<1>1. ScanInv => EpochCertified
  BY DEF ScanInv, EpochInv
<1> QED
  BY <1>1, ScanInvariant, PTL

-----------------------------------------------------------------------------
(* The scan implements its contract.                                       *)

(* Every slot of the slice holds its verdict when the commit begins.       *)
LEMMA AllConsumed ==
  ASSUME ScanInv, scanPc = "commit"
  PROVE  /\ \A i \in Slot : verdict[slice[i]] # "throws"
         /\ evaluation = [i \in Slot |-> verdict[slice[i]]]
<1>1. consumed \notin Slot /\ consumed \in Nat /\ Slot \subseteq Nat
  BY DEF ScanInv, CommitPhaseInv, SlotInv
<1>2. \A i \in Slot : i \in 0 .. consumed - 1
  <2> SUFFICES ASSUME NEW i \in Slot, consumed <= i
               PROVE  FALSE
    BY <1>1
  <2>1. consumed \in 0 .. i
    BY <1>1
  <2> QED
    BY <1>1, <2>1 DEF ScanInv, SlotInv
<1>3. \A i \in Slot : /\ evaluation[i] = verdict[slice[i]]
                      /\ evaluation[i] \in {"none", "proven", "unresolved"}
  BY <1>2 DEF ScanInv, SlotInv
<1>4. evaluation \in [Slot -> {"none", "proven", "unresolved"}]
  BY DEF ScanInv, SlotInv
<1> QED
  BY <1>3, <1>4

(* The contract reads the graph with the operators the scan reads it with. *)
LEMMA ContractSame ==
  /\ \A g, e : Contract!Deletable(g, e) <=> Deletable(g, e)
  /\ \A S, wanted, g : Contract!IsGreedy(S, wanted, g) <=> GreedySubset(S, wanted, g)
  /\ Contract!Targets = InOrder(Eligible(graph, graph), EdgeWeight, options.order)
  /\ \A t, n, m : Contract!TargetSlice(t, n, m) = TargetSlice(t, n, m)
  /\ Contract!Eligible(graph, graph) = Eligible(graph, graph)
  /\ \A S : Contract!Cardinality(S) = Cardinality(S)
<1>0. \A S : Contract!Cardinality(S) = Cardinality(S)
  BY DEF Contract!Cardinality, Cardinality
<1>1. \A g, e : Contract!Deletable(g, e) <=> Deletable(g, e)
  BY <1>0 DEF Contract!Deletable, Deletable, Contract!Degree, Degree, Contract!Row, Row,
         Contract!Incident, Incident
<1>2. \A S, wanted, g : Contract!IsGreedy(S, wanted, g) <=> GreedySubset(S, wanted, g)
  BY <1>1 DEF GreedySubset, EdgesBelow, Contract!IsGreedy, Contract!Below
<1>3. \A a, c : Contract!Eligible(a, c) = Eligible(a, c)
  BY <1>1 DEF Contract!Eligible, Eligible
<1>4. \A t, w, o : Contract!InOrder(t, w, o) = InOrder(t, w, o)
  BY DEF Contract!InOrder, InOrder, Contract!Precedes, Precedes,
         Contract!Cardinality, Cardinality
<1>5. \A t, n, m : Contract!TargetSlice(t, n, m) = TargetSlice(t, n, m)
  BY DEF Contract!TargetSlice, TargetSlice
<1> QED
  BY <1>0, <1>1, <1>2, <1>3, <1>4, <1>5 DEF Contract!Targets

(* Publishing the epoch is the step in which the contract returns.         *)
LEMMA PublishReturns ==
  ASSUME ScanInv, CommitStep, PublishEpoch
  PROVE  Contract!Return
<1>1. /\ scanPc = "commit" /\ scanPc' = "commit"
      /\ epochPc = "commit" /\ epochPc' = "returned"
      /\ UNCHANGED <<verdict, options, slice, evaluation>>
      /\ phase = "idle" /\ result = "committed" /\ graph' = active
  BY DEF CommitStep, workerVars, PublishEpoch
<1>2. /\ options.offset <= Cardinality(Eligible(graph, graph))
      /\ slice = TargetSlice(InOrder(Eligible(graph, graph), EdgeWeight, options.order),
                             options.offset, options.max)
  BY <1>1 DEF ScanInv, SliceInv
<1>3. /\ \A i \in DOMAIN slice : verdict[slice[i]] # "throws"
      /\ evaluation = [i \in DOMAIN slice |-> verdict[slice[i]]]
  BY <1>1, AllConsumed DEF Slot
<1>4. /\ graph' = graph \ Committed
      /\ GreedySubset(Committed, Proven, graph)
  BY <1>1 DEF ScanInv, EpochInv, CommitPhaseInv
<1>5. Proven \subseteq Eligible(graph, graph) /\ graph \subseteq Edge
  <2>1. \A i \in Slot : slice[i] \in Eligible(graph, graph)
    BY <1>1, SliceEligible
  <2> QED
    BY <2>1 DEF Proven, ScanInv, EpochInv
<1>6. graph \ graph' = Committed
  BY <1>4, <1>5 DEF GreedySubset, Eligible
<1>7. Contract!IsGreedy(graph \ graph', Proven, graph)
  BY <1>4, <1>6, ContractSame
<1>8. Proven # {} => graph' # graph
  <2>1. Proven # {} => Committed # {}
    BY <1>4, <1>5, FirstProvenGoes
  <2> QED
    BY <1>6, <2>1
<1>9. Proven = {slice[i] : i \in {j \in DOMAIN slice : evaluation[j] = "proven"}}
  BY DEF Proven, Slot
<1> DEFINE sl == Contract!TargetSlice(Contract!Targets, options.offset, options.max)
<1>10. sl = slice
  BY <1>2, ContractSame
<1> HIDE DEF sl
<1>11. \E x \in {sl} :
         /\ \A i \in DOMAIN x : verdict[x[i]] # "throws"
         /\ evaluation' = [i \in DOMAIN x |-> verdict[x[i]]]
         /\ LET proven == {x[i] : i \in {j \in DOMAIN x : evaluation'[j] = "proven"}}
            IN  /\ Contract!IsGreedy(graph \ graph', proven, graph)
                /\ proven # {} => graph' # graph
  BY <1>1, <1>3, <1>7, <1>8, <1>9, <1>10
<1> QED
  BY <1>1, <1>2, <1>4, <1>5, <1>11, ContractSame DEF Contract!Return, sl

(* The threads, their slots and exceptions implement a scan that happens   *)
(* in one step, for every graph, verdicts, options and number of devices.  *)
THEOREM ScanKeepsContract == ScanSpec => ImplementsScanContract
<1>1. ScanInit => Contract!Init
  BY DEF ScanInit, HtEpochInit, CommitInit, Contract!Init
<1>2. ScanInv /\ [ScanNext]_scanVars => [Contract!Next]_(Contract!vars)
  <2> SUFFICES ASSUME ScanInv, [ScanNext]_scanVars
               PROVE  Contract!Next \/ UNCHANGED Contract!vars
    OBVIOUS
  <2>1. CASE CommitStep /\ PublishEpoch
    BY <2>1, PublishReturns DEF Contract!Next
  <2>2. CASE CommitStep /\ ~ PublishEpoch
    <3>1. /\ UNCHANGED <<graph, verdict, options, evaluation, scanPc>>
          /\ epochPc # "returned" /\ epochPc' # "returned" /\ scanPc = "commit"
      BY <2>2 DEF CommitStep, workerVars, EpochStep, SweepEpoch, AbortEpoch, PublishEpoch
    <3> QED
      BY <3>1 DEF Contract!vars
  <2>3. CASE CommitScan
    <3>1. /\ UNCHANGED <<graph, verdict, options>>
          /\ epochPc # "returned" /\ epochPc' # "returned"
          /\ scanPc = "consume" /\ scanPc' = "commit"
      BY <2>3 DEF CommitScan, BeginEpoch
    <3> QED
      BY <3>1 DEF Contract!vars
  <2>4. CASE SelectTargets
    <3>1. /\ UNCHANGED <<graph, verdict, options, epochPc>>
          /\ epochPc # "returned" /\ scanPc = "start" /\ scanPc' \in {"spawn", "consume"}
      BY <2>4 DEF SelectTargets, epochVars, ScanInv, CommitPhaseInv, Searching
    <3> QED
      BY <3>1 DEF Contract!vars
  <2>5. CASE RejectOptions \/ Unwind \/ CommitThrew \/ Join \/ Consume
    <3>1. /\ UNCHANGED <<graph, verdict, options, epochPc>>
          /\ epochPc # "returned" /\ scanPc \notin {"returned", "threw"}
          /\ scanPc' = "threw" \/ scanPc' = "consume"
      BY <2>5 DEF RejectOptions, Unwind, CommitThrew, Join, Consume, ScanThrow, epochVars,
                  ScanInv, CommitPhaseInv, Searching
    <3>2. CASE scanPc' = "threw"
      BY <3>1, <3>2 DEF Contract!Next, Contract!Throw
    <3>3. CASE scanPc' = "consume"
      BY <3>1, <3>3 DEF Contract!vars
    <3> QED
      BY <3>1, <3>2, <3>3
  <2>6. CASE Spawn \/ SpawnFails
    <3>1. /\ UNCHANGED <<graph, verdict, options, epochPc, evaluation>>
          /\ scanPc = "spawn" /\ scanPc' \in {"spawn", "join", "unwind"}
      BY <2>6 DEF Spawn, SpawnFails, epochVars, workerVars
    <3> QED
      BY <3>1 DEF Contract!vars
  <2>7. CASE ScanReturn
    <3>1. /\ UNCHANGED <<graph, verdict, options, epochPc, evaluation>>
          /\ epochPc = "returned" /\ scanPc = "commit" /\ scanPc' = "returned"
      BY <2>7 DEF ScanReturn, epochVars, workerVars
    <3> QED
      BY <3>1 DEF Contract!vars
  <2>8. CASE \E w \in Worker : WorkerStep(w)
    <3>1. PICK w \in Worker : WorkerStep(w)
      BY <2>8
    <3>2. w \in Running
      BY <3>1 DEF WorkerStep, Bind, Search, SearchThrows, Finish, Running
    <3>3. scanPc \notin {"commit", "returned", "threw"} /\ epochPc # "returned"
      BY <3>2 DEF ScanInv, WorkerInv, CommitPhaseInv, ScanTypeInv, Searching
    <3>4. UNCHANGED <<graph, verdict, options, epochPc, scanPc>>
      BY <3>1 DEF WorkerStep, epochVars
    <3> QED
      BY <3>3, <3>4 DEF Contract!vars
  <2>9. CASE UNCHANGED scanVars
    BY <2>9 DEF scanVars, epochVars, workerVars, Contract!vars
  <2> QED
    BY <2>1, <2>2, <2>3, <2>4, <2>5, <2>6, <2>7, <2>8, <2>9 DEF ScanNext, MainStep
<1> QED
  BY <1>1, <1>2, ScanInvariant, PTL DEF ScanSpec, ImplementsScanContract, Contract!Spec
=============================================================================
