# Verification of cudaEdgeElimination

cudaEdgeElimination takes a sparse TSP instance and deletes edges that no optimal tour needs.
It deletes an edge only with a justification (a Jonker-Volgenant witness node, or a
Hamilton-Tutte proof tree), checks every justification on the CPU, and writes a log that a
second process replays. This directory holds TLA+ modules of the part of the program that
decides which edges go and what is recorded about it, TLC runs that check them, and TLAPS proofs.

Paths below are those of the repository (`src/cpu/...`, `include/cuda_edge_elimination/...`).

## 1. The system

| component | state | operations | talks to |
|---|---|---|---|
| graph snapshot (`src/common/graph.cpp`, `distance.cpp`) | points, edge list, active bits, CSR rows, content hash | load, degree, row, hash, rebuild rows | everybody reads it |
| edge commit (`src/cpu/elimination_commit.cpp`) | sweep counters, accepted candidates | `CommitVerifiedCandidates` | the only writer of active bits |
| Jonker-Volgenant (`src/cpu/jv_elimination.cpp`, `src/cuda/jv_cuda.cu`) | epoch, proposals, proof records | propose, verify, commit, log | commit; the CUDA kernel as proposer |
| proof log and replay (same file) | records, certificates, hashes | `WriteProof`, `ReadProof`, `ReplayProof` | commit, JV verifier, HT verifier, the file |
| Hamilton-Tutte epoch (`src/cpu/ht_epoch.cpp`) | working copy, selected proofs | `CommitHtProofEpoch` | HT verifier, commit |
| Hamilton-Tutte scan (`src/cpu/ht_scan.cpp`) | target slice, result and exception slots, worker threads | `RunHtScanEpoch` | prover (per thread, per device), epoch |
| local driver (`src/cpu/local_elimination.cpp`) | working copy, combined log, offset, budgets | `RunLocalElimination` | JV, scan |
| path systems (`src/cpu/path_system.cpp`, `ht_path_append.cpp`, `src/cuda/path_compatibility.cu`) | normalised paths, compatibility table | normalise, append a reply, endpoint matchings | HT provers and verifiers |
| HT recursive prover and verifier (`src/cpu/hamilton_tutte_recursive.cpp`, `hamilton_tutte.cpp`) | proof array, recursion frames, budgets; the verifier's stack | moves, replies, search, verify | path systems, k-opt |
| HT proof text (`src/cpu/hamilton_tutte_proof.cpp`) | a file | write, read | recursive verifier |
| HT wavefront prover (`src/cpu/hamilton_tutte_wavefront.cpp`) | states by level, candidate cache, budgets | expand a frontier, propagate, copy the proof out | path append, k-opt, CUDA kernels, HT verifier |
| k-opt leaf search (`src/cpu/kopt_search.cpp`, `src/cuda/kopt_cost.cu`) | records of a leaf proof, one cursor per path system, cost matrices | prove one leaf or many, verify a leaf | both HT provers and the verifier |
| propagation on the device (`src/cuda/ht_cd.cu`) | status, counters, a queue of finished states | one persistent or cooperative launch | wavefront |
| LP epochs (`src/lp`) | reduced costs | sidecar exchange, acceptance | cuOpt process |
| device calls (`src/cuda/jv_cuda.cu`, `ht_replies.cu`, `kopt_cost.cu`) | tables and buffers per thread and device | upload what differs, launch, copy back | JV, wavefront, k-opt |
| tours (`src/common/tour.cpp`) | a tour | parse, protect | command line |
| command line (`src/cli/main.cpp`) | options, output files | commands | all of the above |

How they interact. Every deletion takes one road: somebody hashes a snapshot, proposes candidates
against it, verifies them against it, and passes the batch *with the hash* to
`CommitVerifiedCandidates`, which refuses another graph, sorts and dedupes the batch, and deletes
greedily while both ends keep more than two edges. JV rounds and HT scans alternate in the local
driver, each on what the other left, and both append to one log. `ReplayProof` walks the log on a
fresh copy and repeats verification and commit.

The wavefront prover asks a device for four things (candidates, replies, extended path systems,
propagated statuses). The program computes each on the CPU as well and compares, so a device can delay
a proof or lose it, and cannot make one. Jonker-Volgenant proposals of a device are not compared; the
verifier judges them.

### What is hard here, and what must hold

* *Batches against one snapshot.* Candidates are verified singly and deleted together. Degrees
  must not fall below two, and a set of deletions that each keep every optimal tour must keep it
  together. (`DegreeFloor`, `OptimalToursSurvive`)
* *Untrusted proposers.* The CUDA kernel and proof files can contain anything.
  (`OptimalToursSurvive`, `AcceptedIsSound`, `LeafSound`)
* *Threads.* `RunHtScanEpoch` starts up to one thread per device; exceptions arise in workers and
  in thread creation; the outcome must be the sequential one. (`ImplementsScanContract`,
  `NoWorkerOutlivesScan`, `ScanEnds`)
* *Lock-free propagation.* Threads of a kernel decide states bottom up with atomic counters and meet
  at barriers, some after others have left. (`DeviceAgrees`, `StatusJustified`, `PropagationEnds`)
* *What outlives a call.* Tables stay on a device between calls about different graphs, and a call
  may throw between the upload and the mark that it happened; candidate marks stay in a cache whose
  generation counter wraps. (`BatchExact`, `CandidatesFresh`)
* *All or nothing.* Any step can throw. The caller's graph changes at once or not at all.
  (`ImplementsAtomicCommit`, `AllOrNothing`, `RunReplays`)
* *Two files.* A command writes the edges, then the proof, and may die in between or lose the tail
  of either. (`ReturnedPairAgrees`, `OnlyWholeFilesRead`, `OutputKeepsTours`)
* *Log bookkeeping across stages.* Epoch numbers and certificate indices are shifted when logs
  are joined; empty rounds must leave no gap. (`RunReplays`, `JvLogReplays`, `EpochCertified`)
* *Fixed points and progress.* "converged" after scanning slice by slice with deletions in
  between. (`ConvergedIsFixedPoint`, `ScanProgress`)
* *The argument itself.* A Hamilton-Tutte proof is a case distinction that must not miss a case:
  the replies to a move must be exhaustive, each leaf must improve every tour through its paths,
  and a verifier with an explicit stack has to visit every child it was promised, in a file
  that may say anything. (`MoveExhaustive`, `LeafRefutes`, `AcceptedIsSound`, `LeafSound`)
* *Several implementations of one thing.* The shortcut that extends a path system, the normaliser and
  two kernels; the JV finder and its kernel; one leaf and a batch of leaves; the search, the
  definition and the verifier. (`AppendIsNormalize`, `ChildIsExact`, `DeviceAppendAgrees`,
  `KernelAgrees`, `BatchIsSequential`, `SearchesExact`, `ProverVerifies`, `WaveDecides`)
* *Backtracking and budgets.* The recursive search appends to the proof array on the way down and
  cuts it back on the way up; the wavefront keeps flat arrays with indices into each other, in
  blocks; budgets end either anywhere. (`ProverVerifies`, `SearchDecides`, `TasksFaithful`,
  `WaveDecides`)
* *Arithmetic in words.* Distances decide proofs, and a test of the span of the coordinates decides
  whether 64 bits are enough. The test itself is computed in 128 bits, which the widest spans
  overflow; the property is stated up to there. (`DistancesExact`, section 4)

The full list, with the lines where each bites, is `hazards` in `PROJECT.json`. Two of its entries
have no property. The range check of a coordinate in floating point (`graph.cpp:90`) is outside
integers. The wavefront marks a search proven before its own verification
(`hamilton_tutte_wavefront.cpp:1663`), which may run out of memory; the caller looks at the status
first, and allocation failures inside the verifier are not modelled.

## 2. Modules

The snapshot, the commit and what is recorded:

| module | models | state and actions |
|---|---|---|
| `Snapshot` | `GraphSnapshot` | `active` bits and the edges the rows (`csr`) were built from, as sets of edge ids; `Degree`, `Row`, `Deletable` read the rows, as the code does; target order and slice of a scan (`InOrder`, `TargetSlice`) |
| `EdgeCommit` | `CommitVerifiedCandidates` | `BeginCommit` / `RejectCommit` (the checks, sort and unique), `SkipCandidate` / `TakeCandidate` (one loop iteration each), `PublishCommit` (copy, rebuild, move), `AbortCommit` (`bad_alloc`) |
| `CommitCaller` | any caller of it | any sequence of hash and call, stale hashes and bad batches included |
| `AtomicCommit` | *abstract*: a commit in one step | the greedy subset of a batch, on the hashed graph only |
| `JvRule` | finder and verifier of JV witnesses | pure operators on a distance table and two graphs (active bits, rows) |
| `JvKernel` | one thread of the JV kernel | pure operators on arrays: the short sorted list of candidates, binary search in a row |
| `JvElimination` | `RunJvElimination` | backend choice, propose (CPU or device), verify, commit, log |
| `Tours` | reference definition | Hamiltonian cycles and optimal tours by enumeration; no program code |
| `ProofReplay` | `ValidateProofContainer`, `ReplayProof`; `WriteProof`, `ReadProof` | the replay as a function of graph and log; the file as a sequence of lines |
| `ReplayRun` | `ReplayProof` | record by record, on a working copy, through `EdgeCommit` |
| `HtEpoch` | `CommitHtProofEpoch` | verify all, select, commit on a copy, collect certificates, move |
| `HtScan` | `RunHtScanEpoch` | the calling thread (`scanPc`) and the workers (`worker`, `cursor`), slots, join, rethrow, consume, commit |
| `HtScanContract` | *abstract*: a scan in one step | verdicts in target order and the greedy deletion, or an exception and no change |
| `LocalElimination` | `RunLocalElimination`, `AppendEliminationStage` | JV stage (all of `JvElimination`), scan (at its contract, committed through `EdgeCommit`), offset, budgets, combined log |
| `Commands` | `eliminate`, `ht-commit`, `ht-scan`, `local-eliminate`, `verify`, the protected tour | `script` of commands, `commandPc`, the two files as lines; load, run, look at the tour, write edges, write proof, return, fail, die |

The Hamilton-Tutte side:

| module | models | state and actions |
|---|---|---|
| `PathSystem` | `NormalizePathSystem`, outside matchings, alternating cycles | pure operators: the scan of the raw list and its first fault, the chains of the edges, the refusal of cycles; matchings on endpoints |
| `PathAppend` | `AppendNormalizedPaths`, the two append kernels and the comparison | the operators, and a machine that extends a system by any sequence of replies |
| `KOptWitness` | `BuildTourContext`, `VerifyKOptWitness`; what the searches for a witness may return | pure operators on sets of edges; sets of witnesses, the order of the search is left open |
| `KOptProver` | the searches as the code runs them | order of matchings and deletion sets, budgets, reconnection tables, the exact search on subtours of blocks (a dynamic program), the prover of one path system |
| `KOptBatch` | `ProvePathSystemsByKOpt` and the verifier | `works` (a proof in the making per system), `active` (the searches of a round, each with its cursor); `CollectRound`, `PrepareBlocks`, `ScoreBucket` / `ScoreFails`, `ApplySearches`; then `CheckRecord` on these proofs or on records from a file |
| `HtMoves` | moves, replies, candidates and their ranking | pure operators on a graph record |
| `HtProofWalk` | `VerifyHtRecursiveProof`, `QueueChild` | the verifier's stack `work`, `visited`, and the reply `cursor` of the node being checked; one action per kind of node, per reply and per way of refusing |
| `HtRecursive` | `ProveEdgeByRecursiveHt`, `TryCdRootMove`, `ProveState`, `TryPointMove`, `TryEndMove` | the call stack as `stack` of frames, `entering` the argument and `returned` the result of `ProveState`, the proof array `nodes`, the budgets; then the verifier on the prover's own proof, and on a stored one; then, properties only, what an accepted proof shows and the two facts it rests on |
| `HtWavefront` | `ProveEdgeByWavefrontHt` | root moves in turn, `frontier` in blocks, candidate cache with its generation, replies, leaves and children in batches that may fail, flat arrays, propagation, the proof copied out and verified |
| `WaveGraph` | the wavefront as the device gets it | what the host flattens, what the device call accepts, and when a status array solves a graph |
| `HtPropagation` | the persistent and the cooperative kernel, launch and checks behind it | one action per atomic operation of a thread, barriers, queue, counters |
| `DeviceTables` | the caches of JV, reply and cost calls; `ExactIntegerDistance`, the square root, the test of the span behind `integer_distance_safe` | a host thread that makes calls on several devices: selection, comparison, upload, buffer growth, launch, copy back, and a throw between any two; distances as pure operators on words of `WordBits` bits, as the CPU and as the device compute them |
| `HtInstances` | graphs, targets and options of the runs of both provers | |
| `MC*` | instances for TLC | edge lists, point sets, batches, options |
| `EdgeCommit_proofs`, `HtEpoch_proofs` | lemmas about the loop and about the epoch around it | what every caller of them keeps, step by step; the order in which targets are searched |
| `CommitCaller_proofs`, `HtScan_proofs`, `LocalElimination_proofs`, `Commands_proofs`, `HtRecursive_proofs`, `HtPropagation_proofs` | theorems | section 6 |

Composition. `EdgeCommit` is extended by every module that deletes edges, so they all run the same
loop. `JvElimination` extends it with `JvRule` and `JvKernel`; `LocalElimination` extends
`JvElimination`; both replay their logs with an instance of `ProofReplay`. `HtEpoch`
extends `EdgeCommit`; `HtScan` extends `HtEpoch`, `ReplayRun` extends it with
`ProofReplay`, and `Commands` extends `ReplayRun`. A stage that works on a copy keeps the
caller's graph in `graph` and the copy in `active` / `csr`. On the Hamilton-Tutte side `PathSystem`,
`KOptWitness`, `HtMoves`, `HtProofWalk` extend one another in this order;
`HtRecursive` and `HtWavefront` both extend `HtProofWalk`, so both hand their proofs to one verifier.
`KOptBatch` extends `KOptProver`, which extends `KOptWitness`. `HtWavefront` uses an instance of
`WaveGraph`, and `HtPropagation` extends it: the run of the first shows that what is handed
over is a valid wavefront and means the search, the run of the second that the kernels solve every
valid one.

Operators under a comment "Fault:" are variants of the definition that follows them with one
plausible mistake in it (a gate that looks at one end, an offset that is not reset). No
specification uses them. `PROJECT.json` pairs each with the property that notices it: with the
variant in place of the original the same run fails. They show that no property holds by shape.

### What is abstracted

* The content hash is the set of active edges. Dimension, points and edge list never change
  within a run; collisions of the 64-bit hash are not modelled. The hash of a log's result covers
  inactive edges too, so an output edge file is not an input of its own proof in `Commands`.
* Distances are a table, except in `DeviceTables`. `OptimalToursSurvive` and
  `AcceptedIsSound` use tables that TLC computes from integer points by the EUC_2D rounding. JV's
  finder breaks ties and stops exactly as the code does, since a log names a witness.
* The HT search of a target is its verdict in the scan, the local driver and the commands: proven,
  unresolved or throws. The verdict comes from an oracle, which for the soundness properties never
  proves an edge of an optimal tour. What the searches deserve of this trust is the subject of
  `HtRecursive`, `HtWavefront` and of section 4: it holds except on graphs so small that a reply
  completes a tour.
* Path systems are sets of paths where the code has sorted vectors; edge counts and costs are
  derived. A leaf proof is its records in `KOptBatch` and "there is a witness for each matching" in
  `HtMoves`; its hashes are left out.
* In `KOptBatch` a cost matrix is a sequence of rows, one per deletion set, with the first improving
  template of each; the answer of a device equals the CPU's or the call throws, as the comparison in
  `EvaluateKOptTemplateCosts` ensures. `ScoreFails` under `auto` throws, since the CPU has been tried
  again by then; under `cpu` and `cuda` it ends the searches of the bucket. The workspace, the cache
  of distances and the threads that share the rows are left out.
* In `HtWavefront` a batch on a device succeeds with what the CPU enumerates, is found different, or
  fails. What the kernels compute is the subject of `PathAppend`, `DeviceTables` and `HtPropagation`.
* The leaf search in `HtWavefront` finds a proof if there is one, or throws. A search that a device
  ends without a result is in `KOptBatch`.
* Log records and certificates carry the id of their edge; that its end nodes are repeated in them
  and compared is part of the id being right.
* The overflow of a signed 128-bit word is undefined. In `DeviceTables` the sum wraps, as it does in
  every build tried; whether the distance function still notices a negative sum is a choice, since
  g++ leaves the test out from -O2 on.
* A reply is given by the paths it adds; the unused fields of a reply record (`second_pair`,
  `edge`) and the enum values no move has are not represented.
* `kMaxCandidateNodes` (10 in the code) is the constant `MaxCandidateNodes`; the hard limits of the
  wavefront are `HardLimit`, its generation counter wraps at `GenerationLimit`, words have `WordBits`
  bits, and `kKOptCpuParallelMinCells` is smaller.
* In `HtPropagation` the host's barrier waits for the threads of a launch that have not exited, and
  the 32-bit index into the queue does not wrap: `kHardWavefrontStates` keeps queues far shorter.
* Size limits of files and logs, token syntax, timing fields and statistics are left out.
* Memory exhaustion is an exception that may occur wherever the code allocates and the outcome
  differs.

## 3. Runs

`tlc -config X.cfg M`; every run ends within about two minutes on two workers.

| run | instance | shows |
|---|---|---|
| `commit` | wheel with a chord, 5 nodes, 9 edges; 7 initial graphs; batches of nearly all edges, with duplicates, rival witnesses, both methods, bad ids | types, rows fresh, the greedy selection, degree floor, refinement to `AtomicCommit` |
| `jv` | K6 and all graphs with at most 2 edges missing, 4 point sets, backends cpu, auto and cuda, any one slot of the device's answer arbitrary | optimal tours survive whatever the device says; the kernel proposes what the CPU finder does; what is logged replays |
| `ht_scan` | wheel, 3 devices, slices of up to 5 targets, up to two failing targets | no worker outlives the call; refinement to `HtScanContract`; termination |
| `local` | K6, 3 point sets, oracles with chains of dependencies, slice sizes 1, 3 and 15, two HT budgets | convergence is a fixed point; the combined log replays; progress |
| `commands` | K6; a command that writes followed by another or by `verify`, and `verify` of honest logs with one change | replay decides as its definition; what is accepted keeps optimal tours; an epoch is certified by its log; only whole files are read; the files of a command that returned are a pair; a protected tour is in the output; one step or nothing |
| `path_append` | 7 nodes, every sequence of replies | the shortcut agrees with the normaliser, both with "a forest of paths", and the kernels with both |
| `kopt_batch` | 7 points, two tables, batches of one to three systems of one to three paths, 41 sets of options; records from a file about up to two paths, with any exchange and any matching | an accepted leaf improves every tour through the paths; a system gets in a batch the proof it gets alone; the searches miss nothing within their budgets |
| `ht_recursive` | 3 sparse graphs on 7 points, 10 queries (target and mode), 4 sets of limits; proofs of up to 7 nodes read back with one change | replies are exhaustive, leaves refute, accepted proofs are sound but for whole tours, the prover's proofs pass, the search decides |
| `ht_whole_tour` | the same | *violated*: see section 4 |
| `propagation` | all wavefronts of at most 4 states and 3 moves, six larger; up to 2 requested and 2 resident blocks of 2 threads; both kernels, or no device for them | statuses are the host's, never ahead of their reasons; every launch ends |
| `wavefront` | the graphs and targets of `ht_recursive`, 7 sets of options with small budgets, small blocks and the three backends | proven if and only if there is a proof, unless a budget or a device ends the search; the arrays handed over mean the search; marks of an earlier state never count |
| `device_tables` | one thread, 2 devices, up to 3 calls on graphs that differ in one point, the metric, an edge or the size, or are too wide by little or by far | each answer is about the caller's own graph; distances in words are exact wherever the test of the span admits the graph, for spans whose squared diagonal fits the wide word (`SpanInRange`; the wider graphs it admits are in the run, and nothing is claimed of their distances) |

Why these bounds. On the wheel every deletion competes with others for the degree gate, including
nodes that start at degree two; five nodes suffice for a batch where both ends block. K6 is
the smallest complete graph where JV takes several epochs with a genuine choice of candidate nodes;
`MaxCandidateNodes = 3` makes the truncation of the candidate list happen there (6 nodes have at most 4
candidates). The point sets were chosen because they take up to five rounds, have twelve
optimal tours, or run into the gate. `MaxJvRounds = 4` stops some runs before their fixed
point, and `2` in `local` makes the driver's round-limit branch fire. Three workers
on five slots give a worker with two slots, one with one, and failures before, between and after
the others. Budgets 2 and 30 in `local` end runs early and let them converge.

The seven-point graphs were picked from random ones because their searches use all three moves and
the leaf, go back over nodes already proven, fail, and close tours; edges that are missing are in no
optimal tour, which is what earlier deletions guarantee. The limits end some searches by states, by
replies, or make moves too large. Seven nodes leave room for a root move and one or two more below
it, and still let TLC enumerate the 360 tours. `MaxChangedNodes = 7` keeps the number of changed
proofs near two thousand; among the changes are a reply left out, declared impossible, sent
elsewhere, a leaf forged, paths exchanged and a node added.

The tables of `kopt_batch`, one of them with no improvement by fewer than five edges, make cursors of
one batch stand at different k and find their witnesses at k from 2 to 5. Twenty cells is where rows are deduplicated there, so both sides
of that test are met. In `wavefront` `GenerationLimit = 2` makes the counter wrap within one search. Four
states and three moves are the least for a state whose move fails while another succeeds, and the larger
waves add depth and a root that is decided three times over at once; with two blocks of two
threads both barriers (of a block, of the grid) have to be crossed. Six-bit words make the
squared diagonal of an 8 by 8 grid too large for one, as coordinates beyond 2^31 do with 64 bits, and
twelve-bit wide words overflow at a diagonal of 45.3 as 128 bits do at 2^63.5. The squared diagonals of
`device_tables` are at most 63 (accepted), 65 and 98 (just refused; each axis alone would pass), 784 (a connected chain) and 2041 (refused, a little below the overflow), and 2048, 3860 and
4100, which wrap to -2048, -236 and 4 and are accepted.

Deadlock is checked in `commit` (a service that never ends), `local` and `propagation` (whose only
stuttering step is the ended call: a thread that waits for ever at a barrier shows). The other
systems end: a run returns or throws, a search or a verifier gives its answer.

## 4. What disagrees

### Replies that complete a tour

`tests/unit/test_hamilton_tutte.cpp:101` states that an "HT-proven target belongs to no optimal
tour". `ht_whole_tour` shows a target that is proven, and verified, although the optimal tour uses
it: edge {1, 4} of `Graph3`, seven nodes, default options. The compiled program does the same on this
graph (of its fifteen edges three, {0,4}, {1,4} and {1,6}, are in an optimal tour and proven).

A reply is impossible if `NormalizePathSystem` refuses the paths with it. It refuses every
cycle (`path_system.cpp:199-204`), as it should when some node is not on it; but a cycle through all
nodes is a tour, and may be the optimal one. `QueueChild` (`hamilton_tutte_recursive.cpp:471`) and the
prover count that reply as closed. Only small graphs are affected: a branch of a proof has the target,
four edges of the root move and at most two for each further move, so with the default depth of 2 no tour of more
than nine nodes can be completed. `ValidateGraph` refuses only fewer than four nodes.

`AcceptedIsSound` is the property with the exception spelt out (`TourClosed`: a reply of a visited
node adds the last edges of an optimal tour), and holds in the run and as a theorem. On a graph with
more nodes than that the exception is void, and the two properties agree.

### Spans that overflow the test of spans

`GraphSnapshot::Load` admits a graph to exact integer distances if the squared diagonal of its
bounding box is at most `UINT64_MAX` (`graph.cpp:178-180`). The sum is a signed `__int128`: from a
diagonal of 2^63.5 on it overflows, and a sum that wraps to a negative or a small value passes. The
graph is then "safe" although `jv_cuda.cu:494` says that only integer coordinates whose squared distances do
not overflow are supported. What the distances are depends on the build: `distance.cpp:34` refuses
a negative sum in g++ -O0; at -O2 and -O3, where `squared < 0` is compiled to nothing, it goes
on with the low 64 bits, and two points 2^64 - 1024 apart have the distance 1024, on the CPU as on the
device. A pair that is too far apart without overflow is refused on the CPU and wrong on the device.

`device_tables` contains such graphs. `DistancesExact` and `BatchExact` state the limit,
`SpanInRange`; without it TLC reports either of them violated by a first call. The limit
concerns few inputs: an edge is refused unless its weight in the file is its distance
(`graph.cpp:210-214`), so an edge with its true weight is at most 2^32 long, and a connected graph of
less than 2^31 nodes with such edges spans less than 2^63. Beyond the limit are only graphs with
several components, which have no tour, and files whose weights are the wrapped distances.

## 5. Fairness

Two specifications state liveness. `ScanEnds` assumes weak fairness of the calling thread and of the
workers taken together: the operating system runs runnable threads, and one search step is one
finite search (every search has node, depth and time budgets). No fairness is assumed of thread
creation succeeding, of devices, or of searches not throwing. `PropagationEnds` assumes only that some
step is taken as long as one is possible: the blocks of a launch are resident together (the
cooperative launch refuses more, the persistent one has one block), and no thread spins on another
between barriers. The other specifications are safety only; `ScanProgress` states the measure by which
the local driver's loop ends.

## 6. Proofs

### Commit

`CommitCaller_proofs`, for every graph, every set of batches and any number of calls. Assumptions: `SnapshotAssumption` (what `GraphSnapshot::Load` guarantees: ids in
range, `u < v`, edges strictly sorted), `CommitAssumption` (initial active sets are sets of edges),
`BatchAssumption` (batches are sets of candidates with integer fields).

* `CommitInvariant`: `CommitInv == CommitTypeOK /\ CsrFresh /\ SweepInv /\ OneRecordPerDeletion` is
  inductive. `SweepInv` carries the argument: while the loop runs, the graph is the hashed
  snapshot, queue and accepted edges are active edges of it, the queue is beyond the accepted
  edges, and `degrees[n]` is the degree `n` will have once the accepted edges are gone. The lemma
  `DeleteEdge` (deleting an edge lowers exactly the degree of its ends, by one) keeps it.
  `TypesCorrect`, `RowsAreFresh`, `SweepIsExact` and `RecordsAreCanonical` are its conjuncts.
  What a step of the loop does to these is stated in `EdgeCommit_proofs` without a specification, so
  that the callers of the loop (commit, epoch, scan) share it.
* `DegreesKept`: the action property `DegreeFloor`. `PublishCommit` is the only step that changes
  `active`; by `SweepInv` each node kept two edges or lost none.
* `SelectionIsGreedy`: `GreedySoFar`, the accepted edges are those of the visited part of *one*
  batch that the gate passes behind the accepted edges with smaller ids. It needs `CommitInv`:
  counters are degrees, so the code's test is the abstract one.
* `CommitIsAtomic`: refinement. Init maps to Init; `PublishCommit` maps to the abstract `Commit`
  (an empty queue turns `GreedySoFar` into `IsGreedy`); `TakeSnapshot` maps to `Hash`; every other
  step stutters.

### Scan

`HtScan_proofs`, on the lemmas of `HtEpoch_proofs`, for every graph, every table of verdicts, every set of
options, any number of devices and any interleaving of the workers. Assumptions: `SnapshotAssumption`,
`CommitAssumption`, and `HtScanAssumption` (weights are natural numbers, a verdict per edge, `max` at
least one).

* `ScanInvariant`: `ScanInv` is inductive. Workers run only while the calling thread creates them or
  waits for them (`WorkerInv`; this is `NoWorkerIsLeft`). The slots have no gap, a filled one
  holds the verdict of its target, and the consumed ones are the first (`SlotInv`). The slice is
  that of the *caller's* graph until the end (`SliceInv`), and the commit starts only behind the last
  slot, with the proven targets (`CommitPhaseInv`). `EpochInv` is about the copy: what the loop has accepted is the
  greedy part of the targets so far, the caller's graph is still the one the proofs were verified on,
  and each candidate has its certificate.
* `ScanIsCertified`: `EpochCertified`, from the same invariant.
* `ScanKeepsContract`: refinement of `HtScanContract`. Publishing the epoch is the one step that maps to `Return`,
  the exceptions map to `Throw`, all else stutters. For `Return` the slots must all hold verdicts
  although nobody looks at more than one at a time (`AllConsumed`), and a nonempty set of proven targets must
  make the graph smaller: the degree gate is open for the smallest (`FirstProvenGoes`). That slices
  consist of eligible targets rests on `RankOnto`: a linear order on a finite set has an element of each rank.

### Jonker-Volgenant rounds and the local driver

`LocalElimination_proofs`, on the lemmas of `EdgeCommit_proofs`, for every graph, every set of distance
tables, every number of rounds, every backend, a device that may leave anything in any one slot of its answer (the model's faulty
proposer; the argument uses only that proposals are verified), and every set of options. Assumptions: `SnapshotAssumption`, `CommitAssumption`, `JvRuleAssumption`, `JvAssumption`,
`LocalAssumption`. An oracle for the Hamilton-Tutte search says which edges have to be gone before an
edge is proven (`Obstacles`, arbitrary); the theorems do not say that what it proves is sound, which is the
subject of "Hamilton-Tutte verifier" below.

Both stages hand over logs, so the proof begins with logs and not with steps. `Good(d, o, L)` says that a
log replays, record by record, and what has to be known besides for another log to be put behind it:
its epochs are numbered without gaps, each certificate belongs to one record, its hashes are those of the graphs
in between.

* `EpochGood`: the records of *one* commit are such a log. A commit sorts, takes greedily and reports in
  edge order, so each record passes the gate behind the ones before it.
* `AppendedGood`: two such logs, the second from where the first one ends, are one, when epochs and
  certificates of the second are shifted as `AppendEliminationStage` does. A record of the second log
  moves by the length of the first; its epoch moves by the epochs of the first *that have records*, so that the
  records "in other epochs before it" are the whole first log and those of its own log, and its
  certificate by the number of records with one.

A round of Jonker-Volgenant appends one epoch, with the same lemmas as a whole stage.

* `JvInvariant`: `JvInv` is inductive. `JvLogged`: the stage so far is a good log. `JvRunning`: it ends in
  the graph at hand; during a commit it ends in the hashed snapshot, and the batch under way is exactly
  what the verifier let through on that snapshot. `JvRunReplays`, the property `JvLogReplays`, follows
  at "done".
* `LocalInvariant`: `LocalInv` is inductive. The combined log is good (`LoggedRun`) and its end is where
  the stage at work begins (`StageFollows`, `ScanFollows`, `CommitFollows`): the driver has two hashes
  and compares them, the invariant says they always agree. `LocalRunReplays` (`RunReplays`) and
  `NoInternalError` (neither the checks of `AppendEliminationStage` nor the one for an empty slice ever
  throw) follow from it.
* `Searched`, a part of `ScanFollows`, is the loop invariant of the slices: no target before the offset
  is provable on the *present* graph, and the offset is within the list. It holds because the offset goes on
  only over a slice without a deletion and goes back to zero otherwise. With it `ConvergedScan` needs no
  hypothesis. It also needs that a slice in which something was proven deletes something
  (`FirstProvenGoes` again), which is `LocalScanProgress`, an action property.
* `ConvergedRun`: `ConvergedIsFixedPoint`, under `HonestProposers`: backend `cpu`, or no slot in which a
  device answers otherwise than the finder. The program rechecks what a device proposes and not what it
  leaves out, so a device that hides a candidate ends the rounds early; the hypothesis is
  necessary. The run `local` has it; `KernelAgrees` (run `jv`) is about the kernel.

### Propagation

`HtPropagation_proofs`, for every valid wavefront, any numbers of blocks and threads, both kernels and any
interleaving of their atomic operations. Assumptions: `WaveAssumption` and `LaunchAssumption`.

* `PropagationInvariant`: between two barriers all threads are in the same phase and stride over
  disjoint indices; the queue holds each decided state at most once and nothing else; a counter is
  the number of children (or moves) less those whose subtraction has been counted; one thread decides each move and each state.
  Which subtractions were counted is not in any variable of the program, so the invariant
  speaks of the entries of the queue that were taken and of what the threads still carry.
* `StatusIsJustified`: a status is written by a thread that brought a counter to zero, or found a
  failed child; so its reasons hold.
* `DeviceAgreesWithHost`: when the last thread has stopped, the queue is drained. If a state were undecided, take
  the one with the largest index: its children are all decided and were taken from the queue, so
  its counters have reached zero and a thread has decided it. Each status is then what the host
  computes, which the checks of the status array accept.

### Commands, files and replay

`Commands_proofs`, on the lemmas of `EdgeCommit_proofs` and `HtEpoch_proofs`, for every graph, every
meaning of "this proof tree holds" (`HtHolds`), every sequence of commands, and every log that is on disk
before the first of them. Assumptions: `SnapshotAssumption`, `CommitAssumption`, and `ScriptsAssumption`:

* what the commands read and compute has the types of the C++ structs;
* the log of `eliminate` and `local-eliminate` replays on the graph it was made from. These two compute
  in modules of their own, where it is the theorems `JvRunReplays` and `LocalRunReplays` of the part before;
* a sidecar that the verifier accepts is a proof: `HtHolds` is what the verifier says, on the snapshot
  the sidecar names. Of the logs of `ht-commit` and `ht-scan` nothing is assumed: that they replay is proved.

The inductive invariant `CmdInv` has six parts.

* `EpochInv`, of the scan's proof, is about the epoch on its copy; `ReplayInv` is about the replay at
  each of its places. Between two epochs (`AtEpoch`) the records before the cursor satisfy the
  definition, one by one, and the copy is `Without` their edges. Within one (`AtRecord`) the records
  read so far are verified on the graph the epoch began with. During a commit (`AtCommit`) the batch is
  exactly these records. None of this is visible at the end; without it the last step could not
  conclude that the definition holds.
* `CallInv` says that commands call the library one at a time: an epoch or a replay in progress belongs
  to the command that runs, and a loaded graph is the command's input.
* `ResultInv`: what is about to be written replays on the command's input and ends in the graph in
  memory. For an epoch this is `EpochLogReplays`: one epoch, edges in order, each of them deletable
  behind the ones before it because the sweep was greedy, each with its own certificate, numbered as
  written.
* `FileInv`: each file is a prefix of what its *last* writer meant, and what that was is known
  (`meant`): after a crash the two files may have different authors. `ScriptInv` types the rest.

Theorems:

* `ReplayIsExact`: `ReplayDecides`. The definition speaks of each record, the code goes through epochs,
  sorts a batch, sweeps, and compares what was deleted with what was recorded. The directions differ in
  kind. If the code accepts, each record was verified and passed the gate. If it refuses, some record
  must fail *in the definition*: that needs the greedy sweep again (a refused candidate is a record
  whose edge has an end with no edge to spare behind the accepted ones), and that no other method or
  witness stands in for a record after duplicates are removed.
* `EpochsAreCertified`, and `NoPartialEdit` (an action property: the caller's graph changes in one step,
  on success).
* `AcceptedFilesAreWhole`: `OnlyWholeFilesRead`. A proper prefix of an edge file has fewer lines than it
  declares, a proper prefix of a proof file has no `END`; conversely the reader, with its flags for what
  it has seen and counters of what was declared, finds nothing to refuse in a whole file
  (`WholeFileReadable`), and takes out what was put in, in the same order (`WholeFileCarries`). The
  order rests on `AscendingLists`: a finite set of numbers has an element of each rank.
* `PairAgrees`: `ReturnedPairAgrees`, from the files and `ResultInv`.
* `ProtectedTourIsWritten`: an edge file that loads has every edge of the tour its command protected.
  It is what `OutputKeepsTours` needs of the commands; that a tour is optimal stays with TLC.

For these proofs `ReplayProof` has one condition for each record (`RecordReplays`), and the replay and the
reader of files are written without recursion. The run `commands` compares definition and code.

### Hamilton-Tutte verifier

`HtRecursive_proofs`, for every graph, query and set of options and every proof that may be read back
(`Changed` is arbitrary). `SomethingIsLeft` and `AcceptedProofsAreSound` have two hypotheses besides the
specification, `[]MoveExhaustive` and `[]LeafRefutes`. They say that the replies to the move being
checked leave no optimal tour out and that the leaf being checked is in none: facts about single moves
and leaves, by exchange arguments on tours, which the run checks and no prover here can take from the
definition of a tour. What the theorems add is the walk: an array of nodes in any order, a stack, children shared or
missing, replies left out, impossible ones declared possible and the reverse.

The inductive invariant is `IInv == WalkShape /\ SomethingLeft /\ AcceptedIsSound`. `SomethingLeft` carries
the argument: as long as the verifier runs, a supposed optimal tour with the target edge is in a node
on the stack, or survives in a reply of the current node at or beyond the cursor, or was closed. `EnterMove`
turns the first into the second (by `MoveExhaustive`, and because the records are as many as the
replies), `QueueChild` the second into the first, `CheckLeaf` would take it away and by `LeafRefutes` does
not. An empty stack then leaves no such tour.

### What is left to TLC

The parts of the inductive invariants (`SweepInv`, `EpochInv`, `ReplayInv`, `SomethingLeft` and so on) are
there for the sake of these proofs; the runs check what follows from them.

* Liveness (`ScanEnds`, `PropagationEnds`) and everything about ENABLED, which the prover does not handle.
* What refers to optimal tours, the two hypotheses above included: tours are enumerated as permutations, and the
  exchange arguments are inductions over paths.
* What recursive definitions compute for every input (leaf searches, the normaliser, append): induction
  over data.
* The rest, on the instances above: both provers, the batches of leaf searches, the caches.

## 7. Not modelled, and the plan

* Parsing (`graph.cpp`, `tour.cpp`, options in `main.cpp`), reports, manifests and the commands that
  only print: text in and out, without state that a later step reads. What a bad file can do to a command is
  in `Commands` and `ProofReplay`, at the level of lines.
* The text form of Hamilton-Tutte proofs (`hamilton_tutte_proof.cpp`) and of leaf proofs: what is read
  back is verified, and for the verifier it is an arbitrary changed proof (`ht_recursive`, `kopt_batch`).
* The prover and verifier of the root layer alone (`ProveEdgeByShallowHt`): the recursive prover at
  depth one, by the same moves and replies.
* The c,d screening kernel (first half of `ht_cd.cu`): straight-line arithmetic per candidate; its
  answer is compared with the CPU's enumeration in the prover, which is the "invalid" of `HtWavefront`.
* The compatibility table on the device (`path_compatibility.cu`) and its packing into words; the
  CPU's table is `PathSystem`, and the answer of the device is compared with it.
* LP epochs and the cuOpt sidecar (`src/lp`): floating-point numbers exchanged with an external solver.
  Nothing of it reaches an edge or a proof.

A command that dies between its two files leaves new edges beside an old proof. `verify` then refuses
the pair, or accepts it if the old proof replays on the input edges: it says nothing about the edge
file. `ReturnedPairAgrees` is therefore about commands that returned.

What could follow, in order of worth:

1. **The oracle replaced**: `LocalElimination` and `Commands` with the verdicts of `HtRecursive` on
   the graphs of `ht_recursive`.
2. **The cost of a batch in threads**: the rows of `EvaluateKOptTemplateCostsCpu` scored by
   several threads with an exception in one.
3. **The c,d kernel and the packed compatibility table**, against `HtMoves` and `PathSystem`.
4. **Proofs**: `CandidatesFresh` of the wavefront's cache; then that the search keeps its proof array
   well formed (`ProverVerifies`: every node met once, children behind their parents); then `BatchExact`,
   that what is resident on a device is what the host copy says.
