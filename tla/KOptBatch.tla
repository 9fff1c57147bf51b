----------------------------- MODULE KOptBatch ------------------------------
(***************************************************************************)
(* ProvePathSystemsByKOpt (src/cpu/kopt_search.cpp): many path systems at  *)
(* a time.  Every open system has a cursor that stands in its own search;  *)
(* the cursors lay out blocks of deletion sets, the blocks of one size k   *)
(* are scored in one matrix, on the CPU or a device, and each cursor reads *)
(* its slice of it, up to the first row that holds a witness.  What was    *)
(* scored beyond that row was scored in vain and is not counted.  At the   *)
(* end each proof goes through the verifier, as do records from a file.    *)
(***************************************************************************)
EXTENDS KOptProver

CONSTANTS
  Calls,         \* calls of the prover: a distance table, and path systems to
                 \* prove together
  Files,         \* calls of the verifier on a file: a table and one path system
  Required,      \* the target edge, which every witness must delete
  Options,       \* search options
  Records(_),    \* the records a proof file may hold about a path system
  kKOptCpuParallelMinCells   \* cells from which equal rows are scored once

ASSUME BatchAssumption == kKOptCpuParallelMinCells \in Nat

VARIABLES
  dist,      \* distance table of the graph
  systems,   \* the path systems of this call
  options,   \* its options
  phase,     \* "collect", "prepare", "score", "apply", "check", or how it ended
  works,     \* per system: proof so far, matchings covered, finished
  active,    \* searches of this round: the system, the source, the cursor
  failed,    \* history: systems for which a matrix could not be computed
  origin,    \* "prover" or "file": where the records checked come from
  checking,  \* the verifier: the system whose proof it reads,
  checked,   \*   the records it has passed
  covered    \*   and the outside matchings they cover

vars == <<dist, systems, options, phase, works, active, failed, origin, checking, checked, covered>>
callVars == <<dist, systems, options, origin>>
verifierVars == <<checking, checked, covered>>

----------------------------------------------------------------------------
(* The cursor.                                                             *)

NoBlock == [works |-> <<>>, budget_blocked |-> FALSE]

KOptSearchCursor(paths, outside, required, o) ==
  LET ok == HasContext(paths, outside, required)
  IN  [status |-> IF ok THEN "searching" ELSE "invalid",
       context |-> IF ok THEN BuildTourContext(paths, outside, required) ELSE <<>>,
       k |-> 2, k_ready |-> FALSE, combination |-> <<>>, has_combination |-> FALSE,
       pending |-> NoBlock, witness |-> {},
       deletion_sets_tested |-> 0, reconnect_matchings_tested |-> 0]

\* Fault: a position that could still move up by one is taken for the last.
AdvanceCombination_OneShort(c, n) ==
  LET movable == {p \in 2 .. Len(c) : c[p] + 1 < n - (Len(c) - p)}
      at == Max(movable)
  IN  IF movable = {} THEN <<>>
      ELSE [p \in DOMAIN c |-> IF p < at THEN c[p] ELSE c[at] + 1 + (p - at)]

\* The last position that is not at its end moves up, those behind it follow;
\* the first never moves.  None left: empty.
AdvanceCombination(c, n) ==
  LET movable == {p \in 2 .. Len(c) : c[p] < n - (Len(c) - p)}
      at == Max(movable)
  IN  IF movable = {} THEN <<>>
      ELSE [p \in DOMAIN c |-> IF p < at THEN c[p] ELSE c[at] + 1 + (p - at)]

\* PrepareNextK: the next size, if the paths have more edges than that.
AtNextK(c) ==
  [c EXCEPT !.k = @ + 1, !.k_ready = TRUE, !.has_combination = TRUE,
            !.combination = [j \in 1 .. c.k + 1 |-> j]]
HasNextK(c, o) == c.k + 1 <= o.max_k /\ c.k + 1 < Len(c.context.selectable)

\* A block ends with the batch size, with the combinations, or where the
\* budget would end if every row of it were consumed.
LayOutBlock(d, c, o) ==
  LET n == Len(c.context.selectable)
      budget == IF o.max_deletion_sets = 0 THEN o.cost_batch_size
                ELSE Max({0, o.max_deletion_sets - c.deletion_sets_tested})
      room == Min({o.cost_batch_size, budget})
      run[i \in 0 .. room] ==
        IF i = 0 THEN c.combination
        ELSE IF run[i - 1] = <<>> THEN <<>> ELSE AdvanceCombination(run[i - 1], n)
      taken == SelectSeq([i \in 1 .. room |-> run[i - 1]], LAMBDA x : x # <<>>)
      work(x) == BuildKOptCostTask(d, c.context, DeletedPositions(c.context, x))
      more == run[room] # <<>>
      blocked == more /\ room < o.cost_batch_size
  IN  IF taken = <<>> /\ blocked THEN [c EXCEPT !.status = "unresolved"]
      ELSE [c EXCEPT !.combination = run[room], !.has_combination = more,
                     !.pending = [works |-> [i \in DOMAIN taken |-> work(taken[i])],
                                  budget_blocked |-> blocked]]

PrepareNextBlock(d, c, o) ==
  IF c.status # "searching" \/ c.pending # NoBlock THEN c
  ELSE IF c.k_ready THEN LayOutBlock(d, c, o)
  ELSE IF HasNextK(c, o) THEN LayOutBlock(d, AtNextK(c), o)
  ELSE [c EXCEPT !.status = "no improvement"]

\* The rows of the block in turn, until one yields a witness.
ConsumeBlock(d, c, rows) ==
  LET next == IF c.pending.budget_blocked THEN "unresolved" ELSE "searching"
      after(r) ==
        [c EXCEPT !.pending = NoBlock, !.witness = r.witness, !.k_ready = c.has_combination,
           !.deletion_sets_tested = @ + r.deletion_sets_tested,
           !.reconnect_matchings_tested = @ + r.reconnect_matchings_tested,
           !.status = StatusWith(d, c.context, r.witness, next)]
  IN  after(ConsumeInTurn([i \in DOMAIN rows |->
              TryReconnectFromCostRow(d, c.context, c.pending.works[i], rows[i])]))

FailCost(c) == [c EXCEPT !.pending = NoBlock, !.status = "unresolved"]

----------------------------------------------------------------------------
(* Rounds: every open system searches for its first uncovered matching.    *)

Outside(i) == OutsideTable[Cardinality(systems[i])]
IsCovered(i, o) == o \in works[i].covered

InitializeBatchedPathProof(paths) ==
  [proof |-> NoProof, covered |-> {}, finished |-> ~ Testable(paths)]

Init ==
  /\ checked = {} /\ covered = {} /\ active = <<>> /\ failed = {}
  /\ \/ /\ origin = "prover" /\ phase = "collect" /\ checking = 0
        /\ options \in Options
        /\ \E call \in Calls : dist = call.dist /\ systems = call.systems
        /\ works = [i \in DOMAIN systems |-> InitializeBatchedPathProof(systems[i])]
     \/ /\ origin = "file" /\ phase = "check" /\ checking = 1
        /\ options = CHOOSE o \in Options : TRUE   \* the verifier has none
        /\ \E call \in Files : dist = call.dist /\ systems = call.systems
        /\ works = <<[proof |-> [NoProof EXCEPT !.proven = TRUE], covered |-> {}, finished |-> TRUE]>>

Open == {i \in DOMAIN works : ~ works[i].finished}

FirstUncoveredOutside(i) == SelectSeq(Outside(i), LAMBDA o : ~ IsCovered(i, o))[1]

\* One search per open system, with a cursor if the options allow batches.
CollectRound ==
  /\ phase = "collect" /\ Open # {}
  /\ LET order == Sorted(Open, <)
         cursor(i) == IF GoodOptions(options)
                      THEN KOptSearchCursor(systems[i], FirstUncoveredOutside(i), Required, options)
                      ELSE [status |-> "none", pending |-> NoBlock]
     IN  active' = [a \in DOMAIN order |-> [path_index |-> order[a],
                                            source |-> FirstUncoveredOutside(order[a]),
                                            cursor |-> cursor(order[a])]]
  /\ phase' = "prepare"
  /\ UNCHANGED <<callVars, works, failed, verifierVars>>

\* All cursors lay out their next block, or end.
PrepareBlocks ==
  /\ phase = "prepare"
  /\ \E next \in {[a \in DOMAIN active |-> PrepareNextBlock(dist, active[a].cursor, options)]} :
       /\ active' = [a \in DOMAIN active |-> [active[a] EXCEPT !.cursor = next[a]]]
       /\ phase' = IF \A a \in DOMAIN next : next[a].pending = NoBlock THEN "apply" ELSE "score"
  /\ UNCHANGED <<callVars, works, failed, verifierVars>>

----------------------------------------------------------------------------
(* One cost matrix for all blocks of one size, the smallest size first.    *)

Pending == {a \in DOMAIN active : active[a].cursor.pending # NoBlock}
BucketSize == Min({active[a].cursor.k : a \in Pending})
Bucket == {a \in Pending : active[a].cursor.k = BucketSize}

RowCount(a) == Len(active[a].cursor.pending.works)

\* Fault: every slice begins where the matrix begins.
RowBegin_Zero(a) == 0

RowBegin(a) == MapThenSumSet(RowCount, {b \in Bucket : b < a})

BucketTasks ==
  LET order == Sorted(Bucket, <)
  IN  FlattenSeq([i \in DOMAIN order |-> active[order[i]].cursor.pending.works])

CellCount == Len(ReconnectTable[BucketSize]) * Len(BucketTasks)

\* Small matrices are not sent to a device unless one asked for it by name.
SelectKOptCostBackend ==
  IF /\ options.cost_backend = "auto" /\ options.cuda_min_cost_cells # 0
     /\ CellCount < options.cuda_min_cost_cells
  THEN "cpu" ELSE options.cost_backend

\* auto tries a device and falls back to the CPU.
EvaluateKOptTemplateCosts ==
  IF SelectKOptCostBackend = "auto" THEN {"cpu", "cuda"} ELSE {SelectKOptCostBackend}

\* On the CPU equal tasks share a row, if that saves a quarter of a large matrix.
DeduplicateKOptCostTasks(tasks) ==
  LET firsts == SelectSeq([i \in DOMAIN tasks |-> i],
                          LAMBDA i : \A j \in 1 .. i - 1 : tasks[j] # tasks[i])
  IN  IF Len(tasks) >= 2 /\ CellCount >= kKOptCpuParallelMinCells /\ 4 * Len(firsts) <= 3 * Len(tasks)
      THEN [unique |-> [u \in DOMAIN firsts |-> tasks[firsts[u]]],
            row |-> [i \in DOMAIN tasks |-> CHOOSE u \in DOMAIN firsts : tasks[firsts[u]] = tasks[i]]]
      ELSE [unique |-> tasks, row |-> [i \in DOMAIN tasks |-> i]]

\* The matrix is there, from the CPU, or from a device and equal to the CPU's;
\* auto may have fallen back.  Each slice goes to its cursor.
ScoreBucket ==
  /\ phase = "score" /\ Pending # {}
  /\ \E backend \in EvaluateKOptTemplateCosts :
     \E bucket \in {Bucket}, begin \in {[a \in Bucket |-> RowBegin(a)]} :
     \E plan \in {IF backend = "cpu" THEN DeduplicateKOptCostTasks(BucketTasks)
                  ELSE [unique |-> BucketTasks, row |-> [i \in DOMAIN BucketTasks |-> i]]} :
     \E costs \in {[u \in DOMAIN plan.unique |-> CostRow(dist, plan.unique[u])]} :
       LET slice(a) == [i \in 1 .. RowCount(a) |-> costs[plan.row[begin[a] + i]]]
       IN  active' = [a \in DOMAIN active |->
             IF a \in bucket
             THEN [active[a] EXCEPT !.cursor = ConsumeBlock(dist, @, slice(a))]
             ELSE active[a]]
  /\ UNCHANGED <<callVars, phase, works, failed, verifierVars>>

\* It is not: the device failed or gave other numbers, or memory ran out.  The
\* searches in this bucket end without a result; with auto, where the CPU has
\* been tried behind the device, the whole call throws.
ScoreFails ==
  /\ phase = "score" /\ Pending # {}
  /\ IF SelectKOptCostBackend = "auto"
     THEN phase' = "thrown" /\ UNCHANGED <<active, failed>>
     ELSE /\ active' = [a \in DOMAIN active |->
               IF a \in Bucket THEN [active[a] EXCEPT !.cursor = FailCost(@)] ELSE active[a]]
          /\ failed' = failed \cup {active[a].path_index : a \in Bucket}
          /\ UNCHANGED phase
  /\ UNCHANGED <<callVars, works, verifierVars>>

AllScored ==
  /\ phase = "score" /\ Pending = {}
  /\ phase' = "prepare"
  /\ UNCHANGED <<callVars, works, active, failed, verifierVars>>

----------------------------------------------------------------------------
(* The results of a round.                                                 *)

Covered(i, source, w) == Covers(w.inside, Cardinality(systems[i]))

\* A witness and what it covers; without one the system is given up.
UseWitness(work, i, source, good) ==
  LET use(w, done) ==
        [work EXCEPT !.covered = done, !.finished = done = ToSet(Outside(i)),
                     !.proof.proven = done = ToSet(Outside(i)),
                     !.proof.records = Append(@, [source |-> source, witness |-> w])]
      take(w) == use(w, work.covered \cup Covered(i, source, w))
  IN  IF good = {} THEN [work EXCEPT !.finished = TRUE] ELSE take(CHOOSE w \in good : TRUE)

ApplyBatchedKOptSearch(i, source, search) ==
  UseWitness([works[i] EXCEPT !.proof = Counted(@, search)], i, source,
             Accepted(dist, systems[i], source, Required,
                      WithFallback(dist, systems[i], source, Required, options, search)))

SearchResult(a) ==
  IF GoodOptions(options) THEN active[a].cursor
  ELSE FindKOptWitness(dist, systems[active[a].path_index], active[a].source, Required, options)

ApplySearches ==
  /\ phase = "apply"
  /\ works' = [i \in DOMAIN works |->
       IF \E a \in DOMAIN active : active[a].path_index = i
       THEN LET a == CHOOSE x \in DOMAIN active : active[x].path_index = i
            IN  ApplyBatchedKOptSearch(i, active[a].source, SearchResult(a))
       ELSE works[i]]
  /\ phase' = "collect" /\ active' = <<>>
  /\ UNCHANGED <<callVars, failed, verifierVars>>

----------------------------------------------------------------------------
(* The verifier, on the prover's own proofs and on those of a file.        *)

\* The next proof to check; after the last one the call returns.
GoToProof(after) ==
  LET rest == {i \in DOMAIN works : i > after /\ works[i].proof.proven}
  IN  /\ checked' = {} /\ covered' = {}
      /\ IF rest = {} THEN phase' = "returned" /\ checking' = after
         ELSE phase' = "check" /\ checking' = Min(rest)

StartVerification ==
  /\ phase = "collect" /\ Open = {}
  /\ GoToProof(0)
  /\ UNCHANGED <<callVars, works, active, failed>>

GoodRecord(r) ==
  /\ r.source \in ToSet(Outside(checking)) \ covered
  /\ VerifyKOptWitness(dist, systems[checking], r.source, Required, r.witness)
  /\ r.source \in Covers(r.witness.inside, Cardinality(systems[checking]))

WrittenRecords == works[checking].proof.records
NextRecords ==
  IF origin = "file" THEN Records(systems[checking])
  ELSE {WrittenRecords[i] : i \in {Cardinality(checked) + 1} \cap DOMAIN WrittenRecords}

Refuse ==
  /\ phase' = IF origin = "file" THEN "rejected" ELSE "logic error"
  /\ UNCHANGED verifierVars

CheckRecord ==
  /\ phase = "check"
  /\ \E r \in NextRecords :
       IF GoodRecord(r)
       THEN /\ checked' = checked \cup {r}
            /\ covered' = covered \cup Covers(r.witness.inside, Cardinality(systems[checking]))
            /\ UNCHANGED <<phase, checking>>
       ELSE Refuse
  /\ UNCHANGED <<callVars, works, active, failed>>

\* The records end: the prover's where it stopped, a file's anywhere.
LastRecordChecked ==
  /\ phase = "check"
  /\ origin = "prover" => Cardinality(checked) = Len(WrittenRecords)
  /\ IF covered # ToSet(Outside(checking)) THEN Refuse
     ELSE IF origin = "file" THEN phase' = "accepted" /\ UNCHANGED verifierVars
     ELSE GoToProof(checking)
  /\ UNCHANGED <<callVars, works, active, failed>>

Next ==
  \/ CollectRound \/ PrepareBlocks \/ ScoreBucket \/ ScoreFails \/ AllScored \/ ApplySearches
  \/ StartVerification \/ CheckRecord \/ LastRecordChecked

Spec == Init /\ [][Next]_vars

----------------------------------------------------------------------------
\* A system none of whose searches failed for want of a matrix gets from the
\* batch, whoever its neighbours are and wherever the blocks end, the very
\* proof it would get alone: records, order and work counted.  Nor does the
\* call's verifier ever refuse what the call has proven.
BatchIsSequential ==
  /\ phase # "logic error"
  /\ phase = "returned" =>
       \A i \in DOMAIN works \ failed :
         works[i].proof = ProvePathSystemByKOpt(dist, systems[i], Required, options)

\* A search that ends with a witness has one of the smallest size there is, one
\* that ends without has looked at all within its sizes; and the exact search
\* returns a shortest rerouting, or there is no shorter one.
SearchesExact ==
  LET kOptExact(cursor, possible) ==
        /\ cursor.status = "improved" => cursor.witness \subseteq possible
        /\ cursor.status = "no improvement" => possible = {}
      tourExact(exact, possible) ==
        IF exact.status = "improved" THEN exact.witness \subseteq possible ELSE possible = {}
      searchExact(paths, source, cursor) ==
        /\ kOptExact(cursor, KOptWitnesses(dist, paths, source, Required, options.max_k))
        /\ tourExact(FindExactTourWitness(dist, paths, source, Required, kMaxExactBlocks),
                     ExactWitnesses(dist, paths, source, Required))
  IN  phase = "apply" /\ GoodOptions(options) =>
        \A a \in DOMAIN active :
          searchExact(systems[active[a].path_index], active[a].source, active[a].cursor)
=============================================================================
