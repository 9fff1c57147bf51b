----------------------------- MODULE KOptProver -----------------------------
(***************************************************************************)
(* The searches for a witness as the code runs them, in their order and    *)
(* within their budgets (src/cpu/kopt_search.cpp), and the prover of one   *)
(* path system on top of them.  KOptWitness says what these searches may   *)
(* find; this module says which of it they do find, and at what cost.      *)
(* Errors that only a broken invariant of the code could raise (ports that *)
(* do not pair up, sums beyond 64 bits) are left out.                      *)
(***************************************************************************)
EXTENDS KOptWitness

\* A set in the order that Before gives it.
Sorted(S, Before(_, _)) ==
  [i \in 1 .. Cardinality(S) |->
     CHOOSE x \in S : Cardinality({y \in S : Before(y, x)}) = i - 1]

Lexicographic(p, q) ==
  \E i \in DOMAIN p : p[i] < q[i] /\ \A j \in 1 .. i - 1 : p[j] = q[j]

\* The outside matchings as EnumerateOutsideMatchings lists them: orders of the
\* paths like next_permutation, within an order the orientations as a binary
\* number whose lowest bit is the path visited first.
OutsideTable ==
  LET earlier(a, b) ==
        \/ Lexicographic(a[1], b[1])
        \/ a[1] = b[1] /\ Lexicographic(Reverse(a[2]), Reverse(b[2]))
  IN  [m \in 1 .. kMaxTestablePathCount |->
         LET runs == Sorted(Orders(m) \X [1 .. m - 1 -> {0, 1}], earlier)
         IN  [i \in DOMAIN runs |-> RunThrough(m, runs[i][1], runs[i][2])]]

\* All matchings of 2k endpoints in the order of EnumerateInsideMatchings: the
\* first free endpoint is joined to each later free one in turn.
InsideMatchings(k) ==
  LET from[free \in SUBSET Endpoints(k)] ==
        IF free = {} THEN <<{}>>
        ELSE LET first == Min(free)
                 mates == Sorted(free \ {first}, <)
                 with(x) == LET rest == from[free \ {first, x}]
                            IN  [i \in DOMAIN rest |-> rest[i] \cup {{first, x}}]
             IN  FlattenSeq([j \in DOMAIN mates |-> with(mates[j])])
      all == from[Endpoints(k)]
  IN  [i \in DOMAIN all |-> Mate(all[i])]

\* Deleting k edges of a tour leaves k pieces between consecutive edges.
Components(k) == Mate({{2 * e + 1, (2 * e + 2) % (2 * k)} : e \in 0 .. k - 1})

\* The proper ways to join the pieces up again: one tour, no deleted edge back.
BuildKOptReconnectTable(k) ==
  SelectSeq(InsideMatchings(k),
            LAMBDA c : /\ IsAlternatingHamiltonianCycle(Components(k), c, k)
                       /\ \A e \in 0 .. k - 1 : c[2 * e] # 2 * e + 1)

ReconnectTable == [k \in 3 .. 5 |-> BuildKOptReconnectTable(k)]

\* The counts the code insists on when it builds the table.
ASSUME ReconnectTableSizes ==
  Len(ReconnectTable[3]) = 4 /\ Len(ReconnectTable[4]) = 25 /\ Len(ReconnectTable[5]) = 208

----------------------------------------------------------------------------
(* The contracted tour of one outside matching, and the moves on it.       *)

EdgeOfTour(tour, i) == {tour[i], tour[(i % Len(tour)) + 1]}

\* Positions of path edges, from that of the required edge on: the first
\* selected position is in every combination.
BuildTourContext(paths, outside, required) ==
  LET tour == Tour(CoveredNodes(paths), ContextEdges(paths, outside))
      all == [i \in DOMAIN tour |-> i]
      onPath == SelectSeq(all, LAMBDA i : EdgeOfTour(tour, i) \in EdgeUnion(paths))
      at == CHOOSE j \in DOMAIN onPath : EdgeOfTour(tour, onPath[j]) = required
  IN  [paths |-> paths, outside |-> outside, required |-> required, tour |-> tour,
       selectable |-> SubSeq(onPath, at, Len(onPath)) \o SubSeq(onPath, 1, at - 1)]

\* A combination names k selectable positions; ports follow the tour.
DeletedPositions(ctx, combination) ==
  Sorted({ctx.selectable[combination[j]] : j \in DOMAIN combination}, <)

BuildKOptCostTask(d, ctx, positions) ==
  [port_nodes |-> FlattenSeq([j \in DOMAIN positions |->
                    <<ctx.tour[positions[j]], ctx.tour[(positions[j] % Len(ctx.tour)) + 1]>>]),
   deleted_cost |-> EdgesLength(d, {EdgeOfTour(ctx.tour, positions[j]) : j \in DOMAIN positions})]

DeletedEdges(ports) == {{ports[2 * j - 1], ports[2 * j]} : j \in 1 .. Len(ports) \div 2}
AddedEdges(ports, template) == {{ports[x + 1], ports[template[x] + 1]} : x \in DOMAIN template}

kInvalidKOptTemplateCost == 2147483647

\* KOptCostTaskCpuScorer::Score: what a template adds, unless it adds a loop,
\* an edge twice or a deleted edge.  Edges that stay are not looked at.
Score(d, ports, template) ==
  LET added == AddedEdges(ports, template)
  IN  IF /\ Cardinality(added) = Len(ports) \div 2
         /\ added \subseteq AllEdges \ DeletedEdges(ports)
      THEN EdgesLength(d, added)
      ELSE kInvalidKOptTemplateCost

CostRow(d, task) ==
  LET table == ReconnectTable[Len(task.port_nodes) \div 2]
  IN  [t \in DOMAIN table |-> Score(d, task.port_nodes, table[t])]

\* TryReconnect accepts a template: all its edges are new, it is shorter and
\* gives one tour.
Reconnects(d, ctx, task, template) ==
  LET deleted == DeletedEdges(task.port_nodes)
      added == AddedEdges(task.port_nodes, template)
      all == ContextEdges(ctx.paths, ctx.outside)
  IN  /\ Cardinality(added) = Cardinality(deleted)
      /\ added \subseteq AllEdges \ all
      /\ EdgesLength(d, added) < task.deleted_cost
      /\ IsTour(CoveredNodes(ctx.paths), (all \ deleted) \cup added)

\* The result of trying templates: the first of the good ones, and how far down
\* the table one had to look for it.
FirstGood(ctx, task, table, good) ==
  LET improved(template) ==
        (ContextEdges(ctx.paths, ctx.outside) \ DeletedEdges(task.port_nodes))
          \cup AddedEdges(task.port_nodes, template)
  IN  IF good = {} THEN [witness |-> {}, tested |-> Len(table)]
      ELSE [witness |-> {WitnessFor(ctx.paths, ctx.outside, improved(table[Min(good)]))},
            tested |-> Min(good)]

Attempt(d, ctx, task, table, tried) ==
  FirstGood(ctx, task, table, {t \in tried : Reconnects(d, ctx, task, table[t])})

TableFor(task) == ReconnectTable[Len(task.port_nodes) \div 2]

TryReconnect(d, ctx, task) == Attempt(d, ctx, task, TableFor(task), DOMAIN TableFor(task))

\* With the scores at hand only cheaper templates are tried.
TryReconnectFromCostRow(d, ctx, task, row) ==
  Attempt(d, ctx, task, TableFor(task), {t \in DOMAIN row : row[t] < task.deleted_cost})

----------------------------------------------------------------------------
(* The search by k-opt moves, one deletion set after the other.            *)

\* Combinations of k out of n that keep the first, in lexicographic order.
Combinations(k, n) ==
  LET increasing(S) == Sorted(S, <)
  IN  Sorted({<<1>> \o increasing(S) : S \in kSubset(k - 1, 2 .. n)}, Lexicographic)

NoProgress(status) ==
  [status |-> status, deletion_sets_tested |-> 0, reconnect_matchings_tested |-> 0, witness |-> {}]

GoodOptions(o) ==
  /\ o.max_k \in 3 .. 5 /\ o.cost_batch_size # 0
  /\ o.cost_backend \in {"auto", "cpu", "cuda"}

\* What attempts come to that are made in turn until one has a witness.
Consumed(attempts, hits) ==
  LET last == IF hits = {} THEN Len(attempts) ELSE Min(hits)
  IN  [deletion_sets_tested |-> last,
       reconnect_matchings_tested |-> MapThenSumSet(LAMBDA i : attempts[i].tested, 1 .. last),
       witness |-> IF hits = {} THEN {} ELSE attempts[last].witness]
ConsumeInTurn(attempts) == Consumed(attempts, {i \in DOMAIN attempts : attempts[i].witness # {}})

\* The status after a witness, which is verified, or else as given.
StatusWith(d, ctx, witness, otherwise) ==
  IF witness = {} THEN otherwise
  ELSE IF \A w \in witness : VerifyKOptWitness(d, ctx.paths, ctx.outside, ctx.required, w)
  THEN "improved" ELSE "invalid"

\* Deletion sets of size 3, then 4, up to max_k, each smaller than the number
\* of path edges.
DeletionSets(n, max_k) ==
  FlattenSeq([j \in 1 .. Max({0, Min({max_k, n - 1}) - 2}) |-> Combinations(j + 2, n)])

SearchSets(d, ctx, sets, budget) ==
  LET task(i) == BuildKOptCostTask(d, ctx, DeletedPositions(ctx, sets[i]))
      result(r) == [r EXCEPT !.status = StatusWith(d, ctx, r.witness, @)]
      finish(c) == result(c @@ [status |-> IF budget < Len(sets) THEN "unresolved" ELSE "no improvement"])
  IN  finish(ConsumeInTurn([i \in 1 .. budget |-> TryReconnect(d, ctx, task(i))]))

Budget(sets, o) ==
  IF o.max_deletion_sets = 0 THEN Len(sets) ELSE Min({Len(sets), o.max_deletion_sets})

\* FindKOptWitness on the CPU.
FindKOptWitness(d, paths, outside, required, o) ==
  LET inContext(ctx) ==
        LET search(sets) == SearchSets(d, ctx, sets, Budget(sets, o))
        IN  search(DeletionSets(Len(ctx.selectable), o.max_k))
  IN  IF GoodOptions(o) /\ HasContext(paths, outside, required)
      THEN inContext(BuildTourContext(paths, outside, required))
      ELSE NoProgress("invalid")

----------------------------------------------------------------------------
(* The exact fallback: a tour of blocks, the ends of an outside edge or a  *)
(* single inner node, by dynamic programming over the blocks visited.  A   *)
(* state is a block and the end it was entered at; a way is the states met *)
(* so far and the length of what joins them.                               *)

BuildExactTourBlocks(paths, outside) ==
  LET node == EndpointNode(paths)
      firsts == Sorted({e \in DOMAIN outside : e < outside[e]}, <)
      inner == Sorted(CoveredNodes(paths) \ {node[e] : e \in DOMAIN node}, <)
  IN  [i \in DOMAIN firsts |-> <<node[firsts[i]], node[outside[firsts[i]]]>>]
        \o [i \in DOMAIN inner |-> <<inner[i]>>]

BlockStates(blocks, visited) == {s \in visited \X {0, 1} : s[2] < Len(blocks[s[1]])}
BlockEntry(blocks, s) == blocks[s[1]][s[2] + 1]
BlockExit(blocks, s) == blocks[s[1]][Len(blocks[s[1]]) - s[2]]

\* Of several ways to one state the shortest; of equal ones that over the
\* earlier state, for only a strictly shorter one replaces it.
BestWay(ways) ==
  LET previous(w) == w.order[Len(w.order) - 1]
  IN  CHOOSE w \in ways : \A v \in ways \ {w} :
        \/ w.length < v.length
        \/ w.length = v.length /\ Lexicographic(previous(w), previous(v))

\* The shortest way from block 1 through all others and back that avoids the
\* required edge, as a set with at most one member.
ShortestWay(d, blocks, required) ==
  LET goOn(w, s) ==
        LET joint == {BlockExit(blocks, w.order[Len(w.order)]), BlockEntry(blocks, s)}
        IN  [length |-> w.length + EdgeLength(d, joint), order |-> Append(w.order, s),
             allowed |-> joint # required]
      best(from, s) ==
        LET ways == {x \in {goOn(w, s) : w \in from} : x.allowed}
        IN  IF ways = {} THEN {} ELSE {BestWay(ways)}
      cell[visited \in SUBSET DOMAIN blocks] ==
        IF visited = {1} THEN {[length |-> 0, order |-> <<<<1, 0>>>>, allowed |-> TRUE]}
        ELSE UNION {best(cell[visited \ {s[1]}], s) : s \in BlockStates(blocks, visited \ {1})}
  IN  best(cell[DOMAIN blocks], <<1, 0>>)

WayEdges(blocks, w) ==
  {{BlockExit(blocks, w.order[i]), BlockEntry(blocks, w.order[i + 1])} : i \in 1 .. Len(w.order) - 1}

kMaxExactBlocks == 18

ExactResult(d, paths, outside, required, witnesses) ==
  IF witnesses = {} THEN NoProgress("no improvement")
  ELSE IF \A w \in witnesses : VerifyKOptWitness(d, paths, outside, required, w)
  THEN [NoProgress("improved") EXCEPT !.witness = witnesses]
  ELSE NoProgress("invalid")

FindExactTourWitness(d, paths, outside, required, max_blocks) ==
  LET witness(blocks, w) ==
        WitnessFor(paths, outside, OutsideEdges(paths, outside) \cup WayEdges(blocks, w))
      shorter(w) == w.length < EdgesLength(d, EdgeUnion(paths))
      search(blocks) ==
        IF Len(blocks) < 2 THEN NoProgress("invalid")
        ELSE IF Len(blocks) > max_blocks THEN NoProgress("unresolved")
        ELSE ExactResult(d, paths, outside, required,
               {witness(blocks, w) : w \in {x \in ShortestWay(d, blocks, required) : shorter(x)}})
  IN  IF max_blocks \notin 1 .. kMaxExactBlocks THEN NoProgress("unresolved")
      ELSE IF ~ HasContext(paths, outside, required) THEN NoProgress("invalid")
      ELSE search(BuildExactTourBlocks(paths, outside))

----------------------------------------------------------------------------
(* The prover of one path system: the outside matchings in turn, without   *)
(* those that a witness already covers.                                    *)

NoProof == [proven |-> FALSE, records |-> <<>>,
            deletion_sets_tested |-> 0, reconnect_matchings_tested |-> 0]

\* What the search for one source found, with the exact search behind it.
WithFallback(d, paths, outside, required, o, search) ==
  IF search.status = "improved" \/ o.exact_fallback_max_blocks = 0 THEN search
  ELSE FindExactTourWitness(d, paths, outside, required, o.exact_fallback_max_blocks)

Counted(proof, search) ==
  [proof EXCEPT !.deletion_sets_tested = @ + search.deletion_sets_tested,
                !.reconnect_matchings_tested = @ + search.reconnect_matchings_tested]

\* The witness of a search that passes the checks behind it, if there is one.
Accepted(d, paths, source, required, search) ==
  {w \in search.witness :
     /\ search.status = "improved"
     /\ VerifyKOptWitness(d, paths, source, required, w)
     /\ source \in Covers(w.inside, Cardinality(paths))}

ProvePathSystemByKOpt(d, paths, required, o) ==
  LET m == Cardinality(paths)
      record(st, source, w) ==
        [st EXCEPT !.covered = @ \cup Covers(w.inside, m),
                   !.proof.records = Append(@, [source |-> source, witness |-> w])]
      use(st, source, good) ==
        IF good = {} THEN [st EXCEPT !.stopped = TRUE]
        ELSE record(st, source, CHOOSE w \in good : TRUE)
      step(st, source, search) ==
        use([st EXCEPT !.proof = Counted(@, search)], source,
            Accepted(d, paths, source, required, WithFallback(d, paths, source, required, o, search)))
      visit(st, source) ==
        IF st.stopped \/ source \in st.covered THEN st
        ELSE step(st, source, FindKOptWitness(d, paths, source, required, o))
      after[i \in 0 .. Len(OutsideTable[m])] ==
        IF i = 0 THEN [proof |-> NoProof, covered |-> {}, stopped |-> FALSE]
        ELSE visit(after[i - 1], OutsideTable[m][i])
      finish(st) == [st.proof EXCEPT !.proven = ~ st.stopped]
  IN  IF Testable(paths) THEN finish(after[Len(OutsideTable[m])]) ELSE NoProof
=============================================================================
