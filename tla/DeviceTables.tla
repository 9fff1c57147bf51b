---------------------------- MODULE DeviceTables ----------------------------
(***************************************************************************)
(* What one host thread keeps on the devices between calls                 *)
(* (src/cuda/jv_cuda.cu, ht_replies.cu, kopt_cost.cu).  The JV scan, the   *)
(* Hamilton-Tutte replies and the k-opt costs each have a cache per device *)
(* with tables of the caller's graph, uploaded again only when they differ *)
(* from the host copy, and with buffers that only grow, refilled by every  *)
(* call as far as the call needs.  Any CUDA call or allocation may throw,  *)
(* after which the cache is used as it is by the calls that follow.  The   *)
(* three share nothing, so a behaviour is about one of them.               *)
(***************************************************************************)
EXTENDS Integers, Sequences, FiniteSets, TLC

LOCAL INSTANCE SequencesExt

CONSTANTS
  WordBits,    \* bits of a 64-bit word; even
  Device,      \* ordinals of the visible devices
  Calls,       \* the calls the thread may make
  Templates,   \* the reconnection templates of each k, as sequences of mates
  MaxCalls,    \* bound on the calls of a behaviour
  MaxCandidateNodes

-----------------------------------------------------------------------------
(* Integer distances of points (src/common/distance.cpp,                   *)
(* src/common/graph.cpp, and the device copies in src/cuda).  Words keep   *)
(* their width: int64 is a signed word of WordBits bits, uint64 an         *)
(* unsigned one, __int128 a signed one of twice that.                      *)

ASSUME WordAssumption == WordBits \in {2 * n : n \in 1 .. 7}

Unsigned(x) == x % 2^WordBits
MaxUnsigned == 2^WordBits - 1
\* Overflow of a signed wide word is undefined; the builds wrap.
Wide(x) == ((x + 2^(2 * WordBits - 1)) % 2^(2 * WordBits)) - 2^(2 * WordBits - 1)

\* The restoring square root.  Bits above the value change nothing, so the loop
\* that skips them is left out.
IntegerSqrtFloor(value) ==
  LET Step(s, bit) ==
        IF s.remainder >= s.root + bit
        THEN [remainder |-> s.remainder - (s.root + bit), root |-> s.root \div 2 + bit]
        ELSE [s EXCEPT !.root = s.root \div 2]
      bits == [i \in 1 .. WordBits \div 2 |-> 4^(WordBits \div 2 - i)]
  IN  FoldLeft(Step, [remainder |-> value, root |-> 0], bits).root

\* EUC_2D rounds to the nearest integer, CEIL_2D up.
Rounded(squared, type) ==
  LET root == IntegerSqrtFloor(squared)
      up == IF type = "EUC_2D" THEN squared - root * root > root ELSE root * root # squared
  IN  IF up THEN root + 1 ELSE root

SquaredDistance(a, b) ==
  Wide(Wide((a[1] - b[1]) * (a[1] - b[1])) + Wide((a[2] - b[2]) * (a[2] - b[2])))

NoDistance == -1
\* What the builds return for a pair of points, NoDistance standing for the
\* refusal.  A sum of squares is negative only after an overflow: an optimised
\* build leaves that test out, and goes on with the low half of the word.
ExactIntegerDistance(a, b, type) ==
  LET squared == SquaredDistance(a, b)
  IN  IF squared \in 0 .. MaxUnsigned THEN {Rounded(squared, type)}
      ELSE IF squared < 0 THEN {NoDistance, Rounded(Unsigned(squared), type)}
      ELSE {NoDistance}

\* On the device everything is an unsigned word.
AbsoluteDifference(x, y) == Unsigned(IF x >= y THEN x - y ELSE y - x)
ExactDistanceDevice(a, b, type) ==
  LET dx == AbsoluteDifference(a[1], b[1])
      dy == AbsoluteDifference(a[2], b[2])
  IN  Rounded(Unsigned(Unsigned(dx * dx) + Unsigned(dy * dy)), type)

\* Fault: each axis is checked alone.
IntegerDistanceSafe_PerAxis(points) ==
  \A a, b \in {points[n] : n \in DOMAIN points} :
    /\ (a[1] - b[1]) * (a[1] - b[1]) <= MaxUnsigned
    /\ (a[2] - b[2]) * (a[2] - b[2]) <= MaxUnsigned

Width(points, axis) ==
  CHOOSE w \in 0 .. MaxUnsigned :
    /\ \A m, n \in DOMAIN points : points[m][axis] - points[n][axis] <= w
    /\ \E m, n \in DOMAIN points : points[m][axis] - points[n][axis] = w

\* The bounding box, and so every pair, has a squared diagonal of one word.  The
\* sum wraps for the widest spans, which may then pass as well.
IntegerDistanceSafe(points) ==
  SquaredDistance(<<Width(points, 1), Width(points, 2)>>, <<0, 0>>) <= MaxUnsigned

-----------------------------------------------------------------------------
(* A call is [kind, graph, target, tasks, k]; a graph is                   *)
(* [type, points, edges, active]: edges is the edge list as a sequence of  *)
(* <<u, v>> with u < v in increasing order, active its active positions.   *)
Owner(call) == CASE call.kind = "FindJvCandidatesCuda" -> "jv"
                 [] call.kind = "EvaluateKOptTemplateCostsCuda" -> "kopt"
                 [] OTHER -> "reply"

NoDevice == -1
kEmpty == <<>>   \* no table
Tables == {"graph", "templates3", "templates4"}
TemplatesOf(k) == CASE k = 3 -> "templates3" [] k = 4 -> "templates4"
Buffers == {"edge_active", "row_offsets", "neighbors", "csr_edge_ids", "witnesses", "centers",
            "end_tasks", "counts", "offsets", "error_code", "hamilton_replies", "end_replies",
            "tasks", "costs"}

Nodes(graph) == DOMAIN graph.points
\* The adjacency row of n, as [node, edge] by node.
Row(graph, n) ==
  LET S == {e \in graph.active : n \in {graph.edges[e][1], graph.edges[e][2]}}
      Other(e) == IF graph.edges[e][1] = n THEN graph.edges[e][2] ELSE graph.edges[e][1]
  IN  SetToSortSeq({[node |-> Other(e), edge |-> e] : e \in S}, LAMBDA x, y : x.node < y.node)
Rows(graph) == [n \in Nodes(graph) |-> Row(graph, n)]
ActiveBits(graph) == [e \in DOMAIN graph.edges |-> e \in graph.active]
\* One build's distances; they differ between builds only after an overflow.
CpuDistances(graph) ==
  [p \in Nodes(graph) \X Nodes(graph) |-> CHOOSE d \in
     ExactIntegerDistance(graph.points[p[1]], graph.points[p[2]], graph.type) : TRUE]
DeviceDistances(table) ==
  [p \in (DOMAIN table.points) \X (DOMAIN table.points) |->
     ExactDistanceDevice(table.points[p[1]], table.points[p[2]], table.type)]

Kernel == INSTANCE JvKernel

VARIABLES
  forced,      \* the device this thread is bound to, or NoDevice
  preferred,   \* the device used last
  caches,      \* per device: tables on the host and the device, buffers
  call,        \* the call being served, or the last one
  pc,          \* what it does next
  device,      \* the device it runs on
  at,          \* how far it is in the steps of pc
  offsets,     \* host copy of the prefix sums of the counts
  batch,       \* what the last call that returned, returned
  made         \* how many calls were made
vars == <<forced, preferred, caches, call, pc, device, at, offsets, batch, made>>

NoCache == [host |-> [t \in Tables |-> kEmpty], dev |-> [t \in Tables |-> kEmpty],
            buf |-> [b \in Buffers |-> [count |-> 0, data |-> <<>>]]]
Cache == caches[device]
Put(cache) == caches' = [caches EXCEPT ![device] = cache]

\* A scan worker binds itself to a device before its first call, and stays so.
Init ==
  /\ forced \in Device \cup {NoDevice}
  /\ preferred = NoDevice
  /\ caches = [d \in Device |-> NoCache]
  /\ call \in Calls
  /\ pc = "idle" /\ device = NoDevice /\ at = 1
  /\ offsets = <<>> /\ batch = <<>> /\ made = 0
-----------------------------------------------------------------------------
(* The static tables of a call, in the order they are prepared.            *)
GraphTable(c) ==
  LET g == c.graph
      points == [type |-> g.type, points |-> g.points]
  IN  CASE Owner(c) = "jv" -> points @@ [edges |-> g.edges]
        [] Owner(c) = "reply" -> points @@ [rows |-> Rows(g)]
        [] Owner(c) = "kopt" -> points
TablesOf(c) == IF Owner(c) = "kopt" THEN <<"graph", TemplatesOf(c.k)>> ELSE <<"graph">>
Wanted(c, t) == IF t = "graph" THEN GraphTable(c) ELSE Templates[c.k]

(* The buffers a call fills before its kernel, with the elements it needs. *)
InputNeeds(c) ==
  LET n == Len(c.tasks)
      adjacency == 2 * Cardinality(c.graph.active)
      common == << <<"counts", n>>, <<"offsets", n + 1>>, <<"error_code", 1>> >>
  IN  CASE c.kind = "FindJvCandidatesCuda" ->
             << <<"edge_active", Len(c.graph.edges)>>,
                <<"row_offsets", Cardinality(Nodes(c.graph)) + 1>>,
                <<"neighbors", adjacency>>, <<"csr_edge_ids", adjacency>>,
                <<"witnesses", Len(c.graph.edges)>> >>
        [] c.kind = "EvaluateHtHamiltonRepliesCuda" -> common \o << <<"centers", n>> >>
        [] c.kind = "EvaluateHtEndRepliesCuda" -> common \o << <<"end_tasks", n>> >>
        [] c.kind = "EvaluateKOptTemplateCostsCuda" ->
             << <<"tasks", n>>, <<"costs", n * Len(Templates[c.k])>> >>

\* Buffers double, or take what is asked for when that is more.
GrowthCapacity(current, required) ==
  IF current >= required THEN current
  ELSE IF current = 0 \/ 2 * current < required THEN required ELSE 2 * current

\* A buffer that must grow is a new one, with nothing in it.
Grown(buffer, required) ==
  IF buffer.count >= required THEN buffer
  ELSE [count |-> GrowthCapacity(buffer.count, required), data |-> <<>>]

\* CopyFromHost overwrites the front of a buffer and leaves the rest.
CopyFromHost(buffer, source) ==
  [buffer EXCEPT !.data = source \o SubSeq(@, Len(source) + 1, Len(@))]
-----------------------------------------------------------------------------
(* What the kernels compute, from arrays that should be the caller's.      *)

\* Hamilton replies at a center: the pairs of neighbours that no 2-opt or
\* 3-opt exchange with the target edge excludes, in row order.
SurvivesTwoOpt(dist, target, center, n) ==
  LET original == dist[target[1], target[2]] + dist[center, n]
  IN  \/ dist[target[1], n] + dist[target[2], center] >= original
      \/ dist[target[1], center] + dist[target[2], n] >= original
ReplySurvives(dist, target, center, m, n) ==
  /\ {m, n} # {target[1], target[2]}
  /\ SurvivesTwoOpt(dist, target, center, m) /\ SurvivesTwoOpt(dist, target, center, n)
  /\ dist[target[1], target[2]] + dist[center, m] + dist[center, n]
       <= dist[m, n] + dist[target[1], center] + dist[target[2], center]
HamiltonReplies(dist, row, target, center) ==
  LET pairs == FlattenSeq([i \in 1 .. Len(row) |->
                 [j \in 1 .. Len(row) - i |-> <<center, row[i].node, row[i + j].node>>]])
  IN  SelectSeq(pairs, LAMBDA p : ReplySurvives(dist, target, center, p[2], p[3]))

\* End replies: the other edges at the end of a path.
EndReplies(row, task) ==
  LET others == SelectSeq(row, LAMBDA x : x.node # task[2])
  IN  [i \in DOMAIN others |-> IF task[1] < others[i].node THEN <<task[1], others[i].node>>
                                                           ELSE <<others[i].node, task[1]>>]

\* The length of what a template adds to the ports of a task, if that is a
\* proper exchange: no loop, nothing deleted comes back, nothing twice.
kInvalidKOptTemplateCost == -1
TemplateCost(dist, k, port_nodes, mate) ==
  LET ports == {p \in 1 .. 2 * k : p < mate[p]}
      Added(p) == {port_nodes[p], port_nodes[mate[p]]}
      deleted == {{port_nodes[2 * e - 1], port_nodes[2 * e]} : e \in 1 .. k}
      proper == \A p \in ports : /\ port_nodes[p] # port_nodes[mate[p]]
                                 /\ Added(p) \notin deleted
                                 /\ \A q \in ports : q < p => Added(q) # Added(p)
  IN  IF proper THEN FoldSet(LAMBDA p, sum : sum + dist[port_nodes[p], port_nodes[mate[p]]], 0, ports)
      ELSE kInvalidKOptTemplateCost
-----------------------------------------------------------------------------
(* The dynamic inputs of a call, which overwrite the front of a buffer.    *)
Flat(rows) == FlattenSeq([n \in 1 .. Cardinality(DOMAIN rows) |-> rows[n - 1]])
PrefixSums(counts) ==
  LET sums[i \in 0 .. Len(counts)] == IF i = 0 THEN 0 ELSE sums[i - 1] + counts[i]
  IN  [i \in 1 .. Len(counts) + 1 |-> sums[i - 1]]
RowOffsets(rows) == PrefixSums([n \in 1 .. Cardinality(DOMAIN rows) |-> Len(rows[n - 1])])

Inputs(c) ==
  LET rows == Rows(c.graph)
      slots == Flat(rows)
  IN  CASE c.kind = "FindJvCandidatesCuda" ->
             << <<"edge_active", ActiveBits(c.graph)>>, <<"row_offsets", RowOffsets(rows)>>,
                <<"neighbors", [i \in DOMAIN slots |-> slots[i].node]>>,
                <<"csr_edge_ids", [i \in DOMAIN slots |-> slots[i].edge]>>,
                <<"witnesses", [e \in DOMAIN c.graph.edges |-> Kernel!NoJvWitness]>> >>
        [] c.kind = "EvaluateHtHamiltonRepliesCuda" -> << <<"centers", c.tasks>> >>
        [] c.kind = "EvaluateHtEndRepliesCuda" ->
             << <<"end_tasks", c.tasks>>, <<"error_code", <<0>> >> >>
        [] c.kind = "EvaluateKOptTemplateCostsCuda" -> << <<"tasks", c.tasks>> >>

\* What the device holds, as a kernel addresses it.
Table(cache) == cache.dev["graph"]
DeviceDistance(cache) == DeviceDistances(Table(cache))
RowOnDevice(cache, n) ==
  LET first == cache.buf["row_offsets"].data[n + 1]
      next == cache.buf["row_offsets"].data[n + 2]
  IN  [i \in 1 .. next - first |->
         [node |-> cache.buf["neighbors"].data[first + i],
          edge |-> cache.buf["csr_edge_ids"].data[first + i]]]
Weights(edges, dist) == [e \in DOMAIN edges |-> dist[edges[e][1], edges[e][2]]]
RepliesTo(c, dist, rows, task) ==
  IF c.kind = "EvaluateHtHamiltonRepliesCuda"
  THEN HamiltonReplies(dist, rows[task], c.target, task)
  ELSE EndReplies(rows[task[1]], task)
TaskBuffer(c) == IF c.kind = "EvaluateHtHamiltonRepliesCuda" THEN "centers" ELSE "end_tasks"
ReplyBuffer(c) ==
  IF c.kind = "EvaluateHtHamiltonRepliesCuda" THEN "hamilton_replies" ELSE "end_replies"
RepliesOnDevice(c, cache, i) ==
  RepliesTo(c, DeviceDistance(cache), Table(cache).rows, cache.buf[TaskBuffer(c)].data[i])

JvWitnessesOnDevice(cache) ==
  LET table == Table(cache)
      dist == DeviceDistance(cache)
      rows == [n \in DOMAIN table.points |-> RowOnDevice(cache, n)]
      old == cache.buf["witnesses"].data
      Witness(e) == Kernel!JvWitness(table.edges, Weights(table.edges, dist),
                                     cache.buf["edge_active"].data, rows, dist, e)
  IN  [e \in DOMAIN table.edges |->
         IF Witness(e) = Kernel!NoJvWitness THEN old[e] ELSE Witness(e)]
Costs(dist, k, tasks, templates) ==
  FlattenSeq([i \in DOMAIN tasks |->
    [j \in DOMAIN templates |-> TemplateCost(dist, k, tasks[i], templates[j])]])
JvCandidates(witnesses) ==
  SelectSeq([e \in DOMAIN witnesses |-> <<e, witnesses[e]>>], LAMBDA p : p[2] # Kernel!NoJvWitness)

\* What the CPU computes for the same call.
Expected(c) ==
  LET g == c.graph
      dist == CpuDistances(g)
      rows == Rows(g)
      replies == [i \in DOMAIN c.tasks |-> RepliesTo(c, dist, rows, c.tasks[i])]
  IN  CASE c.kind = "FindJvCandidatesCuda" ->
             JvCandidates([e \in DOMAIN g.edges |->
               Kernel!JvWitness(g.edges, Weights(g.edges, dist), ActiveBits(g), rows, dist, e)])
        [] c.kind = "EvaluateKOptTemplateCostsCuda" -> Costs(dist, c.k, c.tasks, Templates[c.k])
        [] OTHER -> <<PrefixSums([i \in DOMAIN replies |-> Len(replies[i])]), FlattenSeq(replies)>>
-----------------------------------------------------------------------------
(* Without cache reuse a reply batch drops the caches before and after it. *)
Resting == pc \in {"idle", "returned"}
ClearHtReplyCudaCache ==
  /\ Resting /\ Owner(call) = "reply"
  /\ caches' = [d \in Device |-> NoCache]
  /\ preferred' = NoDevice
  /\ UNCHANGED <<forced, call, pc, device, at, offsets, batch, made>>

(* Which device a call runs on when some devices answer: the forced one or *)
(* none, else the last one, else the one with most free memory.            *)
SelectDevice(answering, best) ==
  CASE forced # NoDevice -> IF forced \in answering THEN forced ELSE NoDevice
    [] forced = NoDevice /\ preferred \in answering -> preferred
    [] OTHER -> best

\* The file of edges carries the distance of each, which therefore has one.
Loads(graph) ==
  \A e \in DOMAIN graph.edges :
    ExactIntegerDistance(graph.points[graph.edges[e][1]], graph.points[graph.edges[e][2]],
                         graph.type) # {NoDistance}
Accepted(c) == Loads(c.graph) /\ IntegerDistanceSafe(c.graph.points)

Call(c) ==
  /\ Resting /\ made < MaxCalls
  /\ Owner(c) = Owner(call) /\ Accepted(c)
  /\ call' = c /\ made' = made + 1
  /\ \E answering \in SUBSET Device :
     \E best \in IF answering = {} THEN {NoDevice} ELSE answering :
     \E d \in {SelectDevice(answering, best)} :
       /\ device' = d
       /\ preferred' = IF d = NoDevice /\ forced # NoDevice THEN preferred ELSE d
       /\ pc' = IF d = NoDevice THEN "idle" ELSE "tables"
  /\ at' = 1 /\ offsets' = <<>> /\ batch' = <<>>
  /\ UNCHANGED <<forced, caches>>

CallVars == <<forced, preferred, call, device, made>>

\* Fault: tables of the same size are taken for the same.
Matches_BySize(cache, c, t) ==
  /\ cache.host[t] # kEmpty
  /\ IF t # "graph" THEN cache.host[t] = Wanted(c, t)
     ELSE DOMAIN cache.host[t].points = Nodes(c.graph)

Matches(cache, c, t) == cache.host[t] = Wanted(c, t)

\* New device buffers are filled before anything is replaced, and the tables
\* of the graph are then replaced on both sides without anything in between.
PrepareGraph ==
  /\ pc = "tables" /\ TablesOf(call)[at] = "graph"
  /\ IF Matches(Cache, call, "graph") THEN UNCHANGED caches
     ELSE Put([Cache EXCEPT !.host["graph"] = Wanted(call, "graph"),
                            !.dev["graph"] = Wanted(call, "graph")])
  /\ IF at = Len(TablesOf(call)) THEN pc' = "input" /\ at' = 1 ELSE pc' = pc /\ at' = at + 1
  /\ UNCHANGED <<CallVars, offsets, batch>>

\* The host copy of the templates is a copy, which may throw after the device
\* already has the new ones.
PrepareTemplates ==
  /\ pc = "tables" /\ TablesOf(call)[at] # "graph"
  /\ \E t \in {TablesOf(call)[at]} :
       IF Matches(Cache, call, t) THEN UNCHANGED caches /\ pc' = "input"
       ELSE Put([Cache EXCEPT !.dev[t] = Wanted(call, t)]) /\ pc' = "templates"
  /\ at' = 1
  /\ UNCHANGED <<CallVars, offsets, batch>>
RememberTemplates ==
  /\ pc = "templates"
  /\ \E t \in {TemplatesOf(call.k)} : Put([Cache EXCEPT !.host[t] = Wanted(call, t)])
  /\ pc' = "input"
  /\ UNCHANGED <<CallVars, at, offsets, batch>>

PrepareBuffer ==
  /\ pc = "input"
  /\ \E need \in {InputNeeds(call)[at]} :
       Put([Cache EXCEPT !.buf[need[1]] = Grown(@, need[2])])
  /\ IF at = Len(InputNeeds(call)) THEN pc' = "copy" /\ at' = 1 ELSE pc' = pc /\ at' = at + 1
  /\ UNCHANGED <<CallVars, offsets, batch>>

\* "overrun" is a write past the end of a device buffer; a copy that would be
\* one is refused by the code, a kernel's store is not.
CopyInput ==
  /\ pc = "copy"
  /\ \E input \in {Inputs(call)[at]} :
       IF Len(input[2]) > Cache.buf[input[1]].count
       THEN pc' = "overrun" /\ UNCHANGED <<caches, at>>
       ELSE /\ Put([Cache EXCEPT !.buf[input[1]] = CopyFromHost(@, input[2])])
            /\ IF at = Len(Inputs(call)) THEN pc' = "launch" /\ at' = 1
                                         ELSE pc' = pc /\ at' = at + 1
  /\ UNCHANGED <<CallVars, offsets, batch>>

\* Every thread of a kernel writes its own slot of output.
Launch(output, values, next) ==
  /\ IF Len(values) > Cache.buf[output].count
     THEN pc' = "overrun" /\ UNCHANGED caches
     ELSE Put([Cache EXCEPT !.buf[output] = CopyFromHost(@, values)]) /\ pc' = next
  /\ UNCHANGED <<CallVars, at, offsets>>

JvCandidatesKernel ==
  /\ pc = "launch" /\ call.kind = "FindJvCandidatesCuda"
  /\ \E witnesses \in {JvWitnessesOnDevice(Cache)} :
       Launch("witnesses", witnesses, "returned") /\ batch' = JvCandidates(witnesses)
KOptTemplateCostsKernel ==
  /\ pc = "launch" /\ call.kind = "EvaluateKOptTemplateCostsCuda"
  /\ \E costs \in {Costs(DeviceDistance(Cache), call.k,
                         SubSeq(Cache.buf["tasks"].data, 1, Len(call.tasks)),
                         Cache.dev[TemplatesOf(call.k)])} :
       Launch("costs", costs, "returned") /\ batch' = costs
CountRepliesKernel ==
  /\ pc = "launch" /\ Owner(call) = "reply"
  /\ Launch("counts", [i \in DOMAIN call.tasks |-> Len(RepliesOnDevice(call, Cache, i))], "offsets")
  /\ UNCHANGED batch

\* The host turns the counts into offsets and makes room for all replies.
ReadCounts ==
  /\ pc = "offsets"
  /\ \E sums \in {PrefixSums(SubSeq(Cache.buf["counts"].data, 1, Len(call.tasks)))} :
       /\ offsets' = sums
       /\ Put([Cache EXCEPT !.buf[ReplyBuffer(call)] = Grown(@, Last(sums))])
  /\ pc' = "write"
  /\ UNCHANGED <<CallVars, at, batch>>

\* Each thread writes between its offsets; one that ends elsewhere, or would
\* pass the total, reports it and the call throws.
WriteRepliesKernel ==
  /\ pc = "write"
  /\ \E written \in {[i \in DOMAIN call.tasks |-> RepliesOnDevice(call, Cache, i)]} :
       IF \/ Len(offsets) > Cache.buf["offsets"].count
          \/ Last(offsets) > Cache.buf[ReplyBuffer(call)].count
       THEN pc' = "overrun" /\ UNCHANGED <<caches, batch>>
       ELSE IF \E i \in DOMAIN written : offsets[i] + Len(written[i]) # offsets[i + 1]
       THEN pc' = "disagreed" /\ UNCHANGED <<caches, batch>>
       ELSE /\ Put([Cache EXCEPT !.buf["offsets"] = CopyFromHost(@, offsets),
                                 !.buf["error_code"] = CopyFromHost(@, <<0>>),
                                 !.buf[ReplyBuffer(call)] = CopyFromHost(@, FlattenSeq(written))])
            /\ batch' = <<offsets, FlattenSeq(written)>>
            /\ pc' = "returned"
  /\ UNCHANGED <<CallVars, at, offsets>>

\* Any step of the call may throw: the caches stay as they are, and the caller
\* goes on with the CPU or reports the error.
Throw ==
  /\ pc \in {"tables", "templates", "input", "copy", "launch", "offsets", "write"}
  /\ pc' = "idle" /\ device' = NoDevice /\ at' = 1 /\ offsets' = <<>>
  /\ UNCHANGED <<forced, preferred, caches, call, batch, made>>

Next ==
  \/ ClearHtReplyCudaCache
  \/ \E c \in Calls : Call(c)
  \/ PrepareGraph \/ PrepareTemplates \/ RememberTemplates \/ PrepareBuffer \/ CopyInput
  \/ JvCandidatesKernel \/ KOptTemplateCostsKernel \/ CountRepliesKernel
  \/ ReadCounts \/ WriteRepliesKernel \/ Throw
Spec == Init /\ [][Next]_vars
-----------------------------------------------------------------------------
(* The span up to which the test of the bounding box can be trusted: no     *)
(* square or sum in it leaves the wide word (a diagonal below 2^63.5).      *)
SpanInRange(points) ==
  Width(points, 1) * Width(points, 1) + Width(points, 2) * Width(points, 2)
    < 2^(2 * WordBits - 1)

(* A call that returns has what the CPU computes for its own graph and     *)
(* tasks, whatever calls were made before on the same thread, on whatever  *)
(* graph, and wherever they threw; no kernel or copy leaves its buffer and *)
(* the two passes over the replies agree (ht_replies.cu:206-255, 585-751;  *)
(* kopt_cost.cu:205-286, 415-470; jv_cuda.cu:360-470, 488-566).            *)
BatchExact ==
  /\ pc \notin {"overrun", "disagreed"}
  /\ pc = "returned" /\ SpanInRange(call.graph.points) => batch = Expected(call)

(* A graph that passes the test of its bounding box has exact distances in *)
(* every build and on the device, the nearest integer or the next one for  *)
(* CEIL_2D, as long as the test itself does not overflow: beyond           *)
(* SpanInRange it accepts graphs whose distances are refused or wrong      *)
(* (graph.cpp:170-181, 210-214, distance.cpp:29-68, jv_cuda.cu:164-179).   *)
IsRounded(r, squared, type) ==
  IF type = "EUC_2D" THEN (r * r - r < squared /\ squared <= r * r + r) \/ (r = 0 /\ squared = 0)
  ELSE (r = 0 \/ (r - 1) * (r - 1) < squared) /\ squared <= r * r
DistancesExact ==
  pc = "tables" /\ SpanInRange(call.graph.points) =>
    \A p \in Nodes(call.graph) \X Nodes(call.graph) :
      \E a \in {call.graph.points[p[1]]}, b \in {call.graph.points[p[2]]},
         r \in {DeviceDistances(call.graph)[p]} :
        /\ IsRounded(r, (a[1] - b[1]) * (a[1] - b[1]) + (a[2] - b[2]) * (a[2] - b[2]),
                     call.graph.type)
        /\ ExactIntegerDistance(a, b, call.graph.type) = {r}
=============================================================================
