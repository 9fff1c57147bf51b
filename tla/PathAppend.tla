----------------------------- MODULE PathAppend -----------------------------
(***************************************************************************)
(* Growing a path system by one or two edges without normalising it again  *)
(* (src/cpu/ht_path_append.cpp), as the wavefront prover does for every    *)
(* reply: a point task adds first - center - second around a node that is  *)
(* not yet covered, an end task adds first - second at an end of a path.   *)
(* Starting from the target edge alone, every child that is feasible       *)
(* becomes a parent in turn.  The device kernels (src/cuda/                *)
(* ht_path_append.cu) answer the same batch from the degrees and the       *)
(* component numbers of the parents' nodes alone, without their paths.     *)
(***************************************************************************)
EXTENDS PathSystem, SequencesExt

VARIABLES
  parent,   \* the canonical paths the last task was applied to
  task,     \* that task, [kind, first, center, second]; kind "root" before any
  child     \* its result, valid or not, with the reason

vars == <<parent, task, child>>

PathOf(paths, x) == CHOOSE p \in paths : x \in PathNodes(p)
IsEnd(p, x) == x = p[1] \/ x = p[Len(p)]
Covered(paths, x) == x \in CoveredNodes(paths)
EndOrFree(paths, x) == Covered(paths, x) => IsEnd(PathOf(paths, x), x)
SamePath(paths, x, y) == Covered(paths, x) /\ Covered(paths, y) /\ PathOf(paths, x) = PathOf(paths, y)

\* The tasks ValidateTask lets through; it throws on any other.
LegalTask(paths, t) ==
  /\ t.first # t.second
  /\ \/ /\ t.kind = "point"
        /\ t.center \in Nodes \ {t.first, t.second}
        /\ ~ Covered(paths, t.center)
     \/ /\ t.kind = "end"
        /\ t.center = -1
        /\ Covered(paths, t.first) /\ IsEnd(PathOf(paths, t.first), t.first)

\* Fault: two ends of one path may be joined.
Fault_CycleAllowed(paths, t) ==
  IF t.kind = "end" /\ {t.first, t.second} \in EdgeUnion(paths) THEN "repeated edge"
  ELSE IF ~ (EndOrFree(paths, t.first) /\ EndOrFree(paths, t.second)) THEN "degree"
  ELSE "none"

Fault(paths, t) ==
  IF t.kind = "end" /\ {t.first, t.second} \in EdgeUnion(paths) THEN "repeated edge"
  ELSE IF ~ (EndOrFree(paths, t.first) /\ EndOrFree(paths, t.second)) THEN "degree"
  ELSE IF SamePath(paths, t.first, t.second) THEN "cycle"
  ELSE "none"

\* The path x ends (or x alone), read towards x or away from it.
ReadTowards(paths, x) ==
  IF ~ Covered(paths, x) THEN <<x>>
  ELSE LET p == PathOf(paths, x) IN IF x = p[Len(p)] THEN p ELSE Reverse(p)
ReadFrom(paths, x) == Reverse(ReadTowards(paths, x))

\* Fault: the merged path keeps the orientation it was built in.
Merge_NotReversed(paths, t) ==
  ReadTowards(paths, t.first) \o (IF t.kind = "point" THEN <<t.center>> ELSE <<>>)
    \o ReadFrom(paths, t.second)

\* The two paths (or single nodes) with the new edges between them, read from
\* the smaller end.
Merge(paths, t) ==
  LET merged == ReadTowards(paths, t.first)
                  \o (IF t.kind = "point" THEN <<t.center>> ELSE <<>>)
                  \o ReadFrom(paths, t.second)
  IN  IF merged[1] > merged[Len(merged)] THEN Reverse(merged) ELSE merged

AppendTo(paths, t) ==
  IF Fault(paths, t) # "none" THEN Invalid(Fault(paths, t))
  ELSE Valid({p \in paths : ~ Covered({p}, t.first) /\ ~ Covered({p}, t.second)}
               \cup {Merge(paths, t)})

----------------------------------------------------------------------------
(* The batch on the device, from the flat tables the host uploads.         *)

EdgeLess(e, f) == e[1] < f[1] \/ (e[1] = f[1] /\ e[2] < f[2])
CanonicalEdge(x, y) == IF x < y THEN <<x, y>> ELSE <<y, x>>

\* BuildCanonicalEdges: the edges of the paths as one sorted list.
CanonicalEdges(paths) ==
  SetToSortSeq({CanonicalEdge(p[i], p[i + 1]) : <<p, i>> \in
                  {q \in paths \X (1 .. NodeCount - 1) : q[2] < Len(q[1])}}, EdgeLess)

\* One record per node of the parent; a path stands for its component number.
NodeRecords(paths) ==
  {[node |-> x, component |-> p, degree |-> IF IsEnd(p, x) THEN 1 ELSE 2] :
     <<p, x>> \in {q \in paths \X Nodes : q[2] \in PathNodes(q[1])}}

Record(records, x) ==
  IF \E r \in records : r.node = x
  THEN CHOOSE r \in records : r.node = x
  ELSE [node |-> x, component |-> <<>>, degree |-> 0]

\* Fault: a point task is not asked whether its ends are on one component.
IsHtPathAppendFeasible_Cycle(records, t) ==
  LET first == Record(records, t.first)
      second == Record(records, t.second)
      apart == second.degree = 0 \/ first.component # second.component
  IN  IF t.kind = "point"
      THEN /\ Record(records, t.center).degree = 0
           /\ first.degree < 2 /\ second.degree < 2
      ELSE first.degree = 1 /\ second.degree < 2 /\ apart

IsHtPathAppendFeasible(records, t) ==
  LET first == Record(records, t.first)
      second == Record(records, t.second)
      apart == second.degree = 0 \/ first.component # second.component
  IN  IF t.kind = "point"
      THEN /\ Record(records, t.center).degree = 0
           /\ first.degree < 2 /\ second.degree < 2
           /\ first.degree = 0 \/ apart
      ELSE first.degree = 1 /\ second.degree < 2 /\ apart

Added(t) ==
  IF t.kind = "point" THEN <<CanonicalEdge(t.first, t.center), CanonicalEdge(t.center, t.second)>>
  ELSE <<CanonicalEdge(t.first, t.second)>>

\* CountHtPathAppendEdgesKernel: a thread per task, [paths, task].
DeviceFeasible(batch) ==
  [i \in 1 .. Len(batch) |-> IsHtPathAppendFeasible(NodeRecords(batch[i].paths), batch[i].task)]
CountHtPathAppendEdgesKernel(batch, feasible) ==
  [i \in 1 .. Len(batch) |->
     IF feasible[i] THEN Len(CanonicalEdges(batch[i].paths)) + Len(Added(batch[i].task)) ELSE 0]

\* The host's prefix sums: slot i is child edges offsets[i] + 1 .. offsets[i + 1].
Offsets(counts) ==
  LET sum[i \in 0 .. Len(counts)] == IF i = 0 THEN 0 ELSE sum[i - 1] + counts[i]
  IN  [i \in 1 .. Len(counts) + 1 |-> sum[i - 1]]

\* WriteHtPathAppendEdgesKernel: every thread fills and sorts its own slot, and
\* reports a slot of the wrong size or an edge written twice.
Slice(item) == SortSeq(CanonicalEdges(item.paths) \o Added(item.task), EdgeLess)
WriteError(batch, feasible, offsets) ==
  \E i \in 1 .. Len(batch) :
    LET size == offsets[i + 1] - offsets[i]
        slice == Slice(batch[i])
    IN  IF ~ feasible[i] THEN size # 0
        ELSE size # Len(slice) \/ \E k \in 1 .. size - 1 : slice[k] = slice[k + 1]

EvaluateHtPathAppendsCuda(batch) ==
  LET feasible == DeviceFeasible(batch)
      offsets == Offsets(CountHtPathAppendEdgesKernel(batch, feasible))
  IN  [feasible |-> feasible, offsets |-> offsets,
       edges |-> FlattenSeq([i \in 1 .. Len(batch) |->
                               IF feasible[i] THEN Slice(batch[i]) ELSE <<>>]),
       error |-> WriteError(batch, feasible, offsets)]

\* What EvaluateHtPathAppends computed before it calls the device.
EvaluateHtPathAppends(batch) ==
  LET children == [i \in 1 .. Len(batch) |-> AppendTo(batch[i].paths, batch[i].task)]
      edges == [i \in 1 .. Len(batch) |-> CanonicalEdges(children[i].paths)]
  IN  [feasible |-> [i \in 1 .. Len(batch) |-> children[i].valid],
       offsets |-> Offsets([i \in 1 .. Len(batch) |-> Len(edges[i])]),
       edges |-> FlattenSeq(edges), error |-> FALSE]

----------------------------------------------------------------------------
Root(u, v) == Normalize(<<(<<u, v>>)>>)

Init ==
  /\ child = Root(0, 1)
  /\ parent = {}
  /\ task = [kind |-> "root", first |-> 0, center |-> -1, second |-> 1]

Evaluate(t) ==
  /\ child.valid
  /\ LegalTask(child.paths, t)
  /\ parent' = child.paths
  /\ task' = t
  /\ child' = AppendTo(child.paths, t)

PointTask(first, center, second) ==
  Evaluate([kind |-> "point", first |-> first, center |-> center, second |-> second])
EndTask(first, second) ==
  Evaluate([kind |-> "end", first |-> first, center |-> -1, second |-> second])

Next ==
  \/ \E first, center, second \in Nodes : PointTask(first, center, second)
  \/ \E first, second \in Nodes : EndTask(first, second)

Spec == Init /\ [][Next]_vars

----------------------------------------------------------------------------
\* The list NormalizePathSystem is given for the same child: the parent's
\* paths and the new one last.
Addition ==
  IF task.kind = "point" THEN <<task.first, task.center, task.second>>
  ELSE <<task.first, task.second>>
RawChild == SetToSeq(parent) \o <<Addition>>

\* The shortcut gives what normalising from nothing gives, down to the reason a
\* child is refused for: EvaluateHtPathAppends trusts it where the verifier
\* normalises the whole list again.
AppendIsNormalize == child = Normalize(RawChild)

\* What a canonical path system is, without the algorithm: the edges asked for
\* form a forest of paths, none is lost, and each path is listed once.
Acyclic(edges) == \A some \in SUBSET edges \ {{}} : \E x \in Nodes : DegreeIn(some, x) = 1
IsLinearForest(edges) == Acyclic(edges) /\ \A x \in Nodes : DegreeIn(edges, x) <= 2

\* A child is refused exactly when its edges are no forest of paths or repeat
\* one, and otherwise its paths are disjoint, canonical and have those edges.
ChildIsExact ==
  LET edges == EdgeUnion(parent) \cup PathEdges(Addition)
      paths == child.paths
  IN  IF PathEdges(Addition) \cap EdgeUnion(parent) # {} \/ ~ IsLinearForest(edges)
      THEN ~ child.valid
      ELSE /\ child.valid
           /\ EdgeUnion(paths) = edges
           /\ \A p \in paths : p[1] < p[Len(p)] /\ Cardinality(PathNodes(p)) = Len(p)
           /\ \A p, q \in paths : p # q => PathNodes(p) \cap PathNodes(q) = {}

\* A batch over two parents with the last task before and after another one.
Batch ==
  LET other == [kind |-> "end", first |-> 1, center |-> -1, second |-> 2]
      last == [paths |-> parent, task |-> task]
  IN  <<last, [paths |-> {<<0, 1>>}, task |-> other], last>>

\* The device, which sees degrees and component numbers only, finds the same
\* tasks feasible, sizes every slot for what is written to it, writes no edge
\* twice, and returns the edges of the canonical children: otherwise
\* EvaluateHtPathAppends throws and the search of a sound proof is lost.
DeviceAppendAgrees ==
  parent # {} => EvaluateHtPathAppendsCuda(Batch) = EvaluateHtPathAppends(Batch)
=============================================================================
