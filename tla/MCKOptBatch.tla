---------------------------- MODULE MCKOptBatch -----------------------------
(* KOptBatch on seven points.                                              *)
EXTENDS KOptBatch

T == INSTANCE Tours WITH Tables <- {}

Root == {0, 1}

\* Squared distances of points, scaled roots not being needed: what the
\* properties say holds of any distance table.
Distances(p) ==
  [u, v \in Nodes |-> (p[u][1] - p[v][1]) * (p[u][1] - p[v][1])
                        + (p[u][2] - p[v][2]) * (p[u][2] - p[v][2])]

PointTables ==
  {Distances(0 :> <<0, 0>> @@ 1 :> <<4, 4>> @@ 2 :> <<4, 0>> @@ 3 :> <<0, 4>>
              @@ 4 :> <<2, 1>> @@ 5 :> <<2, 3>> @@ 6 :> <<1, 4>>),
   Distances(0 :> <<0, 0>> @@ 1 :> <<5, 1>> @@ 2 :> <<1, 2>> @@ 3 :> <<4, 2>>
              @@ 4 :> <<0, 3>> @@ 5 :> <<5, 4>> @@ 6 :> <<2, 5>>)}

OnePath == {{<<0, 1>>}, {<<2, 0, 1, 3>>}, {<<2, 0, 1, 4, 3>>}, {<<3, 2, 0, 1, 4, 5>>}}
TwoPaths == {{<<0, 1>>, <<2, 4, 3>>}, {<<2, 0, 1, 3>>, <<4, 5>>}, {<<0, 1, 2>>, <<3, 4, 5>>}}
ThreePaths == {{<<0, 1>>, <<2, 3>>, <<4, 5>>}}
PathSystems == OnePath \cup TwoPaths \cup ThreePaths

PerfectMatchings(m) ==
  {f \in [Endpoints(m) -> Endpoints(m)] : IsPerfectEndpointMatching(f, m)}

\* A record may exchange any two edges for any two, or a path system for any
\* rerouting of it, shorter or not and with or without the target, and name any
\* source and any inside matching.  (Three paths: no files, the prover only.)
FileRecords(p) ==
  LET m == Cardinality(p)
      contexts == {o \in OutsideMatchings(m) : HasContext(p, o, Root)}
      reroutings(o) == {WitnessFor(p, o, t) : t \in Reroutings(p, o, AllEdges)}
      pairs == kSubset(2, EdgeUnion(p)) \X kSubset(2, {e \in AllEdges : 6 \notin e})
      exchanges == {<<w.deleted, w.added>> : w \in UNION {reroutings(o) : o \in contexts}}
  IN  IF m > 2 THEN {}
      ELSE {[source |-> o, witness |-> [deleted |-> x[1], added |-> x[2], inside |-> i]] :
              o \in OutsideMatchings(m), x \in pairs \cup exchanges, i \in PerfectMatchings(m)}
RecordTable == [p \in PathSystems |-> FileRecords(p)]
AnyRecord(p) == RecordTable[p]

----------------------------------------------------------------------------
Opts(max_k, budget, batch, backend, cells, blocks) ==
  [max_k |-> max_k, max_deletion_sets |-> budget, cost_batch_size |-> batch,
   cost_backend |-> backend, cuda_min_cost_cells |-> cells, exact_fallback_max_blocks |-> blocks]

\* Blocks of one row, of a part of the sets and of all; budgets that end a search
\* in the middle of a block, at its end, at the end of a size and never; with and
\* without the exact search behind it.
SomeOptions ==
  {Opts(5, budget, batch, backend, 32, IF backend = "auto" THEN 0 ELSE 4) :
     budget \in {0, 2, 6, 7}, batch \in {1, 4, 12}, backend \in {"auto", "cpu", "cuda"}}
    \cup {Opts(5, 6, 4, "auto", 32, 4), Opts(5, 0, 4, "cpu", 32, 0), Opts(2, 0, 4, "cpu", 0, 5),
          Opts(3, 0, 4, "auto", 0, 18), Opts(4, 0, 0, "auto", 0, 0)}

\* Tables on which nothing but one move of four edges, or of five, improves the
\* longest paths, and one on which nothing does.
LongPath == <<3, 2, 0, 1, 4, 5>>
LongestPath == <<6, 2, 0, 1, 4, 5, 3>>
OnlyMove(path, level, cheap) ==
  [u, v \in Nodes |-> IF {u, v} \in cheap THEN 4
                     ELSE IF {u, v} \in level \cup PathEdges(path) THEN 5 ELSE 10]
MoveTables ==
  {OnlyMove(LongPath, {}, {{1, 2}, {1, 5}, {3, 4}, {0, 4}}),
   OnlyMove(LongestPath, {{0, 3}, {1, 2}, {5, 6}}, {{0, 4}, {2, 5}}),
   OnlyMove(LongestPath, {}, {})}

Alone == {<<p>> : p \in PathSystems \cup {{LongestPath}}}
Together ==
  {<<{LongPath}, {LongPath}>>,
   <<{<<2, 0, 1, 4, 3>>}, {LongPath}, {<<2, 0, 1, 4, 3>>}>>,
   <<{<<2, 0, 1, 3>>, <<4, 5>>}, {<<0, 1, 2>>, <<3, 4, 5>>}>>,
   <<{LongestPath}, {LongPath}>>,
   <<{<<0, 1>>, <<2, 3>>, <<4, 5>>}, {LongPath}, {<<0, 1>>}>>}

Call(tables, batches) == {[dist |-> d, systems |-> b] : d \in tables, b \in batches}
AllCalls ==
  Call(PointTables, Alone \cup Together)
    \cup Call(MoveTables, {<<{LongestPath}, {LongPath}>>, <<{LongPath}, {LongestPath}, {LongPath}>>})
AllFiles == Call(PointTables, {<<p>> : p \in PathSystems})

----------------------------------------------------------------------------
Without(p, r) == (EdgeUnion(p) \ r.witness.deleted) \cup r.witness.added

\* Whatever tour contains the path system, one of the witnesses turns that
\* tour into a shorter one.
Refuted(p, records) ==
  \A tour \in T!AllTours :
    EdgeUnion(p) \subseteq tour =>
      \E r \in records :
        LET better == (tour \ EdgeUnion(p)) \cup Without(p, r)
        IN  better \in T!AllTours /\ EdgesLength(dist, better) < EdgesLength(dist, tour)

\* A proof the verifier accepts, and one the prover returns, shows what it
\* claims.
LeafSound ==
  /\ phase = "accepted" => Refuted(systems[1], checked)
  /\ phase = "returned" =>
       \A i \in DOMAIN works :
         works[i].proof.proven => Refuted(systems[i], ToSet(works[i].proof.records))
=============================================================================
