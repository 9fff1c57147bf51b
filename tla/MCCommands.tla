------------------------------ MODULE MCCommands ------------------------------
(* Commands on the complete graph on six nodes: verify meets the log of a  *)
(* run with Jonker-Volgenant epochs and one Hamilton-Tutte epoch, and      *)
(* every log that differs from it in one place; the other commands run in  *)
(* pairs on the same output paths, with good and bad sidecars and tours.   *)
EXTENDS Commands, SequencesExt, TLC

Pairs == <<<<0, 1>>, <<0, 2>>, <<0, 3>>, <<0, 4>>, <<0, 5>>, <<1, 2>>, <<1, 3>>, <<1, 4>>,
           <<1, 5>>, <<2, 3>>, <<2, 4>>, <<2, 5>>, <<3, 4>>, <<3, 5>>, <<4, 5>>>>
K6U == [e \in 0 .. 14 |-> Pairs[e + 1][1]]
K6V == [e \in 0 .. 14 |-> Pairs[e + 1][2]]

PointSets ==
  {<< <<4, 8>>, <<2, 9>>, <<9, 6>>, <<1, 9>>, <<4, 5>>, <<4, 7>> >>,
   << <<4, 0>>, <<0, 9>>, <<6, 5>>, <<9, 7>>, <<3, 3>>, <<9, 3>> >>}

Nearest(s) == CHOOSE r \in 0 .. 20 : s <= r * r + r /\ (r > 0 => s > r * r - r)
Square(x) == x * x
DistanceTable(points) ==
  [p \in (0 .. 5) \X (0 .. 5) |->
     Nearest(Square(points[p[1] + 1][1] - points[p[2] + 1][1])
             + Square(points[p[1] + 1][2] - points[p[2] + 1][2]))]
Metrics == {DistanceTable(points) : points \in PointSets}

AllEdges == 0 .. 14
Graphs == {{}}

T == INSTANCE Tours WITH Nodes <- 0 .. 5, Tables <- Metrics

Optimal == T!OptimalTours
Every == T!AllTours

\* Some of the edges that are in no optimal tour are provable.
Useless ==
  [d \in Metrics |->
     LET useful == UNION Optimal[d]
     IN  {e \in AllEdges : e % 3 # 0 /\ Ends(e) \notin useful}]
Provable(d, g, e) == e \in Useless[d]

\* What one epoch deletes, and its records, numbered n; certificates from k.
Below(S, e) == {f \in S : f < e}
Greedy(g, wanted) ==
  CHOOSE S \in SUBSET wanted : \A e \in wanted : e \in S <=> Deletable(g \ Below(S, e), e)
JvEpoch(d, g, n) ==
  LET found == FindJvCandidates(d, g, g)
      taken == Ascending(Greedy(g, EdgesOf(found)))
      witness(e) == (CHOOSE c \in found : c.edge = e).witness
  IN  [i \in DOMAIN taken |->
         [epoch |-> n, snapshot |-> g, edge |-> taken[i], witness |-> witness(taken[i]),
          method |-> 1, certificate |-> -1]]
ScanEpoch(d, g, n) ==
  LET taken == Ascending(Greedy(g, g \cap Useless[d]))
  IN  [i \in DOMAIN taken |->
         [epoch |-> n, snapshot |-> g, edge |-> taken[i], witness |-> -1,
          method |-> 2, certificate |-> i - 1]]

EdgesIn(records) == {records[i].edge : i \in DOMAIN records}
Honest(d) ==
  LET one == JvEpoch(d, AllEdges, 0)
      second == AllEdges \ EdgesIn(one)
      two == ScanEpoch(d, second, 1)
      third == second \ EdgesIn(two)
      three == JvEpoch(d, third, 2)
  IN  [initial |-> AllEdges, final |-> third \ EdgesIn(three),
       proof |-> one \o two \o three,
       certificates |-> [i \in DOMAIN two |-> HtProof(two[i].edge, second, 0, TRUE)],
       metrics |-> <<Len(one), Len(two), Len(three)>>]

\* Logs that differ in one record, in the order or number of records, in a
\* certificate or in a hash.  Final hashes follow the records when they can.
Fit(l) == [l EXCEPT !.final = l.initial \ EdgesIn(l.proof)]
With(l, proof) == [l EXCEPT !.proof = proof]
Swapped(proof, i) == [proof EXCEPT ![i] = proof[i + 1], ![i + 1] = proof[i]]
ChangedRecord(r, l) ==
  {[r EXCEPT !.witness = w] : w \in -1 .. 6}
  \cup {[r EXCEPT !.edge = e] : e \in -1 .. 15}
  \cup {[r EXCEPT !.epoch = n] : n \in 0 .. 4}
  \cup {[r EXCEPT !.snapshot = g] : g \in {l.initial, l.final}}
  \cup {[r EXCEPT !.method = 3 - r.method]}
  \cup {[r EXCEPT !.certificate = c] : c \in -1 .. 2}
Extra(l, e, w) ==
  [epoch |-> Last(l.proof).epoch + 1, snapshot |-> l.final, edge |-> e, witness |-> w,
   method |-> 1, certificate |-> -1]
Tampered(l) ==
  UNION {{With(l, [l.proof EXCEPT ![i] = r]) : r \in ChangedRecord(l.proof[i], l)} :
         i \in DOMAIN l.proof}
  \cup {With(l, RemoveAt(l.proof, i)) : i \in DOMAIN l.proof}
  \cup {With(l, InsertAt(l.proof, i, [l.proof[i] EXCEPT !.edge = e, !.witness = w])) :
          i \in DOMAIN l.proof, e \in AllEdges, w \in 0 .. 5}
  \cup {With(l, Append(l.proof, Extra(l, e, w))) : e \in AllEdges, w \in 0 .. 5}
  \cup {With(l, Swapped(l.proof, i)) : i \in 1 .. Len(l.proof) - 1}
  \cup {[l EXCEPT !.certificates = Reverse(@)], [l EXCEPT !.certificates = Tail(@)]}
  \cup {[l EXCEPT !.final = @ \ {e}] : e \in l.final}

Verify(g) == [kind |-> "verify", input |-> g, tour |-> {}, log |-> NoLog, proofs |-> {}]

\* verify of an honest log l, of what differs from it, and on other edges.
Foreign(d, l) ==
  {[dist |-> d, found |-> f, commands |-> <<Verify(g)>>] :
     f \in UNION {{t, Fit(t)} : t \in {l} \cup Tampered(l)},
     g \in {AllEdges, AllEdges \ {7}}}

\* eliminate and local-eliminate: all of l, or its first epoch.
Log(l, tour) ==
  [kind |-> "log", input |-> AllEdges, tour |-> tour, log |-> l, proofs |-> {}]
FirstOf(l, records) ==
  [l EXCEPT !.proof = records, !.certificates = <<>>, !.metrics = <<Len(records)>>,
            !.final = l.initial \ EdgesIn(records)]
Short(l) == FirstOf(l, SelectSeq(l.proof, LAMBDA r : r.epoch = 0))

\* ht-commit and ht-scan: no proof, rivals for one edge, an edge nobody can
\* prove, proofs for another graph, and all there are.
Epoch(g, tour, proofs) ==
  [kind |-> "epoch", input |-> g, tour |-> tour, log |-> NoLog, proofs |-> proofs]
Proofs(g, edges) == {HtProof(e, g, 0, TRUE) : e \in g \cap edges}
Rivals(g, e) == {HtProof(e, g, n, TRUE) : n \in 0 .. 1}
Fewer == AllEdges \ {7}
Epochs(useless, good, bad) ==
  {Epoch(AllEdges, {}, {}), Epoch(AllEdges, {}, Proofs(Fewer, useless)),
   Epoch(Fewer, {}, Rivals(Fewer, Max(useless)) \cup Proofs(Fewer, useless)),
   Epoch(AllEdges, {}, Rivals(AllEdges, Max(useless)) \cup {HtProof(0, AllEdges, 0, FALSE)})}
  \cup {Epoch(AllEdges, tour, Proofs(AllEdges, useless)) : tour \in {good, bad}}

\* Two commands with a good, a bad or no protected tour, then verify.
Sequences3(d, l, useless, good, bad) ==
  {[dist |-> d, found |-> NoLog, commands |-> <<c, e, Verify(AllEdges)>>] :
     c \in {Log(l, tour) : tour \in {{}, good, bad}} \cup {Log(Short(l), {})}
           \cup Epochs(useless, good, bad),
     e \in {Log(Short(l), {}), Epoch(AllEdges, bad, Proofs(AllEdges, useless)),
            Epoch(AllEdges, {}, Proofs(AllEdges, useless))}}

ScriptsOf(d, useless) ==
  UNION {Foreign(d, l)
         \cup UNION {Sequences3(d, l, useless, good, bad) :
                       good \in {CHOOSE t \in Optimal[d] : TRUE},
                       bad \in {CHOOSE t \in Every : \E e \in useless : Ends(e) \in t}} :
         l \in {Honest(d)}}
AllScripts == UNION {UNION {ScriptsOf(d, u) : u \in {Useless[d]}} : d \in Metrics}

(* Whatever log is accepted, tampered with or not, the graph it leads to   *)
(* has every optimal tour of the graph it started from: replay does not    *)
(* rely on how the log was made (jv_elimination.cpp:525-605).              *)
AcceptedIsSound ==
  \A tour \in Optimal[dist] :
    InGraph(tour, log.initial) /\ replayPc = "returned" => InGraph(tour, graph)

(* An edge file that loads has every optimal tour of the input it was made *)
(* from, and the protected tour of the command that wrote it, whichever    *)
(* command died or lost the end of a file since (main.cpp:1211-1221,       *)
(* 1341-1351: the last gate comes before the first byte of output).        *)
OutputKeepsTours ==
  Loadable(edgesFile) =>
    \A tour \in Optimal[dist] \cup {meant.by.tour} :
      InGraph(tour, meant.by.input) => InGraph(tour, LoadedEdges(edgesFile))
=============================================================================
