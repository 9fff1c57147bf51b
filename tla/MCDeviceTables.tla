--------------------------- MODULE MCDeviceTables ---------------------------
(* DeviceTables with graphs of the same sizes that differ in one point, in *)
(* the metric or in which edge was deleted, a smaller graph, and graphs of *)
(* every width, in words of 6 bits: the squared diagonal of the box is at  *)
(* most 63 in the ordinary ones, 65, 98, 784 or 2041 in those the test     *)
(* refuses, and over 2047, the largest wide word, in three it accepts.     *)
EXTENDS DeviceTables

OnFive == << <<0, 1>>, <<0, 2>>, <<0, 3>>, <<0, 4>>, <<1, 2>>, <<1, 3>>, <<1, 4>>, <<2, 3>>,
             <<2, 4>>, <<3, 4>> >>
OnFour == << <<0, 1>>, <<0, 2>>, <<0, 3>>, <<1, 2>>, <<1, 3>>, <<2, 3>> >>
Points(p, q, r, s, t) == (0 :> p) @@ (1 :> q) @@ (2 :> r) @@ (3 :> s) @@ (4 :> t)

Base == [type |-> "EUC_2D", points |-> Points(<<0, 0>>, <<6, 5>>, <<1, 2>>, <<5, 1>>, <<3, 4>>),
         edges |-> OnFive, active |-> 1 .. 10]
Moved == [Base EXCEPT !.points[2] = <<4, 4>>]
Ceiled == [Base EXCEPT !.type = "CEIL_2D"]
Without(e) == [Base EXCEPT !.active = @ \ {e}]
Small == [type |-> "EUC_2D", edges |-> OnFour, active |-> 1 .. 6,
          points |-> [n \in 0 .. 3 |-> Base.points[n]]]
\* Node 1 anywhere, with no edge to it, or in a chain of steps of length 7: the
\* edges of these graphs have distances, as those of a file do.
Apart(p) == [Base EXCEPT !.points[1] = p, !.edges = SelectSeq(OnFive, LAMBDA e : 1 \notin {e[1], e[2]}),
                         !.active = 1 .. 6]
Chain == [type |-> "EUC_2D", active |-> 1 .. 4, edges |-> << <<0, 2>>, <<1, 4>>, <<2, 3>>, <<3, 4>> >>,
          points |-> Points(<<0, 0>>, <<28, 0>>, <<7, 0>>, <<14, 0>>, <<21, 0>>)]
\* All edges, with the distances an optimised build computes from what wraps.
Wrapped == [Base EXCEPT !.points[1] = <<62, 0>>]

JvCall(g) == [kind |-> "FindJvCandidatesCuda", graph |-> g, target |-> <<>>, tasks |-> <<>>, k |-> 0]
HamiltonCall(g, centers) ==
  [kind |-> "EvaluateHtHamiltonRepliesCuda", graph |-> g, target |-> g.edges[1], tasks |-> centers, k |-> 0]
EndCall(g, tasks) ==
  [kind |-> "EvaluateHtEndRepliesCuda", graph |-> g, target |-> <<>>, tasks |-> tasks, k |-> 0]
CostCall(g, k, tasks) ==
  [kind |-> "EvaluateKOptTemplateCostsCuda", graph |-> g, target |-> <<>>, tasks |-> tasks, k |-> k]

ThreadCalls ==
  {JvCall(g) : g \in {Base, Moved, Without(3), Small}}
  \cup {HamiltonCall(g, <<2, 3>>) : g \in {Moved, Without(3)}}
  \cup {HamiltonCall(Apart(p), <<3>>) : p \in {<<7, 7>>, <<7, 4>>, <<45, 4>>, <<62, 16>>}}
  \cup {HamiltonCall(Chain, <<3>>)}
  \cup {HamiltonCall(Base, <<4, 2, 3>>), EndCall(Small, << <<0, 2>>, <<2, 3>> >>)}
  \cup {CostCall(g, 3, << <<0, 1, 2, 3, 4, 0>> >>) : g \in {Ceiled, Moved, Wrapped, Apart(<<32, 32>>)}}
  \cup {CostCall(Base, 4, << <<0, 1, 1, 2, 2, 3, 3, 4>>, <<1, 2, 2, 3, 3, 4, 4, 0>> >>)}

\* Some reconnections of three and of four deleted edges.
SomeTemplates ==
  [k \in {3, 4} |->
     IF k = 3 THEN << <<4, 6, 5, 1, 3, 2>>, <<3, 5, 1, 6, 2, 4>>, <<4, 5, 6, 1, 2, 3>> >>
              ELSE << <<4, 6, 8, 1, 7, 2, 5, 3>>, <<5, 6, 7, 8, 1, 2, 3, 4>> >>]
=============================================================================
