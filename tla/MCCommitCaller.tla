---------------------------- MODULE MCCommitCaller --------------------------
(* CommitCaller on the wheel with four rim nodes 0..3 and the hub 4, with  *)
(* the chord 0-2.  Nodes 0, 2 and 4 have degree four and 1 and 3 degree    *)
(* three, so that deletions compete for the degree gate; the initial       *)
(* graphs also include some with a node that is already below degree two.  *)
EXTENDS CommitCaller, TLC

\* 0-1 0-2 0-3 0-4 1-2 1-4 2-3 2-4 3-4, in (u, v) order.
WheelU == 0 :> 0 @@ 1 :> 0 @@ 2 :> 0 @@ 3 :> 0 @@ 4 :> 1 @@ 5 :> 1 @@ 6 :> 2 @@ 7 :> 2 @@ 8 :> 3
WheelV == 0 :> 1 @@ 1 :> 2 @@ 2 :> 3 @@ 3 :> 4 @@ 4 :> 2 @@ 5 :> 4 @@ 6 :> 3 @@ 7 :> 4 @@ 8 :> 4

WheelGraphs == {0 .. 8} \cup {(0 .. 8) \ {e, f} : e \in {0, 3}, f \in {4, 5, 8}}

Jv(e, w) == [edge |-> e, witness |-> w, method |-> 1]
Ht(e) == [edge |-> e, witness |-> -1, method |-> 2]

\* All or nearly all edges, offered once by one method; edges offered twice,
\* with two witnesses or by both methods; and batches the call must refuse.
WheelBatches ==
  {{Jv(e, 0) : e \in S} : S \in {R \in SUBSET (0 .. 8) : Cardinality(R) >= 7}}
    \cup {{Jv(e, 1), Jv(e, 3), Ht(e), Jv(f, 2)} : e \in 0 .. 8, f \in {0, 3, 7, 8}}
    \cup {{Jv(0, 2), [edge |-> 9, witness |-> 1, method |-> 1]},
          {Ht(2), [edge |-> -1, witness |-> 1, method |-> 1]},
          {Ht(5), [edge |-> 1, witness |-> 2, method |-> 0]}}

=============================================================================
