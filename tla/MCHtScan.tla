------------------------------ MODULE MCHtScan ------------------------------
(* HtScan on the wheel with four rim nodes and the hub: all eight edges    *)
(* are eligible.  Slices have up to five targets and up to three workers.  *)
EXTENDS HtScan, TLC

\* 0-1 0-3 0-4 1-2 1-4 2-3 2-4 3-4, in (u, v) order.
WheelU == 0 :> 0 @@ 1 :> 0 @@ 2 :> 0 @@ 3 :> 1 @@ 4 :> 1 @@ 5 :> 2 @@ 6 :> 2 @@ 7 :> 3
WheelV == 0 :> 1 @@ 1 :> 3 @@ 2 :> 4 @@ 3 :> 2 @@ 4 :> 4 @@ 5 :> 3 @@ 6 :> 4 @@ 7 :> 4
Weights == 0 :> 5 @@ 1 :> 2 @@ 2 :> 3 @@ 3 :> 5 @@ 4 :> 3 @@ 5 :> 2 @@ 6 :> 4 @@ 7 :> 4

\* The full wheel, and the wheel without a spoke (six eligible edges).
Graphs == {0 .. 7, (0 .. 7) \ {6}}

\* Up to two targets throw; the proven ones compete at the degree gate.
VerdictTables ==
  {[e \in 0 .. 7 |-> IF e \in bad THEN "throws"
                     ELSE IF e \in good THEN "proven" ELSE "unresolved"] :
     bad \in {{}, {0}, {3}, {7}, {0, 6}, {3, 6}, {2, 7}},
     good \in {{}, {0, 1, 2}, 0 .. 7}}

Options ==
  {[order |-> o, offset |-> k, max |-> m, devices |-> d] :
     o \in {"weight-desc", "canonical"}, k \in {0, 3}, m \in {2, 5},
     d \in {<<>>, <<1>>, <<1, 0>>, <<2, 0, 1>>}}
  \cup {[order |-> "canonical", offset |-> k, max |-> 9, devices |-> d] :
          k \in {8, 9}, d \in {<<>>, <<0, 1>>}}
  \cup {[order |-> "canonical", offset |-> 0, max |-> 1, devices |-> d] :
          d \in {<<0, 1>>, <<1, 1>>, <<0, 3>>}}
=============================================================================
