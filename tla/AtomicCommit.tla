---------------------------- MODULE AtomicCommit ----------------------------
(***************************************************************************)
(* What one commit promises, without the loop: a caller whose hash is that *)
(* of the present graph deletes, in one step, the greedy subset of its     *)
(* batch.  An edge is in the subset exactly when both its endpoints keep   *)
(* more than two edges after the accepted edges with smaller ids are gone. *)
(* EdgeCommit implements this specification.                               *)
(***************************************************************************)
EXTENDS Integers

CONSTANTS EdgeBatches,      \* the edge sets of the batches a caller may offer
          InitialGraphs,
          Deletable(_, _)   \* the degree gate of a graph, for an edge

VARIABLES active,          \* the graph
          held             \* the hash a caller holds

vars == <<active, held>>

Below(S, e) == {f \in S : f < e}

IsGreedy(S, batch, graph) ==
  /\ S \subseteq batch
  /\ \A e \in batch : e \in S <=> Deletable(graph \ Below(S, e), e)

Init ==
  /\ active \in InitialGraphs
  /\ held = active

Hash ==
  /\ held' = active
  /\ UNCHANGED active

Commit ==
  /\ held = active
  /\ active' \in SUBSET active
  /\ \E batch \in EdgeBatches :
       batch \subseteq active /\ IsGreedy(active \ active', batch, active)
  /\ UNCHANGED held

Next == Hash \/ Commit

Spec == Init /\ [][Next]_vars
=============================================================================
