--------------------------- MODULE HtScanContract ---------------------------
(***************************************************************************)
(* What one Hamilton-Tutte scan promises its caller: in one step it either *)
(* throws and leaves the graph alone, or reports the verdict of each       *)
(* target of the slice, in target order, and deletes the greedy subset of  *)
(* the proven ones.  It never returns when a target of the slice throws.   *)
(* HtScan implements this specification with threads.                      *)
(***************************************************************************)
EXTENDS Snapshot

CONSTANTS InitialGraphs, EdgeWeight, Verdicts, ScanOptions

VARIABLES graph, verdict, options, outcome, attempts

vars == <<graph, verdict, options, outcome, attempts>>

Below(S, e) == {f \in S : f < e}
IsGreedy(S, wanted, g) ==
  S \subseteq wanted /\ \A e \in wanted : e \in S <=> Deletable(g \ Below(S, e), e)

Init ==
  /\ graph \in InitialGraphs
  /\ verdict \in Verdicts
  /\ options \in ScanOptions
  /\ outcome = "running"
  /\ attempts = [i \in {} |-> "none"]

Targets == InOrder(Eligible(graph, graph), EdgeWeight, options.order)

Return ==
  /\ outcome = "running"
  /\ outcome' = "returned"
  /\ options.offset <= Cardinality(Eligible(graph, graph))
  /\ graph' \in SUBSET graph
  /\ \E slice \in {TargetSlice(Targets, options.offset, options.max)} :
       /\ \A i \in DOMAIN slice : verdict[slice[i]] # "throws"
       /\ attempts' = [i \in DOMAIN slice |-> verdict[slice[i]]]
       /\ LET proven == {slice[i] : i \in {j \in DOMAIN slice : attempts'[j] = "proven"}}
          IN  /\ IsGreedy(graph \ graph', proven, graph)
              /\ proven # {} => graph' # graph
  /\ UNCHANGED <<verdict, options>>

Throw ==
  /\ outcome = "running"
  /\ outcome' = "threw"
  /\ UNCHANGED <<graph, verdict, options, attempts>>

Next == Return \/ Throw

Spec == Init /\ [][Next]_vars
=============================================================================
