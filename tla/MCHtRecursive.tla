--------------------------- MODULE MCHtRecursive ----------------------------
(* HtRecursive on three sparse graphs of seven points.                     *)
EXTENDS HtRecursive, HtInstances, TLC

OptionSets ==
  {Default, [Default EXCEPT !.max_depth = 0],
   [Default EXCEPT !.max_states = 4, !.max_replies_per_move = 6],
   [Default EXCEPT !.max_total_replies = 9, !.enable_end_moves = FALSE, !.max_neighborhood = 3]}

----------------------------------------------------------------------------
(* A stored proof with one change.                                         *)

MaxChangedNodes == 7

WithNode(p, i, node) == [p EXCEPT ![i] = node]
OtherRecords(p, r) ==
  {[r EXCEPT !.child_index = c] : c \in {kNoHtChild} \cup 0 .. Len(p)}
    \cup {[r EXCEPT !.path_infeasible = ~ @, !.child_index = kNoHtChild]}
NodeChanges(p, node) ==
  {[node EXCEPT !.replies = SubSeq(@, 1, k)] : k \in 0 .. Len(node.replies) - 1}
    \cup UNION {{[node EXCEPT !.replies[k] = r] : r \in OtherRecords(p, node.replies[k])}
                 : k \in DOMAIN node.replies}
    \cup {[node EXCEPT !.leaf = l] : l \in {"none", "records", "junk"}}
    \cup {[node EXCEPT !.move = LeafMove, !.leaf = l, !.replies = <<>>] : l \in {"records", "junk"}}
    \cup {[node EXCEPT !.paths = p[j].paths] : j \in DOMAIN p}
OneChange(p) ==
  IF Len(p) > MaxChangedNodes THEN {}
  ELSE UNION {{WithNode(p, i, node) : node \in NodeChanges(p, p[i])} : i \in DOMAIN p}
         \cup {Append(p, p[Len(p)])}

----------------------------------------------------------------------------
\* As long as no budget ends it, the search finds a proof if and only if
\* there is one among its candidates.
SearchDecides ==
  status \in {"kProven", "kUnresolved"} /\ ~ budget_exhausted =>
    (status = "kProven" <=> ProofExists(query, options))
=============================================================================
