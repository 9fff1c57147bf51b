---------------------------- MODULE MCHtWavefront ----------------------------
(* HtWavefront on the graphs and targets of the recursive prover.            *)
EXTENDS HtWavefront, HtInstances, TLC

\* Everything on the CPU, whole levels at once.
OnCpu == 
  [candidate_backend |-> "cpu", hamilton_reply_backend |-> "cpu", path_append_backend |-> "cpu",
   propagation_backend |-> "cpu", reply_frontier_batch_states |-> 0,
   leaf_frontier_batch_states |-> 0, fuse_leaf_buckets |-> FALSE] @@ Default
OnDevice(backend) ==
  [OnCpu EXCEPT !.candidate_backend = backend, !.hamilton_reply_backend = backend,
                !.path_append_backend = backend, !.propagation_backend = backend]

OptionSets ==
  {[OnDevice("auto") EXCEPT !.reply_frontier_batch_states = 2, !.leaf_frontier_batch_states = 3],
   [OnDevice("cuda") EXCEPT !.max_depth = 1, !.fuse_leaf_buckets = TRUE],
   [OnCpu EXCEPT !.max_total_replies = 9, !.reply_frontier_batch_states = 3],
   [OnCpu EXCEPT !.max_states = 4, !.max_replies_per_move = 6],
   [OnCpu EXCEPT !.max_replies_per_move = 3, !.leaf_frontier_batch_states = 2],
   [OnCpu EXCEPT !.max_depth = 1, !.enable_point_moves = FALSE],
   [OnCpu EXCEPT !.enable_end_moves = FALSE, !.max_neighborhood = 3]}

(* The search that works level by level and in batches decides what a search *)
(* of the same candidates one after the other does: whatever it returns as   *)
(* proven has a proof, without a budget or a backend in its way it finds one *)
(* if there is one, and the verifier never turns its own proof down          *)
(* (hamilton_tutte_wavefront.cpp:1556-1685).                                 *)
WaveDecides ==
  /\ status = "kProven" \/ reason = "unresolved" =>
       (status = "kProven" <=> ProofExists(query, options))
  /\ reason # "own proof"
==============================================================================
