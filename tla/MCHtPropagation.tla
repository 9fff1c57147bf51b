--------------------------- MODULE MCHtPropagation ---------------------------
(* HtPropagation on every wavefront of up to four states and three moves,    *)
(* and on six larger ones: a deep one, ones whose root has three moves that  *)
(* are decided at the same time, and ones with moves below two of its states. *)
EXTENDS HtPropagation

None == -1

\* owner[m] is the state of move m, above[s - 1] the move that made state s.
Wave(owner, above, leaves) ==
  [state_count |-> Len(above) + 1,
   move_count |-> Len(owner),
   parent_state |-> [m \in 0 .. Len(owner) - 1 |-> owner[m + 1]],
   parent_move |-> [s \in 0 .. Len(above) |-> IF s = 0 THEN None ELSE above[s]],
   leaf_proven |-> [s \in 0 .. Len(above) |-> s \in leaves]]

Tuples(S, n) == [1 .. n -> S]

\* The move arrays are filled state by state, so owner does not decrease.
SmallWaves ==
  {g \in UNION {{Wave(owner, above, leaves) :
                   owner \in {o \in Tuples(0 .. n - 1, k) :
                                \A i, j \in 1 .. k : i < j => o[i] <= o[j]},
                   above \in Tuples(0 .. k - 1, n - 1),
                   leaves \in SUBSET (0 .. n - 1)} :
                  n \in 1 .. 4, k \in 0 .. 3} :
     ValidGraph(g)}

LargeWaves ==
  {Wave(<<0, 1, 2, 3>>, <<0, 1, 2, 3>>, {4}),
   Wave(<<0, 0, 0>>, <<0, 0, 1, 2>>, {1}),
   Wave(<<0, 0, 0>>, <<0, 0, 1, 2>>, {1, 2}),
   Wave(<<0, 0, 0>>, <<0, 0, 1, 2>>, {1, 2, 3, 4}),
   Wave(<<0, 1, 1, 2>>, <<0, 0, 1, 2>>, {4}),
   Wave(<<0, 1, 1, 2>>, <<0, 0, 1, 3>>, {3})}

Waves == SmallWaves \cup LargeWaves
AllDevices ==
  {[cooperative_launch |-> c, resident_blocks |-> b] : c \in BOOLEAN, b \in {0, 1, 2}}
==============================================================================
