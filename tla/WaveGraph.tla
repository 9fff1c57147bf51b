------------------------------ MODULE WaveGraph ------------------------------
(***************************************************************************)
(* The wavefront as the device sees it (src/cuda/ht_cd.cu): a tree of      *)
(* states, each with moves, each with child states.  A state is proven     *)
(* when it is a proven leaf or when some move of it has only proven        *)
(* children.  Replies that are impossible have no child.                   *)
(*                                                                         *)
(* The second half is about the arrays it is handed over in:               *)
(* FlattenWavefront (src/cpu/hamilton_tutte_wavefront.cpp) writes them,    *)
(* the first half of EvaluateHtWavefrontCuda says which it accepts.        *)
(***************************************************************************)
EXTENDS Integers, SequencesExt

CONSTANT kNoHtChild   \* parent_move of the root, child_index of no child

State(g) == 0 .. g.state_count - 1
Move(g) == 0 .. g.move_count - 1
MovesOf(g, s) == {m \in Move(g) : g.parent_state[m] = s}
ChildrenOf(g, m) == {s \in State(g) : g.parent_move[s] = m}

\* What the validation of the task arrays leaves.  States are numbered level by
\* level, so a child has a larger number than its parent.
ValidGraph(g) ==
  /\ g.state_count \in Nat \ {0}
  /\ g.move_count \in Nat
  /\ g.parent_state \in [Move(g) -> State(g)]
  /\ g.parent_move \in [State(g) -> Move(g) \cup {kNoHtChild}]
  /\ g.leaf_proven \in [State(g) -> BOOLEAN]
  /\ \A s \in State(g) :
       /\ g.parent_move[s] = kNoHtChild <=> s = 0
       /\ s # 0 => g.parent_state[g.parent_move[s]] < s
       /\ g.leaf_proven[s] => MovesOf(g, s) = {}

\* What EvaluateWavefrontCpu computes, as equations: a state is proven when it
\* is a proven leaf or all children of one of its moves are proven.
ProvenBy(g, st, s) ==
  \/ g.leaf_proven[s]
  \/ \E m \in MovesOf(g, s) : \A c \in ChildrenOf(g, m) : st[c] = 1
Solves(g, st) ==
  /\ st \in [State(g) -> {0, 1}]
  /\ \A s \in State(g) : st[s] = 1 <=> ProvenBy(g, st, s)

----------------------------------------------------------------------------
(* The task arrays.  On the host a wavefront is a sequence of states,      *)
(* state i at i + 1, with leaf_proven and moves, each a sequence of        *)
(* replies [path_infeasible, child_index].  An array of the code is a      *)
(* function from 0.                                                        *)

Indices(n) == 0 .. n - 1
FromZero(s) == [i \in Indices(Len(s)) |-> s[i + 1]]

\* All moves with their states, in the order of the states.
OwnedMoves(wave) ==
  FlattenSeq([j \in DOMAIN wave |->
    [k \in DOMAIN wave[j].moves |-> [state |-> j - 1, replies |-> wave[j].moves[k]]]])
RepliesBefore(moves, m) == FlattenSeq([k \in 1 .. m - 1 |-> moves[k].replies])
ToChild(replies, i) ==
  {k \in DOMAIN replies : ~ replies[k].path_infeasible /\ replies[k].child_index = i}

\* What FlattenWavefront throws on: a child that does not exist, is the root
\* or has two parents, and a state without a parent.
UniqueParents(wave) ==
  LET replies == RepliesBefore(OwnedMoves(wave), Len(OwnedMoves(wave)) + 1)
  IN  /\ \A k \in DOMAIN replies :
           replies[k].path_infeasible \/ replies[k].child_index \in 1 .. Len(wave) - 1
      /\ \A i \in 1 .. Len(wave) - 1 : Cardinality(ToChild(replies, i)) = 1

StateTask(wave, moves, i) ==
  [parent_move |-> IF i = 0 THEN kNoHtChild
                   ELSE (CHOOSE m \in DOMAIN moves : ToChild(moves[m].replies, i) # {}) - 1,
   move_begin |-> Cardinality({m \in DOMAIN moves : moves[m].state < i}),
   move_count |-> Len(wave[i + 1].moves),
   leaf_proven |-> wave[i + 1].leaf_proven]

\* Fault: replies that are impossible are counted as children.
MoveTask_AllReplies(moves, m) ==
  [parent_state |-> moves[m].state,
   reply_begin |-> Len(RepliesBefore(moves, m)),
   reply_count |-> Len(moves[m].replies),
   child_count |-> Len(moves[m].replies)]

MoveTask(moves, m) ==
  [parent_state |-> moves[m].state,
   reply_begin |-> Len(RepliesBefore(moves, m)),
   reply_count |-> Len(moves[m].replies),
   child_count |-> Cardinality({k \in DOMAIN moves[m].replies :
                                  ~ moves[m].replies[k].path_infeasible})]

FlattenWavefront(wave) ==
  LET moves == OwnedMoves(wave)
  IN  [states |-> [i \in Indices(Len(wave)) |-> StateTask(wave, moves, i)],
       moves |-> FromZero([m \in DOMAIN moves |-> MoveTask(moves, m)]),
       replies |-> FromZero(RepliesBefore(moves, Len(moves) + 1))]

----------------------------------------------------------------------------
(* The checks before the launch.                                           *)

GoodLevels(offsets, count) ==
  /\ Len(offsets) >= 2 /\ offsets[1] = 0 /\ offsets[Len(offsets)] = count
  /\ \A l \in 1 .. Len(offsets) - 1 : offsets[l] < offsets[l + 1]

\* The first state of the level after that of state i.
NextLevelBegin(offsets, i) ==
  offsets[CHOOSE l \in 2 .. Len(offsets) : offsets[l - 1] <= i /\ i < offsets[l]]

MovesBefore(t, i) ==
  Cardinality({m \in DOMAIN t.moves : \E j \in Indices(i) :
                 t.states[j].move_begin <= m /\ m < t.states[j].move_begin + t.states[j].move_count})
RepliesOf(t, m) ==
  {k \in DOMAIN t.replies : t.moves[m].reply_begin <= k
                              /\ k < t.moves[m].reply_begin + t.moves[m].reply_count}
ChildReplies(t, m) == {k \in RepliesOf(t, m) : ~ t.replies[k].path_infeasible}

GoodStateTask(t, i) ==
  LET s == t.states[i]
  IN  /\ IF i = 0 THEN s.parent_move = kNoHtChild ELSE s.parent_move \in DOMAIN t.moves
      /\ s.move_begin = MovesBefore(t, i)
      /\ s.move_begin + s.move_count <= Cardinality(DOMAIN t.moves)
      /\ s.leaf_proven => s.move_count = 0
      /\ \A m \in s.move_begin .. s.move_begin + s.move_count - 1 : t.moves[m].parent_state = i

GoodMoveTask(t, offsets, m) ==
  /\ t.moves[m].reply_begin =
       IF m = 0 THEN 0 ELSE t.moves[m - 1].reply_begin + t.moves[m - 1].reply_count
  /\ t.moves[m].reply_begin + t.moves[m].reply_count <= Cardinality(DOMAIN t.replies)
  /\ \A k \in RepliesOf(t, m) :
       LET r == t.replies[k]
       IN  IF r.path_infeasible THEN r.child_index = kNoHtChild
           ELSE /\ r.child_index >= NextLevelBegin(offsets, t.moves[m].parent_state)
                /\ r.child_index \in DOMAIN t.states
                /\ t.states[r.child_index].parent_move = m
  /\ t.moves[m].child_count = Cardinality(ChildReplies(t, m))

\* Every array is used up and every state but the root is the child of one reply.
NothingLeftOver(t) ==
  /\ MovesBefore(t, Cardinality(DOMAIN t.states)) = Cardinality(DOMAIN t.moves)
  /\ UNION {RepliesOf(t, m) : m \in DOMAIN t.moves} = DOMAIN t.replies
  /\ \A i \in DOMAIN t.states \ {0} :
       Cardinality({k \in DOMAIN t.replies :
                      ~ t.replies[k].path_infeasible /\ t.replies[k].child_index = i}) = 1

AcceptsTasks(t, offsets) ==
  /\ GoodLevels(offsets, Cardinality(DOMAIN t.states))
  /\ \A i \in DOMAIN t.states : GoodStateTask(t, i)
  /\ \A m \in DOMAIN t.moves : GoodMoveTask(t, offsets, m)
  /\ NothingLeftOver(t)

----------------------------------------------------------------------------
\* What the kernels read of the arrays.
GraphOf(t) ==
  [state_count |-> Cardinality(DOMAIN t.states),
   move_count |-> Cardinality(DOMAIN t.moves),
   parent_state |-> [m \in DOMAIN t.moves |-> t.moves[m].parent_state],
   parent_move |-> [i \in DOMAIN t.states |-> t.states[i].parent_move],
   leaf_proven |-> [i \in DOMAIN t.states |-> t.states[i].leaf_proven]]
==============================================================================
