------------------------ MODULE HtPropagation_proofs ------------------------
(***************************************************************************)
(* The propagation kernels decide every wavefront as the host does, for    *)
(* every wavefront that passed the validation, every number of blocks and  *)
(* threads and every order of the atomic operations: the status of a state *)
(* never runs ahead of its reasons, the queue neither overflows nor        *)
(* stalls, and a kernel that ends has given every state its status.        *)
(***************************************************************************)
EXTENDS HtPropagation, FiniteSetTheorems, WellFoundedInduction, TLAPS

-----------------------------------------------------------------------------
(* The inductive invariant.                                                *)

\* Where a thread is: before its subtraction from the parent move, after the
\* one that was the last, about to decide the move, about to enter the queue.
Before == {"take", "sub"}
Deciding == {"read", "win", "lose"}
Adding == {"append", "write"}
After == Deciding \cup {"fall"} \cup Adding
Between == \A t \in Threads : pc[t] \in {"loop", "select", "exited"}
InBatch == \A t \in Threads : pc[t] \in Before \cup After \cup {"wait"}

\* The entries of the batch that fall to a thread.
IsOf(i, t) == i >= batch_begin /\ (i - batch_begin) % thread_count = t

\* An entry whose subtraction is made: in an earlier batch or in this one.
PassedBy(i, t) ==
  /\ IsOf(i, t)
  /\ i < queue_index[t] \/ (i = queue_index[t] /\ pc[t] \in After)
Passed(i) == i < batch_begin \/ (InBatch /\ \E t \in Threads : PassedBy(i, t))

\* What entry i of the queue holds, or will when its slot is filled.
Writers(i) == {t \in Threads : pc[t] = "write" /\ slot[t] = i}
Content(i) ==
  IF Writers(i) = {} THEN completed_queue[i] ELSE ParentState(CHOOSE t \in Writers(i) : TRUE)
Entries == 0 .. queue_tail - 1

(* The threads are between two batches, or all in one; a batch was opened  *)
(* when its end was the tail; each thread strides through its own entries. *)
PhaseInv ==
  /\ Between \/ InBatch
  /\ result = "running" => thread_count > 0
  /\ result = "prepare" => thread_count = 0 /\ ~ stop
  /\ cooperative /\ Between => stop
  /\ \A t \in Threads : pc[t] = "exited" => stop
  /\ InBatch /\ thread_count > 0 => ~ stop
  /\ batch_begin <= batch_end /\ batch_end <= queue_tail
  /\ thread_count = 0 => batch_end = 0
  /\ InBatch => \A t \in Threads :
       /\ IsOf(queue_index[t], t)
       /\ pc[t] \in Before \cup After <=> queue_index[t] < batch_end
       /\ pc[t] \in {"sub"} \cup After => Taken(t) # 0

(* Every state with a status is in the queue once, or a thread is about to *)
(* put it there; no other state is.                                        *)
QueueInv ==
  /\ queue_tail <= graph.state_count
  /\ \A t \in Threads : pc[t] = "write" => slot[t] \in batch_end .. queue_tail - 1
  /\ \A t, u \in Threads : pc[t] = "write" /\ pc[u] = "write" /\ slot[t] = slot[u] => t = u
  /\ \A i, j \in Entries : Content(i) = Content(j) => i = j
  /\ \A i \in Entries : Content(i) \in States /\ status[Content(i)] # -1
  /\ \A t \in Threads : pc[t] = "append" =>
       /\ status[ParentState(t)] # -1
       /\ \A i \in Entries : Content(i) # ParentState(t)
  /\ \A t, u \in Threads :
       pc[t] = "append" /\ pc[u] = "append" /\ ParentState(t) = ParentState(u) => t = u
  /\ \A s \in States : status[s] # -1 =>
       \/ \E i \in Entries : Content(i) = s
       \/ \E t \in Threads : pc[t] = "append" /\ ParentState(t) = s

(* The counters are what has not been subtracted.                          *)
CountInv ==
  /\ \A m \in Moves :
       remaining_children[m] = Cardinality(ChildrenOf(graph, m) \ counted)
  /\ \A s \in States : remaining_moves[s] = Cardinality(MovesOf(graph, s) \ lost)

(* Exactly the entries that were passed are counted, but for the root.     *)
PassedInv ==
  /\ 0 \notin counted
  /\ \A s \in counted : \E i \in 0 .. batch_end - 1 : completed_queue[i] = s /\ Passed(i)
  /\ \A i \in 0 .. batch_end - 1 :
       Passed(i) => completed_queue[i] = 0 \/ completed_queue[i] \in counted

(* What is known of a move: it is marked failed when a child is, before    *)
(* that child is counted; it is decided by one thread, after all children. *)
MoveInv ==
  /\ \A m \in Moves : move_failed[m] = 1 =>
       \E c \in ChildrenOf(graph, m) : status[c] = 0
  /\ \A t \in Threads : pc[t] = "sub" /\ status[Taken(t)] = 0 => move_failed[ParentMove(t)] = 1
  /\ \A c \in counted : status[c] = 0 => move_failed[graph.parent_move[c]] = 1
  /\ \A t \in Threads : pc[t] \in After => ChildrenOf(graph, ParentMove(t)) \subseteq counted
  /\ \A t \in Threads : pc[t] = "win" => move_failed[ParentMove(t)] = 0
  /\ \A t \in Threads : pc[t] = "lose" => move_failed[ParentMove(t)] = 1
  /\ \A t, u \in Threads :
       pc[t] \in Deciding /\ pc[u] \in Deciding /\ ParentMove(t) = ParentMove(u) => t = u
  /\ \A t \in Threads : pc[t] \in Deciding => ParentMove(t) \notin lost
  /\ \A t \in Threads : pc[t] = "fall" => MovesOf(graph, ParentState(t)) \subseteq lost
  /\ \A m \in lost : ChildrenOf(graph, m) \subseteq counted /\ move_failed[m] = 1

(* A move whose children are counted is being decided or was, and a state  *)
(* whose moves are lost is being marked or was.                            *)
DecidedInv ==
  /\ \A s \in States : HostStatus(graph, s) # -1 => status[s] = HostStatus(graph, s)
  /\ \A m \in Moves : ChildrenOf(graph, m) # {} /\ ChildrenOf(graph, m) \subseteq counted =>
       \/ m \in lost
       \/ status[graph.parent_state[m]] # -1
       \/ \E t \in Threads : pc[t] \in Deciding /\ ParentMove(t) = m
  /\ \A s \in States : MovesOf(graph, s) # {} /\ MovesOf(graph, s) \subseteq lost =>
       \/ status[s] # -1
       \/ \E t \in Threads : pc[t] = "fall" /\ ParentState(t) = s

EndInv ==
  /\ error_code = 0
  /\ stop => \A s \in States : status[s] # -1
  /\ result \notin {"prepare", "running", "refused"} => result = "returned" /\ stop

Justified ==
  /\ \A s \in States : status[s] = 1 => ProvenBy(graph, status, s)
  /\ \A s \in States : status[s] = 0 =>
       /\ ~ graph.leaf_proven[s]
       /\ \A m \in MovesOf(graph, s) : \E c \in ChildrenOf(graph, m) : status[c] = 0

IInv ==
  /\ TypeOK /\ PhaseInv /\ QueueInv /\ CountInv /\ PassedInv
  /\ MoveInv /\ DecidedInv /\ Justified /\ EndInv

-----------------------------------------------------------------------------
(* Arithmetic of the strides, and greatest elements.                         *)

(* A remainder and a multiple are unique.                                  *)
LEMMA UniqueRemainder ==
  ASSUME NEW n \in Nat \ {0}, NEW t \in 0 .. n - 1, NEW u \in 0 .. n - 1,
         NEW k \in Int, NEW l \in Int, (n * k) + t = (n * l) + u
  PROVE  t = u /\ k = l
<1>1. k >= l + 1 => n * k >= (n * l) + n
  OBVIOUS
<1>2. l >= k + 1 => n * l >= (n * k) + n
  OBVIOUS
<1>3. n * k \in Int /\ n * l \in Int
  OBVIOUS
<1> DEFINE x == n * k
           y == n * l
<1>4. x \in Int /\ y \in Int /\ x + t = y + u
  BY <1>3
<1>5. k >= l + 1 => x >= y + n
  BY <1>1
<1>6. l >= k + 1 => y >= x + n
  BY <1>2
<1> HIDE DEF x, y
<1>7. k = l
  BY <1>4, <1>5, <1>6
<1>8. k = l => x = y
  BY DEF x, y
<1> QED
  BY <1>4, <1>7, <1>8

\* Division with remainder.
LEMMA Division ==
  ASSUME NEW n \in Nat \ {0}, NEW a \in Nat
  PROVE  /\ a \div n \in Nat
         /\ a % n \in 0 .. n - 1
         /\ a = (n * (a \div n)) + (a % n)
OBVIOUS

\* A stride keeps the remainder.
LEMMA RemainderStep ==
  ASSUME NEW n \in Nat \ {0}, NEW a \in Nat
  PROVE  (a + n) % n = a % n
<1> DEFINE q == a \div n
           p == (a + n) \div n
<1>1. /\ q \in Nat /\ a % n \in 0 .. n - 1
      /\ a = (n * q) + (a % n)
  BY Division
<1>2. /\ p \in Nat /\ (a + n) % n \in 0 .. n - 1
      /\ a + n = (n * p) + ((a + n) % n)
  <2>1. a + n \in Nat
    OBVIOUS
  <2> QED
    BY <2>1, Division
<1>3. n * (q + 1) = (n * q) + n
  BY <1>1
<1>4. (n * (q + 1)) + (a % n) = (n * p) + ((a + n) % n)
  <2> HIDE DEF q, p
  <2>1. n * q \in Int /\ n * p \in Int
    BY <1>1, <1>2
  <2> QED
  BY <1>1, <1>2, <1>3, <2>1
<1> DEFINE r == a % n
           s == (a + n) % n
           k == q + 1
<1>5. /\ k \in Int /\ p \in Int
      /\ r \in 0 .. n - 1 /\ s \in 0 .. n - 1
      /\ (n * k) + r = (n * p) + s
  BY <1>1, <1>2, <1>4
<1> HIDE DEF q, p, r, s, k
<1>6. r = s
  BY <1>5, UniqueRemainder
<1> QED
  BY <1>6 DEF r, s

\* Numbers with the same remainder are a stride apart.
LEMMA RemainderGap ==
  ASSUME NEW n \in Nat \ {0}, NEW a \in Nat, NEW b \in Nat, a < b, a % n = b % n
  PROVE  b >= a + n
<1> DEFINE q == a \div n
           p == b \div n
<1>1. /\ q \in Nat /\ a % n \in 0 .. n - 1
      /\ a = (n * q) + (a % n)
  BY Division
<1>2. /\ p \in Nat /\ b % n \in 0 .. n - 1
      /\ b = (n * p) + (b % n)
  BY Division
<1> HIDE DEF q, p
<1>3. p >= q + 1 => n * p >= (n * q) + n
  BY <1>1, <1>2
<1>4. q >= p => n * q >= n * p
  BY <1>1, <1>2
<1>5. n * q \in Int /\ n * p \in Int
  BY <1>1, <1>2
<1> QED
  BY <1>1, <1>2, <1>3, <1>4, <1>5

\* A number below n is its own remainder.
LEMMA SmallRemainder ==
  ASSUME NEW n \in Nat \ {0}, NEW t \in 0 .. n - 1
  PROVE  t % n = t
<1> DEFINE q == t \div n
<1>1. /\ q \in Nat /\ t % n \in 0 .. n - 1
      /\ t = (n * q) + (t % n)
  <2>1. t \in Nat
    OBVIOUS
  <2> QED
    BY <2>1, Division
<1> DEFINE r == t % n
<1>2. r \in 0 .. n - 1 /\ q \in Int /\ (n * q) + r = (n * 0) + t
  BY <1>1
<1> HIDE DEF q, r
<1>3. r = t
  BY <1>2, UniqueRemainder
<1> QED
  BY <1>3 DEF r

\* A finite set of numbers has a greatest element.
LEMMA GreatestElement ==
  ASSUME NEW S \in SUBSET Int, IsFiniteSet(S), S # {}
  PROVE  \E x \in S : \A y \in S : y <= x
<1> DEFINE from(x) == {z \in S : x <= z}
           T == {from(x) : x \in S}
<1>1. T # {} /\ T \subseteq FiniteSubsetsOf(S)
  <2>1. \A x \in S : from(x) \in FiniteSubsetsOf(S)
    <3>1. FiniteSubsetsOf(S) = SUBSET S
      BY FS_FiniteSubsetsOfFinite
    <3> QED
      BY <3>1
  <2>2. T # {}
    OBVIOUS
  <2>3. T \subseteq FiniteSubsetsOf(S)
    BY <2>1
  <2> QED
    BY <2>2, <2>3
<1>2. \E t \in T : \A u \in T : ~ (<<u, t>> \in StrictSubsetOrdering(S))
  <2> HIDE DEF T
  <2> QED
    BY <1>1, FS_StrictSubsetOrderingWellFounded, WFMin
<1>3. PICK x \in S : \A y \in S : ~ (<<from(y), from(x)>> \in StrictSubsetOrdering(S))
  BY <1>2
<1>4. ASSUME NEW y \in S, x < y
      PROVE  FALSE
  <2>1. x \in Int /\ y \in Int
    OBVIOUS
  <2>2. ASSUME NEW z \in from(y)
        PROVE  z \in from(x)
    <3>1. z \in Int
      OBVIOUS
    <3> QED
      BY <2>1, <3>1, <1>4
  <2>3. x \in from(x) /\ x \notin from(y)
    BY <2>1, <1>4
  <2>4. from(y) \subseteq from(x) /\ from(y) # from(x)
    BY <2>2, <2>3
  <2> QED
    BY <1>3, <2>4 DEF StrictSubsetOrdering
<1>5. \A y \in S : y <= x
  <2> TAKE y \in S
  <2>1. x \in Int /\ y \in Int
    OBVIOUS
  <2> QED
    BY <1>4, <2>1
<1> QED
  BY <1>5

-----------------------------------------------------------------------------
(* What the invariant says of the graph, of a busy thread and of an entry.   *)

\* The tree of states and moves.
LEMMA Shape ==
  ASSUME TypeOK
  PROVE  /\ graph.state_count \in Nat \ {0} /\ graph.move_count \in Nat
         /\ States = 0 .. graph.state_count - 1 /\ Moves = 0 .. graph.move_count - 1
         /\ IsFiniteSet(States) /\ IsFiniteSet(Moves)
         /\ kNoHtChild \notin Moves
         /\ \A m \in Moves : graph.parent_state[m] \in States
         /\ \A s \in States :
              /\ graph.parent_move[s] \in Moves \cup {kNoHtChild}
              /\ graph.parent_move[s] = kNoHtChild <=> s = 0
              /\ s # 0 => graph.parent_state[graph.parent_move[s]] < s
              /\ graph.leaf_proven[s] \in BOOLEAN
              /\ graph.leaf_proven[s] => MovesOf(graph, s) = {}
<1>1. ValidGraph(graph) /\ kNoHtChild \notin Nat
  BY HtPropagationAssumption DEF TypeOK
<1>2. graph.state_count \in Nat \ {0} /\ graph.move_count \in Nat
  BY <1>1 DEF ValidGraph
<1>3. IsFiniteSet(States) /\ IsFiniteSet(Moves)
  <2>1. graph.state_count - 1 \in Int /\ graph.move_count - 1 \in Int /\ 0 \in Int
    BY <1>2
  <2> QED
    BY <2>1, FS_Interval DEF States, Moves, State, Move
<1>4. kNoHtChild \notin Moves
  BY <1>1, <1>2 DEF Moves, Move
<1> QED
  BY <1>1, <1>2, <1>3, <1>4 DEF ValidGraph, States, Moves, State, Move

\* A valid wavefront is finite.
LEMMA FiniteMoves ==
  ASSUME ValidGraph(graph), NEW m, NEW s
  PROVE  /\ Cardinality(ChildrenOf(graph, m)) \in Nat
         /\ Cardinality(MovesOf(graph, s)) \in Nat
<1>1. IsFiniteSet(State(graph)) /\ IsFiniteSet(Move(graph))
  <2>1. graph.state_count - 1 \in Int /\ graph.move_count - 1 \in Int /\ 0 \in Int
    BY DEF ValidGraph
  <2> QED
    BY <2>1, FS_Interval DEF State, Move
<1>2. ChildrenOf(graph, m) \subseteq State(graph) /\ MovesOf(graph, s) \subseteq Move(graph)
  BY DEF ChildrenOf, MovesOf
<1> QED
  BY <1>1, <1>2, FS_Subset, FS_CardinalityType

\* Sets of children and of moves are finite, with what was taken from them.
LEMMA FiniteParts ==
  ASSUME TypeOK, NEW m, NEW s, NEW X
  PROVE  /\ IsFiniteSet(ChildrenOf(graph, m) \ X)
         /\ IsFiniteSet(MovesOf(graph, s) \ X)
<1>1. ChildrenOf(graph, m) \ X \subseteq States /\ MovesOf(graph, s) \ X \subseteq Moves
  BY DEF ChildrenOf, MovesOf, States, Moves
<1> QED
  BY <1>1, Shape, FS_Subset

\* The slots of a batch are filled: they hold what the queue does.
LEMMA BatchIsFilled ==
  ASSUME TypeOK, PhaseInv, QueueInv, NEW i \in 0 .. batch_end - 1
  PROVE  /\ i \in Entries
         /\ Content(i) = completed_queue[i]
         /\ completed_queue[i] \in States
         /\ status[completed_queue[i]] \in {0, 1}
<1>1. i \in Entries
  BY DEF TypeOK, PhaseInv, Entries
<1>2. Writers(i) = {}
  BY DEF QueueInv, Writers, TypeOK
<1>3. Content(i) = completed_queue[i]
  BY <1>2 DEF Content
<1>4. completed_queue[i] \in States /\ status[completed_queue[i]] # -1
  BY <1>1, <1>3 DEF QueueInv
<1> QED
  BY <1>1, <1>3, <1>4 DEF TypeOK

\* A thread that works on an entry.
LEMMA BusyThread ==
  ASSUME TypeOK, PhaseInv, QueueInv, NEW t \in Threads, pc[t] \in Before \cup After
  PROVE  /\ InBatch /\ ~ Between /\ ~ stop
         /\ thread_count \in Nat \ {0} /\ t \in Nat
         /\ queue_index[t] \in 0 .. batch_end - 1
         /\ IsOf(queue_index[t], t)
         /\ Taken(t) \in States /\ status[Taken(t)] \in {0, 1}
         /\ Content(queue_index[t]) = Taken(t)
<1>1. ~ Between
  BY DEF Between, Before, After, Deciding, Adding
<1>2. InBatch
  BY <1>1 DEF PhaseInv
<1>3. thread_count \in Nat \ {0} /\ t \in Nat
  BY DEF TypeOK, Threads
<1>4. ~ stop
  BY <1>2, <1>3 DEF PhaseInv
<1>5. queue_index[t] \in 0 .. batch_end - 1 /\ IsOf(queue_index[t], t)
  BY <1>2 DEF PhaseInv, TypeOK
<1> QED
  BY <1>1, <1>2, <1>3, <1>4, <1>5, BatchIsFilled DEF Taken

\* The parent move and parent state of a state that is not the root.
LEMMA EntryParents ==
  ASSUME TypeOK, PhaseInv, QueueInv, NEW t \in Threads, pc[t] \in Before \cup After,
         Taken(t) # 0
  PROVE  /\ ParentMove(t) \in Moves /\ ParentState(t) \in States
         /\ Taken(t) \in ChildrenOf(graph, ParentMove(t))
         /\ ParentMove(t) \in MovesOf(graph, ParentState(t))
<1>1. Taken(t) \in States
  BY BusyThread
<1>2. ParentMove(t) \in Moves
  BY <1>1, Shape DEF ParentMove
<1> QED
  BY <1>1, <1>2, Shape DEF ParentMove, ParentState, ChildrenOf, MovesOf, States, Moves

\* Past its first operation a thread is not at the root.
LEMMA BusyParents ==
  ASSUME TypeOK, PhaseInv, QueueInv, NEW t \in Threads, pc[t] \in {"sub"} \cup After
  PROVE  /\ Taken(t) # 0
         /\ ParentMove(t) \in Moves /\ ParentState(t) \in States
         /\ Taken(t) \in ChildrenOf(graph, ParentMove(t))
         /\ ParentMove(t) \in MovesOf(graph, ParentState(t))
<1>1. pc[t] \in Before \cup After
  BY DEF Before
<1>2. Taken(t) # 0
  BY <1>1, BusyThread DEF PhaseInv
<1> QED
  BY <1>1, <1>2, EntryParents

\* An entry is of one thread.
LEMMA OneOwner ==
  ASSUME NEW i, NEW t, NEW u, IsOf(i, t), IsOf(i, u)
  PROVE  t = u
BY DEF IsOf

\* What a thread has not subtracted is not counted.
LEMMA NotYetCounted ==
  ASSUME TypeOK, PhaseInv, QueueInv, PassedInv, NEW t \in Threads, pc[t] \in Before
  PROVE  Taken(t) \notin counted
<1> SUFFICES ASSUME Taken(t) \in counted PROVE FALSE
  OBVIOUS
<1>1. PICK i \in 0 .. batch_end - 1 : completed_queue[i] = Taken(t) /\ Passed(i)
  BY DEF PassedInv
<1>2. Content(i) = Content(queue_index[t]) /\ i \in Entries /\ queue_index[t] \in Entries
  BY <1>1, BusyThread, BatchIsFilled
<1>3. i = queue_index[t]
  BY <1>2 DEF QueueInv
<1>4. IsOf(i, t)
  BY <1>3, BusyThread
<1>5. i >= batch_begin
  BY <1>4 DEF IsOf
<1>6. PICK u \in Threads : PassedBy(i, u)
  BY <1>1, <1>5 DEF Passed, TypeOK
<1>7. u = t
  BY <1>4, <1>6, OneOwner DEF PassedBy
<1>8. queue_index[t] \in Nat
  BY DEF TypeOK
<1> QED
  BY <1>3, <1>6, <1>7, <1>8 DEF PassedBy, Before, After, Deciding, Adding

-----------------------------------------------------------------------------
(* A batch that is empty ends the search: by the largest state without a     *)
(* status, all of whose children are counted.                                *)

LEMMA DrainedIsComplete ==
  ASSUME TypeOK, PhaseInv, QueueInv, DecidedInv,
         \A t \in Threads : pc[t] \notin Before \cup After,
         \A i \in Entries : completed_queue[i] = 0 \/ completed_queue[i] \in counted
  PROVE  /\ \A s \in States : status[s] # -1
         /\ queue_tail = graph.state_count
<1>1. \A i \in Entries : Content(i) = completed_queue[i]
  BY DEF Content, Writers, Before, After, Adding
<1>2. \A s \in States : status[s] # -1 => \E i \in Entries : completed_queue[i] = s
  BY <1>1 DEF QueueInv, Before, After, Adding
<1>3. \A s \in States : status[s] # -1
  <2> DEFINE open == {s \in States : status[s] = -1}
  <2> SUFFICES ASSUME open # {} PROVE FALSE
    OBVIOUS
  <2>1. IsFiniteSet(open) /\ open \in SUBSET Int
    <3>1. States \in SUBSET Int
      BY Shape
    <3> QED
      BY <3>1, Shape, FS_Subset
  <2>2. PICK s \in open : \A r \in open : r <= s
    <3> HIDE DEF open
    <3> QED
      BY <2>1, GreatestElement
  <2>3. HostStatus(graph, s) = -1
    BY <2>2 DEF DecidedInv
  <2>4. MovesOf(graph, s) # {} /\ \A m \in MovesOf(graph, s) : ChildrenOf(graph, m) # {}
    BY <2>3 DEF HostStatus, HasVacuousMove
  <2>5. ASSUME NEW m \in MovesOf(graph, s), NEW c \in ChildrenOf(graph, m)
        PROVE  c \in counted
    <3>1. /\ m \in Moves /\ graph.parent_state[m] = s
          /\ c \in States /\ graph.parent_move[c] = m
      BY <2>5 DEF MovesOf, ChildrenOf, States, Moves
    <3>2. c # 0 /\ s < c
      BY <3>1, Shape
    <3>3. c \notin open
      <4>1. c \in Int /\ s \in Int
        BY <3>1, <2>2, Shape
      <4> QED
        BY <2>2, <3>2, <4>1
    <3>4. PICK i \in Entries : completed_queue[i] = c
      BY <1>2, <3>1, <3>3
    <3> QED
      BY <3>2, <3>4
  <2>6. \A m \in MovesOf(graph, s) : m \in lost
    <3> TAKE m \in MovesOf(graph, s)
    <3>1. m \in Moves /\ graph.parent_state[m] = s
      BY DEF MovesOf, Moves
    <3>2. ChildrenOf(graph, m) # {} /\ ChildrenOf(graph, m) \subseteq counted
      BY <2>4, <2>5
    <3> QED
      BY <2>2, <3>1, <3>2 DEF DecidedInv, After
  <2> QED
    BY <2>2, <2>4, <2>6 DEF DecidedInv, After
<1>4. queue_tail >= graph.state_count
  <2> DEFINE f == [i \in Entries |-> Content(i)]
  <2>1. f \in Surjection(Entries, States)
    <3>1. f \in [Entries -> States]
      BY DEF QueueInv
    <3>2. \A s \in States : \E i \in Entries : f[i] = s
      BY <1>1, <1>2, <1>3
    <3> HIDE DEF f
    <3> QED
      BY <3>1, <3>2 DEF Surjection
  <2>2. IsFiniteSet(Entries) /\ Cardinality(Entries) = queue_tail
    <3>1. queue_tail \in Nat /\ queue_tail - 1 \in Int /\ 0 \in Int
      BY DEF TypeOK
    <3> QED
      BY <3>1, FS_Interval DEF Entries
  <2>3. Cardinality(States) = graph.state_count
    <3>1. graph.state_count \in Nat \ {0} /\ graph.state_count - 1 \in Int /\ 0 \in Int
      BY Shape
    <3>2. Cardinality(0 .. graph.state_count - 1) = graph.state_count
      BY <3>1, FS_Interval
    <3> QED
      BY <3>2, Shape
  <2> HIDE DEF f
  <2>4. Cardinality(States) <= Cardinality(Entries)
    BY <2>1, <2>2, FS_Surjection
  <2> QED
    BY <2>2, <2>3, <2>4
<1> QED
  BY <1>3, <1>4, Shape DEF QueueInv, TypeOK

\* Entries passed between batches, and at the end of one.
LEMMA PassedBetween ==
  ASSUME TypeOK, Between, NEW i \in Int
  PROVE  Passed(i) <=> i < batch_begin
BY DEF Between, InBatch, Before, After, Deciding, Adding, Passed

LEMMA PassedAtEnd ==
  ASSUME TypeOK, PhaseInv, InBatch, thread_count > 0, \A t \in Threads : pc[t] = "wait",
         NEW i \in 0 .. batch_end - 1
  PROVE  Passed(i)
<1>1. CASE i < batch_begin
  BY <1>1 DEF Passed
<1>2. CASE i >= batch_begin
  <2> DEFINE t == (i - batch_begin) % thread_count
  <2>1. i - batch_begin \in Nat /\ thread_count \in Nat \ {0} /\ i \in Nat
    BY <1>2 DEF TypeOK
  <2>2. t \in Threads
    BY <2>1, Division DEF Threads
  <2>3. IsOf(i, t)
    BY <1>2 DEF IsOf
  <2>4. queue_index[t] >= batch_end /\ queue_index[t] \in Nat /\ batch_end \in Nat
    <3> HIDE DEF t
    <3>1. queue_index[t] \in Nat /\ batch_end \in Nat
      BY <2>2 DEF TypeOK
    <3>2. ~ (queue_index[t] < batch_end)
      BY <2>2 DEF PhaseInv, Before, After, Deciding, Adding
    <3> QED
      BY <3>1, <3>2
  <2> HIDE DEF t
  <2> QED
    BY <2>1, <2>2, <2>3, <2>4 DEF Passed, PassedBy
<1> QED
  BY <1>1, <1>2 DEF TypeOK

-----------------------------------------------------------------------------
(* The steps of all threads together, and of a thread between two batches.   *)

\* At the start of a batch a thread is at the first of its entries.
LEMMA FreshStride ==
  ASSUME NEW n \in Nat \ {0}, NEW t \in 0 .. n - 1, NEW b \in Nat, NEW i \in Nat
  PROVE  i >= b /\ (i - b) % n = t => i >= b + t
<1>1. ASSUME i >= b, (i - b) % n = t
      PROVE  i >= b + t
  <2> DEFINE d == i - b
             q == d \div n
  <2>1. d \in Nat
    BY <1>1
  <2>2. /\ q \in Nat
        /\ d = (n * q) + (d % n)
    <3> HIDE DEF d
    <3> QED
      BY <2>1, Division
  <2>3. n * q \in Nat
    <3> HIDE DEF q
    <3> QED
      BY <2>2
  <2> HIDE DEF q
  <2>4. d >= t
    <3>1. d % n = t
      BY <1>1
    <3> HIDE DEF d
    <3> QED
      BY <3>1, <2>1, <2>2, <2>3
  <2> QED
    BY <2>4
<1> QED
  BY <1>1

\* When every thread of the next state is at its first entry, the entries that
\* are passed are those of the earlier batches.
LEMMA FreshBatch ==
  ASSUME NEW n \in Nat, NEW begin \in Nat, NEW i \in Nat,
         thread_count' = n, batch_begin' = begin,
         \A t \in Threads' : queue_index'[t] = begin + t /\ pc'[t] \in {"take", "wait"}
  PROVE  Passed(i)' <=> i < begin
<1>1. Threads' = 0 .. n - 1
  BY DEF Threads
<1>2. ASSUME NEW t \in 0 .. n - 1, PassedBy(i, t)'
      PROVE  FALSE
  <2>1. n \in Nat \ {0}
    OBVIOUS
  <2>2. i >= begin /\ (i - begin) % n = t
    BY <1>2 DEF PassedBy, IsOf
  <2>3. i >= begin + t
    BY <2>1, <2>2, FreshStride
  <2>4. i < begin + t
    BY <1>1, <1>2 DEF PassedBy, After, Deciding, Adding
  <2> QED
    BY <2>3, <2>4
<1> QED
  BY <1>1, <1>2 DEF Passed

\* A step between two batches disturbs nothing that is known of the queue, of
\* the moves and of the states.
LEMMA QuietStep ==
  ASSUME TypeOK, PhaseInv, QueueInv, CountInv, PassedInv, MoveInv, DecidedInv, Justified,
         UNCHANGED <<callVars, counterVars, completed_queue, queue_tail, historyVars>>,
         \A t \in Threads : pc[t] \notin Before \cup After,
         \A t \in Threads' : pc'[t] \notin {"sub"} \cup After,
         NEW begin \in Nat, NEW end \in Nat, batch_begin' = begin, batch_end' = end,
         begin <= batch_end, begin <= end, end <= queue_tail,
         \A i \in 0 .. batch_end - 1 : Passed(i) <=> i < begin,
         \A i \in 0 .. end - 1 : Passed(i)' <=> i < begin
  PROVE  (QueueInv /\ CountInv /\ PassedInv /\ MoveInv /\ DecidedInv /\ Justified)'
<1>1. /\ UNCHANGED <<graph, status, remaining_moves, remaining_children, move_failed,
                     completed_queue, queue_tail, counted, lost>>
      /\ States' = States /\ Moves' = Moves /\ Entries' = Entries
  BY DEF callVars, counterVars, historyVars, States, Moves, Entries
<1>2. \A i \in Entries : Content(i) = completed_queue[i] /\ Content(i)' = completed_queue[i]
  BY <1>1 DEF Content, Writers, Before, After, Adding
<1>3. QueueInv'
  <2>1. \A t \in Threads' : pc'[t] # "write" /\ pc'[t] # "append"
    BY DEF After, Adding
  <2>2. \A s \in States : status[s] # -1 => \E i \in Entries : Content(i) = s
    BY DEF QueueInv, Before, After, Adding
  <2> QED
    BY <1>1, <1>2, <2>1, <2>2 DEF QueueInv
<1>4. CountInv'
  BY <1>1 DEF CountInv
<1>5. PassedInv'
  <2>1. ASSUME NEW s \in counted
        PROVE  \E i \in 0 .. end - 1 : completed_queue[i] = s /\ Passed(i)'
    <3>1. PICK i \in 0 .. batch_end - 1 : completed_queue[i] = s /\ Passed(i)
      BY <2>1 DEF PassedInv
    <3>2. i < begin
      BY <3>1
    <3>3. i \in 0 .. end - 1
      BY <3>1, <3>2 DEF TypeOK
    <3> QED
      BY <3>1, <3>2, <3>3
  <2>2. ASSUME NEW i \in 0 .. end - 1, Passed(i)'
        PROVE  completed_queue[i] = 0 \/ completed_queue[i] \in counted
    <3>1. i < begin
      BY <2>2
    <3>2. i \in 0 .. batch_end - 1
      BY <3>1 DEF TypeOK
    <3> QED
      BY <3>1, <3>2 DEF PassedInv
  <2> QED
    BY <1>1, <2>1, <2>2 DEF PassedInv
<1>6. MoveInv'
  BY <1>1 DEF MoveInv, After, Deciding
<1>7. DecidedInv'
  BY <1>1 DEF DecidedInv, Before, After, Deciding
<1>8. Justified'
  BY <1>1 DEF Justified, ProvenBy
<1> QED
  BY <1>3, <1>4, <1>5, <1>6, <1>7, <1>8

\* What a batch that is opened finds.
LEMMA OpenedBatch ==
  ASSUME TypeOK, PhaseInv, QueueInv, PassedInv, DecidedInv, EndInv,
         NEW begin \in Nat, SelectBatch(begin), begin <= batch_end,
         \A t \in Threads : pc[t] \notin Before \cup After,
         \A i \in 0 .. batch_end - 1 : Passed(i) <=> i < begin
  PROVE  /\ batch_begin' = begin /\ batch_end' = queue_tail /\ error_code' = 0
         /\ stop' \in BOOLEAN /\ (stop' <=> begin = queue_tail)
         /\ stop' => \A s \in States : status[s] # -1
         /\ queue_tail # 0
<1>1. ASSUME begin = queue_tail
      PROVE  /\ \A s \in States : status[s] # -1
             /\ queue_tail = graph.state_count
  <2>1. batch_end = queue_tail
    BY <1>1 DEF PhaseInv, TypeOK
  <2>2. \A i \in Entries : completed_queue[i] = 0 \/ completed_queue[i] \in counted
    <3> TAKE i \in Entries
    <3>1. i \in 0 .. batch_end - 1 /\ i < begin
      BY <1>1, <2>1 DEF Entries, TypeOK
    <3> QED
      BY <3>1 DEF PassedInv
  <2> QED
    BY <2>2, DrainedIsComplete
<1>2. graph.state_count \in Nat \ {0} /\ queue_tail \in Nat
  BY Shape DEF TypeOK
<1>3. ~ (queue_tail > graph.state_count)
  BY <1>2 DEF QueueInv
<1>4. queue_tail # 0
  <2> SUFFICES ASSUME queue_tail = 0 PROVE FALSE
    OBVIOUS
  <2>1. begin = queue_tail
    BY DEF PhaseInv, TypeOK
  <2> QED
    BY <1>1, <1>2, <2>1
<1> QED
  BY <1>1, <1>3, <1>4 DEF SelectBatch, EndInv

\* The launch has a number of blocks.
LEMMA BlocksTyped ==
  ASSUME TypeOK
  PROVE  Blocks \in Nat
<1>1. graph.state_count - 1 \in Nat /\ ThreadsPerBlock \in Nat \ {0}
  BY Shape, HtPropagationAssumption
<1>2. (graph.state_count - 1) \div ThreadsPerBlock \in Nat
  BY <1>1, Division
<1>3. UsefulBlocks \in Nat
  BY <1>2 DEF UsefulBlocks
<1> QED
  BY <1>3, HtPropagationAssumption DEF Blocks, TypeOK

\* A step that at most ends the call keeps the invariant.
LEMMA OnlyTheResult ==
  ASSUME IInv,
         UNCHANGED <<callVars, launchVars, counterVars, queueVars, batchVars, threadVars,
                     historyVars>>,
         \/ result' = result
         \/ result' = "refused"
         \/ result' = "returned" /\ stop
  PROVE  IInv'
<1> USE DEF IInv
<1>1. /\ UNCHANGED <<graph, request, device, cooperative, thread_count, status,
                     remaining_moves, remaining_children, move_failed, completed_queue,
                     queue_tail, error_code, batch_begin, batch_end, stop, pc, queue_index,
                     slot, counted, lost>>
      /\ Threads' = Threads /\ States' = States /\ Moves' = Moves
  BY DEF callVars, launchVars, counterVars, queueVars, batchVars, threadVars,
       historyVars, Threads, States, Moves
<1>2. TypeOK'
  BY <1>1 DEF TypeOK
<1>3. PhaseInv' /\ EndInv'
  BY <1>1 DEF PhaseInv, EndInv, Between, InBatch, IsOf, Taken
<1>4. QueueInv' /\ CountInv' /\ PassedInv'
  <2>1. Entries' = Entries /\ \A i : Content(i)' = Content(i) /\ (Passed(i)' <=> Passed(i))
    BY <1>1 DEF Entries, Content, Writers, ParentState, ParentMove, Taken, Passed, PassedBy,
         InBatch, IsOf
  <2>2. QueueInv'
    <3>1. \A t \in Threads : ParentState(t)' = ParentState(t)
      BY <1>1 DEF ParentState, ParentMove, Taken
    <3>2. /\ queue_tail' <= graph'.state_count
          /\ (\A t \in Threads : pc[t] = "write" => slot[t] \in batch_end .. queue_tail - 1)'
          /\ (\A t, u \in Threads :
                pc[t] = "write" /\ pc[u] = "write" /\ slot[t] = slot[u] => t = u)'
      BY <1>1 DEF QueueInv
    <3>3. /\ (\A i, j \in Entries : Content(i) = Content(j) => i = j)'
          /\ (\A i \in Entries : Content(i) \in States /\ status[Content(i)] # -1)'
      BY <1>1, <2>1 DEF QueueInv
    <3>4. (\A t \in Threads : pc[t] = "append" =>
             /\ status[ParentState(t)] # -1
             /\ \A i \in Entries : Content(i) # ParentState(t))'
      BY <1>1, <2>1, <3>1 DEF QueueInv
    <3>5. (\A t, u \in Threads :
             pc[t] = "append" /\ pc[u] = "append" /\ ParentState(t) = ParentState(u) => t = u)'
      BY <1>1, <3>1 DEF QueueInv
    <3>6. (\A s \in States : status[s] # -1 =>
             \/ \E i \in Entries : Content(i) = s
             \/ \E t \in Threads : pc[t] = "append" /\ ParentState(t) = s)'
      BY <1>1, <2>1, <3>1 DEF QueueInv
    <3> QED
      BY <3>2, <3>3, <3>4, <3>5, <3>6 DEF QueueInv
  <2> QED
    BY <1>1, <2>1, <2>2 DEF CountInv, PassedInv
<1>5. MoveInv' /\ DecidedInv' /\ Justified'
  <2>1. MoveInv'
    BY <1>1 DEF MoveInv, ParentState, ParentMove, Taken
  <2>2. DecidedInv'
    BY <1>1 DEF DecidedInv, ParentState, ParentMove, Taken
  <2>3. Justified'
    BY <1>1 DEF Justified, ProvenBy
  <2> QED
    BY <2>1, <2>2, <2>3
<1> QED
  BY <1>2, <1>3, <1>4, <1>5

\* A step by which all threads enter a batch, or leave the kernel when it has
\* stopped, keeps the invariant.
LEMMA AllEnter ==
  ASSUME IInv, NEW n \in Nat \ {0}, NEW begin \in Nat, NEW end \in Nat,
         UNCHANGED <<callVars, counterVars, completed_queue, queue_tail, historyVars>>,
         result' = "running", cooperative' \in BOOLEAN, thread_count' = n,
         batch_begin' = begin, batch_end' = end,
         begin <= batch_end, begin <= end, end <= queue_tail,
         error_code' = 0, stop' \in BOOLEAN,
         stop' => \A s \in States : status[s] # -1,
         \A t \in Threads : pc[t] \notin Before \cup After,
         \A i \in 0 .. batch_end - 1 : Passed(i) <=> i < begin,
         slot' \in [Threads' -> Nat],
         queue_index' = [t \in Threads' |-> begin + t],
         pc' = [t \in Threads' |-> IF stop' THEN "exited" ELSE EnterBatch(t, begin, end)]
  PROVE  IInv'
<1> USE DEF IInv
<1>1. Threads' = 0 .. n - 1 /\ 0 \in Threads'
  BY DEF Threads
<1>2. /\ UNCHANGED <<graph, request, device, status, remaining_moves, remaining_children,
                     move_failed, completed_queue, queue_tail, counted, lost>>
      /\ States' = States /\ Moves' = Moves
  BY DEF callVars, counterVars, historyVars, States, Moves
<1>3. TypeOK'
  <2>1. queue_index' \in [Threads' -> Nat]
    BY <1>1
  <2>2. pc' \in [Threads' -> {"take", "wait", "exited"}]
    BY DEF EnterBatch
  <2> QED
    BY <1>2, <2>1, <2>2 DEF TypeOK
<1>4. EndInv'
  BY <1>2 DEF EndInv
<1>5. \A t \in Threads' : pc'[t] \notin {"sub"} \cup After
  BY DEF EnterBatch, After, Deciding, Adding
<1>6. CASE stop'
  <2>1. Between' /\ ~ InBatch'
    BY <1>1, <1>6 DEF Between, InBatch, Before, After, Deciding, Adding
  <2>2. PhaseInv'
    BY <1>6, <2>1 DEF PhaseInv
  <2>3. \A i \in 0 .. end - 1 : Passed(i)' <=> i < begin
    BY <2>1 DEF Passed
  <2> QED
    BY <1>3, <1>4, <1>5, <2>2, <2>3, QuietStep
<1>7. CASE ~ stop'
  <2>1. \A t \in Threads' : /\ queue_index'[t] = begin + t
                            /\ IsOf(queue_index[t], t)'
                            /\ pc'[t] = EnterBatch(t, begin, end)
                            /\ pc'[t] \in {"take", "wait"}
    <3> TAKE t \in Threads'
    <3>1. t \in 0 .. n - 1
      BY <1>1
    <3>2. queue_index'[t] = begin + t
      OBVIOUS
    <3>3. ((begin + t) - begin) % n = t /\ begin + t >= begin
      <4>1. (begin + t) - begin = t /\ begin + t >= begin
        BY <3>1
      <4> QED
        BY <3>1, <4>1, SmallRemainder
    <3> QED
      BY <1>7, <3>2, <3>3 DEF IsOf, EnterBatch
  <2>2. InBatch' /\ ~ Between'
    BY <1>1, <2>1 DEF InBatch, Between, Before
  <2>3. \A t \in Threads' : pc'[t] \in Before \cup After <=> queue_index'[t] < batch_end'
    BY <2>1 DEF EnterBatch, Before, After, Deciding, Adding
  <2>4. PhaseInv'
    BY <1>5, <1>7, <2>1, <2>2, <2>3 DEF PhaseInv
  <2>5. \A i \in 0 .. end - 1 : Passed(i)' <=> i < begin
    <3> TAKE i \in 0 .. end - 1
    <3>1. i \in Nat /\ \A t \in Threads' : /\ queue_index'[t] = begin + t
                                           /\ pc'[t] \in {"take", "wait"}
      BY <2>1
    <3> QED
      BY <3>1, FreshBatch
  <2> QED
    BY <1>3, <1>4, <1>5, <2>4, <2>5, QuietStep
<1> QED
  BY <1>6, <1>7

\* A step after which all threads of the persistent kernel are at the head of
\* its loop keeps the invariant.
LEMMA AllLoop ==
  ASSUME IInv, NEW n \in Nat \ {0}, NEW begin \in Nat, NEW end \in Nat,
         UNCHANGED <<callVars, counterVars, completed_queue, queue_tail, historyVars>>,
         result' = "running", cooperative' \in BOOLEAN, ~ cooperative', thread_count' = n,
         batch_begin' = begin, batch_end' = end,
         begin <= batch_end, begin <= end, end <= queue_tail,
         error_code' = 0, stop' = FALSE,
         \A t \in Threads : pc[t] \notin Before \cup After,
         \A i \in 0 .. batch_end - 1 : Passed(i) <=> i < begin,
         slot' \in [Threads' -> Nat], queue_index' \in [Threads' -> Nat],
         pc' = [t \in Threads' |-> "loop"]
  PROVE  IInv'
<1> USE DEF IInv
<1>1. Threads' = 0 .. n - 1 /\ 0 \in Threads'
  BY DEF Threads
<1>2. /\ UNCHANGED <<graph, request, device, status, remaining_moves, remaining_children,
                     move_failed, completed_queue, queue_tail, counted, lost>>
      /\ States' = States /\ Moves' = Moves
  BY DEF callVars, counterVars, historyVars, States, Moves
<1>3. TypeOK'
  BY <1>2 DEF TypeOK
<1>4. EndInv'
  BY <1>2 DEF EndInv
<1>5. \A t \in Threads' : pc'[t] \notin {"sub"} \cup After
  BY DEF After, Deciding, Adding
<1>6. Between' /\ ~ InBatch'
  BY <1>1 DEF Between, InBatch, Before, After, Deciding, Adding
<1>7. PhaseInv'
  BY <1>6 DEF PhaseInv
<1>8. \A i \in 0 .. end - 1 : Passed(i)' <=> i < begin
  BY <1>6 DEF Passed
<1> QED
  BY <1>3, <1>4, <1>5, <1>7, <1>8, QuietStep

\* The launch keeps the invariant.
LEMMA LaunchStep ==
  ASSUME IInv, Launch
  PROVE  IInv'
<1> USE DEF IInv
<1>1. CASE Blocks = 0
  <2>1. /\ UNCHANGED <<callVars, launchVars, counterVars, queueVars, batchVars, threadVars,
                       historyVars>>
        /\ result' = "refused"
    BY <1>1 DEF Launch, queueVars
  <2> QED
    BY <2>1, OnlyTheResult
<1>2. CASE Blocks # 0
  <2> DEFINE n == Blocks * ThreadsPerBlock
  <2>1. /\ thread_count = 0 /\ ~ stop /\ Threads = {}
        /\ batch_end = 0 /\ batch_begin = 0
    BY DEF Launch, PhaseInv, TypeOK, Threads
  <2>2. n \in Nat \ {0}
    <3>1. Blocks \in Nat \ {0} /\ ThreadsPerBlock \in Nat \ {0}
      BY <1>2, BlocksTyped, HtPropagationAssumption
    <3> QED
      BY <3>1
  <2>3. /\ UNCHANGED <<callVars, counterVars, completed_queue, queue_tail, historyVars>>
        /\ result' = "running" /\ cooperative' = (Blocks > 1) /\ thread_count' = n
        /\ queue_index' = [t \in Threads' |-> t]
        /\ slot' = [t \in Threads' |-> 0]
    BY <1>2 DEF Launch
  <2> HIDE DEF n
  <2>4. Threads' = 0 .. n - 1
    BY <2>3 DEF Threads
  <2>5. queue_index' = [t \in Threads' |-> 0 + t] /\ queue_index' \in [Threads' -> Nat]
    BY <2>2, <2>3, <2>4
  <2>6. slot' \in [Threads' -> Nat] /\ cooperative' \in BOOLEAN
    BY <2>3
  <2>7. /\ \A i \in 0 .. batch_end - 1 : Passed(i) <=> i < 0
        /\ \A t \in Threads : pc[t] \notin Before \cup After
        /\ 0 \in Nat /\ queue_tail \in Nat /\ 0 <= batch_end /\ 0 <= queue_tail
    BY <2>1 DEF TypeOK
  <2>8. CASE Blocks > 1
    <3>1. SelectBatch(0) /\ pc' = [t \in Threads' |-> IF stop' THEN "exited"
                                                  ELSE EnterBatch(t, 0, queue_tail)]
      BY <1>2, <2>8 DEF Launch
    <3>2. /\ batch_begin' = 0 /\ batch_end' = queue_tail /\ error_code' = 0
          /\ stop' \in BOOLEAN
          /\ stop' => \A s \in States : status[s] # -1
      BY <2>7, <3>1, OpenedBatch
    <3>3. queue_tail <= queue_tail
      BY <2>7
    <3> QED
      BY <2>2, <2>3, <2>5, <2>6, <2>7, <3>1, <3>2, <3>3, AllEnter
  <2>9. CASE ~ (Blocks > 1)
    <3>1. pc' = [t \in Threads' |-> "loop"] /\ UNCHANGED <<batchVars, error_code>>
      BY <1>2, <2>9 DEF Launch
    <3>2. /\ batch_begin' = 0 /\ batch_end' = 0 /\ stop' = FALSE /\ error_code' = 0
      BY <2>1, <3>1 DEF batchVars, TypeOK, EndInv
    <3>3. ~ cooperative'
      BY <2>3, <2>9
    <3>4. 0 <= 0
      OBVIOUS
    <3> QED
      BY <2>2, <2>3, <2>5, <2>6, <2>7, <3>1, <3>2, <3>3, <3>4, AllLoop
  <2> QED
    BY <2>8, <2>9
<1> QED
  BY <1>1, <1>2

\* A thread that reads the stop flag, and opens the batch if it is thread 0,
\* keeps the invariant.
LEMMA LoopStep ==
  ASSUME IInv, NEW t \in Threads, Loop(t)
  PROVE  IInv'
<1> USE DEF IInv
<1>1. /\ pc[t] = "loop" /\ t \in Nat /\ thread_count > 0
      /\ UNCHANGED <<callVars, result, launchVars, counterVars, completed_queue, queue_tail,
                     queue_index, slot, historyVars>>
  BY DEF Loop, At, Threads, TypeOK
<1>2. /\ UNCHANGED <<graph, request, device, result, cooperative, thread_count, status,
                     remaining_moves, remaining_children, move_failed, completed_queue,
                     queue_tail, queue_index, slot, counted, lost>>
      /\ Threads' = Threads /\ States' = States /\ Moves' = Moves
  BY <1>1 DEF callVars, launchVars, counterVars, historyVars, Threads, States, Moves
<1>3. Between /\ ~ InBatch
  BY <1>1 DEF PhaseInv, InBatch, Before, After, Deciding, Adding
<1>4. \A i \in 0 .. batch_end - 1 : Passed(i) <=> i < batch_begin
  BY <1>3, PassedBetween
<1>5. \A u \in Threads : pc[u] \notin Before \cup After
  BY <1>3 DEF Between, Before, After, Deciding, Adding
<1>6. pc' = [pc EXCEPT ![t] = IF stop THEN "exited" ELSE "select"]
  BY DEF Loop, GoTo
<1>7. /\ batch_begin' = batch_begin /\ error_code' = 0 /\ stop' \in BOOLEAN
      /\ batch_end' \in Nat /\ batch_begin <= batch_end' /\ batch_end' <= queue_tail
      /\ stop => stop'
      /\ stop' => \A s \in States : status[s] # -1
  <2>1. CASE UNCHANGED <<batchVars, error_code>>
    BY <2>1 DEF batchVars, TypeOK, PhaseInv, EndInv
  <2>2. CASE SelectBatch(batch_begin) /\ ~ stop
    <3>1. batch_begin \in Nat /\ batch_begin <= batch_end /\ batch_begin <= queue_tail
      BY DEF TypeOK, PhaseInv
    <3>2. /\ batch_begin' = batch_begin /\ batch_end' = queue_tail /\ error_code' = 0
          /\ stop' \in BOOLEAN /\ (stop' => \A s \in States : status[s] # -1)
      BY <1>4, <1>5, <2>2, <3>1, OpenedBatch
    <3> QED
      BY <2>2, <3>1, <3>2 DEF TypeOK
  <2> QED
    BY <2>1, <2>2 DEF Loop
<1>8. TypeOK'
  <2>1. pc' \in [Threads -> {"loop", "select", "take", "sub", "read", "win", "lose", "fall",
                             "append", "write", "wait", "exited"}]
    BY <1>6 DEF TypeOK
  <2> QED
    BY <1>2, <1>7, <2>1 DEF TypeOK
<1>9. PhaseInv'
  <2>1. Between'
    BY <1>2, <1>3, <1>6 DEF Between, TypeOK
  <2>2. ~ InBatch'
    BY <1>2, <1>6 DEF InBatch, TypeOK, Before, After, Deciding, Adding
  <2>3. \A u \in Threads : pc'[u] = "exited" => stop'
    BY <1>6, <1>7 DEF PhaseInv, TypeOK
  <2>4. cooperative => stop'
    BY <1>3, <1>7 DEF PhaseInv
  <2>5. result' = "prepare" => FALSE
    BY <1>1, <1>2 DEF PhaseInv, TypeOK
  <2> QED
    BY <1>1, <1>2, <1>7, <2>1, <2>2, <2>3, <2>4, <2>5 DEF PhaseInv
<1>10. EndInv'
  BY <1>2, <1>7 DEF EndInv
<1>11. (QueueInv /\ CountInv /\ PassedInv /\ MoveInv /\ DecidedInv /\ Justified)'
  <2>1. \A u \in Threads' : pc'[u] \notin {"sub"} \cup After
    BY <1>2, <1>5, <1>6 DEF Before, After, Deciding, Adding, TypeOK
  <2>2. \A i \in 0 .. batch_end' - 1 : Passed(i)' <=> i < batch_begin
    <3>1. ~ InBatch'
      BY <1>2, <1>6 DEF InBatch, TypeOK, Before, After, Deciding, Adding
    <3> QED
      BY <1>7, <3>1 DEF Passed
  <2>3. batch_begin \in Nat /\ batch_begin <= batch_end
    BY DEF TypeOK, PhaseInv
  <2>4. PICK end \in Nat : end = batch_end'
    BY <1>7
  <2>5. \A i \in 0 .. end - 1 : Passed(i)' <=> i < batch_begin
    BY <2>2, <2>4
  <2>6. batch_begin <= end /\ end <= queue_tail
    BY <1>7, <2>4
  <2>7. UNCHANGED <<callVars, counterVars, completed_queue, queue_tail, historyVars>>
    BY <1>1
  <2> QED
    BY <1>4, <1>5, <1>7, <2>1, <2>3, <2>4, <2>5, <2>6, <2>7, QuietStep
<1> QED
  BY <1>8, <1>9, <1>10, <1>11

\* The barrier after thread 0 opened the batch keeps the invariant.
LEMMA LeaveSelectStep ==
  ASSUME IInv, LeaveSelect
  PROVE  IInv'
<1> USE DEF IInv
<1>1. PICK t0 \in Threads : pc[t0] = "select"
  BY DEF LeaveSelect, AllAt
<1>2. thread_count \in Nat \ {0}
  BY <1>1 DEF TypeOK, Threads
<1>3. /\ UNCHANGED <<callVars, counterVars, completed_queue, queue_tail, historyVars>>
      /\ result' = "running" /\ cooperative' = cooperative /\ thread_count' = thread_count
      /\ error_code' = 0 /\ batch_begin' = batch_begin /\ batch_end' = batch_end
      /\ stop' = stop /\ slot' = slot /\ Threads' = Threads
      /\ queue_index' = [t \in Threads |-> batch_begin + t]
  BY DEF LeaveSelect, queueVars, batchVars, launchVars, EndInv, Threads
<1>4. Between
  BY <1>1 DEF PhaseInv, InBatch, Before, After, Deciding, Adding
<1>5. \A i \in 0 .. batch_end - 1 : Passed(i) <=> i < batch_begin
  BY <1>4, PassedBetween
<1>6. \A u \in Threads : pc[u] \notin Before \cup After
  BY <1>4 DEF Between, Before, After, Deciding, Adding
<1>7. pc' = [t \in Threads |-> IF stop THEN "exited"
                               ELSE EnterBatch(t, batch_begin, batch_end)]
  <2>1. \A t \in Threads : pc[t] = "exited" => stop
    BY DEF PhaseInv
  <2> QED
    BY <2>1 DEF LeaveSelect
<1>8. /\ batch_begin \in Nat /\ batch_end \in Nat /\ cooperative \in BOOLEAN
      /\ stop \in BOOLEAN /\ slot \in [Threads -> Nat]
      /\ batch_begin <= batch_end /\ batch_end <= queue_tail
      /\ stop => \A s \in States : status[s] # -1
  BY DEF TypeOK, PhaseInv, EndInv
<1> QED
  BY <1>2, <1>3, <1>5, <1>6, <1>7, <1>8, AllEnter

\* The barriers at the end of a batch keep the invariant.
LEMMA LeaveBatchStep ==
  ASSUME IInv, LeaveBatch
  PROVE  IInv'
<1> USE DEF IInv
<1>1. PICK t0 \in Threads : pc[t0] = "wait"
  BY DEF LeaveBatch, AllAt
<1>2. thread_count \in Nat \ {0} /\ InBatch /\ ~ stop
  <2>1. thread_count \in Nat \ {0}
    BY <1>1 DEF TypeOK, Threads
  <2>2. ~ Between
    BY <1>1 DEF Between
  <2> QED
    BY <2>1, <2>2 DEF PhaseInv
<1>3. /\ UNCHANGED <<callVars, counterVars, completed_queue, queue_tail, historyVars>>
      /\ result' = "running" /\ cooperative' = cooperative /\ thread_count' = thread_count
      /\ slot' = slot /\ Threads' = Threads
  BY DEF LeaveBatch, launchVars, Threads
<1>4. \A t \in Threads : pc[t] = "wait"
  BY <1>2 DEF LeaveBatch, AllAt, PhaseInv
<1>5. \A i \in 0 .. batch_end - 1 : Passed(i) <=> i < batch_end
  <2> TAKE i \in 0 .. batch_end - 1
  <2>1. i < batch_end
    BY DEF TypeOK
  <2>2. thread_count > 0
    BY <1>2
  <2> QED
    BY <1>2, <1>4, <2>1, <2>2, PassedAtEnd
<1>6. \A u \in Threads : pc[u] \notin Before \cup After
  BY <1>4 DEF Before, After, Deciding, Adding
<1>7. /\ batch_end \in Nat /\ queue_tail \in Nat /\ cooperative \in BOOLEAN
      /\ slot \in [Threads -> Nat] /\ queue_index \in [Threads -> Nat]
      /\ batch_end <= queue_tail /\ batch_end <= batch_end /\ queue_tail <= queue_tail
  BY DEF TypeOK, PhaseInv
<1>8. CASE cooperative
  <2>1. SelectBatch(batch_end)
    BY <1>8 DEF LeaveBatch
  <2>2. /\ batch_begin' = batch_end /\ batch_end' = queue_tail /\ error_code' = 0
        /\ stop' \in BOOLEAN
        /\ stop' => \A s \in States : status[s] # -1
    BY <1>5, <1>6, <1>7, <2>1, OpenedBatch
  <2>3. pc' = [t \in Threads |-> IF stop' THEN "exited"
                                 ELSE EnterBatch(t, batch_end, queue_tail)]
    BY <1>4, <1>8 DEF LeaveBatch
  <2>4. queue_index' = [t \in Threads |-> batch_end + t]
    BY <1>8 DEF LeaveBatch
  <2> QED
    BY <1>2, <1>3, <1>5, <1>6, <1>7, <2>2, <2>3, <2>4, AllEnter
<1>9. CASE ~ cooperative
  <2>1. /\ batch_begin' = batch_end /\ batch_end' = batch_end /\ error_code' = 0
        /\ stop' = FALSE /\ queue_index' = queue_index
    BY <1>2, <1>9 DEF LeaveBatch, EndInv, TypeOK
  <2>2. pc' = [t \in Threads |-> "loop"]
    BY <1>4, <1>9 DEF LeaveBatch
  <2> QED
    BY <1>2, <1>3, <1>5, <1>6, <1>7, <1>9, <2>1, <2>2, AllLoop
<1> QED
  BY <1>8, <1>9

\* The end of the call keeps the invariant: all threads have seen the stop flag.
LEMMA SynchronizeStep ==
  ASSUME IInv, Synchronize
  PROVE  IInv'
<1> USE DEF IInv
<1>1. thread_count \in Nat \ {0} /\ 0 \in Threads
  BY DEF Synchronize, PhaseInv, TypeOK, Threads
<1>2. stop
  BY <1>1 DEF Synchronize, PhaseInv
<1>3. \A s \in States : status[s] \in {0, 1}
  BY <1>2 DEF EndInv, TypeOK
<1>4. result' = "returned"
  BY <1>3 DEF Synchronize, EndInv
<1> QED
  BY <1>2, <1>4, OnlyTheResult DEF Synchronize

-----------------------------------------------------------------------------
(* The steps of a thread on an entry: what they leave alone.                 *)

\* The thread stays at its entry, or goes on to its next one.
Goes(t, label) == GoTo(t, label) /\ UNCHANGED queue_index
OneStep(t) ==
  /\ UNCHANGED <<callVars, result, launchVars, batchVars>>
  /\ \A i \in 0 .. batch_end - 1 : completed_queue'[i] = completed_queue[i]
  /\ queue_tail' \in {queue_tail, queue_tail + 1}
  /\ \/ NextItem(t)
     \/ \E label \in {"sub"} \cup After : Goes(t, label) /\ Taken(t) # 0

\* The batch and the other threads do not change.
LEMMA SameOthers ==
  ASSUME TypeOK, PhaseInv, QueueInv, NEW t \in Threads, pc[t] \in Before \cup After, OneStep(t)
  PROVE  /\ UNCHANGED <<graph, request, device, result, cooperative, thread_count,
                        batch_begin, batch_end, stop>>
         /\ Threads' = Threads /\ States' = States /\ Moves' = Moves
         /\ \A u \in Threads \ {t} :
              /\ pc'[u] = pc[u] /\ queue_index'[u] = queue_index[u]
              /\ pc[u] \in Before \cup After =>
                   /\ Taken(u)' = Taken(u)
                   /\ ParentMove(u)' = ParentMove(u) /\ ParentState(u)' = ParentState(u)
         /\ pc'[t] \in {"take", "sub", "wait"} \cup After
         /\ pc' \in [Threads -> {"loop", "select", "take", "sub", "read", "win", "lose",
                                 "fall", "append", "write", "wait", "exited"}]
         /\ queue_index' \in [Threads -> Nat]
<1>1. /\ UNCHANGED <<graph, request, device, result, cooperative, thread_count,
                     batch_begin, batch_end, stop>>
      /\ Threads' = Threads /\ States' = States /\ Moves' = Moves
  BY DEF OneStep, callVars, launchVars, batchVars, Threads, States, Moves
<1>2. thread_count \in Nat /\ queue_index[t] \in Nat
  BY DEF TypeOK
<1>3. /\ \A u \in Threads \ {t} : pc'[u] = pc[u] /\ queue_index'[u] = queue_index[u]
      /\ pc'[t] \in {"take", "sub", "wait"} \cup After
      /\ pc' \in [Threads -> {"loop", "select", "take", "sub", "read", "win", "lose",
                              "fall", "append", "write", "wait", "exited"}]
      /\ queue_index' \in [Threads -> Nat]
  <2>1. CASE NextItem(t)
    BY <1>2, <2>1 DEF NextItem, GoTo, TypeOK
  <2>2. CASE \E label \in {"sub"} \cup After : Goes(t, label)
    BY <2>2 DEF Goes, GoTo, TypeOK, After, Deciding, Adding
  <2> QED
    BY <2>1, <2>2 DEF OneStep
<1>4. ASSUME NEW u \in Threads \ {t}, pc[u] \in Before \cup After
      PROVE  /\ Taken(u)' = Taken(u)
             /\ ParentMove(u)' = ParentMove(u) /\ ParentState(u)' = ParentState(u)
  <2>1. queue_index[u] \in 0 .. batch_end - 1
    BY <1>4, BusyThread
  <2>2. Taken(u)' = Taken(u)
    BY <1>3, <2>1 DEF Taken, OneStep
  <2> QED
    BY <1>1, <2>2 DEF ParentMove, ParentState
<1> QED
  BY <1>1, <1>3, <1>4

\* A thread that stays at its entry.
LEMMA SameEntry ==
  ASSUME TypeOK, PhaseInv, QueueInv, NEW t \in Threads, pc[t] \in Before \cup After, OneStep(t),
         NEW label, Goes(t, label)
  PROVE  /\ pc'[t] = label /\ queue_index'[t] = queue_index[t]
         /\ Taken(t)' = Taken(t)
         /\ ParentMove(t)' = ParentMove(t) /\ ParentState(t)' = ParentState(t)
<1>1. pc'[t] = label /\ queue_index' = queue_index
  BY DEF Goes, GoTo, TypeOK
<1>2. queue_index[t] \in 0 .. batch_end - 1
  BY BusyThread
<1>3. Taken(t)' = Taken(t)
  BY <1>1, <1>2 DEF Taken, OneStep
<1> QED
  BY <1>1, <1>3, SameOthers DEF ParentMove, ParentState

\* A thread that goes on to its next entry.
LEMMA NextEntry ==
  ASSUME TypeOK, PhaseInv, QueueInv, NEW t \in Threads, pc[t] \in Before \cup After,
         NextItem(t)
  PROVE  /\ queue_index'[t] = queue_index[t] + thread_count
         /\ pc'[t] = IF queue_index[t] + thread_count < batch_end THEN "take" ELSE "wait"
         /\ pc'[t] \in {"take", "wait"}
BY DEF NextItem, GoTo, TypeOK

\* A step of a thread on an entry stays in the phase.
LEMMA PhaseKept ==
  ASSUME TypeOK, PhaseInv, QueueInv, NEW t \in Threads, pc[t] \in Before \cup After, OneStep(t)
  PROVE  PhaseInv'
<1>1. /\ InBatch /\ ~ stop /\ thread_count \in Nat \ {0}
      /\ queue_index[t] \in 0 .. batch_end - 1 /\ IsOf(queue_index[t], t)
  BY BusyThread
<1>2. InBatch' /\ ~ Between'
  BY <1>1, SameOthers DEF InBatch, Between, Before, After, Deciding, Adding
<1>3. \A u \in Threads \ {t} :
        /\ IsOf(queue_index[u], u)'
        /\ (pc[u] \in Before \cup After <=> queue_index[u] < batch_end)'
        /\ (pc[u] \in {"sub"} \cup After => Taken(u) # 0)'
  BY <1>1, SameOthers DEF PhaseInv, IsOf, Before
<1>4. /\ IsOf(queue_index[t], t)'
      /\ (pc[t] \in Before \cup After <=> queue_index[t] < batch_end)'
      /\ (pc[t] \in {"sub"} \cup After => Taken(t) # 0)'
  <2>1. CASE NextItem(t)
    <3>1. queue_index[t] - batch_begin \in Nat /\ queue_index[t] \in Nat /\ batch_begin \in Nat
      BY <1>1 DEF IsOf, TypeOK
    <3>2. /\ (queue_index[t] + thread_count) - batch_begin
               = (queue_index[t] - batch_begin) + thread_count
          /\ queue_index[t] + thread_count >= batch_begin
      BY <1>1, <3>1
    <3>3. ((queue_index[t] - batch_begin) + thread_count) % thread_count = t
      BY <1>1, <3>1, RemainderStep DEF IsOf
    <3>4. IsOf(queue_index[t], t)'
      BY <2>1, <3>2, <3>3, SameOthers, NextEntry DEF IsOf
    <3> QED
      BY <2>1, <3>4, SameOthers, NextEntry DEF Before, After, Deciding, Adding
  <2>2. CASE \E label \in {"sub"} \cup After : Goes(t, label) /\ Taken(t) # 0
    <3>1. PICK label \in {"sub"} \cup After : Goes(t, label) /\ Taken(t) # 0
      BY <2>2
    <3>2. /\ pc'[t] = label /\ queue_index'[t] = queue_index[t] /\ Taken(t)' = Taken(t)
      BY <3>1, SameEntry
    <3>3. pc[t] \in Before \cup After /\ queue_index[t] < batch_end
      BY <1>1 DEF PhaseInv
    <3> QED
      BY <1>1, <3>1, <3>2, <3>3, SameOthers DEF IsOf, Before
  <2> QED
    BY <2>1, <2>2 DEF OneStep
<1>5. \A u \in Threads : pc'[u] # "exited"
  BY <1>2, SameOthers DEF InBatch, Before, After, Deciding, Adding
<1>6. result # "prepare" /\ thread_count > 0
  BY <1>1 DEF PhaseInv
<1>7. batch_begin <= batch_end /\ batch_end <= queue_tail'
  BY DEF PhaseInv, OneStep, TypeOK
<1>8. \A u \in Threads' :
        /\ IsOf(queue_index[u], u)'
        /\ (pc[u] \in Before \cup After <=> queue_index[u] < batch_end)'
        /\ (pc[u] \in {"sub"} \cup After => Taken(u) # 0)'
  BY <1>3, <1>4, SameOthers
<1> QED
  BY <1>1, <1>2, <1>5, <1>6, <1>7, <1>8, SameOthers DEF PhaseInv

-----------------------------------------------------------------------------
(* The entries that are passed and the states that are counted.              *)

\* What a step of a thread passes: its entry, if it leaves it or has made the
\* subtraction for it.
LEMMA PassedAfter ==
  ASSUME TypeOK, PhaseInv, QueueInv, NEW t \in Threads, pc[t] \in Before \cup After, OneStep(t),
         NEW i \in 0 .. batch_end - 1
  PROVE  /\ NextItem(t) \/ (\E label \in After : Goes(t, label)) =>
              (Passed(i)' <=> Passed(i) \/ i = queue_index[t])
         /\ pc[t] \in Before /\ Goes(t, "sub") => (Passed(i)' <=> Passed(i))
         /\ pc[t] \in After => Passed(queue_index[t])
<1>1. /\ InBatch /\ thread_count \in Nat \ {0}
      /\ queue_index[t] \in Nat /\ IsOf(queue_index[t], t) /\ i \in Nat /\ batch_begin \in Nat
  BY BusyThread DEF TypeOK
<1>2. InBatch'
  BY <1>1, SameOthers DEF InBatch, Before
<1>3. \A u \in Threads : IsOf(i, u)' <=> IsOf(i, u)
  BY SameOthers DEF IsOf
<1>4. \A u \in Threads \ {t} : PassedBy(i, u)' <=> PassedBy(i, u)
  BY <1>3, SameOthers DEF PassedBy
<1>5. Passed(i) <=> i < batch_begin \/ \E u \in Threads : PassedBy(i, u)
  BY <1>1 DEF Passed
<1>6. Passed(i)' <=> i < batch_begin \/ \E u \in Threads : PassedBy(i, u)'
  BY <1>2, SameOthers DEF Passed
<1>7. ASSUME NextItem(t) \/ \E label \in After : Goes(t, label)
      PROVE  PassedBy(i, t)' <=> IsOf(i, t) /\ i <= queue_index[t]
  <2>1. CASE NextItem(t)
    <3>1. PassedBy(i, t)' <=> IsOf(i, t) /\ i < queue_index[t] + thread_count
      BY <1>3, <2>1, NextEntry DEF PassedBy, After, Deciding, Adding
    <3>2. ASSUME IsOf(i, t), queue_index[t] < i
          PROVE  i >= queue_index[t] + thread_count
      <4> DEFINE a == queue_index[t] - batch_begin
                 b == i - batch_begin
      <4>1. a \in Nat /\ b \in Nat /\ a < b /\ a % thread_count = b % thread_count
        BY <1>1, <3>2 DEF IsOf
      <4>2. b >= a + thread_count
        <5> HIDE DEF a, b
        <5> QED
          BY <1>1, <4>1, RemainderGap
      <4> QED
        BY <1>1, <4>2
    <3> QED
      BY <1>1, <3>1, <3>2
  <2>2. CASE \E label \in After : Goes(t, label)
    <3>1. pc'[t] \in After /\ queue_index'[t] = queue_index[t]
      BY <2>2, SameEntry
    <3> QED
      BY <1>1, <1>3, <3>1 DEF PassedBy
  <2> QED
    BY <1>7, <2>1, <2>2
<1>8. ASSUME pc[t] \in Before, Goes(t, "sub")
      PROVE  PassedBy(i, t)' <=> PassedBy(i, t)
  <2>1. pc'[t] = "sub" /\ queue_index'[t] = queue_index[t]
    BY <1>8, SameEntry
  <2> QED
    BY <1>3, <1>8, <2>1 DEF PassedBy, Before, After, Deciding, Adding
<1>9. PassedBy(i, t) => i <= queue_index[t]
  BY <1>1 DEF PassedBy
<1>10. IsOf(i, t) /\ i < queue_index[t] => PassedBy(i, t)
  BY DEF PassedBy
<1>11. NextItem(t) \/ (\E label \in After : Goes(t, label)) =>
         (Passed(i)' <=> Passed(i) \/ i = queue_index[t])
  <2> HAVE NextItem(t) \/ \E label \in After : Goes(t, label)
  <2>1. PassedBy(i, t)' <=> IsOf(i, t) /\ i <= queue_index[t]
    BY <1>7
  <2>2. i <= queue_index[t] <=> i < queue_index[t] \/ i = queue_index[t]
    BY <1>1
  <2>3. PassedBy(i, t) => IsOf(i, t)
    BY DEF PassedBy
  <2>4. PassedBy(i, t)' <=> PassedBy(i, t) \/ i = queue_index[t]
    BY <1>1, <1>9, <1>10, <2>1, <2>2, <2>3
  <2> QED
    BY <1>4, <1>5, <1>6, <2>4
<1>12. pc[t] \in Before /\ Goes(t, "sub") => (Passed(i)' <=> Passed(i))
  BY <1>4, <1>5, <1>6, <1>8
<1>13. pc[t] \in After => Passed(queue_index[t])
  BY <1>1 DEF Passed, PassedBy
<1> QED
  BY <1>11, <1>12, <1>13

\* The entries passed stay the ones counted: a thread that subtracts its entry
\* passes it, and one that does not has passed it or leaves it alone.
LEMMA PassedKept ==
  ASSUME TypeOK, PhaseInv, QueueInv, PassedInv, NEW t \in Threads,
         pc[t] \in Before \cup After, OneStep(t),
         \/ counted' = counted /\ Goes(t, "sub") /\ pc[t] \in Before
         \/ /\ NextItem(t) \/ \E label \in After : Goes(t, label)
            /\ \/ counted' = counted /\ (pc[t] \in After \/ Taken(t) = 0)
               \/ counted' = counted \cup {Taken(t)} /\ Taken(t) # 0
  PROVE  PassedInv'
<1>1. queue_index[t] \in 0 .. batch_end - 1 /\ completed_queue[queue_index[t]] = Taken(t)
  BY BusyThread DEF Taken
<1>2. batch_end' = batch_end /\ \A i \in 0 .. batch_end - 1 : completed_queue'[i] = completed_queue[i]
  BY SameOthers DEF OneStep
<1>3. \A i \in 0 .. batch_end - 1 : Passed(i) => Passed(i)'
  BY PassedAfter
<1>4. \A s \in counted : \E i \in 0 .. batch_end - 1 : completed_queue[i] = s /\ Passed(i)'
  BY <1>3 DEF PassedInv
<1>5. \A i \in 0 .. batch_end - 1 :
        Passed(i) => completed_queue[i] = 0 \/ completed_queue[i] \in counted
  BY DEF PassedInv
<1>6. 0 \notin counted'
  BY DEF PassedInv
<1>7. CASE counted' = counted /\ Goes(t, "sub") /\ pc[t] \in Before
  <2>1. \A i \in 0 .. batch_end - 1 : Passed(i)' <=> Passed(i)
    BY <1>7, PassedAfter
  <2> QED
    BY <1>2, <1>4, <1>5, <1>7, <1>6, <2>1 DEF PassedInv
<1>8. CASE NextItem(t) \/ \E label \in After : Goes(t, label)
  <2>1. \A i \in 0 .. batch_end - 1 : Passed(i)' <=> Passed(i) \/ i = queue_index[t]
    BY <1>8, PassedAfter
  <2>2. CASE counted' = counted /\ pc[t] \in After
    <3>1. Passed(queue_index[t])
      BY <1>1, <2>2, PassedAfter
    <3>2. \A i \in 0 .. batch_end - 1 : Passed(i)' <=> Passed(i)
      BY <2>1, <3>1
    <3> QED
      BY <1>2, <1>4, <1>5, <1>6, <2>2, <3>2 DEF PassedInv
  <2>3. CASE counted' = counted /\ Taken(t) = 0
    BY <1>1, <1>2, <1>4, <1>5, <1>6, <2>1, <2>3 DEF PassedInv
  <2>4. CASE counted' = counted \cup {Taken(t)}
    <3>1. \A s \in counted' : \E i \in 0 .. batch_end - 1 : completed_queue[i] = s /\ Passed(i)'
      BY <1>1, <1>4, <2>1, <2>4
    <3>2. \A i \in 0 .. batch_end - 1 :
            Passed(i)' => completed_queue[i] = 0 \/ completed_queue[i] \in counted'
      BY <1>1, <1>5, <2>1, <2>4
    <3> QED
      BY <1>2, <1>6, <3>1, <3>2 DEF PassedInv
  <2> QED
    BY <1>7, <1>8, <2>2, <2>3, <2>4
<1> QED
  BY <1>7, <1>8

-----------------------------------------------------------------------------
(* The queue.                                                                *)

\* A step that adds no state and reserves no slot leaves what the queue holds.
LEMMA QueueKept ==
  ASSUME TypeOK, PhaseInv, QueueInv, NEW t \in Threads, pc[t] \in Before \cup After, OneStep(t),
         UNCHANGED <<status, queue_tail, slot>>, pc'[t] \notin Adding,
         \/ pc[t] \notin Adding /\ completed_queue' = completed_queue
         \/ /\ pc[t] = "write"
            /\ completed_queue' = [completed_queue EXCEPT ![slot[t]] = ParentState(t)]
  PROVE  QueueInv'
<1>1. \A u \in Threads \ {t} : /\ pc'[u] = pc[u] /\ slot'[u] = slot[u]
                               /\ pc[u] \in Adding => ParentState(u)' = ParentState(u)
  BY SameOthers DEF After
<1>2. Entries' = Entries /\ States' = States /\ Threads' = Threads /\ batch_end' = batch_end
      /\ graph' = graph
  BY SameOthers DEF Entries
<1>3. pc'[t] # "append" /\ pc'[t] # "write"
  BY DEF Adding
<1>4. ASSUME NEW i \in Entries
      PROVE  Content(i)' = Content(i)
  <2>1. CASE pc[t] \notin Adding
    <3>1. Writers(i)' = Writers(i)
      BY <1>1, <1>2, <1>3, <2>1 DEF Writers, Adding
    <3>2. Writers(i) # {} => (CHOOSE u \in Writers(i) : TRUE) \in Writers(i)
      OBVIOUS
    <3>3. \A u \in Writers(i) : ParentState(u)' = ParentState(u)
      BY <1>1, <2>1 DEF Writers, Adding
    <3>4. completed_queue' = completed_queue
      BY <2>1 DEF Adding
    <3> QED
      BY <3>1, <3>2, <3>3, <3>4 DEF Content
  <2>2. CASE /\ pc[t] = "write"
             /\ completed_queue' = [completed_queue EXCEPT ![slot[t]] = ParentState(t)]
    <3>1. CASE i = slot[t]
      <4>1. Writers(i) = {t}
        BY <2>2, <3>1 DEF Writers, QueueInv
      <4>2. Content(i) = ParentState(t)
        BY <4>1 DEF Content
      <4>3. Writers(i)' = {}
        BY <1>1, <1>2, <1>3, <2>2, <3>1 DEF Writers, QueueInv
      <4>4. i \in States
        BY Shape DEF QueueInv, Entries, TypeOK
      <4> QED
        BY <2>2, <3>1, <4>2, <4>3, <4>4 DEF Content, TypeOK
    <3>2. CASE i # slot[t]
      <4>1. Writers(i)' = Writers(i)
        BY <1>1, <1>2, <1>3, <2>2, <3>2 DEF Writers
      <4>2. Writers(i) # {} => (CHOOSE u \in Writers(i) : TRUE) \in Writers(i)
        OBVIOUS
      <4>3. \A u \in Writers(i) : ParentState(u)' = ParentState(u)
        BY <1>1, <2>2, <3>2 DEF Writers, Adding
      <4>4. completed_queue'[i] = completed_queue[i]
        BY <2>2, <3>2
      <4> QED
        BY <4>1, <4>2, <4>3, <4>4 DEF Content
    <3> QED
      BY <3>1, <3>2
  <2> QED
    BY <2>1, <2>2
<1>5. /\ queue_tail' <= graph'.state_count
      /\ \A u \in Threads' : pc'[u] = "write" => slot'[u] \in batch_end' .. queue_tail' - 1
      /\ \A u, v \in Threads' :
           pc'[u] = "write" /\ pc'[v] = "write" /\ slot'[u] = slot'[v] => u = v
  BY <1>1, <1>2, <1>3 DEF QueueInv
<1>6. /\ \A i, j \in Entries' : Content(i)' = Content(j)' => i = j
      /\ \A i \in Entries' : Content(i)' \in States' /\ status'[Content(i)'] # -1
  BY <1>2, <1>4 DEF QueueInv
<1>7. /\ \A u \in Threads' : pc'[u] = "append" =>
           /\ status'[ParentState(u)'] # -1
           /\ \A i \in Entries' : Content(i)' # ParentState(u)'
      /\ \A u, v \in Threads' :
           pc'[u] = "append" /\ pc'[v] = "append" /\ ParentState(u)' = ParentState(v)' => u = v
  BY <1>1, <1>2, <1>3, <1>4 DEF QueueInv, Adding
<1>8. \A s \in States' : status'[s] # -1 =>
        \/ \E i \in Entries' : Content(i)' = s
        \/ \E u \in Threads' : pc'[u] = "append" /\ ParentState(u)' = s
  <2> SUFFICES ASSUME NEW s \in States, status[s] # -1
               PROVE  \/ \E i \in Entries : Content(i)' = s
                      \/ \E u \in Threads : pc'[u] = "append" /\ ParentState(u)' = s
    BY <1>2
  <2>1. \/ \E i \in Entries : Content(i) = s
        \/ \E u \in Threads : pc[u] = "append" /\ ParentState(u) = s
    BY DEF QueueInv
  <2>2. pc[t] # "append"
    BY DEF Adding
  <2> QED
    BY <1>1, <1>4, <2>1, <2>2 DEF Adding
<1> QED
  BY <1>5, <1>6, <1>7, <1>8 DEF QueueInv

\* A state that gets its status is one the thread will add.
LEMMA QueueAfterDecision ==
  ASSUME TypeOK, PhaseInv, QueueInv, NEW t \in Threads, pc[t] \in Deciding \cup {"fall"},
         OneStep(t), NEW value \in {0, 1}, status[ParentState(t)] = -1,
         status' = [status EXCEPT ![ParentState(t)] = value], Goes(t, "append"),
         UNCHANGED <<completed_queue, queue_tail, slot>>
  PROVE  QueueInv'
<1>1. \A u \in Threads \ {t} : /\ pc'[u] = pc[u] /\ slot'[u] = slot[u]
                               /\ pc[u] \in Adding => ParentState(u)' = ParentState(u)
  BY SameOthers DEF After
<1>2. Entries' = Entries /\ States' = States /\ Threads' = Threads /\ batch_end' = batch_end
      /\ graph' = graph
  BY SameOthers DEF Entries, After
<1>3. pc[t] \notin Adding /\ pc'[t] = "append" /\ ParentState(t)' = ParentState(t)
      /\ ParentState(t) \in States
  <2>1. pc[t] \in After /\ pc[t] \notin Adding
    BY DEF Adding, Deciding, After
  <2>2. ParentState(t) \in States
    BY <2>1, BusyParents
  <2> QED
    BY <2>1, <2>2, SameEntry
<1>4. ASSUME NEW i \in Entries
      PROVE  Content(i)' = Content(i)
  <2>1. Writers(i)' = Writers(i)
    BY <1>1, <1>2, <1>3 DEF Writers, Adding
  <2>2. Writers(i) # {} => (CHOOSE u \in Writers(i) : TRUE) \in Writers(i)
    OBVIOUS
  <2>3. \A u \in Writers(i) : ParentState(u)' = ParentState(u)
    BY <1>1, <1>3 DEF Writers, Adding
  <2> QED
    BY <2>1, <2>2, <2>3 DEF Content
<1>5. \A s \in States : status'[s] = IF s = ParentState(t) THEN value ELSE status[s]
  BY DEF TypeOK
<1>6. \A i \in Entries : Content(i) \in States /\ status[Content(i)] # -1
  BY DEF QueueInv
<1>7. \A i \in Entries : Content(i) # ParentState(t)
  BY <1>6
<1>8. \A u \in Threads \ {t} : pc[u] = "append" => ParentState(u) # ParentState(t)
  BY DEF QueueInv
<1>9. /\ queue_tail' <= graph'.state_count
      /\ \A u \in Threads' : pc'[u] = "write" => slot'[u] \in batch_end' .. queue_tail' - 1
      /\ \A u, v \in Threads' :
           pc'[u] = "write" /\ pc'[v] = "write" /\ slot'[u] = slot'[v] => u = v
  BY <1>1, <1>2, <1>3 DEF QueueInv
<1>10. /\ \A i, j \in Entries' : Content(i)' = Content(j)' => i = j
       /\ \A i \in Entries' : Content(i)' \in States' /\ status'[Content(i)'] # -1
  BY <1>2, <1>4, <1>5, <1>6, <1>7 DEF QueueInv
<1>11. \A u \in Threads' : pc'[u] = "append" =>
         /\ status'[ParentState(u)'] # -1
         /\ \A i \in Entries' : Content(i)' # ParentState(u)'
  <2> SUFFICES ASSUME NEW u \in Threads, pc'[u] = "append"
               PROVE  /\ status'[ParentState(u)'] # -1
                      /\ \A i \in Entries : Content(i) # ParentState(u)'
    BY <1>2, <1>4
  <2>1. CASE u = t
    BY <1>3, <1>5, <1>7, <2>1
  <2>2. CASE u # t
    <3>1. pc[u] = "append" /\ ParentState(u)' = ParentState(u)
      BY <1>1, <2>2 DEF Adding
    <3>2. ParentState(u) \in States
      <4>1. pc[u] \in {"sub"} \cup After
        BY <3>1 DEF After, Adding
      <4> QED
        BY <4>1, BusyParents
    <3> QED
      BY <1>5, <1>8, <2>2, <3>1, <3>2 DEF QueueInv
  <2> QED
    BY <2>1, <2>2
<1>12. \A u, v \in Threads' :
         pc'[u] = "append" /\ pc'[v] = "append" /\ ParentState(u)' = ParentState(v)' => u = v
  BY <1>1, <1>2, <1>3, <1>8 DEF QueueInv, Adding
<1>13. \A s \in States' : status'[s] # -1 =>
         \/ \E i \in Entries' : Content(i)' = s
         \/ \E u \in Threads' : pc'[u] = "append" /\ ParentState(u)' = s
  <2> SUFFICES ASSUME NEW s \in States, s # ParentState(t), status[s] # -1
               PROVE  \/ \E i \in Entries : Content(i)' = s
                      \/ \E u \in Threads : pc'[u] = "append" /\ ParentState(u)' = s
    BY <1>2, <1>3, <1>5
  <2>1. \/ \E i \in Entries : Content(i) = s
        \/ \E u \in Threads : pc[u] = "append" /\ ParentState(u) = s
    BY DEF QueueInv
  <2> QED
    BY <1>1, <1>3, <1>4, <2>1 DEF Adding
<1> QED
  BY <1>9, <1>10, <1>11, <1>12, <1>13 DEF QueueInv

\* There is a slot for every state that gets its status.
LEMMA SlotIsLeft ==
  ASSUME TypeOK, PhaseInv, QueueInv, NEW t \in Threads, pc[t] = "append"
  PROVE  queue_tail < graph.state_count
<1> DEFINE rest == States \ {ParentState(t)}
           f == [i \in Entries |-> Content(i)]
<1>1. ParentState(t) \in States
  <2>1. pc[t] \in {"sub"} \cup After
    BY DEF After, Adding
  <2> QED
    BY <2>1, BusyParents
<1>2. f \in Injection(Entries, rest)
  <2>1. f \in [Entries -> rest]
    BY DEF QueueInv
  <2>2. \A i, j \in Entries : f[i] = f[j] => i = j
    BY DEF QueueInv
  <2> HIDE DEF f, rest
  <2> QED
    BY <2>1, <2>2 DEF Injection, IsInjective
<1>3. IsFiniteSet(rest) /\ Cardinality(rest) = graph.state_count - 1
  <2>1. Cardinality(States) = graph.state_count
    <3>1. graph.state_count \in Nat \ {0} /\ graph.state_count - 1 \in Int /\ 0 \in Int
      BY Shape
    <3>2. Cardinality(0 .. graph.state_count - 1) = graph.state_count
      BY <3>1, FS_Interval
    <3> QED
      BY <3>2, Shape
  <2>2. IsFiniteSet(States)
    BY Shape
  <2>3. IsFiniteSet(rest) /\ Cardinality(rest) = Cardinality(States) - 1
    BY <1>1, <2>2, FS_RemoveElement
  <2> QED
    BY <2>1, <2>3
<1>4. Cardinality(Entries) = queue_tail
  <2>1. queue_tail \in Nat /\ queue_tail - 1 \in Int /\ 0 \in Int
    BY DEF TypeOK
  <2> QED
    BY <2>1, FS_Interval DEF Entries
<1> HIDE DEF f, rest
<1>5. Cardinality(Entries) <= Cardinality(rest)
  BY <1>2, <1>3, FS_Injection
<1>6. queue_tail \in Nat /\ graph.state_count \in Nat
  BY Shape DEF TypeOK
<1> QED
  BY <1>3, <1>4, <1>5, <1>6

\* The slot that is reserved stands for the state that is added.
LEMMA QueueAfterReserve ==
  ASSUME TypeOK, PhaseInv, QueueInv, NEW t \in Threads, pc[t] = "append",
         OneStep(t), Goes(t, "write"), slot' = [slot EXCEPT ![t] = queue_tail],
         queue_tail' = queue_tail + 1, UNCHANGED <<completed_queue, status>>
  PROVE  QueueInv'
<1>1. \A u \in Threads \ {t} : /\ pc'[u] = pc[u] /\ slot'[u] = slot[u]
                               /\ pc[u] \in Adding => ParentState(u)' = ParentState(u)
  BY SameOthers DEF After, Adding
<1>2. States' = States /\ Threads' = Threads /\ batch_end' = batch_end /\ graph' = graph
  BY SameOthers DEF After, Adding
<1>3. /\ pc'[t] = "write" /\ slot'[t] = queue_tail
      /\ ParentState(t)' = ParentState(t) /\ ParentState(t) \in States
  <2>1. pc[t] \in {"sub"} \cup After
    BY DEF After, Adding
  <2> QED
    BY <2>1, SameEntry, BusyParents DEF TypeOK
<1>4. PICK k \in Nat : k = queue_tail
  BY DEF TypeOK
<1>5. Entries' = Entries \cup {k} /\ k \notin Entries
  BY <1>4 DEF Entries
<1>6. ASSUME NEW i \in Entries
      PROVE  Content(i)' = Content(i)
  <2>1. Writers(i)' = Writers(i)
    BY <1>1, <1>2, <1>3, <1>4, <1>5 DEF Writers
  <2>2. Writers(i) # {} => (CHOOSE u \in Writers(i) : TRUE) \in Writers(i)
    OBVIOUS
  <2>3. \A u \in Writers(i) : ParentState(u)' = ParentState(u)
    BY <1>1 DEF Writers, Adding
  <2> QED
    BY <2>1, <2>2, <2>3 DEF Content
<1>7. Content(k)' = ParentState(t)
  <2>1. \A u \in Threads : pc[u] = "write" => slot[u] \in Entries
    BY DEF QueueInv, Entries, TypeOK
  <2>2. \A u \in Threads \ {t} : pc[u] = "write" => slot[u] # k
    BY <1>4, <1>5, <2>1
  <2>3. {u \in Threads' : pc'[u] = "write" /\ slot'[u] = k} = {t}
    BY <1>1, <1>2, <1>3, <1>4, <2>2
  <2> QED
    BY <1>3, <1>4, <1>5, <2>3 DEF Content, Writers
<1>8. /\ queue_tail' <= graph'.state_count
      /\ \A u \in Threads' : pc'[u] = "write" => slot'[u] \in batch_end' .. queue_tail' - 1
  <2>1. queue_tail < graph.state_count /\ graph.state_count \in Nat
    BY SlotIsLeft, Shape
  <2>2. batch_end <= queue_tail /\ batch_end \in Nat
    BY DEF PhaseInv, TypeOK
  <2> QED
    BY <1>1, <1>2, <1>3, <1>4, <1>5, <2>1, <2>2 DEF QueueInv
<1>9. \A u, v \in Threads' :
        pc'[u] = "write" /\ pc'[v] = "write" /\ slot'[u] = slot'[v] => u = v
  <2>1. \A u \in Threads : pc[u] = "write" => slot[u] \in Entries
    BY DEF QueueInv, Entries, TypeOK
  <2> QED
    BY <1>1, <1>2, <1>3, <1>4, <1>5, <2>1 DEF QueueInv
<1>10. /\ \A i, j \in Entries' : Content(i)' = Content(j)' => i = j
      /\ \A i \in Entries' : Content(i)' \in States' /\ status'[Content(i)'] # -1
  <2>1. status[ParentState(t)] # -1 /\ \A i \in Entries : Content(i) # ParentState(t)
    BY DEF QueueInv
  <2> QED
    BY <1>2, <1>3, <1>4, <1>5, <1>6, <1>7, <2>1 DEF QueueInv
<1>11. /\ \A u \in Threads' : pc'[u] = "append" =>
            /\ status'[ParentState(u)'] # -1
            /\ \A i \in Entries' : Content(i)' # ParentState(u)'
       /\ \A u, v \in Threads' :
            pc'[u] = "append" /\ pc'[v] = "append" /\ ParentState(u)' = ParentState(v)' => u = v
  BY <1>1, <1>2, <1>3, <1>4, <1>5, <1>6, <1>7 DEF QueueInv, Adding
<1>12. \A s \in States' : status'[s] # -1 =>
         \/ \E i \in Entries' : Content(i)' = s
         \/ \E u \in Threads' : pc'[u] = "append" /\ ParentState(u)' = s
  <2> SUFFICES ASSUME NEW s \in States, status[s] # -1
               PROVE  \/ \E i \in Entries \cup {k} : Content(i)' = s
                      \/ \E u \in Threads : pc'[u] = "append" /\ ParentState(u)' = s
    BY <1>2, <1>4, <1>5
  <2>1. \/ \E i \in Entries : Content(i) = s
        \/ \E u \in Threads : pc[u] = "append" /\ ParentState(u) = s
    BY DEF QueueInv
  <2> QED
    BY <1>1, <1>6, <1>7, <2>1 DEF Adding
<1> QED
  BY <1>8, <1>9, <1>10, <1>11, <1>12 DEF QueueInv

-----------------------------------------------------------------------------
(* The steps of a thread on an entry, one by one.                            *)

\* The end of the call is not near while a thread is on an entry.
LEMMA EndKept ==
  ASSUME TypeOK, PhaseInv, QueueInv, EndInv, NEW t \in Threads, pc[t] \in Before \cup After,
         OneStep(t), error_code' = error_code
  PROVE  EndInv'
BY BusyThread, SameOthers DEF EndInv

\* Two threads on an entry are on different states.
LEMMA DistinctEntries ==
  ASSUME TypeOK, PhaseInv, QueueInv, NEW t \in Threads, NEW u \in Threads,
         pc[t] \in Before \cup After, pc[u] \in Before \cup After, Taken(t) = Taken(u)
  PROVE  t = u
<1>1. /\ queue_index[t] \in Entries /\ queue_index[u] \in Entries
      /\ Content(queue_index[t]) = Content(queue_index[u])
      /\ IsOf(queue_index[t], t) /\ IsOf(queue_index[u], u)
  BY BusyThread, BatchIsFilled
<1>2. queue_index[t] = queue_index[u]
  BY <1>1 DEF QueueInv
<1> QED
  BY <1>1, <1>2, OneOwner

\* Taking a state and failing its parent move keeps the invariant.
LEMMA TakeStateStep ==
  ASSUME IInv, NEW t \in Threads, TakeState(t)
  PROVE  IInv'
<1> USE DEF IInv
<1>1. /\ pc[t] = "take" /\ pc[t] \in Before /\ pc[t] \in Before \cup After
      /\ pc[t] \notin Adding /\ pc[t] \notin Deciding /\ pc[t] # "fall"
      /\ UNCHANGED <<status, remaining_moves, remaining_children, completed_queue, queue_tail,
                     error_code, slot, counted, lost>>
  BY DEF TakeState, At, Before, Adding, Deciding, queueVars, historyVars
<1>2. Taken(t) \in States
  BY <1>1, BusyThread
<1>3. /\ ParentMove(t) = kNoHtChild => Taken(t) = 0 /\ NextItem(t) /\ move_failed' = move_failed
      /\ ParentMove(t) # kNoHtChild =>
           /\ Taken(t) # 0 /\ Goes(t, "sub")
           /\ move_failed' = IF status[Taken(t)] = 0
                             THEN [move_failed EXCEPT ![ParentMove(t)] = 1] ELSE move_failed
  BY <1>2, Shape DEF TakeState, ParentMove, Goes
<1>4. OneStep(t)
  <2>1. NextItem(t) \/ \E label \in {"sub"} \cup After : Goes(t, label) /\ Taken(t) # 0
    BY <1>3
  <2> QED
    BY <1>1, <2>1 DEF OneStep, TakeState, queueVars
<1>5. /\ graph' = graph /\ Threads' = Threads /\ States' = States /\ Moves' = Moves
      /\ \A u \in Threads \ {t} :
           /\ pc'[u] = pc[u]
           /\ pc[u] \in Before \cup After =>
                /\ Taken(u)' = Taken(u)
                /\ ParentMove(u)' = ParentMove(u) /\ ParentState(u)' = ParentState(u)
  BY <1>1, <1>4, SameOthers
<1>6. ParentMove(t) # kNoHtChild =>
        /\ pc'[t] = "sub" /\ Taken(t)' = Taken(t) /\ ParentMove(t)' = ParentMove(t)
        /\ ParentMove(t) \in Moves /\ Taken(t) \in ChildrenOf(graph, ParentMove(t))
  BY <1>1, <1>3, <1>4, SameEntry, EntryParents
<1>7. pc'[t] \in {"take", "sub", "wait"}
  BY <1>1, <1>3, <1>6, NextEntry
<1>8. /\ move_failed' \in [Moves -> {0, 1}]
      /\ \A m \in Moves : move_failed[m] = 1 => move_failed'[m] = 1
      /\ \A m \in Moves : move_failed'[m] = 1 /\ move_failed[m] # 1 =>
           /\ ParentMove(t) # kNoHtChild /\ m = ParentMove(t)
           /\ status[Taken(t)] = 0 /\ Taken(t) \in ChildrenOf(graph, m)
      /\ ParentMove(t) # kNoHtChild /\ status[Taken(t)] = 0 => move_failed'[ParentMove(t)] = 1
  BY <1>3, <1>6 DEF TypeOK
<1>9. TypeOK'
  BY <1>1, <1>4, <1>8, SameOthers DEF TypeOK
<1>10. PhaseInv' /\ EndInv'
  BY <1>1, <1>4, PhaseKept, EndKept
<1>11. QueueInv'
  BY <1>1, <1>4, <1>7, QueueKept DEF Adding
<1>12. CountInv' /\ Justified'
  BY <1>1, <1>5 DEF CountInv, Justified, ProvenBy
<1>13. PassedInv'
  BY <1>1, <1>3, <1>4, PassedKept
<1>14. MoveInv'
  <2>1. Taken(t) \notin counted
    BY <1>1, NotYetCounted
  <2>2. \A u \in Threads \ {t} : pc[u] \in {"sub"} \cup After => ParentMove(u) \in Moves
    BY BusyParents
  <2>3. \A m \in Moves : move_failed'[m] = 1 => \E c \in ChildrenOf(graph, m) : status[c] = 0
    BY <1>8 DEF MoveInv
  <2>4. \A u \in Threads :
          pc'[u] = "sub" /\ status[Taken(u)'] = 0 => move_failed'[ParentMove(u)'] = 1
    <3> TAKE u \in Threads
    <3>1. CASE u = t
      BY <1>3, <1>6, <1>7, <1>8, <3>1, NextEntry, <1>1
    <3>2. CASE u # t
      BY <1>5, <1>8, <2>2, <3>2 DEF MoveInv, Before
    <3> QED
      BY <3>1, <3>2
  <2>5. \A c \in counted : status[c] = 0 => move_failed'[graph.parent_move[c]] = 1
    <3> TAKE c \in counted
    <3> HAVE status[c] = 0
    <3>1. move_failed[graph.parent_move[c]] = 1
      BY DEF MoveInv
    <3>2. c # 0
      BY DEF PassedInv
    <3>3. graph.parent_move[c] \in Moves
      BY <3>2, Shape DEF TypeOK
    <3> QED
      BY <1>8, <3>1, <3>3
  <2>6. \A u \in Threads : pc'[u] = "win" => move_failed'[ParentMove(u)'] = 0
    <3> SUFFICES ASSUME NEW u \in Threads \ {t}, pc[u] = "win"
                 PROVE  move_failed'[ParentMove(u)] = 0
      BY <1>5, <1>7 DEF After, Deciding
    <3>1. pc[u] \in After /\ ParentMove(u) \in Moves
      BY <2>2 DEF After, Deciding
    <3>2. ChildrenOf(graph, ParentMove(u)) \subseteq counted /\ move_failed[ParentMove(u)] = 0
      BY <3>1 DEF MoveInv
    <3> QED
      BY <1>8, <2>1, <3>1, <3>2
  <2>7. \A m \in lost : move_failed'[m] = 1
    BY <1>8 DEF MoveInv, TypeOK
  <2>8. \A u \in Threads : pc'[u] \in After =>
          /\ u # t /\ pc[u] \in After /\ pc'[u] = pc[u] /\ ParentMove(u) \in Moves
          /\ ParentMove(u)' = ParentMove(u) /\ ParentState(u)' = ParentState(u)
    BY <1>5, <1>7, <2>2 DEF After, Deciding, Adding
  <2>9. Deciding \subseteq After /\ {"win", "lose", "fall"} \subseteq After
    BY DEF After, Deciding
  <2>10. /\ \A u \in Threads : pc'[u] \in After => ChildrenOf(graph, ParentMove(u)') \subseteq counted
         /\ \A u \in Threads : pc'[u] = "lose" => move_failed'[ParentMove(u)'] = 1
         /\ \A u, v \in Threads :
              pc'[u] \in Deciding /\ pc'[v] \in Deciding /\ ParentMove(u)' = ParentMove(v)' => u = v
         /\ \A u \in Threads : pc'[u] \in Deciding => ParentMove(u)' \notin lost
         /\ \A u \in Threads : pc'[u] = "fall" => MovesOf(graph, ParentState(u)') \subseteq lost
    BY <1>8, <2>8, <2>9 DEF MoveInv
  <2> QED
    BY <1>1, <1>5, <2>3, <2>4, <2>5, <2>6, <2>7, <2>10 DEF MoveInv
<1>15. DecidedInv'
  BY <1>1, <1>5, <1>7 DEF DecidedInv, Before, After, Deciding
<1> QED
  BY <1>9, <1>10, <1>11, <1>12, <1>13, <1>14, <1>15

\* The subtraction from the parent move keeps the invariant: the state was not
\* counted, so the move was not decided.
LEMMA SubtractChildStep ==
  ASSUME IInv, NEW t \in Threads, SubtractChild(t)
  PROVE  IInv'
<1> USE DEF IInv
<1> DEFINE m0 == ParentMove(t)
<1>1. /\ pc[t] = "sub" /\ pc[t] \in Before /\ pc[t] \in Before \cup After
      /\ pc[t] \in {"sub"} \cup After
      /\ pc[t] \notin Adding /\ pc[t] \notin Deciding /\ pc[t] # "fall"
      /\ UNCHANGED <<status, remaining_moves, move_failed, completed_queue, queue_tail,
                     error_code, slot, lost>>
      /\ remaining_children' = [remaining_children EXCEPT ![m0] = @ - 1]
      /\ counted' = counted \cup {Taken(t)}
  BY DEF SubtractChild, At, Before, Adding, Deciding, queueVars
<1>2. /\ Taken(t) \in States /\ Taken(t) # 0 /\ m0 \in Moves
      /\ Taken(t) \in ChildrenOf(graph, m0) /\ Taken(t) \notin counted
  BY <1>1, BusyThread, BusyParents, NotYetCounted
<1>3. IF remaining_children[m0] = 1 THEN Goes(t, "read") ELSE NextItem(t)
  BY DEF SubtractChild, Goes
<1>4. OneStep(t) /\ (NextItem(t) \/ \E label \in After : Goes(t, label))
  <2>1. NextItem(t) \/ \E label \in After : Goes(t, label)
    BY <1>3 DEF After, Deciding
  <2> QED
    BY <1>1, <1>2, <2>1 DEF OneStep, SubtractChild, queueVars
<1>5. /\ graph' = graph /\ Threads' = Threads /\ States' = States /\ Moves' = Moves
      /\ \A u \in Threads \ {t} :
           /\ pc'[u] = pc[u]
           /\ pc[u] \in Before \cup After =>
                /\ Taken(u)' = Taken(u)
                /\ ParentMove(u)' = ParentMove(u) /\ ParentState(u)' = ParentState(u)
  BY <1>1, <1>4, SameOthers
<1>6. /\ pc'[t] \in {"take", "wait", "read"}
      /\ pc'[t] = "read" =>
           /\ Taken(t)' = Taken(t) /\ ParentMove(t)' = m0 /\ ParentState(t)' = ParentState(t)
      /\ pc'[t] = "read" <=> remaining_children[m0] = 1
  BY <1>1, <1>3, <1>4, SameEntry, NextEntry
<1> HIDE DEF m0
<1>7. \A m \in Moves :
        ChildrenOf(graph, m) \ counted' =
          IF m = m0 THEN (ChildrenOf(graph, m) \ counted) \ {Taken(t)}
          ELSE ChildrenOf(graph, m) \ counted
  <2>1. \A m \in Moves : Taken(t) \in ChildrenOf(graph, m) => m = m0
    BY <1>2 DEF ChildrenOf
  <2> QED
    BY <1>1, <1>2, <2>1
<1>8. /\ IsFiniteSet(ChildrenOf(graph, m0) \ counted')
      /\ Cardinality(ChildrenOf(graph, m0) \ counted') = remaining_children[m0] - 1
      /\ Cardinality(ChildrenOf(graph, m0) \ counted') \in Nat
  <2>1. IsFiniteSet(ChildrenOf(graph, m0) \ counted)
    BY FiniteParts
  <2>2. remaining_children[m0] = Cardinality(ChildrenOf(graph, m0) \ counted)
    BY <1>2 DEF CountInv
  <2> QED
    BY <1>2, <1>7, <2>1, <2>2, FS_RemoveElement, FS_CardinalityType
<1>9. ChildrenOf(graph, m0) \subseteq counted' <=> pc'[t] = "read"
  <2>1. Cardinality(ChildrenOf(graph, m0) \ counted') = 0
          <=> ChildrenOf(graph, m0) \ counted' = {}
    BY <1>8, FS_EmptySet
  <2>2. remaining_children[m0] - 1 = 0 <=> remaining_children[m0] = 1
    BY <1>2 DEF TypeOK
  <2> QED
    BY <1>6, <1>8, <2>1, <2>2
<1>10. TypeOK'
  <2>1. remaining_children' \in [Moves -> Nat]
    BY <1>1, <1>2, <1>8 DEF TypeOK
  <2> QED
    BY <1>1, <1>2, <1>4, <2>1, SameOthers DEF TypeOK
<1>11. PhaseInv' /\ EndInv'
  BY <1>1, <1>4, PhaseKept, EndKept
<1>12. QueueInv'
  BY <1>1, <1>4, <1>6, QueueKept DEF Adding
<1>13. CountInv'
  <2>1. \A m \in Moves :
          remaining_children'[m] = Cardinality(ChildrenOf(graph, m) \ counted')
    BY <1>1, <1>2, <1>7, <1>8 DEF CountInv, TypeOK
  <2> QED
    BY <1>1, <1>5, <2>1 DEF CountInv
<1>14. Justified'
  BY <1>1, <1>5 DEF Justified, ProvenBy
<1>15. PassedInv'
  BY <1>1, <1>2, <1>4, PassedKept
<1>16. \A u \in Threads \ {t} : pc[u] \in After => ParentMove(u) # m0
  BY <1>2 DEF MoveInv
<1>17. \A u \in Threads : pc'[u] \in After =>
         \/ /\ u # t /\ pc[u] \in After /\ pc'[u] = pc[u]
            /\ ParentMove(u)' = ParentMove(u) /\ ParentState(u)' = ParentState(u)
            /\ ParentMove(u) # m0
         \/ u = t /\ pc'[u] = "read" /\ ParentMove(u)' = m0
  BY <1>5, <1>6, <1>16 DEF After, Deciding, Adding
<1>18. MoveInv'
  <2>1. Deciding \subseteq After /\ {"win", "lose", "fall"} \subseteq After
    BY DEF After, Deciding
  <2>2. \A u \in Threads :
          pc'[u] = "sub" /\ status[Taken(u)'] = 0 => move_failed[ParentMove(u)'] = 1
    BY <1>5, <1>6 DEF MoveInv, Before
  <2>3. \A c \in counted' : status[c] = 0 => move_failed[graph.parent_move[c]] = 1
    BY <1>1 DEF MoveInv, ParentMove
  <2>4. \A u \in Threads : pc'[u] \in After => ChildrenOf(graph, ParentMove(u)') \subseteq counted'
    BY <1>1, <1>9, <1>17 DEF MoveInv
  <2>5. m0 \notin lost
    BY <1>2 DEF MoveInv
  <2>6. /\ \A u \in Threads : pc'[u] = "win" => move_failed[ParentMove(u)'] = 0
        /\ \A u \in Threads : pc'[u] = "lose" => move_failed[ParentMove(u)'] = 1
        /\ \A u, v \in Threads :
             pc'[u] \in Deciding /\ pc'[v] \in Deciding /\ ParentMove(u)' = ParentMove(v)' => u = v
        /\ \A u \in Threads : pc'[u] \in Deciding => ParentMove(u)' \notin lost
        /\ \A u \in Threads : pc'[u] = "fall" => MovesOf(graph, ParentState(u)') \subseteq lost
    BY <1>17, <2>1, <2>5 DEF MoveInv
  <2>7. /\ \A m \in Moves : move_failed[m] = 1 => \E c \in ChildrenOf(graph, m) : status[c] = 0
        /\ \A m \in lost : ChildrenOf(graph, m) \subseteq counted' /\ move_failed[m] = 1
    BY <1>1 DEF MoveInv
  <2> QED
    BY <1>1, <1>5, <2>2, <2>3, <2>4, <2>6, <2>7 DEF MoveInv
<1>19. DecidedInv'
  <2>1. ASSUME NEW m \in Moves, ChildrenOf(graph, m) # {}, ChildrenOf(graph, m) \subseteq counted'
        PROVE  \/ m \in lost
               \/ status[graph.parent_state[m]] # -1
               \/ \E u \in Threads : pc'[u] \in Deciding /\ ParentMove(u)' = m
    <3>1. CASE m = m0
      <4>1. pc'[t] = "read" /\ ParentMove(t)' = m
        BY <1>6, <1>9, <2>1, <3>1
      <4> QED
        BY <4>1 DEF Deciding
    <3>2. CASE m # m0
      <4>1. ChildrenOf(graph, m) \subseteq counted
        BY <1>7, <2>1, <3>2
      <4>2. \A u \in Threads : pc[u] \in Deciding =>
              pc'[u] \in Deciding /\ ParentMove(u)' = ParentMove(u)
        BY <1>1, <1>5 DEF After
      <4> QED
        BY <2>1, <4>1, <4>2 DEF DecidedInv
    <3> QED
      BY <3>1, <3>2
  <2>2. \A u \in Threads : pc[u] = "fall" => pc'[u] = "fall" /\ ParentState(u)' = ParentState(u)
    BY <1>1, <1>5 DEF After
  <2> QED
    BY <1>1, <1>5, <2>1, <2>2 DEF DecidedInv
<1> QED
  BY <1>10, <1>11, <1>12, <1>13, <1>14, <1>15, <1>18, <1>19

\* Reading the mark of the move keeps the invariant.
LEMMA ReadFailedStep ==
  ASSUME IInv, NEW t \in Threads, ReadFailed(t)
  PROVE  IInv'
<1> USE DEF IInv
<1>1. /\ pc[t] = "read" /\ pc[t] \in After /\ pc[t] \in Before \cup After
      /\ pc[t] \in {"sub"} \cup After
      /\ pc[t] \notin Adding /\ pc[t] \in Deciding /\ pc[t] # "fall"
      /\ UNCHANGED <<status, remaining_moves, remaining_children, move_failed, completed_queue,
                     queue_tail, error_code, slot, counted, lost>>
  BY DEF ReadFailed, At, After, Adding, Deciding, queueVars, counterVars, historyVars
<1>2. Taken(t) # 0 /\ ParentMove(t) \in Moves
  BY <1>1, BusyParents
<1>3. IF move_failed[ParentMove(t)] = 0 THEN Goes(t, "win") ELSE Goes(t, "lose")
  BY DEF ReadFailed, Goes
<1>4. OneStep(t) /\ \E label \in After : Goes(t, label)
  <2>1. \E label \in After : Goes(t, label)
    BY <1>3 DEF After, Deciding
  <2> QED
    BY <1>1, <1>2, <2>1 DEF OneStep, ReadFailed, queueVars
<1>5. /\ graph' = graph /\ Threads' = Threads /\ States' = States /\ Moves' = Moves
      /\ \A u \in Threads \ {t} :
           /\ pc'[u] = pc[u]
           /\ pc[u] \in Before \cup After =>
                /\ Taken(u)' = Taken(u)
                /\ ParentMove(u)' = ParentMove(u) /\ ParentState(u)' = ParentState(u)
  BY <1>1, <1>4, SameOthers
<1>6. /\ pc'[t] = IF move_failed[ParentMove(t)] = 0 THEN "win" ELSE "lose"
      /\ Taken(t)' = Taken(t)
      /\ ParentMove(t)' = ParentMove(t) /\ ParentState(t)' = ParentState(t)
  BY <1>1, <1>3, <1>4, SameEntry
<1>7. TypeOK'
  BY <1>1, <1>4, SameOthers DEF TypeOK
<1>8. PhaseInv' /\ EndInv'
  BY <1>1, <1>4, PhaseKept, EndKept
<1>9. QueueInv'
  BY <1>1, <1>4, <1>6, QueueKept DEF Adding
<1>10. CountInv' /\ Justified'
  BY <1>1, <1>5 DEF CountInv, Justified, ProvenBy
<1>11. PassedInv'
  BY <1>1, <1>4, PassedKept
<1>12. \A u \in Threads :
         /\ pc'[u] \in After <=> pc[u] \in After
         /\ pc'[u] \in Deciding <=> pc[u] \in Deciding
         /\ pc'[u] = "sub" <=> pc[u] = "sub"
         /\ pc'[u] = "fall" <=> pc[u] = "fall"
         /\ pc[u] \in Before \cup After =>
              /\ Taken(u)' = Taken(u)
              /\ ParentMove(u)' = ParentMove(u) /\ ParentState(u)' = ParentState(u)
  <2> TAKE u \in Threads
  <2>1. CASE u = t
    BY <1>1, <1>6, <2>1 DEF After, Deciding, Adding
  <2>2. CASE u # t
    BY <1>5, <2>2
  <2> QED
    BY <2>1, <2>2
<1>13. Deciding \subseteq Before \cup After /\ {"sub", "win", "lose", "fall"} \subseteq Before \cup After
  BY DEF Before, After, Deciding
<1>14. MoveInv'
  <2>1. /\ \A u \in Threads : pc'[u] = "win" => move_failed[ParentMove(u)'] = 0
        /\ \A u \in Threads : pc'[u] = "lose" => move_failed[ParentMove(u)'] = 1
    BY <1>2, <1>5, <1>6, <1>13 DEF MoveInv, TypeOK
  <2>2. /\ \A u \in Threads :
             pc'[u] = "sub" /\ status[Taken(u)'] = 0 => move_failed[ParentMove(u)'] = 1
        /\ \A u \in Threads : pc'[u] \in After => ChildrenOf(graph, ParentMove(u)') \subseteq counted
        /\ \A u, v \in Threads :
             pc'[u] \in Deciding /\ pc'[v] \in Deciding /\ ParentMove(u)' = ParentMove(v)' => u = v
        /\ \A u \in Threads : pc'[u] \in Deciding => ParentMove(u)' \notin lost
        /\ \A u \in Threads : pc'[u] = "fall" => MovesOf(graph, ParentState(u)') \subseteq lost
    BY <1>12, <1>13 DEF MoveInv
  <2> QED
    BY <1>1, <1>5, <2>1, <2>2 DEF MoveInv
<1>15. DecidedInv'
  BY <1>1, <1>5, <1>12, <1>13 DEF DecidedInv
<1> QED
  BY <1>7, <1>8, <1>9, <1>10, <1>11, <1>14, <1>15

\* A state that is counted has its status.
LEMMA CountedHasStatus ==
  ASSUME TypeOK, PhaseInv, QueueInv, PassedInv, NEW c \in counted
  PROVE  status[c] \in {0, 1}
<1>1. PICK i \in 0 .. batch_end - 1 : completed_queue[i] = c
  BY DEF PassedInv
<1> QED
  BY <1>1, BatchIsFilled

\* A decision for which there is a reason keeps the invariant.
LEMMA DecideStep ==
  ASSUME IInv, NEW t \in Threads, pc[t] \in {"win", "fall"},
         NEW value \in {0, 1}, Decide(t, value),
         UNCHANGED <<callVars, result, launchVars, remaining_moves, remaining_children,
                     move_failed, queueVars, batchVars, slot, historyVars>>,
         value = 1 => ProvenBy(graph, status, ParentState(t)),
         value = 0 =>
           /\ ~ graph.leaf_proven[ParentState(t)]
           /\ \A m \in MovesOf(graph, ParentState(t)) :
                \E c \in ChildrenOf(graph, m) : status[c] = 0
  PROVE  IInv'
<1> USE DEF IInv
<1> DEFINE s0 == ParentState(t)
<1>1. /\ pc[t] \in After /\ pc[t] \in Before \cup After /\ pc[t] \in {"sub"} \cup After
      /\ pc[t] \notin Adding /\ pc[t] \in Deciding \cup {"fall"} /\ pc[t] # "sub"
      /\ UNCHANGED <<remaining_moves, remaining_children, move_failed, completed_queue,
                     queue_tail, error_code, slot, counted, lost>>
  BY DEF After, Adding, Deciding, queueVars, historyVars
<1>2. /\ Taken(t) # 0 /\ ParentMove(t) \in Moves /\ s0 \in States
      /\ ParentMove(t) \in MovesOf(graph, s0)
  BY <1>1, BusyParents
<1>3. /\ status[s0] = -1 =>
           status' = [status EXCEPT ![s0] = value] /\ Goes(t, "append")
      /\ status[s0] # -1 => status' = status /\ NextItem(t)
  BY DEF Decide, Goes
<1>4. OneStep(t) /\ (NextItem(t) \/ \E label \in After : Goes(t, label))
  <2>1. NextItem(t) \/ \E label \in After : Goes(t, label)
    BY <1>3 DEF After, Adding
  <2> QED
    BY <1>1, <1>2, <2>1 DEF OneStep, queueVars
<1>5. /\ graph' = graph /\ Threads' = Threads /\ States' = States /\ Moves' = Moves
      /\ \A u \in Threads \ {t} :
           /\ pc'[u] = pc[u]
           /\ pc[u] \in Before \cup After =>
                /\ Taken(u)' = Taken(u)
                /\ ParentMove(u)' = ParentMove(u) /\ ParentState(u)' = ParentState(u)
  BY <1>1, <1>4, SameOthers
<1>6. /\ pc'[t] \in {"take", "wait", "append"}
      /\ pc'[t] = "append" => ParentMove(t)' = ParentMove(t)
  BY <1>1, <1>3, <1>4, SameEntry, NextEntry
<1>7. /\ status' \in [States -> {-1, 0, 1}]
      /\ \A s \in States : status[s] # -1 => status'[s] = status[s]
      /\ \A s \in States : s # s0 => status'[s] = status[s]
      /\ status'[s0] # -1
      /\ status[s0] = -1 => status'[s0] = value
  BY <1>2, <1>3 DEF TypeOK
<1>8. \A c \in counted : status'[c] = status[c]
  BY <1>7, CountedHasStatus DEF TypeOK
<1>9. TypeOK'
  BY <1>1, <1>4, <1>7, SameOthers DEF TypeOK
<1>10. PhaseInv' /\ EndInv'
  BY <1>1, <1>4, PhaseKept, EndKept
<1>11. QueueInv'
  <2>1. CASE status[s0] = -1
    BY <1>1, <1>3, <1>4, <2>1, QueueAfterDecision
  <2>2. CASE status[s0] # -1
    BY <1>1, <1>3, <1>4, <2>2, NextEntry, QueueKept DEF Adding
  <2> QED
    BY <2>1, <2>2
<1>12. CountInv'
  BY <1>1, <1>5 DEF CountInv
<1>13. PassedInv'
  BY <1>1, <1>4, PassedKept
<1> HIDE DEF s0
<1>14. Justified'
  <2>1. \A m \in Move(graph) : ChildrenOf(graph, m) \subseteq States
    BY DEF ChildrenOf, States
  <2>2. \A s \in States : ProvenBy(graph, status, s) => ProvenBy(graph, status', s)
    BY <1>7, <2>1 DEF ProvenBy, MovesOf
  <2>3. ASSUME NEW s \in States, status'[s] = 1
        PROVE  ProvenBy(graph, status', s)
    BY <1>7, <2>2, <2>3 DEF Justified, s0
  <2>4. ASSUME NEW s \in States, status'[s] = 0
        PROVE  /\ ~ graph.leaf_proven[s]
               /\ \A m \in MovesOf(graph, s) : \E c \in ChildrenOf(graph, m) : status'[c] = 0
    <3>1. /\ ~ graph.leaf_proven[s]
          /\ \A m \in MovesOf(graph, s) : \E c \in ChildrenOf(graph, m) : status[c] = 0
      BY <1>7, <2>4 DEF Justified, s0
    <3>2. \A m \in MovesOf(graph, s) : ChildrenOf(graph, m) \subseteq States
      BY <2>1 DEF MovesOf
    <3> QED
      BY <1>7, <3>1, <3>2
  <2> QED
    BY <1>5, <2>3, <2>4 DEF Justified
<1>15. \A u \in Threads : pc'[u] \in {"sub"} \cup Deciding \cup {"fall"} =>
         /\ u # t /\ pc'[u] = pc[u] /\ pc[u] \in Before \cup After
         /\ Taken(u)' = Taken(u)
         /\ ParentMove(u)' = ParentMove(u) /\ ParentState(u)' = ParentState(u)
  BY <1>5, <1>6 DEF Before, After, Deciding
<1>16. MoveInv'
  <2>1. \A m \in Moves : move_failed[m] = 1 => \E c \in ChildrenOf(graph, m) : status'[c] = 0
    <3>1. \A m \in Moves : ChildrenOf(graph, m) \subseteq States
      BY DEF ChildrenOf, States
    <3> QED
      BY <1>7, <3>1 DEF MoveInv
  <2>2. \A u \in Threads :
          pc'[u] = "sub" /\ status'[Taken(u)'] = 0 => move_failed[ParentMove(u)'] = 1
    <3>1. \A u \in Threads : pc[u] = "sub" => Taken(u) \in States /\ status[Taken(u)] # -1
      BY BusyThread DEF Before
    <3> QED
      BY <1>7, <1>15, <3>1 DEF MoveInv
  <2>3. \A c \in counted : status'[c] = 0 => move_failed[graph.parent_move[c]] = 1
    BY <1>8 DEF MoveInv
  <2>4. \A u \in Threads : pc'[u] \in After => ChildrenOf(graph, ParentMove(u)') \subseteq counted
    <3> TAKE u \in Threads
    <3>1. CASE u = t
      BY <1>1, <1>6, <3>1 DEF MoveInv, After, Deciding, Adding
    <3>2. CASE u # t
      BY <1>5, <3>2 DEF MoveInv
    <3> QED
      BY <3>1, <3>2
  <2>5. {"win", "lose"} \subseteq Deciding
    BY DEF Deciding
  <2>6. /\ \A u \in Threads : pc'[u] = "win" => move_failed[ParentMove(u)'] = 0
        /\ \A u \in Threads : pc'[u] = "lose" => move_failed[ParentMove(u)'] = 1
        /\ \A u, v \in Threads :
             pc'[u] \in Deciding /\ pc'[v] \in Deciding /\ ParentMove(u)' = ParentMove(v)' => u = v
        /\ \A u \in Threads : pc'[u] \in Deciding => ParentMove(u)' \notin lost
        /\ \A u \in Threads : pc'[u] = "fall" => MovesOf(graph, ParentState(u)') \subseteq lost
    BY <1>15, <2>5 DEF MoveInv
  <2> QED
    BY <1>1, <1>5, <2>1, <2>2, <2>3, <2>4, <2>6 DEF MoveInv
<1>17. DecidedInv'
  <2>1. \A s \in States : HostStatus(graph, s) # -1 => status'[s] = HostStatus(graph, s)
    BY <1>7 DEF DecidedInv
  <2>2. \A u \in Threads \ {t} : pc[u] \in Deciding \cup {"fall"} =>
          /\ pc'[u] = pc[u]
          /\ ParentMove(u)' = ParentMove(u) /\ ParentState(u)' = ParentState(u)
    BY <1>5 DEF After
  <2>3. ASSUME NEW m \in Moves, ChildrenOf(graph, m) # {}, ChildrenOf(graph, m) \subseteq counted
        PROVE  \/ m \in lost
               \/ status'[graph.parent_state[m]] # -1
               \/ \E u \in Threads : pc'[u] \in Deciding /\ ParentMove(u)' = m
    <3>1. CASE m \in lost
      BY <3>1
    <3>2. CASE status[graph.parent_state[m]] # -1
      BY <1>7, <3>2, Shape
    <3>3. CASE \E u \in Threads : pc[u] \in Deciding /\ ParentMove(u) = m
      BY <1>7, <2>2, <3>3 DEF ParentState, s0
    <3> QED
      BY <2>3, <3>1, <3>2, <3>3 DEF DecidedInv
  <2>4. ASSUME NEW s \in States, MovesOf(graph, s) # {}, MovesOf(graph, s) \subseteq lost
        PROVE  \/ status'[s] # -1
               \/ \E u \in Threads : pc'[u] = "fall" /\ ParentState(u)' = s
    <3>1. CASE status[s] # -1
      BY <1>7, <3>1
    <3>2. CASE \E u \in Threads : pc[u] = "fall" /\ ParentState(u) = s
      BY <1>7, <2>2, <3>2 DEF s0
    <3> QED
      BY <2>4, <3>1, <3>2 DEF DecidedInv
  <2> QED
    BY <1>1, <1>5, <2>1, <2>3, <2>4 DEF DecidedInv
<1> QED
  BY <1>9, <1>10, <1>11, <1>12, <1>13, <1>14, <1>16, <1>17

\* The move that marks its state proven has only proven children.
LEMMA MarkProvenStep ==
  ASSUME IInv, NEW t \in Threads, MarkProven(t)
  PROVE  IInv'
<1> USE DEF IInv
<1>1. pc[t] = "win" /\ pc[t] \in After /\ pc[t] \in {"sub"} \cup After
  BY DEF MarkProven, At, After, Deciding
<1>2. ParentMove(t) \in MovesOf(graph, ParentState(t)) /\ ParentMove(t) \in Moves
  BY <1>1, BusyParents
<1>3. \A c \in ChildrenOf(graph, ParentMove(t)) : status[c] = 1
  <2> TAKE c \in ChildrenOf(graph, ParentMove(t))
  <2>1. c \in counted /\ graph.parent_move[c] = ParentMove(t)
    BY <1>1 DEF MoveInv, ChildrenOf
  <2>2. status[c] # 0
    BY <1>1, <2>1 DEF MoveInv
  <2> QED
    BY <2>1, <2>2, CountedHasStatus
<1>4. ProvenBy(graph, status, ParentState(t))
  BY <1>2, <1>3 DEF ProvenBy
<1> QED
  BY <1>1, <1>4, DecideStep DEF MarkProven

\* A state is marked not proven when each of its moves has a child that is not.
LEMMA MarkUnprovenStep ==
  ASSUME IInv, NEW t \in Threads, MarkUnproven(t)
  PROVE  IInv'
<1> USE DEF IInv
<1>1. pc[t] = "fall" /\ pc[t] \in {"sub"} \cup After
  BY DEF MarkUnproven, At, After
<1>2. ParentMove(t) \in MovesOf(graph, ParentState(t)) /\ ParentState(t) \in States
  BY <1>1, BusyParents
<1>3. ~ graph.leaf_proven[ParentState(t)]
  BY <1>2, Shape
<1>4. \A m \in MovesOf(graph, ParentState(t)) : \E c \in ChildrenOf(graph, m) : status[c] = 0
  <2> TAKE m \in MovesOf(graph, ParentState(t))
  <2>1. m \in lost /\ m \in Moves
    BY <1>1 DEF MoveInv, MovesOf, Moves
  <2> QED
    BY <2>1 DEF MoveInv
<1> QED
  BY <1>1, <1>3, <1>4, DecideStep DEF MarkUnproven

\* The subtraction of a failed move keeps the invariant: the thread alone has
\* decided the move, and the last one finds every move of the state failed.
LEMMA SubtractMoveStep ==
  ASSUME IInv, NEW t \in Threads, SubtractMove(t)
  PROVE  IInv'
<1> USE DEF IInv
<1> DEFINE m0 == ParentMove(t)
           s0 == ParentState(t)
<1>1. /\ pc[t] = "lose" /\ pc[t] \in After /\ pc[t] \in Before \cup After
      /\ pc[t] \in {"sub"} \cup After
      /\ pc[t] \notin Adding /\ pc[t] \in Deciding /\ pc[t] # "fall"
      /\ UNCHANGED <<status, remaining_children, move_failed, completed_queue, queue_tail,
                     error_code, slot, counted>>
      /\ remaining_moves' = [remaining_moves EXCEPT ![s0] = @ - 1]
      /\ lost' = lost \cup {m0}
  BY DEF SubtractMove, At, After, Adding, Deciding, queueVars
<1>2. /\ Taken(t) # 0 /\ m0 \in Moves /\ s0 \in States
      /\ m0 \in MovesOf(graph, s0) /\ m0 \notin lost
      /\ ChildrenOf(graph, m0) \subseteq counted /\ move_failed[m0] = 1
  BY <1>1, BusyParents DEF MoveInv
<1>3. IF remaining_moves[s0] = 1 THEN Goes(t, "fall") ELSE NextItem(t)
  BY DEF SubtractMove, Goes
<1>4. OneStep(t) /\ (NextItem(t) \/ \E label \in After : Goes(t, label))
  <2>1. NextItem(t) \/ \E label \in After : Goes(t, label)
    BY <1>3 DEF After
  <2> QED
    BY <1>1, <1>2, <2>1 DEF OneStep, SubtractMove, queueVars
<1>5. /\ graph' = graph /\ Threads' = Threads /\ States' = States /\ Moves' = Moves
      /\ \A u \in Threads \ {t} :
           /\ pc'[u] = pc[u]
           /\ pc[u] \in Before \cup After =>
                /\ Taken(u)' = Taken(u)
                /\ ParentMove(u)' = ParentMove(u) /\ ParentState(u)' = ParentState(u)
  BY <1>1, <1>4, SameOthers
<1>6. /\ pc'[t] \in {"take", "wait", "fall"}
      /\ pc'[t] = "fall" => ParentMove(t)' = m0 /\ ParentState(t)' = s0
      /\ pc'[t] = "fall" <=> remaining_moves[s0] = 1
  BY <1>1, <1>3, <1>4, SameEntry, NextEntry
<1> HIDE DEF m0
<1>7. \A s \in States :
        MovesOf(graph, s) \ lost' =
          IF s = s0 THEN (MovesOf(graph, s) \ lost) \ {m0} ELSE MovesOf(graph, s) \ lost
  <2>1. \A s \in States : m0 \in MovesOf(graph, s) => s = s0
    BY <1>2 DEF MovesOf
  <2> HIDE DEF s0
  <2> QED
    BY <1>1, <1>2, <2>1
<1> HIDE DEF s0
<1>8. /\ IsFiniteSet(MovesOf(graph, s0) \ lost')
      /\ Cardinality(MovesOf(graph, s0) \ lost') = remaining_moves[s0] - 1
      /\ Cardinality(MovesOf(graph, s0) \ lost') \in Nat
  <2>1. IsFiniteSet(MovesOf(graph, s0) \ lost)
    BY FiniteParts
  <2>2. remaining_moves[s0] = Cardinality(MovesOf(graph, s0) \ lost)
    BY <1>2 DEF CountInv
  <2> QED
    BY <1>2, <1>7, <2>1, <2>2, FS_RemoveElement, FS_CardinalityType
<1>9. MovesOf(graph, s0) \subseteq lost' <=> pc'[t] = "fall"
  <2>1. Cardinality(MovesOf(graph, s0) \ lost') = 0 <=> MovesOf(graph, s0) \ lost' = {}
    BY <1>8, FS_EmptySet
  <2>2. remaining_moves[s0] - 1 = 0 <=> remaining_moves[s0] = 1
    BY <1>2 DEF TypeOK
  <2> QED
    BY <1>6, <1>8, <2>1, <2>2
<1>10. TypeOK'
  <2>1. remaining_moves' \in [States -> Nat]
    BY <1>1, <1>2, <1>8 DEF TypeOK
  <2> QED
    BY <1>1, <1>2, <1>4, <2>1, SameOthers DEF TypeOK
<1>11. PhaseInv' /\ EndInv'
  BY <1>1, <1>4, PhaseKept, EndKept
<1>12. QueueInv'
  BY <1>1, <1>4, <1>6, QueueKept DEF Adding
<1>13. CountInv'
  <2>1. \A s \in States : remaining_moves'[s] = Cardinality(MovesOf(graph, s) \ lost')
    BY <1>1, <1>2, <1>7, <1>8 DEF CountInv, TypeOK
  <2> QED
    BY <1>1, <1>5, <2>1 DEF CountInv
<1>14. Justified'
  BY <1>1, <1>5 DEF Justified, ProvenBy
<1>15. PassedInv'
  BY <1>1, <1>4, PassedKept
<1>16. \A u \in Threads \ {t} : pc[u] \in Deciding => ParentMove(u) # m0
  BY <1>1 DEF MoveInv, m0
<1>17. MoveInv'
  <2>1. \A u \in Threads :
          pc'[u] = "sub" /\ status[Taken(u)'] = 0 => move_failed[ParentMove(u)'] = 1
    BY <1>5, <1>6 DEF MoveInv, Before
  <2>2. \A u \in Threads : pc'[u] \in After => ChildrenOf(graph, ParentMove(u)') \subseteq counted
    <3> TAKE u \in Threads
    <3>1. CASE u = t
      BY <1>2, <1>6, <3>1 DEF After, Deciding, Adding
    <3>2. CASE u # t
      BY <1>5, <3>2 DEF MoveInv
    <3> QED
      BY <3>1, <3>2
  <2>3. \A u \in Threads : pc'[u] \in Deciding =>
          /\ u # t /\ pc'[u] = pc[u] /\ ParentMove(u)' = ParentMove(u) /\ ParentMove(u) # m0
    BY <1>5, <1>6, <1>16 DEF After, Deciding
  <2>4. {"win", "lose"} \subseteq Deciding
    BY DEF Deciding
  <2>5. /\ \A u \in Threads : pc'[u] = "win" => move_failed[ParentMove(u)'] = 0
        /\ \A u \in Threads : pc'[u] = "lose" => move_failed[ParentMove(u)'] = 1
        /\ \A u, v \in Threads :
             pc'[u] \in Deciding /\ pc'[v] \in Deciding /\ ParentMove(u)' = ParentMove(v)' => u = v
        /\ \A u \in Threads : pc'[u] \in Deciding => ParentMove(u)' \notin lost'
    BY <1>1, <2>3, <2>4 DEF MoveInv
  <2>6. \A u \in Threads : pc'[u] = "fall" => MovesOf(graph, ParentState(u)') \subseteq lost'
    <3> TAKE u \in Threads
    <3>1. CASE u = t
      BY <1>6, <1>9, <3>1
    <3>2. CASE u # t
      BY <1>1, <1>5, <3>2 DEF MoveInv, After
    <3> QED
      BY <3>1, <3>2
  <2>7. \A m \in lost' : ChildrenOf(graph, m) \subseteq counted /\ move_failed[m] = 1
    BY <1>1, <1>2 DEF MoveInv
  <2> QED
    BY <1>1, <1>5, <2>1, <2>2, <2>5, <2>6, <2>7 DEF MoveInv
<1>18. DecidedInv'
  <2>1. ASSUME NEW m \in Moves, ChildrenOf(graph, m) # {}, ChildrenOf(graph, m) \subseteq counted
        PROVE  \/ m \in lost'
               \/ status[graph.parent_state[m]] # -1
               \/ \E u \in Threads : pc'[u] \in Deciding /\ ParentMove(u)' = m
    <3>1. CASE m = m0
      BY <1>1, <3>1
    <3>2. CASE m # m0
      <4>1. \A u \in Threads : pc[u] \in Deciding /\ ParentMove(u) = m =>
              pc'[u] \in Deciding /\ ParentMove(u)' = m
        BY <1>5, <3>2 DEF After, m0
      <4> QED
        BY <1>1, <2>1, <4>1 DEF DecidedInv
    <3> QED
      BY <3>1, <3>2
  <2>2. ASSUME NEW s \in States, MovesOf(graph, s) # {}, MovesOf(graph, s) \subseteq lost'
        PROVE  \/ status[s] # -1
               \/ \E u \in Threads : pc'[u] = "fall" /\ ParentState(u)' = s
    <3>1. CASE s = s0
      BY <1>6, <1>9, <2>2, <3>1
    <3>2. CASE s # s0
      <4>1. MovesOf(graph, s) \subseteq lost
        BY <1>7, <2>2, <3>2
      <4>2. \A u \in Threads : pc[u] = "fall" =>
              pc'[u] = "fall" /\ ParentState(u)' = ParentState(u)
        BY <1>1, <1>5 DEF After
      <4> QED
        BY <2>2, <4>1, <4>2 DEF DecidedInv
    <3> QED
      BY <3>1, <3>2
  <2> QED
    BY <1>1, <1>5, <2>1, <2>2 DEF DecidedInv
<1> QED
  BY <1>10, <1>11, <1>12, <1>13, <1>14, <1>15, <1>17, <1>18

\* A step that only moves the queue keeps what is known of moves and states.
LEMMA QueueStep ==
  ASSUME IInv, NEW t \in Threads, pc[t] \in Adding, OneStep(t),
         NextItem(t) \/ Goes(t, "write"),
         UNCHANGED <<callVars, counterVars, historyVars>>
  PROVE  (CountInv /\ PassedInv /\ MoveInv /\ DecidedInv /\ Justified)'
<1> USE DEF IInv
<1>1. /\ pc[t] \in After /\ pc[t] \in Before \cup After
      /\ pc[t] \notin Deciding /\ pc[t] # "fall" /\ pc[t] # "sub"
      /\ UNCHANGED <<status, remaining_moves, remaining_children, move_failed, counted, lost>>
  BY DEF After, Adding, Deciding, counterVars, historyVars
<1>2. NextItem(t) \/ \E label \in After : Goes(t, label)
  BY DEF After, Adding
<1>3. /\ graph' = graph /\ Threads' = Threads /\ States' = States /\ Moves' = Moves
      /\ \A u \in Threads \ {t} :
           /\ pc'[u] = pc[u]
           /\ pc[u] \in Before \cup After =>
                /\ Taken(u)' = Taken(u)
                /\ ParentMove(u)' = ParentMove(u) /\ ParentState(u)' = ParentState(u)
  BY <1>1, SameOthers
<1>4. /\ pc'[t] \in {"take", "wait", "write"}
      /\ pc'[t] = "write" => ParentMove(t)' = ParentMove(t)
  BY <1>1, SameEntry, NextEntry
<1>5. CountInv' /\ Justified'
  BY <1>1, <1>3 DEF CountInv, Justified, ProvenBy
<1>6. PassedInv'
  BY <1>1, <1>2, PassedKept
<1>7. \A u \in Threads : pc'[u] \in {"sub", "fall"} \cup Deciding =>
        /\ pc'[u] = pc[u] /\ Taken(u)' = Taken(u)
        /\ ParentMove(u)' = ParentMove(u) /\ ParentState(u)' = ParentState(u)
  BY <1>3, <1>4 DEF Before, After, Deciding
<1>8. MoveInv'
  <2>1. \A u \in Threads : pc'[u] \in After => ChildrenOf(graph, ParentMove(u)') \subseteq counted
    <3> TAKE u \in Threads
    <3>1. CASE u = t
      BY <1>1, <1>4, <3>1 DEF MoveInv, After, Deciding, Adding
    <3>2. CASE u # t
      BY <1>3, <3>2 DEF MoveInv
    <3> QED
      BY <3>1, <3>2
  <2>2. {"win", "lose"} \subseteq Deciding
    BY DEF Deciding
  <2>3. /\ \A u \in Threads :
             pc'[u] = "sub" /\ status[Taken(u)'] = 0 => move_failed[ParentMove(u)'] = 1
        /\ \A u \in Threads : pc'[u] = "win" => move_failed[ParentMove(u)'] = 0
        /\ \A u \in Threads : pc'[u] = "lose" => move_failed[ParentMove(u)'] = 1
        /\ \A u, v \in Threads :
             pc'[u] \in Deciding /\ pc'[v] \in Deciding /\ ParentMove(u)' = ParentMove(v)' => u = v
        /\ \A u \in Threads : pc'[u] \in Deciding => ParentMove(u)' \notin lost
        /\ \A u \in Threads : pc'[u] = "fall" => MovesOf(graph, ParentState(u)') \subseteq lost
    BY <1>7, <2>2 DEF MoveInv
  <2> QED
    BY <1>1, <1>3, <2>1, <2>3 DEF MoveInv
<1>9. DecidedInv'
  <2>1. \A u \in Threads : pc[u] \in {"fall"} \cup Deciding =>
          /\ pc'[u] = pc[u]
          /\ ParentMove(u)' = ParentMove(u) /\ ParentState(u)' = ParentState(u)
    BY <1>1, <1>3 DEF After
  <2> QED
    BY <1>1, <1>3, <2>1 DEF DecidedInv
<1> QED
  BY <1>5, <1>6, <1>8, <1>9

\* Reserving a slot keeps the invariant: the queue does not overflow.
LEMMA ReserveSlotStep ==
  ASSUME IInv, NEW t \in Threads, ReserveSlot(t)
  PROVE  IInv'
<1> USE DEF IInv
<1>1. /\ pc[t] = "append" /\ pc[t] \in Adding /\ pc[t] \in After /\ pc[t] \in Before \cup After
      /\ pc[t] \in {"sub"} \cup After
      /\ UNCHANGED <<callVars, counterVars, historyVars, status, remaining_moves,
                     remaining_children, move_failed, completed_queue, counted, lost>>
      /\ slot' = [slot EXCEPT ![t] = queue_tail] /\ queue_tail' = queue_tail + 1
  BY DEF ReserveSlot, At, After, Adding, counterVars, historyVars
<1>2. Taken(t) # 0
  BY <1>1, BusyParents
<1>3. Goes(t, "write") /\ error_code' = error_code
  BY <1>1, SlotIsLeft DEF ReserveSlot, Goes
<1>4. OneStep(t)
  <2>1. \E label \in {"sub"} \cup After : Goes(t, label) /\ Taken(t) # 0
    BY <1>2, <1>3 DEF After, Adding
  <2> QED
    BY <1>1, <2>1 DEF OneStep, ReserveSlot
<1>5. TypeOK'
  <2>1. slot' \in [Threads -> Nat] /\ queue_tail' \in Nat
    BY <1>1 DEF TypeOK
  <2> QED
    BY <1>1, <1>3, <1>4, <2>1, SameOthers DEF TypeOK
<1>6. PhaseInv' /\ EndInv'
  BY <1>1, <1>3, <1>4, PhaseKept, EndKept
<1>7. QueueInv'
  BY <1>1, <1>3, <1>4, QueueAfterReserve
<1>8. (CountInv /\ PassedInv /\ MoveInv /\ DecidedInv /\ Justified)'
  BY <1>1, <1>3, <1>4, QueueStep
<1> QED
  BY <1>5, <1>6, <1>7, <1>8

\* Filling the slot keeps the invariant: it is behind the batch.
LEMMA FillSlotStep ==
  ASSUME IInv, NEW t \in Threads, FillSlot(t)
  PROVE  IInv'
<1> USE DEF IInv
<1>1. /\ pc[t] = "write" /\ pc[t] \in Adding /\ pc[t] \in After /\ pc[t] \in Before \cup After
      /\ pc[t] \in {"sub"} \cup After
      /\ UNCHANGED <<callVars, counterVars, historyVars, status, remaining_moves,
                     remaining_children, move_failed, queue_tail, error_code, slot, counted,
                     lost>>
      /\ completed_queue' = [completed_queue EXCEPT ![slot[t]] = ParentState(t)]
      /\ NextItem(t)
  BY DEF FillSlot, At, After, Adding, counterVars, historyVars
<1>2. ParentState(t) \in States
  BY <1>1, BusyParents
<1>3. \A i \in 0 .. batch_end - 1 : i # slot[t]
  BY <1>1 DEF QueueInv, TypeOK
<1>4. OneStep(t)
  <2>1. \A i \in 0 .. batch_end - 1 : completed_queue'[i] = completed_queue[i]
    BY <1>1, <1>3
  <2> QED
    BY <1>1, <2>1 DEF OneStep, FillSlot
<1>5. TypeOK'
  <2>1. completed_queue' \in [States -> States]
    BY <1>1, <1>2 DEF TypeOK
  <2> QED
    BY <1>1, <1>4, <2>1, SameOthers DEF TypeOK
<1>6. PhaseInv' /\ EndInv'
  BY <1>1, <1>4, PhaseKept, EndKept
<1>7. QueueInv'
  <2>1. pc'[t] \notin Adding
    BY <1>1, NextEntry DEF Adding
  <2> QED
    BY <1>1, <1>4, <2>1, QueueKept
<1>8. (CountInv /\ PassedInv /\ MoveInv /\ DecidedInv /\ Justified)'
  BY <1>1, <1>4, QueueStep
<1> QED
  BY <1>5, <1>6, <1>7, <1>8

-----------------------------------------------------------------------------
(* The initial states.                                                       *)

\* The rank numbers the finished states from 0 on.
LEMMA RankNumbers ==
  ASSUME NEW F \in SUBSET Int, IsFiniteSet(F), NEW rank \in [F -> Int],
         \A s \in F : rank[s] = Cardinality({r \in F : r < s})
  PROVE  /\ \A s \in F : rank[s] \in 0 .. Cardinality(F) - 1
         /\ \A s, u \in F : rank[s] = rank[u] => s = u
         /\ \A i \in 0 .. Cardinality(F) - 1 : \E s \in F : rank[s] = i
<1> DEFINE below(s) == {r \in F : r < s}
<1>1. \A s \in F : below(s) \subseteq F /\ s \notin below(s)
  OBVIOUS
<1>2. \A s, u \in F : s < u => below(s) \subseteq below(u) /\ s \in below(u)
  <2> SUFFICES ASSUME NEW s \in F, NEW u \in F, s < u, NEW r \in F, r < s
               PROVE  r < u
    OBVIOUS
  <2>1. r \in Int /\ s \in Int /\ u \in Int
    OBVIOUS
  <2> QED
    BY <2>1
<1>3. \A s \in F : rank[s] = Cardinality(below(s))
  OBVIOUS
<1>4. Cardinality(F) \in Nat
  BY FS_CardinalityType
<1> HIDE DEF below
<1>5. \A s \in F : IsFiniteSet(below(s)) /\ rank[s] \in Nat /\ rank[s] < Cardinality(F)
  <2> TAKE s \in F
  <2>1. below(s) # F /\ below(s) \subseteq F
    BY <1>1
  <2>2. IsFiniteSet(below(s))
    BY <2>1, FS_Subset
  <2>3. /\ Cardinality(below(s)) <= Cardinality(F)
        /\ Cardinality(below(s)) # Cardinality(F)
    BY <2>1, FS_Subset
  <2>4. Cardinality(below(s)) \in Nat
    BY <2>2, FS_CardinalityType
  <2> QED
    BY <1>3, <1>4, <2>2, <2>3, <2>4
<1>6. \A s, u \in F : s < u => rank[s] < rank[u]
  <2> TAKE s \in F, u \in F
  <2> HAVE s < u
  <2>1. below(s) \subseteq below(u) /\ below(s) # below(u)
    BY <1>1, <1>2
  <2>2. /\ Cardinality(below(s)) <= Cardinality(below(u))
        /\ Cardinality(below(s)) # Cardinality(below(u))
    BY <1>5, <2>1, FS_Subset
  <2>3. rank[s] \in Nat /\ rank[u] \in Nat
    BY <1>5
  <2> QED
    BY <1>3, <2>2, <2>3
<1>7. \A s, u \in F : rank[s] = rank[u] => s = u
  <2> TAKE s \in F, u \in F
  <2>1. s \in Int /\ u \in Int /\ rank[s] \in Nat /\ rank[u] \in Nat
    BY <1>5
  <2> QED
    BY <1>6, <2>1
<1>8. \A s \in F : rank[s] \in 0 .. Cardinality(F) - 1
  BY <1>4, <1>5
<1>9. \A i \in 0 .. Cardinality(F) - 1 : \E s \in F : rank[s] = i
  <2> DEFINE T == 0 .. Cardinality(F) - 1
  <2>1. IsFiniteSet(T) /\ Cardinality(T) = Cardinality(F)
    <3>1. Cardinality(F) - 1 \in Int /\ 0 \in Int
      BY <1>4
    <3> QED
      BY <1>4, <3>1, FS_Interval
  <2>2. rank \in [F -> T]
    BY <1>8
  <2> HIDE DEF T
  <2>3. rank \in Injection(F, T)
    BY <1>7, <2>2 DEF Injection, IsInjective
  <2>4. rank \in Surjection(F, T)
    BY <2>1, <2>3, FS_Injection
  <2> QED
    BY <2>4 DEF Surjection, T
<1> QED
  BY <1>7, <1>8, <1>9

\* What the queue holds when the kernels start: the finished states, each once.
LEMMA FirstQueue ==
  ASSUME Init
  PROVE  /\ completed_queue \in [States -> States]
         /\ queue_tail \in Nat /\ queue_tail <= graph.state_count
         /\ \A i \in 0 .. queue_tail - 1 : completed_queue[i] \in InitialFrontier(graph)
         /\ \A i, j \in 0 .. queue_tail - 1 : completed_queue[i] = completed_queue[j] => i = j
         /\ \A s \in InitialFrontier(graph) : \E i \in 0 .. queue_tail - 1 : completed_queue[i] = s
<1> DEFINE F == InitialFrontier(graph)
           rank == [s \in F |-> FrontierRank(graph, s)]
<1>1. /\ graph.state_count \in Nat \ {0} /\ States = 0 .. graph.state_count - 1
      /\ IsFiniteSet(States) /\ Cardinality(States) = graph.state_count
  <2>1. graph.state_count \in Nat \ {0} /\ States = 0 .. graph.state_count - 1
    BY HtPropagationAssumption DEF Init, ValidGraph, States, State
  <2>2. graph.state_count - 1 \in Int /\ 0 \in Int
    BY <2>1
  <2>3. IsFiniteSet(0 .. graph.state_count - 1)
    BY <2>2, FS_Interval
  <2>4. Cardinality(0 .. graph.state_count - 1) = graph.state_count
    BY <2>1, <2>2, FS_Interval
  <2> QED
    BY <2>1, <2>3, <2>4
<1>2. F \subseteq States
  BY DEF InitialFrontier, States
<1>3. F \in SUBSET Int
  BY <1>1, <1>2
<1>4. IsFiniteSet(F) /\ Cardinality(F) <= graph.state_count /\ Cardinality(F) \in Nat
  <2> HIDE DEF F
  <2> QED
    BY <1>1, <1>2, FS_Subset, FS_CardinalityType
<1>5. \A s \in F : rank[s] = Cardinality({r \in F : r < s})
  BY DEF FrontierRank
<1>6. rank \in [F -> Int]
  <2> SUFFICES ASSUME NEW s \in F PROVE FrontierRank(graph, s) \in Int
    OBVIOUS
  <2>1. IsFiniteSet({r \in F : r < s})
    <3> HIDE DEF F, rank
    <3>1. {r \in F : r < s} \subseteq F
      OBVIOUS
    <3> QED
      BY <1>4, <3>1, FS_Subset
  <2>2. Cardinality({r \in F : r < s}) \in Nat
    BY <2>1, FS_CardinalityType
  <2> QED
    BY <2>2 DEF FrontierRank
<1>7. /\ \A s \in F : rank[s] \in 0 .. Cardinality(F) - 1
      /\ \A s, u \in F : rank[s] = rank[u] => s = u
      /\ \A i \in 0 .. Cardinality(F) - 1 : \E s \in F : rank[s] = i
  <2> HIDE DEF F, rank
  <2> QED
    BY <1>3, <1>4, <1>5, <1>6, RankNumbers
<1>8. queue_tail = Cardinality(F)
  BY DEF Init
<1>9. \A i \in States : completed_queue[i] =
        IF \E s \in F : rank[s] = i THEN CHOOSE s \in F : rank[s] = i ELSE 0
  BY DEF Init
<1>10. completed_queue \in [States -> States]
  <2>1. \A i \in States : completed_queue[i] \in States
    <3> HIDE DEF F, rank
    <3> QED
      BY <1>1, <1>2, <1>9
  <2> QED
    BY <2>1 DEF Init
<1> HIDE DEF F, rank
<1>11. \A i \in 0 .. queue_tail - 1 : completed_queue[i] \in F /\ rank[completed_queue[i]] = i
  <2> TAKE i \in 0 .. queue_tail - 1
  <2>1. i \in States
    BY <1>1, <1>4, <1>8
  <2>2. \E s \in F : rank[s] = i
    BY <1>7, <1>8
  <2> QED
    BY <1>9, <2>1, <2>2
<1>12. \A s \in F : \E i \in 0 .. queue_tail - 1 : completed_queue[i] = s
  <2> TAKE s \in F
  <2>1. rank[s] \in 0 .. queue_tail - 1
    BY <1>7, <1>8
  <2>2. completed_queue[rank[s]] = s
    BY <1>7, <1>11, <2>1
  <2> QED
    BY <2>1, <2>2
<1> QED
  BY <1>4, <1>8, <1>10, <1>11, <1>12 DEF F

\* The host's tables satisfy the invariant.
LEMMA InitEstablishes ==
  ASSUME Init
  PROVE  IInv
<1>1. Threads = {}
  BY DEF Init, Threads
<1>2. ValidGraph(graph) /\ kNoHtChild \notin Nat
  BY HtPropagationAssumption DEF Init
<1>3. \A s \in States : HostStatus(graph, s) \in {-1, 0, 1}
  BY DEF HostStatus
<1>4. /\ status = [s \in States |-> HostStatus(graph, s)]
      /\ status \in [States -> {-1, 0, 1}]
      /\ \A s \in States : status[s] # -1 <=> s \in InitialFrontier(graph)
  BY <1>3 DEF Init, InitialFrontier, States
<1>5. TypeOK
  <2>1. \A s \in States : Cardinality(MovesOf(graph, s)) \in Nat
    BY <1>2, FiniteMoves
  <2>2. \A m \in Moves : Cardinality(ChildrenOf(graph, m)) \in Nat
    BY <1>2, FiniteMoves
  <2> QED
    BY <1>1, <1>4, <2>1, <2>2, FirstQueue DEF Init, TypeOK
<1>6. PhaseInv /\ EndInv
  <2>1. InBatch /\ Between
    BY <1>1 DEF InBatch, Between
  <2> QED
    BY <1>1, <1>5, <2>1 DEF Init, PhaseInv, EndInv, TypeOK
<1>7. QueueInv
  <2>1. \A i \in Entries : Content(i) = completed_queue[i]
    BY <1>1 DEF Content, Writers
  <2>2. Entries = 0 .. queue_tail - 1
    BY DEF Entries
  <2>3. InitialFrontier(graph) \subseteq States
    BY DEF InitialFrontier, States
  <2> QED
    BY <1>1, <1>4, <2>1, <2>2, <2>3, FirstQueue DEF QueueInv
<1>8. CountInv
  <2>1. \A s : MovesOf(graph, s) \ {} = MovesOf(graph, s)
    OBVIOUS
  <2>2. \A m : ChildrenOf(graph, m) \ {} = ChildrenOf(graph, m)
    OBVIOUS
  <2> QED
    BY <2>1, <2>2 DEF Init, CountInv
<1>9. PassedInv
  BY DEF Init, PassedInv
<1>10. MoveInv /\ DecidedInv
  BY <1>1, <1>4 DEF Init, MoveInv, DecidedInv
<1>11. Justified
  <2>1. \A s \in States : HostStatus(graph, s) = 1 => ProvenBy(graph, status, s)
    BY DEF HostStatus, HasVacuousMove, ProvenBy
  <2>2. \A s \in States : HostStatus(graph, s) = 0 =>
          ~ graph.leaf_proven[s] /\ MovesOf(graph, s) = {}
    BY DEF HostStatus
  <2> QED
    BY <1>4, <2>1, <2>2 DEF Justified
<1> QED
  BY <1>5, <1>6, <1>7, <1>8, <1>9, <1>10, <1>11 DEF IInv

-----------------------------------------------------------------------------
(* The invariant and what follows from it.                                   *)

\* Every step keeps the invariant.
LEMMA NextKeeps ==
  ASSUME IInv, [Next]_vars
  PROVE  IInv'
<1>1. CASE Launch
  BY <1>1, LaunchStep
<1>2. CASE LeaveSelect
  BY <1>2, LeaveSelectStep
<1>3. CASE LeaveBatch
  BY <1>3, LeaveBatchStep
<1>4. CASE Synchronize
  BY <1>4, SynchronizeStep
<1>5. ASSUME NEW t \in Threads, ThreadStep(t)
      PROVE  IInv'
  BY <1>5, LoopStep, TakeStateStep, SubtractChildStep, ReadFailedStep, MarkProvenStep,
     SubtractMoveStep, MarkUnprovenStep, ReserveSlotStep, FillSlotStep DEF ThreadStep
<1>6. CASE UNCHANGED vars
  BY <1>6, OnlyTheResult DEF vars
<1> QED
  BY <1>1, <1>2, <1>3, <1>4, <1>5, <1>6 DEF Next, Ended

\* What the propagation relies on, in every state of every call: each state with
\* a status is queued once or about to be, the counters are what has not been
\* subtracted, a move is decided by one thread after all its children, and a
\* stopped kernel has finished every state.
THEOREM PropagationInvariant == Spec => []IInv
<1> QED
  BY InitEstablishes, NextKeeps, PTL DEF Spec

\* At every moment, between any two atomic operations, a state marked proven or
\* not proven has its reasons among the states already marked, and no state is
\* queued twice: whatever the wavefront, the launch and the order of the
\* operations of its threads.
THEOREM StatusIsJustified == Spec => []StatusJustified
<1>1. ASSUME IInv
      PROVE  StatusJustified
  <2> USE <1>1 DEF IInv
  <2>1. \A i, j \in 0 .. batch_end - 1 : completed_queue[i] = completed_queue[j] => i = j
    BY BatchIsFilled DEF QueueInv
  <2> QED
    BY <2>1 DEF Justified, StatusJustified
<1> QED
  BY <1>1, PropagationInvariant, PTL

\* Whatever the wavefront, the launch and the order of the atomic operations, a
\* call that ends has neither overflowed its queue nor stalled nor left a state
\* without status, and the statuses it returns solve the CPU's equations.
THEOREM DeviceAgreesWithHost == Spec => []DeviceAgrees
<1>1. ASSUME IInv
      PROVE  DeviceAgrees
  <2> USE <1>1 DEF IInv
  <2> SUFFICES ASSUME result \notin {"prepare", "running", "refused"}
               PROVE  result = "returned" /\ Solves(graph, status)
    BY DEF DeviceAgrees
  <2>1. result = "returned" /\ \A s \in States : status[s] \in {0, 1}
    BY DEF EndInv, TypeOK
  <2>2. status \in [States -> {0, 1}]
    BY <2>1 DEF TypeOK
  <2>3. \A s \in States : status[s] = 1 <=> ProvenBy(graph, status, s)
    <3> TAKE s \in States
    <3>1. status[s] = 0 => ~ ProvenBy(graph, status, s)
      BY DEF Justified, ProvenBy
    <3> QED
      BY <2>1, <3>1 DEF Justified
  <2> QED
    BY <2>1, <2>2, <2>3 DEF Solves, States
<1> QED
  BY <1>1, PropagationInvariant, PTL

\* The device call's variables keep their types.
THEOREM TypesCorrect == Spec => []TypeOK
<1>1. IInv => TypeOK
  BY DEF IInv
<1> QED
  BY <1>1, PropagationInvariant, PTL
=============================================================================
