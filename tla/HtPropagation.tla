---------------------------- MODULE HtPropagation ----------------------------
(***************************************************************************)
(* EvaluateHtWavefrontCuda and its two kernels (src/cuda/ht_cd.cu).        *)
(*                                                                         *)
(* A wavefront is a tree: a state has moves, a move has child states.  A   *)
(* state is proven when it is a proven leaf or when some move of it has    *)
(* only proven children.  The device computes this bottom up without locks.*)
(* A queue holds the finished states.  A thread takes a finished state,    *)
(* subtracts it from the remaining children of its parent move; whoever    *)
(* subtracts last decides the move, and either marks the parent state      *)
(* proven or subtracts the move from the parent's remaining moves; whoever *)
(* subtracts the last move marks the parent not proven.  A state that gets *)
(* its status is appended to the queue.  Threads meet at barriers between  *)
(* batches of the queue.                                                   *)
(*                                                                         *)
(* Every atomic operation of a thread is one step.  counted and lost are   *)
(* history variables: no step reads them.                                  *)
(***************************************************************************)
EXTENDS WaveGraph

CONSTANTS
  Graphs,           \* the wavefronts of the model
  Requests,         \* propagation_blocks of the call: 0 is "choose"
  Devices,          \* [cooperative_launch, resident_blocks] of a device
  ThreadsPerBlock   \* kThreads

ASSUME HtPropagationAssumption ==
  /\ kNoHtChild \notin Nat
  /\ ThreadsPerBlock \in Nat \ {0}
  /\ Requests \subseteq Nat
  /\ \A d \in Devices : d.cooperative_launch \in BOOLEAN /\ d.resident_blocks \in Nat
  /\ \A g \in Graphs : ValidGraph(g)

VARIABLES
  graph,               \* the task arrays
  request, device,     \* the call and the device it found
  result,              \* "prepare", "running", or what the call ends with
  cooperative,         \* which kernel runs
  thread_count,        \* threads of the launch
  status,              \* per state: -1 unknown, 0 not proven, 1 proven
  remaining_moves,     \* per state
  remaining_children,  \* per move
  move_failed,         \* per move: 1 when a child is not proven
  completed_queue, queue_tail,
  error_code,
  batch_begin, batch_end, stop,
  pc, queue_index, slot,   \* per thread
  counted,             \* states subtracted from their parent move
  lost                 \* moves subtracted from their parent state

callVars == <<graph, request, device>>
launchVars == <<cooperative, thread_count>>
counterVars == <<status, remaining_moves, remaining_children, move_failed>>
queueVars == <<completed_queue, queue_tail, error_code>>
batchVars == <<batch_begin, batch_end, stop>>
threadVars == <<pc, queue_index, slot>>
historyVars == <<counted, lost>>
vars == <<callVars, result, launchVars, counterVars, queueVars, batchVars,
          threadVars, historyVars>>

States == State(graph)
Moves == Move(graph)
Threads == 0 .. thread_count - 1

(***************************************************************************)
(* The host's tables: leaves, states with a move without children and      *)
(* states without moves are finished from the start.                       *)
(***************************************************************************)
HasVacuousMove(g, s) == \E m \in MovesOf(g, s) : ChildrenOf(g, m) = {}
HostStatus(g, s) ==
  IF g.leaf_proven[s] \/ HasVacuousMove(g, s) THEN 1
  ELSE IF MovesOf(g, s) = {} THEN 0 ELSE -1
InitialFrontier(g) == {s \in State(g) : HostStatus(g, s) # -1}
FrontierRank(g, s) == Cardinality({r \in InitialFrontier(g) : r < s})

Init ==
  /\ graph \in Graphs /\ request \in Requests /\ device \in Devices
  /\ result = "prepare"
  /\ cooperative = FALSE /\ thread_count = 0
  /\ status = [s \in States |-> HostStatus(graph, s)]
  /\ remaining_moves = [s \in States |-> Cardinality(MovesOf(graph, s))]
  /\ remaining_children = [m \in Moves |-> Cardinality(ChildrenOf(graph, m))]
  /\ move_failed = [m \in Moves |-> 0]
  /\ completed_queue =
       [i \in States |-> IF \E s \in InitialFrontier(graph) : FrontierRank(graph, s) = i
                         THEN CHOOSE s \in InitialFrontier(graph) : FrontierRank(graph, s) = i
                         ELSE 0]
  /\ queue_tail = Cardinality(InitialFrontier(graph))
  /\ error_code = 0
  /\ batch_begin = 0 /\ batch_end = 0 /\ stop = FALSE
  /\ pc = [t \in Threads |-> "loop"]
  /\ queue_index = [t \in Threads |-> 0]
  /\ slot = [t \in Threads |-> 0]
  /\ counted = {} /\ lost = {}

(***************************************************************************)
(* SelectHtPropagationLaunch: the number of blocks, 0 when it throws.      *)
(***************************************************************************)
UsefulBlocks == 1 + (graph.state_count - 1) \div ThreadsPerBlock
Blocks ==
  IF request = 1 THEN 1
  ELSE IF ~ device.cooperative_launch THEN IF request > 1 THEN 0 ELSE 1
  ELSE IF device.resident_blocks = 0 \/ request > device.resident_blocks THEN 0
  ELSE IF request > 1 THEN request
  ELSE IF device.resident_blocks < UsefulBlocks THEN device.resident_blocks
  ELSE UsefulBlocks

(***************************************************************************)
(* Thread 0 of a launch opens the next batch, or stops the kernel.         *)
(***************************************************************************)
FirstError(code) == IF error_code = 0 THEN code ELSE error_code
SelectBatch(begin) ==
  LET overflow == queue_tail > graph.state_count
      drained == begin = queue_tail
  IN /\ batch_begin' = begin
     /\ batch_end' = queue_tail
     /\ stop' = (overflow \/ drained)
     /\ error_code' = IF overflow THEN FirstError(1)
                      ELSE IF drained /\ queue_tail # graph.state_count THEN FirstError(2)
                      ELSE error_code

\* Thread t starts on the batch [begin, end).
EnterBatch(t, begin, end) == IF begin + t < end THEN "take" ELSE "wait"

\* The kernel launch.  The cooperative kernel opens its first batch before
\* any other thread looks at it.
Launch ==
  /\ result = "prepare"
  /\ IF Blocks = 0
     THEN result' = "refused" /\ UNCHANGED <<launchVars, batchVars, threadVars, error_code>>
     ELSE /\ result' = "running"
          /\ cooperative' = (Blocks > 1)
          /\ thread_count' = Blocks * ThreadsPerBlock
          /\ queue_index' = [t \in Threads' |-> t]
          /\ slot' = [t \in Threads' |-> 0]
          /\ IF Blocks > 1
             THEN /\ SelectBatch(0)
                  /\ pc' = [t \in Threads' |-> IF stop' THEN "exited"
                                               ELSE EnterBatch(t, 0, queue_tail)]
             ELSE /\ pc' = [t \in Threads' |-> "loop"]
                  /\ UNCHANGED <<batchVars, error_code>>
  /\ UNCHANGED <<callVars, counterVars, completed_queue, queue_tail, historyVars>>

(***************************************************************************)
(* The persistent kernel's loop.  Its stop flag is read by "while" without *)
(* a barrier after thread 0 may have set it: a thread that sees it leaves  *)
(* before the barrier, which waits for the threads that have not exited.   *)
(***************************************************************************)
At(t, label) == pc[t] = label
GoTo(t, label) == pc' = [pc EXCEPT ![t] = label]

Loop(t) ==
  /\ At(t, "loop")
  /\ IF stop THEN GoTo(t, "exited") /\ UNCHANGED <<batchVars, error_code>>
     ELSE /\ GoTo(t, "select")
          /\ IF t = 0 THEN SelectBatch(batch_begin) ELSE UNCHANGED <<batchVars, error_code>>
  /\ UNCHANGED <<callVars, result, launchVars, counterVars, completed_queue, queue_tail,
                 queue_index, slot, historyVars>>

AllAt(label) ==
  /\ \A t \in Threads : pc[t] \in {label, "exited"}
  /\ \E t \in Threads : pc[t] = label

\* __syncthreads after thread 0 opened the batch.
LeaveSelect ==
  /\ result = "running"
  /\ AllAt("select")
  /\ pc' = [t \in Threads |-> IF stop \/ pc[t] = "exited" THEN "exited"
                              ELSE EnterBatch(t, batch_begin, batch_end)]
  /\ queue_index' = [t \in Threads |-> batch_begin + t]
  /\ UNCHANGED <<callVars, result, launchVars, counterVars, queueVars, batchVars, slot,
                 historyVars>>

\* Fault: the next batch begins where this one began.
LeaveBatch_Again ==
  /\ result = "running"
  /\ AllAt("wait")
  /\ SelectBatch(batch_begin)
  /\ pc' = [t \in Threads |-> IF stop' \/ pc[t] = "exited" THEN "exited"
                              ELSE EnterBatch(t, batch_begin, queue_tail)]
  /\ queue_index' = [t \in Threads |-> batch_begin + t]
  /\ UNCHANGED <<callVars, result, launchVars, counterVars, completed_queue, queue_tail,
                 slot, historyVars>>

\* The barriers at the end of a batch.
LeaveBatch ==
  /\ result = "running"
  /\ AllAt("wait")
  /\ IF cooperative
     THEN /\ SelectBatch(batch_end)
          /\ pc' = [t \in Threads |-> IF stop' \/ pc[t] = "exited" THEN "exited"
                                      ELSE EnterBatch(t, batch_end, queue_tail)]
          /\ queue_index' = [t \in Threads |-> batch_end + t]
     ELSE /\ batch_begin' = batch_end
          /\ pc' = [t \in Threads |-> IF pc[t] = "exited" THEN "exited" ELSE "loop"]
          /\ UNCHANGED <<batch_end, stop, error_code, queue_index>>
  /\ UNCHANGED <<callVars, result, launchVars, counterVars, completed_queue, queue_tail,
                 slot, historyVars>>

(***************************************************************************)
(* ProcessCompletedState for the queue entry thread t is at.               *)
(***************************************************************************)
Taken(t) == completed_queue[queue_index[t]]
ParentMove(t) == graph.parent_move[Taken(t)]
ParentState(t) == graph.parent_state[ParentMove(t)]

\* The stride loop of the kernels.
NextItem(t) ==
  /\ queue_index' = [queue_index EXCEPT ![t] = @ + thread_count]
  /\ GoTo(t, IF queue_index[t] + thread_count < batch_end THEN "take" ELSE "wait")

\* Read the state; a state that is not proven fails its parent move.
TakeState(t) ==
  /\ At(t, "take")
  /\ IF ParentMove(t) = kNoHtChild
     THEN NextItem(t) /\ UNCHANGED move_failed
     ELSE /\ GoTo(t, "sub")
          /\ move_failed' = IF status[Taken(t)] = 0
                            THEN [move_failed EXCEPT ![ParentMove(t)] = 1] ELSE move_failed
          /\ UNCHANGED queue_index
  /\ UNCHANGED <<callVars, result, launchVars, status, remaining_moves, remaining_children,
                 queueVars, batchVars, slot, historyVars>>

\* atomicSub on the move: the last child goes on to decide it.
SubtractChild(t) ==
  /\ At(t, "sub")
  /\ remaining_children' = [remaining_children EXCEPT ![ParentMove(t)] = @ - 1]
  /\ counted' = counted \cup {Taken(t)}
  /\ IF remaining_children[ParentMove(t)] = 1
     THEN GoTo(t, "read") /\ UNCHANGED queue_index
     ELSE NextItem(t)
  /\ UNCHANGED <<callVars, result, launchVars, status, remaining_moves, move_failed,
                 queueVars, batchVars, slot, lost>>

ReadFailed(t) ==
  /\ At(t, "read")
  /\ GoTo(t, IF move_failed[ParentMove(t)] = 0 THEN "win" ELSE "lose")
  /\ UNCHANGED <<callVars, result, launchVars, counterVars, queueVars, batchVars,
                 queue_index, slot, historyVars>>

\* Fault: the status is written without comparing it first.
Decide_NoCompare(t, value) ==
  /\ status' = [status EXCEPT ![ParentState(t)] = value]
  /\ GoTo(t, "append") /\ UNCHANGED queue_index

\* atomicCAS(status, -1, value), then the append if it took effect.
Decide(t, value) ==
  IF status[ParentState(t)] = -1
  THEN /\ status' = [status EXCEPT ![ParentState(t)] = value]
       /\ GoTo(t, "append") /\ UNCHANGED queue_index
  ELSE UNCHANGED status /\ NextItem(t)

MarkProven(t) ==
  /\ At(t, "win")
  /\ Decide(t, 1)
  /\ UNCHANGED <<callVars, result, launchVars, remaining_moves, remaining_children,
                 move_failed, queueVars, batchVars, slot, historyVars>>

\* Fault: the first move that fails marks the state not proven.
SubtractMove_First(t) ==
  /\ At(t, "lose")
  /\ remaining_moves' = [remaining_moves EXCEPT ![ParentState(t)] = @ - 1]
  /\ lost' = lost \cup {ParentMove(t)}
  /\ GoTo(t, "fall") /\ UNCHANGED queue_index
  /\ UNCHANGED <<callVars, result, launchVars, status, remaining_children, move_failed,
                 queueVars, batchVars, slot, counted>>

\* atomicSub on the parent state: the last move marks it not proven.
SubtractMove(t) ==
  /\ At(t, "lose")
  /\ remaining_moves' = [remaining_moves EXCEPT ![ParentState(t)] = @ - 1]
  /\ lost' = lost \cup {ParentMove(t)}
  /\ IF remaining_moves[ParentState(t)] = 1
     THEN GoTo(t, "fall") /\ UNCHANGED queue_index
     ELSE NextItem(t)
  /\ UNCHANGED <<callVars, result, launchVars, status, remaining_children, move_failed,
                 queueVars, batchVars, slot, counted>>

MarkUnproven(t) ==
  /\ At(t, "fall")
  /\ Decide(t, 0)
  /\ UNCHANGED <<callVars, result, launchVars, remaining_moves, remaining_children,
                 move_failed, queueVars, batchVars, slot, historyVars>>

\* AppendCompletedState: reserve a slot, then fill it.
ReserveSlot(t) ==
  /\ At(t, "append")
  /\ slot' = [slot EXCEPT ![t] = queue_tail]
  /\ queue_tail' = queue_tail + 1
  /\ IF queue_tail < graph.state_count
     THEN GoTo(t, "write") /\ UNCHANGED <<queue_index, error_code>>
     ELSE NextItem(t) /\ error_code' = FirstError(1)
  /\ UNCHANGED <<callVars, result, launchVars, counterVars, completed_queue, batchVars,
                 historyVars>>

FillSlot(t) ==
  /\ At(t, "write")
  /\ completed_queue' = [completed_queue EXCEPT ![slot[t]] = ParentState(t)]
  /\ NextItem(t)
  /\ UNCHANGED <<callVars, result, launchVars, counterVars, queue_tail, error_code,
                 batchVars, slot, historyVars>>

(***************************************************************************)
(* cudaDeviceSynchronize and the checks of the host.                       *)
(***************************************************************************)
Synchronize ==
  /\ result = "running"
  /\ \A t \in Threads : pc[t] = "exited"
  /\ result' = IF error_code = 1 THEN "overflow"
               ELSE IF error_code = 2 THEN "stalled"
               ELSE IF \A s \in States : status[s] \in {0, 1} THEN "returned"
               ELSE "unfinished"
  /\ UNCHANGED <<callVars, launchVars, counterVars, queueVars, batchVars, threadVars,
                 historyVars>>

Ended == result \notin {"prepare", "running"} /\ UNCHANGED vars

ThreadStep(t) ==
  \/ Loop(t) \/ TakeState(t) \/ SubtractChild(t) \/ ReadFailed(t)
  \/ MarkProven(t) \/ SubtractMove(t) \/ MarkUnproven(t)
  \/ ReserveSlot(t) \/ FillSlot(t)

Next ==
  \/ Launch \/ LeaveSelect \/ LeaveBatch \/ Synchronize \/ Ended
  \/ \E t \in Threads : ThreadStep(t)

\* The blocks of a launch are all resident and the scheduler lets some thread
\* run as long as one can; a barrier opens once all have arrived.
Spec == Init /\ [][Next]_vars /\ WF_vars(Next)

(***************************************************************************)
(* Properties.                                                             *)
(***************************************************************************)
TypeOK ==
  /\ graph \in Graphs /\ request \in Requests /\ device \in Devices
  /\ result \in {"prepare", "running", "refused", "overflow", "stalled", "unfinished",
                 "returned"}
  /\ cooperative \in BOOLEAN /\ thread_count \in Nat
  /\ status \in [States -> {-1, 0, 1}]
  /\ remaining_moves \in [States -> Nat]
  /\ remaining_children \in [Moves -> Nat]
  /\ move_failed \in [Moves -> {0, 1}]
  /\ completed_queue \in [States -> States]
  /\ queue_tail \in Nat /\ error_code \in {0, 1, 2}
  /\ batch_begin \in Nat /\ batch_end \in Nat /\ stop \in BOOLEAN
  /\ pc \in [Threads -> {"loop", "select", "take", "sub", "read", "win", "lose", "fall",
                         "append", "write", "wait", "exited"}]
  /\ queue_index \in [Threads -> Nat]
  /\ slot \in [Threads -> Nat]
  /\ counted \subseteq States /\ lost \subseteq Moves

\* Whatever the order of the atomic operations, the device call on a wavefront
\* that passed the validation neither overflows its queue nor stalls nor leaves
\* a state without status, and the statuses it returns are the CPU's.
DeviceAgrees ==
  result \notin {"prepare", "running", "refused"} =>
    result = "returned" /\ Solves(graph, status)

\* At every moment, between any two atomic operations: a state marked proven has
\* a reason among states already marked, a state marked not proven has a child
\* marked not proven under each of its moves, and no state is queued twice.
StatusJustified ==
  /\ \A s \in States : status[s] = 1 => ProvenBy(graph, status, s)
  /\ \A s \in States : status[s] = 0 =>
       /\ ~ graph.leaf_proven[s]
       /\ \A m \in MovesOf(graph, s) : \E c \in ChildrenOf(graph, m) : status[c] = 0
  /\ \A i, j \in 0 .. batch_end - 1 :
       completed_queue[i] = completed_queue[j] => i = j

\* The call returns: no thread waits for ever at a barrier and no batch repeats.
PropagationEnds == <>(result \notin {"prepare", "running"})
==============================================================================
