------------------------------- MODULE HtScan --------------------------------
(***************************************************************************)
(* RunHtScanEpoch (src/cpu/ht_scan.cpp).  A slice of the target order is   *)
(* searched, by the calling thread or by one worker thread per listed      *)
(* CUDA device; worker w takes slots w, w + W, w + 2W, ... of the slice.   *)
(* Each search result goes into the slot of its target; a worker that      *)
(* fails leaves its exception in the slot it was at and stops.  The main   *)
(* thread joins them all, rethrows the exception of the lowest slot, or    *)
(* consumes the results in slot order and commits the proven targets.      *)
(*                                                                         *)
(* The search of one target (the wavefront prover) is abstracted to its    *)
(* verdict on the snapshot: a proof that its own verifier accepts, no      *)
(* proof, or an exception.  It reads the graph only, so the verdict of a   *)
(* target does not depend on when or where it is searched.                 *)
(***************************************************************************)
EXTENDS HtEpoch

CONSTANTS
  EdgeWeight,       \* weight of each edge
  Verdicts,         \* what the searches may return
  ScanOptions,      \* HtScanOptions: order, offset, max targets, devices
  VisibleDevices    \* number of usable CUDA devices

ASSUME HtScanAssumption ==
  /\ EdgeWeight \in [Edge -> Nat]
  /\ Verdicts \subseteq [Edge -> {"proven", "unresolved", "throws"}]
  /\ \A o \in ScanOptions :
       /\ o.order \in TargetOrders
       /\ o.offset \in Nat
       /\ o.max \in Nat \ {0}
       /\ o.devices \in Seq(Int)
  /\ VisibleDevices \in Nat

VARIABLES
  verdict,      \* what the search of each target returns or throws
  options,      \* the call's HtScanOptions
  scanPc,       \* where the calling thread is
  slice,        \* the targets of this scan, by slot
  worker,       \* worker threads: "unborn", "bind", "run" or "ended"
  cursor,       \* the slot each worker is at
  evaluation,   \* result slots, shared
  failure,      \* exception slots, shared
  consumed,     \* slots the calling thread has consumed
  thrown        \* the exception the call ended with

workerVars == <<worker, cursor, evaluation, failure>>
scanVars == <<commitVars, epochVars, verdict, options, scanPc, slice, workerVars,
              consumed, thrown>>

Slot == DOMAIN slice
Worker == DOMAIN worker
NoWorker == [w \in {} |-> "unborn"]
NoError == <<"none", 0>>

Distinct(devices) == \A i, j \in DOMAIN devices : i # j => devices[i] # devices[j]
ValidTargetDevices(devices) ==
  /\ Distinct(devices)
  /\ \A i \in DOMAIN devices : devices[i] \in 0 .. VisibleDevices - 1

ScanInit ==
  /\ HtEpochInit
  /\ verdict \in Verdicts
  /\ options \in ScanOptions
  /\ scanPc = "start"
  /\ slice = [i \in {} |-> 0]
  /\ worker = NoWorker
  /\ cursor = [w \in {} |-> 0]
  /\ evaluation = [i \in {} |-> "none"]
  /\ failure = [i \in {} |-> NoError]
  /\ consumed = 0
  /\ thrown = NoError

ValidOptions ==
  /\ ValidTargetDevices(options.devices)
  /\ options.offset <= Cardinality(Eligible(active, csr))

ScanThrow(error) == scanPc' = "threw" /\ thrown' = error

RejectOptions ==
  /\ scanPc = "start"
  /\ ~ ValidOptions
  /\ ScanThrow(<<"options", 0>>)
  /\ UNCHANGED <<commitVars, epochVars, verdict, options, slice, workerVars, consumed>>

\* No more workers than targets; without a device list, or without targets,
\* no worker at all.
SelectTargets ==
  /\ scanPc = "start"
  /\ ValidOptions
  /\ \E eligible \in {Eligible(active, csr)} :
     \E targets \in {InOrder(eligible, EdgeWeight, options.order)} :
     \E chosen \in {TargetSlice(targets, options.offset, options.max)} :
       LET count == Cardinality(DOMAIN chosen)
           listed == Len(options.devices)
           team == 0 .. (IF listed < count THEN listed ELSE count) - 1
       IN  /\ slice' = chosen
           /\ worker' = [w \in team |-> "unborn"]
           /\ cursor' = [w \in team |-> w]
           /\ evaluation' = [i \in DOMAIN chosen |-> "none"]
           /\ failure' = [i \in DOMAIN chosen |-> NoError]
           /\ scanPc' = IF team # {} THEN "spawn" ELSE "consume"
  /\ snapshotHash' = ContentHash(graph)
  /\ UNCHANGED <<graphVars, sweepVars, epochVars, verdict, options, consumed, thrown>>

-----------------------------------------------------------------------------
(* The worker threads.                                                     *)

\* Binding the CUDA device of the list to the thread; a failure is left in
\* the first slot of the worker.
Bind(w) ==
  /\ worker[w] = "bind"
  /\ \/ /\ worker' = [worker EXCEPT ![w] = "run"]
        /\ UNCHANGED failure
     \/ /\ worker' = [worker EXCEPT ![w] = "ended"]
        /\ failure' = [failure EXCEPT ![w] = <<"bind", w>>]
  /\ UNCHANGED <<cursor, evaluation>>

Search(w) ==
  /\ worker[w] = "run"
  /\ cursor[w] \in Slot
  /\ verdict[slice[cursor[w]]] # "throws"
  /\ evaluation' = [evaluation EXCEPT ![cursor[w]] = verdict[slice[cursor[w]]]]
  /\ cursor' = [cursor EXCEPT ![w] = @ + Cardinality(Worker)]
  /\ UNCHANGED <<worker, failure>>

SearchThrows(w) ==
  /\ worker[w] = "run"
  /\ cursor[w] \in Slot
  /\ verdict[slice[cursor[w]]] = "throws"
  /\ failure' = [failure EXCEPT ![cursor[w]] = <<"target", cursor[w]>>]
  /\ worker' = [worker EXCEPT ![w] = "ended"]
  /\ UNCHANGED <<cursor, evaluation>>

Finish(w) ==
  /\ worker[w] = "run"
  /\ cursor[w] \notin Slot
  /\ worker' = [worker EXCEPT ![w] = "ended"]
  /\ UNCHANGED <<cursor, evaluation, failure>>

WorkerStep(w) ==
  /\ Bind(w) \/ Search(w) \/ SearchThrows(w) \/ Finish(w)
  /\ UNCHANGED <<commitVars, epochVars, verdict, options, scanPc, slice, consumed, thrown>>

-----------------------------------------------------------------------------
(* The calling thread.                                                     *)

Unborn == {w \in Worker : worker[w] = "unborn"}
\* Fault: all workers of the team are waited for, started or not.
Running_AllOfTeam == {w \in Worker : worker[w] # "ended"}

Running == {w \in Worker : worker[w] \in {"bind", "run"}}

Spawn ==
  /\ scanPc = "spawn"
  /\ \E w \in Unborn :
       /\ \A v \in Unborn : w <= v
       /\ worker' = [worker EXCEPT ![w] = "bind"]
       /\ scanPc' = IF Unborn = {w} THEN "join" ELSE "spawn"
  /\ UNCHANGED <<commitVars, epochVars, verdict, options, slice, cursor, evaluation,
                 failure, consumed, thrown>>

\* The thread constructor throws: the jthreads made so far are joined while
\* the exception unwinds the call, and the slots go after them.
SpawnFails ==
  /\ scanPc = "spawn"
  /\ scanPc' = "unwind"
  /\ UNCHANGED <<commitVars, epochVars, verdict, options, slice, workerVars, consumed, thrown>>

\* Fault: the exception leaves the call without joining the workers.
Unwind_Detached ==
  /\ scanPc = "unwind"
  /\ ScanThrow(<<"spawn", 0>>)
  /\ UNCHANGED <<commitVars, epochVars, verdict, options, slice, workerVars, consumed>>

Unwind ==
  /\ scanPc = "unwind"
  /\ Running = {}
  /\ ScanThrow(<<"spawn", 0>>)
  /\ UNCHANGED <<commitVars, epochVars, verdict, options, slice, workerVars, consumed>>

Failed == {i \in Slot : failure[i] # NoError}

\* All workers are joined; the exception of the lowest slot is rethrown.
Join ==
  /\ scanPc = "join"
  /\ Running = {}
  /\ IF Failed = {}
     THEN scanPc' = "consume" /\ UNCHANGED thrown
     ELSE \E i \in Failed : (\A j \in Failed : i <= j) /\ ScanThrow(failure[i])
  /\ UNCHANGED <<commitVars, epochVars, verdict, options, slice, workerVars, consumed>>

\* Consuming a slot.  Without workers the target is searched here, on the
\* calling thread; with them an empty slot is an internal error.
Consume ==
  /\ scanPc = "consume"
  /\ consumed \in Slot
  /\ LET searched == IF Worker = {} THEN verdict[slice[consumed]] ELSE evaluation[consumed]
     IN  IF searched \in {"proven", "unresolved"}
         THEN /\ evaluation' = [evaluation EXCEPT ![consumed] = searched]
              /\ consumed' = consumed + 1
              /\ UNCHANGED <<scanPc, thrown>>
         ELSE /\ ScanThrow(IF searched = "none" THEN <<"incomplete", consumed>>
                                                ELSE <<"target", consumed>>)
              /\ UNCHANGED <<evaluation, consumed>>
  /\ UNCHANGED <<commitVars, epochVars, verdict, options, slice, worker, cursor, failure>>

\* Fault: every searched target is committed.
Proven_AllSearched == {slice[i] : i \in Slot}

Proven == {slice[i] : i \in {j \in Slot : evaluation[j] = "proven"}}
ProofOf(e) == HtProof(e, snapshotHash, 0, TRUE)

CommitScan ==
  /\ scanPc = "consume"
  /\ consumed \notin Slot
  /\ ContentHash(graph) = snapshotHash
  /\ BeginEpoch({ProofOf(e) : e \in Proven})
  /\ scanPc' = "commit"
  /\ UNCHANGED <<verdict, options, slice, workerVars, consumed, thrown>>

CommitStep ==
  /\ scanPc = "commit"
  /\ EpochStep
  /\ UNCHANGED <<verdict, options, scanPc, slice, workerVars, consumed, thrown>>

ScanReturn ==
  /\ scanPc = "commit"
  /\ epochPc = "returned"
  /\ scanPc' = "returned"
  /\ UNCHANGED <<commitVars, epochVars, verdict, options, slice, workerVars, consumed, thrown>>

CommitThrew ==
  /\ scanPc = "commit"
  /\ epochPc = "threw"
  /\ ScanThrow(<<"memory", 0>>)
  /\ UNCHANGED <<commitVars, epochVars, verdict, options, slice, workerVars, consumed>>

MainStep ==
  \/ RejectOptions \/ SelectTargets
  \/ Spawn \/ SpawnFails \/ Unwind \/ Join
  \/ Consume \/ CommitScan \/ CommitStep \/ ScanReturn \/ CommitThrew

ScanNext == MainStep \/ \E w \in Worker : WorkerStep(w)

\* Threads are scheduled, and every search ends (its budgets are finite).
ScanSpec ==
  /\ ScanInit
  /\ [][ScanNext]_scanVars
  /\ WF_scanVars(MainStep)
  /\ WF_scanVars(\E w \in Worker : WorkerStep(w))

-----------------------------------------------------------------------------
(* No worker is running once the call has gone on to the commit, returned  *)
(* or thrown, whichever thread failed first: workers hold references to    *)
(* the graph and to the slots (ht_scan.cpp:402-433).                       *)
NoWorkerOutlivesScan ==
  scanPc \in {"consume", "commit", "returned", "threw"} => Running = {}

(* However the workers are scheduled, every scan ends: the calling thread  *)
(* never waits for a worker that was not started or stopped early.         *)
ScanEnds == <>(scanPc \in {"returned", "threw"})

(* The threads, slots and exceptions implement a scan that happens at once *)
(* on the calling thread.                                                  *)
Contract == INSTANCE HtScanContract
              WITH outcome <- IF scanPc \in {"returned", "threw"} THEN scanPc
                              ELSE IF epochPc = "returned" THEN "returned"
                              ELSE "running",
                   attempts <- IF epochPc = "returned" THEN evaluation ELSE [i \in {} |-> "none"]
ImplementsScanContract == Contract!Spec
=============================================================================
