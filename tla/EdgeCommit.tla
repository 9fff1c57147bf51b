----------------------------- MODULE EdgeCommit -----------------------------
(***************************************************************************)
(* CommitVerifiedCandidates (src/cpu/elimination_commit.cpp), the single   *)
(* place where edges are deleted.  A caller that took the content hash of  *)
(* a snapshot hands in the candidates it verified against it; the call     *)
(* either throws and leaves the graph alone, or sweeps the candidates in   *)
(* canonical order, keeping every degree at two or more, and publishes all *)
(* the accepted deletions at once.                                         *)
(*                                                                         *)
(* One action per loop iteration, so that the loop can be reasoned about.  *)
(* The callers extend this module: JvElimination and LocalElimination are  *)
(* the program's, CommitCaller is any caller that obeys the interface.     *)
(***************************************************************************)
EXTENDS Snapshot

CONSTANT InitialGraphs         \* active sets a run may start from

Methods == 1 .. 2             \* kJv = 1, kHamiltonTutte = 2
NoWitness == -1
Candidate == [edge : Int, witness : Node \cup {NoWitness}, method : Int]

ASSUME CommitAssumption == InitialGraphs \subseteq SUBSET Edge

VARIABLES
  active, csr,    \* the graph
  snapshotHash,   \* the caller's snapshot_hash
  phase,          \* "idle", or "sweep" while CommitVerifiedCandidates runs
  queue,          \* candidates the sweep has not reached
  degrees,        \* the sweep's own degree counters
  committed,      \* candidates accepted so far, in order
  result          \* of the last call: "none", "committed", "refused" or "threw"

graphVars == <<active, csr>>
sweepVars == <<phase, queue, degrees, committed, result>>
commitVars == <<active, csr, snapshotHash, phase, queue, degrees, committed, result>>

EdgesOf(candidates) == {c.edge : c \in candidates}
Committed == {committed[i].edge : i \in DOMAIN committed}

\* Fault: the content hash is not compared.
WellFormed_AnyGraph(candidates, expected) ==
  \A c \in candidates : c.edge \in Edge /\ c.method \in Methods /\ c.edge \in active

\* The checks at the head of the call: the graph is still the snapshot the
\* caller hashed, ids are in range, methods known, edges active.
WellFormed(candidates, expected) ==
  /\ ContentHash(active) = expected
  /\ \A c \in candidates :
       /\ c.edge \in Edge
       /\ c.method \in Methods
       /\ c.edge \in active

\* std::sort then std::unique by edge id: of several candidates for one edge
\* the first in (method, witness) order stays.
Before(c, d) ==
  \/ c.method < d.method
  \/ c.method = d.method /\ c.witness < d.witness

Canonical(candidates) ==
  {c \in candidates : \A d \in candidates : d.edge = c.edge => ~ Before(d, c)}

\* Fault: the counters start at node 1.
NoDegrees_FromOne == [n \in Node \ {0} |-> 0]

\* The loop's local counters while no call is running.
NoDegrees == [n \in Node |-> 0]

CommitInit ==
  /\ active \in InitialGraphs
  /\ csr = active
  /\ snapshotHash = ContentHash(active)
  /\ phase = "idle"
  /\ queue = {}
  /\ degrees = NoDegrees
  /\ committed = <<>>
  /\ result = "none"

BeginCommit(candidates, expected) ==
  /\ phase = "idle"
  /\ WellFormed(candidates, expected)
  /\ phase' = "sweep"
  /\ queue' = Canonical(candidates)
  /\ degrees' = [n \in Node |-> Degree(csr, n)]
  /\ committed' = <<>>
  /\ result' = "none"
  /\ UNCHANGED graphVars

RejectCommit(candidates, expected) ==
  /\ phase = "idle"
  /\ ~ WellFormed(candidates, expected)
  /\ result' = "refused"
  /\ committed' = <<>>
  /\ UNCHANGED <<active, csr, phase, queue, degrees>>

\* Fault: the candidates are visited in no particular order.
IsNext_Unordered(c) == c \in queue

\* The candidate the loop is at: ids follow the (u, v) order of the sort.
IsNext(c) == c \in queue /\ \A d \in queue : c.edge <= d.edge

\* Fault: a degree of two is let through.
GateOpen_AtTwo(c) == degrees[EndU[c.edge]] >= 2 /\ degrees[EndV[c.edge]] >= 2

GateOpen(c) == degrees[EndU[c.edge]] > 2 /\ degrees[EndV[c.edge]] > 2

SkipCandidate(c) ==
  /\ phase = "sweep"
  /\ IsNext(c)
  /\ ~ GateOpen(c)
  /\ queue' = queue \ {c}
  /\ UNCHANGED <<active, csr, phase, degrees, committed, result>>

TakeCandidate(c) ==
  /\ phase = "sweep"
  /\ IsNext(c)
  /\ GateOpen(c)
  /\ queue' = queue \ {c}
  /\ degrees' = [n \in Node |-> IF Incident(c.edge, n) THEN degrees[n] - 1 ELSE degrees[n]]
  /\ committed' = Append(committed, c)
  /\ UNCHANGED <<active, csr, phase, result>>

\* Fault: the adjacency rows are not rebuilt.
PublishCommit_StaleRows ==
  /\ phase = "sweep"
  /\ queue = {}
  /\ phase' = "idle"
  /\ result' = "committed"
  /\ active' = active \ Committed
  /\ degrees' = NoDegrees
  /\ UNCHANGED <<csr, queue, committed>>

\* All allocation happens on a copy, moved over the graph in the end; with
\* nothing to delete the graph is not touched.
PublishCommit ==
  /\ phase = "sweep"
  /\ queue = {}
  /\ phase' = "idle"
  /\ result' = "committed"
  /\ active' = active \ Committed
  /\ csr' = IF committed = <<>> THEN csr ELSE active'
  /\ degrees' = NoDegrees
  /\ UNCHANGED <<queue, committed>>

\* Copying the graph and rebuilding its rows allocates memory: the call may
\* throw at any point before the copy is moved over the graph.
AbortCommit ==
  /\ phase = "sweep"
  /\ phase' = "idle"
  /\ result' = "threw"
  /\ queue' = {}
  /\ degrees' = NoDegrees
  /\ committed' = <<>>
  /\ UNCHANGED graphVars

Sweep ==
  \/ PublishCommit
  \/ AbortCommit
  \/ \E c \in queue : SkipCandidate(c) \/ TakeCandidate(c)

-----------------------------------------------------------------------------
(* Types of the variables.                                                 *)
CommitTypeOK ==
  /\ active \subseteq Edge
  /\ csr \subseteq Edge
  /\ snapshotHash \subseteq Edge
  /\ phase \in {"idle", "sweep"}
  /\ queue \subseteq Candidate
  /\ degrees \in [Node -> Int]
  /\ committed \in Seq(Candidate)
  /\ result \in {"none", "committed", "refused", "threw"}

(* Outside the commit the adjacency rows and the active bits agree, so     *)
(* every Degree and neighbour loop reads current data                      *)
(* (elimination_commit.cpp:65-73: the copy is rebuilt before it is moved). *)
CsrFresh == csr = active

(* The state of the sweep loop (elimination_commit.cpp:47-63).  The call   *)
(* works on the snapshot the caller hashed, its counters are the degrees   *)
(* the graph will have if it stops now, the edges still to visit are       *)
(* beyond those accepted, and a node that lost an edge kept two.           *)
SweepInv ==
  phase = "sweep" =>
    /\ snapshotHash = ContentHash(active)
    /\ EdgesOf(queue) \cup Committed \subseteq active
    /\ \A c, d \in queue : c.edge = d.edge => c = d
    /\ \A c \in queue, e \in Committed : e < c.edge
    /\ \A n \in Node :
         /\ degrees[n] = Degree(active \ Committed, n)
         /\ degrees[n] >= 2 \/ \A e \in Committed : ~ Incident(e, n)

(* A deleted edge is reported once, by one record: the proof log has one   *)
(* record per deletion, in canonical order (elimination_commit.cpp:33-45). *)
OneRecordPerDeletion ==
  \A i, j \in DOMAIN committed : i < j => committed[i].edge < committed[j].edge
=============================================================================
