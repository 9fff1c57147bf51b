------------------------------- MODULE JvRule -------------------------------
(***************************************************************************)
(* The Jonker-Volgenant test (src/cpu/jv_elimination.cpp).  An edge (a, b) *)
(* cannot be in an optimal tour if some node c is such that every active   *)
(* edge (c, d) could be exchanged together with (a, b), in both            *)
(* orientations, with a strict gain.  The finder looks for c among the     *)
(* MaxCandidateNodes best scored neighbours of a and b; the verifier takes *)
(* any c.  Distances are those of the complete graph: d is a function on   *)
(* pairs of nodes, and an edge weighs what its ends are apart (Load        *)
(* refuses any other weight).                                              *)
(***************************************************************************)
EXTENDS Snapshot

CONSTANT MaxCandidateNodes   \* kMaxCandidateNodes, 10 in the code

ASSUME JvRuleAssumption == MaxCandidateNodes \in Nat \ {0}

kJv == 1
Weight(d, e) == d[EndU[e], EndV[e]]
Ends(e) == {EndU[e], EndV[e]}

\* The neighbours of both ends, the shared ones once, by increasing detour
\* d(a, c) + d(c, b) and then by id; only the first MaxCandidateNodes remain.
Around(csr, e) == (Neighbors(csr, EndU[e]) \cup Neighbors(csr, EndV[e])) \ Ends(e)
Score(d, e, c) == d[EndU[e], c] + d[c, EndV[e]]
ScoredBefore(d, e, x, c) ==
  \/ Score(d, e, x) < Score(d, e, c)
  \/ Score(d, e, x) = Score(d, e, c) /\ x < c
PotentialCandidateNodes(d, csr, e) ==
  LET near == Around(csr, e)
  IN  {c \in near :
         Cardinality({x \in near : ScoredBefore(d, e, x, c)}) < MaxCandidateNodes}

\* Both 2-opt exchanges of (a, b) and (c, x) are strictly shorter.
Exchangeable(d, e, c, x) ==
  LET a == EndU[e]
      b == EndV[e]
      kept == Weight(d, e) + d[c, x]
  IN  kept > d[a, c] + d[x, b] /\ kept > d[a, x] + d[b, c]

IsJvWitness(d, csr, e, c) ==
  /\ c \in Node \ Ends(e)
  /\ \A x \in Neighbors(csr, c) \ Ends(e) : Exchangeable(d, e, c, x)

\* The finder reports, for each active edge that passes the degree gate, the
\* first witness in score order, if there is one.
FoundWitness(d, csr, e, c) ==
  LET valid == {x \in PotentialCandidateNodes(d, csr, e) : IsJvWitness(d, csr, e, x)}
  IN  c \in valid /\ \A x \in valid : ~ ScoredBefore(d, e, x, c)

JvCandidate(e, c) == [edge |-> e, witness |-> c, method |-> kJv]

FindJvCandidates(d, active, csr) ==
  {JvCandidate(p[1], p[2]) :
     p \in {q \in active \X Node :
              Deletable(csr, q[1]) /\ FoundWitness(d, csr, q[1], q[2])}}

VerifyJvCandidate(d, active, csr, candidate) ==
  /\ candidate.method = kJv
  /\ candidate.edge \in active
  /\ Deletable(csr, candidate.edge)
  /\ IsJvWitness(d, csr, candidate.edge, candidate.witness)
=============================================================================
