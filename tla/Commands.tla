------------------------------ MODULE Commands ------------------------------
(***************************************************************************)
(* The commands of the program that touch the graph and its proof on disk  *)
(* (src/cli/main.cpp): eliminate, ht-commit, ht-scan, local-eliminate and  *)
(* verify.  A command loads the input edges, computes, looks at the        *)
(* protected tour again, writes the remaining edges, writes the proof and  *)
(* returns; verify reads the proof and replays it on the input edges.      *)
(*                                                                         *)
(* Commands run one after the other on the same output paths.  A command   *)
(* may die anywhere, and a file may lose its tail without a word: both     *)
(* writers look at the stream before they close it.                        *)
(*                                                                         *)
(* ht-commit and ht-scan go through HtEpoch and verify through ReplayRun,  *)
(* step by step; the logs of eliminate and local-eliminate are given, they *)
(* have modules of their own.                                              *)
(***************************************************************************)
EXTENDS ReplayRun

\* What is run: a sequence of commands, on a machine with these distances and
\* this proof (or none) at the output path.  A command is a record
\*   kind   : "log" (eliminate, local-eliminate), "epoch" (ht-commit, ht-scan)
\*            or "verify",
\*   input  : the edges of its --edges file,
\*   tour   : the edges of its --protected-tour, none without one,
\*   log    : what "log" computes, NoLog otherwise,
\*   proofs : the sidecars read, or the proofs the scan found.
CONSTANT Scripts

Command ==
  [kind : {"log", "epoch", "verify"}, input : SUBSET Edge, tour : SUBSET SUBSET Node,
   log : EliminationResult, proofs : SUBSET HtRecursiveProof]

\* What "log" computes replays on its input (JvElimination, LocalElimination), and
\* a sidecar that verifies is a proof.
Justified(d, c) ==
  /\ c.kind = "log" => ReplayProof(d, c.input, c.log)
  /\ \A p \in c.proofs :
       VerifyHtRecursiveProof(p.snapshot, p) => HtHolds(d, p.snapshot, p.target)

ASSUME ScriptsAssumption ==
  \A s \in Scripts :
    /\ s.found \in EliminationResult
    /\ s.commands \in Seq(Command)
    /\ \A i \in DOMAIN s.commands : Justified(s.dist, s.commands[i])

VARIABLES
  script,      \* commands to run, the first one running
  commandPc,   \* "none", "loaded", "computing", "edges", "proof", "returned", "failed"
  edgesFile,   \* lines at the --output path
  proofFile,   \* lines at the --proof path
  meant        \* what the last writers of the two files meant to write

filesVars == <<edgesFile, proofFile, meant>>
commandVars == <<script, commandPc, filesVars>>
allVars == <<allReplayVars, commandVars>>

command == Head(script)
NoCommand == [kind |-> "none", input |-> {}, tour |-> {}, log |-> NoLog, proofs |-> {}]

-----------------------------------------------------------------------------
(* The edge file: the number of edges, then one line for each.             *)

EdgeLines(g) ==
  <<Line("edges", Cardinality(g))>> \o LinesOf("edge", Ascending(g))

\* Fault: the declared number is not compared with the lines.
Loadable_AnyCount(lines) == lines # <<>> /\ lines[1].kind = "edges"

Loadable(lines) ==
  /\ lines # <<>> /\ lines[1].kind = "edges"
  /\ Len(lines) - 1 = lines[1].value

LoadedEdges(lines) == {lines[i].value : i \in 2 .. Len(lines)}

-----------------------------------------------------------------------------
CommandsInit ==
  /\ CommitInit /\ active = {}
  /\ graph = {} /\ epochPc = "idle" /\ batch = {} /\ epochLog = NoLog
  /\ ReplayIdle /\ log = NoLog
  /\ \E s \in Scripts :
       /\ dist = s.dist
       /\ script = s.commands
       /\ proofFile = IF s.found = NoLog THEN <<>> ELSE WriteProof(s.found)
       /\ meant = [by |-> NoCommand, edges |-> {}, log |-> s.found]
  /\ commandPc = "none"
  /\ edgesFile = <<>>

\* GraphSnapshot::Load into a new process.
Load ==
  /\ commandPc = "none" /\ script # <<>>
  /\ commandPc' = "loaded"
  /\ graph' = command.input /\ active' = graph' /\ csr' = graph'
  /\ snapshotHash' = ContentHash(graph')
  /\ phase' = "idle" /\ queue' = {} /\ degrees' = NoDegrees
  /\ committed' = <<>> /\ result' = "none"
  /\ epochPc' = "idle" /\ batch' = {} /\ epochLog' = NoLog
  /\ replayPc' = "idle" /\ cursor' = 0 /\ epochStart' = 0 /\ sidecars' = 0
  /\ log' = NoLog
  /\ UNCHANGED <<dist, script, filesVars>>

\* The process ends, and the next one may start.
Exit(pc) == commandPc' = pc /\ UNCHANGED <<script, filesVars>>

NextCommand ==
  /\ commandPc \in {"returned", "failed"}
  /\ Len(script) > 1
  /\ commandPc' = "none"
  /\ script' = Tail(script)
  /\ UNCHANGED <<allReplayVars, filesVars>>

\* An exception outside the parts modelled in detail, or the end of the
\* process: what is on disk stays as it is.
Dies ==
  /\ commandPc \in {"loaded", "computing", "edges", "proof"}
  /\ Exit("failed")
  /\ epochPc' = "idle" /\ replayPc' = "idle"
  /\ UNCHANGED <<commitVars, graph, batch, epochLog, dist, log, cursor, epochStart, sidecars>>

InGraph(tour, g) == tour \subseteq {Ends(e) : e \in g}

StartComputing ==
  /\ commandPc = "loaded"
  /\ IF InGraph(command.tour, csr)
     THEN \/ /\ command.kind = "verify"
             /\ Readable(proofFile)
             /\ BeginReplay(ReadLog(proofFile))
             /\ Exit("computing")
          \/ /\ command.kind = "verify"
             /\ ~ Readable(proofFile)
             /\ Exit("failed")
             /\ UNCHANGED allReplayVars
          \/ /\ command.kind = "epoch"
             /\ BeginEpoch(command.proofs) \/ RejectEpoch(command.proofs)
             /\ UNCHANGED replayVars
             /\ Exit("computing")
          \/ /\ command.kind = "log"
             /\ graph' = command.log.final
             /\ log' = command.log
             /\ Exit("computing")
             /\ UNCHANGED <<commitVars, epochPc, batch, epochLog,
                            dist, replayPc, cursor, epochStart, sidecars>>
     ELSE Exit("failed") /\ UNCHANGED allReplayVars

Compute ==
  /\ commandPc = "computing"
  /\ \/ command.kind = "epoch" /\ EpochStep /\ UNCHANGED replayVars
     \/ command.kind = "verify" /\ ReplayNext
  /\ UNCHANGED commandVars

\* The library call threw; main prints the message and returns 2.
Fails ==
  /\ commandPc = "computing"
  /\ "threw" \in {epochPc, replayPc}
  /\ Exit("failed")
  /\ UNCHANGED allReplayVars

Verified ==
  /\ commandPc = "computing"
  /\ replayPc = "returned"
  /\ Exit("returned")
  /\ UNCHANGED allReplayVars

Computed == command.kind = "log" \/ epochPc = "returned"
Result == IF command.kind = "log" THEN log ELSE epochLog

\* Fault: the final graph is written without another look at the tour.
OpenEdges_Ungated ==
  /\ commandPc = "computing" /\ Computed
  /\ commandPc' = "edges"
  /\ edgesFile' = <<>>
  /\ meant' = [meant EXCEPT !.by = command, !.edges = graph]
  /\ UNCHANGED <<allReplayVars, script, proofFile>>

\* The final gate comes before the first byte of output; then the edge file
\* is opened, which empties it.
OpenEdges ==
  /\ commandPc = "computing" /\ Computed
  /\ InGraph(command.tour, graph)
  /\ commandPc' = "edges"
  /\ edgesFile' = <<>>
  /\ meant' = [meant EXCEPT !.by = command, !.edges = graph]
  /\ UNCHANGED <<allReplayVars, script, proofFile>>

GateClosed ==
  /\ commandPc = "computing" /\ Computed
  /\ ~ InGraph(command.tour, graph)
  /\ Exit("failed")
  /\ UNCHANGED allReplayVars

NextLine(lines, whole) == Append(lines, whole[Len(lines) + 1])

PutEdge ==
  /\ commandPc = "edges"
  /\ edgesFile # EdgeLines(graph)
  /\ edgesFile' = NextLine(edgesFile, EdgeLines(graph))
  /\ UNCHANGED <<allReplayVars, script, commandPc, proofFile, meant>>

\* The edge file is closed, whole or not, the log looked over and the proof file
\* opened.
OpenProof ==
  /\ commandPc = "edges"
  /\ ValidateProofContainer(Result)
  /\ commandPc' = "proof"
  /\ proofFile' = <<>>
  /\ meant' = [meant EXCEPT !.log = Result]
  /\ UNCHANGED <<allReplayVars, script, edgesFile>>

PutProof ==
  /\ commandPc = "proof"
  /\ proofFile # WriteProof(Result)
  /\ proofFile' = NextLine(proofFile, WriteProof(Result))
  /\ UNCHANGED <<allReplayVars, script, commandPc, edgesFile, meant>>

Return ==
  /\ commandPc = "proof"
  /\ Exit("returned")
  /\ UNCHANGED allReplayVars

CommandsNext ==
  \/ Load \/ NextCommand \/ Dies
  \/ StartComputing \/ Compute \/ Fails \/ Verified
  \/ OpenEdges \/ GateClosed \/ PutEdge \/ OpenProof \/ PutProof \/ Return

CommandsSpec == CommandsInit /\ [][CommandsNext]_allVars

-----------------------------------------------------------------------------
(* Neither kind of failure, a bad record in a late epoch of a log or a bad *)
(* proof in a sidecar, leaves its caller a partly edited graph.            *)
AllOrNothing == ReplayAllOrNothing /\ EpochAllOrNothing

(* A reader that comes while a file is written, or finds what a dead or    *)
(* a silently failing writer left, accepts the file only when it is whole, *)
(* and then gets exactly what was written (graph.cpp:183-221 against       *)
(* 284-298, jv_elimination.cpp:509-520 against 324-368).                   *)
OnlyWholeFilesRead ==
  /\ Loadable(edgesFile) =>
       edgesFile = EdgeLines(meant.edges) /\ LoadedEdges(edgesFile) = meant.edges
  /\ Readable(proofFile) =>
       proofFile = WriteProof(meant.log) /\ Carries(proofFile, meant.log)
  /\ proofFile = WriteProof(meant.log) /\ ValidateProofContainer(meant.log) =>
       Readable(proofFile)

(* When a writing command returns 0 and both its files can be read, they   *)
(* are a pair: the proof verifies on the input edges and leads to exactly  *)
(* the edges in the edge file, although the two are written one after the  *)
(* other, over what earlier commands left, and neither write is checked to *)
(* the end (main.cpp:257-258).                                             *)
ReturnedPairAgrees ==
  commandPc = "returned" /\ command.kind # "verify"
    /\ Loadable(edgesFile) /\ Readable(proofFile) =>
      LET read == ReadLog(proofFile)
      IN  /\ ReplayProof(dist, command.input, read)
          /\ LoadedEdges(edgesFile) = Replayed(read)
=============================================================================
