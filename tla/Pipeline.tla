------------------------------ MODULE Pipeline ------------------------------
(***************************************************************************)
(* One run of main and several of them at once: reading the input, the     *)
(* preparation of a graph in a private directory, the analysis, the        *)
(* publication of OUTPUT, the removal of the directory, the exit code.     *)
(*                                                                         *)
(* OUTPUT is a NoReplaceStore of one name, which is what Publication       *)
(* implements.  The reduction of compact edges is one step, as its         *)
(* frontier is whole throughout (GenerationMerge).                         *)
(***************************************************************************)
EXTENDS Integers

CONSTANTS
  Processes,    \* started with the same INPUT and OUTPUT
  NoProcess,
  Chunks,       \* reads it takes to consume the input
  MaxChanges,   \* bound: changes of the input
  MaxCrashes    \* bound: crashes of the machine

ASSUME PipelineAssumption ==
  /\ NoProcess \notin Processes
  /\ Chunks \in Nat \ {0} /\ {MaxChanges, MaxCrashes} \subseteq Nat

VARIABLES
  input,        \* which version of the file is there, as fstat tells
  crashes,
  alive,        \* the processes that run or may be started
  place,
  snapshot,     \* before_ of InputFile
  chunk, seen,  \* chunks consumed, and the versions they were read from
  holding,      \* history: from the end of the ingest until removal begins
  disk,         \* the private directory
  outcome,      \* of run_pipeline
  exit,         \* the class of exit code
  entry, durable, reported

files  == <<entry, durable, reported>>
reader == <<snapshot, chunk, seen>>
vars   == <<input, crashes, alive, place, reader, holding, disk, outcome, exit, files>>

OUTPUT == "OUTPUT"

Output == INSTANCE NoReplaceStore WITH
  Targets <- {OUTPUT}, Files <- Processes, NoFile <- NoProcess

\* "runs" are the endpoint runs of the current pass, "successor" those of the
\* next; "edges" is the generation of compact edges that is the frontier.
Names == {"run", "workspace", "raw_edges", "runs", "successor", "vertex_ids",
          "edges", "staging", "graph"}
InWorkspace == {"raw_edges", "runs", "successor", "vertex_ids", "edges"}

\* A graph is durable when its name outlives a crash.
Status == {"absent", "partial", "whole", "durable"}

Nothing == [n \in Names |-> "absent"]

\* "error" is any code of an exception, "cleanup" that of the exception which
\* cleanup_checked throws.
Exits == {"none", "success", "publication", "durability_uncertain",
          "non_converged", "numerical_failure", "error", "cleanup"}

Init ==
  /\ input = 0 /\ crashes = 0
  /\ alive = Processes
  /\ place = [p \in Processes |-> "resolve"]
  /\ snapshot = [p \in Processes |-> 0]
  /\ chunk = [p \in Processes |-> 0] /\ seen = [p \in Processes |-> {}]
  /\ holding = {}
  /\ disk = [p \in Processes |-> Nothing]
  /\ outcome = [p \in Processes |-> "none"] /\ exit = [p \in Processes |-> "none"]
  /\ Output!Init

Goto(p, here, there) ==
  /\ p \in alive /\ place[p] = here
  /\ place' = [place EXCEPT ![p] = there]
  /\ UNCHANGED <<input, crashes, alive>>

Put(p, n, status) == disk' = [disk EXCEPT ![p][n] = status]

\* What is in a directory that could not be removed, or is left there, keeps it.
Kept(left) ==
  /\ left \intersect InWorkspace # {} => "workspace" \in left
  /\ left # {} => "run" \in left

Present(p) == {n \in Names : disk[p][n] # "absent"}

\* Of these names only those left remain.
Drop(p, names, left) ==
  disk' = [disk EXCEPT ![p] =
             [n \in Names |-> IF n \in names \ left THEN "absent" ELSE @[n]]]

\* A step that only changes the private directory.
Write(p, here, n, status, there) ==
  /\ Goto(p, here, there)
  /\ Put(p, n, status)
  /\ UNCHANGED <<reader, holding, outcome, exit, files>>

----------------------------------------------------------------------------
(* Exceptions.                                                             *)

\* Mutant: the guards are disarmed only after the predecessor is retired.
Guarded_TooLong(here) ==
  CASE here \in {"consume", "verify", "finish"}  -> {"workspace", "raw_edges", "runs"}
    [] here \in {"write_pass", "retire_pass"}    -> {"successor"}
    [] here \in {"write_ids", "retire_runs"}     -> {"vertex_ids"}
    [] here \in {"write_edges", "retire_raw"}    -> {"edges"}
    [] here \in {"write_graph", "publish_graph"} -> {"staging"}
    [] OTHER                                     -> {}

\* What the guard or destructor that is active at a place removes.
Guarded(here) ==
  CASE here \in {"consume", "verify", "finish"}  -> {"workspace", "raw_edges", "runs"}
    [] here = "write_pass"                       -> {"successor"}
    [] here = "write_ids"                        -> {"vertex_ids"}
    [] here = "write_edges"                      -> {"edges"}
    [] here \in {"write_graph", "publish_graph"} -> {"staging"}
    [] OTHER                                     -> {}

Verified ==
  {"finish", "merge", "write_pass", "retire_pass", "write_ids", "retire_runs",
   "compact", "write_edges", "retire_raw", "reduce", "build", "write_graph",
   "publish_graph", "sync_graph", "retire_frontier", "retire_ids",
   "retire_workspace", "analyze", "publish", "sync", "report", "cleanup", "retry"}

Places == {"resolve", "open", "mkdtemp", "create", "consume", "verify", "unwind",
           "exited", "killed"} \union Verified

ThrowingPlaces ==
  {"resolve", "open", "mkdtemp", "create", "consume", "verify", "finish", "merge",
   "write_pass", "retire_pass", "write_ids", "retire_runs", "compact",
   "write_edges", "retire_raw", "reduce", "build", "write_graph",
   "publish_graph", "analyze", "publish"}

\* The exception passes the guards, whose own errors are ignored.
Throws(p, left) ==
  /\ place[p] \in ThrowingPlaces
  /\ left \subseteq Present(p)
  /\ Kept(left \union (Present(p) \ Guarded(place[p])))
  /\ Goto(p, place[p], "unwind")
  /\ Drop(p, Guarded(place[p]), left)
  /\ exit' = [exit EXCEPT ![p] = "error"]
  /\ UNCHANGED <<reader, holding, outcome, files>>

----------------------------------------------------------------------------
(* main: arguments, input and directory.                                   *)

ResolveOutput(p) ==
  /\ entry[OUTPUT] = NoProcess
  /\ Goto(p, "resolve", "open")
  /\ UNCHANGED <<reader, holding, disk, outcome, exit, files>>

OutputExists(p) ==
  /\ entry[OUTPUT] # NoProcess
  /\ Goto(p, "resolve", "exited")
  /\ exit' = [exit EXCEPT ![p] = "publication"]
  /\ UNCHANGED <<reader, holding, disk, outcome, files>>

OpenInput(p) ==
  /\ Goto(p, "open", "mkdtemp")
  /\ snapshot' = [snapshot EXCEPT ![p] = input]
  /\ UNCHANGED <<chunk, seen, holding, disk, outcome, exit, files>>

CreateRunDirectory(p) == Write(p, "mkdtemp", "run", "whole", "create")

----------------------------------------------------------------------------
(* Ingest.                                                                 *)

\* The workspace and, in it, the file of raw edges.
CreatePreprocessor(p) ==
  /\ Goto(p, "create", "consume")
  /\ disk' = [disk EXCEPT ![p].workspace = "whole", ![p].raw_edges = "partial"]
  /\ UNCHANGED <<reader, holding, outcome, exit, files>>

\* pread gives the version of the moment.
Consume(p) ==
  /\ chunk[p] < Chunks
  /\ Goto(p, "consume", "consume")
  /\ chunk' = [chunk EXCEPT ![p] = @ + 1]
  /\ seen' = [seen EXCEPT ![p] = @ \union {input}]
  /\ Put(p, "runs", "partial")
  /\ UNCHANGED <<snapshot, holding, outcome, exit, files>>

AllConsumed(p) ==
  /\ chunk[p] = Chunks
  /\ Goto(p, "consume", "verify")
  /\ UNCHANGED <<reader, holding, disk, outcome, exit, files>>

\* Mutant: only the size is compared.
VerifyUnchanged_SizeOnly(p) ==
  /\ Goto(p, "verify", "finish")
  /\ UNCHANGED <<reader, holding, disk, outcome, exit, files>>

\* Otherwise it throws.
VerifyUnchanged(p) ==
  /\ input = snapshot[p]
  /\ Goto(p, "verify", "finish")
  /\ UNCHANGED <<reader, holding, disk, outcome, exit, files>>

FinishIngest(p) ==
  /\ Goto(p, "finish", "merge")
  /\ disk' = [disk EXCEPT ![p].raw_edges = "whole", ![p].runs = "whole"]
  /\ holding' = holding \union {p}
  /\ UNCHANGED <<reader, outcome, exit, files>>

----------------------------------------------------------------------------
(* Removing a predecessor.                                                 *)

\* One of several files is unlinked first, or the only one.
Unlink(p, here, n) ==
  /\ disk[p][n] # "absent"
  /\ LET several == n \in {"runs", "edges"} /\ disk[p][n] = "whole"
     IN  Write(p, here, n, IF several THEN "partial" ELSE "absent", here)

\* They are gone, and so is their directory.
Retired(p, here, n, there) ==
  /\ disk[p][n] = "absent"
  /\ Goto(p, here, there)
  /\ UNCHANGED <<reader, holding, disk, outcome, exit, files>>

----------------------------------------------------------------------------
(* Merge of the endpoint runs, compact edges.                              *)

\* With more runs than the fan-in, of which there may be any number.
WritePass(p)  == Write(p, "merge", "successor", "partial", "write_pass")
CommitPass(p) == Write(p, "write_pass", "successor", "whole", "retire_pass")

\* current = std::move(successor)
EndPass(p) ==
  /\ disk[p]["runs"] = "absent"
  /\ Goto(p, "retire_pass", "merge")
  /\ disk' = [disk EXCEPT ![p].runs = disk[p].successor, ![p].successor = "absent"]
  /\ UNCHANGED <<reader, holding, outcome, exit, files>>

WriteVertexIds(p)  == Write(p, "merge", "vertex_ids", "partial", "write_ids")
CommitVertexIds(p) == Write(p, "write_ids", "vertex_ids", "whole", "retire_runs")
WriteEdges(p)      == Write(p, "compact", "edges", "partial", "write_edges")
CommitEdges(p)     == Write(p, "write_edges", "edges", "whole", "retire_raw")

\* The frontier may be another generation afterwards.
Reduce(p) == Write(p, "reduce", "edges", "whole", "build")

MergeStep(p) ==
  \/ WritePass(p) \/ CommitPass(p) \/ Unlink(p, "retire_pass", "runs") \/ EndPass(p)
  \/ WriteVertexIds(p) \/ CommitVertexIds(p)
  \/ Unlink(p, "retire_runs", "runs") \/ Retired(p, "retire_runs", "runs", "compact")
  \/ WriteEdges(p) \/ CommitEdges(p)
  \/ Unlink(p, "retire_raw", "raw_edges")
  \/ Retired(p, "retire_raw", "raw_edges", "reduce")
  \/ Reduce(p)

----------------------------------------------------------------------------
(* Counted graph.                                                          *)

CreateStaging(p) == Write(p, "build", "staging", "partial", "write_graph")

\* All files, the manifest last; then the graph is opened and validated.
FinishStaging(p) == Write(p, "write_graph", "staging", "whole", "publish_graph")

\* Sets what run_pipeline will return, and goes on to the cleanup.
Conclude(p, here, result) ==
  /\ Goto(p, here, "cleanup")
  /\ outcome' = [outcome EXCEPT ![p] = result]
  /\ UNCHANGED <<reader, holding, disk, exit>>

\* The staging directory is kept.
PublishGraphFails(p) ==
  /\ Conclude(p, "publish_graph", "publication")
  /\ UNCHANGED files

RenameGraph(p) ==
  /\ Goto(p, "publish_graph", "sync_graph")
  /\ disk' = [disk EXCEPT ![p].staging = "absent", ![p].graph = disk[p].staging]
  /\ UNCHANGED <<reader, holding, outcome, exit, files>>

SyncGraph(p) == Write(p, "sync_graph", "graph", "durable", "retire_frontier")

SyncGraphFails(p) ==
  /\ Conclude(p, "sync_graph", "durability_uncertain")
  /\ UNCHANGED files

\* Whether or not all of it could be removed, no exception is thrown.
RetirementEnds(p, here, there) ==
  /\ Goto(p, here, there)
  /\ UNCHANGED <<reader, holding, disk, outcome, exit, files>>

RemoveWorkspace(p) ==
  /\ Present(p) \intersect InWorkspace = {}
  /\ Write(p, "retire_workspace", "workspace", "absent", "analyze")

GraphStep(p) ==
  \/ CreateStaging(p) \/ FinishStaging(p)
  \/ RenameGraph(p) \/ PublishGraphFails(p) \/ SyncGraph(p) \/ SyncGraphFails(p)
  \/ Unlink(p, "retire_frontier", "edges")
  \/ RetirementEnds(p, "retire_frontier", "retire_ids")
  \/ Unlink(p, "retire_ids", "vertex_ids")
  \/ RetirementEnds(p, "retire_ids", "retire_workspace")
  \/ RemoveWorkspace(p) \/ RetirementEnds(p, "retire_workspace", "analyze")

----------------------------------------------------------------------------
(* Analysis.                                                               *)

Converges(p) ==
  /\ Goto(p, "analyze", "publish")
  /\ UNCHANGED <<reader, holding, disk, outcome, exit, files>>

DoesNotConverge(p, result) ==
  /\ Conclude(p, "analyze", result)
  /\ UNCHANGED files

RenameOutput(p) ==
  /\ Goto(p, "publish", "sync")
  /\ Output!Publish(OUTPUT, p)
  /\ UNCHANGED <<reader, holding, disk, outcome, exit>>

\* The name is taken, or something failed before it was given.
PublishFails(p) ==
  /\ Conclude(p, "publish", "publication")
  /\ UNCHANGED files

SyncOutput(p) ==
  /\ Goto(p, "sync", "report")
  /\ Output!Persist
  /\ UNCHANGED <<reader, holding, disk, outcome, exit>>

\* Mutant: the state of the publication is not looked at.
SyncOutputFails_Success(p) ==
  /\ Conclude(p, "sync", "success")
  /\ UNCHANGED files

SyncOutputFails(p) ==
  /\ Conclude(p, "sync", "durability_uncertain")
  /\ UNCHANGED files

Report(p) ==
  /\ Conclude(p, "report", "success")
  /\ Output!Report(OUTPUT)

AnalysisStep(p) ==
  \/ Converges(p)
  \/ \E r \in {"non_converged", "numerical_failure"} : DoesNotConverge(p, r)
  \/ RenameOutput(p) \/ PublishFails(p)
  \/ SyncOutput(p) \/ SyncOutputFails(p) \/ Report(p)

----------------------------------------------------------------------------
(* Removal of the directory, and the end.                                  *)

Exit(p, here, code) ==
  /\ Goto(p, here, "exited")
  /\ exit' = [exit EXCEPT ![p] = code]
  /\ holding' = holding \ {p}
  /\ UNCHANGED <<reader, outcome, files>>

CleanupChecked(p) ==
  /\ Exit(p, "cleanup", outcome[p])
  /\ Drop(p, Names, {})

\* What a removal that failed leaves: something, and all of it if nothing could
\* be removed.
Leftovers(p) == {{"run"}, Present(p)}

\* It throws: the outcome is forgotten.
CleanupFails(p, left) ==
  /\ Goto(p, "cleanup", "retry")
  /\ Drop(p, Names, left)
  /\ exit' = [exit EXCEPT ![p] = "cleanup"]
  /\ holding' = holding \ {p}
  /\ UNCHANGED <<reader, outcome, files>>

\* ~UniqueRunDirectory, after any exception; errors are ignored.
CleanupNoexcept(p, left) ==
  /\ Exit(p, place[p], exit[p])
  /\ Drop(p, Names, left)

RemovalStep(p) ==
  \/ CleanupChecked(p)
  \/ /\ place[p] = "cleanup"
     /\ \E left \in Leftovers(p) : CleanupFails(p, left)
  \/ /\ place[p] \in {"unwind", "retry"}
     /\ \E left \in {{}} \union IF Present(p) = {} THEN {} ELSE Leftovers(p) :
          CleanupNoexcept(p, left)

Kill(p) ==
  /\ p \in alive /\ place[p] \notin {"resolve", "exited"}
  /\ alive' = alive \ {p}
  /\ place' = [place EXCEPT ![p] = "killed"]
  /\ UNCHANGED <<input, crashes, reader, holding, disk, outcome, exit, files>>

\* Processes that have not begun may be started afterwards.
Crash ==
  /\ crashes < MaxCrashes
  /\ crashes' = crashes + 1
  /\ alive' = {p \in alive : place[p] \in {"resolve", "exited"}}
  /\ place' = [p \in Processes |->
                 IF place[p] \in {"resolve", "exited"} THEN place[p] ELSE "killed"]
  /\ Output!Crash
  /\ UNCHANGED <<input, reader, holding, disk, outcome, exit>>

\* Somebody writes to the input.
ChangeInput ==
  /\ input < MaxChanges
  /\ input' = input + 1
  /\ UNCHANGED <<crashes, alive, place, reader, holding, disk, outcome, exit, files>>

ProcessStep(p) ==
  \/ ResolveOutput(p) \/ OutputExists(p) \/ OpenInput(p)
  \/ CreateRunDirectory(p) \/ CreatePreprocessor(p)
  \/ Consume(p) \/ AllConsumed(p) \/ VerifyUnchanged(p) \/ FinishIngest(p)
  \/ MergeStep(p) \/ GraphStep(p) \/ AnalysisStep(p)
  \/ RemovalStep(p) \/ Kill(p)
  \/ \E left \in SUBSET Guarded(place[p]) : Throws(p, left)

Next == (\E p \in Processes : ProcessStep(p)) \/ Crash \/ ChangeInput

Spec == Init /\ [][Next]_vars

----------------------------------------------------------------------------
(* Properties.                                                             *)

TypeOK ==
  /\ input \in 0 .. MaxChanges /\ crashes \in 0 .. MaxCrashes
  /\ alive \subseteq Processes /\ holding \subseteq Processes
  /\ place \in [Processes -> Places]
  /\ snapshot \in [Processes -> 0 .. MaxChanges]
  /\ chunk \in [Processes -> 0 .. Chunks]
  /\ seen \in [Processes -> SUBSET (0 .. MaxChanges)]
  /\ disk \in [Processes -> [Names -> Status]]
  /\ outcome \in [Processes -> Exits] /\ exit \in [Processes -> Exits]
  /\ entry \in [{OUTPUT} -> Processes \union {NoProcess}]
  /\ durable \subseteq {t \in {OUTPUT} : entry[t] # NoProcess}
  /\ reported \subseteq durable

CodeAgrees(p) ==
  /\ exit[p] = "success" => entry[OUTPUT] = p /\ OUTPUT \in durable
  /\ entry[OUTPUT] = p => exit[p] \in {"success", "durability_uncertain", "cleanup"}
  /\ Present(p) # {} => exit[p] \in {"error", "cleanup"}

\* main.cpp:389-432 and 485-487: the exit code agrees with what is on disk.
\* Success means that OUTPUT is this process's, survives crashes, and that the
\* private directory is gone.  Who sees any other code of an outcome finds no
\* directory, and OUTPUT of this process only if its durability is uncertain or
\* the directory could not be removed.
ExitTellsWhatIsThere ==
  \A p \in Processes : place[p] = "exited" => CodeAgrees(p)

\* main.cpp:255-262: what is published was computed from one version of the
\* input, the one that was there when it was opened, whoever wrote to the file
\* meanwhile.
OutputIsOfOneInput ==
  entry[OUTPUT] # NoProcess =>
    seen[entry[OUTPUT]] = {snapshot[entry[OUTPUT]]}

HasWhole(p, names) == \A n \in names : disk[p][n] \in {"whole", "durable"}

SomethingWhole(p) ==
  \/ /\ HasWhole(p, {"raw_edges"})
     /\ \E n \in {"runs", "successor", "vertex_ids"} : HasWhole(p, {n})
  \/ HasWhole(p, {"edges", "vertex_ids"})
  \/ disk[p]["graph"] = "durable"

\* vertex_id_merge.cpp:844, compact_edge_runs.cpp:951 and counted_graph.cpp:886:
\* from the end of the ingest until the directory is removed it holds something
\* whole to go on from, at every failure and every kill: the raw edges with the
\* vertices' ids, the compact edges with them, or the graph, confirmed as durable.
SomethingWholeRemains == \A p \in holding : SomethingWhole(p)

----------------------------------------------------------------------------
\* docs/configuration.md:150: code 8 says that the durability of the published
\* file is not confirmed, so that there is one.
UncertainMeansPublished ==
  \A p \in Processes :
    place[p] = "exited" /\ exit[p] = "durability_uncertain" => entry[OUTPUT] = p
=============================================================================
