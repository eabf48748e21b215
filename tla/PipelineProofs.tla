--------------------------- MODULE PipelineProofs ---------------------------
(***************************************************************************)
(* For any number of processes, reads of the input, changes of it and      *)
(* crashes: what is published was computed from one version of the input   *)
(* (OutputIsOfOneInput), the private directory always holds something      *)
(* whole to go on from (SomethingWholeRemains), and the exit code agrees   *)
(* with what is on disk (ExitTellsWhatIsThere).                            *)
(*                                                                         *)
(* The argument.  A step of one process leaves what another keeps to       *)
(* itself as it was, and neither gives nor takes the other's OUTPUT        *)
(* (OnlyMine), so that the invariant is one of each process by itself.     *)
(* What it has read lies between the version it opened and the one that is *)
(* there now (ReadAt); a predecessor is removed only at places where its   *)
(* successor is whole (HoldAt); and OUTPUT is its own only at places from  *)
(* which the exit code will say so (ExitAt).                               *)
(***************************************************************************)
EXTENDS Pipeline, TLAPS

Opening == {"resolve", "open", "mkdtemp", "create"}
Reading == Opening \union {"consume", "verify"}

\* What was read lies between the snapshot and the input as it is now, so that
\* once they are the same it is of one version.
ReadAt(p) ==
  /\ snapshot[p] <= input
  /\ seen[p] \subseteq snapshot[p] .. input
  /\ chunk[p] > 0 => seen[p] # {}
  /\ place[p] \in Opening => chunk[p] = 0 /\ seen[p] = {}
  /\ place[p] = "verify" => chunk[p] = Chunks
  /\ place[p] \in Verified => seen[p] = {snapshot[p]}
  /\ entry[OUTPUT] = p => seen[p] = {snapshot[p]}

\* What is whole at each place.
HoldAt(p) ==
  /\ place[p] \in Reading \union {"finish", "retry", "exited"} => p \notin holding
  /\ place[p] \in {"merge", "write_pass", "write_ids"} =>
       HasWhole(p, {"raw_edges", "runs"})
  /\ place[p] = "retire_pass" => HasWhole(p, {"raw_edges", "successor"})
  /\ place[p] \in {"retire_runs", "compact", "write_edges"} =>
       HasWhole(p, {"raw_edges", "vertex_ids"})
  /\ place[p] \in {"retire_raw", "reduce", "build", "write_graph",
                   "publish_graph", "sync_graph"} =>
       HasWhole(p, {"edges", "vertex_ids"})
  /\ place[p] \in {"retire_frontier", "retire_ids", "retire_workspace", "analyze",
                   "publish", "sync", "report"} =>
       disk[p]["graph"] = "durable"
  /\ p \in holding => SomethingWhole(p)

\* How outcome, exit code and OUTPUT go together.
ExitAt(p) ==
  /\ place[p] \in {"resolve", "open", "mkdtemp"} => Present(p) = {}
  /\ place[p] \in {"sync", "report"} => entry[OUTPUT] = p
  /\ place[p] = "report" => OUTPUT \in durable
  /\ place[p] = "cleanup" =>
       /\ outcome[p] \in {"success", "publication", "durability_uncertain",
                          "non_converged", "numerical_failure"}
       /\ outcome[p] = "success" => entry[OUTPUT] = p /\ OUTPUT \in durable
       /\ entry[OUTPUT] = p => outcome[p] \in {"success", "durability_uncertain"}
  /\ place[p] = "unwind" => exit[p] = "error"
  /\ place[p] = "retry" => exit[p] = "cleanup"
  /\ entry[OUTPUT] = p =>
       place[p] \in {"sync", "report", "cleanup", "retry", "exited", "killed"}
  /\ place[p] = "exited" => CodeAgrees(p)

IInv == TypeOK /\ \A p \in Processes : ReadAt(p) /\ HoldAt(p) /\ ExitAt(p)

----------------------------------------------------------------------------
(* The types.                                                              *)

\* The parts a step of a process is made of keep their types.
LEMMA GotoType ==
  ASSUME TypeOK, NEW p \in Processes, NEW here, NEW there \in Places, Goto(p, here, there)
  PROVE  /\ input' \in 0 .. MaxChanges /\ crashes' \in 0 .. MaxCrashes
         /\ alive' \subseteq Processes
         /\ place' \in [Processes -> Places]
BY DEF TypeOK, Goto

LEMMA FilesType ==
  ASSUME TypeOK, UNCHANGED files
  PROVE  /\ entry' \in [{OUTPUT} -> Processes \union {NoProcess}]
         /\ durable' \subseteq {t \in {OUTPUT} : entry'[t] # NoProcess}
         /\ reported' \subseteq durable'
BY DEF TypeOK, files

LEMMA WriteType ==
  ASSUME TypeOK, NEW p \in Processes, NEW here, NEW n \in Names, NEW status \in Status,
         NEW there \in Places, Write(p, here, n, status, there)
  PROVE  TypeOK'
<1>1. disk' \in [Processes -> [Names -> Status]]
  BY DEF TypeOK, Write, Put
<1>2. UNCHANGED <<holding, outcome, exit, snapshot, chunk, seen, files>>
  BY DEF Write, reader
<1>3. Goto(p, here, there) BY DEF Write
<1> QED BY <1>1, <1>2, <1>3, GotoType, FilesType DEF TypeOK

LEMMA MoveType ==
  ASSUME TypeOK, NEW p \in Processes, NEW here, NEW there \in Places, Goto(p, here, there),
    UNCHANGED <<reader, holding, disk, outcome, exit, files>>
  PROVE  TypeOK'
<1>2. UNCHANGED <<holding, outcome, disk, exit, snapshot, chunk, seen, files>>
  BY DEF reader
<1> QED BY <1>2, GotoType, FilesType DEF TypeOK

\* A step of one process leaves what belongs to another, and gives and takes no
\* OUTPUT of its.  A durable name stays durable.
LEMMA OnlyMine ==
  ASSUME TypeOK, NEW p \in Processes, ProcessStep(p), NEW q \in Processes, q # p
  PROVE  /\ input' = input /\ place'[q] = place[q] /\ disk'[q] = disk[q]
         /\ snapshot'[q] = snapshot[q] /\ chunk'[q] = chunk[q] /\ seen'[q] = seen[q]
         /\ q \in holding' <=> q \in holding
         /\ outcome'[q] = outcome[q] /\ exit'[q] = exit[q]
         /\ entry'[OUTPUT] = q <=> entry[OUTPUT] = q
         /\ OUTPUT \in durable => OUTPUT \in durable'
<1> USE PipelineAssumption DEF TypeOK
<1>1. CASE ResolveOutput(p)
  BY <1>1 DEF ResolveOutput, Goto, files, reader
<1>2. CASE OutputExists(p)
  BY <1>2 DEF OutputExists, Goto, files, reader
<1>3. CASE OpenInput(p)
  BY <1>3 DEF OpenInput, Goto, files, reader
<1>4. CASE CreateRunDirectory(p)
  BY <1>4 DEF CreateRunDirectory, Write, Goto, Put, files, reader
<1>5. CASE CreatePreprocessor(p)
  BY <1>5 DEF CreatePreprocessor, Goto, files, reader
<1>6. CASE Consume(p)
  BY <1>6 DEF Consume, Goto, Put, files, reader
<1>7. CASE AllConsumed(p)
  BY <1>7 DEF AllConsumed, Goto, files, reader
<1>8. CASE VerifyUnchanged(p)
  BY <1>8 DEF VerifyUnchanged, Goto, files, reader
<1>9. CASE FinishIngest(p)
  BY <1>9 DEF FinishIngest, Goto, files, reader
<1>10. CASE MergeStep(p)
  BY <1>10 DEF MergeStep, WritePass, Write, Goto, Put, CommitPass, Unlink, EndPass,
       WriteVertexIds, CommitVertexIds, Retired, WriteEdges, CommitEdges, Reduce,
       files, reader
<1>11. CASE GraphStep(p)
  BY <1>11 DEF GraphStep, CreateStaging, Write, Goto, Put, FinishStaging, RenameGraph,
       PublishGraphFails, Conclude, SyncGraph, SyncGraphFails, Unlink, RetirementEnds,
       RemoveWorkspace, files, reader
<1>12. CASE AnalysisStep(p)
  BY <1>12 DEF AnalysisStep, Converges, Goto, DoesNotConverge, Conclude, RenameOutput,
       Output!Publish, PublishFails, SyncOutput, Output!Persist, Output!Named,
       SyncOutputFails, Report, Output!Report, files, reader
<1>13. CASE RemovalStep(p)
  BY <1>13 DEF RemovalStep, CleanupChecked, CleanupFails, CleanupNoexcept, Exit, Drop,
       Goto, files, reader
<1>14. CASE Kill(p)
  BY <1>14 DEF Kill, files, reader
<1>15. CASE \E left \in SUBSET Guarded(place[p]) : Throws(p, left)
  BY <1>15 DEF Throws, Drop, Goto, files, reader
<1> QED BY <1>1, <1>2, <1>3, <1>4, <1>5, <1>6, <1>7, <1>8, <1>9, <1>10, <1>11, <1>12,
     <1>13, <1>14, <1>15 DEF ProcessStep

\* Removing files from the private directory.
LEMMA DropType ==
  ASSUME TypeOK, NEW p \in Processes, NEW names, NEW left, Drop(p, names, left)
  PROVE  disk' \in [Processes -> [Names -> Status]]
<1>1. [n \in Names |-> IF n \in names \ left THEN "absent" ELSE disk[p][n]]
        \in [Names -> Status]
  BY DEF TypeOK, Status
<1> QED BY <1>1 DEF TypeOK, Drop

\* What takes the place of something else was there.
LEMMA RenameType ==
  ASSUME TypeOK, NEW p \in Processes, NEW n \in Names, NEW m \in Names,
         disk' = [disk EXCEPT ![p][n] = disk[p][m], ![p][m] = "absent"]
         \/ disk' = [disk EXCEPT ![p][m] = "absent", ![p][n] = disk[p][m]]
  PROVE  disk' \in [Processes -> [Names -> Status]]
<1>1. disk[p] \in [Names -> Status] /\ disk[p][m] \in Status /\ "absent" \in Status
  BY DEF TypeOK, Status
<1>2. ASSUME NEW d \in [Processes -> [Names -> Status]], NEW k \in Names,
             NEW status \in Status
      PROVE  [d EXCEPT ![p][k] = status] \in [Processes -> [Names -> Status]]
  OBVIOUS
<1>3. [disk EXCEPT ![p][n] = disk[p][m]] \in [Processes -> [Names -> Status]]
  BY <1>1, <1>2 DEF TypeOK
<1>4. [disk EXCEPT ![p][m] = "absent"] \in [Processes -> [Names -> Status]]
  BY <1>1, <1>2 DEF TypeOK
<1> QED BY <1>1, <1>2, <1>3, <1>4

\* Every step of a process keeps the types.
LEMMA TypeStep ==
  ASSUME TypeOK, NEW p \in Processes, ProcessStep(p)
  PROVE  TypeOK'
<1> USE PipelineAssumption DEF TypeOK, Places, Verified, Status, Names, Exits
<1>1. CASE ResolveOutput(p)
  BY <1>1 DEF ResolveOutput, Goto, files, reader
<1>2. CASE OutputExists(p)
  BY <1>2 DEF OutputExists, Goto, files, reader
<1>3. CASE OpenInput(p)
  BY <1>3 DEF OpenInput, Goto, files, reader
<1>4. CASE CreateRunDirectory(p)
  BY <1>4, WriteType DEF CreateRunDirectory
<1>5. CASE CreatePreprocessor(p)
  BY <1>5 DEF CreatePreprocessor, Goto, files, reader
<1>6. CASE Consume(p)
  BY <1>6 DEF Consume, Goto, Put, files, reader
<1>7. CASE AllConsumed(p)
  BY <1>7 DEF AllConsumed, Goto, files, reader
<1>8. CASE VerifyUnchanged(p)
  BY <1>8 DEF VerifyUnchanged, Goto, files, reader
<1>9. CASE FinishIngest(p)
  BY <1>9 DEF FinishIngest, Goto, files, reader
<1>10. CASE MergeStep(p)
  <2>1. CASE WritePass(p)
    BY <2>1, WriteType DEF WritePass
  <2>2. CASE CommitPass(p)
    BY <2>2, WriteType DEF CommitPass
  <2>3. CASE Unlink(p, "retire_pass", "runs")
    BY <2>3, WriteType DEF Unlink
  <2>4. CASE EndPass(p)
    <3>1. disk' \in [Processes -> [Names -> Status]]
      BY <2>4, RenameType DEF EndPass
    <3> QED BY <2>4, <3>1 DEF EndPass, Goto, files, reader
  <2>5. CASE WriteVertexIds(p)
    BY <2>5, WriteType DEF WriteVertexIds
  <2>6. CASE CommitVertexIds(p)
    BY <2>6, WriteType DEF CommitVertexIds
  <2>7. CASE Unlink(p, "retire_runs", "runs")
    BY <2>7, WriteType DEF Unlink
  <2>8. CASE Retired(p, "retire_runs", "runs", "compact")
    BY <2>8 DEF Retired, Goto, files, reader
  <2>9. CASE WriteEdges(p)
    BY <2>9, WriteType DEF WriteEdges
  <2>10. CASE CommitEdges(p)
    BY <2>10, WriteType DEF CommitEdges
  <2>11. CASE Unlink(p, "retire_raw", "raw_edges")
    BY <2>11, WriteType DEF Unlink
  <2>12. CASE Retired(p, "retire_raw", "raw_edges", "reduce")
    BY <2>12 DEF Retired, Goto, files, reader
  <2>13. CASE Reduce(p)
    BY <2>13, WriteType DEF Reduce
  <2> QED BY <1>10, <2>1, <2>2, <2>3, <2>4, <2>5, <2>6, <2>7, <2>8, <2>9, <2>10,
       <2>11, <2>12, <2>13 DEF MergeStep
<1>11. CASE GraphStep(p)
  <2>1. CASE CreateStaging(p)
    BY <2>1, WriteType DEF CreateStaging
  <2>2. CASE FinishStaging(p)
    BY <2>2, WriteType DEF FinishStaging
  <2>3. CASE RenameGraph(p)
    <3>1. disk' \in [Processes -> [Names -> Status]]
      BY <2>3, RenameType DEF RenameGraph
    <3> QED BY <2>3, <3>1 DEF RenameGraph, Goto, files, reader
  <2>4. CASE PublishGraphFails(p)
    BY <2>4 DEF PublishGraphFails, Conclude, Goto, files, reader
  <2>5. CASE SyncGraph(p)
    BY <2>5, WriteType DEF SyncGraph
  <2>6. CASE SyncGraphFails(p)
    BY <2>6 DEF SyncGraphFails, Conclude, Goto, files, reader
  <2>7. CASE Unlink(p, "retire_frontier", "edges")
    BY <2>7, WriteType DEF Unlink
  <2>8. CASE RetirementEnds(p, "retire_frontier", "retire_ids")
    BY <2>8 DEF RetirementEnds, Goto, files, reader
  <2>9. CASE Unlink(p, "retire_ids", "vertex_ids")
    BY <2>9, WriteType DEF Unlink
  <2>10. CASE RetirementEnds(p, "retire_ids", "retire_workspace")
    BY <2>10 DEF RetirementEnds, Goto, files, reader
  <2>11. CASE RemoveWorkspace(p)
    BY <2>11, WriteType DEF RemoveWorkspace
  <2>12. CASE RetirementEnds(p, "retire_workspace", "analyze")
    BY <2>12 DEF RetirementEnds, Goto, files, reader
  <2> QED BY <1>11, <2>1, <2>2, <2>3, <2>4, <2>5, <2>6, <2>7, <2>8, <2>9, <2>10,
       <2>11, <2>12 DEF GraphStep
<1>12. CASE AnalysisStep(p)
  <2>1. CASE Converges(p)
    BY <2>1 DEF Converges, Goto, files, reader
  <2>2. CASE \E r \in {"non_converged", "numerical_failure"} : DoesNotConverge(p, r)
    BY <2>2 DEF DoesNotConverge, Conclude, Goto, files, reader
  <2>3. CASE RenameOutput(p)
    BY <2>3 DEF RenameOutput, Goto, Output!Publish, files, reader
  <2>4. CASE PublishFails(p)
    BY <2>4 DEF PublishFails, Conclude, Goto, files, reader
  <2>5. CASE SyncOutput(p)
    BY <2>5 DEF SyncOutput, Goto, Output!Persist, Output!Named, files, reader
  <2>6. CASE SyncOutputFails(p)
    BY <2>6 DEF SyncOutputFails, Conclude, Goto, files, reader
  <2>7. CASE Report(p)
    BY <2>7 DEF Report, Conclude, Goto, Output!Report, files, reader
  <2> QED BY <1>12, <2>1, <2>2, <2>3, <2>4, <2>5, <2>6, <2>7 DEF AnalysisStep
<1>13. CASE RemovalStep(p)
  <2>1. disk' \in [Processes -> [Names -> Status]]
    BY <1>13, DropType DEF RemovalStep, CleanupChecked, CleanupFails, CleanupNoexcept
  <2>2. PICK code \in Exits, there \in {"exited", "retry"} :
          /\ place' = [place EXCEPT ![p] = there]
          /\ exit' = [exit EXCEPT ![p] = code]
          /\ holding' = holding \ {p}
          /\ UNCHANGED <<input, crashes, alive, reader, outcome, files>>
    BY <1>13 DEF RemovalStep, CleanupChecked, CleanupFails, CleanupNoexcept, Exit, Goto
  <2> QED BY <2>1, <2>2 DEF files, reader
<1>14. CASE Kill(p)
  BY <1>14 DEF Kill, files, reader
<1>15. CASE \E left \in SUBSET Guarded(place[p]) : Throws(p, left)
  BY <1>15, DropType DEF Throws, Goto, files, reader
<1> QED BY <1>1, <1>2, <1>3, <1>4, <1>5, <1>6, <1>7, <1>8, <1>9, <1>10, <1>11, <1>12,
     <1>13, <1>14, <1>15 DEF ProcessStep

----------------------------------------------------------------------------
(* A process keeps its own part of the invariant.                          *)

\* Once the input is verified nothing is read any more, and the check gives what
\* Verified promises: the input is what it was, and so is all that lies between.
LEMMA ReadStep ==
  ASSUME TypeOK, TypeOK', NEW p \in Processes, ReadAt(p), HoldAt(p), ExitAt(p),
         ProcessStep(p)
  PROVE  ReadAt(p)'
<1> USE PipelineAssumption DEF TypeOK, ReadAt, Opening, Verified, ExitAt
<1>1. CASE ResolveOutput(p)
  BY <1>1 DEF ResolveOutput, Goto, files, reader
<1>2. CASE OutputExists(p)
  BY <1>2 DEF OutputExists, Goto, files, reader
<1>3. CASE OpenInput(p)
  BY <1>3 DEF OpenInput, Goto, files, reader
<1>4. CASE CreateRunDirectory(p)
  BY <1>4 DEF CreateRunDirectory, Write, Goto, Put, files, reader
<1>5. CASE CreatePreprocessor(p)
  BY <1>5 DEF CreatePreprocessor, Goto, files, reader
<1>6. CASE Consume(p)
  BY <1>6 DEF Consume, Goto, Put, files, reader
<1>7. CASE AllConsumed(p)
  BY <1>7 DEF AllConsumed, Goto, files, reader
<1>8. CASE VerifyUnchanged(p)
  BY <1>8 DEF VerifyUnchanged, Goto, files, reader
<1>9. CASE FinishIngest(p)
  BY <1>9 DEF FinishIngest, Goto, files, reader
<1>10. CASE MergeStep(p)
  BY <1>10 DEF MergeStep, WritePass, Write, Goto, Put, CommitPass, Unlink, EndPass,
       WriteVertexIds, CommitVertexIds, Retired, WriteEdges, CommitEdges, Reduce,
       files, reader
<1>11. CASE GraphStep(p)
  BY <1>11 DEF GraphStep, CreateStaging, Write, Goto, Put, FinishStaging, RenameGraph,
       PublishGraphFails, Conclude, SyncGraph, SyncGraphFails, Unlink, RetirementEnds,
       RemoveWorkspace, files, reader
<1>12. CASE AnalysisStep(p)
  BY <1>12 DEF AnalysisStep, Converges, Goto, DoesNotConverge, Conclude, RenameOutput,
       Output!Publish, PublishFails, SyncOutput, Output!Persist, Output!Named,
       SyncOutputFails, Report, Output!Report, files, reader
<1>13. CASE RemovalStep(p)
  BY <1>13 DEF RemovalStep, CleanupChecked, CleanupFails, CleanupNoexcept, Exit, Drop,
       Goto, files, reader, Present
<1>14. CASE Kill(p)
  BY <1>14 DEF Kill, files, reader
<1>15. CASE \E left \in SUBSET Guarded(place[p]) : Throws(p, left)
  BY <1>15 DEF Throws, ThrowingPlaces, Guarded, Drop, Goto, files, reader
<1> QED BY <1>1, <1>2, <1>3, <1>4, <1>5, <1>6, <1>7, <1>8, <1>9, <1>10, <1>11, <1>12,
     <1>13, <1>14, <1>15 DEF ProcessStep

\* Each place at which something is removed comes after the one at which what
\* replaces it became whole, and what a guard removes is not what is kept.
LEMMA HoldStep ==
  ASSUME TypeOK, TypeOK', NEW p \in Processes, ReadAt(p), HoldAt(p), ExitAt(p),
         ProcessStep(p)
  PROVE  HoldAt(p)'
<1> USE PipelineAssumption
    DEF TypeOK, HoldAt, Opening, Reading, HasWhole, SomethingWhole, Names
<1>1. CASE ResolveOutput(p)
  BY <1>1 DEF ResolveOutput, Goto, files, reader
<1>2. CASE OutputExists(p)
  BY <1>2 DEF OutputExists, Goto, files, reader
<1>3. CASE OpenInput(p)
  BY <1>3 DEF OpenInput, Goto, files, reader
<1>4. CASE CreateRunDirectory(p)
  BY <1>4 DEF CreateRunDirectory, Write, Goto, Put, files, reader
<1>5. CASE CreatePreprocessor(p)
  BY <1>5 DEF CreatePreprocessor, Goto, files, reader
<1>6. CASE Consume(p)
  BY <1>6 DEF Consume, Goto, Put, files, reader
<1>7. CASE AllConsumed(p)
  BY <1>7 DEF AllConsumed, Goto, files, reader
<1>8. CASE VerifyUnchanged(p)
  BY <1>8 DEF VerifyUnchanged, Goto, files, reader
<1>9. CASE FinishIngest(p)
  BY <1>9 DEF FinishIngest, Goto, files, reader
<1>10. CASE MergeStep(p)
  <2>1. CASE WritePass(p)
    BY <2>1 DEF WritePass, Write, Goto, Put, files, reader
  <2>2. CASE CommitPass(p)
    BY <2>2 DEF CommitPass, Write, Goto, Put, files, reader
  <2>3. CASE Unlink(p, "retire_pass", "runs")
    BY <2>3 DEF Unlink, Write, Goto, Put, files, reader
  <2>4. CASE EndPass(p)
    BY <2>4 DEF EndPass, Goto, files, reader
  <2>5. CASE WriteVertexIds(p)
    BY <2>5 DEF WriteVertexIds, Write, Goto, Put, files, reader
  <2>6. CASE CommitVertexIds(p)
    BY <2>6 DEF CommitVertexIds, Write, Goto, Put, files, reader
  <2>7. CASE Unlink(p, "retire_runs", "runs")
    BY <2>7 DEF Unlink, Write, Goto, Put, files, reader
  <2>8. CASE Retired(p, "retire_runs", "runs", "compact")
    BY <2>8 DEF Retired, Goto, files, reader
  <2>9. CASE WriteEdges(p)
    BY <2>9 DEF WriteEdges, Write, Goto, Put, files, reader
  <2>10. CASE CommitEdges(p)
    BY <2>10 DEF CommitEdges, Write, Goto, Put, files, reader
  <2>11. CASE Unlink(p, "retire_raw", "raw_edges")
    BY <2>11 DEF Unlink, Write, Goto, Put, files, reader
  <2>12. CASE Retired(p, "retire_raw", "raw_edges", "reduce")
    BY <2>12 DEF Retired, Goto, files, reader
  <2>13. CASE Reduce(p)
    BY <2>13 DEF Reduce, Write, Goto, Put, files, reader
  <2> QED BY <1>10, <2>1, <2>2, <2>3, <2>4, <2>5, <2>6, <2>7, <2>8, <2>9, <2>10,
       <2>11, <2>12, <2>13 DEF MergeStep
<1>11. CASE GraphStep(p)
  <2>1. CASE CreateStaging(p)
    BY <2>1 DEF CreateStaging, Write, Goto, Put, files, reader
  <2>2. CASE FinishStaging(p)
    BY <2>2 DEF FinishStaging, Write, Goto, Put, files, reader
  <2>3. CASE RenameGraph(p)
    BY <2>3 DEF RenameGraph, Goto, files, reader
  <2>4. CASE PublishGraphFails(p)
    BY <2>4 DEF PublishGraphFails, Conclude, Goto, files, reader
  <2>5. CASE SyncGraph(p)
    BY <2>5 DEF SyncGraph, Write, Goto, Put, files, reader
  <2>6. CASE SyncGraphFails(p)
    BY <2>6 DEF SyncGraphFails, Conclude, Goto, files, reader
  <2>7. CASE Unlink(p, "retire_frontier", "edges")
    BY <2>7 DEF Unlink, Write, Goto, Put, files, reader
  <2>8. CASE RetirementEnds(p, "retire_frontier", "retire_ids")
    BY <2>8 DEF RetirementEnds, Goto, files, reader
  <2>9. CASE Unlink(p, "retire_ids", "vertex_ids")
    BY <2>9 DEF Unlink, Write, Goto, Put, files, reader
  <2>10. CASE RetirementEnds(p, "retire_ids", "retire_workspace")
    BY <2>10 DEF RetirementEnds, Goto, files, reader
  <2>11. CASE RemoveWorkspace(p)
    BY <2>11 DEF RemoveWorkspace, Write, Goto, Put, files, reader
  <2>12. CASE RetirementEnds(p, "retire_workspace", "analyze")
    BY <2>12 DEF RetirementEnds, Goto, files, reader
  <2> QED BY <1>11, <2>1, <2>2, <2>3, <2>4, <2>5, <2>6, <2>7, <2>8, <2>9, <2>10,
       <2>11, <2>12 DEF GraphStep
<1>12. CASE AnalysisStep(p)
  <2>1. CASE Converges(p)
    BY <2>1 DEF Converges, Goto, files, reader
  <2>2. CASE \E r \in {"non_converged", "numerical_failure"} : DoesNotConverge(p, r)
    BY <2>2 DEF DoesNotConverge, Conclude, Goto, files, reader
  <2>3. CASE RenameOutput(p)
    BY <2>3 DEF RenameOutput, Goto, Output!Publish, files, reader
  <2>4. CASE PublishFails(p)
    BY <2>4 DEF PublishFails, Conclude, Goto, files, reader
  <2>5. CASE SyncOutput(p)
    BY <2>5 DEF SyncOutput, Goto, Output!Persist, Output!Named, files, reader
  <2>6. CASE SyncOutputFails(p)
    BY <2>6 DEF SyncOutputFails, Conclude, Goto, files, reader
  <2>7. CASE Report(p)
    BY <2>7 DEF Report, Conclude, Goto, Output!Report, files, reader
  <2> QED BY <1>12, <2>1, <2>2, <2>3, <2>4, <2>5, <2>6, <2>7 DEF AnalysisStep
<1>13. CASE RemovalStep(p)
  BY <1>13 DEF RemovalStep, CleanupChecked, CleanupFails, CleanupNoexcept, Exit, Drop,
       Goto, files, reader, Present
<1>14. CASE Kill(p)
  BY <1>14 DEF Kill, files, reader
<1>15. CASE \E left \in SUBSET Guarded(place[p]) : Throws(p, left)
  BY <1>15 DEF Throws, ThrowingPlaces, Guarded, Drop, Goto, files, reader
<1> QED BY <1>1, <1>2, <1>3, <1>4, <1>5, <1>6, <1>7, <1>8, <1>9, <1>10, <1>11, <1>12,
     <1>13, <1>14, <1>15 DEF ProcessStep

\* OUTPUT becomes this process's in RenameOutput only, after which no exception
\* is thrown, so that its exit code is an outcome, or that of the cleanup.
LEMMA ExitStep ==
  ASSUME TypeOK, TypeOK', NEW p \in Processes, ReadAt(p), HoldAt(p), ExitAt(p),
         ProcessStep(p)
  PROVE  ExitAt(p)'
<1> USE PipelineAssumption DEF TypeOK, ExitAt, CodeAgrees, Present, Names
<1>1. CASE ResolveOutput(p)
  BY <1>1 DEF ResolveOutput, Goto, files, reader
<1>2. CASE OutputExists(p)
  BY <1>2 DEF OutputExists, Goto, files, reader
<1>3. CASE OpenInput(p)
  BY <1>3 DEF OpenInput, Goto, files, reader
<1>4. CASE CreateRunDirectory(p)
  BY <1>4 DEF CreateRunDirectory, Write, Goto, Put, files, reader
<1>5. CASE CreatePreprocessor(p)
  BY <1>5 DEF CreatePreprocessor, Goto, files, reader
<1>6. CASE Consume(p)
  BY <1>6 DEF Consume, Goto, Put, files, reader
<1>7. CASE AllConsumed(p)
  BY <1>7 DEF AllConsumed, Goto, files, reader
<1>8. CASE VerifyUnchanged(p)
  BY <1>8 DEF VerifyUnchanged, Goto, files, reader
<1>9. CASE FinishIngest(p)
  BY <1>9 DEF FinishIngest, Goto, files, reader
<1>10. CASE MergeStep(p)
  BY <1>10 DEF MergeStep, WritePass, Write, Goto, Put, CommitPass, Unlink, EndPass,
       WriteVertexIds, CommitVertexIds, Retired, WriteEdges, CommitEdges, Reduce,
       files, reader
<1>11. CASE GraphStep(p)
  BY <1>11 DEF GraphStep, CreateStaging, Write, Goto, Put, FinishStaging, RenameGraph,
       PublishGraphFails, Conclude, SyncGraph, SyncGraphFails, Unlink, RetirementEnds,
       RemoveWorkspace, files, reader
<1>12. CASE AnalysisStep(p)
  <2>1. CASE Converges(p)
    BY <2>1 DEF Converges, Goto, files, reader
  <2>2. CASE \E r \in {"non_converged", "numerical_failure"} : DoesNotConverge(p, r)
    BY <2>2 DEF DoesNotConverge, Conclude, Goto, files, reader
  <2>3. CASE RenameOutput(p)
    BY <2>3 DEF RenameOutput, Goto, Output!Publish, files, reader
  <2>4. CASE PublishFails(p)
    BY <2>4 DEF PublishFails, Conclude, Goto, files, reader
  <2>5. CASE SyncOutput(p)
    BY <2>5 DEF SyncOutput, Goto, Output!Persist, Output!Named, files, reader
  <2>6. CASE SyncOutputFails(p)
    BY <2>6 DEF SyncOutputFails, Conclude, Goto, files, reader
  <2>7. CASE Report(p)
    BY <2>7 DEF Report, Conclude, Goto, Output!Report, files, reader
  <2> QED BY <1>12, <2>1, <2>2, <2>3, <2>4, <2>5, <2>6, <2>7 DEF AnalysisStep
<1>13. CASE RemovalStep(p)
  BY <1>13 DEF RemovalStep, CleanupChecked, CleanupFails, CleanupNoexcept, Exit, Drop,
       Goto, files, reader, Present
<1>14. CASE Kill(p)
  BY <1>14 DEF Kill, files, reader
<1>15. CASE \E left \in SUBSET Guarded(place[p]) : Throws(p, left)
  BY <1>15 DEF Throws, ThrowingPlaces, Guarded, Drop, Goto, files, reader
<1> QED BY <1>1, <1>2, <1>3, <1>4, <1>5, <1>6, <1>7, <1>8, <1>9, <1>10, <1>11, <1>12,
     <1>13, <1>14, <1>15 DEF ProcessStep

----------------------------------------------------------------------------
(* The invariant.                                                          *)

LEMMA InitInv == Init => IInv
<1> SUFFICES ASSUME Init PROVE IInv OBVIOUS
<1> USE PipelineAssumption DEF Init, Output!Init
<1>1. TypeOK
  BY DEF TypeOK, Places, Nothing, Status, Exits
<1>2. ASSUME NEW p \in Processes PROVE ReadAt(p)
  BY DEF ReadAt, Opening, Verified
<1>3. ASSUME NEW p \in Processes PROVE HoldAt(p)
  BY DEF HoldAt, Reading, Opening
<1>4. ASSUME NEW p \in Processes PROVE ExitAt(p)
  BY DEF ExitAt, Present, Nothing
<1> QED BY <1>1, <1>2, <1>3, <1>4 DEF IInv

\* What a step of another process leaves as it was.
LEMMA OthersStep ==
  ASSUME TypeOK, NEW p \in Processes, ProcessStep(p), NEW q \in Processes, q # p,
         ReadAt(q), HoldAt(q), ExitAt(q)
  PROVE  ReadAt(q)' /\ HoldAt(q)' /\ ExitAt(q)'
<1>1. ReadAt(q)'
  BY OnlyMine DEF ReadAt
<1>2. HoldAt(q)'
  BY OnlyMine DEF HoldAt, HasWhole, SomethingWhole
<1>3. ExitAt(q)'
  BY OnlyMine DEF ExitAt, Present, CodeAgrees
<1> QED BY <1>1, <1>2, <1>3

\* OUTPUT may lose its name in a crash, but not once it is durable.
LEMMA CrashStep == IInv /\ Crash => IInv'
<1> SUFFICES ASSUME IInv, Crash PROVE IInv' OBVIOUS
<1>1. /\ \A p \in Processes : entry'[OUTPUT] = p => entry[OUTPUT] = p
      /\ OUTPUT \in durable => entry'[OUTPUT] = entry[OUTPUT] /\ OUTPUT \in durable'
      /\ entry' \in [{OUTPUT} -> Processes \union {NoProcess}]
      /\ durable' = {t \in {OUTPUT} : entry'[t] # NoProcess}
      /\ reported' \subseteq durable'
  BY PipelineAssumption DEF Crash, Output!Crash, Output!Named, IInv, TypeOK
<1>2. /\ UNCHANGED <<input, snapshot, chunk, seen, holding, disk, outcome, exit>>
      /\ \A p \in Processes :
           \/ place'[p] = place[p] /\ place[p] \in {"resolve", "exited"}
           \/ place'[p] = "killed"
  BY DEF Crash, reader
<1>3. TypeOK'
  BY <1>1, <1>2, PipelineAssumption DEF Crash, IInv, TypeOK, Places
<1>4. ASSUME NEW p \in Processes PROVE ReadAt(p)'
  BY <1>1, <1>2 DEF IInv, ReadAt, Opening, Verified
<1>5. ASSUME NEW p \in Processes PROVE HoldAt(p)'
  BY <1>2 DEF IInv, HoldAt, Reading, Opening, HasWhole, SomethingWhole
<1>6. ASSUME NEW p \in Processes PROVE ExitAt(p)'
  BY <1>1, <1>2 DEF IInv, ExitAt, CodeAgrees, Present
<1> QED BY <1>3, <1>4, <1>5, <1>6 DEF IInv

LEMMA ChangeInputStep == IInv /\ ChangeInput => IInv'
<1> SUFFICES ASSUME IInv, ChangeInput PROVE IInv' OBVIOUS
<1>1. /\ input' = input + 1 /\ input < MaxChanges /\ input \in Nat
      /\ UNCHANGED <<crashes, alive, place, snapshot, chunk, seen, holding, disk,
                     outcome, exit, entry, durable, reported>>
  BY DEF ChangeInput, reader, files, IInv, TypeOK
<1>2. TypeOK'
  BY <1>1, PipelineAssumption DEF IInv, TypeOK
<1>3. ASSUME NEW p \in Processes PROVE ReadAt(p)'
  <2>1. snapshot[p] \in Nat BY DEF IInv, TypeOK
  <2> QED BY <1>1, <2>1 DEF IInv, ReadAt
<1>4. ASSUME NEW p \in Processes PROVE HoldAt(p)' /\ ExitAt(p)'
  BY <1>1 DEF IInv, HoldAt, ExitAt, HasWhole, SomethingWhole, CodeAgrees, Present
<1> QED BY <1>2, <1>3, <1>4 DEF IInv

LEMMA NextInv == IInv /\ [Next]_vars => IInv'
<1> SUFFICES ASSUME IInv, [Next]_vars PROVE IInv' OBVIOUS
<1>1. ASSUME NEW p \in Processes, ProcessStep(p) PROVE IInv'
  <2>1. TypeOK' BY <1>1, TypeStep DEF IInv
  <2>2. ReadAt(p)' /\ HoldAt(p)' /\ ExitAt(p)'
    BY <1>1, <2>1, ReadStep, HoldStep, ExitStep DEF IInv
  <2>3. ASSUME NEW q \in Processes, q # p PROVE ReadAt(q)' /\ HoldAt(q)' /\ ExitAt(q)'
    BY <1>1, <2>3, OthersStep DEF IInv
  <2> QED BY <2>1, <2>2, <2>3 DEF IInv
<1>2. CASE UNCHANGED vars
  <2>1. UNCHANGED <<input, crashes, alive, place, snapshot, chunk, seen, holding, disk,
                    outcome, exit, entry, durable, reported>>
    BY <1>2 DEF vars, reader, files
  <2>2. TypeOK' BY <2>1 DEF IInv, TypeOK
  <2>3. ASSUME NEW p \in Processes PROVE ReadAt(p)' /\ HoldAt(p)' /\ ExitAt(p)'
    BY <2>1 DEF IInv, ReadAt, HoldAt, ExitAt, HasWhole, SomethingWhole, CodeAgrees,
                Present
  <2> QED BY <2>2, <2>3 DEF IInv
<1> QED BY <1>1, <1>2, CrashStep, ChangeInputStep DEF Next

THEOREM Invariance == Spec => []IInv
BY InitInv, NextInv, PTL DEF Spec

----------------------------------------------------------------------------
(* The results.                                                            *)

\* main.cpp:255-262: whatever is published, by any of any number of processes,
\* was computed from the one version of the input that its process had opened,
\* however often the file changed meanwhile.
THEOREM PublishedIsOfOneInput == Spec => []OutputIsOfOneInput
<1>1. IInv => OutputIsOfOneInput
  BY DEF IInv, TypeOK, ReadAt, OutputIsOfOneInput
<1> QED BY <1>1, Invariance, PTL

\* vertex_id_merge.cpp:844, compact_edge_runs.cpp:951, counted_graph.cpp:886:
\* at no failure, kill or crash, at whatever place, is the predecessor gone
\* before its successor is whole.
THEOREM PredecessorOutlivesSuccessorsBirth == Spec => []SomethingWholeRemains
<1>1. IInv => SomethingWholeRemains
  BY DEF IInv, TypeOK, HoldAt, SomethingWholeRemains
<1> QED BY <1>1, Invariance, PTL

\* main.cpp:389-432 and 485-487: the exit code of every process agrees with what
\* is on disk, whatever the other processes do and wherever a crash falls.
THEOREM ExitCodeIsTrue == Spec => []ExitTellsWhatIsThere
<1>1. IInv => ExitTellsWhatIsThere
  BY DEF IInv, ExitAt, ExitTellsWhatIsThere
<1> QED BY <1>1, Invariance, PTL
=============================================================================
