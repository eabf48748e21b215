---------------------------- MODULE CountedGraph -----------------------------
(***************************************************************************)
(* build_impl of src/src/preprocess/counted_graph.cpp: the runs of the     *)
(* frontier are merged a last time, and the stream of distinct edges       *)
(* becomes the files of a graph in a staging directory, which is validated *)
(* as ValidatedGraph::open of src/src/storage/graph.cpp validates any      *)
(* graph, and published.  Every read, write and check may fail.            *)
(*                                                                         *)
(* The plan of memory, disk and descriptors comes before anything is       *)
(* changed and is left out.  Publication and Pipeline have the ways in     *)
(* which publication and retirement may fail.                              *)
(***************************************************************************)
EXTENDS CompactRuns, TaskLayout

CONSTANTS
  EdgeBufferRecords,   \* merge.reader_buffer_bytes, in edges
  CopyRecords,         \* merge.reader_buffer_bytes, in identifiers
  EdgeBatch,           \* edge_batch_records
  VertexLimit          \* numeric_limits<uint32_t>::max()

ASSUME GraphAssumption ==
  {EdgeBufferRecords, CopyRecords, EdgeBatch, VertexLimit} \subseteq Nat \ {0}

VARIABLES
  place,               \* where build_impl is
  vertex_ids,          \* the files of the staging directory, as written so far
  incoming_sources, incoming_counts, out_degree,
  tasks,               \* what the partitioner has handed to task_writer
  cursor,              \* UniqueCompactEdgeCursor: its out is all it has emitted
  next_destination,
  current_destination, current_incoming_count,
  emitted_edge_count,
  graph,               \* the graph in the target directory
  state, calling, ordinary, consumed, argument, queue   \* partitioner

builderVars == <<state, calling, ordinary, consumed, argument, queue, tasks>>
streamVars  == <<vertex_ids, incoming_sources, incoming_counts, out_degree, cursor,
                 next_destination, current_destination, current_incoming_count,
                 emitted_edge_count>>
graphVars   == <<place, graph, streamVars, builderVars>>

Edges == INSTANCE RunMerge WITH
  Before <- EdgeBefore, BufferRecords <- EdgeBufferRecords

Partitioner == INSTANCE TaskBuilder WITH
  MaxCount <- VertexLimit, DestinationLimit <- VertexLimit

None    == -1
NoGraph == [vertex_ids |-> <<>>]

vertex_count == Len(dictionary)   \* frontier.vertex_count

GraphInit ==
  /\ place = "waiting" /\ graph = NoGraph
  /\ vertex_ids = <<>> /\ incoming_sources = <<>> /\ incoming_counts = <<>>
  /\ out_degree = <<>> /\ cursor = Edges!NoMerge
  /\ next_destination = 0 /\ current_destination = None
  /\ current_incoming_count = 0 /\ emitted_edge_count = 0
  /\ Partitioner!Init

Goes(here, there) == place = here /\ place' = there /\ UNCHANGED graph

\* create_unique_staging_directory.
CreateStaging ==
  /\ Goes("waiting", "copy")
  /\ UNCHANGED <<streamVars, builderVars>>

\* copy_vertex_ids, one chunk.
CopyVertexIds(ids) ==
  LET n == Len(vertex_ids) IN
  /\ Goes("copy", "copy") /\ n < Len(ids)
  /\ vertex_ids' = vertex_ids \o SubSeq(ids, n + 1, n + Smallest(CopyRecords, Len(ids) - n))
  /\ UNCHANGED <<incoming_sources, incoming_counts, out_degree, cursor,
                 next_destination, current_destination, current_incoming_count,
                 emitted_edge_count, builderVars>>

\* UniqueCompactEdgeCursor::open of the runs of the frontier.
OpenCursor(ids) ==
  /\ Goes("copy", "read") /\ Len(vertex_ids) = Len(ids)
  /\ cursor' = Edges!Primed(edge_files)
  /\ out_degree' = [v \in 1 .. vertex_count |-> 0]
  /\ UNCHANGED <<vertex_ids, incoming_sources, incoming_counts, next_destination,
                 current_destination, current_incoming_count, emitted_edge_count,
                 builderVars>>

----------------------------------------------------------------------------
(* UniqueCompactEdgeCursor::read.  A batch is what the cursor has emitted  *)
(* beyond the sources that are written.                                    *)

batch_size == Len(cursor.out) - Len(incoming_sources)

ReadEdge ==
  /\ Goes("read", "read")
  /\ batch_size < EdgeBatch /\ cursor.heap # <<>>
  /\ Edges!MergeAscends(cursor)
  /\ cursor' = Edges!Merged(cursor)
  /\ UNCHANGED <<vertex_ids, incoming_sources, incoming_counts, out_degree,
                 next_destination, current_destination, current_incoming_count,
                 emitted_edge_count, builderVars>>

\* A read that returns no edge is the last.
EndRead ==
  /\ batch_size = EdgeBatch \/ cursor.heap = <<>>
  /\ Goes("read", IF batch_size = 0 THEN "counts" ELSE "take")
  /\ UNCHANGED <<streamVars, builderVars>>

----------------------------------------------------------------------------
(* build_edge_dependent_files.                                             *)

edge == cursor.out[emitted_edge_count + 1]

\* previous_edge.
EdgeAscends ==
  emitted_edge_count > 0 => EdgeBefore(cursor.out[emitted_edge_count], edge)

\* The destinations below it get their counts before anything else happens.
emit_limit ==
  CASE place = "take" /\ emitted_edge_count < Len(cursor.out) -> edge[1]
    [] place = "counts" -> vertex_count
    [] OTHER -> 0

\* Mutant: a destination that no edge enters is given the count before it.
owed_count_Stale == current_incoming_count

\* The count of next_destination: nothing enters those that are skipped.
owed_count ==
  IF next_destination = current_destination THEN current_incoming_count ELSE 0

\* emit_count until it calls the partitioner.
EmitCount ==
  /\ place \in {"take", "counts"} /\ ~calling
  /\ next_destination < emit_limit
  /\ owed_count <= vertex_count
  /\ incoming_counts' = Append(incoming_counts, owed_count)
  /\ Partitioner!Call(owed_count)
  /\ UNCHANGED <<place, graph, vertex_ids, incoming_sources, out_degree, cursor,
                 next_destination, current_destination, current_incoming_count,
                 emitted_edge_count>>

EmitTask ==
  /\ Partitioner!Emit
  /\ UNCHANGED <<place, graph, streamVars>>

EmittedCount ==
  /\ Partitioner!Absorb
  /\ next_destination' = next_destination + 1
  /\ UNCHANGED <<place, graph, vertex_ids, incoming_sources, incoming_counts, out_degree,
                 cursor, current_destination, current_incoming_count,
                 emitted_edge_count>>

\* The destinations below that of the edge have their counts.
TakeEdge ==
  /\ place = "take" /\ ~calling
  /\ emitted_edge_count < Len(cursor.out) /\ EdgeAscends
  /\ next_destination >= edge[1]
  /\ current_destination' = edge[1]
  /\ current_incoming_count' =
       (IF edge[1] = current_destination THEN current_incoming_count ELSE 0) + 1
  /\ out_degree' = [out_degree EXCEPT ![edge[2] + 1] = @ + 1]
  /\ emitted_edge_count' = emitted_edge_count + 1
  /\ UNCHANGED <<place, graph, vertex_ids, incoming_sources, incoming_counts, cursor,
                 next_destination, builderVars>>

\* The sources of the batch, at its end.
AppendSources ==
  /\ emitted_edge_count = Len(cursor.out)
  /\ Goes("take", "read")
  /\ incoming_sources' = incoming_sources \o
       [i \in 1 .. batch_size |-> cursor.out[Len(incoming_sources) + i][2]]
  /\ UNCHANGED <<vertex_ids, incoming_counts, out_degree, cursor, next_destination,
                 current_destination, current_incoming_count, emitted_edge_count,
                 builderVars>>

CallPartitionFinish ==
  /\ place = "counts" /\ next_destination = emit_limit
  /\ Partitioner!Call(Partitioner!Finishing)
  /\ UNCHANGED <<place, graph, streamVars>>

FinishPartition ==
  /\ Partitioner!Finish
  /\ Goes("counts", "accounts")
  /\ UNCHANGED streamVars

Total(counts) == EdgesBefore(counts, Len(counts))

AccountsAgree ==
  /\ Total(consumed) = emitted_edge_count
  /\ Len(consumed) = vertex_count
  /\ \A v \in DOMAIN out_degree : out_degree[v] <= vertex_count
  /\ Total(out_degree) = emitted_edge_count

\* write_out_degree; the manifest.
WriteManifest ==
  /\ AccountsAgree
  /\ Goes("accounts", "validate")
  /\ UNCHANGED <<streamVars, builderVars>>

----------------------------------------------------------------------------
(* ValidatedGraph::open.                                                   *)

Staged == [vertex_ids |-> vertex_ids, incoming_sources |-> incoming_sources,
           incoming_counts |-> incoming_counts, out_degree |-> out_degree,
           tasks |-> tasks]

\* validate_count_sum.
CountsAdd(g, counts) ==
  /\ Len(counts) = Len(g.vertex_ids)
  /\ \A v \in DOMAIN counts : counts[v] <= Len(g.vertex_ids)
  /\ Total(counts) = Len(g.incoming_sources)

\* validate_sources.
SourcesOf(g, d) ==
  SubSeq(g.incoming_sources, EdgesBefore(g.incoming_counts, d) + 1,
         EdgesBefore(g.incoming_counts, d + 1))

SourcesAscend(g) ==
  \A d \in 0 .. Len(g.vertex_ids) - 1 :
    /\ Increases(SourcesOf(g, d), <)
    /\ \A i \in DOMAIN SourcesOf(g, d) : SourcesOf(g, d)[i] < Len(g.vertex_ids)

\* The directory of tasks is checked by TaskValidator, which accepts the
\* canonical partition and no other.
Valid(g) ==
  /\ Increases(g.vertex_ids, <)
  /\ CountsAdd(g, g.incoming_counts) /\ CountsAdd(g, g.out_degree)
  /\ SourcesAscend(g)
  /\ IsCanonical(g.incoming_counts, g.tasks)

ValidateGraph ==
  /\ Valid(Staged)
  /\ Goes("validate", "publish")
  /\ UNCHANGED <<streamVars, builderVars>>

PublishGraph ==
  /\ place = "publish" /\ place' = "published"
  /\ graph' = Staged
  /\ UNCHANGED <<streamVars, builderVars>>

\* StagingDirectoryGuard.
BuildFails ==
  /\ place \notin {"waiting", "published", "failed"}
  /\ place' = "failed"
  /\ UNCHANGED <<graph, streamVars, builderVars>>

\* task_writer throws out of the partitioner.
TaskWriterFails ==
  /\ Partitioner!ConsumerFails
  /\ place' = "failed"
  /\ UNCHANGED <<graph, streamVars>>

GraphNext(ids) ==
  \/ CopyVertexIds(ids) \/ OpenCursor(ids)
  \/ ReadEdge \/ EndRead
  \/ EmitCount \/ EmitTask \/ EmittedCount \/ TakeEdge \/ AppendSources
  \/ CallPartitionFinish \/ FinishPartition \/ WriteManifest
  \/ ValidateGraph \/ PublishGraph
  \/ BuildFails \/ TaskWriterFails
=============================================================================
