----------------------------- MODULE GraphBuild ------------------------------
(***************************************************************************)
(* From the runs that Ingest leaves to the graph, as finish of             *)
(* CountedGraphPreprocessor in src/src/preprocess/prepare.cpp calls its    *)
(* phases: the identifiers are merged, the edges are made compact, the     *)
(* graph is built.  The reduction of the generations of edges between the  *)
(* last two does nothing when they are at most fan_in; GenerationMerge is  *)
(* about it.  What a guard removes on unwinding is taken to be removed.    *)
(*                                                                         *)
(* A phase that throws is the end.  Whatever ends it, the input must be    *)
(* there still in one form or the next, and a graph is that of the input.  *)
(***************************************************************************)
EXTENDS IdentifierMerge, CountedGraph, ResourcePlans, SequencesExt

CONSTANTS
  Inputs,          \* the edges that the CSV file may list, in its order
  EndpointIds,     \* endpoint_ids_per_run
  Fragments        \* allocation units that a filesystem may have

ASSUME InputAssumption ==
  /\ Inputs \subseteq Seq(Int \X Int) \ {<<>>}
  /\ EndpointIds \in Nat \ {0}
  /\ Fragments \subseteq Nat \ {0}

VARIABLE input     \* history: the edges of the CSV file

vars == <<input, idVars, compactVars, graphVars>>

Endpoints == UNION {{input[i][1], input[i][2]} : i \in DOMAIN input}

\* What Ingest writes: the endpoints in their order, as many at a time as the
\* buffer holds, in sorted runs without duplicates (Ingest!RunsHoldTheText).
EndpointRuns(edges) ==
  LET ids     == [n \in 1 .. 2 * Len(edges) |->
                    edges[(n + 1) \div 2][IF n % 2 = 1 THEN 1 ELSE 2]]
      cut(i)  == SubSeq(ids, (i - 1) * EndpointIds + 1, Smallest(i * EndpointIds, Len(ids)))
      sorted(s) == InOrder({s[i] : i \in DOMAIN s}, <)
  IN  [i \in 1 .. (Len(ids) + EndpointIds - 1) \div EndpointIds |-> sorted(cut(i))]

Init ==
  /\ input \in Inputs
  /\ IdentifierInit(EndpointRuns(input))
  /\ CompactInit(input)
  /\ GraphInit

MergeIdentifiers == IdentifierNext /\ UNCHANGED <<input, compactVars, graphVars>>

StartCompact ==
  /\ id_place = "done"
  /\ LoadDictionary(id_files[VertexIds])
  /\ UNCHANGED <<input, idVars, graphVars>>

CompactEdges == CompactNext /\ UNCHANGED <<input, idVars, graphVars>>

StartBuild ==
  /\ compact_place = "done"
  /\ CreateStaging
  /\ UNCHANGED <<input, idVars, compactVars>>

BuildGraph ==
  /\ place \notin {"waiting", "published", "failed"}
  /\ GraphNext(id_files[VertexIds])
  /\ UNCHANGED <<input, idVars, compactVars>>

Next ==
  \/ MergeIdentifiers \/ StartCompact \/ CompactEdges \/ StartBuild \/ BuildGraph

Spec == Init /\ [][Next]_vars

----------------------------------------------------------------------------
(* Properties.                                                             *)

\* The graph of the input, as a definition: its distinct edges by the ranks
\* of their ends.
InputEdges == {input[i] : i \in DOMAIN input}
Rank(id)   == Cardinality({other \in Endpoints : other < id})
Vertices   == 0 .. Cardinality(Endpoints) - 1
Into(v)    == {e \in InputEdges : Rank(e[2]) = v}
OutOf(v)   == {e \in InputEdges : Rank(e[1]) = v}

\* vertex_id_merge.cpp, compact_edge_runs.cpp, compact_edge_merge.cpp and
\* counted_graph.cpp: a graph that is published has the endpoints of the
\* input in order, the sources and degrees of its distinct edges, and the
\* canonical tasks of its counts, whatever the order, the duplicates and the
\* runs, batches and buffers the edges were cut into.
GraphIsOfTheInput ==
  place = "published" =>
    /\ graph.vertex_ids = InOrder(Endpoints, <)
    /\ Len(graph.incoming_sources) = Cardinality(InputEdges)
    /\ \A v \in Vertices :
         /\ graph.incoming_counts[v + 1] = Cardinality(Into(v))
         /\ SourcesOf(graph, v) = InOrder({Rank(e[1]) : e \in Into(v)}, <)
         /\ graph.out_degree[v + 1] = Cardinality(OutOf(v))
    /\ IsCanonical(graph.incoming_counts, graph.tasks)

\* vertex_id_merge.cpp, compact_edge_runs.cpp, counted_graph.cpp:849-861: the
\* checks of what was written before, of each record, each run, each edge, the
\* accounts and the whole graph, are there for damaged files.  What these
\* phases write passes every one of them: without an I/O error, and unless the
\* vertices are more than the partitioner can number, they go on to the end.
NothingIsRefused ==
  /\ id_place = "merging" => id_merge.heap = <<>> \/ Ids!MergeAscends(id_merge)
  /\ id_place = "groups" /\ output_index = Successor.count => SuccessorVerified
  /\ id_place = "done" => Increases(id_files[VertexIds], <)
  /\ compact_place = "reading" =>
       \/ Len(chunk) < target_chunk_records /\ BatchKnown
       \/ Len(chunk) = target_chunk_records /\ (chunk # <<>> \/ EdgeRunsVerified)
  /\ place = "read" => cursor.heap = <<>> \/ Edges!MergeAscends(cursor)
  /\ place = "take" /\ emitted_edge_count < Len(cursor.out) => EdgeAscends
  /\ place \in {"take", "counts"} => owed_count <= vertex_count
  /\ place = "accounts" => AccountsAgree
  /\ place = "validate" => Valid(Staged)

\* vertex_id_merge.cpp:759-891: until vertex_ids.bin is left, a set of runs
\* that is complete holds every endpoint, through every pass, every removal
\* and every failure; a failure before the commit leaves no successor.
IdentifiersSurvive ==
  /\ Holds(current, Endpoints) \/ Holds(Successor, Endpoints)
  /\ id_place = "failed" =>
       \/ DOMAIN id_files = Paths(current)
       \/ Holds(Successor, Endpoints)

\* compact_edge_runs.cpp:742-957: the edges are in raw_edges.bin, or all of
\* them in a generation that is complete, and a failure leaves no part of one.
Uncompacted(e) == <<Rank(e[2]), Rank(e[1])>>
Compacted == UNION {{edge_files[n][i] : i \in DOMAIN edge_files[n]} : n \in DOMAIN edge_files}

EdgesSurvive ==
  /\ raw = input \/ Compacted = {Uncompacted(e) : e \in InputEdges}
  /\ compact_place = "failed" =>
       edge_files = <<>> \/ Compacted = {Uncompacted(e) : e \in InputEdges}

\* Wherever the phases stop, the input can be had from what is left.
InputSurvives == IdentifiersSurvive /\ EdgesSurvive

----------------------------------------------------------------------------
(* What a phase has on the disk, as the files and the bytes in each.       *)

SizesOf(runs, record_bytes) ==
  [path \in DOMAIN runs |-> FileBytes(Len(runs[path]), record_bytes)]

\* The files take whole fragments, and a directory takes one.
Allocated(sizes, directories, fragment) ==
  fragment * (directories + SumFunctionOnSet(
    [path \in DOMAIN sizes |-> ceil_div_positive(sizes[path], fragment)], DOMAIN sizes))

\* The run that is being written has a file already.
IdRuns ==
  IF id_place = "merging" THEN (<<Successor.pass, output_index>> :> id_merge.out) @@ id_files
  ELSE id_files

IdGenerations == {path[1] : path \in DOMAIN IdRuns} \ {Initial, FinalSet}

IdPlan ==
  LET runs == EndpointRuns(input) IN
  vertex_id_merge_disk_plan(Len(runs), FoldLeft(LAMBDA n, run : n + Len(run), 0, runs),
                            IdFanIn)

StagingSizes ==
  [Staged EXCEPT !.tasks = FileBytes(Len(tasks), kTaskRecordBytes),
                 !.vertex_ids = FileBytes(Len(@), kScalarRecordBytes),
                 !.incoming_sources = FileBytes(Len(@), kScalarRecordBytes),
                 !.incoming_counts = FileBytes(Len(@), kScalarRecordBytes),
                 !.out_degree = FileBytes(Len(@), kScalarRecordBytes)]
    @@ [manifest |-> kMaxManifestBytes]

FrontierRecords == FoldLeft(LAMBDA n, run : n + Len(run), 0, edge_files)

\* prepare.cpp:344-414, 742-768, compact_edge_runs.cpp:291-333,
\* counted_graph.cpp:273-321: each phase asks once, at its start, for what
\* it may need.  As long as nobody else writes, it never needs more, in any
\* of its passes, whatever the filesystem's unit of allocation.  The identifier
\* merge is the hard case: it asks for the first pass, and every later one
\* has to fit into what the passes before it have given back.
AdmittedPhasesFit ==
  \A fragment \in Fragments :
    /\ Allocated(SizesOf(IdRuns, kScalarRecordBytes), Cardinality(IdGenerations), fragment)
         <= Allocated(SizesOf(EndpointRuns(input), kScalarRecordBytes), 0, fragment)
              + required_bytes(IdPlan, fragment)
    /\ Cardinality(DOMAIN IdRuns) + Cardinality(IdGenerations)
         <= Len(EndpointRuns(input)) + IdPlan.entries
    /\ Allocated(SizesOf(edge_files, kCompactEdgeRunRecordBytes), 1, fragment)
         <= required_bytes(compact_edge_run_disk_plan(expected, RawEdgesPerRun), fragment)
    /\ place # "waiting" =>
         Allocated(StagingSizes, 1, fragment)
           <= required_bytes(counted_graph_resource_plan(vertex_count, FrontierRecords,
                                                         EdgeSlice), fragment)
=============================================================================
