---------------------------- MODULE ResourcePlans -----------------------------
(***************************************************************************)
(* What the phases of preprocessing ask of the filesystem before they      *)
(* start: make_initial_run_disk_plan and vertex_id_merge_disk_plan of      *)
(* src/src/preprocess/prepare.cpp, compact_edge_run_disk_plan of           *)
(* compact_edge_runs.cpp and the disk of counted_graph_resource_plan of    *)
(* counted_graph.cpp.  A plan is what the phase may add at most: files,    *)
(* entries (files and directories) and bytes.                              *)
(*                                                                         *)
(* The plans of memory and of descriptors and the overflow of 64 bits are  *)
(* left out.                                                               *)
(***************************************************************************)
EXTENDS Integers

kBinaryHeaderBytes        == 48
kScalarRecordBytes        == 4      \* kEndpointIdRunRecordBytes is the same
kRawEdgeRunRecordBytes    == 8
kCompactEdgeRunRecordBytes == 8
kTaskRecordBytes          == 32
kMaxManifestBytes         == 16384

FileBytes(records, record_bytes) == kBinaryHeaderBytes + records * record_bytes

Plan(files, entries, bytes) == [files |-> files, entries |-> entries, bytes |-> bytes]

ceil_div_positive(value, divisor) == 1 + (value - 1) \div divisor

AtMost(m, n) == IF m < n THEN m ELSE n

\* Mutant: the text is taken to end with a line feed.
raw_edge_count_upper_bound_LineFeed(csv_bytes, fixed_bytes) ==
  (csv_bytes - fixed_bytes - 1) \div 4

\* The shortest row is "0,0" and a line feed; the text may end without the last.
raw_edge_count_upper_bound(csv_bytes, fixed_bytes) == (csv_bytes - fixed_bytes) \div 4

endpoint_run_count_upper_bound(edges, capacity) == ceil_div_positive(2 * edges, capacity)

make_initial_run_disk_plan(edges, capacity) ==
  LET runs == endpoint_run_count_upper_bound(edges, capacity) IN
  Plan(runs + 1, runs + 2,
       FileBytes(edges, kRawEdgeRunRecordBytes)
         + runs * kBinaryHeaderBytes + 2 * edges * kScalarRecordBytes)

\* Mutant: the directory of the generation is forgotten.
vertex_id_merge_disk_plan_NoDirectory(runs, records, fan_in) ==
  LET successors == IF runs > fan_in THEN ceil_div_positive(runs, fan_in) ELSE 1 IN
  Plan(successors, successors,
       successors * kBinaryHeaderBytes + records * kScalarRecordBytes)

\* Of the first pass only: a later one has to live with what this one admits.
vertex_id_merge_disk_plan(runs, records, fan_in) ==
  LET creates_generation == runs > fan_in
      successors == IF creates_generation THEN ceil_div_positive(runs, fan_in) ELSE 1
  IN  Plan(successors, successors + (IF creates_generation THEN 1 ELSE 0),
           successors * kBinaryHeaderBytes + records * kScalarRecordBytes)

compact_edge_run_disk_plan(edges, raw_edges_per_run) ==
  LET runs == ceil_div_positive(edges, raw_edges_per_run) IN
  Plan(runs, runs + 1, edges * kRawEdgeRunRecordBytes + runs * kBinaryHeaderBytes)

task_count_upper_bound(vertices, edges, edge_slice) == vertices + edges \div edge_slice

\* records counts the edges of the runs, which may list an edge twice.
counted_graph_resource_plan(vertices, records, edge_slice) ==
  LET edges == AtMost(records, vertices * vertices)
      tasks == task_count_upper_bound(vertices, edges, edge_slice) IN
  Plan(6, 7, 5 * kBinaryHeaderBytes + edges * kScalarRecordBytes
               + 3 * vertices * kScalarRecordBytes + tasks * kTaskRecordBytes
               + kMaxManifestBytes)

\* preflight_disk_space, preflight_target_filesystem: what must be available
\* beyond the reserve, when the filesystem allocates by fragments.
required_bytes(plan, fragment_bytes) ==
  plan.bytes + plan.files * (fragment_bytes - 1) + plan.entries * fragment_bytes
=============================================================================
