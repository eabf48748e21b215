----------------------------- MODULE CompactRuns -----------------------------
(***************************************************************************)
(* build_compact_edge_runs of src/src/preprocess/compact_edge_runs.cpp:    *)
(* the raw edges are read in batches into chunks, every identifier becomes *)
(* its index in vertex_ids.bin, and every chunk becomes a sorted run       *)
(* without duplicates.  The raw file goes when the runs are verified.      *)
(* Every read, write and removal may fail.                                 *)
(*                                                                         *)
(* The preflights of memory and disk come before anything is changed and   *)
(* are left out.  A run appears when its writer has finished it.           *)
(***************************************************************************)
EXTENDS Integers, Sequences, FiniteSets

CONSTANTS
  RawEdgesPerRun,   \* config.raw_edges_per_run
  RawIoRecords      \* config.reader_buffer_bytes, in raw records

\* validate_plan_config refuses anything else.
ASSUME CompactAssumption ==
  RawEdgesPerRun \in Nat \ {0} /\ RawIoRecords \in Nat \ {0}

VARIABLES
  raw,               \* raw_edges.bin: <<source, destination>> of identifiers,
                     \*   or <<>> once it is removed
  edge_files,        \* the complete runs of the initial generation, in order
  compact_place,     \* where build_compact_edge_runs is
  dictionary,        \* the identifiers; a compact identifier is an index, from 0
  chunk,             \* the edges of the run being collected
  next_raw_record,
  expected           \* expected_raw_edge_count

compactVars == <<raw, edge_files, compact_place, dictionary, chunk,
                 next_raw_record, expected>>

\* An edge is <<destination, source>>, so this is the order of the runs.
EdgeBefore(e, f) == e[1] < f[1] \/ (e[1] = f[1] /\ e[2] < f[2])

CompactInit(edges) ==
  /\ raw = edges
  /\ edge_files = <<>> /\ compact_place = "waiting"
  /\ dictionary = <<>> /\ chunk = <<>> /\ next_raw_record = 0
  /\ expected = Len(edges)

\* The members of a set, each at the place of its rank.
InOrder(S, Lt(_, _)) ==
  [n \in 1 .. Cardinality(S) |->
     CHOOSE x \in S : Cardinality({y \in S : Lt(y, x)}) = n - 1]

Smallest(m, n) == IF m < n THEN m ELSE n

Increases(s, Lt(_, _)) == \A i \in 1 .. Len(s) - 1 : Lt(s[i], s[i + 1])

\* load_vertex_dictionary.
LoadDictionary(vertex_ids) ==
  /\ compact_place = "waiting"
  /\ Increases(vertex_ids, <)
  /\ Len(raw) = expected
  /\ dictionary' = vertex_ids
  /\ compact_place' = "reading"
  /\ UNCHANGED <<raw, edge_files, chunk, next_raw_record, expected>>

\* std::lower_bound.
lower_bound(id) == Cardinality({i \in DOMAIN dictionary : dictionary[i] < id})

\* find_compact_id throws unless the identifier is there.
Known(id) ==
  lower_bound(id) < Len(dictionary) /\ dictionary[lower_bound(id) + 1] = id

Compact(edge) == <<lower_bound(edge[2]), lower_bound(edge[1])>>

\* The number of edges that the current chunk takes when it is complete.
target_chunk_records == Smallest(expected - (next_raw_record - Len(chunk)), RawEdgesPerRun)

request_records == Smallest(RawIoRecords, target_chunk_records - Len(chunk))

batch == SubSeq(raw, next_raw_record + 1, next_raw_record + request_records)

BatchKnown == \A i \in DOMAIN batch : Known(batch[i][1]) /\ Known(batch[i][2])

ReadBatch ==
  /\ compact_place = "reading" /\ Len(chunk) < target_chunk_records
  /\ BatchKnown
  /\ chunk' = chunk \o [i \in DOMAIN batch |-> Compact(batch[i])]
  /\ next_raw_record' = next_raw_record + request_records
  /\ UNCHANGED <<raw, edge_files, compact_place, dictionary, expected>>

\* std::sort and std::unique.
Distinct(edges) == InOrder({edges[i] : i \in DOMAIN edges}, EdgeBefore)

WriteEdgeRun ==
  /\ compact_place = "reading"
  /\ chunk # <<>> /\ Len(chunk) = target_chunk_records
  /\ edge_files' = Append(edge_files, Distinct(chunk))
  /\ chunk' = <<>>
  /\ UNCHANGED <<raw, compact_place, dictionary, next_raw_record, expected>>

\* run_count_for.
run_count == 1 + (expected - 1) \div RawEdgesPerRun

\* verify_compact_generation, and commit.
EdgeRunsVerified ==
  /\ Len(edge_files) = run_count /\ next_raw_record = expected
  /\ \A n \in DOMAIN edge_files :
       /\ edge_files[n] # <<>> /\ Increases(edge_files[n], EdgeBefore)
       /\ \A i \in DOMAIN edge_files[n] :
            edge_files[n][i][1] < Len(dictionary) /\ edge_files[n][i][2] < Len(dictionary)

VerifyEdgeRuns ==
  /\ compact_place = "reading"
  /\ EdgeRunsVerified
  /\ compact_place' = "committed"
  /\ UNCHANGED <<raw, edge_files, dictionary, chunk, next_raw_record, expected>>

RetireRaw ==
  /\ compact_place = "committed"
  /\ raw' = <<>> /\ compact_place' = "done"
  /\ UNCHANGED <<edge_files, dictionary, chunk, next_raw_record, expected>>

\* SuccessorGenerationGuard removes the runs unless they are committed.
EdgeRunsFail ==
  /\ compact_place \in {"waiting", "reading", "committed"}
  /\ edge_files' = IF compact_place = "committed" THEN edge_files ELSE <<>>
  /\ compact_place' = "failed"
  /\ UNCHANGED <<raw, dictionary, chunk, next_raw_record, expected>>

CompactNext ==
  \/ ReadBatch \/ WriteEdgeRun \/ VerifyEdgeRuns \/ RetireRaw \/ EdgeRunsFail
=============================================================================
