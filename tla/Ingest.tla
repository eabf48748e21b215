------------------------------- MODULE Ingest --------------------------------
(***************************************************************************)
(* InitialRunIngestor of src/src/preprocess/ingest.cpp: the parser feeds   *)
(* accept_edge, which appends every edge to the raw file and its endpoints *)
(* to a buffer; a full buffer becomes a sorted run without duplicates.     *)
(* The text is chosen byte by byte, and its end, or the destruction of the *)
(* ingestor, may come after any byte.                                      *)
(***************************************************************************)
EXTENDS EdgeCsv, ResourcePlans, FiniteSets, SequencesExt

CONSTANTS
  EndpointIdsPerRun,   \* config_.endpoint_ids_per_run
  WriterBufferBytes,   \* config_.writer_buffer_bytes
  RawRecordBytes,      \* kRawEdgeRunRecordBytes
  IdRecordBytes,       \* kEndpointIdRunRecordBytes
  CsvByteLimit         \* config_.csv_byte_limit of CountedGraphPreprocessor

\* kMinimumCanonicalEdgeCsvBytes, for a header of three letters.
MinimumCsvBytes == Len(Header) + 4

\* initial_run_memory_plan and validate_top_level_resource_policy refuse
\* anything else.
ASSUME IngestAssumption ==
  /\ EndpointIdsPerRun \in Nat \ {0} /\ IdRecordBytes \in Nat \ {0}
  /\ RawRecordBytes \in Nat /\ RawRecordBytes >= IdRecordBytes
  /\ WriterBufferBytes \in Nat /\ WriterBufferBytes >= RawRecordBytes
  /\ CsvByteLimit \in Nat /\ CsvByteLimit >= MinimumCsvBytes

VARIABLES
  text,                 \* history: the bytes consumed so far
  state,                \* "active", "finished", "failed", or "destroyed"
  pc,                   \* where the ingestor is; "parse" when in the parser
  after,                \* where flush_endpoint_run returns to
  finishing,            \* finish has been called
  endpoints,            \* endpoint_ids_ up to endpoint_id_count_
  summary,              \* summary_
  completed_run_files,
  raw_writer,           \* raw_writer_
  run_writer,           \* the writer of flush_endpoint_run
  files,                \* the workspace
  stuck                 \* history: the files whose last removal failed

bufferVars == <<endpoints, summary, completed_run_files>>
writerVars == <<raw_writer, run_writer, files>>
ingestVars == <<parser, text, state, pc, after, finishing, bufferVars, writerVars, stuck>>

Raw == INSTANCE RunFile WITH writer <- raw_writer,
         RecordBytes <- RawRecordBytes, BufferBytes <- WriterBufferBytes
Run == INSTANCE RunFile WITH writer <- run_writer,
         RecordBytes <- IdRecordBytes, BufferBytes <- WriterBufferBytes

RawPath  == <<"raw_edges", 0>>                \* raw_edge_run_path
RunPath(i) == <<"endpoint_ids", i>>           \* endpoint_id_run_path
RunPaths == {RunPath(i) : i \in 0 .. completed_run_files - 1}

Go(place) == pc' = place

IngestInit ==
  /\ ParserInit
  /\ text = <<>> /\ finishing = FALSE
  /\ state = "active" /\ pc = "create" /\ after = "parse"
  /\ endpoints = <<>> /\ completed_run_files = 0
  /\ summary = [raw_edge_count |-> 0, endpoint_ids_seen |-> 0,
                endpoint_run_count |-> 0, endpoint_run_records |-> 0]
  /\ raw_writer = Raw!NoWriter /\ run_writer = Run!NoWriter
  /\ files = <<>> /\ stuck = {}

\* The constructor.
CreateRaw ==
  /\ pc = "create"
  /\ \/ Raw!Create(RawPath) /\ Go("parse")
     \/ Raw!CreateFails(RawPath) /\ Go("unwind")
  /\ UNCHANGED <<parser, text, state, after, finishing, bufferVars, run_writer>>

----------------------------------------------------------------------------
(* consume and finish, as long as the parser runs.                         *)

Parsed == Go(IF parser'.state = "failed" THEN "unwind"
             ELSE IF parser'.state = "finished" THEN "last_run"
             ELSE "parse")

\* CountedGraphPreprocessor's consume: more bytes than the limit are not
\* given to the parser, and the ingestor is given up (Destroy).
Consume ==
  /\ pc = "parse" /\ ~finishing /\ Len(text) < CsvByteLimit
  /\ \E b \in Bytes : ConsumeByte(b) /\ text' = Append(text, b)
  /\ Parsed
  /\ UNCHANGED <<state, after, finishing, bufferVars, writerVars, stuck>>

CallFinish ==
  /\ pc = "parse" /\ ~finishing
  /\ FinishText
  /\ finishing' = TRUE
  /\ Parsed
  /\ UNCHANGED <<text, state, after, bufferVars, writerVars, stuck>>

----------------------------------------------------------------------------
(* accept_edge, flush_endpoint_run.                                        *)

AppendRaw ==
  LET record == <<parser.source, parser.destination>> IN
  /\ pc = "parse" /\ parser.in_consumer # "no"
  /\ \/ Raw!AppendRecord(record) /\ Go("source")
     \/ Raw!AppendFails(record) /\ Go("unwind")
  /\ UNCHANGED <<parser, text, state, after, finishing, bufferVars, run_writer>>

\* append_endpoint, whose guard against a full buffer never refuses.
AppendEndpoint(column, next) ==
  /\ pc = column
  /\ Len(endpoints) < EndpointIdsPerRun
  /\ endpoints' = Append(endpoints, parser[column])
  /\ IF Len(endpoints') = EndpointIdsPerRun THEN Go("create_run") /\ after' = next
     ELSE Go(next) /\ UNCHANGED after
  /\ UNCHANGED <<parser, text, state, finishing, summary, completed_run_files,
                 writerVars, stuck>>

\* std::sort and std::unique: every identifier comes after the smaller ones.
Sorted(ids) ==
  [i \in 1 .. Cardinality(ids) |->
     CHOOSE id \in ids : Cardinality({smaller \in ids : smaller < id}) = i - 1]
UniqueEndpoints == Sorted({endpoints[i] : i \in DOMAIN endpoints})

RunWritten == Len(run_writer.appended) = IdRecordBytes * Len(UniqueEndpoints)

CreateRun ==
  /\ pc = "create_run"
  /\ \/ Run!Create(RunPath(summary.endpoint_run_count)) /\ Go("write_run")
     \/ Run!CreateFails(RunPath(summary.endpoint_run_count)) /\ Go("unwind")
  /\ UNCHANGED <<parser, text, state, after, finishing, bufferVars, raw_writer>>

WriteRun ==
  LET next == UniqueEndpoints[Len(run_writer.appended) \div IdRecordBytes + 1] IN
  /\ pc = "write_run" /\ ~RunWritten
  /\ \/ Run!AppendRecord(next) /\ UNCHANGED pc
     \/ Run!AppendFails(next) /\ Go("unwind")
  /\ UNCHANGED <<parser, text, state, after, finishing, bufferVars, raw_writer>>

FinishRun ==
  /\ pc = "write_run" /\ RunWritten
  /\ \/ (Run!FinishFlush \/ Run!FinishHeader) /\ UNCHANGED pc
     \/ Run!FinishFails /\ Go("unwind")
  /\ UNCHANGED <<parser, text, state, after, finishing, bufferVars, raw_writer>>

CloseRun ==
  /\ pc = "write_run" /\ RunWritten
  /\ Run!FinishClose
  /\ completed_run_files' = summary.endpoint_run_count + 1
  /\ summary' = [summary EXCEPT !.endpoint_run_count = @ + 1,
                                !.endpoint_run_records = @ + Len(UniqueEndpoints)]
  /\ endpoints' = <<>>
  /\ Go(after)
  /\ UNCHANGED <<parser, text, state, after, finishing, raw_writer>>

\* The end of accept_edge, back to the parser.
Accept ==
  /\ pc = "accepted"
  /\ summary' = [summary EXCEPT !.raw_edge_count = @ + 1, !.endpoint_ids_seen = @ + 2]
  /\ ConsumerReturns
  /\ Parsed
  /\ UNCHANGED <<text, state, after, finishing, endpoints, completed_run_files,
                 writerVars, stuck>>

----------------------------------------------------------------------------
(* The rest of finish.                                                     *)

LastRun ==
  /\ pc = "last_run"
  /\ IF endpoints = <<>> THEN Go("check") /\ UNCHANGED after
     ELSE Go("create_run") /\ after' = "check"
  /\ UNCHANGED <<parser, text, state, finishing, bufferVars, writerVars, stuck>>

CountsAgree ==
  /\ parser.data_rows = summary.raw_edge_count
  /\ summary.endpoint_ids_seen = 2 * summary.raw_edge_count

FinishRaw ==
  /\ pc = "check"
  /\ \/ CountsAgree /\ (Raw!FinishFlush \/ Raw!FinishHeader) /\ UNCHANGED pc
     \/ CountsAgree /\ Raw!FinishFails /\ Go("unwind")
     \/ ~CountsAgree /\ Go("unwind") /\ UNCHANGED <<raw_writer, files, stuck>>
  /\ UNCHANGED <<parser, text, state, after, finishing, bufferVars, run_writer>>

CloseRaw ==
  /\ pc = "check"
  /\ Raw!FinishClose
  /\ Go("done") /\ state' = "finished"
  /\ UNCHANGED <<parser, text, after, finishing, bufferVars, run_writer>>

----------------------------------------------------------------------------
(* fail, abort_noexcept, the destructor.                                   *)

\* Mutant: the runs are counted before they are complete.
Abandoned_MissesRun == {RawPath} \union (RunPaths \ {RunPath(completed_run_files - 1)})

\* What abort_noexcept removes by name.
Abandoned == {RawPath} \union RunPaths

\* Removing a file may fail: nobody is told.  The raw file is removed twice, a
\* run that its writer could not remove has no name here.
Abort(how) ==
  /\ \E kept \in SUBSET (Abandoned \intersect DOMAIN files) :
       /\ files' = [p \in (DOMAIN files \ Abandoned) \union kept |-> files[p]]
       /\ stuck' = (stuck \ Abandoned) \union kept
  /\ raw_writer' = [raw_writer EXCEPT !.open = FALSE, !.owns = FALSE]
  /\ state' = how /\ Go("done")
  /\ UNCHANGED <<text, after, finishing, bufferVars, run_writer>>

\* The exception leaves the consumer, the parser and the call.
Fail ==
  /\ pc = "unwind"
  /\ IF parser.in_consumer = "no" THEN UNCHANGED parser ELSE ConsumerThrows
  /\ Abort("failed")

\* The ingestor is given up between two calls, by its owner or by fail of
\* CountedGraphPreprocessor when the text is longer than the limit.
Destroy ==
  /\ pc = "parse" /\ parser.in_consumer = "no"
  /\ Abort("destroyed") /\ UNCHANGED parser

IngestNext ==
  \/ CreateRaw \/ Consume \/ CallFinish
  \/ AppendRaw
  \/ AppendEndpoint("source", "destination")
  \/ AppendEndpoint("destination", "accepted")
  \/ CreateRun \/ WriteRun \/ FinishRun \/ CloseRun \/ Accept
  \/ LastRun \/ FinishRaw \/ CloseRaw
  \/ Fail \/ Destroy

IngestSpec == IngestInit /\ [][IngestNext]_ingestVars

----------------------------------------------------------------------------
(* Properties.                                                             *)

Text == INSTANCE EdgeText

\* edge_csv.cpp:107-451, edge_csv.hpp "Chunk boundaries are invisible": the
\* parser refuses a text at the very byte after which no continuation can
\* make it an edge CSV, neither earlier nor later, and at its end exactly when
\* it is none, naming the line; what it accepts is an edge CSV.
ParsesExactlyTheGrammar ==
  LET bytes == Len(text)
      Defect == IF ~finishing THEN Text!LineOf(text, bytes)
                ELSE IF text = Header THEN 2 ELSE Text!LineOf(text, bytes + 1) IN
  /\ parser.error > 0 =>
       /\ IF finishing THEN ~Text!IsText(text) ELSE Text!IsHopeless(text)
       /\ parser.error = Defect
  /\ parser.error = 0 /\ ~finishing => ~Text!IsHopeless(text)
  /\ parser.state = "finished" => Text!IsText(text)

\* The records of a complete file, or <<>> if there are none.
Decoded(path, size) ==
  LET payload == files[path].payload
      records == [i \in 1 .. Len(payload) \div size |-> payload[(i - 1) * size + 1][1]]
  IN  IF \A n \in DOMAIN payload :
           payload[n] = <<records[(n - 1) \div size + 1], ((n - 1) % size) + 1>>
      THEN records ELSE <<>>

Increasing(s) == \A i \in 1 .. Len(s) - 1 : s[i] < s[i + 1]

\* ingest.cpp:224-378: when finish succeeds the raw file holds the edges of
\* the text in their order, the runs are sorted, without duplicates and
\* within the capacity of the buffer, together they hold the endpoints of
\* those edges and no other identifier, and the summary counts all of it.
RunsHoldTheText ==
  state = "finished" =>
    LET edges == Text!Edges(text)
        runs  == {RunPath(i) : i \in 0 .. summary.endpoint_run_count - 1}
        Ids(path) == Decoded(path, IdRecordBytes) IN
    /\ DOMAIN files = {RawPath} \union runs
    /\ Decoded(RawPath, RawRecordBytes) = edges
    /\ \A path \in runs : /\ Increasing(Ids(path))
                          /\ Len(Ids(path)) \in 1 .. EndpointIdsPerRun
    /\ UNION {{Ids(path)[i] : i \in DOMAIN Ids(path)} : path \in runs}
         = UNION {{edges[i][1], edges[i][2]} : i \in DOMAIN edges}
    /\ summary.raw_edge_count = Len(edges)
    /\ summary.endpoint_run_records
         = FoldFunctionOnSet(LAMBDA n, m : n + m, 0,
                             [path \in runs |-> Len(Ids(path))], runs)

\* The bytes of a file, its records in the form they have on disk, one that is
\* there in part taken as whole.
RecordsBegun(path, size) == (Len(files[path].payload) + size - 1) \div size
SizeOf(path) ==
  IF path = RawPath
  THEN FileBytes(RecordsBegun(path, RawRecordBytes), kRawEdgeRunRecordBytes)
  ELSE FileBytes(RecordsBegun(path, IdRecordBytes), kScalarRecordBytes)

\* prepare.cpp:154-214: before a byte is read the filesystem is asked for the
\* files and the bytes of the longest list of edges that the limit admits.
\* Whatever the text, there is never more of either than is planned for a
\* limit that the text just meets.
IngestFitsItsPlan ==
  LET limit == IF Len(text) < MinimumCsvBytes THEN MinimumCsvBytes ELSE Len(text)
      plan  == make_initial_run_disk_plan(
                 raw_edge_count_upper_bound(limit, Len(Header)), EndpointIdsPerRun)
  IN  /\ Cardinality(DOMAIN files) <= plan.files
      /\ SumFunctionOnSet([path \in DOMAIN files |-> SizeOf(path)], DOMAIN files) <= plan.bytes

\* run_file.cpp:240-287: whenever the process dies, a file whose header can
\* be read holds the payload that the header describes, to the last byte.
HeaderOnlyWhenWhole ==
  \A path \in DOMAIN files :
    \/ files[path].header = Raw!Placeholder
    \/ files[path].header = Raw!Header(files[path].payload)

\* run_file.cpp:349-362, ingest.cpp:388-409: an ingest that has failed, or
\* was given up, at whatever point, leaves no descriptor open and no file but
\* those whose removal failed, the last time it was tried; and only the run
\* under way, which abort_noexcept does not know, was tried by nobody but its
\* writer.
FailureLeavesNothing ==
  state \in {"failed", "destroyed"} =>
    /\ DOMAIN files = stuck
    /\ stuck \subseteq Abandoned \union {RunPath(completed_run_files)}
    /\ ~raw_writer.open /\ ~run_writer.open
=============================================================================
