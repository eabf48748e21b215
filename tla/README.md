# Verification of graph_nomemory

graph_nomemory turns a CSV list of edges into a validated graph on disk and
computes its PageRank, deterministically and in less than 128 MiB, with a pool
of threads and external sorting. This directory holds TLA+ models of the parts
of it that are hard to test, the TLC configurations that check them, and
proofs that TLAPS checks. Paths below are relative to the repository, which is
`src/` in the model's comments and in `PROJECT.json`: `src/src/` is the C++
source, `src/include/tbank/` its headers.

`PROJECT.json` maps every definition to the lines it models and lists the
hazards each property is for.

## 1. The system

```
 main ── prepare ── edge_csv → ingest → (run files) → vertex_id_merge
   │                                             └→ compact_edge_runs
   │                → compact_edge_merge → counted_graph ── partitioner
   │                                            └── publication
   └── analyze ── graph (validation) ── pagerank iteration
                     └── partitioner       └── parallel_traversal ── fixed_executor
                 └── rank_csv ── publication
```

One process, two phases. Preparation is sequential and lives on files; analysis
reads the graph with several threads. Files are the only state that outlives a
call, and publication is the only step other processes can see.

| Component | State | Operations | Interacts with | What makes it correct |
|---|---|---|---|---|
| Fixed executor (`parallel/fixed_executor.cpp`) | mutex, two condition variables, the wave's generation, atomics `next_job_` and `failure_cutoff_`, failure records | constructor, `run_indexed`, destructor; `worker_main` | callbacks of the caller, pthreads | every job once; the lowest failing job's exception whatever the schedule; nobody uses the callback after the call; no lost wake-up; threads joined on every path |
| Publication (`platform/publication.cpp`) | one call's descriptors, temporary name, sink state; `temporary_name_sequence` | `publish_file_no_replace`, `publish_staging_directory_no_replace` | kernel, other processes, writer callback | a name is given once and to a whole file; what is reported is what happened; what a call creates it removes, or says it could not; descriptors are closed once |
| Compact edge merge (`preprocess/compact_edge_merge.cpp`) | generations of run files in a workspace, the recovery frontier | `reduce_compact_edge_runs` | run files, disk space, its caller's retry | no edge is lost, duplicates are removed; at each failure the caller knows a frontier that is whole; a retry is not blocked by remains |
| Vertex id merge, run file writer, ingest, compact edge runs (`preprocess/`) | run files, writer states | merge, sort, finish | files | as above; a file that was not finished cannot be opened |
| Counted graph, preparation (`preprocess/counted_graph.cpp`, `prepare.cpp`) | staging directory, workspace, phase | build, publish, retire inputs | publication, partitioner, merges | the inputs go only when the result is durable; a failure leaves something to resume from |
| Task partition (`tasks/partitioner.cpp`) | the task being filled, counts so far; for the validator a cursor, a hub, one count of lookahead | `consume`, `finish` of builder and validator | consumer and reader callbacks | one canonical partition per graph and configuration; the validator accepts nothing else |
| Parallel traversal (`pagerank/parallel_traversal.cpp`) | window of tasks, partial sums, worker buffers, structural cursor, open hub | `write_candidate`, `write_residual_terms` (one pass each) | executor, files of the graph, the iteration's vectors | every destination gets all its edges, in an order that does not depend on the schedule; nobody writes elsewhere |
| PageRank iteration, numerics (`pagerank/`) | two vectors that swap roles, residuals, iteration count | `run_page_rank_with_traversal` | traversal, observer | the residual belongs to the vector that is returned; stops for one of four reasons |
| Graph storage (`storage/`) | open files with fingerprints | `ValidatedGraph::open`, `read_records` | files | what was validated is what is read |
| Edge CSV, rank CSV, configuration, command line, main | parser state; outcome and exit code | parse, write, clean up | publication | what is told agrees with what is on disk |
| Resource plans, checked I/O | none | checked arithmetic, loops over short and interrupted calls | kernel | no overflow, every byte |

What is hard here: the interleavings of the pool; system calls that fail in the
middle of a protocol whose point is what survives; calls that are retried after
such a failure; files that change under a reader; and a result that has to be
the same for every schedule. `PROJECT.json` lists each of these at its line.

## 2. Modules

| Module | Models | State variables and actions |
|---|---|---|
| `FixedExecutor` | `fixed_executor.cpp` without telemetry and stack mappings | the members have their names; `worker[w]`, `caller[c]` and `owner` are the places in `worker_main`, `run_indexed`, constructor and destructor. A critical section is one action, an access to an atomic outside it is one action. `asleep`/`woken` and `waiting`/`woken` are the wait sets of the two condition variables, from which anybody may wake for no reason |
| `IndexedWaves` | what the executor promises (the header), without threads | jobs run in any order, at most once; a call returns, or stops the pool and throws |
| `FixedExecutorProofs` | proofs about `FixedExecutor` | |
| `EdgeText` | nothing of the code: what an edge CSV file is, as a definition | |
| `EdgeCsv` | `EdgeCsvParser`, one byte at a time | `parser` is the record of its members; `ConsumeByte` is one turn of the loop, by state, `FinishText` the end; `ConsumerReturns` and `ConsumerThrows` are what becomes of a row that was handed on |
| `RunFile` | `RunFileWriter` | `writer` is the record of the writer's members, `files` the directory, `stuck` the files that could not be removed; creating, appending, and the flush, the header and the close of `finish`, may each fail, and so may the removal that follows |
| `ResourcePlans` | the disk plans of the phases of preparation | no variables |
| `Ingest` | `InitialRunIngestor` over `EdgeCsv` and two instances of `RunFile` (the raw file and the run of endpoints that is being written) | `text` is what has been fed so far, chosen byte by byte; `pc` is the point of `accept_edge`, `flush_endpoint_run` or `finish`; `stuck` are the files that neither their writer nor `abort_noexcept` could remove |
| `RunMerge` | the buffered cursors and the heap that `vertex_id_merge.cpp` and `compact_edge_merge.cpp` both have | no variables: cursors and heap are values that its operators take and return |
| `IdentifierMerge` | `merge_endpoint_id_runs` | `id_files` are the runs there are, `current` is the set that a pass takes, `id_merge` the group being merged |
| `CompactRuns` | `build_compact_edge_runs` | `chunk` is the run being collected, `next_raw_record` how far the raw file is read, `edge_files` the runs there are |
| `CountedGraph` | `build_impl`, and what `ValidatedGraph::open` checks | `cursor` is the last merge, `current_destination` with its count the account under way; the staged files have their names; the tasks are written by `TaskBuilder` |
| `GraphBuild` | `finish` of `CountedGraphPreprocessor`: the three before, one after the other, with the disk that each is admitted for | theirs |
| `Publication` | both publishing functions, every system call an action that may fail, kills and crashes | `place[p]` is where process p is; `names`, `content`, `stable`, `survivors` are the directory, what files hold, what is on disk, and which directories a crash may leave |
| `NoReplaceStore` | what publication promises: a store in which a name, once reported, keeps its whole file | |
| `GenerationMerge` | `reduce_compact_edge_runs` | the workspace is `files`, a set of runs of generations; `frontier` is the recovery frontier, `current` the one a pass consumes |
| `RunsProofs` | proofs about `Ingest` and `GenerationMerge`, and so about all runs on disk | |
| `RunMergeProofs` | proofs about the merge of runs, for any records and any order of them | |
| `GraphBuildProofs` | proofs about `GraphBuild`, over two instances of `RunMergeProofs` and one of `TaskStorageProofs` | |
| `PublicationProofs`, `TaskStorageProofs` | proofs about the module of that name | |
| `TaskLayout` | task records, and which sequence of them is canonical, as a definition | no variables |
| `TaskBuilder` | `TaskPartitionBuilder` | `ordinary` is the open task, `queue` what the current call has still to emit; the consumer fails between any two tasks |
| `TaskStorage` | `TaskBuilder` and then `TaskValidator` on the same counts, with any records in `tasks.bin` | the two modules' variables |
| `TaskValidator` | `TaskValidator`, driven as `validate_task_directory` drives it | any record may come; the counts are a stream that cannot go back |
| `ParallelTraversal` | `ParallelTraversalWorkspace` | `place` is the coordinator in `run_pass`; `job`, cursors and buffers are the workers'. The executor is an instance of `IndexedWaves`, whose actions the traversal's actions contain; the stored tasks are canonical in the sense of `TaskLayout` |
| `PageRankIteration` | `run_page_rank_with_traversal` | `point` is the point of the loop; `current`, `scratch` and `report` have their names; a vector is the term that says how it was computed. A pass of a traversal is one action, except that the parallel residual is two: `WriteTerms` over the borrowed vector, then `SumTerms` |
| `PageRankProofs` | proofs about `ParallelTraversal` and `PageRankIteration` | |
| `Pipeline` | `main` with ingest, merge of endpoint runs, compact edges, counted graph, analysis and clean-up, for several processes | `place[p]` is how far process p has come; `disk[p]` says of each part of its private directory whether it is absent, partial or whole; `snapshot`, `chunk` and `seen` are the state of `InputFile` and what was read; `outcome` and `exit` are what `run_pipeline` and `main` return; the name OUTPUT is an instance of `NoReplaceStore` |
| `PipelineProofs` | proofs about `Pipeline` | |
| `MC*` | definitions for TLC | |

The modules compose along the arrows of section 1: `FixedExecutor` implements
`IndexedWaves`, `ParallelTraversal` is built on `IndexedWaves`; `TaskValidator`
accepts exactly what `TaskLayout` calls canonical, which is what `ParallelTraversal`
assumes of the file it was given and what `TaskBuilder` produces; `TaskStorage`
sets the two side by side. One pass of
`ParallelTraversal` is what `PageRankIteration` calls `WriteCandidate` or
`WriteTerms`: the first module shows that a pass which returns is whole and does
not depend on the schedule, and so the second may take it for one step.
`Ingest` contains `EdgeCsv` and, twice, `RunFile`, whose actions take part in its
own, and the files it leaves are what `GraphBuild` starts from; `GraphBuild`
contains `IdentifierMerge`, `CompactRuns` and `CountedGraph`, which use
`RunMerge` and `TaskBuilder`. In `GraphBuild` the compact runs are few enough for
the last merge; what happens when they are not is `GenerationMerge`.
`Pipeline` publishes OUTPUT by the steps of `NoReplaceStore`, which `Publication`
implements, and takes the reduction of compact edges for one step, because
`GenerationMerge` shows that its frontier is whole at every point.

### Abstractions worth knowing

* *Memory order.* Atomics are sequentially consistent. The code builds only for
  Linux on x86-64, inside a wave every write to the two atomics is a locked
  instruction, and everything else crosses the mutex.
* *Floating point.* A sum is the sequence of its terms, so two results are equal
  only if the terms were added in the same order, and a vector of the iteration
  is the sequence of the operations applied to it. Which values are finite, or
  small enough, is not modelled: every such check may come out either way.
* *File contents.* In `Publication` a file is a number of chunks, in
  `GenerationMerge` a run is the set of its edges and whether it was finished. In
  `RunFile` a byte is the i-th byte of a record, and a header holds the payload it
  describes: that is what its count and checksum are for. In `IdentifierMerge`,
  `CompactRuns` and `CountedGraph` a file is the sequence of its records and is
  there once its writer has finished it, as `RunFile` shows. The formats
  themselves are not modelled.
* *The text.* `EdgeCsv` gets classes of bytes: digits, sign, comma, space, the
  two of a line end, and one letter for each of the two words of the header,
  which also stands for any byte that no rule mentions. A consumer that calls
  the parser again from within is left out.
* *Guards.* Where an exception passes a guard, what the guard removes is gone,
  except in `Ingest`, `Publication` and `Pipeline`, where a removal may fail. In
  `Ingest` a writer that fails may leave its file, with any part of what it was
  just writing: `abort_noexcept` then tries the raw file once more, but the run
  under way has no name there and stays. That a header of 48 bytes is written in
  part is left out.
* *Temporary names* (`Publication`). No target has the name of a temporary file.
* *Plans.* Only disk is planned: bytes, files and entries. Sums do not overflow 64
  bits.
* *Crashes of the file system* (in `Publication`): a synced file keeps its
  content, a synced directory its names; what was not synced may be lost or
  kept, each directory state since the last sync being possible.
* *The executor's failures in `ParallelTraversal`*: `IndexedWaves` is told when a
  wave starts which of its jobs throw. These are the jobs that contradict the
  counts, which the module computes, and any set of jobs whose reads fail.
* *The private directory* (`Pipeline`). A set of files is partial while it is
  written or removed. Where an exception passes a guard any of the files it
  removes may be left, as the guards ignore errors; a removal of the whole
  directory that fails leaves all of it or only the directory.
* *A changed input* has another snapshot: `same_snapshot` compares times of change
  as well as sizes, and the model takes each write to move them. Two writes
  within one tick of the file system's clock are not told apart by the code.
* *A changed task file* is found by the fingerprint check before each read,
  except when the change falls between that check and the read; then any
  content of the right length may be read.

## 3. Runs

| Run | Instance | Shows |
|---|---|---|
| `executor_waves` | 3 workers, 2 callers that may overlap, 2 waves of up to 3 jobs, any of which throw; threads that cannot be created, an audit that fails | `IInv`: the inductive invariant of the proofs. `DeterministicFailure`: the call throws what the lowest throwing job threw. `CompleteWaves`: a call that returns has run each job once. `WavesDoNotOverlap`: no field of a wave changes while a worker may read it. `WavesSpec`: the refinement of `IndexedWaves` |
| `executor_live` | 2 workers, 1 caller, 2 waves, every fault, a mutex that cannot be taken again too; fair scheduling | `CallsReturn`, `OwnerFinishes`, and `NoUseAfterReturn`, for which it takes a worker that cannot lock again, a call that throws and the others still at work |
| `publication` | 2 processes, 1 name, 1 kill or crash | `WholeOrAbsent`, `TruthfulResult`, `NothingLeftBehind`, `DescriptorsClosedOnce`, and the refinement `StoreSpec` of `NoReplaceStore` |
| `generation_merge` | 1 to 5 runs over 2 edges, fan-in 2, any number of failing and repeated calls | `FrontierIsWhole`, `RetryIsNotBlocked` (with the counts of the frontier), `ReductionIsComplete`, `ToldFrontierCanBeResumed` (what a call returns or names in its error is whole, and its next passes have nothing in their way), `FrontierAdvances`, `CallsEnd` |
| `merge_lost_error` | the same | a finding, section 6 |
| `ingest` | every text of up to 12 bytes, which has room for two rows, over the digits 0 to 2; integers from -12 to 11; endpoint runs of 3; writer buffers of 3 bytes for records of 2 and 1 | `ParsesExactlyTheGrammar`: accepted if and only if it is an edge CSV, or refused with the line of the error, at the very byte that makes it hopeless. `RunsHoldTheText`: the files of a finished ingest hold the edges of the text and each endpoint, every run sorted. `IngestFitsItsPlan`: at no moment are they larger, or more, than planned. `HeaderOnlyWhenWhole`: at every step. `FailureLeavesNothing`: no descriptor stays open, and no file but those whose removal failed, each of them one that somebody tried to remove |
| `graph_build` | every list of up to 3 edges over 3 identifiers and some of 4 and 5; runs of 2 endpoints and 3 edges, fan-in 2, buffers and batches of 1 or 2 records, allocation units of 1 and 64 bytes | `GraphIsOfTheInput`: a graph that is published has the vertices, the edges and the tasks of the input. `NothingIsRefused`: no check of the program fails on what the program wrote. `InputSurvives`: after any failure the edges of the input are still there in one form or the next. `AdmittedPhasesFit`: no phase adds more files or bytes than its plan was admitted for |
| `task_storage` | all graphs of up to 4 destinations of up to 5 edges; those of up to 3 opened again with any records | `BuiltIsCanonical`, and `OpensWhatWasBuilt`: records are accepted if and only if they are the canonical ones, at every point of the stream |
| `parallel_traversal` | 2 workers, 2 passes, 4 tasks in windows of 2, one change of the task file | `ReturnedPassIsWhole`, `ResultIsDeterministic`, `WritesAreSeparate`, `PassGoesOn` |
| `page_rank_iteration` | up to 4 iterations, both traversals, every outcome of every check | `VerifiedResult`: ranks are handed out only with the residual of these very ranks. `ViewIsOfOneIteration`: so is all that the observer is shown. `ReportIsOfOneVector`: a residual is never reported beside the delta of another vector |
| `pipeline` | 2 processes for one OUTPUT, an input read in 2 chunks and changed once, any kills, 1 crash | `ExitTellsWhatIsThere`: the exit code agrees with OUTPUT and the directory. `OutputIsOfOneInput`: no result is of a mixture of versions. `SomethingWholeRemains`: until it is removed the directory holds something whole to go on from |
| `pipeline_uncertain` | 1 process | a finding, section 6 |

Why the bounds are enough:

* *Executor.* Two workers have every race on the two atomics, since each access
  is between one worker and another; the third adds two failures that race
  while it claims. Three jobs let claims, a failure below and a failure above the
  claimed job all meet. Two waves are what it takes for one to be confused with
  the next, and for the generation counter to reach its end. A mutex that cannot
  be taken again breaks the pool; it is in the second run, with one caller, as
  overlapping callers are refused before they wait.
* *Publication.* Conflicts are between two processes for one name. Two
  temporary names per call let the first be taken and the second not, or both.
  One kill or crash at any point is the case the protocol is for; recovering is
  nothing but calling again, which the remaining calls do. The proofs have no
  bounds.
* *Merge.* Five runs with fan-in two need three passes, with a group that is
  incomplete in the first and one in the second; two edges let runs overlap and
  differ. The number of calls and failures is not bounded.
* *Ingest.* The bounds of the integers are those of the code scaled down: -12 is
  one past what the positive side allows, and 12, -20 and 100 are one step, and
  one digit, beyond. A second row is needed for a run that spans rows, for
  errors of a later line and for a row without line end. Buffers of 3 bytes with
  records of 2 are flushed in the middle of a record.
* *Graph.* Runs of 2 identifiers of up to 10 endpoints and fan-in 2 need three
  passes with incomplete groups; a buffer of one record and batches of two are
  refilled at, before and after the end of a run. Slices of one edge and tasks
  of two make every task limit the one that decides.
* *Tasks.* An edge slice of 2, 3 edges and 2 vertices per task make every limit
  the one that decides for some graph; 5 edges make a hub of three slices.
* *Traversal.* The hub of three slices spans both windows of two tasks, the
  ordinary task has three destinations, one without edges, and three edges;
  buffers of one count and two sources are refilled within a task. A second pass
  meets the buffers and partial sums of the first. The contents the task file may
  be changed to are some 2,300, chosen so that every check that can be reached
  refuses some of them.
* *Pipeline.* The processes meet at OUTPUT only, so two of them have every race:
  both see it absent, one is first, one finds it there. A change between the
  two reads, one before and one after them are all that one change can do. The
  passes over the endpoint runs are not bounded.
* *Iteration.* In four iterations each of the two vectors is written over twice,
  and a check of the residual follows an iteration that had one and one that had
  none. The proof is for any number.

Symmetry is used for processes and workers where only safety is checked.
Deadlock is checked in the executor, publication and merge runs. The others
switch it off because there an ingest or a build that has ended or failed, a
builder or validator that has, a traversal after its last pass, and a call that
has returned, really stop; in `pipeline` processes exit. That a pass
of the traversal does not stop earlier is `PassGoesOn`.

### Fairness

`FairSpec` of `FixedExecutor` is weak fairness of each worker, each caller and
the owner, separately. It stands for: the scheduler runs every thread that can
run, a mutex that is released is eventually granted, callbacks end. Spurious
wake-ups and faults are not in it. `FairSpec` of `GenerationMerge` is weak
fairness of the steps of a call: system calls return. A caller never has to
call again.

## 4. Proofs

All theorems are for every value of the constants that the `ASSUME` of the
module allows.

**`FixedExecutorProofs`** (assuming `ConstantsAssumption`: finitely many workers,
at least one; overlapping callers only without the `relock` fault). The
inductive invariant `IInv` is `TypeOK` and five parts:

* `LifeInv`: which places of owner, callers and workers go together, and that
  the counts of ready and completed workers count exactly the workers that are
  past those points;
* `WaveInv`: while a call is waiting each worker is in the wave, past it, or
  still about to see it, so a count equal to the number of workers means that
  nobody is inside;
* `JobInv`: jobs below `next_job` have been claimed once, those above never, and
  the cutoff is the least job recorded as failed or about to be;
* `ReplyInv`: what a finished call reported still agrees with its wave;
* `CallInv`: at most one caller is inside, and only while the pool is alive; one
  that is on its way out has stopped the pool; a stopped pool that nobody is in
  has been joined; and once a job's exception is raised no worker can break down
  any more, as all of them rest (`Resting`).

None of the stated properties is inductive without these: that the exception
is that of the lowest job needs to know of jobs claimed but not yet run, which
needs to know that nobody from an older wave is still claiming. From it follow
`TypeCorrect`, `FailureIsDeterministic`, `CallbackOutlivesUse` and, as action
properties, `ReturnedWavesComplete` and `WavesAreSeparate`.

`ExecutorImplementsWaves` is the refinement: mapped by `PoolState`, `Calling`, `Told`
and `Thrown`, every step of the executor is one of `IndexedWaves` or a stutter.
Claims, waits, wake-ups and the records of failures are stutters
(`QuietForWaves`); a wave starts where it is prepared, a job runs where its
callback is called, the pool stops when the first worker sees a failure, and a
call ends when its caller leaves. That the exception is that of the lowest job
that throws comes from `JobInv` and `DeterministicFailure`; that no other call is
inside when one ends, and that the pool closes only when it is joined, from
`CallInv`. `ParallelTraversal` runs its waves by the actions of `IndexedWaves`, so
its theorems are about the executor there is.

**`RunsProofs`, the generations** (assuming `MergeAssumption`: a finite set of edges,
fan-in at least 2). The invariant says that the current generation is the
frontier while a pass runs, that the runs made so far hold the edges of the
runs consumed so far, and that an older frontier the caller may still hold is
either whole or refused. The work is in three lemmas about the workspace:
readable runs depend only on the runs they name (`Agree`), writing one that is
not among them keeps them (`WriteKeeps`), and so does removing one
(`UnlinkKeeps`). From it follows `NoEdgeIsLost`.

A second invariant, `RInv`, is about what calls leave behind and what they count.
Above the frontier there is only what the present pass has made (`NothingBeyond`),
below it only what the present removal has not reached (`NothingBelow`), unless a
clean-up or a removal met an error. The frontier that the caller knows is one from
which the present frontier was reached in some of the passes that were planned
for it (`Lineage`): the generation and the number of passes left have the same sum,
so a call that starts again at an older frontier finds the name of the present
one taken, and is refused. `Counted` says that a generation's records are those of
its runs, and are never more than those it was merged from. The number of passes is a
recursive function; that it exists, is unique and unfolds (`PassesUnfold`) is
shown without induction, by taking the least number for which it would fail
(`LeastNumber`, at the end of this section). From `RInv` follow `FailedCallCanBeRetried`, `ReturnedCallHasReduced`
and, as an action property, `FrontierOnlyAdvances`. `ToldFrontierIsUsable` takes both:
what the caller is told is the frontier, so it is whole by the first, and free of
remains by the second.

**`PageRankProofs`, the passes** (assuming `TaskConfigAssumption`: limits of at least one,
a slice no larger than a task; `TraversalAssumption`: at least one worker, stored
tasks that are the canonical partition of the counts, a changed file of the same
number of well-formed records, buffers of at least one record). Neither the
graph nor the windows, batches, workers and passes are bounded. The spine is the
structural cursor: each task of a window begins where the cursor stood when it was
validated (`CursorAt`), and the cursor then stands at its end (`After`). The
invariant is, besides types:

* `WindowInv`: the validated tasks lie side by side inside the graph, and the
  cursor stands behind the last;
* `WaveInv`: who runs which job, no two the same, and that tasks which contradict
  the counts will throw;
* `JobInv`: how far a worker is. What its two cursors hold ahead is what the files
  hold (`Reads`), and its sum is a prefix of the edges of the slice (`SliceInv`) or of
  the present destination (`OrdinaryInv`), with the destinations before it stored;
* `WorkInv`: a job that has ended without throwing has `Produced` all it has to;
* `SettledInv`: up to the place where the reduction stands every destination has
  the sum of all its edges, and the open hub has those of its slices so far.

The two properties are not inductive without each other: a sum stays right only
because nobody else writes there, and nobody does because destinations of two
slots are disjoint (`TerritoriesAreDisjoint`), which is `WindowInv`; that in turn says
nothing of a file that changes between validation and use, unless everything the
workers take from a task is in the window that was read. From it follow
`NobodyWritesTwice` and `PassSumsEveryEdge`, whatever the file was changed to.

As long as the file is not changed more is true, and `UInv` is the second layer: the task
at each index is the one of the partition, so the cursor stands where the
partition has it (`CursorBefore`), and what is settled has its sums cut as the
partition cuts them (`Ordered`). No check of the code can then refuse anything:
`CanonicalIsValid` for `validate_task`, `CanonicalAgrees` for the counts,
`CanonicalIsReducible` for the slices, the last of which needs that the slices of a
hub, each of the full size but the last, add up to its edges (`SlicesOfHub`,
`Multiples`). From it follows `ResultsDoNotDependOnTheSchedule`.

`EdgesBefore` and `FlattenSeq` are recursive; what they compute
(`EdgesBeforeUnfold`, `FlattenAppend`) is again shown by a least counterexample.

**`TaskStorageProofs`** (assuming `TaskConfigAssumption`; `OffersAssumption`: the
records in `tasks.bin` are such as `decode_task_record` lets through, with unsigned
fields). Graphs, limits and records are not bounded. `StorageInv` is an
invariant of each side:

* `BuilderInv`: what the consumer has, what the call has still to emit and the task
  being filled follow each other without a gap (`Linked`, `Leads`, `OpenTask`), and each
  task emitted is `Settled`, right however the counts go on. The tasks emitted so far
  being a beginning of the partition is not inductive: in the middle of a call
  they are one of the counts with the one under way, which may yet be lost to
  a consumer that throws;
* `ValidatorInv`: the validator stands where the accepted tasks end, inside a hub
  after exactly the slices it counted, and the stream of counts stands at that
  destination or, with a lookahead, one further (`Reading`).

That the builder may flush when it does is `FlushedIsRight`; that its slices cover a
hub is `SlicesLead`. `AcceptsIff` says that all the checks of the validator together,
`InOrder` among them, are the one question whether the task continues the
partition. That there is one partition only (`OnePartition`) is because the place
where a task starts says which task it is (`OneTask`): neither of two ordinary
tasks can be longer (`NoneLonger`), and slices of a hub start at different edges
(`Multiples`). From them follow `BuilderEmitsThePartition` and
`ValidatorOpensWhatWasBuilt`. The first has a hypothesis, that the counts may include
a hub: a bound of the model too small for that would make false, not of the
builder but of the bound, that every beginning can be completed by one count more.

**`PageRankProofs`, the iteration** (assuming `IterationAssumption`: at least one
iteration, and `RankAfter`, which is the sequence of vectors that the method
defines, without any vector that is used again). The invariant `IterationInv` says for
each point what the two vectors hold (`VectorsAgree`), what the report has been
told (`ReportAgrees`), how the counts compare with the iteration
(`CountsAgree`), and that no result exists before the return (`ResultAgrees`).
The properties alone are not inductive, since they say nothing about `current`:
that the candidate of the next iteration is right needs that the vectors were
swapped after the residual was computed, and not before. `SumOfTerms` and
`RanksAreVectors` are the two facts about terms it needs. From it follow
`ResultIsVerified`, `ViewsAreOfOneIteration` and `ReportsAreOfOneVector`.

**`PipelineProofs`** (assuming `PipelineAssumption`: `NoProcess` is no process,
at least one read consumes the input). A step of one process leaves what belongs
to another as it was (`OnlyMine`), so the invariant is one of each process by
itself: what it has read lies between the version it opened and the one that is
there now (`ReadAt`); what is whole at each place (`HoldAt`); how outcome, exit
code and OUTPUT go together (`ExitAt`). `OutputIsOfOneInput` is not inductive
without the first, as the check that the input is unchanged says something of
what was read only if nothing was read outside that interval;
`SomethingWholeRemains` needs to know, at every place where something is removed,
that its successor is whole already; `ExitTellsWhatIsThere` needs that no
exception is thrown once OUTPUT is given. From it follow `PublishedIsOfOneInput`,
`PredecessorOutlivesSuccessorsBirth` and `ExitCodeIsTrue`. Versions of the input
are numbers that grow: a file changed back to what `fstat` told before is outside
the model, and so of the theorem.

**`RunsProofs`, the ingest** (assuming the sizes of records and buffers and the digits to
be numbers, and the buffer to hold a record). For each of the two writers, the
payload on disk and the buffer are together exactly what was appended
(`WriterAgrees`), whichever byte the last flush ended at. Without it a header
could not be known to describe its payload, as `finish` flushes, seeks and writes
the header in three steps any of which may be the last. `RawAt` and `RunAt` say at
which place each writer is open, finishing or gone; `NamesKnown` that every file
is one `abort_noexcept` knows by name, or the one under way, whose own writer
tries to remove it first, or one that could not be removed. What a failed writer
leaves is torn in the middle of a flush, and yet as sound as before
(`TornAgrees`): as long as there is something to write, the header is the
placeholder. From it follow `WholeUnderItsHeader` and `FailedIngestLeavesNothing`.

The third theorem is about what the ingest has on disk and what was asked of the
filesystem before it began, which is computed from the length of the text alone.
The parser has gone through four bytes for the header and four for each row, but for the
last line feed (`Seen`, `RowsAreInText`). Every row is one edge and two endpoint
occurrences, on disk or in a buffer (`EdgesCounted`, `EndpointsCounted`), and a run is cut
only from a full buffer, but for the last of each kind. So every file has its place in the
plan (`FilesFit`), one that a failed writer left included (`RawTorn`, `RunTorn`). The three with `Seen` are `FitInv`, which is inductive given the
invariant of the writers. What is left is to add the files up: `SumFunctionOnSet`
folds a set in an order it does not tell, and `SumHasRoom` shows, with
`LeastNumber` in place of induction, that any order stays within the plan. From it
follows `IngestStaysInPlan`.

**`RunMergeProofs`** (a buffer of at least one record; for `MergeLosesNothing` nothing
else, of the order `Before` or of the runs). The module leaves open what a record is, and the proofs do too,
so they are used twice, for identifiers and for edges. Every node of the heap is at
one place of it (`Arranges`), whichever nodes were swapped on the way up or down; a
cursor's buffer is what its run holds between the records handed out and those read
(`HasTaken`). `Merges` puts them together: one node for every run that is not
exhausted, which is the next record of that run, and every record before it is in what
has been handed out. `MergeLosesNothing` says what follows when the heap is empty. For
`MergeSorts` the order matters: `Before` must be a strict total order of the records, as
that of identifiers and that of edges are, and the runs must ascend strictly. Then no
node of the heap is heavier than the one above it (`Heaped`), `SiftUp` and `SiftDown`
mend the one place where this fails (`HeapedButAt`), the top is the least of what is
left in any run, and so what leaves the merge ascends (`Sorts`).

**`GraphBuildProofs`** (assuming `InputAssumption`: the input is a list of edges
that is not empty; `IdentifierAssumption`, `CompactAssumption`, `GraphAssumption` and
`TaskConfigAssumption`: buffers, batches, runs and slices of at least one, a fan-in of
at least two). Neither the input nor the runs, passes and batches are bounded. The
invariant has a part for each phase:

* `IdInv`: while a group is merged the runs of the current set are all there and hold
  every endpoint, and what the groups before have read is in the runs written
  (`PassRuns`); while predecessors are removed the successor is complete and holds
  everything (`PassRetires`); at the end one run is left, with all endpoints. The
  set of complete runs alone is not inductive: that a successor is whole when its last
  group ends needs to know of every group before what it read;
* `CompactInv`: of the raw file a beginning has been read, and its edges, with the ranks
  of their ends, are those of the complete runs and of the run that is being collected
  (`Reading`); the dictionary is the last run of identifiers, and strictly ascends because
  it was verified;
* `BuildInv`: the edges taken from the last merge ascend (`StreamAscends`), and the staged
  files are what those edges say: the sources their sources, the degrees how many
  leave each vertex (`Degrees`), and the counts where the edges of each destination end
  in the stream (`Tally`), up to the destination under way. A count that the
  partitioner has been given, but not yet taken, is owed (`Owing`). At the end every edge
  is in the stream (`MergeEnds`).

From the first two follows `InputAlwaysSurvives`. For `PublishedIsOfTheInput` the stream
must be turned into the graph: it has each distinct edge once, since it ascends and
nothing is lost (`Complete`), so the edges into a vertex are together (`Together`), as
many as its count says, and their sources, which ascend, are the sources in order
(`SourcesRight`). That the tasks are the canonical ones needs nothing of the builder here:
the graph was validated before it was published, and a graph that fails the validation
is not published.

`NothingRefused` says more: that no check fails before. `NothingIsRefused` states each
check as the condition the code tests, where the code tests it. It needs of what is
written what the checks ask of it (`WrittenWell`):

* `IdSorted`, `EdgeSorted`, `StreamSorted`: the runs of identifiers and of edges climb
  and so does what a merge of them has handed out, by `MergeSorts` of `RunMergeProofs`,
  used for both; and no run of edges is more than the raw edges need, which is the number
  of runs that `verify_compact_generation` asks for. That every end of a raw edge is
  in the dictionary follows from `IdInv` (`BatchesKnown`);
* `Accounts`: the count of a destination is of edges with different sources, so it is
  no more than the vertices, and so is an out-degree (`CountIsSmall`, `DegreeIsSmall`); the
  out-degrees add up to the edges that were taken. The sum is a recursive function:
  `SumIs` shows that whatever takes the same steps is equal to it, and `OneMoreAdds` that
  one more in one place is one more in the sum;
* `Partitioned`: the partitioner is in the invariant that `TaskStorageProofs` shows of
  it, and has been given the counts that are written but for the one it is at. What is
  shown there is used through an instance with the constants of `GraphBuild`, in which the
  validator's half stands still; that the builder has finished makes the tasks
  canonical, which is the last thing the validation asks for (`StagedIsValid`).

A partitioner that is given more vertices than it can number throws, and so does one
whose consumer cannot write; neither is a check of what was written.

`InOrder` is the list of a set by the ranks of its members. That every finite set of
identifiers or of edges has such a list, and that a list which ascends is that of its
members (`AscendingInOrder`), is shown by counting what is below each member; the
rank that `lower_bound` finds in the dictionary and the rank among the endpoints are the
same for this reason.

**`PublicationProofs`** (assuming `ConstantsAssumption`: at least one chunk and one
attempt, and no target with a temporary name). The invariant has two parts:

* `CallInv(p)`, what a process knows of its own call: its control (`Control`) and
  descriptors (`Holds`), how much of its file there is at each place (`Complete`),
  that no directory a crash may bring back has this file under a target before
  the rename (`Unpublished`), what its names refer to (`Entries`) and that no
  other temporary name does (`Scratched`);
* `SharedInv`: files of different processes differ (`FilesDiffer`), every directory
  a crash may bring back has a part of the targets there are now (`Earlier`),
  these are whole (`WholeOrAbsent`), and what was reported is durable.

`WholeOrAbsent` alone is not inductive: a write of one process could reach a
published file, if it were not for `Unpublished`, and `Unpublished` of one process
is kept by the rename of another only because of `FilesDiffer`. What a step of q
may do to the directory is `FsStep(q)`; that this keeps `CallInv` of every other
process (`OtherKept`) and the shared part (`SharedKept`) is shown once, and each
action is then shown to be such a step. From it follow the five theorems about
the properties of the run `publication`, the last of them that `Publication`
implements `NoReplaceStore`: the rename is `Publish`, the sync of the parent
`Persist`, the end of the call `Report`, a crash is `Crash`, whose lost names are
not durable by `Earlier`, and every other step is hidden.

`LeastNumber` is what stands in for induction: that a set of numbers which is not
empty has a least one. It, and the lemmas about `EdgesBefore` and slices that the
traversal, the partition and the builder share, are stated in each module that needs
them.

Only model-checked: everything under fairness, and `PassGoesOn`, which is about what is
enabled, both beyond these provers; the properties of `ingest`
about the text, `ParsesExactlyTheGrammar` and `RunsHoldTheText`, since the parser has to
be compared with a grammar that is given by cutting the text into lines; and
`AdmittedPhasesFit`, which needs the sizes of the files of all phases at once. The
lemmas of `RunsProofs` about sums would be the start of a proof of it.

## 5. Not modelled

* the concurrency evidence and the stack mappings of the executor
  (`fixed_executor.cpp:716-1237`): counters for reports, and memory mapping;
* the choice between the codes of different exceptions (`main.cpp:533-627`), which
  are one value in `Pipeline`, and calls of a preprocessor that has failed, which
  `main` never makes;
* the memory budgets (`resources/page_rank.cpp`, and the plans of memory and
  descriptors of each phase): sums of sizes compared once with a limit, before
  anything is changed; and 64-bit totals that 32-bit counts cannot reach;
* numerics: rounding and exact comparison of floating point are outside what TLC
  or the provers decide;
* configuration, command line, the text of the rank CSV: parsing and writing of
  values that no other part's state depends on;
* formats, checksums, the manifest: encodings of values into bytes and back;
* checked I/O: loops over interrupted and short calls that keep no state;
* moves of a run writer, and the sync by which `finish_and_sync` differs from
  `finish`: `Publication` takes the files of a staging directory to be on disk
  once the directory is, which is what that sync is for;
* the sequential traversal of the tasks (`pagerank.cpp:220-341`), which adds the same
  terms in the order of the file;
* the generator of test graphs: not part of the program.

## 6. Findings

`merge_lost_error`: `compact_edge_merge.hpp:143` promises that "failures expose
the latest safe frontier". The frontier travels in the error
`CompactEdgeReductionProgressError`, whose construction allocates. If that
allocation fails after a predecessor was half removed, `bad_alloc` leaves
instead, and the frontier the caller was last told is gone.

`pipeline_uncertain`: `docs/configuration.md:150` explains exit code 8 as a published
file whose durability is not confirmed. `prepare_outcome` returns 8 also if it is
the intermediate graph whose durability is uncertain. Then the analysis is
skipped, the private directory is removed with the graph in it, and no OUTPUT
exists. (`ExitTellsWhatIsThere` therefore allows code 8 without an OUTPUT.)

## 7. Plan

Written, in this order: the executor, because every parallel result rests on
it; publication, because it is what others see; the merge, because it is where
data can be lost; the task partition and the traversal over the executor's
contract, because that is where the result could depend on the schedule; the
iteration over its passes, because it is where a verified result could be
something else than what was verified; the whole program, because it joins the
others and decides what is told; then preparation from the first byte of the
text to the published graph, because there every boundary between two buffers,
batches, runs and passes is one that a test would have to hit by chance.

Left:

1. Proofs: `AdmittedPhasesFit` of `GraphBuild`, from the lemmas about sums over sets of
   files; `ParsesExactlyTheGrammar` of `Ingest`, by the states of the parser.
2. The sequential traversal beside the parallel one, with the claim that both
   give the same sums when no hub is cut.
3. The executor's evidence: which of its counters agree with the waves at the
   points where a report reads them.
