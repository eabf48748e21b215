-------------------------- MODULE ParallelTraversal --------------------------
(***************************************************************************)
(* ParallelTraversalWorkspace of src/src/pagerank/parallel_traversal.cpp:  *)
(* a pass reads tasks.bin window by window, lets the workers of the fixed  *)
(* executor process each window, and adds up the slices of hubs itself.    *)
(*                                                                         *)
(* The executor is IndexedWaves, which FixedExecutor implements.  A sum of *)
(* floating point numbers depends on the order of its terms, so it is the  *)
(* sequence of its terms: a term is the pass and the edge it was read for. *)
(*                                                                         *)
(* The files were validated when they were opened.  A read checks that its *)
(* file has not changed since, and then reads: a change in between goes    *)
(* unnoticed until the next check.  It is modelled for tasks.bin.          *)
(***************************************************************************)
EXTENDS TaskLayout, SequencesExt

CONSTANTS
  Workers,
  Counts,          \* incoming_counts.bin
  Stored,          \* tasks.bin as it was validated
  Rewrites,        \* what tasks.bin may be changed to
  WindowRecords,   \* scheduler_window_records
  CountBatch,      \* worker_count_batch_records
  SourceBatch,     \* worker_source_batch_records
  MaxPasses        \* bound on the number of passes

vertex_count == Len(Counts)
edge_count   == EdgesBefore(Counts, Len(Counts))
task_count   == Len(Stored)

ASSUME TraversalAssumption ==
  /\ Workers # {}
  /\ Counts \in Seq(Nat)
  /\ Stored \in Seq(TaskRecord) /\ IsCanonical(Counts, Stored)
  /\ Rewrites \subseteq Seq(TaskRecord)
  /\ \A s \in Rewrites : Len(s) = task_count /\ \A i \in DOMAIN s : WellFormed(s[i])
  /\ {WindowRecords, CountBatch, SourceBatch, MaxPasses} \subseteq Nat \ {0}

VARIABLES
  changed,             \* the fingerprint of tasks.bin is another one
  \* run_pass
  place, pass, task_index, window, slot,
  structure,           \* StructuralCursor
  reduction,           \* ReductionHub, or NoHub
  output, partials,
  faulted,             \* history: something outside has failed
  \* the executor
  pool, running, jobs, throwing, ran, reply, raised,
  \* process_task, one of each per worker
  job, consumed, left, sum,
  countCursor, sourceCursor, countBuffer, sourceBuffer

passVars   == <<pass, task_index, window, structure>>
hubVars    == <<slot, reduction>>
waveVars   == <<pool, running, jobs, throwing, ran, reply, raised>>
cursorVars == <<countCursor, sourceCursor, countBuffer, sourceBuffer>>
jobVars    == <<job, consumed, left, sum, cursorVars>>
vars == <<changed, place, passVars, hubVars, output, partials, faulted,
          waveVars, jobVars>>

Wave == INSTANCE IndexedWaves
          WITH Callers <- {"run_pass"}, MaxJobs <- WindowRecords

Vertices == 0 .. vertex_count - 1
Slots    == 0 .. WindowRecords - 1
NoSlot   == WindowRecords
NoHub    == [destination |-> -1, slice_count |-> 0, next_slice |-> 0,
             expected_edges |-> 0, covered_edges |-> 0, incoming_sum |-> <<>>]
NoHubGroup == [destination |-> -1, slice_count |-> 0, next_slice |-> 0]
Start      == [next_destination |-> 0, next_edge |-> 0, hub |-> NoHubGroup]
NoRange    == [begin |-> 0, count |-> 0, position |-> 0, at |-> 0, held |-> 0]
Records(begin, count) == [NoRange EXCEPT !.begin = begin, !.count = count]

Task(j) == window[j + 1]
Sources == [i \in 1 .. edge_count |-> i - 1]

Init ==
  /\ changed = FALSE
  /\ place = "idle" /\ pass = 0 /\ task_index = 0 /\ window = <<>>
  /\ slot = 0 /\ structure = Start /\ reduction = NoHub
  /\ output = [d \in Vertices |-> <<>>]
  /\ partials = [j \in Slots |-> <<>>]
  /\ faulted = FALSE
  /\ Wave!Init
  /\ job = [w \in Workers |-> NoSlot]
  /\ consumed = [w \in Workers |-> 0] /\ left = [w \in Workers |-> 0]
  /\ sum = [w \in Workers |-> <<>>]
  /\ countCursor = [w \in Workers |-> NoRange]
  /\ sourceCursor = [w \in Workers |-> NoRange]
  /\ countBuffer = [w \in Workers |-> [i \in 1 .. CountBatch |-> 0]]
  /\ sourceBuffer = [w \in Workers |-> [i \in 1 .. SourceBatch |-> 0]]

Goto(where) == place' = where
ThrowIf(failure) == faulted' = (faulted \/ failure)

\* Another process writes into tasks.bin.
Rewrite ==
  /\ ~changed /\ changed' = TRUE
  /\ UNCHANGED <<place, passVars, hubVars, output, partials, faulted,
                 waveVars, jobVars>>

----------------------------------------------------------------------------
(* run_pass: the windows.                                                  *)

\* write_candidate, write_residual_terms: the first of them starts the pool.
BeginPass ==
  /\ place \in {"idle", "complete"} /\ pass < MaxPasses
  /\ pass' = pass + 1
  /\ task_index' = 0 /\ structure' = Start /\ reduction' = NoHub
  /\ IF pool = "building" THEN Wave!Build ELSE UNCHANGED waveVars
  /\ Goto(IF pool' = "ready" THEN "check" ELSE "failed")
  /\ ThrowIf(pool' # "ready")
  /\ UNCHANGED <<changed, window, slot, output, partials, jobVars>>

\* ensure_unchanged, before a window is read; the end of the loop otherwise.
Check ==
  /\ place = "check" /\ task_index < task_count
  /\ Goto(IF changed THEN "failed" ELSE "read")
  /\ UNCHANGED <<changed, passVars, hubVars, output, partials, faulted,
                 waveVars, jobVars>>

\* The content is read, and may have been changed since the check.
ReadWindow ==
  /\ place = "read"
  /\ \E content \in IF changed THEN Rewrites ELSE {Stored} :
       window' = SubSeq(content, task_index + 1,
                        Smaller(task_count, task_index + WindowRecords))
  /\ slot' = 0
  /\ Goto("validate")
  /\ UNCHANGED <<changed, pass, task_index, structure, reduction, output,
                 partials, faulted, waveVars, jobVars>>

\* A read of tasks.bin, or of the incoming count of a hub, fails.
ReadFails ==
  /\ \/ place = "read"
     \/ /\ place = "reduce" /\ slot < Len(window) /\ reduction = NoHub
        /\ Task(slot).tag = "hub_slice"
  /\ Goto("failed") /\ ThrowIf(TRUE)
  /\ UNCHANGED <<changed, passVars, hubVars, output, partials, waveVars, jobVars>>

\* validate_task: the group of slices the task belongs to.
GroupOf(t) ==
  IF structure.hub # NoHubGroup THEN structure.hub
  ELSE [destination |-> t.a, slice_count |-> t.c, next_slice |-> 0]

\* Mutant: the edge ranges need not be contiguous.
Valid_AnyRange(t) ==
  /\ t.edge_begin + t.edge_count <= edge_count
  /\ t.tag = "ordinary" =>
       /\ structure.hub = NoHubGroup
       /\ t.a = structure.next_destination
       /\ t.a + t.b <= vertex_count
  /\ t.tag = "hub_slice" =>
       /\ structure.hub = NoHubGroup => t.b = 0 /\ t.a = structure.next_destination
       /\ LET group == GroupOf(t) IN
          t.a = group.destination /\ t.c = group.slice_count /\ t.b = group.next_slice

\* Mutant: an ordinary task may start at any destination.
Valid_AnyDestination(t) ==
  /\ t.edge_begin = structure.next_edge
  /\ t.edge_count <= edge_count - structure.next_edge
  /\ t.tag = "ordinary" =>
       /\ structure.hub = NoHubGroup
       /\ t.a + t.b <= vertex_count
  /\ t.tag = "hub_slice" =>
       /\ structure.hub = NoHubGroup => t.b = 0 /\ t.a = structure.next_destination
       /\ LET group == GroupOf(t) IN
          t.a = group.destination /\ t.c = group.slice_count /\ t.b = group.next_slice

\* validate_task throws on anything else.
Valid(t) ==
  /\ t.edge_begin = structure.next_edge
  /\ structure.next_edge <= edge_count
  /\ t.edge_count <= edge_count - structure.next_edge
  /\ t.tag = "ordinary" =>
       /\ structure.hub = NoHubGroup
       /\ t.a = structure.next_destination
       /\ t.a + t.b <= vertex_count
  /\ t.tag = "hub_slice" =>
       /\ structure.hub = NoHubGroup => t.b = 0 /\ t.a = structure.next_destination
       /\ LET group == GroupOf(t) IN
          t.a = group.destination /\ t.c = group.slice_count /\ t.b = group.next_slice

\* The cursor after a valid task.
Beyond(t) ==
  LET group == [GroupOf(t) EXCEPT !.next_slice = @ + 1]
      closed == t.tag = "ordinary" \/ group.next_slice = group.slice_count IN
  [next_destination |->
     IF t.tag = "ordinary" THEN t.a + t.b
     ELSE IF closed THEN structure.next_destination + 1
     ELSE structure.next_destination,
   next_edge |-> structure.next_edge + t.edge_count,
   hub |-> IF closed THEN NoHubGroup ELSE group]

ValidateTask ==
  /\ place = "validate" /\ slot < Len(window)
  /\ IF Valid(Task(slot))
     THEN /\ structure' = Beyond(Task(slot)) /\ slot' = slot + 1
          /\ UNCHANGED place
     ELSE /\ Goto("failed")
          /\ UNCHANGED <<structure, slot>>
  /\ UNCHANGED <<changed, pass, task_index, window, reduction, output,
                 partials, faulted, waveVars, jobVars>>

\* The counts of the destinations of an ordinary task contradict its range.
Contradicts(t) ==
  /\ t.tag = "ordinary"
  /\ t.edge_count # EdgesBefore(Counts, t.a + t.b) - EdgesBefore(Counts, t.a)

\* executor_.run_indexed.  The contract of the executor is told beforehand
\* which jobs throw: those that contradict the counts, and unreadable ones.
StartWave ==
  /\ place = "validate" /\ slot = Len(window)
  /\ \E unreadable \in SUBSET (0 .. Len(window) - 1) :
       /\ Wave!Start("run_pass", Len(window),
                     {j \in 0 .. Len(window) - 1 : Contradicts(Task(j))}
                       \union unreadable)
       /\ ThrowIf(unreadable # {})
  /\ Goto("wave")
  /\ UNCHANGED <<changed, passVars, hubVars, output, partials, jobVars>>

\* The executor stops because a job has thrown, or its threads have failed.
JobStops ==
  /\ place = "wave"
  /\ \E j \in throwing : ran[j] = 1 /\ \A w \in Workers : job[w] # j
  /\ Wave!Stop
  /\ UNCHANGED <<changed, place, passVars, hubVars, output, partials,
                 faulted, jobVars>>

ThreadsFail ==
  /\ place = "wave"
  /\ Wave!Stop
  /\ ThrowIf(TRUE)
  /\ UNCHANGED <<changed, place, passVars, hubVars, output, partials, jobVars>>

AllIdle == \A w \in Workers : job[w] = NoSlot

\* run_indexed comes back when no worker runs a job any more.
WaveReturns ==
  /\ place = "wave" /\ AllIdle
  /\ Wave!ReturnOk("run_pass")
  /\ slot' = 0
  /\ Goto("reduce")
  /\ UNCHANGED <<changed, passVars, reduction, output, partials, faulted, jobVars>>

WaveThrows ==
  /\ place = "wave" /\ AllIdle
  /\ \/ \E j \in Slots : Wave!ThrowJob("run_pass", j) /\ UNCHANGED faulted
     \/ faulted /\ Wave!ThrowInfrastructure("run_pass") /\ UNCHANGED faulted
  /\ Goto("failed")
  /\ UNCHANGED <<changed, passVars, hubVars, output, partials, jobVars>>

\* reduce_hub_slice: the hub a slice belongs to, unless it is out of place.
HubOf(t) ==
  IF reduction # NoHub THEN reduction
  ELSE [destination |-> t.a, slice_count |-> t.c, next_slice |-> 0,
        expected_edges |-> Counts[t.a + 1], covered_edges |-> 0,
        incoming_sum |-> <<>>]

Reducible(t) ==
  /\ reduction = NoHub => t.b = 0 /\ t.a \in Vertices
  /\ LET hub == HubOf(t) IN
     /\ t.a = hub.destination /\ t.c = hub.slice_count /\ t.b = hub.next_slice
     /\ t.edge_count <= hub.expected_edges - hub.covered_edges
     /\ t.b + 1 = t.c => hub.covered_edges + t.edge_count = hub.expected_edges

Added(hub, t, partial) ==
  [hub EXCEPT !.incoming_sum = Append(@, partial),
              !.covered_edges = @ + t.edge_count, !.next_slice = @ + 1]

ReduceSlice ==
  LET t == Task(slot)
      hub == Added(HubOf(t), t, partials[slot]) IN
  /\ place = "reduce" /\ slot < Len(window) /\ t.tag = "hub_slice"
  /\ IF Reducible(t)
     THEN /\ slot' = slot + 1
          /\ IF hub.next_slice = hub.slice_count
             THEN /\ output' = [output EXCEPT ![t.a] = hub.incoming_sum]
                  /\ reduction' = NoHub
             ELSE /\ reduction' = hub /\ UNCHANGED output
          /\ UNCHANGED place
     ELSE /\ Goto("failed")
          /\ UNCHANGED <<hubVars, output>>
  /\ UNCHANGED <<changed, passVars, partials, faulted, waveVars, jobVars>>

SkipOrdinary ==
  /\ place = "reduce" /\ slot < Len(window) /\ Task(slot).tag = "ordinary"
  /\ slot' = slot + 1
  /\ UNCHANGED <<changed, place, passVars, reduction, output, partials,
                 faulted, waveVars, jobVars>>

EndWindow ==
  /\ place = "reduce" /\ slot = Len(window)
  /\ task_index' = task_index + Len(window)
  /\ Goto("check")
  /\ UNCHANGED <<changed, pass, window, structure, hubVars, output, partials,
                 faulted, waveVars, jobVars>>

\* The checks after the last window.
Covered ==
  /\ structure.hub = NoHubGroup /\ reduction = NoHub
  /\ structure.next_destination = vertex_count
  /\ structure.next_edge = edge_count

EndPass ==
  /\ place = "check" /\ task_index = task_count
  /\ Goto(IF Covered THEN "complete" ELSE "failed")
  /\ UNCHANGED <<changed, passVars, hubVars, output, partials, faulted,
                 waveVars, jobVars>>

----------------------------------------------------------------------------
(* process_task.                                                           *)

Running(w) == job[w] # NoSlot
MyTask(w)  == Task(job[w])

\* Mutant: every worker is given the same buffer.
BufferOf_Shared(w) == CHOOSE x \in Workers : TRUE

\* count_buffer, source_buffer: each worker has its part of the memory.
BufferOf(w) == w

\* PositionalU32Cursor::next: the cursor and the buffer after one record.
Advanced(cursor, batch) ==
  IF cursor.at # cursor.held
  THEN [cursor EXCEPT !.at = @ + 1, !.position = @ + 1]
  ELSE [cursor EXCEPT !.at = 1, !.position = @ + 1,
          !.held = Smaller(cursor.count - cursor.position, batch)]

Refilled(cursor, buffer, file) ==
  IF cursor.at # cursor.held THEN buffer
  ELSE [i \in DOMAIN buffer |->
          IF i <= cursor.count - cursor.position
          THEN file[cursor.begin + cursor.position + i] ELSE buffer[i]]

Exhausted(cursor) == cursor.position = cursor.count

StartJob(w, j) ==
  LET t == Task(j) IN
  /\ place = "wave" /\ ~Running(w)
  /\ \A i \in 0 .. j - 1 : ran[i] = 1      \* claim_job takes them in order
  /\ Wave!RunJob(j)
  /\ job' = [job EXCEPT ![w] = j]
  /\ consumed' = [consumed EXCEPT ![w] = 0]
  /\ left' = [left EXCEPT ![w] = IF t.tag = "hub_slice" THEN t.edge_count ELSE 0]
  /\ sum' = [sum EXCEPT ![w] = <<>>]
  /\ countCursor' = [countCursor EXCEPT ![w] =
       IF t.tag = "hub_slice" THEN NoRange ELSE Records(t.a, t.b)]
  /\ sourceCursor' = [sourceCursor EXCEPT ![w] = Records(t.edge_begin, t.edge_count)]
  /\ UNCHANGED <<changed, place, passVars, hubVars, output, partials, faulted,
                 countBuffer, sourceBuffer>>

\* The destination whose count the worker has read last.
Destination(w) == MyTask(w).a + countCursor[w].position - 1

\* consume_sources: one more term.
ConsumeSource(w) ==
  LET b == BufferOf(w)
      read == Refilled(sourceCursor[w], sourceBuffer[b], Sources)
      next == Advanced(sourceCursor[w], SourceBatch) IN
  /\ Running(w) /\ left[w] > 0
  /\ sourceBuffer' = [sourceBuffer EXCEPT ![b] = read]
  /\ sourceCursor' = [sourceCursor EXCEPT ![w] = next]
  /\ sum' = [sum EXCEPT ![w] = Append(@, <<pass, read[next.at]>>)]
  /\ left' = [left EXCEPT ![w] = @ - 1]
  /\ UNCHANGED <<changed, place, passVars, hubVars, output, partials, faulted,
                 waveVars, job, consumed, countCursor, countBuffer>>

\* Mutant: a destination without edges is not expected.
CountFits_NonEmpty(w, count) ==
  count > 0 /\ count <= MyTask(w).edge_count - consumed[w]

\* The next destination does not take more edges than the task has left.
CountFits(w, count) == count <= MyTask(w).edge_count - consumed[w]

\* process_ordinary: the sum of the destination before is stored, if there is
\* one, and the count of the next is read.
WithSum(w) ==
  IF countCursor[w].position = 0 THEN output
  ELSE [output EXCEPT ![Destination(w)] = <<sum[w]>>]

NextDestinationOf(w) ==
  LET b == BufferOf(w)
      t == MyTask(w)
      read == Refilled(countCursor[w], countBuffer[b], Counts)
      next == Advanced(countCursor[w], CountBatch)
      count == read[next.at] IN
  /\ Running(w) /\ t.tag = "ordinary" /\ left[w] = 0
  /\ ~Exhausted(countCursor[w])
  /\ CountFits(w, count)
  /\ output' = WithSum(w)
  /\ countBuffer' = [countBuffer EXCEPT ![b] = read]
  /\ countCursor' = [countCursor EXCEPT ![w] = next]
  /\ consumed' = [consumed EXCEPT ![w] = @ + count]
  /\ left' = [left EXCEPT ![w] = count]
  /\ sum' = [sum EXCEPT ![w] = <<>>]
  /\ UNCHANGED <<changed, place, passVars, hubVars, partials, faulted,
                 waveVars, job, sourceCursor, sourceBuffer>>

EndJob(w) == job' = [job EXCEPT ![w] = NoSlot]

EndOrdinary(w) ==
  /\ Running(w) /\ MyTask(w).tag = "ordinary" /\ left[w] = 0
  /\ job[w] \notin throwing
  /\ Exhausted(countCursor[w]) /\ Exhausted(sourceCursor[w])
  /\ consumed[w] = MyTask(w).edge_count
  /\ output' = WithSum(w)
  /\ EndJob(w)
  /\ UNCHANGED <<changed, place, passVars, hubVars, partials, faulted,
                 waveVars, consumed, left, sum, cursorVars>>

EndSlice(w) ==
  /\ Running(w) /\ MyTask(w).tag = "hub_slice" /\ left[w] = 0
  /\ job[w] \notin throwing
  /\ partials' = [partials EXCEPT ![job[w]] = sum[w]]
  /\ EndJob(w)
  /\ UNCHANGED <<changed, place, passVars, hubVars, output, faulted,
                 waveVars, consumed, left, sum, cursorVars>>

\* A read fails, or a check of process_ordinary: what was stored stays.
JobThrows(w) ==
  /\ Running(w) /\ job[w] \in throwing
  /\ EndJob(w)
  /\ UNCHANGED <<changed, place, passVars, hubVars, output, partials, faulted,
                 waveVars, consumed, left, sum, cursorVars>>

CoordinatorStep ==
  \/ BeginPass \/ Check \/ ReadWindow \/ ValidateTask
  \/ StartWave \/ JobStops \/ WaveReturns \/ WaveThrows
  \/ ReduceSlice \/ SkipOrdinary \/ EndWindow \/ EndPass

WorkerStep(w) ==
  \/ \E j \in Slots : StartJob(w, j)
  \/ ConsumeSource(w) \/ NextDestinationOf(w)
  \/ EndOrdinary(w) \/ EndSlice(w) \/ JobThrows(w)

\* What the code does not do.
Environment == Rewrite \/ ReadFails \/ ThreadsFail

Next == Environment \/ CoordinatorStep \/ \E w \in Workers : WorkerStep(w)

Spec == Init /\ [][Next]_vars

----------------------------------------------------------------------------
(* Properties.                                                             *)

\* The terms of destination d in the order of incoming_sources.bin.
Terms(d) ==
  [i \in 1 .. Counts[d + 1] |-> <<pass, EdgesBefore(Counts, d) + i - 1>>]

\* parallel_traversal.cpp:577-585: whatever tasks.bin was changed to while it
\* was read, a pass that returns has given every destination the sum of all
\* its edges, each once, in order, and of this pass.
ReturnedPassIsWhole ==
  place = "complete" =>
    \A d \in Vertices : FlattenSeq(output[d]) = Terms(d)

\* The sums of the canonical partition: one per slice of a hub.
Slice(d, i) ==
  [k \in 1 .. Smaller(EdgeSlice, Counts[d + 1] - (i - 1) * EdgeSlice) |->
     Terms(d)[(i - 1) * EdgeSlice + k]]

Reference(d) ==
  IF IsHub(Counts, d) THEN [i \in 1 .. SliceCount(Counts[d + 1]) |-> Slice(d, i)]
  ELSE <<Terms(d)>>

\* parallel_traversal.cpp:558-573: the sums are added up in the same order
\* whatever worker took which task and when, so the result is bit for bit
\* the same, and a pass only fails when something outside has failed.
ResultIsDeterministic ==
  ~changed =>
    /\ place = "complete" => \A d \in Vertices : output[d] = Reference(d)
    /\ place = "failed" => faulted

\* parallel_traversal.cpp:418-429, 456: what a worker is about to write is
\* inside the arrays and nobody else's to write, whatever tasks.bin holds.
Writes(w) ==
  LET t == MyTask(w) IN
  IF t.tag = "hub_slice" THEN {<<"partials", job[w]>>}
  ELSE {<<"output", d>> : d \in t.a .. t.a + t.b - 1}

Memory == {<<"partials", j>> : j \in Slots} \union {<<"output", d>> : d \in Vertices}

WritesAreSeparate ==
  \A v, w \in Workers :
    Running(v) /\ Running(w) =>
      /\ Writes(v) \subseteq Memory
      /\ v # w => Writes(v) \intersect Writes(w) = {}

\* parallel_traversal.cpp:538-575: a pass that has begun can go on until it
\* returns or throws: the coordinator never waits for a worker that waits,
\* whatever has failed.  No step but those of the environment is repeated in
\* a pass, so it ends.
PassGoesOn ==
  place \notin {"idle", "complete", "failed"} =>
    ENABLED (CoordinatorStep \/ \E w \in Workers : WorkerStep(w))
=============================================================================
