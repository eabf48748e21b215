--------------------------- MODULE GenerationMerge ---------------------------
(***************************************************************************)
(* src/src/preprocess/compact_edge_merge.cpp: reduce_compact_edge_runs.    *)
(*                                                                         *)
(* A workspace holds generations of sorted runs of edges.  A call merges   *)
(* groups of FanIn runs into the runs of the next generation, verifies     *)
(* them, removes the generation they replace, and so on until at most      *)
(* FanIn runs are left.  Any step may fail.  A call that fails after a     *)
(* verified pass tells its caller the generation to resume from.           *)
(*                                                                         *)
(* A run is the set of its edges: it is sorted, without duplicates, and    *)
(* its bytes only matter in that an unfinished one cannot be opened.       *)
(***************************************************************************)
EXTENDS Integers, FiniteSets

CONSTANTS
  Edges,
  FanIn,     \* CompactEdgeMergeConfig::fan_in
  MaxRuns    \* bound on the runs of the initial generation

ASSUME MergeAssumption ==
  /\ IsFiniteSet(Edges)
  /\ FanIn \in Nat /\ FanIn >= 2    \* validate_plan_config
  /\ MaxRuns \in Nat

VARIABLES
  \* the workspace
  dirs,           \* the generations that have a directory
  runs,           \* runs[<<g, i>>]: run i of generation g
  \* the call
  place,
  current,        \* the frontier being reduced
  output_index,   \* how many runs of the successor were created
  input_begin,    \* how many runs of current they replace
  merged_input_records, output_records,
  retired,        \* how many runs of current remove_run_set_checked removed
  frontier,       \* recovery_frontier
  made_verified_progress,
  \* the caller
  known,          \* the frontier it was last told
  outcome,
  \* history
  input,          \* the edges of the initial generation
  cleanupFailed,  \* a clean-up that ignores errors met one
  retireFailed    \* the removal of a predecessor met one

workspace == <<dirs, runs>>
pass == <<output_index, input_begin, merged_input_records, output_records>>
progress == <<frontier, made_verified_progress>>
caller == <<known, outcome>>
history == <<input, cleanupFailed, retireFailed>>
vars == <<workspace, place, current, pass, retired, progress, caller, history>>

Frontier(g, n, r) == [generation |-> g, run_count |-> n, record_count |-> r]

\* The runs from..to - 1 of a generation.
RunsOf(g, from, to) == {<<g, i>> : i \in from .. to - 1}
Generation(f) == RunsOf(f.generation, 0, f.run_count)

\* BufferedEdgeCursor opens and reads only finished runs, and no empty one.
Readable(rs) ==
  /\ rs \subseteq DOMAIN runs
  /\ \A r \in rs : runs[r].complete /\ runs[r].edges # {}
EdgesOf(rs) == UNION {runs[r].edges : r \in rs}
\* Their records: an edge counts once in every run that has it.
RecordsOf(rs) == {p \in rs \X Edges : p[2] \in runs[p[1]].edges}
Records(rs) == Cardinality(RecordsOf(rs))

\* verify_generation, compared with the count that is expected.
Verified(f) ==
  /\ Readable(Generation(f))
  /\ Records(Generation(f)) = f.record_count

Write(r, content) ==
  runs' = [x \in DOMAIN runs \union {r} |-> IF x = r THEN content ELSE runs[x]]
Unlink(rs) == runs' = [x \in DOMAIN runs \ rs |-> runs[x]]

SuccessorRunCount(n) == n \div FanIn + (IF n % FanIn # 0 THEN 1 ELSE 0)
Successor ==
  Frontier(current.generation + 1, SuccessorRunCount(current.run_count),
           output_records)

Passes[n \in Nat] == IF n <= FanIn THEN 0 ELSE 1 + Passes[SuccessorRunCount(n)]
SuccessorNames(f) ==
  f.generation + 1 .. f.generation + Passes[f.run_count]

\* The runs of the next group.
GroupSize ==
  IF current.run_count - input_begin < FanIn
  THEN current.run_count - input_begin ELSE FanIn
Group ==
  RunsOf(current.generation, input_begin, input_begin + GroupSize)
Output == <<Successor.generation, output_index>>

Init ==
  \E n \in 1 .. MaxRuns : \E content \in [0 .. n - 1 -> (SUBSET Edges) \ {{}}] :
    /\ dirs = {0}
    /\ runs = [r \in RunsOf(0, 0, n) |->
                 [edges |-> content[r[2]], complete |-> TRUE]]
    /\ known = Frontier(0, n, Records(RunsOf(0, 0, n)))
    /\ input = EdgesOf(RunsOf(0, 0, n))
    /\ current = known /\ frontier = known
    /\ place = "idle" /\ outcome = "none"
    /\ output_index = 0 /\ input_begin = 0 /\ retired = 0
    /\ merged_input_records = 0 /\ output_records = 0
    /\ made_verified_progress = FALSE
    /\ cleanupFailed = FALSE /\ retireFailed = FALSE

----------------------------------------------------------------------------
(* A call: the checks before the first pass, and its two ways to end.      *)

\* The caller reduces, or resumes from, the frontier it knows.
Call ==
  /\ place = "idle"
  /\ outcome' = "none"
  /\ made_verified_progress' = FALSE
  /\ place' = "check"
  /\ UNCHANGED <<workspace, current, pass, retired, frontier, known, history>>

\* Mutant: preflight_successor_names is left out.
StartVerified_NoPreflight ==
  /\ place = "check"
  /\ Verified(known)
  /\ current' = known /\ frontier' = known
  /\ place' = "pass"
  /\ UNCHANGED <<workspace, pass, retired, made_verified_progress, caller, history>>

\* preflight_successor_names, verify_generation.
StartVerified ==
  /\ place = "check"
  /\ SuccessorNames(known) \intersect dirs = {}
  /\ Verified(known)
  /\ current' = known /\ frontier' = known
  /\ place' = "pass"
  /\ UNCHANGED <<workspace, pass, retired, made_verified_progress, caller, history>>

\* Before a pass nothing is on disk that the call must undo: the checks at
\* the start, preflight_disk_space and the creation of the directory.
NotStarted ==
  /\ \/ place = "check"
     \/ place = "pass" /\ current.run_count > FanIn
  /\ place' = "throw"
  /\ UNCHANGED <<workspace, current, pass, retired, progress, caller, history>>

Return ==
  /\ place = "pass" /\ current.run_count <= FanIn
  /\ known' = current /\ outcome' = "returned"
  /\ place' = "idle"
  /\ UNCHANGED <<workspace, current, pass, retired, progress, history>>

\* Mutant: the error names the frontier the call began with.
Throw_Starting ==
  /\ place = "throw"
  /\ outcome' = IF made_verified_progress THEN "progress" ELSE "threw"
  /\ place' = "idle"
  /\ UNCHANGED <<workspace, current, pass, retired, progress, known, history>>

\* CompactEdgeReductionProgressError carries the frontier to the caller.
Throw ==
  /\ place = "throw"
  /\ known' = IF made_verified_progress THEN frontier ELSE known
  /\ outcome' = IF made_verified_progress THEN "progress" ELSE "threw"
  /\ place' = "idle"
  /\ UNCHANGED <<workspace, current, pass, retired, progress, history>>

\* Its constructor allocates: when that fails, bad_alloc takes its place.
ThrowBadAlloc ==
  /\ place = "throw" /\ made_verified_progress
  /\ outcome' = "threw"
  /\ place' = "idle"
  /\ UNCHANGED <<workspace, current, pass, retired, progress, known, history>>

----------------------------------------------------------------------------
(* A pass.                                                                 *)

BeginPass ==
  /\ place = "pass" /\ current.run_count > FanIn
  /\ Successor.generation \notin dirs
  /\ dirs' = dirs \union {Successor.generation}
  /\ output_index' = 0 /\ input_begin' = 0
  /\ merged_input_records' = 0 /\ output_records' = 0
  /\ place' = "group"
  /\ UNCHANGED <<runs, current, retired, progress, caller, history>>

\* merge_group opens the inputs, then creates the output.
OpenGroup ==
  /\ place = "group" /\ output_index < Successor.run_count
  /\ Readable(Group)
  /\ Output \notin DOMAIN runs
  /\ Write(Output, [edges |-> {}, complete |-> FALSE])
  /\ place' = "merge"
  /\ UNCHANGED <<dirs, current, pass, retired, progress, caller, history>>

\* Mutant: the last run of a full group is left out.
MergeGroup_Short ==
  LET merged == EdgesOf(RunsOf(current.generation, input_begin,
                               input_begin + GroupSize - 1)) IN
  /\ place = "merge"
  /\ Write(Output, [edges |-> merged, complete |-> TRUE])
  /\ output_index' = output_index + 1
  /\ input_begin' = input_begin + GroupSize
  /\ merged_input_records' = merged_input_records + Records(Group)
  /\ output_records' = output_records + Cardinality(merged)
  /\ place' = "group"
  /\ UNCHANGED <<dirs, current, retired, progress, caller, history>>

\* The k-way merge writes every edge of the group once.
MergeGroup ==
  LET merged == EdgesOf(Group) IN
  /\ place = "merge"
  /\ Write(Output, [edges |-> merged, complete |-> TRUE])
  /\ output_index' = output_index + 1
  /\ input_begin' = input_begin + GroupSize
  /\ merged_input_records' = merged_input_records + Records(Group)
  /\ output_records' = output_records + Cardinality(merged)
  /\ place' = "group"
  /\ UNCHANGED <<dirs, current, retired, progress, caller, history>>

\* An input cannot be opened, the output not be created, or the successor
\* does not verify: the writer has unlinked what it had created, or tried.
GroupFails ==
  /\ place = "group"
  /\ \/ UNCHANGED <<runs, cleanupFailed>>
     \/ /\ output_index < Successor.run_count
        /\ Write(Output, [edges |-> {}, complete |-> FALSE])
        /\ cleanupFailed' = TRUE
  /\ place' = "cleanup"
  /\ UNCHANGED <<dirs, current, pass, retired, progress, caller, input, retireFailed>>

\* Mutant: an output that could not be completed is left where it is.
MergeFails_Left ==
  /\ place = "merge"
  /\ UNCHANGED <<runs, cleanupFailed>>
  /\ place' = "cleanup"
  /\ UNCHANGED <<dirs, current, pass, retired, progress, caller, input, retireFailed>>

\* Mutant: a group that failed is tried again, for ever.
MergeFails_Retried ==
  /\ place = "merge"
  /\ Unlink({Output})
  /\ place' = "group"
  /\ UNCHANGED <<dirs, current, pass, retired, progress, caller, history>>

\* A read or a write fails: the output is unlinked, by the writer and, if
\* that failed, once more by merge_group.
MergeFails ==
  /\ place = "merge"
  /\ \/ Unlink({Output}) /\ UNCHANGED cleanupFailed
     \/ cleanupFailed' = TRUE /\ UNCHANGED runs
  /\ place' = "cleanup"
  /\ UNCHANGED <<dirs, current, pass, retired, progress, caller, input, retireFailed>>

\* ~CreatedRunSetGuard: errors are ignored, and the directory goes only when
\* it is empty.
Cleanup ==
  LET created == RunsOf(Successor.generation, 0, output_index)
      gone(rs) == \A r \in DOMAIN runs \ rs : r[1] # Successor.generation
  IN
  /\ place = "cleanup"
  /\ \E removed \in SUBSET created :
       /\ Unlink(removed)
       /\ \/ /\ gone(removed)
             /\ dirs' = dirs \ {Successor.generation}
             /\ cleanupFailed' = (cleanupFailed \/ removed # created)
          \/ /\ UNCHANGED dirs
             /\ cleanupFailed' =
                  (cleanupFailed \/ gone(removed) \/ removed # created)
  /\ place' = "throw"
  /\ UNCHANGED <<current, pass, retired, progress, caller, input, retireFailed>>

\* Every run was consumed and the successor verifies: it is the frontier.
Commit ==
  /\ place = "group" /\ output_index = Successor.run_count
  /\ input_begin = current.run_count
  /\ merged_input_records = current.record_count
  /\ Verified(Successor)
  /\ frontier' = Successor
  /\ made_verified_progress' = TRUE
  /\ retired' = 0
  /\ place' = "retire"
  /\ UNCHANGED <<workspace, current, pass, caller, history>>

RemoveRun ==
  LET run == <<current.generation, retired>> IN
  /\ place = "retire" /\ retired < current.run_count
  /\ run \in DOMAIN runs
  /\ Unlink({run})
  /\ retired' = retired + 1
  /\ UNCHANGED <<dirs, place, current, pass, progress, caller, history>>

\* Mutant: the loop forgets to remove the directory.
RemoveDirectory_Kept ==
  /\ place = "retire" /\ retired = current.run_count
  /\ current' = frontier
  /\ place' = "pass"
  /\ UNCHANGED <<workspace, pass, retired, progress, caller, history>>

RemoveDirectory ==
  /\ place = "retire" /\ retired = current.run_count
  /\ \A r \in DOMAIN runs : r[1] # current.generation
  /\ dirs' = dirs \ {current.generation}
  /\ current' = frontier
  /\ place' = "pass"
  /\ UNCHANGED <<runs, pass, retired, progress, caller, history>>

RemoveFails ==
  /\ place = "retire"
  /\ retireFailed' = TRUE
  /\ place' = "throw"
  /\ UNCHANGED <<workspace, current, pass, retired, progress, caller, input,
                 cleanupFailed>>

Step ==
  \/ StartVerified \/ NotStarted \/ Return \/ Throw \/ ThrowBadAlloc
  \/ BeginPass \/ OpenGroup \/ MergeGroup \/ GroupFails \/ MergeFails
  \/ Cleanup \/ Commit \/ RemoveRun \/ RemoveDirectory \/ RemoveFails

Next == Call \/ Step

Spec == Init /\ [][Next]_vars
\* A call runs on: no system call of it blocks for ever.
FairSpec == Spec /\ WF_vars(Step)

----------------------------------------------------------------------------
(* Properties.                                                             *)

\* No edge is ever lost: whatever has failed, at every instant recovery_frontier
\* names a generation whose runs are all finished and hold exactly the edges
\* of the initial generation, while its successors are half written and its
\* predecessors half removed.
FrontierIsWhole ==
  /\ frontier.generation \in dirs
  /\ Readable(Generation(frontier))
  /\ EdgesOf(Generation(frontier)) = input

\* A failed call can be retried: unless a clean-up was itself refused by the
\* file system, no generation is left beyond the frontier, where the next
\* call's preflight_successor_names would stop at it, and the records that
\* the frontier counts, which the next call compares, are those of its runs.
RetryIsNotBlocked ==
  place = "idle" /\ ~cleanupFailed =>
    /\ \A g \in dirs : g <= frontier.generation
    /\ \A r \in DOMAIN runs : r[1] <= frontier.generation
    /\ Records(Generation(frontier)) = frontier.record_count

\* A call that returns has reduced: at most FanIn runs are left, and nothing
\* else in the workspace unless a removal failed.
ReductionIsComplete ==
  outcome = "returned" =>
    /\ known = frontier /\ known.run_count \in 1 .. FanIn
    /\ ~cleanupFailed /\ ~retireFailed =>
         dirs = {known.generation} /\ DOMAIN runs = Generation(known)

\* compact_edge_merge.cpp:905-960, 1026-1037: what a caller was told, by a
\* result or by an error that reports progress, is something to go on from,
\* whatever has failed before and after the last commit: its runs are complete
\* and hold the input, their records are as many as it says, which is what
\* verify_generation compares, and no later pass finds its name taken, unless
\* a clean-up met an error.
ToldFrontierCanBeResumed ==
  outcome \in {"returned", "progress"} =>
    /\ Verified(known) /\ EdgesOf(Generation(known)) = input
    /\ ~cleanupFailed => SuccessorNames(known) \intersect dirs = {}

\* compact_edge_merge.hpp:143, "failures expose the latest safe frontier":
\* after any failure the caller knows it.
FailuresExposeFrontier == outcome \in {"threw", "progress"} => known = frontier

\* A frontier is replaced only by a later generation, with fewer runs and no
\* more records: calls that fail and resume cannot go back and forth.
FrontierAdvances ==
  [][frontier' # frontier =>
       /\ frontier'.generation > frontier.generation
       /\ frontier'.run_count < frontier.run_count
       /\ frontier'.record_count <= frontier.record_count]_vars

\* Every call ends.
CallsEnd == place # "idle" ~> place = "idle"
=============================================================================
