--------------------------- MODULE IdentifierMerge ---------------------------
(***************************************************************************)
(* merge_endpoint_id_runs of src/src/preprocess/vertex_id_merge.cpp: the   *)
(* runs of endpoint identifiers are merged, at most fan_in at a time, pass *)
(* after pass, until vertex_ids.bin is left.  A pass is verified before    *)
(* its input is removed.  Every read, write and removal may fail.          *)
(*                                                                         *)
(* A run appears in id_files when its writer has finished it: one that is  *)
(* not is removed, or stays without a header that anybody could read (see  *)
(* RunFile).  The preflight of the names and the admission of memory come  *)
(* before anything is changed and are left out.                            *)
(***************************************************************************)
EXTENDS Integers, Sequences

CONSTANTS
  IdFanIn,           \* config.fan_in
  IdBufferRecords    \* config.reader_buffer_bytes, in records

\* validate_config refuses anything else.
ASSUME IdentifierAssumption ==
  IdFanIn \in Nat /\ IdFanIn >= 2 /\ IdBufferRecords \in Nat \ {0}

VARIABLES
  id_files,       \* the runs in the workspace: <<pass, index>> -> identifiers
  id_place,       \* where merge_endpoint_id_runs is
  current,        \* the set of runs to merge: its pass and how many they are
  input_begin,    \* how many of them the groups so far have taken
  output_index,   \* how many runs of the successor are complete
  retired,        \* how many of the predecessor are removed
  id_merge        \* the group being merged

idVars == <<id_files, id_place, current, input_begin, output_index, retired, id_merge>>

IdBefore(m, n) == m < n
Ids == INSTANCE RunMerge WITH Before <- IdBefore, BufferRecords <- IdBufferRecords

Initial  == 0     \* the pass of the endpoint runs; generation p is p + 1
FinalSet == -1    \* the pass of vertex_ids.bin
VertexIds == <<FinalSet, 0>>

Paths(set) == {<<set.pass, i>> : i \in 0 .. set.count - 1}
Without(S) == [path \in DOMAIN id_files \ S |-> id_files[path]]

IdentifierInit(runs) ==
  /\ id_files = [path \in {<<Initial, i>> : i \in 0 .. Len(runs) - 1} |->
                   runs[path[2] + 1]]
  /\ id_place = "groups"
  /\ current = [pass |-> Initial, count |-> Len(runs)]
  /\ input_begin = 0 /\ output_index = 0 /\ retired = 0
  /\ id_merge = Ids!NoMerge

successor_run_count(n) == n \div IdFanIn + (IF n % IdFanIn # 0 THEN 1 ELSE 0)

Successor ==
  IF current.count > IdFanIn
  THEN [pass |-> current.pass + 1, count |-> successor_run_count(current.count)]
  ELSE [pass |-> FinalSet, count |-> 1]

group_size(remaining) == Ids!Least(remaining, IdFanIn)

OpenIdGroup ==
  /\ id_place = "groups" /\ output_index < Successor.count
  /\ id_merge' = Ids!Primed([i \in 1 .. group_size(current.count - input_begin) |->
                               id_files[<<current.pass, input_begin + i - 1>>]])
  /\ id_place' = "merging"
  /\ UNCHANGED <<id_files, current, input_begin, output_index, retired>>

MergeId ==
  /\ id_place = "merging" /\ id_merge.heap # <<>>
  /\ Ids!MergeAscends(id_merge)
  /\ id_merge' = Ids!Merged(id_merge)
  /\ UNCHANGED <<id_files, id_place, current, input_begin, output_index, retired>>

CloseIdGroup ==
  /\ id_place = "merging" /\ id_merge.heap = <<>>
  /\ id_files' = [path \in DOMAIN id_files \union {<<Successor.pass, output_index>>} |->
                    IF path = <<Successor.pass, output_index>> THEN id_merge.out
                    ELSE id_files[path]]
  /\ input_begin' = input_begin + group_size(current.count - input_begin)
  /\ output_index' = output_index + 1
  /\ id_merge' = Ids!NoMerge
  /\ id_place' = "groups"
  /\ UNCHANGED <<current, retired>>

\* verify_sorted_run of every run of the successor; commit.
Ascending(run) == \A i \in 1 .. Len(run) - 1 : IdBefore(run[i], run[i + 1])

SuccessorVerified ==
  /\ input_begin = current.count
  /\ \A path \in Paths(Successor) : Ascending(id_files[path])

VerifyIds ==
  /\ id_place = "groups" /\ output_index = Successor.count
  /\ SuccessorVerified
  /\ id_place' = "retiring"
  /\ UNCHANGED <<id_files, current, input_begin, output_index, retired, id_merge>>

\* remove_run_set_checked, one run at a time.
RetireIds ==
  /\ id_place = "retiring" /\ retired < current.count
  /\ id_files' = Without({<<current.pass, retired>>})
  /\ retired' = retired + 1
  /\ UNCHANGED <<id_place, current, input_begin, output_index, id_merge>>

NextPass ==
  /\ id_place = "retiring" /\ retired = current.count
  /\ current' = Successor
  /\ id_place' = IF Successor.pass = FinalSet THEN "done" ELSE "groups"
  /\ input_begin' = 0 /\ output_index' = 0 /\ retired' = 0
  /\ UNCHANGED <<id_files, id_merge>>

\* Mutant: the guard is not told of the commit.
Guarded_Always == {<<Successor.pass, i>> : i \in 0 .. output_index - 1}

\* What CreatedRunSetGuard removes when an exception passes it.
Guarded == IF id_place = "retiring" THEN {}
           ELSE {<<Successor.pass, i>> : i \in 0 .. output_index - 1}

IdentifiersFail ==
  /\ id_place \in {"groups", "merging", "retiring"}
  /\ id_files' = Without(Guarded)
  /\ id_place' = "failed"
  /\ UNCHANGED <<current, input_begin, output_index, retired, id_merge>>

IdentifierNext ==
  \/ OpenIdGroup \/ MergeId \/ CloseIdGroup \/ VerifyIds
  \/ RetireIds \/ NextPass \/ IdentifiersFail

----------------------------------------------------------------------------

\* The identifiers of a set of runs that is complete.
Members(set) ==
  UNION {{id_files[path][i] : i \in DOMAIN id_files[path]} : path \in Paths(set)}
Holds(set, ids) == Paths(set) \subseteq DOMAIN id_files /\ Members(set) = ids
=============================================================================
