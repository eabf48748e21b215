----------------------------- MODULE TaskStorage -----------------------------
(***************************************************************************)
(* The counts and the tasks of a graph that is written, by TaskBuilder,    *)
(* and opened again: TaskValidator reads the counts the builder was given, *)
(* and any task records at all, those of the builder or of a file that is  *)
(* damaged.                                                                *)
(***************************************************************************)
EXTENDS TaskBuilder

CONSTANTS
  Offers,             \* the task records tasks.bin may hold
  MaxDestinations     \* bound: the graphs that are opened again

ASSUME OffersAssumption ==
  /\ \A t \in Offers : t \in TaskRecord /\ WellFormed(t)
  /\ MaxDestinations \in Nat

VARIABLES
  validator_state,
  lookahead, hub, next_destination, next_edge, next_count_destination, accepted

validatorVars == <<validator_state, lookahead, hub, next_destination, next_edge,
                   next_count_destination, accepted>>

Validator == INSTANCE TaskValidator WITH counts <- consumed, state <- validator_state

StorageInit == Init /\ Validator!Init

Build == Next /\ UNCHANGED validatorVars

Open ==
  /\ state = "finished" /\ Len(consumed) <= MaxDestinations
  /\ Validator!Next
  /\ UNCHANGED vars

StorageNext == Build \/ Open

StorageSpec == StorageInit /\ [][StorageNext]_<<vars, validatorVars>>

\* partitioner.cpp:463-637: once the counts are written the validator accepts
\* the tasks of the canonical partition and no others (TaskValidator), so it
\* accepts the file of a builder that has finished and refuses every other.
OpensWhatWasBuilt ==
  state = "finished" /\ Len(consumed) <= MaxDestinations =>
    /\ Validator!AcceptsExactlyCanonical
    /\ validator_state = "finished" => accepted = tasks
=============================================================================
