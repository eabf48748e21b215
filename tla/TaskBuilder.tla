----------------------------- MODULE TaskBuilder -----------------------------
(***************************************************************************)
(* TaskPartitionBuilder of src/src/tasks/partitioner.cpp: destinations     *)
(* come in one at a time, tasks leave through a consumer that may throw,   *)
(* or call back into the builder, between any two of them.                 *)
(***************************************************************************)
EXTENDS TaskLayout

CONSTANTS
  MaxCount,          \* bound on the edges of a destination
  DestinationLimit   \* numeric_limits<uint32_t>::max()

ASSUME BuilderAssumption == MaxCount \in Nat /\ DestinationLimit \in Nat

VARIABLES
  state,       \* "active", "finished", "failed"
  calling,     \* inside consume or finish, and with them the consumer
  ordinary,    \* the task being filled; its b is 0 when there is none
  consumed,    \* the counts taken so far: destination_count_, edge_count_
  argument,    \* the count being consumed, or Finishing
  queue,       \* what the current call has still to emit
  tasks        \* what the consumer has accepted

vars == <<state, calling, ordinary, consumed, argument, queue, tasks>>

Finishing == -1
Counts    == 0 .. MaxCount

destination_count == Len(consumed)
edge_count        == EdgesBefore(consumed, Len(consumed))

Empty(d, e) == Ordinary(d, 0, e, 0)

Init ==
  /\ state = "active" /\ calling = FALSE
  /\ ordinary = Empty(0, 0)
  /\ consumed = <<>> /\ argument = Finishing
  /\ queue = <<>> /\ tasks = <<>>

Flushed == IF ordinary.b = 0 THEN <<>> ELSE <<ordinary>>

\* emit_hub: the loop that cuts the edges of a hub into slices.
Slices(count) ==
  [i \in 1 .. SliceCount(count) |->
     HubSlice(destination_count, i - 1, SliceCount(count),
              edge_count + (i - 1) * EdgeSlice,
              Smaller(EdgeSlice, count - (i - 1) * EdgeSlice))]

\* Mutant: the edge limit lets in one destination too many.
MustFlush_OffByOne(count) ==
  /\ ordinary.b > 0
  /\ \/ ordinary.b >= MaxTaskVertices
     \/ ordinary.edge_count > MaxTaskEdges

\* add_ordinary_destination: the task being filled has no room for it.
MustFlush(count) ==
  /\ ordinary.b > 0
  /\ \/ ordinary.b >= MaxTaskVertices
     \/ count > MaxTaskEdges - ordinary.edge_count

\* consume(count), finish(): what they emit before they change anything.
Emissions(count) ==
  IF count = Finishing THEN Flushed
  ELSE IF count > EdgeSlice THEN Flushed \o Slices(count)
  ELSE IF MustFlush(count) THEN Flushed
  ELSE <<>>

Call(count) ==
  /\ state = "active" /\ ~calling
  /\ IF count # Finishing /\ destination_count = DestinationLimit
     THEN /\ state' = "failed"
          /\ UNCHANGED <<calling, argument, queue>>
     ELSE /\ argument' = count /\ queue' = Emissions(count)
          /\ calling' = TRUE
          /\ UNCHANGED state
  /\ UNCHANGED <<ordinary, consumed, tasks>>

Emit ==
  /\ state = "active" /\ calling /\ queue # <<>>
  /\ tasks' = Append(tasks, Head(queue)) /\ queue' = Tail(queue)
  /\ UNCHANGED <<state, calling, ordinary, consumed, argument>>

\* The consumer throws, or makes a reentrant call: whether or not it lets
\* the error of that call out, the builder is poisoned.
ConsumerFails ==
  /\ state = "active" /\ calling /\ queue # <<>>
  /\ state' = "failed" /\ calling' = FALSE
  /\ tasks' \in {tasks, Append(tasks, Head(queue))}
  /\ UNCHANGED <<ordinary, consumed, argument, queue>>

\* The rest of consume_one once everything it emits is out.
Absorb ==
  /\ state = "active" /\ calling /\ queue = <<>> /\ argument # Finishing
  /\ consumed' = Append(consumed, argument)
  /\ ordinary' = IF argument > EdgeSlice
                 THEN Empty(destination_count + 1, edge_count + argument)
                 ELSE LET open == IF ordinary.b = 0 \/ MustFlush(argument)
                                  THEN Empty(destination_count, edge_count)
                                  ELSE ordinary
                      IN  [open EXCEPT !.b = @ + 1, !.edge_count = @ + argument]
  /\ calling' = FALSE
  /\ UNCHANGED <<state, argument, queue, tasks>>

Finish ==
  /\ state = "active" /\ calling /\ queue = <<>> /\ argument = Finishing
  /\ state' = "finished" /\ calling' = FALSE
  /\ ordinary' = Empty(destination_count, edge_count)
  /\ UNCHANGED <<consumed, argument, queue, tasks>>

Next ==
  \/ \E count \in Counts \union {Finishing} : Call(count)
  \/ Emit \/ ConsumerFails \/ Absorb \/ Finish

Spec == Init /\ [][Next]_vars

----------------------------------------------------------------------------
(* Properties.                                                             *)

\* partitioner.cpp:89-99: the tasks of a builder that has finished are the
\* canonical partition of the counts it was given, and while it is active
\* those it has emitted begin that partition, however the counts go on.
BuiltIsCanonical ==
  /\ state = "finished" => IsCanonical(consumed, tasks)
  /\ state = "active" /\ ~calling =>
       \E more \in Counts :
         IsCanonicalPrefix(consumed \o <<more>>, tasks \o Flushed)
=============================================================================
