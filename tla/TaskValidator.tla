---------------------------- MODULE TaskValidator ----------------------------
(***************************************************************************)
(* TaskValidator of src/src/tasks/partitioner.cpp, as the opener of a      *)
(* graph uses it (src/src/storage/graph.cpp): task records come from       *)
(* tasks.bin and may be anything, the incoming counts are read from a      *)
(* stream that only moves forward, and any read may fail.                  *)
(***************************************************************************)
EXTENDS TaskLayout

CONSTANT Offers   \* the task records tasks.bin may hold, all well formed

VARIABLES
  counts,       \* incoming_counts.bin
  state,        \* "active", "finished", "failed"
  lookahead,    \* lookahead_.destination, or None
  hub,          \* hub_
  next_destination, next_edge,
  next_count_destination,  \* the next record of the stream of counts
  accepted      \* history: the tasks accepted so far

vars == <<counts, state, lookahead, hub, next_destination, next_edge,
          next_count_destination, accepted>>

None  == -1
NoHub == [destination |-> None, slice_count |-> 0, next_slice |-> 0,
          total_edges |-> 0, covered_edges |-> 0]

destination_count == Len(counts)
CountOf(d) == counts[d + 1]

Init ==
  /\ state = "active"
  /\ lookahead = None /\ hub = NoHub
  /\ next_destination = 0 /\ next_edge = 0
  /\ next_count_destination = 0
  /\ accepted = <<>>

\* take_count(d) gets the count of d: the lookahead is for d, or the stream,
\* which refuses to be read out of order, has come to d.
InOrder(d) ==
  IF lookahead = None THEN next_count_destination = d
  ELSE lookahead = d /\ next_count_destination = d + 1

\* The stream after take_count and peek_count of the destinations up to d.
ReadUpTo(d) ==
  next_count_destination' =
    IF d < next_count_destination THEN next_count_destination ELSE d + 1

\* Mutant: a task may end before the greedy boundary.
EndedEarly_Unchecked(t) == FALSE

\* The ordinary task ended although the next destination fits into it.
EndedEarly(t) ==
  LET end == t.a + t.b IN
  /\ end < destination_count
  /\ CountOf(end) <= EdgeSlice
  /\ t.b < MaxTaskVertices
  /\ CountOf(end) <= MaxTaskEdges - t.edge_count

\* validate_ordinary, but for the order in which it reads the counts.
AdmitsOrdinary(t) ==
  LET end == t.a + t.b IN
  /\ t.tag = "ordinary"
  /\ hub = NoHub
  /\ t.b # 0 /\ t.a = next_destination /\ t.b <= MaxTaskVertices
  /\ end <= destination_count
  /\ t.edge_begin = next_edge
  /\ \A d \in t.a .. end - 1 : CountOf(d) <= EdgeSlice
  /\ t.edge_count = EdgesBefore(counts, end) - EdgesBefore(counts, t.a)
  /\ t.edge_count <= MaxTaskEdges
  /\ ~EndedEarly(t)

\* begin_hub, but for the order in which it reads the counts.
AdmitsFirstSlice(t) ==
  /\ next_destination < destination_count
  /\ t.a = next_destination
  /\ t.b = 0
  /\ CountOf(t.a) > EdgeSlice
  /\ t.c = SliceCount(CountOf(t.a))

OpenedHub(t) ==
  IF hub # NoHub THEN hub
  ELSE [destination |-> t.a, slice_count |-> t.c, next_slice |-> 0,
        total_edges |-> CountOf(t.a), covered_edges |-> 0]

AdmitsSlice(t) ==
  /\ t.tag = "hub_slice"
  /\ hub = NoHub => AdmitsFirstSlice(t)
  /\ LET h == OpenedHub(t) IN
     /\ t.a = h.destination /\ t.c = h.slice_count /\ t.b = h.next_slice
     /\ t.edge_begin = next_edge + h.covered_edges
     /\ t.edge_count = Smaller(EdgeSlice, h.total_edges - h.covered_edges)
     /\ t.b + 1 = h.slice_count =>
          h.covered_edges + t.edge_count = h.total_edges

Accepts(t) ==
  /\ AdmitsOrdinary(t) \/ AdmitsSlice(t)
  /\ hub = NoHub => InOrder(t.a)

AcceptOrdinary(t) ==
  LET end == t.a + t.b
      peeks == end < destination_count IN
  /\ state = "active" /\ AdmitsOrdinary(t) /\ Accepts(t)
  /\ ReadUpTo(IF peeks THEN end ELSE end - 1)
  /\ lookahead' = IF peeks THEN end ELSE None
  /\ next_destination' = end
  /\ next_edge' = next_edge + t.edge_count
  /\ accepted' = Append(accepted, t)
  /\ UNCHANGED <<counts, state, hub>>

AcceptSlice(t) ==
  LET h == OpenedHub(t)
      grown == [h EXCEPT !.next_slice = @ + 1, !.covered_edges = @ + t.edge_count]
      last == grown.next_slice = grown.slice_count IN
  /\ state = "active" /\ AdmitsSlice(t) /\ Accepts(t)
  /\ IF hub = NoHub THEN ReadUpTo(t.a) /\ lookahead' = None
     ELSE UNCHANGED <<next_count_destination, lookahead>>
  /\ hub' = IF last THEN NoHub ELSE grown
  /\ next_edge' = IF last THEN next_edge + h.total_edges ELSE next_edge
  /\ next_destination' = IF last THEN next_destination + 1 ELSE next_destination
  /\ accepted' = Append(accepted, t)
  /\ UNCHANGED <<counts, state>>

\* A task that is not admitted, or a read of the stream of counts that fails.
Fail ==
  /\ state = "active"
  /\ state' = "failed"
  /\ UNCHANGED <<counts, lookahead, hub, next_destination, next_edge,
                 next_count_destination, accepted>>

\* finish, and the checks of validate_task_directory that come after it.
MayFinish ==
  /\ hub = NoHub
  /\ next_destination = destination_count
  /\ lookahead = None
  /\ next_count_destination = destination_count

Finish ==
  /\ state = "active" /\ MayFinish
  /\ state' = "finished"
  /\ UNCHANGED <<counts, lookahead, hub, next_destination, next_edge,
                 next_count_destination, accepted>>

Next ==
  \/ \E t \in Offers : AcceptOrdinary(t) \/ AcceptSlice(t)
  \/ Fail \/ Finish

----------------------------------------------------------------------------
(* Properties.                                                             *)

\* partitioner.cpp:463-637: whatever tasks.bin holds, the validator accepts
\* a task exactly when it continues the canonical partition of the counts,
\* and the file exactly when it is all of that partition.  The counts are
\* asked for in the order in which the stream can deliver them.
AcceptsExactlyCanonical ==
  state = "active" =>
    /\ \A t \in Offers :
         Accepts(t) <=> IsCanonicalPrefix(counts, Append(accepted, t))
    /\ MayFinish <=> IsCanonical(counts, accepted)
=============================================================================
