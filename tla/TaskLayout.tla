----------------------------- MODULE TaskLayout -----------------------------
(***************************************************************************)
(* How the destinations of a graph are divided into tasks: the records of  *)
(* tasks.bin and, as a definition rather than an algorithm, which sequence *)
(* of them is the canonical one.  counts[d + 1] is the number of incoming  *)
(* edges of destination d; the edges of a destination are consecutive.     *)
(***************************************************************************)
EXTENDS Integers, Sequences

CONSTANTS
  EdgeSlice,        \* edge_slice_size: a destination with more edges is a hub
  MaxTaskEdges,     \* max_task_edges
  MaxTaskVertices   \* max_task_vertices

\* validate_task_config refuses anything else.
ASSUME TaskConfigAssumption ==
  /\ EdgeSlice \in Nat \ {0}
  /\ MaxTaskEdges \in Nat \ {0}
  /\ MaxTaskVertices \in Nat \ {0}
  /\ EdgeSlice <= MaxTaskEdges

Ordinary(dst_begin, dst_count, edge_begin, edge_count) ==
  [tag |-> "ordinary", a |-> dst_begin, b |-> dst_count, c |-> 0,
   edge_begin |-> edge_begin, edge_count |-> edge_count]

HubSlice(dst, slice_index, slice_count, edge_begin, edge_count) ==
  [tag |-> "hub_slice", a |-> dst, b |-> slice_index, c |-> slice_count,
   edge_begin |-> edge_begin, edge_count |-> edge_count]

\* The fields of a record are unsigned, and its tag is one of two.
TaskRecord ==
  [tag : {"ordinary", "hub_slice"}, a : Nat, b : Nat, c : Nat,
   edge_begin : Nat, edge_count : Nat]

\* What decode_task_record lets through.
WellFormed(t) ==
  \/ t.tag = "ordinary" /\ t.b > 0 /\ t.c = 0
  \/ t.tag = "hub_slice" /\ t.b < t.c /\ t.edge_count > 0

Smaller(m, n) == IF m < n THEN m ELSE n

SliceCount(count) == (count + EdgeSlice - 1) \div EdgeSlice

\* The number of edges that enter destinations below d.
EdgesBefore(counts, d) ==
  LET before[i \in 0 .. Len(counts)] ==
        IF i = 0 THEN 0 ELSE before[i - 1] + counts[i]
  IN  before[d]

IsHub(counts, d) == counts[d + 1] > EdgeSlice

\* Destination d could have joined a task of n destinations and m edges.
Fits(counts, d, n, m) ==
  /\ d < Len(counts) /\ ~IsHub(counts, d)
  /\ n < MaxTaskVertices
  /\ m + counts[d + 1] <= MaxTaskEdges

\* The task is right where it stands: within the limits and, when ordinary,
\* as long as the limits allow.
RightOrdinary(counts, t) ==
  LET end == t.a + t.b IN
  /\ t.b \in 1 .. MaxTaskVertices /\ end <= Len(counts)
  /\ \A d \in t.a .. end - 1 : ~IsHub(counts, d)
  /\ t.edge_begin = EdgesBefore(counts, t.a)
  /\ t.edge_begin + t.edge_count = EdgesBefore(counts, end)
  /\ t.edge_count <= MaxTaskEdges
  /\ ~Fits(counts, end, t.b, t.edge_count)

RightSlice(counts, t) ==
  /\ t.a < Len(counts) /\ IsHub(counts, t.a)
  /\ t.c = SliceCount(counts[t.a + 1]) /\ t.b < t.c
  /\ t.edge_begin = EdgesBefore(counts, t.a) + t.b * EdgeSlice
  /\ t.edge_count = Smaller(EdgeSlice, counts[t.a + 1] - t.b * EdgeSlice)

RightTask(counts, t) ==
  \/ t.tag = "ordinary" /\ RightOrdinary(counts, t)
  \/ t.tag = "hub_slice" /\ RightSlice(counts, t)

\* The destination at which the task after t must start.
NextDestination(t) ==
  IF t.tag = "ordinary" THEN t.a + t.b
  ELSE IF t.b + 1 = t.c THEN t.a + 1 ELSE t.a

Follows(t, u) ==
  /\ u.a = NextDestination(t)
  /\ u.edge_begin = t.edge_begin + t.edge_count

IsCanonicalPrefix(counts, tasks) ==
  /\ \A i \in DOMAIN tasks : RightTask(counts, tasks[i])
  /\ tasks # <<>> => tasks[1].a = 0 /\ tasks[1].edge_begin = 0
  /\ \A i \in 1 .. Len(tasks) - 1 : Follows(tasks[i], tasks[i + 1])

IsCanonical(counts, tasks) ==
  /\ IsCanonicalPrefix(counts, tasks)
  /\ IF tasks = <<>> THEN counts = <<>>
     ELSE NextDestination(tasks[Len(tasks)]) = Len(counts)
=============================================================================
