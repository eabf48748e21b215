------------------------------ MODULE RunMerge -------------------------------
(***************************************************************************)
(* The merge of sorted runs that src/src/preprocess/vertex_id_merge.cpp    *)
(* and src/src/preprocess/compact_edge_merge.cpp both contain, the one for *)
(* identifiers and the other for edges: a buffered cursor per run, and a   *)
(* heap with the next record of each.                                      *)
(***************************************************************************)
EXTENDS Integers, Sequences

CONSTANTS
  Before(_, _),    \* the order of the records
  BufferRecords    \* reader_buffer_bytes, in records: not zero

Least(m, n) == IF m < n THEN m ELSE n

----------------------------------------------------------------------------
(* BufferedIdCursor, BufferedEdgeCursor.                                   *)

NewCursor == [next_record |-> 0, buffer |-> <<>>, previous |-> <<>>]

\* refill, when nothing is buffered.
Refilled(run, c) ==
  LET requested == Least(BufferRecords, Len(run) - c.next_record) IN
  IF c.buffer # <<>> THEN c
  ELSE [c EXCEPT !.buffer = SubSeq(run, c.next_record + 1, c.next_record + requested),
                 !.next_record = @ + requested]

\* Mutant: the last record of a full buffer is skipped.
HasNext_LosesLast(run, c) ==
  Len(Refilled(run, c).buffer) > (IF c.next_record = BufferRecords THEN 1 ELSE 0)

HasNext(run, c)    == Refilled(run, c).buffer # <<>>
NextRecord(run, c) == Head(Refilled(run, c).buffer)
Advanced(run, c) ==
  [Refilled(run, c) EXCEPT !.buffer = Tail(@), !.previous = <<NextRecord(run, c)>>]

\* next throws unless the records ascend strictly.
Ascends(run, c) ==
  HasNext(run, c) /\ c.previous # <<>> => Before(c.previous[1], NextRecord(run, c))

----------------------------------------------------------------------------
(* FixedMinHeap, FixedEdgeMinHeap.  Positions count from 0, as they do in  *)
(* the code.                                                               *)

Node(record, cursor) == [record |-> record, cursor |-> cursor]

less(heap, p, q) ==
  LET m == heap[p + 1]
      n == heap[q + 1] IN
  \/ Before(m.record, n.record)
  \/ m.record = n.record /\ m.cursor < n.cursor

Swapped(heap, p, q) ==
  [heap EXCEPT ![p + 1] = heap[q + 1], ![q + 1] = heap[p + 1]]

\* A node moves from place to place until it may stay; To(heap, p) is where it
\* goes from p, or p.
Sifted(heap, position, To(_, _)) ==
  LET step[n \in 0 .. Len(heap)] ==
        IF n = 0 THEN [heap |-> heap, at |-> position]
        ELSE LET s == step[n - 1]
                 q == To(s.heap, s.at)
             IN  [heap |-> Swapped(s.heap, s.at, q), at |-> q]
  IN  step[Len(heap)].heap

parent(position) == (position - 1) \div 2

Up(heap, position) ==
  IF position # 0 /\ less(heap, position, parent(position)) THEN parent(position)
  ELSE position

\* The lesser of the children.
selected(heap, position) ==
  LET left  == 2 * position + 1
      right == left + 1
  IN  IF right < Len(heap) /\ less(heap, right, left) THEN right ELSE left

Down(heap, position) ==
  IF /\ Len(heap) > 1 /\ position <= (Len(heap) - 2) \div 2
     /\ less(heap, selected(heap, position), position)
  THEN selected(heap, position)
  ELSE position

SiftUp(heap, position)   == Sifted(heap, position, Up)
SiftDown(heap, position) == Sifted(heap, position, Down)

Push(heap, node) == SiftUp(Append(heap, node), Len(heap))

\* What pop leaves; what it returns is Head(heap).
Popped(heap) ==
  IF Len(heap) = 1 THEN <<>>
  ELSE SiftDown([SubSeq(heap, 1, Len(heap) - 1) EXCEPT ![1] = heap[Len(heap)]], 0)

----------------------------------------------------------------------------
(* merge_group, and the reads of UniqueCompactEdgeCursor.                  *)

NoMerge == [runs |-> <<>>, cursors |-> <<>>, heap |-> <<>>, out |-> <<>>]

\* Every cursor is opened and its first record pushed.  No run is empty.
Primed(runs) ==
  LET pushed[i \in 0 .. Len(runs)] ==
        IF i = 0 THEN <<>>
        ELSE Push(pushed[i - 1], Node(NextRecord(runs[i], NewCursor), i))
  IN  [runs    |-> runs,
       cursors |-> [i \in DOMAIN runs |-> Advanced(runs[i], NewCursor)],
       heap    |-> pushed[Len(runs)],
       out     |-> <<>>]

Emitted(out, record) ==
  IF out # <<>> /\ out[Len(out)] = record THEN out ELSE Append(out, record)

MergeAscends(m) ==
  LET i == Head(m.heap).cursor IN Ascends(m.runs[i], m.cursors[i])

\* One record leaves the heap and the next of its run takes its place.
Merged(m) ==
  LET node == Head(m.heap)
      run  == m.runs[node.cursor]
      c    == m.cursors[node.cursor]
      rest == Popped(m.heap) IN
  IF HasNext(run, c)
  THEN [m EXCEPT !.cursors[node.cursor] = Advanced(run, c),
                 !.heap = Push(rest, Node(NextRecord(run, c), node.cursor)),
                 !.out = Emitted(@, node.record)]
  ELSE [m EXCEPT !.heap = rest, !.out = Emitted(@, node.record)]
=============================================================================
