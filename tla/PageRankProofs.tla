--------------------------- MODULE PageRankProofs ---------------------------
(***************************************************************************)
(* The passes over the graph, and the iteration that makes them.           *)
(*                                                                         *)
(* What a pass of parallel_traversal.cpp does, for every graph, every      *)
(* partition of it, every number of workers, every size of window, batch   *)
(* and buffer, and whatever well-formed records tasks.bin is changed to    *)
(* between one pass and the next or in the middle of a pass.               *)
(*                                                                         *)
(* The structural cursor is the spine of the argument.  Each validated     *)
(* task begins where the cursor stood (At) and the cursor moves to its end *)
(* (WindowInv), so the tasks of a window lie side by side: two slots of a  *)
(* wave have different territories (TerritoriesAreDisjoint).  While a      *)
(* worker is inside a task, what it has read and summed is an exact prefix *)
(* of the task's edges (OrdinaryInv, SliceInv, with Reads for its two      *)
(* cursors).  A slot whose worker has returned is Produced; what lies      *)
(* before the window or has been reduced is Settled.  None of this needs   *)
(* the file to be what the builder wrote.                                  *)
(*                                                                         *)
(* While nobody changes tasks.bin more is true (UInv): the task at each    *)
(* index is the one the partition has there, so the cursor stands where    *)
(* the partition says, every check of the code succeeds, and the slices of *)
(* a hub are added up as the partition cuts them.                          *)
(*                                                                         *)
(* The iteration: whatever the checks decide, in either traversal and for  *)
(* every number of iterations, the ranks handed out are those of the last  *)
(* iteration, and the numbers reported belong to them (IterationInv).      *)
(***************************************************************************)
EXTENDS ParallelTraversal, PageRankIteration, WellFoundedInduction, SequenceTheorems, TLAPS
----------------------------------------------------------------------------
(* Numbers.                                                                *)

\* Every non-empty set of naturals has a least element.
LEMMA LeastNumber ==
  ASSUME NEW S, S \subseteq Nat, S # {}
  PROVE  \E k \in S : \A j \in S : k <= j
<1> DEFINE Below == {p \in Nat \X Nat : p[1] < p[2]}
<1>1. IsWellFoundedOn(Below, Nat)
  BY NatLessThanWellFounded DEF OpToRel
<1>2. \E k \in S : \A j \in S : <<j, k>> \notin Below
  BY <1>1, WFMin
<1>3. \A j, k \in S : <<j, k>> \notin Below => k <= j
  OBVIOUS
<1> QED
  BY <1>2, <1>3

----------------------------------------------------------------------------
(* The edges before a destination.                                         *)

\* f gives the number of edges before every destination up to n.
CountsEdges(f, counts, n) ==
  /\ f \in [0 .. n -> Nat]
  /\ f[0] = 0
  /\ \A i \in 1 .. n : f[i] = f[i - 1] + counts[i]

LEMMA EdgeCountsExist ==
  ASSUME NEW counts \in Seq(Nat), NEW n \in 0 .. Len(counts)
  PROVE  \E f : CountsEdges(f, counts, n)
<1> DEFINE S == {j \in Nat : j <= Len(counts) /\ ~\E f : CountsEdges(f, counts, j)}
<1> SUFFICES ASSUME S # {} PROVE FALSE
  OBVIOUS
<1>1. PICK k \in S : \A j \in S : k <= j
  BY LeastNumber
<1>2. k # 0
  <2> DEFINE f == [i \in 0 .. 0 |-> 0]
  <2>1. CountsEdges(f, counts, 0)
    BY DEF CountsEdges
  <2> QED
    BY <1>1, <2>1
<1>3. k - 1 \in Nat /\ k - 1 < k /\ k <= Len(counts)
  BY <1>2
<1>4. PICK f : CountsEdges(f, counts, k - 1)
  <2>1. k - 1 \notin S /\ Len(counts) \in Nat
    BY SMTT(30), <1>1, <1>3
  <2>2. k - 1 <= Len(counts)
    BY <1>3, <2>1
  <2> QED
    BY <1>3, <2>1, <2>2
<1> DEFINE h == [i \in 0 .. k |-> IF i = k THEN f[k - 1] + counts[k] ELSE f[i]]
<1>5. f[k - 1] \in Nat /\ counts[k] \in Nat
  BY <1>2, <1>3, <1>4 DEF CountsEdges
<1>6. h \in [0 .. k -> Nat]
  BY <1>4, <1>5 DEF CountsEdges
<1>7. h[0] = 0
  BY <1>2, <1>4 DEF CountsEdges
<1>8. ASSUME NEW i \in 1 .. k PROVE h[i] = h[i - 1] + counts[i]
  <2>1. CASE i = k
    BY <1>3, <2>1
  <2>2. CASE i # k
    BY <1>3, <1>4, <2>2 DEF CountsEdges
  <2> QED
    BY <2>1, <2>2
<1>9. CountsEdges(h, counts, k)
  BY <1>6, <1>7, <1>8 DEF CountsEdges
<1> QED
  BY <1>9

\* EdgesBefore is the sum of the counts below.
LEMMA EdgesBeforeUnfold ==
  ASSUME NEW counts \in Seq(Nat)
  PROVE  /\ EdgesBefore(counts, 0) = 0
         /\ \A d \in 0 .. Len(counts) : EdgesBefore(counts, d) \in Nat
         /\ \A d \in 0 .. Len(counts) - 1 :
              EdgesBefore(counts, d + 1) = EdgesBefore(counts, d) + counts[d + 1]
<1> DEFINE D(f) == [i \in 0 .. Len(counts) |->
                      IF i = 0 THEN 0 ELSE f[i - 1] + counts[i]]
           before == CHOOSE f : f = D(f)
<1>1. PICK g : CountsEdges(g, counts, Len(counts))
  BY EdgeCountsExist
<1>2. g = D(g)
  BY <1>1 DEF CountsEdges
<1>3. before = D(before)
  BY <1>2
<1>4. \A d : EdgesBefore(counts, d) = before[d]
  BY DEF EdgesBefore
<1> HIDE DEF before
<1>5. /\ before[0] = 0
      /\ \A i \in 1 .. Len(counts) : before[i] = before[i - 1] + counts[i]
  BY <1>3
<1>6. \A d \in 0 .. Len(counts) : before[d] \in Nat
  <2> DEFINE S == {j \in Nat : j <= Len(counts) /\ before[j] \notin Nat}
  <2> SUFFICES ASSUME S # {} PROVE FALSE
    OBVIOUS
  <2>1. PICK k \in S : \A j \in S : k <= j
    BY LeastNumber
  <2>2. k # 0
    BY <1>5, <2>1
  <2>3. k - 1 \in Nat /\ k - 1 < k /\ k <= Len(counts) /\ k \in 1 .. Len(counts)
    BY <2>2
  <2>4. before[k - 1] \in Nat
    BY <2>1, <2>3
  <2>5. counts[k] \in Nat
    BY <2>3
  <2> QED
    BY <1>5, <2>1, <2>3, <2>4, <2>5
<1>7. ASSUME NEW d \in 0 .. Len(counts) - 1
      PROVE  before[d + 1] = before[d] + counts[d + 1]
  <2>1. d + 1 \in 1 .. Len(counts) /\ (d + 1) - 1 = d
    OBVIOUS
  <2> QED
    BY <1>5, <2>1
<1> QED
  BY <1>4, <1>5, <1>6, <1>7

LEMMA EdgesBeforeGrows ==
  ASSUME NEW counts \in Seq(Nat), NEW c \in Nat, NEW d \in 0 .. Len(counts), c <= d
  PROVE  EdgesBefore(counts, c) <= EdgesBefore(counts, d)
<1> DEFINE S == {j \in Nat : /\ c <= j /\ j <= Len(counts)
                             /\ ~(EdgesBefore(counts, c) <= EdgesBefore(counts, j))}
<1> SUFFICES ASSUME S # {} PROVE FALSE
  OBVIOUS
<1>1. PICK k \in S : \A j \in S : k <= j
  BY LeastNumber
<1>2. \A i \in 0 .. Len(counts) : EdgesBefore(counts, i) \in Nat
  BY EdgesBeforeUnfold
<1>3. c \in 0 .. Len(counts) /\ EdgesBefore(counts, c) \in Nat
  BY <1>2
<1>4. k # c
  BY <1>1, <1>3
<1>5. k - 1 \in Nat /\ k - 1 < k /\ c <= k - 1 /\ k <= Len(counts)
      /\ k - 1 \in 0 .. Len(counts) - 1
  BY <1>4
<1>6. EdgesBefore(counts, c) <= EdgesBefore(counts, k - 1)
  BY <1>1, <1>5
<1>7. EdgesBefore(counts, (k - 1) + 1) = EdgesBefore(counts, k - 1) + counts[(k - 1) + 1]
  BY <1>5, EdgesBeforeUnfold
<1>8. (k - 1) + 1 = k /\ counts[k] \in Nat /\ EdgesBefore(counts, k - 1) \in Nat
  BY <1>2, <1>5
<1> QED
  BY <1>1, <1>3, <1>6, <1>7, <1>8

----------------------------------------------------------------------------
(* FlattenSeq.                                                             *)

\* f concatenates the first sequences of seqs, up to the nth.
Flattens(f, seqs, n) ==
  /\ f = [i \in 1 .. n |-> f[i]]
  /\ \A i \in 1 .. n : f[i] = IF i = 1 THEN seqs[i] ELSE f[i - 1] \o seqs[i]

LEMMA FlatteningsAgree ==
  ASSUME NEW m \in Nat, NEW n \in Nat, NEW f, NEW h, NEW seqs, NEW tseqs,
         Flattens(f, seqs, m), Flattens(h, tseqs, n),
         NEW i \in 1 .. m, i <= n, \A j \in 1 .. i : seqs[j] = tseqs[j]
  PROVE  f[i] = h[i]
<1> DEFINE S == {j \in Nat : j >= 1 /\ j <= i /\ f[j] # h[j]}
<1> SUFFICES ASSUME S # {} PROVE FALSE
  OBVIOUS
<1>1. PICK k \in S : \A j \in S : k <= j
  BY LeastNumber
<1>2. k \in 1 .. m /\ k \in 1 .. n /\ k \in 1 .. i /\ f[k] # h[k]
  OBVIOUS
<1>3. k # 1
  BY <1>2 DEF Flattens
<1>4. k - 1 \in Nat /\ k - 1 >= 1 /\ k - 1 <= i /\ k - 1 < k
  BY <1>2, <1>3
<1>5. f[k - 1] = h[k - 1]
  BY <1>1, <1>4
<1>6. f[k] = f[k - 1] \o seqs[k]
  BY <1>2, <1>3 DEF Flattens
<1>7. h[k] = h[k - 1] \o tseqs[k]
  BY <1>2, <1>3 DEF Flattens
<1>8. seqs[k] = tseqs[k]
  BY <1>2
<1> QED
  BY <1>2, <1>5, <1>6, <1>7, <1>8

LEMMA FlatteningExists ==
  ASSUME NEW seqs, NEW n \in Nat
  PROVE  \E f : Flattens(f, seqs, n)
<1> DEFINE S == {j \in Nat : ~\E f : Flattens(f, seqs, j)}
<1> SUFFICES ASSUME S # {} PROVE FALSE
  OBVIOUS
<1>1. PICK k \in S : \A j \in S : k <= j
  BY LeastNumber
<1>2. k # 0
  <2> DEFINE f == [i \in 1 .. 0 |-> <<>>]
  <2>1. Flattens(f, seqs, 0)
    BY DEF Flattens
  <2> QED
    BY <1>1, <2>1
<1>3. k - 1 \in Nat /\ k - 1 < k
  BY <1>2
<1>4. PICK f : Flattens(f, seqs, k - 1)
  BY <1>1, <1>3
<1> DEFINE h == [i \in 1 .. k |->
                   IF i = k THEN IF k = 1 THEN seqs[k] ELSE f[k - 1] \o seqs[k]
                   ELSE f[i]]
<1>5. h = [i \in 1 .. k |-> h[i]]
  OBVIOUS
<1>6. ASSUME NEW i \in 1 .. k
      PROVE  h[i] = IF i = 1 THEN seqs[i] ELSE h[i - 1] \o seqs[i]
  <2>1. CASE i = k /\ k # 1
    <3>1. k - 1 \in 1 .. k /\ k - 1 # k
      BY <2>1
    <3>2. h[k - 1] = f[k - 1]
      BY <3>1
    <3> QED
      BY <2>1, <3>2
  <2>2. CASE i = k /\ k = 1
    BY <2>2
  <2>3. CASE i # k
    <3>1. i \in 1 .. k - 1 /\ (i # 1 => i - 1 \in 1 .. k /\ i - 1 # k)
      BY <1>3, <2>3
    <3>2. h[i] = f[i] /\ (i # 1 => h[i - 1] = f[i - 1])
      BY <2>3, <3>1
    <3>3. f[i] = IF i = 1 THEN seqs[i] ELSE f[i - 1] \o seqs[i]
      BY <1>4, <3>1 DEF Flattens
    <3> QED
      BY <3>2, <3>3
  <2> QED
    BY <2>1, <2>2, <2>3
<1>7. Flattens(h, seqs, k)
  BY <1>5, <1>6 DEF Flattens
<1> QED
  BY <1>7

LEMMA FlattenSeqIs ==
  ASSUME NEW seqs, Len(seqs) \in Nat, Len(seqs) # 0, NEW f,
         Flattens(f, seqs, Len(seqs))
  PROVE  FlattenSeq(seqs) = f[Len(seqs)]
<1> DEFINE D(h) == [i \in 1 .. Len(seqs) |->
                      IF i = 1 THEN seqs[i] ELSE h[i - 1] \o seqs[i]]
           flatten == CHOOSE h : h = D(h)
<1>1. f = D(f)
  BY DEF Flattens
<1>2. flatten = D(flatten)
  BY <1>1
<1>3. FlattenSeq(seqs) = flatten[Len(seqs)]
  BY DEF FlattenSeq
<1> HIDE DEF flatten
<1>4. Flattens(flatten, seqs, Len(seqs))
  BY <1>2 DEF Flattens
<1> QED
  BY <1>3, <1>4, FlatteningsAgree

LEMMA FlattenEmpty == FlattenSeq(<<>>) = <<>>
BY DEF FlattenSeq

LEMMA FlattenOne ==
  ASSUME NEW x PROVE FlattenSeq(<<x>>) = x
<1> DEFINE seqs == <<x>>
           f == [i \in 1 .. 1 |-> x]
<1>1. Len(seqs) = 1 /\ seqs[1] = x
  OBVIOUS
<1>2. Flattens(f, seqs, 1)
  BY <1>1 DEF Flattens
<1>3. f[1] = x
  OBVIOUS
<1> HIDE DEF seqs, f
<1>4. Len(seqs) \in Nat /\ Len(seqs) # 0 /\ Flattens(f, seqs, Len(seqs))
  BY <1>1, <1>2
<1>5. FlattenSeq(seqs) = f[Len(seqs)]
  BY <1>4, FlattenSeqIs
<1> QED
  BY <1>1, <1>3, <1>5 DEF seqs

\* One sequence more is appended to the flattened ones.
LEMMA FlattenAppend ==
  ASSUME NEW T, NEW seqs \in Seq(Seq(T)), NEW x \in Seq(T)
  PROVE  FlattenSeq(Append(seqs, x)) = FlattenSeq(seqs) \o x
<1> DEFINE n == Len(seqs)
           more == Append(seqs, x)
<1>1. n \in Nat /\ Len(more) = n + 1 /\ more[n + 1] = x
      /\ \A i \in 1 .. n : more[i] = seqs[i]
  BY AppendProperties
<1> HIDE DEF more
<1>2. PICK f : Flattens(f, more, n + 1)
  <2>1. n + 1 \in Nat
    BY <1>1
  <2> HIDE DEF n
  <2> QED
    BY <2>1, FlatteningExists
<1>3. FlattenSeq(more) = f[n + 1]
  BY <1>1, <1>2, FlattenSeqIs
<1>4. CASE n = 0
  <2>1. f[n + 1] = x
    BY <1>1, <1>2, <1>4 DEF Flattens
  <2>2. seqs = <<>>
    BY <1>4
  <2> QED
    BY <1>3, <2>1, <2>2, FlattenEmpty DEF more
<1>5. CASE n # 0
  <2>1. n + 1 \in 1 .. n + 1 /\ n + 1 # 1 /\ (n + 1) - 1 = n
    BY <1>1, <1>5
  <2>2. f[n + 1] = f[n] \o x
    BY <1>1, <1>2, <2>1 DEF Flattens
  <2>3. PICK h : Flattens(h, seqs, n)
    BY <1>1, FlatteningExists
  <2>4. FlattenSeq(seqs) = h[n]
    BY <1>1, <1>5, <2>3, FlattenSeqIs
  <2>5. n \in 1 .. n + 1 /\ n <= n /\ n + 1 \in Nat
    BY <1>1, <1>5
  <2>6. f[n] = h[n]
    <3> HIDE DEF n
    <3> QED
      BY <1>1, <1>2, <2>3, <2>5, FlatteningsAgree
  <2> QED
    BY <1>3, <2>2, <2>4, <2>6 DEF more
<1> QED
  BY <1>4, <1>5

\* The edges before a destination, and some terms of this pass.
E(d) == EdgesBefore(Counts, d)
TermsFrom(first, n) == [i \in 1 .. n |-> <<pass, first + i - 1>>]

----------------------------------------------------------------------------
(* The structural cursor before a task, and after it.                      *)

HubGroup(destination, slice_count, next_slice) ==
  [destination |-> destination, slice_count |-> slice_count,
   next_slice |-> next_slice]

CursorAt(t) ==
  [next_destination |-> t.a, next_edge |-> t.edge_begin,
   hub |-> IF t.tag = "hub_slice" /\ t.b > 0
           THEN HubGroup(t.a, t.c, t.b) ELSE NoHubGroup]

After(t) ==
  [next_destination |-> NextDestination(t),
   next_edge |-> t.edge_begin + t.edge_count,
   hub |-> IF t.tag = "hub_slice" /\ t.b + 1 # t.c
           THEN HubGroup(t.a, t.c, t.b + 1) ELSE NoHubGroup]

\* A task that covers something.
Shaped(t) == IF t.tag = "ordinary" THEN t.b > 0 ELSE t.b < t.c

\* A task inside the graph: what validate_task checks of one task alone.
Bounded(t) ==
  /\ t.edge_begin + t.edge_count <= edge_count
  /\ t.tag = "ordinary" => t.a + t.b <= vertex_count

----------------------------------------------------------------------------
(* The invariant.                                                          *)

Term == Nat \X Nat
Cursors ==
  [next_destination : Nat, next_edge : Nat,
   hub : [destination : Int, slice_count : Int, next_slice : Int]]
Hubs ==
  [destination : Int, slice_count : Int, next_slice : Int,
   expected_edges : Int, covered_edges : Int, incoming_sum : Seq(Seq(Term))]
Ranges == [begin : Nat, count : Nat, position : Nat, at : Nat, held : Nat]

\* The workers' memory has its types.
WorkerTyped ==
  /\ job \in [Workers -> 0 .. WindowRecords]
  /\ consumed \in [Workers -> Nat] /\ left \in [Workers -> Nat]
  /\ sum \in [Workers -> Seq(Term)]
  /\ countCursor \in [Workers -> Ranges] /\ sourceCursor \in [Workers -> Ranges]
  /\ countBuffer \in [Workers -> [1 .. CountBatch -> Nat]]
  /\ sourceBuffer \in [Workers -> [1 .. SourceBatch -> Nat]]

Typed ==
  /\ place \in {"idle", "check", "read", "validate", "wave", "reduce",
                "complete", "failed"}
  /\ pass \in Nat /\ task_index \in Nat /\ slot \in Nat
  /\ window \in Seq(TaskRecord)
  /\ structure \in Cursors /\ reduction \in Hubs
  /\ output \in [Vertices -> Seq(Seq(Term))]
  /\ partials \in [Slots -> Seq(Term)]
  /\ ran \in [Slots -> {0, 1}]

\* How much of the window has been validated.
Validated == IF place = "validate" THEN slot ELSE Len(window)
InWindow  == place \in {"validate", "wave", "reduce"}

\* What was validated is a chain of tasks inside the graph, and the structural
\* cursor stands behind it.
WindowInv ==
  /\ place \in {"check", "read"} => task_index <= task_count
  /\ place = "read" => task_index < task_count
  /\ structure.hub # NoHubGroup =>
       /\ structure.hub.destination = structure.next_destination
       /\ structure.hub.next_slice > 0
  /\ InWindow =>
       /\ Len(window) \in 1 .. WindowRecords
       /\ task_index + Len(window) <= task_count /\ slot <= Len(window)
       /\ \A i \in 1 .. Len(window) : Shaped(window[i])
       /\ \A i \in 1 .. Validated :
            /\ Bounded(window[i])
            /\ NextDestination(window[i]) <= structure.next_destination
       /\ \A i, j \in 1 .. Validated :
            i < j => NextDestination(window[i]) <= window[j].a
       /\ \A i \in 1 .. Validated - 1 : After(window[i]) = CursorAt(window[i + 1])
       /\ Validated > 0 => After(window[Validated]) = structure

\* Who runs what: a job of this window, and nobody else's.
WaveInv ==
  /\ \A w \in Workers :
       Running(w) => place = "wave" /\ job[w] < Len(window) /\ ran[job[w]] = 1
  /\ \A v, w \in Workers : v # w /\ Running(v) => job[v] # job[w]
  /\ place = "wave" =>
       /\ jobs = Len(window)
       /\ \A j \in 0 .. Len(window) - 1 : Contradicts(Task(j)) => j \in throwing

\* The first n destinations of an ordinary task have their sums, and a job has
\* produced all it has to.
ProducedTo(t, n) ==
  \A k \in 0 .. n - 1 :
    output[t.a + k] =
      <<TermsFrom(t.edge_begin + E(t.a + k) - E(t.a), Counts[t.a + k + 1])>>
Produced(j) ==
  IF Task(j).tag = "hub_slice"
  THEN partials[j] = TermsFrom(Task(j).edge_begin, Task(j).edge_count)
  ELSE ProducedTo(Task(j), Task(j).b)

WorkInv ==
  /\ place = "wave" =>
       \A j \in 0 .. Len(window) - 1 :
         ran[j] = 1 /\ j \notin throwing /\ (\A w \in Workers : job[w] # j) =>
           Produced(j)
  /\ place = "reduce" =>
       \A j \in slot .. Len(window) - 1 : Produced(j) /\ ~Contradicts(Task(j))

\* A cursor into a file: what its buffer holds ahead is what the file holds.
Reads(cursor, buffer, file, batch) ==
  /\ cursor.begin + cursor.count <= Len(file) /\ cursor.position <= cursor.count
  /\ cursor.at <= cursor.held /\ cursor.held <= batch
  /\ cursor.position + (cursor.held - cursor.at) <= cursor.count
  /\ \A i \in 1 .. cursor.held - cursor.at :
       buffer[cursor.at + i] = file[cursor.begin + cursor.position + i]

\* How far a worker is with its task.
SliceInv(w) ==
  LET t == MyTask(w) IN
  /\ left[w] + sourceCursor[w].position = t.edge_count
  /\ sum[w] = TermsFrom(t.edge_begin, sourceCursor[w].position)

OrdinaryInv(w) ==
  LET t == MyTask(w)
      p == countCursor[w].position IN
  /\ Reads(countCursor[w], countBuffer[w], Counts, CountBatch)
  /\ countCursor[w].begin = t.a /\ countCursor[w].count = t.b
  /\ consumed[w] = E(t.a + p) - E(t.a) /\ consumed[w] <= t.edge_count
  /\ sourceCursor[w].position + left[w] = consumed[w]
  /\ ProducedTo(t, p - 1)
  /\ p = 0 => left[w] = 0
  /\ p > 0 =>
       /\ left[w] <= Counts[t.a + p]
       /\ sum[w] = TermsFrom(t.edge_begin + E(t.a + p - 1) - E(t.a),
                             Counts[t.a + p] - left[w])

JobOk(w) ==
  /\ Reads(sourceCursor[w], sourceBuffer[w], Sources, SourceBatch)
  /\ sourceCursor[w].begin = MyTask(w).edge_begin
  /\ sourceCursor[w].count = MyTask(w).edge_count
  /\ IF MyTask(w).tag = "hub_slice" THEN SliceInv(w) ELSE OrdinaryInv(w)

JobInv == \A w \in Workers : Running(w) => JobOk(w)

\* The place up to which the pass is settled: where the reduction stands, or
\* where the window begins.
Frontier ==
  IF place = "reduce" /\ slot < Len(window) THEN CursorAt(window[slot + 1])
  ELSE IF place \in {"validate", "wave"} /\ Validated > 0 THEN CursorAt(window[1])
  ELSE structure

Whole(d) == FlattenSeq(output[d]) = Terms(d)

\* Every destination below has its whole sum, and the open hub the sum of
\* the edges up to there.
Settled(front) ==
  /\ front.next_destination <= vertex_count
  /\ \A d \in 0 .. front.next_destination - 1 : Whole(d)
  /\ front.hub = NoHubGroup =>
       reduction = NoHub /\ front.next_edge = E(front.next_destination)
  /\ front.hub # NoHubGroup =>
       /\ front.next_destination < vertex_count
       /\ reduction # NoHub
       /\ reduction.destination = front.next_destination
       /\ reduction.slice_count = front.hub.slice_count
       /\ reduction.next_slice = front.hub.next_slice
       /\ reduction.expected_edges = Counts[front.next_destination + 1]
       /\ reduction.covered_edges = front.next_edge - E(front.next_destination)
       /\ reduction.covered_edges \in 0 .. reduction.expected_edges
       /\ FlattenSeq(reduction.incoming_sum)
            = TermsFrom(E(front.next_destination), reduction.covered_edges)

SettledInv ==
  /\ place \notin {"idle", "failed"} => Settled(Frontier)
  /\ place = "complete" => Covered

IInv ==
  /\ Typed /\ WorkerTyped /\ WindowInv /\ WaveInv /\ WorkInv /\ JobInv /\ SettledInv

----------------------------------------------------------------------------
(* Facts about the definitions.                                            *)

LEMMA TraversalConstants ==
  /\ Counts \in Seq(Nat) /\ vertex_count \in Nat /\ vertex_count = Len(Counts)
  /\ Stored \in Seq(TaskRecord) /\ task_count \in Nat
  /\ WindowRecords \in Nat /\ WindowRecords > 0
  /\ CountBatch \in Nat /\ CountBatch > 0 /\ SourceBatch \in Nat /\ SourceBatch > 0
  /\ edge_count \in Nat
<1>1. Counts \in Seq(Nat) /\ Stored \in Seq(TaskRecord)
  BY TraversalAssumption
<1>2. edge_count \in Nat
  BY <1>1, EdgesBeforeUnfold DEF edge_count
<1> QED
  BY <1>1, <1>2, TraversalAssumption DEF vertex_count, task_count

LEMMA Sizes ==
  /\ vertex_count \in Nat /\ edge_count \in Nat /\ task_count \in Nat
  /\ WindowRecords \in Nat /\ WindowRecords > 0
  /\ CountBatch \in Nat /\ CountBatch > 0 /\ SourceBatch \in Nat /\ SourceBatch > 0
BY TraversalConstants

LEMMA EdgesOfGraph ==
  /\ E(0) = 0 /\ E(vertex_count) = edge_count
  /\ \A d \in 0 .. vertex_count : E(d) \in Nat
  /\ \A d \in 0 .. vertex_count - 1 :
       Counts[d + 1] \in Nat /\ E(d + 1) = E(d) + Counts[d + 1]
  /\ \A c, d \in 0 .. vertex_count : c <= d => E(c) <= E(d)
<1>1. Counts \in Seq(Nat) /\ vertex_count = Len(Counts) /\ vertex_count \in Nat
  BY TraversalConstants
<1>2. /\ E(0) = 0
      /\ \A d \in 0 .. vertex_count : E(d) \in Nat
      /\ \A d \in 0 .. vertex_count - 1 : E(d + 1) = E(d) + Counts[d + 1]
  BY <1>1, EdgesBeforeUnfold DEF E
<1>3. \A d \in 0 .. vertex_count - 1 : Counts[d + 1] \in Nat
  BY <1>1
<1>4. \A c, d \in 0 .. vertex_count : c <= d => E(c) <= E(d)
  BY <1>1, EdgesBeforeGrows DEF E
<1> QED
  BY <1>1, <1>2, <1>3, <1>4 DEF E, edge_count

LEMMA EdgesOfDestination ==
  ASSUME NEW d \in Nat, d < vertex_count
  PROVE  /\ d \in Vertices /\ d \in 0 .. vertex_count /\ d + 1 \in 0 .. vertex_count
         /\ E(d) \in Nat /\ E(d + 1) \in Nat /\ Counts[d + 1] \in Nat
         /\ E(d + 1) = E(d) + Counts[d + 1]
<1>1. vertex_count \in Nat
  BY TraversalConstants
<1>2. d \in Vertices /\ d \in 0 .. vertex_count /\ d + 1 \in 0 .. vertex_count
      /\ d \in 0 .. vertex_count - 1
  BY <1>1 DEF Vertices
<1> QED
  BY <1>2, EdgesOfGraph

LEMMA VerticesAre ==
  /\ vertex_count \in Nat
  /\ \A d : d \in Vertices <=> d \in Nat /\ d < vertex_count
<1>1. vertex_count \in Nat
  BY TraversalConstants
<1> QED
  BY <1>1 DEF Vertices

\* Some terms, and some more.
LEMMA TermsAppend ==
  ASSUME NEW first \in Nat, NEW n \in Nat
  PROVE  Append(TermsFrom(first, n), <<pass, first + n>>) = TermsFrom(first, n + 1)
<1>1. (n + 1) - 1 = n /\ first + (n + 1) - 1 = first + n
  OBVIOUS
<1> QED
  BY <1>1 DEF TermsFrom

LEMMA TermsConcat ==
  ASSUME NEW first \in Nat, NEW n \in Nat, NEW m \in Nat
  PROVE  TermsFrom(first, n) \o TermsFrom(first + n, m) = TermsFrom(first, n + m)
BY SMTT(30) DEF TermsFrom

LEMMA TermsTyped ==
  ASSUME pass \in Nat, NEW first \in Nat, NEW n \in Nat
  PROVE  TermsFrom(first, n) \in Seq(Term)
<1>1. \A i \in 1 .. n : first + i - 1 \in Nat
  OBVIOUS
<1> QED
  BY <1>1 DEF TermsFrom, Term

LEMMA WholeTerms ==
  ASSUME NEW d \in Vertices PROVE Terms(d) = TermsFrom(E(d), Counts[d + 1])
BY DEF Terms, TermsFrom, E

LEMMA RecordTyped ==
  ASSUME NEW t \in TaskRecord
  PROVE  /\ t.tag \in {"ordinary", "hub_slice"} /\ t.a \in Nat /\ t.b \in Nat
         /\ t.c \in Nat /\ t.edge_begin \in Nat /\ t.edge_count \in Nat
         /\ NextDestination(t) \in Nat
BY DEF TaskRecord, NextDestination

\* A task that validate_task lets through begins where the structural cursor
\* stands, and the cursor moves behind it.
LEMMA ValidTask ==
  ASSUME Typed, NEW t \in TaskRecord, Shaped(t), Valid(t),
         structure.hub # NoHubGroup =>
           /\ structure.hub.destination = structure.next_destination
           /\ structure.hub.next_slice > 0
  PROVE  /\ structure = CursorAt(t) /\ Beyond(t) = After(t) /\ Bounded(t)
         /\ After(t) \in Cursors
         /\ NextDestination(t) \in Nat /\ t.a <= NextDestination(t)
         /\ After(t).hub # NoHubGroup =>
              /\ After(t).hub.destination = After(t).next_destination
              /\ After(t).hub.next_slice > 0
<1>1. /\ t.tag \in {"ordinary", "hub_slice"} /\ t.a \in Nat /\ t.b \in Nat
      /\ t.c \in Nat /\ t.edge_begin \in Nat /\ t.edge_count \in Nat
  BY DEF TaskRecord
<1>2. /\ structure.next_destination \in Nat /\ structure.next_edge \in Nat
      /\ structure.hub \in [destination : Int, slice_count : Int, next_slice : Int]
      /\ structure = [next_destination |-> structure.next_destination,
                      next_edge |-> structure.next_edge, hub |-> structure.hub]
  BY DEF Typed, Cursors
<1>3. t.edge_begin = structure.next_edge /\ Bounded(t)
  BY SMTT(30), <1>1, <1>2, TraversalConstants DEF Valid, Bounded
<1>4. CASE t.tag = "ordinary"
  <2>1. structure.hub = NoHubGroup /\ t.a = structure.next_destination /\ t.b > 0
    BY <1>4 DEF Valid, Shaped
  <2>2. structure = CursorAt(t)
    BY <1>2, <1>3, <1>4, <2>1 DEF CursorAt
  <2>3. NextDestination(t) = t.a + t.b /\ After(t).hub = NoHubGroup
    BY <1>4 DEF NextDestination, After
  <2>4. Beyond(t) = After(t)
    BY <1>3, <1>4, <2>1 DEF Beyond, After, NextDestination
  <2>5. After(t) \in Cursors
    BY <1>1, <1>4, <2>3 DEF After, Cursors, NoHubGroup
  <2> QED
    BY <1>1, <1>3, <2>2, <2>3, <2>4, <2>5
<1>5. CASE t.tag = "hub_slice"
  <2>1. t.a = structure.next_destination
    <3>1. CASE structure.hub = NoHubGroup
      BY <1>5, <3>1 DEF Valid
    <3>2. CASE structure.hub # NoHubGroup
      BY <1>5, <3>2 DEF Valid, GroupOf
    <3> QED
      BY <3>1, <3>2
  <2>2. structure.hub = IF t.b > 0 THEN HubGroup(t.a, t.c, t.b) ELSE NoHubGroup
    <3>1. CASE structure.hub = NoHubGroup
      BY <1>5, <3>1 DEF Valid
    <3>2. CASE structure.hub # NoHubGroup
      BY <1>2, <1>5, <3>2 DEF Valid, GroupOf, HubGroup
    <3> QED
      BY <3>1, <3>2
  <2>3. structure = CursorAt(t)
    BY <1>1, <1>2, <1>3, <1>5, <2>1, <2>2 DEF CursorAt
  <2>4. GroupOf(t) = HubGroup(t.a, t.c, t.b)
    <3>1. CASE structure.hub = NoHubGroup
      BY <1>5, <3>1 DEF Valid, GroupOf, HubGroup
    <3>2. CASE structure.hub # NoHubGroup
      BY <1>2, <1>5, <3>2 DEF Valid, GroupOf, HubGroup
    <3> QED
      BY <3>1, <3>2
  <2>5. [GroupOf(t) EXCEPT !.next_slice = @ + 1] = HubGroup(t.a, t.c, t.b + 1)
    BY <2>4 DEF HubGroup
  <2>6. Beyond(t) = After(t)
    BY <1>3, <1>5, <2>1, <2>5 DEF Beyond, After, NextDestination, HubGroup
  <2>7. NextDestination(t) \in Nat /\ t.a <= NextDestination(t)
    BY <1>1, <1>5 DEF NextDestination
  <2>8. After(t) \in Cursors
    BY <1>1, <1>5, <2>7 DEF After, Cursors, NoHubGroup, HubGroup
  <2>9. After(t).hub # NoHubGroup =>
          /\ After(t).hub.destination = After(t).next_destination
          /\ After(t).hub.next_slice > 0
    BY <1>1, <1>5 DEF After, HubGroup, NextDestination
  <2> QED
    BY <1>3, <2>3, <2>6, <2>7, <2>8, <2>9
<1> QED
  BY <1>1, <1>4, <1>5

\* Nobody runs a job outside a wave.
LEMMA NobodyRuns ==
  ASSUME IInv, place # "wave", place' # "wave", UNCHANGED jobVars
  PROVE  WorkerTyped' /\ WaveInv' /\ JobInv'
<1>1. /\ UNCHANGED <<job, consumed, left, sum, countCursor, sourceCursor,
                     countBuffer, sourceBuffer>>
  BY DEF jobVars, cursorVars
<1>2. \A w \in Workers : ~Running(w) /\ ~Running(w)'
  BY <1>1 DEF IInv, WaveInv, Running
<1>3. WorkerTyped'
  BY <1>1 DEF IInv, WorkerTyped
<1>4. WaveInv'
  BY <1>1, <1>2 DEF WaveInv
<1>5. JobInv'
  BY <1>2 DEF JobInv
<1> QED
  BY <1>3, <1>4, <1>5

\* Nothing that the invariant speaks of changes.
LEMMA Unaffected ==
  ASSUME IInv, UNCHANGED <<place, pass, task_index, window, slot, structure,
                           reduction, output, partials, jobs, throwing, ran,
                           jobVars>>
  PROVE  IInv'
<1>1. UNCHANGED <<job, consumed, left, sum, countCursor, sourceCursor,
                  countBuffer, sourceBuffer>>
  BY DEF jobVars, cursorVars
<1>2. Typed' /\ WorkerTyped'
  BY <1>1 DEF IInv, Typed, WorkerTyped
<1>3. WindowInv'
  BY <1>1 DEF IInv, WindowInv, InWindow, Validated
<1>4. WaveInv'
  BY <1>1 DEF IInv, WaveInv, Running, Task
<1>5. /\ \A first, n : TermsFrom(first, n)' = TermsFrom(first, n)
      /\ \A j : Task(j)' = Task(j)
  BY DEF TermsFrom, Task
<1>6. \A t, n : ProducedTo(t, n)' <=> ProducedTo(t, n)
  BY <1>5 DEF ProducedTo, TermsFrom
<1>7. \A j : Produced(j)' <=> Produced(j)
  BY <1>5, <1>6 DEF Produced, Task, TermsFrom, ProducedTo
<1>8. WorkInv'
  BY <1>1, <1>5, <1>7 DEF IInv, WorkInv, Task
<1>9. JobInv'
  <2>1. \A w : /\ MyTask(w)' = MyTask(w) /\ Running(w)' = Running(w)
               /\ SliceInv(w)' = SliceInv(w)
    BY <1>1, <1>5 DEF MyTask, Running, SliceInv, Task, TermsFrom
  <2>2. \A w : OrdinaryInv(w)' = OrdinaryInv(w)
    BY <1>1, <1>5, <1>6, <2>1 DEF OrdinaryInv, MyTask, Task, TermsFrom, ProducedTo
  <2> QED
    BY <1>1, <1>5, <2>1, <2>2 DEF IInv, JobInv, JobOk
<1>10. SettledInv'
  BY <1>1
  DEF IInv, SettledInv, Settled, Frontier, Validated, Covered, Whole, Terms,
      TermsFrom
<1> QED
  BY <1>2, <1>3, <1>4, <1>8, <1>9, <1>10 DEF IInv

----------------------------------------------------------------------------
(* The steps of the coordinator between waves.                             *)

\* What is settled stays settled while the frontier does not move.
LEMMA SettledStays ==
  ASSUME NEW f, Settled(f), UNCHANGED <<pass, output, reduction>>, Frontier' = f
  PROVE  Settled(Frontier)'
<1>1. \A d : Whole(d)' <=> Whole(d)
  BY DEF Whole, Terms
<1>2. \A first, n : TermsFrom(first, n)' = TermsFrom(first, n)
  BY DEF TermsFrom
<1> QED
  BY <1>1, <1>2 DEF Settled

LEMMA EndsInFailure ==
  ASSUME IInv, place # "wave", place' = "failed",
         UNCHANGED <<pass, task_index, window, slot, structure, reduction,
                     output, partials, ran, jobVars>>
  PROVE  IInv'
<1>1. WorkerTyped' /\ WaveInv' /\ JobInv'
  BY NobodyRuns
<1>2. Typed'
  BY DEF IInv, Typed
<1>3. WindowInv' /\ WorkInv' /\ SettledInv'
  BY DEF IInv, WindowInv, WorkInv, SettledInv, InWindow
<1> QED
  BY <1>1, <1>2, <1>3 DEF IInv

LEMMA BeginPassKeeps ==
  ASSUME IInv, BeginPass
  PROVE  IInv'
<1>1. /\ place # "wave" /\ place' \in {"check", "failed"}
      /\ pass' = pass + 1 /\ task_index' = 0 /\ structure' = Start
      /\ reduction' = NoHub /\ UNCHANGED <<window, slot, output, partials, jobVars>>
  BY DEF BeginPass, Goto
<1>2. UNCHANGED ran
  BY DEF BeginPass, waveVars, Wave!Build
<1>3. WorkerTyped' /\ WaveInv' /\ JobInv'
  BY <1>1, NobodyRuns
<1>4. Start \in Cursors /\ NoHub \in Hubs
  <2>1. <<>> \in Seq(Seq(Term))
    OBVIOUS
  <2> QED
    BY <2>1 DEF Start, NoHub, NoHubGroup, Cursors, Hubs
<1>5. Typed'
  BY <1>1, <1>2, <1>4 DEF IInv, Typed
<1>6. WindowInv' /\ WorkInv'
  BY <1>1, TraversalConstants DEF WindowInv, WorkInv, InWindow, Start
<1>7. SettledInv'
  <2>1. Frontier' = Start
    BY <1>1 DEF Frontier
  <2>2. Settled(Frontier)'
    BY <1>1, <2>1, TraversalConstants, EdgesOfGraph DEF Settled, Start
  <2> QED
    BY <1>1, <2>2 DEF SettledInv
<1> QED
  BY <1>3, <1>5, <1>6, <1>7 DEF IInv

LEMMA CheckKeeps ==
  ASSUME IInv, Check
  PROVE  IInv'
<1>1. /\ place = "check" /\ task_index < task_count /\ place' \in {"failed", "read"}
      /\ UNCHANGED <<pass, task_index, window, slot, structure, reduction, output,
                     partials, ran, jobVars>>
  BY DEF Check, Goto, passVars, hubVars, waveVars
<1>2. WorkerTyped' /\ WaveInv' /\ JobInv'
  BY <1>1, NobodyRuns
<1>3. Typed'
  BY <1>1 DEF IInv, Typed
<1>4. WindowInv' /\ WorkInv'
  BY <1>1 DEF IInv, WindowInv, WorkInv, InWindow
<1>5. SettledInv'
  <2>1. Settled(structure) /\ Frontier' = structure
    BY <1>1 DEF IInv, SettledInv, Frontier
  <2> QED
    BY <1>1, <2>1, SettledStays DEF SettledInv
<1> QED
  BY <1>2, <1>3, <1>4, <1>5 DEF IInv

\* Whatever tasks.bin was changed to, its records are well-formed.
LEMMA ContentShape ==
  ASSUME NEW content \in Rewrites \union {Stored}
  PROVE  /\ content \in Seq(TaskRecord) /\ Len(content) = task_count
         /\ \A i \in 1 .. Len(content) : Shaped(content[i])
<1>1. CASE content = Stored
  <2>1. content \in Seq(TaskRecord) /\ Len(content) = task_count
    BY <1>1, TraversalConstants DEF task_count
  <2>2. ASSUME NEW i \in 1 .. Len(content) PROVE Shaped(content[i])
    <3>1. i \in DOMAIN Stored /\ RightTask(Counts, Stored[i]) /\ Stored[i] \in TaskRecord
      BY <1>1, <2>1, TraversalAssumption DEF IsCanonical, IsCanonicalPrefix
    <3> QED
      BY <1>1, <3>1 DEF RightTask, RightOrdinary, RightSlice, Shaped, TaskRecord
  <2> QED
    BY <2>1, <2>2
<1>2. CASE content \in Rewrites
  <2>1. content \in Seq(TaskRecord) /\ Len(content) = task_count
    BY <1>2, TraversalAssumption
  <2>2. ASSUME NEW i \in 1 .. Len(content) PROVE Shaped(content[i])
    <3>1. WellFormed(content[i]) /\ content[i] \in TaskRecord
      BY <1>2, <2>1, TraversalAssumption
    <3> QED
      BY <3>1 DEF WellFormed, Shaped, TaskRecord
  <2> QED
    BY <2>1, <2>2
<1> QED
  BY <1>1, <1>2

LEMMA ReadWindowKeeps ==
  ASSUME IInv, ReadWindow
  PROVE  IInv'
<1> DEFINE last == Smaller(task_count, task_index + WindowRecords)
<1>1. PICK content \in Rewrites \union {Stored} :
        window' = SubSeq(content, task_index + 1, last)
  BY DEF ReadWindow
<1>2. /\ place = "read" /\ place' = "validate" /\ slot' = 0
      /\ UNCHANGED <<pass, task_index, structure, reduction, output, partials, ran,
                     jobVars>>
  BY DEF ReadWindow, Goto, waveVars
<1>3. /\ content \in Seq(TaskRecord) /\ Len(content) = task_count
      /\ \A i \in 1 .. Len(content) : Shaped(content[i])
  BY ContentShape
<1>4. task_index \in Nat /\ task_index < task_count
  BY <1>2 DEF IInv, Typed, WindowInv
<1>5. last \in Nat /\ last <= task_count /\ task_index < last
      /\ last - task_index <= WindowRecords
  BY <1>4, TraversalConstants DEF Smaller
<1> HIDE DEF last
<1>6. /\ window' \in Seq(TaskRecord) /\ Len(window') = last - task_index
      /\ \A i \in 1 .. last - task_index : window'[i] = content[task_index + i]
  <2>1. \A i \in task_index + 1 .. last : content[i] \in TaskRecord
    BY <1>3, <1>4, <1>5
  <2> QED
    BY <1>1, <1>3, <1>4, <1>5, <2>1
<1>7. WorkerTyped' /\ WaveInv' /\ JobInv'
  BY <1>2, NobodyRuns
<1>8. Typed'
  BY <1>2, <1>6 DEF IInv, Typed
<1>9. WindowInv'
  <2>1. Validated' = 0
    BY <1>2 DEF Validated
  <2>2. \A i \in 1 .. Len(window') : Shaped(window'[i])
    BY <1>3, <1>4, <1>5, <1>6
  <2>3. Len(window') \in 1 .. WindowRecords /\ task_index + Len(window') <= task_count
    BY <1>4, <1>5, <1>6, TraversalConstants
  <2> QED
    BY <1>2, <2>1, <2>2, <2>3 DEF IInv, WindowInv
<1>10. WorkInv'
  BY <1>2 DEF WorkInv
<1>11. SettledInv'
  <2>1. Settled(structure) /\ Frontier' = structure
    BY <1>2 DEF IInv, SettledInv, Frontier, Validated
  <2> QED
    BY <1>2, <2>1, SettledStays DEF SettledInv
<1> QED
  BY <1>7, <1>8, <1>9, <1>10, <1>11 DEF IInv

LEMMA ReadFailsKeeps ==
  ASSUME IInv, ReadFails
  PROVE  IInv'
<1>1. /\ place # "wave" /\ place' = "failed"
      /\ UNCHANGED <<pass, task_index, window, slot, structure, reduction,
                     output, partials, ran, jobVars>>
  BY DEF ReadFails, Goto, passVars, hubVars, waveVars
<1> QED
  BY <1>1, EndsInFailure

LEMMA ValidateTaskKeeps ==
  ASSUME IInv, ValidateTask
  PROVE  IInv'
<1> DEFINE t == window[slot + 1]
<1>1. /\ place = "validate" /\ slot < Len(window)
      /\ UNCHANGED <<pass, task_index, window, reduction, output, partials, ran,
                     jobVars>>
  BY DEF ValidateTask, waveVars
<1>2. CASE ~Valid(t)
  <2>1. place' = "failed" /\ UNCHANGED <<structure, slot>>
    BY <1>2 DEF ValidateTask, Goto, Task
  <2> QED
    BY <1>1, <2>1, EndsInFailure
<1>3. CASE Valid(t)
  <2>1. place' = "validate" /\ structure' = Beyond(t) /\ slot' = slot + 1
    BY <1>1, <1>3 DEF ValidateTask, Task
  <2>2. slot \in Nat /\ Len(window) \in Nat /\ window \in Seq(TaskRecord)
        /\ slot + 1 \in 1 .. Len(window)
    BY <1>1 DEF IInv, Typed
  <2>3. t \in TaskRecord /\ Shaped(t)
    BY <1>1, <2>2 DEF IInv, WindowInv, InWindow
  <2>4. structure.hub # NoHubGroup =>
          /\ structure.hub.destination = structure.next_destination
          /\ structure.hub.next_slice > 0
    BY DEF IInv, WindowInv
  <2>5. /\ structure = CursorAt(t) /\ structure' = After(t) /\ Bounded(t)
        /\ structure' \in Cursors
        /\ NextDestination(t) \in Nat /\ t.a <= NextDestination(t)
        /\ structure'.hub # NoHubGroup =>
             /\ structure'.hub.destination = structure'.next_destination
             /\ structure'.hub.next_slice > 0
    <3> HIDE DEF t
    <3>1. Typed
      BY DEF IInv
    <3> QED
      BY <1>3, <2>1, <2>3, <2>4, <3>1, ValidTask
  <2>6. WorkerTyped' /\ WaveInv' /\ JobInv'
    BY <1>1, <2>1, NobodyRuns
  <2>7. Typed'
    BY <1>1, <2>1, <2>2, <2>5 DEF IInv, Typed
  <2>8. WindowInv'
    <3>1. Validated = slot /\ Validated' = slot + 1
      BY <1>1, <2>1 DEF Validated
    <3>2. structure.next_destination = t.a
          /\ structure'.next_destination = NextDestination(t)
      BY <2>5 DEF CursorAt, After
    <3>3. /\ Len(window) \in 1 .. WindowRecords
          /\ task_index + Len(window) <= task_count
          /\ \A i \in 1 .. Len(window) : Shaped(window[i])
      BY <1>1 DEF IInv, WindowInv, InWindow
    <3>4. /\ \A i \in 1 .. slot :
               /\ Bounded(window[i])
               /\ NextDestination(window[i]) <= structure.next_destination
          /\ \A i, j \in 1 .. slot :
               i < j => NextDestination(window[i]) <= window[j].a
          /\ \A i \in 1 .. slot - 1 : After(window[i]) = CursorAt(window[i + 1])
          /\ slot > 0 => After(window[slot]) = structure
      BY <1>1, <3>1 DEF IInv, WindowInv, InWindow
    <3>5. \A i \in 1 .. slot : NextDestination(window[i]) \in Nat
      <4>1. \A i \in 1 .. slot : window[i] \in TaskRecord
        BY <2>2
      <4> QED
        BY <4>1, RecordTyped
    <3>6. t.a \in Nat
      BY <2>3 DEF TaskRecord
    <3>7. ASSUME NEW i \in 1 .. slot + 1
          PROVE  /\ Bounded(window[i])
                 /\ NextDestination(window[i]) <= NextDestination(t)
      <4>1. CASE i = slot + 1
        BY <2>5, <4>1
      <4>2. CASE i # slot + 1
        <5>1. i \in 1 .. slot
          BY <2>2, <4>2
        <5> QED
          BY <2>5, <3>2, <3>4, <3>5, <3>6, <5>1
      <4> QED
        BY <4>1, <4>2
    <3>8. ASSUME NEW i \in 1 .. slot + 1, NEW j \in 1 .. slot + 1, i < j
          PROVE  NextDestination(window[i]) <= window[j].a
      <4>1. i \in 1 .. slot
        BY <2>2, <3>8
      <4>2. CASE j = slot + 1
        BY <3>2, <3>4, <4>1, <4>2
      <4>3. CASE j # slot + 1
        <5>1. j \in 1 .. slot
          BY <2>2, <4>3
        <5> QED
          BY <3>4, <3>8, <4>1, <5>1
      <4> QED
        BY <4>2, <4>3
    <3>9. ASSUME NEW i \in 1 .. slot
          PROVE  After(window[i]) = CursorAt(window[i + 1])
      <4>1. CASE i = slot
        BY <2>2, <2>5, <3>4, <4>1
      <4>2. CASE i # slot
        <5>1. i \in 1 .. slot - 1
          BY <2>2, <4>2
        <5> QED
          BY <3>4, <5>1
      <4> QED
        BY <4>1, <4>2
    <3>10. (slot + 1) - 1 = slot /\ slot + 1 <= Len(window)
      BY <2>2
    <3> HIDE DEF t
    <3>11. InWindow' => slot' <= Len(window')
      BY <1>1, <2>1, <3>10
    <3>12. After(window[slot + 1]) = structure'
      BY <2>5 DEF t
    <3>13. /\ \A i \in 1 .. Validated' :
                /\ Bounded(window'[i])
                /\ NextDestination(window'[i]) <= structure'.next_destination
           /\ \A i, j \in 1 .. Validated' :
                i < j => NextDestination(window'[i]) <= window'[j].a
           /\ \A i \in 1 .. Validated' - 1 : After(window'[i]) = CursorAt(window'[i + 1])
           /\ After(window'[Validated']) = structure'
      BY ONLY <1>1, <3>1, <3>2, <3>7, <3>8, <3>9, <3>10, <3>12
    <3> QED
      BY ONLY <1>1, <2>1, <2>5, <3>3, <3>11, <3>13 DEF WindowInv
  <2>9. WorkInv'
    BY <2>1 DEF WorkInv
  <2>10. SettledInv'
    <3>1. Settled(Frontier)
      BY <1>1 DEF IInv, SettledInv
    <3>2. Frontier' = CursorAt(window[1])
      BY <1>1, <2>1, <2>2 DEF Frontier, Validated
    <3>3. Frontier = CursorAt(window[1])
      <4>1. CASE slot = 0
        BY <1>1, <2>5, <4>1 DEF Frontier, Validated
      <4>2. CASE slot # 0
        BY <1>1, <2>2, <4>2 DEF Frontier, Validated
      <4> QED
        BY <4>1, <4>2
    <3>4. Settled(Frontier)'
      BY <1>1, <3>1, <3>2, <3>3, SettledStays
    <3> QED
      BY <2>1, <3>4 DEF SettledInv
  <2> QED
    BY <2>6, <2>7, <2>8, <2>9, <2>10 DEF IInv
<1> QED
  BY <1>2, <1>3

LEMMA EndWindowKeeps ==
  ASSUME IInv, EndWindow
  PROVE  IInv'
<1>1. /\ place = "reduce" /\ slot = Len(window) /\ place' = "check"
      /\ task_index' = task_index + Len(window)
      /\ UNCHANGED <<pass, window, slot, structure, reduction, output,
                     partials, ran, jobVars>>
  BY DEF EndWindow, Goto, hubVars, waveVars
<1>2. WorkerTyped' /\ WaveInv' /\ JobInv'
  BY <1>1, NobodyRuns
<1>3. task_index + Len(window) <= task_count /\ task_index + Len(window) \in Nat
  BY <1>1 DEF IInv, Typed, WindowInv, InWindow
<1>4. Typed'
  BY <1>1, <1>3 DEF IInv, Typed
<1>5. WindowInv' /\ WorkInv'
  BY <1>1, <1>3 DEF IInv, WindowInv, WorkInv, InWindow
<1>6. SettledInv'
  <2>1. Settled(structure) /\ Frontier' = structure
    BY <1>1 DEF IInv, Typed, SettledInv, Frontier
  <2> QED
    BY <1>1, <2>1, SettledStays DEF SettledInv
<1> QED
  BY <1>2, <1>4, <1>5, <1>6 DEF IInv

LEMMA EndPassKeeps ==
  ASSUME IInv, EndPass
  PROVE  IInv'
<1>1. /\ place = "check" /\ place' = IF Covered THEN "complete" ELSE "failed"
      /\ UNCHANGED <<pass, task_index, window, slot, structure, reduction, output,
                     partials, ran, jobVars>>
  BY DEF EndPass, Goto, passVars, hubVars, waveVars
<1>2. WorkerTyped' /\ WaveInv' /\ JobInv'
  BY <1>1, NobodyRuns
<1>3. Typed'
  BY <1>1 DEF IInv, Typed
<1>4. WindowInv' /\ WorkInv'
  BY <1>1 DEF IInv, WindowInv, WorkInv, InWindow
<1>5. SettledInv'
  <2>1. Settled(structure) /\ Frontier' = structure
    BY <1>1 DEF IInv, SettledInv, Frontier
  <2>2. place' = "complete" => Covered'
    BY <1>1 DEF Covered
  <2> QED
    BY <1>1, <2>1, <2>2, SettledStays DEF SettledInv
<1> QED
  BY <1>2, <1>3, <1>4, <1>5 DEF IInv

----------------------------------------------------------------------------
(* The reduction of a window.                                              *)

\* In a reduction the whole window has been validated, and the task at the
\* slot stands where the settled part ends.
LEMMA AtTheSlot ==
  ASSUME IInv, place = "reduce", slot < Len(window)
  PROVE  LET t == window[slot + 1] IN
         /\ slot \in Nat /\ slot + 1 \in 1 .. Len(window) /\ t \in TaskRecord
         /\ Shaped(t) /\ Bounded(t) /\ Produced(slot) /\ ~Contradicts(t)
         /\ Settled(CursorAt(t))
         /\ \A j \in slot + 1 .. Len(window) - 1 : NextDestination(t) <= window[j + 1].a
         /\ After(t) = IF slot + 1 < Len(window) THEN CursorAt(window[slot + 2])
                       ELSE structure
<1> DEFINE t == window[slot + 1]
<1>1. slot \in Nat /\ Len(window) \in Nat /\ slot + 1 \in 1 .. Len(window)
      /\ t \in TaskRecord
  BY DEF IInv, Typed
<1>2. Validated = Len(window)
  BY DEF Validated
<1>3. Shaped(t) /\ Bounded(t)
  BY <1>1, <1>2 DEF IInv, WindowInv, InWindow
<1>4. Produced(slot) /\ ~Contradicts(t)
  BY <1>1 DEF IInv, WorkInv, Task
<1>5. Settled(CursorAt(t))
  BY <1>1 DEF IInv, SettledInv, Frontier
<1>6. ASSUME NEW j \in slot + 1 .. Len(window) - 1
      PROVE  NextDestination(t) <= window[j + 1].a
  <2>1. j + 1 \in 1 .. Len(window) /\ slot + 1 < j + 1
    BY <1>1
  <2> QED
    BY <1>1, <1>2, <2>1 DEF IInv, WindowInv, InWindow
<1>7. After(t) = IF slot + 1 < Len(window) THEN CursorAt(window[slot + 2])
                 ELSE structure
  <2>1. CASE slot + 1 < Len(window)
    <3>1. slot + 1 \in 1 .. Len(window) - 1 /\ (slot + 1) + 1 = slot + 2
      BY <1>1, <2>1
    <3> QED
      BY <1>2, <2>1, <3>1 DEF IInv, WindowInv, InWindow
  <2>2. CASE ~(slot + 1 < Len(window))
    <3>1. slot + 1 = Len(window)
      BY <1>1, <2>2
    <3> QED
      BY <1>1, <1>2, <2>2, <3>1 DEF IInv, WindowInv, InWindow
  <2> QED
    BY <2>1, <2>2
<1> QED
  BY <1>1, <1>3, <1>4, <1>5, <1>6, <1>7

\* The reduction of a task: what has to be shown of it.
LEMMA ReducedKeeps ==
  ASSUME IInv, place = "reduce", place' = "reduce", slot < Len(window),
         slot' = slot + 1,
         UNCHANGED <<pass, task_index, window, structure, partials, ran, jobVars>>,
         reduction' \in Hubs, output' \in [Vertices -> Seq(Seq(Term))],
         \A d \in Vertices :
           d >= NextDestination(window[slot + 1]) => output'[d] = output[d],
         NEW f, f = After(window[slot + 1]), Settled(f)'
  PROVE  IInv'
<1> DEFINE t == window[slot + 1]
<1>1. /\ slot \in Nat /\ Len(window) \in Nat /\ window \in Seq(TaskRecord)
      /\ t \in TaskRecord
      /\ \A j \in slot + 1 .. Len(window) - 1 : NextDestination(t) <= window[j + 1].a
      /\ f = IF slot + 1 < Len(window) THEN CursorAt(window[slot + 2]) ELSE structure
  BY AtTheSlot DEF IInv, Typed
<1>2. WorkerTyped' /\ WaveInv' /\ JobInv'
  BY NobodyRuns
<1>3. Typed'
  BY <1>1 DEF IInv, Typed
<1>4. WindowInv'
  <2>1. slot' <= Len(window')
    BY <1>1
  <2> QED
    BY <2>1 DEF IInv, WindowInv, InWindow, Validated
<1>5. WorkInv'
  <2>1. /\ \A first, n : TermsFrom(first, n)' = TermsFrom(first, n)
        /\ \A j : Task(j)' = Task(j)
    BY DEF TermsFrom, Task
  <2>2. \A u : Contradicts(u)' <=> Contradicts(u)
    BY DEF Contradicts
  <2>3. ASSUME NEW j \in slot + 1 .. Len(window) - 1
        PROVE  Produced(j)' /\ ~Contradicts(Task(j))'
    <3> DEFINE u == window[j + 1]
    <3>1. j \in slot .. Len(window) - 1 /\ j + 1 \in 1 .. Len(window)
      BY <1>1
    <3>2. Produced(j) /\ ~Contradicts(Task(j))
      BY <3>1 DEF IInv, WorkInv
    <3>3. u \in TaskRecord /\ u.a \in Nat /\ u.b \in Nat /\ Bounded(u)
          /\ NextDestination(t) \in Nat
      <4>1. u \in TaskRecord /\ Bounded(u)
        BY <1>1, <3>1 DEF IInv, WindowInv, InWindow, Validated
      <4> QED
        BY <1>1, <4>1, RecordTyped
    <3>4. CASE Task(j).tag = "hub_slice"
      BY <2>1, <2>2, <3>2, <3>4 DEF Produced
    <3>5. CASE Task(j).tag # "hub_slice"
      <4>1. Task(j) = u /\ u.tag = "ordinary"
        BY <3>3, <3>5, RecordTyped DEF Task
      <4>2. ASSUME NEW k \in 0 .. u.b - 1
            PROVE  output'[u.a + k] = output[u.a + k]
        <5>1. u.a + k \in Vertices /\ u.a + k >= NextDestination(t)
          <6>1. NextDestination(t) <= u.a
            BY <1>1
          <6>2. u.a + u.b <= vertex_count
            BY <3>3, <4>1 DEF Bounded
          <6> HIDE DEF t, u
          <6>3. u.a + k \in Nat /\ u.a + k < vertex_count /\ u.a + k >= NextDestination(t)
            <7>1. k \in 0 .. u.b - 1 /\ u.a \in Nat /\ u.b \in Nat /\ vertex_count \in Nat
                  /\ NextDestination(t) \in Nat
              BY <3>3, VerticesAre
            <7> QED
              BY ONLY <6>1, <6>2, <7>1
          <6> QED
            BY <6>3, VerticesAre
        <5> QED
          BY <5>1
      <4>3. ProducedTo(u, u.b)
        BY <3>2, <3>5, <4>1 DEF Produced
      <4>4. ProducedTo(u, u.b)'
        BY <2>1, <4>2, <4>3 DEF ProducedTo
      <4> QED
        BY <2>1, <2>2, <3>2, <3>5, <4>1, <4>4 DEF Produced, ProducedTo
    <3> QED
      BY <3>4, <3>5
  <2> QED
    BY <2>3 DEF WorkInv
<1>6. SettledInv'
  <2>1. Frontier' = f
    <3>1. (slot + 1) + 1 = slot + 2
      BY <1>1
    <3> QED
      BY <1>1, <3>1 DEF Frontier
  <2>2. Settled(Frontier)'
    BY <2>1 DEF Settled
  <2> QED
    BY <2>2 DEF SettledInv
<1> QED
  BY <1>2, <1>3, <1>4, <1>5, <1>6 DEF IInv

LEMMA SkipOrdinaryKeeps ==
  ASSUME IInv, SkipOrdinary
  PROVE  IInv'
<1> DEFINE t == window[slot + 1]
<1>1. /\ place = "reduce" /\ slot < Len(window) /\ t.tag = "ordinary"
      /\ place' = "reduce" /\ slot' = slot + 1
      /\ UNCHANGED <<pass, task_index, window, structure, reduction, output,
                     partials, ran, jobVars>>
  BY DEF SkipOrdinary, Task, passVars, waveVars
<1>2. /\ t \in TaskRecord /\ Bounded(t) /\ ~Contradicts(t) /\ Produced(slot)
      /\ Settled(CursorAt(t))
  BY <1>1, AtTheSlot
<1>3. /\ t.a \in Nat /\ t.b \in Nat /\ t.edge_count \in Nat /\ t.edge_begin \in Nat
  BY <1>2, RecordTyped
<1>4. /\ t.a + t.b <= vertex_count
      /\ t.edge_count = E(t.a + t.b) - E(t.a)
      /\ E(t.a) \in Nat /\ E(t.a + t.b) \in Nat
  <2>1. t.a \in 0 .. vertex_count /\ t.a + t.b \in 0 .. vertex_count
    BY SMTT(30), <1>1, <1>2, <1>3, TraversalConstants DEF Bounded
  <2> QED
    BY <1>1, <1>2, <2>1, EdgesOfGraph DEF Contradicts, E
<1>5. /\ reduction = NoHub /\ t.edge_begin = E(t.a)
      /\ \A d \in 0 .. t.a - 1 : Whole(d)
  BY <1>1, <1>2 DEF Settled, CursorAt
<1>6. ASSUME NEW d \in t.a .. t.a + t.b - 1 PROVE Whole(d)
  <2>1. d - t.a \in 0 .. t.b - 1 /\ t.a + (d - t.a) = d /\ d \in Vertices
    <3> HIDE DEF t
    <3> QED
      BY <1>3, <1>4, VerticesAre
  <2>2. output[d] = <<TermsFrom(t.edge_begin + E(d) - E(t.a), Counts[d + 1])>>
    BY <1>1, <1>2, <2>1 DEF Produced, ProducedTo, Task
  <2>3. E(d) \in Nat
    BY <2>1, VerticesAre, EdgesOfDestination
  <2>4. t.edge_begin + E(d) - E(t.a) = E(d)
    BY <1>4, <1>5, <2>3
  <2> QED
    BY <2>1, <2>2, <2>4, WholeTerms, FlattenOne DEF Whole
<1>7. After(t) = [next_destination |-> t.a + t.b,
                  next_edge |-> t.edge_begin + t.edge_count, hub |-> NoHubGroup]
  BY <1>1 DEF After, NextDestination
<1>8. PICK f : f = After(t)
  OBVIOUS
<1>9. Settled(f)
  <2>1. \A d \in 0 .. t.a + t.b - 1 : Whole(d)
    BY <1>3, <1>5, <1>6
  <2>2. t.edge_begin + t.edge_count = E(t.a + t.b)
    BY <1>4, <1>5
  <2> QED
    <3>1. f.next_destination = t.a + t.b /\ f.hub = NoHubGroup
          /\ f.next_edge = t.edge_begin + t.edge_count
      BY <1>7, <1>8
    <3>2. /\ f.next_destination <= vertex_count
          /\ \A d \in 0 .. f.next_destination - 1 : Whole(d)
          /\ f.next_edge = E(f.next_destination)
      <4>1. t.a + t.b <= vertex_count
        BY <1>4
      <4> HIDE DEF t
      <4>2. f.next_destination <= vertex_count /\ f.next_edge = E(f.next_destination)
        BY <2>2, <3>1, <4>1
      <4>3. \A d \in 0 .. f.next_destination - 1 : Whole(d)
        BY <1>3, <2>1, <3>1
      <4> QED
        BY <4>2, <4>3
    <3> HIDE DEF t
    <3> QED
      BY <1>5, <3>1, <3>2 DEF Settled
<1>10. Settled(f)'
  <2>1. \A d : Whole(d)' <=> Whole(d)
    BY <1>1 DEF Whole, Terms
  <2>2. \A first, n : TermsFrom(first, n)' = TermsFrom(first, n)
    BY <1>1 DEF TermsFrom
  <2> QED
    BY <1>1, <1>9, <2>1, <2>2 DEF Settled
<1>11. reduction' \in Hubs /\ output' \in [Vertices -> Seq(Seq(Term))]
  BY <1>1 DEF IInv, Typed
<1> QED
  BY <1>1, <1>8, <1>10, <1>11, ReducedKeeps

\* The hub that the slice at the slot belongs to.
LEMMA HubAtTheSlot ==
  ASSUME IInv, place = "reduce", slot < Len(window),
         NEW t, t = window[slot + 1], t.tag = "hub_slice", Reducible(t)
  PROVE  LET hub == HubOf(t) IN
         /\ hub \in Hubs /\ t.a < vertex_count
         /\ hub.destination = t.a /\ hub.slice_count = t.c /\ hub.next_slice = t.b
         /\ hub.expected_edges = Counts[t.a + 1]
         /\ hub.covered_edges = t.edge_begin - E(t.a)
         /\ hub.covered_edges \in Nat
         /\ hub.covered_edges + t.edge_count <= hub.expected_edges
         /\ t.b + 1 = t.c => hub.covered_edges + t.edge_count = hub.expected_edges
         /\ FlattenSeq(hub.incoming_sum) = TermsFrom(E(t.a), hub.covered_edges)
         /\ \A d \in 0 .. t.a - 1 : Whole(d)
<1>1. t \in TaskRecord /\ Settled(CursorAt(t))
  BY AtTheSlot
<1>2. t.a \in Nat /\ t.b \in Nat /\ t.edge_begin \in Nat /\ t.edge_count \in Nat
  BY <1>1, RecordTyped
<1>3. \A d \in 0 .. t.a - 1 : Whole(d)
  BY <1>1 DEF Settled, CursorAt
<1>4. CASE t.b = 0
  <2>1. reduction = NoHub /\ t.edge_begin = E(t.a)
    BY <1>1, <1>2, <1>4 DEF Settled, CursorAt
  <2>2. t.a \in Vertices
    BY <2>1 DEF Reducible
  <2>3. t.a < vertex_count /\ Counts[t.a + 1] \in Nat /\ E(t.a) \in Nat
    BY <1>2, <2>2, VerticesAre, EdgesOfDestination
  <2>4. HubOf(t) = [destination |-> t.a, slice_count |-> t.c, next_slice |-> 0,
                    expected_edges |-> Counts[t.a + 1], covered_edges |-> 0,
                    incoming_sum |-> <<>>]
    BY <2>1 DEF HubOf
  <2>5. TermsFrom(E(t.a), 0) = <<>>
    BY DEF TermsFrom
  <2>6. HubOf(t) \in Hubs
    <3>1. <<>> \in Seq(Seq(Term)) /\ t.c \in Int
      BY <1>1, RecordTyped
    <3> QED
      BY <1>2, <2>3, <2>4, <3>1 DEF Hubs
  <2>7. /\ t.edge_count <= HubOf(t).expected_edges - HubOf(t).covered_edges
        /\ t.b + 1 = t.c =>
             HubOf(t).covered_edges + t.edge_count = HubOf(t).expected_edges
    BY DEF Reducible
  <2>8. t.edge_count <= Counts[t.a + 1] - 0
    BY <2>4, <2>7
  <2> QED
    BY <1>2, <1>3, <1>4, <2>1, <2>3, <2>4, <2>5, <2>6, <2>7, <2>8, FlattenEmpty
<1>5. CASE t.b # 0
  <2>1. CursorAt(t).hub = HubGroup(t.a, t.c, t.b) /\ CursorAt(t).hub # NoHubGroup
        /\ CursorAt(t).next_destination = t.a /\ CursorAt(t).next_edge = t.edge_begin
    BY <1>2, <1>5 DEF CursorAt, HubGroup, NoHubGroup
  <2>2. /\ t.a < vertex_count /\ reduction # NoHub /\ reduction.destination = t.a
        /\ reduction.slice_count = t.c /\ reduction.next_slice = t.b
        /\ reduction.expected_edges = Counts[t.a + 1]
        /\ reduction.covered_edges = t.edge_begin - E(t.a)
        /\ reduction.covered_edges \in 0 .. reduction.expected_edges
        /\ FlattenSeq(reduction.incoming_sum) = TermsFrom(E(t.a), reduction.covered_edges)
    BY <1>1, <2>1 DEF Settled, HubGroup
  <2>3. HubOf(t) = reduction /\ reduction \in Hubs
    BY <2>2 DEF HubOf, IInv, Typed
  <2>4. /\ t.edge_count <= reduction.expected_edges - reduction.covered_edges
        /\ t.b + 1 = t.c =>
             reduction.covered_edges + t.edge_count = reduction.expected_edges
    BY <2>3 DEF Reducible
  <2>5. reduction.covered_edges \in Nat /\ reduction.expected_edges \in Nat
    <3>1. t.a \in Vertices /\ Counts[t.a + 1] \in Nat
      BY <1>2, <2>2, EdgesOfDestination
    <3> QED
      BY <2>2, <3>1
  <2> QED
    BY <1>2, <1>3, <2>2, <2>3, <2>4, <2>5
<1> QED
  BY <1>4, <1>5

LEMMA AddedIs ==
  ASSUME NEW hub \in Hubs, NEW t, t.edge_count \in Nat, NEW partial \in Seq(Term)
  PROVE  LET more == Added(hub, t, partial) IN
         /\ more \in Hubs
         /\ more.destination = hub.destination /\ more.slice_count = hub.slice_count
         /\ more.next_slice = hub.next_slice + 1
         /\ more.expected_edges = hub.expected_edges
         /\ more.covered_edges = hub.covered_edges + t.edge_count
         /\ more.incoming_sum = Append(hub.incoming_sum, partial)
<1>1. /\ hub.next_slice + 1 \in Int /\ hub.covered_edges + t.edge_count \in Int
      /\ hub.incoming_sum \in Seq(Seq(Term))
  BY DEF Hubs
<1>2. Append(hub.incoming_sum, partial) \in Seq(Seq(Term))
  BY <1>1, AppendProperties
<1> QED
  BY <1>1, <1>2 DEF Added, Hubs

LEMMA ReduceSliceKeeps ==
  ASSUME IInv, ReduceSlice
  PROVE  IInv'
<1>0. PICK t : t = window[slot + 1]
  OBVIOUS
<1> DEFINE hub == HubOf(t)
           more == Added(hub, t, partials[slot])
           n == hub.covered_edges
<1>1. /\ place = "reduce" /\ slot < Len(window) /\ t.tag = "hub_slice"
      /\ UNCHANGED <<pass, task_index, window, structure, partials, ran, jobVars>>
  BY <1>0 DEF ReduceSlice, Task, passVars, waveVars
<1>2. CASE ~Reducible(t)
  <2>1. place' = "failed" /\ UNCHANGED <<slot, reduction, output>>
    BY <1>0, <1>2 DEF ReduceSlice, Goto, Task, hubVars
  <2> QED
    BY <1>1, <2>1, EndsInFailure
<1>3. CASE Reducible(t)
  <2>1. /\ place' = "reduce" /\ slot' = slot + 1
        /\ IF more.next_slice = more.slice_count
           THEN /\ output' = [output EXCEPT ![t.a] = more.incoming_sum]
                /\ reduction' = NoHub
           ELSE /\ reduction' = more /\ UNCHANGED output
    BY <1>0, <1>1, <1>3 DEF ReduceSlice, Task
  <2>2. /\ slot \in Nat /\ t \in TaskRecord /\ Produced(slot)
        /\ slot < Len(window) /\ Len(window) \in 1 .. WindowRecords
    BY <1>0, <1>1, AtTheSlot DEF IInv, WindowInv, InWindow
  <2>3. /\ t.a \in Nat /\ t.b \in Nat /\ t.c \in Nat
        /\ t.edge_begin \in Nat /\ t.edge_count \in Nat
    BY <2>2, RecordTyped
  <2>4. /\ hub \in Hubs /\ t.a < vertex_count
        /\ hub.destination = t.a /\ hub.slice_count = t.c /\ hub.next_slice = t.b
        /\ hub.expected_edges = Counts[t.a + 1]
        /\ n = t.edge_begin - E(t.a) /\ n \in Nat
        /\ n + t.edge_count <= hub.expected_edges
        /\ t.b + 1 = t.c => n + t.edge_count = hub.expected_edges
        /\ FlattenSeq(hub.incoming_sum) = TermsFrom(E(t.a), n)
        /\ \A d \in 0 .. t.a - 1 : Whole(d)
    BY <1>0, <1>1, <1>3, HubAtTheSlot
  <2>5. partials[slot] = TermsFrom(t.edge_begin, t.edge_count)
    BY <1>0, <1>1, <2>2 DEF Produced, Task
  <2>6. t.a \in Vertices /\ E(t.a) \in Nat /\ Counts[t.a + 1] \in Nat
        /\ E(t.a + 1) = E(t.a) + Counts[t.a + 1]
    BY <2>3, <2>4, EdgesOfDestination
  <2>7. /\ more.destination = t.a /\ more.slice_count = t.c
        /\ more.next_slice = t.b + 1 /\ more.expected_edges = Counts[t.a + 1]
        /\ more.covered_edges = n + t.edge_count
        /\ more.incoming_sum = Append(hub.incoming_sum, partials[slot])
        /\ more \in Hubs
    <3> HIDE DEF hub
    <3>1. partials[slot] \in Seq(Term)
      <4>1. pass \in Nat
        BY DEF IInv, Typed
      <4> QED
        BY <2>3, <2>5, <4>1, TermsTyped
    <3> QED
      BY SMTT(30), <2>3, <2>4, <3>1, AddedIs
  <2>8. FlattenSeq(more.incoming_sum) = TermsFrom(E(t.a), n + t.edge_count)
    <3> HIDE DEF hub, n, more
    <3>1. hub.incoming_sum \in Seq(Seq(Term))
      BY <2>4 DEF Hubs
    <3>2. pass \in Nat
      BY DEF IInv, Typed
    <3>3. E(t.a) + n = t.edge_begin
      BY <2>3, <2>4, <2>6
    <3>4. partials[slot] \in Seq(Term)
      BY <2>3, <2>5, <3>2, TermsTyped
    <3>5. FlattenSeq(more.incoming_sum)
            = TermsFrom(E(t.a), n) \o TermsFrom(t.edge_begin, t.edge_count)
      <4>1. FlattenSeq(Append(hub.incoming_sum, partials[slot]))
              = FlattenSeq(hub.incoming_sum) \o partials[slot]
        BY <3>1, <3>4, FlattenAppend
      <4> QED
        BY <2>4, <2>5, <2>7, <4>1
    <3>6. TermsFrom(E(t.a), n) \o TermsFrom(E(t.a) + n, t.edge_count)
            = TermsFrom(E(t.a), n + t.edge_count)
      <4>1. E(t.a) \in Nat /\ n \in Nat /\ t.edge_count \in Nat
        BY <2>3, <2>4, <2>6
      <4> QED
        BY ONLY <4>1, TermsConcat
    <3> QED
      BY <3>3, <3>5, <3>6
  <2> HIDE DEF hub, n, more
  <2>9. ASSUME NEW d \in Vertices, output'[d] = output[d], Whole(d) PROVE Whole(d)'
    BY <1>1, <2>9 DEF Whole, Terms
  <2>10. \A first, k : TermsFrom(first, k)' = TermsFrom(first, k)
    BY <1>1 DEF TermsFrom
  <2>11. output \in [Vertices -> Seq(Seq(Term))]
    BY DEF IInv, Typed
  <2>12. CASE t.b + 1 = t.c
    <3>1. output' = [output EXCEPT ![t.a] = more.incoming_sum] /\ reduction' = NoHub
      BY <2>1, <2>7, <2>12
    <3>2. more.incoming_sum \in Seq(Seq(Term))
      BY <2>7 DEF Hubs
    <3>3. output' \in [Vertices -> Seq(Seq(Term))] /\ reduction' \in Hubs
      <4>1. <<>> \in Seq(Seq(Term))
        OBVIOUS
      <4> QED
        <5>1. output' \in [Vertices -> Seq(Seq(Term))]
          BY <2>11, <3>1, <3>2
        <5>2. reduction' \in Hubs
          BY <3>1, <4>1 DEF Hubs, NoHub
        <5> QED
          BY <5>1, <5>2
    <3>4. NextDestination(t) = t.a + 1
      BY <1>1, <2>12 DEF NextDestination
    <3>5. After(t) = [next_destination |-> t.a + 1,
                      next_edge |-> t.edge_begin + t.edge_count, hub |-> NoHubGroup]
      BY <2>12, <3>4 DEF After
    <3>6. Whole(t.a)'
      <4>1. output'[t.a] = more.incoming_sum
        BY <2>6, <2>11, <3>1
      <4>2. n + t.edge_count = Counts[t.a + 1]
        BY <2>4, <2>12
      <4>3. Terms(t.a)' = Terms(t.a)
        BY <1>1 DEF Terms
      <4> QED
        BY <2>6, <2>8, <4>1, <4>2, <4>3, WholeTerms DEF Whole
    <3>7. ASSUME NEW d \in 0 .. t.a PROVE Whole(d)'
      <4>1. CASE d = t.a
        BY <3>6, <4>1
      <4>2. CASE d # t.a
        <5>1. d \in 0 .. t.a - 1 /\ d \in Vertices
          BY SMTT(30), <2>3, <2>4, <4>2, TraversalConstants DEF Vertices
        <5>2. output'[d] = output[d]
          BY <2>11, <3>1, <4>2, <5>1
        <5> QED
          BY <2>4, <2>9, <5>1, <5>2
      <4> QED
        BY <4>1, <4>2
    <3>8. t.edge_begin + t.edge_count = E(t.a + 1)
      BY <2>3, <2>4, <2>6, <2>12
    <3>9. PICK f : f = After(t)
      OBVIOUS
    <3>10. Settled(f)'
      <4>1. t.a + 1 <= vertex_count /\ (t.a + 1) - 1 = t.a
        BY <2>3, <2>4, TraversalConstants
      <4> QED
        BY <3>1, <3>5, <3>7, <3>8, <3>9, <4>1 DEF Settled
    <3>11. \A d \in Vertices : d >= NextDestination(t) => output'[d] = output[d]
      BY <2>3, <2>11, <3>1, <3>4 DEF Vertices
    <3> QED
      BY <1>1, <2>1, <3>3, <3>9, <3>10, <3>11, ReducedKeeps, <1>0
  <2>13. CASE t.b + 1 # t.c
    <3>1. reduction' = more /\ output' = output
      BY <2>1, <2>7, <2>13
    <3>2. After(t) = [next_destination |-> t.a,
                      next_edge |-> t.edge_begin + t.edge_count,
                      hub |-> HubGroup(t.a, t.c, t.b + 1)]
      BY <1>1, <2>13 DEF After, NextDestination
    <3>3. HubGroup(t.a, t.c, t.b + 1) # NoHubGroup /\ more # NoHub
      BY <2>3, <2>7 DEF HubGroup, NoHubGroup, NoHub
    <3>4. more.covered_edges = (t.edge_begin + t.edge_count) - E(t.a)
          /\ more.covered_edges \in 0 .. more.expected_edges
      BY SMTT(30), <2>3, <2>4, <2>6, <2>7
    <3>5. \A d \in 0 .. t.a - 1 : Whole(d)'
      BY <2>3, <2>4, <2>9, <3>1, TraversalConstants DEF Vertices
    <3>6. FlattenSeq(more.incoming_sum) = TermsFrom(E(t.a), more.covered_edges)
      BY <2>7, <2>8
    <3>7. PICK f : f = After(t)
      OBVIOUS
    <3>8. Settled(f)'
      <4>1. /\ f.next_destination = t.a /\ f.next_edge = t.edge_begin + t.edge_count
            /\ f.hub = HubGroup(t.a, t.c, t.b + 1)
            /\ f.hub.slice_count = t.c /\ f.hub.next_slice = t.b + 1
        BY <3>2, <3>7 DEF HubGroup
      <4>2. t.a <= vertex_count
        BY <2>3, <2>4, TraversalConstants
      <4> QED
        BY <2>4, <2>7, <2>10, <3>1, <3>3, <3>4, <3>5, <3>6, <4>1, <4>2 DEF Settled
    <3> QED
      BY <1>1, <2>1, <2>7, <2>11, <3>1, <3>7, <3>8, ReducedKeeps, <1>0
  <2> QED
    BY <2>12, <2>13
<1> QED
  BY <1>2, <1>3

----------------------------------------------------------------------------
(* The steps of a wave as a whole.                                         *)

LEMMA StartWaveKeeps ==
  ASSUME IInv, StartWave
  PROVE  IInv'
<1>1. /\ place = "validate" /\ slot = Len(window) /\ place' = "wave"
      /\ UNCHANGED <<pass, task_index, window, slot, structure, reduction, output,
                     partials, jobVars>>
  BY DEF StartWave, Goto, passVars, hubVars
<1>2. /\ jobs' = Len(window) /\ ran' = [j \in Slots |-> 0]
      /\ \A j \in 0 .. Len(window) - 1 : Contradicts(Task(j)) => j \in throwing'
  <2>1. PICK unreadable \in SUBSET (0 .. Len(window) - 1) :
          Wave!Start("run_pass", Len(window),
                     {j \in 0 .. Len(window) - 1 : Contradicts(Task(j))}
                       \union unreadable)
    BY DEF StartWave
  <2>2. /\ jobs' = Len(window) /\ ran' = [j \in Slots |-> 0]
        /\ throwing' = {j \in 0 .. Len(window) - 1 : Contradicts(Task(j))}
                         \union unreadable
    BY <2>1 DEF Wave!Start, Wave!Jobs, Slots
  <2> QED
    BY <2>2
<1>3. Len(window) \in 1 .. WindowRecords
  BY <1>1 DEF IInv, WindowInv, InWindow
<1>4. UNCHANGED <<job, consumed, left, sum, countCursor, sourceCursor,
                  countBuffer, sourceBuffer>>
  BY <1>1 DEF jobVars, cursorVars
<1>5. \A w \in Workers : ~Running(w) /\ ~Running(w)'
  BY <1>1, <1>4 DEF IInv, WaveInv, Running
<1>6. Typed' /\ WorkerTyped'
  BY <1>1, <1>2, <1>4 DEF IInv, Typed, WorkerTyped
<1>7. WindowInv'
  BY <1>1 DEF IInv, WindowInv, InWindow, Validated
<1>8. WaveInv'
  <2>1. \A j : Contradicts(Task(j))' <=> Contradicts(Task(j))
    BY <1>1 DEF Contradicts, Task
  <2> QED
    BY <1>1, <1>2, <1>5, <2>1 DEF WaveInv
<1>9. WorkInv'
  <2>1. \A j \in 0 .. Len(window) - 1 : ran'[j] # 1
    BY <1>2, <1>3, TraversalConstants DEF Slots
  <2> QED
    BY <1>1, <2>1 DEF WorkInv
<1>10. JobInv'
  BY <1>5 DEF JobInv
<1>11. SettledInv'
  <2>1. Validated = Len(window) /\ Validated' = Len(window) /\ Len(window) > 0
    BY <1>1, <1>3 DEF Validated
  <2>2. Settled(CursorAt(window[1])) /\ Frontier' = CursorAt(window[1])
    BY <1>1, <2>1 DEF IInv, SettledInv, Frontier
  <2>3. Settled(Frontier)'
    BY <1>1, <2>2, SettledStays
  <2> QED
    BY <1>1, <2>3 DEF SettledInv
<1> QED
  BY <1>6, <1>7, <1>8, <1>9, <1>10, <1>11 DEF IInv

LEMMA AllIdleMeans ==
  ASSUME IInv, place = "wave", AllIdle, NEW j \in 0 .. Len(window) - 1
  PROVE  \A w \in Workers : job[w] # j
<1>1. Len(window) \in 1 .. WindowRecords
  BY DEF IInv, WindowInv, InWindow
<1>2. j # NoSlot
  BY <1>1, TraversalConstants DEF NoSlot
<1> QED
  BY <1>2 DEF AllIdle

LEMMA WaveReturnsKeeps ==
  ASSUME IInv, WaveReturns
  PROVE  IInv'
<1>1. /\ place = "wave" /\ AllIdle /\ place' = "reduce" /\ slot' = 0
      /\ UNCHANGED <<pass, task_index, window, structure, reduction, output,
                     partials, jobVars>>
  BY DEF WaveReturns, Goto, passVars
<1>2. throwing = {} /\ (\A j \in 0 .. jobs - 1 : ran[j] = 1) /\ UNCHANGED ran
  BY DEF WaveReturns, Wave!ReturnOk, Wave!Finish
<1>3. Len(window) \in 1 .. WindowRecords
  BY <1>1 DEF IInv, WindowInv, InWindow
<1>4. UNCHANGED <<job, consumed, left, sum, countCursor, sourceCursor,
                  countBuffer, sourceBuffer>>
  BY <1>1 DEF jobVars, cursorVars
<1>5. \A w \in Workers : ~Running(w) /\ ~Running(w)'
  BY <1>1, <1>4 DEF AllIdle, Running
<1>6. Typed' /\ WorkerTyped'
  BY <1>1, <1>2, <1>4 DEF IInv, Typed, WorkerTyped
<1>7. WindowInv'
  <2>1. slot' <= Len(window')
    BY <1>1, <1>3
  <2> QED
    BY <1>1, <2>1 DEF IInv, WindowInv, InWindow, Validated
<1>8. WaveInv'
  BY <1>1, <1>5 DEF WaveInv
<1>9. WorkInv'
  <2>1. \A first, n : TermsFrom(first, n)' = TermsFrom(first, n)
    BY <1>1 DEF TermsFrom
  <2>2. \A t, n : ProducedTo(t, n)' <=> ProducedTo(t, n)
    BY <1>1, <2>1 DEF ProducedTo
  <2>3. \A j : /\ Produced(j)' <=> Produced(j)
               /\ Contradicts(Task(j))' <=> Contradicts(Task(j))
    BY <1>1, <2>1, <2>2 DEF Produced, ProducedTo, Contradicts, Task
  <2>4. ASSUME NEW j \in 0 .. Len(window) - 1
        PROVE  Produced(j) /\ ~Contradicts(Task(j))
    <3>1. \A w \in Workers : job[w] # j
      BY <1>1, AllIdleMeans
    <3>2. jobs = Len(window) /\ ran[j] = 1 /\ j \notin throwing
      BY <1>1, <1>2 DEF IInv, WaveInv
    <3> QED
      BY <1>1, <3>1, <3>2 DEF IInv, WaveInv, WorkInv
  <2> QED
    BY <1>1, <2>3, <2>4 DEF WorkInv
<1>10. JobInv'
  BY <1>5 DEF JobInv
<1>11. SettledInv'
  <2>1. Validated = Len(window) /\ Len(window) > 0 /\ 0 + 1 = 1
    BY <1>1, <1>3 DEF Validated
  <2>2. Settled(CursorAt(window[1])) /\ Frontier' = CursorAt(window[1])
    BY <1>1, <2>1 DEF IInv, SettledInv, Frontier
  <2>3. Settled(Frontier)'
    BY <1>1, <2>2, SettledStays
  <2> QED
    BY <1>1, <2>3 DEF SettledInv
<1> QED
  BY <1>6, <1>7, <1>8, <1>9, <1>10, <1>11 DEF IInv

LEMMA WaveThrowsKeeps ==
  ASSUME IInv, WaveThrows
  PROVE  IInv'
<1>1. /\ place = "wave" /\ AllIdle /\ place' = "failed"
      /\ UNCHANGED <<pass, task_index, window, slot, structure, reduction, output,
                     partials, ran, jobVars>>
  BY DEF WaveThrows, Goto, passVars, hubVars, Wave!ThrowJob, Wave!ThrowInfrastructure,
         Wave!Finish
<1>2. UNCHANGED <<job, consumed, left, sum, countCursor, sourceCursor,
                  countBuffer, sourceBuffer>>
  BY <1>1 DEF jobVars, cursorVars
<1>3. \A w \in Workers : ~Running(w)'
  BY <1>1, <1>2 DEF AllIdle, Running
<1>4. Typed' /\ WorkerTyped'
  BY <1>1, <1>2 DEF IInv, Typed, WorkerTyped
<1>5. WaveInv' /\ JobInv'
  BY <1>1, <1>3 DEF WaveInv, JobInv
<1>6. WindowInv' /\ WorkInv' /\ SettledInv'
  BY <1>1 DEF IInv, WindowInv, WorkInv, SettledInv, InWindow
<1> QED
  BY <1>4, <1>5, <1>6 DEF IInv

LEMMA OtherStepsKeep ==
  ASSUME IInv, Rewrite \/ JobStops \/ ThreadsFail \/ UNCHANGED vars
  PROVE  IInv'
<1>1. UNCHANGED <<place, pass, task_index, window, slot, structure, reduction,
                  output, partials, jobs, throwing, ran, jobVars>>
  <2>1. CASE Rewrite
    BY <2>1 DEF Rewrite, passVars, hubVars, waveVars
  <2>2. CASE JobStops
    BY <2>2 DEF JobStops, passVars, hubVars, Wave!Stop
  <2>3. CASE ThreadsFail
    BY <2>3 DEF ThreadsFail, passVars, hubVars, Wave!Stop
  <2>4. CASE UNCHANGED vars
    BY <2>4 DEF vars, passVars, hubVars, waveVars
  <2> QED
    BY <2>1, <2>2, <2>3, <2>4
<1> QED
  BY <1>1, Unaffected

----------------------------------------------------------------------------
(* The files a worker reads.                                               *)

\* A cursor into a file, its buffer and their types.
Reading(cursor, buffer, file, batch) ==
  /\ batch \in Nat /\ batch > 0 /\ file \in Seq(Nat)
  /\ cursor \in Ranges /\ buffer \in [1 .. batch -> Nat]
  /\ Reads(cursor, buffer, file, batch)

\* The next record of a file: it is the one at the position of the cursor.
LEMMA NextRecord ==
  ASSUME NEW cursor, NEW buffer, NEW file, NEW batch,
         Reading(cursor, buffer, file, batch), cursor.position < cursor.count
  PROVE  LET next == Advanced(cursor, batch)
             read == Refilled(cursor, buffer, file) IN
         /\ Reading(next, read, file, batch)
         /\ next.begin = cursor.begin /\ next.count = cursor.count
         /\ next.position = cursor.position + 1
         /\ read[next.at] = file[cursor.begin + cursor.position + 1]
<1> USE DEF Reading
<1>0. PICK ahead, next, read :
        /\ ahead = cursor.count - cursor.position
        /\ next = Advanced(cursor, batch) /\ read = Refilled(cursor, buffer, file)
  OBVIOUS
<1>1. /\ cursor.begin \in Nat /\ cursor.count \in Nat /\ cursor.position \in Nat
      /\ cursor.at \in Nat /\ cursor.held \in Nat
  BY DEF Ranges
<1>2. /\ cursor.begin + cursor.count <= Len(file) /\ cursor.at <= cursor.held
      /\ cursor.held <= batch
      /\ cursor.position + (cursor.held - cursor.at) <= cursor.count
      /\ \A i \in 1 .. cursor.held - cursor.at :
           buffer[cursor.at + i] = file[cursor.begin + cursor.position + i]
  BY DEF Reads
<1> DEFINE Goal ==
             /\ next \in Ranges /\ read \in [1 .. batch -> Nat]
             /\ Reads(next, read, file, batch)
             /\ next.begin = cursor.begin /\ next.count = cursor.count
             /\ next.position = cursor.position + 1
             /\ read[next.at] = file[cursor.begin + cursor.position + 1]
<1> SUFFICES Goal
  BY <1>0
<1>3. CASE cursor.at # cursor.held
  <2>1. read = buffer
    BY <1>0, <1>3 DEF Refilled
  <2>2. /\ next.begin = cursor.begin /\ next.count = cursor.count
        /\ next.position = cursor.position + 1 /\ next.at = cursor.at + 1
        /\ next.held = cursor.held /\ next \in Ranges
    <3>1. cursor \in Ranges /\ cursor.position + 1 \in Nat /\ cursor.at + 1 \in Nat
      BY SMTT(30), <1>1
    <3> QED
      BY ONLY <1>0, <1>1, <1>3, <3>1 DEF Advanced, Ranges
  <2>3. buffer[cursor.at + 1] = file[cursor.begin + cursor.position + 1]
    BY <1>1, <1>2, <1>3
  <2>4. ASSUME NEW i \in 1 .. next.held - next.at
        PROVE  read[next.at + i] = file[next.begin + next.position + i]
    <3>1. i + 1 \in 1 .. cursor.held - cursor.at
      BY <1>1, <2>2
    <3>2. buffer[cursor.at + (i + 1)] = file[cursor.begin + cursor.position + (i + 1)]
      BY <1>2, <3>1
    <3>3. /\ cursor.at + (i + 1) = next.at + i
          /\ cursor.begin + cursor.position + (i + 1) = next.begin + next.position + i
      <4>1. i \in Int
        OBVIOUS
      <4> QED
        BY ONLY <1>1, <2>2, <4>1
    <3> QED
      BY <2>1, <3>2, <3>3
  <2>5. /\ next.begin + next.count <= Len(file) /\ next.position <= next.count
        /\ next.at <= next.held /\ next.held <= batch
        /\ next.position + (next.held - next.at) <= next.count
    <3>1. Len(file) \in Nat /\ cursor.position + 1 <= cursor.count
      BY <1>1
    <3> QED
      BY ONLY <1>1, <1>2, <1>3, <2>2, <3>1
  <2> QED
    BY <2>1, <2>2, <2>3, <2>4, <2>5 DEF Reads
<1>4. CASE cursor.at = cursor.held
  <2>1. read = [i \in 1 .. batch |->
                  IF i <= ahead THEN file[cursor.begin + cursor.position + i]
                  ELSE buffer[i]]
    BY <1>0, <1>4 DEF Refilled
  <2>2. /\ next.begin = cursor.begin /\ next.count = cursor.count
        /\ next.position = cursor.position + 1 /\ next.at = 1
        /\ next.held = Smaller(ahead, batch)
    BY <1>0, <1>1, <1>4 DEF Advanced, Ranges
  <2>3. ahead \in Nat /\ ahead >= 1 /\ Smaller(ahead, batch) \in Nat
        /\ Smaller(ahead, batch) <= ahead /\ Smaller(ahead, batch) <= batch
        /\ Smaller(ahead, batch) >= 1
    BY <1>0, <1>1 DEF Smaller
  <2>4. next \in Ranges
    <3>1. cursor.position + 1 \in Nat /\ 1 \in Nat
      BY <1>1
    <3> QED
      BY <1>0, <1>1, <1>4, <2>3, <3>1 DEF Advanced, Ranges
  <2>5. \A i \in 1 .. ahead : cursor.begin + cursor.position + i \in 1 .. Len(file)
    <3>1. Len(file) \in Nat /\ cursor.begin + cursor.count <= Len(file)
      BY <1>2
    <3> QED
      BY ONLY <1>0, <1>1, <3>1
  <2>6. read \in [1 .. batch -> Nat]
    <3>1. ASSUME NEW i \in 1 .. batch PROVE read[i] \in Nat
      <4>1. CASE i <= ahead
        <5>1. i \in 1 .. ahead
          BY <2>3, <4>1
        <5>2. file[cursor.begin + cursor.position + i] \in Nat
          BY <2>5, <5>1
        <5> QED
          BY <2>1, <4>1, <5>2
      <4>2. CASE ~(i <= ahead)
        BY <2>1, <4>2
      <4> QED
        BY <4>1, <4>2
    <3> QED
      BY <2>1, <3>1
  <2>7. \A i \in 1 .. Smaller(ahead, batch) :
          read[i] = file[cursor.begin + cursor.position + i]
    <3> QED
      BY <2>1, <2>3
  <2>8. ASSUME NEW i \in 1 .. next.held - next.at
        PROVE  read[next.at + i] = file[next.begin + next.position + i]
    <3>1. i + 1 \in 1 .. Smaller(ahead, batch) /\ next.at + i = i + 1
      BY <2>2, <2>3
    <3>2. cursor.begin + cursor.position + (i + 1) = next.begin + next.position + i
      <4>1. i \in Int
        OBVIOUS
      <4> QED
        BY ONLY <1>1, <2>2, <4>1
    <3> QED
      BY <2>7, <3>1, <3>2
  <2>9. /\ next.begin + next.count <= Len(file) /\ next.position <= next.count
        /\ next.at <= next.held /\ next.held <= batch
        /\ next.position + (next.held - next.at) <= next.count
    <3>1. Len(file) \in Nat
      OBVIOUS
    <3> QED
      BY ONLY SMTT(30), <1>0, <1>1, <1>2, <2>2, <2>3, <3>1
  <2>10. read[next.at] = file[cursor.begin + cursor.position + 1]
    BY <2>2, <2>3, <2>7
  <2> QED
    BY <2>2, <2>4, <2>6, <2>8, <2>9, <2>10 DEF Reads
<1> QED
  BY <1>3, <1>4

LEMMA SourcesTyped ==
  /\ Sources \in Seq(Nat) /\ Len(Sources) = edge_count
  /\ \A i \in 1 .. edge_count : Sources[i] = i - 1
<1>1. edge_count \in Nat
  BY TraversalConstants
<1>2. \A i \in 1 .. edge_count : i - 1 \in Nat
  BY <1>1
<1> HIDE DEF edge_count
<1> QED
  BY <1>1, <1>2 DEF Sources

\* A range that nothing was read of yet.
Fresh(cursor, begin, count, file, batch) ==
  /\ cursor \in Ranges /\ \A buffer : Reads(cursor, buffer, file, batch)
  /\ cursor.begin = begin /\ cursor.count = count /\ cursor.position = 0

LEMMA FreshRange ==
  ASSUME NEW begin \in Nat, NEW count \in Nat, NEW file, NEW batch \in Nat,
         begin + count <= Len(file)
  PROVE  Fresh(Records(begin, count), begin, count, file, batch)
<1> DEFINE cursor == Records(begin, count)
<1>1. cursor = [begin |-> begin, count |-> count, position |-> 0, at |-> 0, held |-> 0]
  <2>1. \A a, b, c, d, e, x :
          /\ [[begin |-> a, count |-> b, position |-> c, at |-> d, held |-> e]
                EXCEPT !.begin = x]
               = [begin |-> x, count |-> b, position |-> c, at |-> d, held |-> e]
          /\ [[begin |-> a, count |-> b, position |-> c, at |-> d, held |-> e]
                EXCEPT !.count = x]
               = [begin |-> a, count |-> x, position |-> c, at |-> d, held |-> e]
    OBVIOUS
  <2>2. cursor = [[NoRange EXCEPT !.begin = begin] EXCEPT !.count = count]
    BY DEF Records
  <2> QED
    BY ONLY <2>1, <2>2 DEF NoRange
<1> HIDE DEF cursor
<1>2. cursor \in Ranges
  <2>1. 0 \in Nat
    OBVIOUS
  <2> QED
    BY ONLY <1>1, <2>1, begin \in Nat, count \in Nat DEF Ranges
<1>3. /\ cursor.begin = begin /\ cursor.count = count /\ cursor.position = 0
      /\ cursor.at = 0 /\ cursor.held = 0
  BY <1>1
<1>4. \A buffer : Reads(cursor, buffer, file, batch)
  BY <1>3 DEF Reads
<1> QED
  BY <1>2, <1>3, <1>4 DEF Fresh, cursor

----------------------------------------------------------------------------
(* The steps of a worker.                                                  *)

\* The destinations whose sums a task stores.
Territory(t) == IF t.tag = "hub_slice" THEN {} ELSE t.a .. t.a + t.b - 1

LEMMA TaskOfWave ==
  ASSUME IInv, place = "wave", NEW j \in 0 .. Len(window) - 1
  PROVE  /\ j \in Slots /\ Task(j) \in TaskRecord
         /\ Bounded(Task(j)) /\ Shaped(Task(j))
         /\ \A d \in Territory(Task(j)) : d \in Vertices /\ d >= window[1].a
<1>1. /\ Len(window) \in 1 .. WindowRecords /\ window \in Seq(TaskRecord)
      /\ j + 1 \in 1 .. Len(window) /\ j \in Slots
  BY TraversalConstants DEF IInv, Typed, WindowInv, InWindow, Slots
<1>2. PICK t : t = window[j + 1]
  OBVIOUS
<1>3. Task(j) = t /\ t \in TaskRecord /\ Bounded(t) /\ Shaped(t)
  BY <1>1, <1>2 DEF IInv, WindowInv, InWindow, Validated, Task
<1>4. t.a \in Nat /\ t.b \in Nat /\ t.tag \in {"ordinary", "hub_slice"}
  BY <1>3, RecordTyped
<1>5. window[1].a \in Nat /\ window[1].a <= t.a
  <2>1. window[1] \in TaskRecord /\ 1 \in 1 .. Len(window) /\ Shaped(window[1])
    BY <1>1 DEF IInv, WindowInv, InWindow
  <2>2. window[1].a \in Nat /\ window[1].a <= NextDestination(window[1])
        /\ NextDestination(window[1]) \in Nat
    BY <2>1, RecordTyped DEF NextDestination
  <2>3. CASE j = 0
    BY <1>2, <2>2, <2>3
  <2>4. CASE j # 0
    <3>1. 1 < j + 1
      BY <2>4
    <3>2. NextDestination(window[1]) <= window[j + 1].a
      BY <1>1, <2>1, <3>1 DEF IInv, WindowInv, InWindow, Validated
    <3> QED
      BY <1>2, <1>4, <2>2, <3>2
  <2> QED
    BY <2>3, <2>4
<1>6. ASSUME NEW d \in Territory(t) PROVE d \in Vertices /\ d >= window[1].a
  <2>1. t.tag = "ordinary" /\ d \in t.a .. t.a + t.b - 1
    BY <1>4 DEF Territory
  <2>2. t.a + t.b <= vertex_count
    BY <1>3, <2>1 DEF Bounded
  <2>3. t.a \in Nat /\ t.b \in Nat /\ vertex_count \in Nat
    BY <1>4, VerticesAre
  <2>4. d \in Nat /\ d < vertex_count /\ d >= t.a
    BY ONLY <2>1, <2>2, <2>3
  <2>5. d >= window[1].a
    BY ONLY <1>5, <2>3, <2>4
  <2> QED
    BY <2>4, <2>5, VerticesAre
<1> QED
  BY <1>1, <1>3, <1>6

LEMMA TerritoriesAreDisjoint ==
  ASSUME IInv, place = "wave",
         NEW i \in 0 .. Len(window) - 1, NEW j \in 0 .. Len(window) - 1, i # j
  PROVE  Territory(Task(i)) \intersect Territory(Task(j)) = {}
<1>1. ASSUME NEW h \in 0 .. Len(window) - 1, NEW k \in 0 .. Len(window) - 1, h < k
      PROVE  Territory(Task(h)) \intersect Territory(Task(k)) = {}
  <2>1. h + 1 \in 1 .. Len(window) /\ k + 1 \in 1 .. Len(window) /\ h + 1 < k + 1
    BY <1>1
  <2>2. NextDestination(Task(h)) <= Task(k).a
    BY <2>1 DEF IInv, WindowInv, InWindow, Validated, Task
  <2>3. Task(h) \in TaskRecord /\ Task(k) \in TaskRecord
    BY TaskOfWave
  <2>4. /\ Task(h).a \in Nat /\ Task(h).b \in Nat /\ Task(k).a \in Nat /\ Task(k).b \in Nat
        /\ Task(h).tag \in {"ordinary", "hub_slice"}
    BY <2>3, RecordTyped
  <2>5. ASSUME NEW d \in Territory(Task(h)), d \in Territory(Task(k)) PROVE FALSE
    <3>1. /\ Task(h).tag = "ordinary"
          /\ d \in Task(h).a .. Task(h).a + Task(h).b - 1
      BY <2>4 DEF Territory
    <3>2. d \in Task(k).a .. Task(k).a + Task(k).b - 1
      BY <2>5 DEF Territory
    <3>3. Task(h).a + Task(h).b <= Task(k).a
      BY <2>2, <3>1 DEF NextDestination
    <3>4. PICK a, b, c, e : a = Task(h).a /\ b = Task(h).b /\ c = Task(k).a /\ e = Task(k).b
      OBVIOUS
    <3>5. a \in Nat /\ b \in Nat /\ c \in Nat /\ e \in Nat /\ a + b <= c
          /\ d \in a .. a + b - 1 /\ d \in c .. c + e - 1
      BY <2>4, <3>1, <3>2, <3>3, <3>4
    <3> QED
      BY ONLY <3>5
  <2> QED
    BY <2>5
<1>2. i < j \/ j < i
  OBVIOUS
<1> QED
  BY <1>1, <1>2

\* What a job has produced, while its part of the memory stays.
LEMMA ProducedStays ==
  ASSUME UNCHANGED <<pass, window>>, NEW j, Task(j) \in TaskRecord,
         \A d \in Territory(Task(j)) : output'[d] = output[d],
         Task(j).tag = "hub_slice" => partials'[j] = partials[j],
         Produced(j)
  PROVE  Produced(j)'
<1>1. /\ \A first, n : TermsFrom(first, n)' = TermsFrom(first, n)
      /\ Task(j)' = Task(j)
  BY DEF TermsFrom, Task
<1>2. PICK t : t = Task(j)
  OBVIOUS
<1>3. CASE t.tag = "hub_slice"
  BY <1>1, <1>2, <1>3 DEF Produced
<1>4. CASE t.tag # "hub_slice"
  <2>1. ProducedTo(t, t.b)
    BY <1>2, <1>4 DEF Produced
  <2>2. t.a \in Nat /\ t.b \in Nat
    BY <1>2, RecordTyped
  <2>3. ASSUME NEW k \in 0 .. t.b - 1 PROVE output'[t.a + k] = output[t.a + k]
    <3>1. t.a + k \in t.a .. t.a + t.b - 1
      BY <2>2
    <3> QED
      BY <1>2, <1>4, <3>1 DEF Territory
  <2>4. ProducedTo(t, t.b)'
    BY <1>1, <2>1, <2>3 DEF ProducedTo
  <2> QED
    BY <1>1, <1>2, <1>4, <2>4 DEF Produced, ProducedTo
<1> QED
  BY <1>3, <1>4

\* A worker that does nothing, while nobody writes into its part.
LEMMA JobStays ==
  ASSUME UNCHANGED <<pass, window>>, NEW v \in Workers, MyTask(v) \in TaskRecord,
         countCursor[v] \in Ranges,
         job'[v] = job[v], consumed'[v] = consumed[v], left'[v] = left[v],
         sum'[v] = sum[v], countCursor'[v] = countCursor[v],
         sourceCursor'[v] = sourceCursor[v], countBuffer'[v] = countBuffer[v],
         sourceBuffer'[v] = sourceBuffer[v],
         \A d \in Territory(MyTask(v)) : output'[d] = output[d],
         JobOk(v)
  PROVE  JobOk(v)'
<1>1. /\ \A first, n : TermsFrom(first, n)' = TermsFrom(first, n)
      /\ MyTask(v)' = MyTask(v)
  BY DEF TermsFrom, MyTask, Task
<1>2. PICK t : t = MyTask(v)
  OBVIOUS
<1>3. CASE t.tag = "hub_slice"
  BY <1>1, <1>2, <1>3 DEF JobOk, SliceInv
<1>4. CASE t.tag # "hub_slice"
  <2>1. OrdinaryInv(v)
    BY <1>2, <1>4 DEF JobOk
  <2>2. PICK p : p = countCursor[v].position
    OBVIOUS
  <2>3. t.a \in Nat /\ t.b \in Nat /\ p \in Nat
    BY <1>2, <2>2, RecordTyped DEF Ranges
  <2>4. p <= t.b /\ ProducedTo(t, p - 1)
    BY <1>2, <2>1, <2>2 DEF OrdinaryInv, Reads
  <2>5. ASSUME NEW k \in 0 .. (p - 1) - 1 PROVE output'[t.a + k] = output[t.a + k]
    <3>1. t.a + k \in t.a .. t.a + t.b - 1
      BY <2>3, <2>4
    <3> QED
      BY <1>2, <1>4, <3>1 DEF Territory
  <2>6. ProducedTo(t, p - 1)'
    BY <1>1, <2>4, <2>5 DEF ProducedTo
  <2>7. OrdinaryInv(v)'
    <3>1. ProducedTo(MyTask(v), countCursor[v].position - 1)'
      BY <1>1, <1>2, <2>2, <2>6 DEF ProducedTo
    <3> QED
      BY <1>1, <1>2, <2>1, <2>2, <3>1 DEF OrdinaryInv
  <2> QED
    BY <1>1, <1>2, <1>4, <2>7 DEF JobOk
<1> QED
  BY <1>3, <1>4

\* Where the pass is settled, nobody writes during a wave.
LEMMA WaveSettled ==
  ASSUME IInv, place = "wave",
         UNCHANGED <<place, pass, window, slot, structure, reduction>>,
         \A d \in Vertices : d < window[1].a => output'[d] = output[d]
  PROVE  SettledInv'
<1>1. Len(window) \in 1 .. WindowRecords
  BY DEF IInv, WindowInv, InWindow
<1>2. Frontier = CursorAt(window[1]) /\ Frontier' = CursorAt(window[1])
  BY <1>1 DEF Frontier, Validated
<1>3. PICK f : f = CursorAt(window[1])
  OBVIOUS
<1>4. Settled(f) /\ f.next_destination = window[1].a
  BY <1>2, <1>3 DEF IInv, SettledInv, CursorAt
<1>5. window[1].a \in Nat /\ window[1].a <= vertex_count
  <2>1. window[1] \in TaskRecord
    BY <1>1 DEF IInv, Typed
  <2> QED
    BY <1>4, <2>1, RecordTyped DEF Settled
<1>6. ASSUME NEW d \in 0 .. f.next_destination - 1 PROVE Whole(d)'
  <2>1. d \in Vertices /\ d < window[1].a
    BY <1>4, <1>5, VerticesAre
  <2>2. Whole(d) /\ output'[d] = output[d]
    BY <1>4, <2>1 DEF Settled
  <2> QED
    BY <2>2 DEF Whole, Terms
<1>7. \A first, n : TermsFrom(first, n)' = TermsFrom(first, n)
  BY DEF TermsFrom
<1>8. Settled(f)'
  BY <1>4, <1>6, <1>7 DEF Settled
<1>9. Settled(Frontier)'
  BY <1>2, <1>3, <1>8 DEF Settled
<1> QED
  BY <1>9 DEF SettledInv

\* What has to be shown of a step of a worker that has a job.
LEMMA WorkerKeeps ==
  ASSUME IInv, NEW w \in Workers, Running(w),
         UNCHANGED <<place, pass, task_index, window, slot, structure, reduction,
                     jobs, throwing, ran>>,
         Typed', WorkerTyped',
         job' = job \/ job' = [job EXCEPT ![w] = NoSlot],
         \A v \in Workers : v # w =>
           /\ consumed'[v] = consumed[v] /\ left'[v] = left[v] /\ sum'[v] = sum[v]
           /\ countCursor'[v] = countCursor[v] /\ sourceCursor'[v] = sourceCursor[v]
           /\ countBuffer'[v] = countBuffer[v] /\ sourceBuffer'[v] = sourceBuffer[v],
         \A d \in Vertices : output'[d] = output[d] \/ d \in Territory(MyTask(w)),
         \A j \in Slots : j # job[w] => partials'[j] = partials[j],
         job' = job => JobOk(w)',
         NEW mine, mine = job[w],
         job' # job => Produced(mine)' \/ mine \in throwing
  PROVE  IInv'
<1>1. /\ place = "wave" /\ \A v \in Workers : job[v] \in 0 .. WindowRecords
      /\ \A v \in Workers : Running(v) => job[v] \in 0 .. Len(window) - 1
  <2>1. \A v \in Workers : job[v] \in Nat /\ job[v] \in 0 .. WindowRecords
    BY TraversalConstants DEF IInv, WorkerTyped
  <2>2. place = "wave"
    BY DEF IInv, WaveInv
  <2>3. \A v \in Workers : Running(v) => job[v] < Len(window)
    BY DEF IInv, WaveInv
  <2>4. Len(window) \in Nat
    BY DEF IInv, Typed
  <2> QED
    BY <2>1, <2>2, <2>3, <2>4
<1>2. \A v \in Workers : v # w => job'[v] = job[v]
  BY DEF IInv, WorkerTyped
<1>3. job' # job => job'[w] = NoSlot
  BY DEF IInv, WorkerTyped
<1>4. WindowInv'
  BY DEF IInv, WindowInv, InWindow, Validated
<1>5. \A v \in Workers : Running(v)' => Running(v) /\ job'[v] = job[v]
  BY <1>2, <1>3 DEF Running
<1>6. WaveInv'
  <2>1. \A j : Contradicts(Task(j))' <=> Contradicts(Task(j))
    BY DEF Contradicts, Task
  <2>2. \A v \in Workers :
          Running(v)' => place' = "wave" /\ job'[v] < Len(window') /\ ran'[job'[v]] = 1
    BY <1>1, <1>5 DEF IInv, WaveInv
  <2>3. ASSUME NEW u \in Workers, NEW v \in Workers, u # v, Running(u)'
        PROVE  job'[u] # job'[v]
    <3>1. Running(u) /\ job'[u] = job[u] /\ job[u] # job[v]
      BY <1>5, <2>3 DEF IInv, WaveInv
    <3>2. CASE v = w /\ job' # job
      BY <1>3, <2>3, <3>2 DEF Running
    <3>3. CASE v # w \/ job' = job
      BY <1>2, <3>1, <3>3
    <3> QED
      BY <3>2, <3>3
  <2> QED
    BY <1>1, <2>1, <2>2, <2>3 DEF IInv, WaveInv
<1>7. ASSUME NEW j \in 0 .. Len(window) - 1, j # job[w]
      PROVE  \A d \in Territory(Task(j)) : output'[d] = output[d]
  <2>1. Territory(Task(j)) \intersect Territory(Task(job[w])) = {}
    BY <1>1, <1>7, TerritoriesAreDisjoint
  <2>2. \A d \in Territory(Task(j)) : d \in Vertices
    BY <1>1, TaskOfWave
  <2> QED
    BY <2>1, <2>2 DEF MyTask
<1>8. JobInv'
  <2> SUFFICES ASSUME NEW v \in Workers, Running(v)' PROVE JobOk(v)'
    BY DEF JobInv
  <2>1. Running(v) /\ job'[v] = job[v] /\ JobOk(v)
    BY <1>5 DEF IInv, JobInv
  <2>2. CASE v = w
    <3>1. job' = job
      BY <1>3, <2>2 DEF Running
    <3> QED
      BY <2>2, <3>1
  <2>3. CASE v # w
    <3>1. job[v] \in 0 .. Len(window) - 1 /\ job[v] # job[w]
      BY <1>1, <2>1, <2>3 DEF IInv, WaveInv
    <3>2. \A d \in Territory(MyTask(v)) : output'[d] = output[d]
      BY <1>7, <3>1 DEF MyTask
    <3>3. MyTask(v) \in TaskRecord
      BY <1>1, <3>1, TaskOfWave DEF MyTask
    <3>4. countCursor[v] \in Ranges
      BY DEF IInv, WorkerTyped
    <3>5. /\ consumed'[v] = consumed[v] /\ left'[v] = left[v] /\ sum'[v] = sum[v]
          /\ countCursor'[v] = countCursor[v] /\ sourceCursor'[v] = sourceCursor[v]
          /\ countBuffer'[v] = countBuffer[v] /\ sourceBuffer'[v] = sourceBuffer[v]
      BY <2>3
    <3> QED
      BY <2>1, <3>2, <3>3, <3>4, <3>5, JobStays
  <2> QED
    BY <2>2, <2>3
<1>9. WorkInv'
  <2> SUFFICES ASSUME NEW j \in 0 .. Len(window) - 1, ran[j] = 1, j \notin throwing,
                      \A v \in Workers : job'[v] # j
               PROVE  Produced(j)'
    BY <1>1 DEF WorkInv
  <2>1. CASE j = job[w]
    <3>1. job' # job
      BY <2>1
    <3> QED
      BY <2>1, <3>1
  <2>2. CASE j # job[w]
    <3>1. \A v \in Workers : job[v] # j
      BY <1>2, <2>2
    <3>2. Produced(j)
      BY <1>1, <3>1 DEF IInv, WorkInv
    <3>3. j \in Slots /\ Task(j) \in TaskRecord
      BY <1>1, TaskOfWave
    <3>4. partials'[j] = partials[j]
      BY <2>2, <3>3
    <3>5. \A d \in Territory(Task(j)) : output'[d] = output[d]
      BY <1>7, <2>2
    <3> QED
      BY <3>2, <3>3, <3>4, <3>5, ProducedStays
  <2> QED
    BY <2>1, <2>2
<1>10. SettledInv'
  <2>1. ASSUME NEW d \in Vertices, d < window[1].a PROVE output'[d] = output[d]
    <3>1. Len(window) \in 1 .. WindowRecords /\ window[1] \in TaskRecord
      BY <1>1 DEF IInv, Typed, WindowInv, InWindow
    <3>2. d \in Nat /\ window[1].a \in Nat
      BY <3>1, RecordTyped, VerticesAre
    <3>3. d \notin Territory(MyTask(w))
      BY <1>1, <2>1, <3>2, TaskOfWave DEF MyTask
    <3> QED
      BY <3>3
  <2> QED
    BY <1>1, <2>1, WaveSettled
<1> QED
  BY <1>4, <1>6, <1>8, <1>9, <1>10 DEF IInv

LEMMA StartJobKeeps ==
  ASSUME IInv, NEW w \in Workers, NEW j \in Slots, StartJob(w, j)
  PROVE  IInv'
<1>1. PICK t : t = Task(j)
  OBVIOUS
<1>2. /\ place = "wave" /\ ~Running(w)
      /\ job' = [job EXCEPT ![w] = j]
      /\ consumed' = [consumed EXCEPT ![w] = 0]
      /\ left' = [left EXCEPT ![w] = IF t.tag = "hub_slice" THEN t.edge_count ELSE 0]
      /\ sum' = [sum EXCEPT ![w] = <<>>]
      /\ countCursor' = [countCursor EXCEPT ![w] =
           IF t.tag = "hub_slice" THEN NoRange ELSE Records(t.a, t.b)]
      /\ sourceCursor' = [sourceCursor EXCEPT ![w] = Records(t.edge_begin, t.edge_count)]
      /\ UNCHANGED <<place, pass, task_index, window, slot, structure, reduction,
                     output, partials, countBuffer, sourceBuffer>>
  BY <1>1 DEF StartJob, passVars, hubVars
<1>3. /\ j < jobs /\ ran[j] = 0 /\ ran' = [ran EXCEPT ![j] = 1]
      /\ UNCHANGED <<jobs, throwing>>
  BY DEF StartJob, Wave!RunJob
<1>4. j \in 0 .. Len(window) - 1 /\ Len(window) \in 1 .. WindowRecords
  <2>1. jobs = Len(window) /\ Len(window) \in 1 .. WindowRecords
    BY <1>2 DEF IInv, WaveInv, WindowInv, InWindow
  <2> QED
    BY <1>3, <2>1 DEF Slots
<1>5. /\ t \in TaskRecord /\ Bounded(t) /\ Shaped(t)
      /\ t.tag \in {"ordinary", "hub_slice"} /\ t.a \in Nat /\ t.b \in Nat
      /\ t.edge_begin \in Nat /\ t.edge_count \in Nat
  BY <1>1, <1>2, <1>4, TaskOfWave, RecordTyped
<1>6. /\ Records(t.edge_begin, t.edge_count) \in Ranges
      /\ \A buffer : Reads(Records(t.edge_begin, t.edge_count), buffer, Sources,
                           SourceBatch)
      /\ Records(t.edge_begin, t.edge_count).begin = t.edge_begin
      /\ Records(t.edge_begin, t.edge_count).count = t.edge_count
      /\ Records(t.edge_begin, t.edge_count).position = 0
  <2>1. t.edge_begin + t.edge_count <= Len(Sources)
    BY <1>5, SourcesTyped DEF Bounded
  <2>2. t.edge_begin \in Nat /\ t.edge_count \in Nat /\ SourceBatch \in Nat
    BY <1>5, TraversalConstants
  <2>3. Fresh(Records(t.edge_begin, t.edge_count), t.edge_begin, t.edge_count,
              Sources, SourceBatch)
    BY ONLY <2>1, <2>2, FreshRange
  <2> QED
    BY ONLY <2>3 DEF Fresh
<1>7. t.tag = "ordinary" =>
        /\ Records(t.a, t.b) \in Ranges
        /\ \A buffer : Reads(Records(t.a, t.b), buffer, Counts, CountBatch)
        /\ Records(t.a, t.b).begin = t.a /\ Records(t.a, t.b).count = t.b
        /\ Records(t.a, t.b).position = 0
  <2> SUFFICES ASSUME t.tag = "ordinary"
               PROVE  /\ Records(t.a, t.b) \in Ranges
                      /\ \A buffer : Reads(Records(t.a, t.b), buffer, Counts, CountBatch)
                      /\ Records(t.a, t.b).begin = t.a /\ Records(t.a, t.b).count = t.b
                      /\ Records(t.a, t.b).position = 0
    OBVIOUS
  <2>1. t.a + t.b <= Len(Counts)
    BY <1>5, TraversalConstants DEF Bounded
  <2>2. t.a \in Nat /\ t.b \in Nat /\ CountBatch \in Nat
    BY <1>5, TraversalConstants
  <2>3. Fresh(Records(t.a, t.b), t.a, t.b, Counts, CountBatch)
    BY ONLY <2>1, <2>2, FreshRange
  <2> QED
    BY ONLY <2>3 DEF Fresh
<1>8. Typed'
  <2>1. ran' \in [Slots -> {0, 1}]
    BY <1>3 DEF IInv, Typed
  <2> QED
    BY <1>2, <2>1 DEF IInv, Typed
<1>9. WorkerTyped'
  <2>1. job' \in [Workers -> 0 .. WindowRecords]
    <3>1. j \in 0 .. WindowRecords
      BY <1>4, TraversalConstants
    <3> QED
      BY <1>2, <3>1 DEF IInv, WorkerTyped
  <2>2. consumed' \in [Workers -> Nat] /\ left' \in [Workers -> Nat]
    BY <1>2, <1>5 DEF IInv, WorkerTyped
  <2>3. sum' \in [Workers -> Seq(Term)]
    <3>1. <<>> \in Seq(Term)
      OBVIOUS
    <3> QED
      BY <1>2, <3>1 DEF IInv, WorkerTyped
  <2>4. countCursor' \in [Workers -> Ranges]
    <3>1. NoRange \in Ranges
      BY DEF NoRange, Ranges
    <3> QED
      BY <1>2, <1>5, <1>7, <3>1 DEF IInv, WorkerTyped
  <2>5. sourceCursor' \in [Workers -> Ranges]
    BY <1>2, <1>6 DEF IInv, WorkerTyped
  <2> QED
    BY <1>2, <2>1, <2>2, <2>3, <2>4, <2>5 DEF IInv, WorkerTyped
<1>10. job'[w] = j /\ \A v \in Workers : v # w => job'[v] = job[v]
  BY <1>2 DEF IInv, WorkerTyped
<1>11. \A v \in Workers : Running(v) => job[v] # j
  BY <1>3 DEF IInv, WaveInv
<1>12. WindowInv'
  BY <1>2 DEF IInv, WindowInv, InWindow, Validated
<1>13. WaveInv'
  <2>1. \A k : Contradicts(Task(k))' <=> Contradicts(Task(k))
    BY <1>2 DEF Contradicts, Task
  <2>2. ASSUME NEW v \in Workers, Running(v)'
        PROVE  job'[v] < Len(window) /\ ran'[job'[v]] = 1
    <3>1. CASE v = w
      BY <1>3, <1>4, <1>10, <3>1 DEF IInv, Typed
    <3>2. CASE v # w
      <4>1. Running(v) /\ job'[v] = job[v]
        BY <1>10, <2>2, <3>2 DEF Running
      <4>2. job[v] < Len(window) /\ ran[job[v]] = 1 /\ job[v] \in Nat
        BY <4>1, TraversalConstants DEF IInv, WaveInv, WorkerTyped
      <4>3. job[v] \in Slots
        BY <1>4, <4>2, TraversalConstants DEF Slots
      <4> QED
        BY <1>3, <4>1, <4>2, <4>3 DEF IInv, Typed
    <3> QED
      BY <3>1, <3>2
  <2>3. ASSUME NEW u \in Workers, NEW v \in Workers, u # v, Running(u)'
        PROVE  job'[u] # job'[v]
    <3>1. j # NoSlot
      BY <1>4, TraversalConstants DEF NoSlot
    <3>2. CASE u = w
      <4>1. job[v] # j
        BY <1>11, <3>1 DEF Running
      <4> QED
        BY <1>10, <2>3, <3>2, <4>1
    <3>3. CASE v = w
      <4>1. Running(u)
        BY <1>10, <2>3, <3>3 DEF Running
      <4> QED
        BY <1>10, <1>11, <2>3, <3>3, <4>1
    <3>4. CASE u # w /\ v # w
      <4>1. Running(u)
        BY <1>10, <2>3, <3>4 DEF Running
      <4> QED
        BY <1>10, <2>3, <3>4, <4>1 DEF IInv, WaveInv
    <3> QED
      BY <3>2, <3>3, <3>4
  <2> QED
    BY <1>2, <1>3, <2>1, <2>2, <2>3 DEF IInv, WaveInv
<1>14. WorkInv'
  <2> SUFFICES ASSUME NEW k \in 0 .. Len(window) - 1, ran'[k] = 1, k \notin throwing,
                      \A v \in Workers : job'[v] # k
               PROVE  Produced(k)'
    BY <1>2, <1>3 DEF WorkInv
  <2>1. k # j /\ k \in Slots
    BY <1>2, <1>10, TaskOfWave
  <2>2. ran[k] = 1
    BY <1>3, <2>1 DEF IInv, Typed
  <2>3. \A v \in Workers : job[v] # k
    <3>1. k # NoSlot
      BY <1>4, TraversalConstants DEF NoSlot
    <3> QED
      BY <1>2, <1>10, <3>1 DEF Running
  <2>4. Produced(k) /\ Task(k) \in TaskRecord
    BY <1>2, <2>2, <2>3, TaskOfWave DEF IInv, WorkInv
  <2> QED
    BY <1>2, <2>4, ProducedStays
<1>15. JobInv'
  <2> SUFFICES ASSUME NEW v \in Workers, Running(v)' PROVE JobOk(v)'
    BY DEF JobInv
  <2>1. CASE v = w
    <3>1. MyTask(v)' = t
      BY <1>1, <1>2, <1>10, <2>1 DEF MyTask, Task
    <3>2. /\ consumed'[v] = 0 /\ sum'[v] = <<>>
          /\ left'[v] = IF t.tag = "hub_slice" THEN t.edge_count ELSE 0
          /\ sourceCursor'[v] = Records(t.edge_begin, t.edge_count)
          /\ t.tag = "ordinary" => countCursor'[v] = Records(t.a, t.b)
      BY <1>2, <2>1 DEF IInv, WorkerTyped
    <3>3. \A first : TermsFrom(first, 0)' = <<>>
      BY DEF TermsFrom
    <3>4. t.tag = "hub_slice" => SliceInv(v)'
      BY <1>5, <1>6, <3>1, <3>2, <3>3 DEF SliceInv
    <3>5. t.tag = "ordinary" => OrdinaryInv(v)'
      <4> SUFFICES ASSUME t.tag = "ordinary" PROVE OrdinaryInv(v)'
        OBVIOUS
      <4>1. /\ countCursor'[v].begin = t.a /\ countCursor'[v].count = t.b
            /\ countCursor'[v].position = 0
            /\ Reads(countCursor[v], countBuffer[v], Counts, CountBatch)'
        BY <1>7, <3>2 DEF Reads
      <4>2. E(t.a) \in Nat
        <5>1. t.a \in 0 .. vertex_count
          BY <1>5, TraversalConstants DEF Bounded
        <5> QED
          BY <5>1, EdgesOfGraph
      <4>3. t.a + 0 = t.a /\ E(t.a) - E(t.a) = 0 /\ 0 <= t.edge_count /\ left'[v] = 0
        BY <1>5, <3>2, <4>2
      <4>4. ProducedTo(t, 0 - 1)'
        BY DEF ProducedTo
      <4>5. ProducedTo(MyTask(v), countCursor[v].position - 1)'
        BY <3>1, <4>1, <4>4 DEF ProducedTo
      <4> QED
        BY <1>6, <3>1, <3>2, <4>1, <4>3, <4>5 DEF OrdinaryInv
    <3>6. Reads(sourceCursor[v], sourceBuffer[v], Sources, SourceBatch)'
      BY <1>6, <3>2 DEF Reads
    <3> QED
      BY <1>5, <1>6, <3>1, <3>2, <3>4, <3>5, <3>6 DEF JobOk
  <2>2. CASE v # w
    <3>1. Running(v) /\ job'[v] = job[v] /\ JobOk(v)
      BY <1>10, <2>2 DEF IInv, JobInv, Running
    <3>2. MyTask(v) \in TaskRecord
      <4>1. job[v] \in 0 .. Len(window) - 1
        <5>1. job[v] < Len(window) /\ job[v] \in Nat
          BY <3>1, TraversalConstants DEF IInv, WaveInv, WorkerTyped
        <5> QED
          BY <1>4, <5>1
      <4> QED
        BY <1>2, <4>1, TaskOfWave DEF MyTask
    <3>3. countCursor[v] \in Ranges
      BY DEF IInv, WorkerTyped
    <3>4. /\ consumed'[v] = consumed[v] /\ left'[v] = left[v] /\ sum'[v] = sum[v]
          /\ countCursor'[v] = countCursor[v] /\ sourceCursor'[v] = sourceCursor[v]
          /\ countBuffer'[v] = countBuffer[v] /\ sourceBuffer'[v] = sourceBuffer[v]
      BY <1>2, <2>2 DEF IInv, WorkerTyped
    <3> QED
      BY <1>2, <3>1, <3>2, <3>3, <3>4, JobStays
  <2> QED
    BY <2>1, <2>2
<1>16. SettledInv'
  BY <1>2, WaveSettled
<1> QED
  BY <1>8, <1>9, <1>12, <1>13, <1>14, <1>15, <1>16 DEF IInv

\* What a worker's task and position are, whatever it does next.
LEMMA AtWork ==
  ASSUME IInv, NEW w \in Workers, Running(w)
  PROVE  /\ place = "wave" /\ job[w] \in 0 .. Len(window) - 1 /\ job[w] \in Slots
         /\ MyTask(w) \in TaskRecord /\ Bounded(MyTask(w)) /\ Shaped(MyTask(w))
         /\ JobOk(w) /\ left[w] \in Nat /\ consumed[w] \in Nat /\ sum[w] \in Seq(Term)
         /\ countCursor[w] \in Ranges /\ sourceCursor[w] \in Ranges
         /\ countBuffer[w] \in [1 .. CountBatch -> Nat]
         /\ sourceBuffer[w] \in [1 .. SourceBatch -> Nat]
<1>1. place = "wave" /\ JobOk(w) /\ job[w] < Len(window)
  BY DEF IInv, WaveInv, JobInv
<1>2. /\ left[w] \in Nat /\ consumed[w] \in Nat /\ sum[w] \in Seq(Term)
      /\ countCursor[w] \in Ranges /\ sourceCursor[w] \in Ranges
      /\ countBuffer[w] \in [1 .. CountBatch -> Nat]
      /\ sourceBuffer[w] \in [1 .. SourceBatch -> Nat]
      /\ job[w] \in 0 .. WindowRecords
  BY DEF IInv, WorkerTyped
<1>3. job[w] \in 0 .. Len(window) - 1
  <2>1. Len(window) \in Nat /\ job[w] \in Nat
    BY <1>2, TraversalConstants DEF IInv, Typed
  <2> QED
    BY <1>1, <2>1
<1> QED
  BY <1>1, <1>2, <1>3, TaskOfWave DEF MyTask

LEMMA ConsumeSourceKeeps ==
  ASSUME IInv, NEW w \in Workers, ConsumeSource(w)
  PROVE  IInv'
<1>1. PICK t, cursor, next, read :
        /\ t = MyTask(w) /\ cursor = sourceCursor[w]
        /\ next = Advanced(cursor, SourceBatch)
        /\ read = Refilled(cursor, sourceBuffer[w], Sources)
  OBVIOUS
<1>2. /\ Running(w) /\ left[w] > 0
      /\ sourceBuffer' = [sourceBuffer EXCEPT ![w] = read]
      /\ sourceCursor' = [sourceCursor EXCEPT ![w] = next]
      /\ sum' = [sum EXCEPT ![w] = Append(@, <<pass, read[next.at]>>)]
      /\ left' = [left EXCEPT ![w] = @ - 1]
      /\ UNCHANGED <<place, pass, task_index, window, slot, structure, reduction,
                     output, partials, jobs, throwing, ran, job, consumed,
                     countCursor, countBuffer>>
  BY <1>1 DEF ConsumeSource, BufferOf, passVars, hubVars, waveVars
<1>3. /\ t \in TaskRecord /\ t.tag \in {"ordinary", "hub_slice"}
      /\ t.a \in Nat /\ t.b \in Nat /\ t.edge_begin \in Nat /\ t.edge_count \in Nat
      /\ left[w] \in Nat /\ consumed[w] \in Nat
      /\ Bounded(t) /\ JobOk(w) /\ cursor \in Ranges /\ countCursor[w] \in Ranges
  BY <1>1, <1>2, AtWork, RecordTyped
<1>4. sourceBuffer[w] \in [1 .. SourceBatch -> Nat] /\ sum[w] \in Seq(Term)
  BY <1>2, AtWork
<1>5. /\ cursor.begin = t.edge_begin /\ cursor.count = t.edge_count
      /\ Reads(cursor, sourceBuffer[w], Sources, SourceBatch)
      /\ IF t.tag = "hub_slice" THEN SliceInv(w) ELSE OrdinaryInv(w)
  BY <1>1, <1>3 DEF JobOk
<1>6. cursor.position \in Nat
  BY <1>3 DEF Ranges
<1>7. cursor.position + left[w] <= t.edge_count
  <2>1. CASE t.tag = "hub_slice"
    BY <1>1, <1>3, <1>5, <1>6, <2>1 DEF SliceInv
  <2>2. CASE t.tag # "hub_slice"
    BY <1>1, <1>3, <1>5, <1>6, <2>2 DEF OrdinaryInv
  <2> QED
    BY <2>1, <2>2
<1>8. /\ next \in Ranges /\ read \in [1 .. SourceBatch -> Nat]
      /\ Reads(next, read, Sources, SourceBatch)
      /\ next.begin = cursor.begin /\ next.count = cursor.count
      /\ next.position = cursor.position + 1
      /\ read[next.at] = Sources[cursor.begin + cursor.position + 1]
  <2>1. cursor.position < cursor.count
    BY <1>2, <1>3, <1>5, <1>6, <1>7
  <2>2. SourceBatch \in Nat /\ SourceBatch > 0 /\ Sources \in Seq(Nat)
    BY Sizes, SourcesTyped
  <2>3. Reading(cursor, sourceBuffer[w], Sources, SourceBatch)
    BY <1>3, <1>4, <1>5, <2>2 DEF Reading
  <2>4. /\ Reading(next, read, Sources, SourceBatch)
        /\ next.begin = cursor.begin /\ next.count = cursor.count
        /\ next.position = cursor.position + 1
        /\ read[next.at] = Sources[cursor.begin + cursor.position + 1]
    BY ONLY <1>1, <2>1, <2>3, NextRecord
  <2> QED
    BY <2>4 DEF Reading
<1>9. read[next.at] = t.edge_begin + cursor.position
  <2>1. t.edge_begin + cursor.position + 1 \in 1 .. edge_count
    BY SMTT(30), <1>2, <1>3, <1>6, <1>7, Sizes DEF Bounded
  <2> QED
    BY <1>3, <1>5, <1>6, <1>8, <2>1, SourcesTyped
<1>10. /\ left'[w] = left[w] - 1 /\ sourceCursor'[w] = next /\ sourceBuffer'[w] = read
      /\ sum'[w] = Append(sum[w], <<pass, t.edge_begin + cursor.position>>)
  BY <1>2, <1>9 DEF IInv, WorkerTyped
<1>11. left'[w] = left[w] - 1 /\ next.position = cursor.position + 1
  BY <1>8, <1>10
<1>12. Typed'
  BY <1>2 DEF IInv, Typed
<1>13. WorkerTyped'
  <2>1. left[w] - 1 \in Nat
    BY <1>2, <1>3
  <2>2. Append(sum[w], <<pass, read[next.at]>>) \in Seq(Term)
    <3>1. <<pass, read[next.at]>> \in Term
      BY <1>3, <1>6, <1>9 DEF IInv, Typed, Term
    <3> QED
      BY <1>4, <3>1, AppendProperties
  <2>3. left' \in [Workers -> Nat] /\ sum' \in [Workers -> Seq(Term)]
    BY <1>2, <2>1, <2>2 DEF IInv, WorkerTyped
  <2>4. sourceCursor' \in [Workers -> Ranges]
    BY <1>2, <1>8 DEF IInv, WorkerTyped
  <2>5. sourceBuffer' \in [Workers -> [1 .. SourceBatch -> Nat]]
    BY <1>2, <1>8 DEF IInv, WorkerTyped
  <2> QED
    BY <1>2, <2>3, <2>4, <2>5 DEF IInv, WorkerTyped
<1>14. JobOk(w)'
  <2>1. MyTask(w)' = t /\ \A first, n : TermsFrom(first, n)' = TermsFrom(first, n)
    BY <1>1, <1>2 DEF MyTask, Task, TermsFrom
  <2>2. Reads(sourceCursor[w], sourceBuffer[w], Sources, SourceBatch)'
    BY <1>8, <1>10 DEF Reads
  <2>3. t.tag = "hub_slice" => SliceInv(w)'
    <3> SUFFICES ASSUME t.tag = "hub_slice" PROVE SliceInv(w)'
      OBVIOUS
    <3>1. /\ left[w] + cursor.position = t.edge_count
          /\ sum[w] = TermsFrom(t.edge_begin, cursor.position)
      BY <1>1, <1>5 DEF SliceInv
    <3>2. sum'[w] = TermsFrom(t.edge_begin, cursor.position + 1)
      <4>1. t.edge_begin \in Nat /\ cursor.position \in Nat
        BY <1>3, <1>6
      <4>2. Append(TermsFrom(t.edge_begin, cursor.position),
                   <<pass, t.edge_begin + cursor.position>>)
              = TermsFrom(t.edge_begin, cursor.position + 1)
        BY ONLY <4>1, TermsAppend
      <4> QED
        BY ONLY <1>10, <3>1, <4>2
    <3>3. left'[w] + next.position = t.edge_count
      BY <1>3, <1>6, <1>11, <3>1
    <3> QED
      BY <1>8, <1>10, <2>1, <3>2, <3>3 DEF SliceInv
  <2>4. t.tag # "hub_slice" => OrdinaryInv(w)'
    <3> SUFFICES ASSUME t.tag # "hub_slice" PROVE OrdinaryInv(w)'
      OBVIOUS
    <3>1. PICK p : p = countCursor[w].position
      OBVIOUS
    <3>2. /\ Reads(countCursor[w], countBuffer[w], Counts, CountBatch)
          /\ countCursor[w].begin = t.a /\ countCursor[w].count = t.b
          /\ consumed[w] = E(t.a + p) - E(t.a) /\ consumed[w] <= t.edge_count
          /\ cursor.position + left[w] = consumed[w]
          /\ ProducedTo(t, p - 1) /\ p > 0
          /\ left[w] <= Counts[t.a + p]
          /\ sum[w] = TermsFrom(t.edge_begin + E(t.a + p - 1) - E(t.a),
                                Counts[t.a + p] - left[w])
      <4>1. p \in Nat
        BY <1>3, <3>1 DEF Ranges
      <4> QED
        BY <1>1, <1>2, <1>3, <1>5, <3>1, <4>1 DEF OrdinaryInv
    <3>3. /\ p \in Nat /\ t.a + p - 1 \in Nat /\ t.a + p - 1 < vertex_count
          /\ (t.a + p - 1) + 1 = t.a + p /\ t.a \in 0 .. vertex_count
      <4>1. p \in Nat /\ p <= t.b
        BY <1>3, <3>1, <3>2 DEF Ranges, Reads
      <4>2. t.a + t.b <= vertex_count
        BY <1>3 DEF Bounded
      <4> QED
        BY <1>3, <3>2, <4>1, <4>2, Sizes
    <3>4. /\ E(t.a) \in Nat /\ E(t.a + p - 1) \in Nat /\ Counts[t.a + p] \in Nat
          /\ E(t.a + p) = E(t.a + p - 1) + Counts[t.a + p]
          /\ E(t.a) <= E(t.a + p - 1)
      <4>1. t.a + p - 1 \in 0 .. vertex_count /\ t.a <= t.a + p - 1
        BY <1>3, <3>2, <3>3, Sizes
      <4> QED
        BY <3>3, <4>1, EdgesOfDestination, EdgesOfGraph
    <3>5. PICK first, n : /\ first = t.edge_begin + E(t.a + p - 1) - E(t.a)
                          /\ n = Counts[t.a + p] - left[w]
      OBVIOUS
    <3>6. first \in Nat /\ n \in Nat /\ first + n = t.edge_begin + cursor.position
          /\ n + 1 = Counts[t.a + p] - left'[w]
      <4>1. first \in Nat /\ n \in Nat
        BY <1>3, <3>2, <3>4, <3>5
      <4>2. first + n = t.edge_begin + cursor.position
        BY <1>3, <1>6, <3>2, <3>4, <3>5
      <4>3. n + 1 = Counts[t.a + p] - left'[w]
        BY <1>3, <1>11, <3>4, <3>5
      <4> QED
        BY <4>1, <4>2, <4>3
    <3>7. sum'[w] = TermsFrom(first, n + 1)
      BY <1>10, <3>2, <3>5, <3>6, TermsAppend
    <3>8. /\ next.position + left'[w] = consumed[w] /\ left'[w] <= Counts[t.a + p]
      BY <1>3, <1>6, <1>11, <3>2, <3>4
    <3>9. ProducedTo(MyTask(w), countCursor[w].position - 1)'
      BY <1>2, <2>1, <3>1, <3>2 DEF ProducedTo
    <3>10. Reads(countCursor[w], countBuffer[w], Counts, CountBatch)'
      BY <1>2, <3>2 DEF Reads
    <3>11. countCursor'[w] = countCursor[w] /\ consumed'[w] = consumed[w]
      BY <1>2
    <3>12. /\ countCursor'[w].begin = t.a /\ countCursor'[w].count = t.b
           /\ countCursor'[w].position = p
           /\ consumed'[w] = E(t.a + p) - E(t.a) /\ consumed'[w] <= t.edge_count
           /\ sourceCursor'[w].position + left'[w] = consumed'[w]
           /\ left'[w] <= Counts[t.a + p]
      BY <1>10, <3>1, <3>2, <3>8, <3>11
    <3>13. sum'[w] = TermsFrom(t.edge_begin + E(t.a + p - 1) - E(t.a),
                               Counts[t.a + p] - left'[w])
      BY <3>5, <3>6, <3>7
    <3> QED
      BY <2>1, <3>2, <3>9, <3>10, <3>12, <3>13 DEF OrdinaryInv
  <2> QED
    BY <1>5, <1>8, <1>10, <2>1, <2>2, <2>3, <2>4 DEF JobOk
<1>15. PICK mine : mine = job[w]
  OBVIOUS
<1> QED
  BY <1>2, <1>12, <1>13, <1>14, <1>15, WorkerKeeps

\* Once the sources of a worker's destinations up to its position p have been
\* read, the sums of the first p destinations of its task t are whole.
SummedTo(w, t, p) ==
  /\ p \in Nat /\ p <= t.b /\ t.a \in Nat /\ t.b \in Nat
  /\ t.a + t.b <= vertex_count
  /\ consumed[w] = E(t.a + p) - E(t.a)
  /\ WithSum(w) \in [Vertices -> Seq(Seq(Term))]
  /\ \A d \in Vertices : WithSum(w)[d] = output[d] \/ d \in Territory(t)
  /\ \A k \in 0 .. p - 1 :
       WithSum(w)[t.a + k] =
         <<TermsFrom(t.edge_begin + E(t.a + k) - E(t.a), Counts[t.a + k + 1])>>

LEMMA SumIsWhole ==
  ASSUME IInv, NEW w \in Workers, Running(w),
         MyTask(w).tag = "ordinary", left[w] = 0
  PROVE  SummedTo(w, MyTask(w), countCursor[w].position)
<1>0. PICK t, p : t = MyTask(w) /\ p = countCursor[w].position
  OBVIOUS
<1>1. /\ t \in TaskRecord /\ t.a \in Nat /\ t.b \in Nat /\ Bounded(t) /\ JobOk(w)
      /\ countCursor[w] \in Ranges
  BY <1>0, AtWork, RecordTyped
<1>2. OrdinaryInv(w)
  BY <1>0, <1>1 DEF JobOk
<1>3. p \in Nat /\ p <= t.b /\ t.a + t.b <= vertex_count
  BY <1>0, <1>1, <1>2 DEF Ranges, OrdinaryInv, Reads, Bounded
<1>4. /\ consumed[w] = E(t.a + p) - E(t.a) /\ ProducedTo(t, p - 1)
      /\ p > 0 => sum[w] = TermsFrom(t.edge_begin + E(t.a + p - 1) - E(t.a),
                                     Counts[t.a + p] - left[w])
  BY <1>0, <1>2 DEF OrdinaryInv
<1>5. output \in [Vertices -> Seq(Seq(Term))] /\ sum[w] \in Seq(Term)
  BY AtWork DEF IInv, Typed
<1>6. ASSUME p = 0 PROVE SummedTo(w, t, p)
  <2>1. WithSum(w) = output
    BY <1>0, <1>6 DEF WithSum
  <2> QED
    BY <1>1, <1>3, <1>4, <1>5, <1>6, <2>1 DEF SummedTo
<1>7. ASSUME p # 0 PROVE SummedTo(w, t, p)
  <2>1. PICK d : d = t.a + p - 1
    OBVIOUS
  <2>2. /\ d \in Vertices /\ d + 1 = t.a + p /\ d \in t.a .. t.a + t.b - 1
        /\ Counts[t.a + p] \in Nat
    <3>1. d \in Nat /\ d < vertex_count /\ d + 1 = t.a + p /\ d \in t.a .. t.a + t.b - 1
      BY <1>1, <1>3, <1>7, <2>1, Sizes
    <3> QED
      BY <3>1, EdgesOfDestination
  <2>3. WithSum(w) = [output EXCEPT ![d] = <<sum[w]>>]
    BY <1>0, <1>7, <2>1 DEF WithSum, Destination
  <2>4. WithSum(w)[d] = <<sum[w]>> /\ \A c \in Vertices : c # d => WithSum(w)[c] = output[c]
    BY <1>5, <2>2, <2>3
  <2>5. sum[w] = TermsFrom(t.edge_begin + E(d) - E(t.a), Counts[d + 1])
    <3>1. Counts[t.a + p] - left[w] = Counts[t.a + p]
      BY <2>2
    <3> QED
      BY <1>3, <1>4, <1>7, <2>1, <2>2, <3>1
  <2>6. ASSUME NEW k \in 0 .. p - 1
        PROVE  WithSum(w)[t.a + k] =
                 <<TermsFrom(t.edge_begin + E(t.a + k) - E(t.a), Counts[t.a + k + 1])>>
    <3>1. CASE k = p - 1
      <4>1. t.a + k = d
        BY <1>1, <1>3, <2>1, <3>1
      <4> QED
        BY <2>4, <2>5, <4>1
    <3>2. CASE k # p - 1
      <4>1. k \in 0 .. (p - 1) - 1 /\ t.a + k # d /\ t.a + k \in Nat
            /\ t.a + k < vertex_count
        BY <1>1, <1>3, <2>1, <3>2, Sizes
      <4>2. WithSum(w)[t.a + k] = output[t.a + k]
        BY <2>4, <4>1, VerticesAre
      <4> QED
        BY <1>4, <4>1, <4>2 DEF ProducedTo
    <3> QED
      BY <3>1, <3>2
  <2>7. WithSum(w) \in [Vertices -> Seq(Seq(Term))]
    <3>1. <<sum[w]>> \in Seq(Seq(Term))
      BY <1>5
    <3> QED
      BY <1>5, <2>3, <3>1
  <2>8. \A c \in Vertices : WithSum(w)[c] = output[c] \/ c \in Territory(t)
    BY <1>0, <2>2, <2>4 DEF Territory
  <2> QED
    BY <1>1, <1>3, <1>4, <2>6, <2>7, <2>8 DEF SummedTo
<1> QED
  BY <1>0, <1>6, <1>7

LEMMA NextDestinationOfKeeps ==
  ASSUME IInv, NEW w \in Workers, NextDestinationOf(w)
  PROVE  IInv'
<1>1. PICK t, cursor, next, read, count, p :
        /\ t = MyTask(w) /\ cursor = countCursor[w] /\ p = cursor.position
        /\ next = Advanced(cursor, CountBatch)
        /\ read = Refilled(cursor, countBuffer[w], Counts)
        /\ count = read[next.at]
  OBVIOUS
<1>2. /\ Running(w) /\ t.tag = "ordinary" /\ left[w] = 0 /\ p # cursor.count
      /\ count <= t.edge_count - consumed[w]
      /\ output' = WithSum(w)
      /\ countBuffer' = [countBuffer EXCEPT ![w] = read]
      /\ countCursor' = [countCursor EXCEPT ![w] = next]
      /\ consumed' = [consumed EXCEPT ![w] = @ + count]
      /\ left' = [left EXCEPT ![w] = count]
      /\ sum' = [sum EXCEPT ![w] = <<>>]
      /\ UNCHANGED <<place, pass, task_index, window, slot, structure, reduction,
                     partials, jobs, throwing, ran, job, sourceCursor, sourceBuffer>>
  BY <1>1 DEF NextDestinationOf, BufferOf, Exhausted, CountFits, passVars, hubVars,
              waveVars
<1>3. /\ t \in TaskRecord /\ t.a \in Nat /\ t.b \in Nat
      /\ t.edge_begin \in Nat /\ t.edge_count \in Nat /\ consumed[w] \in Nat
      /\ JobOk(w) /\ cursor \in Ranges
  BY <1>1, <1>2, AtWork, RecordTyped
<1>4. countBuffer[w] \in [1 .. CountBatch -> Nat]
  BY <1>2, AtWork
<1>5. /\ cursor.begin = t.a /\ cursor.count = t.b
      /\ sourceCursor[w].begin = t.edge_begin /\ sourceCursor[w].count = t.edge_count
      /\ Reads(cursor, countBuffer[w], Counts, CountBatch)
      /\ Reads(sourceCursor[w], sourceBuffer[w], Sources, SourceBatch)
      /\ sourceCursor[w].position + left[w] = consumed[w]
  BY <1>1, <1>2, <1>3 DEF JobOk, OrdinaryInv
<1>6. /\ p \in Nat /\ p <= t.b /\ t.a + t.b <= vertex_count
      /\ consumed[w] = E(t.a + p) - E(t.a)
      /\ WithSum(w) \in [Vertices -> Seq(Seq(Term))]
      /\ \A d \in Vertices : WithSum(w)[d] = output[d] \/ d \in Territory(t)
      /\ \A k \in 0 .. p - 1 :
           WithSum(w)[t.a + k] =
             <<TermsFrom(t.edge_begin + E(t.a + k) - E(t.a), Counts[t.a + k + 1])>>
  <2>1. SummedTo(w, t, p)
    BY ONLY IInv, <1>1, <1>2, SumIsWhole
  <2> QED
    BY <2>1 DEF SummedTo
<1>7. /\ p < t.b /\ t.a + p \in Nat /\ t.a + p < vertex_count /\ p + 1 \in Nat
      /\ t.a + (p + 1) = (t.a + p) + 1 /\ t.a \in 0 .. vertex_count
  <2>1. p < t.b
    BY <1>2, <1>3, <1>5, <1>6
  <2>2. /\ t.a + t.b <= vertex_count
        /\ t.a \in Nat /\ t.b \in Nat /\ p \in Nat /\ vertex_count \in Nat
    BY <1>3, <1>6, Sizes
  <2> QED
    BY ONLY <2>1, <2>2
<1>8. /\ E(t.a + p) \in Nat /\ E(t.a) \in Nat /\ Counts[t.a + p + 1] \in Nat
      /\ E(t.a + (p + 1)) = E(t.a + p) + Counts[t.a + p + 1]
  BY <1>7, EdgesOfDestination, EdgesOfGraph
<1>9. /\ next \in Ranges /\ read \in [1 .. CountBatch -> Nat]
      /\ Reads(next, read, Counts, CountBatch)
      /\ next.begin = cursor.begin /\ next.count = cursor.count
      /\ next.position = p + 1
      /\ count = Counts[t.a + p + 1]
  <2>1. cursor.position < cursor.count
    BY <1>1, <1>5, <1>7
  <2>2. CountBatch \in Nat /\ CountBatch > 0 /\ Counts \in Seq(Nat)
    BY TraversalConstants
  <2>3. Reading(cursor, countBuffer[w], Counts, CountBatch)
    BY <1>3, <1>4, <1>5, <2>2 DEF Reading
  <2>4. /\ Reading(next, read, Counts, CountBatch)
        /\ next.begin = cursor.begin /\ next.count = cursor.count
        /\ next.position = cursor.position + 1
        /\ read[next.at] = Counts[cursor.begin + cursor.position + 1]
    BY ONLY <1>1, <2>1, <2>3, NextRecord
  <2> QED
    BY <1>1, <1>5, <2>4 DEF Reading
<1>10. /\ consumed'[w] = consumed[w] + count /\ left'[w] = count /\ sum'[w] = <<>>
       /\ countCursor'[w] = next /\ countBuffer'[w] = read
  BY <1>2 DEF IInv, WorkerTyped
<1>11. count \in Nat /\ next.position = p + 1 /\ next.begin = t.a /\ next.count = t.b
  BY <1>5, <1>8, <1>9
<1>12. Typed'
  BY <1>2, <1>6 DEF IInv, Typed
<1>13. WorkerTyped'
  <2>1. consumed[w] + count \in Nat
    BY <1>3, <1>11
  <2>2. left' \in [Workers -> Nat] /\ consumed' \in [Workers -> Nat]
    BY <1>2, <1>11, <2>1 DEF IInv, WorkerTyped
  <2>3. sum' \in [Workers -> Seq(Term)]
    <3>1. <<>> \in Seq(Term)
      OBVIOUS
    <3> QED
      BY <1>2, <3>1 DEF IInv, WorkerTyped
  <2>4. countCursor' \in [Workers -> Ranges]
    BY <1>2, <1>9 DEF IInv, WorkerTyped
  <2>5. countBuffer' \in [Workers -> [1 .. CountBatch -> Nat]]
    BY <1>2, <1>9 DEF IInv, WorkerTyped
  <2> QED
    BY <1>2, <2>2, <2>3, <2>4, <2>5 DEF IInv, WorkerTyped
<1>14. JobOk(w)'
  <2>1. MyTask(w)' = t /\ \A first, n : TermsFrom(first, n)' = TermsFrom(first, n)
    BY <1>1, <1>2 DEF MyTask, Task, TermsFrom
  <2>2. /\ Reads(sourceCursor[w], sourceBuffer[w], Sources, SourceBatch)'
        /\ Reads(countCursor[w], countBuffer[w], Counts, CountBatch)'
    BY <1>2, <1>5, <1>9, <1>10 DEF Reads
  <2>3. /\ consumed'[w] = E(t.a + (p + 1)) - E(t.a) /\ consumed'[w] <= t.edge_count
        /\ sourceCursor[w].position + left'[w] = consumed'[w]
    <3>1. consumed'[w] = E(t.a + (p + 1)) - E(t.a)
      BY <1>6, <1>8, <1>9, <1>10
    <3>2. consumed'[w] <= t.edge_count
      BY <1>2, <1>3, <1>10, <1>11
    <3>3. sourceCursor[w].position = consumed[w]
      <4>1. sourceCursor[w].position \in Nat
        BY <1>2, AtWork DEF Ranges
      <4> QED
        BY <1>2, <1>5, <4>1
    <3> QED
      BY <1>10, <3>1, <3>2, <3>3
  <2>4. ProducedTo(MyTask(w), countCursor[w].position - 1)'
    <3>1. (p + 1) - 1 = p
      BY <1>6
    <3>2. ProducedTo(t, p)'
      BY <1>2, <1>6, <2>1 DEF ProducedTo
    <3> QED
      BY <1>10, <1>11, <2>1, <3>1, <3>2 DEF ProducedTo
  <2>5. /\ left'[w] <= Counts[t.a + (p + 1)]
        /\ sum'[w] = TermsFrom(t.edge_begin + E(t.a + (p + 1) - 1) - E(t.a),
                               Counts[t.a + (p + 1)] - left'[w])
    <3>1. Counts[t.a + (p + 1)] = count /\ count - count = 0
      BY <1>7, <1>8, <1>9
    <3>2. \A first : TermsFrom(first, 0) = <<>>
      BY DEF TermsFrom
    <3> QED
      BY <1>8, <1>10, <1>11, <3>1, <3>2
  <2>6. /\ countCursor'[w].begin = t.a /\ countCursor'[w].count = t.b
        /\ countCursor'[w].position = p + 1 /\ p + 1 # 0
        /\ sourceCursor'[w] = sourceCursor[w]
    BY <1>2, <1>6, <1>10, <1>11
  <2>7. OrdinaryInv(w)'
    BY <2>1, <2>2, <2>3, <2>4, <2>5, <2>6 DEF OrdinaryInv
  <2> QED
    BY <1>2, <1>5, <2>1, <2>2, <2>6, <2>7 DEF JobOk
<1>15. PICK mine : mine = job[w]
  OBVIOUS
<1>16. \A d \in Vertices : output'[d] = output[d] \/ d \in Territory(MyTask(w))
  BY <1>1, <1>2, <1>6
<1> QED
  BY <1>2, <1>12, <1>13, <1>14, <1>15, <1>16, WorkerKeeps

LEMMA EndOrdinaryKeeps ==
  ASSUME IInv, NEW w \in Workers, EndOrdinary(w)
  PROVE  IInv'
<1>1. PICK t, p, mine : t = MyTask(w) /\ p = countCursor[w].position /\ mine = job[w]
  OBVIOUS
<1>2. /\ Running(w) /\ t.tag = "ordinary" /\ left[w] = 0
      /\ p = countCursor[w].count
      /\ output' = WithSum(w) /\ job' = [job EXCEPT ![w] = NoSlot]
      /\ UNCHANGED <<place, pass, task_index, window, slot, structure, reduction,
                     partials, jobs, throwing, ran, consumed, left, sum,
                     countCursor, sourceCursor, countBuffer, sourceBuffer>>
  BY <1>1 DEF EndOrdinary, EndJob, Exhausted, passVars, hubVars, waveVars, cursorVars
<1>3. p = t.b
  BY <1>1, <1>2, AtWork DEF JobOk, OrdinaryInv
<1>4. /\ WithSum(w) \in [Vertices -> Seq(Seq(Term))]
      /\ \A d \in Vertices : WithSum(w)[d] = output[d] \/ d \in Territory(t)
      /\ \A k \in 0 .. p - 1 :
           WithSum(w)[t.a + k] =
             <<TermsFrom(t.edge_begin + E(t.a + k) - E(t.a), Counts[t.a + k + 1])>>
  <2>1. SummedTo(w, t, p)
    BY ONLY IInv, <1>1, <1>2, SumIsWhole
  <2> QED
    BY <2>1 DEF SummedTo
<1>5. Typed'
  BY <1>2, <1>4 DEF IInv, Typed
<1>6. WorkerTyped'
  <2>1. NoSlot \in 0 .. WindowRecords
    BY Sizes DEF NoSlot
  <2> QED
    BY <1>2, <2>1 DEF IInv, WorkerTyped
<1>7. Produced(mine)'
  <2>1. Task(mine)' = t /\ \A first, n : TermsFrom(first, n)' = TermsFrom(first, n)
    BY <1>1, <1>2 DEF MyTask, Task, TermsFrom
  <2>2. ProducedTo(t, t.b)'
    BY <1>2, <1>3, <1>4, <2>1 DEF ProducedTo
  <2> QED
    BY <1>2, <2>1, <2>2 DEF Produced, ProducedTo
<1>8. job' # job
  BY <1>2 DEF IInv, WorkerTyped, Running
<1>9. \A d \in Vertices : output'[d] = output[d] \/ d \in Territory(MyTask(w))
  BY <1>1, <1>2, <1>4
<1> QED
  BY <1>1, <1>2, <1>5, <1>6, <1>7, <1>8, <1>9, WorkerKeeps

LEMMA EndSliceKeeps ==
  ASSUME IInv, NEW w \in Workers, EndSlice(w)
  PROVE  IInv'
<1>1. PICK t, mine : t = MyTask(w) /\ mine = job[w]
  OBVIOUS
<1>2. /\ Running(w) /\ t.tag = "hub_slice" /\ left[w] = 0
      /\ partials' = [partials EXCEPT ![mine] = sum[w]]
      /\ job' = [job EXCEPT ![w] = NoSlot]
      /\ UNCHANGED <<place, pass, task_index, window, slot, structure, reduction,
                     output, jobs, throwing, ran, consumed, left, sum,
                     countCursor, sourceCursor, countBuffer, sourceBuffer>>
  BY <1>1 DEF EndSlice, EndJob, passVars, hubVars, waveVars, cursorVars
<1>3. /\ mine \in Slots /\ sum[w] \in Seq(Term)
      /\ t \in TaskRecord /\ SliceInv(w) /\ sourceCursor[w] \in Ranges
  BY <1>1, <1>2, AtWork DEF JobOk
<1>4. sum[w] = TermsFrom(t.edge_begin, t.edge_count)
  <2>1. /\ left[w] + sourceCursor[w].position = t.edge_count
        /\ sum[w] = TermsFrom(t.edge_begin, sourceCursor[w].position)
    BY <1>1, <1>3 DEF SliceInv
  <2>2. sourceCursor[w].position \in Nat
    BY <1>3 DEF Ranges
  <2> QED
    BY <1>2, <2>1, <2>2
<1>5. partials \in [Slots -> Seq(Term)]
  BY DEF IInv, Typed
<1>6. Typed'
  <2>1. partials' \in [Slots -> Seq(Term)]
    BY <1>2, <1>3, <1>5
  <2> QED
    BY <1>2, <2>1 DEF IInv, Typed
<1>7. WorkerTyped'
  <2>1. NoSlot \in 0 .. WindowRecords
    BY Sizes DEF NoSlot
  <2> QED
    BY <1>2, <2>1 DEF IInv, WorkerTyped
<1>8. Produced(mine)'
  <2>1. Task(mine)' = t /\ \A first, n : TermsFrom(first, n)' = TermsFrom(first, n)
    BY <1>1, <1>2 DEF MyTask, Task, TermsFrom
  <2>2. partials'[mine] = TermsFrom(t.edge_begin, t.edge_count)
    BY <1>2, <1>3, <1>4, <1>5
  <2> QED
    BY <1>2, <2>1, <2>2 DEF Produced
<1>9. job' # job
  BY <1>2 DEF IInv, WorkerTyped, Running
<1>10. \A j \in Slots : j # job[w] => partials'[j] = partials[j]
  BY <1>1, <1>2, <1>5
<1> QED
  BY <1>1, <1>2, <1>6, <1>7, <1>8, <1>9, <1>10, WorkerKeeps

LEMMA JobThrowsKeeps ==
  ASSUME IInv, NEW w \in Workers, JobThrows(w)
  PROVE  IInv'
<1>1. PICK mine : mine = job[w]
  OBVIOUS
<1>2. /\ Running(w) /\ mine \in throwing /\ job' = [job EXCEPT ![w] = NoSlot]
      /\ UNCHANGED <<place, pass, task_index, window, slot, structure, reduction,
                     output, partials, jobs, throwing, ran, consumed, left, sum,
                     countCursor, sourceCursor, countBuffer, sourceBuffer>>
  BY <1>1 DEF JobThrows, EndJob, passVars, hubVars, waveVars, cursorVars
<1>3. Typed'
  BY <1>2 DEF IInv, Typed
<1>4. WorkerTyped'
  <2>1. NoSlot \in 0 .. WindowRecords
    BY Sizes DEF NoSlot
  <2> QED
    BY <1>2, <2>1 DEF IInv, WorkerTyped
<1>5. job' # job
  BY <1>2 DEF IInv, WorkerTyped, Running
<1> QED
  BY <1>1, <1>2, <1>3, <1>4, <1>5, WorkerKeeps

----------------------------------------------------------------------------
(* The invariant, and what follows from it.                                *)

LEMMA InitInv == Init => IInv
<1> SUFFICES ASSUME Init PROVE IInv
  OBVIOUS
<1> USE DEF Init
<1>1. <<>> \in Seq(Seq(Term)) /\ <<>> \in Seq(Term) /\ <<>> \in Seq(TaskRecord)
  OBVIOUS
<1>2. Start \in Cursors /\ NoHub \in Hubs /\ NoRange \in Ranges
  BY <1>1 DEF Start, NoHub, NoHubGroup, NoRange, Cursors, Hubs, Ranges
<1>3. Typed
  <2>1. ran \in [Slots -> {0, 1}]
    BY DEF Wave!Init, Wave!Jobs, Slots
  <2> QED
    BY <1>1, <1>2, <2>1 DEF Typed
<1>4. WorkerTyped
  <2>1. job \in [Workers -> 0 .. WindowRecords]
    BY Sizes DEF NoSlot
  <2>2. [i \in 1 .. CountBatch |-> 0] \in [1 .. CountBatch -> Nat]
        /\ [i \in 1 .. SourceBatch |-> 0] \in [1 .. SourceBatch -> Nat]
    OBVIOUS
  <2>3. /\ countBuffer \in [Workers -> [1 .. CountBatch -> Nat]]
        /\ sourceBuffer \in [Workers -> [1 .. SourceBatch -> Nat]]
    BY <2>2
  <2>4. /\ consumed \in [Workers -> Nat] /\ left \in [Workers -> Nat]
        /\ sum \in [Workers -> Seq(Term)]
        /\ countCursor \in [Workers -> Ranges] /\ sourceCursor \in [Workers -> Ranges]
    BY <1>1, <1>2
  <2> QED
    BY <2>1, <2>3, <2>4 DEF WorkerTyped
<1>5. WindowInv /\ WorkInv /\ SettledInv
  BY DEF WindowInv, WorkInv, SettledInv, InWindow, Start
<1>6. WaveInv /\ JobInv
  BY DEF WaveInv, JobInv, Running
<1> QED
  BY <1>3, <1>4, <1>5, <1>6 DEF IInv

LEMMA NextKeeps ==
  ASSUME IInv, [Next]_vars
  PROVE  IInv'
<1>1. CASE Environment
  BY <1>1, ReadFailsKeeps, OtherStepsKeep DEF Environment
<1>2. CASE CoordinatorStep
  BY <1>2, BeginPassKeeps, CheckKeeps, ReadWindowKeeps, ValidateTaskKeeps,
     StartWaveKeeps, OtherStepsKeep, WaveReturnsKeeps, WaveThrowsKeeps,
     ReduceSliceKeeps, SkipOrdinaryKeeps, EndWindowKeeps, EndPassKeeps
  DEF CoordinatorStep
<1>3. ASSUME NEW w \in Workers, WorkerStep(w) PROVE IInv'
  BY <1>3, StartJobKeeps, ConsumeSourceKeeps, NextDestinationOfKeeps,
     EndOrdinaryKeeps, EndSliceKeeps, JobThrowsKeeps
  DEF WorkerStep
<1>4. CASE UNCHANGED vars
  BY <1>4, OtherStepsKeep
<1> QED
  BY <1>1, <1>2, <1>3, <1>4 DEF Next

\* The invariant of a pass: it is inductive, for every graph, every partition,
\* every change of tasks.bin to well-formed records and any number of workers.
THEOREM TraversalInvariance == Spec => []IInv
BY InitInv, NextKeeps, PTL DEF Spec

LEMMA WritesApart ==
  ASSUME IInv PROVE WritesAreSeparate
<1> SUFFICES ASSUME NEW v \in Workers, NEW w \in Workers, Running(v), Running(w)
             PROVE  /\ Writes(v) \subseteq Memory
                    /\ v # w => Writes(v) \intersect Writes(w) = {}
  BY DEF WritesAreSeparate
<1>1. \A u \in Workers : Running(u) =>
        /\ job[u] \in 0 .. Len(window) - 1 /\ job[u] \in Slots
        /\ MyTask(u).tag \in {"ordinary", "hub_slice"} /\ MyTask(u) = Task(job[u])
        /\ Writes(u) = IF MyTask(u).tag = "hub_slice" THEN {<<"partials", job[u]>>}
                       ELSE {<<"output", d>> : d \in Territory(MyTask(u))}
  BY AtWork, RecordTyped DEF Writes, Territory, MyTask
<1>2. place = "wave"
  BY AtWork
<1>3. \A d \in Territory(MyTask(v)) : d \in Vertices
  BY <1>1, <1>2, TaskOfWave
<1>4. Writes(v) \subseteq Memory
  BY <1>1, <1>3 DEF Memory
<1>5. ASSUME v # w PROVE Writes(v) \intersect Writes(w) = {}
  <2>1. job[v] # job[w]
    BY <1>5 DEF IInv, WaveInv
  <2>2. Territory(MyTask(v)) \intersect Territory(MyTask(w)) = {}
    BY <1>1, <1>2, <2>1, TerritoriesAreDisjoint
  <2> QED
    BY <1>1, <2>1, <2>2
<1> QED
  BY <1>4, <1>5

\* parallel_traversal.cpp:418-429, 456: whatever tasks.bin was changed to, the
\* workers write into the arrays and never into the same place.
THEOREM NobodyWritesTwice == Spec => []WritesAreSeparate
BY TraversalInvariance, WritesApart, PTL

LEMMA CompleteIsWhole ==
  ASSUME IInv PROVE ReturnedPassIsWhole
<1> SUFFICES ASSUME place = "complete", NEW d \in Vertices
             PROVE  FlattenSeq(output[d]) = Terms(d)
  BY DEF ReturnedPassIsWhole
<1>1. Settled(structure) /\ structure.next_destination = vertex_count
  BY DEF IInv, SettledInv, Frontier, Covered
<1>2. d \in 0 .. structure.next_destination - 1
  BY <1>1 DEF Vertices
<1> QED
  BY <1>1, <1>2 DEF Settled, Whole

\* parallel_traversal.cpp:577-585: a pass that returns has summed all edges of
\* every destination, each once and in their order.
THEOREM PassSumsEveryEdge == Spec => []ReturnedPassIsWhole
BY TraversalInvariance, CompleteIsWhole, PTL

----------------------------------------------------------------------------
(* While nobody changes tasks.bin.                                         *)

\* Where the structural cursor stands before the task at index k.
CursorBefore(k) ==
  IF k < task_count THEN CursorAt(Stored[k + 1])
  ELSE [next_destination |-> vertex_count, next_edge |-> edge_count,
        hub |-> NoHubGroup]

\* The tasks that the pass has validated, and those that it has settled.
TasksValidated ==
  IF place = "validate" THEN task_index + slot
  ELSE IF place \in {"wave", "reduce"} THEN task_index + Len(window)
  ELSE task_index
TasksSettled == IF place = "reduce" THEN task_index + slot ELSE task_index

\* The first n slices of a hub, each summed by itself.
SlicesTo(d, n) == [i \in 1 .. n |-> Slice(d, i)]

\* What was settled before a cursor has its sums in the order of the partition.
Ordered(front) ==
  /\ \A d \in 0 .. front.next_destination - 1 : output[d] = Reference(d)
  /\ front.hub # NoHubGroup =>
       reduction.incoming_sum = SlicesTo(front.next_destination, front.hub.next_slice)

\* What a pass has read is what was validated when the file was opened, and
\* nothing fails without a reason.
Undisturbed ==
  /\ InWindow => \A i \in 1 .. Len(window) : window[i] = Stored[task_index + i]
  /\ place \notin {"idle", "failed"} =>
       structure = CursorBefore(TasksValidated) /\ Ordered(CursorBefore(TasksSettled))
  /\ place = "complete" => Covered
  /\ place = "wave" /\ throwing # {} => faulted
  /\ place = "failed" => faulted

UInv == ~changed => Undisturbed

----------------------------------------------------------------------------
(* The canonical partition.                                                *)

LEMMA Division ==
  ASSUME NEW m \in Nat, NEW n \in Nat, n > 0
  PROVE  m \div n \in Nat /\ n * (m \div n) <= m /\ m < n * (m \div n) + n
OBVIOUS

\* A hub has as many slices as it takes for the last one to reach its end.
LEMMA SlicesOfHub ==
  ASSUME NEW count \in Nat, count > EdgeSlice
  PROVE  LET c == SliceCount(count) IN
         /\ EdgeSlice \in Nat /\ EdgeSlice > 0 /\ c \in Nat
         /\ EdgeSlice * c - EdgeSlice < count /\ count <= EdgeSlice * c
<1>1. EdgeSlice \in Nat /\ EdgeSlice > 0
  BY TaskConfigAssumption
<1>2. PICK m : m = count + EdgeSlice - 1
  OBVIOUS
<1>3. m \in Nat
  BY <1>1, <1>2
<1>4. PICK c : c = SliceCount(count)
  OBVIOUS
<1>5. c = m \div EdgeSlice
  BY <1>2, <1>4 DEF SliceCount
<1>6. c \in Nat /\ EdgeSlice * c <= m /\ m < EdgeSlice * c + EdgeSlice
  BY <1>1, <1>3, <1>5, Division
<1>7. PICK e : e = EdgeSlice * c
  OBVIOUS
<1>8. e \in Nat
  BY <1>1, <1>6, <1>7
<1>9. e - EdgeSlice < count /\ count <= e
  BY <1>1, <1>2, <1>6, <1>7, <1>8
<1> QED
  BY <1>1, <1>4, <1>6, <1>7, <1>9

LEMMA Multiples ==
  ASSUME NEW m \in Nat, NEW n \in Nat
  PROVE  /\ m * EdgeSlice \in Nat /\ EdgeSlice * m = m * EdgeSlice
         /\ (m + 1) * EdgeSlice = m * EdgeSlice + EdgeSlice
         /\ m < n => m * EdgeSlice + EdgeSlice <= n * EdgeSlice
         /\ m * EdgeSlice = n * EdgeSlice => m = n
<1>1. EdgeSlice \in Nat /\ EdgeSlice > 0
  BY TaskConfigAssumption
<1>2. /\ m * EdgeSlice \in Nat /\ EdgeSlice * m = m * EdgeSlice
      /\ (m + 1) * EdgeSlice = m * EdgeSlice + EdgeSlice
  BY <1>1
<1>3. ASSUME NEW i \in Nat, NEW j \in Nat, i < j
      PROVE  i * EdgeSlice + EdgeSlice <= j * EdgeSlice
  <2>1. (i + 1) * EdgeSlice <= j * EdgeSlice
    BY <1>1, <1>3
  <2> QED
    BY <1>1, <2>1
<1>4. ASSUME m * EdgeSlice = n * EdgeSlice PROVE m = n
  <2>1. n * EdgeSlice \in Nat
    BY <1>1
  <2>2. ~(m < n) /\ ~(n < m)
    BY <1>1, <1>2, <1>3, <1>4, <2>1
  <2> QED
    BY <2>2
<1> QED
  BY <1>2, <1>3, <1>4

\* A slice of the canonical partition, and an ordinary task of it.
CanonicalSlice(t) ==
  /\ t.tag = "hub_slice" /\ t.a \in Nat /\ t.a < vertex_count /\ IsHub(Counts, t.a)
  /\ t.b \in Nat /\ t.c = SliceCount(Counts[t.a + 1]) /\ t.c \in Nat /\ t.b < t.c
  /\ t.edge_begin = E(t.a) + t.b * EdgeSlice
  /\ t.edge_count = Smaller(EdgeSlice, Counts[t.a + 1] - t.b * EdgeSlice)
  /\ t.edge_count \in Nat /\ t.b * EdgeSlice + t.edge_count <= Counts[t.a + 1]
  /\ t.b + 1 = t.c => t.b * EdgeSlice + t.edge_count = Counts[t.a + 1]
  /\ t.b + 1 # t.c => t.edge_count = EdgeSlice

CanonicalOrdinary(t) ==
  /\ t.tag = "ordinary" /\ t.a \in Nat /\ t.b \in Nat /\ t.b > 0
  /\ t.a + t.b <= vertex_count
  /\ \A d \in t.a .. t.a + t.b - 1 : ~IsHub(Counts, d)
  /\ t.edge_begin = E(t.a) /\ t.edge_count \in Nat
  /\ t.edge_begin + t.edge_count = E(t.a + t.b)

LEMMA CanonicalTasks ==
  ASSUME NEW k \in Nat, k < task_count
  PROVE  /\ Stored[k + 1] \in TaskRecord /\ Shaped(Stored[k + 1])
         /\ IF Stored[k + 1].tag = "hub_slice" THEN CanonicalSlice(Stored[k + 1])
            ELSE CanonicalOrdinary(Stored[k + 1])
<1>1. PICK t : t = Stored[k + 1]
  OBVIOUS
<1>2. k + 1 \in 1 .. Len(Stored) /\ Stored \in Seq(TaskRecord)
  BY TraversalConstants DEF task_count
<1>3. t \in TaskRecord /\ RightTask(Counts, t)
  BY <1>1, <1>2, TraversalAssumption DEF IsCanonical, IsCanonicalPrefix
<1>4. /\ t.tag \in {"ordinary", "hub_slice"} /\ t.a \in Nat /\ t.b \in Nat
      /\ t.c \in Nat /\ t.edge_begin \in Nat /\ t.edge_count \in Nat
  BY <1>3, RecordTyped
<1>5. vertex_count = Len(Counts)
  BY DEF vertex_count
<1>6. ASSUME t.tag = "ordinary" PROVE CanonicalOrdinary(t) /\ Shaped(t)
  <2>1. RightOrdinary(Counts, t)
    BY <1>3, <1>6 DEF RightTask
  <2>2. /\ t.b > 0 /\ t.a + t.b <= vertex_count
        /\ \A d \in t.a .. t.a + t.b - 1 : ~IsHub(Counts, d)
        /\ t.edge_begin = E(t.a) /\ t.edge_begin + t.edge_count = E(t.a + t.b)
    BY <1>4, <1>5, <2>1, TaskConfigAssumption DEF RightOrdinary, E
  <2> QED
    BY <1>4, <1>6, <2>2 DEF CanonicalOrdinary, Shaped
<1>7. ASSUME t.tag = "hub_slice" PROVE CanonicalSlice(t) /\ Shaped(t)
  <2>1. /\ t.a < vertex_count /\ IsHub(Counts, t.a)
        /\ t.c = SliceCount(Counts[t.a + 1]) /\ t.b < t.c
        /\ t.edge_begin = E(t.a) + t.b * EdgeSlice
        /\ t.edge_count = Smaller(EdgeSlice, Counts[t.a + 1] - t.b * EdgeSlice)
    <3>1. RightSlice(Counts, t)
      BY <1>3, <1>7 DEF RightTask
    <3> QED
      BY <1>5, <3>1 DEF RightSlice, E
  <2>2. PICK count, c, b, e : /\ count = Counts[t.a + 1] /\ c = t.c /\ b = t.b
                              /\ e = t.b * EdgeSlice
    OBVIOUS
  <2>3. count \in Nat /\ count > EdgeSlice
    BY <1>4, <2>1, <2>2, EdgesOfDestination DEF IsHub
  <2>4. /\ EdgeSlice \in Nat /\ EdgeSlice > 0
        /\ EdgeSlice * c - EdgeSlice < count /\ count <= EdgeSlice * c
    BY <2>1, <2>2, <2>3, SlicesOfHub
  <2>5. b \in Nat /\ c \in Nat /\ b < c
    BY <1>4, <2>1, <2>2
  <2>6. e \in Nat /\ EdgeSlice * c \in Nat
    BY <2>2, <2>4, <2>5
  <2>7. e + EdgeSlice <= EdgeSlice * c
    BY ONLY <2>2, <2>5, Multiples
  <2>8. b + 1 = c => e + EdgeSlice = EdgeSlice * c
    BY ONLY <2>2, <2>5, Multiples
  <2>9. b + 1 # c => e + EdgeSlice + EdgeSlice <= EdgeSlice * c
    <3>1. b + 1 # c => b + 1 < c /\ b + 1 \in Nat
      BY <2>5
    <3>2. b + 1 # c => (b + 1) * EdgeSlice + EdgeSlice <= EdgeSlice * c
      BY ONLY <2>5, <3>1, Multiples
    <3>3. (b + 1) * EdgeSlice = e + EdgeSlice
      BY ONLY <2>2, <2>5, Multiples
    <3> QED
      BY <3>2, <3>3
  <2>10. PICK f : f = EdgeSlice * c
    OBVIOUS
  <2>11. e < count
    BY ONLY <2>4, <2>6, <2>7, <2>3, <2>10
  <2>12. b + 1 = c => count - e <= EdgeSlice
    BY ONLY <2>3, <2>4, <2>6, <2>8, <2>10
  <2>13. b + 1 # c => EdgeSlice < count - e
    BY ONLY <2>3, <2>4, <2>6, <2>9, <2>10
  <2>14. /\ e + t.edge_count <= count
         /\ b + 1 = c => e + t.edge_count = count
         /\ b + 1 # c => t.edge_count = EdgeSlice
    <3>1. t.edge_count = IF EdgeSlice < count - e THEN EdgeSlice ELSE count - e
      BY <2>1, <2>2 DEF Smaller
    <3>2. CASE b + 1 = c
      <4>1. t.edge_count = count - e
        BY ONLY <2>3, <2>4, <2>6, <2>12, <3>1, <3>2
      <4> QED
        BY ONLY <2>3, <2>4, <2>6, <3>2, <4>1
    <3>3. CASE b + 1 # c
      <4>1. t.edge_count = EdgeSlice
        BY ONLY <2>13, <3>1, <3>3
      <4> QED
        BY ONLY <2>3, <2>4, <2>6, <2>13, <3>3, <4>1
    <3> QED
      BY <3>2, <3>3
  <2> QED
    BY <1>4, <1>7, <2>1, <2>2, <2>14 DEF CanonicalSlice, Shaped
<1> QED
  BY <1>1, <1>3, <1>4, <1>6, <1>7

\* Where the cursor stands after a task of the partition.
LEMMA AfterCanonical ==
  ASSUME NEW t, CanonicalSlice(t) \/ CanonicalOrdinary(t)
  PROVE  /\ After(t).next_destination = NextDestination(t)
         /\ After(t).next_edge = t.edge_begin + t.edge_count
         /\ NextDestination(t) \in Nat /\ NextDestination(t) <= vertex_count
         /\ t.edge_begin \in Nat /\ t.edge_count \in Nat
         /\ \/ /\ After(t).hub = NoHubGroup
               /\ t.edge_begin + t.edge_count = E(NextDestination(t))
            \/ /\ CanonicalSlice(t) /\ t.b + 1 # t.c /\ NextDestination(t) = t.a
               /\ After(t).hub = HubGroup(t.a, t.c, t.b + 1)
               /\ t.edge_begin + t.edge_count = E(t.a) + (t.b + 1) * EdgeSlice
<1>1. /\ After(t).next_destination = NextDestination(t)
      /\ After(t).next_edge = t.edge_begin + t.edge_count
  BY DEF After
<1>2. CASE CanonicalOrdinary(t)
  <2>1. /\ t.tag = "ordinary" /\ t.a \in Nat /\ t.b \in Nat
        /\ t.a + t.b <= vertex_count /\ t.edge_begin = E(t.a) /\ t.edge_count \in Nat
        /\ t.edge_begin + t.edge_count = E(t.a + t.b)
    BY <1>2 DEF CanonicalOrdinary
  <2>2. NextDestination(t) = t.a + t.b /\ After(t).hub = NoHubGroup
    BY <2>1 DEF NextDestination, After
  <2>3. E(t.a) \in Nat
    <3>1. t.a \in 0 .. vertex_count
      BY <2>1, VerticesAre
    <3> QED
      BY <3>1, EdgesOfGraph
  <2> QED
    BY <1>1, <2>1, <2>2, <2>3
<1>3. CASE CanonicalSlice(t)
  <2>1. PICK e, count : e = t.b * EdgeSlice /\ count = Counts[t.a + 1]
    OBVIOUS
  <2>2. /\ t.tag = "hub_slice" /\ t.a \in Nat /\ t.a < vertex_count
        /\ t.b \in Nat /\ t.edge_begin = E(t.a) + e /\ t.edge_count \in Nat
        /\ t.b + 1 = t.c => e + t.edge_count = count
        /\ t.b + 1 # t.c => t.edge_count = EdgeSlice
    BY <1>3, <2>1 DEF CanonicalSlice
  <2>3. /\ E(t.a) \in Nat /\ E(t.a + 1) = E(t.a) + count /\ e \in Nat /\ count \in Nat
        /\ (t.b + 1) * EdgeSlice = e + EdgeSlice /\ EdgeSlice \in Nat
    <3>1. E(t.a) \in Nat /\ E(t.a + 1) = E(t.a) + count /\ count \in Nat
      BY <2>1, <2>2, EdgesOfDestination
    <3>2. e \in Nat /\ (t.b + 1) * EdgeSlice = e + EdgeSlice
      BY <2>1, <2>2, Multiples
    <3> QED
      BY <3>1, <3>2, TaskConfigAssumption
  <2>4. CASE t.b + 1 = t.c
    <3>1. NextDestination(t) = t.a + 1 /\ After(t).hub = NoHubGroup
      BY <2>2, <2>4 DEF NextDestination, After
    <3>2. t.edge_begin + t.edge_count = E(t.a + 1)
      BY <2>2, <2>3, <2>4
    <3>3. t.a + 1 <= vertex_count /\ t.a + 1 \in Nat
      BY <2>2, VerticesAre
    <3> QED
      BY <1>1, <2>2, <2>3, <3>1, <3>2, <3>3
  <2>5. CASE t.b + 1 # t.c
    <3>1. NextDestination(t) = t.a /\ After(t).hub = HubGroup(t.a, t.c, t.b + 1)
      BY <2>2, <2>5 DEF NextDestination, After
    <3>2. t.edge_begin + t.edge_count = E(t.a) + (t.b + 1) * EdgeSlice
      BY <2>2, <2>3, <2>5
    <3>3. t.a <= vertex_count
      BY <2>2, VerticesAre
    <3> QED
      BY <1>1, <1>3, <2>2, <2>3, <2>5, <3>1, <3>2, <3>3
  <2> QED
    BY <2>4, <2>5
<1> QED
  BY <1>2, <1>3

\* A task that begins where a destination begins is no later slice.
LEMMA AtDestination ==
  ASSUME NEW u, CanonicalSlice(u) \/ CanonicalOrdinary(u), u.edge_begin = E(u.a)
  PROVE  CursorAt(u).hub = NoHubGroup
<1>1. CASE CanonicalOrdinary(u)
  BY <1>1 DEF CanonicalOrdinary, CursorAt
<1>2. CASE CanonicalSlice(u)
  <2>1. PICK e : e = u.b * EdgeSlice
    OBVIOUS
  <2>2. u.b \in Nat /\ u.edge_begin = E(u.a) + e /\ u.a \in Nat /\ u.a < vertex_count
    BY <1>2, <2>1 DEF CanonicalSlice
  <2>3. E(u.a) \in Nat /\ e \in Nat
    BY <2>1, <2>2, EdgesOfDestination, Multiples
  <2>4. e = 0
    BY <2>2, <2>3
  <2>5. 0 * EdgeSlice = 0
    BY TaskConfigAssumption
  <2>6. u.b = 0
    BY <2>1, <2>2, <2>4, <2>5, Multiples
  <2> QED
    BY <2>6 DEF CursorAt
<1> QED
  BY <1>1, <1>2

\* The structural cursor moves from each task of the partition to the next.
LEMMA CursorMoves ==
  ASSUME NEW k \in Nat, k < task_count
  PROVE  After(Stored[k + 1]) = CursorBefore(k + 1)
<1>1. PICK t : t = Stored[k + 1]
  OBVIOUS
<1>2. CanonicalSlice(t) \/ CanonicalOrdinary(t)
  BY <1>1, CanonicalTasks
<1>3. After(t) = [next_destination |-> NextDestination(t),
                  next_edge |-> t.edge_begin + t.edge_count, hub |-> After(t).hub]
  BY DEF After
<1>4. task_count \in Nat /\ task_count = Len(Stored) /\ Stored \in Seq(TaskRecord)
  BY TraversalConstants DEF task_count
<1>5. ASSUME k + 1 < task_count PROVE After(t) = CursorBefore(k + 1)
  <2>1. PICK u : u = Stored[(k + 1) + 1]
    OBVIOUS
  <2>2. CanonicalSlice(u) \/ CanonicalOrdinary(u)
    <3>1. k + 1 \in Nat
      OBVIOUS
    <3> QED
      BY <1>5, <2>1, <3>1, CanonicalTasks
  <2>3. u.a = NextDestination(t) /\ u.edge_begin = t.edge_begin + t.edge_count
    <3>1. k + 1 \in 1 .. Len(Stored) - 1
      BY <1>4, <1>5
    <3> QED
      BY <1>1, <2>1, <3>1, TraversalAssumption DEF IsCanonical, IsCanonicalPrefix, Follows
  <2>4. CursorAt(u) = [next_destination |-> u.a, next_edge |-> u.edge_begin,
                       hub |-> CursorAt(u).hub]
    BY DEF CursorAt
  <2>5. CursorAt(u).hub = After(t).hub
    <3>1. CASE After(t).hub = NoHubGroup /\ t.edge_begin + t.edge_count = E(NextDestination(t))
      BY <2>2, <2>3, <3>1, AtDestination
    <3>2. CASE /\ CanonicalSlice(t) /\ t.b + 1 # t.c /\ NextDestination(t) = t.a
               /\ After(t).hub = HubGroup(t.a, t.c, t.b + 1)
               /\ t.edge_begin + t.edge_count = E(t.a) + (t.b + 1) * EdgeSlice
      <4>1. u.a = t.a /\ IsHub(Counts, t.a) /\ t.b \in Nat /\ t.a \in Nat
            /\ t.a < vertex_count /\ t.c = SliceCount(Counts[t.a + 1])
        BY <2>3, <3>2 DEF CanonicalSlice
      <4>2. CanonicalSlice(u)
        <5>1. ASSUME CanonicalOrdinary(u) PROVE FALSE
          <6>1. u.b \in Nat /\ u.b > 0 /\ u.a \in u.a .. u.a + u.b - 1
            BY <4>1, <5>1 DEF CanonicalOrdinary
          <6> QED
            BY <4>1, <5>1, <6>1 DEF CanonicalOrdinary
        <5> QED
          BY <2>2, <5>1
      <4>3. u.b \in Nat /\ u.c = t.c /\ u.tag = "hub_slice"
            /\ u.edge_begin = E(t.a) + u.b * EdgeSlice
        BY <4>1, <4>2 DEF CanonicalSlice
      <4>4. PICK e, f : e = u.b * EdgeSlice /\ f = (t.b + 1) * EdgeSlice
        OBVIOUS
      <4>5. t.b + 1 \in Nat
        BY <4>1
      <4>6. e \in Nat /\ f \in Nat /\ (e = f => u.b = t.b + 1)
        BY ONLY <4>3, <4>4, <4>5, Multiples
      <4>7. E(t.a) \in Nat
        BY <4>1, EdgesOfDestination
      <4>8. e = f
        BY <2>3, <3>2, <4>3, <4>4, <4>6, <4>7
      <4>9. u.b = t.b + 1 /\ u.b > 0
        BY <4>1, <4>6, <4>8
      <4> QED
        BY <3>2, <4>1, <4>3, <4>9 DEF CursorAt
    <3> QED
      BY <1>2, <3>1, <3>2, AfterCanonical
  <2> QED
    BY <1>3, <1>5, <2>1, <2>3, <2>4, <2>5 DEF CursorBefore
<1>6. ASSUME ~(k + 1 < task_count) PROVE After(t) = CursorBefore(k + 1)
  <2>1. k + 1 = Len(Stored) /\ Stored # <<>>
    BY <1>4, <1>6
  <2>2. NextDestination(t) = vertex_count
    BY <1>1, <2>1, TraversalAssumption DEF IsCanonical, vertex_count
  <2>3. After(t).hub = NoHubGroup /\ t.edge_begin + t.edge_count = E(NextDestination(t))
    <3>1. ASSUME CanonicalSlice(t), NextDestination(t) = t.a PROVE FALSE
      <4>1. t.a \in Nat /\ t.a < vertex_count /\ vertex_count \in Nat
        BY <3>1, VerticesAre DEF CanonicalSlice
      <4> QED
        BY <2>2, <3>1, <4>1
    <3> QED
      BY <1>2, <3>1, AfterCanonical
  <2>4. E(vertex_count) = edge_count
    BY EdgesOfGraph
  <2> QED
    BY <1>3, <1>6, <2>2, <2>3, <2>4 DEF CursorBefore
<1> QED
  BY <1>1, <1>5, <1>6

LEMMA CursorStarts == CursorBefore(0) = Start
<1>1. task_count \in Nat /\ task_count = Len(Stored) /\ Stored \in Seq(TaskRecord)
  BY TraversalConstants DEF task_count
<1>2. E(0) = 0 /\ E(vertex_count) = edge_count
  BY EdgesOfGraph
<1>3. CASE task_count = 0
  <2>1. Stored = <<>>
    BY <1>1, <1>3, EmptySeq
  <2>2. Counts = <<>>
    BY <2>1, TraversalAssumption DEF IsCanonical
  <2>3. vertex_count = 0
    BY <2>2 DEF vertex_count
  <2> QED
    BY <1>2, <1>3, <2>3 DEF CursorBefore, Start
<1>4. CASE task_count # 0
  <2>1. PICK t : t = Stored[1]
    OBVIOUS
  <2>2. Stored # <<>> /\ 0 < task_count /\ 0 \in Nat /\ 0 + 1 = 1
    BY <1>1, <1>4
  <2>3. t.a = 0 /\ t.edge_begin = 0
    BY <2>1, <2>2, TraversalAssumption DEF IsCanonical, IsCanonicalPrefix
  <2>4. CanonicalSlice(t) \/ CanonicalOrdinary(t)
    <3>1. IF Stored[0 + 1].tag = "hub_slice" THEN CanonicalSlice(Stored[0 + 1])
          ELSE CanonicalOrdinary(Stored[0 + 1])
      BY <2>2, CanonicalTasks
    <3> QED
      BY <2>1, <2>2, <3>1
  <2>5. CursorAt(t).hub = NoHubGroup
    BY <1>2, <2>3, <2>4, AtDestination
  <2>6. CursorAt(t) = [next_destination |-> t.a, next_edge |-> t.edge_begin,
                       hub |-> CursorAt(t).hub]
    BY DEF CursorAt
  <2> QED
    BY <2>1, <2>2, <2>3, <2>5, <2>6 DEF CursorBefore, Start
<1> QED
  BY <1>3, <1>4

\* validate_task accepts each task of the partition when its turn has come.
LEMMA CanonicalIsValid ==
  ASSUME NEW k \in Nat, k < task_count, structure = CursorBefore(k)
  PROVE  Valid(Stored[k + 1])
<1>1. PICK t : t = Stored[k + 1]
  OBVIOUS
<1>2. structure = CursorAt(t)
  BY <1>1 DEF CursorBefore
<1>3. structure.next_destination = t.a /\ structure.next_edge = t.edge_begin
  BY <1>2 DEF CursorAt
<1>4. CASE CanonicalOrdinary(t)
  <2>1. /\ t.tag = "ordinary" /\ t.a \in Nat /\ t.b \in Nat
        /\ t.a + t.b <= vertex_count /\ t.edge_begin = E(t.a) /\ t.edge_count \in Nat
        /\ t.edge_begin + t.edge_count = E(t.a + t.b)
    BY <1>4 DEF CanonicalOrdinary
  <2>2. /\ E(t.a) \in Nat /\ E(t.a + t.b) <= edge_count /\ edge_count \in Nat
        /\ E(t.a + t.b) \in Nat
    <3>1. t.a \in 0 .. vertex_count /\ t.a + t.b \in 0 .. vertex_count
          /\ vertex_count \in 0 .. vertex_count
      BY <2>1, VerticesAre
    <3> QED
      BY <2>1, <3>1, EdgesOfGraph, Sizes
  <2>3. structure.hub = NoHubGroup
    BY <1>2, <2>1 DEF CursorAt
  <2>4. t.edge_begin <= edge_count /\ t.edge_count <= edge_count - t.edge_begin
    BY <2>1, <2>2
  <2> QED
    BY <1>1, <1>3, <2>1, <2>3, <2>4 DEF Valid
<1>5. CASE CanonicalSlice(t)
  <2>1. PICK e, count : e = t.b * EdgeSlice /\ count = Counts[t.a + 1]
    OBVIOUS
  <2>2. /\ t.tag = "hub_slice" /\ t.a \in Nat /\ t.a < vertex_count /\ t.b \in Nat
        /\ t.edge_begin = E(t.a) + e /\ t.edge_count \in Nat /\ e + t.edge_count <= count
    BY <1>5, <2>1 DEF CanonicalSlice
  <2>3. /\ e \in Nat /\ count \in Nat /\ E(t.a) \in Nat /\ edge_count \in Nat
        /\ E(t.a) + count <= edge_count
    <3>1. e \in Nat
      BY <2>1, <2>2, Multiples
    <3>2. E(t.a) \in Nat /\ count \in Nat /\ E(t.a + 1) = E(t.a) + count
          /\ t.a + 1 \in 0 .. vertex_count /\ vertex_count \in 0 .. vertex_count
          /\ t.a + 1 <= vertex_count
      BY <2>1, <2>2, EdgesOfDestination, VerticesAre
    <3>3. E(t.a + 1) <= edge_count
      BY <3>2, EdgesOfGraph
    <3> QED
      BY <3>1, <3>2, <3>3, Sizes
  <2>4. t.edge_begin <= edge_count /\ t.edge_count <= edge_count - t.edge_begin
    BY <2>2, <2>3
  <2>5. structure.hub = IF t.b > 0 THEN HubGroup(t.a, t.c, t.b) ELSE NoHubGroup
    BY <1>2, <2>2 DEF CursorAt
  <2>6. HubGroup(t.a, t.c, t.b) # NoHubGroup
    BY <2>2 DEF HubGroup, NoHubGroup
  <2>7. structure.hub = NoHubGroup => t.b = 0
    BY <2>2, <2>5, <2>6
  <2>8. GroupOf(t) = HubGroup(t.a, t.c, t.b)
    BY <2>2, <2>5, <2>6 DEF GroupOf, HubGroup
  <2> QED
    BY <1>1, <1>3, <2>2, <2>4, <2>7, <2>8 DEF Valid, HubGroup
<1> QED
  BY <1>1, <1>4, <1>5, CanonicalTasks

LEMMA CanonicalAgrees ==
  ASSUME NEW k \in Nat, k < task_count
  PROVE  ~Contradicts(Stored[k + 1])
<1>1. PICK t : t = Stored[k + 1]
  OBVIOUS
<1>2. CASE CanonicalOrdinary(t)
  <2>1. /\ t.a \in Nat /\ t.b \in Nat /\ t.a + t.b <= vertex_count
        /\ t.edge_begin = E(t.a) /\ t.edge_count \in Nat
        /\ t.edge_begin + t.edge_count = E(t.a + t.b)
    BY <1>2 DEF CanonicalOrdinary
  <2>2. E(t.a) \in Nat /\ E(t.a + t.b) \in Nat
    <3>1. t.a \in 0 .. vertex_count /\ t.a + t.b \in 0 .. vertex_count
      BY <2>1, VerticesAre
    <3> QED
      BY <3>1, EdgesOfGraph
  <2>3. t.edge_count = E(t.a + t.b) - E(t.a)
    BY <2>1, <2>2
  <2> QED
    BY <1>1, <2>3 DEF Contradicts, E
<1>3. CASE CanonicalSlice(t)
  BY <1>1, <1>3 DEF Contradicts, CanonicalSlice
<1> QED
  BY <1>1, <1>2, <1>3, CanonicalTasks

\* reduce_hub_slice accepts each slice of the partition when its turn has come.
LEMMA CanonicalIsReducible ==
  ASSUME NEW t, CanonicalSlice(t), Settled(CursorAt(t))
  PROVE  Reducible(t)
<1>1. PICK e, count : e = t.b * EdgeSlice /\ count = Counts[t.a + 1]
  OBVIOUS
<1>2. /\ t.tag = "hub_slice" /\ t.a \in Nat /\ t.a < vertex_count /\ t.b \in Nat
      /\ t.edge_begin = E(t.a) + e /\ t.edge_count \in Nat /\ e + t.edge_count <= count
      /\ t.b + 1 = t.c => e + t.edge_count = count
  BY <1>1 DEF CanonicalSlice
<1>3. e \in Nat /\ count \in Nat /\ E(t.a) \in Nat /\ t.a \in Vertices
  BY <1>1, <1>2, EdgesOfDestination, Multiples
<1>4. CASE t.b = 0
  <2>1. reduction = NoHub
    BY <1>2, <1>4 DEF Settled, CursorAt
  <2>2. e = 0
    BY <1>1, <1>4, TaskConfigAssumption
  <2>3. /\ HubOf(t).destination = t.a /\ HubOf(t).slice_count = t.c
        /\ HubOf(t).next_slice = t.b /\ HubOf(t).expected_edges = count
        /\ HubOf(t).covered_edges = 0
    BY <1>1, <1>4, <2>1 DEF HubOf
  <2>4. /\ t.edge_count <= count - 0
        /\ t.b + 1 = t.c => 0 + t.edge_count = count
    BY <1>2, <1>3, <2>2
  <2> QED
    BY <1>3, <1>4, <2>3, <2>4 DEF Reducible
<1>5. CASE t.b # 0
  <2>1. CursorAt(t).hub = HubGroup(t.a, t.c, t.b) /\ CursorAt(t).hub # NoHubGroup
        /\ CursorAt(t).next_destination = t.a /\ CursorAt(t).next_edge = t.edge_begin
    BY <1>2, <1>5 DEF CursorAt, HubGroup, NoHubGroup
  <2>2. /\ reduction # NoHub /\ reduction.destination = t.a
        /\ reduction.slice_count = t.c /\ reduction.next_slice = t.b
        /\ reduction.expected_edges = count
        /\ reduction.covered_edges = t.edge_begin - E(t.a)
    BY <1>1, <2>1 DEF Settled, HubGroup
  <2>3. HubOf(t) = reduction
    BY <2>2 DEF HubOf
  <2>4. reduction.covered_edges = e
    BY <1>2, <1>3, <2>2
  <2>5. /\ t.edge_count <= count - e
        /\ t.b + 1 = t.c => e + t.edge_count = count
    BY <1>2, <1>3
  <2> QED
    BY <2>2, <2>3, <2>4, <2>5 DEF Reducible
<1> QED
  BY <1>4, <1>5

\* What a worker sums for a slice is what the partition says of it.
LEMMA SliceTerms ==
  ASSUME NEW t, CanonicalSlice(t)
  PROVE  TermsFrom(t.edge_begin, t.edge_count) = Slice(t.a, t.b + 1)
<1>1. PICK e, count, n : /\ e = t.b * EdgeSlice /\ count = Counts[t.a + 1]
                         /\ n = t.edge_count
  OBVIOUS
<1>2. /\ t.a \in Nat /\ t.a < vertex_count /\ t.b \in Nat
      /\ t.edge_begin = E(t.a) + e /\ n \in Nat /\ e + n <= count
      /\ n = Smaller(EdgeSlice, count - e)
  BY <1>1 DEF CanonicalSlice
<1>3. e \in Nat /\ count \in Nat /\ E(t.a) \in Nat
  BY <1>1, <1>2, EdgesOfDestination, Multiples
<1>4. (t.b + 1) - 1 = t.b
  BY <1>2
<1>5. Slice(t.a, t.b + 1) = [k \in 1 .. n |-> Terms(t.a)[e + k]]
  BY <1>1, <1>2, <1>4 DEF Slice
<1>6. ASSUME NEW k \in 1 .. n PROVE Terms(t.a)[e + k] = <<pass, t.edge_begin + k - 1>>
  <2>1. e + k \in 1 .. count
    BY <1>2, <1>3
  <2>2. Terms(t.a)[e + k] = <<pass, E(t.a) + (e + k) - 1>>
    BY <1>1, <2>1 DEF Terms, E
  <2>3. E(t.a) + (e + k) - 1 = t.edge_begin + k - 1
    BY <1>2, <1>3
  <2> QED
    BY <2>2, <2>3
<1> QED
  BY <1>1, <1>5, <1>6 DEF TermsFrom

LEMMA SlicesAppend ==
  ASSUME NEW d, NEW n \in Nat
  PROVE  Append(SlicesTo(d, n), Slice(d, n + 1)) = SlicesTo(d, n + 1)
<1> DEFINE S(i) == Slice(d, i)
<1>1. SlicesTo(d, n) = [i \in 1 .. n |-> S(i)]
      /\ SlicesTo(d, n + 1) = [i \in 1 .. n + 1 |-> S(i)]
  BY DEF SlicesTo
<1> HIDE DEF S
<1>2. Append([i \in 1 .. n |-> S(i)], S(n + 1)) = [i \in 1 .. n + 1 |-> S(i)]
  OBVIOUS
<1> QED
  BY <1>1, <1>2 DEF S

----------------------------------------------------------------------------
(* The steps, while nobody changes tasks.bin.                              *)

\* What was in order stays in order while the sums settled so far stay.
LEMMA OrderedStays ==
  ASSUME NEW f, Ordered(f), UNCHANGED <<pass, reduction>>,
         \A d \in 0 .. f.next_destination - 1 : output'[d] = output[d]
  PROVE  Ordered(f)'
<1>1. \A d, i : Slice(d, i)' = Slice(d, i)
  BY DEF Slice, Terms
<1>2. \A d : Reference(d)' = Reference(d)
  BY DEF Reference, Slice, Terms
<1>3. \A d, n : SlicesTo(d, n)' = SlicesTo(d, n)
  BY DEF SlicesTo, Slice, Terms
<1> QED
  BY <1>2, <1>3 DEF Ordered, SlicesTo, Slice, Terms

\* A step within a wave, and a step of nobody.
LEMMA UndisturbedStays ==
  ASSUME Undisturbed,
         UNCHANGED <<place, pass, task_index, window, slot, structure, reduction,
                     throwing>>,
         faulted => faulted',
         \A d \in 0 .. CursorBefore(TasksSettled).next_destination - 1 :
           output'[d] = output[d]
  PROVE  Undisturbed'
<1>1. TasksValidated' = TasksValidated /\ TasksSettled' = TasksSettled
  BY DEF TasksValidated, TasksSettled
<1>2. PICK f, g : f = CursorBefore(TasksSettled) /\ g = CursorBefore(TasksValidated)
  OBVIOUS
<1>3. CursorBefore(TasksSettled)' = f /\ CursorBefore(TasksValidated)' = g
  BY <1>1, <1>2 DEF CursorBefore
<1>4. place \notin {"idle", "failed"} => structure = g /\ Ordered(f)
  BY <1>2 DEF Undisturbed
<1>5. Ordered(f) => Ordered(f)'
  BY <1>2, OrderedStays
<1>6. place' \notin {"idle", "failed"} =>
        structure' = CursorBefore(TasksValidated)' /\ Ordered(CursorBefore(TasksSettled))'
  BY <1>3, <1>4, <1>5 DEF Ordered
<1>7. /\ InWindow' => \A i \in 1 .. Len(window') : window'[i] = Stored[task_index' + i]
      /\ place' = "complete" => Covered'
      /\ place' = "wave" /\ throwing' # {} => faulted'
      /\ place' = "failed" => faulted'
  BY DEF Undisturbed, InWindow, Covered
<1> QED
  BY <1>6, <1>7 DEF Undisturbed

\* A step of the coordinator that moves it, or ends in a failure that is not
\* its own.
LEMMA FailsForAReason ==
  ASSUME place' = "failed", faulted'
  PROVE  Undisturbed'
BY DEF Undisturbed, InWindow

LEMMA MovesOn ==
  ASSUME place' \in {"check", "read", "validate", "wave", "reduce", "complete"},
         InWindow' => \A i \in 1 .. Len(window') : window'[i] = Stored[task_index' + i],
         NEW f, CursorBefore(TasksSettled)' = f, Ordered(f)',
         structure' = CursorBefore(TasksValidated)',
         place' = "complete" => Covered',
         place' = "wave" /\ throwing' # {} => faulted'
  PROVE  Undisturbed'
<1>1. Ordered(CursorBefore(TasksSettled))'
  BY DEF Ordered
<1> QED
  BY <1>1 DEF Undisturbed

LEMMA BeginPassMoves ==
  ASSUME IInv, BeginPass
  PROVE  Undisturbed'
<1>1. /\ place' = (IF pool' = "ready" THEN "check" ELSE "failed")
      /\ faulted' = (faulted \/ pool' # "ready")
      /\ task_index' = 0 /\ structure' = Start
  BY DEF BeginPass, Goto, ThrowIf
<1>2. CASE pool' = "ready"
  <2>1. place' = "check" /\ TasksSettled' = 0 /\ TasksValidated' = 0
    BY <1>1, <1>2 DEF TasksSettled, TasksValidated
  <2>2. CursorBefore(TasksSettled)' = Start /\ CursorBefore(TasksValidated)' = Start
    <3>1. CursorBefore(TasksSettled)' = CursorBefore(0)
          /\ CursorBefore(TasksValidated)' = CursorBefore(0)
      BY <2>1 DEF CursorBefore
    <3> QED
      BY <3>1, CursorStarts
  <2>3. PICK f : f = Start
    OBVIOUS
  <2>4. f.next_destination = 0 /\ f.hub = NoHubGroup
    BY <2>3 DEF Start
  <2>5. Ordered(f)'
    BY <2>4 DEF Ordered
  <2> QED
    BY <1>1, <2>1, <2>2, <2>3, <2>5, MovesOn DEF InWindow
<1>3. CASE pool' # "ready"
  BY <1>1, <1>3, FailsForAReason
<1> QED
  BY <1>2, <1>3

LEMMA CheckMoves ==
  ASSUME IInv, Undisturbed, ~changed, Check
  PROVE  Undisturbed'
<1>1. /\ place = "check" /\ place' = "read"
      /\ UNCHANGED <<pass, task_index, structure, reduction, output>>
  BY DEF Check, Goto, passVars, hubVars
<1>2. TasksSettled = task_index /\ TasksValidated = task_index
      /\ TasksSettled' = task_index /\ TasksValidated' = task_index
  BY <1>1 DEF TasksSettled, TasksValidated
<1>3. PICK f : f = CursorBefore(task_index)
  OBVIOUS
<1>4. CursorBefore(TasksSettled)' = f /\ CursorBefore(TasksValidated)' = f
  BY <1>1, <1>2, <1>3 DEF CursorBefore
<1>5. structure = f /\ Ordered(f)
  BY <1>1, <1>2, <1>3 DEF Undisturbed
<1>6. Ordered(f)'
  BY <1>1, <1>5, OrderedStays
<1> QED
  BY <1>1, <1>4, <1>5, <1>6, MovesOn DEF InWindow

LEMMA ReadWindowMoves ==
  ASSUME IInv, Undisturbed, ~changed, ReadWindow
  PROVE  Undisturbed'
<1> DEFINE last == Smaller(task_count, task_index + WindowRecords)
<1>1. /\ place = "read" /\ place' = "validate" /\ slot' = 0
      /\ window' = SubSeq(Stored, task_index + 1, last)
      /\ UNCHANGED <<pass, task_index, structure, reduction, output>>
  BY DEF ReadWindow, Goto
<1>2. task_index \in Nat /\ task_index < task_count
  BY <1>1 DEF IInv, Typed, WindowInv
<1>3. Stored \in Seq(TaskRecord) /\ Len(Stored) = task_count
  BY TraversalConstants DEF task_count
<1>4. last \in Nat /\ last <= task_count /\ task_index < last
  BY <1>2, TraversalConstants DEF Smaller
<1> HIDE DEF last
<1>5. \A i \in 1 .. Len(window') : window'[i] = Stored[task_index + i]
  BY <1>1, <1>2, <1>3, <1>4
<1>6. TasksSettled = task_index /\ TasksValidated = task_index
      /\ TasksSettled' = task_index /\ TasksValidated' = task_index
  BY <1>1, <1>2 DEF TasksSettled, TasksValidated
<1>7. PICK f : f = CursorBefore(task_index)
  OBVIOUS
<1>8. CursorBefore(TasksSettled)' = f /\ CursorBefore(TasksValidated)' = f
  BY <1>1, <1>6, <1>7 DEF CursorBefore
<1>9. structure = f /\ Ordered(f)
  BY <1>1, <1>6, <1>7 DEF Undisturbed
<1>10. Ordered(f)'
  BY <1>1, <1>9, OrderedStays
<1> QED
  BY <1>1, <1>5, <1>8, <1>9, <1>10, MovesOn

LEMMA ReadFailsMoves ==
  ASSUME ReadFails PROVE Undisturbed'
<1>1. place' = "failed" /\ faulted'
  BY DEF ReadFails, Goto, ThrowIf
<1> QED
  BY <1>1, FailsForAReason

\* The task at a slot of the window is the one of the partition.
LEMMA StoredAtSlot ==
  ASSUME IInv, Undisturbed, InWindow, NEW j \in Nat, j < Len(window)
  PROVE  /\ task_index + j \in Nat /\ task_index + j < task_count
         /\ window[j + 1] = Stored[(task_index + j) + 1]
<1>1. task_index \in Nat /\ Len(window) \in Nat /\ task_count \in Nat
      /\ task_index + Len(window) <= task_count
  BY Sizes DEF IInv, Typed, WindowInv
<1>2. j + 1 \in 1 .. Len(window) /\ task_index + (j + 1) = (task_index + j) + 1
  BY <1>1
<1> QED
  BY <1>1, <1>2 DEF Undisturbed

LEMMA ValidateTaskMoves ==
  ASSUME IInv, Undisturbed, ValidateTask
  PROVE  Undisturbed'
<1>1. PICK t, k : t = window[slot + 1] /\ k = task_index + slot
  OBVIOUS
<1>2. /\ place = "validate" /\ slot < Len(window) /\ slot \in Nat
      /\ UNCHANGED <<pass, task_index, window, reduction, output>>
  BY DEF ValidateTask, IInv, Typed
<1>3. k \in Nat /\ k < task_count /\ t = Stored[k + 1]
  BY <1>1, <1>2, StoredAtSlot DEF InWindow
<1>4. TasksValidated = k /\ TasksSettled = task_index
  BY <1>1, <1>2 DEF TasksValidated, TasksSettled
<1>5. structure = CursorBefore(k) /\ Ordered(CursorBefore(task_index))
  BY <1>2, <1>4 DEF Undisturbed
<1>6. Valid(t)
  BY <1>3, <1>5, CanonicalIsValid
<1>7. place' = "validate" /\ structure' = Beyond(t) /\ slot' = slot + 1
  BY <1>1, <1>2, <1>6 DEF ValidateTask, Task
<1>8. Beyond(t) = After(t)
  <2>1. t \in TaskRecord /\ Shaped(t)
    BY <1>3, CanonicalTasks
  <2>2. structure.hub # NoHubGroup =>
          /\ structure.hub.destination = structure.next_destination
          /\ structure.hub.next_slice > 0
    BY DEF IInv, WindowInv
  <2>3. Typed
    BY DEF IInv
  <2> QED
    BY <1>6, <2>1, <2>2, <2>3, ValidTask
<1>9. After(t) = CursorBefore(k + 1)
  BY <1>3, CursorMoves
<1>10. TasksValidated' = k + 1 /\ TasksSettled' = task_index
  <2>1. task_index \in Nat /\ task_index + (slot + 1) = k + 1
    BY <1>1, <1>2 DEF IInv, Typed
  <2> QED
    BY <1>2, <1>7, <2>1 DEF TasksValidated, TasksSettled
<1>11. PICK f : f = CursorBefore(task_index)
  OBVIOUS
<1>12. CursorBefore(TasksSettled)' = f /\ CursorBefore(TasksValidated)' = CursorBefore(k + 1)
  BY <1>10, <1>11 DEF CursorBefore
<1>13. Ordered(f)'
  BY <1>2, <1>5, <1>11, OrderedStays
<1>14. \A i \in 1 .. Len(window') : window'[i] = Stored[task_index' + i]
  BY <1>2 DEF Undisturbed, InWindow
<1> QED
  BY <1>7, <1>8, <1>9, <1>12, <1>13, <1>14, MovesOn

LEMMA StartWaveMoves ==
  ASSUME IInv, Undisturbed, StartWave
  PROVE  Undisturbed'
<1>1. PICK unreadable \in SUBSET (0 .. Len(window) - 1) :
        /\ Wave!Start("run_pass", Len(window),
                      {j \in 0 .. Len(window) - 1 : Contradicts(Task(j))}
                        \union unreadable)
        /\ ThrowIf(unreadable # {})
  BY DEF StartWave
<1>2. /\ place = "validate" /\ slot = Len(window) /\ place' = "wave"
      /\ UNCHANGED <<pass, task_index, window, slot, structure, reduction, output>>
      /\ throwing' = {j \in 0 .. Len(window) - 1 : Contradicts(Task(j))}
                       \union unreadable
      /\ faulted' = (faulted \/ unreadable # {})
  BY <1>1 DEF StartWave, Goto, passVars, hubVars, ThrowIf, Wave!Start
<1>3. \A j \in 0 .. Len(window) - 1 : ~Contradicts(Task(j))
  <2> SUFFICES ASSUME NEW j \in 0 .. Len(window) - 1 PROVE ~Contradicts(Task(j))
    OBVIOUS
  <2>1. j \in Nat /\ j < Len(window)
    BY DEF IInv, Typed
  <2>2. /\ task_index + j \in Nat /\ task_index + j < task_count
        /\ window[j + 1] = Stored[(task_index + j) + 1]
    BY <1>2, <2>1, StoredAtSlot DEF InWindow
  <2> QED
    BY <2>2, CanonicalAgrees DEF Task
<1>4. throwing' # {} => faulted'
  BY <1>2, <1>3
<1>5. /\ TasksSettled = task_index /\ TasksSettled' = task_index
      /\ TasksValidated' = TasksValidated
  BY <1>2 DEF TasksSettled, TasksValidated
<1>6. PICK f, g : f = CursorBefore(task_index) /\ g = CursorBefore(TasksValidated)
  OBVIOUS
<1>7. CursorBefore(TasksSettled)' = f /\ CursorBefore(TasksValidated)' = g
  BY <1>5, <1>6 DEF CursorBefore
<1>8. structure = g /\ Ordered(f)
  BY <1>2, <1>5, <1>6 DEF Undisturbed
<1>9. Ordered(f)'
  BY <1>2, <1>8, OrderedStays
<1>10. \A i \in 1 .. Len(window') : window'[i] = Stored[task_index' + i]
  BY <1>2 DEF Undisturbed, InWindow
<1> QED
  BY <1>2, <1>4, <1>7, <1>8, <1>9, <1>10, MovesOn

LEMMA WaveReturnsMoves ==
  ASSUME IInv, Undisturbed, WaveReturns
  PROVE  Undisturbed'
<1>1. /\ place = "wave" /\ place' = "reduce" /\ slot' = 0
      /\ UNCHANGED <<pass, task_index, window, structure, reduction, output>>
  BY DEF WaveReturns, Goto, passVars
<1>2. /\ TasksSettled = task_index /\ TasksSettled' = task_index
      /\ TasksValidated' = TasksValidated
  BY <1>1 DEF TasksSettled, TasksValidated, IInv, Typed
<1>3. PICK f, g : f = CursorBefore(task_index) /\ g = CursorBefore(TasksValidated)
  OBVIOUS
<1>4. CursorBefore(TasksSettled)' = f /\ CursorBefore(TasksValidated)' = g
  BY <1>2, <1>3 DEF CursorBefore
<1>5. structure = g /\ Ordered(f)
  BY <1>1, <1>2, <1>3 DEF Undisturbed
<1>6. Ordered(f)'
  BY <1>1, <1>5, OrderedStays
<1>7. \A i \in 1 .. Len(window') : window'[i] = Stored[task_index' + i]
  BY <1>1 DEF Undisturbed, InWindow
<1> QED
  BY <1>1, <1>4, <1>5, <1>6, <1>7, MovesOn

LEMMA WaveThrowsMoves ==
  ASSUME Undisturbed, WaveThrows
  PROVE  Undisturbed'
<1>1. place = "wave" /\ place' = "failed" /\ UNCHANGED faulted
  BY DEF WaveThrows, Goto
<1>2. throwing # {} \/ faulted
  BY DEF WaveThrows, Wave!ThrowJob
<1> QED
  BY <1>1, <1>2, FailsForAReason DEF Undisturbed

\* What the reduction of a task leaves.
LEMMA ReducedMoves ==
  ASSUME IInv, Undisturbed, place = "reduce", slot < Len(window),
         place' = "reduce", slot' = slot + 1,
         UNCHANGED <<task_index, window, structure>>,
         NEW f, f = After(window[slot + 1]), Ordered(f)'
  PROVE  Undisturbed'
<1>1. PICK k : k = task_index + slot
  OBVIOUS
<1>2. k \in Nat /\ k < task_count /\ window[slot + 1] = Stored[k + 1] /\ slot \in Nat
  BY <1>1, StoredAtSlot DEF IInv, Typed, InWindow
<1>3. f = CursorBefore(k + 1)
  BY <1>2, CursorMoves
<1>4. TasksSettled' = k + 1 /\ TasksValidated' = TasksValidated
  <2>1. task_index \in Nat /\ task_index + (slot + 1) = k + 1
    BY <1>1, <1>2 DEF IInv, Typed
  <2> QED
    BY <2>1 DEF TasksSettled, TasksValidated
<1>5. CursorBefore(TasksSettled)' = f
      /\ CursorBefore(TasksValidated)' = CursorBefore(TasksValidated)
  BY <1>3, <1>4 DEF CursorBefore
<1>6. structure' = CursorBefore(TasksValidated)'
  BY <1>5 DEF Undisturbed
<1>7. \A i \in 1 .. Len(window') : window'[i] = Stored[task_index' + i]
  BY DEF Undisturbed, InWindow
<1> QED
  BY <1>5, <1>6, <1>7, MovesOn

\* The task at the slot of a reduction, and what is in order before it.
LEMMA OrderedAtTheSlot ==
  ASSUME IInv, Undisturbed, place = "reduce", slot < Len(window)
  PROVE  /\ Ordered(CursorAt(window[slot + 1]))
         /\ IF window[slot + 1].tag = "hub_slice"
            THEN CanonicalSlice(window[slot + 1])
            ELSE CanonicalOrdinary(window[slot + 1])
<1>1. PICK k : k = task_index + slot
  OBVIOUS
<1>2. k \in Nat /\ k < task_count /\ window[slot + 1] = Stored[k + 1]
  BY <1>1, StoredAtSlot DEF IInv, Typed, InWindow
<1>3. Ordered(CursorBefore(k))
  <2>1. TasksSettled = k
    BY <1>1 DEF TasksSettled
  <2> QED
    BY <2>1 DEF Undisturbed
<1>4. CursorBefore(k) = CursorAt(window[slot + 1])
  BY <1>2 DEF CursorBefore
<1> QED
  BY <1>2, <1>3, <1>4, CanonicalTasks

LEMMA SkipOrdinaryMoves ==
  ASSUME IInv, Undisturbed, SkipOrdinary
  PROVE  Undisturbed'
<1>1. PICK t : t = window[slot + 1]
  OBVIOUS
<1>2. /\ place = "reduce" /\ slot < Len(window) /\ t.tag = "ordinary"
      /\ place' = "reduce" /\ slot' = slot + 1
      /\ UNCHANGED <<pass, task_index, window, structure, reduction, output>>
  BY <1>1 DEF SkipOrdinary, Task, passVars
<1>3. Produced(slot) /\ Ordered(CursorAt(t)) /\ CanonicalOrdinary(t)
  BY <1>1, <1>2, AtTheSlot, OrderedAtTheSlot
<1>4. /\ t.a \in Nat /\ t.b \in Nat /\ t.a + t.b <= vertex_count
      /\ \A d \in t.a .. t.a + t.b - 1 : ~IsHub(Counts, d)
      /\ t.edge_begin = E(t.a)
  BY <1>3 DEF CanonicalOrdinary
<1>5. \A d \in 0 .. t.a - 1 : output[d] = Reference(d)
  BY <1>3 DEF Ordered, CursorAt
<1>6. ASSUME NEW d \in t.a .. t.a + t.b - 1 PROVE output[d] = Reference(d)
  <2>1. d - t.a \in 0 .. t.b - 1 /\ t.a + (d - t.a) = d /\ d \in Vertices
        /\ t.a \in 0 .. vertex_count
    BY <1>4, VerticesAre
  <2>2. output[d] = <<TermsFrom(t.edge_begin + E(d) - E(t.a), Counts[d + 1])>>
    BY <1>1, <1>2, <1>3, <2>1 DEF Produced, ProducedTo, Task
  <2>3. E(d) \in Nat /\ E(t.a) \in Nat
    <3>1. d \in 0 .. vertex_count
      BY <2>1, VerticesAre
    <3> QED
      BY <2>1, <3>1, EdgesOfGraph
  <2>4. t.edge_begin + E(d) - E(t.a) = E(d)
    BY <1>4, <2>3
  <2>5. output[d] = <<Terms(d)>>
    BY <2>1, <2>2, <2>4, WholeTerms
  <2> QED
    BY <1>4, <2>5 DEF Reference
<1>7. PICK f : f = After(t)
  OBVIOUS
<1>8. f.next_destination = t.a + t.b /\ f.hub = NoHubGroup
  BY <1>2, <1>7 DEF After, NextDestination
<1>9. Ordered(f)
  <2>1. \A d \in 0 .. f.next_destination - 1 : output[d] = Reference(d)
    BY <1>4, <1>5, <1>6, <1>8
  <2> QED
    BY <1>8, <2>1 DEF Ordered
<1>10. Ordered(f)'
  BY <1>2, <1>9, OrderedStays
<1> QED
  BY <1>1, <1>2, <1>7, <1>10, ReducedMoves

LEMMA ReduceSliceMoves ==
  ASSUME IInv, Undisturbed, ReduceSlice
  PROVE  Undisturbed'
<1>1. PICK t, hub, more : /\ t = window[slot + 1] /\ hub = HubOf(t)
                          /\ more = Added(hub, t, partials[slot])
  OBVIOUS
<1>2. /\ place = "reduce" /\ slot < Len(window) /\ t.tag = "hub_slice"
      /\ UNCHANGED <<pass, task_index, window, structure>>
  BY <1>1 DEF ReduceSlice, Task, passVars
<1>3. /\ Produced(slot) /\ Settled(CursorAt(t))
      /\ Ordered(CursorAt(t)) /\ CanonicalSlice(t)
  BY <1>1, <1>2, AtTheSlot, OrderedAtTheSlot
<1>4. Reducible(t)
  BY <1>3, CanonicalIsReducible
<1>5. /\ place' = "reduce" /\ slot' = slot + 1
      /\ IF more.next_slice = more.slice_count
         THEN /\ output' = [output EXCEPT ![t.a] = more.incoming_sum]
              /\ reduction' = NoHub
         ELSE /\ reduction' = more /\ UNCHANGED output
  BY <1>1, <1>2, <1>4 DEF ReduceSlice, Task
<1>6. /\ t.a \in Nat /\ t.a < vertex_count /\ t.b \in Nat /\ t.c \in Nat
      /\ IsHub(Counts, t.a) /\ t.c = SliceCount(Counts[t.a + 1])
      /\ t.edge_begin \in Nat /\ t.edge_count \in Nat
  BY <1>3, AfterCanonical DEF CanonicalSlice
<1>7. hub \in Hubs /\ hub.slice_count = t.c /\ hub.next_slice = t.b
  BY <1>1, <1>2, <1>4, HubAtTheSlot
<1>8. partials[slot] = Slice(t.a, t.b + 1) /\ partials[slot] \in Seq(Term)
  <2>1. partials[slot] = TermsFrom(t.edge_begin, t.edge_count)
    BY <1>1, <1>2, <1>3 DEF Produced, Task
  <2>2. pass \in Nat
    BY DEF IInv, Typed
  <2> QED
    BY <1>3, <1>6, <2>1, <2>2, SliceTerms, TermsTyped
<1>9. hub.incoming_sum = SlicesTo(t.a, t.b)
  <2>1. CASE t.b = 0
    <3>1. reduction = NoHub
      BY <1>3, <2>1 DEF Settled, CursorAt
    <3>2. hub.incoming_sum = <<>>
      BY <1>1, <3>1 DEF HubOf
    <3> QED
      BY <2>1, <3>2 DEF SlicesTo
  <2>2. CASE t.b # 0
    <3>1. CursorAt(t).hub = HubGroup(t.a, t.c, t.b) /\ CursorAt(t).hub # NoHubGroup
          /\ CursorAt(t).next_destination = t.a
      BY <1>2, <1>6, <2>2 DEF CursorAt, HubGroup, NoHubGroup
    <3>2. reduction # NoHub
      BY <1>3, <3>1 DEF Settled
    <3>3. hub = reduction
      BY <1>1, <3>2 DEF HubOf
    <3> QED
      BY <1>3, <3>1, <3>3 DEF Ordered, HubGroup
  <2> QED
    BY <2>1, <2>2
<1>10. /\ more.slice_count = t.c /\ more.next_slice = t.b + 1
       /\ more.incoming_sum = SlicesTo(t.a, t.b + 1)
  <2>1. /\ more.slice_count = hub.slice_count /\ more.next_slice = hub.next_slice + 1
        /\ more.incoming_sum = Append(hub.incoming_sum, partials[slot])
    <3>1. PICK p : p = partials[slot]
      OBVIOUS
    <3>2. p \in Seq(Term)
      BY <1>8, <3>1
    <3>3. more = Added(hub, t, p)
      BY <1>1, <3>1
    <3>4. t.edge_count \in Nat
      BY <1>6
    <3>5. hub \in Hubs
      BY <1>7
    <3> QED
      BY ONLY <3>1, <3>2, <3>3, <3>4, <3>5, AddedIs
  <2> QED
    BY <1>6, <1>7, <1>8, <1>9, <2>1, SlicesAppend
<1>11. /\ \A d, i : Slice(d, i)' = Slice(d, i)
       /\ \A d : Reference(d)' = Reference(d)
       /\ \A d, n : SlicesTo(d, n)' = SlicesTo(d, n)
  BY <1>2 DEF Slice, Reference, Terms, SlicesTo
<1>12. \A d \in 0 .. t.a - 1 : output[d] = Reference(d)
  BY <1>3 DEF Ordered, CursorAt
<1>13. output \in [Vertices -> Seq(Seq(Term))]
  BY DEF IInv, Typed
<1>14. t.a \in Vertices /\ \A d \in 0 .. t.a - 1 : d \in Vertices
  BY <1>6, VerticesAre
<1>15. PICK f : f = After(t)
  OBVIOUS
<1>16. CASE t.b + 1 = t.c
  <2>1. output' = [output EXCEPT ![t.a] = more.incoming_sum]
    BY <1>5, <1>10, <1>16
  <2>2. f.next_destination = t.a + 1 /\ f.hub = NoHubGroup
    BY <1>2, <1>15, <1>16 DEF After, NextDestination
  <2>3. output'[t.a] = Reference(t.a)
    <3>1. output'[t.a] = SlicesTo(t.a, t.c)
      BY <1>10, <1>13, <1>14, <1>16, <2>1
    <3> QED
      BY <1>6, <3>1 DEF Reference, SlicesTo
  <2>4. ASSUME NEW d \in 0 .. t.a PROVE output'[d] = Reference(d)
    <3>1. CASE d = t.a
      BY <2>3, <3>1
    <3>2. CASE d # t.a
      <4>1. d \in 0 .. t.a - 1
        BY <1>6, <3>2
      <4> QED
        BY <1>12, <1>13, <1>14, <2>1, <3>2, <4>1
    <3> QED
      BY <3>1, <3>2
  <2>5. (t.a + 1) - 1 = t.a
    BY <1>6
  <2>6. Ordered(f)'
    BY <1>11, <2>2, <2>4, <2>5 DEF Ordered
  <2> QED
    BY <1>1, <1>2, <1>5, <1>15, <2>6, ReducedMoves
<1>17. CASE t.b + 1 # t.c
  <2>1. reduction' = more /\ output' = output
    BY <1>5, <1>10, <1>17
  <2>2. f.next_destination = t.a /\ f.hub = HubGroup(t.a, t.c, t.b + 1)
        /\ f.hub.next_slice = t.b + 1
    BY <1>2, <1>15, <1>17 DEF After, NextDestination, HubGroup
  <2>3. Ordered(f)'
    BY <1>10, <1>11, <1>12, <2>1, <2>2 DEF Ordered
  <2> QED
    BY <1>1, <1>2, <1>5, <1>15, <2>3, ReducedMoves
<1> QED
  BY <1>16, <1>17

LEMMA EndWindowMoves ==
  ASSUME IInv, Undisturbed, EndWindow
  PROVE  Undisturbed'
<1>1. /\ place = "reduce" /\ slot = Len(window) /\ place' = "check"
      /\ task_index' = task_index + Len(window)
      /\ UNCHANGED <<pass, structure, reduction, output>>
  BY DEF EndWindow, Goto, hubVars
<1>2. PICK k : k = task_index + Len(window)
  OBVIOUS
<1>3. /\ TasksSettled = k /\ TasksSettled' = k
      /\ TasksValidated = k /\ TasksValidated' = k
  BY <1>1, <1>2 DEF TasksSettled, TasksValidated
<1>4. PICK f : f = CursorBefore(k)
  OBVIOUS
<1>5. CursorBefore(TasksSettled)' = f /\ CursorBefore(TasksValidated)' = f
  BY <1>3, <1>4 DEF CursorBefore
<1>6. structure = f /\ Ordered(f)
  BY <1>1, <1>3, <1>4 DEF Undisturbed
<1>7. Ordered(f)'
  BY <1>1, <1>6, OrderedStays
<1> QED
  BY <1>1, <1>5, <1>6, <1>7, MovesOn DEF InWindow

LEMMA EndPassMoves ==
  ASSUME IInv, Undisturbed, EndPass
  PROVE  Undisturbed'
<1>1. /\ place = "check" /\ task_index = task_count
      /\ place' = IF Covered THEN "complete" ELSE "failed"
      /\ UNCHANGED <<pass, task_index, structure, reduction, output>>
  BY DEF EndPass, Goto, passVars, hubVars
<1>2. /\ TasksSettled = task_count /\ TasksValidated = task_count
  BY <1>1 DEF TasksSettled, TasksValidated
<1>3. PICK f : f = CursorBefore(task_count)
  OBVIOUS
<1>4. structure = f /\ Ordered(f)
  BY <1>1, <1>2, <1>3 DEF Undisturbed
<1>5. /\ f.next_destination = vertex_count /\ f.next_edge = edge_count
      /\ f.hub = NoHubGroup
  BY <1>3, Sizes DEF CursorBefore
<1>6. Covered
  <2>1. Settled(structure)
    BY <1>1 DEF IInv, SettledInv, Frontier
  <2> QED
    BY <1>4, <1>5, <2>1 DEF Covered, Settled
<1>7. place' = "complete" /\ Covered'
  BY <1>1, <1>6 DEF Covered
<1>8. TasksSettled' = task_count /\ TasksValidated' = task_count
  BY <1>1, <1>7 DEF TasksSettled, TasksValidated
<1>9. CursorBefore(TasksSettled)' = f /\ CursorBefore(TasksValidated)' = f
  BY <1>3, <1>8 DEF CursorBefore
<1>10. Ordered(f)'
  BY <1>1, <1>4, OrderedStays
<1> QED
  BY <1>1, <1>4, <1>7, <1>9, <1>10, MovesOn DEF InWindow

\* What a worker stores lies behind what was settled before its window.
LEMMA WorkingStays ==
  ASSUME IInv, Undisturbed, place = "wave",
         UNCHANGED <<place, pass, task_index, window, slot, structure, reduction,
                     throwing, faulted>>,
         NEW j \in 0 .. Len(window) - 1,
         \A d \in Vertices : output'[d] = output[d] \/ d \in Territory(Task(j))
  PROVE  Undisturbed'
<1>1. PICK f : f = CursorBefore(task_index)
  OBVIOUS
<1>2. Len(window) \in 1 .. WindowRecords /\ task_index \in Nat
  BY DEF IInv, Typed, WindowInv, InWindow
<1>3. f = CursorAt(window[1])
  <2>1. 0 \in Nat /\ 0 < Len(window) /\ 0 + 1 = 1 /\ task_index + 0 = task_index
    BY <1>2
  <2>2. /\ task_index + 0 \in Nat /\ task_index + 0 < task_count
        /\ window[0 + 1] = Stored[(task_index + 0) + 1]
    BY ONLY IInv, Undisturbed, place = "wave", <2>1, StoredAtSlot DEF InWindow
  <2>3. task_index < task_count /\ window[1] = Stored[task_index + 1]
    BY <2>1, <2>2
  <2> QED
    BY <1>1, <2>3 DEF CursorBefore
<1>4. f.next_destination = window[1].a
  BY <1>3 DEF CursorAt
<1>5. f.next_destination <= vertex_count
  <2>1. Frontier = f
    BY <1>2, <1>3 DEF Frontier, Validated
  <2> QED
    BY <2>1 DEF IInv, SettledInv, Settled
<1>6. window[1].a \in Nat
  <2>1. window[1] \in TaskRecord
    BY <1>2 DEF IInv, Typed
  <2> QED
    BY <2>1, RecordTyped
<1>7. \A d \in Territory(Task(j)) : d >= window[1].a
  BY TaskOfWave
<1>8. ASSUME NEW d \in 0 .. f.next_destination - 1 PROVE output'[d] = output[d]
  <2>1. d \in Vertices /\ ~(d >= window[1].a)
    BY <1>4, <1>5, <1>6, <1>8, VerticesAre
  <2> QED
    BY <1>7, <2>1
<1>9. CursorBefore(TasksSettled) = f
  BY <1>1 DEF TasksSettled
<1> QED
  BY <1>8, <1>9, UndisturbedStays

LEMMA WorkerMoves ==
  ASSUME IInv, Undisturbed, NEW w \in Workers, WorkerStep(w)
  PROVE  Undisturbed'
<1>1. ASSUME NEW j \in Slots, StartJob(w, j) PROVE Undisturbed'
  <2>1. /\ UNCHANGED <<place, pass, task_index, window, slot, structure, reduction,
                       throwing, faulted, output>>
    BY <1>1 DEF StartJob, Wave!RunJob, passVars, hubVars
  <2> QED
    BY <2>1, UndisturbedStays
<1>2. CASE ConsumeSource(w) \/ EndSlice(w) \/ JobThrows(w)
  <2>1. UNCHANGED <<place, pass, task_index, window, slot, structure, reduction,
                    throwing, faulted, output>>
    BY <1>2 DEF ConsumeSource, EndSlice, JobThrows, passVars, hubVars, waveVars
  <2> QED
    BY <2>1, UndisturbedStays
<1>3. CASE NextDestinationOf(w) \/ EndOrdinary(w)
  <2>1. /\ Running(w) /\ MyTask(w).tag = "ordinary" /\ left[w] = 0
        /\ output' = WithSum(w)
        /\ UNCHANGED <<place, pass, task_index, window, slot, structure, reduction,
                       throwing, faulted>>
    BY <1>3 DEF NextDestinationOf, EndOrdinary, passVars, hubVars, waveVars
  <2>2. PICK t, p : t = MyTask(w) /\ p = countCursor[w].position
    OBVIOUS
  <2>3. SummedTo(w, t, p)
    BY ONLY IInv, <2>1, <2>2, SumIsWhole
  <2>4. PICK j : j = job[w]
    OBVIOUS
  <2>5. /\ place = "wave" /\ j \in 0 .. Len(window) - 1 /\ t = Task(j)
    BY <2>1, <2>2, <2>4, AtWork DEF MyTask
  <2>6. \A d \in Vertices : output'[d] = output[d] \/ d \in Territory(Task(j))
    BY <2>1, <2>3, <2>5 DEF SummedTo
  <2> QED
    BY <2>1, <2>5, <2>6, WorkingStays
<1> QED
  BY <1>1, <1>2, <1>3 DEF WorkerStep

\* A step that neither moves the pass nor touches its sums.
LEMMA OtherStepsMove ==
  ASSUME Undisturbed, JobStops \/ ThreadsFail \/ UNCHANGED vars
  PROVE  Undisturbed'
<1>1. UNCHANGED <<place, pass, task_index, window, slot, structure, reduction,
                  throwing, output>> /\ (faulted => faulted')
  <2>1. CASE JobStops
    BY <2>1 DEF JobStops, passVars, hubVars, Wave!Stop
  <2>2. CASE ThreadsFail
    BY <2>2 DEF ThreadsFail, ThrowIf, passVars, hubVars, Wave!Stop
  <2>3. CASE UNCHANGED vars
    BY <2>3 DEF vars, passVars, hubVars, waveVars
  <2> QED
    BY <2>1, <2>2, <2>3
<1> QED
  BY <1>1, UndisturbedStays

\* Only Rewrite changes tasks.bin, and for good.
LEMMA ChangedForGood ==
  ASSUME [Next]_vars, ~changed'
  PROVE  ~changed /\ ~Rewrite
<1>1. ~Rewrite
  BY DEF Rewrite
<1>2. ASSUME Environment PROVE UNCHANGED changed
  BY <1>1, <1>2 DEF Environment, ReadFails, ThreadsFail
<1>3. ASSUME CoordinatorStep PROVE UNCHANGED changed
  <2>1. ASSUME BeginPass \/ Check \/ ReadWindow \/ ValidateTask PROVE UNCHANGED changed
    BY <2>1 DEF BeginPass, Check, ReadWindow, ValidateTask
  <2>2. ASSUME StartWave \/ JobStops \/ WaveReturns \/ WaveThrows
        PROVE  UNCHANGED changed
    BY <2>2 DEF StartWave, JobStops, WaveReturns, WaveThrows
  <2>3. ASSUME ReduceSlice \/ SkipOrdinary \/ EndWindow \/ EndPass
        PROVE  UNCHANGED changed
    BY <2>3 DEF ReduceSlice, SkipOrdinary, EndWindow, EndPass
  <2> QED
    BY <1>3, <2>1, <2>2, <2>3 DEF CoordinatorStep
<1>4. ASSUME NEW w \in Workers, WorkerStep(w) PROVE UNCHANGED changed
  <2>1. ASSUME NEW j \in Slots, StartJob(w, j) PROVE UNCHANGED changed
    BY <2>1 DEF StartJob
  <2>2. ASSUME \/ ConsumeSource(w) \/ NextDestinationOf(w)
               \/ EndOrdinary(w) \/ EndSlice(w) \/ JobThrows(w)
        PROVE  UNCHANGED changed
    BY <2>2 DEF ConsumeSource, NextDestinationOf, EndOrdinary, EndSlice, JobThrows
  <2> QED
    BY <1>4, <2>1, <2>2 DEF WorkerStep
<1>5. ASSUME UNCHANGED vars PROVE UNCHANGED changed
  BY <1>5 DEF vars
<1>6. UNCHANGED changed
  BY <1>2, <1>3, <1>4, <1>5 DEF Next
<1> QED
  BY <1>1, <1>6

LEMMA InitUndisturbed == Init => UInv
<1> SUFFICES ASSUME Init PROVE Undisturbed
  BY DEF UInv
<1>1. place = "idle"
  BY DEF Init
<1> QED
  BY <1>1 DEF Undisturbed, InWindow

LEMMA NextUndisturbed ==
  ASSUME IInv, UInv, [Next]_vars
  PROVE  UInv'
<1> SUFFICES ASSUME ~changed' PROVE Undisturbed'
  BY DEF UInv
<1>1. ~changed /\ ~Rewrite
  BY ChangedForGood
<1>2. Undisturbed
  BY <1>1 DEF UInv
<1>3. CASE Environment
  BY <1>1, <1>2, <1>3, ReadFailsMoves, OtherStepsMove DEF Environment
<1>4. CASE CoordinatorStep
  BY <1>1, <1>2, <1>4, BeginPassMoves, CheckMoves, ReadWindowMoves,
     ValidateTaskMoves, StartWaveMoves, OtherStepsMove, WaveReturnsMoves,
     WaveThrowsMoves, ReduceSliceMoves, SkipOrdinaryMoves, EndWindowMoves, EndPassMoves
  DEF CoordinatorStep
<1>5. ASSUME NEW w \in Workers, WorkerStep(w) PROVE Undisturbed'
  BY <1>2, <1>5, WorkerMoves
<1>6. CASE UNCHANGED vars
  BY <1>2, <1>6, OtherStepsMove
<1> QED
  BY <1>3, <1>4, <1>5, <1>6 DEF Next

LEMMA UndisturbedIsDeterministic ==
  ASSUME UInv, IInv PROVE ResultIsDeterministic
<1> SUFFICES ASSUME ~changed
             PROVE  /\ place = "complete" => \A d \in Vertices : output[d] = Reference(d)
                    /\ place = "failed" => faulted
  BY DEF ResultIsDeterministic
<1>1. Undisturbed
  BY DEF UInv
<1>2. ASSUME place = "complete", NEW d \in Vertices PROVE output[d] = Reference(d)
  <2>1. Covered /\ structure = CursorBefore(task_index) /\ Ordered(CursorBefore(task_index))
    BY <1>1, <1>2 DEF Undisturbed, TasksSettled, TasksValidated
  <2>2. CursorBefore(task_index).next_destination = vertex_count
    BY <2>1 DEF Covered
  <2>3. d \in 0 .. CursorBefore(task_index).next_destination - 1
    BY <2>2 DEF Vertices
  <2> QED
    BY <2>1, <2>3 DEF Ordered
<1>3. place = "failed" => faulted
  BY <1>1 DEF Undisturbed
<1> QED
  BY <1>2, <1>3

\* parallel_traversal.cpp:558-573: while tasks.bin stays what it was, a pass
\* that returns has added up every sum in the order of the partition, whatever
\* worker took which task and when, and a pass only fails when something
\* outside has failed.
THEOREM ResultsDoNotDependOnTheSchedule == Spec => []ResultIsDeterministic
<1>1. Init => UInv
  BY InitUndisturbed
<1>2. IInv /\ UInv /\ [Next]_vars => UInv'
  BY NextUndisturbed
<1>3. IInv /\ UInv => ResultIsDeterministic
  BY UndisturbedIsDeterministic
<1> QED
  BY <1>1, <1>2, <1>3, TraversalInvariance, PTL DEF Spec

----------------------------------------------------------------------------
(* The iteration.                                                          *)

\* No vector is mistaken for a missing one.
LEMMA RanksAreVectors ==
  ASSUME NEW k \in 0 .. MaxIterations
  PROVE  RankAfter[k] # None
<1>1. CASE k = 0
  BY <1>1, IterationAssumption DEF Initial, None
<1>2. CASE k # 0
  <2>1. RankAfter[k] = Normal(Mapped(Transformed(RankAfter[k - 1])))
    BY <1>2, IterationAssumption
  <2> QED BY <2>1 DEF Normal, None
<1> QED BY <1>1, <1>2

\* The sum of the terms of a vector is its residual.
LEMMA SumOfTerms ==
  ASSUME NEW v
  PROVE  SumOf(TermsOf(v)) = v
BY DEF SumOf, TermsOf

\* The first state satisfies the invariant.
LEMMA IterationStarts == IterationInit => IterationInv
<1> SUFFICES ASSUME IterationInit PROVE IterationInv
  OBVIOUS
<1> USE IterationAssumption DEF IterationInit, EmptyReport
<1>1. TypeOK
  BY DEF TypeOK, Points
<1>2. CountsAgree
  BY DEF CountsAgree
<1>3. VectorsAgree /\ ReportAgrees /\ ResultAgrees
  BY DEF VectorsAgree, ReportAgrees, ResultAgrees
<1>4. VerifiedResult /\ ViewIsOfOneIteration /\ ReportIsOfOneVector
  BY DEF VerifiedResult, ViewIsOfOneIteration, ReportIsOfOneVector, NoView
<1> QED BY <1>1, <1>2, <1>3, <1>4 DEF IterationInv

\* Every step preserves the invariant.
LEMMA IterationKept == IterationInv /\ [IterationNext]_iterationVars => IterationInv'
<1> SUFFICES ASSUME IterationInv, [IterationNext]_iterationVars PROVE IterationInv'
  OBVIOUS
<1> USE IterationAssumption
<1>c. TypeOK /\ CountsAgree /\ VectorsAgree /\ ReportAgrees /\ ResultAgrees
      /\ VerifiedResult /\ ViewIsOfOneIteration /\ ReportIsOfOneVector
  BY DEF IterationInv
<1>0. CASE UNCHANGED iterationVars
  BY <1>0 DEF IterationInv, iterationVars, vectors, TypeOK, CountsAgree, VectorsAgree,
     ReportAgrees, ResultAgrees, Earlier, VerifiedResult,
     ViewIsOfOneIteration, ReportIsOfOneVector
<1>1. CASE Allocate
  BY <1>c, <1>1 DEF Allocate, Proceed, IterationInv, TypeOK, Points, CountsAgree, VectorsAgree,
     ReportAgrees, ResultAgrees, Earlier, VerifiedResult,
     ViewIsOfOneIteration, ReportIsOfOneVector
<1>2. CASE Throws
  BY <1>c, <1>2 DEF Throws, Proceed, vectors, IterationInv, TypeOK, Points, CountsAgree,
     VectorsAgree, ReportAgrees, ResultAgrees, Earlier, VerifiedResult,
     ViewIsOfOneIteration, ReportIsOfOneVector
<1>3. CASE Transform
  BY <1>c, <1>3 DEF Transform, Attempt, Proceed, IterationInv, TypeOK, Points, CountsAgree,
     VectorsAgree, ReportAgrees, ResultAgrees, Earlier, VerifiedResult,
     ViewIsOfOneIteration, ReportIsOfOneVector
<1>4. ASSUME NEW f \in TransformFailures, TransformFails(f) PROVE IterationInv'
  <2>1. /\ point = "transform" /\ point' = "returned" /\ ranks' = None
        /\ report' = [report EXCEPT !.iterations_attempted = iteration,
                        !.status = "numerical_failure", !.numerical_failure = f]
        /\ f # "none"
        /\ UNCHANGED <<iteration, current, scratch, view>>
    BY <1>4 DEF TransformFails, TransformFailures, Attempt, Proceed, vectors
  <2>2. TypeOK'
    BY <1>c, <2>1 DEF TypeOK, Points
  <2>3. CountsAgree'
    BY <1>c, <2>1 DEF TypeOK, CountsAgree
  <2>4. VectorsAgree' /\ ReportAgrees' /\ ResultAgrees'
    BY <1>c, <2>1 DEF TypeOK, CountsAgree, VectorsAgree, ReportAgrees,
       ResultAgrees, Earlier
  <2>5. VerifiedResult'
    BY <1>c, <2>1 DEF TypeOK, CountsAgree, VectorsAgree, ReportAgrees,
       ResultAgrees, VerifiedResult
  <2>6. ViewIsOfOneIteration'
    BY <1>c, <2>1 DEF ViewIsOfOneIteration
  <2>7. ReportIsOfOneVector'
    BY <1>c, <2>1 DEF TypeOK, CountsAgree, VectorsAgree, ReportAgrees, Earlier,
       ReportIsOfOneVector
  <2> QED BY <2>2, <2>3, <2>4, <2>5, <2>6, <2>7 DEF IterationInv
<1>5. CASE WriteCandidate
  BY <1>c, <1>5 DEF WriteCandidate, Proceed, IterationInv, TypeOK, Points, CountsAgree,
     VectorsAgree, ReportAgrees, ResultAgrees, Earlier, VerifiedResult,
     ViewIsOfOneIteration, ReportIsOfOneVector
<1>6. CASE Normalize
  <2>1. /\ point = "normalize" /\ scratch' = Normal(scratch)
        /\ \/ point' = "observe" /\ report' = Measurements
           \/ /\ point' = "residual"
              /\ report' = [Measurements EXCEPT !.residual_checks = @ + 1]
        /\ UNCHANGED <<iteration, current, ranks, view>>
    BY <1>6 DEF Normalize, Proceed
  <2>2. TypeOK'
    BY <1>c, <2>1 DEF Measurements, TypeOK, Points
  <2>3. /\ report'.iterations_attempted = report.iterations_attempted
        /\ report'.status = report.status
        /\ report'.numerical_failure = report.numerical_failure
        /\ report'.last_raw_mass = scratch
        /\ report'.last_delta_l1 = Measured(Normal(scratch), current)
        /\ report'.true_residual_l1 = None
        /\ \/ point' = "observe" /\ report'.residual_checks = report.residual_checks
           \/ /\ point' = "residual"
              /\ report'.residual_checks = report.residual_checks + 1
    BY <1>c, <2>1 DEF Measurements, TypeOK
  <2>4. CountsAgree'
    BY <1>c, <2>1, <2>3 DEF CountsAgree
  <2>5. Normal(scratch) = RankAfter[iteration]
    BY <1>c, <2>1 DEF CountsAgree, VectorsAgree, Earlier
  <2>6. VectorsAgree' /\ ReportAgrees' /\ ResultAgrees'
    BY <1>c, <2>1, <2>3, <2>5 DEF CountsAgree, VectorsAgree, ReportAgrees,
       ResultAgrees, Earlier
  <2>7. VerifiedResult' /\ ViewIsOfOneIteration' /\ ReportIsOfOneVector'
    BY <1>c, <2>1, <2>3 DEF ResultAgrees, VerifiedResult, ViewIsOfOneIteration,
       ReportIsOfOneVector
  <2> QED BY <2>2, <2>4, <2>6, <2>7 DEF IterationInv
<1>7. ASSUME NEW f \in UnmeasuredFailures \union MeasuredFailures,
             NormalizeFails(f)
      PROVE  IterationInv'
  BY <1>c, <1>7 DEF NormalizeFails, UnmeasuredFailures, MeasuredFailures, Proceed,
     vectors, IterationInv, TypeOK, Points, CountsAgree, VectorsAgree, ReportAgrees,
     ResultAgrees, Earlier, VerifiedResult, ViewIsOfOneIteration,
     ReportIsOfOneVector
<1>8. CASE ResidualSequentially
  <2>1. /\ point = "residual" /\ point' = "observe"
        /\ report' = [report EXCEPT !.true_residual_l1 = scratch]
        /\ UNCHANGED <<iteration, current, scratch, ranks, view>>
    BY <1>8 DEF ResidualSequentially, SetResidual, Proceed, vectors
  <2>2. TypeOK'
    BY <1>c, <2>1 DEF TypeOK, Points
  <2>3. CountsAgree'
    BY <1>c, <2>1 DEF TypeOK, CountsAgree
  <2>4. VectorsAgree' /\ ReportAgrees' /\ ResultAgrees'
    BY <1>c, <2>1 DEF TypeOK, CountsAgree, VectorsAgree, ReportAgrees,
       ResultAgrees, Earlier
  <2>5. VerifiedResult'
    BY <1>c, <2>1 DEF TypeOK, CountsAgree, VectorsAgree, ReportAgrees,
       ResultAgrees, VerifiedResult
  <2>6. ViewIsOfOneIteration'
    BY <1>c, <2>1 DEF ViewIsOfOneIteration
  <2>7. ReportIsOfOneVector'
    BY <1>c, <2>1 DEF TypeOK, CountsAgree, VectorsAgree, ReportAgrees, Earlier,
       ReportIsOfOneVector
  <2> QED BY <2>2, <2>3, <2>4, <2>5, <2>6, <2>7 DEF IterationInv
<1>9. CASE WriteTerms
  BY <1>c, <1>9 DEF WriteTerms, Proceed, IterationInv, TypeOK, Points, CountsAgree,
     VectorsAgree, ReportAgrees, ResultAgrees, Earlier, VerifiedResult,
     ViewIsOfOneIteration, ReportIsOfOneVector
<1>10. CASE SumTerms
  <2>1. /\ point = "terms" /\ point' = "observe"
        /\ report' = [report EXCEPT !.true_residual_l1 = SumOf(current)]
        /\ UNCHANGED <<iteration, current, scratch, ranks, view>>
    BY <1>10 DEF SumTerms, SetResidual, Proceed, vectors
  <2>2. TypeOK'
    BY <1>c, <2>1 DEF TypeOK, Points
  <2>3. CountsAgree'
    BY <1>c, <2>1 DEF TypeOK, CountsAgree
  <2>4. VectorsAgree' /\ ReportAgrees' /\ ResultAgrees'
    BY <1>c, <2>1, SumOfTerms DEF TypeOK, CountsAgree, VectorsAgree, ReportAgrees,
       ResultAgrees, Earlier
  <2>5. VerifiedResult'
    BY <1>c, <2>1, SumOfTerms DEF TypeOK, CountsAgree, VectorsAgree, ReportAgrees,
       ResultAgrees, VerifiedResult
  <2>6. ViewIsOfOneIteration'
    BY <1>c, <2>1 DEF ViewIsOfOneIteration
  <2>7. ReportIsOfOneVector'
    BY <1>c, <2>1, SumOfTerms DEF TypeOK, CountsAgree, VectorsAgree, ReportAgrees, Earlier,
       ReportIsOfOneVector
  <2> QED BY <2>2, <2>3, <2>4, <2>5, <2>6, <2>7 DEF IterationInv
<1>11. CASE ResidualFails
  BY <1>c, <1>11 DEF ResidualFails, FailNumerically, Return, Proceed, vectors, IterationInv,
     TypeOK, Points, CountsAgree, VectorsAgree, ReportAgrees, ResultAgrees,
     Earlier, VerifiedResult, ViewIsOfOneIteration, ReportIsOfOneVector
<1>12. CASE Observe
  BY <1>c, <1>12 DEF Observe, Proceed, vectors, IterationInv, TypeOK, Points, CountsAgree,
     VectorsAgree, ReportAgrees, ResultAgrees, Earlier, VerifiedResult,
     ViewIsOfOneIteration, ReportIsOfOneVector
<1>13. CASE Converge
  <2>1. /\ point = "decide" /\ point' = "returned" /\ ranks' = scratch
        /\ report.true_residual_l1 # None
        /\ report' = [report EXCEPT !.status = "converged",
                        !.numerical_failure = report.numerical_failure]
        /\ UNCHANGED <<iteration, current, scratch, view>>
    BY <1>13 DEF Converge, Return, Proceed, vectors
  <2>2. TypeOK'
    BY <1>c, <2>1 DEF TypeOK, Points
  <2>3. CountsAgree'
    BY <1>c, <2>1 DEF TypeOK, CountsAgree
  <2>4. VectorsAgree' /\ ReportAgrees' /\ ResultAgrees'
    BY <1>c, <2>1, RanksAreVectors DEF TypeOK, CountsAgree, VectorsAgree, ReportAgrees,
       ResultAgrees, Earlier
  <2>5. VerifiedResult'
    BY <1>c, <2>1, RanksAreVectors DEF TypeOK, CountsAgree, VectorsAgree, ReportAgrees,
       ResultAgrees, VerifiedResult
  <2>6. ViewIsOfOneIteration'
    BY <1>c, <2>1 DEF ViewIsOfOneIteration
  <2>7. ReportIsOfOneVector'
    BY <1>c, <2>1, RanksAreVectors DEF TypeOK, CountsAgree, VectorsAgree, ReportAgrees, Earlier,
       ReportIsOfOneVector
  <2> QED BY <2>2, <2>3, <2>4, <2>5, <2>6, <2>7 DEF IterationInv
<1>14. CASE GiveUp
  BY <1>c, <1>14 DEF GiveUp, Return, Proceed, vectors, IterationInv, TypeOK, Points,
     CountsAgree, VectorsAgree, ReportAgrees, ResultAgrees, Earlier,
     VerifiedResult, ViewIsOfOneIteration, ReportIsOfOneVector
<1>15. CASE Rotate
  BY <1>c, <1>15 DEF Rotate, Proceed, IterationInv, TypeOK, Points, CountsAgree,
     VectorsAgree, ReportAgrees, ResultAgrees, Earlier, VerifiedResult,
     ViewIsOfOneIteration, ReportIsOfOneVector
<1> QED
  BY <1>0, <1>1, <1>2, <1>3, <1>4, <1>5, <1>6, <1>7, <1>8, <1>9, <1>10, <1>11,
     <1>12, <1>13, <1>14, <1>15 DEF IterationNext

\* The invariant holds in every state of a call.
LEMMA IterationInvariant == IterationSpec => []IterationInv
BY IterationStarts, IterationKept, PTL DEF IterationSpec

\* pagerank.cpp:717-729: the ranks that are handed out are those of the last
\* iteration, and the residual reported was computed from them.
THEOREM ResultIsVerified == IterationSpec => []VerifiedResult
<1>1. IterationInv => VerifiedResult
  BY DEF IterationInv
<1> QED BY <1>1, IterationInvariant, PTL

\* pagerank.cpp:707-715: all that the observer is shown is of one iteration.
THEOREM ViewsAreOfOneIteration == IterationSpec => []ViewIsOfOneIteration
<1>1. IterationInv => ViewIsOfOneIteration
  BY DEF IterationInv
<1> QED BY <1>1, IterationInvariant, PTL

\* pagerank.cpp:677-681: a residual and a delta in one report are of the same
\* vector.
THEOREM ReportsAreOfOneVector == IterationSpec => []ReportIsOfOneVector
<1>1. IterationInv => ReportIsOfOneVector
  BY DEF IterationInv
<1> QED BY <1>1, IterationInvariant, PTL
==============================================================================
