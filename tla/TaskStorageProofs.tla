------------------------- MODULE TaskStorageProofs -------------------------
(***************************************************************************)
(* The division of a graph into tasks, for every sequence of counts, every *)
(* limit on a task, whatever the consumer of the builder does and whatever *)
(* well-formed records tasks.bin holds when it is opened again.            *)
(*                                                                         *)
(* The builder (BuilderInv).  What the consumer has, what the present call *)
(* has still to emit and the task being filled cover the destinations one  *)
(* after the other (Linked, Leads, OpenTask).  What it has emitted is      *)
(* right whatever comes next (Settled), because a task leaves only when    *)
(* the next count cannot join it (FlushedIsRight) or when there is none.   *)
(*                                                                         *)
(* The validator (Reading).  It stands where the accepted tasks end, so    *)
(* that its checks of the next task say neither more nor less than that    *)
(* the task continues the partition (AcceptsIff).  As the place where a    *)
(* task starts says which task it is (OneTask), there is one canonical     *)
(* partition, and what is accepted is what was written (OnePartition).     *)
(***************************************************************************)
EXTENDS TaskStorage, WellFoundedInduction, SequenceTheorems, TLAPS
----------------------------------------------------------------------------
(* Numbers.                                                                *)

\* Every non-empty set of naturals has a least element.
LEMMA LeastNumber ==
  ASSUME NEW S, S \subseteq Nat, S # {}
  PROVE  \E k \in S : \A j \in S : k <= j
<1> DEFINE Below == {p \in Nat \X Nat : p[1] < p[2]}
<1>1. IsWellFoundedOn(Below, Nat)
  BY NatLessThanWellFounded DEF OpToRel
<1>2. \E k \in S : \A j \in S : <<j, k>> \notin Below
  BY <1>1, WFMin
<1>3. \A j, k \in S : <<j, k>> \notin Below => k <= j
  OBVIOUS
<1> QED
  BY <1>2, <1>3

----------------------------------------------------------------------------
(* The edges before a destination.                                         *)

\* f gives the number of edges before every destination up to n.
CountsEdges(f, counts, n) ==
  /\ f \in [0 .. n -> Nat]
  /\ f[0] = 0
  /\ \A i \in 1 .. n : f[i] = f[i - 1] + counts[i]

LEMMA EdgeCountsExist ==
  ASSUME NEW counts \in Seq(Nat), NEW n \in 0 .. Len(counts)
  PROVE  \E f : CountsEdges(f, counts, n)
<1> DEFINE S == {j \in Nat : j <= Len(counts) /\ ~\E f : CountsEdges(f, counts, j)}
<1> SUFFICES ASSUME S # {} PROVE FALSE
  OBVIOUS
<1>1. PICK k \in S : \A j \in S : k <= j
  BY LeastNumber
<1>2. k # 0
  <2> DEFINE f == [i \in 0 .. 0 |-> 0]
  <2>1. CountsEdges(f, counts, 0)
    BY DEF CountsEdges
  <2> QED
    BY <1>1, <2>1
<1>3. k - 1 \in Nat /\ k - 1 < k /\ k <= Len(counts)
  BY <1>2
<1>4. PICK f : CountsEdges(f, counts, k - 1)
  <2>1. k - 1 \notin S /\ Len(counts) \in Nat
    BY SMTT(30), <1>1, <1>3
  <2>2. k - 1 <= Len(counts)
    BY <1>3, <2>1
  <2> QED
    BY <1>3, <2>1, <2>2
<1> DEFINE h == [i \in 0 .. k |-> IF i = k THEN f[k - 1] + counts[k] ELSE f[i]]
<1>5. f[k - 1] \in Nat /\ counts[k] \in Nat
  BY <1>2, <1>3, <1>4 DEF CountsEdges
<1>6. h \in [0 .. k -> Nat]
  <2>1. f[k - 1] + counts[k] \in Nat
    BY <1>5
  <2>2. \A i \in 0 .. k : i # k => f[i] \in Nat
    BY <1>3, <1>4 DEF CountsEdges
  <2> QED
    BY <2>1, <2>2
<1>7. h[0] = 0
  BY <1>2, <1>4 DEF CountsEdges
<1>8. ASSUME NEW i \in 1 .. k PROVE h[i] = h[i - 1] + counts[i]
  <2>1. CASE i = k
    BY <1>3, <2>1
  <2>2. CASE i # k
    BY <1>3, <1>4, <2>2 DEF CountsEdges
  <2> QED
    BY <2>1, <2>2
<1>9. CountsEdges(h, counts, k)
  BY <1>6, <1>7, <1>8 DEF CountsEdges
<1> QED
  BY <1>9

\* EdgesBefore is the sum of the counts below.
LEMMA EdgesBeforeUnfold ==
  ASSUME NEW counts \in Seq(Nat)
  PROVE  /\ EdgesBefore(counts, 0) = 0
         /\ \A d \in 0 .. Len(counts) : EdgesBefore(counts, d) \in Nat
         /\ \A d \in 0 .. Len(counts) - 1 :
              EdgesBefore(counts, d + 1) = EdgesBefore(counts, d) + counts[d + 1]
<1> DEFINE D(f) == [i \in 0 .. Len(counts) |->
                      IF i = 0 THEN 0 ELSE f[i - 1] + counts[i]]
           before == CHOOSE f : f = D(f)
<1>1. PICK g : CountsEdges(g, counts, Len(counts))
  BY EdgeCountsExist
<1>2. g = D(g)
  BY <1>1 DEF CountsEdges
<1>3. before = D(before)
  BY <1>2
<1>4. \A d : EdgesBefore(counts, d) = before[d]
  BY DEF EdgesBefore
<1> HIDE DEF before
<1>5. /\ before[0] = 0
      /\ \A i \in 1 .. Len(counts) : before[i] = before[i - 1] + counts[i]
  <2>1. \A i \in 0 .. Len(counts) :
          before[i] = IF i = 0 THEN 0 ELSE before[i - 1] + counts[i]
    BY <1>3, Zenon
  <2>2. 0 \in 0 .. Len(counts) /\ \A i \in 1 .. Len(counts) : i \in 0 .. Len(counts) /\ i # 0
    OBVIOUS
  <2> QED
    BY <2>1, <2>2, Zenon
<1>6. \A d \in 0 .. Len(counts) : before[d] \in Nat
  <2> DEFINE S == {j \in Nat : j <= Len(counts) /\ before[j] \notin Nat}
  <2> SUFFICES ASSUME S # {} PROVE FALSE
    OBVIOUS
  <2>1. PICK k \in S : \A j \in S : k <= j
    BY LeastNumber
  <2>2. k # 0
    BY <1>5, <2>1
  <2>3. k - 1 \in Nat /\ k - 1 < k /\ k <= Len(counts) /\ k \in 1 .. Len(counts)
    BY <2>2
  <2>4. before[k - 1] \in Nat
    BY <2>1, <2>3
  <2>5. counts[k] \in Nat
    BY <2>3
  <2> QED
    BY <1>5, <2>1, <2>3, <2>4, <2>5
<1>7. ASSUME NEW d \in 0 .. Len(counts) - 1
      PROVE  before[d + 1] = before[d] + counts[d + 1]
  <2>1. d + 1 \in 1 .. Len(counts) /\ (d + 1) - 1 = d
    OBVIOUS
  <2> QED
    BY <1>5, <2>1
<1> QED
  BY <1>4, <1>5, <1>6, <1>7

LEMMA EdgesBeforeGrows ==
  ASSUME NEW counts \in Seq(Nat), NEW c \in Nat, NEW d \in 0 .. Len(counts), c <= d
  PROVE  EdgesBefore(counts, c) <= EdgesBefore(counts, d)
<1> DEFINE S == {j \in Nat : /\ c <= j /\ j <= Len(counts)
                             /\ ~(EdgesBefore(counts, c) <= EdgesBefore(counts, j))}
<1> SUFFICES ASSUME S # {} PROVE FALSE
  OBVIOUS
<1>1. PICK k \in S : \A j \in S : k <= j
  BY LeastNumber
<1>2. \A i \in 0 .. Len(counts) : EdgesBefore(counts, i) \in Nat
  BY EdgesBeforeUnfold
<1>3. c \in 0 .. Len(counts) /\ EdgesBefore(counts, c) \in Nat
  BY <1>2
<1>4. k # c
  BY <1>1, <1>3
<1>5. k - 1 \in Nat /\ k - 1 < k /\ c <= k - 1 /\ k <= Len(counts)
      /\ k - 1 \in 0 .. Len(counts) - 1
  BY <1>4
<1>6. EdgesBefore(counts, c) <= EdgesBefore(counts, k - 1)
  BY <1>1, <1>5
<1>7. EdgesBefore(counts, (k - 1) + 1) = EdgesBefore(counts, k - 1) + counts[(k - 1) + 1]
  BY <1>5, EdgesBeforeUnfold
<1>8. (k - 1) + 1 = k /\ counts[k] \in Nat /\ EdgesBefore(counts, k - 1) \in Nat
  BY <1>2, <1>5
<1> QED
  BY <1>1, <1>3, <1>6, <1>7, <1>8

----------------------------------------------------------------------------
LEMMA Division ==
  ASSUME NEW m \in Nat, NEW n \in Nat, n > 0
  PROVE  m \div n \in Nat /\ n * (m \div n) <= m /\ m < n * (m \div n) + n
OBVIOUS

\* A hub has as many slices as it takes for the last one to reach its end.
LEMMA SlicesOfHub ==
  ASSUME NEW count \in Nat, count > EdgeSlice
  PROVE  LET c == SliceCount(count) IN
         /\ EdgeSlice \in Nat /\ EdgeSlice > 0 /\ c \in Nat
         /\ EdgeSlice * c - EdgeSlice < count /\ count <= EdgeSlice * c
<1>1. EdgeSlice \in Nat /\ EdgeSlice > 0
  BY TaskConfigAssumption
<1>2. PICK m : m = count + EdgeSlice - 1
  OBVIOUS
<1>3. m \in Nat
  BY <1>1, <1>2
<1>4. PICK c : c = SliceCount(count)
  OBVIOUS
<1>5. c = m \div EdgeSlice
  BY <1>2, <1>4 DEF SliceCount
<1>6. c \in Nat /\ EdgeSlice * c <= m /\ m < EdgeSlice * c + EdgeSlice
  BY <1>1, <1>3, <1>5, Division
<1>7. PICK e : e = EdgeSlice * c
  OBVIOUS
<1>8. e \in Nat
  BY <1>1, <1>6, <1>7
<1>9. e - EdgeSlice < count /\ count <= e
  BY <1>1, <1>2, <1>6, <1>7, <1>8
<1> QED
  BY <1>1, <1>4, <1>6, <1>7, <1>9

LEMMA Multiples ==
  ASSUME NEW m \in Nat, NEW n \in Nat
  PROVE  /\ m * EdgeSlice \in Nat /\ EdgeSlice * m = m * EdgeSlice
         /\ (m + 1) * EdgeSlice = m * EdgeSlice + EdgeSlice
         /\ m < n => m * EdgeSlice + EdgeSlice <= n * EdgeSlice
         /\ m * EdgeSlice = n * EdgeSlice => m = n
<1>1. EdgeSlice \in Nat /\ EdgeSlice > 0
  BY TaskConfigAssumption
<1>2. /\ m * EdgeSlice \in Nat /\ EdgeSlice * m = m * EdgeSlice
      /\ (m + 1) * EdgeSlice = m * EdgeSlice + EdgeSlice
  BY <1>1
<1>3. ASSUME NEW i \in Nat, NEW j \in Nat, i < j
      PROVE  i * EdgeSlice + EdgeSlice <= j * EdgeSlice
  <2>1. (i + 1) * EdgeSlice <= j * EdgeSlice
    BY <1>1, <1>3
  <2> QED
    BY <1>1, <2>1
<1>4. ASSUME m * EdgeSlice = n * EdgeSlice PROVE m = n
  <2>1. n * EdgeSlice \in Nat
    BY <1>1
  <2>2. ~(m < n) /\ ~(n < m)
    BY <1>1, <1>2, <1>3, <1>4, <2>1
  <2> QED
    BY <2>2
<1> QED
  BY <1>2, <1>3, <1>4

LEMMA EdgesBeforeAppend ==
  ASSUME NEW counts \in Seq(Nat), NEW count \in Nat, NEW d \in 0 .. Len(counts)
  PROVE  EdgesBefore(Append(counts, count), d) = EdgesBefore(counts, d)
<1> DEFINE longer == Append(counts, count)
           S == {j \in Nat : /\ j <= Len(counts)
                             /\ EdgesBefore(longer, j) # EdgesBefore(counts, j)}
<1>1. /\ longer \in Seq(Nat) /\ Len(longer) = Len(counts) + 1 /\ Len(counts) \in Nat
      /\ \A i \in 1 .. Len(counts) : longer[i] = counts[i]
      /\ longer[Len(counts) + 1] = count
  BY AppendProperties
<1> HIDE DEF longer
<1> SUFFICES ASSUME S # {} PROVE FALSE
  BY DEF longer
<1>2. PICK k \in S : \A j \in S : k <= j
  BY LeastNumber
<1>3. k # 0
  BY <1>1, <1>2, EdgesBeforeUnfold
<1>4. k - 1 \in Nat /\ k - 1 < k /\ k <= Len(counts) /\ (k - 1) + 1 = k
      /\ k - 1 \in 0 .. Len(counts) - 1 /\ k - 1 \in 0 .. Len(longer) - 1
      /\ k \in 1 .. Len(counts)
  BY <1>1, <1>3
<1>5. EdgesBefore(longer, k - 1) = EdgesBefore(counts, k - 1)
  BY <1>2, <1>4
<1>6. EdgesBefore(longer, (k - 1) + 1) = EdgesBefore(longer, k - 1) + longer[(k - 1) + 1]
  BY <1>1, <1>4, EdgesBeforeUnfold
<1>7. EdgesBefore(counts, (k - 1) + 1) = EdgesBefore(counts, k - 1) + counts[(k - 1) + 1]
  BY <1>4, EdgesBeforeUnfold
<1>8. longer[k] = counts[k]
  BY <1>1, <1>4
<1> QED
  BY <1>2, <1>4, <1>5, <1>6, <1>7, <1>8

----------------------------------------------------------------------------
(* Tasks that follow each other.                                           *)

\* The destination and the edge at which the next task must start.
At(ts) == IF ts = <<>> THEN 0 ELSE NextDestination(ts[Len(ts)])
EdgeAt(ts) ==
  IF ts = <<>> THEN 0 ELSE ts[Len(ts)].edge_begin + ts[Len(ts)].edge_count

Linked(ts) ==
  /\ ts # <<>> => ts[1].a = 0 /\ ts[1].edge_begin = 0
  /\ \A i \in 1 .. Len(ts) - 1 : Follows(ts[i], ts[i + 1])

\* ts lead from destination d and edge e to destination dd and edge ee.
Leads(ts, d, e, dd, ee) ==
  /\ IF ts = <<>> THEN d = dd /\ e = ee
     ELSE ts[1].a = d /\ ts[1].edge_begin = e /\ At(ts) = dd /\ EdgeAt(ts) = ee
  /\ \A i \in 1 .. Len(ts) - 1 : Follows(ts[i], ts[i + 1])

LEMMA LinkedAppend ==
  ASSUME NEW S, NEW ts \in Seq(S), NEW t \in S
  PROVE  /\ Linked(Append(ts, t)) <=>
              Linked(ts) /\ t.a = At(ts) /\ t.edge_begin = EdgeAt(ts)
         /\ At(Append(ts, t)) = NextDestination(t)
         /\ EdgeAt(Append(ts, t)) = t.edge_begin + t.edge_count
<1> DEFINE us == Append(ts, t)
<1>1. /\ us \in Seq(S) /\ Len(us) = Len(ts) + 1 /\ Len(ts) \in Nat /\ us # <<>>
      /\ \A i \in 1 .. Len(ts) : us[i] = ts[i]
      /\ us[Len(ts) + 1] = t
      /\ ts = <<>> <=> Len(ts) = 0
  BY AppendProperties, EmptySeq
<1> HIDE DEF us
<1>2. At(us) = NextDestination(t) /\ EdgeAt(us) = t.edge_begin + t.edge_count
  BY <1>1 DEF At, EdgeAt
<1>3. CASE ts = <<>>
  <2>1. Len(ts) = 0 /\ us[1] = t /\ Len(us) = 1
    BY <1>1, <1>3
  <2> QED
    BY <1>1, <1>2, <1>3, <2>1 DEF Linked, At, EdgeAt, us
<1>4. CASE ts # <<>>
  <2>1. Len(ts) > 0 /\ us[1] = ts[1] /\ us[Len(ts)] = ts[Len(ts)]
    BY <1>1, <1>4
  <2>2. /\ \A i \in 1 .. Len(ts) - 1 : us[i] = ts[i] /\ us[i + 1] = ts[i + 1]
        /\ Len(us) - 1 = Len(ts)
    BY <1>1
  <2>3. 1 .. Len(us) - 1 = (1 .. Len(ts) - 1) \union {Len(ts)}
    BY <1>1, <2>1
  <2>4. (\A i \in 1 .. Len(us) - 1 : Follows(us[i], us[i + 1])) <=>
          /\ \A i \in 1 .. Len(ts) - 1 : Follows(ts[i], ts[i + 1])
          /\ Follows(ts[Len(ts)], t)
    BY <1>1, <2>1, <2>2, <2>3
  <2>5. Follows(ts[Len(ts)], t) <=> t.a = At(ts) /\ t.edge_begin = EdgeAt(ts)
    BY <1>4 DEF Follows, At, EdgeAt
  <2>6. Linked(us) <=> Linked(ts) /\ t.a = At(ts) /\ t.edge_begin = EdgeAt(ts)
    BY <1>1, <1>4, <2>1, <2>4, <2>5 DEF Linked
  <2> QED
    BY <1>2, <2>6 DEF us
<1> QED
  BY <1>3, <1>4

LEMMA LeadsTail ==
  ASSUME NEW S, NEW ts \in Seq(S), ts # <<>>,
         NEW d, NEW e, NEW dd, NEW ee, Leads(ts, d, e, dd, ee)
  PROVE  LET t == Head(ts) IN
         /\ t \in S /\ Tail(ts) \in Seq(S)
         /\ t.a = d /\ t.edge_begin = e
         /\ Leads(Tail(ts), NextDestination(t), t.edge_begin + t.edge_count, dd, ee)
<1> DEFINE us == Tail(ts)
<1>1. /\ Len(ts) \in Nat /\ Len(ts) > 0 /\ us \in Seq(S) /\ Len(us) = Len(ts) - 1
      /\ \A i \in 1 .. Len(us) : us[i] = ts[i + 1]
      /\ Head(ts) = ts[1] /\ ts[1] \in S
      /\ us = <<>> <=> Len(us) = 0
  <2>1. Len(ts) \in Nat /\ Len(ts) > 0
    BY EmptySeq
  <2>2. us \in Seq(S) /\ Len(us) = Len(ts) - 1
    BY HeadTailProperties
  <2>3. \A i \in 1 .. Len(us) : us[i] = ts[i + 1]
    BY <2>1, <2>2, HeadTailProperties
  <2>4. Head(ts) = ts[1] /\ ts[1] \in S
    BY <2>1
  <2>5. us = <<>> <=> Len(us) = 0
    BY <2>2, EmptySeq
  <2> QED
    BY <2>1, <2>2, <2>3, <2>4, <2>5
<1> HIDE DEF us
<1>2. PICK t : t = ts[1]
  OBVIOUS
<1>3. t.a = d /\ t.edge_begin = e /\ At(ts) = dd /\ EdgeAt(ts) = ee
  BY <1>2 DEF Leads
<1>4. ASSUME NEW i \in 1 .. Len(us) - 1 PROVE Follows(us[i], us[i + 1])
  <2>1. i + 1 \in 1 .. Len(ts) - 1 /\ i \in 1 .. Len(us) /\ i + 1 \in 1 .. Len(us)
    BY <1>1
  <2>2. us[i] = ts[i + 1] /\ us[i + 1] = ts[(i + 1) + 1]
    BY <1>1, <2>1
  <2> QED
    BY <2>1, <2>2 DEF Leads
<1>5. CASE us = <<>>
  <2>1. Len(ts) = 1
    BY <1>1, <1>5
  <2>2. NextDestination(t) = dd /\ t.edge_begin + t.edge_count = ee
    BY <1>2, <1>3, <2>1 DEF At, EdgeAt
  <2>3. Leads(us, NextDestination(t), t.edge_begin + t.edge_count, dd, ee)
    BY <1>4, <1>5, <2>2 DEF Leads
  <2> QED
    BY <1>1, <1>2, <1>3, <2>3 DEF us
<1>6. CASE us # <<>>
  <2>1. Len(us) > 0 /\ Len(us) + 1 = Len(ts) /\ Len(us) \in 1 .. Len(us) /\ 1 \in 1 .. Len(us)
        /\ 1 \in 1 .. Len(ts) - 1
    BY <1>1, <1>6
  <2>2. us[1] = ts[1 + 1] /\ us[Len(us)] = ts[Len(ts)]
    BY <1>1, <2>1
  <2>3. Follows(t, us[1])
    BY <1>2, <2>1, <2>2 DEF Leads
  <2>4. At(us) = dd /\ EdgeAt(us) = ee
    BY <1>3, <1>6, <2>2 DEF At, EdgeAt
  <2>5. Leads(us, NextDestination(t), t.edge_begin + t.edge_count, dd, ee)
    BY <1>4, <1>6, <2>3, <2>4 DEF Leads, Follows
  <2> QED
    BY <1>1, <1>2, <1>3, <2>5 DEF us
<1> QED
  BY <1>5, <1>6

----------------------------------------------------------------------------
(* Tasks of the canonical partition.                                       *)

\* What the slices of a hub cover.
LEMMA SliceEdges ==
  ASSUME NEW count \in Nat, count > EdgeSlice, NEW k \in Nat, k < SliceCount(count)
  PROVE  LET edges == Smaller(EdgeSlice, count - k * EdgeSlice) IN
         /\ k * EdgeSlice \in Nat /\ k * EdgeSlice < count
         /\ edges \in Nat /\ edges > 0 /\ k * EdgeSlice + edges <= count
         /\ k + 1 = SliceCount(count) => k * EdgeSlice + edges = count
         /\ k + 1 # SliceCount(count) => edges = EdgeSlice
<1>1. PICK c : c = SliceCount(count)
  OBVIOUS
<1>2. /\ EdgeSlice \in Nat /\ EdgeSlice > 0 /\ c \in Nat
      /\ EdgeSlice * c - EdgeSlice < count /\ count <= EdgeSlice * c
  BY <1>1, SlicesOfHub
<1>3. PICK m : m = k * EdgeSlice
  OBVIOUS
<1>4. PICK n : n = c * EdgeSlice
  OBVIOUS
<1>5. m \in Nat /\ n \in Nat /\ n - EdgeSlice < count /\ count <= n
  BY <1>2, <1>3, <1>4, Multiples
<1>6. m + EdgeSlice <= n
  BY <1>1, <1>2, <1>3, <1>4, Multiples
<1>7. CASE k + 1 = c
  <2>1. m + EdgeSlice = n
    BY <1>2, <1>3, <1>4, <1>7, Multiples
  <2> QED
    BY <1>1, <1>2, <1>3, <1>5, <1>7, <2>1 DEF Smaller
<1>8. CASE k + 1 # c
  <2>1. k + 1 \in Nat /\ k + 1 < c
    BY <1>1, <1>2, <1>8
  <2>2. (k + 1) * EdgeSlice + EdgeSlice <= n /\ (k + 1) * EdgeSlice = m + EdgeSlice
    BY <1>2, <1>3, <1>4, <2>1, Multiples
  <2>3. m + EdgeSlice + EdgeSlice <= n
    BY <2>2
  <2> QED
    BY <1>1, <1>2, <1>3, <1>5, <1>8, <2>3 DEF Smaller
<1> QED
  BY <1>7, <1>8

LEMMA RecordTyped ==
  ASSUME NEW t \in TaskRecord
  PROVE  /\ t.tag \in {"ordinary", "hub_slice"} /\ t.a \in Nat /\ t.b \in Nat
         /\ t.c \in Nat /\ t.edge_begin \in Nat /\ t.edge_count \in Nat
BY DEF TaskRecord

\* What the builder emits: the field c of an ordinary task is 0.
PlainRecord == {t \in TaskRecord : t.tag = "ordinary" => t.c = 0}

\* The task is right however the counts go on.
Settled(counts, t) ==
  /\ RightTask(counts, t)
  /\ t.tag = "ordinary" => t.a + t.b < Len(counts)

LEMMA SettledStays ==
  ASSUME NEW counts \in Seq(Nat), NEW count \in Nat, NEW t \in TaskRecord,
         Settled(counts, t)
  PROVE  Settled(Append(counts, count), t)
<1> DEFINE longer == Append(counts, count)
<1>1. /\ longer \in Seq(Nat) /\ Len(longer) = Len(counts) + 1 /\ Len(counts) \in Nat
      /\ \A d \in 0 .. Len(counts) - 1 : longer[d + 1] = counts[d + 1]
      /\ \A d \in 0 .. Len(counts) : EdgesBefore(longer, d) = EdgesBefore(counts, d)
  BY AppendProperties, EdgesBeforeAppend
<1> HIDE DEF longer
<1>2. /\ t.tag \in {"ordinary", "hub_slice"} /\ t.a \in Nat /\ t.b \in Nat
  BY RecordTyped
<1>3. \A d \in 0 .. Len(counts) - 1 : IsHub(longer, d) <=> IsHub(counts, d)
  BY <1>1 DEF IsHub
<1>4. CASE t.tag = "ordinary"
  <2>1. RightOrdinary(counts, t) /\ t.a + t.b < Len(counts)
    BY <1>4 DEF Settled, RightTask
  <2> DEFINE a == t.a
             end == t.a + t.b
  <2>2. /\ end \in 0 .. Len(counts) - 1 /\ a \in 0 .. Len(counts)
        /\ end \in 0 .. Len(counts) /\ end < Len(longer) /\ end <= Len(longer)
        /\ end <= Len(counts)
        /\ \A d \in a .. end - 1 : d \in 0 .. Len(counts) - 1
    <3>1. PICK l : l = Len(counts)
      OBVIOUS
    <3>2. PICK m : m = Len(longer)
      OBVIOUS
    <3>3. l \in Nat /\ m = l + 1 /\ a \in Nat /\ end \in Nat /\ a <= end /\ end < l
      BY <1>1, <1>2, <2>1, <3>1, <3>2
    <3>4. /\ end \in 0 .. l - 1 /\ a \in 0 .. l /\ end \in 0 .. l /\ end < m /\ end <= m
          /\ end <= l /\ \A d \in a .. end - 1 : d \in 0 .. l - 1
      BY ONLY <3>3
    <3> QED
      BY <3>1, <3>2, <3>4
  <2>3. Fits(longer, t.a + t.b, t.b, t.edge_count) <=> Fits(counts, t.a + t.b, t.b, t.edge_count)
    BY <1>1, <1>3, <2>1, <2>2 DEF Fits
  <2>4. RightOrdinary(longer, t)
    <3>1. /\ EdgesBefore(longer, a) = EdgesBefore(counts, a)
          /\ EdgesBefore(longer, end) = EdgesBefore(counts, end)
          /\ \A d \in a .. end - 1 : ~IsHub(longer, d)
      BY <1>1, <1>3, <2>1, <2>2 DEF RightOrdinary
    <3> QED
      BY <2>1, <2>2, <2>3, <3>1 DEF RightOrdinary
  <2> QED
    BY <1>4, <2>2, <2>4 DEF Settled, RightTask, longer
<1>5. CASE t.tag = "hub_slice"
  <2>1. RightSlice(counts, t)
    BY <1>5 DEF Settled, RightTask
  <2>2. t.a \in 0 .. Len(counts) - 1 /\ t.a \in 0 .. Len(counts) /\ t.a < Len(longer)
    <3>1. t.a \in Nat /\ t.a < Len(counts)
      BY <1>2, <2>1 DEF RightSlice
    <3>2. Len(counts) \in Nat /\ Len(longer) = Len(counts) + 1
      BY <1>1
    <3> QED
      BY ONLY <3>1, <3>2
  <2>3. RightSlice(longer, t)
    <3>1. /\ EdgesBefore(longer, t.a) = EdgesBefore(counts, t.a)
          /\ longer[t.a + 1] = counts[t.a + 1] /\ IsHub(longer, t.a)
      BY <1>1, <1>3, <2>1, <2>2 DEF RightSlice
    <3> QED
      BY <2>1, <2>2, <3>1 DEF RightSlice
  <2> QED
    BY <1>5, <2>3 DEF Settled, RightTask, longer
<1> QED
  BY <1>2, <1>4, <1>5

\* emit_hub covers the edges of the hub, in order.
LEMMA SlicesLead ==
  ASSUME consumed \in Seq(Nat), NEW count \in Nat, count > EdgeSlice
  PROVE  /\ Slices(count) \in Seq(PlainRecord) /\ Slices(count) # <<>>
         /\ \A i \in 1 .. Len(Slices(count)) :
              Settled(Append(consumed, count), Slices(count)[i])
         /\ Leads(Slices(count), destination_count, edge_count,
                  destination_count + 1, edge_count + count)
<1> DEFINE longer == Append(consumed, count)
           slices == Slices(count)
<1>1. PICK n : n = destination_count
  OBVIOUS
<1>2. PICK e : e = edge_count
  OBVIOUS
<1>3. PICK c : c = SliceCount(count)
  OBVIOUS
<1>4. /\ longer \in Seq(Nat) /\ Len(longer) = n + 1 /\ n \in Nat /\ e \in Nat
      /\ longer[n + 1] = count
      /\ EdgesBefore(longer, n) = e
  BY <1>1, <1>2, AppendProperties, EdgesBeforeAppend, EdgesBeforeUnfold
     DEF destination_count, edge_count
<1>5. /\ EdgeSlice \in Nat /\ EdgeSlice > 0 /\ c \in Nat
      /\ EdgeSlice * c - EdgeSlice < count /\ count <= EdgeSlice * c
  BY <1>3, SlicesOfHub
<1>6. c > 0
  <2>1. CASE c = 0
    <3>1. EdgeSlice * 0 = 0
      BY <1>5
    <3> QED
      BY <1>5, <2>1, <3>1
  <2> QED
    BY <1>5, <2>1
<1>7. slices = [i \in 1 .. c |-> HubSlice(n, i - 1, c, e + (i - 1) * EdgeSlice,
                                   Smaller(EdgeSlice, count - (i - 1) * EdgeSlice))]
  BY <1>1, <1>2, <1>3 DEF Slices
<1> HIDE DEF slices, longer
<1>8. ASSUME NEW i \in 1 .. c
      PROVE  /\ slices[i].tag = "hub_slice" /\ slices[i].a = n /\ slices[i].b = i - 1
             /\ slices[i].c = c
             /\ slices[i].edge_begin = e + (i - 1) * EdgeSlice
             /\ slices[i].edge_count = Smaller(EdgeSlice, count - (i - 1) * EdgeSlice)
             /\ slices[i] \in PlainRecord
             /\ i = c => slices[i].edge_begin + slices[i].edge_count = e + count
             /\ i # c => slices[i].edge_begin + slices[i].edge_count = e + i * EdgeSlice
  <2>1. PICK k : k = i - 1
    OBVIOUS
  <2>2. PICK m : m = k * EdgeSlice
    OBVIOUS
  <2>3. PICK edges : edges = Smaller(EdgeSlice, count - m)
    OBVIOUS
  <2>4. k \in Nat /\ k < c /\ i = k + 1
    BY <1>5, <2>1
  <2>5. /\ m \in Nat /\ edges \in Nat
        /\ i = c => m + edges = count
        /\ i # c => edges = EdgeSlice
    BY <1>3, <2>2, <2>3, <2>4, SliceEdges
  <2>6. slices[i] = HubSlice(n, k, c, e + m, edges)
    BY <1>7, <2>1, <2>2, <2>3
  <2>7. e + m \in Nat /\ i * EdgeSlice = m + EdgeSlice
    <3>1. (k + 1) * EdgeSlice = m + EdgeSlice
      BY <2>2, <2>4, Multiples
    <3> QED
      BY <1>4, <2>4, <2>5, <3>1
  <2>8. slices[i] \in PlainRecord
    BY <1>4, <1>5, <2>4, <2>5, <2>6, <2>7 DEF HubSlice, TaskRecord, PlainRecord
  <2>9. (i = c => (e + m) + edges = e + count) /\ (i # c => (e + m) + edges = e + i * EdgeSlice)
    BY <1>4, <1>5, <2>5, <2>7
  <2>10. /\ slices[i].tag = "hub_slice" /\ slices[i].a = n /\ slices[i].b = k
         /\ slices[i].c = c /\ slices[i].edge_begin = e + m /\ slices[i].edge_count = edges
    BY <2>6 DEF HubSlice
  <2> QED
    BY <2>1, <2>2, <2>3, <2>8, <2>9, <2>10
<1>9. slices \in Seq(PlainRecord) /\ Len(slices) = c /\ slices # <<>>
  <2>1. slices = [i \in 1 .. c |-> slices[i]]
    BY <1>7
  <2>2. slices \in [1 .. c -> PlainRecord]
    BY <1>8, <2>1
  <2>3. slices \in Seq(PlainRecord) /\ Len(slices) = c
    BY <1>5, <2>2
  <2> QED
    BY <1>6, <2>3, EmptySeq
<1>10. ASSUME NEW i \in 1 .. c PROVE Settled(longer, slices[i])
  <2>1. PICK t : t = slices[i]
    OBVIOUS
  <2>2. /\ t.a = n /\ t.b = i - 1 /\ t.c = c
        /\ t.edge_begin = e + (i - 1) * EdgeSlice
        /\ t.edge_count = Smaller(EdgeSlice, count - (i - 1) * EdgeSlice)
    BY <1>8, <2>1
  <2>3. i - 1 < c /\ n < n + 1
    BY <1>4, <1>5
  <2>4. RightSlice(longer, t)
    BY <1>3, <1>4, <2>2, <2>3 DEF RightSlice, IsHub
  <2>5. RightSlice(longer, slices[i])
    BY <2>1, <2>4
  <2> QED
    BY <1>8, <2>5 DEF Settled, RightTask
<1>11. ASSUME NEW i \in 1 .. c - 1 PROVE Follows(slices[i], slices[i + 1])
  <2>1. i \in 1 .. c /\ i # c /\ i + 1 \in 1 .. c /\ (i + 1) - 1 = i /\ (i - 1) + 1 = i
    BY <1>5
  <2>2. /\ slices[i].tag = "hub_slice" /\ slices[i].a = n /\ slices[i].b + 1 # slices[i].c
        /\ slices[i].edge_begin + slices[i].edge_count = e + i * EdgeSlice
    BY <1>8, <2>1
  <2>3. slices[i + 1].a = n /\ slices[i + 1].edge_begin = e + i * EdgeSlice
    BY <1>8, <2>1
  <2> QED
    BY <2>2, <2>3 DEF Follows, NextDestination
<1>12. slices[1].a = n /\ slices[1].edge_begin = e
  <2>1. 1 \in 1 .. c /\ 1 - 1 = 0 /\ 0 * EdgeSlice = 0 /\ e + 0 = e
    BY <1>4, <1>5, <1>6
  <2> QED
    BY <1>8, <2>1
<1>13. At(slices) = n + 1 /\ EdgeAt(slices) = e + count
  <2>1. c \in 1 .. c /\ (c - 1) + 1 = c
    BY <1>5, <1>6
  <2>2. /\ slices[c].tag = "hub_slice" /\ slices[c].a = n /\ slices[c].b + 1 = slices[c].c
        /\ slices[c].edge_begin + slices[c].edge_count = e + count
    BY <1>8, <2>1
  <2> QED
    BY <1>9, <2>2 DEF At, EdgeAt, NextDestination
<1>14. Leads(slices, n, e, n + 1, e + count)
  BY <1>9, <1>11, <1>12, <1>13 DEF Leads
<1> QED
  BY <1>1, <1>2, <1>9, <1>10, <1>14 DEF slices, longer

LEMMA LeadsConcat ==
  ASSUME NEW S, NEW us \in Seq(S), NEW ts \in Seq(S),
         NEW d, NEW e, NEW dd, NEW ee, NEW ddd, NEW eee,
         Leads(us, d, e, dd, ee), Leads(ts, dd, ee, ddd, eee)
  PROVE  Leads(us \o ts, d, e, ddd, eee)
<1>1. CASE us = <<>>
  <2>1. us \o ts = ts
    BY <1>1, ConcatEmptySeq
  <2> QED
    BY <1>1, <2>1 DEF Leads
<1>2. CASE ts = <<>>
  <2>1. us \o ts = us
    BY <1>2, ConcatEmptySeq
  <2> QED
    BY <1>2, <2>1 DEF Leads
<1>3. CASE us # <<>> /\ ts # <<>>
  <2> DEFINE vs == us \o ts
  <2>1. /\ vs \in Seq(S) /\ Len(vs) = Len(us) + Len(ts)
        /\ Len(us) \in Nat /\ Len(ts) \in Nat /\ Len(us) > 0 /\ Len(ts) > 0
        /\ \A i \in 1 .. Len(us) + Len(ts) :
             vs[i] = IF i <= Len(us) THEN us[i] ELSE ts[i - Len(us)]
    BY <1>3, ConcatProperties, EmptySeq
  <2> HIDE DEF vs
  <2>2. PICK m : m = Len(us)
    OBVIOUS
  <2>3. PICK n : n = Len(ts)
    OBVIOUS
  <2>4. /\ m \in Nat /\ n \in Nat /\ m > 0 /\ n > 0 /\ Len(vs) = m + n
        /\ \A i \in 1 .. m + n : vs[i] = IF i <= m THEN us[i] ELSE ts[i - m]
    BY <2>1, <2>2, <2>3
  <2>5. vs # <<>>
    BY <2>4
  <2>6. vs[1] = us[1] /\ vs[m] = us[m] /\ vs[m + 1] = ts[1] /\ vs[m + n] = ts[n]
    <3>1. /\ 1 \in 1 .. m + n /\ m \in 1 .. m + n /\ m + 1 \in 1 .. m + n /\ m + n \in 1 .. m + n
          /\ 1 <= m /\ m <= m /\ ~(m + 1 <= m) /\ ~(m + n <= m)
          /\ (m + 1) - m = 1 /\ (m + n) - m = n
      BY ONLY <2>4
    <3> QED
      BY <2>4, <3>1
  <2>7. At(vs) = ddd /\ EdgeAt(vs) = eee
    BY <1>3, <2>3, <2>4, <2>5, <2>6 DEF Leads, At, EdgeAt
  <2>8. Follows(vs[m], vs[m + 1])
    BY <1>3, <2>2, <2>6 DEF Leads, At, EdgeAt, Follows
  <2>9. ASSUME NEW i \in 1 .. Len(vs) - 1 PROVE Follows(vs[i], vs[i + 1])
    <3>1. i \in 1 .. m + n /\ i + 1 \in 1 .. m + n /\ i \in Nat
      BY <2>4
    <3>2. CASE i < m
      <4>1. i \in 1 .. m - 1 /\ i <= m /\ i + 1 <= m
        BY <2>4, <3>1, <3>2
      <4>2. vs[i] = us[i] /\ vs[i + 1] = us[i + 1]
        BY <2>4, <3>1, <4>1
      <4> QED
        BY <2>2, <4>1, <4>2 DEF Leads
    <3>3. CASE i = m
      BY <2>8, <3>3
    <3>4. CASE i > m
      <4>1. /\ i - m \in 1 .. n - 1 /\ ~(i <= m) /\ ~(i + 1 <= m)
            /\ (i + 1) - m = (i - m) + 1
        BY <2>4, <3>1, <3>4
      <4>2. vs[i] = ts[i - m] /\ vs[i + 1] = ts[(i + 1) - m]
        BY ONLY <2>4, <3>1, <4>1
      <4>3. vs[i + 1] = ts[(i - m) + 1]
        BY ONLY <4>1, <4>2
      <4> QED
        BY <2>3, <4>1, <4>2, <4>3 DEF Leads
    <3> QED
      BY <2>4, <3>1, <3>2, <3>3, <3>4
  <2>10. vs[1].a = d /\ vs[1].edge_begin = e
    BY <1>3, <2>6 DEF Leads
  <2> QED
    BY <2>5, <2>7, <2>9, <2>10 DEF Leads, vs
<1> QED
  BY <1>1, <1>2, <1>3

----------------------------------------------------------------------------
(* The task being filled.                                                  *)

\* t holds the last destinations of counts and may still grow.
OpenTask(counts, t) ==
  /\ t.tag = "ordinary" /\ t.c = 0
  /\ t.a + t.b = Len(counts)
  /\ t.b <= MaxTaskVertices /\ t.edge_count <= MaxTaskEdges
  /\ t.edge_begin = EdgesBefore(counts, t.a)
  /\ t.edge_begin + t.edge_count = EdgesBefore(counts, Len(counts))
  /\ \A d \in t.a .. Len(counts) - 1 : ~IsHub(counts, d)

LEMMA OpenEmpty ==
  ASSUME NEW counts \in Seq(Nat)
  PROVE  LET t == Empty(Len(counts), EdgesBefore(counts, Len(counts))) IN
         /\ t \in PlainRecord /\ OpenTask(counts, t)
         /\ t.a = Len(counts) /\ t.b = 0 /\ t.edge_count = 0
         /\ t.edge_begin = EdgesBefore(counts, Len(counts))
<1>1. PICK n : n = Len(counts)
  OBVIOUS
<1>2. PICK e : e = EdgesBefore(counts, n)
  OBVIOUS
<1>3. n \in Nat /\ e \in Nat /\ n + 0 = n /\ e + 0 = e /\ n .. n - 1 = {}
  <2>1. n \in Nat
    BY <1>1
  <2>2. e \in Nat
    BY <1>1, <1>2, <2>1, EdgesBeforeUnfold
  <2> QED
    BY ONLY <2>1, <2>2
<1>4. PICK t : t = Empty(n, e)
  OBVIOUS
<1>5. /\ t.tag = "ordinary" /\ t.a = n /\ t.b = 0 /\ t.c = 0 /\ t.edge_begin = e
      /\ t.edge_count = 0 /\ t \in PlainRecord
  BY <1>3, <1>4 DEF Empty, Ordinary, PlainRecord, TaskRecord
<1>6. 0 <= MaxTaskVertices /\ 0 <= MaxTaskEdges
  BY TaskConfigAssumption
<1>7. OpenTask(counts, t)
  BY <1>1, <1>2, <1>3, <1>5, <1>6 DEF OpenTask
<1> QED
  BY <1>1, <1>2, <1>4, <1>5, <1>7

LEMMA OpenGrows ==
  ASSUME NEW counts \in Seq(Nat), NEW t \in PlainRecord, OpenTask(counts, t),
         NEW count \in Nat, count <= EdgeSlice,
         t.b < MaxTaskVertices, t.edge_count + count <= MaxTaskEdges
  PROVE  LET u == [t EXCEPT !.b = @ + 1, !.edge_count = @ + count] IN
         /\ u \in PlainRecord /\ OpenTask(Append(counts, count), u)
         /\ u.a = t.a /\ u.edge_begin = t.edge_begin
<1> DEFINE longer == Append(counts, count)
<1>1. PICK n : n = Len(counts)
  OBVIOUS
<1>2. /\ longer \in Seq(Nat) /\ Len(longer) = n + 1 /\ n \in Nat
      /\ longer[n + 1] = count
      /\ \A d \in 0 .. n - 1 : longer[d + 1] = counts[d + 1]
      /\ \A d \in 0 .. n : EdgesBefore(longer, d) = EdgesBefore(counts, d)
  BY <1>1, AppendProperties, EdgesBeforeAppend
<1> HIDE DEF longer
<1>3. EdgesBefore(longer, n + 1) = EdgesBefore(counts, n) + count
  <2>1. n \in 0 .. Len(longer) - 1 /\ n \in 0 .. n
    BY <1>2
  <2>2. EdgesBefore(longer, n + 1) = EdgesBefore(longer, n) + longer[n + 1]
    BY <1>2, <2>1, EdgesBeforeUnfold
  <2> QED
    BY <1>2, <2>1, <2>2
<1>4. PICK u : u = [t EXCEPT !.b = @ + 1, !.edge_count = @ + count]
  OBVIOUS
<1>5. t \in TaskRecord
  BY DEF PlainRecord
<1>6. /\ t.a \in Nat /\ t.b \in Nat /\ t.edge_begin \in Nat /\ t.edge_count \in Nat
      /\ t.tag = "ordinary" /\ t.c = 0
  BY <1>5, RecordTyped DEF OpenTask
<1>7. /\ u.tag = "ordinary" /\ u.a = t.a /\ u.b = t.b + 1 /\ u.c = 0
      /\ u.edge_begin = t.edge_begin /\ u.edge_count = t.edge_count + count
      /\ u \in PlainRecord
  <2>1. PICK b : b = t.b + 1
    OBVIOUS
  <2>2. PICK edges : edges = t.edge_count + count
    OBVIOUS
  <2>3. b \in Nat /\ edges \in Nat
    BY <1>6, <2>1, <2>2
  <2>4. u = [t EXCEPT !.b = b, !.edge_count = edges]
    BY <1>4, <2>1, <2>2
  <2>5. /\ u.tag = t.tag /\ u.a = t.a /\ u.b = b /\ u.c = t.c
        /\ u.edge_begin = t.edge_begin /\ u.edge_count = edges
        /\ u \in TaskRecord
    BY <1>5, <2>3, <2>4 DEF TaskRecord
  <2> QED
    BY <1>6, <2>1, <2>2, <2>5 DEF PlainRecord
<1>8. /\ t.a + t.b = n
      /\ t.edge_begin = EdgesBefore(counts, t.a)
      /\ t.edge_begin + t.edge_count = EdgesBefore(counts, n)
      /\ \A d \in t.a .. n - 1 : ~IsHub(counts, d)
  BY <1>1 DEF OpenTask
<1>9. /\ u.a + u.b = n + 1 /\ t.a \in 0 .. n
      /\ u.b <= MaxTaskVertices /\ u.edge_count <= MaxTaskEdges
      /\ u.edge_begin + u.edge_count = EdgesBefore(counts, n) + count
  <2>1. MaxTaskVertices \in Nat
    BY TaskConfigAssumption
  <2>2. u.a + u.b = n + 1 /\ t.a \in 0 .. n /\ u.b <= MaxTaskVertices
    <3>1. n \in Nat /\ t.a \in Nat /\ t.b \in Nat /\ t.a + t.b = n
      BY <1>2, <1>6, <1>8
    <3>2. t.a + (t.b + 1) = n + 1 /\ t.a \in 0 .. n
      BY ONLY <3>1
    <3>3. t.b + 1 <= MaxTaskVertices
      BY <2>1, <3>1
    <3> QED
      BY <1>7, <3>2, <3>3
  <2>3. PICK e : e = EdgesBefore(counts, n)
    OBVIOUS
  <2>4. u.edge_begin + u.edge_count = e + count
    BY <1>6, <1>7, <1>8, <2>3
  <2> QED
    BY <1>7, <2>2, <2>3, <2>4
<1>10. u.edge_begin = EdgesBefore(longer, u.a)
  BY <1>2, <1>7, <1>8, <1>9
<1>11. ASSUME NEW d \in u.a .. (n + 1) - 1 PROVE ~IsHub(longer, d)
  <2>1. d \in t.a .. n /\ d \in Nat
    BY <1>2, <1>6, <1>7
  <2>2. CASE d = n
    BY <1>2, <2>2, TaskConfigAssumption DEF IsHub
  <2>3. CASE d # n
    <3>1. d \in t.a .. n - 1 /\ d \in 0 .. n - 1
      BY <1>2, <2>1, <2>3
    <3> QED
      BY <1>2, <1>8, <3>1 DEF IsHub
  <2> QED
    BY <2>2, <2>3
<1>12. OpenTask(longer, u)
  BY <1>2, <1>3, <1>7, <1>9, <1>10, <1>11 DEF OpenTask
<1> QED
  BY <1>4, <1>7, <1>12 DEF longer

\* A task that is flushed is as long as the limits allow, whatever count
\* made the builder flush it.
LEMMA FlushedIsRight ==
  ASSUME consumed \in Seq(Nat), ordinary \in PlainRecord, OpenTask(consumed, ordinary),
         ordinary.b > 0
  PROVE  /\ RightTask(consumed, ordinary)
         /\ \A count \in Nat : count > EdgeSlice \/ MustFlush(count) =>
              Settled(Append(consumed, count), ordinary)
<1>1. PICK t : t = ordinary
  OBVIOUS
<1>2. PICK n : n = Len(consumed)
  OBVIOUS
<1>3. /\ t.a \in Nat /\ t.b \in Nat /\ t.edge_begin \in Nat /\ t.edge_count \in Nat
      /\ t \in TaskRecord
  <2>1. t \in TaskRecord
    BY <1>1 DEF PlainRecord
  <2> QED
    BY <2>1, RecordTyped
<1>4. /\ t.tag = "ordinary" /\ t.a + t.b = n /\ t.b <= MaxTaskVertices
      /\ t.edge_count <= MaxTaskEdges
      /\ t.edge_begin = EdgesBefore(consumed, t.a)
      /\ t.edge_begin + t.edge_count = EdgesBefore(consumed, n)
      /\ \A d \in t.a .. n - 1 : ~IsHub(consumed, d)
  BY <1>1, <1>2 DEF OpenTask
<1>5. n \in Nat /\ t.b > 0 /\ t.a \in 0 .. n /\ MaxTaskVertices \in Nat /\ MaxTaskEdges \in Nat
  <2>1. n \in Nat /\ t.b > 0 /\ MaxTaskVertices \in Nat /\ MaxTaskEdges \in Nat
    BY <1>1, <1>2, TaskConfigAssumption
  <2>2. t.a \in Nat /\ t.b \in Nat /\ t.a + t.b = n
    BY <1>3, <1>4
  <2>3. t.a \in 0 .. n
    BY ONLY <2>1, <2>2
  <2> QED
    BY <2>1, <2>3
<1>6. t.b \in 1 .. MaxTaskVertices
  BY <1>3, <1>4, <1>5
<1>7. RightTask(consumed, t)
  <2>1. ~Fits(consumed, n, t.b, t.edge_count) /\ n <= Len(consumed)
    BY <1>2, <1>5 DEF Fits
  <2> QED
    BY <1>4, <1>6, <2>1 DEF RightTask, RightOrdinary
<1>8. ASSUME NEW count \in Nat, count > EdgeSlice \/ MustFlush(count)
      PROVE  Settled(Append(consumed, count), t)
  <2> DEFINE longer == Append(consumed, count)
  <2>1. /\ Len(longer) = n + 1 /\ longer[n + 1] = count
        /\ \A d \in 0 .. n - 1 : longer[d + 1] = consumed[d + 1]
        /\ \A d \in 0 .. n : EdgesBefore(longer, d) = EdgesBefore(consumed, d)
    BY <1>2, AppendProperties, EdgesBeforeAppend
  <2> HIDE DEF longer
  <2>2. ~Fits(longer, n, t.b, t.edge_count)
    <3>1. CASE count > EdgeSlice
      BY <2>1, <3>1 DEF Fits, IsHub
    <3>2. CASE MustFlush(count)
      <4>1. t.b >= MaxTaskVertices \/ count > MaxTaskEdges - t.edge_count
        BY <1>1, <3>2 DEF MustFlush
      <4>2. ~(t.b < MaxTaskVertices /\ t.edge_count + count <= MaxTaskEdges)
        BY <1>3, <1>5, <4>1
      <4> QED
        BY <2>1, <4>2 DEF Fits
    <3> QED
      BY <1>8, <3>1, <3>2
  <2>3. \A d \in t.a .. n - 1 : ~IsHub(longer, d)
    <3>1. \A d \in t.a .. n - 1 : d \in 0 .. n - 1
      BY <1>5
    <3> QED
      BY <1>4, <2>1, <3>1 DEF IsHub
  <2>4. n \in 0 .. n /\ n <= n + 1 /\ n < n + 1
    BY <1>5
  <2>5. /\ t.edge_begin = EdgesBefore(longer, t.a)
        /\ t.edge_begin + t.edge_count = EdgesBefore(longer, n)
    BY <1>4, <1>5, <2>1, <2>4
  <2>6. RightOrdinary(longer, t)
    BY <1>4, <1>6, <2>1, <2>2, <2>3, <2>4, <2>5 DEF RightOrdinary
  <2> QED
    BY <1>4, <2>1, <2>4, <2>6 DEF Settled, RightTask, longer
<1> QED
  BY <1>1, <1>7, <1>8

\* What the builder emits for a count, and where the task after it starts.
Decided(count, t) ==
  IF count = Finishing THEN RightTask(consumed, t)
  ELSE Settled(Append(consumed, count), t)

Goal(count) ==
  IF count = Finishing THEN destination_count
  ELSE IF count > EdgeSlice THEN destination_count + 1
  ELSE IF MustFlush(count) THEN destination_count
  ELSE ordinary.a

EdgeGoal(count) ==
  IF count = Finishing THEN edge_count
  ELSE IF count > EdgeSlice THEN edge_count + count
  ELSE IF MustFlush(count) THEN edge_count
  ELSE ordinary.edge_begin

LEMMA EmissionsLead ==
  ASSUME consumed \in Seq(Nat), ordinary \in PlainRecord, OpenTask(consumed, ordinary),
         NEW count \in Nat \union {Finishing}
  PROVE  /\ Emissions(count) \in Seq(PlainRecord)
         /\ \A i \in 1 .. Len(Emissions(count)) : Decided(count, Emissions(count)[i])
         /\ Leads(Emissions(count), ordinary.a, ordinary.edge_begin,
                  Goal(count), EdgeGoal(count))
<1>1. PICK n : n = destination_count
  OBVIOUS
<1>2. PICK e : e = edge_count
  OBVIOUS
<1>3. /\ ordinary.a \in Nat /\ ordinary.b \in Nat
      /\ ordinary.edge_begin \in Nat /\ ordinary.edge_count \in Nat
  <2>1. ordinary \in TaskRecord
    BY DEF PlainRecord
  <2> QED
    BY <2>1, RecordTyped
<1>4. /\ ordinary.tag = "ordinary" /\ ordinary.a + ordinary.b = n
      /\ ordinary.edge_begin = EdgesBefore(consumed, ordinary.a)
      /\ ordinary.edge_begin + ordinary.edge_count = e
  BY <1>1, <1>2 DEF OpenTask, destination_count, edge_count
<1>5. /\ Flushed \in Seq(PlainRecord)
      /\ Leads(Flushed, ordinary.a, ordinary.edge_begin, n, e)
  <2>1. CASE ordinary.b = 0
    <3>1. ordinary.a = n
      BY <1>3, <1>4, <2>1
    <3>2. ordinary.edge_begin = e
      BY <1>1, <1>2, <1>4, <3>1 DEF destination_count, edge_count
    <3>3. Flushed = <<>>
      BY <2>1 DEF Flushed
    <3> QED
      BY <3>1, <3>2, <3>3, EmptySeq DEF Leads
  <2>2. CASE ordinary.b # 0
    <3>1. Flushed = <<ordinary>>
      BY <2>2 DEF Flushed
    <3>2. Len(<<ordinary>>) = 1 /\ <<ordinary>>[1] = ordinary /\ <<ordinary>> # <<>>
          /\ 1 .. 1 - 1 = {} /\ <<ordinary>> \in Seq(PlainRecord)
      OBVIOUS
    <3>3. At(<<ordinary>>) = n /\ EdgeAt(<<ordinary>>) = e
      BY <1>4, <3>2 DEF At, EdgeAt, NextDestination
    <3> QED
      BY <3>1, <3>2, <3>3 DEF Leads
  <2> QED
    BY <2>1, <2>2
<1>6. \A i \in 1 .. Len(Flushed) : ordinary.b > 0 /\ Flushed[i] = ordinary
  <2>1. CASE ordinary.b = 0
    BY <2>1 DEF Flushed
  <2>2. CASE ordinary.b # 0
    BY <1>3, <2>2 DEF Flushed
  <2> QED
    BY <2>1, <2>2
<1>7. CASE count = Finishing
  <2>1. Emissions(count) = Flushed /\ Goal(count) = n /\ EdgeGoal(count) = e
    BY <1>1, <1>2, <1>7 DEF Emissions, Goal, EdgeGoal
  <2>2. ASSUME NEW i \in 1 .. Len(Flushed) PROVE Decided(count, Flushed[i])
    BY <1>6, <1>7, FlushedIsRight DEF Decided
  <2> QED
    BY <1>5, <2>1, <2>2
<1>8. CASE count # Finishing /\ count > EdgeSlice
  <2>1. Emissions(count) = Flushed \o Slices(count) /\ Goal(count) = n + 1 /\ EdgeGoal(count) = e + count
        /\ count \in Nat
    BY <1>1, <1>2, <1>8 DEF Emissions, Goal, EdgeGoal
  <2>2. PICK us : us = Flushed
    OBVIOUS
  <2>3. PICK ts : ts = Slices(count)
    OBVIOUS
  <2>4. /\ ts \in Seq(PlainRecord)
        /\ \A i \in 1 .. Len(ts) : Settled(Append(consumed, count), ts[i])
        /\ Leads(ts, n, e, n + 1, e + count)
    BY <1>1, <1>2, <1>8, <2>1, <2>3, SlicesLead
  <2>5. /\ us \in Seq(PlainRecord) /\ Leads(us, ordinary.a, ordinary.edge_begin, n, e)
        /\ \A i \in 1 .. Len(us) : Settled(Append(consumed, count), us[i])
    BY <1>5, <1>6, <1>8, <2>1, <2>2, FlushedIsRight
  <2>6. Leads(us \o ts, ordinary.a, ordinary.edge_begin, n + 1, e + count)
    BY <2>4, <2>5, LeadsConcat
  <2>7. /\ us \o ts \in Seq(PlainRecord) /\ Len(us \o ts) = Len(us) + Len(ts)
        /\ \A i \in 1 .. Len(us) + Len(ts) :
             (us \o ts)[i] = IF i <= Len(us) THEN us[i] ELSE ts[i - Len(us)]
        /\ Len(us) \in Nat /\ Len(ts) \in Nat
    BY <2>4, <2>5, ConcatProperties
  <2>8. ASSUME NEW i \in 1 .. Len(us \o ts) PROVE Decided(count, (us \o ts)[i])
    <3>1. CASE i <= Len(us)
      <4>1. i \in 1 .. Len(us)
        BY <2>7, <3>1
      <4> QED
        BY <1>8, <2>5, <2>7, <3>1, <4>1 DEF Decided
    <3>2. CASE ~(i <= Len(us))
      <4>1. i - Len(us) \in 1 .. Len(ts)
        BY <2>7, <3>2
      <4> QED
        BY <1>8, <2>4, <2>7, <3>2, <4>1 DEF Decided
    <3> QED
      BY <3>1, <3>2
  <2> QED
    BY <2>1, <2>2, <2>3, <2>6, <2>7, <2>8
<1>9. CASE count # Finishing /\ ~(count > EdgeSlice) /\ MustFlush(count)
  <2>1. Emissions(count) = Flushed /\ Goal(count) = n /\ EdgeGoal(count) = e /\ count \in Nat
    BY <1>1, <1>2, <1>9 DEF Emissions, Goal, EdgeGoal
  <2>2. ASSUME NEW i \in 1 .. Len(Flushed) PROVE Decided(count, Flushed[i])
    BY <1>6, <1>9, <2>1, FlushedIsRight DEF Decided
  <2> QED
    BY <1>5, <2>1, <2>2
<1>10. CASE count # Finishing /\ ~(count > EdgeSlice) /\ ~MustFlush(count)
  <2>1. Emissions(count) = <<>> /\ Goal(count) = ordinary.a /\ EdgeGoal(count) = ordinary.edge_begin
    BY <1>10 DEF Emissions, Goal, EdgeGoal
  <2> QED
    BY <2>1, EmptySeq DEF Leads
<1> QED
  BY <1>7, <1>8, <1>9, <1>10

----------------------------------------------------------------------------
(* The builder.                                                            *)

BuilderTypes ==
  /\ state \in {"active", "finished", "failed"} /\ calling \in BOOLEAN
  /\ ordinary \in PlainRecord /\ consumed \in Seq(Nat)
  /\ argument \in Nat \union {Finishing}
  /\ queue \in Seq(PlainRecord) /\ tasks \in Seq(PlainRecord)

\* What the consumer has, what the call has still to emit and the task being
\* filled cover the destinations one after the other.
Filling ==
  /\ OpenTask(consumed, ordinary)
  /\ Linked(tasks)
  /\ IF calling
     THEN /\ Leads(queue, At(tasks), EdgeAt(tasks), Goal(argument), EdgeGoal(argument))
          /\ \A i \in 1 .. Len(tasks) : Decided(argument, tasks[i])
          /\ \A i \in 1 .. Len(queue) : Decided(argument, queue[i])
     ELSE /\ At(tasks) = ordinary.a /\ EdgeAt(tasks) = ordinary.edge_begin
          /\ \A i \in 1 .. Len(tasks) : Settled(consumed, tasks[i])

BuilderInv ==
  /\ BuilderTypes
  /\ state = "active" => Filling
  /\ state = "finished" => IsCanonical(consumed, tasks)

LEMMA BuilderInit == Init => BuilderInv
<1> SUFFICES ASSUME Init PROVE BuilderInv
  OBVIOUS
<1>1. Len(consumed) = 0 /\ EdgesBefore(consumed, 0) = 0 /\ consumed \in Seq(Nat)
  <2>1. <<>> \in Seq(Nat) /\ Len(<<>>) = 0
    BY EmptySeq
  <2> QED
    BY <2>1, EdgesBeforeUnfold DEF Init
<1>2. ordinary = Empty(Len(consumed), EdgesBefore(consumed, Len(consumed)))
  BY <1>1 DEF Init
<1>3. /\ ordinary \in PlainRecord /\ OpenTask(consumed, ordinary)
      /\ ordinary.a = 0 /\ ordinary.edge_begin = 0
  BY <1>1, <1>2, OpenEmpty
<1>4. BuilderTypes
  BY <1>1, <1>3, EmptySeq DEF Init, BuilderTypes
<1>5. tasks = <<>> /\ Len(tasks) = 0 /\ calling = FALSE /\ state = "active"
  BY EmptySeq DEF Init
<1>6. Linked(tasks) /\ At(tasks) = 0 /\ EdgeAt(tasks) = 0
  BY <1>5 DEF Linked, At, EdgeAt
<1>7. Filling
  BY <1>3, <1>5, <1>6 DEF Filling
<1> QED
  BY <1>4, <1>5, <1>7 DEF BuilderInv

LEMMA CallKeeps ==
  ASSUME BuilderInv, NEW count \in Nat \union {Finishing}, Call(count)
  PROVE  BuilderInv'
<1>1. count \in Nat \union {Finishing}
  OBVIOUS
<1>2. /\ state = "active" /\ ~calling /\ BuilderTypes /\ Filling
      /\ UNCHANGED <<ordinary, consumed, tasks>>
  BY DEF Call, BuilderInv
<1>3. CASE count # Finishing /\ destination_count = DestinationLimit
  <2>1. state' = "failed" /\ UNCHANGED <<calling, argument, queue>>
    BY <1>3 DEF Call
  <2> QED
    BY <1>2, <2>1 DEF BuilderInv, BuilderTypes
<1>4. CASE ~(count # Finishing /\ destination_count = DestinationLimit)
  <2>1. /\ argument' = count /\ queue' = Emissions(count) /\ calling' = TRUE
        /\ state' = "active"
    BY <1>2, <1>4 DEF Call
  <2>2. /\ Emissions(count) \in Seq(PlainRecord)
        /\ \A i \in 1 .. Len(Emissions(count)) : Decided(count, Emissions(count)[i])
        /\ Leads(Emissions(count), ordinary.a, ordinary.edge_begin,
                 Goal(count), EdgeGoal(count))
    BY <1>1, <1>2, EmissionsLead DEF BuilderTypes, Filling
  <2>3. BuilderTypes'
    BY <1>1, <1>2, <2>1, <2>2 DEF BuilderTypes
  <2>4. ASSUME NEW i \in 1 .. Len(tasks) PROVE Decided(count, tasks[i])
    <3>1. PICK t : t = tasks[i]
      OBVIOUS
    <3>2. t \in TaskRecord /\ Settled(consumed, t) /\ consumed \in Seq(Nat)
      <4>1. t \in PlainRecord
        BY <1>2, <3>1 DEF BuilderTypes
      <4> QED
        BY <1>2, <3>1, <4>1 DEF Filling, PlainRecord, BuilderTypes
    <3>3. CASE count = Finishing
      BY <3>1, <3>2, <3>3 DEF Decided, Settled
    <3>4. CASE count # Finishing
      BY <1>1, <3>1, <3>2, <3>4, SettledStays DEF Decided
    <3> QED
      BY <3>3, <3>4
  <2>5. /\ At(tasks)' = ordinary.a /\ EdgeAt(tasks)' = ordinary.edge_begin
        /\ OpenTask(consumed, ordinary)' /\ Linked(tasks)'
    BY <1>2 DEF Filling, At, EdgeAt, OpenTask, Linked
  <2>6. Goal(argument)' = Goal(count) /\ EdgeGoal(argument)' = EdgeGoal(count)
    BY <1>2, <2>1 DEF Goal, EdgeGoal, MustFlush, destination_count, edge_count
  <2>7. Leads(queue, At(tasks), EdgeAt(tasks), Goal(argument), EdgeGoal(argument))'
    <3>1. queue' = Emissions(count)
      BY <2>1
    <3>2. Leads(queue', At(tasks)', EdgeAt(tasks)', Goal(argument)', EdgeGoal(argument)')
      BY <2>2, <2>5, <2>6, <3>1
    <3> QED
      BY <3>2 DEF Leads
  <2>8. \A i \in 1 .. Len(tasks') : Decided(argument, tasks[i])'
    BY <1>2, <2>1, <2>4 DEF Decided
  <2>9. \A i \in 1 .. Len(queue') : Decided(argument, queue[i])'
    BY <1>2, <2>1, <2>2 DEF Decided
  <2>10. Filling'
    BY <2>1, <2>5, <2>7, <2>8, <2>9 DEF Filling
  <2> QED
    BY <2>1, <2>3, <2>10 DEF BuilderInv
<1> QED
  BY <1>3, <1>4

LEMMA EmitKeeps ==
  ASSUME BuilderInv, Emit
  PROVE  BuilderInv'
<1>1. /\ state = "active" /\ calling /\ queue # <<>> /\ BuilderTypes /\ Filling
      /\ tasks' = Append(tasks, Head(queue)) /\ queue' = Tail(queue)
      /\ UNCHANGED <<state, calling, ordinary, consumed, argument>>
  BY DEF Emit, BuilderInv
<1>2. PICK t : t = Head(queue)
  OBVIOUS
<1>3. queue \in Seq(PlainRecord) /\ tasks \in Seq(PlainRecord)
  BY <1>1 DEF BuilderTypes
<1>4. Leads(queue, At(tasks), EdgeAt(tasks), Goal(argument), EdgeGoal(argument))
  BY <1>1 DEF Filling
<1>5. /\ t \in PlainRecord /\ queue' \in Seq(PlainRecord)
      /\ t.a = At(tasks) /\ t.edge_begin = EdgeAt(tasks)
      /\ Leads(queue', NextDestination(t), t.edge_begin + t.edge_count,
               Goal(argument), EdgeGoal(argument))
  BY <1>1, <1>2, <1>3, <1>4, LeadsTail
<1>6. PICK ts : ts = tasks'
  OBVIOUS
<1>7. /\ Linked(ts) /\ At(ts) = NextDestination(t) /\ EdgeAt(ts) = t.edge_begin + t.edge_count
  BY <1>1, <1>2, <1>3, <1>5, <1>6, LinkedAppend DEF Filling
<1>8. BuilderTypes'
  <2>1. tasks' \in Seq(PlainRecord)
    BY <1>1, <1>2, <1>3, <1>5, AppendProperties
  <2> QED
    BY <1>1, <1>5, <2>1 DEF BuilderTypes
<1>9. Goal(argument)' = Goal(argument) /\ EdgeGoal(argument)' = EdgeGoal(argument)
  BY <1>1 DEF Goal, EdgeGoal, MustFlush, destination_count, edge_count
<1>10. Leads(queue, At(tasks), EdgeAt(tasks), Goal(argument), EdgeGoal(argument))'
  <2>1. At(tasks)' = At(ts) /\ EdgeAt(tasks)' = EdgeAt(ts)
    BY <1>6 DEF At, EdgeAt
  <2>2. Leads(queue', At(tasks)', EdgeAt(tasks)', Goal(argument)', EdgeGoal(argument)')
    BY <1>5, <1>7, <1>9, <2>1
  <2> QED
    BY <2>2 DEF Leads
<1>11. \A i \in 1 .. Len(ts) : Decided(argument, ts[i])
  <2>1. /\ \A i \in 1 .. Len(tasks) : ts[i] = tasks[i]
        /\ ts[Len(tasks) + 1] = t /\ Len(ts) = Len(tasks) + 1 /\ Len(tasks) \in Nat
    BY <1>1, <1>2, <1>3, <1>5, <1>6, AppendProperties
  <2>2. Decided(argument, t)
    <3>1. 1 \in 1 .. Len(queue) /\ t = queue[1]
      BY <1>1, <1>2, <1>3, EmptySeq
    <3> QED
      BY <1>1, <3>1 DEF Filling
  <2>3. \A i \in 1 .. Len(ts) : i \in 1 .. Len(tasks) \/ i = Len(tasks) + 1
    BY <2>1
  <2> QED
    BY <1>1, <2>1, <2>2, <2>3 DEF Filling
<1>12. \A i \in 1 .. Len(Tail(queue)) : Decided(argument, Tail(queue)[i])
  <2>1. /\ \A i \in 1 .. Len(Tail(queue)) : Tail(queue)[i] = queue[i + 1]
        /\ Len(Tail(queue)) = Len(queue) - 1 /\ Len(queue) \in Nat
    BY <1>1, <1>3, HeadTailProperties
  <2>2. \A i \in 1 .. Len(Tail(queue)) : i + 1 \in 1 .. Len(queue)
    BY <2>1
  <2> QED
    BY <1>1, <2>1, <2>2 DEF Filling
<1>13. Filling'
  <2>1. OpenTask(consumed, ordinary)' /\ Linked(tasks)'
    BY <1>1, <1>6, <1>7 DEF Filling, OpenTask, Linked
  <2>2. \A i \in 1 .. Len(tasks') : Decided(argument, tasks[i])'
    BY <1>1, <1>6, <1>11 DEF Decided
  <2>3. \A i \in 1 .. Len(queue') : Decided(argument, queue[i])'
    BY <1>1, <1>12 DEF Decided
  <2> QED
    BY <1>1, <1>10, <2>1, <2>2, <2>3 DEF Filling
<1> QED
  BY <1>1, <1>8, <1>13 DEF BuilderInv

LEMMA ConsumerFailsKeeps ==
  ASSUME BuilderInv, ConsumerFails
  PROVE  BuilderInv'
<1>1. /\ state' = "failed" /\ calling' = FALSE /\ queue # <<>> /\ BuilderTypes
      /\ tasks' \in {tasks, Append(tasks, Head(queue))}
      /\ UNCHANGED <<ordinary, consumed, argument, queue>>
  BY DEF ConsumerFails, BuilderInv
<1>2. tasks' \in Seq(PlainRecord)
  <2>1. queue \in Seq(PlainRecord) /\ tasks \in Seq(PlainRecord)
    BY <1>1 DEF BuilderTypes
  <2>2. Head(queue) \in PlainRecord
    BY <1>1, <2>1, HeadTailProperties
  <2>3. Append(tasks, Head(queue)) \in Seq(PlainRecord)
    BY <2>1, <2>2, AppendProperties
  <2> QED
    BY <1>1, <2>1, <2>3
<1>3. BuilderTypes'
  BY <1>1, <1>2 DEF BuilderTypes
<1> QED
  BY <1>1, <1>3 DEF BuilderInv

LEMMA AbsorbKeeps ==
  ASSUME BuilderInv, Absorb
  PROVE  BuilderInv'
<1>1. /\ state = "active" /\ calling /\ queue = <<>> /\ argument # Finishing
      /\ BuilderTypes /\ Filling
      /\ consumed' = Append(consumed, argument) /\ calling' = FALSE
      /\ UNCHANGED <<state, argument, queue, tasks>>
  BY DEF Absorb, BuilderInv
<1>2. PICK n : n = destination_count
  OBVIOUS
<1>3. PICK e : e = edge_count
  OBVIOUS
<1>4. PICK longer : longer = consumed'
  OBVIOUS
<1>5. /\ argument \in Nat /\ consumed \in Seq(Nat) /\ ordinary \in PlainRecord
      /\ n = Len(consumed) /\ e = EdgesBefore(consumed, n)
  BY <1>1, <1>2, <1>3 DEF BuilderTypes, destination_count, edge_count
<1>6. /\ longer = Append(consumed, argument) /\ longer \in Seq(Nat)
      /\ Len(longer) = n + 1 /\ n \in Nat
      /\ EdgesBefore(longer, n + 1) = e + argument
  <2>1. /\ longer = Append(consumed, argument) /\ longer \in Seq(Nat)
        /\ Len(longer) = n + 1 /\ n \in Nat /\ longer[n + 1] = argument
    BY <1>1, <1>4, <1>5, AppendProperties
  <2>2. n \in 0 .. Len(longer) - 1 /\ n \in 0 .. Len(consumed)
    BY <1>5, <2>1
  <2>3. EdgesBefore(longer, n) = e
    BY <1>5, <2>1, <2>2, EdgesBeforeAppend
  <2>4. EdgesBefore(longer, n + 1) = EdgesBefore(longer, n) + longer[n + 1]
    BY <2>1, <2>2, EdgesBeforeUnfold
  <2> QED
    BY <2>1, <2>3, <2>4
<1>7. At(tasks) = Goal(argument) /\ EdgeAt(tasks) = EdgeGoal(argument)
  BY <1>1 DEF Filling, Leads
<1>8. PICK t : t = ordinary'
  OBVIOUS
<1>9. /\ t \in PlainRecord /\ OpenTask(longer, t)
      /\ t.a = Goal(argument) /\ t.edge_begin = EdgeGoal(argument)
  <2>1. CASE argument > EdgeSlice
    <3>1. t = Empty(n + 1, e + argument)
      BY <1>2, <1>3, <1>8, <2>1 DEF Absorb
    <3>2. /\ t \in PlainRecord /\ OpenTask(longer, t)
          /\ t.a = n + 1 /\ t.edge_begin = e + argument
      BY <1>6, <3>1, OpenEmpty
    <3>3. Goal(argument) = n + 1 /\ EdgeGoal(argument) = e + argument
      BY <1>1, <1>2, <1>3, <2>1 DEF Goal, EdgeGoal
    <3> QED
      BY <3>2, <3>3
  <2>2. CASE ~(argument > EdgeSlice)
    <3>1. PICK open : open = IF ordinary.b = 0 \/ MustFlush(argument) THEN Empty(n, e)
                             ELSE ordinary
      OBVIOUS
    <3>2. t = [open EXCEPT !.b = @ + 1, !.edge_count = @ + argument]
      BY <1>2, <1>3, <1>8, <2>2, <3>1 DEF Absorb
    <3>3. argument <= EdgeSlice /\ EdgeSlice <= MaxTaskEdges /\ 0 < MaxTaskVertices
          /\ EdgeSlice \in Nat /\ MaxTaskEdges \in Nat /\ MaxTaskVertices \in Nat
      BY <1>5, <2>2, TaskConfigAssumption
    <3>4. /\ open \in PlainRecord /\ OpenTask(consumed, open)
          /\ open.b < MaxTaskVertices /\ open.edge_count + argument <= MaxTaskEdges
          /\ open.a = Goal(argument) /\ open.edge_begin = EdgeGoal(argument)
      <4>1. CASE ordinary.b = 0 \/ MustFlush(argument)
        <5>1. open = Empty(n, e)
          BY <3>1, <4>1
        <5>2. /\ open \in PlainRecord /\ OpenTask(consumed, open)
              /\ open.a = n /\ open.b = 0 /\ open.edge_count = 0 /\ open.edge_begin = e
          BY <1>5, <5>1, OpenEmpty
        <5>3. Goal(argument) = n /\ EdgeGoal(argument) = e
          <6>1. CASE MustFlush(argument)
            BY <1>1, <1>2, <1>3, <2>2, <6>1 DEF Goal, EdgeGoal
          <6>2. CASE ~MustFlush(argument)
            <7>1. ordinary.b = 0 /\ ordinary.a \in Nat /\ ordinary.a + ordinary.b = n
                  /\ ordinary.edge_begin = EdgesBefore(consumed, ordinary.a)
              <8>1. ordinary \in TaskRecord
                BY <1>5 DEF PlainRecord
              <8> QED
                BY <1>1, <1>5, <4>1, <6>2, <8>1, RecordTyped DEF Filling, OpenTask
            <7>2. ordinary.a = n
              BY <7>1
            <7>3. Goal(argument) = ordinary.a /\ EdgeGoal(argument) = ordinary.edge_begin
              BY <1>1, <2>2, <6>2 DEF Goal, EdgeGoal
            <7> QED
              BY <1>5, <7>1, <7>2, <7>3
          <6> QED
            BY <6>1, <6>2
        <5>4. open.b < MaxTaskVertices /\ open.edge_count + argument <= MaxTaskEdges
          BY <1>5, <3>3, <5>2
        <5> QED
          BY <5>2, <5>3, <5>4
      <4>2. CASE ordinary.b # 0 /\ ~MustFlush(argument)
        <5>1. open = ordinary
          BY <3>1, <4>2
        <5>2. Goal(argument) = ordinary.a /\ EdgeGoal(argument) = ordinary.edge_begin
          BY <1>1, <2>2, <4>2 DEF Goal, EdgeGoal
        <5>3. ordinary.b \in Nat /\ ordinary.edge_count \in Nat
          <6>1. ordinary \in TaskRecord
            BY <1>5 DEF PlainRecord
          <6> QED
            BY <6>1, RecordTyped
        <5>4. ~(ordinary.b >= MaxTaskVertices) /\ ~(argument > MaxTaskEdges - ordinary.edge_count)
          BY <4>2, <5>3 DEF MustFlush
        <5>5. ordinary.b < MaxTaskVertices /\ ordinary.edge_count + argument <= MaxTaskEdges
          BY <1>5, <3>3, <5>3, <5>4
        <5>6. OpenTask(consumed, ordinary)
          BY <1>1 DEF Filling
        <5> QED
          BY <1>5, <5>1, <5>2, <5>5, <5>6
      <4> QED
        BY <4>1, <4>2
    <3> QED
      BY <1>5, <1>6, <3>2, <3>3, <3>4, OpenGrows
  <2> QED
    BY <2>1, <2>2
<1>10. BuilderTypes'
  BY <1>1, <1>4, <1>6, <1>8, <1>9 DEF BuilderTypes
<1>11. Filling'
  <2>1. OpenTask(consumed, ordinary)'
    BY <1>4, <1>8, <1>9 DEF OpenTask
  <2>2. At(tasks)' = ordinary'.a /\ EdgeAt(tasks)' = ordinary'.edge_begin /\ Linked(tasks)'
    BY <1>1, <1>7, <1>8, <1>9 DEF At, EdgeAt, Linked, Filling
  <2>3. ASSUME NEW i \in 1 .. Len(tasks) PROVE Settled(longer, tasks[i])
    BY <1>1, <1>6 DEF Filling, Decided
  <2>4. \A i \in 1 .. Len(tasks') : Settled(consumed, tasks[i])'
    BY <1>1, <1>4, <2>3 DEF Settled
  <2> QED
    BY <1>1, <2>1, <2>2, <2>4 DEF Filling
<1> QED
  BY <1>1, <1>10, <1>11 DEF BuilderInv

LEMMA FinishKeeps ==
  ASSUME BuilderInv, Finish
  PROVE  BuilderInv'
<1>1. /\ state = "active" /\ calling /\ queue = <<>> /\ argument = Finishing
      /\ BuilderTypes /\ Filling
      /\ state' = "finished" /\ calling' = FALSE
      /\ ordinary' = Empty(destination_count, edge_count)
      /\ UNCHANGED <<consumed, argument, queue, tasks>>
  BY DEF Finish, BuilderInv
<1>2. consumed \in Seq(Nat) /\ tasks \in Seq(PlainRecord)
  BY <1>1 DEF BuilderTypes
<1>3. ordinary' \in PlainRecord
  BY <1>1, <1>2, OpenEmpty DEF destination_count, edge_count
<1>4. BuilderTypes'
  BY <1>1, <1>3 DEF BuilderTypes
<1>5. At(tasks) = Len(consumed)
  BY <1>1 DEF Filling, Leads, Goal, destination_count
<1>6. IsCanonicalPrefix(consumed, tasks)
  <2>1. DOMAIN tasks = 1 .. Len(tasks)
    BY <1>2
  <2>2. \A i \in 1 .. Len(tasks) : RightTask(consumed, tasks[i])
    BY <1>1 DEF Filling, Decided
  <2> QED
    BY <1>1, <2>1, <2>2 DEF Filling, Linked, IsCanonicalPrefix
<1>7. IsCanonical(consumed, tasks)
  <2>1. CASE tasks = <<>>
    <3>1. Len(consumed) = 0
      BY <1>5, <2>1 DEF At
    <3>2. consumed = <<>>
      BY <1>2, <3>1, EmptySeq
    <3> QED
      BY <1>6, <2>1, <3>2 DEF IsCanonical
  <2>2. CASE tasks # <<>>
    BY <1>5, <1>6, <2>2 DEF IsCanonical, At
  <2> QED
    BY <2>1, <2>2
<1>8. IsCanonical(consumed, tasks)'
  <2>1. IsCanonical(consumed', tasks')
    BY <1>1, <1>7
  <2> QED
    BY <2>1 DEF IsCanonical
<1> QED
  BY <1>1, <1>4, <1>8 DEF BuilderInv

LEMMA BuilderStep ==
  ASSUME BuilderInv, [Next]_vars
  PROVE  BuilderInv'
<1>1. ASSUME NEW count \in Counts \union {Finishing}, Call(count) PROVE BuilderInv'
  BY <1>1, CallKeeps, BuilderAssumption DEF Counts
<1>2. CASE Emit
  BY <1>2, EmitKeeps
<1>3. CASE ConsumerFails
  BY <1>3, ConsumerFailsKeeps
<1>4. CASE Absorb
  BY <1>4, AbsorbKeeps
<1>5. CASE Finish
  BY <1>5, FinishKeeps
<1>6. CASE UNCHANGED vars
  BY <1>6 DEF vars, BuilderInv, BuilderTypes, Filling, IsCanonical, IsCanonicalPrefix,
     OpenTask, Linked, Leads, At, EdgeAt, Goal, EdgeGoal, MustFlush, Decided, Settled,
     destination_count, edge_count
<1> QED
  BY <1>1, <1>2, <1>3, <1>4, <1>5, <1>6 DEF Next

\* partitioner.cpp:89-99: a builder that has finished has emitted the
\* canonical partition of its counts, and one that has not has emitted a
\* beginning of it.  A hub is a count that nothing emitted can still join.
LEMMA InvBuilds ==
  ASSUME BuilderInv, EdgeSlice < MaxCount
  PROVE  BuiltIsCanonical
<1>1. ASSUME state = "active", ~calling
      PROVE  \E more \in Counts :
               IsCanonicalPrefix(consumed \o <<more>>, tasks \o Flushed)
  <2>1. MaxCount \in Nat /\ MaxCount \in Counts
    BY BuilderAssumption DEF Counts
  <2>2. /\ consumed \in Seq(Nat) /\ tasks \in Seq(PlainRecord) /\ ordinary \in PlainRecord
        /\ Filling
    BY <1>1 DEF BuilderInv, BuilderTypes
  <2>3. PICK longer : longer = Append(consumed, MaxCount)
    OBVIOUS
  <2>4. consumed \o <<MaxCount>> = longer
    BY <2>1, <2>2, <2>3, AppendIsConcat
  <2>5. ASSUME NEW i \in 1 .. Len(tasks) PROVE RightTask(longer, tasks[i])
    <3>1. tasks[i] \in TaskRecord /\ Settled(consumed, tasks[i])
      BY <1>1, <2>2 DEF Filling, PlainRecord
    <3> QED
      BY <2>1, <2>2, <2>3, <3>1, SettledStays DEF Settled
  <2>6. Linked(tasks) /\ At(tasks) = ordinary.a /\ EdgeAt(tasks) = ordinary.edge_begin
    BY <1>1, <2>2 DEF Filling
  <2>7. PICK ts : ts = tasks \o Flushed
    OBVIOUS
  <2>8. Linked(ts) /\ ts \in Seq(PlainRecord)
        /\ \A i \in 1 .. Len(ts) : RightTask(longer, ts[i])
    <3>1. CASE ordinary.b = 0
      <4>1. ts = tasks
        BY <2>2, <2>7, <3>1, ConcatEmptySeq DEF Flushed
      <4> QED
        BY <2>2, <2>5, <2>6, <4>1
    <3>2. CASE ordinary.b # 0
      <4>1. ts = Append(tasks, ordinary)
        BY <2>2, <2>7, <3>2, AppendIsConcat DEF Flushed
      <4>2. /\ ts \in Seq(PlainRecord) /\ Len(ts) = Len(tasks) + 1 /\ Len(tasks) \in Nat
            /\ \A i \in 1 .. Len(tasks) : ts[i] = tasks[i]
            /\ ts[Len(tasks) + 1] = ordinary
        BY <2>2, <4>1, AppendProperties
      <4>3. Linked(ts)
        BY <2>2, <2>6, <4>1, LinkedAppend
      <4>4. RightTask(longer, ordinary)
        <5>1. ordinary.b > 0
          <6>1. ordinary.b \in Nat
            BY <2>2, RecordTyped DEF PlainRecord
          <6> QED
            BY <3>2, <6>1
        <5>2. OpenTask(consumed, ordinary) /\ MaxCount > EdgeSlice
          BY <2>1, <2>2, TaskConfigAssumption DEF Filling
        <5> QED
          BY <2>1, <2>2, <2>3, <5>1, <5>2, FlushedIsRight DEF Settled
      <4>5. \A i \in 1 .. Len(ts) : i \in 1 .. Len(tasks) \/ i = Len(tasks) + 1
        BY <4>2
      <4> QED
        BY <2>5, <4>2, <4>3, <4>4, <4>5
    <3> QED
      BY <3>1, <3>2
  <2>9. IsCanonicalPrefix(longer, ts)
    <3>1. DOMAIN ts = 1 .. Len(ts)
      BY <2>8
    <3> QED
      BY <2>8, <3>1 DEF IsCanonicalPrefix, Linked
  <2> QED
    BY <2>1, <2>4, <2>7, <2>9
<1> QED
  BY <1>1 DEF BuiltIsCanonical, BuilderInv

----------------------------------------------------------------------------
(* The validator.                                                          *)

\* The validator reads the counts of the builder, and means the same by a
\* canonical partition.
LEMMA SameLayout ==
  /\ \A c, d : Validator!EdgesBefore(c, d) = EdgesBefore(c, d)
  /\ \A m, n : Validator!Smaller(m, n) = Smaller(m, n)
  /\ \A n : Validator!SliceCount(n) = SliceCount(n)
  /\ \A c, ts : Validator!IsCanonicalPrefix(c, ts) <=> IsCanonicalPrefix(c, ts)
  /\ \A c, ts : Validator!IsCanonical(c, ts) <=> IsCanonical(c, ts)
<1>1. \A c, d : Validator!EdgesBefore(c, d) = EdgesBefore(c, d)
  BY DEF Validator!EdgesBefore, EdgesBefore
<1>2. \A m, n : Validator!Smaller(m, n) = Smaller(m, n)
  BY DEF Validator!Smaller, Smaller
<1>3. \A n : Validator!SliceCount(n) = SliceCount(n)
  BY DEF Validator!SliceCount, SliceCount
<1>4. \A t : Validator!NextDestination(t) = NextDestination(t)
  BY DEF Validator!NextDestination, NextDestination
<1>5. \A t, u : Validator!Follows(t, u) <=> Follows(t, u)
  BY <1>4 DEF Validator!Follows, Follows
<1>6. \A c, d : Validator!IsHub(c, d) <=> IsHub(c, d)
  BY DEF Validator!IsHub, IsHub
<1>7. \A c, d, n, m : Validator!Fits(c, d, n, m) <=> Fits(c, d, n, m)
  BY <1>6 DEF Validator!Fits, Fits
<1>8. \A c, t : Validator!RightOrdinary(c, t) <=> RightOrdinary(c, t)
  BY <1>1, <1>6, <1>7 DEF Validator!RightOrdinary, RightOrdinary
<1>9. \A c, t : Validator!RightSlice(c, t) <=> RightSlice(c, t)
  BY <1>1, <1>2, <1>3, <1>6 DEF Validator!RightSlice, RightSlice
<1>10. \A c, t : Validator!RightTask(c, t) <=> RightTask(c, t)
  BY <1>8, <1>9 DEF Validator!RightTask, RightTask
<1>11. \A c, ts : Validator!IsCanonicalPrefix(c, ts) <=> IsCanonicalPrefix(c, ts)
  BY <1>5, <1>10 DEF Validator!IsCanonicalPrefix, IsCanonicalPrefix
<1>12. \A c, ts : Validator!IsCanonical(c, ts) <=> IsCanonical(c, ts)
  BY <1>4, <1>11 DEF Validator!IsCanonical, IsCanonical
<1> QED
  BY <1>1, <1>2, <1>3, <1>11, <1>12

NoHub == Validator!NoHub
None  == Validator!None

\* The hub the validator is in, k slices of it accepted.
HubAt(k) ==
  [destination |-> next_destination,
   slice_count |-> SliceCount(consumed[next_destination + 1]),
   next_slice |-> k,
   total_edges |-> consumed[next_destination + 1],
   covered_edges |-> k * EdgeSlice]

LEMMA Hubs ==
  /\ None = -1 /\ NoHub.covered_edges = 0
  /\ next_destination \in Nat => \A k : HubAt(k) # NoHub
<1>1. None = -1
  BY DEF None, Validator!None
<1>2. NoHub.covered_edges = 0 /\ NoHub.destination = -1
  BY DEF NoHub, Validator!NoHub, Validator!None
<1>3. \A k : HubAt(k).destination = next_destination
  BY DEF HubAt
<1> QED
  BY <1>1, <1>2, <1>3

\* What the validator has accepted begins the canonical partition, its next
\* task must start where that ends, and the stream of counts stands there.
Reading ==
  /\ IsCanonicalPrefix(consumed, accepted)
  /\ next_destination \in 0 .. Len(consumed)
  /\ next_edge = EdgesBefore(consumed, next_destination)
  /\ At(accepted) = next_destination
  /\ IF hub = NoHub
     THEN /\ EdgeAt(accepted) = next_edge
          /\ \/ lookahead = None /\ next_count_destination = next_destination
             \/ /\ next_destination < Len(consumed)
                /\ lookahead = next_destination
                /\ next_count_destination = next_destination + 1
     ELSE /\ next_destination < Len(consumed) /\ IsHub(consumed, next_destination)
          /\ accepted # <<>>
          /\ \E k \in Nat : /\ 0 < k /\ k < SliceCount(consumed[next_destination + 1])
                            /\ hub = HubAt(k)
                            /\ EdgeAt(accepted) = next_edge + k * EdgeSlice
          /\ lookahead = None /\ next_count_destination = next_destination + 1

\* The slices of the open hub that are behind the validator.
SlicesDone == IF hub = NoHub THEN 0 ELSE hub.next_slice

LEMMA PrefixAppend ==
  ASSUME NEW counts, NEW S, NEW ts \in Seq(S), NEW t \in S
  PROVE  IsCanonicalPrefix(counts, Append(ts, t)) <=>
           /\ IsCanonicalPrefix(counts, ts) /\ RightTask(counts, t)
           /\ t.a = At(ts) /\ t.edge_begin = EdgeAt(ts)
<1> DEFINE us == Append(ts, t)
<1>1. /\ DOMAIN us = 1 .. Len(ts) + 1 /\ DOMAIN ts = 1 .. Len(ts) /\ Len(ts) \in Nat
      /\ \A i \in 1 .. Len(ts) : us[i] = ts[i]
      /\ us[Len(ts) + 1] = t
  BY AppendProperties
<1>2. Linked(us) <=> Linked(ts) /\ t.a = At(ts) /\ t.edge_begin = EdgeAt(ts)
  BY LinkedAppend
<1> HIDE DEF us
<1>3. 1 .. Len(ts) + 1 = (1 .. Len(ts)) \union {Len(ts) + 1}
  BY <1>1
<1>4. (\A i \in DOMAIN us : RightTask(counts, us[i])) <=>
        (\A i \in DOMAIN ts : RightTask(counts, ts[i])) /\ RightTask(counts, t)
  BY <1>1, <1>3
<1>5. \A vs : IsCanonicalPrefix(counts, vs) <=>
               (\A i \in DOMAIN vs : RightTask(counts, vs[i])) /\ Linked(vs)
  BY DEF IsCanonicalPrefix, Linked
<1> QED
  BY <1>2, <1>4, <1>5 DEF us

LEMMA WholeIsAtTheEnd ==
  ASSUME NEW counts \in Seq(Nat), NEW ts
  PROVE  IsCanonical(counts, ts) <=> IsCanonicalPrefix(counts, ts) /\ At(ts) = Len(counts)
<1>1. counts = <<>> <=> Len(counts) = 0
  BY EmptySeq
<1> QED
  BY <1>1 DEF IsCanonical, At

\* t continues the canonical partition where the validator stands.
Continues(t) ==
  RightTask(consumed, t) /\ t.a = At(accepted) /\ t.edge_begin = EdgeAt(accepted)

LEMMA AdmitsOrdinaryIff ==
  ASSUME consumed \in Seq(Nat), Reading,
         NEW t \in TaskRecord, WellFormed(t), t.tag = "ordinary"
  PROVE  Validator!AdmitsOrdinary(t) <=> Continues(t)
<1>1. PICK n : n = Len(consumed)
  OBVIOUS
<1>2. PICK end : end = t.a + t.b
  OBVIOUS
<1>3. /\ t.a \in Nat /\ t.b \in Nat /\ t.edge_begin \in Nat /\ t.edge_count \in Nat
      /\ t.b > 0 /\ n \in Nat /\ end \in Nat /\ t.a < end
      /\ MaxTaskVertices \in Nat /\ MaxTaskEdges \in Nat /\ EdgeSlice \in Nat
  <2>1. t.a \in Nat /\ t.b \in Nat /\ t.edge_begin \in Nat /\ t.edge_count \in Nat
    BY RecordTyped
  <2>2. t.b > 0 /\ n \in Nat
    BY <1>1 DEF WellFormed
  <2> QED
    BY <1>2, <2>1, <2>2, TaskConfigAssumption
<1>4. /\ \A d \in 0 .. n - 1 : consumed[d + 1] \in Nat
      /\ \A d \in 0 .. n : EdgesBefore(consumed, d) \in Nat
  <2>1. \A d \in 0 .. n - 1 : d + 1 \in 1 .. Len(consumed)
    BY <1>1, <1>3
  <2> QED
    BY <1>1, <2>1, EdgesBeforeUnfold
<1>5. RightTask(consumed, t) <=>
        /\ t.b <= MaxTaskVertices /\ end <= n
        /\ \A d \in t.a .. end - 1 : ~IsHub(consumed, d)
        /\ t.edge_begin = EdgesBefore(consumed, t.a)
        /\ t.edge_begin + t.edge_count = EdgesBefore(consumed, end)
        /\ t.edge_count <= MaxTaskEdges
        /\ ~Fits(consumed, end, t.b, t.edge_count)
  <2>1. t.b \in 1 .. MaxTaskVertices <=> t.b <= MaxTaskVertices
    BY <1>3
  <2> QED
    BY <1>1, <1>2, <2>1 DEF RightTask, RightOrdinary
<1>6. CASE hub = NoHub
  <2>1. At(accepted) = next_destination /\ EdgeAt(accepted) = next_edge
        /\ next_edge = EdgesBefore(consumed, next_destination)
    BY <1>6 DEF Reading
  <2>2. Validator!AdmitsOrdinary(t) <=>
          /\ t.a = next_destination /\ t.b <= MaxTaskVertices /\ end <= n
          /\ t.edge_begin = next_edge
          /\ \A d \in t.a .. end - 1 : consumed[d + 1] <= EdgeSlice
          /\ t.edge_count = EdgesBefore(consumed, end) - EdgesBefore(consumed, t.a)
          /\ t.edge_count <= MaxTaskEdges
          /\ ~Validator!EndedEarly(t)
    BY <1>1, <1>2, <1>3, <1>6, SameLayout
       DEF Validator!AdmitsOrdinary, Validator!destination_count, Validator!CountOf, NoHub
  <2>3. Validator!EndedEarly(t) <=>
          /\ end < n /\ consumed[end + 1] <= EdgeSlice
          /\ t.b < MaxTaskVertices
          /\ consumed[end + 1] <= MaxTaskEdges - t.edge_count
    BY <1>1, <1>2 DEF Validator!EndedEarly, Validator!destination_count, Validator!CountOf
  <2>4. Validator!EndedEarly(t) <=> Fits(consumed, end, t.b, t.edge_count)
    <3>1. CASE end < n
      <4>1. PICK count : count = consumed[end + 1]
        OBVIOUS
      <4>2. count \in Nat
        BY <1>3, <1>4, <3>1, <4>1
      <4>3. (count <= EdgeSlice <=> ~(count > EdgeSlice))
            /\ (count <= MaxTaskEdges - t.edge_count <=> t.edge_count + count <= MaxTaskEdges)
        BY <1>3, <4>2
      <4> QED
        BY <1>1, <2>3, <4>1, <4>3 DEF Fits, IsHub
    <3>2. CASE ~(end < n)
      BY <1>1, <2>3, <3>2 DEF Fits
    <3> QED
      BY <3>1, <3>2
  <2>5. ASSUME end <= n
        PROVE  /\ (\A d \in t.a .. end - 1 : consumed[d + 1] <= EdgeSlice) <=>
                     (\A d \in t.a .. end - 1 : ~IsHub(consumed, d))
               /\ t.edge_begin = EdgesBefore(consumed, t.a) =>
                    (t.edge_count = EdgesBefore(consumed, end) - EdgesBefore(consumed, t.a) <=>
                       t.edge_begin + t.edge_count = EdgesBefore(consumed, end))
    <3>1. \A d \in t.a .. end - 1 : d \in 0 .. n - 1
      BY <1>3, <2>5
    <3>2. \A d \in t.a .. end - 1 : consumed[d + 1] <= EdgeSlice <=> ~IsHub(consumed, d)
      <4>1. ASSUME NEW d \in t.a .. end - 1
            PROVE  consumed[d + 1] <= EdgeSlice <=> ~IsHub(consumed, d)
        <5>1. PICK count : count = consumed[d + 1]
          OBVIOUS
        <5>2. count \in Nat
          BY <1>4, <3>1, <5>1
        <5>3. count <= EdgeSlice <=> ~(count > EdgeSlice)
          BY <1>3, <5>2
        <5> QED
          BY <5>1, <5>3 DEF IsHub
      <4> QED
        BY <4>1
    <3>3. PICK before : before = EdgesBefore(consumed, t.a)
      OBVIOUS
    <3>4. PICK after : after = EdgesBefore(consumed, end)
      OBVIOUS
    <3>5. t.a \in 0 .. n /\ end \in 0 .. n
      BY <1>3, <2>5
    <3>6. before \in Nat /\ after \in Nat
      BY <1>4, <3>3, <3>4, <3>5
    <3>7. t.edge_begin = before =>
            (t.edge_count = after - before <=> t.edge_begin + t.edge_count = after)
      BY <1>3, <3>6
    <3> QED
      BY <3>2, <3>3, <3>4, <3>7
  <2>6. ASSUME Validator!AdmitsOrdinary(t) PROVE Continues(t)
    BY <1>5, <2>1, <2>2, <2>4, <2>5, <2>6 DEF Continues
  <2>7. ASSUME Continues(t) PROVE Validator!AdmitsOrdinary(t)
    BY <1>5, <2>1, <2>2, <2>4, <2>5, <2>7 DEF Continues
  <2> QED
    BY <2>6, <2>7
<1>7. CASE hub # NoHub
  <2>1. ~Validator!AdmitsOrdinary(t)
    BY <1>7 DEF Validator!AdmitsOrdinary, NoHub
  <2>2. IsHub(consumed, next_destination) /\ At(accepted) = next_destination
    BY <1>7 DEF Reading
  <2>3. ~Continues(t)
    <3>1. SUFFICES ASSUME Continues(t) PROVE FALSE
      OBVIOUS
    <3>2. t.a \in t.a .. end - 1
      BY <1>3
    <3> QED
      BY <1>5, <2>2, <3>1, <3>2 DEF Continues
  <2> QED
    BY <2>1, <2>3
<1> QED
  BY <1>6, <1>7

\* The hub of the next task, and how many of its slices are behind it.
LEMMA OpenHub ==
  ASSUME consumed \in Seq(Nat), Reading, NEW t \in TaskRecord,
         t.a = next_destination, next_destination < Len(consumed),
         IsHub(consumed, next_destination),
         hub = NoHub => t.c = SliceCount(consumed[next_destination + 1])
  PROVE  /\ SlicesDone \in Nat /\ SlicesDone < SliceCount(consumed[next_destination + 1])
         /\ Validator!OpenedHub(t) = HubAt(SlicesDone)
         /\ EdgeAt(accepted) = next_edge + SlicesDone * EdgeSlice
         /\ next_edge \in Nat /\ next_destination \in Nat
         /\ consumed[next_destination + 1] \in Nat
         /\ consumed[next_destination + 1] > EdgeSlice
<1>1. next_destination \in Nat /\ next_edge \in Nat
      /\ next_destination + 1 \in 1 .. Len(consumed)
  <2>1. Len(consumed) \in Nat
    OBVIOUS
  <2>2. next_destination \in 0 .. Len(consumed) /\ next_edge = EdgesBefore(consumed, next_destination)
    BY DEF Reading
  <2>3. next_edge \in Nat
    BY <2>2, EdgesBeforeUnfold
  <2> QED
    BY <2>1, <2>2, <2>3
<1>2. PICK count : count = consumed[next_destination + 1]
  OBVIOUS
<1>3. count \in Nat /\ count > EdgeSlice
  BY <1>1, <1>2 DEF IsHub
<1>4. CASE hub = NoHub
  <2>1. SlicesDone = 0
    BY <1>4 DEF SlicesDone
  <2>2. 0 * EdgeSlice = 0 /\ 0 < SliceCount(count)
    <3>1. PICK c : c = SliceCount(count)
      OBVIOUS
    <3>2. /\ EdgeSlice \in Nat /\ EdgeSlice > 0 /\ c \in Nat
          /\ count <= EdgeSlice * c
      BY <1>3, <3>1, SlicesOfHub
    <3>3. CASE c = 0
      <4>1. EdgeSlice * 0 = 0
        BY <3>2
      <4> QED
        BY <1>3, <3>2, <3>3, <4>1
    <3> QED
      BY <3>1, <3>2, <3>3
  <2>3. Validator!OpenedHub(t) = HubAt(0)
    BY <1>2, <1>4, <2>2 DEF Validator!OpenedHub, Validator!CountOf, HubAt, NoHub
  <2>4. EdgeAt(accepted) = next_edge + 0
    BY <1>1, <1>4 DEF Reading
  <2> QED
    BY <1>1, <1>2, <1>3, <2>1, <2>2, <2>3, <2>4
<1>5. CASE hub # NoHub
  <2>1. PICK k \in Nat : /\ 0 < k /\ k < SliceCount(count) /\ hub = HubAt(k)
                         /\ EdgeAt(accepted) = next_edge + k * EdgeSlice
    BY <1>2, <1>5 DEF Reading
  <2>2. SlicesDone = k
    BY <1>5, <2>1 DEF SlicesDone, HubAt
  <2>3. Validator!OpenedHub(t) = HubAt(k)
    BY <1>5, <2>1 DEF Validator!OpenedHub, NoHub
  <2> QED
    BY <1>1, <1>2, <1>3, <2>1, <2>2, <2>3
<1> QED
  BY <1>4, <1>5

LEMMA AdmitsSliceIff ==
  ASSUME consumed \in Seq(Nat), Reading, NEW t \in TaskRecord, t.tag = "hub_slice"
  PROVE  Validator!AdmitsSlice(t) <=> Continues(t)
<1>1. At(accepted) = next_destination /\ next_edge = EdgesBefore(consumed, next_destination)
  BY DEF Reading
<1>2. PICK count : count = consumed[next_destination + 1]
  OBVIOUS
<1>3. PICK k : k = SlicesDone
  OBVIOUS
<1>4. t.b \in Nat /\ t.edge_begin \in Nat /\ t.edge_count \in Nat
  BY RecordTyped
<1>5. ASSUME t.a = next_destination, next_destination < Len(consumed),
             IsHub(consumed, next_destination), t.c = SliceCount(count)
      PROVE  Validator!AdmitsSlice(t) <=> Continues(t)
  <2>1. /\ k \in Nat /\ k < SliceCount(count) /\ Validator!OpenedHub(t) = HubAt(k)
        /\ EdgeAt(accepted) = next_edge + k * EdgeSlice /\ next_edge \in Nat
        /\ count \in Nat /\ count > EdgeSlice
    BY <1>2, <1>3, <1>5, OpenHub
  <2>2. /\ HubAt(k).destination = next_destination /\ HubAt(k).slice_count = SliceCount(count)
        /\ HubAt(k).next_slice = k /\ HubAt(k).total_edges = count
        /\ HubAt(k).covered_edges = k * EdgeSlice
    BY <1>2 DEF HubAt
  <2>3. hub = NoHub => (Validator!AdmitsFirstSlice(t) <=> t.b = 0)
    BY <1>2, <1>5, <2>1, SameLayout
       DEF Validator!AdmitsFirstSlice, Validator!destination_count, Validator!CountOf
  <2>4. hub = NoHub => k = 0
    BY <1>3 DEF SlicesDone
  <2>5. t.b = k => (Validator!AdmitsSlice(t) <=>
          /\ t.edge_begin = next_edge + k * EdgeSlice
          /\ t.edge_count = Smaller(EdgeSlice, count - k * EdgeSlice))
    <3>1. k + 1 = SliceCount(count) =>
            k * EdgeSlice + Smaller(EdgeSlice, count - k * EdgeSlice) = count
      BY <2>1, SliceEdges
    <3> QED
      BY <1>5, <2>1, <2>2, <2>3, <2>4, <3>1, SameLayout DEF Validator!AdmitsSlice, NoHub
  <2>6. Validator!AdmitsSlice(t) => t.b = k
    BY <2>1, <2>2 DEF Validator!AdmitsSlice
  <2>7. Continues(t) => t.b = k
    <3>1. ASSUME Continues(t) PROVE t.b = k
      <4>1. t.edge_begin = next_edge + t.b * EdgeSlice /\ t.edge_begin = next_edge + k * EdgeSlice
        BY <1>1, <1>5, <2>1, <3>1 DEF Continues, RightTask, RightSlice
      <4>2. PICK m : m = t.b * EdgeSlice
        OBVIOUS
      <4>3. PICK l : l = k * EdgeSlice
        OBVIOUS
      <4>4. m \in Nat /\ l \in Nat
        BY <1>4, <2>1, <4>2, <4>3, Multiples
      <4>5. m = l
        BY <2>1, <4>1, <4>2, <4>3, <4>4
      <4> QED
        BY <1>4, <2>1, <4>2, <4>3, <4>5, Multiples
    <3> QED
      BY <3>1
  <2>8. t.b = k => (Continues(t) <=>
          /\ t.edge_begin = next_edge + k * EdgeSlice
          /\ t.edge_count = Smaller(EdgeSlice, count - k * EdgeSlice))
    BY <1>1, <1>2, <1>5, <2>1 DEF Continues, RightTask, RightSlice
  <2> QED
    BY <2>5, <2>6, <2>7, <2>8
<1>6. ASSUME Validator!AdmitsSlice(t)
      PROVE  /\ t.a = next_destination /\ next_destination < Len(consumed)
             /\ IsHub(consumed, next_destination) /\ t.c = SliceCount(count)
  <2>1. CASE hub = NoHub
    BY <1>2, <1>6, <2>1, SameLayout
       DEF Validator!AdmitsSlice, Validator!AdmitsFirstSlice, Validator!destination_count,
           Validator!CountOf, NoHub, IsHub
  <2>2. CASE hub # NoHub
    <3>1. PICK m \in Nat : hub = HubAt(m)
      BY <2>2 DEF Reading
    <3>2. Validator!OpenedHub(t) = HubAt(m)
      BY <2>2, <3>1 DEF Validator!OpenedHub, NoHub
    <3>3. t.a = HubAt(m).destination /\ t.c = HubAt(m).slice_count
      BY <1>6, <3>2 DEF Validator!AdmitsSlice
    <3> QED
      BY <1>2, <2>2, <3>3 DEF HubAt, Reading
  <2> QED
    BY <2>1, <2>2
<1>7. ASSUME Continues(t)
      PROVE  /\ t.a = next_destination /\ next_destination < Len(consumed)
             /\ IsHub(consumed, next_destination) /\ t.c = SliceCount(count)
  BY <1>1, <1>2, <1>7 DEF Continues, RightTask, RightSlice
<1> QED
  BY <1>5, <1>6, <1>7

\* The validator accepts a task exactly when it continues the canonical
\* partition; the counts it asks for are the next in the stream.
LEMMA AcceptsIff ==
  ASSUME consumed \in Seq(Nat), Reading, NEW t \in TaskRecord, WellFormed(t)
  PROVE  Validator!Accepts(t) <=> Continues(t)
<1>1. ASSUME t.a = next_destination, hub = NoHub PROVE Validator!InOrder(t.a)
  <2>1. next_destination # -1
    BY DEF Reading
  <2> QED
    BY <1>1, <2>1, Hubs DEF Reading, Validator!InOrder, None
<1>2. t.tag \in {"ordinary", "hub_slice"}
  BY RecordTyped
<1>3. Validator!AdmitsOrdinary(t) \/ Validator!AdmitsSlice(t) <=> Continues(t)
  <2>1. CASE t.tag = "ordinary"
    <3>1. ~Validator!AdmitsSlice(t)
      BY <2>1 DEF Validator!AdmitsSlice
    <3> QED
      BY <2>1, <3>1, AdmitsOrdinaryIff
  <2>2. CASE t.tag = "hub_slice"
    <3>1. ~Validator!AdmitsOrdinary(t)
      BY <2>2 DEF Validator!AdmitsOrdinary
    <3> QED
      BY <2>2, <3>1, AdmitsSliceIff
  <2> QED
    BY <1>2, <2>1, <2>2
<1>4. Continues(t) => t.a = next_destination
  BY DEF Continues, Reading
<1> QED
  BY <1>1, <1>3, <1>4 DEF Validator!Accepts, NoHub

LEMMA MayFinishIff ==
  ASSUME consumed \in Seq(Nat), Reading
  PROVE  Validator!MayFinish <=> IsCanonical(consumed, accepted)
<1>1. IsCanonical(consumed, accepted) <=> next_destination = Len(consumed)
  BY WholeIsAtTheEnd DEF Reading
<1>2. Validator!MayFinish <=>
        /\ hub = NoHub /\ next_destination = Len(consumed) /\ lookahead = None
        /\ next_count_destination = Len(consumed)
  BY DEF Validator!MayFinish, Validator!destination_count, NoHub, None
<1>3. ASSUME next_destination = Len(consumed)
      PROVE  hub = NoHub /\ lookahead = None /\ next_count_destination = Len(consumed)
  <2>1. ~(next_destination < Len(consumed))
    BY <1>3
  <2> QED
    BY <1>3, <2>1 DEF Reading
<1> QED
  BY <1>1, <1>2, <1>3

LEMMA InitReads ==
  ASSUME consumed \in Seq(Nat), Validator!Init
  PROVE  Reading /\ accepted \in Seq(Offers) /\ validator_state = "active"
<1>1. /\ validator_state = "active" /\ lookahead = None /\ hub = NoHub
      /\ next_destination = 0 /\ next_edge = 0 /\ next_count_destination = 0
      /\ accepted = <<>>
  BY DEF Validator!Init, None, NoHub
<1>2. IsCanonicalPrefix(consumed, accepted)
  BY <1>1 DEF IsCanonicalPrefix
<1>3. 0 \in 0 .. Len(consumed) /\ EdgesBefore(consumed, 0) = 0
  <2>1. Len(consumed) \in Nat
    OBVIOUS
  <2> QED
    BY <2>1, EdgesBeforeUnfold
<1>4. At(accepted) = 0 /\ EdgeAt(accepted) = 0
  BY <1>1 DEF At, EdgeAt
<1> QED
  BY <1>1, <1>2, <1>3, <1>4, EmptySeq DEF Reading

LEMMA AcceptOrdinaryReads ==
  ASSUME consumed \in Seq(Nat), accepted \in Seq(Offers), Reading, consumed' = consumed,
         NEW t \in Offers, Validator!AcceptOrdinary(t)
  PROVE  Reading' /\ accepted' \in Seq(Offers)
<1>1. PICK n : n = Len(consumed)
  OBVIOUS
<1>2. PICK end : end = t.a + t.b
  OBVIOUS
<1>3. t \in TaskRecord /\ WellFormed(t)
  BY OffersAssumption
<1>4. /\ Validator!AdmitsOrdinary(t) /\ Validator!Accepts(t)
      /\ Validator!ReadUpTo(IF end < n THEN end ELSE end - 1)
      /\ lookahead' = IF end < n THEN end ELSE None
      /\ next_destination' = end /\ next_edge' = next_edge + t.edge_count
      /\ accepted' = Append(accepted, t) /\ hub' = hub
  BY <1>1, <1>2 DEF Validator!AcceptOrdinary, Validator!destination_count, None
<1>5. t.tag = "ordinary" /\ hub = NoHub
  BY <1>4 DEF Validator!AdmitsOrdinary, NoHub
<1>6. Continues(t)
  BY <1>3, <1>4, AcceptsIff
<1>7. /\ t.a \in Nat /\ t.b \in Nat /\ t.edge_begin \in Nat /\ t.edge_count \in Nat
      /\ t.b > 0 /\ n \in Nat /\ t.a < end /\ end \in Nat
  <2>1. t.a \in Nat /\ t.b \in Nat /\ t.edge_begin \in Nat /\ t.edge_count \in Nat
    BY <1>3, RecordTyped
  <2>2. t.b > 0 /\ n \in Nat
    BY <1>1, <1>3, <1>5 DEF WellFormed
  <2> QED
    BY <1>2, <2>1, <2>2
<1>8. /\ end <= n /\ t.edge_begin + t.edge_count = EdgesBefore(consumed, end)
      /\ t.a = At(accepted) /\ t.edge_begin = EdgeAt(accepted)
  BY <1>1, <1>2, <1>5, <1>6 DEF Continues, RightTask, RightOrdinary
<1>9. /\ t.a = next_destination /\ t.edge_begin = next_edge
      /\ next_count_destination \in {next_destination, next_destination + 1}
  BY <1>5, <1>8 DEF Reading
<1>10. PICK ts : ts = accepted'
  OBVIOUS
<1>11. IsCanonicalPrefix(consumed, ts)
  BY <1>4, <1>6, <1>10, PrefixAppend DEF Reading, Continues
<1>12. /\ ts \in Seq(Offers) /\ At(ts) = end /\ EdgeAt(ts) = t.edge_begin + t.edge_count
  BY <1>2, <1>4, <1>5, <1>10, LinkedAppend, AppendProperties DEF NextDestination
<1>13. next_count_destination' = IF end < n THEN end + 1 ELSE end
  <2>1. next_count_destination' = LET d == IF end < n THEN end ELSE end - 1 IN
          IF d < next_count_destination THEN next_count_destination ELSE d + 1
    BY <1>4 DEF Validator!ReadUpTo
  <2>2. next_count_destination \in {t.a, t.a + 1}
    BY <1>9
  <2> QED
    BY <1>7, <2>1, <2>2
<1>14. end \in 0 .. n /\ (~(end < n) => end = n)
  BY <1>7, <1>8
<1>15. /\ IsCanonicalPrefix(consumed, accepted)' /\ At(accepted)' = end
       /\ EdgeAt(accepted)' = t.edge_begin + t.edge_count
       /\ (hub = NoHub)' /\ None' = None
  <2>1. (hub = NoHub)' /\ None' = None
    BY <1>4, <1>5 DEF NoHub, None, Validator!NoHub, Validator!None
  <2> QED
    BY <1>10, <1>11, <1>12, <2>1 DEF IsCanonicalPrefix, At, EdgeAt
<1>16. Reading'
  <2>1. next_edge' = EdgesBefore(consumed', next_destination')
    BY <1>4, <1>8, <1>9
  <2> QED
    BY <1>1, <1>4, <1>8, <1>9, <1>13, <1>14, <1>15, <2>1 DEF Reading
<1> QED
  BY <1>10, <1>12, <1>16

LEMMA AcceptSliceReads ==
  ASSUME consumed \in Seq(Nat), accepted \in Seq(Offers), Reading, consumed' = consumed,
         NEW t \in Offers, Validator!AcceptSlice(t)
  PROVE  Reading' /\ accepted' \in Seq(Offers)
<1>1. PICK n : n = Len(consumed)
  OBVIOUS
<1>2. PICK nd : nd = next_destination
  OBVIOUS
<1>3. PICK count : count = consumed[nd + 1]
  OBVIOUS
<1>4. PICK k : k = SlicesDone
  OBVIOUS
<1>5. t \in TaskRecord /\ WellFormed(t)
  BY OffersAssumption
<1>6. /\ Validator!AdmitsSlice(t) /\ Validator!Accepts(t)
      /\ accepted' = Append(accepted, t)
      /\ IF hub = NoHub THEN Validator!ReadUpTo(t.a) /\ lookahead' = None
         ELSE UNCHANGED <<next_count_destination, lookahead>>
  BY DEF Validator!AcceptSlice, NoHub, None
<1>7. t.tag = "hub_slice" /\ Continues(t)
  BY <1>5, <1>6, AcceptsIff DEF Validator!AdmitsSlice
<1>8. /\ t.a = nd /\ nd < n /\ IsHub(consumed, nd) /\ t.c = SliceCount(count)
      /\ t.b < t.c /\ t.edge_begin = EdgesBefore(consumed, nd) + t.b * EdgeSlice
      /\ t.edge_count = Smaller(EdgeSlice, count - t.b * EdgeSlice)
      /\ t.edge_begin = EdgeAt(accepted) /\ t.a = At(accepted)
      /\ next_edge = EdgesBefore(consumed, nd)
  BY <1>1, <1>2, <1>3, <1>7 DEF Continues, RightTask, RightSlice, Reading
<1>9. /\ k \in Nat /\ k < SliceCount(count) /\ Validator!OpenedHub(t) = HubAt(k)
      /\ EdgeAt(accepted) = next_edge + k * EdgeSlice /\ next_edge \in Nat
      /\ nd \in Nat /\ count \in Nat /\ count > EdgeSlice
  BY <1>1, <1>2, <1>3, <1>4, <1>5, <1>8, OpenHub
<1>10. t.b = k
  BY <1>6, <1>9 DEF Validator!AdmitsSlice, HubAt
<1>11. PICK m : m = k * EdgeSlice
  OBVIOUS
<1>12. PICK edges : edges = t.edge_count
  OBVIOUS
<1>13. /\ m \in Nat /\ edges \in Nat /\ m + edges <= count
       /\ k + 1 = SliceCount(count) => m + edges = count
       /\ k + 1 # SliceCount(count) => edges = EdgeSlice
  <2>1. edges = Smaller(EdgeSlice, count - k * EdgeSlice)
    BY <1>8, <1>10, <1>12
  <2> QED
    BY <1>9, <1>11, <2>1, SliceEdges
<1>14. PICK ts : ts = accepted'
  OBVIOUS
<1>15. IsCanonicalPrefix(consumed, ts)
  BY <1>6, <1>7, <1>14, PrefixAppend DEF Reading, Continues
<1>16. /\ ts \in Seq(Offers) /\ ts # <<>> /\ At(ts) = NextDestination(t)
       /\ EdgeAt(ts) = t.edge_begin + edges
  <2>1. ts \in Seq(Offers) /\ Len(ts) = Len(accepted) + 1 /\ Len(accepted) \in Nat
    BY <1>6, <1>14, AppendProperties
  <2>2. ts # <<>>
    BY <2>1, EmptySeq
  <2> QED
    BY <1>6, <1>12, <1>14, <2>1, <2>2, LinkedAppend
<1>17. lookahead' = None /\ next_count_destination' = nd + 1
  <2>1. CASE hub = NoHub
    <3>1. /\ next_count_destination \in {nd, nd + 1}
          /\ next_count_destination' =
               IF nd < next_count_destination THEN next_count_destination ELSE nd + 1
      BY <1>2, <1>6, <1>8, <2>1 DEF Reading, Validator!ReadUpTo
    <3> QED
      BY <1>6, <1>9, <2>1, <3>1
  <2>2. CASE hub # NoHub
    BY <1>2, <1>6, <2>2 DEF Reading
  <2> QED
    BY <2>1, <2>2
<1>18. PICK grown : grown = [HubAt(k) EXCEPT !.next_slice = @ + 1, !.covered_edges = @ + edges]
  OBVIOUS
<1>19. /\ grown.next_slice = k + 1 /\ grown.slice_count = SliceCount(count)
       /\ grown = [destination |-> nd, slice_count |-> SliceCount(count),
                   next_slice |-> k + 1, total_edges |-> count,
                   covered_edges |-> m + edges]
  BY <1>2, <1>3, <1>11, <1>18 DEF HubAt
<1>20. /\ hub' = IF k + 1 = SliceCount(count) THEN NoHub ELSE grown
       /\ next_edge' = IF k + 1 = SliceCount(count) THEN next_edge + count ELSE next_edge
       /\ next_destination' = IF k + 1 = SliceCount(count) THEN nd + 1 ELSE nd
  <2>1. HubAt(k).total_edges = count
    BY <1>2, <1>3 DEF HubAt
  <2> QED
    BY <1>2, <1>9, <1>12, <1>18, <1>19, <2>1 DEF Validator!AcceptSlice, NoHub
<1>21. /\ IsCanonicalPrefix(consumed, accepted)' /\ accepted' # <<>>
       /\ At(accepted)' = NextDestination(t) /\ EdgeAt(accepted)' = next_edge + m + edges
       /\ NoHub' = NoHub /\ None' = None
  <2>1. NoHub' = NoHub /\ None' = None
    BY DEF NoHub, None, Validator!NoHub, Validator!None
  <2>2. t.edge_begin + edges = next_edge + m + edges
    BY <1>8, <1>9, <1>11
  <2> QED
    BY <1>14, <1>15, <1>16, <2>1, <2>2 DEF IsCanonicalPrefix, At, EdgeAt
<1>22. n \in Nat /\ nd \in 0 .. n /\ nd + 1 \in 0 .. n /\ nd \in 0 .. n - 1
  <2>1. n \in Nat
    BY <1>1
  <2> QED
    BY <1>8, <1>9, <2>1
<1>23. CASE k + 1 = SliceCount(count)
  <2>1. /\ hub' = NoHub' /\ next_edge' = next_edge + count /\ next_destination' = nd + 1
    BY <1>20, <1>21, <1>23
  <2>2. At(accepted)' = nd + 1 /\ EdgeAt(accepted)' = next_edge + count
    <3>1. NextDestination(t) = nd + 1
      BY <1>7, <1>8, <1>10, <1>23 DEF NextDestination
    <3>2. next_edge + m + edges = next_edge + count
      BY <1>9, <1>13, <1>23
    <3> QED
      BY <1>21, <3>1, <3>2
  <2>3. next_edge' = EdgesBefore(consumed', next_destination')
    BY <1>1, <1>3, <1>8, <1>22, <2>1, EdgesBeforeUnfold
  <2>4. Reading'
    BY <1>1, <1>17, <1>21, <1>22, <2>1, <2>2, <2>3 DEF Reading
  <2> QED
    BY <1>14, <1>16, <2>4
<1>24. CASE k + 1 # SliceCount(count)
  <2>1. next_edge' = next_edge /\ next_destination' = nd /\ hub' = grown
    BY <1>20, <1>24
  <2>2. /\ k + 1 \in Nat /\ 0 < k + 1 /\ k + 1 < SliceCount(count)
        /\ (k + 1) * EdgeSlice = m + edges
        /\ next_edge + m + edges = next_edge + (k + 1) * EdgeSlice
    <3>1. PICK c : c = SliceCount(count)
      OBVIOUS
    <3>2. c \in Nat
      BY <1>9, <3>1, SlicesOfHub
    <3>3. k + 1 \in Nat /\ 0 < k + 1 /\ k + 1 < c
      BY <1>9, <1>24, <3>1, <3>2
    <3>4. (k + 1) * EdgeSlice = m + edges
      BY <1>9, <1>11, <1>13, <1>24, Multiples
    <3> QED
      BY <1>9, <1>13, <3>1, <3>3, <3>4
  <2>3. hub' = HubAt(k + 1)'
    BY <1>2, <1>3, <1>19, <2>1, <2>2 DEF HubAt
  <2>4. hub' # NoHub'
    <3>1. hub'.destination = nd /\ NoHub'.destination = -1
      BY <1>19, <2>1 DEF NoHub, Validator!NoHub, Validator!None
    <3> QED
      BY <1>9, <3>1
  <2>5. At(accepted)' = nd
    BY <1>7, <1>8, <1>10, <1>21, <1>24 DEF NextDestination
  <2>6. next_edge' = EdgesBefore(consumed', next_destination')
    BY <1>8, <2>1
  <2>7. /\ next_destination' < Len(consumed') /\ IsHub(consumed', next_destination')
        /\ next_destination' \in 0 .. Len(consumed')
    BY <1>1, <1>8, <1>22, <2>1
  <2>8. \E l \in Nat : /\ 0 < l /\ l < SliceCount(consumed'[next_destination' + 1])
                       /\ hub' = HubAt(l)'
                       /\ EdgeAt(accepted)' = next_edge' + l * EdgeSlice
    <3>1. SliceCount(consumed'[next_destination' + 1]) = SliceCount(count)
      BY <1>3, <2>1
    <3>2. EdgeAt(accepted)' = next_edge' + (k + 1) * EdgeSlice
      BY <1>21, <2>1, <2>2
    <3> QED
      BY <2>2, <2>3, <3>1, <3>2
  <2>9. Reading'
    BY <1>17, <1>21, <2>1, <2>4, <2>5, <2>6, <2>7, <2>8 DEF Reading
  <2> QED
    BY <1>14, <1>16, <2>9
<1> QED
  BY <1>23, <1>24

----------------------------------------------------------------------------
(* There is one canonical partition.                                       *)

LEMMA ShorterEndsBefore ==
  ASSUME NEW a \in Nat, NEW b \in Nat, NEW c \in Nat, NEW n \in Nat, NEW max \in Nat,
         b < c, a + c <= n, c <= max
  PROVE  /\ a + b \in a .. a + c - 1 /\ a + b < n /\ b < max
         /\ a + b \in 0 .. n - 1 /\ (a + b) + 1 \in 1 .. n /\ (a + b) + 1 <= a + c
         /\ a + c \in 0 .. n /\ (a + b) + 1 \in Nat
OBVIOUS

\* An ordinary task that is right is at least as long as any other that
\* starts there.
LEMMA NoneLonger ==
  ASSUME NEW counts \in Seq(Nat), NEW t \in TaskRecord, NEW u \in TaskRecord,
         RightOrdinary(counts, t), RightOrdinary(counts, u), t.a = u.a
  PROVE  u.b <= t.b
<1>1. /\ t.a \in Nat /\ t.b \in Nat /\ u.b \in Nat /\ t.edge_begin \in Nat
      /\ t.edge_count \in Nat /\ u.edge_begin \in Nat /\ u.edge_count \in Nat
  BY RecordTyped
<1> SUFFICES ASSUME t.b < u.b PROVE FALSE
  BY <1>1
<1>2. PICK n : n = Len(counts)
  OBVIOUS
<1>3. PICK end : end = t.a + t.b
  OBVIOUS
<1>4. PICK last : last = u.a + u.b
  OBVIOUS
<1>5. n \in Nat /\ MaxTaskVertices \in Nat /\ MaxTaskEdges \in Nat
  BY <1>2, TaskConfigAssumption
<1>6. /\ u.b <= MaxTaskVertices /\ last <= n
      /\ \A d \in u.a .. last - 1 : ~IsHub(counts, d)
      /\ u.edge_begin = EdgesBefore(counts, u.a)
      /\ u.edge_begin + u.edge_count = EdgesBefore(counts, last)
      /\ u.edge_count <= MaxTaskEdges
  <2>1. u.b \in 1 .. MaxTaskVertices
    BY DEF RightOrdinary
  <2> QED
    BY <1>2, <1>4, <1>5, <2>1 DEF RightOrdinary
<1>7. /\ t.edge_begin = EdgesBefore(counts, t.a)
      /\ t.edge_begin + t.edge_count = EdgesBefore(counts, end)
      /\ ~Fits(counts, end, t.b, t.edge_count)
  BY <1>3 DEF RightOrdinary
<1>8. /\ end \in u.a .. last - 1 /\ end < n /\ t.b < MaxTaskVertices
      /\ end \in 0 .. n - 1 /\ end + 1 \in 1 .. n /\ end + 1 <= last
      /\ last \in 0 .. n /\ end + 1 \in Nat
  <2>1. PICK a : a = t.a
    OBVIOUS
  <2>2. PICK b : b = t.b
    OBVIOUS
  <2>3. PICK c : c = u.b
    OBVIOUS
  <2>4. end = a + b /\ last = a + c /\ u.a = a
    BY <1>3, <1>4, <2>1, <2>2, <2>3
  <2>5. a \in Nat /\ b \in Nat /\ c \in Nat /\ b < c
    BY <1>1, <2>1, <2>2, <2>3
  <2>6. a + c <= n /\ c <= MaxTaskVertices
    BY <1>6, <2>3, <2>4
  <2>7. /\ a + b \in a .. a + c - 1 /\ a + b < n /\ b < MaxTaskVertices
        /\ a + b \in 0 .. n - 1 /\ (a + b) + 1 \in 1 .. n /\ (a + b) + 1 <= a + c
        /\ a + c \in 0 .. n /\ (a + b) + 1 \in Nat
    BY <1>5, <2>5, <2>6, ShorterEndsBefore
  <2> QED
    BY ONLY <2>2, <2>4, <2>7
<1>9. EdgesBefore(counts, end + 1) = EdgesBefore(counts, end) + counts[end + 1]
  BY <1>2, <1>8, EdgesBeforeUnfold
<1>10. EdgesBefore(counts, end + 1) <= EdgesBefore(counts, last)
  BY <1>2, <1>8, EdgesBeforeGrows
<1>11. PICK count : count = counts[end + 1]
  OBVIOUS
<1>12. t.edge_count + count <= MaxTaskEdges
  <2>1. PICK e : e = EdgesBefore(counts, end + 1)
    OBVIOUS
  <2>2. PICK f : f = EdgesBefore(counts, last)
    OBVIOUS
  <2>3. count \in Nat /\ e \in Nat /\ f \in Nat
    <3>1. end + 1 \in 0 .. n
      BY <1>5, <1>8
    <3> QED
      BY <1>2, <1>8, <1>11, <2>1, <2>2, <3>1, EdgesBeforeUnfold
  <2>4. /\ e = (t.edge_begin + t.edge_count) + count /\ e <= f
        /\ f = u.edge_begin + u.edge_count /\ t.edge_begin = u.edge_begin
    BY <1>6, <1>7, <1>9, <1>10, <1>11, <2>1, <2>2
  <2> QED
    BY <1>1, <1>5, <1>6, <2>3, <2>4
<1>13. Fits(counts, end, t.b, t.edge_count)
  BY <1>2, <1>6, <1>8, <1>11, <1>12 DEF Fits
<1> QED
  BY <1>7, <1>13

\* Where a task starts says which one it is.
LEMMA OneTask ==
  ASSUME NEW counts \in Seq(Nat), NEW t \in PlainRecord, NEW u \in PlainRecord,
         RightTask(counts, t), RightTask(counts, u),
         t.a = u.a, t.edge_begin = u.edge_begin
  PROVE  t = u
<1>1. t \in TaskRecord /\ u \in TaskRecord
  BY DEF PlainRecord
<1>2. /\ t.tag \in {"ordinary", "hub_slice"} /\ u.tag \in {"ordinary", "hub_slice"}
      /\ t.a \in Nat /\ t.b \in Nat /\ u.a \in Nat /\ u.b \in Nat
      /\ t.edge_begin \in Nat /\ t.edge_count \in Nat /\ u.edge_count \in Nat
  BY <1>1, RecordTyped
<1>3. t.b = u.b /\ t.c = u.c /\ t.edge_count = u.edge_count /\ t.tag = u.tag => t = u
  BY <1>1 DEF TaskRecord
<1>4. ASSUME NEW v \in TaskRecord, v.tag = "ordinary", RightTask(counts, v)
      PROVE  ~IsHub(counts, v.a) /\ RightOrdinary(counts, v)
  <2>1. RightOrdinary(counts, v)
    BY <1>4 DEF RightTask
  <2>2. v.b > 0 /\ v.b \in Nat /\ v.a \in Nat
    BY <2>1, RecordTyped DEF RightOrdinary
  <2>3. v.a \in v.a .. v.a + v.b - 1
    BY ONLY <2>2
  <2> QED
    BY <2>1, <2>3 DEF RightOrdinary
<1>5. CASE t.tag = "ordinary"
  <2>1. u.tag = "ordinary"
    <3>1. u.tag = "hub_slice" => IsHub(counts, u.a)
      BY DEF RightTask, RightSlice
    <3> QED
      BY <1>1, <1>2, <1>4, <1>5, <3>1
  <2>2. RightOrdinary(counts, t) /\ RightOrdinary(counts, u)
    BY <1>1, <1>4, <1>5, <2>1
  <2>3. t.b <= u.b /\ u.b <= t.b
    BY <1>1, <2>2, NoneLonger
  <2>4. t.b = u.b
    BY <1>2, <2>3
  <2>5. t.edge_begin + t.edge_count = t.edge_begin + u.edge_count
    BY <2>2, <2>4 DEF RightOrdinary
  <2>6. t.edge_count = u.edge_count
    BY ONLY <1>2, <2>5
  <2>7. t.c = u.c
    BY <1>5, <2>1 DEF PlainRecord
  <2> QED
    BY <1>3, <1>5, <2>1, <2>4, <2>6, <2>7
<1>6. CASE t.tag = "hub_slice"
  <2>1. RightSlice(counts, t)
    BY <1>6 DEF RightTask
  <2>2. u.tag = "hub_slice"
    BY <1>1, <1>2, <1>4, <2>1 DEF RightSlice
  <2>3. RightSlice(counts, u)
    BY <2>2 DEF RightTask
  <2>4. EdgesBefore(counts, t.a) + t.b * EdgeSlice = EdgesBefore(counts, t.a) + u.b * EdgeSlice
    BY <2>1, <2>3 DEF RightSlice
  <2>5. t.b * EdgeSlice = u.b * EdgeSlice
    <3>1. PICK e : e = EdgesBefore(counts, t.a)
      OBVIOUS
    <3>2. PICK m : m = t.b * EdgeSlice
      OBVIOUS
    <3>3. PICK l : l = u.b * EdgeSlice
      OBVIOUS
    <3>4. m \in Nat /\ l \in Nat
      BY <1>2, <3>2, <3>3, Multiples
    <3>5. t.a \in 0 .. Len(counts)
      <4>1. Len(counts) \in Nat /\ t.a < Len(counts)
        BY <2>1 DEF RightSlice
      <4> QED
        BY <1>2, <4>1
    <3>6. e \in Nat
      BY <3>1, <3>5, EdgesBeforeUnfold
    <3> QED
      BY <2>4, <3>1, <3>2, <3>3, <3>4, <3>6
  <2>6. t.b = u.b
    BY <1>2, <2>5, Multiples
  <2>7. t.c = u.c /\ t.edge_count = u.edge_count
    BY <2>1, <2>3, <2>6 DEF RightSlice
  <2> QED
    BY <1>3, <1>6, <2>2, <2>6, <2>7
<1> QED
  BY <1>2, <1>5, <1>6

LEMMA PrefixesAgree ==
  ASSUME NEW counts \in Seq(Nat), NEW ts \in Seq(PlainRecord), NEW us \in Seq(PlainRecord),
         IsCanonicalPrefix(counts, ts), IsCanonicalPrefix(counts, us),
         NEW i \in 1 .. Len(ts), i <= Len(us)
  PROVE  ts[i] = us[i]
<1> DEFINE S == {j \in Nat : /\ 1 <= j /\ j <= Len(ts) /\ j <= Len(us)
                             /\ ts[j] # us[j]}
<1> SUFFICES ASSUME ts[i] # us[i] PROVE FALSE
  OBVIOUS
<1>1. PICK k \in S : \A j \in S : k <= j
  <2>1. i \in Nat /\ 1 <= i /\ i <= Len(ts)
    OBVIOUS
  <2>2. i \in S /\ S \subseteq Nat
    BY <2>1
  <2>3. S # {}
    BY <2>2
  <2> HIDE DEF S
  <2> QED
    BY <2>2, <2>3, LeastNumber
<1>2. /\ k \in Nat /\ 1 <= k /\ k <= Len(ts) /\ k <= Len(us) /\ ts[k] # us[k]
      /\ k \in 1 .. Len(ts) /\ k \in 1 .. Len(us)
  BY <1>1
<1>3. /\ ts[k] \in PlainRecord /\ us[k] \in PlainRecord
      /\ RightTask(counts, ts[k]) /\ RightTask(counts, us[k])
  BY <1>2 DEF IsCanonicalPrefix
<1>4. ts[k].a = us[k].a /\ ts[k].edge_begin = us[k].edge_begin
  <2>1. CASE k = 1
    <3>1. ts # <<>> /\ us # <<>>
      BY <1>2, EmptySeq
    <3> QED
      BY <2>1, <3>1 DEF IsCanonicalPrefix
  <2>2. CASE k # 1
    <3>1. PICK j : j = k - 1
      OBVIOUS
    <3>2. /\ j \in Nat /\ 1 <= j /\ j < k /\ j + 1 = k
          /\ j \in 1 .. Len(ts) - 1 /\ j \in 1 .. Len(us) - 1
          /\ j <= Len(ts) /\ j <= Len(us)
      <4>1. Len(ts) \in Nat /\ Len(us) \in Nat
        OBVIOUS
      <4> QED
        BY <1>2, <2>2, <3>1, <4>1
    <3>3. ts[j] = us[j]
      BY <1>1, <3>2
    <3>4. Follows(ts[j], ts[k]) /\ Follows(us[j], us[k])
      BY <3>2 DEF IsCanonicalPrefix
    <3> QED
      BY <3>3, <3>4 DEF Follows
  <2> QED
    BY <2>1, <2>2
<1> QED
  BY <1>2, <1>3, <1>4, OneTask

LEMMA WholeIsLongest ==
  ASSUME NEW counts \in Seq(Nat), NEW ts \in Seq(PlainRecord), NEW us \in Seq(PlainRecord),
         IsCanonical(counts, ts), IsCanonicalPrefix(counts, us)
  PROVE  Len(us) <= Len(ts)
<1>1. PICK m : m = Len(ts)
  OBVIOUS
<1>2. Len(us) \in Nat /\ m \in Nat /\ IsCanonicalPrefix(counts, ts)
  BY <1>1 DEF IsCanonical
<1> SUFFICES ASSUME m < Len(us) PROVE FALSE
  BY <1>1, <1>2
<1>3. m + 1 \in 1 .. Len(us)
  BY <1>2
<1>4. PICK u : u = us[m + 1]
  OBVIOUS
<1>5. u \in TaskRecord /\ RightTask(counts, u)
  <2>1. u \in PlainRecord
    BY <1>3, <1>4
  <2> QED
    BY <1>3, <1>4, <2>1 DEF PlainRecord, IsCanonicalPrefix
<1>6. u.a # Len(counts)
  <2>1. u.a \in Nat /\ u.b \in Nat /\ Len(counts) \in Nat
    BY <1>5, RecordTyped
  <2>2. CASE RightOrdinary(counts, u)
    BY <2>1, <2>2 DEF RightOrdinary
  <2>3. CASE RightSlice(counts, u)
    BY <2>1, <2>3 DEF RightSlice
  <2> QED
    BY <1>5, <2>2, <2>3 DEF RightTask
<1>7. u.a = Len(counts)
  <2>1. CASE ts = <<>>
    <3>1. m = 0 /\ counts = <<>> /\ Len(counts) = 0 /\ us # <<>>
      BY <1>1, <1>2, <2>1, EmptySeq DEF IsCanonical
    <3> QED
      BY <1>4, <3>1 DEF IsCanonicalPrefix
  <2>2. CASE ts # <<>>
    <3>1. m > 0
      BY <1>1, <2>2, EmptySeq
    <3>2. m \in 1 .. Len(ts) /\ m <= Len(us) /\ m \in 1 .. Len(us) - 1
      BY <1>1, <1>2, <3>1
    <3>3. ts[m] = us[m]
      BY <1>2, <3>2, PrefixesAgree
    <3>4. Follows(us[m], us[m + 1])
      BY <3>2 DEF IsCanonicalPrefix
    <3>5. NextDestination(ts[m]) = Len(counts)
      BY <1>1, <2>2 DEF IsCanonical
    <3> QED
      BY <1>4, <3>3, <3>4, <3>5 DEF Follows
  <2> QED
    BY <2>1, <2>2
<1> QED
  BY <1>6, <1>7

\* The counts have one canonical partition.
LEMMA OnePartition ==
  ASSUME NEW counts \in Seq(Nat), NEW ts \in Seq(PlainRecord), NEW us \in Seq(PlainRecord),
         IsCanonical(counts, ts), IsCanonical(counts, us)
  PROVE  ts = us
<1>1. IsCanonicalPrefix(counts, ts) /\ IsCanonicalPrefix(counts, us)
  BY DEF IsCanonical
<1>2. Len(ts) \in Nat /\ Len(us) \in Nat /\ Len(us) <= Len(ts) /\ Len(ts) <= Len(us)
  BY <1>1, WholeIsLongest
<1>3. Len(ts) = Len(us)
  BY <1>2
<1>4. \A i \in 1 .. Len(ts) : ts[i] = us[i]
  BY <1>1, <1>2, <1>3, PrefixesAgree
<1>5. ts = [i \in 1 .. Len(ts) |-> ts[i]] /\ us = [i \in 1 .. Len(us) |-> us[i]]
  OBVIOUS
<1> QED
  BY <1>3, <1>4, <1>5

----------------------------------------------------------------------------
(* The graph that is written and opened again.                             *)

ValidatorInv ==
  /\ accepted \in Seq(Offers)
  /\ validator_state \in {"active", "finished", "failed"}
  /\ state # "finished" => Validator!Init
  /\ validator_state = "active" => Reading
  /\ validator_state = "finished" => IsCanonical(consumed, accepted)

StorageInv == BuilderInv /\ ValidatorInv

LEMMA StorageInitInv == StorageInit => StorageInv
<1> SUFFICES ASSUME StorageInit PROVE StorageInv
  OBVIOUS
<1>1. BuilderInv /\ Validator!Init
  BY BuilderInit DEF StorageInit
<1>2. consumed \in Seq(Nat)
  BY <1>1 DEF BuilderInv, BuilderTypes
<1> QED
  BY <1>1, <1>2, InitReads DEF StorageInv, ValidatorInv

LEMMA BuildKeeps ==
  ASSUME StorageInv, Build
  PROVE  StorageInv'
<1>1. /\ BuilderInv /\ ValidatorInv /\ Next /\ UNCHANGED validatorVars
  BY DEF StorageInv, Build
<1>2. BuilderInv'
  BY <1>1, BuilderStep
<1>3. state = "active"
  BY <1>1 DEF Next, Call, Emit, ConsumerFails, Absorb, Finish
<1>4. Validator!Init
  BY <1>1, <1>3 DEF ValidatorInv
<1>5. Validator!Init'
  BY <1>1, <1>4 DEF Validator!Init, validatorVars, Validator!None, Validator!NoHub
<1>6. consumed' \in Seq(Nat)
  BY <1>2 DEF BuilderInv, BuilderTypes
<1>7. Reading' /\ accepted' \in Seq(Offers) /\ validator_state' = "active"
  <2>1. (consumed \in Seq(Nat) /\ Validator!Init =>
          Reading /\ accepted \in Seq(Offers) /\ validator_state = "active")'
    BY InitReads, PTL
  <2> QED
    BY <1>5, <1>6, <2>1
<1> QED
  BY <1>2, <1>5, <1>7 DEF StorageInv, ValidatorInv

LEMMA OpenKeeps ==
  ASSUME StorageInv, Open
  PROVE  StorageInv'
<1>1. /\ BuilderInv /\ ValidatorInv /\ state = "finished" /\ Validator!Next
      /\ UNCHANGED vars /\ consumed' = consumed /\ state' = "finished"
  BY DEF StorageInv, Open, vars
<1>2. consumed \in Seq(Nat)
  BY <1>1 DEF BuilderInv, BuilderTypes
<1>3. BuilderInv'
  BY <1>1, BuilderStep
<1>4. /\ accepted \in Seq(Offers)
      /\ validator_state = "active" => Reading
  BY <1>1 DEF ValidatorInv
<1>5. ASSUME NEW t \in Offers, Validator!AcceptOrdinary(t) PROVE ValidatorInv'
  <2>1. validator_state = "active" /\ validator_state' = "active"
    BY <1>5 DEF Validator!AcceptOrdinary
  <2>2. Reading' /\ accepted' \in Seq(Offers)
    BY <1>1, <1>2, <1>4, <1>5, <2>1, AcceptOrdinaryReads
  <2> QED
    BY <1>1, <2>1, <2>2 DEF ValidatorInv
<1>6. ASSUME NEW t \in Offers, Validator!AcceptSlice(t) PROVE ValidatorInv'
  <2>1. validator_state = "active" /\ validator_state' = "active"
    BY <1>6 DEF Validator!AcceptSlice
  <2>2. Reading' /\ accepted' \in Seq(Offers)
    BY <1>1, <1>2, <1>4, <1>6, <2>1, AcceptSliceReads
  <2> QED
    BY <1>1, <2>1, <2>2 DEF ValidatorInv
<1>7. ASSUME Validator!Fail PROVE ValidatorInv'
  BY <1>1, <1>4, <1>7 DEF Validator!Fail, ValidatorInv
<1>8. ASSUME Validator!Finish PROVE ValidatorInv'
  <2>1. /\ validator_state = "active" /\ Validator!MayFinish
        /\ validator_state' = "finished" /\ accepted' = accepted
    BY <1>8 DEF Validator!Finish
  <2>2. IsCanonical(consumed, accepted)
    BY <1>2, <1>4, <2>1, MayFinishIff
  <2> QED
    BY <1>1, <1>4, <2>1, <2>2 DEF ValidatorInv, IsCanonical
<1>9. ValidatorInv'
  BY <1>1, <1>5, <1>6, <1>7, <1>8 DEF Validator!Next
<1> QED
  BY <1>3, <1>9 DEF StorageInv

LEMMA StorageStep ==
  ASSUME StorageInv, [StorageNext]_<<vars, validatorVars>>
  PROVE  StorageInv'
<1>1. CASE Build
  BY <1>1, BuildKeeps
<1>2. CASE Open
  BY <1>2, OpenKeeps
<1>3. CASE UNCHANGED <<vars, validatorVars>>
  <2>1. BuilderInv'
    BY <1>3, BuilderStep DEF StorageInv
  <2>2. Validator!Init => Validator!Init'
    BY <1>3 DEF Validator!Init, vars, validatorVars, Validator!None, Validator!NoHub
  <2>3. Reading => Reading'
    BY <1>3 DEF Reading, vars, validatorVars, NoHub, None, Validator!NoHub, Validator!None,
       HubAt, At, EdgeAt, IsCanonicalPrefix
  <2>4. ValidatorInv'
    BY <1>3, <2>2, <2>3 DEF StorageInv, ValidatorInv, vars, validatorVars, IsCanonical
  <2> QED
    BY <2>1, <2>4 DEF StorageInv
<1> QED
  BY <1>1, <1>2, <1>3 DEF StorageNext

LEMMA StorageInvariance == StorageSpec => []StorageInv
<1>1. StorageInit => StorageInv
  BY StorageInitInv
<1>2. StorageInv /\ [StorageNext]_<<vars, validatorVars>> => StorageInv'
  BY StorageStep
<1> QED
  BY <1>1, <1>2, PTL DEF StorageSpec

\* partitioner.cpp:89-99, 463-637: whatever task records the file holds, the
\* validator accepts those of the canonical partition and no others; a file
\* it accepts as a whole is the one the builder wrote.
LEMMA InvOpens ==
  ASSUME StorageInv
  PROVE  OpensWhatWasBuilt
<1> SUFFICES ASSUME state = "finished", Len(consumed) <= MaxDestinations
             PROVE  /\ Validator!AcceptsExactlyCanonical
                    /\ validator_state = "finished" => accepted = tasks
  BY DEF OpensWhatWasBuilt
<1>1. /\ consumed \in Seq(Nat) /\ tasks \in Seq(PlainRecord)
      /\ IsCanonical(consumed, tasks) /\ accepted \in Seq(Offers)
  BY DEF StorageInv, BuilderInv, BuilderTypes, ValidatorInv
<1>2. ASSUME validator_state = "active"
      PROVE  /\ \A t \in Offers :
                   Validator!Accepts(t) <=>
                     Validator!IsCanonicalPrefix(consumed, Append(accepted, t))
             /\ Validator!MayFinish <=> Validator!IsCanonical(consumed, accepted)
  <2>1. Reading
    BY <1>2 DEF StorageInv, ValidatorInv
  <2>2. ASSUME NEW t \in Offers
        PROVE  Validator!Accepts(t) <=> IsCanonicalPrefix(consumed, Append(accepted, t))
    <3>1. t \in TaskRecord /\ WellFormed(t)
      BY OffersAssumption
    <3>2. Validator!Accepts(t) <=> Continues(t)
      BY <1>1, <2>1, <3>1, AcceptsIff
    <3>3. IsCanonicalPrefix(consumed, Append(accepted, t)) <=> Continues(t)
      BY <1>1, <2>1, PrefixAppend DEF Reading, Continues
    <3> QED
      BY <3>2, <3>3
  <2>3. Validator!MayFinish <=> IsCanonical(consumed, accepted)
    BY <1>1, <2>1, MayFinishIff
  <2> QED
    BY <2>2, <2>3, SameLayout
<1>3. Validator!AcceptsExactlyCanonical
  BY <1>2 DEF Validator!AcceptsExactlyCanonical
<1>4. ASSUME validator_state = "finished" PROVE accepted = tasks
  <2>1. IsCanonical(consumed, accepted)
    BY <1>4 DEF StorageInv, ValidatorInv
  <2>2. \A t \in Offers : t \in PlainRecord
    BY OffersAssumption DEF PlainRecord, WellFormed
  <2>3. accepted \in Seq(PlainRecord)
    BY <1>1, <2>2
  <2> QED
    BY <1>1, <2>1, <2>3, OnePartition
<1> QED
  BY <1>3, <1>4

\* For every configuration, every sequence of counts and whatever the
\* consumer does: the builder emits the canonical partition, task by task.
\* That the counts may include a hub (EdgeSlice < MaxCount) is what makes
\* every unfinished partition one that some further count completes.
THEOREM BuilderEmitsThePartition ==
  ASSUME EdgeSlice < MaxCount
  PROVE  StorageSpec => []BuiltIsCanonical
<1>1. StorageInv => BuiltIsCanonical
  BY InvBuilds DEF StorageInv
<1> QED
  BY <1>1, StorageInvariance, PTL

\* For every set of records the file may hold: the validator accepts the
\* partition the builder wrote and nothing else.
THEOREM ValidatorOpensWhatWasBuilt == StorageSpec => []OpensWhatWasBuilt
<1>1. StorageInv => OpensWhatWasBuilt
  BY InvOpens
<1> QED
  BY <1>1, StorageInvariance, PTL
============================================================================
