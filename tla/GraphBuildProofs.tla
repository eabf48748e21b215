-------------------------- MODULE GraphBuildProofs --------------------------
(***************************************************************************)
(* For any input, fan-in, buffers and batches: wherever the phases stop,   *)
(* the input can be had from what is left (InputSurvives), and a graph     *)
(* that is published is that of the input (GraphIsOfTheInput); and until   *)
(* then no check refuses what they write (NothingIsRefused).               *)
(*                                                                         *)
(* The argument follows the phases.  While the identifiers are merged, the *)
(* records of each group are in its output before its inputs are retired   *)
(* (PassRuns, PassRetires), so that a complete set of runs holds every     *)
(* endpoint (IdInv).  What is read of the edges is in a run or in the      *)
(* chunk (Reading), so that the runs hold all of them before the raw file  *)
(* goes (CompactInv).  What the merge of these has handed out ascends, and *)
(* the sources, counts and degrees are those of it, whether or not the     *)
(* partitioner has just refused a call (Streams, Counting, Stages); at the *)
(* end it is every edge, once (BuildInv).                                  *)
(*                                                                         *)
(* Two lists that ascend and have the same members are the same, whence    *)
(* the equality with the reference, which sorts the input.                 *)
(*                                                                         *)
(* What is written is checked when it is read again.  The runs climb, and  *)
(* so does what a merge of them hands out (IdSorted, EdgeSorted,           *)
(* StreamSorted); a count is of edges with different sources, so that it   *)
(* is no more than the vertices, and the degrees add up to the edges that  *)
(* are taken (Accounts); and the partitioner has been given the counts     *)
(* that are written (Partitioned), so that what TaskStorageProofs shows of *)
(* it holds of the tasks of the graph.                                     *)
(***************************************************************************)
EXTENDS GraphBuild, FiniteSetTheorems, SequenceTheorems, TLAPS

\* The records of a run.
Within(run) == {run[i] : i \in DOMAIN run}

----------------------------------------------------------------------------
(* Sets in order.                                                          *)

\* A list has finitely many members, and as many as places if none is twice.
LEMMA MembersOfList ==
  ASSUME NEW s, NEW n \in Nat, DOMAIN s = 1 .. n
  PROVE  /\ IsFiniteSet(Within(s)) /\ Cardinality(Within(s)) \in Nat
         /\ (\A i, j \in 1 .. n : s[i] = s[j] => i = j) => Cardinality(Within(s)) = n
<1> DEFINE f == [i \in 1 .. n |-> s[i]]
<1>1. f \in Surjection(1 .. n, Within(s))
  BY DEF Surjection, Within
<1>2. IsFiniteSet(1 .. n) /\ Cardinality(1 .. n) = n
  BY FS_Interval
<1>3. IsFiniteSet(Within(s))
      /\ (Cardinality(Within(s)) = Cardinality(1 .. n) <=> f \in Injection(1 .. n, Within(s)))
  BY <1>1, <1>2, FS_Surjection
<1>4. Cardinality(Within(s)) \in Nat
  BY <1>3, FS_CardinalityType
<1>5. ASSUME \A i, j \in 1 .. n : s[i] = s[j] => i = j
      PROVE  f \in Injection(1 .. n, Within(s))
  BY <1>1, <1>5 DEF Injection, Surjection, IsInjective
<1> QED
  BY <1>2, <1>3, <1>4, <1>5

\* R orders S, strictly and as a line.
Orders(R, S) ==
  /\ \A x \in S : <<x, x>> \notin R
  /\ \A x, y, z \in S : <<x, y>> \in R /\ <<y, z>> \in R => <<x, z>> \in R
  /\ \A x, y \in S : x = y \/ <<x, y>> \in R \/ <<y, x>> \in R

Below(R, S, x) == {y \in S : <<y, x>> \in R}

LEMMA MoreBelow ==
  ASSUME NEW S, IsFiniteSet(S), NEW R, Orders(R, S),
         NEW x \in S, NEW y \in S, <<x, y>> \in R
  PROVE  Cardinality(Below(R, S, x)) < Cardinality(Below(R, S, y))
<1>1. Below(R, S, x) \subseteq Below(R, S, y) /\ x \in Below(R, S, y) /\ x \notin Below(R, S, x)
  BY DEF Orders, Below
<1>2. Below(R, S, y) \subseteq S
  BY DEF Below
<1>3. IsFiniteSet(Below(R, S, y))
  BY <1>2, FS_Subset
<1>4. /\ Cardinality(Below(R, S, x)) <= Cardinality(Below(R, S, y))
      /\ Cardinality(Below(R, S, y)) = Cardinality(Below(R, S, x)) =>
           Below(R, S, y) = Below(R, S, x)
      /\ IsFiniteSet(Below(R, S, x))
  BY <1>1, <1>3, FS_Subset
<1>5. Cardinality(Below(R, S, x)) \in Nat /\ Cardinality(Below(R, S, y)) \in Nat
  BY <1>3, <1>4, FS_CardinalityType
<1> QED
  BY <1>1, <1>4, <1>5

\* Each member has a rank of its own, and each rank has a member.
LEMMA RanksAreOnto ==
  ASSUME NEW S, IsFiniteSet(S), NEW R, Orders(R, S)
  PROVE  /\ Cardinality(S) \in Nat
         /\ \A x \in S : Cardinality(Below(R, S, x)) \in 0 .. Cardinality(S) - 1
         /\ \A n \in 0 .. Cardinality(S) - 1 : \E x \in S : Cardinality(Below(R, S, x)) = n
         /\ \A x, y \in S : Cardinality(Below(R, S, x)) = Cardinality(Below(R, S, y)) => x = y
<1> DEFINE rank == [x \in S |-> Cardinality(Below(R, S, x))]
           N == Cardinality(S)
<1>1. N \in Nat
  BY FS_CardinalityType
<1>2. ASSUME NEW x \in S PROVE Cardinality(Below(R, S, x)) \in 0 .. N - 1
  <2>1. Below(R, S, x) \subseteq S \ {x}
    BY DEF Orders, Below
  <2>2. IsFiniteSet(S \ {x}) /\ Cardinality(S \ {x}) = N - 1
    BY FS_RemoveElement
  <2>3. IsFiniteSet(Below(R, S, x)) /\ Cardinality(Below(R, S, x)) <= N - 1
    BY <2>1, <2>2, FS_Subset
  <2>4. Cardinality(Below(R, S, x)) \in Nat
    BY <2>3, FS_CardinalityType
  <2> QED
    BY <1>1, <2>3, <2>4
<1>3. ASSUME NEW x \in S, NEW y \in S,
             Cardinality(Below(R, S, x)) = Cardinality(Below(R, S, y))
      PROVE  x = y
  <2>1. Cardinality(Below(R, S, x)) \in Nat /\ Cardinality(Below(R, S, y)) \in Nat
    BY <1>1, <1>2
  <2>2. <<x, y>> \notin R /\ <<y, x>> \notin R
    BY <1>3, <2>1, MoreBelow
  <2> QED
    BY <2>2 DEF Orders
<1>4. rank \in Injection(S, 0 .. N - 1)
  BY <1>2, <1>3 DEF Injection, IsInjective
<1>5. IsFiniteSet(0 .. N - 1) /\ Cardinality(0 .. N - 1) = N
  BY <1>1, FS_Interval
<1>6. rank \in Surjection(S, 0 .. N - 1)
  BY <1>4, <1>5, FS_Injection
<1>7. ASSUME NEW n \in 0 .. N - 1 PROVE \E x \in S : Cardinality(Below(R, S, x)) = n
  BY <1>6 DEF Surjection
<1> QED
  BY <1>1, <1>2, <1>3, <1>7

LEMMA FewerBelow ==
  ASSUME NEW S, IsFiniteSet(S), NEW R, Orders(R, S), NEW x \in S, NEW y \in S,
         Cardinality(Below(R, S, x)) < Cardinality(Below(R, S, y))
  PROVE  <<x, y>> \in R
<1>1. /\ Cardinality(Below(R, S, x)) \in Nat /\ Cardinality(Below(R, S, y)) \in Nat
  BY FS_Subset, FS_CardinalityType DEF Below
<1>2. x # y
  BY <1>1
<1>3. <<y, x>> \notin R
  <2>1. ASSUME <<y, x>> \in R PROVE FALSE
    <3>1. Cardinality(Below(R, S, y)) < Cardinality(Below(R, S, x))
      BY <2>1, MoreBelow
    <3> QED
      BY <1>1, <3>1
  <2> QED
    BY <2>1
<1> QED
  BY <1>2, <1>3 DEF Orders

\* In a list that ascends, each member has as many below it as come before it.
LEMMA AscendingRanks ==
  ASSUME NEW S, NEW s \in Seq(S), NEW R, Orders(R, S), Within(s) = S,
         \A i, j \in 1 .. Len(s) : i < j => <<s[i], s[j]>> \in R
  PROVE  /\ IsFiniteSet(S) /\ Cardinality(S) = Len(s)
         /\ \A i \in 1 .. Len(s) : Cardinality(Below(R, S, s[i])) = i - 1
<1>1. DOMAIN s = 1 .. Len(s) /\ Len(s) \in Nat /\ \A i \in 1 .. Len(s) : s[i] \in S
  OBVIOUS
<1>2. ASSUME NEW i \in 1 .. Len(s), NEW j \in 1 .. Len(s), s[i] = s[j] PROVE i = j
  <2>1. <<s[i], s[i]>> \notin R
    BY <1>1 DEF Orders
  <2>2. ~(i < j) /\ ~(j < i)
    BY <1>2, <2>1
  <2> QED
    BY <1>1, <2>2
<1>3. IsFiniteSet(S) /\ Cardinality(S) = Len(s)
  BY <1>1, <1>2, MembersOfList
<1>4. ASSUME NEW i \in 1 .. Len(s) PROVE Cardinality(Below(R, S, s[i])) = i - 1
  <2> DEFINE t == [j \in 1 .. i - 1 |-> s[j]]
  <2>1. i - 1 \in Nat /\ DOMAIN t = 1 .. i - 1 /\ \A j \in 1 .. i - 1 : j \in 1 .. Len(s)
    BY <1>1
  <2>2. \A j, k \in 1 .. i - 1 : t[j] = t[k] => j = k
    BY <1>2, <2>1
  <2>3. Within(t) = Below(R, S, s[i])
    <3>1. ASSUME NEW y \in Within(t) PROVE y \in Below(R, S, s[i])
      <4>1. PICK j \in 1 .. i - 1 : y = s[j]
        BY DEF Within
      <4>2. j \in 1 .. Len(s) /\ j < i
        BY <1>1, <4>1
      <4> QED
        BY <1>1, <4>1, <4>2 DEF Below
    <3>2. ASSUME NEW y \in Below(R, S, s[i]) PROVE y \in Within(t)
      <4>1. PICK j \in 1 .. Len(s) : y = s[j] /\ <<s[j], s[i]>> \in R
        BY <1>1 DEF Within, Below
      <4>2. j < i
        <5>1. j # i
          BY <1>1, <4>1 DEF Orders
        <5>2. i < j => <<s[i], s[j]>> \in R
          OBVIOUS
        <5>3. ~(i < j)
          BY <1>1, <4>1, <5>2 DEF Orders
        <5> QED
          BY <5>1, <5>3
      <4>3. j \in 1 .. i - 1
        BY <4>2
      <4> QED
        BY <4>1, <4>3 DEF Within
    <3> QED
      BY <3>1, <3>2
  <2> HIDE DEF t
  <2> QED
    BY <2>1, <2>2, <2>3, MembersOfList
<1> QED
  BY <1>3, <1>4

----------------------------------------------------------------------------
(* The two orders.                                                         *)

Lesser(S)   == {p \in S \X S : p[1] < p[2]}
Preceding(S) == {p \in S \X S : EdgeBefore(p[1], p[2])}

LEMMA IntegersOrdered ==
  ASSUME NEW S, S \subseteq Int
  PROVE  /\ Orders(Lesser(S), S)
         /\ \A x \in S : Below(Lesser(S), S, x) = {y \in S : y < x}
<1>1. \A x, y \in S : <<x, y>> \in Lesser(S) <=> x < y
  BY DEF Lesser
<1>2. \A x \in S : x \in Int
  OBVIOUS
<1> QED
  <2>1. Orders(Lesser(S), S)
    BY <1>1, <1>2 DEF Orders
  <2>2. ASSUME NEW x \in S PROVE Below(Lesser(S), S, x) = {y \in S : y < x}
    BY <1>1 DEF Below
  <2> QED
    BY <2>1, <2>2

LEMMA EdgesOrdered ==
  ASSUME NEW S, S \subseteq Int \X Int
  PROVE  /\ Orders(Preceding(S), S)
         /\ \A x \in S : Below(Preceding(S), S, x) = {y \in S : EdgeBefore(y, x)}
<1>1. \A x, y \in S : <<x, y>> \in Preceding(S) <=> EdgeBefore(x, y)
  BY DEF Preceding
<1>2. \A x \in S : x[1] \in Int /\ x[2] \in Int /\ x = <<x[1], x[2]>>
  OBVIOUS
<1>3. \A x \in S : ~EdgeBefore(x, x)
  BY <1>2 DEF EdgeBefore
<1>4. \A x, y, z \in S : EdgeBefore(x, y) /\ EdgeBefore(y, z) => EdgeBefore(x, z)
  BY <1>2 DEF EdgeBefore
<1>5. \A x, y \in S : x = y \/ EdgeBefore(x, y) \/ EdgeBefore(y, x)
  BY <1>2 DEF EdgeBefore
<1> QED
  BY <1>1, <1>3, <1>4, <1>5 DEF Orders, Below

\* InOrder has each member once.
LEMMA IntegersInOrder ==
  ASSUME NEW S, S \subseteq Int, IsFiniteSet(S)
  PROVE  /\ InOrder(S, <) \in Seq(S) /\ Len(InOrder(S, <)) = Cardinality(S)
         /\ Cardinality(S) \in Nat /\ Within(InOrder(S, <)) = S
         /\ \A i, j \in 1 .. Cardinality(S) :
              i < j => InOrder(S, <)[i] < InOrder(S, <)[j]
<1> DEFINE N == Cardinality(S)
           s == InOrder(S, <)
           rank(x) == Cardinality({y \in S : y < x})
<1>1. /\ N \in Nat
      /\ \A x \in S : rank(x) \in 0 .. N - 1
      /\ \A n \in 0 .. N - 1 : \E x \in S : rank(x) = n
      /\ \A x, y \in S : rank(x) = rank(y) => x = y
      /\ \A x, y \in S : rank(x) < rank(y) => x < y
  <2>1. PICK R : R = Lesser(S)
    OBVIOUS
  <2>2. Orders(R, S) /\ \A x \in S : rank(x) = Cardinality(Below(R, S, x))
    <3>1. Orders(R, S)
      BY <2>1, IntegersOrdered
    <3>2. ASSUME NEW x \in S PROVE rank(x) = Cardinality(Below(R, S, x))
      BY <2>1, IntegersOrdered
    <3> HIDE DEF rank
    <3> QED
      BY <3>1, <3>2
  <2> HIDE DEF rank
  <2>3. /\ \A x \in S : Cardinality(Below(R, S, x)) \in 0 .. N - 1
        /\ \A n \in 0 .. N - 1 : \E x \in S : Cardinality(Below(R, S, x)) = n
        /\ \A x, y \in S : Cardinality(Below(R, S, x)) = Cardinality(Below(R, S, y)) => x = y
        /\ N \in Nat
    <3>1. IsFiniteSet(S) /\ Orders(R, S)
      BY <2>2
    <3> QED
      BY ONLY <3>1, RanksAreOnto
  <2>4. ASSUME NEW x \in S, NEW y \in S, rank(x) < rank(y) PROVE x < y
    <3>1. <<x, y>> \in R
      BY <2>2, <2>4, FewerBelow
    <3> QED
      BY <2>1, <3>1 DEF Lesser
  <2> QED
    BY <2>2, <2>3, <2>4
<1>2. s = [n \in 1 .. N |-> CHOOSE x \in S : rank(x) = n - 1]
  BY DEF InOrder
<1> HIDE DEF s, rank, N
<1>3. \A n \in 1 .. N : s[n] \in S /\ rank(s[n]) = n - 1
  <2>1. \A n \in 1 .. N : \E x \in S : rank(x) = n - 1
    BY <1>1
  <2> QED
    BY <1>2, <2>1
<1>4. s = [n \in 1 .. N |-> s[n]] /\ DOMAIN s = 1 .. N
  BY <1>2
<1>5. s \in Seq(S) /\ Len(s) = N
  BY <1>1, <1>3, <1>4, IsASeq
<1>6. ASSUME NEW x \in S PROVE \E n \in 1 .. N : s[n] = x
  <2>1. rank(x) \in 0 .. N - 1 /\ N \in Nat
    BY <1>1
  <2> QED
    <3>1. PICK n : n = rank(x) + 1
      OBVIOUS
    <3>2. n \in 1 .. N /\ n - 1 = rank(x)
      BY <2>1, <3>1
    <3>3. rank(s[n]) = n - 1 /\ s[n] \in S
      BY <1>3, <3>2
    <3> QED
      BY <1>1, <3>2, <3>3
<1>7. Within(s) = S
  BY <1>3, <1>4, <1>6 DEF Within
<1>8. ASSUME NEW i \in 1 .. N, NEW j \in 1 .. N, i < j PROVE s[i] < s[j]
  <2> HIDE DEF rank, s, N
  <2>1. PICK x, y : x = s[i] /\ y = s[j]
    OBVIOUS
  <2>2. x \in S /\ rank(x) = i - 1 /\ y \in S /\ rank(y) = j - 1
    BY <1>3, <2>1
  <2>3. i - 1 < j - 1
    BY <1>1, <1>8
  <2>4. x < y
    BY <1>1, <2>2, <2>3
  <2> QED
    BY <2>1, <2>4
<1> QED
  BY <1>1, <1>5, <1>7, <1>8 DEF s, N

LEMMA EdgesInOrder ==
  ASSUME NEW S, S \subseteq Int \X Int, IsFiniteSet(S)
  PROVE  /\ InOrder(S, EdgeBefore) \in Seq(S) /\ Len(InOrder(S, EdgeBefore)) = Cardinality(S)
         /\ Cardinality(S) \in Nat /\ Within(InOrder(S, EdgeBefore)) = S
         /\ \A i, j \in 1 .. Cardinality(S) :
              i < j => EdgeBefore(InOrder(S, EdgeBefore)[i], InOrder(S, EdgeBefore)[j])
<1> DEFINE N == Cardinality(S)
           s == InOrder(S, EdgeBefore)
           rank(x) == Cardinality({y \in S : EdgeBefore(y, x)})
<1>1. /\ N \in Nat
      /\ \A x \in S : rank(x) \in 0 .. N - 1
      /\ \A n \in 0 .. N - 1 : \E x \in S : rank(x) = n
      /\ \A x, y \in S : rank(x) = rank(y) => x = y
      /\ \A x, y \in S : rank(x) < rank(y) => EdgeBefore(x, y)
  <2>1. PICK R : R = Preceding(S)
    OBVIOUS
  <2>2. Orders(R, S) /\ \A x \in S : rank(x) = Cardinality(Below(R, S, x))
    <3>1. Orders(R, S)
      BY <2>1, EdgesOrdered
    <3>2. ASSUME NEW x \in S PROVE rank(x) = Cardinality(Below(R, S, x))
      BY <2>1, EdgesOrdered
    <3> HIDE DEF rank
    <3> QED
      BY <3>1, <3>2
  <2> HIDE DEF rank
  <2>3. /\ \A x \in S : Cardinality(Below(R, S, x)) \in 0 .. N - 1
        /\ \A n \in 0 .. N - 1 : \E x \in S : Cardinality(Below(R, S, x)) = n
        /\ \A x, y \in S : Cardinality(Below(R, S, x)) = Cardinality(Below(R, S, y)) => x = y
        /\ N \in Nat
    <3>1. IsFiniteSet(S) /\ Orders(R, S)
      BY <2>2
    <3> QED
      BY ONLY <3>1, RanksAreOnto
  <2>4. ASSUME NEW x \in S, NEW y \in S, rank(x) < rank(y) PROVE EdgeBefore(x, y)
    <3>1. <<x, y>> \in R
      BY <2>2, <2>4, FewerBelow
    <3> QED
      BY <2>1, <3>1 DEF Preceding
  <2> QED
    BY <2>2, <2>3, <2>4
<1>2. s = [n \in 1 .. N |-> CHOOSE x \in S : rank(x) = n - 1]
  BY DEF InOrder
<1> HIDE DEF s, rank, N
<1>3. \A n \in 1 .. N : s[n] \in S /\ rank(s[n]) = n - 1
  <2>1. \A n \in 1 .. N : \E x \in S : rank(x) = n - 1
    BY <1>1
  <2> QED
    BY <1>2, <2>1
<1>4. s = [n \in 1 .. N |-> s[n]] /\ DOMAIN s = 1 .. N
  BY <1>2
<1>5. s \in Seq(S) /\ Len(s) = N
  BY <1>1, <1>3, <1>4, IsASeq
<1>6. ASSUME NEW x \in S PROVE \E n \in 1 .. N : s[n] = x
  <2>1. rank(x) \in 0 .. N - 1 /\ N \in Nat
    BY <1>1
  <2> QED
    <3>1. PICK n : n = rank(x) + 1
      OBVIOUS
    <3>2. n \in 1 .. N /\ n - 1 = rank(x)
      BY <2>1, <3>1
    <3>3. rank(s[n]) = n - 1 /\ s[n] \in S
      BY <1>3, <3>2
    <3> QED
      BY <1>1, <3>2, <3>3
<1>7. Within(s) = S
  BY <1>3, <1>4, <1>6 DEF Within
<1>8. ASSUME NEW i \in 1 .. N, NEW j \in 1 .. N, i < j PROVE EdgeBefore(s[i], s[j])
  <2>1. i - 1 < j - 1
    BY <1>1, <1>8
  <2> QED
    BY <1>1, <1>3, <2>1
<1> QED
  BY <1>1, <1>5, <1>7, <1>8 DEF s, N

\* A list that ascends is its members in order.
LEMMA AscendingInOrder ==
  ASSUME NEW S, S \subseteq Int, NEW s \in Seq(S), Within(s) = S,
         \A i, j \in 1 .. Len(s) : i < j => s[i] < s[j]
  PROVE  /\ IsFiniteSet(S) /\ Cardinality(S) = Len(s)
         /\ s = InOrder(S, <)
         /\ \A i \in 1 .. Len(s) : Cardinality({y \in S : y < s[i]}) = i - 1
<1> DEFINE rank(x) == Cardinality({y \in S : y < x})
<1>1. \A i \in 1 .. Len(s) : s[i] \in S
  OBVIOUS
<1>2. PICK R : R = Lesser(S)
  OBVIOUS
<1>3. /\ Orders(R, S) /\ \A x \in S : rank(x) = Cardinality(Below(R, S, x))
      /\ \A i, j \in 1 .. Len(s) : i < j => <<s[i], s[j]>> \in R
  <2>1. Orders(R, S) /\ \A x \in S : rank(x) = Cardinality(Below(R, S, x))
    <3>1. Orders(R, S)
      BY <1>2, IntegersOrdered
    <3>2. ASSUME NEW x \in S PROVE rank(x) = Cardinality(Below(R, S, x))
      BY <1>2, IntegersOrdered
    <3> HIDE DEF rank
    <3> QED
      BY <3>1, <3>2
  <2> QED
    BY <1>1, <1>2, <2>1 DEF Lesser
<1> HIDE DEF rank
<1>4. /\ IsFiniteSet(S) /\ Cardinality(S) = Len(s)
      /\ \A i \in 1 .. Len(s) : rank(s[i]) = i - 1
  <2>1. /\ IsFiniteSet(S) /\ Cardinality(S) = Len(s)
        /\ \A i \in 1 .. Len(s) : Cardinality(Below(R, S, s[i])) = i - 1
    BY <1>3, AscendingRanks
  <2> QED
    BY <1>1, <1>3, <2>1
<1>5. \A x, y \in S : rank(x) = rank(y) => x = y
  BY <1>3, <1>4, RanksAreOnto
<1>6. InOrder(S, <) = [n \in 1 .. Len(s) |-> CHOOSE x \in S : rank(x) = n - 1]
  BY <1>4 DEF InOrder, rank
<1>7. \A n \in 1 .. Len(s) : s[n] = CHOOSE x \in S : rank(x) = n - 1
  BY <1>1, <1>4, <1>5
<1>8. s = [n \in 1 .. Len(s) |-> s[n]]
  OBVIOUS
<1>9. s = InOrder(S, <)
  BY <1>6, <1>7, <1>8
<1> QED
  BY <1>4, <1>9 DEF rank

IdLemmas == INSTANCE RunMergeProofs WITH
  Before <- IdBefore, BufferRecords <- IdBufferRecords
EdgeLemmas == INSTANCE RunMergeProofs WITH
  Before <- EdgeBefore, BufferRecords <- EdgeBufferRecords

----------------------------------------------------------------------------
(* The edges before a destination.                                         *)

\* f gives the number of edges before every destination up to n.
CountsEdges(f, counts, n) ==
  /\ f \in [0 .. n -> Nat]
  /\ f[0] = 0
  /\ \A i \in 1 .. n : f[i] = f[i - 1] + counts[i]

LEMMA EdgeCountsExist ==
  ASSUME NEW counts \in Seq(Nat), NEW n \in 0 .. Len(counts)
  PROVE  \E f : CountsEdges(f, counts, n)
<1> DEFINE S == {j \in Nat : j <= Len(counts) /\ ~\E f : CountsEdges(f, counts, j)}
<1> SUFFICES ASSUME S # {} PROVE FALSE
  OBVIOUS
<1>1. PICK k \in S : \A j \in S : k <= j
  BY IdLemmas!LeastNumber
<1>2. k # 0
  <2> DEFINE f == [i \in 0 .. 0 |-> 0]
  <2>1. CountsEdges(f, counts, 0)
    BY DEF CountsEdges
  <2> QED
    BY <1>1, <2>1
<1>3. k - 1 \in Nat /\ k - 1 < k /\ k <= Len(counts)
  BY <1>2
<1>4. PICK f : CountsEdges(f, counts, k - 1)
  <2>1. k - 1 \notin S /\ Len(counts) \in Nat
    BY SMTT(30), <1>1, <1>3
  <2>2. k - 1 <= Len(counts)
    BY <1>3, <2>1
  <2> QED
    BY <1>3, <2>1, <2>2
<1> DEFINE h == [i \in 0 .. k |-> IF i = k THEN f[k - 1] + counts[k] ELSE f[i]]
<1>5. f[k - 1] \in Nat /\ counts[k] \in Nat
  BY <1>2, <1>3, <1>4 DEF CountsEdges
<1>6. h \in [0 .. k -> Nat]
  <2>1. f[k - 1] + counts[k] \in Nat
    BY <1>5
  <2>2. \A i \in 0 .. k : i # k => f[i] \in Nat
    BY <1>3, <1>4 DEF CountsEdges
  <2> QED
    BY <2>1, <2>2
<1>7. h[0] = 0
  BY <1>2, <1>4 DEF CountsEdges
<1>8. ASSUME NEW i \in 1 .. k PROVE h[i] = h[i - 1] + counts[i]
  <2>1. CASE i = k
    BY <1>3, <2>1
  <2>2. CASE i # k
    BY <1>3, <1>4, <2>2 DEF CountsEdges
  <2> QED
    BY <2>1, <2>2
<1>9. CountsEdges(h, counts, k)
  BY <1>6, <1>7, <1>8 DEF CountsEdges
<1> QED
  BY <1>9

\* EdgesBefore is the sum of the counts below.
LEMMA EdgesBeforeUnfold ==
  ASSUME NEW counts \in Seq(Nat)
  PROVE  /\ EdgesBefore(counts, 0) = 0
         /\ \A d \in 0 .. Len(counts) : EdgesBefore(counts, d) \in Nat
         /\ \A d \in 0 .. Len(counts) - 1 :
              EdgesBefore(counts, d + 1) = EdgesBefore(counts, d) + counts[d + 1]
<1> DEFINE D(f) == [i \in 0 .. Len(counts) |->
                      IF i = 0 THEN 0 ELSE f[i - 1] + counts[i]]
           before == CHOOSE f : f = D(f)
<1>1. PICK g : CountsEdges(g, counts, Len(counts))
  BY EdgeCountsExist
<1>2. g = D(g)
  BY <1>1 DEF CountsEdges
<1>3. before = D(before)
  BY <1>2
<1>4. \A d : EdgesBefore(counts, d) = before[d]
  BY DEF EdgesBefore
<1> HIDE DEF before
<1>5. /\ before[0] = 0
      /\ \A i \in 1 .. Len(counts) : before[i] = before[i - 1] + counts[i]
  <2>1. \A i \in 0 .. Len(counts) :
          before[i] = IF i = 0 THEN 0 ELSE before[i - 1] + counts[i]
    BY <1>3, Zenon
  <2>2. 0 \in 0 .. Len(counts) /\ \A i \in 1 .. Len(counts) : i \in 0 .. Len(counts) /\ i # 0
    OBVIOUS
  <2> QED
    BY <2>1, <2>2, Zenon
<1>6. \A d \in 0 .. Len(counts) : before[d] \in Nat
  <2> DEFINE S == {j \in Nat : j <= Len(counts) /\ before[j] \notin Nat}
  <2> SUFFICES ASSUME S # {} PROVE FALSE
    OBVIOUS
  <2>1. PICK k \in S : \A j \in S : k <= j
    BY IdLemmas!LeastNumber
  <2>2. k # 0
    BY <1>5, <2>1
  <2>3. k - 1 \in Nat /\ k - 1 < k /\ k <= Len(counts) /\ k \in 1 .. Len(counts)
    BY <2>2
  <2>4. before[k - 1] \in Nat
    BY <2>1, <2>3
  <2>5. counts[k] \in Nat
    BY <2>3
  <2> QED
    BY <1>5, <2>1, <2>3, <2>4, <2>5
<1>7. ASSUME NEW d \in 0 .. Len(counts) - 1
      PROVE  before[d + 1] = before[d] + counts[d + 1]
  <2>1. d + 1 \in 1 .. Len(counts) /\ (d + 1) - 1 = d
    OBVIOUS
  <2> QED
    BY <1>5, <2>1
<1> QED
  BY <1>4, <1>5, <1>6, <1>7

LEMMA EdgesBeforeAppend ==
  ASSUME NEW counts \in Seq(Nat), NEW count \in Nat, NEW d \in 0 .. Len(counts)
  PROVE  EdgesBefore(Append(counts, count), d) = EdgesBefore(counts, d)
<1> DEFINE longer == Append(counts, count)
           S == {j \in Nat : /\ j <= Len(counts)
                             /\ EdgesBefore(longer, j) # EdgesBefore(counts, j)}
<1>1. /\ longer \in Seq(Nat) /\ Len(longer) = Len(counts) + 1 /\ Len(counts) \in Nat
      /\ \A i \in 1 .. Len(counts) : longer[i] = counts[i]
      /\ longer[Len(counts) + 1] = count
  BY AppendProperties
<1> HIDE DEF longer
<1> SUFFICES ASSUME S # {} PROVE FALSE
  BY DEF longer
<1>2. PICK k \in S : \A j \in S : k <= j
  BY IdLemmas!LeastNumber
<1>3. k # 0
  BY <1>1, <1>2, EdgesBeforeUnfold
<1>4. k - 1 \in Nat /\ k - 1 < k /\ k <= Len(counts) /\ (k - 1) + 1 = k
      /\ k - 1 \in 0 .. Len(counts) - 1 /\ k - 1 \in 0 .. Len(longer) - 1
      /\ k \in 1 .. Len(counts)
  BY <1>1, <1>3
<1>5. EdgesBefore(longer, k - 1) = EdgesBefore(counts, k - 1)
  BY <1>2, <1>4
<1>6. EdgesBefore(longer, (k - 1) + 1) = EdgesBefore(longer, k - 1) + longer[(k - 1) + 1]
  BY <1>1, <1>4, EdgesBeforeUnfold
<1>7. EdgesBefore(counts, (k - 1) + 1) = EdgesBefore(counts, k - 1) + counts[(k - 1) + 1]
  BY <1>4, EdgesBeforeUnfold
<1>8. longer[k] = counts[k]
  BY <1>1, <1>4
<1> QED
  BY <1>2, <1>4, <1>5, <1>6, <1>7, <1>8

\* What a count adds.
LEMMA CountsAppend ==
  ASSUME NEW counts \in Seq(Nat), NEW c \in Nat
  PROVE  /\ \A d \in 0 .. Len(counts) :
              EdgesBefore(Append(counts, c), d) = EdgesBefore(counts, d)
         /\ EdgesBefore(Append(counts, c), Len(counts) + 1)
              = EdgesBefore(counts, Len(counts)) + c
         /\ Append(counts, c) \in Seq(Nat) /\ Len(Append(counts, c)) = Len(counts) + 1
<1> DEFINE longer == Append(counts, c)
<1>1. /\ longer \in Seq(Nat) /\ Len(longer) = Len(counts) + 1 /\ Len(counts) \in Nat
      /\ longer[Len(counts) + 1] = c
  BY AppendProperties
<1>2. \A d \in 0 .. Len(counts) : EdgesBefore(longer, d) = EdgesBefore(counts, d)
  BY EdgesBeforeAppend
<1> HIDE DEF longer
<1>3. Len(counts) \in 0 .. Len(longer) - 1 /\ Len(counts) \in 0 .. Len(counts)
  BY <1>1
<1>4. EdgesBefore(longer, Len(counts) + 1) = EdgesBefore(longer, Len(counts)) + c
  BY <1>1, <1>3, EdgesBeforeUnfold
<1> QED
  BY <1>1, <1>2, <1>3, <1>4 DEF longer

----------------------------------------------------------------------------
(* What is proved of the merge of runs is true of each of the two.         *)

LEMMA IdsSift ==
  ASSUME NEW heap, NEW p
  PROVE  /\ IdLemmas!SiftUp(heap, p) = Ids!SiftUp(heap, p)
         /\ IdLemmas!SiftDown(heap, p) = Ids!SiftDown(heap, p)
<1>1. IdLemmas!SiftUp(heap, p) = Ids!SiftUp(heap, p)
  BY DEF IdLemmas!SiftUp, Ids!SiftUp, IdLemmas!Sifted, Ids!Sifted,
   IdLemmas!Swapped, Ids!Swapped, IdLemmas!Up, Ids!Up, IdLemmas!parent,
   Ids!parent, IdLemmas!less, Ids!less
<1>2. IdLemmas!SiftDown(heap, p) = Ids!SiftDown(heap, p)
  BY DEF IdLemmas!SiftDown, Ids!SiftDown, IdLemmas!Sifted, Ids!Sifted,
   IdLemmas!Swapped, Ids!Swapped, IdLemmas!Down, Ids!Down,
   IdLemmas!selected, Ids!selected, IdLemmas!less, Ids!less
<1> QED
  BY <1>1, <1>2

LEMMA IdsCursors ==
  ASSUME NEW run, NEW c
  PROVE  /\ IdLemmas!Advanced(run, c) = Ids!Advanced(run, c)
         /\ IdLemmas!NextRecord(run, c) = Ids!NextRecord(run, c)
         /\ IdLemmas!HasNext(run, c) = Ids!HasNext(run, c)
         /\ IdLemmas!NewCursor = Ids!NewCursor
BY DEF IdLemmas!Advanced, Ids!Advanced, IdLemmas!NextRecord, Ids!NextRecord,
   IdLemmas!HasNext, Ids!HasNext, IdLemmas!NewCursor, Ids!NewCursor,
   IdLemmas!Refilled, Ids!Refilled, IdLemmas!Least, Ids!Least

LEMMA IdsHeap ==
  ASSUME NEW heap, NEW node
  PROVE  /\ IdLemmas!Push(heap, node) = Ids!Push(heap, node)
         /\ IdLemmas!Popped(heap) = Ids!Popped(heap)
<1>1. IdLemmas!SiftUp(Append(heap, node), Len(heap)) = Ids!SiftUp(Append(heap, node), Len(heap))
  BY IdsSift
<1>2. PICK moved : moved = [SubSeq(heap, 1, Len(heap) - 1) EXCEPT ![1] = heap[Len(heap)]]
  OBVIOUS
<1>3. IdLemmas!SiftDown(moved, 0) = Ids!SiftDown(moved, 0)
  BY IdsSift
<1> QED
  BY <1>1, <1>2, <1>3 DEF IdLemmas!Push, Ids!Push, IdLemmas!Popped, Ids!Popped

LEMMA IdsPrimed ==
  ASSUME NEW runs
  PROVE  IdLemmas!Primed(runs) = Ids!Primed(runs)
BY DEF IdLemmas!Primed, Ids!Primed, IdLemmas!Push, Ids!Push,
   IdLemmas!SiftUp, Ids!SiftUp, IdLemmas!Sifted, Ids!Sifted,
   IdLemmas!Swapped, Ids!Swapped, IdLemmas!Up, Ids!Up, IdLemmas!parent,
   Ids!parent, IdLemmas!less, Ids!less, IdLemmas!Node, Ids!Node,
   IdLemmas!NextRecord, Ids!NextRecord, IdLemmas!Advanced, Ids!Advanced,
   IdLemmas!NewCursor, Ids!NewCursor, IdLemmas!Refilled, Ids!Refilled,
   IdLemmas!Least, Ids!Least

LEMMA IdsMerged ==
  ASSUME NEW m
  PROVE  IdLemmas!Merged(m) = Ids!Merged(m)
<1>1. PICK node, run, c, rest :
        /\ node = Head(m.heap) /\ run = m.runs[node.cursor]
        /\ c = m.cursors[node.cursor] /\ rest = Ids!Popped(m.heap)
  OBVIOUS
<1>2. rest = IdLemmas!Popped(m.heap)
  BY <1>1, IdsHeap
<1>3. PICK next, advanced, more, longer :
        /\ next = Ids!HasNext(run, c) /\ advanced = Ids!Advanced(run, c)
        /\ more = Ids!Emitted(m.out, node.record)
        /\ longer = Ids!Push(rest, Ids!Node(Ids!NextRecord(run, c), node.cursor))
  OBVIOUS
<1>4. next = IdLemmas!HasNext(run, c) /\ advanced = IdLemmas!Advanced(run, c)
  BY <1>3, IdsCursors
<1>5. more = IdLemmas!Emitted(m.out, node.record)
  BY <1>3 DEF IdLemmas!Emitted, Ids!Emitted
<1>6. longer = IdLemmas!Push(rest, IdLemmas!Node(IdLemmas!NextRecord(run, c), node.cursor))
  BY <1>3, IdsCursors, IdsHeap DEF IdLemmas!Node, Ids!Node
<1>7. Ids!Merged(m) = IF next THEN [m EXCEPT !.cursors[node.cursor] = advanced,
                                            !.heap = longer, !.out = more]
                     ELSE [m EXCEPT !.heap = rest, !.out = more]
  BY <1>1, <1>3 DEF Ids!Merged
<1>8. IdLemmas!Merged(m) = IF next THEN [m EXCEPT !.cursors[node.cursor] = advanced,
                                            !.heap = longer, !.out = more]
                     ELSE [m EXCEPT !.heap = rest, !.out = more]
  BY <1>1, <1>2, <1>4, <1>5, <1>6 DEF IdLemmas!Merged
<1> QED
  BY <1>7, <1>8

LEMMA EdgesSift ==
  ASSUME NEW heap, NEW p
  PROVE  /\ EdgeLemmas!SiftUp(heap, p) = Edges!SiftUp(heap, p)
         /\ EdgeLemmas!SiftDown(heap, p) = Edges!SiftDown(heap, p)
<1>1. EdgeLemmas!SiftUp(heap, p) = Edges!SiftUp(heap, p)
  BY DEF EdgeLemmas!SiftUp, Edges!SiftUp, EdgeLemmas!Sifted, Edges!Sifted,
   EdgeLemmas!Swapped, Edges!Swapped, EdgeLemmas!Up, Edges!Up,
   EdgeLemmas!parent, Edges!parent, EdgeLemmas!less, Edges!less
<1>2. EdgeLemmas!SiftDown(heap, p) = Edges!SiftDown(heap, p)
  BY DEF EdgeLemmas!SiftDown, Edges!SiftDown, EdgeLemmas!Sifted, Edges!Sifted,
   EdgeLemmas!Swapped, Edges!Swapped, EdgeLemmas!Down, Edges!Down,
   EdgeLemmas!selected, Edges!selected, EdgeLemmas!less, Edges!less
<1> QED
  BY <1>1, <1>2

LEMMA EdgesCursors ==
  ASSUME NEW run, NEW c
  PROVE  /\ EdgeLemmas!Advanced(run, c) = Edges!Advanced(run, c)
         /\ EdgeLemmas!NextRecord(run, c) = Edges!NextRecord(run, c)
         /\ EdgeLemmas!HasNext(run, c) = Edges!HasNext(run, c)
         /\ EdgeLemmas!NewCursor = Edges!NewCursor
BY DEF EdgeLemmas!Advanced, Edges!Advanced, EdgeLemmas!NextRecord,
   Edges!NextRecord, EdgeLemmas!HasNext, Edges!HasNext,
   EdgeLemmas!NewCursor, Edges!NewCursor, EdgeLemmas!Refilled,
   Edges!Refilled, EdgeLemmas!Least, Edges!Least

LEMMA EdgesHeap ==
  ASSUME NEW heap, NEW node
  PROVE  /\ EdgeLemmas!Push(heap, node) = Edges!Push(heap, node)
         /\ EdgeLemmas!Popped(heap) = Edges!Popped(heap)
<1>1. EdgeLemmas!SiftUp(Append(heap, node), Len(heap)) = Edges!SiftUp(Append(heap, node), Len(heap))
  BY EdgesSift
<1>2. PICK moved : moved = [SubSeq(heap, 1, Len(heap) - 1) EXCEPT ![1] = heap[Len(heap)]]
  OBVIOUS
<1>3. EdgeLemmas!SiftDown(moved, 0) = Edges!SiftDown(moved, 0)
  BY EdgesSift
<1> QED
  BY <1>1, <1>2, <1>3 DEF EdgeLemmas!Push, Edges!Push, EdgeLemmas!Popped, Edges!Popped

LEMMA EdgesPrimed ==
  ASSUME NEW runs
  PROVE  EdgeLemmas!Primed(runs) = Edges!Primed(runs)
BY DEF EdgeLemmas!Primed, Edges!Primed, EdgeLemmas!Push, Edges!Push,
   EdgeLemmas!SiftUp, Edges!SiftUp, EdgeLemmas!Sifted, Edges!Sifted,
   EdgeLemmas!Swapped, Edges!Swapped, EdgeLemmas!Up, Edges!Up,
   EdgeLemmas!parent, Edges!parent, EdgeLemmas!less, Edges!less,
   EdgeLemmas!Node, Edges!Node, EdgeLemmas!NextRecord, Edges!NextRecord,
   EdgeLemmas!Advanced, Edges!Advanced, EdgeLemmas!NewCursor,
   Edges!NewCursor, EdgeLemmas!Refilled, Edges!Refilled, EdgeLemmas!Least,
   Edges!Least

LEMMA EdgesMerged ==
  ASSUME NEW m
  PROVE  EdgeLemmas!Merged(m) = Edges!Merged(m)
<1>1. PICK node, run, c, rest :
        /\ node = Head(m.heap) /\ run = m.runs[node.cursor]
        /\ c = m.cursors[node.cursor] /\ rest = Edges!Popped(m.heap)
  OBVIOUS
<1>2. rest = EdgeLemmas!Popped(m.heap)
  BY <1>1, EdgesHeap
<1>3. PICK next, advanced, more, longer :
        /\ next = Edges!HasNext(run, c) /\ advanced = Edges!Advanced(run, c)
        /\ more = Edges!Emitted(m.out, node.record)
        /\ longer = Edges!Push(rest, Edges!Node(Edges!NextRecord(run, c), node.cursor))
  OBVIOUS
<1>4. next = EdgeLemmas!HasNext(run, c) /\ advanced = EdgeLemmas!Advanced(run, c)
  BY <1>3, EdgesCursors
<1>5. more = EdgeLemmas!Emitted(m.out, node.record)
  BY <1>3 DEF EdgeLemmas!Emitted, Edges!Emitted
<1>6. longer = EdgeLemmas!Push(rest, EdgeLemmas!Node(EdgeLemmas!NextRecord(run, c), node.cursor))
  BY <1>3, EdgesCursors, EdgesHeap DEF EdgeLemmas!Node, Edges!Node
<1>7. Edges!Merged(m) = IF next THEN [m EXCEPT !.cursors[node.cursor] = advanced,
                                            !.heap = longer, !.out = more]
                     ELSE [m EXCEPT !.heap = rest, !.out = more]
  BY <1>1, <1>3 DEF Edges!Merged
<1>8. EdgeLemmas!Merged(m) = IF next THEN [m EXCEPT !.cursors[node.cursor] = advanced,
                                            !.heap = longer, !.out = more]
                     ELSE [m EXCEPT !.heap = rest, !.out = more]
  BY <1>1, <1>2, <1>4, <1>5, <1>6 DEF EdgeLemmas!Merged
<1> QED
  BY <1>7, <1>8

----------------------------------------------------------------------------
(* Numbers.                                                                *)

LEMMA Products ==
  ASSUME NEW e \in Nat, NEW m \in Nat, NEW n \in Nat
  PROVE  /\ m * e \in Nat /\ (m + 1) * e = m * e + e
         /\ m < n => m * e + e <= n * e
<1>1. m * e \in Nat /\ (m + 1) * e = m * e + e
  OBVIOUS
<1>2. ASSUME m < n PROVE m * e + e <= n * e
  <2>1. (m + 1) * e <= n * e
    BY <1>2
  <2> QED
    BY <1>1, <2>1
<1> QED
  BY <1>1, <1>2

LEMMA Division ==
  ASSUME NEW m \in Nat, NEW e \in Nat, e > 0
  PROVE  /\ m \div e \in Nat /\ (m \div e) * e <= m /\ m < (m \div e) * e + e
         /\ m % e = m - (m \div e) * e
OBVIOUS

\* How many times e goes into l, rounded up.
IsCeiling(k, l, e) == k \in Nat \ {0} /\ (k - 1) * e < l /\ l <= k * e

\* The pieces of length e that l is cut into, and the last may be shorter.
LEMMA Pieces ==
  ASSUME NEW l \in Nat \ {0}, NEW e \in Nat \ {0}, NEW k, IsCeiling(k, l, e)
  PROVE  /\ \A i \in 1 .. k : /\ (i - 1) * e \in Nat /\ i * e \in Nat
                              /\ (i - 1) * e + 1 <= Smallest(i * e, l)
                              /\ Smallest(i * e, l) \in 1 .. l
         /\ \A n \in 1 .. l : \E i \in 1 .. k :
              (i - 1) * e + 1 <= n /\ n <= Smallest(i * e, l)
<1>1. k \in Nat /\ k # 0 /\ (k - 1) * e < l /\ l <= k * e
  BY DEF IsCeiling
<1>2. ASSUME NEW i \in 1 .. k
      PROVE  /\ (i - 1) * e \in Nat /\ i * e \in Nat /\ i * e = (i - 1) * e + e
             /\ (i - 1) * e < l
  <2>1. i - 1 \in Nat /\ k - 1 \in Nat /\ i - 1 <= k - 1 /\ (i - 1) + 1 = i
    BY <1>1
  <2>2. PICK a : a = i - 1
    OBVIOUS
  <2>3. a \in Nat /\ a * e \in Nat /\ (a + 1) * e = a * e + e
    BY <2>1, <2>2, Products
  <2>4. a * e <= (k - 1) * e
    <3>1. CASE a = k - 1
      BY <2>3, <3>1
    <3>2. CASE a # k - 1
      <4>1. a < k - 1
        BY <2>1, <2>2, <3>2
      <4>2. (k - 1) * e \in Nat /\ a * e + e <= (k - 1) * e
        BY <2>1, <2>3, <4>1, Products
      <4> QED
        BY <2>3, <4>2
    <3> QED
      BY <3>1, <3>2
  <2>5. (k - 1) * e \in Nat
    BY <2>1, Products
  <2> QED
    BY <1>1, <2>1, <2>2, <2>3, <2>4, <2>5
<1>3. ASSUME NEW i \in 1 .. k
      PROVE  (i - 1) * e + 1 <= Smallest(i * e, l) /\ Smallest(i * e, l) \in 1 .. l
  <2>1. PICK a, b : a = (i - 1) * e /\ b = i * e
    OBVIOUS
  <2>2. a \in Nat /\ b = a + e /\ a < l
    BY <1>2, <2>1
  <2>3. a + 1 <= Smallest(b, l) /\ Smallest(b, l) \in 1 .. l
    BY <2>2 DEF Smallest
  <2> QED
    BY <2>1, <2>3
<1>4. ASSUME NEW n \in 1 .. l
      PROVE  \E i \in 1 .. k : (i - 1) * e + 1 <= n /\ n <= Smallest(i * e, l)
  <2>1. PICK q : q = (n - 1) \div e
    OBVIOUS
  <2>2. q \in Nat /\ q * e <= n - 1 /\ n - 1 < q * e + e /\ q * e \in Nat
        /\ (q + 1) * e = q * e + e
    <3>1. n - 1 \in Nat
      OBVIOUS
    <3>2. q \in Nat /\ q * e <= n - 1 /\ n - 1 < q * e + e
      BY <2>1, <3>1, Division
    <3> QED
      BY <3>2, Products
  <2>3. q < k
    <3>1. ASSUME ~(q < k) PROVE FALSE
      <4>1. k * e <= q * e
        <5>1. CASE k = q
          BY <2>2, <5>1
        <5>2. CASE k < q
          <6>1. k * e + e <= q * e /\ k * e \in Nat
            BY <1>1, <2>2, <5>2, Products
          <6> QED
            BY <2>2, <6>1
        <5> QED
          BY <1>1, <2>2, <3>1, <5>1, <5>2
      <4>2. k * e \in Nat
        BY <1>1, Products
      <4> QED
        BY <1>1, <2>2, <4>1, <4>2
    <3> QED
      BY <3>1
  <2>4. q + 1 \in 1 .. k /\ (q + 1) - 1 = q
    BY <1>1, <2>2, <2>3
  <2>5. q * e + 1 <= n /\ n <= Smallest((q + 1) * e, l)
    <3>1. PICK a, b : a = q * e /\ b = (q + 1) * e
      OBVIOUS
    <3>2. a \in Nat /\ b = a + e /\ a <= n - 1 /\ n - 1 < a + e
      BY <2>2, <3>1
    <3>3. a + 1 <= n /\ n <= Smallest(b, l)
      BY <3>2 DEF Smallest
    <3> QED
      BY <3>1, <3>3
  <2> QED
    BY <2>4, <2>5
<1> QED
  BY <1>2, <1>3, <1>4

LEMMA CeilingDivides ==
  ASSUME NEW l \in Nat \ {0}, NEW e \in Nat \ {0}
  PROVE  /\ IsCeiling((l + e - 1) \div e, l, e)
         /\ IsCeiling(1 + (l - 1) \div e, l, e)
         /\ IsCeiling(l \div e + (IF l % e # 0 THEN 1 ELSE 0), l, e)
         /\ l <= e => IsCeiling(1, l, e)
<1>1. PICK k : k = (l + e - 1) \div e
  OBVIOUS
<1>2. k \in Nat /\ k * e <= l + e - 1 /\ l + e - 1 < k * e + e /\ k * e \in Nat
  <2>1. l + e - 1 \in Nat
    OBVIOUS
  <2>2. k \in Nat /\ k * e <= l + e - 1 /\ l + e - 1 < k * e + e
    BY <1>1, <2>1, Division
  <2> QED
    BY <2>2, Products
<1>3. k # 0
  <2>1. k = 0 => k * e = 0
    OBVIOUS
  <2> QED
    BY <1>2, <2>1
<1>4. (k - 1) * e + e = k * e /\ (k - 1) * e \in Nat
  <2>1. PICK a : a = k - 1
    OBVIOUS
  <2>2. a \in Nat /\ a + 1 = k
    BY <1>2, <1>3, <2>1
  <2>3. (a + 1) * e = a * e + e /\ a * e \in Nat
    BY <2>2, Products
  <2> QED
    BY <2>1, <2>2, <2>3
<1>5. IsCeiling(k, l, e)
  BY <1>2, <1>3, <1>4 DEF IsCeiling
<1>6. PICK q : q = (l - 1) \div e
  OBVIOUS
<1>7. q \in Nat /\ q * e <= l - 1 /\ l - 1 < q * e + e /\ (q + 1) * e = q * e + e
      /\ q * e \in Nat
  <2>1. l - 1 \in Nat
    OBVIOUS
  <2>2. q \in Nat /\ q * e <= l - 1 /\ l - 1 < q * e + e
    BY <1>6, <2>1, Division
  <2> QED
    BY <2>2, Products
<1>8. IsCeiling(1 + q, l, e)
  <2>1. (1 + q) - 1 = q /\ 1 + q = q + 1 /\ q + 1 \in Nat \ {0}
    BY <1>7
  <2>2. q * e < l /\ l <= (q + 1) * e
    BY <1>7
  <2> QED
    BY <2>1, <2>2 DEF IsCeiling
<1>9. PICK p, r : p = l \div e /\ r = l % e
  OBVIOUS
<1>10. p \in Nat /\ p * e <= l /\ l < p * e + e /\ p * e \in Nat
       /\ (p + 1) * e = p * e + e /\ r = l - p * e
  <2>1. p \in Nat /\ p * e <= l /\ l < p * e + e /\ r = l - p * e
    BY <1>9, Division
  <2> QED
    BY <2>1, Products
<1>11. IsCeiling(p + (IF r # 0 THEN 1 ELSE 0), l, e)
  <2>1. CASE r # 0
    <3>1. (p + 1) - 1 = p /\ p + 1 \in Nat \ {0} /\ p * e < l /\ l <= (p + 1) * e
      BY <1>10, <2>1
    <3> QED
      BY <2>1, <3>1 DEF IsCeiling
  <2>2. CASE r = 0
    <3>1. l = p * e
      BY <1>10, <2>2
    <3>2. p # 0
      <4>1. p = 0 => p * e = 0
        OBVIOUS
      <4> QED
        BY <3>1, <4>1
    <3>3. PICK a : a = p - 1
      OBVIOUS
    <3>4. a \in Nat /\ a + 1 = p
      BY <1>10, <3>2, <3>3
    <3>5. (a + 1) * e = a * e + e /\ a * e \in Nat
      BY <3>4, Products
    <3>6. a * e < l /\ l <= p * e
      BY <3>1, <3>4, <3>5
    <3>7. p + (IF r # 0 THEN 1 ELSE 0) = p /\ p \in Nat \ {0}
      BY <1>10, <2>2, <3>2
    <3> QED
      BY <3>3, <3>6, <3>7 DEF IsCeiling
  <2> QED
    BY <2>1, <2>2
<1>12. ASSUME l <= e PROVE IsCeiling(1, l, e)
  <2>1. (1 - 1) * e = 0 /\ 1 * e = e
    OBVIOUS
  <2> QED
    BY <1>12, <2>1 DEF IsCeiling
<1> QED
  BY <1>1, <1>5, <1>6, <1>8, <1>9, <1>11, <1>12

----------------------------------------------------------------------------
(* The input.                                                              *)

InputTyped == input \in Inputs

LEMMA EndpointsTyped ==
  ASSUME InputTyped
  PROVE  /\ input \in Seq(Int \X Int) /\ Len(input) \in Nat \ {0}
         /\ DOMAIN input = 1 .. Len(input)
         /\ \A i \in DOMAIN input :
              /\ input[i] = <<input[i][1], input[i][2]>>
              /\ input[i][1] \in Endpoints /\ input[i][2] \in Endpoints
         /\ Endpoints \subseteq Int /\ IsFiniteSet(Endpoints)
         /\ \A id \in Endpoints : \E i \in DOMAIN input : id = input[i][1] \/ id = input[i][2]
<1>1. input \in Seq(Int \X Int) /\ input # <<>>
  BY InputAssumption DEF InputTyped
<1>2. Len(input) \in Nat \ {0} /\ DOMAIN input = 1 .. Len(input)
  BY <1>1, EmptySeq
<1>3. \A i \in DOMAIN input :
        /\ input[i] = <<input[i][1], input[i][2]>>
        /\ input[i][1] \in Int /\ input[i][2] \in Int
  BY <1>1
<1>4. /\ \A i \in DOMAIN input : input[i][1] \in Endpoints /\ input[i][2] \in Endpoints
      /\ \A id \in Endpoints : \E i \in DOMAIN input : id = input[i][1] \/ id = input[i][2]
  BY DEF Endpoints
<1>5. Endpoints \subseteq Int
  BY <1>3, <1>4
<1> DEFINE from == [i \in 1 .. Len(input) |-> input[i][1]]
           to == [i \in 1 .. Len(input) |-> input[i][2]]
<1>6. IsFiniteSet(Within(from)) /\ IsFiniteSet(Within(to))
  <2>1. DOMAIN from = 1 .. Len(input) /\ DOMAIN to = 1 .. Len(input)
    OBVIOUS
  <2> HIDE DEF from, to
  <2> QED
    BY <1>2, <2>1, MembersOfList
<1>7. Endpoints = Within(from) \union Within(to)
  BY <1>2, <1>4 DEF Within
<1>8. IsFiniteSet(Endpoints)
  BY <1>6, <1>7, FS_Union
<1> QED
  BY <1>1, <1>2, <1>3, <1>4, <1>5, <1>8

\* The runs that Ingest leaves ascend, and hold every endpoint and nothing else.
LEMMA RunsOfEndpoints ==
  ASSUME InputTyped, NEW runs, runs = EndpointRuns(input)
  PROVE  /\ runs \in Seq(Seq(Endpoints)) /\ Len(runs) \in Nat \ {0}
         /\ DOMAIN runs = 1 .. Len(runs)
         /\ \A i \in DOMAIN runs : runs[i] # <<>> /\ IdLemmas!Climbs(runs[i])
         /\ \A id \in Endpoints : \E i \in DOMAIN runs : id \in Within(runs[i])
<1> DEFINE l == 2 * Len(input)
           ids == [n \in 1 .. l |-> input[(n + 1) \div 2][IF n % 2 = 1 THEN 1 ELSE 2]]
           k == (l + EndpointIds - 1) \div EndpointIds
           from(i) == (i - 1) * EndpointIds + 1
           to(i) == Smallest(i * EndpointIds, l)
           cut(i) == SubSeq(ids, from(i), to(i))
           members(i) == {cut(i)[j] : j \in DOMAIN cut(i)}
<1>1. /\ Len(input) \in Nat \ {0} /\ DOMAIN input = 1 .. Len(input) /\ Endpoints \subseteq Int
      /\ \A i \in DOMAIN input : input[i][1] \in Endpoints /\ input[i][2] \in Endpoints
      /\ \A id \in Endpoints : \E i \in DOMAIN input : id = input[i][1] \/ id = input[i][2]
  BY EndpointsTyped
<1>2. l \in Nat \ {0} /\ EndpointIds \in Nat \ {0}
  BY <1>1, InputAssumption
<1>3. ASSUME NEW n \in 1 .. l PROVE ids[n] \in Endpoints
  <2>1. (n + 1) \div 2 \in DOMAIN input
    BY <1>1
  <2> QED
    BY <1>1, <2>1
<1>4. ids = [n \in 1 .. l |-> ids[n]] /\ DOMAIN ids = 1 .. l
  OBVIOUS
<1>5. ASSUME NEW id \in Endpoints PROVE \E n \in 1 .. l : ids[n] = id
  <2>1. PICK i \in DOMAIN input : id = input[i][1] \/ id = input[i][2]
    BY <1>1
  <2>2. /\ 2 * i - 1 \in 1 .. l /\ ((2 * i - 1) + 1) \div 2 = i /\ (2 * i - 1) % 2 = 1
        /\ 2 * i \in 1 .. l /\ (2 * i + 1) \div 2 = i /\ (2 * i) % 2 # 1
    <3>1. PICK m : m = Len(input)
      OBVIOUS
    <3>2. i \in Int /\ 1 <= i /\ i <= m /\ m \in Nat
      BY <1>1, <3>1
    <3>3. 2 * i - 1 \in 1 .. 2 * m /\ 2 * i \in 1 .. 2 * m
      BY <3>2
    <3>4. ((2 * i - 1) + 1) \div 2 = i /\ (2 * i + 1) \div 2 = i
      BY <3>2
    <3>5. (2 * i - 1) % 2 = 1 /\ (2 * i) % 2 # 1
      BY <3>2
    <3> QED
      BY <3>1, <3>3, <3>4, <3>5
  <2>3. ids[2 * i - 1] = input[i][1] /\ ids[2 * i] = input[i][2]
    BY <2>2
  <2> QED
    BY <2>1, <2>2, <2>3
<1>6. runs = [i \in 1 .. k |-> InOrder(members(i), <)]
  <2>1. ids \in Seq(Endpoints)
    BY <1>2, <1>3, <1>4, IsASeq
  <2>2. Len(ids) = l
    BY <1>2, <1>4, <2>1
  <2> QED
    BY <2>2 DEF EndpointRuns
<1> HIDE DEF ids
<1>7. IsCeiling(k, l, EndpointIds)
  BY <1>2, CeilingDivides
<1> HIDE DEF k, l
<1>8. k \in Nat \ {0}
  BY <1>7 DEF IsCeiling
<1>9. ASSUME NEW i \in 1 .. k
      PROVE  /\ from(i) \in Nat /\ 1 <= from(i) /\ from(i) <= to(i) /\ to(i) \in 1 .. l
  <2>1. /\ (i - 1) * EndpointIds \in Nat
        /\ (i - 1) * EndpointIds + 1 <= Smallest(i * EndpointIds, l)
        /\ Smallest(i * EndpointIds, l) \in 1 .. l
    BY <1>2, <1>7, Pieces
  <2>2. PICK a, b : a = (i - 1) * EndpointIds /\ b = Smallest(i * EndpointIds, l)
    OBVIOUS
  <2>3. a \in Nat /\ a + 1 <= b /\ b \in 1 .. l
    BY <2>1, <2>2
  <2>4. a + 1 \in Nat /\ 1 <= a + 1
    BY <2>3
  <2> QED
    BY <2>2, <2>3, <2>4
<1>10. ASSUME NEW i \in 1 .. k
       PROVE  /\ members(i) = {ids[n] : n \in from(i) .. to(i)}
              /\ members(i) \subseteq Endpoints /\ members(i) # {} /\ IsFiniteSet(members(i))
  <2>1. PICK a, b, s : a = from(i) /\ b = to(i) /\ s = cut(i)
    OBVIOUS
  <2>2. a \in Nat /\ 1 <= a /\ a <= b /\ b \in 1 .. l /\ s = SubSeq(ids, a, b)
    BY <1>9, <2>1
  <2>3. \A n \in a .. b : n \in 1 .. l /\ ids[n] \in Endpoints
    BY <1>2, <1>3, <2>2
  <2>4. /\ s \in Seq(Endpoints) /\ Len(s) = b - a + 1
        /\ \A j \in 1 .. b - a + 1 : s[j] = ids[a + j - 1]
    BY <2>2, <2>3, SubSeqProperties
  <2>5. DOMAIN s = 1 .. b - a + 1 /\ b - a + 1 \in Nat
    BY <2>2, <2>4
  <2>6. Within(s) = {ids[n] : n \in a .. b}
    <3>1. \A j \in 1 .. b - a + 1 : a + j - 1 \in a .. b
      BY <2>2
    <3>2. \A n \in a .. b : n - a + 1 \in 1 .. b - a + 1 /\ a + (n - a + 1) - 1 = n
      BY <2>2
    <3>3. \A n \in a .. b : s[n - a + 1] = ids[n]
      BY <2>4, <3>2
    <3> QED
      BY <2>4, <2>5, <3>1, <3>2, <3>3 DEF Within
  <2>7. IsFiniteSet(Within(s))
    BY <2>5, MembersOfList
  <2>8. a \in a .. b
    BY <2>2
  <2>9. members(i) = Within(s)
    BY <2>1 DEF Within
  <2> HIDE DEF members, from, to
  <2> QED
    BY <2>1, <2>3, <2>6, <2>7, <2>8, <2>9
<1> HIDE DEF members
<1>11. ASSUME NEW i \in 1 .. k
       PROVE  /\ runs[i] \in Seq(Endpoints) /\ runs[i] # <<>> /\ Within(runs[i]) = members(i)
              /\ IdLemmas!Climbs(runs[i])
  <2>1. members(i) \subseteq Int
    BY <1>1, <1>10
  <2>2. runs[i] = InOrder(members(i), <)
    BY <1>6
  <2>3. runs[i] \in Seq(members(i)) /\ Within(runs[i]) = members(i)
    BY <1>10, <2>1, <2>2, IntegersInOrder
  <2>4. runs[i] \in Seq(Endpoints)
    BY <1>10, <2>3, SeqMonotonic
  <2>5. runs[i] # <<>>
    BY <1>10, <2>3 DEF Within
  <2>6. IdLemmas!Climbs(runs[i])
    <3>1. PICK S, run, n : S = members(i) /\ run = InOrder(S, <) /\ n = Cardinality(S)
      OBVIOUS
    <3>2. S \subseteq Int /\ IsFiniteSet(S)
      BY <1>10, <2>1, <3>1
    <3>3. /\ run \in Seq(S) /\ Len(run) = n
          /\ \A j, m \in 1 .. n : j < m => run[j] < run[m]
      BY <3>1, <3>2, IntegersInOrder, Zenon
    <3>4. IdLemmas!Climbs(run)
      BY <3>3 DEF IdLemmas!Climbs, IdBefore
    <3>5. run = runs[i]
      BY <2>2, <3>1
    <3> QED
      BY <3>4, <3>5
  <2> QED
    BY <2>3, <2>4, <2>5, <2>6
<1>12. DOMAIN runs = 1 .. k /\ runs = [i \in 1 .. k |-> runs[i]]
  BY <1>6
<1>13. runs \in Seq(Seq(Endpoints)) /\ Len(runs) = k
  BY <1>8, <1>11, <1>12, IsASeq
<1>14. ASSUME NEW id \in Endpoints PROVE \E i \in 1 .. k : id \in Within(runs[i])
  <2>1. PICK n \in 1 .. l : ids[n] = id
    BY <1>5
  <2>2. PICK i \in 1 .. k : from(i) <= n /\ n <= to(i)
    BY <1>2, <1>7, Pieces
  <2>3. n \in from(i) .. to(i)
    BY <1>2, <1>9, <2>2
  <2>4. id \in members(i)
    BY <1>10, <2>1, <2>3
  <2> QED
    BY <1>11, <2>4
<1> QED
  BY <1>8, <1>11, <1>12, <1>13, <1>14

----------------------------------------------------------------------------
(* The identifiers.                                                        *)

\* The runs of the successor, when n of them are complete.
Outputs(n) == {<<Successor.pass, i>> : i \in 0 .. n - 1}

\* The runs of the group that is merged next, or now.
Group ==
  [i \in 1 .. group_size(current.count - input_begin) |->
     id_files[<<current.pass, input_begin + i - 1>>]]

\* Every endpoint is in one of the runs.
Whole(paths) ==
  /\ paths \subseteq DOMAIN id_files
  /\ \A id \in Endpoints : \E path \in paths : id \in Within(id_files[path])

IdsTyped ==
  /\ \A path \in DOMAIN id_files :
       id_files[path] \in Seq(Endpoints) /\ id_files[path] # <<>>
  /\ current \in [pass : Nat \union {FinalSet}, count : Nat \ {0}]
  /\ output_index \in 0 .. Successor.count /\ retired \in 0 .. current.count
  /\ input_begin = Smallest(output_index * IdFanIn, current.count)

\* What the groups so far have read is in what they have written.
PassRuns ==
  /\ current.pass \in Nat /\ retired = 0
  /\ DOMAIN id_files = Paths(current) \union Outputs(output_index)
  /\ Whole(Paths(current))
  /\ \A j \in 0 .. input_begin - 1 : \A id \in Within(id_files[<<current.pass, j>>]) :
       \E path \in Outputs(output_index) : id \in Within(id_files[path])

PassRetires ==
  /\ current.pass \in Nat
  /\ DOMAIN id_files = {<<current.pass, i>> : i \in retired .. current.count - 1}
                         \union Paths(Successor)
  /\ Whole(Paths(Successor))

IdPlaces ==
  /\ id_place \in {"groups", "merging", "retiring", "done", "failed"}
  /\ id_place \in {"groups", "merging"} => PassRuns
  /\ id_place = "merging" =>
       output_index < Successor.count /\ IdLemmas!Merges(id_merge, Group, Endpoints)
  /\ id_place = "retiring" => PassRetires
  /\ id_place = "failed" =>
       \/ DOMAIN id_files = Paths(current) /\ Whole(Paths(current))
       \/ Whole(Paths(Successor))
  /\ id_place = "done" =>
       /\ current = [pass |-> FinalSet, count |-> 1]
       /\ DOMAIN id_files = {VertexIds} /\ Whole({VertexIds})

IdInv == InputTyped /\ IdsTyped /\ IdPlaces

LEMMA SuccessorSet ==
  ASSUME current \in [pass : Nat \union {FinalSet}, count : Nat \ {0}]
  PROVE  /\ Successor = [pass |-> Successor.pass, count |-> Successor.count]
         /\ Successor.pass \in Nat \union {FinalSet} /\ Successor.count \in Nat \ {0}
         /\ IsCeiling(Successor.count, current.count, IdFanIn)
         /\ current.pass \in Nat => Successor.pass # current.pass
         /\ Successor.pass = FinalSet => Successor.count = 1
<1>1. current.count \in Nat \ {0} /\ current.pass \in Nat \union {FinalSet}
      /\ IdFanIn \in Nat \ {0}
  BY IdentifierAssumption
<1>2. CASE current.count > IdFanIn
  <2>1. Successor = [pass |-> current.pass + 1, count |-> successor_run_count(current.count)]
    BY <1>2 DEF Successor
  <2>2. IsCeiling(successor_run_count(current.count), current.count, IdFanIn)
    BY <1>1, CeilingDivides DEF successor_run_count
  <2>3. successor_run_count(current.count) \in Nat \ {0}
    BY <2>2 DEF IsCeiling
  <2>4. /\ Successor.pass = current.pass + 1
        /\ Successor.count = successor_run_count(current.count)
        /\ Successor = [pass |-> Successor.pass, count |-> Successor.count]
    BY <2>1
  <2>5. current.pass + 1 \in Nat /\ (current.pass \in Nat => current.pass + 1 # current.pass)
        /\ current.pass + 1 # FinalSet
    BY <1>1 DEF FinalSet
  <2> QED
    BY <2>2, <2>3, <2>4, <2>5
<1>3. CASE ~(current.count > IdFanIn)
  <2>1. Successor = [pass |-> FinalSet, count |-> 1]
    BY <1>3 DEF Successor
  <2>2. current.count <= IdFanIn
    BY <1>1, <1>3
  <2>3. IsCeiling(1, current.count, IdFanIn)
    BY <1>1, <2>2, CeilingDivides
  <2>4. Successor.pass = FinalSet /\ Successor.count = 1
        /\ Successor = [pass |-> Successor.pass, count |-> Successor.count]
    BY <2>1
  <2>5. FinalSet \notin Nat /\ FinalSet \in Nat \union {FinalSet}
    BY DEF FinalSet
  <2> QED
    BY <2>3, <2>4, <2>5
<1> QED
  BY <1>2, <1>3

\* What the next group takes, of n in groups of f.
LEMMA NextGroup ==
  ASSUME NEW n \in Nat \ {0}, NEW f \in Nat \ {0}, NEW s, IsCeiling(s, n, f),
         NEW o \in 0 .. s, NEW b, b = Smallest(o * f, n), NEW g, g = Smallest(n - b, f)
  PROVE  /\ b \in 0 .. n
         /\ o < s => g \in Nat \ {0} /\ b + g <= n /\ b + g = Smallest((o + 1) * f, n)
         /\ o = s => b = n
<1>1. s \in Nat \ {0} /\ (s - 1) * f < n /\ n <= s * f
  BY DEF IsCeiling
<1>2. o \in Nat /\ o * f \in Nat /\ (o + 1) * f = o * f + f
  BY Products
<1>3. o < s => o * f < n
  <2>1. ASSUME o < s PROVE o * f < n
    <3>1. PICK i : i = o + 1
      OBVIOUS
    <3>2. i \in 1 .. s /\ i - 1 = o
      BY <1>1, <1>2, <2>1, <3>1
    <3>3. (i - 1) * f + 1 <= Smallest(i * f, n) /\ Smallest(i * f, n) \in 1 .. n
      BY <3>2, Pieces
    <3>4. o * f + 1 <= Smallest(i * f, n)
      BY <3>2, <3>3
    <3> QED
      BY <1>2, <3>3, <3>4
  <2> QED
    BY <2>1
<1>4. PICK a : a = o * f
  OBVIOUS
<1>5. a \in Nat /\ b = Smallest(a, n) /\ (o + 1) * f = a + f /\ (o < s => a < n)
      /\ (o = s => n <= a)
  BY <1>1, <1>2, <1>3, <1>4
<1>6. b \in 0 .. n /\ (o = s => b = n)
  BY <1>5 DEF Smallest
<1>7. ASSUME o < s
      PROVE  g \in Nat \ {0} /\ b + g <= n /\ b + g = Smallest(a + f, n)
  BY <1>5, <1>7 DEF Smallest
<1> QED
  BY <1>5, <1>6, <1>7

LEMMA GroupTyped ==
  ASSUME IdInv, PassRuns, output_index < Successor.count
  PROVE  /\ group_size(current.count - input_begin) \in Nat \ {0}
         /\ input_begin \in Nat
         /\ input_begin + group_size(current.count - input_begin) <= current.count
         /\ input_begin + group_size(current.count - input_begin)
              = Smallest((output_index + 1) * IdFanIn, current.count)
         /\ \A i \in 1 .. group_size(current.count - input_begin) :
              <<current.pass, input_begin + i - 1>> \in Paths(current)
         /\ Group \in Seq(Seq(Endpoints)) /\ \A i \in DOMAIN Group : Group[i] # <<>>
<1>1. PICK g : g = group_size(current.count - input_begin)
  OBVIOUS
<1>2. /\ current.count \in Nat \ {0} /\ IdFanIn \in Nat \ {0}
      /\ IsCeiling(Successor.count, current.count, IdFanIn)
      /\ output_index \in 0 .. Successor.count
      /\ input_begin = Smallest(output_index * IdFanIn, current.count)
  BY IdentifierAssumption, SuccessorSet DEF IdInv, IdsTyped
<1>3. g = Smallest(current.count - input_begin, IdFanIn)
  BY <1>1 DEF group_size, Ids!Least, Smallest
<1>4. PICK n, o, b : n = current.count /\ o = output_index /\ b = input_begin
  OBVIOUS
<1>5. b \in 0 .. n /\ g \in Nat \ {0} /\ b + g <= n /\ b + g = Smallest((o + 1) * IdFanIn, n)
      /\ n \in Nat
  BY <1>2, <1>3, <1>4, NextGroup
<1>6. \A i \in 1 .. g : b + i - 1 \in 0 .. n - 1
  BY <1>5
<1>7. \A i \in 1 .. g : <<current.pass, input_begin + i - 1>> \in Paths(current)
  BY <1>4, <1>6 DEF Paths
<1>8. \A i \in 1 .. g :
        /\ id_files[<<current.pass, input_begin + i - 1>>] \in Seq(Endpoints)
        /\ id_files[<<current.pass, input_begin + i - 1>>] # <<>>
  BY <1>7 DEF IdInv, IdsTyped, PassRuns
<1>9. Group = [i \in 1 .. g |-> id_files[<<current.pass, input_begin + i - 1>>]]
  BY <1>1 DEF Group
<1>10. DOMAIN Group = 1 .. g /\ Group = [i \in 1 .. g |-> Group[i]]
       /\ \A i \in 1 .. g : Group[i] \in Seq(Endpoints) /\ Group[i] # <<>>
  BY <1>8, <1>9
<1>11. Group \in Seq(Seq(Endpoints))
  BY <1>5, <1>10, IsASeq
<1> QED
  BY <1>1, <1>4, <1>5, <1>7, <1>10, <1>11

LEMMA IdInvStarts ==
  ASSUME Init
  PROVE  IdInv
<1>1. InputTyped
  BY DEF Init, InputTyped
<1>2. PICK runs : runs = EndpointRuns(input)
  OBVIOUS
<1>3. /\ runs \in Seq(Seq(Endpoints)) /\ Len(runs) \in Nat \ {0} /\ DOMAIN runs = 1 .. Len(runs)
      /\ \A i \in DOMAIN runs : runs[i] # <<>>
      /\ \A id \in Endpoints : \E i \in DOMAIN runs : id \in Within(runs[i])
  BY <1>1, <1>2, RunsOfEndpoints
<1>4. PICK n : n = Len(runs)
  OBVIOUS
<1>5. /\ id_files = [path \in {<<Initial, i>> : i \in 0 .. n - 1} |-> runs[path[2] + 1]]
      /\ id_place = "groups" /\ current = [pass |-> Initial, count |-> n]
      /\ input_begin = 0 /\ output_index = 0 /\ retired = 0
  BY <1>2, <1>4 DEF Init, IdentifierInit
<1>6. n \in Nat \ {0} /\ \A i \in 1 .. n : runs[i] \in Seq(Endpoints) /\ runs[i] # <<>>
  <2>1. n \in Nat \ {0} /\ \A i \in 1 .. n : runs[i] # <<>>
    BY <1>3, <1>4
  <2>2. \A i \in 1 .. n : runs[i] \in Seq(Endpoints)
    BY <1>3, <1>4
  <2> QED
    BY <2>1, <2>2
<1>7. \A i \in 0 .. n - 1 : i + 1 \in 1 .. n
  BY <1>6
<1>8. DOMAIN id_files = {<<Initial, i>> : i \in 0 .. n - 1}
      /\ \A i \in 0 .. n - 1 : id_files[<<Initial, i>>] = runs[i + 1]
  BY <1>5
<1>9. \A path \in DOMAIN id_files : id_files[path] \in Seq(Endpoints) /\ id_files[path] # <<>>
  BY <1>6, <1>7, <1>8
<1>10. current \in [pass : Nat \union {FinalSet}, count : Nat \ {0}]
  BY <1>5, <1>6 DEF Initial
<1>11. Successor.count \in Nat \ {0}
  BY <1>10, SuccessorSet
<1>12. current.count = n /\ current.pass = Initial /\ Initial \in Nat
  BY <1>5 DEF Initial
<1>13. input_begin = Smallest(output_index * IdFanIn, current.count)
  <2>1. 0 * IdFanIn = 0
    BY IdentifierAssumption
  <2> QED
    BY <1>5, <1>6, <1>12, <2>1 DEF Smallest
<1>14. IdsTyped
  BY <1>5, <1>6, <1>9, <1>10, <1>11, <1>12, <1>13 DEF IdsTyped
<1>15. Paths(current) = DOMAIN id_files
  BY <1>8, <1>12 DEF Paths
<1>16. Whole(Paths(current))
  <2>1. ASSUME NEW id \in Endpoints
        PROVE  \E path \in Paths(current) : id \in Within(id_files[path])
    <3>1. PICK i \in 1 .. n : id \in Within(runs[i])
      BY <1>3, <1>4
    <3>2. i - 1 \in 0 .. n - 1 /\ (i - 1) + 1 = i
      BY <1>6
    <3>3. <<Initial, i - 1>> \in DOMAIN id_files /\ id_files[<<Initial, i - 1>>] = runs[i]
      BY <1>8, <3>2
    <3> QED
      BY <1>15, <3>1, <3>3
  <2> QED
    BY <1>15, <2>1 DEF Whole
<1>17. PassRuns
  <2>1. Outputs(output_index) = {} /\ 0 .. input_begin - 1 = {}
    BY <1>5 DEF Outputs
  <2> QED
    BY <1>5, <1>12, <1>15, <1>16, <2>1 DEF PassRuns
<1> QED
  BY <1>1, <1>5, <1>14, <1>17 DEF IdInv, IdPlaces

LEMMA OpenIdGroupKeeps ==
  ASSUME IdInv, OpenIdGroup, UNCHANGED input
  PROVE  IdInv'
<1>1. /\ id_place = "groups" /\ output_index < Successor.count /\ id_place' = "merging"
      /\ id_merge' = Ids!Primed(Group)
      /\ UNCHANGED <<id_files, current, input_begin, output_index, retired>>
  BY DEF OpenIdGroup, Group
<1>2. PassRuns
  BY <1>1 DEF IdInv, IdPlaces
<1>3. Group \in Seq(Seq(Endpoints)) /\ \A i \in DOMAIN Group : Group[i] # <<>>
  BY <1>1, <1>2, GroupTyped
<1>4. IdLemmas!Merges(id_merge', Group, Endpoints)
  BY <1>1, <1>3, IdLemmas!PrimedMerges, IdsPrimed, IdentifierAssumption
<1>5. Endpoints' = Endpoints /\ Successor' = Successor /\ Group' = Group
      /\ Paths(current)' = Paths(current)
  BY <1>1 DEF Endpoints, Successor, Group, Paths
<1>6. InputTyped' /\ IdsTyped'
  BY <1>1, <1>5 DEF IdInv, InputTyped, IdsTyped
<1>7. PassRuns'
  BY <1>1, <1>2, <1>5 DEF PassRuns, Whole, Outputs
<1>8. IdPlaces'
  BY <1>1, <1>4, <1>5, <1>7 DEF IdPlaces
<1> QED
  BY <1>6, <1>8 DEF IdInv

LEMMA MergeIdKeeps ==
  ASSUME IdInv, MergeId, UNCHANGED input
  PROVE  IdInv'
<1>1. /\ id_place = "merging" /\ id_merge.heap # <<>> /\ id_merge' = Ids!Merged(id_merge)
      /\ UNCHANGED <<id_files, id_place, current, input_begin, output_index, retired>>
  BY DEF MergeId
<1>2. PassRuns /\ output_index < Successor.count /\ IdLemmas!Merges(id_merge, Group, Endpoints)
  BY <1>1 DEF IdInv, IdPlaces
<1>3. Group \in Seq(Seq(Endpoints))
  BY <1>2, GroupTyped
<1>4. IdLemmas!Merges(id_merge', Group, Endpoints)
  BY <1>1, <1>2, <1>3, IdLemmas!MergedMerges, IdsMerged, IdentifierAssumption
<1>5. Endpoints' = Endpoints /\ Successor' = Successor /\ Group' = Group
      /\ Paths(current)' = Paths(current)
  BY <1>1 DEF Endpoints, Successor, Group, Paths
<1>6. InputTyped' /\ IdsTyped'
  BY <1>1, <1>5 DEF IdInv, InputTyped, IdsTyped
<1>7. PassRuns'
  BY <1>1, <1>2, <1>5 DEF PassRuns, Whole, Outputs
<1>8. IdPlaces'
  BY <1>1, <1>2, <1>4, <1>5, <1>7 DEF IdPlaces
<1> QED
  BY <1>6, <1>8 DEF IdInv

LEMMA CloseIdGroupKeeps ==
  ASSUME IdInv, CloseIdGroup, UNCHANGED input
  PROVE  IdInv'
<1> DEFINE path == <<Successor.pass, output_index>>
           g == group_size(current.count - input_begin)
<1>1. /\ id_place = "merging" /\ id_merge.heap = <<>> /\ id_place' = "groups"
      /\ id_files' = [p \in DOMAIN id_files \union {path} |->
                        IF p = path THEN id_merge.out ELSE id_files[p]]
      /\ input_begin' = input_begin + g /\ output_index' = output_index + 1
      /\ UNCHANGED <<current, retired>>
  BY DEF CloseIdGroup
<1>2. PassRuns /\ output_index < Successor.count /\ IdLemmas!Merges(id_merge, Group, Endpoints)
  BY <1>1 DEF IdInv, IdPlaces
<1>3. /\ g \in Nat \ {0} /\ input_begin \in Nat /\ input_begin + g <= current.count
      /\ input_begin + g = Smallest((output_index + 1) * IdFanIn, current.count)
      /\ Group \in Seq(Seq(Endpoints)) /\ \A i \in DOMAIN Group : Group[i] # <<>>
  BY <1>2, GroupTyped
<1>4. /\ id_merge.out \in Seq(Endpoints)
      /\ \A i \in DOMAIN Group : \A k \in DOMAIN Group[i] :
           \E j \in DOMAIN id_merge.out : id_merge.out[j] = Group[i][k]
  BY <1>1, <1>2, <1>3, IdLemmas!MergeEnds
<1>5. Endpoints' = Endpoints /\ Successor' = Successor /\ Paths(current)' = Paths(current)
  BY <1>1 DEF Endpoints, Successor, Paths
<1>6. current \in [pass : Nat \union {FinalSet}, count : Nat \ {0}]
      /\ output_index \in 0 .. Successor.count
  BY DEF IdInv, IdsTyped
<1>7. Successor.count \in Nat \ {0} /\ Successor.pass # current.pass
  BY <1>2, <1>6, SuccessorSet DEF PassRuns
<1>8. path \notin DOMAIN id_files
  <2>1. path \notin Paths(current)
    BY <1>7 DEF Paths
  <2>2. path \notin Outputs(output_index)
    <3>1. \A i \in 0 .. output_index - 1 : i # output_index
      BY <1>6
    <3> QED
      BY <3>1 DEF Outputs
  <2> QED
    BY <1>2, <2>1, <2>2 DEF PassRuns
<1>9. /\ DOMAIN id_files' = DOMAIN id_files \union {path} /\ id_files'[path] = id_merge.out
      /\ \A p \in DOMAIN id_files : id_files'[p] = id_files[p]
  BY <1>1, <1>8
<1>10. DOMAIN Group = 1 .. g
       /\ \A i \in 1 .. g : Group[i] = id_files[<<current.pass, input_begin + i - 1>>]
  BY DEF Group
<1>11. id_merge.out # <<>>
  <2>1. 1 \in DOMAIN Group
    BY <1>3, <1>10
  <2>2. Group[1] \in Seq(Endpoints) /\ Group[1] # <<>>
    BY <1>3, <2>1
  <2>3. 1 \in DOMAIN Group[1]
    BY <2>2, EmptySeq
  <2>4. \E j \in DOMAIN id_merge.out : TRUE
    BY <1>4, <2>1, <2>3
  <2> QED
    BY <2>4
<1>12. Outputs(output_index + 1) = Outputs(output_index) \union {path}
  <2>1. 0 .. (output_index + 1) - 1 = (0 .. output_index - 1) \union {output_index}
    BY <1>6, <1>7
  <2> QED
    BY <2>1 DEF Outputs
<1>13. InputTyped' /\ IdsTyped'
  <2>1. \A p \in DOMAIN id_files' : id_files'[p] \in Seq(Endpoints) /\ id_files'[p] # <<>>
    BY <1>4, <1>9, <1>11 DEF IdInv, IdsTyped
  <2>2. output_index' \in 0 .. Successor.count
    BY <1>1, <1>2, <1>6, <1>7
  <2>3. input_begin' = Smallest(output_index' * IdFanIn, current.count)
    BY <1>1, <1>3
  <2> QED
    BY <1>1, <1>5, <2>1, <2>2, <2>3 DEF IdInv, InputTyped, IdsTyped
<1>14. PassRuns'
  <2>1. Whole(Paths(current))'
    BY <1>2, <1>5, <1>9 DEF PassRuns, Whole
  <2>2. DOMAIN id_files' = Paths(current)' \union Outputs(output_index)'
    BY <1>1, <1>2, <1>5, <1>9, <1>12 DEF PassRuns, Outputs
  <2>3. ASSUME NEW j \in 0 .. input_begin' - 1,
               NEW id \in Within(id_files'[<<current.pass, j>>])
        PROVE  \E p \in Outputs(output_index + 1) : id \in Within(id_files'[p])
    <3>1. j \in 0 .. current.count - 1
      BY <1>1, <1>3, <1>6
    <3>2. <<current.pass, j>> \in DOMAIN id_files
      BY <1>2, <3>1 DEF PassRuns, Paths
    <3>3. id \in Within(id_files[<<current.pass, j>>])
      BY <1>9, <2>3, <3>2
    <3>4. CASE j \in 0 .. input_begin - 1
      <4>1. PICK p \in Outputs(output_index) : id \in Within(id_files[p])
        BY <1>2, <3>3, <3>4 DEF PassRuns
      <4>2. p \in DOMAIN id_files
        BY <1>2, <4>1 DEF PassRuns
      <4> QED
        BY <1>9, <1>12, <4>1, <4>2
    <3>5. CASE j \notin 0 .. input_begin - 1
      <4>1. PICK i : i = j - input_begin + 1
        OBVIOUS
      <4>2. i \in 1 .. g /\ input_begin + i - 1 = j
        BY <1>1, <1>3, <3>5, <4>1
      <4>3. id \in Within(Group[i]) /\ i \in DOMAIN Group
        BY <1>10, <3>3, <4>2
      <4>4. id \in Within(id_merge.out)
        BY <1>4, <4>3 DEF Within
      <4> QED
        BY <1>9, <1>12, <4>4
    <3> QED
      BY <3>4, <3>5
  <2>4. Outputs(output_index)' = Outputs(output_index + 1)
    BY <1>1, <1>5 DEF Outputs
  <2>5. current'.pass \in Nat /\ retired' = 0 /\ current' = current
    BY <1>1, <1>2 DEF PassRuns
  <2>6. \A j \in 0 .. input_begin' - 1 : \A id \in Within(id_files'[<<current'.pass, j>>]) :
          \E p \in Outputs(output_index)' : id \in Within(id_files'[p])
    BY <2>3, <2>4, <2>5
  <2> HIDE DEF path, g
  <2> QED
    BY <2>1, <2>2, <2>5, <2>6 DEF PassRuns
<1>15. IdPlaces'
  BY <1>1, <1>14 DEF IdPlaces
<1> QED
  BY <1>13, <1>15 DEF IdInv

LEMMA VerifyIdsKeeps ==
  ASSUME IdInv, VerifyIds, UNCHANGED input
  PROVE  IdInv'
<1>1. /\ id_place = "groups" /\ output_index = Successor.count
      /\ input_begin = current.count /\ id_place' = "retiring"
      /\ UNCHANGED <<id_files, current, input_begin, output_index, retired, id_merge>>
  BY DEF VerifyIds, SuccessorVerified
<1>2. PassRuns
  BY <1>1 DEF IdInv, IdPlaces
<1>3. Endpoints' = Endpoints /\ Successor' = Successor /\ Paths(current)' = Paths(current)
      /\ Paths(Successor)' = Paths(Successor)
  BY <1>1 DEF Endpoints, Successor, Paths
<1>4. InputTyped' /\ IdsTyped'
  BY <1>1, <1>3 DEF IdInv, InputTyped, IdsTyped
<1>5. Outputs(output_index) = Paths(Successor)
  BY <1>1 DEF Outputs, Paths
<1>6. Whole(Paths(Successor))
  <2>1. ASSUME NEW id \in Endpoints
        PROVE  \E path \in Paths(Successor) : id \in Within(id_files[path])
    <3>1. PICK path \in Paths(current) : id \in Within(id_files[path])
      BY <1>2 DEF PassRuns, Whole
    <3>2. PICK j \in 0 .. current.count - 1 : path = <<current.pass, j>>
      BY <3>1 DEF Paths
    <3> QED
      BY <1>1, <1>2, <1>5, <3>1, <3>2 DEF PassRuns
  <2> QED
    BY <1>2, <1>5, <2>1 DEF PassRuns, Whole
<1>7. PassRetires
  BY <1>2, <1>5, <1>6 DEF PassRuns, PassRetires, Paths
<1>8. PassRetires'
  BY <1>1, <1>3, <1>7 DEF PassRetires, Whole
<1> QED
  BY <1>1, <1>4, <1>8 DEF IdInv, IdPlaces

LEMMA RetireIdsKeeps ==
  ASSUME IdInv, RetireIds, UNCHANGED input
  PROVE  IdInv'
<1>1. /\ id_place = "retiring" /\ retired < current.count /\ id_place' = "retiring"
      /\ id_files' = Without({<<current.pass, retired>>}) /\ retired' = retired + 1
      /\ UNCHANGED <<current, input_begin, output_index, id_merge>>
  BY DEF RetireIds
<1>2. PassRetires
  BY <1>1 DEF IdInv, IdPlaces
<1>3. Endpoints' = Endpoints /\ Successor' = Successor /\ Paths(Successor)' = Paths(Successor)
  BY <1>1 DEF Endpoints, Successor, Paths
<1>4. /\ DOMAIN id_files' = DOMAIN id_files \ {<<current.pass, retired>>}
      /\ \A path \in DOMAIN id_files' : id_files'[path] = id_files[path]
  BY <1>1 DEF Without
<1>5. /\ current \in [pass : Nat \union {FinalSet}, count : Nat \ {0}]
      /\ retired \in 0 .. current.count /\ current.count \in Nat
  BY DEF IdInv, IdsTyped
<1>6. Successor.pass # current.pass
  BY <1>2, <1>5, SuccessorSet DEF PassRetires
<1>7. InputTyped' /\ IdsTyped'
  <2>1. retired' \in 0 .. current.count
    BY <1>1, <1>5
  <2> QED
    BY <1>1, <1>3, <1>4, <2>1 DEF IdInv, InputTyped, IdsTyped
<1>8. <<current.pass, retired>> \notin Paths(Successor)
  BY <1>6 DEF Paths
<1>9. DOMAIN id_files' = {<<current.pass, i>> : i \in retired' .. current.count - 1}
                           \union Paths(Successor)
  <2>1. /\ retired .. current.count - 1 = {retired} \union (retired' .. current.count - 1)
        /\ retired \notin retired' .. current.count - 1
    BY <1>1, <1>5
  <2> QED
    BY <1>2, <1>4, <1>8, <2>1 DEF PassRetires
<1>10. Whole(Paths(Successor))'
  BY <1>2, <1>3, <1>4, <1>9 DEF PassRetires, Whole
<1>11. PassRetires'
  BY <1>1, <1>2, <1>3, <1>9, <1>10 DEF PassRetires
<1> QED
  BY <1>1, <1>7, <1>11 DEF IdInv, IdPlaces

LEMMA NextPassKeeps ==
  ASSUME IdInv, NextPass, UNCHANGED input
  PROVE  IdInv'
<1>1. /\ id_place = "retiring" /\ retired = current.count /\ current' = Successor
      /\ id_place' = IF Successor.pass = FinalSet THEN "done" ELSE "groups"
      /\ input_begin' = 0 /\ output_index' = 0 /\ retired' = 0
      /\ UNCHANGED <<id_files, id_merge>>
  BY DEF NextPass
<1>2. PassRetires
  BY <1>1 DEF IdInv, IdPlaces
<1>3. /\ Successor = [pass |-> Successor.pass, count |-> Successor.count]
      /\ Successor.pass \in Nat \union {FinalSet} /\ Successor.count \in Nat \ {0}
      /\ Successor.pass = FinalSet => Successor.count = 1
  BY SuccessorSet DEF IdInv, IdsTyped
<1>4. current' \in [pass : Nat \union {FinalSet}, count : Nat \ {0}]
  BY <1>1, <1>3
<1>5. Successor'.count \in Nat \ {0}
  <2>1. ASSUME NEW c, c \in [pass : Nat \union {FinalSet}, count : Nat \ {0}]
        PROVE  successor_run_count(c.count) \in Nat \ {0}
    <3>1. c.count \in Nat \ {0} /\ IdFanIn \in Nat \ {0}
      BY <2>1, IdentifierAssumption
    <3>2. IsCeiling(successor_run_count(c.count), c.count, IdFanIn)
      BY <3>1, CeilingDivides DEF successor_run_count
    <3> QED
      BY <3>2 DEF IsCeiling
  <2>2. successor_run_count(current'.count) \in Nat \ {0}
    BY <1>4, <2>1
  <2> QED
    BY <2>2 DEF Successor
<1>6. Endpoints' = Endpoints
  BY DEF Endpoints
<1>7. InputTyped' /\ IdsTyped'
  <2>1. 0 = Smallest(0 * IdFanIn, current'.count)
    <3>1. 0 * IdFanIn = 0 /\ current'.count \in Nat
      BY <1>4, IdentifierAssumption
    <3> QED
      BY <3>1 DEF Smallest
  <2>2. 0 \in 0 .. Successor'.count /\ 0 \in 0 .. current'.count
    BY <1>4, <1>5
  <2> QED
    BY <1>1, <1>4, <1>6, <2>1, <2>2 DEF IdInv, InputTyped, IdsTyped
<1>8. Paths(current)' = Paths(Successor)
  BY <1>1 DEF Paths
<1>9. DOMAIN id_files = Paths(Successor)
  <2>1. retired .. current.count - 1 = {}
    BY <1>1 DEF IdInv, IdsTyped
  <2> QED
    BY <1>2, <2>1 DEF PassRetires
<1>10. Whole(Paths(current))'
  BY <1>1, <1>2, <1>6, <1>8 DEF PassRetires, Whole
<1>11. CASE Successor.pass = FinalSet
  <2>1. current' = [pass |-> FinalSet, count |-> 1] /\ id_place' = "done"
    BY <1>1, <1>3, <1>11
  <2>2. Paths(current)' = {VertexIds}
    <3>1. 0 .. 1 - 1 = {0}
      OBVIOUS
    <3> QED
      BY <2>1, <3>1 DEF Paths, VertexIds
  <2>3. Whole({VertexIds})'
    BY <1>10, <2>2 DEF Whole, VertexIds
  <2> QED
    BY <1>1, <1>7, <1>8, <1>9, <2>1, <2>2, <2>3 DEF IdInv, IdPlaces
<1>12. CASE Successor.pass # FinalSet
  <2>1. id_place' = "groups" /\ current'.pass \in Nat
    BY <1>1, <1>3, <1>12
  <2>2. Outputs(output_index)' = {} /\ 0 .. input_begin' - 1 = {}
    BY <1>1 DEF Outputs
  <2>3. PassRuns'
    BY <1>1, <1>8, <1>9, <1>10, <2>1, <2>2 DEF PassRuns
  <2> QED
    BY <1>7, <2>1, <2>3 DEF IdInv, IdPlaces
<1> QED
  BY <1>11, <1>12

LEMMA IdentifiersFailKeeps ==
  ASSUME IdInv, IdentifiersFail, UNCHANGED input
  PROVE  IdInv'
<1>1. /\ id_place \in {"groups", "merging", "retiring"} /\ id_place' = "failed"
      /\ id_files' = Without(Guarded)
      /\ UNCHANGED <<current, input_begin, output_index, retired, id_merge>>
  BY DEF IdentifiersFail
<1>2. Endpoints' = Endpoints /\ Successor' = Successor /\ Paths(Successor)' = Paths(Successor)
      /\ Paths(current)' = Paths(current)
  BY <1>1 DEF Endpoints, Successor, Paths
<1>3. /\ DOMAIN id_files' = DOMAIN id_files \ Guarded
      /\ \A path \in DOMAIN id_files' : id_files'[path] = id_files[path]
  BY <1>1 DEF Without
<1>4. InputTyped' /\ IdsTyped'
  BY <1>1, <1>2, <1>3 DEF IdInv, InputTyped, IdsTyped
<1>5. CASE id_place = "retiring"
  <2>1. Guarded = {} /\ PassRetires
    BY <1>5 DEF Guarded, IdInv, IdPlaces
  <2>2. Whole(Paths(Successor))'
    BY <1>2, <1>3, <2>1 DEF PassRetires, Whole
  <2> QED
    BY <1>1, <1>4, <2>2 DEF IdInv, IdPlaces
<1>6. CASE id_place # "retiring"
  <2>1. Guarded = Outputs(output_index) /\ PassRuns
    BY <1>1, <1>6 DEF Guarded, Outputs, IdInv, IdPlaces
  <2>2. Successor.pass # current.pass
    BY <2>1, SuccessorSet DEF IdInv, IdsTyped, PassRuns
  <2>3. Paths(current) \intersect Outputs(output_index) = {}
    BY <2>2 DEF Paths, Outputs
  <2>4. DOMAIN id_files' = Paths(current)
    BY <1>3, <2>1, <2>3 DEF PassRuns
  <2>5. Whole(Paths(current))'
    BY <1>2, <1>3, <2>1, <2>4 DEF PassRuns, Whole
  <2> QED
    BY <1>1, <1>2, <1>4, <2>4, <2>5 DEF IdInv, IdPlaces
<1> QED
  BY <1>5, <1>6

LEMMA IdentifierNextKeeps ==
  ASSUME IdInv, IdentifierNext, UNCHANGED input
  PROVE  IdInv'
BY OpenIdGroupKeeps, MergeIdKeeps, CloseIdGroupKeeps, VerifyIdsKeeps, RetireIdsKeeps,
   NextPassKeeps, IdentifiersFailKeeps DEF IdentifierNext

\* Nothing else touches the runs of identifiers.
LEMMA IdInvStutters ==
  ASSUME IdInv, UNCHANGED <<input, idVars>>
  PROVE  IdInv'
<1>1. /\ UNCHANGED <<input, id_files, id_place, current, input_begin, output_index,
                     retired, id_merge>>
  BY DEF idVars
<1>2. /\ Endpoints' = Endpoints /\ Successor' = Successor /\ Group' = Group
      /\ Paths(current)' = Paths(current) /\ Paths(Successor)' = Paths(Successor)
  BY <1>1 DEF Endpoints, Successor, Group, Paths
<1>3. InputTyped' /\ IdsTyped'
  BY <1>1, <1>2 DEF IdInv, InputTyped, IdsTyped
<1>4. PassRuns => PassRuns'
  BY <1>1, <1>2 DEF PassRuns, Whole, Outputs
<1>5. PassRetires => PassRetires'
  BY <1>1, <1>2 DEF PassRetires, Whole
<1>6. IdPlaces'
  BY <1>1, <1>2, <1>4, <1>5 DEF IdInv, IdPlaces, Whole, VertexIds
<1> QED
  BY <1>3, <1>6 DEF IdInv

LEMMA WholeHolds ==
  ASSUME IdInv, NEW set, Whole(Paths(set))
  PROVE  Holds(set, Endpoints)
<1>1. \A path \in Paths(set) : id_files[path] \in Seq(Endpoints)
  BY DEF IdInv, IdsTyped, Whole
<1>2. \A path \in Paths(set) : Within(id_files[path]) \subseteq Endpoints
  BY <1>1 DEF Within
<1>3. Members(set) = UNION {Within(id_files[path]) : path \in Paths(set)}
  BY DEF Members, Within
<1>4. Members(set) = Endpoints
  BY <1>2, <1>3 DEF Whole
<1> QED
  BY <1>4 DEF Holds, Whole

LEMMA IdentifiersSurviveHere ==
  ASSUME IdInv
  PROVE  IdentifiersSurvive
<1>1. CASE id_place \in {"groups", "merging"}
  <2>1. Holds(current, Endpoints)
    BY <1>1, WholeHolds DEF IdInv, IdPlaces, PassRuns
  <2> QED
    BY <1>1, <2>1 DEF IdentifiersSurvive
<1>2. CASE id_place = "retiring"
  <2>1. Holds(Successor, Endpoints)
    BY <1>2, WholeHolds DEF IdInv, IdPlaces, PassRetires
  <2> QED
    BY <1>2, <2>1 DEF IdentifiersSurvive
<1>3. CASE id_place = "failed"
  BY <1>3, WholeHolds DEF IdInv, IdPlaces, IdentifiersSurvive
<1>4. CASE id_place = "done"
  <2>1. current = [pass |-> FinalSet, count |-> 1] /\ Whole({VertexIds})
    BY <1>4 DEF IdInv, IdPlaces
  <2>2. Paths(current) = {VertexIds}
    <3>1. 0 .. 1 - 1 = {0}
      OBVIOUS
    <3> QED
      BY <2>1, <3>1 DEF Paths, VertexIds
  <2>3. Holds(current, Endpoints)
    BY <2>1, <2>2, WholeHolds
  <2> QED
    BY <1>4, <2>3 DEF IdentifiersSurvive
<1> QED
  BY <1>1, <1>2, <1>3, <1>4 DEF IdInv, IdPlaces

----------------------------------------------------------------------------
(* The dictionary.                                                         *)

LEMMA EqualSizes ==
  ASSUME NEW A, NEW B, NEW f, IsFiniteSet(A),
         \A a \in A : f[a] \in B,
         \A b \in B : \E a \in A : f[a] = b,
         \A a, b \in A : f[a] = f[b] => a = b
  PROVE  IsFiniteSet(B) /\ Cardinality(B) = Cardinality(A) /\ Cardinality(A) \in Nat
<1> DEFINE g == [a \in A |-> f[a]]
<1>1. g \in Surjection(A, B)
  BY DEF Surjection
<1>2. g \in Injection(A, B)
  BY DEF Injection, IsInjective
<1> QED
  BY <1>1, <1>2, FS_Surjection, FS_CardinalityType

LEMMA IncreasesThroughout ==
  ASSUME NEW s \in Seq(Int), \A i \in 1 .. Len(s) - 1 : s[i] < s[i + 1]
  PROVE  \A i, j \in 1 .. Len(s) : i < j => s[i] < s[j]
<1> DEFINE S == {j \in Nat : j \in 1 .. Len(s) /\ \E i \in 1 .. j - 1 : ~(s[i] < s[j])}
<1>1. Len(s) \in Nat /\ \A i \in 1 .. Len(s) : s[i] \in Int
  OBVIOUS
<1>2. ASSUME S # {} PROVE FALSE
  <2>1. PICK j \in S : \A k \in S : j <= k
    BY <1>2, IdLemmas!LeastNumber
  <2>2. PICK i \in 1 .. j - 1 : ~(s[i] < s[j])
    OBVIOUS
  <2>3. j - 1 \in 1 .. Len(s) - 1 /\ j - 1 \in 1 .. Len(s) /\ (j - 1) + 1 = j /\ j - 1 \in Nat
        /\ i \in 1 .. Len(s) /\ j \in 1 .. Len(s)
    BY <1>1, <2>1, <2>2
  <2>4. s[j - 1] < s[j]
    BY <2>3
  <2>5. i # j - 1
    BY <2>2, <2>4
  <2>6. i \in 1 .. (j - 1) - 1
    BY <2>2, <2>3, <2>5
  <2>7. j - 1 \notin S
    BY <2>1, <2>3
  <2>8. s[i] < s[j - 1]
    BY <2>3, <2>6, <2>7
  <2> QED
    BY <1>1, <2>2, <2>3, <2>4, <2>8
<1>3. ASSUME NEW i \in 1 .. Len(s), NEW j \in 1 .. Len(s), i < j PROVE s[i] < s[j]
  <2>1. j \in Nat /\ i \in 1 .. j - 1
    BY <1>1, <1>3
  <2>2. j \notin S
    BY <1>2
  <2> QED
    BY <2>1, <2>2
<1> QED
  BY <1>3

\* Each endpoint has a rank of its own.
LEMMA RanksOfEndpoints ==
  ASSUME InputTyped
  PROVE  /\ Cardinality(Endpoints) \in Nat
         /\ \A id \in Endpoints : Rank(id) \in Vertices
         /\ \A v \in Vertices : \E id \in Endpoints : Rank(id) = v
         /\ \A m, n \in Endpoints : Rank(m) = Rank(n) => m = n
<1>1. Endpoints \subseteq Int /\ IsFiniteSet(Endpoints)
  BY EndpointsTyped
<1>2. PICK R : R = Lesser(Endpoints)
  OBVIOUS
<1>3. Orders(R, Endpoints)
  BY <1>1, <1>2, IntegersOrdered
<1>4. ASSUME NEW id \in Endpoints PROVE Rank(id) = Cardinality(Below(R, Endpoints, id))
  BY <1>1, <1>2, IntegersOrdered DEF Rank
<1>5. /\ Cardinality(Endpoints) \in Nat
      /\ \A x \in Endpoints :
           Cardinality(Below(R, Endpoints, x)) \in 0 .. Cardinality(Endpoints) - 1
      /\ \A n \in 0 .. Cardinality(Endpoints) - 1 :
           \E x \in Endpoints : Cardinality(Below(R, Endpoints, x)) = n
      /\ \A x, y \in Endpoints :
           Cardinality(Below(R, Endpoints, x)) = Cardinality(Below(R, Endpoints, y)) => x = y
  BY <1>1, <1>3, RanksAreOnto
<1> QED
  BY <1>4, <1>5 DEF Vertices

LEMMA LowerBounds ==
  ASSUME NEW s \in Seq(Int), \A i, j \in 1 .. Len(s) : i < j => s[i] < s[j],
         NEW S, Within(s) = S, NEW id \in Int
  PROVE  Cardinality({i \in DOMAIN s : s[i] < id}) = Cardinality({other \in S : other < id})
<1> DEFINE A == {i \in DOMAIN s : s[i] < id}
           B == {other \in S : other < id}
<1>1. /\ DOMAIN s = 1 .. Len(s) /\ Len(s) \in Nat
      /\ \A i \in 1 .. Len(s) : s[i] \in Int /\ i \in Int
  OBVIOUS
<1>2. IsFiniteSet(A)
  <2>1. IsFiniteSet(1 .. Len(s))
    BY <1>1, FS_Interval
  <2>2. A \subseteq 1 .. Len(s)
    BY <1>1
  <2> QED
    BY <2>1, <2>2, FS_Subset
<1>3. \A i \in A : s[i] \in B
  BY DEF Within
<1>4. \A b \in B : \E i \in A : s[i] = b
  BY DEF Within
<1>5. ASSUME NEW i \in A, NEW j \in A, s[i] = s[j] PROVE i = j
  <2>1. i \in 1 .. Len(s) /\ j \in 1 .. Len(s) /\ i \in Int /\ j \in Int
        /\ s[i] \in Int /\ s[j] \in Int
    BY <1>1
  <2>2. ~(i < j) /\ ~(j < i)
    BY <1>5, <2>1
  <2> QED
    BY <2>1, <2>2
<1> HIDE DEF A, B
<1>6. Cardinality(B) = Cardinality(A)
  BY <1>2, <1>3, <1>4, <1>5, EqualSizes
<1> QED
  BY <1>6 DEF A, B

LEMMA Dictionary ==
  ASSUME InputTyped, dictionary \in Seq(Endpoints), Within(dictionary) = Endpoints,
         Increases(dictionary, <)
  PROVE  /\ Len(dictionary) = Cardinality(Endpoints)
         /\ dictionary = InOrder(Endpoints, <)
         /\ \A id \in Endpoints : lower_bound(id) = Rank(id)
<1>1. Endpoints \subseteq Int
  BY EndpointsTyped
<1>2. dictionary \in Seq(Int)
  BY <1>1, SeqMonotonic
<1>3. \A i \in 1 .. Len(dictionary) - 1 : dictionary[i] < dictionary[i + 1]
  BY DEF Increases
<1>4. \A i, j \in 1 .. Len(dictionary) : i < j => dictionary[i] < dictionary[j]
  BY <1>2, <1>3, IncreasesThroughout
<1>5. Len(dictionary) = Cardinality(Endpoints) /\ dictionary = InOrder(Endpoints, <)
  BY <1>1, <1>4, AscendingInOrder
<1>6. ASSUME NEW id \in Endpoints PROVE lower_bound(id) = Rank(id)
  <2>1. id \in Int
    BY <1>1
  <2>2. Cardinality({i \in DOMAIN dictionary : dictionary[i] < id})
          = Cardinality({other \in Endpoints : other < id})
    BY <1>2, <1>4, <2>1, LowerBounds
  <2> QED
    BY <2>2 DEF lower_bound, Rank
<1> QED
  BY <1>5, <1>6

----------------------------------------------------------------------------
(* The edges.                                                              *)

CompactEdge == Vertices \X Vertices

\* The first n edges of the input, compact.
First(n) == {Uncompacted(input[k]) : k \in 1 .. n}
AllEdges == {Uncompacted(e) : e \in InputEdges}

\* What is read is in a run or in the chunk, and the chunk begins where the
\* runs end.
Reading ==
  /\ chunk \in Seq(CompactEdge) /\ next_raw_record \in 0 .. expected
  /\ next_raw_record - Len(chunk) = Smallest(Len(edge_files) * RawEdgesPerRun, expected)
  /\ Len(chunk) <= target_chunk_records
  /\ Compacted \union Within(chunk) = First(next_raw_record)

CompactInv ==
  /\ compact_place \in {"waiting", "reading", "committed", "done", "failed"}
  /\ compact_place # "done" => raw = input
  /\ expected = Len(input)
  /\ compact_place = "waiting" => edge_files = <<>> /\ chunk = <<>> /\ next_raw_record = 0
  /\ compact_place \notin {"waiting", "failed"} =>
       /\ id_place = "done" /\ dictionary = id_files[VertexIds]
       /\ Increases(dictionary, <)
  /\ edge_files \in Seq(Seq(CompactEdge)) /\ \A n \in DOMAIN edge_files : edge_files[n] # <<>>
  /\ compact_place = "reading" => Reading
  /\ compact_place \in {"committed", "done"} => Compacted = AllEdges
  /\ compact_place = "failed" => edge_files = <<>> \/ Compacted = AllEdges

LEMMA DictionaryTyped ==
  ASSUME IdInv, CompactInv, compact_place \notin {"waiting", "failed"}
  PROVE  /\ dictionary \in Seq(Endpoints) /\ Within(dictionary) = Endpoints
         /\ Increases(dictionary, <)
<1>1. id_place = "done" /\ dictionary = id_files[VertexIds] /\ Increases(dictionary, <)
  BY DEF CompactInv
<1>2. VertexIds \in DOMAIN id_files /\ Whole({VertexIds})
  BY <1>1 DEF IdInv, IdPlaces
<1>3. dictionary \in Seq(Endpoints)
  BY <1>1, <1>2 DEF IdInv, IdsTyped
<1>4. Within(dictionary) \subseteq Endpoints
  BY <1>3 DEF Within
<1> QED
  BY <1>1, <1>2, <1>3, <1>4 DEF Whole

LEMMA FirstTyped ==
  ASSUME InputTyped
  PROVE  /\ \A k \in 1 .. Len(input) : Uncompacted(input[k]) \in CompactEdge
         /\ First(Len(input)) = AllEdges
         /\ AllEdges \subseteq CompactEdge
<1>1. DOMAIN input = 1 .. Len(input)
      /\ \A i \in DOMAIN input : input[i][1] \in Endpoints /\ input[i][2] \in Endpoints
  BY EndpointsTyped
<1>2. \A k \in 1 .. Len(input) : Uncompacted(input[k]) \in CompactEdge
  BY <1>1, RanksOfEndpoints DEF Uncompacted, CompactEdge
<1>3. First(Len(input)) = AllEdges
  BY <1>1 DEF First, AllEdges, InputEdges
<1> QED
  BY <1>2, <1>3 DEF First

\* What depends on nothing but the input.
LEMMA InputStays ==
  ASSUME UNCHANGED input
  PROVE  /\ Endpoints' = Endpoints /\ Vertices' = Vertices /\ CompactEdge' = CompactEdge
         /\ AllEdges' = AllEdges /\ InputTyped' = InputTyped
         /\ \A n : First(n)' = First(n)
BY DEF Endpoints, Vertices, CompactEdge, AllEdges, InputTyped, First, Uncompacted, Rank,
       InputEdges

LEMMA CompactStarts ==
  ASSUME Init
  PROVE  CompactInv
<1>1. /\ raw = input /\ edge_files = <<>> /\ compact_place = "waiting"
      /\ chunk = <<>> /\ next_raw_record = 0 /\ expected = Len(input)
  BY DEF Init, CompactInit
<1>2. <<>> \in Seq(Seq(CompactEdge)) /\ DOMAIN <<>> = {}
  BY EmptySeq
<1> QED
  BY <1>1, <1>2 DEF CompactInv

\* The runs of identifiers do not change any more when the edges need them.
LEMMA CompactStutters ==
  ASSUME CompactInv, UNCHANGED <<input, compactVars>>,
         id_place = "done" => UNCHANGED <<id_place, id_files>>
  PROVE  CompactInv'
<1>1. UNCHANGED <<input, raw, edge_files, compact_place, dictionary, chunk,
                  next_raw_record, expected>>
  BY DEF compactVars
<1>2. CompactEdge' = CompactEdge /\ AllEdges' = AllEdges /\ \A n : First(n)' = First(n)
  BY <1>1, InputStays
<1>3. Compacted' = Compacted /\ target_chunk_records' = target_chunk_records
  BY <1>1 DEF Compacted, target_chunk_records
<1>4. Increases(dictionary, <)' <=> Increases(dictionary, <)
  BY <1>1 DEF Increases
<1>5. Reading => Reading'
  BY <1>1, <1>2, <1>3 DEF Reading, Within
<1>6. VertexIds' = VertexIds
  BY DEF VertexIds
<1> QED
  BY <1>1, <1>2, <1>3, <1>4, <1>5, <1>6 DEF CompactInv

LEMMA MergeIdentifiersKeeps ==
  ASSUME CompactInv, MergeIdentifiers
  PROVE  CompactInv'
<1>1. IdentifierNext /\ UNCHANGED <<input, compactVars>>
  BY DEF MergeIdentifiers
<1>2. id_place # "done"
  BY <1>1 DEF IdentifierNext, OpenIdGroup, MergeId, CloseIdGroup, VerifyIds, RetireIds,
              NextPass, IdentifiersFail
<1> QED
  BY <1>1, <1>2, CompactStutters

LEMMA StartCompactKeeps ==
  ASSUME IdInv, CompactInv, StartCompact
  PROVE  CompactInv'
<1>1. /\ id_place = "done" /\ compact_place = "waiting" /\ Increases(id_files[VertexIds], <)
      /\ dictionary' = id_files[VertexIds] /\ compact_place' = "reading"
      /\ UNCHANGED <<input, raw, edge_files, chunk, next_raw_record, expected,
                     id_place, id_files>>
  BY DEF StartCompact, LoadDictionary, idVars
<1>2. CompactEdge' = CompactEdge /\ AllEdges' = AllEdges
  BY <1>1, InputStays
<1>3. edge_files = <<>> /\ chunk = <<>> /\ next_raw_record = 0 /\ expected = Len(input)
      /\ raw = input
  BY <1>1 DEF CompactInv
<1>4. Increases(dictionary, <)' /\ VertexIds' = VertexIds
  BY <1>1 DEF Increases, VertexIds
<1>5. Reading'
  <2>1. Len(input) \in Nat \ {0} /\ RawEdgesPerRun \in Nat \ {0}
    BY EndpointsTyped, CompactAssumption DEF IdInv
  <2>2. chunk' = <<>> /\ edge_files' = <<>> /\ next_raw_record' = 0
        /\ expected' = Len(input)
    BY <1>1, <1>3
  <2>3. <<>> \in Seq(CompactEdge) /\ Len(<<>>) = 0
    BY EmptySeq
  <2>4. 0 - Len(<<>>) = Smallest(Len(<<>>) * RawEdgesPerRun, Len(input))
        /\ Len(<<>>) <= Smallest(Len(input) - (0 - Len(<<>>)), RawEdgesPerRun)
        /\ 0 \in 0 .. Len(input)
    BY <2>1, <2>3 DEF Smallest
  <2>5. target_chunk_records' = Smallest(Len(input) - (0 - Len(<<>>)), RawEdgesPerRun)
    BY <2>2 DEF target_chunk_records
  <2>6. Compacted' = {} /\ Within(<<>>) = {}
    BY <2>2 DEF Compacted, Within
  <2>7. Compacted' \union Within(chunk') = First(next_raw_record)'
    <3>1. First(next_raw_record)' = {}
      BY <2>2 DEF First
    <3> QED
      BY <2>2, <2>6, <3>1
  <2>8. chunk' \in Seq(CompactEdge') /\ next_raw_record' \in 0 .. expected'
    BY <1>2, <2>2, <2>3, <2>4
  <2>9. next_raw_record' - Len(chunk') = Smallest(Len(edge_files') * RawEdgesPerRun, expected')
        /\ Len(chunk') <= target_chunk_records'
    BY <2>2, <2>4, <2>5
  <2> QED
    BY <2>7, <2>8, <2>9 DEF Reading, Within
<1>6. edge_files' \in Seq(Seq(CompactEdge')) /\ \A n \in DOMAIN edge_files' : edge_files'[n] # <<>>
  BY <1>1, <1>2 DEF CompactInv
<1> QED
  BY <1>1, <1>3, <1>4, <1>5, <1>6 DEF CompactInv

\* A batch is the next part of the input, compact.
LEMMA BatchIsCompact ==
  ASSUME IdInv, CompactInv, compact_place = "reading", NEW k \in 1 .. Len(input)
  PROVE  Compact(input[k]) = Uncompacted(input[k])
<1>1. input[k][1] \in Endpoints /\ input[k][2] \in Endpoints
  BY EndpointsTyped DEF IdInv
<1>2. /\ dictionary \in Seq(Endpoints) /\ Within(dictionary) = Endpoints
      /\ Increases(dictionary, <)
  BY DictionaryTyped
<1>3. \A id \in Endpoints : lower_bound(id) = Rank(id)
  BY <1>2, Dictionary DEF IdInv
<1> QED
  BY <1>1, <1>3 DEF Compact, Uncompacted

LEMMA FirstGrows ==
  ASSUME NEW n \in Nat, NEW r \in Nat
  PROVE  First(n + r) = First(n) \union {Uncompacted(input[n + i]) : i \in 1 .. r}
<1>1. 1 .. n + r = (1 .. n) \union {n + i : i \in 1 .. r}
  <2>1. \A k \in 1 .. n + r : k \notin 1 .. n => k - n \in 1 .. r /\ k = n + (k - n)
    OBVIOUS
  <2>2. \A i \in 1 .. r : n + i \in 1 .. n + r
    OBVIOUS
  <2>3. 1 .. n \subseteq 1 .. n + r
    OBVIOUS
  <2> QED
    BY <2>1, <2>2, <2>3
<1> QED
  BY <1>1 DEF First

LEMMA Cut ==
  ASSUME NEW S, NEW s \in Seq(S), NEW n \in Nat, NEW r \in Nat, n + r <= Len(s)
  PROVE  /\ SubSeq(s, n + 1, n + r) \in Seq(S) /\ Len(SubSeq(s, n + 1, n + r)) = r
         /\ DOMAIN SubSeq(s, n + 1, n + r) = 1 .. r
         /\ \A i \in 1 .. r : SubSeq(s, n + 1, n + r)[i] = s[n + i]
<1>1. PICK a, b : a = n + 1 /\ b = n + r
  OBVIOUS
<1>2. a \in Int /\ b \in Int /\ b - a + 1 = r /\ (a <= b <=> r # 0)
      /\ \A i \in a .. b : i \in 1 .. Len(s)
  BY <1>1
<1>3. \A i \in a .. b : s[i] \in S
  BY <1>2
<1>4. PICK t : t = SubSeq(s, a, b)
  OBVIOUS
<1>5. /\ t \in Seq(S) /\ Len(t) = IF a <= b THEN b - a + 1 ELSE 0
      /\ \A i \in 1 .. b - a + 1 : t[i] = s[a + i - 1]
  BY <1>2, <1>3, <1>4, SubSeqProperties
<1>6. Len(t) = r
  <2>1. PICK k : k = Len(t)
    OBVIOUS
  <2>2. k = IF a <= b THEN b - a + 1 ELSE 0
    BY <1>5, <2>1
  <2>3. k = r
    BY ONLY <1>2, <2>2
  <2> QED
    BY <2>1, <2>3
<1>7. DOMAIN t = 1 .. r
  BY <1>5, <1>6
<1>8. \A i \in 1 .. r : a + i - 1 = n + i
  BY <1>1
<1>9. \A i \in 1 .. r : t[i] = s[n + i]
  BY <1>2, <1>5, <1>8
<1> QED
  BY <1>1, <1>4, <1>5, <1>6, <1>7, <1>9

LEMMA ConcatWithin ==
  ASSUME NEW S, NEW s \in Seq(S), NEW r \in Nat, NEW t, DOMAIN t = 1 .. r,
         t \in Seq(S)
  PROVE  /\ s \o t \in Seq(S) /\ Len(s \o t) = Len(s) + r
         /\ Within(s \o t) = Within(s) \union {t[i] : i \in 1 .. r}
<1>1. s \o t \in Seq(S) /\ Len(s) \in Nat /\ DOMAIN s = 1 .. Len(s)
  OBVIOUS
<1>2. Len(t) = r
  OBVIOUS
<1>3. /\ Len(s \o t) = Len(s) + r
      /\ \A i \in 1 .. Len(s) + r : (s \o t)[i] = IF i <= Len(s) THEN s[i] ELSE t[i - Len(s)]
  <2>1. /\ Len(s \o t) = Len(s) + Len(t)
        /\ \A i \in 1 .. Len(s) + Len(t) :
             (s \o t)[i] = IF i <= Len(s) THEN s[i] ELSE t[i - Len(s)]
    BY ConcatProperties, Zenon
  <2> QED
    BY <1>2, <2>1, Zenon
<1>4. PICK u, m : u = s \o t /\ m = Len(s)
  OBVIOUS
<1>5. /\ DOMAIN u = 1 .. m + r /\ m \in Nat /\ DOMAIN s = 1 .. m
      /\ \A i \in 1 .. m + r : u[i] = IF i <= m THEN s[i] ELSE t[i - m]
  <2>1. DOMAIN u = 1 .. Len(u)
    BY <1>1, <1>4
  <2> QED
    BY <1>1, <1>3, <1>4, <2>1, Zenon
<1>6. {u[i] : i \in 1 .. m + r} = {s[i] : i \in 1 .. m} \union {t[i] : i \in 1 .. r}
  <2>1. \A i \in 1 .. m + r : i \notin 1 .. m => i - m \in 1 .. r /\ u[i] = t[i - m]
    BY <1>5
  <2>2. \A i \in 1 .. m : i \in 1 .. m + r /\ u[i] = s[i]
    BY <1>5
  <2>3. \A i \in 1 .. r : m + i \in 1 .. m + r /\ u[m + i] = t[i]
    <3>1. ASSUME NEW i \in 1 .. r PROVE m + i \in 1 .. m + r /\ u[m + i] = t[i]
      <4>1. m + i \in 1 .. m + r /\ ~(m + i <= m) /\ (m + i) - m = i
        BY <1>5
      <4> QED
        BY <1>5, <4>1
    <3> QED
      BY <3>1
  <2> QED
    BY <2>1, <2>2, <2>3
<1> QED
  BY <1>1, <1>3, <1>4, <1>5, <1>6 DEF Within

\* How much is read, and how much a run takes.
LEMMA Requests ==
  ASSUME InputTyped, CompactInv, compact_place = "reading"
  PROVE  /\ expected \in Nat \ {0} /\ Len(chunk) \in Nat /\ next_raw_record \in Nat
         /\ Len(edge_files) \in Nat
         /\ Len(edge_files) * RawEdgesPerRun \in Nat
         /\ target_chunk_records
              = Smallest(expected - (next_raw_record - Len(chunk)), RawEdgesPerRun)
         /\ Len(chunk) <= target_chunk_records
         /\ next_raw_record - Len(chunk)
              = Smallest(Len(edge_files) * RawEdgesPerRun, expected)
<1>1. Len(input) \in Nat \ {0} /\ RawEdgesPerRun \in Nat
  BY EndpointsTyped, CompactAssumption
<1>2. chunk \in Seq(CompactEdge) /\ edge_files \in Seq(Seq(CompactEdge))
  BY DEF CompactInv, Reading
<1>3. Len(chunk) \in Nat /\ Len(edge_files) \in Nat
  BY <1>2
<1>4. Len(edge_files) * RawEdgesPerRun \in Nat
  BY <1>1, <1>3, Products
<1>5. expected \in Nat \ {0} /\ next_raw_record \in Nat
  <2>1. expected = Len(input) /\ Reading
    BY DEF CompactInv
  <2>2. next_raw_record \in 0 .. expected
    BY <2>1 DEF Reading
  <2> QED
    BY <1>1, <2>1, <2>2
<1>6. Len(chunk) <= target_chunk_records
      /\ next_raw_record - Len(chunk) = Smallest(Len(edge_files) * RawEdgesPerRun, expected)
  BY DEF CompactInv, Reading
<1> QED
  BY <1>3, <1>4, <1>5, <1>6 DEF target_chunk_records

\* The batch that is read next is the next part of the input.
LEMMA NextBatch ==
  ASSUME IdInv, CompactInv, compact_place = "reading", Len(chunk) < target_chunk_records
  PROVE  /\ request_records \in Nat \ {0} /\ next_raw_record \in Nat
         /\ next_raw_record + request_records <= expected
         /\ Len(chunk) + request_records <= target_chunk_records
         /\ DOMAIN batch = 1 .. request_records
         /\ \A i \in 1 .. request_records :
              /\ next_raw_record + i \in 1 .. Len(input)
              /\ batch[i] = input[next_raw_record + i]
<1>1. InputTyped /\ Reading /\ raw = input /\ expected = Len(input)
  <2>1. InputTyped
    BY DEF IdInv
  <2>2. Reading /\ raw = input /\ expected = Len(input)
    BY DEF CompactInv
  <2> QED
    BY <2>1, <2>2
<1>2. PICK n, r, c, t : n = next_raw_record /\ r = request_records /\ c = Len(chunk)
                        /\ t = target_chunk_records
  OBVIOUS
<1>3. /\ expected \in Nat \ {0} /\ c \in Nat /\ n \in Nat
      /\ t = Smallest(expected - (n - c), RawEdgesPerRun) /\ c < t
      /\ r = Smallest(RawIoRecords, t - c) /\ n \in 0 .. expected
      /\ RawEdgesPerRun \in Nat \ {0} /\ RawIoRecords \in Nat \ {0}
  <2>1. expected \in Nat \ {0} /\ Len(chunk) \in Nat /\ next_raw_record \in Nat
        /\ target_chunk_records
             = Smallest(expected - (next_raw_record - Len(chunk)), RawEdgesPerRun)
    BY <1>1, Requests
  <2> QED
    BY <1>1, <1>2, <2>1, CompactAssumption DEF request_records, Reading
<1>4. r \in Nat \ {0} /\ n + r <= expected /\ c + r <= t
  BY ONLY <1>3 DEF Smallest
<1>5. batch = SubSeq(input, n + 1, n + r)
  BY <1>1, <1>2 DEF batch
<1>6. DOMAIN batch = 1 .. r /\ \A i \in 1 .. r : batch[i] = input[n + i]
  <2>1. PICK S, s : S = Int \X Int /\ s = input
    OBVIOUS
  <2>2. n + r <= Len(s) /\ n \in Nat /\ r \in Nat /\ s \in Seq(S)
    BY <1>1, <1>3, <1>4, <2>1, EndpointsTyped
  <2>3. /\ DOMAIN SubSeq(s, n + 1, n + r) = 1 .. r
        /\ \A i \in 1 .. r : SubSeq(s, n + 1, n + r)[i] = s[n + i]
    BY ONLY <2>2, Cut
  <2>4. batch = SubSeq(s, n + 1, n + r)
    BY <1>5, <2>1
  <2>5. DOMAIN batch = 1 .. r /\ \A i \in 1 .. r : batch[i] = s[n + i]
    BY ONLY <2>3, <2>4
  <2> QED
    BY ONLY <2>1, <2>5
<1>7. \A i \in 1 .. r : n + i \in 1 .. Len(input)
  BY <1>1, <1>3, <1>4
<1> QED
  BY <1>2, <1>3, <1>4, <1>6, <1>7

LEMMA ReadBatchKeeps ==
  ASSUME IdInv, CompactInv, ReadBatch, UNCHANGED <<input, idVars>>
  PROVE  CompactInv'
<1>1. /\ compact_place = "reading" /\ Len(chunk) < target_chunk_records
      /\ chunk' = chunk \o [i \in DOMAIN batch |-> Compact(batch[i])]
      /\ next_raw_record' = next_raw_record + request_records
      /\ UNCHANGED <<input, raw, edge_files, compact_place, dictionary, expected,
                     id_place, id_files>>
  BY DEF ReadBatch, idVars
<1>2. InputTyped /\ Reading /\ raw = input /\ expected = Len(input)
  <2>1. InputTyped
    BY DEF IdInv
  <2>2. Reading /\ raw = input /\ expected = Len(input)
    BY <1>1 DEF CompactInv
  <2> QED
    BY <2>1, <2>2
<1>3. PICK n, r, c, t : n = next_raw_record /\ r = request_records /\ c = Len(chunk)
                        /\ t = target_chunk_records
  OBVIOUS
<1>4. /\ expected \in Nat \ {0} /\ c \in Nat /\ n \in Nat /\ n \in 0 .. expected
      /\ t = Smallest(expected - (n - c), RawEdgesPerRun)
  <2>1. expected \in Nat \ {0} /\ Len(chunk) \in Nat /\ next_raw_record \in Nat
        /\ target_chunk_records
             = Smallest(expected - (next_raw_record - Len(chunk)), RawEdgesPerRun)
    BY <1>1, <1>2, Requests
  <2> QED
    BY <1>2, <1>3, <2>1 DEF Reading
<1>5. r \in Nat \ {0} /\ n + r <= expected /\ c + r <= t
  BY <1>1, <1>3, NextBatch
<1>6. DOMAIN batch = 1 .. r /\ \A i \in 1 .. r : batch[i] = input[n + i]
  BY <1>1, <1>3, NextBatch
<1>7. \A i \in 1 .. r : n + i \in 1 .. Len(input)
  BY <1>1, <1>3, NextBatch
<1>10. \A i \in 1 .. r : Compact(batch[i]) = Uncompacted(input[n + i])
  BY <1>1, <1>6, <1>7, BatchIsCompact
<1>11. PICK new : new = [i \in 1 .. r |-> Uncompacted(input[n + i])]
  OBVIOUS
<1>12. [i \in DOMAIN batch |-> Compact(batch[i])] = new
  BY <1>6, <1>10, <1>11
<1>13. \A i \in 1 .. r : new[i] = Uncompacted(input[n + i]) /\ new[i] \in CompactEdge
  BY <1>2, <1>7, <1>11, FirstTyped
<1>14. new \in Seq(CompactEdge) /\ DOMAIN new = 1 .. r
  <2>1. DOMAIN new = 1 .. r /\ new = [i \in 1 .. r |-> new[i]]
    BY <1>11
  <2> QED
    BY <1>5, <1>13, <2>1, IsASeq
<1>15. chunk \in Seq(CompactEdge)
  BY <1>2 DEF Reading
<1>16. /\ chunk' \in Seq(CompactEdge) /\ Len(chunk') = c + r
       /\ Within(chunk') = Within(chunk) \union {new[i] : i \in 1 .. r}
  <2>1. chunk' = chunk \o new
    BY <1>1, <1>12
  <2>2. PICK S, s : S = CompactEdge /\ s = chunk
    OBVIOUS
  <2>3. s \in Seq(S) /\ new \in Seq(S) /\ DOMAIN new = 1 .. r /\ r \in Nat
    BY <1>5, <1>14, <1>15, <2>2
  <2>4. /\ s \o new \in Seq(S) /\ Len(s \o new) = Len(s) + r
        /\ Within(s \o new) = Within(s) \union {new[i] : i \in 1 .. r}
    BY ONLY <2>3, ConcatWithin
  <2>5. Len(s) = c
    BY <1>3, <2>2
  <2> QED
    BY ONLY <2>1, <2>2, <2>4, <2>5
<1>17. CompactEdge' = CompactEdge /\ AllEdges' = AllEdges /\ \A k : First(k)' = First(k)
  BY <1>1, InputStays
<1>18. Compacted' = Compacted
  BY <1>1 DEF Compacted
<1>19. First(next_raw_record)' = First(n + r)
  BY <1>1, <1>3 DEF First, Uncompacted, Rank, Endpoints
<1>20. First(n + r) = First(n) \union {new[i] : i \in 1 .. r}
  <2>1. First(n + r) = First(n) \union {Uncompacted(input[n + i]) : i \in 1 .. r}
    BY <1>4, <1>5, FirstGrows
  <2>2. {Uncompacted(input[n + i]) : i \in 1 .. r} = {new[i] : i \in 1 .. r}
    BY <1>13
  <2> QED
    BY <2>1, <2>2
<1>21. Compacted \union Within(chunk) = First(n)
  BY <1>2, <1>3 DEF Reading
<1>22. (Compacted \union Within(chunk) = First(next_raw_record))'
  <2>1. Within(chunk)' = Within(chunk')
    BY DEF Within
  <2> QED
    BY <1>16, <1>18, <1>19, <1>20, <1>21, <2>1
<1>23. next_raw_record' = n + r /\ expected' = expected /\ (n + r) - (c + r) = n - c
       /\ n + r \in 0 .. expected
  <2>1. (n + r) - (c + r) = n - c /\ n + r \in 0 .. expected
    BY ONLY <1>4, <1>5
  <2> QED
    BY <1>1, <1>3, <2>1
<1>24. target_chunk_records' = t
  <2>1. target_chunk_records' = Smallest(expected - ((n + r) - (c + r)), RawEdgesPerRun)
    BY <1>16, <1>23 DEF target_chunk_records
  <2> QED
    BY <1>4, <1>23, <2>1
<1>25. next_raw_record' - Len(chunk')
         = Smallest(Len(edge_files') * RawEdgesPerRun, expected')
  BY <1>1, <1>2, <1>3, <1>16, <1>23 DEF Reading
<1>26. Len(chunk)' <= target_chunk_records'
  BY <1>5, <1>16, <1>24
<1>27. Reading'
  BY <1>16, <1>17, <1>22, <1>23, <1>25, <1>26 DEF Reading
<1>28. Increases(dictionary, <)' <=> Increases(dictionary, <)
  BY <1>1 DEF Increases
<1>29. VertexIds' = VertexIds
  BY DEF VertexIds
<1> QED
  BY <1>1, <1>17, <1>18, <1>27, <1>28, <1>29 DEF CompactInv

LEMMA AppendCompacted ==
  ASSUME NEW T, edge_files \in Seq(T), NEW run \in T, edge_files' = Append(edge_files, run)
  PROVE  Compacted' = Compacted \union Within(run)
<1>1. PICK l : l = Len(edge_files)
  OBVIOUS
<1>2. l \in Nat /\ DOMAIN edge_files = 1 .. l
  BY <1>1
<1>3. DOMAIN edge_files' = 1 .. l + 1 /\ edge_files'[l + 1] = run
      /\ \A n \in 1 .. l : edge_files'[n] = edge_files[n]
  BY <1>1, AppendProperties
<1>4. 1 .. l + 1 = (1 .. l) \union {l + 1}
  BY <1>2
<1>5. Compacted = UNION {Within(edge_files[n]) : n \in 1 .. l}
  BY <1>2 DEF Compacted, Within
<1>6. Compacted' = UNION {Within(edge_files'[n]) : n \in 1 .. l + 1}
  BY <1>3 DEF Compacted, Within
<1> QED
  BY <1>3, <1>4, <1>5, <1>6

LEMMA WriteEdgeRunKeeps ==
  ASSUME IdInv, CompactInv, WriteEdgeRun, UNCHANGED <<input, idVars>>
  PROVE  CompactInv'
<1>1. /\ compact_place = "reading" /\ chunk # <<>> /\ Len(chunk) = target_chunk_records
      /\ edge_files' = Append(edge_files, Distinct(chunk)) /\ chunk' = <<>>
      /\ UNCHANGED <<input, raw, compact_place, dictionary, next_raw_record, expected,
                     id_place, id_files>>
  BY DEF WriteEdgeRun, idVars
<1>2. InputTyped /\ Reading /\ raw = input /\ expected = Len(input)
      /\ edge_files \in Seq(Seq(CompactEdge)) /\ \A n \in DOMAIN edge_files : edge_files[n] # <<>>
  BY <1>1 DEF CompactInv, IdInv
<1>3. PICK run, l : run = Distinct(chunk) /\ l = Len(edge_files)
  OBVIOUS
<1>4. chunk \in Seq(CompactEdge)
  BY <1>2 DEF Reading
<1>5. run \in Seq(CompactEdge) /\ run # <<>> /\ Within(run) = Within(chunk)
  <2>1. Within(chunk) \subseteq CompactEdge /\ IsFiniteSet(Within(chunk))
    <3>1. DOMAIN chunk = 1 .. Len(chunk) /\ Len(chunk) \in Nat
      BY <1>4
    <3> QED
      BY <1>4, <3>1, MembersOfList DEF Within
  <2>2. CompactEdge \subseteq Int \X Int
    <3>1. Vertices \subseteq Int
      BY DEF Vertices
    <3> QED
      BY <3>1 DEF CompactEdge
  <2>3. run = InOrder(Within(chunk), EdgeBefore)
    BY <1>3 DEF Distinct, Within
  <2>4. run \in Seq(Within(chunk)) /\ Within(run) = Within(chunk)
    BY <2>1, <2>2, <2>3, EdgesInOrder
  <2>5. run \in Seq(CompactEdge)
    BY <2>1, <2>4, SeqMonotonic
  <2>6. Within(chunk) # {}
    <3>1. 1 \in DOMAIN chunk
      BY <1>1, <1>4, EmptySeq
    <3> QED
      BY <3>1 DEF Within
  <2>7. Within(<<>>) = {}
    BY DEF Within
  <2>8. run # <<>>
    BY <2>4, <2>6, <2>7
  <2> QED
    BY <2>4, <2>5, <2>8
<1>6. Compacted' = Compacted \union Within(chunk)
  BY <1>1, <1>2, <1>3, <1>5, AppendCompacted
<1>7. edge_files' \in Seq(Seq(CompactEdge)) /\ Len(edge_files') = l + 1
      /\ \A n \in DOMAIN edge_files' : edge_files'[n] # <<>>
  <2>1. edge_files' = Append(edge_files, run)
    BY <1>1, <1>3
  <2>2. /\ edge_files' \in Seq(Seq(CompactEdge)) /\ Len(edge_files') = l + 1
        /\ edge_files'[l + 1] = run /\ \A n \in 1 .. l : edge_files'[n] = edge_files[n]
        /\ DOMAIN edge_files' = 1 .. l + 1 /\ DOMAIN edge_files = 1 .. l /\ l \in Nat
    BY <1>2, <1>3, <1>5, <2>1, AppendProperties
  <2>3. \A n \in 1 .. l + 1 : n \in 1 .. l \/ n = l + 1
    BY <2>2
  <2> QED
    BY <1>2, <1>5, <2>2, <2>3
<1>8. CompactEdge' = CompactEdge /\ \A k : First(k)' = First(k)
  BY <1>1, InputStays
<1>9. Reading'
  <2>1. Within(chunk') = {} /\ chunk' \in Seq(CompactEdge) /\ Len(chunk') = 0
    BY <1>1, EmptySeq DEF Within
  <2>2. First(next_raw_record)' = First(next_raw_record)
    BY <1>1 DEF First, Uncompacted, Rank, Endpoints
  <2>3. (Compacted \union Within(chunk) = First(next_raw_record))'
    <3>1. Within(chunk)' = Within(chunk')
      BY DEF Within
    <3> QED
      BY <1>2, <1>6, <2>1, <2>2, <3>1 DEF Reading
  <2>4. PICK n, c, t, a : n = next_raw_record /\ c = Len(chunk) /\ t = target_chunk_records
                          /\ a = l * RawEdgesPerRun
    OBVIOUS
  <2>5. /\ expected \in Nat \ {0} /\ c \in Nat /\ n \in Nat /\ a \in Nat /\ l \in Nat
        /\ t = Smallest(expected - (n - c), RawEdgesPerRun) /\ c = t
        /\ n - c = Smallest(a, expected)
    BY <1>1, <1>2, <1>3, <2>4, Requests
  <2>6. c # 0
    <3>1. Len(chunk) # 0
      BY <1>1, <1>4, EmptySeq
    <3> QED
      BY <2>4, <3>1
  <2>7. (l + 1) * RawEdgesPerRun = a + RawEdgesPerRun /\ RawEdgesPerRun \in Nat \ {0}
    BY <2>4, <2>5, Products, CompactAssumption
  <2>8. n = Smallest(a + RawEdgesPerRun, expected) /\ n \in 0 .. expected
        /\ 0 <= Smallest(expected - n, RawEdgesPerRun)
    BY ONLY <2>5, <2>6, <2>7 DEF Smallest
  <2>9. n - 0 = n /\ next_raw_record' = n /\ expected' = expected
    BY <1>1, <2>4, <2>5
  <2>10. target_chunk_records' = Smallest(expected - n, RawEdgesPerRun)
    BY <2>1, <2>9 DEF target_chunk_records
  <2>11. next_raw_record' - Len(chunk') = Smallest(Len(edge_files') * RawEdgesPerRun, expected')
         /\ Len(chunk') <= target_chunk_records' /\ next_raw_record' \in 0 .. expected'
    BY <1>7, <2>1, <2>7, <2>8, <2>9, <2>10
  <2>12. chunk' \in Seq(CompactEdge')
    BY <1>8, <2>1
  <2> QED
    BY <2>3, <2>11, <2>12 DEF Reading
<1>10. Increases(dictionary, <)' <=> Increases(dictionary, <)
  BY <1>1 DEF Increases
<1>11. VertexIds' = VertexIds
  BY DEF VertexIds
<1> QED
  BY <1>1, <1>7, <1>8, <1>9, <1>10, <1>11 DEF CompactInv

LEMMA VerifyEdgeRunsKeeps ==
  ASSUME IdInv, CompactInv, VerifyEdgeRuns, UNCHANGED <<input, idVars>>
  PROVE  CompactInv'
<1>1. /\ compact_place = "reading" /\ Len(edge_files) = run_count
      /\ next_raw_record = expected /\ compact_place' = "committed"
      /\ UNCHANGED <<input, raw, edge_files, dictionary, chunk, next_raw_record, expected,
                     id_place, id_files>>
  BY DEF VerifyEdgeRuns, EdgeRunsVerified, idVars
<1>2. InputTyped /\ Reading /\ expected = Len(input)
  BY <1>1 DEF CompactInv, IdInv
<1>3. PICK c, a : c = Len(chunk) /\ a = run_count * RawEdgesPerRun
  OBVIOUS
<1>4. expected \in Nat \ {0} /\ c \in Nat /\ a \in Nat
      /\ expected - c = Smallest(a, expected)
  BY <1>1, <1>2, <1>3, Requests
<1>5. expected <= a
  <2>1. IsCeiling(run_count, expected, RawEdgesPerRun)
    BY <1>4, CeilingDivides, CompactAssumption DEF run_count
  <2> QED
    BY <1>3, <2>1 DEF IsCeiling
<1>6. c = 0
  BY ONLY <1>4, <1>5 DEF Smallest
<1>7. chunk = <<>>
  <2>1. chunk \in Seq(CompactEdge)
    BY <1>2 DEF Reading
  <2> QED
    BY <1>3, <1>6, <2>1, EmptySeq
<1>8. Compacted = AllEdges
  <2>1. Within(chunk) = {}
    BY <1>7 DEF Within
  <2>2. Compacted = First(Len(input))
    BY <1>1, <1>2, <2>1 DEF Reading
  <2> QED
    BY <1>2, <2>2, FirstTyped
<1>9. CompactEdge' = CompactEdge /\ AllEdges' = AllEdges
  BY <1>1, InputStays
<1>10. Compacted' = Compacted
  BY <1>1 DEF Compacted
<1>11. Increases(dictionary, <)' <=> Increases(dictionary, <)
  BY <1>1 DEF Increases
<1>12. VertexIds' = VertexIds
  BY DEF VertexIds
<1> QED
  BY <1>1, <1>8, <1>9, <1>10, <1>11, <1>12 DEF CompactInv

LEMMA RetireRawKeeps ==
  ASSUME IdInv, CompactInv, RetireRaw, UNCHANGED <<input, idVars>>
  PROVE  CompactInv'
<1>1. /\ compact_place = "committed" /\ compact_place' = "done"
      /\ UNCHANGED <<input, edge_files, dictionary, chunk, next_raw_record, expected,
                     id_place, id_files>>
  BY DEF RetireRaw, idVars
<1>2. CompactEdge' = CompactEdge /\ AllEdges' = AllEdges
  BY <1>1, InputStays
<1>3. Compacted' = Compacted
  BY <1>1 DEF Compacted
<1>4. Increases(dictionary, <)' <=> Increases(dictionary, <)
  BY <1>1 DEF Increases
<1>5. VertexIds' = VertexIds
  BY DEF VertexIds
<1> QED
  BY <1>1, <1>2, <1>3, <1>4, <1>5 DEF CompactInv

LEMMA EdgeRunsFailKeeps ==
  ASSUME IdInv, CompactInv, EdgeRunsFail, UNCHANGED <<input, idVars>>
  PROVE  CompactInv'
<1>1. /\ compact_place \in {"waiting", "reading", "committed"}
      /\ edge_files' = IF compact_place = "committed" THEN edge_files ELSE <<>>
      /\ compact_place' = "failed"
      /\ UNCHANGED <<input, raw, dictionary, chunk, next_raw_record, expected>>
  BY DEF EdgeRunsFail, idVars
<1>2. CompactEdge' = CompactEdge /\ AllEdges' = AllEdges
  BY <1>1, InputStays
<1>3. raw' = input' /\ expected' = Len(input')
  BY <1>1 DEF CompactInv
<1>4. CASE compact_place = "committed"
  <2>1. Compacted' = Compacted /\ edge_files' = edge_files
    BY <1>1, <1>4 DEF Compacted
  <2> QED
    BY <1>1, <1>2, <1>3, <1>4, <2>1 DEF CompactInv
<1>5. CASE compact_place # "committed"
  <2>1. edge_files' = <<>> /\ <<>> \in Seq(Seq(CompactEdge)) /\ DOMAIN <<>> = {}
    BY <1>1, <1>5, EmptySeq
  <2> QED
    BY <1>1, <1>2, <1>3, <2>1 DEF CompactInv
<1> QED
  BY <1>4, <1>5

LEMMA EdgesSurviveHere ==
  ASSUME CompactInv
  PROVE  EdgesSurvive
<1>1. AllEdges = {Uncompacted(e) : e \in InputEdges}
  BY DEF AllEdges
<1> QED
  BY <1>1 DEF CompactInv, EdgesSurvive

PhasesInv == IdInv /\ CompactInv

LEMMA PhasesStart ==
  ASSUME Init
  PROVE  PhasesInv
BY IdInvStarts, CompactStarts DEF PhasesInv

LEMMA PhasesStutter ==
  ASSUME PhasesInv, UNCHANGED <<input, idVars, compactVars>>
  PROVE  PhasesInv'
<1>1. UNCHANGED <<input, idVars>> /\ UNCHANGED <<input, compactVars>>
      /\ UNCHANGED <<id_place, id_files>>
  BY DEF idVars
<1>2. IdInv'
  BY <1>1, IdInvStutters DEF PhasesInv
<1>3. CompactInv'
  BY <1>1, CompactStutters DEF PhasesInv
<1> QED
  BY <1>2, <1>3 DEF PhasesInv

LEMMA PhasesKept ==
  ASSUME PhasesInv, [Next]_vars
  PROVE  PhasesInv'
<1>1. CASE MergeIdentifiers
  <2>1. IdentifierNext /\ UNCHANGED input
    BY <1>1 DEF MergeIdentifiers
  <2>2. IdInv'
    BY <2>1, IdentifierNextKeeps DEF PhasesInv
  <2>3. CompactInv'
    BY <1>1, MergeIdentifiersKeeps DEF PhasesInv
  <2> QED
    BY <2>2, <2>3 DEF PhasesInv
<1>2. CASE StartCompact
  <2>1. UNCHANGED <<input, idVars>>
    BY <1>2 DEF StartCompact
  <2>2. IdInv'
    BY <2>1, IdInvStutters DEF PhasesInv
  <2>3. CompactInv'
    BY <1>2, StartCompactKeeps DEF PhasesInv
  <2> QED
    BY <2>2, <2>3 DEF PhasesInv
<1>3. CASE CompactEdges
  <2>1. CompactNext /\ UNCHANGED <<input, idVars>>
    BY <1>3 DEF CompactEdges
  <2>2. IdInv'
    BY <2>1, IdInvStutters DEF PhasesInv
  <2>3. CompactInv'
    BY <2>1, ReadBatchKeeps, WriteEdgeRunKeeps, VerifyEdgeRunsKeeps, RetireRawKeeps,
       EdgeRunsFailKeeps DEF PhasesInv, CompactNext
  <2> QED
    BY <2>2, <2>3 DEF PhasesInv
<1>4. CASE StartBuild \/ BuildGraph \/ UNCHANGED vars
  <2>1. UNCHANGED <<input, idVars, compactVars>>
    BY <1>4 DEF StartBuild, BuildGraph, vars
  <2> QED
    BY <2>1, PhasesStutter
<1> QED
  BY <1>1, <1>2, <1>3, <1>4 DEF Next

\* Wherever the phases stop, the input can be had from what is left: a set of
\* runs that is complete holds every endpoint until the dictionary is left,
\* and the edges are in raw_edges.bin or in runs that hold them all.
THEOREM InputAlwaysSurvives == Spec => []InputSurvives
<1>1. Init => PhasesInv
  BY PhasesStart
<1>2. PhasesInv /\ [Next]_vars => PhasesInv'
  BY PhasesKept
<1>3. PhasesInv => InputSurvives
  BY IdentifiersSurviveHere, EdgesSurviveHere DEF PhasesInv, InputSurvives
<1> QED
  BY <1>1, <1>2, <1>3, PTL DEF Spec

----------------------------------------------------------------------------
(* The stream of edges.                                                    *)

\* The first n edges of the stream ascend.
StreamAscends(out, n) ==
  \A j, k \in 1 .. n : j < k => EdgeBefore(out[j], out[k])

\* The counts of the first destinations say where their edges end among the
\* first n, and what is left of these enters the current destination.
Tally(counts, out, n, destination, count) ==
  /\ counts \in Seq(Nat) /\ count \in Nat
  /\ destination = IF n = 0 THEN None ELSE out[n][1]
  /\ \A v \in 0 .. Len(counts) :
       /\ EdgesBefore(counts, v) <= n
       /\ \A k \in 1 .. n : out[k][1] < v <=> k <= EdgesBefore(counts, v)
  /\ EdgesBefore(counts, Len(counts))
       + (IF destination = Len(counts) THEN count ELSE 0) = n

Leaving(out, n, v) == {k \in 1 .. n : out[k][2] = v - 1}

\* The out-degrees among the first n edges.
Degrees(degrees, out, n, size) ==
  /\ degrees = [v \in 1 .. size |-> degrees[v]]
  /\ \A v \in 1 .. size :
       degrees[v] \in Nat /\ degrees[v] = Cardinality(Leaving(out, n, v))

LEMMA StreamTyped ==
  ASSUME InputTyped, NEW out \in Seq(CompactEdge)
  PROVE  /\ Len(out) \in Nat /\ DOMAIN out = 1 .. Len(out)
         /\ Cardinality(Endpoints) \in Nat
         /\ \A k \in 1 .. Len(out) :
              /\ out[k] = <<out[k][1], out[k][2]>>
              /\ out[k][1] \in 0 .. Cardinality(Endpoints) - 1
              /\ out[k][2] \in 0 .. Cardinality(Endpoints) - 1
<1>1. Len(out) \in Nat /\ DOMAIN out = 1 .. Len(out)
  OBVIOUS
<1>2. \A k \in 1 .. Len(out) : out[k] \in CompactEdge
  OBVIOUS
<1>3. \A e \in CompactEdge : /\ e = <<e[1], e[2]>>
                             /\ e[1] \in 0 .. Cardinality(Endpoints) - 1
                             /\ e[2] \in 0 .. Cardinality(Endpoints) - 1
  BY DEF CompactEdge, Vertices
<1> QED
  BY <1>1, <1>2, <1>3, RanksOfEndpoints

LEMMA TallyReads ==
  ASSUME NEW counts, NEW out, NEW n \in Nat, NEW destination, NEW count,
         Tally(counts, out, n, destination, count),
         NEW more, \A k \in 1 .. n : more[k] = out[k]
  PROVE  Tally(counts, more, n, destination, count)
<1>1. n # 0 => more[n] = out[n]
  OBVIOUS
<1> QED
  BY <1>1 DEF Tally

LEMMA TallyEmits ==
  ASSUME InputTyped, NEW out \in Seq(CompactEdge), NEW n \in 0 .. Len(out),
         StreamAscends(out, n), NEW counts, NEW destination, NEW count,
         Tally(counts, out, n, destination, count), destination <= Len(counts),
         NEW owed, owed = IF Len(counts) = destination THEN count ELSE 0
  PROVE  /\ Tally(Append(counts, owed), out, n, destination, count)
         /\ Len(Append(counts, owed)) = Len(counts) + 1
<1>1. PICK l, more : l = Len(counts) /\ more = Append(counts, owed)
  OBVIOUS
<1>2. counts \in Seq(Nat) /\ count \in Nat
  BY DEF Tally
<1>3. l \in Nat /\ owed \in Nat
  BY <1>1, <1>2
<1>4. /\ \A d \in 0 .. l : EdgesBefore(more, d) = EdgesBefore(counts, d)
      /\ EdgesBefore(more, l + 1) = EdgesBefore(counts, l) + owed
      /\ more \in Seq(Nat) /\ Len(more) = l + 1
  BY <1>1, <1>2, <1>3, CountsAppend
<1>5. destination = IF n = 0 THEN None ELSE out[n][1]
  BY DEF Tally
<1>6. EdgesBefore(counts, l) + owed = n
  <2>1. EdgesBefore(counts, l) + (IF destination = l THEN count ELSE 0) = n
    BY <1>1 DEF Tally
  <2> QED
    BY <1>1, <2>1
<1>7. Len(out) \in Nat /\ n \in Nat /\ \A k \in 1 .. n : out[k][1] \in Int
  BY StreamTyped
<1>8. \A k \in 1 .. n : out[k][1] < l + 1
  <2>1. ASSUME NEW k \in 1 .. n PROVE out[k][1] < l + 1
    <3>1. n \in 1 .. n /\ n # 0
      BY <1>7
    <3>2. destination = out[n][1] /\ out[n][1] \in Int
      BY <1>5, <1>7, <3>1
    <3>3. CASE k = n
      BY <1>1, <1>3, <3>2, <3>3
    <3>4. CASE k # n
      <4>1. k < n
        BY <1>7, <3>4
      <4>2. EdgeBefore(out[k], out[n])
        BY <3>1, <4>1 DEF StreamAscends
      <4>3. out[k][1] <= out[n][1]
        <5>1. PICK a, b : a = out[k][1] /\ b = out[n][1]
          OBVIOUS
        <5>2. a \in Int /\ b \in Int /\ (a < b \/ a = b)
          BY <1>7, <3>1, <4>2, <5>1 DEF EdgeBefore
        <5> QED
          BY <5>1, <5>2
      <4>4. PICK a, b : a = out[k][1] /\ b = out[n][1]
        OBVIOUS
      <4>5. a \in Int /\ b \in Int /\ a <= b /\ b <= l
        BY <1>1, <1>7, <3>2, <4>3, <4>4
      <4> QED
        BY <1>3, <4>4, <4>5
    <3> QED
      BY <3>3, <3>4
  <2> QED
    BY <2>1
<1>9. \A v \in 0 .. l + 1 :
        /\ EdgesBefore(more, v) <= n
        /\ \A k \in 1 .. n : out[k][1] < v <=> k <= EdgesBefore(more, v)
  <2>1. ASSUME NEW v \in 0 .. l
        PROVE  /\ EdgesBefore(more, v) <= n
               /\ \A k \in 1 .. n : out[k][1] < v <=> k <= EdgesBefore(more, v)
    BY <1>1, <1>4, Zenon DEF Tally
  <2>2. /\ EdgesBefore(more, l + 1) = n /\ n <= n
        /\ \A k \in 1 .. n : k <= n
    BY <1>4, <1>6, <1>7
  <2>3. \A v \in 0 .. l + 1 : v \in 0 .. l \/ v = l + 1
    BY <1>3
  <2> QED
    BY <1>8, <2>1, <2>2, <2>3
<1>10. EdgesBefore(more, l + 1) + (IF destination = l + 1 THEN count ELSE 0) = n
  <2>1. destination # l + 1
    BY <1>1, <1>3
  <2> QED
    BY <1>4, <1>6, <1>7, <2>1
<1> QED
  BY <1>1, <1>2, <1>4, <1>5, <1>9, <1>10 DEF Tally

LEMMA TallyTakes ==
  ASSUME InputTyped, NEW out \in Seq(CompactEdge), NEW n \in Nat, n < Len(out),
         NEW counts, NEW destination, NEW count,
         Tally(counts, out, n, destination, count), out[n + 1][1] = Len(counts)
  PROVE  Tally(counts, out, n + 1, Len(counts),
               (IF Len(counts) = destination THEN count ELSE 0) + 1)
<1>1. PICK l, c : l = Len(counts) /\ c = IF Len(counts) = destination THEN count ELSE 0
  OBVIOUS
<1>2. counts \in Seq(Nat) /\ count \in Nat
  BY DEF Tally
<1>3. l \in Nat /\ c \in Nat
  BY <1>1, <1>2
<1>4. EdgesBefore(counts, l) + c = n
  <2>1. EdgesBefore(counts, l) + (IF destination = l THEN count ELSE 0) = n
    BY <1>1 DEF Tally
  <2> QED
    BY <1>1, <2>1
<1>5. \A v \in 0 .. l : EdgesBefore(counts, v) \in Nat
  BY <1>1, <1>2, EdgesBeforeUnfold
<1>6. PICK m : m = n + 1
  OBVIOUS
<1>7. /\ m \in Nat /\ m # 0 /\ out[m][1] = l
      /\ 1 .. m = (1 .. n) \union {m}
  BY <1>1, <1>6
<1>8. \A v \in 0 .. l :
        /\ EdgesBefore(counts, v) <= m
        /\ \A k \in 1 .. m : out[k][1] < v <=> k <= EdgesBefore(counts, v)
  <2>1. ASSUME NEW v \in 0 .. l
        PROVE  /\ EdgesBefore(counts, v) <= m
               /\ \A k \in 1 .. m : out[k][1] < v <=> k <= EdgesBefore(counts, v)
    <3>1. PICK e : e = EdgesBefore(counts, v)
      OBVIOUS
    <3>2. e <= n /\ \A k \in 1 .. n : out[k][1] < v <=> k <= e
      BY <1>1, <3>1, Zenon DEF Tally
    <3>3. e \in Nat
      BY <1>5, <3>1
    <3>4. e <= m /\ ~(m <= e) /\ ~(l < v)
      BY <1>3, <1>6, <3>2, <3>3
    <3>5. ~(out[m][1] < v)
      BY <1>7, <3>4
    <3> QED
      BY <1>7, <3>1, <3>2, <3>4, <3>5, Zenon
  <2> QED
    BY <2>1
<1>9. EdgesBefore(counts, l) + (c + 1) = m
  BY <1>3, <1>4, <1>5, <1>6
<1> QED
  BY <1>1, <1>2, <1>3, <1>6, <1>7, <1>8, <1>9 DEF Tally

LEMMA AscendsTakes ==
  ASSUME NEW out, NEW n \in Nat, StreamAscends(out, n), InputTyped,
         out \in Seq(CompactEdge), n < Len(out),
         n > 0 => EdgeBefore(out[n], out[n + 1])
  PROVE  StreamAscends(out, n + 1)
<1>1. PICK m : m = n + 1
  OBVIOUS
<1>2. m \in Nat /\ \A k \in 1 .. m : k \in 1 .. n \/ k = m
  BY <1>1
<1>3. \A k \in 1 .. m : out[k][1] \in Int /\ out[k][2] \in Int
  BY <1>1, StreamTyped
<1>4. ASSUME NEW j \in 1 .. m, NEW k \in 1 .. m, j < k
      PROVE  EdgeBefore(out[j], out[k])
  <2>1. CASE k \in 1 .. n
    <3>1. j \in 1 .. n
      BY <1>1, <1>4, <2>1
    <3> QED
      BY <1>4, <2>1, <3>1 DEF StreamAscends
  <2>2. CASE k = m
    <3>1. j \in 1 .. n /\ n > 0 /\ n \in 1 .. m /\ n \in 1 .. n
      BY <1>1, <1>4, <2>2
    <3>2. EdgeBefore(out[n], out[m])
      BY <1>1, <3>1
    <3>3. CASE j = n
      BY <2>2, <3>2, <3>3
    <3>4. CASE j # n
      <4>1. j < n
        BY <3>1, <3>4
      <4>2. EdgeBefore(out[j], out[n])
        BY <3>1, <4>1 DEF StreamAscends
      <4>3. /\ out[j][1] \in Int /\ out[j][2] \in Int /\ out[n][1] \in Int
            /\ out[n][2] \in Int /\ out[m][1] \in Int /\ out[m][2] \in Int
        BY <1>2, <1>3, <2>2, <3>1
      <4>4. EdgeBefore(out[j], out[m])
        <5> HIDE <2>2
        <5> QED
          BY ONLY <3>2, <4>2, <4>3 DEF EdgeBefore
      <4> QED
        BY <2>2, <4>4
    <3> QED
      BY <3>3, <3>4
  <2> QED
    BY <1>2, <2>1, <2>2
<1> QED
  BY <1>1, <1>4 DEF StreamAscends

LEMMA DegreesStart ==
  ASSUME NEW out, NEW size
  PROVE  Degrees([v \in 1 .. size |-> 0], out, 0, size)
<1>1. \A v : Leaving(out, 0, v) = {}
  BY DEF Leaving
<1>2. Cardinality({}) = 0
  BY FS_EmptySet
<1> QED
  BY <1>1, <1>2 DEF Degrees

LEMMA DegreesRead ==
  ASSUME NEW degrees, NEW out, NEW n \in Nat, NEW size, Degrees(degrees, out, n, size),
         NEW more, \A k \in 1 .. n : more[k] = out[k]
  PROVE  Degrees(degrees, more, n, size)
<1>1. \A v : Leaving(more, n, v) = Leaving(out, n, v)
  BY DEF Leaving
<1> QED
  BY <1>1 DEF Degrees

LEMMA DegreesTake ==
  ASSUME NEW out, NEW n \in Nat, NEW size, NEW degrees, Degrees(degrees, out, n, size),
         NEW taken, taken \in 1 .. size, out[n + 1][2] = taken - 1, size \in Nat
  PROVE  Degrees([degrees EXCEPT ![taken] = @ + 1], out, n + 1, size)
<1>1. PICK m, more : m = n + 1 /\ more = [degrees EXCEPT ![taken] = @ + 1]
  OBVIOUS
<1>2. m \in Nat /\ m \notin 1 .. n /\ 1 .. m = (1 .. n) \union {m}
  BY <1>1
<1>3. /\ more = [v \in 1 .. size |-> more[v]] /\ more[taken] = degrees[taken] + 1
      /\ \A v \in 1 .. size : v # taken => more[v] = degrees[v]
  BY <1>1 DEF Degrees
<1>4. out[m][2] = taken - 1 /\ taken \in Int
  BY <1>1
<1>5. ASSUME NEW v \in 1 .. size
      PROVE  more[v] \in Nat /\ more[v] = Cardinality(Leaving(out, m, v))
  <2>1. degrees[v] \in Nat /\ degrees[v] = Cardinality(Leaving(out, n, v))
    BY DEF Degrees
  <2>2. CASE v = taken
    <3>1. Leaving(out, m, v) = Leaving(out, n, v) \union {m} /\ m \notin Leaving(out, n, v)
      BY <1>2, <1>4, <2>2 DEF Leaving
    <3>2. IsFiniteSet(Leaving(out, n, v))
      <4>1. IsFiniteSet(1 .. n)
        BY FS_Interval
      <4> QED
        BY <4>1, FS_Subset DEF Leaving
    <3>3. Cardinality(Leaving(out, m, v)) = Cardinality(Leaving(out, n, v)) + 1
      BY <3>1, <3>2, FS_AddElement
    <3> QED
      BY <1>3, <2>1, <2>2, <3>3
  <2>3. CASE v # taken
    <3>1. out[m][2] # v - 1
      BY <1>4, <2>3
    <3>2. Leaving(out, m, v) = Leaving(out, n, v)
      BY <1>2, <3>1 DEF Leaving
    <3> QED
      BY <1>3, <2>1, <2>3, <3>2
  <2> QED
    BY <2>2, <2>3
<1> QED
  BY <1>1, <1>3, <1>5 DEF Degrees

----------------------------------------------------------------------------
(* The builder.                                                            *)

\* The next count is written, and not yet counted: the partitioner has it.
Owing == (calling /\ argument # Partitioner!Finishing) \/ state = "failed"

Streams ==
  /\ cursor.out \in Seq(CompactEdge) /\ emitted_edge_count \in 0 .. Len(cursor.out)
  /\ incoming_sources \in Seq(Int) /\ Len(incoming_sources) <= emitted_edge_count
  /\ \A i \in 1 .. Len(incoming_sources) : incoming_sources[i] = cursor.out[i][2]
  /\ StreamAscends(cursor.out, emitted_edge_count)

Counting ==
  /\ Tally(incoming_counts, cursor.out, emitted_edge_count, current_destination,
           current_incoming_count)
  /\ next_destination \in Nat /\ current_destination <= next_destination
  /\ Len(incoming_counts) = next_destination + (IF Owing THEN 1 ELSE 0)

\* No destination below the current one is without its count, nor is this.
Level ==
  \/ next_destination = current_destination
  \/ emitted_edge_count = 0 /\ next_destination = 0

Stages ==
  /\ place = "copy" =>
       /\ vertex_ids \in Seq(Int) /\ Len(vertex_ids) <= Len(dictionary)
       /\ \A i \in 1 .. Len(vertex_ids) : vertex_ids[i] = dictionary[i]
       /\ cursor.out = <<>>
  /\ place # "copy" =>
       /\ vertex_ids = dictionary
       /\ EdgeLemmas!Merges(cursor, edge_files, AllEdges)
       /\ Degrees(out_degree, cursor.out, emitted_edge_count, vertex_count)
  /\ place # "take" => emitted_edge_count = Len(incoming_sources)
  /\ place \in {"counts", "accounts", "validate", "publish"} =>
       cursor.heap = <<>> /\ emitted_edge_count = Len(cursor.out)
  /\ place \in {"copy", "read"} => Level
  /\ place = "take" =>
       Level \/ (emitted_edge_count < Len(cursor.out) /\ next_destination <= edge[1])
  /\ place = "take" /\ Owing =>
       emitted_edge_count < Len(cursor.out) /\ next_destination < edge[1]
  /\ place = "take" /\ calling => Owing
  /\ Owing \/ calling => place \in {"take", "counts"}

Fresh ==
  /\ vertex_ids = <<>> /\ incoming_sources = <<>> /\ incoming_counts = <<>>
  /\ cursor = Edges!NoMerge /\ next_destination = 0 /\ current_destination = None
  /\ current_incoming_count = 0 /\ emitted_edge_count = 0
  /\ ~calling /\ state = "active"

Building == {"copy", "read", "take", "counts", "accounts", "validate", "publish"}

BuildInv ==
  /\ place \in Building \union {"waiting", "published", "failed"}
  /\ place # "waiting" => compact_place = "done"
  /\ place = "waiting" => Fresh
  /\ place \in Building => Streams /\ Counting /\ Stages
  /\ place = "publish" => Valid(Staged)

\* While the graph is built nothing else goes on.
LEMMA Settled ==
  ASSUME UNCHANGED <<input, idVars, compactVars>>
  PROVE  /\ CompactEdge' = CompactEdge /\ AllEdges' = AllEdges
         /\ vertex_count' = vertex_count
         /\ UNCHANGED <<input, edge_files, dictionary, compact_place>>
<1>1. UNCHANGED <<input, edge_files, dictionary, compact_place>>
  BY DEF compactVars
<1> QED
  BY <1>1, InputStays DEF vertex_count

LEMMA StreamsStay ==
  ASSUME Streams, Counting, UNCHANGED input, cursor'.out = cursor.out, Owing' = Owing,
         UNCHANGED <<incoming_sources, incoming_counts, next_destination,
                     current_destination, current_incoming_count, emitted_edge_count>>
  PROVE  Streams' /\ Counting'
<1>1. CompactEdge' = CompactEdge
  BY InputStays
<1>2. Streams'
  BY <1>1 DEF Streams
<1>3. Counting'
  BY DEF Counting
<1> QED
  BY <1>2, <1>3

LEMMA StartBuildKeeps ==
  ASSUME PhasesInv, BuildInv, StartBuild
  PROVE  BuildInv'
<1>1. /\ compact_place = "done" /\ place = "waiting" /\ place' = "copy"
      /\ UNCHANGED <<input, idVars, compactVars, streamVars, builderVars>>
  BY DEF StartBuild, CreateStaging, Goes
<1>2. Fresh
  BY <1>1 DEF BuildInv
<1>3. UNCHANGED <<vertex_ids, incoming_sources, incoming_counts, out_degree, cursor,
                  next_destination, current_destination, current_incoming_count,
                  emitted_edge_count, state, calling, argument, dictionary,
                  compact_place, input>>
  BY <1>1 DEF streamVars, builderVars, compactVars
<1>4. cursor.out = <<>>
  BY <1>2 DEF Fresh, Edges!NoMerge
<1>5. <<>> \in Seq(CompactEdge) /\ Len(<<>>) = 0 /\ <<>> \in Seq(Int) /\ <<>> \in Seq(Nat)
  BY EmptySeq
<1>6. Streams
  <2>1. StreamAscends(<<>>, 0)
    BY DEF StreamAscends
  <2>2. incoming_sources = <<>> /\ emitted_edge_count = 0
    BY <1>2 DEF Fresh
  <2>3. 0 \in 0 .. 0 /\ 0 <= 0 /\ \A i \in 1 .. 0 : FALSE
    OBVIOUS
  <2> QED
    BY <1>4, <1>5, <2>1, <2>2, <2>3 DEF Streams
<1>7. ~Owing
  BY <1>2 DEF Fresh, Owing
<1>8. Counting
  <2>1. EdgesBefore(<<>>, 0) = 0
    BY <1>5, EdgesBeforeUnfold
  <2>2. 0 .. 0 = {0} /\ 0 <= 0 /\ \A k \in 1 .. 0 : FALSE
    OBVIOUS
  <2>3. Tally(<<>>, <<>>, 0, None, 0)
    BY <1>5, <2>1, <2>2 DEF Tally
  <2>4. None <= 0 /\ 0 \in Nat
    BY DEF None
  <2>5. incoming_counts = <<>> /\ emitted_edge_count = 0 /\ current_destination = None
        /\ current_incoming_count = 0 /\ next_destination = 0
    BY <1>2 DEF Fresh
  <2> QED
    BY <1>4, <1>5, <1>7, <2>3, <2>4, <2>5 DEF Counting
<1>9. Streams' /\ Counting'
  <2>1. Owing' = Owing
    BY <1>3 DEF Owing
  <2> QED
    BY <1>3, <1>6, <1>8, <2>1, StreamsStay
<1>10. Stages'
  <2>1. dictionary \in Seq(Endpoints)
    BY <1>1, DictionaryTyped DEF PhasesInv
  <2>2. Len(<<>>) <= Len(dictionary) /\ \A i \in 1 .. Len(<<>>) : FALSE
    BY <1>5, <2>1
  <2>3. vertex_ids' = <<>> /\ incoming_sources' = <<>> /\ emitted_edge_count' = 0
        /\ next_destination' = 0 /\ dictionary' = dictionary /\ cursor'.out = <<>>
        /\ ~calling'
    BY <1>2, <1>3, <1>4 DEF Fresh
  <2>4. ~Owing'
    BY <1>3, <1>7 DEF Owing
  <2>5. Level'
    BY <2>3 DEF Level
  <2> QED
    BY <1>1, <1>5, <2>2, <2>3, <2>4, <2>5 DEF Stages
<1> QED
  BY <1>1, <1>3, <1>9, <1>10 DEF BuildInv, Building

LEMMA CopyVertexIdsKeeps ==
  ASSUME PhasesInv, BuildInv, CopyVertexIds(id_files[VertexIds]),
         UNCHANGED <<input, idVars, compactVars>>
  PROVE  BuildInv'
<1> DEFINE ids == id_files[VertexIds]
<1>1. /\ place = "copy" /\ place' = "copy" /\ Len(vertex_ids) < Len(ids)
      /\ vertex_ids' = vertex_ids \o SubSeq(ids, Len(vertex_ids) + 1,
                         Len(vertex_ids) + Smallest(CopyRecords, Len(ids) - Len(vertex_ids)))
      /\ UNCHANGED <<incoming_sources, incoming_counts, out_degree, cursor,
                     next_destination, current_destination, current_incoming_count,
                     emitted_edge_count, state, calling, argument>>
  BY DEF CopyVertexIds, Goes, builderVars
<1>2. compact_place = "done" /\ Streams /\ Counting /\ Stages
  BY <1>1 DEF BuildInv, Building
<1>3. dictionary \in Seq(Endpoints) /\ dictionary = ids
  BY <1>2, DictionaryTyped DEF PhasesInv, CompactInv
<1>4. Owing' = Owing
  BY <1>1 DEF Owing
<1>5. UNCHANGED <<input, edge_files, dictionary, compact_place>>
  BY Settled
<1>6. Streams' /\ Counting'
  BY <1>1, <1>2, <1>4, StreamsStay
<1>7. PICK d, n, r : d = dictionary /\ n = Len(vertex_ids)
                     /\ r = Smallest(CopyRecords, Len(dictionary) - Len(vertex_ids))
  OBVIOUS
<1>8. /\ vertex_ids \in Seq(Int) /\ n <= Len(d)
      /\ \A i \in 1 .. n : vertex_ids[i] = d[i]
  BY <1>1, <1>2, <1>7 DEF Stages
<1>9. d \in Seq(Int)
  <2>1. Endpoints \subseteq Int
    BY EndpointsTyped DEF PhasesInv, IdInv
  <2> QED
    BY <1>3, <1>7, <2>1, SeqMonotonic
<1>10. n \in Nat /\ r \in Nat /\ n + r <= Len(d)
  <2>1. PICK l : l = Len(d)
    OBVIOUS
  <2>2. l \in Nat /\ n \in Nat /\ n < l /\ CopyRecords \in Nat /\ r = Smallest(CopyRecords, l - n)
    BY <1>1, <1>3, <1>7, <1>8, <1>9, <2>1, GraphAssumption
  <2>3. r \in Nat /\ n + r <= l
    BY ONLY <2>2 DEF Smallest
  <2> QED
    BY <2>1, <2>2, <2>3
<1>11. PICK next : next = SubSeq(d, n + 1, n + r)
  OBVIOUS
<1>12. next \in Seq(Int) /\ Len(next) = r /\ \A i \in 1 .. r : next[i] = d[n + i]
  BY <1>9, <1>10, <1>11, Cut
<1>13. vertex_ids' = vertex_ids \o next
  BY <1>1, <1>3, <1>7, <1>11
<1>14. /\ vertex_ids' \in Seq(Int) /\ Len(vertex_ids') = n + r
       /\ \A i \in 1 .. n + r : vertex_ids'[i] = IF i <= n THEN vertex_ids[i] ELSE next[i - n]
  <2>1. /\ vertex_ids \o next \in Seq(Int)
        /\ Len(vertex_ids \o next) = Len(vertex_ids) + Len(next)
        /\ \A i \in 1 .. Len(vertex_ids) + Len(next) :
             (vertex_ids \o next)[i]
               = IF i <= Len(vertex_ids) THEN vertex_ids[i] ELSE next[i - Len(vertex_ids)]
    BY <1>8, <1>12, ConcatProperties, Zenon
  <2> QED
    BY <1>7, <1>12, <1>13, <2>1, Zenon
<1>15. \A i \in 1 .. n + r : vertex_ids'[i] = d[i]
  <2>1. ASSUME NEW i \in 1 .. n + r PROVE vertex_ids'[i] = d[i]
    <3>1. CASE i <= n
      <4>1. i \in 1 .. n
        BY <1>10, <3>1
      <4> QED
        BY <1>8, <1>14, <3>1, <4>1
    <3>2. CASE ~(i <= n)
      <4>1. PICK j : j = i - n
        OBVIOUS
      <4>2. j \in 1 .. r /\ n + j = i
        BY <1>10, <3>2, <4>1
      <4>3. next[j] = d[i]
        BY <1>12, <4>2
      <4> QED
        BY <1>14, <3>2, <4>1, <4>3
    <3> QED
      BY <3>1, <3>2
  <2> QED
    BY <2>1
<1>16. Level' /\ ~(Owing' \/ calling') /\ emitted_edge_count' = Len(incoming_sources')
       /\ cursor'.out = <<>>
  BY <1>1, <1>2, <1>4 DEF Stages, Level
<1>17. Stages'
  BY <1>1, <1>5, <1>7, <1>10, <1>14, <1>15, <1>16 DEF Stages
<1> QED
  BY <1>1, <1>2, <1>5, <1>6, <1>17 DEF BuildInv, Building

LEMMA FilesTyped ==
  ASSUME PhasesInv, compact_place = "done"
  PROVE  /\ edge_files \in Seq(Seq(AllEdges))
         /\ \A n \in DOMAIN edge_files : edge_files[n] # <<>>
         /\ AllEdges \subseteq CompactEdge /\ Compacted = AllEdges
<1>1. /\ edge_files \in Seq(Seq(CompactEdge)) /\ Compacted = AllEdges
      /\ \A n \in DOMAIN edge_files : edge_files[n] # <<>>
  BY DEF PhasesInv, CompactInv
<1>2. PICK l : l = Len(edge_files)
  OBVIOUS
<1>3. l \in Nat /\ DOMAIN edge_files = 1 .. l /\ edge_files = [n \in 1 .. l |-> edge_files[n]]
  BY <1>1, <1>2
<1>4. ASSUME NEW n \in 1 .. l PROVE edge_files[n] \in Seq(AllEdges)
  <2>1. PICK run : run = edge_files[n]
    OBVIOUS
  <2>2. run \in Seq(CompactEdge)
    BY <1>1, <1>3, <2>1
  <2>3. Len(run) \in Nat /\ DOMAIN run = 1 .. Len(run) /\ run = [i \in 1 .. Len(run) |-> run[i]]
    BY <2>2
  <2>4. \A i \in 1 .. Len(run) : run[i] \in Compacted
    BY <1>3, <2>1, <2>3 DEF Compacted
  <2>5. run \in Seq(AllEdges)
    BY <1>1, <2>3, <2>4, IsASeq
  <2> QED
    BY <2>1, <2>5
<1>5. edge_files \in Seq(Seq(AllEdges))
  BY <1>3, <1>4, IsASeq
<1>6. AllEdges \subseteq CompactEdge
  BY FirstTyped DEF PhasesInv, IdInv
<1> QED
  BY <1>1, <1>5, <1>6

LEMMA OpenCursorKeeps ==
  ASSUME PhasesInv, BuildInv, OpenCursor(id_files[VertexIds]),
         UNCHANGED <<input, idVars, compactVars>>
  PROVE  BuildInv'
<1>1. /\ place = "copy" /\ place' = "read" /\ Len(vertex_ids) = Len(id_files[VertexIds])
      /\ cursor' = Edges!Primed(edge_files)
      /\ out_degree' = [v \in 1 .. vertex_count |-> 0]
      /\ UNCHANGED <<vertex_ids, incoming_sources, incoming_counts,
                     next_destination, current_destination, current_incoming_count,
                     emitted_edge_count, state, calling, argument>>
  BY DEF OpenCursor, Goes, builderVars
<1>2. compact_place = "done" /\ Streams /\ Counting /\ Stages
  BY <1>1 DEF BuildInv, Building
<1>3. dictionary \in Seq(Endpoints) /\ dictionary = id_files[VertexIds]
  BY <1>2, DictionaryTyped DEF PhasesInv, CompactInv
<1>4. edge_files \in Seq(Seq(AllEdges)) /\ \A n \in DOMAIN edge_files : edge_files[n] # <<>>
  BY <1>2, FilesTyped
<1>5. EdgeBufferRecords \in Nat \ {0}
  BY GraphAssumption
<1>6. EdgeLemmas!Merges(cursor', edge_files, AllEdges) /\ cursor'.out = <<>>
  <2>1. EdgeLemmas!Primed(edge_files) = Edges!Primed(edge_files)
    BY EdgesPrimed
  <2>2. /\ EdgeLemmas!Merges(EdgeLemmas!Primed(edge_files), edge_files, AllEdges)
        /\ EdgeLemmas!Primed(edge_files).out = <<>>
    BY <1>4, <1>5, EdgeLemmas!PrimedMerges
  <2> QED
    BY <1>1, <2>1, <2>2
<1>7. cursor.out = <<>>
  BY <1>1, <1>2 DEF Stages
<1>8. Owing' = Owing
  BY <1>1 DEF Owing
<1>9. Streams' /\ Counting'
  <2>1. cursor'.out = cursor.out
    BY <1>6, <1>7
  <2> QED
    BY <1>1, <1>2, <1>8, <2>1, StreamsStay
<1>10. vertex_ids = dictionary
  <2>1. Endpoints \subseteq Int
    BY EndpointsTyped DEF PhasesInv, IdInv
  <2>2. dictionary \in Seq(Int) /\ vertex_ids \in Seq(Int)
        /\ \A i \in 1 .. Len(vertex_ids) : vertex_ids[i] = dictionary[i]
    BY <1>1, <1>2, <1>3, <2>1, SeqMonotonic DEF Stages
  <2>3. Len(vertex_ids) = Len(dictionary)
    BY <1>1, <1>3
  <2> QED
    BY <2>2, <2>3, SeqEqual
<1>11. /\ AllEdges' = AllEdges /\ vertex_count' = vertex_count
       /\ UNCHANGED <<edge_files, dictionary, compact_place>>
  BY Settled
<1>12. emitted_edge_count = 0
  <2>1. emitted_edge_count \in 0 .. Len(<<>>) /\ Len(<<>>) = 0
    BY <1>2, <1>7 DEF Streams
  <2> QED
    BY <2>1
<1>13. Degrees(out_degree', cursor'.out, emitted_edge_count', vertex_count)
  BY <1>1, <1>12, DegreesStart
<1>14. Level' /\ ~(Owing' \/ calling') /\ emitted_edge_count' = Len(incoming_sources')
  BY <1>1, <1>2, <1>8 DEF Stages, Level
<1>15. Stages'
  BY <1>1, <1>6, <1>10, <1>11, <1>13, <1>14 DEF Stages
<1> QED
  BY <1>1, <1>2, <1>9, <1>11, <1>15 DEF BuildInv, Building

LEMMA ReadEdgeKeeps ==
  ASSUME PhasesInv, BuildInv, ReadEdge, UNCHANGED <<input, idVars, compactVars>>
  PROVE  BuildInv'
<1>1. /\ place = "read" /\ place' = "read" /\ cursor.heap # <<>>
      /\ cursor' = Edges!Merged(cursor)
      /\ UNCHANGED <<vertex_ids, incoming_sources, incoming_counts, out_degree,
                     next_destination, current_destination, current_incoming_count,
                     emitted_edge_count, state, calling, argument>>
  BY DEF ReadEdge, Goes, builderVars
<1>2. compact_place = "done" /\ Streams /\ Counting /\ Stages
  BY <1>1 DEF BuildInv, Building
<1>3. edge_files \in Seq(Seq(AllEdges)) /\ AllEdges \subseteq CompactEdge
  BY <1>2, FilesTyped
<1>4. EdgeLemmas!Merges(cursor, edge_files, AllEdges)
  BY <1>1, <1>2 DEF Stages
<1>5. PICK out, more : out = cursor.out /\ more = cursor'.out
  OBVIOUS
<1>6. /\ EdgeLemmas!Merges(cursor', edge_files, AllEdges)
      /\ more = out \/ \E record \in AllEdges : more = Append(out, record)
  <2>1. EdgeBufferRecords \in Nat \ {0}
    BY GraphAssumption
  <2>2. EdgeLemmas!Merged(cursor) = cursor'
    BY <1>1, EdgesMerged
  <2>3. /\ EdgeLemmas!Merges(EdgeLemmas!Merged(cursor), edge_files, AllEdges)
        /\ \/ EdgeLemmas!Merged(cursor).out = cursor.out
           \/ \E record \in AllEdges : EdgeLemmas!Merged(cursor).out = Append(cursor.out, record)
    BY <1>1, <1>3, <1>4, <2>1, EdgeLemmas!MergedMerges
  <2> QED
    BY <1>5, <2>2, <2>3
<1>7. PICK n : n = emitted_edge_count
  OBVIOUS
<1>8. out \in Seq(CompactEdge) /\ n \in 0 .. Len(out) /\ StreamAscends(out, n)
      /\ Len(incoming_sources) <= n /\ incoming_sources \in Seq(Int)
      /\ \A i \in 1 .. Len(incoming_sources) : incoming_sources[i] = out[i][2]
  BY <1>2, <1>5, <1>7 DEF Streams
<1>9. /\ more \in Seq(CompactEdge) /\ n \in 0 .. Len(more)
      /\ \A k \in 1 .. n : more[k] = out[k]
  <2>1. CASE more = out
    BY <1>8, <2>1
  <2>2. CASE \E record \in AllEdges : more = Append(out, record)
    <3>1. PICK record \in CompactEdge : more = Append(out, record)
      BY <1>3, <2>2
    <3>2. more \in Seq(CompactEdge) /\ Len(more) = Len(out) + 1
          /\ \A k \in 1 .. Len(out) : more[k] = out[k]
      BY <1>8, <3>1, AppendProperties
    <3>3. Len(out) \in Nat
      BY <1>8
    <3>4. n \in 0 .. Len(more) /\ \A k \in 1 .. n : k \in 1 .. Len(out)
      BY <1>8, <3>2, <3>3
    <3> QED
      BY <3>2, <3>4
  <2> QED
    BY <1>6, <2>1, <2>2
<1>10. n \in Nat
  BY <1>8
<1>11. /\ CompactEdge' = CompactEdge /\ AllEdges' = AllEdges /\ vertex_count' = vertex_count
       /\ UNCHANGED <<edge_files, dictionary, compact_place>>
  BY Settled
<1>12. Owing' = Owing
  BY <1>1 DEF Owing
<1>13. Streams'
  <2>1. \A i \in 1 .. Len(incoming_sources) : i \in 1 .. n
    BY <1>8, <1>10
  <2>2. \A i \in 1 .. Len(incoming_sources) : incoming_sources[i] = more[i][2]
    BY <1>8, <1>9, <2>1
  <2>3. StreamAscends(more, n)
    BY <1>8, <1>9 DEF StreamAscends
  <2> QED
    BY <1>1, <1>5, <1>7, <1>8, <1>9, <1>11, <2>2, <2>3 DEF Streams
<1>14. Counting'
  <2>1. Tally(incoming_counts, out, n, current_destination, current_incoming_count)
    BY <1>2, <1>5, <1>7 DEF Counting
  <2>2. Tally(incoming_counts, more, n, current_destination, current_incoming_count)
    BY <1>9, <1>10, <2>1, TallyReads
  <2> QED
    BY <1>1, <1>2, <1>5, <1>7, <1>12, <2>2 DEF Counting
<1>15. Degrees(out_degree, more, n, vertex_count)
  <2>1. Degrees(out_degree, out, n, vertex_count)
    BY <1>1, <1>2, <1>5, <1>7 DEF Stages
  <2> QED
    BY <1>9, <1>10, <2>1, DegreesRead
<1>16. Level' /\ ~(Owing' \/ calling') /\ emitted_edge_count' = Len(incoming_sources')
       /\ vertex_ids' = dictionary
  BY <1>1, <1>2, <1>12 DEF Stages, Level
<1>17. Stages'
  BY <1>1, <1>5, <1>6, <1>7, <1>11, <1>15, <1>16 DEF Stages
<1> QED
  BY <1>1, <1>2, <1>11, <1>13, <1>14, <1>17 DEF BuildInv, Building

LEMMA EndReadKeeps ==
  ASSUME PhasesInv, BuildInv, EndRead, UNCHANGED <<input, idVars, compactVars>>
  PROVE  BuildInv'
<1>1. /\ batch_size = EdgeBatch \/ cursor.heap = <<>>
      /\ place = "read" /\ place' = IF batch_size = 0 THEN "counts" ELSE "take"
      /\ UNCHANGED <<vertex_ids, incoming_sources, incoming_counts, out_degree, cursor,
                     next_destination, current_destination, current_incoming_count,
                     emitted_edge_count, state, calling, argument>>
  BY DEF EndRead, Goes, streamVars, builderVars
<1>2. compact_place = "done" /\ Streams /\ Counting /\ Stages
  BY <1>1 DEF BuildInv, Building
<1>3. Owing' = Owing
  BY <1>1 DEF Owing
<1>4. Streams' /\ Counting'
  BY <1>1, <1>2, <1>3, StreamsStay
<1>5. /\ AllEdges' = AllEdges /\ vertex_count' = vertex_count
      /\ UNCHANGED <<edge_files, dictionary, compact_place>>
  BY Settled
<1>6. /\ Level /\ ~(Owing \/ calling) /\ emitted_edge_count = Len(incoming_sources)
      /\ vertex_ids = dictionary /\ EdgeLemmas!Merges(cursor, edge_files, AllEdges)
      /\ Degrees(out_degree, cursor.out, emitted_edge_count, vertex_count)
  BY <1>1, <1>2 DEF Stages
<1>7. batch_size = 0 => cursor.heap = <<>> /\ emitted_edge_count = Len(cursor.out)
  <2>1. PICK a, b : a = Len(cursor.out) /\ b = Len(incoming_sources)
    OBVIOUS
  <2>2. a \in Nat /\ b \in Nat /\ batch_size = a - b
    BY <1>2, <2>1 DEF Streams, batch_size
  <2>3. EdgeBatch # 0
    BY GraphAssumption
  <2> QED
    BY <1>1, <1>6, <2>1, <2>2, <2>3
<1>8. Level'
  BY <1>1, <1>6 DEF Level
<1>9. EdgeLemmas!Merges(cursor, edge_files, AllEdges)'
  BY <1>1, <1>5, <1>6
<1>10. Degrees(out_degree, cursor.out, emitted_edge_count, vertex_count)'
  BY <1>1, <1>5, <1>6
<1>11. Stages'
  BY <1>1, <1>3, <1>5, <1>6, <1>7, <1>8, <1>9, <1>10 DEF Stages
<1> QED
  BY <1>1, <1>2, <1>4, <1>5, <1>11 DEF BuildInv, Building

\* What the numbers are while the edges are counted.
LEMMA Positions ==
  ASSUME PhasesInv, Streams, Counting, place # "waiting", compact_place = "done"
  PROVE  /\ emitted_edge_count \in Nat /\ Len(cursor.out) \in Nat
         /\ next_destination \in Nat /\ current_destination \in Int
         /\ incoming_counts \in Seq(Nat) /\ Len(incoming_counts) \in Nat
         /\ vertex_count = Cardinality(Endpoints) /\ vertex_count \in Nat
         /\ emitted_edge_count < Len(cursor.out) =>
              edge[1] \in 0 .. vertex_count - 1 /\ edge[2] \in 0 .. vertex_count - 1
<1>1. PICK out, n : out = cursor.out /\ n = emitted_edge_count
  OBVIOUS
<1>2. out \in Seq(CompactEdge) /\ n \in 0 .. Len(out)
  BY <1>1 DEF Streams
<1>3. InputTyped
  BY DEF PhasesInv, IdInv
<1>4. /\ Len(out) \in Nat
      /\ \A k \in 1 .. Len(out) : /\ out[k][1] \in 0 .. Cardinality(Endpoints) - 1
                                  /\ out[k][2] \in 0 .. Cardinality(Endpoints) - 1
  BY <1>2, <1>3, StreamTyped
<1>5. vertex_count = Cardinality(Endpoints) /\ vertex_count \in Nat
  <2>1. /\ dictionary \in Seq(Endpoints) /\ Within(dictionary) = Endpoints
        /\ Increases(dictionary, <)
    BY DictionaryTyped DEF PhasesInv
  <2>2. Len(dictionary) = Cardinality(Endpoints)
    BY <1>3, <2>1, Dictionary
  <2> QED
    BY <1>3, <2>2, RanksOfEndpoints DEF vertex_count
<1>6. incoming_counts \in Seq(Nat) /\ next_destination \in Nat
      /\ current_destination = IF n = 0 THEN None ELSE out[n][1]
  BY <1>1 DEF Counting, Tally
<1>7. current_destination \in Int
  <2>1. CASE n = 0
    BY <1>6, <2>1 DEF None
  <2>2. CASE n # 0
    <3>1. n \in 1 .. Len(out)
      BY <1>2, <1>4, <2>2
    <3>2. out[n][1] \in Int
      BY <1>4, <3>1
    <3> QED
      BY <1>6, <2>2, <3>2
  <2> QED
    BY <2>1, <2>2
<1>8. ASSUME n < Len(out)
      PROVE  edge[1] \in 0 .. vertex_count - 1 /\ edge[2] \in 0 .. vertex_count - 1
  <2>1. n + 1 \in 1 .. Len(out)
    BY <1>2, <1>4, <1>8
  <2>2. edge = out[n + 1]
    BY <1>1 DEF edge
  <2> QED
    BY <1>4, <1>5, <2>1, <2>2
<1>9. Len(incoming_counts) \in Nat
  BY <1>6
<1> QED
  BY <1>1, <1>2, <1>4, <1>5, <1>6, <1>7, <1>8, <1>9

LEMMA EmitCountKeeps ==
  ASSUME PhasesInv, BuildInv, EmitCount, UNCHANGED <<input, idVars, compactVars>>
  PROVE  BuildInv'
<1>1. /\ place \in {"take", "counts"} /\ ~calling /\ next_destination < emit_limit
      /\ incoming_counts' = Append(incoming_counts, owed_count)
      /\ Partitioner!Call(owed_count)
      /\ UNCHANGED <<place, vertex_ids, incoming_sources, out_degree, cursor,
                     next_destination, current_destination, current_incoming_count,
                     emitted_edge_count>>
  BY DEF EmitCount
<1>2. compact_place = "done" /\ Streams /\ Counting /\ Stages /\ place # "waiting"
  BY <1>1 DEF BuildInv, Building
<1>3. /\ emitted_edge_count \in Nat /\ Len(cursor.out) \in Nat
      /\ next_destination \in Nat /\ current_destination \in Int
      /\ incoming_counts \in Seq(Nat)
      /\ emitted_edge_count < Len(cursor.out) => edge[1] \in 0 .. vertex_count - 1
  BY <1>2, Positions
<1>4. state = "active" /\ ~Owing
  BY <1>1 DEF Partitioner!Call, Owing
<1>5. owed_count \in Nat
  BY <1>2 DEF owed_count, Counting, Tally
<1>6. Owing'
  <2>1. owed_count # Partitioner!Finishing
    BY <1>5 DEF Partitioner!Finishing
  <2>2. state' = "failed" \/ (argument' = owed_count /\ calling')
    BY <1>1 DEF Partitioner!Call
  <2>3. Partitioner!Finishing' = Partitioner!Finishing
    BY DEF Partitioner!Finishing
  <2> QED
    BY <2>1, <2>2, <2>3 DEF Owing
<1>7. Len(incoming_counts) = next_destination
  BY <1>2, <1>3, <1>4 DEF Counting
<1>8. /\ Tally(incoming_counts', cursor.out, emitted_edge_count, current_destination,
               current_incoming_count)
      /\ Len(incoming_counts') = next_destination + 1
  <2>1. PICK out, n, owed : out = cursor.out /\ n = emitted_edge_count /\ owed = owed_count
    OBVIOUS
  <2>2. /\ InputTyped /\ out \in Seq(CompactEdge) /\ n \in 0 .. Len(out)
        /\ StreamAscends(out, n)
        /\ Tally(incoming_counts, out, n, current_destination, current_incoming_count)
        /\ current_destination <= Len(incoming_counts)
        /\ owed = IF Len(incoming_counts) = current_destination THEN current_incoming_count
                  ELSE 0
    BY <1>2, <1>7, <2>1 DEF PhasesInv, IdInv, Streams, Counting, owed_count
  <2>3. /\ Tally(Append(incoming_counts, owed), out, n, current_destination,
                 current_incoming_count)
        /\ Len(Append(incoming_counts, owed)) = Len(incoming_counts) + 1
    BY <2>2, TallyEmits
  <2> QED
    BY <1>1, <1>7, <2>1, <2>3
<1>9. /\ CompactEdge' = CompactEdge /\ AllEdges' = AllEdges /\ vertex_count' = vertex_count
      /\ UNCHANGED <<edge_files, dictionary, compact_place>>
  BY Settled
<1>10. Streams'
  BY <1>1, <1>2, <1>9 DEF Streams
<1>11. Counting'
  BY <1>1, <1>2, <1>6, <1>8 DEF Counting
<1>12. place = "take" => emitted_edge_count < Len(cursor.out) /\ next_destination < edge[1]
  <2>1. ASSUME place = "take", ~(emitted_edge_count < Len(cursor.out)) PROVE FALSE
    <3>1. emit_limit = 0
      BY <2>1 DEF emit_limit
    <3> QED
      BY <1>1, <1>3, <3>1
  <2>2. place = "take" => emit_limit = edge[1]
    BY <2>1 DEF emit_limit
  <2> QED
    BY <1>1, <2>1, <2>2
<1>13. edge' = edge
  BY <1>1 DEF edge
<1>14. place = "take" => next_destination <= edge[1]
  BY <1>3, <1>12
<1>15. EdgeLemmas!Merges(cursor, edge_files, AllEdges)'
       /\ Degrees(out_degree, cursor.out, emitted_edge_count, vertex_count)'
       /\ vertex_ids' = dictionary'
  BY <1>1, <1>2, <1>9 DEF Stages
<1>16. Stages'
  BY <1>1, <1>2, <1>6, <1>12, <1>13, <1>14, <1>15 DEF Stages
<1> QED
  BY <1>1, <1>2, <1>9, <1>10, <1>11, <1>16 DEF BuildInv, Building

LEMMA EmittedCountKeeps ==
  ASSUME PhasesInv, BuildInv, EmittedCount, place \in Building,
         UNCHANGED <<input, idVars, compactVars>>
  PROVE  BuildInv'
<1>1. /\ state = "active" /\ calling /\ argument # Partitioner!Finishing
      /\ ~calling' /\ state' = state /\ next_destination' = next_destination + 1
      /\ UNCHANGED <<place, vertex_ids, incoming_sources, incoming_counts, out_degree,
                     cursor, current_destination, current_incoming_count,
                     emitted_edge_count>>
  BY DEF EmittedCount, Partitioner!Absorb
<1>2. compact_place = "done" /\ Streams /\ Counting /\ Stages /\ place # "waiting"
  BY DEF BuildInv, Building
<1>3. place \in {"take", "counts"}
  BY <1>1, <1>2 DEF Stages
<1>4. /\ emitted_edge_count \in Nat /\ Len(cursor.out) \in Nat
      /\ next_destination \in Nat /\ current_destination \in Int
      /\ emitted_edge_count < Len(cursor.out) => edge[1] \in 0 .. vertex_count - 1
  BY <1>2, Positions
<1>5. Owing /\ ~Owing'
  BY <1>1 DEF Owing
<1>6. /\ CompactEdge' = CompactEdge /\ AllEdges' = AllEdges /\ vertex_count' = vertex_count
      /\ UNCHANGED <<edge_files, dictionary, compact_place>>
  BY Settled
<1>7. Streams'
  BY <1>1, <1>2, <1>6 DEF Streams
<1>8. Counting'
  <2>1. Len(incoming_counts) = next_destination + 1 /\ current_destination <= next_destination
    BY <1>2, <1>5 DEF Counting
  <2>2. Len(incoming_counts) = (next_destination + 1) + 0 /\ next_destination + 1 \in Nat
        /\ current_destination <= next_destination + 1
    BY <1>4, <2>1
  <2>3. Tally(incoming_counts, cursor.out, emitted_edge_count, current_destination,
              current_incoming_count)'
    BY <1>1, <1>2 DEF Counting
  <2> QED
    BY <1>1, <1>5, <2>2, <2>3 DEF Counting
<1>9. place = "take" => emitted_edge_count < Len(cursor.out) /\ next_destination + 1 <= edge[1]
  <2>1. place = "take" => emitted_edge_count < Len(cursor.out) /\ next_destination < edge[1]
    BY <1>2, <1>5 DEF Stages
  <2> QED
    BY <1>4, <2>1
<1>10. edge' = edge
  BY <1>1 DEF edge
<1>11. EdgeLemmas!Merges(cursor, edge_files, AllEdges)'
       /\ Degrees(out_degree, cursor.out, emitted_edge_count, vertex_count)'
       /\ vertex_ids' = dictionary'
  BY <1>1, <1>2, <1>3, <1>6 DEF Stages
<1>12. Stages'
  BY <1>1, <1>2, <1>3, <1>5, <1>9, <1>10, <1>11 DEF Stages
<1> QED
  BY <1>1, <1>2, <1>3, <1>6, <1>7, <1>8, <1>12 DEF BuildInv, Building

\* An edge is taken when its destination is the next.
LEMMA TakesThere ==
  ASSUME PhasesInv, BuildInv, TakeEdge
  PROVE  ~Owing /\ Len(incoming_counts) = next_destination /\ edge[1] = next_destination
<1>1. /\ place = "take" /\ emitted_edge_count < Len(cursor.out) /\ EdgeAscends
      /\ next_destination >= edge[1]
  BY DEF TakeEdge
<1>2. compact_place = "done" /\ Streams /\ Counting /\ Stages /\ place # "waiting"
  BY <1>1 DEF BuildInv, Building
<1>3. PICK out, n, d, c, size : out = cursor.out /\ n = emitted_edge_count
        /\ d = next_destination /\ c = current_destination /\ size = vertex_count
  OBVIOUS
<1>4. /\ n \in Nat /\ Len(out) \in Nat /\ d \in Nat /\ c \in Int /\ n < Len(out)
      /\ size \in Nat /\ edge[1] \in 0 .. size - 1 /\ edge[2] \in 0 .. size - 1
  BY <1>1, <1>2, <1>3, Positions
<1>5. ~Owing
  <2>1. Owing => next_destination < edge[1]
    BY <1>1, <1>2 DEF Stages
  <2>2. ~(next_destination < edge[1])
    BY <1>1, <1>3, <1>4
  <2> QED
    BY <2>1, <2>2
<1>6. Len(incoming_counts) = d
  BY <1>2, <1>3, <1>4, <1>5 DEF Counting
<1>7. out \in Seq(CompactEdge)
  BY <1>2, <1>3 DEF Streams
<1>8. edge = out[n + 1] /\ (n > 0 => EdgeBefore(out[n], out[n + 1]))
  BY <1>1, <1>3 DEF edge, EdgeAscends
<1>9. c = IF n = 0 THEN None ELSE out[n][1]
  BY <1>2, <1>3 DEF Counting, Tally
<1>10. edge[1] = d
  <2>1. edge[1] <= d
    BY <1>1, <1>3, <1>4
  <2>2. (d = c) \/ (n = 0 /\ d = 0) \/ d <= edge[1]
    BY <1>1, <1>2, <1>3 DEF Stages, Level
  <2>3. CASE d = c
    <3>1. n # 0
      BY <1>4, <1>9, <2>3 DEF None
    <3>2. EdgeBefore(out[n], out[n + 1]) /\ c = out[n][1]
      BY <1>4, <1>8, <1>9, <3>1
    <3>3. c <= edge[1]
      BY <1>4, <1>8, <3>2 DEF EdgeBefore
    <3> QED
      BY <1>4, <2>1, <2>3, <3>3
  <2>4. CASE n = 0 /\ d = 0
    BY <1>4, <2>1, <2>4
  <2>5. CASE d <= edge[1]
    BY <1>4, <2>1, <2>5
  <2> QED
    BY <2>2, <2>3, <2>4, <2>5
<1> QED
  BY <1>3, <1>5, <1>6, <1>10

LEMMA TakeEdgeKeeps ==
  ASSUME PhasesInv, BuildInv, TakeEdge, UNCHANGED <<input, idVars, compactVars>>
  PROVE  BuildInv'
<1>1. /\ place = "take" /\ place' = "take" /\ ~calling
      /\ emitted_edge_count < Len(cursor.out) /\ EdgeAscends
      /\ next_destination >= edge[1]
      /\ current_destination' = edge[1]
      /\ current_incoming_count' =
           (IF edge[1] = current_destination THEN current_incoming_count ELSE 0) + 1
      /\ out_degree' = [out_degree EXCEPT ![edge[2] + 1] = @ + 1]
      /\ emitted_edge_count' = emitted_edge_count + 1
      /\ UNCHANGED <<vertex_ids, incoming_sources, incoming_counts, cursor,
                     next_destination, state, calling, argument>>
  BY DEF TakeEdge, builderVars
<1>2. compact_place = "done" /\ Streams /\ Counting /\ Stages /\ place # "waiting"
      /\ InputTyped
  BY <1>1 DEF BuildInv, Building, PhasesInv, IdInv
<1>3. PICK out, n, d, c, size : out = cursor.out /\ n = emitted_edge_count
        /\ d = next_destination /\ c = current_destination /\ size = vertex_count
  OBVIOUS
<1>4. /\ n \in Nat /\ Len(out) \in Nat /\ d \in Nat /\ c \in Int /\ n < Len(out)
      /\ size \in Nat /\ edge[1] \in 0 .. size - 1 /\ edge[2] \in 0 .. size - 1
  BY <1>1, <1>2, <1>3, Positions
<1>5. ~Owing /\ Len(incoming_counts) = d /\ edge[1] = d
  BY <1>3, TakesThere
<1>6. out \in Seq(CompactEdge) /\ StreamAscends(out, n)
      /\ incoming_sources \in Seq(Int) /\ Len(incoming_sources) <= n
      /\ \A i \in 1 .. Len(incoming_sources) : incoming_sources[i] = out[i][2]
  BY <1>2, <1>3 DEF Streams
<1>7. edge = out[n + 1] /\ (n > 0 => EdgeBefore(out[n], out[n + 1]))
  BY <1>1, <1>3 DEF edge, EdgeAscends
<1>8. Tally(incoming_counts, out, n + 1, d,
             (IF d = c THEN current_incoming_count ELSE 0) + 1)
  <2>1. Tally(incoming_counts, out, n, c, current_incoming_count)
    BY <1>2, <1>3 DEF Counting
  <2>2. out[n + 1][1] = Len(incoming_counts)
    BY <1>5, <1>7
  <2>3. Tally(incoming_counts, out, n + 1, Len(incoming_counts),
              (IF Len(incoming_counts) = c THEN current_incoming_count ELSE 0) + 1)
    BY <1>2, <1>4, <1>6, <2>1, <2>2, TallyTakes
  <2> QED
    BY <1>5, <2>3
<1>9. /\ CompactEdge' = CompactEdge /\ AllEdges' = AllEdges /\ vertex_count' = vertex_count
       /\ UNCHANGED <<edge_files, dictionary, compact_place>>
  BY Settled
<1>10. Owing' = Owing
  BY <1>1 DEF Owing
<1>11. Streams'
  <2>1. StreamAscends(out, n + 1)
    BY <1>2, <1>4, <1>6, <1>7, AscendsTakes
  <2>2. n + 1 \in 0 .. Len(out)
    BY <1>4
  <2>3. Len(incoming_sources) <= n + 1
    <3>1. Len(incoming_sources) \in Nat
      BY <1>6
    <3> QED
      BY <1>4, <1>6, <3>1
  <2> QED
    BY <1>1, <1>3, <1>6, <1>9, <2>1, <2>2, <2>3 DEF Streams
<1>12. Counting'
  <2>1. current_destination' = d
        /\ current_incoming_count' = (IF d = c THEN current_incoming_count ELSE 0) + 1
        /\ d <= d
    BY <1>1, <1>3, <1>4, <1>5
  <2>2. Len(incoming_counts) = d + 0
    BY <1>4, <1>5
  <2> QED
    BY <1>1, <1>3, <1>4, <1>5, <1>8, <1>10, <2>1, <2>2 DEF Counting
<1>13. Degrees(out_degree', out, n + 1, size)
  <2>1. Degrees(out_degree, out, n, size)
    BY <1>1, <1>2, <1>3 DEF Stages
  <2>2. edge[2] + 1 \in 1 .. size /\ out[n + 1][2] = (edge[2] + 1) - 1
    BY <1>4, <1>7
  <2>3. PICK taken : taken = edge[2] + 1
    OBVIOUS
  <2>4. Degrees([out_degree EXCEPT ![taken] = @ + 1], out, n + 1, size)
    BY <1>4, <2>1, <2>2, <2>3, DegreesTake
  <2> QED
    BY <1>1, <2>3, <2>4
<1>14. Level'
  BY <1>1, <1>3, <1>5 DEF Level
<1>15. vertex_ids = dictionary /\ EdgeLemmas!Merges(cursor, edge_files, AllEdges)
  BY <1>1, <1>2 DEF Stages
<1>16. Stages'
  BY <1>1, <1>3, <1>5, <1>9, <1>10, <1>13, <1>14, <1>15 DEF Stages
<1> QED
  BY <1>1, <1>2, <1>9, <1>11, <1>12, <1>16 DEF BuildInv, Building

LEMMA AppendSourcesKeeps ==
  ASSUME PhasesInv, BuildInv, AppendSources, UNCHANGED <<input, idVars, compactVars>>
  PROVE  BuildInv'
<1>1. /\ place = "take" /\ place' = "read" /\ emitted_edge_count = Len(cursor.out)
      /\ incoming_sources' = incoming_sources \o
           [i \in 1 .. batch_size |-> cursor.out[Len(incoming_sources) + i][2]]
      /\ UNCHANGED <<vertex_ids, incoming_counts, out_degree, cursor, next_destination,
                     current_destination, current_incoming_count, emitted_edge_count,
                     state, calling, argument>>
  BY DEF AppendSources, Goes, builderVars
<1>2. compact_place = "done" /\ Streams /\ Counting /\ Stages /\ place # "waiting"
      /\ InputTyped
  BY <1>1 DEF BuildInv, Building, PhasesInv, IdInv
<1>3. PICK out, n, l, r : out = cursor.out /\ n = emitted_edge_count
                          /\ l = Len(incoming_sources) /\ r = batch_size
  OBVIOUS
<1>4. /\ out \in Seq(CompactEdge) /\ n = Len(out) /\ n \in Nat
      /\ incoming_sources \in Seq(Int) /\ l <= n
      /\ \A i \in 1 .. l : incoming_sources[i] = out[i][2]
  BY <1>1, <1>2, <1>3, Positions DEF Streams
<1>5. l \in Nat /\ r \in Nat /\ l + r = n
  <2>1. l \in Nat
    BY <1>3, <1>4
  <2>2. r = n - l
    BY <1>1, <1>3 DEF batch_size
  <2> QED
    BY <1>4, <2>1, <2>2
<1>6. ~Owing /\ ~calling /\ Level
  <2>1. ~(emitted_edge_count < Len(cursor.out))
    BY <1>1, <1>2, Positions
  <2> QED
    BY <1>1, <1>2, <2>1 DEF Stages
<1>7. PICK new : new = [i \in 1 .. r |-> out[l + i][2]]
  OBVIOUS
<1>8. \A i \in 1 .. r : new[i] = out[l + i][2] /\ new[i] \in Int
  <2>1. ASSUME NEW i \in 1 .. r PROVE new[i] = out[l + i][2] /\ new[i] \in Int
    <3>1. PICK k : k = l + i
      OBVIOUS
    <3>2. k \in 1 .. Len(out)
      BY <1>4, <1>5, <3>1
    <3>3. out[k][2] \in Int
      BY <1>2, <1>4, <3>2, StreamTyped
    <3> QED
      BY <1>7, <3>1, <3>3
  <2> QED
    BY <2>1
<1>9. new \in Seq(Int) /\ Len(new) = r
  <2>1. DOMAIN new = 1 .. r /\ new = [i \in 1 .. r |-> new[i]]
    BY <1>7
  <2>2. new \in Seq(Int)
    BY <1>5, <1>8, <2>1, IsASeq
  <2> QED
    BY <1>5, <2>1, <2>2
<1>10. incoming_sources' = incoming_sources \o new
  BY <1>1, <1>3, <1>7
<1>11. /\ incoming_sources' \in Seq(Int) /\ Len(incoming_sources') = n
       /\ \A i \in 1 .. n : incoming_sources'[i]
                              = IF i <= l THEN incoming_sources[i] ELSE new[i - l]
  <2>1. /\ incoming_sources \o new \in Seq(Int)
        /\ Len(incoming_sources \o new) = Len(incoming_sources) + Len(new)
        /\ \A i \in 1 .. Len(incoming_sources) + Len(new) :
             (incoming_sources \o new)[i]
               = IF i <= Len(incoming_sources) THEN incoming_sources[i]
                 ELSE new[i - Len(incoming_sources)]
    BY <1>4, <1>9, ConcatProperties, Zenon
  <2> QED
    BY <1>3, <1>5, <1>9, <1>10, <2>1, Zenon
<1>12. \A i \in 1 .. n : incoming_sources'[i] = out[i][2]
  <2>1. ASSUME NEW i \in 1 .. n PROVE incoming_sources'[i] = out[i][2]
    <3>1. CASE i <= l
      <4>1. i \in 1 .. l
        BY <1>5, <3>1
      <4> QED
        BY <1>4, <1>11, <3>1, <4>1
    <3>2. CASE ~(i <= l)
      <4>1. PICK j : j = i - l
        OBVIOUS
      <4>2. j \in 1 .. r /\ l + j = i
        BY <1>5, <3>2, <4>1
      <4>3. new[j] = out[i][2]
        BY <1>8, <4>2
      <4> QED
        BY <1>11, <3>2, <4>1, <4>3
    <3> QED
      BY <3>1, <3>2
  <2> QED
    BY <2>1
<1>13. /\ CompactEdge' = CompactEdge /\ AllEdges' = AllEdges /\ vertex_count' = vertex_count
       /\ UNCHANGED <<edge_files, dictionary, compact_place>>
  BY Settled
<1>14. Owing' = Owing
  BY <1>1 DEF Owing
<1>15. Streams'
  <2>1. StreamAscends(out, n) /\ n \in 0 .. Len(out) /\ n <= n
    BY <1>2, <1>3, <1>4 DEF Streams
  <2> QED
    BY <1>1, <1>3, <1>4, <1>11, <1>12, <1>13, <2>1 DEF Streams
<1>16. Counting'
  BY <1>1, <1>2, <1>14 DEF Counting
<1>17. EdgeLemmas!Merges(cursor, edge_files, AllEdges)'
       /\ Degrees(out_degree, cursor.out, emitted_edge_count, vertex_count)'
       /\ vertex_ids' = dictionary'
  BY <1>1, <1>2, <1>13 DEF Stages
<1>18. Level' /\ ~Owing' /\ ~calling' /\ emitted_edge_count' = Len(incoming_sources')
  BY <1>1, <1>3, <1>6, <1>11, <1>14 DEF Level
<1>19. Stages'
  BY <1>1, <1>17, <1>18 DEF Stages
<1> QED
  BY <1>1, <1>2, <1>13, <1>15, <1>16, <1>19 DEF BuildInv, Building

\* The steps that move on and leave the stream alone.
LEMMA StreamVarsStay ==
  ASSUME PhasesInv, BuildInv, place \in Building,
         UNCHANGED <<input, idVars, compactVars, streamVars>>, Owing' = Owing,
         \/ place' = place
         \/ place \in {"counts", "accounts", "validate"}
            /\ place' \in {"accounts", "validate", "publish"},
         Owing' \/ calling' => place' \in {"take", "counts"},
         place' = "take" /\ calling' => Owing',
         place' = "publish" => Valid(Staged)'
  PROVE  BuildInv'
<1>1. compact_place = "done" /\ Streams /\ Counting /\ Stages
  BY DEF BuildInv, Building
<1>2. UNCHANGED <<vertex_ids, incoming_sources, incoming_counts, out_degree, cursor,
                  next_destination, current_destination, current_incoming_count,
                  emitted_edge_count>>
  BY DEF streamVars
<1>3. UNCHANGED <<input, idVars, compactVars>>
  OBVIOUS
<1>4. /\ AllEdges' = AllEdges /\ vertex_count' = vertex_count
      /\ UNCHANGED <<input, edge_files, dictionary, compact_place>>
  BY <1>3, Settled
<1>5. Streams' /\ Counting'
  BY <1>1, <1>2, <1>4, StreamsStay
<1>6. edge' = edge /\ (Level' <=> Level)
  BY <1>2 DEF edge, Level
<1>7. place # "copy" =>
        /\ EdgeLemmas!Merges(cursor, edge_files, AllEdges)'
        /\ Degrees(out_degree, cursor.out, emitted_edge_count, vertex_count)'
        /\ vertex_ids' = dictionary'
  BY <1>1, <1>2, <1>4 DEF Stages
<1>8. CASE place' = place
  <2>1. Stages'
    BY <1>1, <1>2, <1>4, <1>6, <1>7, <1>8 DEF Stages
  <2> QED
    BY <1>1, <1>4, <1>5, <1>8, <2>1 DEF BuildInv, Building
<1>9. CASE /\ place \in {"counts", "accounts", "validate"}
           /\ place' \in {"accounts", "validate", "publish"}
  <2>1. /\ emitted_edge_count = Len(incoming_sources) /\ cursor.heap = <<>>
        /\ emitted_edge_count = Len(cursor.out)
    BY <1>1, <1>9 DEF Stages
  <2>2. Stages'
    BY <1>2, <1>7, <1>9, <2>1 DEF Stages
  <2> QED
    BY <1>1, <1>4, <1>5, <1>9, <2>2 DEF BuildInv, Building
<1> QED
  BY <1>8, <1>9

LEMMA EmitTaskKeeps ==
  ASSUME PhasesInv, BuildInv, EmitTask, place \in Building,
         UNCHANGED <<input, idVars, compactVars>>
  PROVE  BuildInv'
<1>1. calling /\ UNCHANGED <<place, streamVars, state, calling, argument>>
  BY DEF EmitTask, Partitioner!Emit
<1>2. Owing' = Owing
  BY <1>1 DEF Owing
<1>3. place \in {"take", "counts"} /\ (place = "take" => Owing)
  BY <1>1 DEF BuildInv, Stages
<1> QED
  BY <1>1, <1>2, <1>3, StreamVarsStay

LEMMA CallPartitionFinishKeeps ==
  ASSUME PhasesInv, BuildInv, CallPartitionFinish, UNCHANGED <<input, idVars, compactVars>>
  PROVE  BuildInv'
<1>1. /\ place = "counts" /\ state = "active" /\ ~calling /\ UNCHANGED <<place, streamVars>>
      /\ Partitioner!Call(Partitioner!Finishing)
  BY DEF CallPartitionFinish, Partitioner!Call
<1>2. /\ argument' = Partitioner!Finishing /\ calling' /\ state' = "active"
  BY <1>1 DEF Partitioner!Call
<1>3. Partitioner!Finishing' = Partitioner!Finishing
  BY DEF Partitioner!Finishing
<1>4. ~Owing /\ ~Owing'
  BY <1>1, <1>2, <1>3 DEF Owing
<1>5. Owing' = Owing
  <2>1. Owing \in BOOLEAN /\ Owing' \in BOOLEAN
    BY <1>1, <1>2, <1>3 DEF Owing
  <2> QED
    BY <1>4, <2>1
<1> QED
  BY <1>1, <1>2, <1>4, <1>5, StreamVarsStay DEF Building

LEMMA FinishPartitionKeeps ==
  ASSUME PhasesInv, BuildInv, FinishPartition, UNCHANGED <<input, idVars, compactVars>>
  PROVE  BuildInv'
<1>1. /\ place = "counts" /\ place' = "accounts" /\ UNCHANGED streamVars
      /\ state = "active" /\ argument = Partitioner!Finishing
      /\ state' = "finished" /\ ~calling'
  BY DEF FinishPartition, Goes, Partitioner!Finish
<1>2. ~Owing /\ ~Owing'
  BY <1>1 DEF Owing
<1>3. Owing' = Owing
  <2>1. Owing \in BOOLEAN /\ Owing' \in BOOLEAN
    BY <1>1 DEF Owing
  <2> QED
    BY <1>2, <2>1
<1> QED
  BY <1>1, <1>2, <1>3, StreamVarsStay DEF Building

LEMMA AccountsKeep ==
  ASSUME PhasesInv, BuildInv, WriteManifest \/ ValidateGraph,
         UNCHANGED <<input, idVars, compactVars>>
  PROVE  BuildInv'
<1>1. /\ UNCHANGED <<streamVars, builderVars>>
      /\ \/ place = "accounts" /\ place' = "validate"
         \/ place = "validate" /\ place' = "publish" /\ Valid(Staged)
  BY DEF WriteManifest, ValidateGraph, Goes
<1>2. UNCHANGED <<state, calling, argument, tasks>>
  BY <1>1 DEF builderVars
<1>3. Owing' = Owing
  BY <1>2 DEF Owing
<1>4. ~(Owing \/ calling)
  BY <1>1 DEF BuildInv, Building, Stages
<1>5. Staged' = Staged
  BY <1>1, <1>2 DEF Staged, streamVars
<1>6. place' = "publish" => Valid(Staged)'
  <2>1. PICK g : g = Staged
    OBVIOUS
  <2>2. place' = "publish" => Valid(g)
    BY <1>1, <2>1
  <2> QED
    BY <1>5, <2>1, <2>2
<1> QED
  BY <1>1, <1>2, <1>3, <1>4, <1>6, StreamVarsStay DEF Building

----------------------------------------------------------------------------
(* The graph.                                                              *)

Listed(S)       == InOrder(S, <)
SourcesInto(v)  == {Rank(e[1]) : e \in Into(v)}

IsGraph(g) ==
  /\ g.vertex_ids = Listed(Endpoints)
  /\ Len(g.incoming_sources) = Cardinality(InputEdges)
  /\ \A v \in Vertices :
       /\ g.incoming_counts[v + 1] = Cardinality(Into(v))
       /\ SourcesOf(g, v) = Listed(SourcesInto(v))
       /\ g.out_degree[v + 1] = Cardinality(OutOf(v))
  /\ IsCanonical(g.incoming_counts, g.tasks)

\* The stream is over: it has every edge, and each once.
Complete(out) ==
  /\ out \in Seq(AllEdges) /\ Within(out) = AllEdges
  /\ \A j, k \in 1 .. Len(out) : j < k => EdgeBefore(out[j], out[k])

LEMMA StreamCompletes ==
  ASSUME PhasesInv, BuildInv, place \in {"validate", "publish"}
  PROVE  /\ Complete(cursor.out) /\ emitted_edge_count = Len(cursor.out)
         /\ Len(incoming_sources) = Len(cursor.out)
<1>1. compact_place = "done" /\ Streams /\ Stages
  BY DEF BuildInv, Building
<1>2. /\ edge_files \in Seq(Seq(AllEdges)) /\ Compacted = AllEdges
  BY <1>1, FilesTyped
<1>3. /\ EdgeLemmas!Merges(cursor, edge_files, AllEdges) /\ cursor.heap = <<>>
      /\ emitted_edge_count = Len(cursor.out) /\ emitted_edge_count = Len(incoming_sources)
  BY <1>1 DEF Stages
<1>4. /\ cursor.out \in Seq(AllEdges)
      /\ \A i \in DOMAIN edge_files : \A k \in DOMAIN edge_files[i] :
           \E j \in DOMAIN cursor.out : cursor.out[j] = edge_files[i][k]
  BY <1>2, <1>3, EdgeLemmas!MergeEnds
<1>5. Within(cursor.out) = AllEdges
  <2>1. Within(cursor.out) \subseteq AllEdges
    BY <1>4 DEF Within
  <2>2. ASSUME NEW e \in AllEdges PROVE e \in Within(cursor.out)
    <3>1. PICK i \in DOMAIN edge_files : \E k \in DOMAIN edge_files[i] : e = edge_files[i][k]
      BY <1>2 DEF Compacted
    <3>2. PICK k \in DOMAIN edge_files[i] : e = edge_files[i][k]
      BY <3>1
    <3>3. PICK j \in DOMAIN cursor.out : cursor.out[j] = edge_files[i][k]
      BY <1>4, <3>1, <3>2
    <3> QED
      BY <3>2, <3>3 DEF Within
  <2> QED
    BY <2>1, <2>2
<1>6. \A j, k \in 1 .. Len(cursor.out) : j < k => EdgeBefore(cursor.out[j], cursor.out[k])
  BY <1>1, <1>3 DEF Streams, StreamAscends
<1> QED
  BY <1>3, <1>4, <1>5, <1>6 DEF Complete

\* An edge of the input and its compact form.
LEMMA Compacting ==
  ASSUME InputTyped
  PROVE  /\ IsFiniteSet(InputEdges) /\ InputEdges = Within(input)
         /\ \A e \in InputEdges : /\ Uncompacted(e) \in AllEdges
                                  /\ Uncompacted(e)[1] = Rank(e[2])
                                  /\ Uncompacted(e)[2] = Rank(e[1])
         /\ \A x \in AllEdges : \E e \in InputEdges : Uncompacted(e) = x
         /\ \A d, e \in InputEdges : Uncompacted(d) = Uncompacted(e) => d = e
<1>1. DOMAIN input = 1 .. Len(input) /\ Len(input) \in Nat
      /\ \A i \in DOMAIN input :
           /\ input[i] = <<input[i][1], input[i][2]>>
           /\ input[i][1] \in Endpoints /\ input[i][2] \in Endpoints
  BY EndpointsTyped
<1>2. InputEdges = Within(input)
  BY DEF InputEdges, Within
<1>3. IsFiniteSet(InputEdges)
  BY <1>1, <1>2, MembersOfList
<1>4. \A e \in InputEdges : e = <<e[1], e[2]>> /\ e[1] \in Endpoints /\ e[2] \in Endpoints
  BY <1>1 DEF InputEdges
<1>5. \A e \in InputEdges : /\ Uncompacted(e) \in AllEdges
                            /\ Uncompacted(e)[1] = Rank(e[2])
                            /\ Uncompacted(e)[2] = Rank(e[1])
  BY DEF AllEdges, Uncompacted
<1>6. \A x \in AllEdges : \E e \in InputEdges : Uncompacted(e) = x
  BY DEF AllEdges
<1>7. ASSUME NEW d \in InputEdges, NEW e \in InputEdges, Uncompacted(d) = Uncompacted(e)
      PROVE  d = e
  <2>1. Rank(d[2]) = Rank(e[2]) /\ Rank(d[1]) = Rank(e[1])
    BY <1>5, <1>7
  <2>2. d[2] = e[2] /\ d[1] = e[1]
    BY <1>4, <2>1, RanksOfEndpoints
  <2> QED
    BY <1>4, <2>2
<1> QED
  BY <1>2, <1>3, <1>5, <1>6, <1>7

\* The positions P of the stream have the edges E, those of I in the input.
Corresponds(out, P, E, I) ==
  /\ P \subseteq 1 .. Len(out) /\ E \subseteq AllEdges /\ I \subseteq InputEdges
  /\ \A k \in 1 .. Len(out) : k \in P <=> out[k] \in E
  /\ \A e \in InputEdges : e \in I <=> Uncompacted(e) \in E

LEMMA SameNumber ==
  ASSUME InputTyped, NEW out, Complete(out), NEW P, NEW E, NEW I, Corresponds(out, P, E, I)
  PROVE  Cardinality(I) = Cardinality(P) /\ IsFiniteSet(P)
<1> USE DEF Corresponds
<1>1. /\ out \in Seq(AllEdges) /\ Within(out) = AllEdges
      /\ \A j, k \in 1 .. Len(out) : j < k => EdgeBefore(out[j], out[k])
  BY DEF Complete
<1>2. out \in Seq(CompactEdge)
  BY <1>1, FirstTyped, SeqMonotonic
<1>3. /\ Len(out) \in Nat /\ DOMAIN out = 1 .. Len(out)
      /\ \A k \in 1 .. Len(out) : out[k][1] \in Int /\ out[k][2] \in Int
  BY <1>2, StreamTyped
<1>4. IsFiniteSet(P)
  <2>1. IsFiniteSet(1 .. Len(out))
    BY <1>3, FS_Interval
  <2> QED
    BY <2>1, FS_Subset
<1>5. \A k \in P : out[k] \in E
  OBVIOUS
<1>6. \A x \in E : \E k \in P : out[k] = x
  <2>1. ASSUME NEW x \in E PROVE \E k \in P : out[k] = x
    <3>1. PICK k \in DOMAIN out : out[k] = x
      BY <1>1 DEF Within
    <3> QED
      BY <1>3, <3>1
  <2> QED
    BY <2>1
<1>7. ASSUME NEW j \in P, NEW k \in P, out[j] = out[k] PROVE j = k
  <2>1. j \in 1 .. Len(out) /\ k \in 1 .. Len(out) /\ j \in Int /\ k \in Int
        /\ out[j][1] \in Int /\ out[j][2] \in Int
    BY <1>3
  <2>2. ~EdgeBefore(out[j], out[j])
    BY <2>1 DEF EdgeBefore
  <2>3. ~(j < k) /\ ~(k < j)
    BY <1>1, <1>7, <2>1, <2>2
  <2> QED
    BY <2>1, <2>3
<1>8. Cardinality(E) = Cardinality(P)
  BY <1>4, <1>5, <1>6, <1>7, EqualSizes
<1>9. IsFiniteSet(I)
  BY Compacting, FS_Subset
<1>10. PICK f : f = [e \in I |-> Uncompacted(e)]
  OBVIOUS
<1>11. \A e \in I : f[e] \in E
  BY <1>10
<1>12. \A x \in E : \E e \in I : f[e] = x
  <2>1. ASSUME NEW x \in E PROVE \E e \in I : f[e] = x
    <3>1. PICK e \in InputEdges : Uncompacted(e) = x
      BY Compacting
    <3>2. e \in I
      BY <3>1
    <3> QED
      BY <1>10, <3>1, <3>2
  <2> QED
    BY <2>1
<1>13. \A d, e \in I : f[d] = f[e] => d = e
  BY <1>10, Compacting
<1>14. Cardinality(E) = Cardinality(I)
  BY <1>9, <1>11, <1>12, <1>13, EqualSizes
<1> QED
  BY <1>4, <1>8, <1>14

\* The edges of a destination are together in the stream.
Together(out, v, a, b) ==
  /\ a \in Nat /\ b \in Nat /\ a <= b /\ b <= Len(out)
  /\ \A k \in 1 .. Len(out) : k \in a + 1 .. b <=> out[k][1] = v

\* The sources of the stream.
Lists(sources, out) ==
  /\ sources \in Seq(Int) /\ Len(sources) = Len(out)
  /\ \A k \in 1 .. Len(out) : sources[k] = out[k][2]

LEMMA EntersThere ==
  ASSUME InputTyped, NEW out, Complete(out), NEW counts, NEW destination, NEW count,
         Tally(counts, out, Len(out), destination, count),
         Len(counts) = Cardinality(Endpoints),
         NEW v \in Vertices, NEW a, a = EdgesBefore(counts, v),
         NEW b, b = EdgesBefore(counts, v + 1)
  PROVE  Together(out, v, a, b) /\ counts[v + 1] = Cardinality(Into(v))
<1>1. PICK l, n : l = Len(counts) /\ n = Len(out)
  OBVIOUS
<1>2. counts \in Seq(Nat)
      /\ \A d \in 0 .. l :
           /\ EdgesBefore(counts, d) <= n
           /\ \A k \in 1 .. n : out[k][1] < d <=> k <= EdgesBefore(counts, d)
  BY <1>1 DEF Tally
<1>3. out \in Seq(CompactEdge)
  BY FirstTyped, SeqMonotonic DEF Complete
<1>4. n \in Nat /\ \A k \in 1 .. n : out[k][1] \in Int
  BY <1>1, <1>3, StreamTyped
<1>5. l \in Nat /\ v \in 0 .. l - 1
  BY <1>1, RanksOfEndpoints DEF Vertices
<1>6. PICK w : w = v + 1
  OBVIOUS
<1>7. v \in 0 .. l /\ w \in 0 .. l /\ v \in Int
  BY <1>5, <1>6
<1>8. a \in Nat /\ b \in Nat /\ b = a + counts[v + 1]
  BY <1>1, <1>2, <1>5, <1>6, <1>7, EdgesBeforeUnfold
<1>9. counts[v + 1] \in Nat
  <2>1. v + 1 \in 1 .. Len(counts)
    BY <1>1, <1>5
  <2> QED
    BY <1>2, <2>1
<1>10. a <= b /\ b <= n /\ counts[v + 1] = b - a
  <2>1. b <= n
    BY <1>2, <1>6, <1>7
  <2> QED
    BY <1>8, <1>9, <2>1
<1>11. ASSUME NEW k \in 1 .. n PROVE k \in a + 1 .. b <=> out[k][1] = v
  <2>1. PICK x : x = out[k][1]
    OBVIOUS
  <2>2. x \in Int
    BY <1>4, <2>1
  <2>3. (x < v <=> k <= a) /\ (x < w <=> k <= b)
    BY <1>2, <1>6, <1>7, <2>1
  <2>4. k \in a + 1 .. b <=> x = v
    BY ONLY <1>4, <1>6, <1>7, <1>8, <2>2, <2>3, k \in 1 .. n
  <2> QED
    BY <2>1, <2>4
<1>12. counts[v + 1] = Cardinality(Into(v))
  <2>1. PICK P, E, I : P = a + 1 .. b /\ E = {x \in AllEdges : x[1] = v} /\ I = Into(v)
    OBVIOUS
  <2>2. P \subseteq 1 .. Len(out)
    <3>1. a \in Nat /\ b <= n /\ b \in Nat
      BY <1>8, <1>10
    <3>2. a + 1 .. b \subseteq 1 .. n
      BY ONLY <1>4, <3>1
    <3> QED
      BY <1>1, <2>1, <3>2
  <2>3. E \subseteq AllEdges /\ I \subseteq InputEdges
    BY <2>1 DEF Into
  <2>4. \A k \in 1 .. n : out[k] \in AllEdges
    BY <1>1 DEF Complete
  <2>5. \A k \in 1 .. Len(out) : k \in P <=> out[k] \in E
    BY <1>1, <1>11, <2>1, <2>4
  <2>6. \A e \in InputEdges : e \in I <=> Uncompacted(e) \in E
    BY <2>1, Compacting DEF Into
  <2>7. Cardinality(I) = Cardinality(P)
    <3>1. Corresponds(out, P, E, I)
      BY <2>2, <2>3, <2>5, <2>6 DEF Corresponds
    <3> QED
      BY <3>1, SameNumber
  <2>8. Cardinality(P) = b - a
    <3>1. PICK c : c = a + 1
      OBVIOUS
    <3>2. c \in Int /\ b \in Int
      BY <1>8, <3>1
    <3>3. Cardinality(c .. b) = IF c > b THEN 0 ELSE b - c + 1
      BY <3>2, FS_Interval
    <3>4. (IF c > b THEN 0 ELSE b - c + 1) = b - a
      BY <1>8, <1>10, <3>1
    <3> QED
      BY <2>1, <3>1, <3>3, <3>4
  <2> QED
    BY <1>10, <2>1, <2>7, <2>8
<1> QED
  BY <1>1, <1>8, <1>10, <1>11, <1>12 DEF Together

LEMMA ListOf ==
  ASSUME NEW S, NEW r \in Nat, NEW s, s = [i \in 1 .. r |-> s[i]],
         \A i \in 1 .. r : s[i] \in S
  PROVE  s \in Seq(S)
BY IsASeq

LEMMA SourcesRight ==
  ASSUME InputTyped, NEW out, Complete(out), NEW v \in Vertices,
         NEW a, NEW b, Together(out, v, a, b), NEW sources, Lists(sources, out)
  PROVE  SubSeq(sources, a + 1, b) = Listed(SourcesInto(v))
<1>1. PICK n, r : n = Len(out) /\ r = b - a
  OBVIOUS
<1>2. out \in Seq(CompactEdge)
  BY FirstTyped, SeqMonotonic DEF Complete
<1>3. /\ n \in Nat /\ DOMAIN out = 1 .. n
      /\ \A k \in 1 .. n : out[k][1] \in Int /\ out[k][2] \in Int
  BY <1>1, <1>2, StreamTyped
<1> USE DEF Together, Lists
<1>4. r \in Nat /\ a + r = b /\ \A i \in 1 .. r : a + i \in a + 1 .. b /\ a + i \in 1 .. n
  BY <1>1
<1>5. PICK s : s = SubSeq(sources, a + 1, a + r)
  OBVIOUS
<1>6. s \in Seq(Int) /\ Len(s) = r /\ \A i \in 1 .. r : s[i] = sources[a + i]
  <2>1. a + r <= Len(sources)
    BY <1>4
  <2> QED
    BY <1>4, <1>5, <2>1, Cut
<1>7. \A i \in 1 .. r : s[i] = out[a + i][2] /\ out[a + i][1] = v
  BY <1>1, <1>4, <1>6
<1>8. PICK S : S = SourcesInto(v)
  OBVIOUS
<1>9. \A i \in 1 .. r : s[i] \in S
  <2>1. ASSUME NEW i \in 1 .. r PROVE s[i] \in S
    <3>1. PICK k : k = a + i
      OBVIOUS
    <3>2. k \in 1 .. n /\ s[i] = out[k][2] /\ out[k][1] = v
      BY <1>4, <1>7, <3>1
    <3>3. out[k] \in AllEdges
      BY <1>1, <3>2 DEF Complete
    <3>4. PICK e \in InputEdges : Uncompacted(e) = out[k]
      BY <3>3, Compacting
    <3>5. Rank(e[2]) = v /\ Rank(e[1]) = s[i]
      BY <3>2, <3>4, Compacting
    <3> QED
      BY <1>8, <3>5 DEF Into, SourcesInto
  <2> QED
    BY <2>1
<1>10. \A x \in S : \E i \in 1 .. r : s[i] = x
  <2>1. ASSUME NEW x \in S PROVE \E i \in 1 .. r : s[i] = x
    <3>1. PICK e \in InputEdges : Rank(e[2]) = v /\ x = Rank(e[1])
      BY <1>8 DEF Into, SourcesInto
    <3>2. Uncompacted(e) \in AllEdges /\ Uncompacted(e)[1] = v /\ Uncompacted(e)[2] = x
      BY <3>1, Compacting
    <3>3. PICK k \in 1 .. n : out[k] = Uncompacted(e)
      BY <1>3, <3>2 DEF Complete, Within
    <3>4. k \in a + 1 .. b
      BY <1>1, <3>2, <3>3
    <3>5. PICK i : i = k - a
      OBVIOUS
    <3>6. i \in 1 .. r /\ a + i = k
      BY <1>1, <3>4, <3>5
    <3>7. s[i] = out[k][2]
      BY <1>7, <3>6
    <3> QED
      BY <3>2, <3>3, <3>6, <3>7
  <2> QED
    BY <2>1
<1>11. DOMAIN s = 1 .. r
  BY <1>6
<1>12. Within(s) = S
  BY <1>9, <1>10, <1>11 DEF Within
<1>13. S \subseteq Int
  <2>1. \A i \in 1 .. r : s[i] \in Int
    BY <1>6
  <2> QED
    BY <1>10, <2>1
<1>14. s \in Seq(S)
  <2>1. s = [i \in 1 .. r |-> s[i]] /\ r \in Nat
    BY <1>4, <1>6
  <2> QED
    BY <1>9, <2>1, ListOf
<1>15. \A i, j \in 1 .. Len(s) : i < j => s[i] < s[j]
  <2>1. ASSUME NEW i \in 1 .. r, NEW j \in 1 .. r, i < j PROVE s[i] < s[j]
    <3>1. PICK k, m : k = a + i /\ m = a + j
      OBVIOUS
    <3>2. k \in 1 .. n /\ m \in 1 .. n
      BY <1>4, <3>1
    <3>3. k < m
      BY <2>1, <3>1
    <3>4. s[i] = out[k][2] /\ s[j] = out[m][2] /\ out[k][1] = v /\ out[m][1] = v
      BY <1>7, <3>1
    <3>5. EdgeBefore(out[k], out[m])
      BY <1>1, <3>2, <3>3 DEF Complete
    <3>6. v \in Int
      BY DEF Vertices
    <3>7. out[k][2] < out[m][2]
      BY <3>4, <3>5, <3>6 DEF EdgeBefore
    <3> QED
      BY <3>4, <3>7
  <2> QED
    BY <1>6, <2>1
<1>16. s = InOrder(S, <)
  BY <1>12, <1>13, <1>14, <1>15, AscendingInOrder
<1> QED
  BY <1>4, <1>5, <1>8, <1>16 DEF Listed

LEMMA StagedIsGraph ==
  ASSUME PhasesInv, BuildInv, place = "publish"
  PROVE  IsGraph(Staged)
<1>1. PICK out, counts, sources, degrees :
        /\ out = cursor.out /\ counts = incoming_counts /\ sources = incoming_sources
        /\ degrees = out_degree
  OBVIOUS
<1>2. PICK g : g = Staged
  OBVIOUS
<1>3. g.vertex_ids = vertex_ids /\ g.incoming_sources = sources /\ g.incoming_counts = counts
      /\ g.out_degree = degrees
  BY <1>1, <1>2 DEF Staged
<1>4. compact_place = "done" /\ Streams /\ Counting /\ Stages /\ Valid(g) /\ InputTyped
  BY <1>2 DEF BuildInv, Building, PhasesInv, IdInv
<1>5. Complete(out) /\ emitted_edge_count = Len(out) /\ Len(sources) = Len(out)
  BY <1>1, StreamCompletes
<1>6. /\ vertex_ids = dictionary /\ dictionary = Listed(Endpoints)
      /\ Len(dictionary) = Cardinality(Endpoints)
  <2>1. /\ dictionary \in Seq(Endpoints) /\ Within(dictionary) = Endpoints
        /\ Increases(dictionary, <)
    BY <1>4, DictionaryTyped DEF PhasesInv
  <2> QED
    BY <1>4, <2>1, Dictionary DEF Stages, Listed
<1>7. Len(counts) = Cardinality(Endpoints) /\ IsCanonical(g.incoming_counts, g.tasks)
  BY <1>3, <1>4, <1>6 DEF Valid, CountsAdd
<1>8. PICK destination, count : Tally(counts, out, Len(out), destination, count)
  BY <1>1, <1>4, <1>5 DEF Counting
<1>9. Len(sources) = Cardinality(InputEdges)
  <2>1. PICK n : n = Len(out)
    OBVIOUS
  <2>2. n \in Nat /\ \A k \in 1 .. n : out[k] \in AllEdges
    BY <1>5, <2>1 DEF Complete
  <2>3. Cardinality(InputEdges) = Cardinality(1 .. n)
    <3>1. PICK P, E, I : P = 1 .. n /\ E = AllEdges /\ I = InputEdges
      OBVIOUS
    <3>2. \A k \in 1 .. Len(out) : k \in P <=> out[k] \in E
      BY <2>1, <2>2, <3>1
    <3>3. \A e \in InputEdges : e \in I <=> Uncompacted(e) \in E
      BY <1>4, <3>1, Compacting
    <3>4. P \subseteq 1 .. Len(out) /\ E \subseteq AllEdges /\ I \subseteq InputEdges
      BY <2>1, <3>1
    <3>5. Cardinality(I) = Cardinality(P)
      <4>1. Corresponds(out, P, E, I)
        BY <3>2, <3>3, <3>4 DEF Corresponds
      <4> QED
        BY <1>4, <1>5, <4>1, SameNumber
    <3> QED
      BY <3>1, <3>5
  <2>4. Cardinality(1 .. n) = IF 1 > n THEN 0 ELSE n - 1 + 1
    BY <2>2, FS_Interval
  <2>5. (IF 1 > n THEN 0 ELSE n - 1 + 1) = n
    BY <2>2
  <2> QED
    BY <1>5, <2>1, <2>3, <2>4, <2>5
<1>10. Lists(sources, out)
  BY <1>1, <1>4, <1>5 DEF Streams, Lists
<1>11. ASSUME NEW v \in Vertices
       PROVE  /\ counts[v + 1] = Cardinality(Into(v))
              /\ SourcesOf(g, v) = Listed(SourcesInto(v))
              /\ degrees[v + 1] = Cardinality(OutOf(v))
  <2>1. PICK a, b : a = EdgesBefore(counts, v) /\ b = EdgesBefore(counts, v + 1)
    OBVIOUS
  <2>2. Together(out, v, a, b) /\ counts[v + 1] = Cardinality(Into(v))
    BY <1>4, <1>5, <1>7, <1>8, <2>1, EntersThere
  <2>3. SubSeq(sources, a + 1, b) = Listed(SourcesInto(v))
    BY <1>4, <1>5, <1>10, <2>2, SourcesRight
  <2>4. SourcesOf(g, v) = SubSeq(sources, a + 1, b)
    BY <1>3, <2>1 DEF SourcesOf
  <2>5. degrees[v + 1] = Cardinality(OutOf(v))
    <3>1. PICK n, P, E, I : /\ n = Len(out) /\ P = Leaving(out, n, v + 1)
                            /\ E = {x \in AllEdges : x[2] = v} /\ I = OutOf(v)
      OBVIOUS
    <3>2. (v + 1) - 1 = v /\ v + 1 \in 1 .. vertex_count
      <4>1. PICK size : size = Cardinality(Endpoints)
        OBVIOUS
      <4>2. size \in Nat /\ vertex_count = size /\ v \in 0 .. size - 1
        BY <1>4, <1>6, <4>1, RanksOfEndpoints DEF Vertices, vertex_count
      <4>3. (v + 1) - 1 = v /\ v + 1 \in 1 .. size
        BY ONLY <4>2
      <4> QED
        BY <4>2, <4>3
    <3>3. degrees[v + 1] = Cardinality(P)
      <4>1. Degrees(degrees, out, n, vertex_count)
        BY <1>1, <1>4, <1>5, <3>1 DEF Stages
      <4> QED
        BY <3>1, <3>2, <4>1 DEF Degrees
    <3>4. /\ P \subseteq 1 .. Len(out)
          /\ \A k \in 1 .. Len(out) : k \in P <=> out[k][2] = v
      BY <3>1, <3>2 DEF Leaving
    <3>5. \A k \in 1 .. Len(out) : out[k] \in AllEdges
      BY <1>5 DEF Complete
    <3>6. \A k \in 1 .. Len(out) : k \in P <=> out[k] \in E
      BY <3>1, <3>4, <3>5
    <3>7. \A e \in InputEdges : e \in I <=> Uncompacted(e) \in E
      BY <1>4, <3>1, Compacting DEF OutOf
    <3>8. E \subseteq AllEdges /\ I \subseteq InputEdges
      BY <3>1 DEF OutOf
    <3>9. Cardinality(I) = Cardinality(P)
      <4>1. Corresponds(out, P, E, I)
        BY <3>4, <3>6, <3>7, <3>8 DEF Corresponds
      <4> QED
        BY <1>4, <1>5, <4>1, SameNumber
    <3> QED
      BY <3>1, <3>3, <3>9
  <2> QED
    BY <2>2, <2>3, <2>4, <2>5
<1>12. g.vertex_ids = Listed(Endpoints)
  BY <1>3, <1>6
<1>13. IsGraph(g)
  BY <1>3, <1>7, <1>9, <1>11, <1>12 DEF IsGraph
<1> QED
  BY <1>2, <1>13

\* A graph that is right stays so.
LEMMA GraphStays ==
  ASSUME UNCHANGED input, NEW g, IsGraph(g)
  PROVE  IsGraph(g)'
<1>1. Endpoints' = Endpoints /\ Vertices' = Vertices
  BY InputStays
<1>2. InputEdges' = InputEdges
  BY DEF InputEdges
<1>3. \A v : Into(v)' = Into(v) /\ OutOf(v)' = OutOf(v)
  BY <1>1, <1>2 DEF Into, OutOf, Rank
<1>4. ASSUME NEW v PROVE SourcesInto(v)' = SourcesInto(v)
  BY <1>1, <1>3 DEF SourcesInto, Rank
<1>5. g.vertex_ids = Listed(Endpoints')
  BY <1>1 DEF IsGraph
<1>6. ASSUME NEW v \in Vertices'
      PROVE  /\ g.incoming_counts[v + 1] = Cardinality(Into(v)')
             /\ SourcesOf(g, v) = Listed(SourcesInto(v)')
             /\ g.out_degree[v + 1] = Cardinality(OutOf(v)')
  <2>1. /\ g.incoming_counts[v + 1] = Cardinality(Into(v))
        /\ SourcesOf(g, v) = Listed(SourcesInto(v))
        /\ g.out_degree[v + 1] = Cardinality(OutOf(v))
    BY <1>1 DEF IsGraph
  <2> QED
    BY <1>3, <1>4, <2>1
<1>7. Len(g.incoming_sources) = Cardinality(InputEdges')
      /\ IsCanonical(g.incoming_counts, g.tasks)
  BY <1>2 DEF IsGraph
<1> QED
  BY <1>5, <1>6, <1>7 DEF IsGraph

\* What the property says.
LEMMA GraphOfTheInput ==
  GraphIsOfTheInput <=> (place = "published" => IsGraph(graph))
BY Zenon DEF GraphIsOfTheInput, IsGraph, Listed, SourcesInto

LEMMA GraphOfTheInputNext ==
  GraphIsOfTheInput' <=> (place' = "published" => IsGraph(graph)')
BY Zenon DEF GraphIsOfTheInput, IsGraph, Listed, SourcesInto

LEMMA BuildStarts ==
  ASSUME Init
  PROVE  BuildInv /\ GraphIsOfTheInput
<1>1. place = "waiting" /\ Fresh
  BY DEF Init, GraphInit, Fresh, Partitioner!Init
<1> QED
  BY <1>1 DEF BuildInv, Building, GraphIsOfTheInput

\* From the beginning of the build nothing else moves.
LEMMA NothingElse ==
  ASSUME PhasesInv, BuildInv, Next, place # "waiting"
  PROVE  BuildGraph
<1>1. compact_place = "done" /\ id_place = "done"
  BY DEF BuildInv, PhasesInv, CompactInv
<1>2. ~MergeIdentifiers
  BY <1>1 DEF MergeIdentifiers, IdentifierNext, OpenIdGroup, MergeId, CloseIdGroup, VerifyIds,
              RetireIds, NextPass, IdentifiersFail
<1>3. ~StartCompact /\ ~CompactEdges
  BY <1>1 DEF StartCompact, LoadDictionary, CompactEdges, CompactNext, ReadBatch,
              WriteEdgeRun, VerifyEdgeRuns, RetireRaw, EdgeRunsFail
<1>4. ~StartBuild
  BY DEF StartBuild, CreateStaging, Goes
<1> QED
  BY <1>2, <1>3, <1>4 DEF Next

LEMMA BuildGraphKeeps ==
  ASSUME PhasesInv, BuildInv, BuildGraph
  PROVE  BuildInv' /\ GraphIsOfTheInput'
<1>1. /\ place \in Building /\ GraphNext(id_files[VertexIds])
      /\ UNCHANGED <<input, idVars, compactVars>>
  BY DEF BuildGraph, BuildInv
<1>2. CASE place' \notin {"published", "failed"}
  <2>1. ~PublishGraph /\ ~BuildFails /\ ~TaskWriterFails
    BY <1>2 DEF PublishGraph, BuildFails, TaskWriterFails
  <2>2. BuildInv'
    <3>1. CASE CopyVertexIds(id_files[VertexIds])
      BY <1>1, <3>1, CopyVertexIdsKeeps
    <3>2. CASE OpenCursor(id_files[VertexIds])
      BY <1>1, <3>2, OpenCursorKeeps
    <3>3. CASE ReadEdge
      BY <1>1, <3>3, ReadEdgeKeeps
    <3>4. CASE EndRead
      BY <1>1, <3>4, EndReadKeeps
    <3>5. CASE EmitCount
      BY <1>1, <3>5, EmitCountKeeps
    <3>6. CASE EmitTask
      BY <1>1, <3>6, EmitTaskKeeps
    <3>7. CASE EmittedCount
      BY <1>1, <3>7, EmittedCountKeeps
    <3>8. CASE TakeEdge
      BY <1>1, <3>8, TakeEdgeKeeps
    <3>9. CASE AppendSources
      BY <1>1, <3>9, AppendSourcesKeeps
    <3>10. CASE CallPartitionFinish
      BY <1>1, <3>10, CallPartitionFinishKeeps
    <3>11. CASE FinishPartition
      BY <1>1, <3>11, FinishPartitionKeeps
    <3>12. CASE WriteManifest \/ ValidateGraph
      BY <1>1, <3>12, AccountsKeep
    <3> QED
      BY <1>1, <2>1, <3>1, <3>2, <3>3, <3>4, <3>5, <3>6, <3>7, <3>8, <3>9, <3>10, <3>11,
         <3>12 DEF GraphNext
  <2> QED
    BY <1>2, <2>2 DEF GraphIsOfTheInput
<1>3. CASE place' = "failed"
  <2>1. compact_place' = "done"
    BY <1>1, Settled DEF BuildInv, Building
  <2> QED
    BY <1>3, <2>1 DEF BuildInv, Building, GraphIsOfTheInput
<1>4. CASE place' = "published"
  <2>1. place = "publish" /\ graph' = Staged
    BY <1>1, <1>4 DEF GraphNext, CopyVertexIds, OpenCursor, ReadEdge, EndRead, EmitCount,
       EmitTask, EmittedCount, TakeEdge, AppendSources, CallPartitionFinish,
       FinishPartition, WriteManifest, ValidateGraph, PublishGraph, BuildFails,
       TaskWriterFails, Goes, Building
  <2>2. PICK g : g = Staged
    OBVIOUS
  <2>3. IsGraph(g)
    BY <2>1, <2>2, StagedIsGraph
  <2>4. IsGraph(g)'
    BY <1>1, <2>3, GraphStays
  <2>5. graph' = g
    BY <2>1, <2>2
  <2>6. IsGraph(graph)'
    BY <2>4, <2>5
  <2>7. GraphIsOfTheInput'
    BY <2>6, GraphOfTheInputNext
  <2>8. compact_place' = "done"
    BY <1>1, Settled DEF BuildInv, Building
  <2> QED
    BY <1>4, <2>7, <2>8 DEF BuildInv, Building
<1> QED
  BY <1>2, <1>3, <1>4

\* When the graph stays where it is.
LEMMA GraphVarsStay ==
  ASSUME PhasesInv, BuildInv, GraphIsOfTheInput, UNCHANGED <<input, graphVars>>,
         place = "waiting" \/ UNCHANGED vars
  PROVE  BuildInv' /\ GraphIsOfTheInput'
<1>1. UNCHANGED <<place, graph, vertex_ids, incoming_sources, incoming_counts, cursor,
                  next_destination, current_destination, current_incoming_count,
                  emitted_edge_count, state, calling, input>>
  BY DEF graphVars, streamVars, builderVars
<1>2. GraphIsOfTheInput'
  <2>1. PICK g : g = graph
    OBVIOUS
  <2>2. ASSUME place = "published" PROVE IsGraph(graph)'
    <3>1. IsGraph(g)
      BY <2>1, <2>2, GraphOfTheInput
    <3>2. IsGraph(g)'
      BY <1>1, <3>1, GraphStays
    <3> QED
      BY <1>1, <2>1, <3>2
  <2> QED
    BY <1>1, <2>2, GraphOfTheInputNext
<1>3. CASE place = "waiting"
  <2>1. Fresh'
    BY <1>1, <1>3 DEF BuildInv, Fresh
  <2> QED
    BY <1>1, <1>2, <1>3, <2>1 DEF BuildInv, Building
<1>4. CASE UNCHANGED vars
  <2>1. UNCHANGED <<input, idVars, compactVars>> /\ UNCHANGED <<streamVars, builderVars>>
    BY <1>4 DEF vars, graphVars
  <2>2. CASE place \in Building
    <3>1. UNCHANGED <<state, calling, argument, tasks>>
      BY <2>1 DEF builderVars
    <3>2. Owing' = Owing
      BY <3>1 DEF Owing
    <3>3. Owing \/ calling => place \in {"take", "counts"}
      BY <2>2 DEF BuildInv, Stages
    <3>4. place = "take" /\ calling => Owing
      BY <2>2 DEF BuildInv, Stages
    <3>5. place' = "publish" => Valid(Staged)'
      <4>1. Staged' = Staged
        BY <1>1, <3>1, <2>1 DEF Staged, streamVars
      <4>2. PICK g : g = Staged
        OBVIOUS
      <4>3. place = "publish" => Valid(g)
        BY <4>2 DEF BuildInv
      <4> QED
        BY <1>1, <4>1, <4>2, <4>3
    <3> QED
      BY <1>1, <1>2, <2>1, <2>2, <3>1, <3>2, <3>3, <3>4, <3>5, StreamVarsStay
  <2>3. CASE place \notin Building \union {"waiting"}
    <3>1. compact_place' = "done"
      BY <2>1, <2>3, Settled DEF BuildInv
    <3> QED
      BY <1>1, <1>2, <2>3, <3>1 DEF BuildInv, Building
  <2> QED
    BY <1>3, <2>2, <2>3
<1> QED
  BY <1>3, <1>4

LEMMA BuildKept ==
  ASSUME PhasesInv, BuildInv, GraphIsOfTheInput, [Next]_vars
  PROVE  BuildInv' /\ GraphIsOfTheInput'
<1>1. CASE UNCHANGED vars
  <2>1. UNCHANGED <<input, graphVars>>
    BY <1>1 DEF vars
  <2> QED
    BY <1>1, <2>1, GraphVarsStay
<1>2. CASE Next /\ place # "waiting"
  BY <1>2, NothingElse, BuildGraphKeeps
<1>3. CASE Next /\ place = "waiting"
  <2>1. ~BuildGraph
    BY <1>3 DEF BuildGraph
  <2>2. CASE StartBuild
    <3>1. BuildInv'
      BY <2>2, StartBuildKeeps
    <3>2. place' = "copy"
      BY <2>2 DEF StartBuild, CreateStaging, Goes
    <3> QED
      BY <3>1, <3>2 DEF GraphIsOfTheInput
  <2>3. CASE MergeIdentifiers \/ StartCompact \/ CompactEdges
    <3>1. UNCHANGED <<input, graphVars>>
      BY <2>3 DEF MergeIdentifiers, StartCompact, CompactEdges
    <3> QED
      BY <1>3, <3>1, GraphVarsStay
  <2> QED
    BY <1>3, <2>1, <2>2, <2>3 DEF Next
<1> QED
  BY <1>1, <1>2, <1>3

\* A graph that is published is that of the input: its vertices are the
\* endpoints in order, its sources and degrees those of the distinct edges,
\* its tasks the canonical ones, for every input, fan-in, buffer and batch.
THEOREM PublishedIsOfTheInput == Spec => []GraphIsOfTheInput
<1> DEFINE Inv == PhasesInv /\ BuildInv /\ GraphIsOfTheInput
<1>1. Init => Inv
  BY PhasesStart, BuildStarts
<1>2. Inv /\ [Next]_vars => Inv'
  BY PhasesKept, BuildKept
<1>3. Inv => GraphIsOfTheInput
  OBVIOUS
<1> QED
  BY <1>1, <1>2, <1>3, PTL DEF Spec

----------------------------------------------------------------------------
(* What the phases write passes their checks.                              *)

LEMMA IdsAscend ==
  ASSUME NEW m
  PROVE  IdLemmas!MergeAscends(m) = Ids!MergeAscends(m)
<1>1. PICK run, c : run = m.runs[Head(m.heap).cursor] /\ c = m.cursors[Head(m.heap).cursor]
  OBVIOUS
<1>2. /\ IdLemmas!HasNext(run, c) = Ids!HasNext(run, c)
      /\ IdLemmas!NextRecord(run, c) = Ids!NextRecord(run, c)
  BY IdsCursors
<1>3. IdLemmas!Ascends(run, c) = Ids!Ascends(run, c)
  BY <1>2 DEF IdLemmas!Ascends, Ids!Ascends
<1> QED
  BY <1>1, <1>3 DEF IdLemmas!MergeAscends, Ids!MergeAscends

LEMMA EdgesAscend ==
  ASSUME NEW m
  PROVE  EdgeLemmas!MergeAscends(m) = Edges!MergeAscends(m)
<1>1. PICK run, c : run = m.runs[Head(m.heap).cursor] /\ c = m.cursors[Head(m.heap).cursor]
  OBVIOUS
<1>2. /\ EdgeLemmas!HasNext(run, c) = Edges!HasNext(run, c)
      /\ EdgeLemmas!NextRecord(run, c) = Edges!NextRecord(run, c)
  BY EdgesCursors
<1>3. EdgeLemmas!Ascends(run, c) = Edges!Ascends(run, c)
  BY <1>2 DEF EdgeLemmas!Ascends, Edges!Ascends
<1> QED
  BY <1>1, <1>3 DEF EdgeLemmas!MergeAscends, Edges!MergeAscends

LEMMA EndpointsCompare ==
  ASSUME InputTyped
  PROVE  IdLemmas!OrdersRecords(Endpoints)
<1>1. Endpoints \subseteq Int
  BY EndpointsTyped
<1> QED
  BY <1>1 DEF IdLemmas!OrdersRecords, IdBefore

LEMMA EdgesCompare ==
  ASSUME InputTyped
  PROVE  EdgeLemmas!OrdersRecords(AllEdges)
<1>1. \A e \in AllEdges : e = <<e[1], e[2]>> /\ e[1] \in Int /\ e[2] \in Int
  <2>1. AllEdges \subseteq CompactEdge
    BY FirstTyped
  <2>2. \A e \in CompactEdge : e = <<e[1], e[2]>> /\ e[1] \in Int /\ e[2] \in Int
    BY DEF CompactEdge, Vertices
  <2> QED
    BY <2>1, <2>2
<1> QED
  BY <1>1 DEF EdgeLemmas!OrdersRecords, EdgeBefore

\* Every complete run ascends, and so does what the group that is merged has
\* handed out.
IdSorted ==
  /\ \A path \in DOMAIN id_files : IdLemmas!Climbs(id_files[path])
  /\ id_place = "merging" => IdLemmas!Sorts(id_merge, Group, Endpoints)

LEMMA IdSortedStarts ==
  ASSUME Init
  PROVE  IdSorted
<1>1. InputTyped
  BY DEF Init, InputTyped
<1>2. PICK runs, n : runs = EndpointRuns(input) /\ n = Len(runs)
  OBVIOUS
<1>3. /\ n \in Nat /\ DOMAIN runs = 1 .. n
      /\ \A i \in DOMAIN runs : IdLemmas!Climbs(runs[i])
  BY <1>1, <1>2, RunsOfEndpoints
<1>4. /\ id_files = [path \in {<<Initial, i>> : i \in 0 .. n - 1} |-> runs[path[2] + 1]]
      /\ id_place = "groups"
  BY <1>2 DEF Init, IdentifierInit
<1>5. ASSUME NEW path \in DOMAIN id_files PROVE IdLemmas!Climbs(id_files[path])
  <2>1. PICK i \in 0 .. n - 1 : path = <<Initial, i>>
    BY <1>4
  <2>2. i + 1 \in DOMAIN runs
    BY <1>3
  <2>3. id_files[path] = runs[i + 1]
    BY <1>4, <2>1
  <2> QED
    BY <1>3, <2>2, <2>3
<1> QED
  BY <1>4, <1>5 DEF IdSorted

\* The runs of the group ascend.
LEMMA GroupClimbs ==
  ASSUME IdInv, IdSorted, PassRuns, output_index < Successor.count
  PROVE  /\ Group \in Seq(Seq(Endpoints))
         /\ \A i \in DOMAIN Group : Group[i] # <<>> /\ IdLemmas!Climbs(Group[i])
<1>1. /\ \A i \in 1 .. group_size(current.count - input_begin) :
           <<current.pass, input_begin + i - 1>> \in Paths(current)
      /\ Group \in Seq(Seq(Endpoints)) /\ \A i \in DOMAIN Group : Group[i] # <<>>
  BY GroupTyped
<1>2. Paths(current) \subseteq DOMAIN id_files
  BY DEF PassRuns, Whole
<1>3. ASSUME NEW i \in DOMAIN Group PROVE IdLemmas!Climbs(Group[i])
  <2>1. i \in 1 .. group_size(current.count - input_begin)
        /\ Group[i] = id_files[<<current.pass, input_begin + i - 1>>]
    BY DEF Group
  <2> QED
    BY <1>1, <1>2, <2>1 DEF IdSorted
<1> QED
  BY <1>1, <1>3

LEMMA MergingGroup ==
  ASSUME IdInv, IdSorted, id_place = "merging", id_merge.heap # <<>>
  PROVE  Ids!MergeAscends(id_merge)
         /\ IdLemmas!Sorts(Ids!Merged(id_merge), Group, Endpoints)
<1>1. PassRuns /\ output_index < Successor.count /\ InputTyped
  BY DEF IdInv, IdPlaces
<1>2. Group \in Seq(Seq(Endpoints)) /\ \A i \in DOMAIN Group : IdLemmas!Climbs(Group[i])
  BY <1>1, GroupClimbs
<1>3. IdLemmas!Sorts(id_merge, Group, Endpoints)
  BY DEF IdSorted
<1>4. IdLemmas!OrdersRecords(Endpoints) /\ IdBufferRecords \in Nat \ {0}
  BY <1>1, EndpointsCompare, IdentifierAssumption
<1>5. /\ IdLemmas!MergeAscends(id_merge)
      /\ IdLemmas!Sorts(IdLemmas!Merged(id_merge), Group, Endpoints)
  BY <1>2, <1>3, <1>4, IdLemmas!MergedSorts
<1> QED
  BY <1>5, IdsAscend, IdsMerged

LEMMA IdSortedKept ==
  ASSUME IdInv, IdSorted, IdentifierNext, UNCHANGED input
  PROVE  IdSorted'
<1>1. Endpoints' = Endpoints
  BY InputStays
<1>2. CASE OpenIdGroup
  <2>1. /\ id_place = "groups" /\ output_index < Successor.count
        /\ id_merge' = Ids!Primed(Group)
        /\ UNCHANGED <<id_files, current, input_begin, output_index, retired>>
    BY <1>2 DEF OpenIdGroup, Group
  <2>2. PassRuns /\ InputTyped
    BY <2>1 DEF IdInv, IdPlaces
  <2>3. Group \in Seq(Seq(Endpoints)) /\ \A i \in DOMAIN Group : Group[i] # <<>>
    BY <2>1, <2>2, GroupClimbs
  <2>4. IdLemmas!OrdersRecords(Endpoints) /\ IdBufferRecords \in Nat \ {0}
    BY <2>2, EndpointsCompare, IdentifierAssumption
  <2>5. IdLemmas!Sorts(IdLemmas!Primed(Group), Group, Endpoints)
    BY <2>3, <2>4, IdLemmas!PrimedSorts
  <2>6. IdLemmas!Sorts(id_merge', Group, Endpoints)
    BY <2>1, <2>5, IdsPrimed
  <2>7. Group' = Group
    BY <2>1 DEF Group
  <2> QED
    BY <1>1, <2>1, <2>6, <2>7 DEF IdSorted
<1>3. CASE MergeId
  <2>1. /\ id_place = "merging" /\ id_merge.heap # <<>> /\ id_merge' = Ids!Merged(id_merge)
        /\ UNCHANGED <<id_files, id_place, current, input_begin, output_index, retired>>
    BY <1>3 DEF MergeId
  <2>2. IdLemmas!Sorts(id_merge', Group, Endpoints)
    BY <2>1, MergingGroup
  <2>3. Group' = Group
    BY <2>1 DEF Group
  <2> QED
    BY <1>1, <2>1, <2>2, <2>3 DEF IdSorted
<1>4. CASE CloseIdGroup
  <2>1. PICK path : path = <<Successor.pass, output_index>>
    OBVIOUS
  <2>2. /\ id_place = "merging" /\ id_place' = "groups"
        /\ id_files' = [p \in DOMAIN id_files \union {path} |->
                          IF p = path THEN id_merge.out ELSE id_files[p]]
    BY <1>4, <2>1 DEF CloseIdGroup
  <2>3. IdLemmas!Climbs(id_merge.out)
    BY <2>2 DEF IdSorted, IdLemmas!Sorts, IdLemmas!SortedAt
  <2>4. ASSUME NEW p \in DOMAIN id_files' PROVE IdLemmas!Climbs(id_files'[p])
    <3>1. CASE p = path
      BY <2>2, <2>3, <3>1
    <3>2. CASE p # path
      BY <2>2, <3>2 DEF IdSorted
    <3> QED
      BY <3>1, <3>2
  <2> QED
    BY <2>2, <2>4 DEF IdSorted
<1>5. CASE VerifyIds \/ RetireIds \/ NextPass \/ IdentifiersFail
  <2>1. id_place' # "merging"
    BY <1>5 DEF VerifyIds, RetireIds, NextPass, IdentifiersFail
  <2>2. \/ id_files' = id_files
        \/ \E S : id_files' = Without(S)
    BY <1>5 DEF VerifyIds, RetireIds, NextPass, IdentifiersFail
  <2>3. \A path \in DOMAIN id_files' : path \in DOMAIN id_files
                                       /\ id_files'[path] = id_files[path]
    BY <2>2 DEF Without
  <2> QED
    BY <2>1, <2>3 DEF IdSorted
<1> QED
  BY <1>2, <1>3, <1>4, <1>5 DEF IdentifierNext

LEMMA IdSortedStutters ==
  ASSUME IdSorted, UNCHANGED <<input, idVars>>
  PROVE  IdSorted'
<1>1. UNCHANGED <<input, id_files, id_place, current, input_begin, id_merge>>
  BY DEF idVars
<1>2. Endpoints' = Endpoints /\ Group' = Group
  BY <1>1, InputStays DEF Group
<1> QED
  BY <1>1, <1>2 DEF IdSorted

\* Neighbours are in order in a run that ascends.
LEMMA ClimbsAscending ==
  ASSUME InputTyped, NEW run \in Seq(Endpoints), IdLemmas!Climbs(run)
  PROVE  Ascending(run) /\ Increases(run, <)
<1>1. Len(run) \in Nat /\ DOMAIN run = 1 .. Len(run)
  OBVIOUS
<1>2. \A i \in 1 .. Len(run) - 1 : i \in DOMAIN run /\ i + 1 \in DOMAIN run /\ i < i + 1
  BY <1>1
<1>3. \A i \in 1 .. Len(run) - 1 : IdBefore(run[i], run[i + 1])
  BY <1>2 DEF IdLemmas!Climbs
<1> QED
  BY <1>3 DEF Ascending, Increases, IdBefore

LEMMA IdentifiersPass ==
  ASSUME IdInv, IdSorted
  PROVE  /\ id_place = "merging" => id_merge.heap = <<>> \/ Ids!MergeAscends(id_merge)
         /\ id_place = "groups" /\ output_index = Successor.count => SuccessorVerified
         /\ id_place = "done" => Increases(id_files[VertexIds], <)
<1>1. id_place = "merging" => id_merge.heap = <<>> \/ Ids!MergeAscends(id_merge)
  BY MergingGroup
<1>2. \A path \in DOMAIN id_files : Ascending(id_files[path]) /\ Increases(id_files[path], <)
  BY ClimbsAscending DEF IdInv, IdsTyped, IdSorted
<1>3. ASSUME id_place = "groups", output_index = Successor.count PROVE SuccessorVerified
  <2>1. PassRuns /\ IdsTyped
    BY <1>3 DEF IdInv, IdPlaces
  <2>2. Outputs(output_index) = Paths(Successor)
    BY <1>3 DEF Outputs, Paths
  <2>3. PICK n, s, o, b : n = current.count /\ s = Successor.count /\ o = output_index
                          /\ b = input_begin
    OBVIOUS
  <2>4. /\ n \in Nat \ {0} /\ IdFanIn \in Nat \ {0} /\ IsCeiling(s, n, IdFanIn)
        /\ o \in 0 .. s /\ b = Smallest(o * IdFanIn, n) /\ o = s
    BY <1>3, <2>1, <2>3, IdentifierAssumption, SuccessorSet DEF IdsTyped
  <2>5. b = n
    BY ONLY <2>4, NextGroup
  <2>6. Paths(Successor) \subseteq DOMAIN id_files
    BY <2>1, <2>2 DEF PassRuns
  <2> QED
    BY <1>2, <2>3, <2>5, <2>6 DEF SuccessorVerified
<1>4. id_place = "done" => Increases(id_files[VertexIds], <)
  BY <1>2 DEF IdInv, IdPlaces
<1> QED
  BY <1>1, <1>3, <1>4

\* Every run of edges ascends, and none is more than the edges need.
EdgeSorted ==
  /\ \A n \in DOMAIN edge_files : EdgeLemmas!Climbs(edge_files[n])
  /\ compact_place = "reading" /\ edge_files # <<>> =>
       (Len(edge_files) - 1) * RawEdgesPerRun < expected

LEMMA EdgeSortedStarts ==
  ASSUME Init
  PROVE  EdgeSorted
<1>1. edge_files = <<>>
  BY DEF Init, CompactInit
<1> QED
  BY <1>1 DEF EdgeSorted

LEMMA EdgeSortedStutters ==
  ASSUME EdgeSorted, UNCHANGED <<edge_files, compact_place, expected>>
  PROVE  EdgeSorted'
BY DEF EdgeSorted

\* Where the chunk begins, and what it still takes.
LEMMA ChunkNumbers ==
  ASSUME IdInv, CompactInv, compact_place = "reading",
         NEW l, l = Len(edge_files), NEW s, s = next_raw_record - Len(chunk)
  PROVE  /\ l \in Nat /\ expected \in Nat \ {0} /\ RawEdgesPerRun \in Nat \ {0}
         /\ l * RawEdgesPerRun \in Nat /\ Len(chunk) \in Nat /\ next_raw_record \in Nat
         /\ s = Smallest(l * RawEdgesPerRun, expected)
         /\ target_chunk_records = Smallest(expected - s, RawEdgesPerRun)
<1>1. InputTyped /\ Reading /\ expected = Len(input)
  <2>1. InputTyped
    BY DEF IdInv
  <2>2. Reading /\ expected = Len(input)
    BY DEF CompactInv
  <2> QED
    BY <2>1, <2>2
<1>2. expected \in Nat \ {0} /\ RawEdgesPerRun \in Nat \ {0}
  BY <1>1, EndpointsTyped, CompactAssumption
<1>3. l \in Nat
  <2>1. edge_files \in Seq(Seq(CompactEdge))
    BY DEF CompactInv
  <2> QED
    BY <2>1
<1>4. l * RawEdgesPerRun \in Nat
  BY <1>2, <1>3, Products
<1>5. s = Smallest(l * RawEdgesPerRun, expected) /\ Len(chunk) \in Nat
      /\ next_raw_record \in Nat
  BY <1>1, <1>2 DEF Reading
<1> QED
  BY <1>2, <1>3, <1>4, <1>5 DEF target_chunk_records

LEMMA DistinctClimbs ==
  ASSUME NEW edges \in Seq(CompactEdge)
  PROVE  EdgeLemmas!Climbs(Distinct(edges))
<1>1. PICK S, run, n : S = Within(edges) /\ run = InOrder(S, EdgeBefore) /\ n = Cardinality(S)
  OBVIOUS
<1>2. DOMAIN edges = 1 .. Len(edges) /\ Len(edges) \in Nat
      /\ \A i \in 1 .. Len(edges) : edges[i] \in CompactEdge
  OBVIOUS
<1>3. S \subseteq Int \X Int /\ IsFiniteSet(S)
  <2>1. CompactEdge \subseteq Int \X Int
    BY DEF CompactEdge, Vertices
  <2>2. S \subseteq CompactEdge
    BY <1>1, <1>2 DEF Within
  <2> QED
    BY <1>1, <1>2, <2>1, <2>2, MembersOfList
<1>4. /\ run \in Seq(S) /\ Len(run) = n
      /\ \A j, m \in 1 .. n : j < m => EdgeBefore(run[j], run[m])
  BY <1>1, <1>3, EdgesInOrder, Zenon
<1>5. EdgeLemmas!Climbs(run)
  BY <1>4 DEF EdgeLemmas!Climbs
<1>6. Distinct(edges) = run
  BY <1>1 DEF Distinct, Within
<1> QED
  BY <1>5, <1>6

LEMMA EdgeSortedKept ==
  ASSUME IdInv, CompactInv, EdgeSorted, StartCompact \/ CompactEdges
  PROVE  EdgeSorted'
<1>1. CASE WriteEdgeRun
  <2>1. /\ compact_place = "reading" /\ chunk # <<>> /\ Len(chunk) = target_chunk_records
        /\ edge_files' = Append(edge_files, Distinct(chunk))
        /\ UNCHANGED <<compact_place, expected>>
    BY <1>1 DEF WriteEdgeRun
  <2>2. edge_files \in Seq(Seq(CompactEdge)) /\ chunk \in Seq(CompactEdge)
    BY <2>1 DEF CompactInv, Reading
  <2>3. PICK l, s, c, a : /\ l = Len(edge_files) /\ s = next_raw_record - Len(chunk)
                          /\ c = Len(chunk) /\ a = l * RawEdgesPerRun
    OBVIOUS
  <2>4. /\ l \in Nat /\ expected \in Nat \ {0} /\ RawEdgesPerRun \in Nat \ {0}
        /\ a \in Nat /\ c \in Nat
        /\ s = Smallest(a, expected) /\ c = Smallest(expected - s, RawEdgesPerRun)
    BY <2>1, <2>3, ChunkNumbers
  <2>5. c # 0
    BY <2>1, <2>2, <2>3, EmptySeq
  <2>6. a < expected
    BY ONLY <2>4, <2>5 DEF Smallest
  <2>7. PICK more, last : more = edge_files' /\ last = Distinct(chunk)
    OBVIOUS
  <2>8. /\ more = Append(edge_files, last) /\ Len(more) = l + 1 /\ DOMAIN more = 1 .. l + 1
        /\ \A n \in 1 .. l : more[n] = edge_files[n]
        /\ more[l + 1] = last
    BY <2>1, <2>2, <2>3, <2>7
  <2>9. EdgeLemmas!Climbs(last)
    BY <2>2, <2>7, DistinctClimbs
  <2>10. ASSUME NEW n \in DOMAIN more PROVE EdgeLemmas!Climbs(more[n])
    <3>1. CASE n = l + 1
      BY <2>8, <2>9, <3>1
    <3>2. CASE n # l + 1
      <4>1. n \in 1 .. l /\ DOMAIN edge_files = 1 .. l
        BY <2>2, <2>3, <2>4, <2>8, <3>2
      <4> QED
        BY <2>8, <4>1 DEF EdgeSorted
    <3> QED
      BY <3>1, <3>2
  <2>11. (Len(more) - 1) * RawEdgesPerRun < expected
    <3>1. Len(more) - 1 = l
      BY <2>4, <2>8
    <3> QED
      BY <2>3, <2>6, <3>1
  <2> QED
    BY <2>1, <2>7, <2>10, <2>11 DEF EdgeSorted
<1>2. CASE ReadBatch
  BY <1>2, EdgeSortedStutters DEF ReadBatch
<1>3. CASE VerifyEdgeRuns \/ RetireRaw
  <2>1. edge_files' = edge_files /\ compact_place' # "reading"
    BY <1>3 DEF VerifyEdgeRuns, RetireRaw
  <2> QED
    BY <2>1 DEF EdgeSorted
<1>4. CASE EdgeRunsFail
  <2>1. compact_place' = "failed" /\ (edge_files' = edge_files \/ edge_files' = <<>>)
    BY <1>4 DEF EdgeRunsFail
  <2>2. DOMAIN <<>> = {}
    OBVIOUS
  <2> QED
    BY <2>1, <2>2 DEF EdgeSorted
<1>5. CASE StartCompact
  <2>1. edge_files' = edge_files /\ compact_place = "waiting"
    BY <1>5 DEF StartCompact, LoadDictionary
  <2>2. edge_files = <<>>
    BY <2>1 DEF CompactInv
  <2> QED
    BY <2>1, <2>2 DEF EdgeSorted
<1> QED
  BY <1>1, <1>2, <1>3, <1>4, <1>5 DEF CompactEdges, CompactNext

\* Both ends of every edge that is read next are in the dictionary.
LEMMA BatchesKnown ==
  ASSUME IdInv, CompactInv, compact_place = "reading", Len(chunk) < target_chunk_records
  PROVE  BatchKnown
<1>1. /\ dictionary \in Seq(Endpoints) /\ Within(dictionary) = Endpoints
      /\ Increases(dictionary, <) /\ InputTyped
  BY DictionaryTyped DEF IdInv
<1>2. Endpoints \subseteq Int
  BY <1>1, EndpointsTyped
<1>3. PICK s, l, S : s = dictionary /\ l = Len(dictionary) /\ S = Endpoints
  OBVIOUS
<1>4. /\ s \in Seq(S) /\ Within(s) = S /\ S \subseteq Int /\ s \in Seq(Int)
      /\ \A i \in 1 .. Len(s) - 1 : s[i] < s[i + 1]
  BY <1>1, <1>2, <1>3, SeqMonotonic DEF Increases
<1>5. \A i, j \in 1 .. Len(s) : i < j => s[i] < s[j]
  BY ONLY <1>4, IncreasesThroughout
<1>6. \A i \in 1 .. Len(s) : Cardinality({y \in S : y < s[i]}) = i - 1
  BY ONLY <1>4, <1>5, AscendingInOrder
<1>7. ASSUME NEW id \in Endpoints PROVE Known(id)
  <2>1. lower_bound(id) = Rank(id)
    BY <1>1, Dictionary
  <2>2. PICK i \in DOMAIN s : s[i] = id
    BY <1>3, <1>4 DEF Within
  <2>3. i \in 1 .. l /\ l = Len(s) /\ l \in Nat
    BY <1>3, <1>4
  <2>4. Rank(id) = i - 1
    <3>1. Cardinality({y \in S : y < s[i]}) = i - 1
      BY <1>6, <2>3
    <3> QED
      BY <1>3, <2>2, <3>1 DEF Rank
  <2>5. lower_bound(id) < l /\ lower_bound(id) + 1 = i
    BY <2>1, <2>3, <2>4
  <2> QED
    BY <1>3, <2>2, <2>5 DEF Known
<1>8. /\ DOMAIN batch = 1 .. request_records
      /\ \A i \in 1 .. request_records :
           /\ next_raw_record + i \in 1 .. Len(input)
           /\ batch[i] = input[next_raw_record + i]
  BY NextBatch
<1>9. DOMAIN input = 1 .. Len(input)
      /\ \A i \in DOMAIN input : input[i][1] \in Endpoints /\ input[i][2] \in Endpoints
  BY <1>1, EndpointsTyped
<1> QED
  BY <1>7, <1>8, <1>9 DEF BatchKnown

LEMMA OneCeiling ==
  ASSUME NEW j, NEW k, NEW l \in Nat, NEW e \in Nat \ {0},
         IsCeiling(j, l, e), IsCeiling(k, l, e)
  PROVE  j = k
<1>1. /\ j \in Nat \ {0} /\ k \in Nat \ {0}
      /\ (j - 1) * e < l /\ l <= j * e /\ (k - 1) * e < l /\ l <= k * e
  BY DEF IsCeiling
<1>2. ASSUME NEW a \in Nat, NEW b \in Nat, a < b, l <= a * e, (b - 1) * e < l
      PROVE  FALSE
  <2>1. PICK d : d = (b - 1) - a
    OBVIOUS
  <2>2. d \in Nat /\ b - 1 = a + d
    BY <1>2, <2>1
  <2>3. (a + d) * e = a * e + d * e /\ a * e \in Nat /\ d * e \in Nat
    BY <2>2
  <2> QED
    BY <1>2, <2>2, <2>3
<1>3. ~(j < k) /\ ~(k < j)
  BY <1>1, <1>2
<1> QED
  BY <1>1, <1>3

\* When no edge is left, the runs are as many as they should be.
LEMMA RunsVerified ==
  ASSUME IdInv, CompactInv, EdgeSorted, compact_place = "reading",
         Len(chunk) = target_chunk_records, chunk = <<>>
  PROVE  EdgeRunsVerified
<1>1. PICK l, s, r, a : /\ l = Len(edge_files) /\ s = next_raw_record - Len(chunk)
                        /\ r = next_raw_record /\ a = l * RawEdgesPerRun
  OBVIOUS
<1>2. /\ l \in Nat /\ expected \in Nat \ {0} /\ RawEdgesPerRun \in Nat \ {0}
      /\ a \in Nat /\ r \in Nat /\ Len(chunk) = 0
      /\ s = Smallest(a, expected) /\ 0 = Smallest(expected - s, RawEdgesPerRun)
  BY <1>1, ChunkNumbers, EmptySeq
<1>3. s = r
  BY <1>1, <1>2
<1>4. expected <= a /\ r = expected
  BY ONLY <1>2, <1>3 DEF Smallest
<1>5. l # 0
  <2>1. 0 * RawEdgesPerRun = 0
    BY <1>2
  <2> QED
    BY <1>1, <1>2, <1>4, <2>1
<1>6. edge_files \in Seq(Seq(CompactEdge)) /\ \A n \in DOMAIN edge_files : edge_files[n] # <<>>
  BY DEF CompactInv
<1>7. edge_files # <<>>
  BY <1>1, <1>5
<1>8. IsCeiling(l, expected, RawEdgesPerRun)
  BY <1>1, <1>2, <1>4, <1>5, <1>7 DEF EdgeSorted, IsCeiling
<1>9. IsCeiling(run_count, expected, RawEdgesPerRun)
  BY <1>2, CeilingDivides DEF run_count
<1>10. l = run_count
  BY ONLY <1>2, <1>8, <1>9, OneCeiling
<1>11. Len(dictionary) = Cardinality(Endpoints)
  <2>1. /\ dictionary \in Seq(Endpoints) /\ Within(dictionary) = Endpoints
        /\ Increases(dictionary, <) /\ InputTyped
    BY DictionaryTyped DEF IdInv
  <2> QED
    BY <2>1, Dictionary
<1>12. ASSUME NEW n \in DOMAIN edge_files
       PROVE  /\ Increases(edge_files[n], EdgeBefore)
              /\ \A i \in DOMAIN edge_files[n] :
                   /\ edge_files[n][i][1] < Len(dictionary)
                   /\ edge_files[n][i][2] < Len(dictionary)
  <2>1. PICK run : run = edge_files[n]
    OBVIOUS
  <2>2. run \in Seq(CompactEdge) /\ EdgeLemmas!Climbs(run)
    BY <1>6, <2>1 DEF EdgeSorted
  <2>3. Len(run) \in Nat /\ DOMAIN run = 1 .. Len(run)
        /\ \A i \in 1 .. Len(run) - 1 : i \in 1 .. Len(run) /\ i + 1 \in 1 .. Len(run) /\ i < i + 1
    BY <2>2
  <2>4. \A i \in 1 .. Len(run) - 1 : EdgeBefore(run[i], run[i + 1])
    BY <2>2, <2>3 DEF EdgeLemmas!Climbs
  <2>5. Increases(run, EdgeBefore)
    BY <2>4 DEF Increases
  <2>6. InputTyped
    BY DEF IdInv
  <2>7. \A i \in DOMAIN run : run[i][1] < Len(dictionary) /\ run[i][2] < Len(dictionary)
    BY <1>11, <2>2, <2>6, StreamTyped
  <2> QED
    BY <2>1, <2>5, <2>7
<1> QED
  BY <1>1, <1>4, <1>6, <1>10, <1>12 DEF EdgeRunsVerified

LEMMA EdgesPass ==
  ASSUME IdInv, CompactInv, EdgeSorted, compact_place = "reading"
  PROVE  \/ Len(chunk) < target_chunk_records /\ BatchKnown
         \/ Len(chunk) = target_chunk_records /\ (chunk # <<>> \/ EdgeRunsVerified)
<1>1. Len(chunk) < target_chunk_records \/ Len(chunk) = target_chunk_records
  <2>1. PICK s : s = next_raw_record - Len(chunk)
    OBVIOUS
  <2>2. /\ Len(chunk) \in Nat /\ expected \in Nat /\ RawEdgesPerRun \in Nat
        /\ next_raw_record \in Nat
        /\ target_chunk_records = Smallest(expected - s, RawEdgesPerRun)
    BY <2>1, ChunkNumbers
  <2>3. Len(chunk) <= target_chunk_records
    BY DEF CompactInv, Reading
  <2>4. target_chunk_records \in Int
    BY <2>1, <2>2 DEF Smallest
  <2> QED
    BY <2>2, <2>3, <2>4
<1> QED
  BY <1>1, BatchesKnown, RunsVerified

\* The cursor hands the edges out in order.
StreamSorted ==
  place \in Building \ {"copy"} => EdgeLemmas!Sorts(cursor, edge_files, AllEdges)

LEMMA ReadingEdges ==
  ASSUME PhasesInv, BuildInv, EdgeSorted, StreamSorted, place = "read", cursor.heap # <<>>
  PROVE  /\ Edges!MergeAscends(cursor)
         /\ EdgeLemmas!Sorts(Edges!Merged(cursor), edge_files, AllEdges)
<1>1. compact_place = "done" /\ InputTyped
  BY DEF BuildInv, PhasesInv, IdInv
<1>2. /\ edge_files \in Seq(Seq(AllEdges))
      /\ \A n \in DOMAIN edge_files : EdgeLemmas!Climbs(edge_files[n])
  BY <1>1, FilesTyped DEF EdgeSorted
<1>3. EdgeLemmas!Sorts(cursor, edge_files, AllEdges)
  BY DEF StreamSorted, Building
<1>4. EdgeLemmas!OrdersRecords(AllEdges) /\ EdgeBufferRecords \in Nat \ {0}
  BY <1>1, EdgesCompare, GraphAssumption
<1>5. /\ EdgeLemmas!MergeAscends(cursor)
      /\ EdgeLemmas!Sorts(EdgeLemmas!Merged(cursor), edge_files, AllEdges)
  BY <1>2, <1>3, <1>4, EdgeLemmas!MergedSorts
<1> QED
  BY <1>5, EdgesAscend, EdgesMerged

LEMMA StreamSortedKept ==
  ASSUME PhasesInv, BuildInv, EdgeSorted, StreamSorted, BuildGraph
  PROVE  StreamSorted'
<1>1. /\ place \in Building /\ GraphNext(id_files[VertexIds])
      /\ UNCHANGED <<input, idVars, compactVars>>
  BY DEF BuildGraph, BuildInv
<1>2. AllEdges' = AllEdges /\ edge_files' = edge_files
  BY <1>1, Settled
<1>3. CASE OpenCursor(id_files[VertexIds])
  <2>1. compact_place = "done" /\ InputTyped
    BY <1>1 DEF BuildInv, Building, PhasesInv, IdInv
  <2>2. edge_files \in Seq(Seq(AllEdges)) /\ \A n \in DOMAIN edge_files : edge_files[n] # <<>>
    BY <2>1, FilesTyped
  <2>3. EdgeLemmas!OrdersRecords(AllEdges) /\ EdgeBufferRecords \in Nat \ {0}
    BY <2>1, EdgesCompare, GraphAssumption
  <2>4. EdgeLemmas!Sorts(EdgeLemmas!Primed(edge_files), edge_files, AllEdges)
    BY <2>2, <2>3, EdgeLemmas!PrimedSorts
  <2>5. cursor' = EdgeLemmas!Primed(edge_files)
    BY <1>3, EdgesPrimed DEF OpenCursor
  <2> QED
    BY <1>2, <2>4, <2>5 DEF StreamSorted
<1>4. CASE ReadEdge
  <2>1. place = "read" /\ cursor.heap # <<>> /\ cursor' = Edges!Merged(cursor)
    BY <1>4 DEF ReadEdge, Goes
  <2>2. EdgeLemmas!Sorts(Edges!Merged(cursor), edge_files, AllEdges)
    BY <2>1, ReadingEdges
  <2> QED
    BY <1>2, <2>1, <2>2 DEF StreamSorted
<1>5. CASE ~OpenCursor(id_files[VertexIds]) /\ ~ReadEdge
  <2>1. cursor' = cursor /\ (place = "copy" => place' \in {"copy", "failed"})
    BY <1>1, <1>5 DEF GraphNext, CopyVertexIds, EndRead, EmitCount, EmitTask, EmittedCount,
       TakeEdge, AppendSources, CallPartitionFinish, FinishPartition, WriteManifest,
       ValidateGraph, PublishGraph, BuildFails, TaskWriterFails, Goes, streamVars
  <2> QED
    BY <1>1, <1>2, <2>1 DEF StreamSorted, Building
<1> QED
  BY <1>3, <1>4, <1>5

LEMMA StreamPasses ==
  ASSUME PhasesInv, BuildInv, EdgeSorted, StreamSorted
  PROVE  /\ place = "read" => cursor.heap = <<>> \/ Edges!MergeAscends(cursor)
         /\ place = "take" /\ emitted_edge_count < Len(cursor.out) => EdgeAscends
<1>1. place = "read" => cursor.heap = <<>> \/ Edges!MergeAscends(cursor)
  BY ReadingEdges
<1>2. ASSUME place = "take", emitted_edge_count < Len(cursor.out) PROVE EdgeAscends
  <2>1. Streams /\ EdgeLemmas!Sorts(cursor, edge_files, AllEdges)
    BY <1>2 DEF BuildInv, StreamSorted, Building
  <2>2. PICK out, n : out = cursor.out /\ n = emitted_edge_count
    OBVIOUS
  <2>3. out \in Seq(CompactEdge) /\ n \in 0 .. Len(out) /\ n < Len(out)
    BY <1>2, <2>1, <2>2 DEF Streams
  <2>4. n > 0 => n \in DOMAIN out /\ n + 1 \in DOMAIN out /\ n < n + 1
    BY <2>3
  <2>5. EdgeLemmas!Climbs(out)
    BY <2>1, <2>2 DEF EdgeLemmas!Sorts, EdgeLemmas!SortedAt
  <2>6. n > 0 => EdgeBefore(out[n], out[n + 1])
    BY <2>4, <2>5 DEF EdgeLemmas!Climbs
  <2> QED
    BY <2>2, <2>6 DEF EdgeAscends, edge
<1> QED
  BY <1>1, <1>2

----------------------------------------------------------------------------
(* The accounts.                                                           *)

\* What adds up like EdgesBefore is EdgesBefore.
LEMMA SumIs ==
  ASSUME NEW counts \in Seq(Nat), NEW f, f[0] = 0,
         \A d \in 0 .. Len(counts) - 1 : f[d + 1] = f[d] + counts[d + 1]
  PROVE  \A d \in 0 .. Len(counts) : EdgesBefore(counts, d) = f[d]
<1> DEFINE S == {d \in Nat : d <= Len(counts) /\ EdgesBefore(counts, d) # f[d]}
<1> SUFFICES ASSUME S # {} PROVE FALSE
  OBVIOUS
<1>1. PICK k \in S : \A j \in S : k <= j
  BY IdLemmas!LeastNumber
<1>2. k # 0
  BY <1>1, EdgesBeforeUnfold
<1>3. Len(counts) \in Nat
  OBVIOUS
<1>4. PICK j : j = k - 1
  OBVIOUS
<1>5. j \in Nat /\ j < k /\ k <= Len(counts) /\ j + 1 = k /\ j \in 0 .. Len(counts) - 1
  BY <1>1, <1>2, <1>3, <1>4
<1>6. EdgesBefore(counts, j) = f[j]
  BY <1>1, <1>3, <1>5
<1>7. EdgesBefore(counts, j + 1) = EdgesBefore(counts, j) + counts[j + 1]
  BY <1>5, EdgesBeforeUnfold
<1> QED
  BY <1>1, <1>5, <1>6, <1>7

LEMMA ZerosAdd ==
  ASSUME NEW size \in Nat
  PROVE  Total([v \in 1 .. size |-> 0]) = 0
<1>1. PICK counts, f : counts = [v \in 1 .. size |-> 0] /\ f = [d \in 0 .. size |-> 0]
  OBVIOUS
<1>2. counts \in Seq(Nat) /\ Len(counts) = size
  BY <1>1
<1>3. \A d \in 0 .. Len(counts) - 1 : f[d + 1] = f[d] + counts[d + 1]
  BY <1>1, <1>2
<1>4. f[0] = 0 /\ f[size] = 0
  BY <1>1
<1>5. size \in 0 .. Len(counts)
  BY <1>2
<1>6. EdgesBefore(counts, size) = f[size]
  BY <1>2, <1>3, <1>4, <1>5, SumIs
<1> QED
  BY <1>1, <1>2, <1>4, <1>6 DEF Total

LEMMA OneMoreAdds ==
  ASSUME NEW counts \in Seq(Nat), NEW i \in 1 .. Len(counts)
  PROVE  /\ [counts EXCEPT ![i] = @ + 1] \in Seq(Nat)
         /\ Total([counts EXCEPT ![i] = @ + 1]) = Total(counts) + 1
<1>1. PICK more, l : more = [counts EXCEPT ![i] = @ + 1] /\ l = Len(counts)
  OBVIOUS
<1>2. l \in Nat /\ i \in 1 .. l /\ counts[i] \in Nat
  BY <1>1
<1>3. /\ more \in Seq(Nat) /\ Len(more) = l /\ more[i] = counts[i] + 1
      /\ \A j \in 1 .. l : j # i => more[j] = counts[j]
  BY <1>1
<1>4. PICK f : f = [d \in 0 .. l |-> EdgesBefore(counts, d) + (IF d < i THEN 0 ELSE 1)]
  OBVIOUS
<1>5. /\ EdgesBefore(counts, 0) = 0
      /\ \A d \in 0 .. l : EdgesBefore(counts, d) \in Nat
      /\ \A d \in 0 .. l - 1 : EdgesBefore(counts, d + 1) = EdgesBefore(counts, d) + counts[d + 1]
  BY <1>1, EdgesBeforeUnfold
<1>6. f[0] = 0
  BY <1>2, <1>4, <1>5
<1>7. ASSUME NEW d \in 0 .. l - 1 PROVE f[d + 1] = f[d] + more[d + 1]
  <2>1. PICK e : e = d + 1
    OBVIOUS
  <2>2. e \in 1 .. l /\ e \in 0 .. l /\ d \in 0 .. l /\ e = d + 1 /\ d \in Nat /\ e \in Nat
    BY <1>2, <2>1
  <2>3. PICK a, b, c : a = EdgesBefore(counts, d) /\ b = EdgesBefore(counts, e) /\ c = counts[e]
    OBVIOUS
  <2>4. a \in Nat /\ c \in Nat /\ b = a + c
    BY <1>1, <1>5, <2>1, <2>2, <2>3
  <2>5. f[d] = a + (IF d < i THEN 0 ELSE 1) /\ f[e] = b + (IF e < i THEN 0 ELSE 1)
    BY <1>4, <2>2, <2>3
  <2>6. more[e] = IF e = i THEN c + 1 ELSE c
    BY <1>3, <2>2, <2>3
  <2>7. f[e] = f[d] + more[e]
    <3>1. i \in Nat
      BY <1>2
    <3>2. CASE e = i
      BY <2>2, <2>4, <2>5, <2>6, <3>1, <3>2
    <3>3. CASE e # i
      BY <2>2, <2>4, <2>5, <2>6, <3>1, <3>3
    <3> QED
      BY <3>2, <3>3
  <2> QED
    BY <2>1, <2>7
<1>8. EdgesBefore(more, l) = f[l]
  <2>1. l \in 0 .. Len(more)
    BY <1>2, <1>3
  <2> QED
    BY <1>3, <1>6, <1>7, <2>1, SumIs
<1>9. f[l] = EdgesBefore(counts, l) + 1
  BY <1>2, <1>4
<1> QED
  BY <1>1, <1>3, <1>8, <1>9 DEF Total

----------------------------------------------------------------------------
(* No count is more than the vertices.                                     *)

LEMMA FewDifferent ==
  ASSUME NEW P, IsFiniteSet(P), NEW f, NEW N \in Nat,
         \A k \in P : f[k] \in 0 .. N - 1,
         \A j, k \in P : f[j] = f[k] => j = k
  PROVE  Cardinality(P) <= N
<1>1. PICK E : E = {f[k] : k \in P}
  OBVIOUS
<1>2. (\A k \in P : f[k] \in E) /\ (\A e \in E : \E k \in P : f[k] = e) /\ E \subseteq 0 .. N - 1
  BY <1>1
<1>3. Cardinality(E) = Cardinality(P)
  BY <1>2, EqualSizes
<1>4. IsFiniteSet(0 .. N - 1) /\ Cardinality(0 .. N - 1) = N
  <2>1. PICK m : m = N - 1
    OBVIOUS
  <2>2. 0 \in Int /\ m \in Int
    BY <2>1
  <2>3. IsFiniteSet(0 .. m) /\ Cardinality(0 .. m) = IF 0 > m THEN 0 ELSE m - 0 + 1
    BY <2>2, FS_Interval
  <2>4. (IF 0 > m THEN 0 ELSE m - 0 + 1) = N
    BY <2>1
  <2> QED
    BY <2>1, <2>3, <2>4
<1>5. Cardinality(E) <= Cardinality(0 .. N - 1)
  BY <1>2, <1>4, FS_Subset
<1> QED
  BY <1>3, <1>4, <1>5

\* The edges of a stream that enter one destination have different sources.
LEMMA SourcesDiffer ==
  ASSUME InputTyped, NEW out \in Seq(CompactEdge), NEW n \in 0 .. Len(out),
         StreamAscends(out, n), NEW P, P \subseteq 1 .. n, NEW d,
         \A k \in P : out[k][1] = d
  PROVE  Cardinality(P) <= Cardinality(Endpoints)
<1>1. PICK f : f = [k \in 1 .. n |-> out[k][2]]
  OBVIOUS
<1>2. /\ Len(out) \in Nat /\ Cardinality(Endpoints) \in Nat
      /\ \A k \in 1 .. Len(out) : /\ out[k][2] \in 0 .. Cardinality(Endpoints) - 1
                                  /\ out[k][1] \in Int
  BY StreamTyped
<1>3. IsFiniteSet(P)
  <2>1. IsFiniteSet(1 .. n)
    BY FS_Interval
  <2> QED
    BY <2>1, FS_Subset
<1>4. \A k \in P : k \in 1 .. n /\ k \in 1 .. Len(out) /\ k \in Int
  BY <1>2
<1>5. \A k \in P : f[k] \in 0 .. Cardinality(Endpoints) - 1
  BY <1>1, <1>2, <1>4
<1>6. ASSUME NEW j \in P, NEW k \in P, f[j] = f[k] PROVE j = k
  <2>1. ASSUME NEW a \in P, NEW b \in P, a < b, f[a] = f[b] PROVE FALSE
    <3>1. EdgeBefore(out[a], out[b])
      BY <1>4, <2>1 DEF StreamAscends
    <3>2. PICK x, y : x = out[a] /\ y = out[b]
      OBVIOUS
    <3>3. x[1] = d /\ y[1] = d /\ d \in Int /\ x[2] = y[2] /\ x[2] \in Int
      BY <1>1, <1>2, <1>4, <2>1, <3>2
    <3> QED
      BY <3>1, <3>2, <3>3 DEF EdgeBefore
  <2>2. ~(j < k) /\ ~(k < j)
    BY <1>6, <2>1
  <2> QED
    BY <1>4, <2>2
<1> QED
  BY <1>2, <1>3, <1>5, <1>6, FewDifferent

LEMMA DestinationsDiffer ==
  ASSUME InputTyped, NEW out \in Seq(CompactEdge), NEW n \in 0 .. Len(out),
         StreamAscends(out, n), NEW P, P \subseteq 1 .. n, NEW s,
         \A k \in P : out[k][2] = s
  PROVE  Cardinality(P) <= Cardinality(Endpoints)
<1>1. PICK f : f = [k \in 1 .. n |-> out[k][1]]
  OBVIOUS
<1>2. /\ Len(out) \in Nat /\ Cardinality(Endpoints) \in Nat
      /\ \A k \in 1 .. Len(out) : /\ out[k][1] \in 0 .. Cardinality(Endpoints) - 1
                                  /\ out[k][2] \in Int
  BY StreamTyped
<1>3. IsFiniteSet(P)
  <2>1. IsFiniteSet(1 .. n)
    BY FS_Interval
  <2> QED
    BY <2>1, FS_Subset
<1>4. \A k \in P : k \in 1 .. n /\ k \in 1 .. Len(out) /\ k \in Int
  BY <1>2
<1>5. \A k \in P : f[k] \in 0 .. Cardinality(Endpoints) - 1
  BY <1>1, <1>2, <1>4
<1>6. ASSUME NEW j \in P, NEW k \in P, f[j] = f[k] PROVE j = k
  <2>1. ASSUME NEW a \in P, NEW b \in P, a < b, f[a] = f[b] PROVE FALSE
    <3>1. EdgeBefore(out[a], out[b])
      BY <1>4, <2>1 DEF StreamAscends
    <3>2. PICK x, y : x = out[a] /\ y = out[b]
      OBVIOUS
    <3>3. x[2] = s /\ y[2] = s /\ s \in Int /\ x[1] = y[1] /\ x[1] \in Int
      BY <1>1, <1>2, <1>4, <2>1, <3>2
    <3> QED
      BY <3>1, <3>2, <3>3 DEF EdgeBefore
  <2>2. ~(j < k) /\ ~(k < j)
    BY <1>6, <2>1
  <2> QED
    BY <1>4, <2>2
<1> QED
  BY <1>2, <1>3, <1>5, <1>6, FewDifferent

\* The count that is being made is of edges that enter one destination.
LEMMA CountIsSmall ==
  ASSUME InputTyped, NEW out \in Seq(CompactEdge), NEW n \in 0 .. Len(out),
         StreamAscends(out, n), NEW counts, NEW count, NEW destination,
         Tally(counts, out, n, destination, count), destination = Len(counts)
  PROVE  count <= Cardinality(Endpoints)
<1>1. PICK l, before : l = Len(counts) /\ before = EdgesBefore(counts, Len(counts))
  OBVIOUS
<1>2. counts \in Seq(Nat) /\ count \in Nat /\ l \in Nat
  BY <1>1 DEF Tally
<1>3. before \in Nat
  BY <1>1, <1>2, EdgesBeforeUnfold
<1>4. before + count = n
  BY <1>1 DEF Tally
<1>5. n \in Nat /\ before <= n
  BY <1>2, <1>3, <1>4
<1>6. \A k \in 1 .. n : out[k][1] < l <=> k <= before
  <2>1. l \in 0 .. l
    BY <1>2
  <2> QED
    BY <1>1, <2>1, Zenon DEF Tally
<1>7. Len(out) \in Nat /\ \A k \in 1 .. Len(out) : out[k][1] \in Int
  BY StreamTyped
<1>8. PICK P : P = before + 1 .. n
  OBVIOUS
<1>9. P \subseteq 1 .. n
  BY <1>3, <1>5, <1>8
<1>10. ASSUME NEW k \in P PROVE out[k][1] = l
  <2>1. k \in 1 .. n /\ ~(k <= before) /\ n # 0 /\ n \in 1 .. n /\ n \in 1 .. Len(out)
        /\ k \in 1 .. Len(out)
    BY <1>3, <1>5, <1>7, <1>8
  <2>2. out[n][1] = l
    BY <1>1, <2>1 DEF Tally
  <2>3. ~(out[k][1] < l)
    BY <1>6, <2>1
  <2>4. CASE k = n
    BY <2>2, <2>4
  <2>5. CASE k # n
    <3>1. EdgeBefore(out[k], out[n])
      <4>1. k < n
        BY <2>1, <2>5, <1>5
      <4> QED
        BY <2>1, <4>1 DEF StreamAscends
    <3>2. PICK a, b : a = out[k][1] /\ b = out[n][1]
      OBVIOUS
    <3>3. a \in Int /\ b = l /\ ~(a < l) /\ (a < b \/ a = b)
      BY <1>7, <2>1, <2>2, <2>3, <3>1, <3>2 DEF EdgeBefore
    <3> QED
      BY <1>2, <3>2, <3>3
  <2> QED
    BY <2>4, <2>5
<1>11. Cardinality(P) <= Cardinality(Endpoints)
  BY <1>9, <1>10, SourcesDiffer
<1>12. Cardinality(P) = count
  <2>1. PICK m : m = before + 1
    OBVIOUS
  <2>2. m \in Int /\ n \in Int
    BY <1>3, <1>5, <2>1
  <2>3. Cardinality(m .. n) = IF m > n THEN 0 ELSE n - m + 1
    BY <2>2, FS_Interval
  <2>4. (IF m > n THEN 0 ELSE n - m + 1) = count
    BY <1>2, <1>3, <1>4, <2>1
  <2> QED
    BY <1>8, <2>1, <2>3, <2>4
<1> QED
  BY <1>11, <1>12

LEMMA DegreeIsSmall ==
  ASSUME InputTyped, NEW out \in Seq(CompactEdge), NEW n \in 0 .. Len(out),
         StreamAscends(out, n), NEW degrees, NEW size, Degrees(degrees, out, n, size),
         NEW v \in 1 .. size
  PROVE  degrees[v] <= Cardinality(Endpoints)
<1>1. degrees[v] = Cardinality(Leaving(out, n, v))
  BY DEF Degrees
<1>2. Cardinality(Leaving(out, n, v)) <= Cardinality(Endpoints)
  <2>1. PICK P, s : P = Leaving(out, n, v) /\ s = v - 1
    OBVIOUS
  <2>2. P \subseteq 1 .. n /\ \A k \in P : out[k][2] = s
    BY <2>1 DEF Leaving
  <2> QED
    BY <2>1, <2>2, DestinationsDiffer
<1> QED
  BY <1>1, <1>2

----------------------------------------------------------------------------
(* The partitioner.                                                        *)

\* The proofs about TaskBuilder; what they say of the validator is not used.
Storage == INSTANCE TaskStorageProofs WITH
  MaxCount <- VertexLimit, DestinationLimit <- VertexLimit,
  Offers <- {}, MaxDestinations <- 0, validator_state <- "", lookahead <- <<>>,
  hub <- <<>>, next_edge <- 0, next_count_destination <- 0, accepted <- <<>>

\* What that module assumes holds here.
LEMMA Configured ==
  /\ (\A t \in {} : t \in Storage!TaskRecord /\ Storage!WellFormed(t)) /\ 0 \in Nat
  /\ VertexLimit \in Nat /\ VertexLimit \in Nat
  /\ EdgeSlice \in Nat \ {0} /\ MaxTaskEdges \in Nat \ {0}
  /\ MaxTaskVertices \in Nat \ {0} /\ EdgeSlice <= MaxTaskEdges
BY TaskConfigAssumption, GraphAssumption

LEMMA SameTasks ==
  /\ \A c, d : Storage!EdgesBefore(c, d) = EdgesBefore(c, d)
  /\ \A c, ts : Storage!IsCanonical(c, ts) <=> IsCanonical(c, ts)
<1>1. \A c, d : Storage!EdgesBefore(c, d) = EdgesBefore(c, d)
  BY DEF Storage!EdgesBefore, EdgesBefore
<1>2. \A m, n : Storage!Smaller(m, n) = Smaller(m, n)
  BY DEF Storage!Smaller, Smaller
<1>3. \A n : Storage!SliceCount(n) = SliceCount(n)
  BY DEF Storage!SliceCount, SliceCount
<1>4. \A t : Storage!NextDestination(t) = NextDestination(t)
  BY DEF Storage!NextDestination, NextDestination
<1>5. \A t, u : Storage!Follows(t, u) <=> Follows(t, u)
  BY <1>4 DEF Storage!Follows, Follows
<1>6. \A c, d : Storage!IsHub(c, d) <=> IsHub(c, d)
  BY DEF Storage!IsHub, IsHub
<1>7. \A c, d, n, m : Storage!Fits(c, d, n, m) <=> Fits(c, d, n, m)
  BY <1>6 DEF Storage!Fits, Fits
<1>8. \A c, t : Storage!RightOrdinary(c, t) <=> RightOrdinary(c, t)
  BY <1>1, <1>6, <1>7 DEF Storage!RightOrdinary, RightOrdinary
<1>9. \A c, t : Storage!RightSlice(c, t) <=> RightSlice(c, t)
  BY <1>1, <1>2, <1>3, <1>6 DEF Storage!RightSlice, RightSlice
<1>10. \A c, t : Storage!RightTask(c, t) <=> RightTask(c, t)
  BY <1>8, <1>9 DEF Storage!RightTask, RightTask
<1>11. \A c, ts : Storage!IsCanonicalPrefix(c, ts) <=> IsCanonicalPrefix(c, ts)
  BY <1>5, <1>10 DEF Storage!IsCanonicalPrefix, IsCanonicalPrefix
<1>12. \A c, ts : Storage!IsCanonical(c, ts) <=> IsCanonical(c, ts)
  BY <1>4, <1>11 DEF Storage!IsCanonical, IsCanonical
<1> QED
  BY <1>1, <1>12

\* The partitioner of the build is the builder that TaskStorageProofs is about.
LEMMA SamePartitioner ==
  /\ Partitioner!Init => Storage!Init
  /\ \A count : Partitioner!Call(count) => Storage!Call(count)
  /\ Partitioner!Emit => Storage!Emit
  /\ Partitioner!Absorb => Storage!Absorb
  /\ Partitioner!Finish => Storage!Finish
<1>1. /\ Partitioner!Finishing = Storage!Finishing
      /\ Partitioner!destination_count = Storage!destination_count
      /\ Partitioner!Flushed = Storage!Flushed
      /\ Partitioner!edge_count = Storage!edge_count
  BY DEF Partitioner!Finishing, Storage!Finishing, Partitioner!destination_count,
     Storage!destination_count, Partitioner!Flushed, Storage!Flushed,
     Partitioner!edge_count, Storage!edge_count, Partitioner!EdgesBefore,
     Storage!EdgesBefore
<1>2. \A d, e : Partitioner!Empty(d, e) = Storage!Empty(d, e)
  BY DEF Partitioner!Empty, Storage!Empty, Partitioner!Ordinary, Storage!Ordinary
<1>3. \A n : Partitioner!SliceCount(n) = Storage!SliceCount(n)
  BY DEF Partitioner!SliceCount, Storage!SliceCount
<1>4. \A count : Partitioner!Slices(count) = Storage!Slices(count)
  BY <1>1, <1>3 DEF Partitioner!Slices, Storage!Slices, Partitioner!HubSlice,
     Storage!HubSlice, Partitioner!Smaller, Storage!Smaller
<1>5. \A count : Partitioner!MustFlush(count) <=> Storage!MustFlush(count)
  BY DEF Partitioner!MustFlush, Storage!MustFlush
<1>6. \A count : Partitioner!Emissions(count) = Storage!Emissions(count)
  BY <1>1, <1>4, <1>5 DEF Partitioner!Emissions, Storage!Emissions
<1>7. Partitioner!Init => Storage!Init
  BY <1>1, <1>2 DEF Partitioner!Init, Storage!Init
<1>8. \A count : Partitioner!Call(count) => Storage!Call(count)
  BY <1>1, <1>6 DEF Partitioner!Call, Storage!Call
<1>9. Partitioner!Emit => Storage!Emit
  BY DEF Partitioner!Emit, Storage!Emit
<1>10. Partitioner!Absorb => Storage!Absorb
  BY <1>1, <1>2, <1>5 DEF Partitioner!Absorb, Storage!Absorb
<1>11. Partitioner!Finish => Storage!Finish
  BY <1>1, <1>2 DEF Partitioner!Finish, Storage!Finish
<1> QED
  BY <1>7, <1>8, <1>9, <1>10, <1>11

\* The partitioner has been given the counts that are written, but for the
\* one it has now.
Partitioned ==
  place \in Building \union {"waiting"} =>
    /\ Storage!BuilderInv
    /\ state # "failed" =>
         incoming_counts = IF Owing THEN Append(consumed, argument) ELSE consumed
    /\ place = "counts" /\ calling /\ argument = Partitioner!Finishing =>
         next_destination = vertex_count
    /\ place \in {"accounts", "validate", "publish"} =>
         state = "finished" /\ ~calling /\ next_destination = vertex_count

LEMMA PartitionedStarts ==
  ASSUME Init
  PROVE  Partitioned
<1>1. Partitioner!Init /\ place = "waiting" /\ incoming_counts = <<>>
  BY DEF Init, GraphInit
<1>2. Storage!BuilderInv
  BY <1>1, SamePartitioner, Configured, Storage!BuilderInit
<1>3. ~Owing /\ consumed = <<>>
  BY <1>1 DEF Partitioner!Init, Owing
<1> QED
  BY <1>1, <1>2, <1>3 DEF Partitioned

\* A step that leaves the partitioner alone.
LEMMA PartitionedStays ==
  ASSUME Partitioned, UNCHANGED <<builderVars, incoming_counts, next_destination>>,
         place \in Building \union {"waiting"},
         place \in {"waiting", "copy", "read", "take"} => ~calling \/ place' = place,
         \/ place' \in {"copy", "read", "take", "counts"}
         \/ place' \in {"published", "failed"}
         \/ place = "waiting" /\ place' = place
         \/ place \in {"accounts", "validate", "publish"} /\ place' \in Building,
         place \in {"counts", "accounts", "validate", "publish"} => vertex_count' = vertex_count
  PROVE  Partitioned'
<1>1. /\ UNCHANGED <<state, calling, ordinary, consumed, argument, queue, tasks>>
      /\ UNCHANGED <<incoming_counts, next_destination>>
  BY DEF builderVars
<1>2. Storage!BuilderInv'
  <2>1. UNCHANGED Storage!vars
    BY <1>1 DEF Storage!vars
  <2>2. Storage!BuilderInv
    BY DEF Partitioned
  <2> QED
    BY <2>1, <2>2, Configured, Storage!BuilderStep
<1>3. Owing' = Owing /\ Partitioner!Finishing' = Partitioner!Finishing
  BY <1>1 DEF Owing, Partitioner!Finishing
<1> QED
  BY <1>1, <1>2, <1>3 DEF Partitioned, Building

LEMMA PartitionedKept ==
  ASSUME PhasesInv, BuildInv, Partitioned, BuildGraph
  PROVE  Partitioned'
<1>1. /\ place \in Building /\ GraphNext(id_files[VertexIds])
      /\ UNCHANGED <<input, idVars, compactVars>>
  BY DEF BuildGraph, BuildInv
<1>2. vertex_count' = vertex_count
  BY <1>1, Settled
<1>3. /\ Storage!BuilderInv
      /\ state # "failed" =>
           incoming_counts = IF Owing THEN Append(consumed, argument) ELSE consumed
      /\ place = "counts" /\ calling /\ argument = Partitioner!Finishing =>
           next_destination = vertex_count
      /\ place \in {"accounts", "validate", "publish"} =>
           state = "finished" /\ ~calling /\ next_destination = vertex_count
  BY <1>1 DEF Partitioned
<1>4. Partitioner!Finishing' = Partitioner!Finishing
      /\ Storage!Finishing = Partitioner!Finishing /\ Partitioner!Finishing = -1
  BY DEF Partitioner!Finishing, Storage!Finishing
<1>5. CASE EmitCount
  <2>1. /\ place \in {"take", "counts"} /\ ~calling /\ state = "active"
        /\ incoming_counts' = Append(incoming_counts, owed_count)
        /\ Partitioner!Call(owed_count) /\ place' = place
    BY <1>5 DEF EmitCount, Partitioner!Call
  <2>2. owed_count \in Nat
    BY <2>1 DEF BuildInv, Building, Counting, Tally, owed_count
  <2>3. Storage!BuilderInv'
    BY <1>3, <1>4, <2>1, <2>2, SamePartitioner, Configured, Storage!CallKeeps
  <2>4. owed_count # Partitioner!Finishing
    BY <1>4, <2>2
  <2>5. \/ state' = "failed"
        \/ /\ state' = state /\ argument' = owed_count /\ calling' /\ consumed' = consumed
    BY <2>1 DEF Partitioner!Call
  <2>6. incoming_counts = consumed
    BY <1>3, <2>1 DEF Owing
  <2>7. state' # "failed" =>
          /\ argument' # Partitioner!Finishing' /\ Owing'
          /\ incoming_counts' = Append(consumed', argument')
    BY <1>4, <2>1, <2>4, <2>5, <2>6 DEF Owing
  <2>8. argument' = Partitioner!Finishing' => ~calling'
    BY <1>4, <2>1, <2>4 DEF Partitioner!Call
  <2> QED
    BY <2>1, <2>3, <2>7, <2>8 DEF Partitioned
<1>6. CASE EmitTask
  <2>1. Partitioner!Emit /\ UNCHANGED <<place, streamVars, state, calling, argument, consumed>>
    BY <1>6 DEF EmitTask, Partitioner!Emit
  <2>2. Storage!BuilderInv'
    BY <1>3, <2>1, SamePartitioner, Configured, Storage!EmitKeeps
  <2>3. Owing' = Owing /\ UNCHANGED <<incoming_counts, next_destination>>
    BY <1>4, <2>1 DEF Owing, streamVars
  <2> QED
    BY <1>2, <1>3, <1>4, <2>1, <2>2, <2>3 DEF Partitioned
<1>7. CASE EmittedCount
  <2>1. /\ Partitioner!Absorb /\ place' = place /\ incoming_counts' = incoming_counts
        /\ state = "active" /\ state' = "active" /\ calling /\ ~calling'
        /\ argument # Partitioner!Finishing /\ consumed' = Append(consumed, argument)
    BY <1>7 DEF EmittedCount, Partitioner!Absorb
  <2>2. Storage!BuilderInv'
    BY <1>3, <2>1, SamePartitioner, Configured, Storage!AbsorbKeeps
  <2>3. Owing /\ ~Owing'
    BY <2>1 DEF Owing
  <2>4. place \notin {"accounts", "validate", "publish"}
    BY <1>3, <2>1
  <2> QED
    BY <1>3, <2>1, <2>2, <2>3, <2>4 DEF Partitioned
<1>8. CASE CallPartitionFinish
  <2>1. /\ place = "counts" /\ place' = "counts" /\ next_destination = emit_limit
        /\ Partitioner!Call(Partitioner!Finishing)
        /\ UNCHANGED <<incoming_counts, next_destination>>
        /\ state = "active" /\ ~calling /\ consumed' = consumed
        /\ state' = "active" /\ argument' = Partitioner!Finishing
    BY <1>8 DEF CallPartitionFinish, Partitioner!Call, streamVars
  <2>2. Storage!BuilderInv'
    BY <1>3, <1>4, <2>1, SamePartitioner, Configured, Storage!CallKeeps
  <2>3. ~Owing /\ ~Owing'
    BY <1>4, <2>1 DEF Owing
  <2>4. next_destination = vertex_count
    BY <2>1 DEF emit_limit
  <2> QED
    BY <1>2, <1>3, <2>1, <2>2, <2>3, <2>4 DEF Partitioned
<1>9. CASE FinishPartition
  <2>1. /\ Partitioner!Finish /\ place = "counts" /\ place' = "accounts"
        /\ UNCHANGED <<incoming_counts, next_destination>>
        /\ state = "active" /\ calling /\ argument = Partitioner!Finishing
        /\ state' = "finished" /\ ~calling' /\ consumed' = consumed
    BY <1>9 DEF FinishPartition, Goes, Partitioner!Finish, streamVars
  <2>2. Storage!BuilderInv'
    BY <1>3, <2>1, SamePartitioner, Configured, Storage!FinishKeeps
  <2>3. ~Owing /\ ~Owing'
    BY <2>1 DEF Owing
  <2> QED
    BY <1>2, <1>3, <2>1, <2>2, <2>3 DEF Partitioned
<1>10. CASE place' \in {"published", "failed"}
  BY <1>10 DEF Partitioned, Building
<1>11. CASE \/ CopyVertexIds(id_files[VertexIds]) \/ OpenCursor(id_files[VertexIds])
            \/ ReadEdge \/ EndRead \/ TakeEdge \/ AppendSources
            \/ WriteManifest \/ ValidateGraph
  <2>1. UNCHANGED <<builderVars, incoming_counts, next_destination>>
    BY <1>11 DEF CopyVertexIds, OpenCursor, ReadEdge, EndRead, TakeEdge, AppendSources,
       WriteManifest, ValidateGraph, streamVars
  <2>2. \/ /\ place \in {"copy", "read", "take"} /\ place' \in {"copy", "read", "take", "counts"}
           /\ place = "take" => ~calling \/ emitted_edge_count = Len(cursor.out)
        \/ place \in {"accounts", "validate"} /\ place' \in {"validate", "publish"}
    BY <1>11 DEF CopyVertexIds, OpenCursor, ReadEdge, EndRead, TakeEdge, AppendSources,
       WriteManifest, ValidateGraph, Goes
  <2>3. place \in {"copy", "read", "take"} => ~calling \/ place' = place
    <3>1. place \in {"copy", "read"} => ~calling
      BY <1>1 DEF BuildInv, Stages
    <3>2. place = "take" /\ calling => emitted_edge_count < Len(cursor.out)
      BY <1>1 DEF BuildInv, Stages
    <3>3. ASSUME place = "take", calling PROVE emitted_edge_count # Len(cursor.out)
      <4>1. emitted_edge_count < Len(cursor.out) /\ emitted_edge_count \in Int
        BY <1>1, <3>2, <3>3 DEF BuildInv, Streams
      <4> QED
        BY <4>1
    <3> QED
      BY <2>2, <3>1, <3>3
  <2> QED
    BY <1>1, <1>2, <2>1, <2>2, <2>3, PartitionedStays DEF Building
<1>12. CASE PublishGraph \/ BuildFails \/ TaskWriterFails
  BY <1>10, <1>12 DEF PublishGraph, BuildFails, TaskWriterFails
<1> QED
  BY <1>1, <1>5, <1>6, <1>7, <1>8, <1>9, <1>11, <1>12 DEF GraphNext

\* The build begins as it was, and the phases before it leave it alone.
LEMMA PartitionedWaits ==
  ASSUME BuildInv, Partitioned, place = "waiting",
         MergeIdentifiers \/ StartCompact \/ CompactEdges \/ StartBuild
  PROVE  Partitioned'
<1>1. UNCHANGED <<builderVars, incoming_counts, next_destination>>
      /\ place' \in {"waiting", "copy"}
  BY DEF MergeIdentifiers, StartCompact, CompactEdges, StartBuild, CreateStaging, Goes,
     graphVars, streamVars
<1>2. ~calling
  BY DEF BuildInv, Fresh
<1> QED
  BY <1>1, <1>2, PartitionedStays

\* No count is more than the vertices, and the out-degrees are of the edges
\* that are taken.
Accounts ==
  place \in Building =>
    /\ current_incoming_count <= vertex_count
    /\ \A i \in DOMAIN incoming_counts : incoming_counts[i] <= vertex_count
    /\ place # "copy" => Total(out_degree) = emitted_edge_count

LEMMA AccountsStart ==
  ASSUME PhasesInv, BuildInv, StartBuild
  PROVE  Accounts'
<1>1. /\ compact_place = "done" /\ place = "waiting" /\ place' = "copy"
      /\ UNCHANGED <<input, idVars, compactVars, streamVars>>
  BY DEF StartBuild, CreateStaging, Goes
<1>2. current_incoming_count' = 0 /\ incoming_counts' = <<>>
  BY <1>1 DEF BuildInv, Fresh, streamVars
<1>3. vertex_count' \in Nat
  <2>1. dictionary \in Seq(Endpoints)
    BY <1>1, DictionaryTyped DEF PhasesInv
  <2>2. vertex_count \in Nat
    BY <2>1 DEF vertex_count
  <2> QED
    BY <1>1, <2>2, Settled
<1>4. 0 <= vertex_count' /\ DOMAIN <<>> = {}
  BY <1>3
<1> QED
  BY <1>1, <1>2, <1>4 DEF Accounts

LEMMA EdgeIsCounted ==
  ASSUME PhasesInv, BuildInv, BuildInv', Accounts, TakeEdge,
         UNCHANGED <<input, idVars, compactVars>>
  PROVE  Accounts'
<1>1. /\ place = "take" /\ place' = "take" /\ emitted_edge_count < Len(cursor.out)
      /\ current_destination' = edge[1]
      /\ out_degree' = [out_degree EXCEPT ![edge[2] + 1] = @ + 1]
      /\ emitted_edge_count' = emitted_edge_count + 1
      /\ UNCHANGED <<incoming_counts, cursor>>
  BY DEF TakeEdge
<1>2. /\ compact_place = "done" /\ Streams /\ Counting /\ Stages /\ InputTyped
      /\ Streams' /\ Counting'
  BY <1>1 DEF BuildInv, Building, PhasesInv, IdInv
<1>3. CompactEdge' = CompactEdge /\ vertex_count' = vertex_count
  BY Settled
<1>4. /\ vertex_count = Cardinality(Endpoints) /\ vertex_count \in Nat
      /\ edge[2] \in 0 .. vertex_count - 1
  BY <1>1, <1>2, Positions
<1>5. current_incoming_count' <= vertex_count
  <2>1. PICK out, n, counts, count, d :
          /\ out = cursor.out /\ n = emitted_edge_count' /\ counts = incoming_counts
          /\ count = current_incoming_count' /\ d = current_destination'
    OBVIOUS
  <2>2. out \in Seq(CompactEdge) /\ n \in 0 .. Len(out) /\ StreamAscends(out, n)
    BY <1>1, <1>2, <1>3, <2>1 DEF Streams
  <2>3. Tally(counts, out, n, d, count)
    BY <1>1, <1>2, <2>1 DEF Counting
  <2>4. d = Len(counts)
    BY <1>1, <2>1, TakesThere
  <2>5. count <= Cardinality(Endpoints)
    BY <1>2, <2>2, <2>3, <2>4, CountIsSmall
  <2> QED
    BY <1>4, <2>1, <2>5
<1>6. Total(out_degree') = emitted_edge_count'
  <2>1. PICK degrees, i, size : degrees = out_degree /\ i = edge[2] + 1 /\ size = vertex_count
    OBVIOUS
  <2>2. degrees = [v \in 1 .. size |-> degrees[v]] /\ \A v \in 1 .. size : degrees[v] \in Nat
    BY <1>1, <1>2, <2>1 DEF Stages, Degrees
  <2>3. size \in Nat /\ i \in 1 .. size
    BY <1>4, <2>1
  <2>4. degrees \in Seq(Nat) /\ Len(degrees) = size
    <3>1. degrees \in Seq(Nat)
      BY <2>2, <2>3, IsASeq
    <3> QED
      BY <2>2, <2>3, <3>1
  <2>5. Total([degrees EXCEPT ![i] = @ + 1]) = Total(degrees) + 1
    BY <2>3, <2>4, OneMoreAdds
  <2>6. Total(degrees) = emitted_edge_count
    BY <1>1, <2>1 DEF Accounts, Building
  <2> QED
    BY <1>1, <2>1, <2>5, <2>6
<1>7. \A i \in DOMAIN incoming_counts' : incoming_counts'[i] <= vertex_count'
  BY <1>1, <1>3 DEF Accounts, Building
<1> QED
  BY <1>3, <1>5, <1>6, <1>7 DEF Accounts

LEMMA AccountsKept ==
  ASSUME PhasesInv, BuildInv, Accounts, BuildGraph
  PROVE  Accounts'
<1>1. /\ place \in Building /\ GraphNext(id_files[VertexIds])
      /\ UNCHANGED <<input, idVars, compactVars>>
  BY DEF BuildGraph, BuildInv
<1>2. vertex_count' = vertex_count
  BY <1>1, Settled
<1>3. /\ current_incoming_count <= vertex_count
      /\ \A i \in DOMAIN incoming_counts : incoming_counts[i] <= vertex_count
      /\ place # "copy" => Total(out_degree) = emitted_edge_count
  BY <1>1 DEF Accounts
<1>4. compact_place = "done" /\ Streams /\ Counting /\ Stages /\ place # "waiting"
  BY <1>1 DEF BuildInv, Building
<1>5. CASE OpenCursor(id_files[VertexIds])
  <2>1. /\ place = "copy" /\ out_degree' = [v \in 1 .. vertex_count |-> 0]
        /\ UNCHANGED <<current_incoming_count, incoming_counts, emitted_edge_count>>
    BY <1>5 DEF OpenCursor, Goes
  <2>2. Total(out_degree') = 0
    <3>1. vertex_count \in Nat
      BY <1>4, Positions
    <3> QED
      BY <2>1, <3>1, ZerosAdd
  <2>3. emitted_edge_count = 0
    <3>1. emitted_edge_count \in 0 .. Len(<<>>) /\ Len(<<>>) = 0
      BY <1>4, <2>1 DEF Streams, Stages
    <3> QED
      BY <3>1
  <2> QED
    BY <1>2, <1>3, <2>1, <2>2, <2>3 DEF Accounts
<1>6. CASE EmitCount
  <2>1. /\ place \in {"take", "counts"} /\ place' = place /\ owed_count <= vertex_count
        /\ incoming_counts' = Append(incoming_counts, owed_count)
        /\ UNCHANGED <<current_incoming_count, out_degree, emitted_edge_count>>
    BY <1>6 DEF EmitCount
  <2>2. PICK counts, more, owed, l : /\ counts = incoming_counts /\ more = incoming_counts'
                                     /\ owed = owed_count /\ l = Len(incoming_counts)
    OBVIOUS
  <2>3. counts \in Seq(Nat)
    BY <1>4, <2>2, Positions
  <2>4. /\ l \in Nat /\ DOMAIN counts = 1 .. l /\ DOMAIN more = 1 .. l + 1
        /\ \A i \in 1 .. l : more[i] = counts[i]
        /\ more[l + 1] = owed
    BY <2>1, <2>2, <2>3
  <2>5. ASSUME NEW i \in DOMAIN more PROVE more[i] <= vertex_count
    <3>1. CASE i = l + 1
      BY <2>1, <2>2, <2>4, <3>1
    <3>2. CASE i # l + 1
      <4>1. i \in 1 .. l
        BY <2>4, <3>2
      <4> QED
        BY <1>3, <2>2, <2>4, <4>1
    <3> QED
      BY <3>1, <3>2
  <2> QED
    BY <1>2, <1>3, <2>1, <2>2, <2>5 DEF Accounts
<1>7. CASE TakeEdge
  <2>1. BuildInv'
    BY BuildGraphKeeps
  <2> QED
    BY <1>1, <1>7, <2>1, EdgeIsCounted
<1>8. CASE ~OpenCursor(id_files[VertexIds]) /\ ~EmitCount /\ ~TakeEdge
  <2>1. /\ UNCHANGED <<current_incoming_count, incoming_counts, out_degree, emitted_edge_count>>
        /\ place = "copy" => place' \in {"copy", "failed"}
    BY <1>1, <1>8 DEF GraphNext, CopyVertexIds, ReadEdge, EndRead, EmitTask, EmittedCount,
       AppendSources, CallPartitionFinish, FinishPartition, WriteManifest,
       ValidateGraph, PublishGraph, BuildFails, TaskWriterFails, Goes, streamVars
  <2> QED
    BY <1>2, <1>3, <2>1 DEF Accounts, Building
<1> QED
  BY <1>5, <1>6, <1>7, <1>8

LEMMA CountsPass ==
  ASSUME PhasesInv, BuildInv, Accounts, place \in {"take", "counts"}
  PROVE  owed_count <= vertex_count
<1>1. compact_place = "done" /\ Streams /\ Counting /\ place # "waiting"
  BY DEF BuildInv, Building
<1>2. vertex_count \in Nat
  BY <1>1, Positions
<1>3. current_incoming_count <= vertex_count
  BY DEF Accounts, Building
<1> QED
  BY <1>2, <1>3 DEF owed_count

\* Once every edge is counted the accounts add up.
LEMMA AccountsClose ==
  ASSUME PhasesInv, BuildInv, Partitioned, Accounts, place \in {"accounts", "validate"}
  PROVE  /\ incoming_counts = consumed /\ IsCanonical(incoming_counts, tasks)
         /\ Len(incoming_counts) = vertex_count
         /\ Total(incoming_counts) = emitted_edge_count
         /\ \A v \in DOMAIN incoming_counts : incoming_counts[v] <= vertex_count
         /\ Len(out_degree) = vertex_count /\ Total(out_degree) = emitted_edge_count
         /\ \A v \in DOMAIN out_degree : out_degree[v] <= vertex_count
<1>1. /\ compact_place = "done" /\ Streams /\ Counting /\ Stages /\ place # "waiting"
      /\ InputTyped
  BY DEF BuildInv, Building, PhasesInv, IdInv
<1>2. PICK out, n, counts, size, d, count :
        /\ out = cursor.out /\ n = emitted_edge_count /\ counts = incoming_counts
        /\ size = vertex_count /\ d = current_destination /\ count = current_incoming_count
  OBVIOUS
<1>3. /\ size \in Nat /\ size = Cardinality(Endpoints) /\ n \in Nat /\ Len(out) \in Nat
      /\ d \in Int /\ counts \in Seq(Nat)
  BY <1>1, <1>2, Positions
<1>4. ~Owing /\ ~calling
  BY <1>1 DEF Stages
<1>5. state # "failed" /\ state = "finished" /\ next_destination = size /\ counts = consumed
      /\ Storage!BuilderInv
  BY <1>2, <1>4 DEF Partitioned, Building
<1>6. IsCanonical(consumed, tasks)
  BY <1>5, SameTasks DEF Storage!BuilderInv
<1>7. Len(counts) = size
  BY <1>1, <1>2, <1>3, <1>4, <1>5 DEF Counting
<1>8. out \in Seq(CompactEdge) /\ n \in 0 .. Len(out) /\ StreamAscends(out, n)
  BY <1>1, <1>2 DEF Streams
<1>9. Total(counts) = n
  <2>1. Tally(counts, out, n, d, count)
    BY <1>1, <1>2 DEF Counting
  <2>2. d # Len(counts)
    <3>1. CASE n = 0
      <4>1. d = -1
        BY <2>1, <3>1 DEF Tally, None
      <4> QED
        BY <1>3, <1>7, <4>1
    <3>2. CASE n # 0
      <4>1. n \in 1 .. Len(out)
        BY <1>3, <1>8, <3>2
      <4>2. out[n][1] \in 0 .. Cardinality(Endpoints) - 1
        BY <1>1, <1>8, <4>1, StreamTyped
      <4>3. d = out[n][1]
        BY <2>1, <3>2 DEF Tally
      <4> QED
        BY <1>3, <1>7, <4>2, <4>3
    <3> QED
      BY <3>1, <3>2
  <2>3. EdgesBefore(counts, Len(counts)) + 0 = n
    BY <2>1, <2>2 DEF Tally
  <2>4. EdgesBefore(counts, Len(counts)) \in Nat
    BY <1>3, EdgesBeforeUnfold
  <2> QED
    BY <2>3, <2>4 DEF Total
<1>10. PICK degrees : degrees = out_degree
  OBVIOUS
<1>11. Degrees(degrees, out, n, size)
  BY <1>1, <1>2, <1>10 DEF Stages
<1>12. DOMAIN degrees = 1 .. size /\ Len(degrees) = size
  <2>1. degrees = [v \in 1 .. size |-> degrees[v]] /\ \A v \in 1 .. size : degrees[v] \in Nat
    BY <1>11 DEF Degrees
  <2>2. degrees \in Seq(Nat)
    BY <1>3, <2>1, IsASeq
  <2> QED
    BY <1>3, <2>1, <2>2
<1>13. \A v \in 1 .. size : degrees[v] <= size
  BY <1>1, <1>3, <1>8, <1>11, DegreeIsSmall
<1>14. /\ \A v \in DOMAIN counts : counts[v] <= size
       /\ Total(degrees) = n
  BY <1>2, <1>10 DEF Accounts, Building
<1> QED
  BY <1>2, <1>5, <1>6, <1>7, <1>9, <1>10, <1>12, <1>13, <1>14

\* The sources of a destination, in order.
LEMMA SourcesPass ==
  ASSUME InputTyped, NEW v
  PROVE  /\ Increases(Listed(SourcesInto(v)), <)
         /\ \A i \in DOMAIN Listed(SourcesInto(v)) :
              Listed(SourcesInto(v))[i] < Cardinality(Endpoints)
<1>1. PICK S, s, N : S = SourcesInto(v) /\ s = InOrder(S, <) /\ N = Cardinality(S)
  OBVIOUS
<1>2. Cardinality(Endpoints) \in Nat /\ \A id \in Endpoints : Rank(id) \in Vertices
  BY RanksOfEndpoints
<1>3. \A i \in DOMAIN input : input[i][1] \in Endpoints
  BY EndpointsTyped
<1>4. S \subseteq 0 .. Cardinality(Endpoints) - 1
  BY <1>1, <1>2, <1>3 DEF SourcesInto, Into, InputEdges, Vertices
<1>5. /\ S \subseteq Int /\ IsFiniteSet(S)
      /\ \A x \in S : x < Cardinality(Endpoints)
  <2>1. PICK m, T : m = Cardinality(Endpoints) - 1 /\ T = 0 .. m
    OBVIOUS
  <2>2. m \in Int /\ S \subseteq T /\ m < Cardinality(Endpoints)
    BY <1>2, <1>4, <2>1
  <2>3. IsFiniteSet(T)
    BY <2>1, <2>2, FS_Interval
  <2>4. IsFiniteSet(S)
    BY <2>2, <2>3, FS_Subset
  <2>5. \A x \in T : x \in Int /\ x < Cardinality(Endpoints)
    BY <1>2, <2>1, <2>2
  <2> QED
    BY <2>2, <2>4, <2>5
<1>6. /\ s \in Seq(S) /\ Len(s) = N /\ N \in Nat
      /\ \A i, j \in 1 .. N : i < j => s[i] < s[j]
  BY <1>1, <1>5, IntegersInOrder, Zenon
<1>7. \A i \in 1 .. Len(s) - 1 : s[i] < s[i + 1]
  BY <1>6
<1>8. Increases(s, <)
  BY <1>7 DEF Increases
<1>9. \A i \in DOMAIN s : s[i] < Cardinality(Endpoints)
  <2>1. \A i \in DOMAIN s : s[i] \in S
    BY <1>6
  <2> QED
    BY <1>5, <2>1
<1>10. Listed(SourcesInto(v)) = s
  BY <1>1 DEF Listed
<1> QED
  BY <1>8, <1>9, <1>10

LEMMA StagedIsValid ==
  ASSUME PhasesInv, BuildInv, Partitioned, Accounts, place = "validate"
  PROVE  Valid(Staged)
<1>1. PICK g, out, counts, sources, degrees :
        /\ g = Staged /\ out = cursor.out /\ counts = incoming_counts
        /\ sources = incoming_sources /\ degrees = out_degree
  OBVIOUS
<1>2. /\ g.vertex_ids = vertex_ids /\ g.incoming_sources = sources
      /\ g.incoming_counts = counts /\ g.out_degree = degrees /\ g.tasks = tasks
  BY <1>1 DEF Staged
<1>3. compact_place = "done" /\ Streams /\ Counting /\ Stages /\ InputTyped
  BY DEF BuildInv, Building, PhasesInv, IdInv
<1>4. Complete(out) /\ emitted_edge_count = Len(out) /\ Len(sources) = Len(out)
  BY <1>1, StreamCompletes
<1>5. /\ vertex_ids = dictionary /\ Increases(dictionary, <)
      /\ Len(dictionary) = Cardinality(Endpoints) /\ vertex_count = Len(dictionary)
  <2>1. /\ dictionary \in Seq(Endpoints) /\ Within(dictionary) = Endpoints
        /\ Increases(dictionary, <)
    BY <1>3, DictionaryTyped DEF PhasesInv
  <2> QED
    BY <1>3, <2>1, Dictionary DEF Stages, vertex_count
<1>6. /\ IsCanonical(counts, tasks)
      /\ Len(counts) = vertex_count /\ Total(counts) = emitted_edge_count
      /\ \A v \in DOMAIN counts : counts[v] <= vertex_count
      /\ Len(degrees) = vertex_count /\ Total(degrees) = emitted_edge_count
      /\ \A v \in DOMAIN degrees : degrees[v] <= vertex_count
  BY <1>1, AccountsClose
<1>7. CountsAdd(g, g.incoming_counts) /\ CountsAdd(g, g.out_degree)
  BY <1>2, <1>4, <1>5, <1>6 DEF CountsAdd
<1>8. PICK destination, count : Tally(counts, out, Len(out), destination, count)
  BY <1>1, <1>3, <1>4 DEF Counting
<1>9. Lists(sources, out)
  BY <1>1, <1>3, <1>4 DEF Streams, Lists
<1>10. Len(counts) = Cardinality(Endpoints)
  BY <1>5, <1>6
<1>11. ASSUME NEW v \in 0 .. Len(g.vertex_ids) - 1
       PROVE  /\ Increases(SourcesOf(g, v), <)
              /\ \A i \in DOMAIN SourcesOf(g, v) : SourcesOf(g, v)[i] < Len(g.vertex_ids)
  <2>1. v \in Vertices /\ Len(g.vertex_ids) = Cardinality(Endpoints)
    BY <1>2, <1>5 DEF Vertices
  <2>2. PICK a, b : a = EdgesBefore(counts, v) /\ b = EdgesBefore(counts, v + 1)
    OBVIOUS
  <2>3. Together(out, v, a, b)
    BY <1>3, <1>4, <1>8, <1>10, <2>1, <2>2, EntersThere
  <2>4. SubSeq(sources, a + 1, b) = Listed(SourcesInto(v))
    BY <1>3, <1>4, <1>9, <2>1, <2>3, SourcesRight
  <2>5. SourcesOf(g, v) = Listed(SourcesInto(v))
    BY <1>2, <2>2, <2>4 DEF SourcesOf
  <2> QED
    BY <1>3, <2>1, <2>5, SourcesPass
<1>12. SourcesAscend(g)
  BY <1>11 DEF SourcesAscend
<1>13. Valid(g)
  BY <1>2, <1>5, <1>6, <1>7, <1>12 DEF Valid
<1> QED
  BY <1>1, <1>13

----------------------------------------------------------------------------
(* The phases together.                                                    *)

\* What the phases have written is as their checks want it.
WrittenWell ==
  IdSorted /\ EdgeSorted /\ StreamSorted /\ Partitioned /\ Accounts

LEMMA WrittenWellStarts ==
  ASSUME Init
  PROVE  WrittenWell
<1>1. place = "waiting"
  BY DEF Init, GraphInit
<1> QED
  BY <1>1, IdSortedStarts, EdgeSortedStarts, PartitionedStarts
     DEF WrittenWell, StreamSorted, Accounts, Building

LEMMA WrittenWellStutters ==
  ASSUME BuildInv, WrittenWell, UNCHANGED vars
  PROVE  WrittenWell'
<1>1. /\ UNCHANGED <<input, idVars, compactVars, streamVars, builderVars, place>>
      /\ UNCHANGED <<edge_files, compact_place, expected>>
  BY DEF vars, graphVars, compactVars
<1>2. AllEdges' = AllEdges /\ vertex_count' = vertex_count /\ edge_files' = edge_files
  BY <1>1, Settled
<1>3. UNCHANGED <<cursor, current_incoming_count, incoming_counts, next_destination,
                  out_degree, emitted_edge_count>>
  BY <1>1 DEF streamVars
<1>4. IdSorted' /\ EdgeSorted'
  BY <1>1, IdSortedStutters, EdgeSortedStutters DEF WrittenWell
<1>5. StreamSorted'
  BY <1>1, <1>2, <1>3 DEF WrittenWell, StreamSorted, Building
<1>6. Accounts'
  BY <1>1, <1>2, <1>3 DEF WrittenWell, Accounts, Building
<1>7. Partitioned'
  <2>1. CASE place \in Building \union {"waiting"}
    BY <1>1, <1>2, <1>3, <2>1, PartitionedStays DEF WrittenWell, Building
  <2>2. CASE place \notin Building \union {"waiting"}
    BY <1>1, <2>2 DEF Partitioned, Building
  <2> QED
    BY <2>1, <2>2
<1> QED
  BY <1>4, <1>5, <1>6, <1>7 DEF WrittenWell

LEMMA WrittenWellKept ==
  ASSUME PhasesInv, BuildInv, WrittenWell, [Next]_vars
  PROVE  WrittenWell'
<1>1. IdInv /\ CompactInv /\ IdSorted /\ EdgeSorted /\ StreamSorted /\ Partitioned /\ Accounts
  BY DEF PhasesInv, WrittenWell
<1>2. CASE UNCHANGED vars
  BY <1>2, WrittenWellStutters
<1>3. CASE Next /\ place # "waiting"
  <2>1. BuildGraph
    BY <1>3, NothingElse
  <2>2. UNCHANGED <<input, idVars, edge_files, compact_place, expected>>
    BY <2>1 DEF BuildGraph, compactVars
  <2>3. IdSorted' /\ EdgeSorted'
    BY <1>1, <2>2, IdSortedStutters, EdgeSortedStutters
  <2> QED
    BY <1>1, <2>1, <2>3, StreamSortedKept, PartitionedKept, AccountsKept DEF WrittenWell
<1>4. CASE Next /\ place = "waiting"
  <2>1. ~BuildGraph
    BY <1>4 DEF BuildGraph
  <2>2. MergeIdentifiers \/ StartCompact \/ CompactEdges \/ StartBuild
    BY <1>4, <2>1 DEF Next
  <2>3. Partitioned'
    BY <1>1, <1>4, <2>2, PartitionedWaits
  <2>4. CASE MergeIdentifiers
    <3>1. IdentifierNext /\ UNCHANGED <<input, compactVars, graphVars>>
      BY <2>4 DEF MergeIdentifiers
    <3>2. UNCHANGED <<edge_files, compact_place, expected, place>>
      BY <3>1 DEF compactVars, graphVars
    <3>3. IdSorted' /\ EdgeSorted'
      BY <1>1, <3>1, <3>2, IdSortedKept, EdgeSortedStutters
    <3> QED
      BY <1>4, <2>3, <3>2, <3>3 DEF WrittenWell, StreamSorted, Accounts, Building
  <2>5. CASE StartCompact \/ CompactEdges
    <3>1. UNCHANGED <<input, idVars, graphVars>>
      BY <2>5 DEF StartCompact, CompactEdges
    <3>2. place' = place
      BY <3>1 DEF graphVars
    <3>3. IdSorted' /\ EdgeSorted'
      BY <1>1, <2>5, <3>1, IdSortedStutters, EdgeSortedKept
    <3> QED
      BY <1>4, <2>3, <3>2, <3>3 DEF WrittenWell, StreamSorted, Accounts, Building
  <2>6. CASE StartBuild
    <3>1. UNCHANGED <<input, idVars, edge_files, compact_place, expected>> /\ place' = "copy"
      BY <2>6 DEF StartBuild, CreateStaging, Goes, compactVars
    <3>2. IdSorted' /\ EdgeSorted'
      BY <1>1, <3>1, IdSortedStutters, EdgeSortedStutters
    <3>3. Accounts'
      BY <2>6, AccountsStart
    <3> QED
      BY <2>3, <3>1, <3>2, <3>3 DEF WrittenWell, StreamSorted
  <2> QED
    BY <2>2, <2>4, <2>5, <2>6
<1> QED
  BY <1>2, <1>3, <1>4

LEMMA WrittenWellPasses ==
  ASSUME PhasesInv, BuildInv, WrittenWell
  PROVE  NothingIsRefused
<1>1. IdInv /\ CompactInv /\ IdSorted /\ EdgeSorted /\ StreamSorted /\ Partitioned /\ Accounts
  BY DEF PhasesInv, WrittenWell
<1>2. /\ id_place = "merging" => id_merge.heap = <<>> \/ Ids!MergeAscends(id_merge)
      /\ id_place = "groups" /\ output_index = Successor.count => SuccessorVerified
      /\ id_place = "done" => Increases(id_files[VertexIds], <)
  BY <1>1, IdentifiersPass
<1>3. compact_place = "reading" =>
        \/ Len(chunk) < target_chunk_records /\ BatchKnown
        \/ Len(chunk) = target_chunk_records /\ (chunk # <<>> \/ EdgeRunsVerified)
  BY <1>1, EdgesPass
<1>4. /\ place = "read" => cursor.heap = <<>> \/ Edges!MergeAscends(cursor)
      /\ place = "take" /\ emitted_edge_count < Len(cursor.out) => EdgeAscends
  BY <1>1, StreamPasses
<1>5. place \in {"take", "counts"} => owed_count <= vertex_count
  BY <1>1, CountsPass
<1>6. place = "accounts" => AccountsAgree
  BY <1>1, AccountsClose DEF AccountsAgree
<1>7. place = "validate" => Valid(Staged)
  BY <1>1, StagedIsValid
<1> QED
  BY <1>2, <1>3, <1>4, <1>5, <1>6, <1>7, Zenon DEF NothingIsRefused

\* Whatever these phases write passes every check that a later step makes of
\* it, for every input, fan-in, buffer and batch: the records of a merge and
\* the edges of the stream ascend, the sizes and the accounts agree, and the
\* graph is valid, so that only an I/O error can stop them, or more vertices
\* than the partitioner can number.
THEOREM NothingRefused == Spec => []NothingIsRefused
<1> DEFINE Inv == PhasesInv /\ BuildInv /\ GraphIsOfTheInput /\ WrittenWell
<1>1. Init => Inv
  BY PhasesStart, BuildStarts, WrittenWellStarts
<1>2. Inv /\ [Next]_vars => Inv'
  BY PhasesKept, BuildKept, WrittenWellKept
<1>3. Inv => NothingIsRefused
  BY WrittenWellPasses
<1> QED
  BY <1>1, <1>2, <1>3, PTL DEF Spec
=============================================================================
