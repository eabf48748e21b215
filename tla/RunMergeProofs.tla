--------------------------- MODULE RunMergeProofs ---------------------------
(***************************************************************************)
(* Proofs about RunMerge: no record is lost or invented, whatever the      *)
(* order, the size of the buffers and the runs; and what leaves a merge    *)
(* of runs that ascend strictly ascends strictly too.                      *)
(***************************************************************************)
EXTENDS RunMerge, WellFoundedInduction, SequenceTheorems, TLAPS

\* Every non-empty set of naturals has a least element.
LEMMA LeastNumber ==
  ASSUME NEW S, S \subseteq Nat, S # {}
  PROVE  \E k \in S : \A j \in S : k <= j
<1> DEFINE Below == {p \in Nat \X Nat : p[1] < p[2]}
<1>1. IsWellFoundedOn(Below, Nat)
  BY NatLessThanWellFounded DEF OpToRel
<1>2. \E k \in S : \A j \in S : <<j, k>> \notin Below
  BY <1>1, WFMin
<1>3. \A j, k \in S : <<j, k>> \notin Below => k <= j
  OBVIOUS
<1> QED
  BY <1>2, <1>3

----------------------------------------------------------------------------
(* The heap.                                                               *)

\* Each node is at one place of the heap.
Arranges(heap, nodes) ==
  /\ heap \in Seq(nodes)
  /\ \A node \in nodes : \E k \in DOMAIN heap : heap[k] = node
  /\ \A j, k \in DOMAIN heap : heap[j] = heap[k] => j = k

LEMMA SwapArranges ==
  ASSUME NEW nodes, NEW heap, Arranges(heap, nodes),
         NEW p \in 0 .. Len(heap) - 1, NEW q \in 0 .. Len(heap) - 1
  PROVE  Arranges(Swapped(heap, p, q), nodes) /\ Len(Swapped(heap, p, q)) = Len(heap)
<1>1. heap \in Seq(nodes) /\ Len(heap) \in Nat /\ DOMAIN heap = 1 .. Len(heap)
  BY DEF Arranges
<1>2. PICK h : h = Swapped(heap, p, q)
  OBVIOUS
<1>3. p + 1 \in 1 .. Len(heap) /\ q + 1 \in 1 .. Len(heap)
  BY <1>1
<1>4. PICK a, b : a = p + 1 /\ b = q + 1
  OBVIOUS
<1>5. h = [heap EXCEPT ![a] = heap[b], ![b] = heap[a]]
  BY <1>2, <1>4 DEF Swapped
<1>6. a \in DOMAIN heap /\ b \in DOMAIN heap
  BY <1>1, <1>3, <1>4
<1>7. \A k \in DOMAIN heap : heap[k] \in nodes
  BY <1>1
<1>8. DOMAIN h = DOMAIN heap
  BY <1>5
<1>9. h[a] = heap[b] /\ h[b] = heap[a]
      /\ \A k \in DOMAIN heap : k # a /\ k # b => h[k] = heap[k]
  BY ONLY <1>5, <1>6
<1>10. h \in Seq(nodes)
  <2>1. \A k \in 1 .. Len(heap) : h[k] \in nodes
    BY <1>1, <1>6, <1>7, <1>9
  <2>2. h = [k \in 1 .. Len(heap) |-> h[k]]
    BY <1>1, <1>5
  <2> QED
    BY <1>1, <2>1, <2>2, IsASeq
<1>11. Len(h) = Len(heap)
  BY <1>1, <1>8, <1>10
<1>12. \A node \in nodes : \E k \in DOMAIN h : h[k] = node
  BY <1>6, <1>8, <1>9 DEF Arranges
<1>13. \A j, k \in DOMAIN h : h[j] = h[k] => j = k
  BY <1>6, <1>8, <1>9 DEF Arranges
<1> QED
  BY <1>2, <1>10, <1>11, <1>12, <1>13 DEF Arranges


\* f is first, and then again and again what T makes of the step and of it.
Iterates(f, T, first, n) ==
  /\ f = [i \in 0 .. n |-> f[i]]
  /\ f[0] = first
  /\ \A i \in 1 .. n : f[i] = T[i][f[i - 1]]

LEMMA Iteration ==
  ASSUME NEW T, NEW first, NEW n \in Nat
  PROVE  \E f : Iterates(f, T, first, n)
<1> DEFINE S == {m \in Nat : ~\E f : Iterates(f, T, first, m)}
<1>1. ASSUME S # {} PROVE FALSE
  <2>1. PICK m \in S : \A j \in S : m <= j
    BY <1>1, LeastNumber
  <2>2. m # 0
    <3>1. Iterates([i \in 0 .. 0 |-> first], T, first, 0)
      BY DEF Iterates
    <3> QED
      BY <2>1, <3>1
  <2>3. m - 1 \in Nat /\ m - 1 \notin S
    BY <2>1, <2>2
  <2>4. PICK f : Iterates(f, T, first, m - 1)
    BY <2>3
  <2> DEFINE g == [i \in 0 .. m |-> IF i = m THEN T[m][f[m - 1]] ELSE f[i]]
  <2>5. g = [i \in 0 .. m |-> g[i]] /\ g[0] = first
    BY <2>2, <2>4 DEF Iterates
  <2>6. ASSUME NEW i \in 1 .. m PROVE g[i] = T[i][g[i - 1]]
    <3>1. i - 1 \in 0 .. m /\ i - 1 # m
      OBVIOUS
    <3>2. CASE i = m
      BY <3>1, <3>2
    <3>3. CASE i # m
      <4>1. i \in 1 .. m - 1
        BY <3>3
      <4>2. f[i] = T[i][f[i - 1]]
        BY <2>4, <4>1 DEF Iterates
      <4>3. g[i] = f[i] /\ g[i - 1] = f[i - 1]
        BY <3>1, <3>3
      <4> QED
        BY <4>2, <4>3
    <3> QED
      BY <3>2, <3>3
  <2>7. Iterates(g, T, first, m)
    BY <2>5, <2>6 DEF Iterates
  <2> QED
    BY <2>1, <2>7
<1> QED
  BY <1>1

\* Where a node may be on its way through a heap of l nodes.
Halts(nodes, l) ==
  {s \in [heap : Seq(nodes), at : 0 .. l - 1] : Arranges(s.heap, nodes) /\ Len(s.heap) = l}

LEMMA WayArranges ==
  ASSUME NEW nodes, NEW l \in Nat, NEW n \in Nat, NEW step,
         step[0] \in Halts(nodes, l),
         \A i \in 1 .. n : step[i - 1] \in Halts(nodes, l) =>
           \E q \in 0 .. l - 1 :
             step[i] = [heap |-> Swapped(step[i - 1].heap, step[i - 1].at, q), at |-> q]
  PROVE  \A i \in 0 .. n : step[i] \in Halts(nodes, l)
<1> DEFINE S == {i \in Nat : i <= n /\ step[i] \notin Halts(nodes, l)}
<1> SUFFICES ASSUME S # {} PROVE FALSE
  OBVIOUS
<1>1. PICK i \in S : \A j \in S : i <= j
  BY LeastNumber
<1>2. i # 0
  BY <1>1
<1>3. i - 1 \in Nat /\ i \in 1 .. n /\ step[i - 1] \in Halts(nodes, l)
  BY <1>1, <1>2
<1>4. PICK q \in 0 .. l - 1 :
        step[i] = [heap |-> Swapped(step[i - 1].heap, step[i - 1].at, q), at |-> q]
  BY <1>3
<1>5. PICK h, p : h = step[i - 1].heap /\ p = step[i - 1].at
  OBVIOUS
<1>6. Arranges(h, nodes) /\ Len(h) = l /\ p \in 0 .. l - 1
  BY <1>3, <1>5 DEF Halts
<1>7. Arranges(Swapped(h, p, q), nodes) /\ Len(Swapped(h, p, q)) = l
  BY <1>6, SwapArranges
<1>8. Swapped(h, p, q) \in Seq(nodes)
  BY <1>7 DEF Arranges
<1>9. step[i] = [heap |-> Swapped(h, p, q), at |-> q]
  BY <1>4, <1>5
<1>10. step[i] \in Halts(nodes, l)
  BY <1>7, <1>8, <1>9 DEF Halts
<1> QED
  BY <1>1, <1>10

\* What Sifted makes of a heap, step by step.
TravelsUp(step, heap, p) ==
  /\ step[0] = [heap |-> heap, at |-> p]
  /\ \A i \in 1 .. Len(heap) :
       step[i] = [heap |-> Swapped(step[i - 1].heap, step[i - 1].at,
                                   Up(step[i - 1].heap, step[i - 1].at)),
                  at |-> Up(step[i - 1].heap, step[i - 1].at)]

TravelsDown(step, heap, p) ==
  /\ step[0] = [heap |-> heap, at |-> p]
  /\ \A i \in 1 .. Len(heap) :
       step[i] = [heap |-> Swapped(step[i - 1].heap, step[i - 1].at,
                                   Down(step[i - 1].heap, step[i - 1].at)),
                  at |-> Down(step[i - 1].heap, step[i - 1].at)]

LEMMA UpInside ==
  ASSUME NEW heap, NEW l \in Nat, NEW p \in 0 .. l - 1
  PROVE  Up(heap, p) \in 0 .. l - 1
BY DEF Up, parent

LEMMA DownInside ==
  ASSUME NEW heap, NEW l \in Nat, Len(heap) = l, NEW p \in 0 .. l - 1
  PROVE  Down(heap, p) \in 0 .. l - 1
<1>1. CASE l > 1 /\ p <= (l - 2) \div 2
  <2>1. 2 * p + 1 <= l - 1
    BY <1>1
  <2>2. selected(heap, p) \in 0 .. l - 1
    BY <2>1 DEF selected
  <2> QED
    BY <2>2 DEF Down
<1>2. CASE ~(l > 1 /\ p <= (l - 2) \div 2)
  BY <1>2 DEF Down
<1> QED
  BY <1>1, <1>2

LEMMA SiftUpWay ==
  ASSUME NEW nodes, NEW heap, Arranges(heap, nodes), NEW p \in 0 .. Len(heap) - 1
  PROVE  \E step : /\ TravelsUp(step, heap, p)
                   /\ \A i \in 0 .. Len(heap) : step[i] \in Halts(nodes, Len(heap))
                   /\ SiftUp(heap, p) = step[Len(heap)].heap
<1> DEFINE Way(f) == [n \in 0 .. Len(heap) |->
                        IF n = 0 THEN [heap |-> heap, at |-> p]
                        ELSE LET s == f[n - 1]
                                 q == Up(s.heap, s.at)
                             IN  [heap |-> Swapped(s.heap, s.at, q), at |-> q]]
           step == CHOOSE f : f = Way(f)
           T == [i \in 1 .. Len(heap) |-> [s \in Halts(nodes, Len(heap)) |->
                   [heap |-> Swapped(s.heap, s.at, Up(s.heap, s.at)),
                    at |-> Up(s.heap, s.at)]]]
<1>1. heap \in Seq(nodes) /\ Len(heap) \in Nat
  BY DEF Arranges
<1>2. [heap |-> heap, at |-> p] \in Halts(nodes, Len(heap))
  BY <1>1 DEF Halts
<1>3. \A s \in Halts(nodes, Len(heap)) : Up(s.heap, s.at) \in 0 .. Len(heap) - 1
  BY <1>1, UpInside DEF Halts
<1>4. \E f : f = Way(f)
  <2>1. PICK f : Iterates(f, T, [heap |-> heap, at |-> p], Len(heap))
    BY <1>1, Iteration
  <2>2. /\ f = [i \in 0 .. Len(heap) |-> f[i]]
        /\ f[0] = [heap |-> heap, at |-> p]
        /\ \A i \in 1 .. Len(heap) : f[i] = T[i][f[i - 1]]
    BY <2>1 DEF Iterates
  <2>3. \A i \in 0 .. Len(heap) : f[i] \in Halts(nodes, Len(heap))
    <3>1. \A i \in 1 .. Len(heap) : f[i - 1] \in Halts(nodes, Len(heap)) =>
            \E q \in 0 .. Len(heap) - 1 :
              f[i] = [heap |-> Swapped(f[i - 1].heap, f[i - 1].at, q), at |-> q]
      BY <1>3, <2>2
    <3> QED
      BY <1>1, <1>2, <2>2, <3>1, WayArranges
  <2>4. ASSUME NEW i \in 0 .. Len(heap) PROVE f[i] = Way(f)[i]
    <3>1. CASE i = 0
      BY <2>2, <3>1
    <3>2. CASE i # 0
      <4>1. i \in 1 .. Len(heap) /\ i - 1 \in 0 .. Len(heap)
        BY <1>1, <3>2
      <4> QED
        BY <2>2, <2>3, <3>2, <4>1
    <3> QED
      BY <3>1, <3>2
  <2>5. f = Way(f)
    BY <2>2, <2>4
  <2> QED
    BY <2>5
<1>5. step = Way(step)
  BY <1>4
<1>6. SiftUp(heap, p) = step[Len(heap)].heap
  BY DEF SiftUp, Sifted
<1> HIDE DEF step
<1>7. /\ step[0] = [heap |-> heap, at |-> p]
      /\ \A i \in 1 .. Len(heap) :
           step[i] = [heap |-> Swapped(step[i - 1].heap, step[i - 1].at,
                                       Up(step[i - 1].heap, step[i - 1].at)),
                      at |-> Up(step[i - 1].heap, step[i - 1].at)]
  BY <1>1, <1>5
<1>8. \A i \in 0 .. Len(heap) : step[i] \in Halts(nodes, Len(heap))
  <2>1. \A i \in 1 .. Len(heap) : step[i - 1] \in Halts(nodes, Len(heap)) =>
          \E q \in 0 .. Len(heap) - 1 :
            step[i] = [heap |-> Swapped(step[i - 1].heap, step[i - 1].at, q), at |-> q]
    BY <1>3, <1>7
  <2> QED
    BY <1>1, <1>2, <1>7, <2>1, WayArranges
<1> QED
  BY <1>6, <1>7, <1>8 DEF TravelsUp

LEMMA SiftUpArranges ==
  ASSUME NEW nodes, NEW heap, Arranges(heap, nodes), NEW p \in 0 .. Len(heap) - 1
  PROVE  Arranges(SiftUp(heap, p), nodes) /\ Len(SiftUp(heap, p)) = Len(heap)
<1>1. Len(heap) \in Nat
  BY DEF Arranges
<1>2. PICK step : /\ TravelsUp(step, heap, p)
                  /\ \A i \in 0 .. Len(heap) : step[i] \in Halts(nodes, Len(heap))
                  /\ SiftUp(heap, p) = step[Len(heap)].heap
  BY SiftUpWay
<1> QED
  BY <1>1, <1>2 DEF Halts

LEMMA SiftDownWay ==
  ASSUME NEW nodes, NEW heap, Arranges(heap, nodes), NEW p \in 0 .. Len(heap) - 1
  PROVE  \E step : /\ TravelsDown(step, heap, p)
                   /\ \A i \in 0 .. Len(heap) : step[i] \in Halts(nodes, Len(heap))
                   /\ SiftDown(heap, p) = step[Len(heap)].heap
<1> DEFINE Way(f) == [n \in 0 .. Len(heap) |->
                        IF n = 0 THEN [heap |-> heap, at |-> p]
                        ELSE LET s == f[n - 1]
                                 q == Down(s.heap, s.at)
                             IN  [heap |-> Swapped(s.heap, s.at, q), at |-> q]]
           step == CHOOSE f : f = Way(f)
           T == [i \in 1 .. Len(heap) |-> [s \in Halts(nodes, Len(heap)) |->
                   [heap |-> Swapped(s.heap, s.at, Down(s.heap, s.at)),
                    at |-> Down(s.heap, s.at)]]]
<1>1. heap \in Seq(nodes) /\ Len(heap) \in Nat
  BY DEF Arranges
<1>2. [heap |-> heap, at |-> p] \in Halts(nodes, Len(heap))
  BY <1>1 DEF Halts
<1>3. \A s \in Halts(nodes, Len(heap)) : Down(s.heap, s.at) \in 0 .. Len(heap) - 1
  BY <1>1, DownInside DEF Halts
<1>4. \E f : f = Way(f)
  <2>1. PICK f : Iterates(f, T, [heap |-> heap, at |-> p], Len(heap))
    BY <1>1, Iteration
  <2>2. /\ f = [i \in 0 .. Len(heap) |-> f[i]]
        /\ f[0] = [heap |-> heap, at |-> p]
        /\ \A i \in 1 .. Len(heap) : f[i] = T[i][f[i - 1]]
    BY <2>1 DEF Iterates
  <2>3. \A i \in 0 .. Len(heap) : f[i] \in Halts(nodes, Len(heap))
    <3>1. \A i \in 1 .. Len(heap) : f[i - 1] \in Halts(nodes, Len(heap)) =>
            \E q \in 0 .. Len(heap) - 1 :
              f[i] = [heap |-> Swapped(f[i - 1].heap, f[i - 1].at, q), at |-> q]
      BY <1>3, <2>2
    <3> QED
      BY <1>1, <1>2, <2>2, <3>1, WayArranges
  <2>4. ASSUME NEW i \in 0 .. Len(heap) PROVE f[i] = Way(f)[i]
    <3>1. CASE i = 0
      BY <2>2, <3>1
    <3>2. CASE i # 0
      <4>1. i \in 1 .. Len(heap) /\ i - 1 \in 0 .. Len(heap)
        BY <1>1, <3>2
      <4> QED
        BY <2>2, <2>3, <3>2, <4>1
    <3> QED
      BY <3>1, <3>2
  <2>5. f = Way(f)
    BY <2>2, <2>4
  <2> QED
    BY <2>5
<1>5. step = Way(step)
  BY <1>4
<1>6. SiftDown(heap, p) = step[Len(heap)].heap
  BY DEF SiftDown, Sifted
<1> HIDE DEF step
<1>7. /\ step[0] = [heap |-> heap, at |-> p]
      /\ \A i \in 1 .. Len(heap) :
           step[i] = [heap |-> Swapped(step[i - 1].heap, step[i - 1].at,
                                       Down(step[i - 1].heap, step[i - 1].at)),
                      at |-> Down(step[i - 1].heap, step[i - 1].at)]
  BY <1>1, <1>5
<1>8. \A i \in 0 .. Len(heap) : step[i] \in Halts(nodes, Len(heap))
  <2>1. \A i \in 1 .. Len(heap) : step[i - 1] \in Halts(nodes, Len(heap)) =>
          \E q \in 0 .. Len(heap) - 1 :
            step[i] = [heap |-> Swapped(step[i - 1].heap, step[i - 1].at, q), at |-> q]
    BY <1>3, <1>7
  <2> QED
    BY <1>1, <1>2, <1>7, <2>1, WayArranges
<1> QED
  BY <1>6, <1>7, <1>8 DEF TravelsDown

LEMMA SiftDownArranges ==
  ASSUME NEW nodes, NEW heap, Arranges(heap, nodes), NEW p \in 0 .. Len(heap) - 1
  PROVE  Arranges(SiftDown(heap, p), nodes) /\ Len(SiftDown(heap, p)) = Len(heap)
<1>1. Len(heap) \in Nat
  BY DEF Arranges
<1>2. PICK step : /\ TravelsDown(step, heap, p)
                  /\ \A i \in 0 .. Len(heap) : step[i] \in Halts(nodes, Len(heap))
                  /\ SiftDown(heap, p) = step[Len(heap)].heap
  BY SiftDownWay
<1> QED
  BY <1>1, <1>2 DEF Halts

LEMMA AppendArranges ==
  ASSUME NEW nodes, NEW heap, Arranges(heap, nodes), NEW node, node \notin nodes
  PROVE  Arranges(Append(heap, node), nodes \union {node})
<1> DEFINE more == nodes \union {node}
           longer == Append(heap, node)
<1>1. heap \in Seq(nodes) /\ heap \in Seq(more) /\ Len(heap) \in Nat
  BY DEF Arranges
<1>2. /\ longer \in Seq(more) /\ Len(longer) = Len(heap) + 1
      /\ \A k \in 1 .. Len(heap) : longer[k] = heap[k]
      /\ longer[Len(heap) + 1] = node
  BY <1>1, AppendProperties
<1>3. DOMAIN longer = 1 .. Len(heap) + 1 /\ DOMAIN heap = 1 .. Len(heap)
  BY <1>1, <1>2
<1>4. \A k \in 1 .. Len(heap) : heap[k] # node
  BY <1>1
<1> HIDE DEF longer
<1>5. \A n \in more : \E k \in DOMAIN longer : longer[k] = n
  BY <1>1, <1>2, <1>3 DEF Arranges
<1>6. \A j, k \in DOMAIN longer : longer[j] = longer[k] => j = k
  BY <1>1, <1>2, <1>3, <1>4 DEF Arranges
<1>7. Arranges(longer, more)
  BY <1>2, <1>5, <1>6 DEF Arranges
<1> QED
  BY <1>7 DEF longer

LEMMA PushArranges ==
  ASSUME NEW nodes, NEW heap, Arranges(heap, nodes), NEW node, node \notin nodes
  PROVE  Arranges(Push(heap, node), nodes \union {node})
<1>1. Arranges(Append(heap, node), nodes \union {node})
  BY AppendArranges
<1>2. Len(heap) \in Nat /\ Len(Append(heap, node)) = Len(heap) + 1
  BY AppendProperties DEF Arranges
<1>3. Len(heap) \in 0 .. Len(Append(heap, node)) - 1
  BY <1>2
<1> QED
  BY <1>1, <1>3, SiftUpArranges DEF Push

\* Before it is sifted down, the last node is where the first was.
LEMMA MovedArranges ==
  ASSUME NEW nodes, NEW heap, Arranges(heap, nodes), Len(heap) # 0, Len(heap) # 1
  PROVE  \E moved : /\ Arranges(moved, nodes \ {Head(heap)})
                    /\ Popped(heap) = SiftDown(moved, 0)
                    /\ Len(moved) = Len(heap) - 1
                    /\ \A k \in 2 .. Len(heap) - 1 : moved[k] = heap[k]
<1> DEFINE fewer == nodes \ {Head(heap)}
<1>1. heap \in Seq(nodes) /\ Len(heap) \in Nat /\ Len(heap) > 0
      /\ DOMAIN heap = 1 .. Len(heap)
  BY DEF Arranges
<1>2. Head(heap) = heap[1] /\ heap[1] \in nodes
  BY <1>1
<1>3. PICK l : l = Len(heap) - 1
  OBVIOUS
<1>4. l \in Nat /\ l > 0 /\ Len(heap) = l + 1
  BY <1>1, <1>3
<1> DEFINE front == [i \in 1 .. l |-> heap[i]]
           moved == [front EXCEPT ![1] = heap[Len(heap)]]
<1>5. SubSeq(heap, 1, Len(heap) - 1) = front
  BY <1>3
<1>6. heap[Len(heap)] = heap[l + 1]
  BY <1>4
<1>7. DOMAIN moved = 1 .. l /\ moved[1] = heap[l + 1]
      /\ \A i \in 1 .. l : i # 1 => moved[i] = heap[i]
  BY <1>4, <1>6
<1>8. moved = [i \in 1 .. l |-> moved[i]]
  OBVIOUS
<1>9. Popped(heap) = SiftDown(moved, 0)
  BY <1>5 DEF Popped
<1> HIDE DEF moved
<1>10. /\ 1 \in DOMAIN heap /\ l + 1 \in DOMAIN heap
       /\ \A i \in 1 .. l : i \in DOMAIN heap
  BY <1>1, <1>4
<1>11. \A i \in DOMAIN heap : i # 1 => heap[i] \in fewer
  BY <1>1, <1>2, <1>10 DEF Arranges
<1>12. \A i \in 1 .. l : moved[i] \in fewer
  BY <1>4, <1>7, <1>10, <1>11
<1>13. moved \in Seq(fewer) /\ Len(moved) = l
  BY <1>4, <1>8, <1>12, IsASeq
<1>14. ASSUME NEW n \in fewer PROVE \E k \in DOMAIN moved : moved[k] = n
  <2>1. PICK k \in DOMAIN heap : heap[k] = n
    BY DEF Arranges
  <2>2. k # 1
    BY <1>2, <2>1
  <2>3. CASE k = l + 1
    BY <1>4, <1>7, <2>1, <2>3
  <2>4. CASE k # l + 1
    <3>1. k \in 1 .. l
      BY <1>1, <1>4, <2>4
    <3> QED
      BY <1>7, <2>1, <2>2, <3>1
  <2> QED
    BY <2>3, <2>4
<1>15. ASSUME NEW j \in DOMAIN moved, NEW k \in DOMAIN moved, moved[j] = moved[k]
       PROVE  j = k
  <2>1. \A i \in 1 .. l : i # l + 1
    BY <1>4
  <2> QED
    BY <1>7, <1>10, <1>15, <2>1 DEF Arranges
<1>16. Arranges(moved, fewer)
  BY <1>13, <1>14, <1>15 DEF Arranges
<1>17. \A k \in 2 .. Len(heap) - 1 : moved[k] = heap[k]
  BY <1>4, <1>7
<1> QED
  BY <1>4, <1>9, <1>13, <1>16, <1>17

LEMMA PopArranges ==
  ASSUME NEW nodes, NEW heap, Arranges(heap, nodes), heap # <<>>
  PROVE  Head(heap) \in nodes /\ Arranges(Popped(heap), nodes \ {Head(heap)})
<1>1. heap \in Seq(nodes) /\ Len(heap) \in Nat /\ Len(heap) # 0
      /\ DOMAIN heap = 1 .. Len(heap)
  BY DEF Arranges
<1>2. Head(heap) = heap[1] /\ heap[1] \in nodes
  BY <1>1
<1>3. CASE Len(heap) = 1
  <2>1. nodes \ {Head(heap)} = {}
    BY <1>1, <1>2, <1>3 DEF Arranges
  <2>2. Arranges(<<>>, {})
    BY DEF Arranges
  <2> QED
    BY <1>2, <1>3, <2>1, <2>2 DEF Popped
<1>4. CASE Len(heap) # 1
  <2>1. PICK moved : /\ Arranges(moved, nodes \ {Head(heap)})
                     /\ Popped(heap) = SiftDown(moved, 0) /\ Len(moved) = Len(heap) - 1
    BY <1>1, <1>4, MovedArranges
  <2>2. 0 \in 0 .. Len(moved) - 1
    BY <1>1, <1>4, <2>1
  <2> QED
    BY <1>2, <2>1, <2>2, SiftDownArranges
<1> QED
  BY <1>3, <1>4

----------------------------------------------------------------------------
(* The order of the heap.                                                  *)

\* Before is a strict total order of the records.
OrdersRecords(S) ==
  /\ \A x \in S : ~Before(x, x)
  /\ \A x, y \in S : x # y => Before(x, y) \/ Before(y, x)
  /\ \A x, y, z \in S : Before(x, y) /\ Before(y, z) => Before(x, z)

NodesOf(S) == [record : S, cursor : Nat]

Lighter(m, n) ==
  \/ Before(m.record, n.record)
  \/ m.record = n.record /\ m.cursor < n.cursor

LEMMA LighterOrders ==
  ASSUME NEW S, OrdersRecords(S)
  PROVE  /\ \A a \in NodesOf(S) : ~Lighter(a, a)
         /\ \A a, b \in NodesOf(S) : Lighter(a, b) => ~Lighter(b, a)
         /\ \A a, b, c \in NodesOf(S) : ~Lighter(b, a) /\ ~Lighter(c, b) => ~Lighter(c, a)
<1>1. \A a \in NodesOf(S) : a.record \in S /\ a.cursor \in Nat
  BY DEF NodesOf
<1>2. /\ \A x \in S : ~Before(x, x)
      /\ \A x, y \in S : x # y => Before(x, y) \/ Before(y, x)
      /\ \A x, y, z \in S : Before(x, y) /\ Before(y, z) => Before(x, z)
  BY DEF OrdersRecords
<1>3. \A a \in NodesOf(S) : ~Lighter(a, a)
  BY <1>1, <1>2 DEF Lighter
<1>4. \A a, b \in NodesOf(S) : Lighter(a, b) => ~Lighter(b, a)
  BY <1>1, <1>2 DEF Lighter
<1>5. ASSUME NEW a \in NodesOf(S), NEW b \in NodesOf(S), NEW c \in NodesOf(S),
             ~Lighter(b, a), ~Lighter(c, b)
      PROVE  ~Lighter(c, a)
  <2>1. PICK x, y, z : x = a.record /\ y = b.record /\ z = c.record
    OBVIOUS
  <2>2. x \in S /\ y \in S /\ z \in S
    BY <1>1, <2>1
  <2>3. ~Before(y, x) /\ ~Before(z, y)
    BY <1>5, <2>1 DEF Lighter
  <2>4. ~Before(z, x)
    BY <1>2, <2>2, <2>3
  <2>5. z = x => y = x
    BY <1>2, <2>2, <2>3
  <2> QED
    BY <1>1, <1>5, <2>1, <2>4, <2>5 DEF Lighter
<1> QED
  BY <1>3, <1>4, <1>5

\* No node is lighter than its parent: nowhere, or but at p, or but below p.
Heaped(heap) ==
  \A q \in 1 .. Len(heap) - 1 : ~less(heap, q, parent(q))

HeapedButAt(heap, p) ==
  /\ \A q \in 1 .. Len(heap) - 1 : q # p => ~less(heap, q, parent(q))
  /\ p # 0 => \A q \in 1 .. Len(heap) - 1 : parent(q) = p => ~less(heap, q, parent(p))

HeapedButBelow(heap, p) ==
  /\ \A q \in 1 .. Len(heap) - 1 : parent(q) # p => ~less(heap, q, parent(q))
  /\ p # 0 => \A q \in 1 .. Len(heap) - 1 : parent(q) = p => ~less(heap, q, parent(p))

LEMMA Parents ==
  /\ \A q \in Nat : q # 0 => parent(q) \in Nat /\ parent(q) < q
  /\ \A p, q \in Nat : q # 0 => (parent(q) = p <=> q = 2 * p + 1 \/ q = 2 * p + 2)
BY DEF parent

\* The nodes of a heap, by their positions.
LEMMA HeapNodes ==
  ASSUME NEW N, NEW heap \in Seq(N), NEW p \in 0 .. Len(heap) - 1,
         NEW r \in 0 .. Len(heap) - 1
  PROVE  /\ Swapped(heap, p, r) \in Seq(N) /\ Len(Swapped(heap, p, r)) = Len(heap)
         /\ Swapped(heap, p, r)[p + 1] = heap[r + 1]
         /\ Swapped(heap, p, r)[r + 1] = heap[p + 1]
         /\ \A q \in 0 .. Len(heap) - 1 :
              /\ heap[q + 1] \in N
              /\ q # p /\ q # r => Swapped(heap, p, r)[q + 1] = heap[q + 1]
         /\ p = r => Swapped(heap, p, r) = heap
<1>1. PICK l, a, b, h : l = Len(heap) /\ a = p + 1 /\ b = r + 1 /\ h = Swapped(heap, p, r)
  OBVIOUS
<1>2. l \in Nat /\ DOMAIN heap = 1 .. l /\ a \in 1 .. l /\ b \in 1 .. l
  BY <1>1
<1>3. h = [heap EXCEPT ![a] = heap[b], ![b] = heap[a]]
  BY <1>1 DEF Swapped
<1>4. /\ DOMAIN h = 1 .. l /\ h[a] = heap[b] /\ h[b] = heap[a]
      /\ \A k \in 1 .. l : k # a /\ k # b => h[k] = heap[k]
  BY <1>2, <1>3
<1>5. \A k \in 1 .. l : heap[k] \in N
  BY <1>2
<1>6. \A k \in 1 .. l : h[k] \in N
  BY <1>2, <1>4, <1>5
<1>7. h = [k \in 1 .. l |-> h[k]]
  BY <1>2, <1>3
<1>8. h \in Seq(N) /\ Len(h) = l
  BY ONLY <1>2, <1>6, <1>7, IsASeq
<1>9. ASSUME NEW q \in 0 .. l - 1
      PROVE  heap[q + 1] \in N /\ (q # p /\ q # r => h[q + 1] = heap[q + 1])
  <2>1. q + 1 \in 1 .. l /\ (q # p => q + 1 # a) /\ (q # r => q + 1 # b)
    BY <1>1, <1>2
  <2> QED
    BY <1>4, <1>5, <2>1
<1>10. ASSUME p = r PROVE h = heap
  <2>1. \A k \in 1 .. l : h[k] = heap[k]
    BY <1>1, <1>4, <1>10
  <2>2. heap = [k \in 1 .. l |-> heap[k]]
    BY <1>2
  <2> QED
    BY <1>7, <2>1, <2>2
<1> QED
  BY <1>1, <1>4, <1>8, <1>9, <1>10

LEMMA UpStep ==
  ASSUME NEW S, OrdersRecords(S), NEW heap \in Seq(NodesOf(S)), NEW l, l = Len(heap),
         NEW p \in 0 .. l - 1, HeapedButAt(heap, p), NEW r, r = Up(heap, p)
  PROVE  /\ r = p => Heaped(heap)
         /\ r # p => r \in 0 .. l - 1 /\ r < p /\ HeapedButAt(Swapped(heap, p, r), r)
<1> DEFINE N == NodesOf(S)
           Less(a, b) == Lighter(heap[a + 1], heap[b + 1])
<1>1. l \in Nat
  OBVIOUS
<1>2. \A a, b : less(heap, a, b) <=> Less(a, b)
  BY DEF less, Lighter
<1>3. CASE r = p
  <2>1. p = 0 \/ ~Less(p, parent(p))
    <3>1. p # 0 => parent(p) # p
      BY <1>1, Parents
    <3> QED
      BY <1>2, <1>3, <3>1 DEF Up
  <2> QED
    BY <1>1, <1>2, <1>3, <2>1 DEF HeapedButAt, Heaped
<1>4. CASE r # p
  <2>1. p # 0 /\ r = parent(p) /\ Less(p, r)
    BY <1>2, <1>4 DEF Up
  <2>2. r \in 0 .. l - 1 /\ r < p
    BY <1>1, <2>1, Parents
  <2>3. PICK h : h = Swapped(heap, p, r)
    OBVIOUS
  <2>4. /\ h \in Seq(N) /\ Len(h) = l /\ h[p + 1] = heap[r + 1] /\ h[r + 1] = heap[p + 1]
        /\ \A q \in 0 .. l - 1 : heap[q + 1] \in N
        /\ \A q \in 0 .. l - 1 : q # p /\ q # r => h[q + 1] = heap[q + 1]
    BY <2>2, <2>3, HeapNodes
  <2>5. /\ \A a, b \in N : Lighter(a, b) => ~Lighter(b, a)
        /\ \A a, b, c \in N : ~Lighter(b, a) /\ ~Lighter(c, b) => ~Lighter(c, a)
    BY LighterOrders
  <2>6. \A a, b : less(h, a, b) <=> Lighter(h[a + 1], h[b + 1])
    BY DEF less, Lighter
  <2>7. /\ \A q \in 1 .. l - 1 : q # p => ~Less(q, parent(q))
        /\ \A q \in 1 .. l - 1 : parent(q) = p => ~Less(q, r)
    BY <1>2, <2>1 DEF HeapedButAt
  <2> HIDE DEF N
  <2>8. ASSUME NEW q \in 1 .. l - 1, q # r
        PROVE  ~Lighter(h[q + 1], h[parent(q) + 1])
    <3>1. q \in Nat /\ q \in 0 .. l - 1 /\ parent(q) \in 0 .. l - 1 /\ parent(q) < q
      BY <1>1, Parents
    <3>2. CASE q = p
      BY <2>1, <2>2, <2>4, <2>5, <3>2
    <3>3. CASE q # p /\ parent(q) = p
      <4>1. ~Less(q, r)
        BY <2>7, <3>3
      <4> QED
        BY <2>4, <2>8, <3>1, <3>3, <4>1
    <3>4. CASE q # p /\ parent(q) = r
      <4>1. ~Less(q, r) /\ ~Less(r, p)
        BY <2>1, <2>2, <2>4, <2>5, <2>7, <3>4
      <4>2. ~Less(q, p)
        BY <2>2, <2>4, <2>5, <3>1, <4>1
      <4> QED
        BY <2>4, <2>8, <3>1, <3>4, <4>2
    <3>5. CASE q # p /\ parent(q) # p /\ parent(q) # r
      <4>1. ~Less(q, parent(q))
        BY <2>7, <3>5
      <4> QED
        BY <2>4, <2>8, <3>1, <3>5, <4>1
    <3> QED
      BY <3>2, <3>3, <3>4, <3>5
  <2>9. ASSUME r # 0, NEW q \in 1 .. l - 1, parent(q) = r
        PROVE  ~Lighter(h[q + 1], h[parent(r) + 1])
    <3>1. PICK g : g = parent(r)
      OBVIOUS
    <3>2. g \in 0 .. l - 1 /\ g < r /\ g # p /\ q \in 0 .. l - 1 /\ r < q /\ r \in 1 .. l - 1
      BY <1>1, <2>2, <2>9, <3>1, Parents
    <3>3. ~Less(r, g)
      BY <2>2, <2>7, <3>1, <3>2
    <3>4. h[g + 1] = heap[g + 1]
      BY <2>4, <3>2
    <3>5. CASE q = p
      BY <2>4, <3>1, <3>3, <3>4, <3>5
    <3>6. CASE q # p
      <4>1. ~Less(q, r)
        BY <2>7, <2>9, <3>6
      <4>2. ~Less(q, g)
        BY <2>2, <2>4, <2>5, <3>2, <3>3, <4>1
      <4>3. q # r /\ q \in 0 .. l - 1
        BY <2>2, <3>2
      <4>4. h[q + 1] = heap[q + 1]
        BY <2>4, <3>6, <4>3
      <4> QED
        BY <3>1, <3>4, <4>2, <4>4
    <3> QED
      BY <3>5, <3>6
  <2>10. HeapedButAt(h, r)
    BY <2>4, <2>6, <2>8, <2>9 DEF HeapedButAt
  <2> QED
    BY <1>4, <2>2, <2>3, <2>10
<1> QED
  BY <1>3, <1>4

\* The lesser child of a node, if it has any.
LEMMA SelectedChild ==
  ASSUME NEW S, OrdersRecords(S), NEW heap \in Seq(NodesOf(S)), NEW l, l = Len(heap),
         NEW p \in 0 .. l - 1
  PROVE  /\ l > 1 /\ p <= (l - 2) \div 2 =>
              /\ selected(heap, p) \in 1 .. l - 1 /\ parent(selected(heap, p)) = p
              /\ \A q \in 1 .. l - 1 : parent(q) = p => ~less(heap, q, selected(heap, p))
         /\ ~(l > 1 /\ p <= (l - 2) \div 2) => \A q \in 1 .. l - 1 : parent(q) # p
<1> DEFINE N == NodesOf(S)
           Less(a, b) == Lighter(heap[a + 1], heap[b + 1])
<1>1. l \in Nat /\ p \in Nat
  OBVIOUS
<1>2. \A a, b : less(heap, a, b) <=> Less(a, b)
  BY DEF less, Lighter
<1>3. \A q \in 1 .. l - 1 : parent(q) = p <=> q = 2 * p + 1 \/ q = 2 * p + 2
  BY <1>1, Parents
<1>4. l > 1 /\ p <= (l - 2) \div 2 <=> 2 * p + 1 <= l - 1
  BY <1>1
<1>5. CASE 2 * p + 1 <= l - 1
  <2>1. PICK left, s : left = 2 * p + 1 /\ s = selected(heap, p)
    OBVIOUS
  <2>2. s = IF left + 1 < l /\ Less(left + 1, left) THEN left + 1 ELSE left
    BY <1>2, <2>1 DEF selected
  <2>3. left \in 1 .. l - 1 /\ s \in 1 .. l - 1 /\ (s = left \/ s = left + 1)
    BY <1>1, <1>5, <2>1, <2>2
  <2>4. parent(s) = p
    BY <1>1, <1>3, <2>1, <2>3
  <2>5. \A q \in 0 .. l - 1 : heap[q + 1] \in N
    <3>1. DOMAIN heap = 1 .. l
      OBVIOUS
    <3>2. \A q \in 0 .. l - 1 : q + 1 \in 1 .. l
      BY <1>1
    <3> QED
      BY <3>1, <3>2
  <2>6. /\ \A a \in N : ~Lighter(a, a)
        /\ \A a, b \in N : Lighter(a, b) => ~Lighter(b, a)
    BY LighterOrders
  <2> HIDE DEF N
  <2>7. ASSUME NEW q \in 1 .. l - 1, parent(q) = p PROVE ~Less(q, s)
    <3>1. (q = left \/ q = left + 1) /\ q \in 0 .. l - 1 /\ left \in 0 .. l - 1
          /\ s \in 0 .. l - 1
      BY <1>1, <1>3, <2>1, <2>3, <2>7
    <3>2. CASE q = s
      BY <2>5, <2>6, <3>1, <3>2
    <3>3. CASE q # s /\ s = left
      <4>1. q = left + 1 /\ q < l
        BY <1>1, <3>1, <3>3
      <4> QED
        BY <2>2, <3>3, <4>1
    <3>4. CASE q # s /\ s = left + 1
      <4>1. q = left
        BY <3>1, <3>4
      <4>2. Less(s, q)
        BY <2>2, <3>4, <4>1
      <4> QED
        BY <2>5, <2>6, <3>1, <4>2
    <3> QED
      BY <2>3, <3>2, <3>3, <3>4
  <2> QED
    BY <1>2, <1>4, <1>5, <2>1, <2>3, <2>4, <2>7
<1>6. CASE ~(2 * p + 1 <= l - 1)
  <2>1. \A q \in 1 .. l - 1 : parent(q) # p
    BY <1>1, <1>3, <1>6
  <2> QED
    BY <1>4, <1>6, <2>1
<1> QED
  BY <1>5, <1>6

LEMMA DownStep ==
  ASSUME NEW S, OrdersRecords(S), NEW heap \in Seq(NodesOf(S)), NEW l, l = Len(heap),
         NEW p \in 0 .. l - 1, HeapedButBelow(heap, p), NEW r, r = Down(heap, p)
  PROVE  /\ r = p => Heaped(heap)
         /\ r # p => r \in 0 .. l - 1 /\ p < r /\ HeapedButBelow(Swapped(heap, p, r), r)
<1> DEFINE N == NodesOf(S)
           Less(a, b) == Lighter(heap[a + 1], heap[b + 1])
<1>1. l \in Nat /\ p \in Nat
  OBVIOUS
<1>2. \A a, b : less(heap, a, b) <=> Less(a, b)
  BY DEF less, Lighter
<1>3. PICK s : s = selected(heap, p)
  OBVIOUS
<1>4. /\ l > 1 /\ p <= (l - 2) \div 2 =>
           /\ s \in 1 .. l - 1 /\ parent(s) = p
           /\ \A q \in 1 .. l - 1 : parent(q) = p => ~Less(q, s)
      /\ ~(l > 1 /\ p <= (l - 2) \div 2) => \A q \in 1 .. l - 1 : parent(q) # p
  BY <1>2, <1>3, SelectedChild
<1>5. r = IF l > 1 /\ p <= (l - 2) \div 2 /\ Less(s, p) THEN s ELSE p
  BY <1>2, <1>3 DEF Down
<1>6. /\ \A a, b \in N : Lighter(a, b) => ~Lighter(b, a)
      /\ \A a, b, c \in N : ~Lighter(b, a) /\ ~Lighter(c, b) => ~Lighter(c, a)
  BY LighterOrders
<1>7. \A q \in 0 .. l - 1 : heap[q + 1] \in N
  <2>1. DOMAIN heap = 1 .. l /\ \A q \in 0 .. l - 1 : q + 1 \in 1 .. l
    BY <1>1
  <2> QED
    BY <2>1
<1>8. \A q \in 1 .. l - 1 : parent(q) # p => ~Less(q, parent(q))
  BY <1>2 DEF HeapedButBelow
<1> HIDE DEF N
<1>9. CASE r = p
  <2>1. ASSUME NEW q \in 1 .. l - 1, parent(q) = p PROVE ~Less(q, p)
    <3>1. l > 1 /\ p <= (l - 2) \div 2
      BY <1>4, <2>1
    <3>2. s \in 1 .. l - 1 /\ parent(s) = p /\ ~Less(q, s)
      BY <1>4, <2>1, <3>1
    <3>3. s # p
      BY <1>1, <3>2, Parents
    <3>4. ~Less(s, p)
      BY <1>5, <1>9, <3>1, <3>3
    <3>5. q \in 0 .. l - 1 /\ s \in 0 .. l - 1
      BY <3>2
    <3> QED
      BY <1>6, <1>7, <3>2, <3>4, <3>5
  <2>2. \A q \in 1 .. l - 1 : ~Less(q, parent(q))
    BY <1>8, <2>1
  <2> QED
    BY <1>2, <1>9, <2>2 DEF Heaped
<1>10. CASE r # p
  <2>1. /\ r = s /\ Less(r, p) /\ r \in 1 .. l - 1 /\ parent(r) = p
        /\ \A q \in 1 .. l - 1 : parent(q) = p => ~Less(q, r)
    BY <1>4, <1>5, <1>10
  <2>2. r \in 0 .. l - 1 /\ p < r
    BY <1>1, <2>1, Parents
  <2>3. PICK h : h = Swapped(heap, p, r)
    OBVIOUS
  <2>4. /\ Len(h) = l /\ h[p + 1] = heap[r + 1] /\ h[r + 1] = heap[p + 1]
        /\ \A q \in 0 .. l - 1 : q # p /\ q # r => h[q + 1] = heap[q + 1]
    BY <2>2, <2>3, HeapNodes
  <2>5. \A a, b : less(h, a, b) <=> Lighter(h[a + 1], h[b + 1])
    BY DEF less, Lighter
  <2>6. ASSUME NEW q \in 1 .. l - 1, parent(q) # r
        PROVE  ~Lighter(h[q + 1], h[parent(q) + 1])
    <3>1. q \in Nat /\ q \in 0 .. l - 1 /\ parent(q) \in 0 .. l - 1 /\ parent(q) < q
      BY <1>1, Parents
    <3>2. CASE q = r
      BY <1>6, <1>7, <2>1, <2>2, <2>4, <3>2
    <3>3. CASE q # r /\ parent(q) = p
      <4>1. ~Less(q, r) /\ q # p
        BY <2>1, <3>1, <3>3
      <4> QED
        BY <2>4, <3>1, <3>3, <4>1
    <3>4. CASE q = p
      <4>1. p # 0 /\ ~Less(r, parent(p)) /\ parent(p) # p
        BY <1>2, <2>1, <3>1, <3>4 DEF HeapedButBelow
      <4> QED
        BY <2>4, <2>6, <3>1, <3>4, <4>1
    <3>5. CASE q # r /\ q # p /\ parent(q) # p
      <4>1. ~Less(q, parent(q))
        BY <1>8, <3>5
      <4> QED
        BY <2>4, <2>6, <3>1, <3>5, <4>1
    <3> QED
      BY <3>2, <3>3, <3>4, <3>5
  <2>7. ASSUME NEW q \in 1 .. l - 1, parent(q) = r
        PROVE  ~Lighter(h[q + 1], h[parent(r) + 1])
    <3>1. q \in 0 .. l - 1 /\ q # r /\ q # p
      BY <1>1, <2>2, <2>7, Parents
    <3>2. ~Less(q, r)
      BY <1>8, <1>10, <2>7
    <3> QED
      BY <2>1, <2>4, <3>1, <3>2
  <2>8. HeapedButBelow(h, r)
    BY <2>4, <2>5, <2>6, <2>7 DEF HeapedButBelow
  <2> QED
    BY <1>10, <2>2, <2>3, <2>8
<1> QED
  BY <1>9, <1>10

\* A node that is where it may be does not move.
LEMMA HeapedStays ==
  ASSUME NEW S, OrdersRecords(S), NEW heap \in Seq(NodesOf(S)), Heaped(heap),
         NEW p \in 0 .. Len(heap) - 1
  PROVE  Up(heap, p) = p /\ Down(heap, p) = p /\ Swapped(heap, p, p) = heap
<1>1. PICK l : l = Len(heap)
  OBVIOUS
<1>2. l \in Nat /\ p \in 0 .. l - 1
  BY <1>1
<1>3. Swapped(heap, p, p) = heap
  BY HeapNodes
<1>4. Up(heap, p) = p
  BY <1>1, <1>2 DEF Heaped, Up
<1>5. Down(heap, p) = p
  <2>1. CASE l > 1 /\ p <= (l - 2) \div 2
    <3>1. selected(heap, p) \in 1 .. l - 1 /\ parent(selected(heap, p)) = p
      BY <1>1, <1>2, <2>1, SelectedChild
    <3>2. ~less(heap, selected(heap, p), p)
      BY <1>1, <3>1 DEF Heaped
    <3> QED
      BY <3>2 DEF Down
  <2>2. CASE ~(l > 1 /\ p <= (l - 2) \div 2)
    BY <1>1, <2>2 DEF Down
  <2> QED
    BY <2>1, <2>2
<1> QED
  BY <1>3, <1>4, <1>5

\* The nodes of a heap are typed as those that it arranges.
LEMMA ArrangedNodes ==
  ASSUME NEW S, NEW nodes, nodes \subseteq NodesOf(S), NEW heap, Arranges(heap, nodes)
  PROVE  heap \in Seq(NodesOf(S)) /\ Len(heap) \in Nat
BY DEF Arranges

LEMMA SiftUpOrders ==
  ASSUME NEW S, OrdersRecords(S), NEW nodes, nodes \subseteq NodesOf(S),
         NEW heap, Arranges(heap, nodes), NEW p \in 0 .. Len(heap) - 1, HeapedButAt(heap, p)
  PROVE  Heaped(SiftUp(heap, p))
<1>1. PICK l : l = Len(heap)
  OBVIOUS
<1>2. l \in Nat /\ p \in 0 .. l - 1
  BY <1>1, ArrangedNodes
<1>3. PICK step : /\ TravelsUp(step, heap, p)
                  /\ \A i \in 0 .. l : step[i] \in Halts(nodes, l)
                  /\ SiftUp(heap, p) = step[l].heap
  BY <1>1, SiftUpWay
<1> DEFINE Right(i) == /\ HeapedButAt(step[i].heap, step[i].at)
                       /\ Heaped(step[i].heap) \/ step[i].at <= l - 1 - i
           W == {i \in Nat : i <= l /\ ~Right(i)}
<1>4. Right(0)
  BY <1>1, <1>2, <1>3 DEF TravelsUp
<1>5. ASSUME NEW i \in 1 .. l, Right(i - 1) PROVE Right(i)
  <2>1. PICK h, a, r, g : /\ h = step[i - 1].heap /\ a = step[i - 1].at
                          /\ r = Up(h, a) /\ g = Swapped(h, a, r)
    OBVIOUS
  <2>2. i - 1 \in 0 .. l /\ i - 1 \in Nat
    BY <1>2
  <2>3. Arranges(h, nodes) /\ Len(h) = l /\ a \in 0 .. l - 1
    BY <1>3, <2>1, <2>2 DEF Halts
  <2>4. h \in Seq(NodesOf(S))
    BY <2>3, ArrangedNodes
  <2>5. step[i].heap = g /\ step[i].at = r
    <3>1. step[i] = [heap |-> Swapped(step[i - 1].heap, step[i - 1].at,
                                      Up(step[i - 1].heap, step[i - 1].at)),
                     at   |-> Up(step[i - 1].heap, step[i - 1].at)]
      BY <1>1, <1>3, Zenon DEF TravelsUp
    <3>2. step[i] = [heap |-> g, at |-> r]
      BY <2>1, <3>1, Zenon
    <3> QED
      BY <3>2
  <2>6. HeapedButAt(h, a) /\ (Heaped(h) \/ a <= l - 1 - (i - 1))
    BY <1>5, <2>1
  <2>7. CASE Heaped(h)
    <3>1. r = a /\ g = h
      BY <2>1, <2>3, <2>4, <2>7, HeapedStays
    <3> QED
      BY <2>5, <2>6, <2>7, <3>1
  <2>8. CASE ~Heaped(h)
    <3>1. r # a /\ r \in 0 .. l - 1 /\ r < a /\ HeapedButAt(g, r)
      BY <2>1, <2>3, <2>4, <2>6, <2>8, UpStep
    <3>2. r <= l - 1 - i
      BY <1>2, <2>3, <2>6, <2>8, <3>1
    <3> QED
      BY <2>5, <3>1, <3>2
  <2> QED
    BY <2>7, <2>8
<1> HIDE DEF Right
<1>6. W = {}
  <2> SUFFICES ASSUME W # {} PROVE FALSE
    OBVIOUS
  <2>1. PICK i \in W : \A j \in W : i <= j
    BY LeastNumber
  <2>2. i # 0
    BY <1>4, <2>1
  <2>3. i \in 1 .. l /\ i - 1 \in Nat /\ i - 1 <= l /\ i - 1 \notin W
    BY <1>2, <2>1, <2>2
  <2>4. Right(i - 1)
    BY <2>3
  <2> QED
    BY <1>5, <2>1, <2>3, <2>4
<1>7. Right(l)
  BY <1>2, <1>6
<1>8. step[l].at \in 0 .. l - 1
  BY <1>2, <1>3 DEF Halts
<1>9. Heaped(step[l].heap)
  BY <1>2, <1>7, <1>8 DEF Right
<1> QED
  BY <1>3, <1>9

LEMMA SiftDownOrders ==
  ASSUME NEW S, OrdersRecords(S), NEW nodes, nodes \subseteq NodesOf(S),
         NEW heap, Arranges(heap, nodes), NEW p \in 0 .. Len(heap) - 1,
         HeapedButBelow(heap, p)
  PROVE  Heaped(SiftDown(heap, p))
<1>1. PICK l : l = Len(heap)
  OBVIOUS
<1>2. l \in Nat /\ p \in 0 .. l - 1
  BY <1>1, ArrangedNodes
<1>3. PICK step : /\ TravelsDown(step, heap, p)
                  /\ \A i \in 0 .. l : step[i] \in Halts(nodes, l)
                  /\ SiftDown(heap, p) = step[l].heap
  BY <1>1, SiftDownWay
<1> DEFINE Right(i) == /\ HeapedButBelow(step[i].heap, step[i].at)
                       /\ Heaped(step[i].heap) \/ step[i].at >= i
           W == {i \in Nat : i <= l /\ ~Right(i)}
<1>4. Right(0)
  BY <1>1, <1>2, <1>3 DEF TravelsDown
<1>5. ASSUME NEW i \in 1 .. l, Right(i - 1) PROVE Right(i)
  <2>1. PICK h, a, r, g : /\ h = step[i - 1].heap /\ a = step[i - 1].at
                          /\ r = Down(h, a) /\ g = Swapped(h, a, r)
    OBVIOUS
  <2>2. i - 1 \in 0 .. l /\ i - 1 \in Nat
    BY <1>2
  <2>3. Arranges(h, nodes) /\ Len(h) = l /\ a \in 0 .. l - 1
    BY <1>3, <2>1, <2>2 DEF Halts
  <2>4. h \in Seq(NodesOf(S))
    BY <2>3, ArrangedNodes
  <2>5. step[i].heap = g /\ step[i].at = r
    <3>1. step[i] = [heap |-> Swapped(step[i - 1].heap, step[i - 1].at,
                                      Down(step[i - 1].heap, step[i - 1].at)),
                     at   |-> Down(step[i - 1].heap, step[i - 1].at)]
      BY <1>1, <1>3, Zenon DEF TravelsDown
    <3>2. step[i] = [heap |-> g, at |-> r]
      BY <2>1, <3>1, Zenon
    <3> QED
      BY <3>2
  <2>6. HeapedButBelow(h, a) /\ (Heaped(h) \/ a >= i - 1)
    BY <1>5, <2>1
  <2>7. CASE Heaped(h)
    <3>1. r = a /\ g = h
      BY <2>1, <2>3, <2>4, <2>7, HeapedStays
    <3> QED
      BY <2>5, <2>6, <2>7, <3>1
  <2>8. CASE ~Heaped(h)
    <3>1. r # a /\ r \in 0 .. l - 1 /\ a < r /\ HeapedButBelow(g, r)
      BY <2>1, <2>3, <2>4, <2>6, <2>8, DownStep
    <3>2. r >= i
      BY <1>2, <2>3, <2>6, <2>8, <3>1
    <3> QED
      BY <2>5, <3>1, <3>2
  <2> QED
    BY <2>7, <2>8
<1> HIDE DEF Right
<1>6. W = {}
  <2> SUFFICES ASSUME W # {} PROVE FALSE
    OBVIOUS
  <2>1. PICK i \in W : \A j \in W : i <= j
    BY LeastNumber
  <2>2. i # 0
    BY <1>4, <2>1
  <2>3. i \in 1 .. l /\ i - 1 \in Nat /\ i - 1 <= l /\ i - 1 \notin W
    BY <1>2, <2>1, <2>2
  <2>4. Right(i - 1)
    BY <2>3
  <2> QED
    BY <1>5, <2>1, <2>3, <2>4
<1>7. Right(l)
  BY <1>2, <1>6
<1>8. step[l].at \in 0 .. l - 1
  BY <1>2, <1>3 DEF Halts
<1>9. Heaped(step[l].heap)
  BY <1>2, <1>7, <1>8 DEF Right
<1> QED
  BY <1>3, <1>9

LEMMA PushOrders ==
  ASSUME NEW S, OrdersRecords(S), NEW nodes, nodes \subseteq NodesOf(S),
         NEW heap, Arranges(heap, nodes), Heaped(heap),
         NEW node \in NodesOf(S), node \notin nodes
  PROVE  Heaped(Push(heap, node))
<1>1. PICK l, longer, more : /\ l = Len(heap) /\ longer = Append(heap, node)
                             /\ more = nodes \union {node}
  OBVIOUS
<1>2. heap \in Seq(NodesOf(S)) /\ l \in Nat /\ more \subseteq NodesOf(S)
  BY <1>1, ArrangedNodes
<1>3. /\ Len(longer) = l + 1 /\ \A k \in 1 .. l : longer[k] = heap[k]
  BY <1>1, <1>2, AppendProperties
<1>4. Arranges(longer, more) /\ Push(heap, node) = SiftUp(longer, l)
  BY <1>1, AppendArranges DEF Push
<1>5. ASSUME NEW q \in 1 .. Len(longer) - 1, q # l PROVE ~less(longer, q, parent(q))
  <2>1. q \in 1 .. l - 1 /\ q \in Nat
    BY <1>2, <1>3, <1>5
  <2>2. parent(q) \in Nat /\ parent(q) < q
    BY <2>1, Parents
  <2>3. q + 1 \in 1 .. l /\ parent(q) + 1 \in 1 .. l
    BY <1>2, <2>1, <2>2
  <2>4. ~less(heap, q, parent(q))
    BY <1>1, <2>1 DEF Heaped
  <2> QED
    BY <1>3, <2>3, <2>4 DEF less
<1>6. l # 0 => \A q \in 1 .. Len(longer) - 1 : parent(q) # l
  BY <1>2, <1>3, Parents
<1>7. HeapedButAt(longer, l)
  BY <1>5, <1>6 DEF HeapedButAt
<1>8. l \in 0 .. Len(longer) - 1
  BY <1>2, <1>3
<1> QED
  BY <1>2, <1>4, <1>7, <1>8, SiftUpOrders

\* What is left of a heap is one, and what is taken was the lightest.
LEMMA PopOrders ==
  ASSUME NEW S, OrdersRecords(S), NEW nodes, nodes \subseteq NodesOf(S),
         NEW heap, Arranges(heap, nodes), Heaped(heap), heap # <<>>
  PROVE  Heaped(Popped(heap)) /\ \A node \in nodes : ~Lighter(node, Head(heap))
<1>1. PICK l, N : l = Len(heap) /\ N = NodesOf(S)
  OBVIOUS
<1>2. heap \in Seq(N) /\ l \in Nat /\ l # 0 /\ DOMAIN heap = 1 .. l /\ Head(heap) = heap[1]
  BY <1>1, ArrangedNodes
<1>3. /\ \A a \in N : ~Lighter(a, a)
      /\ \A a, b, c \in N : ~Lighter(b, a) /\ ~Lighter(c, b) => ~Lighter(c, a)
  BY <1>1, LighterOrders
<1>4. \A q \in 0 .. l - 1 : heap[q + 1] \in N
  <2>1. \A q \in 0 .. l - 1 : q + 1 \in 1 .. l
    BY <1>2
  <2> QED
    BY <1>2, <2>1
<1> DEFINE W == {q \in Nat : q < l /\ Lighter(heap[q + 1], heap[1])}
<1>5. W = {}
  <2> SUFFICES ASSUME W # {} PROVE FALSE
    OBVIOUS
  <2>1. PICK q \in W : \A j \in W : q <= j
    BY LeastNumber
  <2>2. q # 0
    <3>1. heap[0 + 1] = heap[1] /\ heap[0 + 1] \in N
      BY <1>2, <1>4
    <3> QED
      BY <1>3, <2>1, <3>1
  <2>3. q \in 1 .. l - 1 /\ q \in 0 .. l - 1 /\ 0 \in 0 .. l - 1
    BY <1>2, <2>1, <2>2
  <2>4. parent(q) \in Nat /\ parent(q) < q
    BY <2>2, Parents
  <2>5. parent(q) < l /\ parent(q) \notin W /\ parent(q) \in 0 .. l - 1
    BY <1>2, <2>1, <2>3, <2>4
  <2>6. ~Lighter(heap[parent(q) + 1], heap[1])
    BY <2>4, <2>5
  <2>7. ~Lighter(heap[q + 1], heap[parent(q) + 1])
    BY <1>1, <2>3 DEF Heaped, less, Lighter
  <2>8. heap[q + 1] \in N /\ heap[parent(q) + 1] \in N /\ heap[1] \in N
    <3>1. heap[0 + 1] \in N
      BY <1>4, <2>3
    <3> QED
      BY <1>4, <2>3, <2>5, <3>1
  <2>9. ~Lighter(heap[q + 1], heap[1])
    BY <1>3, <2>6, <2>7, <2>8
  <2> QED
    BY <2>1, <2>9
<1>6. \A node \in nodes : ~Lighter(node, Head(heap))
  <2>1. \A k \in 1 .. l : ~Lighter(heap[k], heap[1])
    <3>1. \A k \in 1 .. l : k - 1 \in Nat /\ k - 1 < l /\ (k - 1) + 1 = k
      BY <1>2
    <3>2. \A k \in 1 .. l : ~Lighter(heap[(k - 1) + 1], heap[1])
      BY <1>5, <3>1
    <3> QED
      BY <3>1, <3>2
  <2> QED
    BY <1>2, <2>1 DEF Arranges
<1>7. CASE l = 1
  <2>1. Popped(heap) = <<>>
    BY <1>1, <1>7 DEF Popped
  <2> QED
    BY <1>6, <2>1 DEF Heaped
<1>8. CASE l # 1
  <2>1. PICK moved : /\ Arranges(moved, nodes \ {Head(heap)}) /\ Popped(heap) = SiftDown(moved, 0)
                     /\ Len(moved) = l - 1 /\ \A k \in 2 .. l - 1 : moved[k] = heap[k]
    <3>1. Len(heap) # 0 /\ Len(heap) # 1
      BY <1>1, <1>2, <1>8
    <3>2. PICK moved : /\ Arranges(moved, nodes \ {Head(heap)})
                       /\ Popped(heap) = SiftDown(moved, 0)
                       /\ Len(moved) = Len(heap) - 1
                       /\ \A k \in 2 .. Len(heap) - 1 : moved[k] = heap[k]
      BY <3>1, MovedArranges
    <3> QED
      BY <1>1, <3>2
  <2>2. ASSUME NEW q \in 1 .. Len(moved) - 1, parent(q) # 0
        PROVE  ~less(moved, q, parent(q))
    <3>1. q \in 1 .. l - 1 /\ q \in Nat
      BY <1>2, <2>1
    <3>2. parent(q) \in Nat /\ parent(q) < q
      BY <3>1, Parents
    <3>3. q + 1 \in 2 .. l - 1 /\ parent(q) + 1 \in 2 .. l - 1
      BY <1>2, <2>1, <2>2, <3>1, <3>2
    <3>4. ~less(heap, q, parent(q))
      BY <1>1, <3>1 DEF Heaped
    <3> QED
      BY <2>1, <3>3, <3>4 DEF less
  <2>3. HeapedButBelow(moved, 0)
    BY <2>2 DEF HeapedButBelow
  <2>4. 0 \in 0 .. Len(moved) - 1
    BY <1>2, <1>8, <2>1
  <2>5. nodes \ {Head(heap)} \subseteq NodesOf(S)
    OBVIOUS
  <2>6. Heaped(SiftDown(moved, 0))
    BY <2>1, <2>3, <2>4, <2>5, SiftDownOrders
  <2> QED
    BY <1>6, <2>1, <2>6
<1> QED
  BY <1>7, <1>8

----------------------------------------------------------------------------
(* The cursors.                                                            *)

\* The cursor has handed out the first p records of the run.
Cursors(S) == [next_record : Nat, buffer : Seq(S), previous : Seq(S)]

HasTaken(c, run, p) ==
  /\ p \in 0 .. c.next_record /\ c.next_record <= Len(run)
  /\ Len(c.buffer) = c.next_record - p
  /\ \A i \in 1 .. c.next_record - p : c.buffer[i] = run[p + i]
  /\ p # 0 => c.previous = <<run[p]>>

LEMMA NewCursorHasTaken ==
  ASSUME NEW S, NEW run \in Seq(S)
  PROVE  NewCursor \in Cursors(S) /\ HasTaken(NewCursor, run, 0)
BY DEF NewCursor, Cursors, HasTaken

LEMMA RefilledHasTaken ==
  ASSUME BufferRecords \in Nat \ {0},
         NEW S, NEW run \in Seq(S), NEW c \in Cursors(S), NEW p \in Nat,
         HasTaken(c, run, p)
  PROVE  /\ Refilled(run, c) \in Cursors(S) /\ HasTaken(Refilled(run, c), run, p)
         /\ Refilled(run, c).buffer # <<>> <=> p < Len(run)
<1>1. PICK n, l : n = c.next_record /\ l = Len(run)
  OBVIOUS
<1>2. n \in Nat /\ l \in Nat /\ c.buffer \in Seq(S) /\ p <= n /\ n <= l
      /\ Len(c.buffer) = n - p
  BY <1>1 DEF Cursors, HasTaken
<1>3. CASE c.buffer # <<>>
  <2>1. Refilled(run, c) = c
    BY <1>3 DEF Refilled
  <2>2. Len(c.buffer) # 0
    BY <1>2, <1>3
  <2>3. p < l
    BY <1>2, <2>2
  <2> QED
    BY <1>1, <1>3, <2>1, <2>3
<1>4. CASE c.buffer = <<>>
  <2>1. Len(c.buffer) = 0 /\ p = n
    BY <1>2, <1>4
  <2>2. PICK r : r = Least(BufferRecords, l - n)
    OBVIOUS
  <2>3. r \in 0 .. l - n /\ (r = 0 <=> n = l)
    BY <1>2, <2>2 DEF Least
  <2> DEFINE b == [i \in 1 .. r |-> run[n + i]]
  <2>4. SubSeq(run, n + 1, n + r) = b
    BY <1>2, <2>3
  <2>5. Refilled(run, c) = [c EXCEPT !.buffer = b, !.next_record = n + r]
    BY <1>1, <1>4, <2>2, <2>4 DEF Refilled
  <2>6. \A i \in 1 .. r : run[n + i] \in S
    BY <1>1, <1>2, <2>3
  <2>7. b \in Seq(S) /\ Len(b) = r
    BY <2>3, <2>6, IsASeq
  <2>8. PICK d : d = Refilled(run, c)
    OBVIOUS
  <2>9. d = [next_record |-> n + r, buffer |-> b, previous |-> c.previous]
    BY <2>5, <2>8 DEF Cursors
  <2>10. d \in Cursors(S)
    BY <1>2, <2>3, <2>7, <2>9 DEF Cursors
  <2>11. \A i \in 1 .. (n + r) - p : b[i] = run[p + i]
    BY <1>2, <2>1, <2>3
  <2>12. HasTaken(d, run, p)
    <3>1. p # 0 => d.previous = <<run[p]>>
      BY <2>9 DEF HasTaken
    <3> QED
      BY <1>1, <1>2, <2>1, <2>3, <2>7, <2>9, <2>11, <3>1 DEF HasTaken
  <2>13. d.buffer # <<>> <=> r # 0
    <3>1. d.buffer = b
      BY <2>9
    <3> HIDE DEF b
    <3> QED
      BY <2>7, <3>1, EmptySeq
  <2> QED
    BY <1>1, <1>2, <2>1, <2>3, <2>8, <2>10, <2>12, <2>13
<1> QED
  BY <1>3, <1>4

LEMMA AdvancedHasTaken ==
  ASSUME BufferRecords \in Nat \ {0},
         NEW S, NEW run \in Seq(S), NEW c \in Cursors(S), NEW p \in Nat,
         HasTaken(c, run, p)
  PROVE  /\ HasNext(run, c) <=> p < Len(run)
         /\ p < Len(run) =>
              /\ NextRecord(run, c) = run[p + 1] /\ run[p + 1] \in S
              /\ Advanced(run, c) \in Cursors(S)
              /\ HasTaken(Advanced(run, c), run, p + 1)
<1>1. PICK d : d = Refilled(run, c)
  OBVIOUS
<1>2. d \in Cursors(S) /\ HasTaken(d, run, p) /\ (d.buffer # <<>> <=> p < Len(run))
  BY <1>1, RefilledHasTaken
<1>3. HasNext(run, c) <=> p < Len(run)
  BY <1>1, <1>2 DEF HasNext
<1>4. ASSUME p < Len(run)
      PROVE  /\ NextRecord(run, c) = run[p + 1] /\ run[p + 1] \in S
             /\ Advanced(run, c) \in Cursors(S)
             /\ HasTaken(Advanced(run, c), run, p + 1)
  <2>1. PICK n, b : n = d.next_record /\ b = d.buffer
    OBVIOUS
  <2>2. /\ n \in Nat /\ b \in Seq(S) /\ b # <<>> /\ n <= Len(run) /\ p <= n
        /\ Len(b) = n - p /\ \A i \in 1 .. n - p : b[i] = run[p + i]
    BY <1>2, <1>4, <2>1 DEF Cursors, HasTaken
  <2>3. Len(b) > 0 /\ Len(run) \in Nat
    BY <2>2
  <2>4. Head(b) = b[1] /\ b[1] = run[p + 1] /\ b[1] \in S
    BY <2>2, <2>3
  <2>5. NextRecord(run, c) = b[1]
    BY <1>1, <2>1, <2>4 DEF NextRecord
  <2>6. /\ Tail(b) \in Seq(S) /\ Len(Tail(b)) = Len(b) - 1
        /\ \A i \in 1 .. Len(b) - 1 : Tail(b)[i] = b[i + 1]
    BY <2>2, HeadTailProperties
  <2>7. PICK a : a = Advanced(run, c)
    OBVIOUS
  <2>8. a = [next_record |-> n, buffer |-> Tail(b), previous |-> <<b[1]>>]
    BY <1>1, <1>2, <2>1, <2>5, <2>7 DEF Advanced, Cursors
  <2>9. <<b[1]>> \in Seq(S)
    BY <2>4
  <2>10. a \in Cursors(S)
    BY <2>2, <2>6, <2>8, <2>9 DEF Cursors
  <2>11. p + 1 \in 0 .. n /\ Len(Tail(b)) = n - (p + 1)
    BY <2>2, <2>3, <2>6
  <2>12. ASSUME NEW i \in 1 .. n - (p + 1) PROVE Tail(b)[i] = run[(p + 1) + i]
    <3>1. i \in 1 .. Len(b) - 1 /\ i + 1 \in 1 .. n - p /\ p + (i + 1) = (p + 1) + i
      BY <2>2
    <3> QED
      BY <2>2, <2>6, <3>1
  <2>13. HasTaken(a, run, p + 1)
    <3>1. a.previous = <<run[p + 1]>>
      BY <2>4, <2>8
    <3> QED
      BY <2>2, <2>8, <2>11, <2>12, <3>1 DEF HasTaken
  <2> QED
    BY <2>4, <2>5, <2>7, <2>10, <2>13
<1> QED
  BY <1>3, <1>4

----------------------------------------------------------------------------
(* The merge.                                                              *)

\* A merge of the runs that has taken the first pos[i] records of each: the last
\* of them is in the heap as long as i is in open, all others have come out.
Pending(runs, pos, open) == {Node(runs[i][pos[i]], i) : i \in open}

MergeAt(m, runs, S, pos, open) ==
  /\ m = [runs |-> runs, cursors |-> m.cursors, heap |-> m.heap, out |-> m.out]
  /\ m.cursors \in [DOMAIN runs -> Cursors(S)]
  /\ pos \in [DOMAIN runs -> Nat] /\ open \subseteq DOMAIN runs
  /\ \A i \in DOMAIN runs : HasTaken(m.cursors[i], runs[i], pos[i])
  /\ \A i \in open : pos[i] # 0
  /\ \A i \in DOMAIN runs \ open : pos[i] = Len(runs[i])
  /\ Arranges(m.heap, Pending(runs, pos, open))
  /\ m.out \in Seq(S)
  /\ \A i \in DOMAIN runs : \A k \in 1 .. pos[i] :
       (i \in open /\ k = pos[i]) \/ \E j \in DOMAIN m.out : m.out[j] = runs[i][k]

Merges(m, runs, S) == \E pos, open : MergeAt(m, runs, S, pos, open)

\* pushed[i] holds the first records of the first i runs.
LEMMA PushedArranges ==
  ASSUME BufferRecords \in Nat \ {0},
         NEW S, NEW runs \in Seq(Seq(S)), \A i \in DOMAIN runs : runs[i] # <<>>
  PROVE  /\ Arranges(Primed(runs).heap, Pending(runs, [i \in DOMAIN runs |-> 1], DOMAIN runs))
         /\ OrdersRecords(S) => Heaped(Primed(runs).heap)
<1> DEFINE first(i) == Node(NextRecord(runs[i], NewCursor), i)
           Body(f) == [i \in 0 .. Len(runs) |->
                         IF i = 0 THEN <<>> ELSE Push(f[i - 1], first(i))]
           pushed == CHOOSE f : f = Body(f)
           nodes(n) == {Node(runs[i][1], i) : i \in 1 .. n}
           Built(h, n) == Arranges(h, nodes(n)) /\ (OrdersRecords(S) => Heaped(h))
           T == [i \in 1 .. Len(runs) |-> [h \in Seq(nodes(Len(runs))) |-> Push(h, first(i))]]
<1>1. DOMAIN runs = 1 .. Len(runs) /\ Len(runs) \in Nat
  OBVIOUS
<1>2. ASSUME NEW i \in 1 .. Len(runs)
      PROVE  first(i) = Node(runs[i][1], i) /\ runs[i][1] \in S
  <2>1. runs[i] \in Seq(S) /\ 0 < Len(runs[i])
    BY <1>1
  <2>2. NextRecord(runs[i], NewCursor) = runs[i][0 + 1]
    BY <2>1, NewCursorHasTaken, AdvancedHasTaken
  <2> QED
    BY <2>1, <2>2
<1>3. ASSUME NEW n \in 1 .. Len(runs), NEW h, Built(h, n - 1)
      PROVE  Built(Push(h, first(n)), n) /\ h \in Seq(nodes(Len(runs)))
  <2>1. Node(runs[n][1], n) \notin nodes(n - 1)
    <3>1. \A i \in 1 .. n - 1 : Node(runs[i][1], i).cursor # Node(runs[n][1], n).cursor
      BY DEF Node
    <3> QED
      BY <3>1, Zenon
  <2>2. nodes(n) = nodes(n - 1) \union {Node(runs[n][1], n)}
    <3>1. 1 .. n = (1 .. n - 1) \union {n}
      OBVIOUS
    <3> QED
      BY <3>1
  <2>3. nodes(n - 1) \subseteq nodes(Len(runs))
    OBVIOUS
  <2>4. \A i \in 1 .. Len(runs) : runs[i][1] \in S /\ i \in Nat
    BY <1>2
  <2>5. nodes(n - 1) \subseteq NodesOf(S) /\ Node(runs[n][1], n) \in NodesOf(S)
    BY <1>1, <2>4 DEF NodesOf, Node
  <2>6. Arranges(h, nodes(n - 1)) /\ (OrdersRecords(S) => Heaped(h))
    BY <1>3
  <2> HIDE DEF nodes
  <2>7. PICK node, N : node = Node(runs[n][1], n) /\ N = nodes(n - 1)
    OBVIOUS
  <2>8. Arranges(Push(h, node), nodes(n))
    BY <2>1, <2>2, <2>6, <2>7, PushArranges
  <2>9. h \in Seq(nodes(Len(runs)))
    BY <2>3, <2>6 DEF Arranges
  <2>10. OrdersRecords(S) => Heaped(Push(h, node))
    BY <2>1, <2>5, <2>6, <2>7, PushOrders
  <2> QED
    BY <1>2, <2>7, <2>8, <2>9, <2>10
<1>4. Built(<<>>, 0)
  BY DEF Arranges, Heaped
<1>5. ASSUME NEW f, f[0] = <<>>,
             \A n \in 1 .. Len(runs) :
               Built(f[n - 1], n - 1) => f[n] = Push(f[n - 1], first(n))
      PROVE  \A n \in 0 .. Len(runs) : Built(f[n], n)
  <2> DEFINE W == {n \in Nat : n <= Len(runs) /\ ~Built(f[n], n)}
  <2> HIDE DEF Built
  <2> SUFFICES ASSUME W # {} PROVE FALSE
    OBVIOUS
  <2>1. PICK n \in W : \A j \in W : n <= j
    BY LeastNumber
  <2>2. n # 0
    BY <1>4, <1>5, <2>1
  <2>3. n - 1 \in Nat /\ n \in 1 .. Len(runs) /\ Built(f[n - 1], n - 1)
    BY <1>1, <2>1, <2>2
  <2>4. f[n] = Push(f[n - 1], first(n))
    BY <1>5, <2>3
  <2> QED
    BY <1>3, <2>1, <2>3, <2>4
<1>6. \E f : f = Body(f)
  <2>1. PICK f : Iterates(f, T, <<>>, Len(runs))
    BY <1>1, Iteration
  <2>2. /\ f = [i \in 0 .. Len(runs) |-> f[i]]
        /\ f[0] = <<>>
        /\ \A i \in 1 .. Len(runs) : f[i] = T[i][f[i - 1]]
    BY <2>1 DEF Iterates
  <2>3. \A n \in 1 .. Len(runs) :
          Built(f[n - 1], n - 1) => f[n] = Push(f[n - 1], first(n))
    BY <1>3, <2>2
  <2>4. \A n \in 0 .. Len(runs) : Built(f[n], n)
    BY <1>5, <2>2, <2>3
  <2>5. \A n \in 1 .. Len(runs) : f[n] = Push(f[n - 1], first(n))
    <3>1. \A n \in 1 .. Len(runs) : n - 1 \in 0 .. Len(runs)
      BY <1>1
    <3> QED
      BY <2>3, <2>4, <3>1
  <2>6. ASSUME NEW i \in 0 .. Len(runs) PROVE f[i] = Body(f)[i]
    <3>1. i # 0 => i \in 1 .. Len(runs)
      BY <1>1
    <3> QED
      BY <2>2, <2>5, <3>1
  <2>7. f = Body(f)
    BY <2>2, <2>6
  <2> QED
    BY <2>7
<1>7. pushed = Body(pushed)
  BY <1>6
<1>8. Primed(runs).heap = pushed[Len(runs)]
  BY DEF Primed
<1> HIDE DEF pushed
<1>9. pushed[0] = <<>> /\ \A n \in 1 .. Len(runs) : pushed[n] = Push(pushed[n - 1], first(n))
  <2>1. \A n \in 0 .. Len(runs) :
          pushed[n] = IF n = 0 THEN <<>> ELSE Push(pushed[n - 1], first(n))
    BY <1>7, Zenon
  <2>2. 0 \in 0 .. Len(runs) /\ \A n \in 1 .. Len(runs) : n \in 0 .. Len(runs) /\ n # 0
    BY <1>1
  <2> HIDE DEF first
  <2> QED
    BY <2>1, <2>2, Zenon
<1>10. Built(pushed[Len(runs)], Len(runs))
  <2> HIDE DEF Built, first
  <2>1. \A n \in 0 .. Len(runs) : Built(pushed[n], n)
    BY <1>5, <1>9
  <2> QED
    BY <1>1, <2>1
<1>11. nodes(Len(runs)) = Pending(runs, [i \in DOMAIN runs |-> 1], DOMAIN runs)
  BY <1>1 DEF Pending
<1> QED
  BY <1>8, <1>10, <1>11

\* What merge_group begins with.
LEMMA PrimedAt ==
  ASSUME BufferRecords \in Nat \ {0},
         NEW S, NEW runs \in Seq(Seq(S)), \A i \in DOMAIN runs : runs[i] # <<>>
  PROVE  /\ MergeAt(Primed(runs), runs, S, [i \in DOMAIN runs |-> 1], DOMAIN runs)
         /\ Primed(runs).out = <<>>
<1> DEFINE m == Primed(runs)
           pos == [i \in DOMAIN runs |-> 1]
<1>1. ASSUME NEW i \in DOMAIN runs
      PROVE  /\ Advanced(runs[i], NewCursor) \in Cursors(S)
             /\ HasTaken(Advanced(runs[i], NewCursor), runs[i], 1)
  <2>1. runs[i] \in Seq(S) /\ 0 < Len(runs[i])
    OBVIOUS
  <2>2. 0 + 1 = 1
    OBVIOUS
  <2> QED
    BY <2>1, <2>2, NewCursorHasTaken, AdvancedHasTaken
<1>2. /\ m = [runs |-> runs, cursors |-> m.cursors, heap |-> m.heap, out |-> m.out]
      /\ m.cursors = [i \in DOMAIN runs |-> Advanced(runs[i], NewCursor)]
      /\ m.out = <<>>
  BY DEF Primed
<1>3. Arranges(m.heap, Pending(runs, pos, DOMAIN runs))
  BY PushedArranges
<1> HIDE DEF m
<1>4. m.cursors \in [DOMAIN runs -> Cursors(S)]
      /\ \A i \in DOMAIN runs : HasTaken(m.cursors[i], runs[i], pos[i])
  BY <1>1, <1>2
<1>5. \A i \in DOMAIN runs : \A k \in 1 .. pos[i] : i \in DOMAIN runs /\ k = pos[i]
  OBVIOUS
<1>6. pos \in [DOMAIN runs -> Nat] /\ \A i \in DOMAIN runs : pos[i] # 0
  OBVIOUS
<1>7. m.out \in Seq(S)
  BY <1>2
<1> HIDE DEF pos
<1>8. MergeAt(m, runs, S, pos, DOMAIN runs)
  BY <1>2, <1>3, <1>4, <1>5, <1>6, <1>7 DEF MergeAt
<1> QED
  BY <1>2, <1>8 DEF m, pos

LEMMA PrimedMerges ==
  ASSUME BufferRecords \in Nat \ {0},
         NEW S, NEW runs \in Seq(Seq(S)), \A i \in DOMAIN runs : runs[i] # <<>>
  PROVE  Merges(Primed(runs), runs, S) /\ Primed(runs).out = <<>>
BY PrimedAt DEF Merges

\* more is out with the record at its end, unless it was there.
Extends(more, out, record, S) ==
  /\ more \in Seq(S)
  /\ more = out \/ more = Append(out, record)
  /\ \A j \in DOMAIN out : j \in DOMAIN more /\ more[j] = out[j]
  /\ \E j \in DOMAIN more : more[j] = record

LEMMA EmittedOut ==
  ASSUME NEW S, NEW out \in Seq(S), NEW record \in S
  PROVE  Extends(Emitted(out, record), out, record, S)
<1> DEFINE more == Emitted(out, record)
<1>1. CASE out # <<>> /\ out[Len(out)] = record
  <2>1. Len(out) \in DOMAIN out /\ out[Len(out)] = record
    BY <1>1
  <2>2. more = out
    BY <1>1 DEF Emitted
  <2> QED
    BY <2>1, <2>2 DEF Extends
<1>2. CASE ~(out # <<>> /\ out[Len(out)] = record)
  <2>1. more = Append(out, record)
    BY <1>2 DEF Emitted
  <2>2. /\ more \in Seq(S) /\ Len(more) = Len(out) + 1
        /\ \A i \in 1 .. Len(out) : more[i] = out[i]
        /\ more[Len(out) + 1] = record
    BY <2>1, AppendProperties
  <2>3. DOMAIN more = 1 .. Len(out) + 1 /\ DOMAIN out = 1 .. Len(out)
        /\ Len(out) \in Nat
    BY <2>2
  <2> HIDE DEF more
  <2> QED
    BY <2>1, <2>2, <2>3 DEF Extends, more
<1> QED
  BY <1>1, <1>2

\* From m to mm the merge takes the record that run i has in the heap: the next
\* one of its run, if there is one, takes the place.
Takes(m, mm, runs, i, pos, open, next, still) ==
  /\ i \in open /\ Head(m.heap) = Node(runs[i][pos[i]], i)
  /\ mm.out = Emitted(m.out, runs[i][pos[i]])
  /\ \/ /\ still = open \ {i} /\ next = pos
        /\ mm.heap = Popped(m.heap)
     \/ /\ still = open /\ pos[i] < Len(runs[i]) /\ next = [pos EXCEPT ![i] = pos[i] + 1]
        /\ mm.heap = Push(Popped(m.heap), Node(runs[i][pos[i] + 1], i))

\* One turn of the loop in merge_group.
LEMMA MergedAt ==
  ASSUME BufferRecords \in Nat \ {0},
         NEW S, NEW runs \in Seq(Seq(S)), NEW m, NEW pos, NEW open,
         MergeAt(m, runs, S, pos, open), m.heap # <<>>
  PROVE  \E i, next, still :
           /\ Takes(m, Merged(m), runs, i, pos, open, next, still)
           /\ MergeAt(Merged(m), runs, S, next, still)
<1>1. MergeAt(m, runs, S, pos, open)
  OBVIOUS
<1>2. Head(m.heap) \in Pending(runs, pos, open)
      /\ Arranges(Popped(m.heap), Pending(runs, pos, open) \ {Head(m.heap)})
  BY <1>1, PopArranges DEF MergeAt
<1>3. PICK i \in open : Head(m.heap) = Node(runs[i][pos[i]], i)
  BY <1>2 DEF Pending
<1>4. PICK run, c, p : run = runs[i] /\ c = m.cursors[i] /\ p = pos[i]
  OBVIOUS
<1>5. /\ i \in DOMAIN runs /\ run \in Seq(S) /\ c \in Cursors(S) /\ HasTaken(c, run, p)
      /\ p \in Nat /\ p # 0 /\ Len(run) \in Nat
  BY <1>1, <1>3, <1>4 DEF MergeAt
<1>6. p \in DOMAIN run /\ run[p] \in S
  <2>1. c.next_record \in Nat /\ p <= c.next_record /\ c.next_record <= Len(run)
    BY <1>5 DEF Cursors, HasTaken
  <2> QED
    BY <1>5, <2>1
<1>7. Head(m.heap).cursor = i /\ Head(m.heap).record = run[p] /\ m.runs = runs
  <2>1. m.runs = runs
    BY <1>1 DEF MergeAt
  <2> QED
    BY <1>3, <1>4, <2>1 DEF Node
<1>8. PICK rest, out : rest = Popped(m.heap) /\ out = Emitted(m.out, run[p])
  OBVIOUS
<1>9. /\ m.out \in Seq(S) /\ out \in Seq(S)
      /\ out = m.out \/ out = Append(m.out, run[p])
      /\ \A j \in DOMAIN m.out : j \in DOMAIN out /\ out[j] = m.out[j]
      /\ \E j \in DOMAIN out : out[j] = run[p]
  <2>1. m.out \in Seq(S)
    BY <1>1 DEF MergeAt
  <2>2. Extends(out, m.out, run[p], S)
    BY <1>6, <1>8, <2>1, EmittedOut
  <2> QED
    BY <2>1, <2>2 DEF Extends
<1>10. ASSUME NEW j \in DOMAIN runs, NEW k \in 1 .. pos[j]
       PROVE  (j \in open /\ j # i /\ k = pos[j]) \/ \E n \in DOMAIN out : out[n] = runs[j][k]
  <2>1. (j \in open /\ k = pos[j]) \/ \E n \in DOMAIN m.out : m.out[n] = runs[j][k]
    BY <1>1 DEF MergeAt
  <2>2. CASE \E n \in DOMAIN m.out : m.out[n] = runs[j][k]
    BY <1>9, <2>2
  <2>3. CASE j \in open /\ k = pos[j] /\ j = i
    BY <1>4, <1>9, <2>3
  <2> QED
    BY <2>1, <2>2, <2>3
<1>11. Pending(runs, pos, open) \ {Head(m.heap)} = Pending(runs, pos, open \ {i})
  <2>1. ASSUME NEW j \in open, j # i PROVE Node(runs[j][pos[j]], j) # Head(m.heap)
    <3>1. Node(runs[j][pos[j]], j).cursor = j
      BY DEF Node
    <3> QED
      BY <1>7, <2>1, <3>1
  <2> QED
    BY <1>3, <2>1 DEF Pending
<1>12. m = [runs |-> runs, cursors |-> m.cursors, heap |-> m.heap, out |-> m.out]
       /\ m.cursors \in [DOMAIN runs -> Cursors(S)]
       /\ pos \in [DOMAIN runs -> Nat] /\ open \subseteq DOMAIN runs
       /\ (\A j \in DOMAIN runs : HasTaken(m.cursors[j], runs[j], pos[j]))
       /\ (\A j \in open : pos[j] # 0)
       /\ (\A j \in DOMAIN runs \ open : pos[j] = Len(runs[j]))
  BY <1>1 DEF MergeAt
<1>13. HasNext(run, c) <=> p < Len(run)
  BY <1>5, AdvancedHasTaken
<1>14. CASE p < Len(run)
  <2>1. NextRecord(run, c) = run[p + 1] /\ Advanced(run, c) \in Cursors(S)
        /\ HasTaken(Advanced(run, c), run, p + 1)
    BY <1>5, <1>14, AdvancedHasTaken
  <2> DEFINE cursors == [m.cursors EXCEPT ![i] = Advanced(run, c)]
             heap == Push(rest, Node(run[p + 1], i))
             next == [pos EXCEPT ![i] = p + 1]
  <2>2. Merged(m) = [runs |-> runs, cursors |-> cursors, heap |-> heap, out |-> out]
    BY <1>4, <1>7, <1>8, <1>12, <1>13, <1>14, <2>1 DEF Merged
  <2>3. PICK mm : mm = Merged(m)
    OBVIOUS
  <2>4. /\ mm = [runs |-> runs, cursors |-> mm.cursors, heap |-> mm.heap, out |-> mm.out]
        /\ mm.cursors = cursors /\ mm.heap = heap /\ mm.out = out
    BY <2>2, <2>3
  <2>5. next \in [DOMAIN runs -> Nat] /\ next[i] = p + 1
        /\ \A j \in DOMAIN runs : j # i => next[j] = pos[j]
    BY <1>5, <1>12
  <2>6. cursors \in [DOMAIN runs -> Cursors(S)]
        /\ \A j \in DOMAIN runs : HasTaken(cursors[j], runs[j], next[j])
    BY <1>4, <1>5, <1>12, <2>1
  <2>7. (\A j \in open : next[j] # 0)
        /\ (\A j \in DOMAIN runs \ open : next[j] = Len(runs[j]))
    BY <1>5, <1>12, <2>5
  <2>8. Arranges(heap, Pending(runs, next, open))
    <3>1. Node(run[p + 1], i) \notin Pending(runs, pos, open \ {i})
      <4>1. \A j \in open \ {i} : Node(runs[j][pos[j]], j).cursor # Node(run[p + 1], i).cursor
        BY DEF Node
      <4> QED
        BY <4>1, Zenon DEF Pending
    <3>2. Arranges(rest, Pending(runs, pos, open \ {i}))
      BY <1>2, <1>8, <1>11
    <3>3. Pending(runs, next, open) = Pending(runs, pos, open \ {i}) \union {Node(run[p + 1], i)}
      <4>1. \A j \in open \ {i} : Node(runs[j][next[j]], j) = Node(runs[j][pos[j]], j)
        BY <1>12, <2>5
      <4>2. Node(runs[i][next[i]], i) = Node(run[p + 1], i)
        BY <1>4, <2>5
      <4> HIDE DEF next
      <4> QED
        BY <1>3, <4>1, <4>2 DEF Pending
    <3>4. PICK node, nodes : node = Node(run[p + 1], i)
                             /\ nodes = Pending(runs, pos, open \ {i})
      OBVIOUS
    <3>5. Arranges(Push(rest, node), nodes \union {node})
      BY <3>1, <3>2, <3>4, PushArranges
    <3> HIDE DEF next
    <3> QED
      BY <3>3, <3>4, <3>5
  <2>9. ASSUME NEW j \in DOMAIN runs, NEW k \in 1 .. next[j]
        PROVE  (j \in open /\ k = next[j]) \/ \E n \in DOMAIN out : out[n] = runs[j][k]
    <3>1. CASE j # i
      <4>1. next[j] = pos[j]
        BY <2>5, <3>1
      <4> QED
        BY <1>10, <4>1
    <3>2. CASE j = i
      <4>1. next[j] = p + 1 /\ pos[j] = p
        BY <1>4, <2>5, <3>2
      <4>2. k = p + 1 \/ k \in 1 .. p
        BY <1>5, <4>1
      <4>3. k \in 1 .. p => k \in 1 .. pos[j]
        BY <4>1
      <4> QED
        BY <1>3, <1>10, <3>2, <4>1, <4>2, <4>3
    <3> QED
      BY <3>1, <3>2
  <2>10. Takes(m, mm, runs, i, pos, open, next, open)
    BY <1>3, <1>4, <1>8, <1>14, <2>4 DEF Takes
  <2> HIDE DEF cursors, heap, next
  <2>11. MergeAt(mm, runs, S, next, open)
    BY <1>9, <1>12, <2>4, <2>5, <2>6, <2>7, <2>8, <2>9 DEF MergeAt
  <2> QED
    BY <2>3, <2>10, <2>11
<1>15. CASE ~(p < Len(run))
  <2>1. p = Len(run)
    BY <1>5, <1>6, <1>15
  <2>2. Merged(m) = [runs |-> runs, cursors |-> m.cursors, heap |-> rest, out |-> out]
    BY <1>4, <1>7, <1>8, <1>12, <1>13, <1>15 DEF Merged
  <2>3. PICK mm : mm = Merged(m)
    OBVIOUS
  <2>4. /\ mm = [runs |-> runs, cursors |-> mm.cursors, heap |-> mm.heap, out |-> mm.out]
        /\ mm.cursors = m.cursors /\ mm.heap = rest /\ mm.out = out
    BY <2>2, <2>3
  <2>5. Arranges(rest, Pending(runs, pos, open \ {i}))
    BY <1>2, <1>8, <1>11
  <2>6. \A j \in DOMAIN runs \ (open \ {i}) : pos[j] = Len(runs[j])
    BY <1>4, <1>12, <2>1
  <2>7. \A j \in DOMAIN runs : \A k \in 1 .. pos[j] :
          (j \in open \ {i} /\ k = pos[j]) \/ \E n \in DOMAIN out : out[n] = runs[j][k]
    BY <1>10
  <2>8. MergeAt(mm, runs, S, pos, open \ {i})
    BY <1>9, <1>12, <2>4, <2>5, <2>6, <2>7 DEF MergeAt
  <2>9. Takes(m, mm, runs, i, pos, open, pos, open \ {i})
    BY <1>3, <1>4, <1>8, <2>4 DEF Takes
  <2> QED
    BY <2>3, <2>8, <2>9
<1> QED
  BY <1>14, <1>15

\* The record a cursor has taken last is one of its run.
LEMMA TakenRecord ==
  ASSUME NEW S, NEW runs \in Seq(Seq(S)), NEW m, NEW pos, NEW open,
         MergeAt(m, runs, S, pos, open), NEW i \in DOMAIN runs, pos[i] # 0
  PROVE  pos[i] \in 1 .. Len(runs[i]) /\ runs[i][pos[i]] \in S
<1>1. PICK run, c, p : run = runs[i] /\ c = m.cursors[i] /\ p = pos[i]
  OBVIOUS
<1>2. run \in Seq(S) /\ c \in Cursors(S) /\ HasTaken(c, run, p) /\ p \in Nat /\ p # 0
  BY <1>1 DEF MergeAt
<1>3. c.next_record \in Nat /\ p <= c.next_record /\ c.next_record <= Len(run)
      /\ Len(run) \in Nat
  BY <1>2 DEF Cursors, HasTaken
<1>4. p \in 1 .. Len(run)
  BY <1>2, <1>3
<1>5. run[p] \in S
  BY <1>2, <1>4
<1> QED
  BY <1>1, <1>4, <1>5

LEMMA MergedMerges ==
  ASSUME BufferRecords \in Nat \ {0},
         NEW S, NEW runs \in Seq(Seq(S)), NEW m, Merges(m, runs, S), m.heap # <<>>
  PROVE  /\ Merges(Merged(m), runs, S)
         /\ \/ Merged(m).out = m.out
            \/ \E record \in S : Merged(m).out = Append(m.out, record)
<1>1. PICK pos, open : MergeAt(m, runs, S, pos, open)
  BY DEF Merges
<1>2. PICK i, next, still :
        /\ Takes(m, Merged(m), runs, i, pos, open, next, still)
        /\ MergeAt(Merged(m), runs, S, next, still)
  BY <1>1, MergedAt
<1>3. i \in DOMAIN runs /\ pos[i] # 0
  BY <1>1, <1>2 DEF MergeAt, Takes
<1>4. PICK record : record = runs[i][pos[i]]
  OBVIOUS
<1>5. record \in S
  BY <1>1, <1>3, <1>4, TakenRecord
<1>6. Merged(m).out = m.out \/ Merged(m).out = Append(m.out, record)
  BY <1>2, <1>4 DEF Takes, Emitted
<1> QED
  BY <1>2, <1>5, <1>6 DEF Merges

\* When the heap is empty, every record is out.
LEMMA MergeEnds ==
  ASSUME NEW S, NEW runs \in Seq(Seq(S)), NEW m, Merges(m, runs, S), m.heap = <<>>
  PROVE  /\ m.out \in Seq(S)
         /\ \A i \in DOMAIN runs : \A k \in DOMAIN runs[i] :
              \E j \in DOMAIN m.out : m.out[j] = runs[i][k]
<1>1. PICK pos, open : MergeAt(m, runs, S, pos, open)
  BY DEF Merges
<1>2. open = {}
  <2>1. Pending(runs, pos, open) = {}
    BY <1>1 DEF MergeAt, Arranges
  <2> QED
    BY <2>1 DEF Pending
<1>3. ASSUME NEW i \in DOMAIN runs, NEW k \in DOMAIN runs[i]
      PROVE  \E j \in DOMAIN m.out : m.out[j] = runs[i][k]
  <2>1. pos[i] = Len(runs[i]) /\ k \in 1 .. Len(runs[i])
    BY <1>1, <1>2 DEF MergeAt
  <2> QED
    BY <1>1, <1>2, <2>1 DEF MergeAt
<1> QED
  BY <1>1, <1>3 DEF MergeAt

----------------------------------------------------------------------------
(* The order of the merge.                                                 *)

Climbs(run) == \A j, k \in DOMAIN run : j < k => Before(run[j], run[k])

\* The heap is in order, and what is out climbs to what the heap holds.
SortedAt(m, runs, pos, open) ==
  /\ Heaped(m.heap)
  /\ Climbs(m.out)
  /\ m.out # <<>> => \A i \in open : ~Before(runs[i][pos[i]], m.out[Len(m.out)])

Sorts(m, runs, S) ==
  \E pos, open : MergeAt(m, runs, S, pos, open) /\ SortedAt(m, runs, pos, open)

LEMMA PrimedSorts ==
  ASSUME BufferRecords \in Nat \ {0}, NEW S, OrdersRecords(S),
         NEW runs \in Seq(Seq(S)), \A i \in DOMAIN runs : runs[i] # <<>>
  PROVE  Sorts(Primed(runs), runs, S)
<1>1. PICK m : m = Primed(runs)
  OBVIOUS
<1>2. PICK pos : pos = [i \in DOMAIN runs |-> 1]
  OBVIOUS
<1>3. MergeAt(m, runs, S, pos, DOMAIN runs) /\ m.out = <<>>
  BY <1>1, <1>2, PrimedAt
<1>4. Heaped(m.heap)
  BY <1>1, PushedArranges
<1>5. SortedAt(m, runs, pos, DOMAIN runs)
  BY <1>3, <1>4 DEF SortedAt, Climbs
<1> QED
  BY <1>1, <1>3, <1>5 DEF Sorts

LEMMA EmittedClimbs ==
  ASSUME NEW S, OrdersRecords(S), NEW out \in Seq(S), Climbs(out), NEW x \in S,
         out # <<>> => ~Before(x, out[Len(out)])
  PROVE  /\ Climbs(Emitted(out, x)) /\ Emitted(out, x) # <<>>
         /\ Emitted(out, x)[Len(Emitted(out, x))] = x
<1>1. CASE out # <<>> /\ out[Len(out)] = x
  BY <1>1 DEF Emitted
<1>2. CASE ~(out # <<>> /\ out[Len(out)] = x)
  <2>1. PICK l, more : l = Len(out) /\ more = Append(out, x)
    OBVIOUS
  <2>2. Emitted(out, x) = more
    BY <1>2, <2>1 DEF Emitted
  <2>3. /\ more \in Seq(S) /\ Len(more) = l + 1 /\ l \in Nat
        /\ \A k \in 1 .. l : more[k] = out[k]
        /\ more[l + 1] = x
    BY <2>1, AppendProperties
  <2>4. more[Len(more)] = x /\ more # <<>>
    BY <2>3
  <2>5. ASSUME NEW j \in 1 .. l PROVE Before(out[j], x)
    <3>1. l # 0 /\ out # <<>> /\ out[Len(out)] = out[l] /\ out[l] \in S /\ out[j] \in S
      BY <2>1, <2>3
    <3>2. Before(out[l], x)
      BY <1>2, <3>1 DEF OrdersRecords
    <3>3. j # l => Before(out[j], out[l])
      BY <2>1, <2>3 DEF Climbs
    <3>4. PICK a, b : a = out[j] /\ b = out[l]
      OBVIOUS
    <3>5. a \in S /\ b \in S /\ Before(b, x) /\ (a = b \/ Before(a, b))
      BY <3>1, <3>2, <3>3, <3>4
    <3>6. Before(a, x)
      BY <3>5 DEF OrdersRecords
    <3> QED
      BY <3>4, <3>6
  <2>6. ASSUME NEW j \in 1 .. l + 1, NEW k \in 1 .. l + 1, j < k
        PROVE  Before(more[j], more[k])
    <3>1. j \in 1 .. l /\ more[j] = out[j]
      BY <2>3, <2>6
    <3>2. CASE k = l + 1
      BY <2>3, <2>5, <3>1, <3>2
    <3>3. CASE k # l + 1
      <4>1. k \in 1 .. l /\ more[k] = out[k] /\ DOMAIN out = 1 .. l
        BY <2>1, <2>3, <3>3
      <4> QED
        BY <2>6, <3>1, <4>1 DEF Climbs
    <3> QED
      BY <3>2, <3>3
  <2>7. DOMAIN more = 1 .. l + 1
    BY <2>3
  <2>8. Climbs(more)
    BY <2>6, <2>7 DEF Climbs
  <2> QED
    BY <2>2, <2>4, <2>8
<1> QED
  BY <1>1, <1>2

\* A turn of the loop, when the runs ascend: no run is refused, and the order is
\* kept.
LEMMA MergedSorts ==
  ASSUME BufferRecords \in Nat \ {0}, NEW S, OrdersRecords(S),
         NEW runs \in Seq(Seq(S)), \A i \in DOMAIN runs : Climbs(runs[i]),
         NEW m, Sorts(m, runs, S), m.heap # <<>>
  PROVE  MergeAscends(m) /\ Sorts(Merged(m), runs, S)
<1>1. PICK pos, open : MergeAt(m, runs, S, pos, open) /\ SortedAt(m, runs, pos, open)
  BY DEF Sorts
<1>2. PICK mm : mm = Merged(m)
  OBVIOUS
<1>3. PICK i, next, still :
        /\ Takes(m, mm, runs, i, pos, open, next, still)
        /\ MergeAt(mm, runs, S, next, still)
  BY <1>1, <1>2, MergedAt
<1>4. PICK run, c, p, x : run = runs[i] /\ c = m.cursors[i] /\ p = pos[i] /\ x = run[p]
  OBVIOUS
<1>5. /\ i \in DOMAIN runs /\ run \in Seq(S) /\ c \in Cursors(S) /\ HasTaken(c, run, p)
      /\ p \in Nat /\ p # 0 /\ m.runs = runs /\ DOMAIN runs \subseteq Nat
      /\ Climbs(run)
  <2>1. m.runs = runs
    BY <1>1 DEF MergeAt
  <2>2. i \in open
    BY <1>3 DEF Takes
  <2> QED
    BY <1>1, <1>4, <2>1, <2>2 DEF MergeAt
<1>6. x \in S /\ p \in 1 .. Len(run)
  BY <1>1, <1>4, <1>5, TakenRecord
<1>7. Head(m.heap) = Node(x, i) /\ mm.out = Emitted(m.out, x)
  BY <1>3, <1>4 DEF Takes
<1>8. ASSUME p < Len(run)
      PROVE  /\ Before(x, run[p + 1]) /\ ~Before(run[p + 1], x)
             /\ run[p + 1] \in S
  <2>1. p + 1 \in DOMAIN run /\ p \in DOMAIN run /\ p < p + 1 /\ run[p + 1] \in S
    BY <1>5, <1>8
  <2>2. Before(x, run[p + 1])
    BY <1>4, <1>5, <2>1 DEF Climbs
  <2> QED
    BY <1>6, <2>1, <2>2 DEF OrdersRecords
<1>9. MergeAscends(m)
  <2>1. HasNext(run, c) => p < Len(run) /\ NextRecord(run, c) = run[p + 1]
    BY <1>5, AdvancedHasTaken
  <2>2. c.previous = <<x>>
    BY <1>4, <1>5 DEF HasTaken
  <2>3. HasNext(run, c) => Before(c.previous[1], NextRecord(run, c))
    BY <1>8, <2>1, <2>2
  <2>4. Head(m.heap).cursor = i
    BY <1>7 DEF Node
  <2> QED
    BY <1>4, <1>5, <2>3, <2>4 DEF MergeAscends, Ascends
<1>10. PICK nodes : nodes = Pending(runs, pos, open)
  OBVIOUS
<1>11. Arranges(m.heap, nodes) /\ Heaped(m.heap)
  BY <1>1, <1>10 DEF MergeAt, SortedAt
<1>12. nodes \subseteq NodesOf(S)
  <2>1. \A j \in open : j \in DOMAIN runs /\ pos[j] # 0
    BY <1>1 DEF MergeAt
  <2>2. \A j \in open : runs[j][pos[j]] \in S /\ j \in Nat
    BY <1>1, <1>5, <2>1, TakenRecord
  <2> QED
    BY <1>10, <2>2 DEF Pending, Node, NodesOf
<1>13. PICK rest : rest = Popped(m.heap)
  OBVIOUS
<1>14. /\ Heaped(rest) /\ \A node \in nodes : ~Lighter(node, Head(m.heap))
       /\ Arranges(rest, nodes \ {Head(m.heap)})
  BY <1>11, <1>12, <1>13, PopOrders, PopArranges
<1>15. \A j \in open : ~Before(runs[j][pos[j]], x)
  <2>1. \A j \in open : Node(runs[j][pos[j]], j) \in nodes
    BY <1>10 DEF Pending
  <2>2. \A j \in open : ~Lighter(Node(runs[j][pos[j]], j), Node(x, i))
    BY <1>7, <1>14, <2>1
  <2> QED
    BY <2>2 DEF Lighter, Node
<1>16. Heaped(mm.heap)
  <2>1. CASE mm.heap = rest
    BY <1>14, <2>1
  <2>2. CASE p < Len(run) /\ mm.heap = Push(rest, Node(run[p + 1], i))
    <3>1. PICK node : node = Node(run[p + 1], i)
      OBVIOUS
    <3>2. node \in NodesOf(S)
      BY <1>5, <1>8, <2>2, <3>1 DEF Node, NodesOf
    <3>3. node \notin nodes \ {Head(m.heap)}
      <4>1. \A j \in open : j # i => Node(runs[j][pos[j]], j) # node
        BY <3>1 DEF Node
      <4>2. Node(runs[i][pos[i]], i) = Head(m.heap)
        BY <1>4, <1>7
      <4> QED
        BY <1>10, <4>1, <4>2 DEF Pending
    <3> QED
      BY <1>12, <1>14, <2>2, <3>1, <3>2, <3>3, PushOrders
  <2> QED
    BY <1>3, <1>4, <1>13, <2>1, <2>2 DEF Takes
<1>17. Climbs(mm.out) /\ mm.out[Len(mm.out)] = x
  <2>1. m.out \in Seq(S) /\ Climbs(m.out) /\ (m.out # <<>> => ~Before(x, m.out[Len(m.out)]))
    BY <1>1, <1>3, <1>4 DEF MergeAt, SortedAt, Takes
  <2> QED
    BY <1>6, <1>7, <2>1, EmittedClimbs
<1>18. ASSUME NEW j \in still PROVE ~Before(runs[j][next[j]], x)
  <2>1. CASE still = open \ {i} /\ next = pos
    BY <1>15, <2>1
  <2>2. CASE still = open /\ p < Len(run) /\ next = [pos EXCEPT ![i] = p + 1]
    <3>1. pos \in [DOMAIN runs -> Nat] /\ j \in DOMAIN runs
      BY <1>1, <2>2 DEF MergeAt
    <3>2. CASE j = i
      <4>1. next[j] = p + 1
        BY <2>2, <3>1, <3>2
      <4> QED
        BY <1>4, <1>8, <2>2, <3>2, <4>1
    <3>3. CASE j # i
      <4>1. next[j] = pos[j]
        BY <2>2, <3>1, <3>3
      <4> QED
        BY <1>15, <2>2, <4>1
    <3> QED
      BY <3>2, <3>3
  <2> QED
    BY <1>3, <1>4, <2>1, <2>2 DEF Takes
<1>19. SortedAt(mm, runs, next, still)
  BY <1>16, <1>17, <1>18 DEF SortedAt
<1> QED
  BY <1>2, <1>3, <1>9, <1>19 DEF Sorts

----------------------------------------------------------------------------

RecordsOfRuns(runs) == UNION {{runs[i][k] : k \in DOMAIN runs[i]} : i \in DOMAIN runs}

\* vertex_id_merge.cpp:548-604: however many turns the loop takes until its heap
\* is empty, what it has handed out then are the records of its runs, every one
\* of them and no other, whatever the order, the buffers and the runs are, even
\* if these do not ascend.
THEOREM MergeLosesNothing ==
  ASSUME BufferRecords \in Nat \ {0},
         NEW A, NEW runs \in Seq(Seq(A)), \A i \in DOMAIN runs : runs[i] # <<>>,
         NEW n \in Nat, NEW turn, turn[0] = Primed(runs),
         \A i \in 1 .. n : turn[i - 1].heap # <<>> /\ turn[i] = Merged(turn[i - 1]),
         turn[n].heap = <<>>
  PROVE  {turn[n].out[j] : j \in DOMAIN turn[n].out} = RecordsOfRuns(runs)
<1>1. PICK S : S = RecordsOfRuns(runs)
  OBVIOUS
<1>2. runs \in Seq(Seq(S))
  <2>1. ASSUME NEW i \in DOMAIN runs PROVE runs[i] \in Seq(S)
    <3>1. runs[i] \in Seq(A)
      OBVIOUS
    <3>2. \A k \in DOMAIN runs[i] : runs[i][k] \in S
      BY <1>1 DEF RecordsOfRuns
    <3>3. PICK run : run = runs[i]
      OBVIOUS
    <3>4. /\ run = [k \in 1 .. Len(run) |-> run[k]] /\ Len(run) \in Nat
          /\ \A k \in 1 .. Len(run) : run[k] \in S
      BY <3>1, <3>2, <3>3
    <3> QED
      BY <3>3, <3>4, IsASeq
  <2>2. PICK B : B = Seq(S)
    OBVIOUS
  <2>3. runs = [i \in 1 .. Len(runs) |-> runs[i]] /\ Len(runs) \in Nat
        /\ \A i \in 1 .. Len(runs) : runs[i] \in B
    BY <2>1, <2>2
  <2>4. runs \in Seq(B)
    BY ONLY <2>3, IsASeq
  <2> QED
    BY <2>2, <2>4
<1>3. \A i \in 0 .. n : Merges(turn[i], runs, S)
  <2> DEFINE T == {i \in Nat : i <= n /\ ~Merges(turn[i], runs, S)}
  <2> SUFFICES ASSUME T # {} PROVE FALSE
    OBVIOUS
  <2>1. PICK i \in T : \A j \in T : i <= j
    BY LeastNumber
  <2>2. i # 0
    BY <1>2, <2>1, PrimedMerges
  <2>3. i \in 1 .. n /\ i - 1 \in Nat /\ i - 1 \notin T
    BY <2>1, <2>2
  <2>4. Merges(turn[i - 1], runs, S)
    BY <2>3
  <2>5. turn[i - 1].heap # <<>> /\ turn[i] = Merged(turn[i - 1])
    BY <2>3
  <2>6. Merges(turn[i], runs, S)
    BY <1>2, <2>4, <2>5, MergedMerges
  <2> QED
    BY <2>1, <2>6
<1>4. PICK m : m = turn[n]
  OBVIOUS
<1>5. Merges(m, runs, S) /\ m.heap = <<>>
  BY <1>3, <1>4
<1>6. /\ m.out \in Seq(S)
      /\ \A i \in DOMAIN runs : \A k \in DOMAIN runs[i] :
           \E j \in DOMAIN m.out : m.out[j] = runs[i][k]
  BY <1>2, <1>5, MergeEnds
<1>7. \A j \in DOMAIN m.out : m.out[j] \in S
  BY <1>6
<1>8. \A record \in S : \E j \in DOMAIN m.out : m.out[j] = record
  BY <1>1, <1>6 DEF RecordsOfRuns
<1> QED
  BY <1>1, <1>4, <1>7, <1>8

\* vertex_id_merge.cpp:340-361, 548-604: when each of the runs ascends strictly,
\* so does what the loop hands out, however many turns it takes, and no cursor
\* refuses a record.
THEOREM MergeSorts ==
  ASSUME BufferRecords \in Nat \ {0}, NEW S, OrdersRecords(S),
         NEW runs \in Seq(Seq(S)),
         \A i \in DOMAIN runs : runs[i] # <<>> /\ Climbs(runs[i]),
         NEW n \in Nat, NEW turn, turn[0] = Primed(runs),
         \A i \in 1 .. n : turn[i - 1].heap # <<>> /\ turn[i] = Merged(turn[i - 1])
  PROVE  \A i \in 0 .. n : /\ Climbs(turn[i].out)
                           /\ turn[i].heap # <<>> => MergeAscends(turn[i])
<1>1. \A i \in 0 .. n : Sorts(turn[i], runs, S)
  <2> DEFINE T == {i \in Nat : i <= n /\ ~Sorts(turn[i], runs, S)}
  <2> SUFFICES ASSUME T # {} PROVE FALSE
    OBVIOUS
  <2>1. PICK i \in T : \A j \in T : i <= j
    BY LeastNumber
  <2>2. i # 0
    BY <2>1, PrimedSorts
  <2>3. i \in 1 .. n /\ i - 1 \in Nat /\ i - 1 \notin T
    BY <2>1, <2>2
  <2>4. Sorts(turn[i - 1], runs, S)
    BY <2>3
  <2>5. turn[i - 1].heap # <<>> /\ turn[i] = Merged(turn[i - 1])
    BY <2>3
  <2>6. Sorts(turn[i], runs, S)
    BY <2>4, <2>5, MergedSorts
  <2> QED
    BY <2>1, <2>6
<1>2. ASSUME NEW i \in 0 .. n, turn[i].heap # <<>> PROVE MergeAscends(turn[i])
  <2>1. PICK m : m = turn[i]
    OBVIOUS
  <2>2. Sorts(m, runs, S) /\ m.heap # <<>>
    BY <1>1, <1>2, <2>1
  <2>3. MergeAscends(m)
    BY <2>2, MergedSorts
  <2> QED
    BY <2>1, <2>3
<1> QED
  BY <1>1, <1>2 DEF Sorts, SortedAt
=============================================================================
