---------------------------- MODULE TimerProofs ----------------------------
(* Theorems about Timer, for any ids, any number of placeholders and any   *)
(* length of time.                                                         *)
EXTENDS Timer, SequenceTheorems, TLAPS

(* The steps of the timer, told apart. *)
Action == \/ Tick \/ SiftUp \/ SiftUpEnds \/ SiftDown \/ SiftDownEnds \/ GetNextTick
          \/ \E id \in Id, timeout \in Timeouts :
                \/ AddNew(id, timeout) \/ Override(id, timeout)
                \/ AdjustExpire(id, timeout)
          \/ \E id \in Id : DoWork(id) \/ DoWorkOnLast(id)
          \/ UNCHANGED vars

LEMMA NextIsAction == [Next]_vars => Action
  BY DEF Next, Loop, Aborted, Action

(* A heap h and an index r that are inverse to each other. *)
Exact(h, r) == /\ \A id \in Id : r[id] # 0 => r[id] \in 1 .. Len(h) /\ h[r[id]].id = id
               /\ \A p \in 1 .. Len(h) : h[p].id # NoId => r[h[p].id] = p

(* The nodes of the constructor stay in front, where no loop and no id     *)
(* reaches them, and sort before every node that add has made.             *)
FrontInv == /\ \A p \in 1 .. Len(heap) : heap[p].id = NoId <=> p <= Placeholders
            /\ \A p \in 1 .. Len(heap) : heap[p].expire = 0 <=> p <= Placeholders
            /\ cur = 0 \/ cur > Placeholders
            /\ next = 0 \/ (next > Placeholders /\ pc = "up")

IInv == TypeOK /\ Exact(heap, ref) /\ FrontInv

-----------------------------------------------------------------------------
(* What the operations do to heap and index. *)

LEMMA HeapElement == ASSUME TypeOK, NEW p \in 1 .. Len(heap)
                     PROVE  /\ heap[p] \in Node
                            /\ heap[p].id \in Id \cup {NoId}
                            /\ heap[p].expire \in Nat
<1>1. heap[p] \in Node
  BY ElementOfSeq DEF TypeOK
<1> QED
  BY <1>1 DEF Node

LEMMA SwapHeap ==
    ASSUME TypeOK, NEW p \in 1 .. Len(heap), NEW q \in 1 .. Len(heap)
    PROVE  /\ Swapped(p, q) \in Seq(Node)
           /\ Len(Swapped(p, q)) = Len(heap)
           /\ \A j \in 1 .. Len(heap) : Swapped(p, q)[j] = IF j = q THEN heap[p]
                                                           ELSE IF j = p THEN heap[q]
                                                           ELSE heap[j]
<1> DEFINE h1 == [heap EXCEPT ![p] = heap[q]]
<1>1. heap \in Seq(Node) /\ heap[p] \in Node /\ heap[q] \in Node
  BY HeapElement DEF TypeOK
<1>2. /\ h1 \in Seq(Node) /\ Len(h1) = Len(heap)
      /\ \A j \in 1 .. Len(heap) : h1[j] = IF j = p THEN heap[q] ELSE heap[j]
  BY <1>1, ExceptSeq
<1> HIDE DEF h1
<1>3. /\ [h1 EXCEPT ![q] = heap[p]] \in Seq(Node)
      /\ Len([h1 EXCEPT ![q] = heap[p]]) = Len(h1)
      /\ \A j \in 1 .. Len(h1) : [h1 EXCEPT ![q] = heap[p]][j] = IF j = q THEN heap[p] ELSE h1[j]
  BY <1>1, <1>2, ExceptSeq
<1>4. Swapped(p, q) = [h1 EXCEPT ![q] = heap[p]]
  BY DEF Swapped, h1
<1> QED
  BY <1>2, <1>3, <1>4

LEMMA SwapRef ==
    ASSUME IInv, NEW p \in 1 .. Len(heap), NEW q \in 1 .. Len(heap)
    PROVE  /\ RefSwapped(p, q) \in [Id -> Nat]
           /\ Exact(Swapped(p, q), RefSwapped(p, q))
<1>1. TypeOK /\ Exact(heap, ref)
  BY DEF IInv
<1>2. RefSwapped(p, q) \in [Id -> Nat]
  <2>1. Len(heap) \in Nat
    BY <1>1, LenProperties DEF TypeOK
  <2> QED
    BY <1>1, <2>1 DEF RefSwapped, TypeOK
<1>3. ASSUME NEW id \in Id, RefSwapped(p, q)[id] # 0
      PROVE  /\ RefSwapped(p, q)[id] \in 1 .. Len(heap)
             /\ Swapped(p, q)[RefSwapped(p, q)[id]].id = id
  BY <1>1, <1>3, SwapHeap DEF RefSwapped, Exact
<1>4. ASSUME NEW j \in 1 .. Len(heap), Swapped(p, q)[j].id # NoId
      PROVE  RefSwapped(p, q)[Swapped(p, q)[j].id] = j
  <2>1. PICK k \in 1 .. Len(heap) : /\ Swapped(p, q)[j] = heap[k]
                                    /\ k = IF j = q THEN p ELSE IF j = p THEN q ELSE j
    BY <1>1, SwapHeap
  <2>2. heap[k].id \in Id /\ heap[k].id # NoId /\ ref[heap[k].id] = k
    BY <1>1, <1>4, <2>1, HeapElement DEF Exact
  <2>3. heap[p].id = heap[k].id => k = p
    BY <1>1, <2>2 DEF Exact
  <2>4. heap[q].id = heap[k].id => k = q
    BY <1>1, <2>2 DEF Exact
  <2> QED
    BY <2>1, <2>2, <2>3, <2>4 DEF RefSwapped
<1> QED
  BY <1>1, <1>2, <1>3, <1>4, SwapHeap DEF Exact

LEMMA DivBounds == ASSUME NEW n \in Nat, n > 1
                   PROVE  n \div 2 \in 1 .. n /\ n \div 2 < n
  OBVIOUS

(* Exchanging two nodes that add has made keeps the invariant's first two  *)
(* parts and the nodes of the constructor.                                 *)
LEMMA SwapStep ==
    ASSUME IInv, NEW p \in 1 .. Len(heap), NEW q \in 1 .. Len(heap),
           p > Placeholders, q > Placeholders,
           heap' = Swapped(p, q), ref' = RefSwapped(p, q)
    PROVE  /\ heap' \in Seq(Node) /\ Len(heap') = Len(heap)
           /\ ref' \in [Id -> Nat]
           /\ Exact(heap', ref')
           /\ \A j \in 1 .. Len(heap') : heap'[j].id = NoId <=> j <= Placeholders
           /\ \A j \in 1 .. Len(heap') : heap'[j].expire = 0 <=> j <= Placeholders
<1>1. TypeOK /\ FrontInv
  BY DEF IInv
<1>2. /\ heap' \in Seq(Node) /\ Len(heap') = Len(heap)
      /\ \A j \in 1 .. Len(heap) : heap'[j] = IF j = q THEN heap[p]
                                              ELSE IF j = p THEN heap[q] ELSE heap[j]
  BY <1>1, SwapHeap
<1>3. ref' \in [Id -> Nat] /\ Exact(heap', ref')
  BY SwapRef
<1>4. /\ \A j \in 1 .. Len(heap) : heap[j].id = NoId <=> j <= Placeholders
      /\ \A j \in 1 .. Len(heap) : heap[j].expire = 0 <=> j <= Placeholders
      /\ ~(p <= Placeholders) /\ ~(q <= Placeholders)
  <2>1. p \in Nat /\ q \in Nat /\ Placeholders \in Nat
    BY TimerAssumption
  <2> QED
    BY <1>1, <2>1 DEF FrontInv
<1>5. ASSUME NEW j \in 1 .. Len(heap)
      PROVE  /\ heap'[j].id = NoId <=> j <= Placeholders
             /\ heap'[j].expire = 0 <=> j <= Placeholders
  <2>1. CASE j = q
    BY <1>2, <1>4, <2>1
  <2>2. CASE j = p
    BY <1>2, <1>4, <2>2
  <2>3. CASE j # p /\ j # q
    BY <1>2, <1>4, <2>3
  <2> QED
    BY <2>1, <2>2, <2>3
<1> QED
  BY <1>2, <1>3, <1>5

LEMMA ChildBounds == ASSUME TypeOK, NEW p \in 1 .. Len(heap), 2 * p <= Len(heap)
                     PROVE  Child(p) \in 1 .. Len(heap) /\ Child(p) > p
<1>1. Len(heap) \in Nat
  BY LenProperties DEF TypeOK
<1>2. 2 * p < Len(heap) => 2 * p + 1 \in 1 .. Len(heap)
  BY <1>1
<1>3. 2 * p \in 1 .. Len(heap)
  BY <1>1
<1>4. CASE Child(p) = 2 * p
  BY <1>1, <1>3, <1>4
<1>5. CASE Child(p) = 2 * p + 1 /\ 2 * p < Len(heap)
  BY <1>1, <1>2, <1>5
<1> QED
  BY <1>4, <1>5 DEF Child

(* Removing the node of a known id: the last node takes its place.         *)
LEMMA RemoveStep ==
    ASSUME IInv, NEW id \in Id, Known(id), RemoveAt(ref[id])
    PROVE  /\ heap' \in Seq(Node) /\ Len(heap') = Len(heap) - 1
           /\ ref[id] \in 1 .. Len(heap)
           /\ \A j \in 1 .. Len(heap') : heap'[j] = IF j = ref[id] THEN heap[Len(heap)]
                                                   ELSE heap[j]
           /\ ref[id] > Placeholders /\ Placeholders <= Len(heap')
           /\ ref' \in [Id -> Nat]
           /\ Exact(heap', ref')
           /\ \A j \in 1 .. Len(heap') : heap'[j].id = NoId <=> j <= Placeholders
           /\ \A j \in 1 .. Len(heap') : heap'[j].expire = 0 <=> j <= Placeholders
<1> DEFINE n == Len(heap)
           p == ref[id]
           h == Swapped(p, n)
           r == RefSwapped(p, n)
<1>1. TypeOK /\ FrontInv /\ Exact(heap, ref)
  BY DEF IInv
<1>2. n \in Nat /\ Placeholders \in Nat \ {0}
  BY <1>1, LenProperties, TimerAssumption DEF TypeOK
<1>3. p \in 1 .. n /\ heap[p].id = id
  BY <1>1 DEF Exact, Known
<1>4. id # NoId
  BY TimerAssumption
<1>5. p > Placeholders /\ n \in 1 .. n /\ n > Placeholders
  BY <1>1, <1>2, <1>3, <1>4 DEF FrontInv
<1>6. /\ h \in Seq(Node) /\ Len(h) = n
      /\ \A j \in 1 .. n : h[j] = IF j = n THEN heap[p] ELSE IF j = p THEN heap[n] ELSE heap[j]
  BY <1>1, <1>3, <1>5, SwapHeap
<1>7. r \in [Id -> Nat] /\ Exact(h, r)
  BY <1>3, <1>5, SwapRef
<1>8. heap' = SubSeq(h, 1, n - 1) /\ ref' = [r EXCEPT ![id] = 0]
  BY <1>3 DEF RemoveAt
<1> HIDE DEF h, r, n, p
<1>9. /\ heap' \in Seq(Node) /\ Len(heap') = n - 1
      /\ \A j \in 1 .. n - 1 : heap'[j] = h[j]
  <2>1. \A j \in 1 .. n - 1 : h[j] \in Node
    BY <1>2, <1>6, ElementOfSeq
  <2>2. n - 1 \in Int /\ 1 \in Int
    BY <1>2
  <2>3. /\ SubSeq(h, 1, n - 1) \in Seq(Node)
        /\ Len(SubSeq(h, 1, n - 1)) = IF 1 <= n - 1 THEN n - 1 - 1 + 1 ELSE 0
        /\ \A i \in 1 .. n - 1 - 1 + 1 : SubSeq(h, 1, n - 1)[i] = h[1 + i - 1]
    BY <2>1, <2>2, SubSeqProperties
  <2> QED
    BY <1>2, <1>5, <1>8, <2>3
<1>10. h[n].id = id
  BY <1>3, <1>5, <1>6
<1>11. Exact(heap', ref')
  <2>1. ASSUME NEW k \in Id, ref'[k] # 0
        PROVE  ref'[k] \in 1 .. n - 1 /\ heap'[ref'[k]].id = k
    <3>1. k # id /\ ref'[k] = r[k]
      BY <1>7, <1>8, <2>1
    <3>2. r[k] \in 1 .. n /\ h[r[k]].id = k
      BY <1>6, <1>7, <2>1, <3>1 DEF Exact
    <3>3. r[k] # n
      BY <1>10, <3>1, <3>2
    <3> QED
      BY <1>2, <1>9, <3>1, <3>2, <3>3
  <2>2. ASSUME NEW j \in 1 .. n - 1, heap'[j].id # NoId
        PROVE  ref'[heap'[j].id] = j
    <3>1. j \in 1 .. n /\ j # n /\ heap'[j] = h[j]
      BY <1>2, <1>9
    <3>2. r[h[j].id] = j
      BY <1>6, <1>7, <2>2, <3>1 DEF Exact
    <3>3. h[j].id # id
      <4>1. r[id] = n
        BY <1>4, <1>5, <1>6, <1>7, <1>10 DEF Exact
      <4> QED
        BY <3>1, <3>2, <4>1
    <3>4. h[j].id \in Id
      <4>1. h[j] \in Node
        BY <1>6, <3>1, ElementOfSeq
      <4> QED
        BY <2>2, <3>1, <4>1 DEF Node
    <3>5. ref'[h[j].id] = r[h[j].id]
      BY <1>7, <1>8, <3>3, <3>4
    <3> QED
      BY <3>1, <3>2, <3>5
  <2> QED
    BY <1>9, <2>1, <2>2 DEF Exact
<1>12. ASSUME NEW j \in 1 .. n - 1
       PROVE  /\ heap'[j].id = NoId <=> j <= Placeholders
              /\ heap'[j].expire = 0 <=> j <= Placeholders
  <2>1. j \in 1 .. n /\ j # n /\ heap'[j] = IF j = p THEN heap[n] ELSE heap[j]
    BY <1>2, <1>6, <1>9
  <2>2. \A i \in 1 .. n : (heap[i].id = NoId <=> i <= Placeholders)
                          /\ (heap[i].expire = 0 <=> i <= Placeholders)
    BY <1>1 DEF FrontInv, n
  <2>3. ~(p <= Placeholders) /\ ~(n <= Placeholders)
    BY <1>2, <1>3, <1>5
  <2>4. CASE j = p
    BY <1>5, <2>1, <2>2, <2>3, <2>4
  <2>5. CASE j # p
    BY <2>1, <2>2, <2>5
  <2> QED
    BY <2>4, <2>5
<1>13. ref' \in [Id -> Nat]
  BY <1>7, <1>8
<1>14. \A j \in 1 .. n - 1 : heap'[j] = IF j = p THEN heap[n] ELSE heap[j]
  <2> SUFFICES ASSUME NEW j \in 1 .. n - 1
               PROVE  heap'[j] = IF j = p THEN heap[n] ELSE heap[j]
    OBVIOUS
  <2>1. j \in 1 .. n /\ j # n
    BY <1>2
  <2> QED
    BY <1>6, <1>9, <2>1
<1> QED
  BY <1>2, <1>3, <1>5, <1>9, <1>11, <1>12, <1>13, <1>14 DEF n, p

-----------------------------------------------------------------------------
(* The invariant. *)

LEMMA InitIInv == Init => IInv
<1> SUFFICES ASSUME Init PROVE IInv
  OBVIOUS
<1> DEFINE node == [id |-> NoId, expire |-> 0]
<1>1. Placeholders \in Nat \ {0}
  BY TimerAssumption
<1>2. heap = [p \in 1 .. Placeholders |-> node] /\ node \in Node
  BY DEF Init, Node
<1>3. heap \in Seq(Node) /\ Len(heap) = Placeholders
  BY <1>1, <1>2
<1>4. TypeOK
  <2>1. ref \in [Id -> Nat] /\ \A id \in Id : ref[id] = 0
    BY DEF Init
  <2>2. now = 1 /\ pc = "idle" /\ cur = 0 /\ next = 0 /\ up = TRUE /\ unsifted = FALSE
    BY DEF Init
  <2>3. cur \in 0 .. Len(heap) /\ next \in 0 .. Len(heap) /\ Placeholders <= Len(heap)
    BY <1>1, <1>3, <2>2
  <2>4. ref \in [Id -> Nat]
    BY <2>1
  <2>5. up \in BOOLEAN /\ unsifted \in BOOLEAN
    BY <2>2
  <2> QED
    BY <1>3, <2>2, <2>3, <2>4, <2>5 DEF TypeOK
<1>5. Exact(heap, ref)
  <2>1. \A p \in 1 .. Len(heap) : heap[p].id = NoId
    BY <1>2, <1>3
  <2>2. \A id \in Id : ref[id] = 0
    BY DEF Init
  <2> QED
    BY <2>1, <2>2 DEF Exact
<1>6. FrontInv
  BY <1>1, <1>2, <1>3 DEF Init, FrontInv
<1> QED
  BY <1>4, <1>5, <1>6 DEF IInv

(* A deadline set in place keeps every node where it is. *)
LEMMA SetExpire ==
    ASSUME IInv, NEW id \in Id, NEW timeout \in Timeouts, Known(id),
           heap' = [heap EXCEPT ![ref[id]].expire = Deadline(timeout)]
    PROVE  /\ heap' \in Seq(Node) /\ Len(heap') = Len(heap)
           /\ ref[id] \in 1 .. Len(heap) /\ ref[id] > Placeholders
           /\ Exact(heap', ref)
           /\ \A j \in 1 .. Len(heap') : heap'[j].id = NoId <=> j <= Placeholders
           /\ \A j \in 1 .. Len(heap') : heap'[j].expire = 0 <=> j <= Placeholders
           /\ \A j \in 1 .. Len(heap) :
                 heap'[j].expire = IF j = ref[id] THEN Deadline(timeout) ELSE heap[j].expire
<1> DEFINE p == ref[id]
           e == [heap[p] EXCEPT !.expire = Deadline(timeout)]
<1>1. TypeOK /\ FrontInv /\ Exact(heap, ref)
  BY DEF IInv
<1>2. p \in 1 .. Len(heap) /\ heap[p].id = id
  BY <1>1 DEF Exact, Known
<1>3. Deadline(timeout) \in Nat /\ Deadline(timeout) # 0
  BY <1>1, TimerAssumption DEF TypeOK, Deadline
<1>4. p > Placeholders
  <2>1. ~(p <= Placeholders)
    BY <1>1, <1>2, TimerAssumption DEF FrontInv
  <2> QED
    BY <1>2, <2>1, TimerAssumption
<1>5. e \in Node /\ e.id = heap[p].id /\ e.expire = Deadline(timeout)
  <2>1. heap[p] \in Node
    BY <1>1, <1>2, HeapElement
  <2> QED
    BY <1>3, <2>1 DEF Node
<1>6. heap' = [heap EXCEPT ![p] = e]
  OBVIOUS
<1> HIDE DEF e
<1>7. /\ heap' \in Seq(Node) /\ Len(heap') = Len(heap)
      /\ \A j \in 1 .. Len(heap) : heap'[j] = IF j = p THEN e ELSE heap[j]
  <2>1. heap \in Seq(Node)
    BY <1>1 DEF TypeOK
  <2> QED
    BY <1>2, <1>5, <1>6, <2>1, ExceptSeq
<1>8. \A j \in 1 .. Len(heap) : heap'[j].id = heap[j].id
  BY <1>5, <1>7
<1>9. Exact(heap', ref)
  BY <1>1, <1>7, <1>8 DEF Exact
<1>10. \A j \in 1 .. Len(heap') : heap'[j].id = NoId <=> j <= Placeholders
  BY <1>1, <1>7, <1>8 DEF FrontInv
<1>11. ASSUME NEW j \in 1 .. Len(heap)
       PROVE  heap'[j].expire = 0 <=> j <= Placeholders
  <2>1. heap[j].expire = 0 <=> j <= Placeholders
    BY <1>1 DEF FrontInv
  <2>2. CASE j = p
    <3>1. ~(j <= Placeholders)
      BY <1>2, <1>4, <2>2, TimerAssumption
    <3> QED
      BY <1>3, <1>5, <1>7, <2>2, <3>1
  <2>3. CASE j # p
    BY <1>7, <2>1, <2>3
  <2> QED
    BY <2>2, <2>3
<1>12. \A j \in 1 .. Len(heap) :
          heap'[j].expire = IF j = p THEN Deadline(timeout) ELSE heap[j].expire
  BY <1>5, <1>7
<1> QED
  BY <1>2, <1>4, <1>7, <1>9, <1>10, <1>11, <1>12

(* A node at the end of the heap for an id that has none. *)
LEMMA AppendStep ==
    ASSUME IInv, NEW id \in Id, NEW timeout \in Timeouts, ~Known(id),
           heap' = Append(heap, [id |-> id, expire |-> Deadline(timeout)]),
           ref' = [ref EXCEPT ![id] = Len(heap) + 1]
    PROVE  /\ heap' \in Seq(Node) /\ Len(heap') = Len(heap) + 1
           /\ \A j \in 1 .. Len(heap) : heap'[j] = heap[j]
           /\ heap'[Len(heap) + 1].expire = Deadline(timeout)
           /\ ref' \in [Id -> Nat]
           /\ Exact(heap', ref')
           /\ \A j \in 1 .. Len(heap') : heap'[j].id = NoId <=> j <= Placeholders
           /\ \A j \in 1 .. Len(heap') : heap'[j].expire = 0 <=> j <= Placeholders
<1> DEFINE n == Len(heap)
           e == [id |-> id, expire |-> Deadline(timeout)]
<1>1. TypeOK /\ FrontInv /\ Exact(heap, ref)
  BY DEF IInv
<1>2. n \in Nat /\ Placeholders \in Nat /\ Placeholders <= n
  BY <1>1, LenProperties, TimerAssumption DEF TypeOK
<1>3. Deadline(timeout) \in Nat /\ Deadline(timeout) # 0
  BY <1>1, TimerAssumption DEF TypeOK, Deadline
<1>4. e \in Node /\ e.id = id /\ e.expire = Deadline(timeout) /\ id # NoId
  BY <1>3, TimerAssumption DEF Node
<1>5. heap' = Append(heap, e) /\ ref' = [ref EXCEPT ![id] = n + 1]
  OBVIOUS
<1> HIDE DEF e
<1>6. /\ heap' \in Seq(Node) /\ Len(heap') = n + 1
      /\ \A j \in 1 .. n : heap'[j] = heap[j]
      /\ heap'[n + 1] = e
  BY <1>1, <1>4, <1>5, AppendProperties DEF TypeOK
<1> HIDE DEF n
<1>7. ref' \in [Id -> Nat]
  BY <1>1, <1>2, <1>5 DEF TypeOK
<1>8. \A j \in 1 .. n : heap[j].id # id
  BY <1>1, <1>4 DEF Exact, Known, n
<1>9. ASSUME NEW k \in Id, ref'[k] # 0
      PROVE  ref'[k] \in 1 .. n + 1 /\ heap'[ref'[k]].id = k
  <2>1. CASE k = id
    BY <1>1, <1>2, <1>4, <1>5, <1>6, <2>1 DEF TypeOK
  <2>2. CASE k # id
    <3>1. ref'[k] = ref[k]
      BY <1>1, <1>5, <2>2 DEF TypeOK
    <3>2. ref[k] \in 1 .. n /\ heap[ref[k]].id = k
      BY <1>1, <1>9, <3>1 DEF Exact, n
    <3> QED
      BY <1>2, <1>6, <3>1, <3>2
  <2> QED
    BY <2>1, <2>2
<1>10. ASSUME NEW j \in 1 .. n + 1, heap'[j].id # NoId
       PROVE  ref'[heap'[j].id] = j
  <2>1. CASE j = n + 1
    BY <1>1, <1>4, <1>5, <1>6, <2>1 DEF TypeOK
  <2>2. CASE j # n + 1
    <3>1. j \in 1 .. n /\ heap'[j] = heap[j]
      BY <1>2, <1>6, <2>2
    <3>2. heap[j].id \in Id /\ ref[heap[j].id] = j
      BY <1>1, <1>10, <3>1, HeapElement DEF Exact, n
    <3>3. ref'[heap[j].id] = ref[heap[j].id]
      BY <1>1, <1>5, <1>8, <3>1, <3>2 DEF TypeOK
    <3> QED
      BY <3>1, <3>2, <3>3
  <2> QED
    BY <2>1, <2>2
<1>11. ASSUME NEW j \in 1 .. n + 1
       PROVE  /\ heap'[j].id = NoId <=> j <= Placeholders
              /\ heap'[j].expire = 0 <=> j <= Placeholders
  <2>1. CASE j = n + 1
    <3>1. ~(j <= Placeholders)
      BY <1>2, <2>1
    <3> QED
      BY <1>3, <1>4, <1>6, <2>1, <3>1
  <2>2. CASE j # n + 1
    <3>1. j \in 1 .. n /\ heap'[j] = heap[j]
      BY <1>2, <1>6, <2>2
    <3> QED
      BY <1>1, <3>1 DEF FrontInv, n
  <2> QED
    BY <2>1, <2>2
<1> QED
  BY <1>4, <1>6, <1>7, <1>9, <1>10, <1>11 DEF Exact, n

LEMMA StepIInv == IInv /\ Action => IInv'
<1> SUFFICES ASSUME IInv, Action PROVE IInv'
  OBVIOUS
<1> USE TimerAssumption
<1>1. TypeOK /\ FrontInv /\ Exact(heap, ref)
  BY DEF IInv
<1>2. Len(heap) \in Nat
  BY <1>1, LenProperties DEF TypeOK
<1>3. CASE Tick
  BY <1>1, <1>3 DEF IInv, TypeOK, FrontInv, Tick
<1>4. CASE SiftUp
  <2>1. /\ cur \in 1 .. Len(heap) /\ cur > 1
        /\ cur \div 2 \in 1 .. cur /\ cur \div 2 < cur
        /\ cur \div 2 \in 1 .. Len(heap)
    BY <1>1, <1>2, <1>4, DivBounds DEF SiftUp, TypeOK
  <2>2. cur > Placeholders
    BY <1>1, <2>1 DEF FrontInv
  <2>3. ~(cur \div 2 <= Placeholders)
    <3>1. heap[cur].expire \in Nat /\ heap[cur].expire # 0
      BY <1>1, <2>1, <2>2, HeapElement DEF FrontInv
    <3>2. heap[cur \div 2].expire # 0
      BY <1>4, <3>1 DEF SiftUp, Less
    <3> QED
      BY <1>1, <2>1, <3>2 DEF FrontInv
  <2>4. cur \div 2 > Placeholders
    BY <2>1, <2>3
  <2>5. heap' = Swapped(cur, cur \div 2) /\ ref' = RefSwapped(cur, cur \div 2)
    BY <1>4 DEF SiftUp
  <2>6. /\ heap' \in Seq(Node) /\ Len(heap') = Len(heap)
        /\ ref' \in [Id -> Nat]
        /\ Exact(heap', ref')
        /\ \A j \in 1 .. Len(heap') : heap'[j].id = NoId <=> j <= Placeholders
        /\ \A j \in 1 .. Len(heap') : heap'[j].expire = 0 <=> j <= Placeholders
    BY <2>1, <2>2, <2>4, <2>5, SwapStep
  <2>7. pc' = "up" /\ cur' = cur \div 2 /\ next' = next /\ UNCHANGED <<up, now, unsifted>>
    BY <1>4 DEF SiftUp, Begin
  <2>8. TypeOK'
    BY <1>1, <2>1, <2>6, <2>7 DEF TypeOK
  <2>9. FrontInv'
    BY <1>1, <2>4, <2>6, <2>7 DEF FrontInv
  <2> QED
    BY <2>6, <2>8, <2>9 DEF IInv
<1>5. CASE SiftUpEnds
  <2>1. /\ UNCHANGED <<up, now, heap, ref, unsifted>>
        /\ \/ next = 0 /\ pc' = "idle" /\ cur' = 0 /\ next' = 0
           \/ next # 0 /\ pc' = "down" /\ cur' = next /\ next' = 0
    BY <1>5 DEF SiftUpEnds, Begin, Idle
  <2>2. TypeOK'
    BY <1>1, <2>1 DEF TypeOK
  <2>3. FrontInv'
    BY <1>1, <2>1 DEF FrontInv
  <2> QED
    BY <1>1, <2>1, <2>2, <2>3 DEF IInv
<1>6. CASE SiftDown
  <2>1. /\ cur \in 1 .. Len(heap)
        /\ Child(cur) \in 1 .. Len(heap) /\ Child(cur) > cur
    <3>1. cur \in 1 .. Len(heap) /\ 2 * cur <= Len(heap)
      BY <1>1, <1>2, <1>6 DEF SiftDown, TypeOK
    <3> QED
      BY <1>1, <3>1, ChildBounds
  <2>2. cur > Placeholders /\ Child(cur) > Placeholders
    BY <1>1, <2>1 DEF FrontInv
  <2>3. heap' = Swapped(cur, Child(cur)) /\ ref' = RefSwapped(cur, Child(cur))
    BY <1>6 DEF SiftDown
  <2>4. /\ heap' \in Seq(Node) /\ Len(heap') = Len(heap)
        /\ ref' \in [Id -> Nat]
        /\ Exact(heap', ref')
        /\ \A j \in 1 .. Len(heap') : heap'[j].id = NoId <=> j <= Placeholders
        /\ \A j \in 1 .. Len(heap') : heap'[j].expire = 0 <=> j <= Placeholders
    BY <2>1, <2>2, <2>3, SwapStep
  <2>5. pc' = "down" /\ cur' = Child(cur) /\ next' = 0 /\ UNCHANGED <<up, now, unsifted>>
    BY <1>6 DEF SiftDown, Begin
  <2>6. TypeOK'
    BY <1>1, <1>2, <2>1, <2>4, <2>5 DEF TypeOK
  <2>7. FrontInv'
    BY <2>2, <2>4, <2>5 DEF FrontInv
  <2> QED
    BY <2>4, <2>6, <2>7 DEF IInv
<1>7. CASE SiftDownEnds
  <2>1. /\ UNCHANGED <<up, now, heap, ref, unsifted>>
        /\ pc' = "idle" /\ cur' = 0 /\ next' = 0
    BY <1>7 DEF SiftDownEnds, Begin, Idle
  <2>2. TypeOK'
    BY <1>1, <1>2, <2>1 DEF TypeOK
  <2>3. FrontInv'
    BY <1>1, <2>1 DEF FrontInv
  <2> QED
    BY <1>1, <2>1, <2>2, <2>3 DEF IInv
<1>8. CASE GetNextTick
  BY <1>1, <1>8 DEF IInv, TypeOK, FrontInv, GetNextTick
<1>9. ASSUME NEW id \in Id, NEW timeout \in Timeouts, AddNew(id, timeout) PROVE IInv'
  <2>1. /\ heap' \in Seq(Node) /\ Len(heap') = Len(heap) + 1
        /\ ref' \in [Id -> Nat]
        /\ Exact(heap', ref')
        /\ \A j \in 1 .. Len(heap') : heap'[j].id = NoId <=> j <= Placeholders
        /\ \A j \in 1 .. Len(heap') : heap'[j].expire = 0 <=> j <= Placeholders
    BY <1>9, AppendStep DEF AddNew
  <2>2. /\ pc' = "up" /\ cur' = Len(heap) + 1 /\ next' = 0
        /\ UNCHANGED <<up, now, unsifted>>
    BY <1>9 DEF AddNew, Begin
  <2>3. TypeOK'
    BY <1>1, <1>2, <2>1, <2>2 DEF TypeOK
  <2>4. Len(heap) + 1 > Placeholders
    BY <1>1, <1>2 DEF TypeOK
  <2>5. FrontInv'
    BY <2>1, <2>2, <2>4 DEF FrontInv
  <2> QED
    BY <2>1, <2>3, <2>5 DEF IInv
<1>10. ASSUME NEW id \in Id, NEW timeout \in Timeouts, Override(id, timeout) \/ AdjustExpire(id, timeout) PROVE IInv'
  <2>1. Known(id) /\ heap' = [heap EXCEPT ![ref[id]].expire = Deadline(timeout)]
    BY <1>10 DEF Override, AdjustExpire
  <2>2. /\ heap' \in Seq(Node) /\ Len(heap') = Len(heap)
        /\ ref[id] \in 1 .. Len(heap) /\ ref[id] > Placeholders
        /\ Exact(heap', ref)
        /\ \A j \in 1 .. Len(heap') : heap'[j].id = NoId <=> j <= Placeholders
        /\ \A j \in 1 .. Len(heap') : heap'[j].expire = 0 <=> j <= Placeholders
    BY <2>1, SetExpire
  <2>3. CASE Override(id, timeout)
    <3>1. UNCHANGED <<up, now, ref, pc, cur, next>> /\ unsifted' \in BOOLEAN
      BY <2>3 DEF Override
    <3>2. TypeOK'
      BY <1>1, <2>2, <3>1 DEF TypeOK
    <3>3. FrontInv'
      BY <1>1, <2>2, <3>1 DEF FrontInv
    <3> QED
      BY <2>2, <3>1, <3>2, <3>3 DEF IInv
  <2>4. CASE AdjustExpire(id, timeout)
    <3>1. /\ pc' = "down" /\ cur' = ref[id] /\ next' = 0
          /\ UNCHANGED <<up, now, ref>> /\ unsifted' \in BOOLEAN
      BY <2>4 DEF AdjustExpire, Begin
    <3>2. TypeOK'
      BY <1>1, <1>2, <2>2, <3>1 DEF TypeOK
    <3>3. FrontInv'
      BY <2>2, <3>1 DEF FrontInv
    <3> QED
      BY <2>2, <3>1, <3>2, <3>3 DEF IInv
  <2> QED
    BY <1>10, <2>3, <2>4
<1>11. ASSUME NEW id \in Id, DoWork(id) \/ DoWorkOnLast(id) PROVE IInv'
  <2>1. pc = "idle" /\ Known(id) /\ RemoveAt(ref[id])
    BY <1>11 DEF DoWork, DoWorkOnLast
  <2>2. /\ heap' \in Seq(Node) /\ Len(heap') = Len(heap) - 1
        /\ ref[id] > Placeholders /\ Placeholders <= Len(heap')
        /\ ref' \in [Id -> Nat]
        /\ Exact(heap', ref')
        /\ \A j \in 1 .. Len(heap') : heap'[j].id = NoId <=> j <= Placeholders
        /\ \A j \in 1 .. Len(heap') : heap'[j].expire = 0 <=> j <= Placeholders
    BY <2>1, RemoveStep
  <2>3. ref[id] \in Nat /\ cur = 0 /\ next = 0
    BY <1>1, <2>1 DEF TypeOK, FrontInv
  <2>4. CASE DoWork(id)
    <3>1. /\ pc' = "up" /\ cur' = ref[id] /\ next' = ref[id]
          /\ UNCHANGED <<up, now, unsifted>> /\ ref[id] < Len(heap)
      BY <2>4 DEF DoWork, Begin
    <3>2. TypeOK'
      BY <1>1, <1>2, <2>2, <2>3, <3>1 DEF TypeOK
    <3>3. FrontInv'
      BY <2>2, <3>1 DEF FrontInv
    <3> QED
      BY <2>2, <3>2, <3>3 DEF IInv
  <2>5. CASE DoWorkOnLast(id)
    <3>1. up' = FALSE /\ UNCHANGED <<now, pc, cur, next, unsifted>>
      BY <2>5 DEF DoWorkOnLast
    <3>2. TypeOK'
      <4>1. pc' = "idle" /\ cur' = 0 /\ next' = 0 /\ now' \in Nat \ {0}
        BY <1>1, <2>1, <2>3, <3>1 DEF TypeOK
      <4>2. 0 \in 0 .. Len(heap')
        BY <1>2, <2>2
      <4>3. up' \in BOOLEAN /\ unsifted' \in BOOLEAN
        BY <1>1, <3>1 DEF TypeOK
      <4> QED
        BY <2>2, <4>1, <4>2, <4>3 DEF TypeOK
    <3>3. FrontInv'
      BY <2>2, <2>3, <3>1 DEF FrontInv
    <3> QED
      BY <2>2, <3>2, <3>3 DEF IInv
  <2> QED
    BY <1>11, <2>4, <2>5
<1>12. CASE UNCHANGED vars
  BY <1>1, <1>12 DEF IInv, TypeOK, FrontInv, vars
<1> QED
  BY <1>3, <1>4, <1>5, <1>6, <1>7, <1>8, <1>9, <1>10, <1>11, <1>12 DEF Action

LEMMA Invariance == Spec => []IInv
<1>1. IInv /\ [Next]_vars => IInv'
  BY NextIsAction, StepIInv
<1> QED
  BY InitIInv, <1>1, PTL DEF Spec

-----------------------------------------------------------------------------
(* Every position the loops hold is inside the heap, and the heap never    *)
(* loses a node of the constructor (timer.cc 5, 79-120).                   *)
THEOREM TypeCorrect == Spec => []TypeOK
  BY Invariance, PTL DEF IInv

(* _ref and _heap stay inverse to each other through add, adjustExpire,    *)
(* _delete and every turn of the sifting loops (timer.cc 11-43, 79-129).   *)
THEOREM RefAlwaysExact == Spec => []RefExact
<1>1. IInv => RefExact
  <2> SUFFICES ASSUME IInv PROVE RefExact
    OBVIOUS
  <2>1. DOMAIN heap = 1 .. Len(heap)
    BY LenProperties DEF IInv, TypeOK
  <2> QED
    BY <2>1 DEF IInv, Exact, RefExact, Known
<1> QED
  BY Invariance, <1>1, PTL

(* _siftup never reaches the root, where the parent's index would wrap     *)
(* around: it stops below the constructor's nodes (timer.cc 90-103).       *)
THEOREM SiftAlwaysInside == Spec => []SiftStaysInside
<1>1. IInv => SiftStaysInside
  BY DEF IInv, TypeOK, FrontInv, SiftStaysInside
<1> QED
  BY Invariance, <1>1, PTL

-----------------------------------------------------------------------------
(* The order of the heap.  The place a loop is at is the only one out of   *)
(* order, towards its parent while _siftup runs, towards its children      *)
(* while _siftdown does; and what is above that place sorts before what is *)
(* below it, so that a swap never puts two other nodes out of order.       *)

Pending(p) == \/ pc = "up" /\ p = cur
              \/ pc = "up" /\ cur = next /\ p \div 2 = cur
              \/ pc = "down" /\ p \div 2 = cur

Edges == \A p \in 2 .. Len(heap) :
            ~Pending(p) => heap[p \div 2].expire <= heap[p].expire
Across == \A p \in 2 .. Len(heap) :
            pc # "idle" /\ cur >= 2 /\ p \div 2 = cur =>
                heap[cur \div 2].expire <= heap[p].expire

OrderInv == /\ up /\ ~unsifted => Edges /\ Across
            /\ pc = "up" => next = 0 \/ cur <= next

LEMMA HalfBelow == ASSUME NEW p \in Nat, p >= 2
                   PROVE  /\ p \div 2 \in Nat /\ p \div 2 >= 1 /\ p \div 2 < p
                          /\ p = 2 * (p \div 2) \/ p = 2 * (p \div 2) + 1
  OBVIOUS

LEMMA HalfOfChild == ASSUME NEW c \in Nat
                     PROVE  (2 * c) \div 2 = c /\ (2 * c + 1) \div 2 = c
  OBVIOUS

(* Two neighbours of a tree of n deadlines e are exchanged, which gives g. *)
(* _siftup: node c was early for its place.                                *)
LEMMA ExchangeUp ==
    ASSUME NEW n \in Nat, NEW c \in 2 .. n, NEW kids \in BOOLEAN,
           NEW e, NEW g,
           \A p \in 1 .. n : e[p] \in Nat,
           \A p \in 1 .. n : g[p] = IF p = c THEN e[c \div 2]
                                    ELSE IF p = c \div 2 THEN e[c] ELSE e[p],
           e[c] <= e[c \div 2],
           \A p \in 2 .. n : p # c /\ ~(kids /\ p \div 2 = c) => e[p \div 2] <= e[p],
           \A p \in 2 .. n : p \div 2 = c => e[c \div 2] <= e[p]
    PROVE  /\ \A p \in 2 .. n : p # c \div 2 => g[p \div 2] <= g[p]
           /\ \A p \in 2 .. n : c \div 2 >= 2 /\ p \div 2 = c \div 2 =>
                 g[(c \div 2) \div 2] <= g[p]
<1> DEFINE q == c \div 2
<1>1. q \in 1 .. n /\ q < c
  BY HalfBelow
<1>2. \A p \in 2 .. n : p \div 2 \in 1 .. n /\ p \div 2 < p
  BY HalfBelow
<1>3. ASSUME NEW p \in 2 .. n, p # q PROVE g[p \div 2] <= g[p]
  <2>1. CASE p = c
    BY <1>1, <2>1
  <2>2. CASE p # c /\ p \div 2 = c
    BY <1>1, <1>2, <1>3, <2>2
  <2>3. CASE p # c /\ p \div 2 = q
    <3>1. e[q] <= e[p]
      BY <1>1, <2>3
    <3>2. g[p \div 2] = e[c] /\ g[p] = e[p]
      BY <1>1, <1>3, <2>3
    <3>3. e[c] \in Nat /\ e[q] \in Nat /\ e[p] \in Nat
      BY <1>1
    <3> QED
      BY <3>1, <3>2, <3>3
  <2>4. CASE p # c /\ p \div 2 # c /\ p \div 2 # q
    BY <1>1, <1>2, <1>3, <2>4
  <2> QED
    BY <2>1, <2>2, <2>3, <2>4
<1>4. ASSUME NEW p \in 2 .. n, q >= 2, p \div 2 = q
      PROVE  g[q \div 2] <= g[p]
  <2>1. q \in 2 .. n /\ q \div 2 \in 1 .. n /\ q \div 2 < q /\ q # c /\ q \div 2 # c
    BY <1>1, <1>2, <1>4
  <2>2. e[q \div 2] <= e[q] /\ g[q \div 2] = e[q \div 2]
    BY <2>1
  <2>3. CASE p = c
    BY <2>2, <2>3
  <2>4. CASE p # c
    <3>1. p # q /\ p \div 2 # c
      BY <1>1, <1>2, <1>4
    <3>2. e[q] <= e[p] /\ g[p] = e[p]
      BY <1>4, <2>4, <3>1
    <3>3. e[q \div 2] \in Nat /\ e[q] \in Nat /\ e[p] \in Nat
      BY <2>1
    <3> QED
      BY <2>2, <3>2, <3>3
  <2> QED
    BY <2>3, <2>4
<1> QED
  BY <1>3, <1>4

(* _siftdown: node c was late for its place, m is its first child to go.   *)
LEMMA ExchangeDown ==
    ASSUME NEW n \in Nat, NEW c \in 1 .. n, NEW m \in 2 .. n, m \div 2 = c,
           NEW e, NEW g,
           \A p \in 1 .. n : e[p] \in Nat,
           \A p \in 1 .. n : g[p] = IF p = m THEN e[c]
                                    ELSE IF p = c THEN e[m] ELSE e[p],
           e[m] <= e[c],
           \A p \in 2 .. n : p \div 2 = c => e[m] <= e[p],
           \A p \in 2 .. n : p \div 2 # c => e[p \div 2] <= e[p],
           \A p \in 2 .. n : c >= 2 /\ p \div 2 = c => e[c \div 2] <= e[p]
    PROVE  /\ \A p \in 2 .. n : p \div 2 # m => g[p \div 2] <= g[p]
           /\ \A p \in 2 .. n : p \div 2 = m => g[c] <= g[p]
<1>1. m > c
  BY HalfBelow
<1>2. \A p \in 2 .. n : p \div 2 \in 1 .. n /\ p \div 2 < p
  BY HalfBelow
<1>3. ASSUME NEW p \in 2 .. n, p \div 2 # m PROVE g[p \div 2] <= g[p]
  <2>1. CASE p = c
    <3>1. c >= 2 /\ c \div 2 \in 1 .. n /\ c \div 2 < c
      BY <1>2, <2>1
    <3>2. e[c \div 2] <= e[m]
      BY <3>1
    <3> QED
      BY <1>1, <2>1, <3>1, <3>2
  <2>2. CASE p = m
    BY <1>1, <2>2
  <2>3. CASE p # c /\ p # m /\ p \div 2 = c
    BY <1>1, <1>3, <2>3
  <2>4. CASE p # c /\ p # m /\ p \div 2 # c
    BY <1>2, <1>3, <2>4
  <2> QED
    BY <2>1, <2>2, <2>3, <2>4
<1>4. ASSUME NEW p \in 2 .. n, p \div 2 = m PROVE g[c] <= g[p]
  <2>1. p # m /\ p # c
    BY <1>1, <1>2, <1>4
  <2>2. e[m] <= e[p]
    BY <1>1, <1>4
  <2> QED
    BY <1>1, <2>1, <2>2
<1> QED
  BY <1>3, <1>4

(* Child is the one of the children that expires first. *)
LEMMA ChildIsFirst ==
    ASSUME TypeOK, NEW c \in 1 .. Len(heap), 2 * c <= Len(heap)
    PROVE  /\ Child(c) \in 2 .. Len(heap) /\ Child(c) \div 2 = c
           /\ \A p \in 2 .. Len(heap) : p \div 2 = c =>
                 heap[Child(c)].expire <= heap[p].expire
<1>1. Len(heap) \in Nat
  BY LenProperties DEF TypeOK
<1>2. 2 * c \in 2 .. Len(heap) /\ (2 * c < Len(heap) => 2 * c + 1 \in 2 .. Len(heap))
  BY <1>1
<1>3. Child(c) \in 2 .. Len(heap) /\ Child(c) \div 2 = c
  BY <1>2, HalfOfChild DEF Child
<1>4. ASSUME NEW p \in 2 .. Len(heap), p \div 2 = c
      PROVE  heap[Child(c)].expire <= heap[p].expire
  <2>1. p = 2 * c \/ (p = 2 * c + 1 /\ 2 * c < Len(heap))
    BY <1>1, <1>4, HalfBelow
  <2>2. heap[2 * c].expire \in Nat /\ (2 * c < Len(heap) => heap[2 * c + 1].expire \in Nat)
    BY <1>2, HeapElement
  <2> QED
    BY <2>1, <2>2 DEF Child, Less
<1> QED
  BY <1>3, <1>4

LEMMA InitOrder == Init => OrderInv
<1> SUFFICES ASSUME Init PROVE OrderInv
  OBVIOUS
<1>1. /\ Placeholders \in Nat
      /\ heap = [p \in 1 .. Placeholders |-> [id |-> NoId, expire |-> 0]]
      /\ pc = "idle" /\ now = 1
  BY TimerAssumption DEF Init
<1>2. Len(heap) = Placeholders /\ \A p \in 1 .. Len(heap) : heap[p].expire = 0
  BY <1>1
<1>4. Edges
  BY <1>1, <1>2, HalfBelow DEF Edges
<1> QED
  BY <1>1, <1>4 DEF OrderInv, Across

(* What the tree of deadlines is about in a state of the timer. *)
LEMMA TreeFacts ==
    ASSUME TypeOK
    PROVE  /\ Len(heap) \in Nat /\ cur \in Nat /\ next \in Nat
           /\ \A p \in 1 .. Len(heap) : heap[p].expire \in Nat
           /\ \A p \in 2 .. Len(heap) : p \div 2 \in 1 .. Len(heap) /\ p \div 2 < p
<1>1. Len(heap) \in Nat
  BY LenProperties DEF TypeOK
<1>2. cur \in Nat /\ next \in Nat
  BY <1>1 DEF TypeOK
<1>3. \A p \in 1 .. Len(heap) : heap[p].expire \in Nat
  BY HeapElement
<1>4. \A p \in 2 .. Len(heap) : p \div 2 \in 1 .. Len(heap) /\ p \div 2 < p
  BY <1>1, HalfBelow
<1> QED
  BY <1>1, <1>2, <1>3, <1>4

LEMMA SiftUpOrder == IInv /\ OrderInv /\ SiftUp => OrderInv'
<1> SUFFICES ASSUME IInv, OrderInv, SiftUp PROVE OrderInv'
  OBVIOUS
<1> DEFINE n == Len(heap)
           c == cur
           q == cur \div 2
           kids == next = cur
           e == [p \in 1 .. n |-> heap[p].expire]
           g == [p \in 1 .. n |-> heap'[p].expire]
<1>1. TypeOK
  BY DEF IInv
<1>2. /\ n \in Nat /\ c \in Nat /\ next \in Nat
      /\ \A p \in 1 .. n : heap[p].expire \in Nat
      /\ \A p \in 2 .. n : p \div 2 \in 1 .. n /\ p \div 2 < p
  BY <1>1, TreeFacts
<1>3. c \in 2 .. n
  BY <1>1, <1>2 DEF SiftUp, TypeOK
<1>4. q \in 1 .. n /\ q < c
  BY <1>2, <1>3
<1>5. /\ pc = "up" /\ pc' = "up" /\ cur' = q /\ next' = next
      /\ heap' = Swapped(c, q) /\ UNCHANGED <<up, now, unsifted>>
      /\ ~Less(q, c)
  BY DEF SiftUp, Begin
<1>6. /\ Len(heap') = n
      /\ \A j \in 1 .. n : heap'[j] = IF j = q THEN heap[c]
                                      ELSE IF j = c THEN heap[q] ELSE heap[j]
  BY <1>1, <1>3, <1>4, <1>5, SwapHeap
<1>8. next = 0 \/ q < next
  BY <1>2, <1>3, <1>4, <1>5 DEF OrderInv
<1>9. ASSUME up, ~unsifted PROVE Edges' /\ Across'
  <2>1. Edges /\ Across
    BY <1>9 DEF OrderInv
  <2>2. heap[c].expire <= heap[q].expire
    BY <1>2, <1>3, <1>4, <1>5 DEF Less
  <2>3. \A p \in 2 .. n : p # c /\ ~(kids /\ p \div 2 = c) =>
           heap[p \div 2].expire <= heap[p].expire
    BY <1>5, <2>1 DEF Edges, Pending
  <2>4. \A p \in 2 .. n : p \div 2 = c => heap[q].expire <= heap[p].expire
    BY <1>3, <1>5, <2>1 DEF Across
  <2>5. /\ \A p \in 1 .. n : e[p] \in Nat
        /\ \A p \in 1 .. n : g[p] = IF p = c THEN e[q] ELSE IF p = q THEN e[c] ELSE e[p]
        /\ e[c] <= e[q]
        /\ \A p \in 2 .. n : p # c /\ ~(kids /\ p \div 2 = c) => e[p \div 2] <= e[p]
        /\ \A p \in 2 .. n : p \div 2 = c => e[q] <= e[p]
    BY <1>2, <1>3, <1>4, <1>6, <2>2, <2>3, <2>4
  <2> HIDE DEF e, g, kids, c, n
  <2>6. kids \in BOOLEAN
    BY DEF kids
  <2>7. /\ \A p \in 2 .. n : p # c \div 2 => g[p \div 2] <= g[p]
        /\ \A p \in 2 .. n : c \div 2 >= 2 /\ p \div 2 = c \div 2 =>
              g[(c \div 2) \div 2] <= g[p]
    BY <1>2, <1>3, <2>5, <2>6, ExchangeUp DEF c
  <2>8. /\ \A p \in 2 .. n : p # q => g[p \div 2] <= g[p]
        /\ \A p \in 2 .. n : q >= 2 /\ p \div 2 = q => g[q \div 2] <= g[p]
    BY <2>7 DEF c
  <2>9. \A p \in 1 .. n : g[p] = heap'[p].expire
    BY DEF g
  <2>10. Edges'
    BY <1>2, <1>5, <1>6, <2>8, <2>9 DEF Edges, Pending, n
  <2>11. Across'
    BY <1>2, <1>5, <1>6, <2>8, <2>9, SMTT(60) DEF Across, n
  <2> QED
    BY <2>10, <2>11
<1> QED
  BY <1>2, <1>4, <1>5, <1>8, <1>9 DEF OrderInv

LEMMA SiftDownOrder == IInv /\ OrderInv /\ SiftDown => OrderInv'
<1> SUFFICES ASSUME IInv, OrderInv, SiftDown PROVE OrderInv'
  OBVIOUS
<1> DEFINE n == Len(heap)
           m == Child(cur)
           e == [p \in 1 .. n |-> heap[p].expire]
           g == [p \in 1 .. n |-> heap'[p].expire]
<1>1. TypeOK
  BY DEF IInv
<1>2. /\ n \in Nat /\ cur \in Nat /\ next \in Nat
      /\ \A p \in 1 .. n : heap[p].expire \in Nat
      /\ \A p \in 2 .. n : p \div 2 \in 1 .. n /\ p \div 2 < p
  BY <1>1, TreeFacts
<1>3. cur \in 1 .. n /\ 2 * cur <= n
  BY <1>1, <1>2 DEF SiftDown, TypeOK
<1>4. /\ m \in 2 .. n /\ m \div 2 = cur
      /\ \A p \in 2 .. n : p \div 2 = cur => heap[m].expire <= heap[p].expire
  BY <1>1, <1>3, ChildIsFirst
<1>5. /\ pc = "down" /\ pc' = "down" /\ cur' = m
      /\ heap' = Swapped(cur, m) /\ UNCHANGED <<up, now, unsifted>>
      /\ ~Less(cur, m)
  BY DEF SiftDown, Begin
<1> HIDE DEF m
<1>6. /\ Len(heap') = n
      /\ \A j \in 1 .. n : heap'[j] = IF j = m THEN heap[cur]
                                      ELSE IF j = cur THEN heap[m] ELSE heap[j]
  BY <1>1, <1>3, <1>4, <1>5, SwapHeap
<1>8. ASSUME up, ~unsifted PROVE Edges' /\ Across'
  <2>1. Edges /\ Across
    BY <1>8 DEF OrderInv
  <2>2. heap[m].expire <= heap[cur].expire
    BY <1>2, <1>3, <1>4, <1>5 DEF Less
  <2>3. \A p \in 2 .. n : p \div 2 # cur => heap[p \div 2].expire <= heap[p].expire
    BY <1>5, <2>1 DEF Edges, Pending
  <2>4. \A p \in 2 .. n : cur >= 2 /\ p \div 2 = cur =>
            heap[cur \div 2].expire <= heap[p].expire
    BY <1>3, <1>5, <2>1 DEF Across
  <2>5. cur >= 2 => cur \div 2 \in 1 .. n
    BY <1>2, <1>3
  <2>6. /\ \A p \in 1 .. n : e[p] \in Nat
        /\ \A p \in 1 .. n : g[p] = IF p = m THEN e[cur] ELSE IF p = cur THEN e[m] ELSE e[p]
        /\ e[m] <= e[cur]
        /\ \A p \in 2 .. n : p \div 2 = cur => e[m] <= e[p]
        /\ \A p \in 2 .. n : p \div 2 # cur => e[p \div 2] <= e[p]
        /\ \A p \in 2 .. n : cur >= 2 /\ p \div 2 = cur => e[cur \div 2] <= e[p]
    BY <1>2, <1>3, <1>4, <1>6, <2>2, <2>3, <2>4, <2>5, SMTT(60)
  <2> HIDE DEF e, g, n
  <2>7. /\ \A p \in 2 .. n : p \div 2 # m => g[p \div 2] <= g[p]
        /\ \A p \in 2 .. n : p \div 2 = m => g[cur] <= g[p]
    BY <1>2, <1>3, <1>4, <2>6, ExchangeDown, ZenonT(60)
  <2>8. \A p \in 1 .. n : g[p] = heap'[p].expire
    BY DEF g
  <2>9. Edges'
    BY <1>2, <1>5, <1>6, <2>7, <2>8 DEF Edges, Pending, n
  <2>10. Across'
    BY <1>2, <1>3, <1>4, <1>5, <1>6, <2>7, <2>8 DEF Across, n
  <2> QED
    BY <2>9, <2>10
<1> QED
  BY <1>5, <1>8 DEF OrderInv

(* Where _siftup stops every place is in order, but for the children of    *)
(* the place where _siftdown begins; where that stops, these are too.      *)
LEMMA EndsOrder == IInv /\ OrderInv /\ (SiftUpEnds \/ SiftDownEnds) => OrderInv'
<1> SUFFICES ASSUME IInv, OrderInv, SiftUpEnds \/ SiftDownEnds PROVE OrderInv'
  OBVIOUS
<1> DEFINE n == Len(heap)
<1>1. TypeOK
  BY DEF IInv
<1>2. /\ n \in Nat /\ cur \in Nat /\ next \in Nat
      /\ \A p \in 1 .. n : heap[p].expire \in Nat
      /\ \A p \in 2 .. n : p \div 2 \in 1 .. n /\ p \div 2 < p
  BY <1>1, TreeFacts
<1>3. UNCHANGED <<up, now, heap, unsifted>>
  BY DEF SiftUpEnds, SiftDownEnds
<1>4. pc' \in {"idle", "down"}
  BY DEF SiftUpEnds, SiftDownEnds, Idle, Begin
<1>5. ASSUME up, ~unsifted, SiftUpEnds PROVE Edges' /\ Across'
  <2>1. Edges /\ Across /\ (next = 0 \/ cur <= next)
    BY <1>5 DEF OrderInv, SiftUpEnds
  <2>2. /\ pc = "up" /\ cur \in 2 .. n /\ Less(cur \div 2, cur)
        /\ \/ pc' = "idle" /\ cur' = 0 /\ next = 0
           \/ pc' = "down" /\ cur' = next
    BY <1>1, <1>2, <1>5 DEF SiftUpEnds, Idle, Begin, TypeOK
  <2>3. heap[cur \div 2].expire <= heap[cur].expire
    BY <1>2, <2>2 DEF Less
  <2>4. \A p \in 2 .. n : ~(cur = next /\ p \div 2 = cur) =>
            heap[p \div 2].expire <= heap[p].expire
    BY <2>1, <2>2, <2>3 DEF Edges, Pending
  <2>5. Edges'
    <3> SUFFICES ASSUME NEW p \in 2 .. n, ~Pending(p)'
                 PROVE  heap[p \div 2].expire <= heap[p].expire
      BY <1>3 DEF Edges
    <3>1. ~(cur = next /\ p \div 2 = cur)
      BY <1>2, <2>2 DEF Pending
    <3> QED
      BY <2>4, <3>1
  <2>6. ASSUME NEW p \in 2 .. n, next >= 2, p \div 2 = next
        PROVE  heap[next \div 2].expire <= heap[p].expire
    <3>1. CASE cur = next
      BY <2>1, <2>2, <2>6, <3>1 DEF Across
    <3>2. CASE cur # next
      <4>1. next \in 2 .. n /\ next \div 2 \in 1 .. n
        BY <1>2, <2>6
      <4>2. next \div 2 # next /\ heap[next \div 2].expire <= heap[next].expire
        BY <1>2, <2>4, <3>2, <4>1
      <4>3. heap[next].expire <= heap[p].expire
        BY <2>4, <2>6, <3>2
      <4>4. heap[next \div 2].expire \in Nat /\ heap[next].expire \in Nat /\ heap[p].expire \in Nat
        BY <1>2, <4>1
      <4> QED
        BY <4>2, <4>3, <4>4
    <3> QED
      BY <3>1, <3>2
  <2>7. Across'
    BY <1>3, <2>2, <2>6 DEF Across
  <2> QED
    BY <2>5, <2>7
<1>6. ASSUME up, ~unsifted, SiftDownEnds PROVE Edges' /\ Across'
  <2>1. Edges
    BY <1>6 DEF OrderInv
  <2>2. /\ pc = "down" /\ pc' = "idle" /\ cur \in 1 .. n
        /\ 2 * cur <= n => Less(cur, Child(cur))
    BY <1>1, <1>2, <1>6 DEF SiftDownEnds, Idle, Begin, TypeOK
  <2>3. ASSUME NEW p \in 2 .. n, p \div 2 = cur
        PROVE  heap[cur].expire <= heap[p].expire
    <3>1. 2 * cur <= n
      BY <1>2, <2>2, <2>3, HalfBelow
    <3>2. /\ Child(cur) \in 2 .. n
          /\ heap[Child(cur)].expire <= heap[p].expire
      BY <1>1, <2>2, <2>3, <3>1, ChildIsFirst
    <3>3. heap[cur].expire < heap[Child(cur)].expire
      BY <2>2, <3>1 DEF Less
    <3>4. heap[cur].expire \in Nat /\ heap[Child(cur)].expire \in Nat /\ heap[p].expire \in Nat
      BY <1>2, <2>2, <3>2
    <3> QED
      BY <3>2, <3>3, <3>4
  <2>4. Edges'
    BY <1>2, <1>3, <2>1, <2>2, <2>3 DEF Edges, Pending
  <2> QED
    BY <2>2, <2>4 DEF Across
<1> QED
  BY <1>3, <1>4, <1>5, <1>6 DEF OrderInv

(* add: the new node, at the end of the heap, has no children. *)
LEMMA AddNewOrder ==
    ASSUME IInv, OrderInv, NEW id \in Id, NEW timeout \in Timeouts, AddNew(id, timeout)
    PROVE  OrderInv'
<1> DEFINE n == Len(heap)
<1>1. TypeOK
  BY DEF IInv
<1>2. /\ n \in Nat
      /\ \A p \in 1 .. n : heap[p].expire \in Nat
      /\ \A p \in 2 .. n : p \div 2 \in 1 .. n
  BY <1>1, TreeFacts
<1>3. /\ pc = "idle" /\ pc' = "up" /\ cur' = n + 1 /\ next' = 0
      /\ UNCHANGED <<up, now, unsifted>>
  BY DEF AddNew, Begin
<1>4. /\ Len(heap') = n + 1
      /\ \A j \in 1 .. n : heap'[j] = heap[j]
      /\ heap'[n + 1].expire = Deadline(timeout)
  BY AppendStep DEF AddNew
<1>7. ASSUME up, ~unsifted PROVE Edges' /\ Across'
  <2>1. \A p \in 2 .. n : heap[p \div 2].expire <= heap[p].expire
    BY <1>3, <1>7 DEF OrderInv, Edges, Pending
  <2>2. Edges'
    BY <1>2, <1>3, <1>4, <2>1, SMTT(60) DEF Edges, Pending
  <2>3. \A p \in 2 .. n + 1 : p \div 2 # n + 1
    BY <1>2, HalfBelow
  <2>4. Across'
    BY <1>3, <1>4, <2>3 DEF Across
  <2> QED
    BY <2>2, <2>4
<1> QED
  BY <1>3, <1>7 DEF OrderInv

(* adjustExpire: a node that is not to expire earlier than before stays in *)
(* order with its parent.  add leaves a known id's node where it is.       *)
LEMMA SetExpireOrder ==
    ASSUME IInv, OrderInv, NEW id \in Id, NEW timeout \in Timeouts, Override(id, timeout) \/ AdjustExpire(id, timeout)
    PROVE  OrderInv'
<1> DEFINE n == Len(heap)
           r == ref[id]
<1>1. TypeOK
  BY DEF IInv
<1>2. /\ n \in Nat
      /\ \A p \in 1 .. n : heap[p].expire \in Nat
      /\ \A p \in 2 .. n : p \div 2 \in 1 .. n /\ p \div 2 < p
  BY <1>1, TreeFacts
<1>3. Known(id) /\ heap' = [heap EXCEPT ![ref[id]].expire = Deadline(timeout)]
  BY DEF Override, AdjustExpire
<1>4. /\ Len(heap') = n /\ r \in 1 .. n
      /\ \A j \in 1 .. n : heap'[j].expire = IF j = r THEN Deadline(timeout) ELSE heap[j].expire
  BY <1>3, SetExpire
<1>5. UNCHANGED <<up, now>> /\ pc = "idle"
  BY DEF Override, AdjustExpire
<1>6. heap[r].expire \in Nat /\ Deadline(timeout) \in Nat
  BY <1>1, <1>2, <1>4, TimerAssumption DEF Deadline, TypeOK
<1>7. ASSUME up, ~unsifted PROVE \A p \in 2 .. n : heap[p \div 2].expire <= heap[p].expire
  BY <1>5, <1>7 DEF OrderInv, Edges, Pending
<1>8. CASE Override(id, timeout)
  <2>1. pc' = "idle" /\ unsifted' = (unsifted \/ Deadline(timeout) # heap[r].expire)
    BY <1>5, <1>8 DEF Override
  <2>2. ASSUME up, ~unsifted' PROVE Edges' /\ Across'
    <3>0. ~unsifted /\ Deadline(timeout) = heap[r].expire
      BY <2>1, <2>2, Zenon
    <3>1. \A j \in 1 .. n : heap'[j].expire = heap[j].expire
      BY <1>4, <3>0
    <3>2. \A p \in 2 .. n : heap'[p \div 2].expire <= heap'[p].expire
      BY <1>2, <1>7, <2>2, <3>0, <3>1
    <3> QED
      BY <1>4, <2>1, <3>2 DEF Edges, Across
  <2> QED
    BY <1>5, <2>1, <2>2 DEF OrderInv
<1>9. CASE AdjustExpire(id, timeout)
  <2>1. /\ pc' = "down" /\ cur' = r
        /\ unsifted' = (unsifted \/ Deadline(timeout) < heap[r].expire)
    BY <1>9 DEF AdjustExpire, Begin
  <2>2. ASSUME up, ~unsifted' PROVE Edges' /\ Across'
    <3>0. ~unsifted /\ ~(Deadline(timeout) < heap[r].expire)
      BY <2>1, <2>2, Zenon
    <3>1. \A p \in 2 .. n : heap[p \div 2].expire <= heap[p].expire
      BY <1>7, <2>2, <3>0
    <3>2. heap[r].expire <= Deadline(timeout)
      BY <1>6, <3>0
    <3>3. ASSUME NEW p \in 2 .. n, p \div 2 # r
          PROVE  heap'[p \div 2].expire <= heap'[p].expire
      <4>1. p \in 1 .. n /\ p \div 2 \in 1 .. n
        BY <1>2
      <4>2. heap'[p \div 2].expire = heap[p \div 2].expire
        BY <1>4, <3>3, <4>1
      <4>3. CASE p = r
        BY <1>2, <1>4, <1>6, <3>1, <3>2, <4>1, <4>2, <4>3
      <4>4. CASE p # r
        BY <1>4, <3>1, <4>1, <4>2, <4>4
      <4> QED
        BY <4>3, <4>4
    <3>4. Edges'
      BY <1>4, <2>1, <3>3 DEF Edges, Pending
    <3>5. ASSUME NEW p \in 2 .. n, r >= 2, p \div 2 = r
          PROVE  heap'[r \div 2].expire <= heap'[p].expire
      <4>1. r \in 2 .. n /\ r \div 2 \in 1 .. n /\ r \div 2 # r /\ p # r
        BY <1>2, <1>4, <3>5
      <4>2. heap[r \div 2].expire <= heap[r].expire /\ heap[r].expire <= heap[p].expire
        BY <3>1, <3>5, <4>1
      <4>3. heap[r \div 2].expire \in Nat /\ heap[r].expire \in Nat /\ heap[p].expire \in Nat
        BY <1>2, <4>1
      <4> QED
        BY <1>4, <4>1, <4>2, <4>3, SMTT(60)
    <3>6. Across'
      BY <1>4, <2>1, <3>5 DEF Across
    <3> QED
      BY <3>4, <3>6
  <2> QED
    BY <1>5, <2>1, <2>2 DEF OrderInv
<1> QED
  BY <1>8, <1>9

(* doWork: the node from the end of the heap may belong above or below the *)
(* place it takes.                                                         *)
LEMMA DoWorkOrder ==
    ASSUME IInv, OrderInv, NEW id \in Id, DoWork(id) \/ DoWorkOnLast(id)
    PROVE  OrderInv'
<1> DEFINE n == Len(heap)
           r == ref[id]
<1>1. TypeOK
  BY DEF IInv
<1>2. /\ n \in Nat
      /\ \A p \in 1 .. n : heap[p].expire \in Nat
      /\ \A p \in 2 .. n : p \div 2 \in 1 .. n /\ p \div 2 < p
  BY <1>1, TreeFacts
<1>3. Known(id) /\ RemoveAt(ref[id]) /\ pc = "idle" /\ now' = now
  BY DEF DoWork, DoWorkOnLast
<1>4. /\ Len(heap') = n - 1 /\ r \in 1 .. n
      /\ \A j \in 1 .. n - 1 : heap'[j] = IF j = r THEN heap[n] ELSE heap[j]
  BY <1>3, RemoveStep
<1>7. CASE DoWorkOnLast(id)
  BY <1>3, <1>7 DEF OrderInv, DoWorkOnLast
<1>8. CASE DoWork(id)
  <2>1. /\ pc' = "up" /\ cur' = r /\ next' = r /\ UNCHANGED <<up, unsifted>>
    BY <1>8 DEF DoWork, Begin
  <2>2. ASSUME up, ~unsifted PROVE Edges' /\ Across'
    <3>1. \A p \in 2 .. n : heap[p \div 2].expire <= heap[p].expire
      BY <1>3, <2>2 DEF OrderInv, Edges, Pending
    <3>2. ASSUME NEW p \in 2 .. n - 1, p # r, p \div 2 # r
          PROVE  heap'[p \div 2].expire <= heap'[p].expire
      <4>1. p \in 2 .. n /\ p \div 2 \in 1 .. n - 1 /\ p \in 1 .. n - 1
        BY <1>2
      <4> QED
        BY <1>4, <3>1, <3>2, <4>1
    <3>3. Edges'
      BY <1>4, <2>1, <3>2 DEF Edges, Pending
    <3>4. ASSUME NEW p \in 2 .. n - 1, r >= 2, p \div 2 = r
          PROVE  heap'[r \div 2].expire <= heap'[p].expire
      <4>1. /\ p \in 2 .. n /\ r < p /\ r \in 2 .. n
            /\ r \div 2 \in 1 .. n - 1 /\ r \div 2 # r /\ p # r
        BY <1>2, <1>4, <3>4
      <4>2. heap[r \div 2].expire <= heap[r].expire /\ heap[r].expire <= heap[p].expire
        BY <3>1, <3>4, <4>1
      <4>3. heap[r \div 2].expire \in Nat /\ heap[r].expire \in Nat /\ heap[p].expire \in Nat
        BY <1>2, <4>1
      <4> QED
        BY <1>4, <4>1, <4>2, <4>3
    <3>5. Across'
      BY <1>4, <2>1, <3>4 DEF Across
    <3> QED
      BY <3>3, <3>5
  <2>3. r \in Nat
    BY <1>4
  <2> QED
    BY <2>1, <2>2, <2>3 DEF OrderInv
<1> QED
  BY <1>7, <1>8

LEMMA StepOrder == IInv /\ OrderInv /\ Action => OrderInv'
<1> SUFFICES ASSUME IInv, OrderInv, Action PROVE OrderInv'
  OBVIOUS
<1>1. CASE Tick
  BY <1>1 DEF Tick, OrderInv, Edges, Across, Pending
<1>2. CASE GetNextTick
  BY <1>2 DEF GetNextTick, OrderInv
<1>3. CASE UNCHANGED vars
  BY <1>3 DEF vars, OrderInv, Edges, Across, Pending
<1>4. ASSUME NEW id \in Id, DoWork(id) \/ DoWorkOnLast(id) PROVE OrderInv'
  BY <1>4, DoWorkOrder
<1>5. ASSUME NEW id \in Id, NEW timeout \in Timeouts,
             AddNew(id, timeout) \/ Override(id, timeout) \/ AdjustExpire(id, timeout)
      PROVE  OrderInv'
  BY <1>5, AddNewOrder, SetExpireOrder
<1> QED
  BY <1>1, <1>2, <1>3, <1>4, <1>5, SiftUpOrder, SiftDownOrder, EndsOrder DEF Action

(* Between calls a node never expires before its parent, whatever calls,   *)
(* timeouts, removals and changes of the clock came before, unless a       *)
(* deadline was moved in a direction the call does not sift: by add on a   *)
(* known id, or to an earlier time by adjustExpire (timer.cc 11-16, 30-33, *)
(* 67-129 and timer.h 61).                                                 *)
THEOREM HeapAlwaysOrdered == Spec => []HeapOrder
<1>1. IInv /\ OrderInv /\ [Next]_vars => OrderInv'
  BY NextIsAction, StepOrder
<1>2. IInv /\ OrderInv => HeapOrder
  <2> SUFFICES ASSUME IInv, OrderInv, pc = "idle", up, ~unsifted,
                      NEW p \in 2 .. Len(heap)
               PROVE  ~Less(p, p \div 2)
    BY DEF HeapOrder
  <2>1. TypeOK
    BY DEF IInv
  <2>2. /\ heap[p \div 2].expire \in Nat /\ heap[p].expire \in Nat
    BY <2>1, TreeFacts
  <2>3. heap[p \div 2].expire <= heap[p].expire
    BY DEF OrderInv, Edges, Pending
  <2> QED
    BY <2>2, <2>3 DEF Less
<1> QED
  BY InitOrder, Invariance, <1>1, <1>2, PTL DEF Spec

-----------------------------------------------------------------------------
(* The timer is a table of deadlines. *)

(* A swap exchanges the nodes together with what the index says of them.   *)
LEMMA SwapKeeps ==
    ASSUME IInv, NEW p \in 1 .. Len(heap), NEW q \in 1 .. Len(heap),
           heap' = Swapped(p, q), ref' = RefSwapped(p, q)
    PROVE  DeadlineOf' = DeadlineOf
<1>1. TypeOK /\ Exact(heap, ref)
  BY DEF IInv
<1>2. /\ heap' \in Seq(Node) /\ Len(heap') = Len(heap)
      /\ \A j \in 1 .. Len(heap) : heap'[j] = IF j = q THEN heap[p]
                                              ELSE IF j = p THEN heap[q] ELSE heap[j]
  BY <1>1, SwapHeap
<1>3. DOMAIN heap = 1 .. Len(heap) /\ DOMAIN heap' = 1 .. Len(heap)
  BY <1>1, <1>2, LenProperties DEF TypeOK
<1>4. ASSUME NEW id \in Id
      PROVE  (IF ref'[id] \in DOMAIN heap' THEN heap'[ref'[id]].expire ELSE 0)
                = IF ref[id] \in DOMAIN heap THEN heap[ref[id]].expire ELSE 0
  <2>1. ref'[id] = IF id = heap[p].id THEN q ELSE IF id = heap[q].id THEN p ELSE ref[id]
    BY DEF RefSwapped
  <2>2. /\ id = heap[p].id => ref[id] = p
        /\ id = heap[q].id => ref[id] = q
    BY <1>1, TimerAssumption DEF Exact
  <2>3. ref[id] \in 1 .. Len(heap) => heap[ref[id]].id = id
    <3>1. 0 \notin 1 .. Len(heap)
      OBVIOUS
    <3> QED
      BY <1>1, <3>1 DEF Exact
  <2>4. CASE id = heap[p].id
    BY <1>2, <1>3, <2>1, <2>2, <2>4
  <2>5. CASE id # heap[p].id /\ id = heap[q].id
    BY <1>2, <1>3, <2>1, <2>2, <2>5
  <2>6. CASE id # heap[p].id /\ id # heap[q].id
    BY <1>2, <1>3, <2>1, <2>3, <2>6
  <2> QED
    BY <2>4, <2>5, <2>6
<1> QED
  BY <1>4 DEF DeadlineOf

(* add of a new id *)
LEMMA AddNewSets == ASSUME IInv, NEW id \in Id, NEW timeout \in Timeouts, AddNew(id, timeout) PROVE Table!Set(id, timeout)
<1>1. TypeOK /\ Exact(heap, ref)
  BY DEF IInv
<1>2. ~Known(id) /\ now' = now
      /\ heap' = Append(heap, [id |-> id, expire |-> Deadline(timeout)])
      /\ ref' = [ref EXCEPT ![id] = Len(heap) + 1]
  BY DEF AddNew
<1>3. /\ heap' \in Seq(Node) /\ Len(heap') = Len(heap) + 1
      /\ \A j \in 1 .. Len(heap) : heap'[j] = heap[j]
      /\ heap'[Len(heap) + 1].expire = Deadline(timeout)
  BY <1>2, AppendStep
<1>4. /\ Len(heap) \in Nat
      /\ DOMAIN heap = 1 .. Len(heap) /\ DOMAIN heap' = 1 .. Len(heap) + 1
  BY <1>1, <1>3, LenProperties DEF TypeOK
<1>5. ASSUME NEW k \in Id
      PROVE  (IF ref'[k] \in DOMAIN heap' THEN heap'[ref'[k]].expire ELSE 0)
                = IF k = id THEN now + timeout ELSE DeadlineOf[k]
  <2>1. CASE k = id
    <3>1. ref'[k] = Len(heap) + 1
      BY <1>1, <1>2, <2>1 DEF TypeOK
    <3> QED
      BY <1>3, <1>4, <2>1, <3>1 DEF Deadline
  <2>2. CASE k # id
    <3>1. ref'[k] = ref[k] /\ (ref[k] = 0 \/ ref[k] \in 1 .. Len(heap))
      BY <1>1, <1>2, <2>2 DEF TypeOK, Exact
    <3>2. DeadlineOf[k] = IF ref[k] \in DOMAIN heap THEN heap[ref[k]].expire ELSE 0
      BY DEF DeadlineOf
    <3> QED
      BY <1>3, <1>4, <2>2, <3>1, <3>2
  <2> QED
    BY <2>1, <2>2
<1>6. DeadlineOf' = [DeadlineOf EXCEPT ![id] = now + timeout]
  BY <1>5 DEF DeadlineOf
<1> QED
  BY <1>2, <1>6 DEF Table!Set

(* add of a known id and adjustExpire *)
LEMMA SetInPlaceSets ==
    ASSUME IInv, NEW id \in Id, NEW timeout \in Timeouts, Override(id, timeout) \/ AdjustExpire(id, timeout)
    PROVE  Table!Set(id, timeout)
<1>1. TypeOK /\ Exact(heap, ref)
  BY DEF IInv
<1>2. /\ Known(id) /\ now' = now /\ ref' = ref
      /\ heap' = [heap EXCEPT ![ref[id]].expire = Deadline(timeout)]
  BY DEF Override, AdjustExpire
<1>3. /\ heap' \in Seq(Node) /\ Len(heap') = Len(heap)
      /\ ref[id] \in 1 .. Len(heap)
      /\ \A j \in 1 .. Len(heap) :
            heap'[j].expire = IF j = ref[id] THEN Deadline(timeout) ELSE heap[j].expire
  BY <1>2, SetExpire
<1>4. DOMAIN heap = 1 .. Len(heap) /\ DOMAIN heap' = 1 .. Len(heap)
  BY <1>1, <1>3, LenProperties DEF TypeOK
<1>5. ASSUME NEW k \in Id
      PROVE  (IF ref'[k] \in DOMAIN heap' THEN heap'[ref'[k]].expire ELSE 0)
                = IF k = id THEN now + timeout ELSE DeadlineOf[k]
  <2>1. DeadlineOf[k] = IF ref[k] \in DOMAIN heap THEN heap[ref[k]].expire ELSE 0
    BY DEF DeadlineOf
  <2>2. ref[k] \in 1 .. Len(heap) /\ ref[k] = ref[id] => k = id
    BY <1>1, <1>2 DEF Exact, Known
  <2>3. CASE k = id
    BY <1>2, <1>3, <1>4, <2>3 DEF Deadline
  <2>4. CASE k # id
    BY <1>2, <1>3, <1>4, <2>1, <2>2, <2>4
  <2> QED
    BY <2>3, <2>4
<1>6. DeadlineOf' = [DeadlineOf EXCEPT ![id] = now + timeout]
  BY <1>5 DEF DeadlineOf
<1> QED
  BY <1>2, <1>6 DEF Table!Set

(* doWork *)
LEMMA DoWorkRemoves ==
    ASSUME IInv, NEW id \in Id, DoWork(id) \/ DoWorkOnLast(id)
    PROVE  Table!Remove(id)
<1> DEFINE n == Len(heap)
<1>1. TypeOK /\ FrontInv /\ Exact(heap, ref)
  BY DEF IInv
<1>2. Known(id) /\ now' = now /\ RemoveAt(ref[id])
  BY DEF DoWork, DoWorkOnLast
<1>3. /\ heap' \in Seq(Node) /\ Len(heap') = n - 1
      /\ ref[id] \in 1 .. n /\ ref[id] > Placeholders
      /\ \A j \in 1 .. Len(heap') : heap'[j] = IF j = ref[id] THEN heap[n] ELSE heap[j]
  BY <1>2, RemoveStep
<1>4. /\ n \in Nat /\ DOMAIN heap = 1 .. n /\ DOMAIN heap' = 1 .. n - 1
      /\ heap[ref[id]].id = id /\ n \in 1 .. n
  BY <1>1, <1>2, <1>3, LenProperties DEF TypeOK, Exact, Known
<1>5. ref' = [RefSwapped(ref[id], n) EXCEPT ![id] = 0]
  BY <1>2, <1>4 DEF RemoveAt
<1>6. ASSUME NEW k \in Id
      PROVE  (IF ref'[k] \in DOMAIN heap' THEN heap'[ref'[k]].expire ELSE 0)
                = IF k = id THEN 0 ELSE DeadlineOf[k]
  <2>1. DeadlineOf[k] = IF ref[k] \in 1 .. n THEN heap[ref[k]].expire ELSE 0
    BY <1>4 DEF DeadlineOf
  <2>2. ref'[k] = IF k = id THEN 0 ELSE IF k = heap[n].id THEN ref[id] ELSE ref[k]
    BY <1>4, <1>5 DEF RefSwapped
  <2>3. ref[k] # 0 => ref[k] \in 1 .. n /\ heap[ref[k]].id = k
    BY <1>1 DEF Exact
  <2>4. CASE k = id
    BY <1>4, <2>2, <2>4
  <2>5. CASE k # id /\ k = heap[n].id
    <3>1. ref[k] = n
      BY <1>1, <1>4, <2>5, TimerAssumption DEF Exact
    <3>2. ref[id] # n
      BY <1>4, <2>5
    <3>3. ref[id] \in 1 .. n - 1
      BY <1>3, <1>4, <3>2
    <3> QED
      BY <1>3, <1>4, <2>1, <2>2, <2>5, <3>1, <3>3
  <2>6. CASE k # id /\ k # heap[n].id
    <3>1. ref[k] = 0 \/ ref[k] \in 1 .. n - 1
      BY <1>4, <2>3, <2>6
    <3>2. ref[k] # ref[id] \/ ref[k] = 0
      BY <1>4, <2>3, <2>6
    <3> QED
      BY <1>3, <1>4, <2>1, <2>2, <2>6, <3>1, <3>2
  <2> QED
    BY <2>4, <2>5, <2>6
<1>7. DeadlineOf' = [DeadlineOf EXCEPT ![id] = 0]
  BY <1>6 DEF DeadlineOf
<1>8. DeadlineOf[id] # 0
  <2>1. DeadlineOf[id] = heap[ref[id]].expire
    BY <1>3, <1>4 DEF DeadlineOf
  <2>2. ~(ref[id] <= Placeholders)
    BY <1>3, TimerAssumption
  <2> QED
    BY <1>1, <1>3, <2>1, <2>2 DEF FrontInv
<1> QED
  BY <1>2, <1>7, <1>8 DEF Table!Remove

LEMMA TableStep == IInv /\ Action => [Table!Next]_(Table!tableVars)
<1> SUFFICES ASSUME IInv, Action
             PROVE  Table!Next \/ UNCHANGED <<now, DeadlineOf>>
  BY DEF Table!tableVars
<1>1. CASE Tick
  <2>1. DeadlineOf' = DeadlineOf
    BY <1>1 DEF Tick, DeadlineOf
  <2> QED
    BY <1>1, <2>1 DEF Tick, Table!Tick, Table!Next
<1>2. CASE SiftUp
  <2>1. cur \in 1 .. Len(heap) /\ cur \div 2 \in 1 .. Len(heap)
    <3>1. Len(heap) \in Nat /\ cur \in 1 .. Len(heap) /\ cur > 1
      BY <1>2, LenProperties DEF IInv, TypeOK, SiftUp
    <3> QED
      BY <3>1, DivBounds
  <2> QED
    BY <1>2, <2>1, SwapKeeps DEF SiftUp
<1>3. CASE SiftDown
  <2>1. cur \in 1 .. Len(heap) /\ Child(cur) \in 1 .. Len(heap)
    <3>1. TypeOK /\ cur \in 1 .. Len(heap) /\ 2 * cur <= Len(heap)
      BY <1>3, LenProperties DEF IInv, TypeOK, SiftDown
    <3> QED
      BY <3>1, ChildBounds
  <2> QED
    BY <1>3, <2>1, SwapKeeps DEF SiftDown
<1>4. CASE SiftUpEnds \/ SiftDownEnds \/ GetNextTick \/ UNCHANGED vars
  BY <1>4 DEF SiftUpEnds, SiftDownEnds, GetNextTick, vars, DeadlineOf
<1>5. ASSUME NEW id \in Id, NEW timeout \in Timeouts,
             AddNew(id, timeout) \/ Override(id, timeout) \/ AdjustExpire(id, timeout)
      PROVE  Table!Next
  BY <1>5, AddNewSets, SetInPlaceSets DEF Table!Next
<1>6. ASSUME NEW id \in Id, DoWork(id) \/ DoWorkOnLast(id) PROVE Table!Next
  BY <1>6, DoWorkRemoves DEF Table!Next
<1> QED
  BY <1>1, <1>2, <1>3, <1>4, <1>5, <1>6 DEF Action

(* The timer implements the table of deadlines, for any ids, any number of *)
(* placeholders, any timeouts and any clock: no loop, removal or growth loses,  *)
(* doubles or mixes up a deadline (timer.cc 11-43, 79-129).                *)
THEOREM TimerImplementsTable == Spec => ImplementsTable
<1>1. Init => Table!Init
  <2> SUFFICES ASSUME Init PROVE now = 1 /\ DeadlineOf = [id \in Id |-> 0]
    BY DEF Table!Init
  <2>1. heap \in Seq(Node)
    BY InitIInv DEF IInv, TypeOK
  <2>2. DOMAIN heap = 1 .. Len(heap) /\ \A id \in Id : ref[id] = 0
    BY <2>1, LenProperties DEF Init
  <2>3. 0 \notin 1 .. Len(heap)
    OBVIOUS
  <2>4. \A id \in Id : ref[id] \notin DOMAIN heap
    BY <2>2, <2>3, Zenon
  <2> QED
    BY <2>4 DEF Init, DeadlineOf
<1>2. IInv /\ [Next]_vars => [Table!Next]_(Table!tableVars)
  BY NextIsAction, TableStep
<1> QED
  BY Invariance, <1>1, <1>2, PTL DEF Spec, ImplementsTable, Table!Spec

=============================================================================
