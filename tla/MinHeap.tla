------------------------------- MODULE MinHeap -------------------------------
(***************************************************************************)
(* heap.c: a binary heap of <<rank, left, right>>, the least on top; an    *)
(* array that starts at 1 here and at 0 in the code.                       *)
(***************************************************************************)
EXTENDS Integers, Sequences

\* heap_less
HeapLess(a, b) ==
  \/ a[1] < b[1]
  \/ a[1] = b[1] /\ a[2] < b[2]
  \/ a[1] = b[1] /\ a[2] = b[2] /\ a[3] < b[3]

\* heap_push: the hole moves up from the end.
HeapPush(h, item) ==
  LET up[d \in Seq(Nat \X Nat \X Nat), i \in Nat] ==
        LET p == i \div 2
        IN IF i > 1 /\ HeapLess(item, d[p]) THEN up[[d EXCEPT ![i] = d[p]], p]
           ELSE [d EXCEPT ![i] = item]
  IN up[Append(h, item), Len(h) + 1]

\* Mutant: only the left child is looked at.
HeapPopLeft(h) ==
  LET last == h[Len(h)]
      n == Len(h) - 1
      down[d \in Seq(Nat \X Nat \X Nat), i \in Nat] ==
        LET l == 2 * i
        IN IF l <= n /\ HeapLess(d[l], last) THEN down[[d EXCEPT ![i] = d[l]], l]
           ELSE [d EXCEPT ![i] = last]
  IN IF n = 0 THEN <<>> ELSE down[SubSeq(h, 1, n), 1]

\* heap_pop: what is left when the top is taken; the hole moves down.
HeapPop(h) ==
  LET last == h[Len(h)]
      n == Len(h) - 1
      down[d \in Seq(Nat \X Nat \X Nat), i \in Nat] ==
        LET l == 2 * i
            r == 2 * i + 1
            left == l <= n /\ HeapLess(d[l], last)
            right == r <= n /\ HeapLess(d[r], IF left THEN d[l] ELSE last)
            s == IF right THEN r ELSE l
        IN IF left \/ right THEN down[[d EXCEPT ![i] = d[s]], s]
           ELSE [d EXCEPT ![i] = last]
  IN IF n = 0 THEN <<>> ELSE down[SubSeq(h, 1, n), 1]

\* No item is less than the one above it.
HeapOrdered(h) == \A i \in 2 .. Len(h) : ~HeapLess(h[i], h[i \div 2])
=============================================================================
