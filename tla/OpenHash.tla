------------------------------ MODULE OpenHash ------------------------------
(***************************************************************************)
(* HashMap of hashmap.c: open addressing with quadratic probes, kept less  *)
(* than half full.  A map is [cap, slots] with slots a function from the   *)
(* places in use; Hash stands for fnv1a, and any two keys may collide.     *)
(***************************************************************************)
EXTENDS Integers, Functions, FiniteSetsExt

CONSTANTS Hash(_), MinCap

\* cap_for, with MinCap for its 64.
CapFor(expected) ==
  LET double[cap \in Nat] ==
        IF (expected + 1) * 2 >= cap THEN double[cap * 2] ELSE cap
  IN double[MinCap]

EmptyMap(expected) == [cap |-> CapFor(expected), slots |-> <<>>]

\* probe_idx
Probe(h, i, cap) == (h + ((i * (i + 1)) \div 2)) % cap

\* Where key is, or the first free place on its way.
Place(m, key) ==
  LET at(i) == Probe(Hash(key), i, m.cap)
      stops(i) == at(i) \notin DOMAIN m.slots \/ m.slots[at(i)].key = key
  IN at(CHOOSE i \in 0 .. m.cap - 1 : stops(i) /\ \A j \in 0 .. i - 1 : ~stops(j))

\* The place in hashmap_put that is filled or overwritten.
Insert(m, key, value) ==
  LET p == Place(m, key)
  IN [m EXCEPT !.slots = [q \in DOMAIN @ \cup {p} |->
                            IF q = p THEN [key |-> key, value |-> value] ELSE @[q]]]

Size(m) == Cardinality(DOMAIN m.slots)

\* hashmap_grow: every entry is put again.
Grow(m) ==
  LET put[cap \in {2 * m.cap}, i \in 0 .. m.cap] ==
        IF i = 0 THEN [cap |-> cap, slots |-> <<>>]
        ELSE LET before == put[cap, i - 1]
             IN IF i - 1 \in DOMAIN m.slots
                THEN Insert(before, m.slots[i - 1].key, m.slots[i - 1].value) ELSE before
  IN put[2 * m.cap, m.cap]

\* hashmap_put
Put(m, key, value) ==
  Insert(IF (Size(m) + 1) * 2 >= m.cap THEN Grow(m) ELSE m, key, value)

\* hashmap_get, as 0 or 1.
Has(m, key) == Place(m, key) \in DOMAIN m.slots
=============================================================================
