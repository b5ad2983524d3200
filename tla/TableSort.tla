------------------------------ MODULE TableSort ------------------------------
(***************************************************************************)
(* table.sort (ltablib.c): quicksort with the median of three, in place,   *)
(* by raw gets and sets and a comparison the program gives.  The inner     *)
(* loops have no bound test before they compare: the elements at the two   *)
(* ends are what stops them, if the comparison is an order.                *)
(***************************************************************************)
EXTENDS Integers, Sequences, FiniteSets, SequencesExt

CONSTANTS NONE, Element, MaxLen, Orders      \* relations on Element: what a comparison may be

VARIABLES a, less, out

vars == <<a, less, out>>

Less(x, y) == <<x, y>> \in less
Swap(s, i, j) == [s EXCEPT ![i] = s[j], ![j] = s[i]]

\* a[l], a[(l + u) / 2] and a[u] in order.
MedianOfTwo(s, l, u) ==            \* mutant: the middle is not compared with the end
  LET m == (l + u) \div 2
      s1 == IF Less(s[u], s[l]) THEN Swap(s, l, u) ELSE s
  IN IF u - l > 1 /\ Less(s1[m], s1[l]) THEN Swap(s1, m, l) ELSE s1

MedianOfThree(s, l, u) ==
  LET m == (l + u) \div 2
      s1 == IF Less(s[u], s[l]) THEN Swap(s, l, u) ELSE s
  IN IF u - l = 1 THEN s1
     ELSE IF Less(s1[m], s1[l]) THEN Swap(s1, m, l)
     ELSE IF Less(s1[u], s1[m]) THEN Swap(s1, m, u) ELSE s1

\* The next place from i up (d = 1) or down (d = -1) that the pivot stops, or
\* NONE: the place is tested against the bound only after the comparison.
RECURSIVE Scan(_, _, _, _, _), Partition(_, _, _, _, _), AuxSort(_, _, _)

Scan(s, p, i, d, bound) ==
  LET k == i + d
      goOn == IF d = 1 THEN Less(s[k], p) ELSE Less(p, s[k])
  IN IF k \notin DOMAIN s THEN NONE
     ELSE IF ~goOn THEN k
     ELSE IF k * d > bound * d THEN NONE
     ELSE Scan(s, p, k, d, bound)

\* The array, where the pivot belongs, and whether it was an error.
Partition(s, l, u, i, j) ==
  LET p == s[u - 1]
      i1 == Scan(s, p, i, 1, u)
      j1 == Scan(s, p, j, -1, l)
  IN IF i1 = NONE \/ j1 = NONE THEN [s |-> s, i |-> i, bad |-> TRUE]
     ELSE IF j1 < i1 THEN [s |-> Swap(s, u - 1, i1), i |-> i1, bad |-> FALSE]
     ELSE Partition(Swap(s, i1, j1), l, u, i1, j1)

AuxSort(s, l, u) ==
  LET m == MedianOfThree(s, l, u)
      p == Partition(Swap(m, (l + u) \div 2, u - 1), l, u, l, u - 1)
      lo == <<l, p.i - 1>>
      hi == <<p.i + 1, u>>
      ranges == IF p.i - l < u - p.i THEN <<lo, hi>> ELSE <<hi, lo>>     \* the smaller one first
      r == AuxSort(p.s, ranges[1][1], ranges[1][2])
  IN IF l >= u THEN [s |-> s, bad |-> FALSE]
     ELSE IF u - l <= 2 THEN [s |-> m, bad |-> FALSE]
     ELSE IF p.bad THEN p
     ELSE IF r.bad THEN r
     ELSE AuxSort(r.s, ranges[2][1], ranges[2][2])

Sort ==
  /\ out = "unsorted"
  /\ LET r == AuxSort(a, 1, Len(a))
     IN a' = r.s /\ out' = IF r.bad THEN "error" ELSE "sorted"
  /\ UNCHANGED less

Init ==
  /\ a \in UNION {[1 .. n -> Element] : n \in 0 .. MaxLen}
  /\ less \in Orders /\ out = "unsorted"

Spec == Init /\ [][Sort]_vars

\* A comparison that is a strict weak order gives a sorted permutation, and is
\* never asked about anything outside the array; any comparison whatever
\* leaves a permutation.
IsWeakOrder ==
  /\ \A x, y \in Element : ~(Less(x, y) /\ Less(y, x))
  /\ \A x, y, z \in Element : Less(x, z) => Less(x, y) \/ Less(y, z)
Count(s, x) == Cardinality({i \in DOMAIN s : s[i] = x})
SortStep ==
  /\ \A x \in Element : Count(a', x) = Count(a, x)
  /\ IsWeakOrder => out' = "sorted" /\ \A i \in 2 .. Len(a) : ~Less(a'[i], a'[i - 1])
SortsInPlace == [][SortStep]_vars
=============================================================================
