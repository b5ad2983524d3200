--------------------------- MODULE SetOpsTheorems ---------------------------
(***************************************************************************)
(* What insert, remove, push and pop do to the elements of the array and   *)
(* to the queues, for every sequence.  Cited by the proofs about the       *)
(* dispatcher.                                                             *)
(***************************************************************************)
EXTENDS SetOps, SequenceTheorems, TLAPS

\* Dropping the last element, set[#set] = nil.
LEMMA FrontProperties ==
  ASSUME NEW S, NEW s \in Seq(S), s # <<>>
  PROVE  /\ SubSeq(s, 1, Len(s) - 1) \in Seq(S)
         /\ Len(SubSeq(s, 1, Len(s) - 1)) = Len(s) - 1
         /\ \A i \in 1..(Len(s) - 1) : SubSeq(s, 1, Len(s) - 1)[i] = s[i]
<1>1. Len(s) \in Nat \ {0}
  BY EmptySeq
<1> DEFINE n == Len(s) - 1
<1>2. n \in Nat /\ \A i \in 1..n : s[i] \in S
  BY <1>1
<1> HIDE DEF n
<1>3. /\ SubSeq(s, 1, n) \in Seq(S)
      /\ Len(SubSeq(s, 1, n)) = IF 1 <= n THEN n - 1 + 1 ELSE 0
      /\ \A i \in 1..(n - 1 + 1) : SubSeq(s, 1, n)[i] = s[1 + i - 1]
  BY <1>2, SubSeqProperties
<1>4. /\ SubSeq(s, 1, n) \in Seq(S)
      /\ Len(SubSeq(s, 1, n)) = n
      /\ \A i \in 1..n : SubSeq(s, 1, n)[i] = s[i]
  BY <1>2, <1>3
<1> QED
  BY <1>4 DEF n

\* A queue of more than one item is not emptied by pop.
LEMMA TailNonEmpty ==
  ASSUME NEW S, NEW s \in Seq(S), s # <<>>, Len(s) # 1
  PROVE  Tail(s) \in Seq(S) /\ Tail(s) # <<>>
<1>1. Tail(s) \in Seq(S) /\ Len(Tail(s)) = Len(s) - 1
  BY HeadTailProperties
<1>2. Len(s) \in Nat \ {0} /\ Len(<<>>) = 0
  BY EmptySeq
<1>3. Len(Tail(s)) # 0
  BY <1>1, <1>2
<1> QED
  BY <1>1, <1>2, <1>3

\* A queue of one item is emptied by pop.
LEMMA SingletonTail ==
  ASSUME NEW S, NEW s \in Seq(S), Len(s) = 1
  PROVE  Tail(s) = <<>>
<1>1. s # <<>>
  BY EmptySeq
<1>2. Tail(s) \in Seq(S) /\ Len(Tail(s)) = 0
  BY <1>1, HeadTailProperties
<1> QED
  BY <1>2, EmptySeq

\* insert (copas.lua:62-68) adds exactly the value and keeps the array free of
\* repetitions.
LEMMA InsertElems ==
  ASSUME NEW S, NEW set \in Seq(S), NEW value \in S, IsInjective(set)
  PROVE  /\ insert(set, value) \in Seq(S)
         /\ Range(insert(set, value)) = Range(set) \cup {value}
         /\ IsInjective(insert(set, value))
<1>1. CASE value \in Range(set)
  BY <1>1 DEF insert, Range
<1>2. CASE value \notin Range(set)
  <2> DEFINE new == Append(set, value)
  <2>1. /\ new \in Seq(S)
        /\ Len(new) = Len(set) + 1
        /\ \A i \in 1..Len(set) : new[i] = set[i]
        /\ new[Len(set) + 1] = value
    OBVIOUS
  <2>2. insert(set, value) = new
    BY <1>2 DEF insert
  <2>3. Range(new) = Range(set) \cup {value}
    BY <2>1 DEF Range
  <2>4. IsInjective(new)
    BY <1>2, <2>1 DEF IsInjective, Range
  <2> QED
    BY <2>1, <2>2, <2>3, <2>4
<1> QED
  BY <1>1, <1>2

\* remove (copas.lua:70-81) takes out exactly the value: the swap with the last
\* element neither loses nor repeats any other.
LEMMA RemoveElems ==
  ASSUME NEW S, NEW set \in Seq(S), NEW value, IsInjective(set)
  PROVE  /\ remove(set, value) \in Seq(S)
         /\ Range(remove(set, value)) = Range(set) \ {value}
         /\ IsInjective(remove(set, value))
<1>1. CASE value \notin Range(set)
  BY <1>1 DEF remove
<1>2. CASE value \in Range(set)
  <2> DEFINE k == IndexIn(set, value)
             n == Len(set)
             new == remove(set, value)
  <2>1. k \in 1..n /\ set[k] = value
    BY <1>2 DEF IndexIn, Range
  <2>2. n \in Nat /\ n >= 1 /\ \A i \in 1..n : set[i] \in S
    BY <2>1
  <2>0. DOMAIN set = 1..n
    OBVIOUS
  <2>3. new = [i \in 1..(n - 1) |-> IF i = k THEN set[n] ELSE set[i]]
    BY <1>2 DEF remove
  <2>4. new \in Seq(S) /\ Len(new) = n - 1 /\ DOMAIN new = 1..(n - 1)
    <3>1. n - 1 \in Nat /\ new \in [1..(n - 1) -> S]
      BY <2>2, <2>3
    <3> HIDE DEF new, n
    <3> QED
      BY <3>1
  <2>5. \A i \in 1..(n - 1) : new[i] = IF i = k THEN set[n] ELSE set[i]
    BY <2>3
  <2>6. \A i \in 1..n : set[i] = value <=> i = k
    BY <2>1, <2>2 DEF IsInjective
  <2> HIDE DEF new, k
  <2>7. Range(new) \subseteq Range(set) \ {value}
    BY <2>1, <2>2, <2>4, <2>5, <2>6 DEF Range
  <2>8. ASSUME NEW v \in Range(set) \ {value}
        PROVE  v \in Range(new)
    <3>1. PICK i \in 1..n : set[i] = v /\ i # k
      BY <2>0, <2>6 DEF Range
    <3>2. CASE i = n
      <4>1. k \in 1..(n - 1) /\ new[k] = v
        BY <2>1, <2>2, <2>5, <3>1, <3>2
      <4> QED
        BY <2>4, <4>1 DEF Range
    <3>3. CASE i # n
      <4>1. i \in 1..(n - 1) /\ new[i] = v
        BY <2>2, <2>5, <3>1, <3>3
      <4> QED
        BY <2>4, <4>1 DEF Range
    <3> QED
      BY <3>2, <3>3
  <2>9. IsInjective(new)
    <3> SUFFICES ASSUME NEW i \in 1..(n - 1), NEW j \in 1..(n - 1), new[i] = new[j]
                 PROVE  i = j
      BY <2>4 DEF IsInjective
    <3> DEFINE at(m) == IF m = k THEN n ELSE m
    <3>1. at(i) \in 1..n /\ at(j) \in 1..n
      BY <2>2
    <3>2. new[i] = set[at(i)] /\ new[j] = set[at(j)]
      BY <2>5
    <3>3. at(i) = at(j)
      BY <2>0, <3>1, <3>2 DEF IsInjective
    <3> QED
      BY <2>2, <3>3
  <2> QED
    BY <2>4, <2>7, <2>8, <2>9 DEF new
<1> QED
  BY <1>1, <1>2
-----------------------------------------------------------------------------
\* Queueing an item that is not queued: it comes last, and stays the only copy.
LEMMA AppendElems ==
  ASSUME NEW S, NEW s \in Seq(S), NEW v \in S, IsInjective(s), v \notin Range(s)
  PROVE  /\ Append(s, v) \in Seq(S)
         /\ Append(s, v) # <<>>
         /\ Range(Append(s, v)) = Range(s) \cup {v}
         /\ IsInjective(Append(s, v))
<1> DEFINE new == Append(s, v)
<1>1. /\ new \in Seq(S)
      /\ Len(new) = Len(s) + 1
      /\ \A i \in 1..Len(s) : new[i] = s[i]
      /\ new[Len(s) + 1] = v
  OBVIOUS
<1>2. new # <<>>
  BY AppendProperties
<1>3. Range(new) = Range(s) \cup {v}
  BY <1>1 DEF Range
<1>4. IsInjective(new)
  BY <1>1 DEF IsInjective, Range
<1> QED
  BY <1>1, <1>2, <1>3, <1>4

\* Resuming a coroutine that is not running puts it on top of the stack, once.
LEMMA ConsElems ==
  ASSUME NEW S, NEW s \in Seq(S), NEW v \in S, IsInjective(s), v \notin Range(s)
  PROVE  /\ <<v>> \o s \in Seq(S)
         /\ Range(<<v>> \o s) = Range(s) \cup {v}
         /\ IsInjective(<<v>> \o s)
<1> DEFINE new == <<v>> \o s
<1>1. /\ new \in Seq(S)
      /\ Len(new) = Len(s) + 1
      /\ Len(s) \in Nat
      /\ new[1] = v
      /\ \A i \in 1..Len(s) : new[i + 1] = s[i]
  OBVIOUS
<1> HIDE DEF new
<1>2. \A j \in 1..Len(new) : j = 1 \/ (j - 1 \in 1..Len(s) /\ new[j] = s[j - 1])
  BY <1>1
<1>3. Range(new) = Range(s) \cup {v}
  <2>0. DOMAIN new = 1..Len(new) /\ DOMAIN s = 1..Len(s)
    BY <1>1
  <2>1. ASSUME NEW x \in Range(new)
        PROVE  x \in Range(s) \cup {v}
    <3>1. PICK j \in 1..Len(new) : x = new[j]
      BY <2>0 DEF Range
    <3> QED
      BY <1>1, <1>2, <2>0, <3>1 DEF Range
  <2>2. ASSUME NEW x \in Range(s)
        PROVE  x \in Range(new)
    <3>1. PICK i \in 1..Len(s) : x = s[i]
      BY <2>0 DEF Range
    <3>2. i + 1 \in 1..Len(new) /\ new[i + 1] = x
      BY <1>1, <3>1
    <3> QED
      BY <2>0, <3>2 DEF Range
  <2>3. v \in Range(new)
    <3>1. 1 \in 1..Len(new)
      BY <1>1
    <3> QED
      BY <1>1, <3>1 DEF Range
  <2> QED
    BY <2>1, <2>2, <2>3
<1>4. IsInjective(new)
  <2> SUFFICES ASSUME NEW i \in 1..Len(new), NEW j \in 1..Len(new), new[i] = new[j]
               PROVE  i = j
    BY <1>1 DEF IsInjective
  <2>1. \A k \in 1..Len(s) : s[k] # v
    BY DEF Range
  <2>2. i = 1 <=> j = 1
    BY <1>1, <1>2, <2>1
  <2>3. ASSUME i # 1, j # 1
        PROVE  i = j
    <3>1. s[i - 1] = s[j - 1] /\ i - 1 \in 1..Len(s) /\ j - 1 \in 1..Len(s)
      BY <1>2, <2>3
    <3>2. i - 1 = j - 1
      BY <3>1 DEF IsInjective
    <3> QED
      BY <1>1, <3>2
  <2> QED
    BY <2>2, <2>3
<1> QED
  BY <1>1, <1>3, <1>4 DEF new

\* Taking the head off a queue or the stack removes exactly that coroutine.
LEMMA TailElems ==
  ASSUME NEW S, NEW s \in Seq(S), s # <<>>, IsInjective(s)
  PROVE  /\ Head(s) \in S
         /\ Head(s) \in Range(s)
         /\ Tail(s) \in Seq(S)
         /\ Range(Tail(s)) = Range(s) \ {Head(s)}
         /\ IsInjective(Tail(s))
<1>1. /\ Head(s) \in S
      /\ Tail(s) \in Seq(S)
      /\ Len(Tail(s)) = Len(s) - 1
      /\ \A i \in 1..Len(Tail(s)) : Tail(s)[i] = s[i + 1]
      /\ Head(s) = s[1]
  BY HeadTailProperties
<1>2. Len(s) \in Nat \ {0}
  BY EmptySeq
<1> DEFINE t == Tail(s)
           n == Len(s)
<1> HIDE DEF t, n
<1>3. /\ n \in Nat \ {0}
      /\ t \in Seq(S) /\ Len(t) = n - 1 /\ DOMAIN t = 1..(n - 1)
      /\ \A i \in 1..(n - 1) : t[i] = s[i + 1]
      /\ DOMAIN s = 1..n
  BY <1>1, <1>2 DEF t, n
<1>4. \A i, j \in 1..n : s[i] = s[j] => i = j
  BY <1>3 DEF IsInjective
<1>5. \A x \in Range(t) : x \in Range(s) /\ x # s[1]
  <2> SUFFICES ASSUME NEW i \in 1..(n - 1)
               PROVE  t[i] \in Range(s) /\ t[i] # s[1]
    BY <1>3 DEF Range
  <2>1. i + 1 \in 1..n /\ 1 \in 1..n /\ i + 1 # 1
    BY <1>3
  <2> QED
    BY <1>3, <1>4, <2>1 DEF Range
<1>6. \A x \in Range(s) : x # s[1] => x \in Range(t)
  <2> SUFFICES ASSUME NEW i \in 1..n, i # 1
               PROVE  s[i] \in Range(t)
    BY <1>3 DEF Range
  <2>1. i - 1 \in 1..(n - 1) /\ (i - 1) + 1 = i
    BY <1>3
  <2> QED
    BY <1>3, <2>1 DEF Range
<1>7. IsInjective(t)
  <2> SUFFICES ASSUME NEW i \in 1..(n - 1), NEW j \in 1..(n - 1), t[i] = t[j]
               PROVE  i = j
    BY <1>3 DEF IsInjective
  <2>1. i + 1 \in 1..n /\ j + 1 \in 1..n /\ s[i + 1] = s[j + 1]
    BY <1>3
  <2>2. i + 1 = j + 1
    BY <1>4, <2>1
  <2> QED
    BY <1>3, <2>2
<1>8. s[1] \in Range(s)
  BY <1>3 DEF Range
<1> QED
  BY <1>1, <1>5, <1>6, <1>7, <1>8 DEF t

\* Only the empty sequence has no elements.
LEMMA NoElements ==
  ASSUME NEW S, NEW s \in Seq(S)
  PROVE  s = <<>> <=> Range(s) = {}
<1>1. Len(s) \in Nat /\ DOMAIN s = 1..Len(s)
  OBVIOUS
<1>2. (s = <<>>) <=> Len(s) = 0
  BY EmptySeq
<1>3. Len(s) # 0 => s[1] \in Range(s)
  BY <1>1 DEF Range
<1>4. Len(s) = 0 => Range(s) = {}
  BY <1>1 DEF Range
<1> QED
  BY <1>2, <1>3, <1>4

\* A queue of one coroutine is emptied by pop.
LEMMA SoleElement ==
  ASSUME NEW S, NEW s \in Seq(S), s # <<>>, IsInjective(s),
         \A x, y \in Range(s) : x = y
  PROVE  Tail(s) = <<>>
<1>1. /\ Tail(s) \in Seq(S)
      /\ Range(Tail(s)) = Range(s) \ {Head(s)}
      /\ Head(s) \in Range(s)
  BY TailElems
<1>2. Range(Tail(s)) = {}
  BY <1>1
<1> QED
  BY <1>1, <1>2, NoElements
-----------------------------------------------------------------------------
\* In an array without repetitions every element is at one index.
LEMMA IndexUnique ==
  ASSUME NEW S, NEW set \in Seq(S), IsInjective(set), NEW i \in 1..Len(set)
  PROVE  IndexIn(set, set[i]) = i
<1> DEFINE at(j) == j \in 1..Len(set) /\ set[j] = set[i]
<1>1. \A j \in 1..Len(set) : set[j] = set[i] => j = i
  BY DEF IsInjective
<1>2. IndexIn(set, set[i]) \in 1..Len(set) /\ set[IndexIn(set, set[i])] = set[i]
  BY DEF IndexIn
<1> QED
  BY <1>1, <1>2

\* insert leaves the elements of the array where they are.
LEMMA InsertKeepsIndex ==
  ASSUME NEW S, NEW set \in Seq(S), NEW value \in S, IsInjective(set), NEW v \in Range(set)
  PROVE  IndexIn(insert(set, value), v) = IndexIn(set, v)
<1>1. PICK i \in 1..Len(set) : v = set[i]
  BY DEF Range
<1>2. IndexIn(set, v) = i
  BY <1>1, IndexUnique
<1> DEFINE new == insert(set, value)
<1>3. new \in Seq(S) /\ IsInjective(new)
  BY InsertElems
<1>4. i \in 1..Len(new) /\ new[i] = v
  BY <1>1 DEF insert
<1> HIDE DEF new
<1>5. IndexIn(new, new[i]) = i
  BY <1>3, <1>4, IndexUnique
<1> QED
  BY <1>2, <1>4, <1>5 DEF new

\* remove moves no element but the last, and that one forward.
LEMMA RemoveKeepsIndex ==
  ASSUME NEW S, NEW set \in Seq(S), NEW value, IsInjective(set), NEW v \in Range(set), v # value
  PROVE  /\ IndexIn(remove(set, value), v) \in Nat
         /\ IndexIn(remove(set, value), v) <= IndexIn(set, v)
<1> DEFINE n == Len(set)
           new == remove(set, value)
<1>1. PICK i \in 1..n : v = set[i]
  BY DEF Range
<1>2. IndexIn(set, v) = i
  BY <1>1, IndexUnique
<1>3. n \in Nat /\ i \in Nat
  OBVIOUS
<1>4. CASE value \notin Range(set)
  BY <1>2, <1>3, <1>4 DEF remove
<1>5. CASE value \in Range(set)
  <2> DEFINE k == IndexIn(set, value)
  <2>1. k \in 1..n /\ set[k] = value
    BY <1>5 DEF IndexIn, Range
  <2>2. k # i
    BY <1>1, <2>1
  <2>3. new = [j \in 1..(n - 1) |-> IF j = k THEN set[n] ELSE set[j]]
    BY <1>5 DEF remove
  <2>4. new \in Seq(S) /\ IsInjective(new)
    BY RemoveElems
  <2>5. Len(new) = n - 1
    <3>1. n - 1 \in Nat
      BY <1>3, <2>1
    <3>2. DOMAIN new = 1..(n - 1)
      BY <2>3
    <3> HIDE DEF new, n
    <3> QED
      BY <2>4, <3>1, <3>2
  <2> DEFINE j == IF i = n THEN k ELSE i
  <2> HIDE DEF k, n
  <2>6. j \in 1..(n - 1) /\ j <= i /\ j \in Nat
    BY <1>3, <2>1, <2>2
  <2>7. new[j] = v
    BY <1>1, <2>2, <2>3, <2>6
  <2> HIDE DEF new, j
  <2>8. IndexIn(new, new[j]) = j
    BY <2>4, <2>5, <2>6, IndexUnique
  <2> QED
    BY <1>2, <2>6, <2>7, <2>8 DEF new
<1> QED
  BY <1>4, <1>5
=============================================================================
