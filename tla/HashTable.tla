------------------------------ MODULE HashTable ------------------------------
(***************************************************************************)
(* The tables of the embedded Lua 5.1 (ltable.c), an array part and a hash *)
(* part with chained scatter and Brent's variation, under what the         *)
(* program, the table library (ltablib.c) and the collector (lgc.c) do to  *)
(* one table.                                                              *)
(*                                                                         *)
(* t.array is the array part; t.node the hash part, indexed from 0, a node *)
(* [key, dead, val, next] each, where dead marks LUA_TDEADKEY; t.last is   *)
(* lastfree; t.dummy is true of the shared empty hash part.  trav is a     *)
(* traversal with next: the key it is at, the keys it has returned, and    *)
(* the keys that have been in the table since it began.                    *)
(***************************************************************************)
EXTENDS Integers, Sequences, FiniteSets, SequencesExt, FiniteSetsExt

CONSTANTS Ints,       \* the integer keys the program uses
          Objs,       \* its collectable keys: strings, tables, functions
          Value, NIL, NONE,
          Hashes,     \* hash functions of keys: functions from Ints \cup Objs to Nat
          Strings,    \* those of Objs that are strings
          MaxArray,   \* bound on sizes: the arrays the program constructs
          MaxInt      \* MAX_INT, small enough for the search to overflow

ASSUME TableAssumption ==
  /\ Ints \subseteq Nat \ {0} /\ Strings \subseteq Objs
  /\ NIL \notin Value \cup Objs /\ NONE \notin Nat

VARIABLES hash, t, trav,
          map         \* what the program has stored: the table's contract

vars == <<hash, t, trav, map>>

Key == Ints \cup Objs
Free == [key |-> NIL, dead |-> FALSE, val |-> NIL, next |-> NONE]
Idle == [on |-> FALSE, at |-> NIL, seen |-> {}, kept |-> {}, twice |-> FALSE, lost |-> FALSE]

(***************************************************************************)
(* Finding a key.                                                          *)
(***************************************************************************)
SizeNode(x) == Cardinality(DOMAIN x.node)
InArray(x, k) == k \in DOMAIN x.array        \* arrayindex, and the test of its callers

\* hashmod takes the remainder by an odd number, hashpow2 by the size.
MainPosition(x, k) ==
  IF k \in Strings THEN hash[k] % SizeNode(x)
  ELSE hash[k] % (IF SizeNode(x) = 1 THEN 1 ELSE SizeNode(x) - 1)

\* The first node on the chain of k that satisfies P, or NONE.
FirstOn(x, k, P(_)) ==
  LET f[i \in DOMAIN x.node] ==
        IF P(x.node[i]) THEN i ELSE IF x.node[i].next = NONE THEN NONE ELSE f[x.node[i].next]
  IN IF k \in Key THEN f[MainPosition(x, k)] ELSE NONE

Node(x, k) == FirstOn(x, k, LAMBDA n : n.key = k /\ ~n.dead)

Get(x, k) ==
  IF InArray(x, k) THEN x.array[k]
  ELSE IF Node(x, k) = NONE THEN NIL ELSE x.node[Node(x, k)].val

(***************************************************************************)
(* Sizes.                                                                  *)
(***************************************************************************)
Pow2(n) == {p \in {1, 2, 4, 8, 16, 32} : p >= n}
Ceil2(n) == Min(Pow2(n))                     \* twoto(ceillog2(n))
IntsIn(x) == {k \in Ints : Get(x, k) # NIL}

MoreThanHalf(S, p) == 2 * Cardinality({k \in S : k <= p}) > p

\* computesizes: the largest array more than half of which is in use.
ArraySize(S) ==
  Max({0} \cup {p \in {1, 2, 4, 8, 16, 32} : p < 2 * Cardinality(S) /\ MoreThanHalf(S, p)})

NodeVector(x, size) ==
  LET n == IF size = 0 THEN 1 ELSE Ceil2(size)
  IN [x EXCEPT !.node = [i \in 0 .. n - 1 |-> Free], !.dummy = size = 0,
               !.last = IF size = 0 THEN 0 ELSE n]

(***************************************************************************)
(* Inserting a key; a table without room for it is rehashed.               *)
(***************************************************************************)
RECURSIVE Put(_, _, _)

\* Re-insertion in resize: the vanishing slice of the array upwards, then
\* the nodes of the old hash part downwards.
Resize(x, na, nh) ==
  LET keep == [i \in 1 .. na |-> IF i \in DOMAIN x.array THEN x.array[i] ELSE NIL]
      gone == [i \in 1 .. Max({0, Len(x.array) - na}) |-> [key |-> na + i, val |-> x.array[na + i]]]
      old == [i \in 1 .. SizeNode(x) |-> x.node[SizeNode(x) - i]]
      new == NodeVector([x EXCEPT !.array = keep], nh)
  IN FoldLeft(LAMBDA y, e : IF e.val = NIL THEN y ELSE Put(y, e.key, e.val), new, gone \o old)

Rehash(x, k) ==
  LET S == IntsIn(x) \cup ({k} \cap Ints)
      use == {i \in DOMAIN x.array : x.array[i] # NIL}
      na == ArraySize(S)
      total == Cardinality(use) + Cardinality({i \in DOMAIN x.node : x.node[i].val # NIL}) + 1
  IN Resize(x, na, total - Cardinality({i \in S : i <= na}))

\* getfreepos: lastfree only goes down.
FreePos(x) == Max({-1} \cup {i \in DOMAIN x.node : i < x.last /\ x.node[i].key = NIL})

Unchained(x, k, v, mp, n) ==  \* mutant: the rest of the chain is lost
  [x EXCEPT !.node[n] = [Free EXCEPT !.key = k, !.val = v], !.node[mp].next = n]

AfterMain(x, k, v, mp, n) ==
  [x EXCEPT !.node[n] = [Free EXCEPT !.key = k, !.val = v, !.next = x.node[mp].next],
            !.node[mp].next = n]

\* A node out of its main position gives way to the key whose main position
\* it holds.
Displace(x, k, v, mp, n) ==
  [x EXCEPT !.node = [i \in DOMAIN @ |->
      CASE i = mp -> [Free EXCEPT !.key = k, !.val = v]
        [] i = n -> x.node[mp]
        [] i \notin {mp, n} /\ x.node[i].next = mp -> [x.node[i] EXCEPT !.next = n]
        [] OTHER -> x.node[i]]]

NewKey(x, k, v) ==
  LET mp == MainPosition(x, k)
      n == FreePos(x)
      y == [x EXCEPT !.last = n]
  IN IF x.node[mp].val = NIL /\ ~x.dummy
     THEN [x EXCEPT !.node[mp] = [@ EXCEPT !.key = k, !.dead = FALSE, !.val = v]]
     ELSE IF n = -1 THEN Put(Rehash(x, k), k, v)
     ELSE IF MainPosition(x, x.node[mp].key) # mp THEN Displace(y, k, v, mp, n)
     ELSE AfterMain(y, k, v, mp, n)

Put(x, k, v) ==
  IF InArray(x, k) THEN [x EXCEPT !.array[k] = v]
  ELSE IF Node(x, k) # NONE THEN [x EXCEPT !.node[Node(x, k)].val = v]
  ELSE NewKey(x, k, v)

NewTable(na, nh) ==
  NodeVector([array |-> [i \in 1 .. na |-> NIL], node |-> <<>>, last |-> 0, dummy |-> TRUE], nh)

(***************************************************************************)
(* The length: a border, found by binary search.                           *)
(***************************************************************************)
RECURSIVE Between(_, _, _), Unbound(_, _, _)

Between(x, i, j) ==
  IF j - i <= 1 THEN i
  ELSE LET m == (i + j) \div 2
       IN IF Get(x, m) = NIL THEN Between(x, i, m) ELSE Between(x, m, j)

Unbound(x, i, j) ==
  IF Get(x, j) = NIL THEN Between(x, i, j)
  ELSE IF 2 * j > MaxInt THEN Min({n \in 1 .. 2 * MaxInt : Get(x, n) = NIL}) - 1
  ELSE Unbound(x, j, 2 * j)

Getn(x) ==
  LET j == Len(x.array)
  IN IF j > 0 /\ x.array[j] = NIL THEN Between(x, 0, j)
     ELSE IF x.dummy THEN j
     ELSE Unbound(x, j, j + 1)

(***************************************************************************)
(* Traversal: all of the array part, then all of the nodes.                *)
(***************************************************************************)
LiveIndex(x, k) ==            \* mutant: a dead key is not found
  IF InArray(x, k) THEN k ELSE IF Node(x, k) = NONE THEN NONE ELSE Len(x.array) + 1 + Node(x, k)

FindIndex(x, k) ==
  LET n == FirstOn(x, k, LAMBDA e : e.key = k)
  IN IF k = NIL THEN 0
     ELSE IF InArray(x, k) THEN k
     ELSE IF n = NONE THEN NONE ELSE Len(x.array) + 1 + n

Entry(x, i) ==
  IF i <= Len(x.array) THEN [key |-> i, val |-> x.array[i]] ELSE x.node[i - Len(x.array) - 1]

After(x, i) == {j \in i + 1 .. Len(x.array) + SizeNode(x) : Entry(x, j).val # NIL}

(***************************************************************************)
(* What the program and the collector do.  map is kept by what each        *)
(* operation promises; t by what it does.                                  *)
(***************************************************************************)
Present == {k \in Key : map[k] # NIL}
Forgetting(S) == IF trav.on THEN [trav EXCEPT !.kept = @ \ S] ELSE trav

\* A key that is there may be assigned to during a traversal; assigning to
\* one that is not ends what next promises.
Assign(k, v) ==
  /\ t' = Put(t, k, v)
  /\ map' = [map EXCEPT ![k] = v]
  /\ trav' = IF k \notin Present THEN Idle ELSE IF v = NIL THEN Forgetting({k}) ELSE trav
  /\ UNCHANGED hash

Begin ==
  /\ ~trav.on
  /\ trav' = [Idle EXCEPT !.on = TRUE, !.kept = Present]
  /\ UNCHANGED <<hash, t, map>>

NextKey ==                    \* luaH_next
  /\ trav.on /\ ~trav.lost
  /\ LET i == FindIndex(t, trav.at)
         S == IF i = NONE THEN {} ELSE After(t, i)
         k == Entry(t, Min(S)).key
     IN trav' = IF S # {} THEN [trav EXCEPT !.at = k, !.seen = @ \cup {k}, !.twice = @ \/ k \in trav.seen]
                ELSE IF i # NONE /\ trav.kept \subseteq trav.seen THEN Idle
                ELSE [trav EXCEPT !.lost = TRUE]
  /\ UNCHANGED <<hash, t, map>>

\* The collector marks the table: it clears the entries S whose key or value
\* only weak tables still had, and kills the collectable key of every empty
\* entry, whether the object lives on or not.
Mark(S) ==
  LET Cleared(n) == LET v == IF n.key \in S /\ ~n.dead THEN NIL ELSE n.val
                    IN [n EXCEPT !.val = v, !.dead = @ \/ (v = NIL /\ n.key \in Objs)]
  IN /\ t' = [t EXCEPT !.node = [i \in DOMAIN @ |-> Cleared(@[i])],
                       !.array = [i \in DOMAIN @ |-> IF i \in S THEN NIL ELSE @[i]]]
     /\ map' = [k \in Key |-> IF k \in S THEN NIL ELSE map[k]]
     /\ trav' = Forgetting(S)
     /\ UNCHANGED hash

\* OP_SETLIST of a constructor with n items.
SetList(n, v) ==
  /\ ~trav.on /\ Ints \cap Present = {}
  /\ LET x == IF n > Len(t.array) THEN Resize(t, n, IF t.dummy THEN 0 ELSE SizeNode(t)) ELSE t
     IN t' = FoldLeft(LAMBDA y, i : Put(y, i, v), x, [i \in 1 .. n |-> n + 1 - i])
  /\ map' = [k \in Key |-> IF k \in 1 .. n THEN v ELSE map[k]]
  /\ UNCHANGED <<hash, trav>>

\* table.insert and table.remove move elements by raw gets and sets; they
\* promise a shift of sequences.
IsSequence(n) == \A k \in Ints : (map[k] # NIL) = (k <= n)
Sequence == SelectSeq([i \in 1 .. Cardinality(Ints \cap Present) |-> map[i]], LAMBDA v : v # NIL)
WithSequence(q) == [k \in Key |-> IF k \in DOMAIN q THEN q[k] ELSE IF k \in Ints THEN NIL ELSE map[k]]
Move(x, moves) == FoldLeft(LAMBDA y, m : Put(y, m[2], Get(y, m[1])), x, moves)

TInsert(pos, v) ==
  /\ ~trav.on /\ Len(Sequence) + 1 \in Ints /\ pos <= Len(Sequence) + 1 /\ IsSequence(Len(Sequence))
  /\ LET e == Max({Getn(t) + 1, pos})
     IN t' = Put(Move(t, [i \in 1 .. e - pos |-> <<e - i, e - i + 1>>]), pos, v)
  /\ map' = WithSequence(InsertAt(Sequence, pos, v))
  /\ UNCHANGED <<hash, trav>>

TRemove(pos) ==
  /\ ~trav.on /\ pos \in DOMAIN Sequence /\ IsSequence(Len(Sequence))
  /\ LET e == Getn(t)
     IN t' = Put(Move(t, [i \in 1 .. e - pos |-> <<pos + i, pos + i - 1>>]), e, NIL)
  /\ map' = WithSequence(RemoveAt(Sequence, pos))
  /\ UNCHANGED <<hash, trav>>

Init ==
  /\ hash \in Hashes
  /\ \E na \in 0 .. MaxArray, nh \in 0 .. 2 : t = NewTable(na, nh)
  /\ map = [k \in Key |-> NIL]
  /\ trav = Idle

Next ==
  \/ \E k \in Key, v \in Value \cup {NIL} : Assign(k, v)
  \/ Begin \/ NextKey
  \/ \E S \in {{}} \cup {{k} : k \in Present \ {trav.at}} : Mark(S)
  \/ \E n \in 1 .. MaxArray, v \in Value : SetList(n, v)
  \/ \E pos \in Ints : TRemove(pos) \/ \E v \in Value : TInsert(pos, v)

Spec == Init /\ [][Next]_vars

(***************************************************************************)
(* Properties.                                                             *)
(***************************************************************************)
\* A table is the map the program built, over every rehash, displacement,
\* collection and shift; and its length is a border of that map (the comment
\* of luaH_getn): the value there is not nil, the next one is.
TableIsMap ==
  /\ \A k \in Key : Get(t, k) = map[k]
  /\ LET n == Getn(t) IN (n = 0 \/ Get(t, n) # NIL) /\ Get(t, n + 1) = NIL

\* A traversal that assigns to no absent key never loses its place, returns
\* no key twice, and returns every key that stayed, whatever the program
\* clears and the collector kills on the way.
TraversalSound == ~trav.lost /\ ~trav.twice
=============================================================================
