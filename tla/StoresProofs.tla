----------------------------- MODULE StoresProofs -----------------------------
(***************************************************************************)
(* The representation of newset is correct for every set of sockets and    *)
(* coroutines: reverse stays the inverse of the array, and the two tables  *)
(* and the queues together behave as a set with a FIFO per value.          *)
(*                                                                         *)
(* And the versions of nodes in files are what Versium's users rely on,    *)
(* for any nodes, stores, data and failures but short writes.              *)
(***************************************************************************)
EXTENDS MCStores, SetOpsTheorems, WellFoundedInduction, FiniteSetTheorems

LEMMA InitIInv == Init => IInv
<1>1. <<>> \in Seq(Item) /\ <<>> \in Seq(Value) /\ Len(<<>>) = 0
  BY EmptySeq
<1>2. NIL # <<>>
  BY <1>1, NewSetAssumption
<1> QED
  BY <1>1, <1>2 DEF Init, IInv, TypeOK, ReverseIsInverse, NoEmptyQueue

LEMMA InsertIInv ==
  ASSUME IInv, NEW v \in Value, Insert(v)
  PROVE  IInv'
<1> USE DEF IInv, TypeOK, ReverseIsInverse, NoEmptyQueue, Insert, Known
<1>1. CASE reverse[v] # NIL
  BY <1>1
<1>2. CASE reverse[v] = NIL
  <2>1. /\ set' = Append(set, v)
        /\ reverse' = [reverse EXCEPT ![v] = Len(set) + 1]
        /\ q' = q
    BY <1>2
  <2>2. /\ set' \in Seq(Value)
        /\ Len(set') = Len(set) + 1
        /\ \A i \in 1..Len(set) : set'[i] = set[i] /\ set[i] # v
        /\ set'[Len(set) + 1] = v
    BY <1>2, <2>1, NewSetAssumption
  <2>3. TypeOK'
    BY <2>1, <2>2
  <2>4. ReverseIsInverse'
    BY <2>1, <2>2, NewSetAssumption
  <2> QED
    BY <2>1, <2>3, <2>4
<1> QED
  BY <1>1, <1>2

\* The two cases in which remove changes the array, told apart by whether the
\* value is the last element.
LEMMA RemoveIInv ==
  ASSUME IInv, NEW v \in Value, Remove(v)
  PROVE  IInv'
<1> USE DEF IInv, TypeOK, ReverseIsInverse, NoEmptyQueue
<1> DEFINE n == Len(set)
           k == reverse[v]
           top == set[n]
           short == SubSeq(set, 1, n - 1)
           hole == [reverse EXCEPT ![v] = NIL]
<1>0. q' = q
  BY DEF Remove
<1>1. CASE k = NIL
  BY <1>1 DEF Remove
<1>2. CASE k # NIL
  <2>1. k \in 1..n /\ set[k] = v /\ n \in Nat /\ n >= 1
    BY <1>2
  <2>2. /\ short \in Seq(Value)
        /\ Len(short) = n - 1
        /\ \A i \in 1..(n - 1) : short[i] = set[i]
    BY <2>1, EmptySeq, FrontProperties
  <2>3. top \in Value /\ reverse[top] = n
    BY <2>1
  <2>4. \A i \in 1..n : set[i] \in Value /\ reverse[set[i]] = i
    OBVIOUS
  <2>5. CASE top = v
    <3>1. set' = short /\ reverse' = hole /\ k = n
      BY <1>2, <2>3, <2>5 DEF Remove
    <3> HIDE DEF short
    <3>2. TypeOK'
      BY <1>0, <2>2, <3>1
    <3>3. \A i \in 1..Len(set') : reverse'[set'[i]] = i
      <4> SUFFICES ASSUME NEW i \in 1..(n - 1)
                   PROVE  reverse'[set'[i]] = i
        BY <2>2, <3>1
      <4>1. set'[i] = set[i] /\ i \in 1..n /\ i # k
        BY <2>1, <2>2, <3>1
      <4>2. set[i] \in Value /\ reverse[set[i]] = i /\ set[i] # v
        BY <2>4, <4>1
      <4> QED
        BY <3>1, <4>1, <4>2
    <3>4. \A w \in Value : reverse'[w] # NIL => /\ reverse'[w] \in 1..Len(set')
                                                /\ set'[reverse'[w]] = w
      BY <2>1, <2>2, <2>3, <2>5, <3>1, NewSetAssumption
    <3> QED
      BY <1>0, <3>2, <3>3, <3>4
  <2>6. CASE top # v
    <3>1. /\ set' = [short EXCEPT ![k] = top]
          /\ reverse' = [hole EXCEPT ![top] = k]
      BY <1>2, <2>6 DEF Remove, Reindex
    <3>0. k \in 1..(n - 1)
      BY <2>1, <2>6
    <3>2. /\ set' \in Seq(Value)
          /\ Len(set') = n - 1
          /\ set'[k] = top
          /\ \A i \in 1..(n - 1) : i # k => set'[i] = set[i]
      <4> HIDE DEF short, top, k, n
      <4>1. k \in 1..Len(short)
        BY <2>2, <3>0
      <4>2. /\ [short EXCEPT ![k] = top] \in Seq(Value)
            /\ Len([short EXCEPT ![k] = top]) = Len(short)
            /\ \A i \in 1..Len(short) : [short EXCEPT ![k] = top][i] = IF i = k THEN top ELSE short[i]
        BY <2>2, <2>3, <4>1, ExceptSeq
      <4> QED
        BY <2>2, <3>1, <4>1, <4>2
    <3>3. /\ reverse'[v] = NIL
          /\ reverse'[top] = k
          /\ \A w \in Value : w # v /\ w # top => reverse'[w] = reverse[w]
      BY <2>3, <2>6, <3>1
    <3> HIDE DEF short, hole
    <3>4. TypeOK'
      <4>1. hole \in [Value -> Nat \cup {NIL}]
        BY DEF hole
      <4>2. reverse' \in [Value -> Nat \cup {NIL}]
        BY <2>3, <3>0, <3>1, <4>1
      <4> QED
        BY <1>0, <3>2, <4>2
    <3>5. \A i \in 1..Len(set') : reverse'[set'[i]] = i
      BY <2>1, <2>4, <3>0, <3>2, <3>3
    <3>6. \A w \in Value : reverse'[w] # NIL => /\ reverse'[w] \in 1..Len(set')
                                                /\ set'[reverse'[w]] = w
      <4> SUFFICES ASSUME NEW w \in Value, reverse'[w] # NIL
                   PROVE  /\ reverse'[w] \in 1..Len(set')
                          /\ set'[reverse'[w]] = w
        OBVIOUS
      <4>1. CASE w = top
        BY <3>0, <3>2, <3>3, <4>1
      <4>2. CASE w # top
        <5>1. w # v /\ reverse'[w] = reverse[w]
          BY <3>3, <4>2
        <5>2. reverse[w] \in 1..n /\ set[reverse[w]] = w
          BY <5>1
        <5>3. reverse[w] # n /\ reverse[w] # k
          BY <2>1, <4>2, <5>1, <5>2
        <5> QED
          BY <2>1, <3>2, <5>1, <5>2, <5>3
      <4> QED
        BY <4>1, <4>2
    <3> QED
      BY <1>0, <3>4, <3>5, <3>6
  <2> QED
    BY <2>5, <2>6
<1> QED
  BY <1>1, <1>2

LEMMA QueuedSeq == TypeOK => \A v \in Value : Queued(v) \in Seq(Item)
BY EmptySeq DEF TypeOK, Queued

LEMMA PushIInv ==
  ASSUME IInv, NEW v \in Value, NEW x \in Item, Push(v, x)
  PROVE  IInv'
<1> DEFINE new == Append(Queued(v), x)
<1>1. set' = set /\ reverse' = reverse /\ q' = [q EXCEPT ![v] = new]
  BY DEF Push
<1>2. new \in Seq(Item) /\ new # <<>>
  BY QueuedSeq, AppendProperties DEF IInv
<1> HIDE DEF new
<1> QED
  BY <1>1, <1>2 DEF IInv, TypeOK, ReverseIsInverse, NoEmptyQueue

LEMMA PopIInv ==
  ASSUME IInv, NEW v \in Value, Pop(v)
  PROVE  IInv'
<1> DEFINE new == IF Len(Queued(v)) <= 1 THEN NIL ELSE Tail(q[v])
<1>1. set' = set /\ reverse' = reverse /\ q' = [q EXCEPT ![v] = new]
  BY DEF Pop, Rest
<1>2. new = NIL \/ (new \in Seq(Item) /\ new # <<>>)
  <2> SUFFICES ASSUME ~(Len(Queued(v)) <= 1)
               PROVE  Tail(q[v]) \in Seq(Item) /\ Tail(q[v]) # <<>>
    OBVIOUS
  <2>0. <<>> \in Seq(Item) /\ Len(<<>>) = 0
    BY EmptySeq
  <2>1. q[v] # NIL /\ Queued(v) = q[v] /\ Len(q[v]) # 1
    <3>1. Queued(v) # <<>>
      BY <2>0
    <3>2. q[v] # NIL /\ Queued(v) = q[v]
      BY <3>1 DEF Queued
    <3>3. Len(Queued(v)) \in Nat
      BY QueuedSeq DEF IInv
    <3>4. Len(Queued(v)) # 1
      <4> DEFINE n == Len(Queued(v))
      <4>1. n \in Nat /\ ~(n <= 1)
        BY <3>3
      <4> HIDE DEF n
      <4>2. n # 1
        BY <4>1
      <4> QED
        BY <4>2 DEF n
    <3> QED
      BY <3>2, <3>4, Zenon
  <2>2. q[v] \in Seq(Item) /\ q[v] # <<>>
    BY <2>1 DEF IInv, TypeOK, NoEmptyQueue
  <2> QED
    BY <2>1, <2>2, TailNonEmpty
<1>3. NIL # <<>>
  <2>1. <<>> \in Seq(Item)
    BY EmptySeq
  <2> QED
    BY <2>1, NewSetAssumption
<1> HIDE DEF new
<1> QED
  BY <1>1, <1>2, <1>3 DEF IInv, TypeOK, ReverseIsInverse, NoEmptyQueue

\* Every reachable representation is well formed.
THEOREM RepresentationInvariant == Spec => []IInv
<1>1. IInv /\ [Next]_vars => IInv'
  <2> SUFFICES ASSUME IInv, [Next]_vars
               PROVE  IInv'
    OBVIOUS
  <2>1. ASSUME NEW v \in Value, Insert(v)
        PROVE  IInv'
    BY <2>1, InsertIInv
  <2>2. ASSUME NEW v \in Value, Remove(v)
        PROVE  IInv'
    BY <2>2, RemoveIInv
  <2>3. ASSUME NEW v \in Value, NEW x \in Item, Push(v, x)
        PROVE  IInv'
    BY <2>3, PushIInv
  <2>4. ASSUME NEW v \in Value, Pop(v)
        PROVE  IInv'
    BY <2>4, PopIInv
  <2>5. CASE UNCHANGED vars
    BY <2>5 DEF vars, IInv, TypeOK, ReverseIsInverse, NoEmptyQueue
  <2> QED
    BY <2>1, <2>2, <2>3, <2>4, <2>5 DEF Next
<1> QED
  BY InitIInv, <1>1, PTL DEF Spec

\* The reverse table is the inverse of the array (remove, copas.lua:70-81).
THEOREM ReverseCorrect == Spec => []ReverseIsInverse
<1>1. IInv => ReverseIsInverse
  BY DEF IInv
<1> QED
  BY RepresentationInvariant, <1>1, PTL
-----------------------------------------------------------------------------
\* Under the invariant the array holds exactly the values with an index.
LEMMA ElementsHaveIndex ==
  ASSUME IInv
  PROVE  \A v \in Value : v \in Range(set) <=> reverse[v] # NIL
<1> USE DEF IInv, TypeOK, ReverseIsInverse, Range
<1>1. ASSUME NEW v \in Value, v \in Range(set)
      PROVE  reverse[v] # NIL
  BY <1>1, NewSetAssumption
<1>2. ASSUME NEW v \in Value, reverse[v] # NIL
      PROVE  v \in Range(set)
  BY <1>2
<1> QED
  BY <1>1, <1>2

\* The elements of a sequence of values are values, and are told apart by the
\* index table alone.
LEMMA RangeByIndex == IInv => Range(set) = {v \in Value : reverse[v] # NIL}
<1> SUFFICES ASSUME IInv
             PROVE  Range(set) = {v \in Value : reverse[v] # NIL}
  OBVIOUS
<1>1. Range(set) \subseteq Value
  BY DEF IInv, TypeOK, Range
<1> QED
  BY <1>1, ElementsHaveIndex

\* newset's tables implement a set with one FIFO per value: inserting and
\* removing change only membership, pushing and popping only one queue.
THEOREM RefinesFifoSet == Spec => ImplementsFifoSet
<1>1. Init => Abs!Init
  <2> SUFFICES ASSUME Init
               PROVE  Abs!Init
    OBVIOUS
  <2>1. Range(set) = {}
    BY DEF Init, Range
  <2>2. [v \in Value |-> Queued(v)] = [v \in Value |-> <<>>]
    BY DEF Init, Queued
  <2> QED
    BY <2>1, <2>2 DEF Abs!Init
<1>2. IInv /\ IInv' /\ [Next]_vars => [Abs!Next]_(Abs!vars)
  <2> SUFFICES ASSUME IInv, IInv', [Next]_vars
               PROVE  [Abs!Next]_(Abs!vars)
    OBVIOUS
  <2> DEFINE fifo == [v \in Value |-> Queued(v)]
  <2>a. Range(set) = {v \in Value : reverse[v] # NIL}
    BY RangeByIndex
  <2>b. Range(set)' = {v \in Value : reverse'[v] # NIL}
    <3>1. (IInv => Range(set) = {v \in Value : reverse[v] # NIL})'
      BY RangeByIndex, PTL
    <3> QED
      BY <3>1
  <2>t. /\ reverse \in [Value -> Nat \cup {NIL}]
        /\ q \in [Value -> Seq(Item) \cup {NIL}]
        /\ set \in Seq(Value)
    BY DEF IInv, TypeOK
  <2>q. q' = q => fifo' = fifo
    BY DEF Queued
  <2>1. ASSUME NEW v \in Value, Insert(v)
        PROVE  Abs!Insert(v)
    <3>1. reverse'[v] # NIL /\ \A w \in Value : w # v => reverse'[w] = reverse[w]
      BY <2>1, <2>t, NewSetAssumption DEF Insert, Known
    <3>2. Range(set)' = Range(set) \cup {v}
      BY <2>a, <2>b, <3>1
    <3> QED
      BY <2>1, <2>q, <3>2 DEF Abs!Insert, Insert
  <2>2. ASSUME NEW v \in Value, Remove(v)
        PROVE  Abs!Remove(v)
    <3>1. reverse'[v] = NIL /\ \A w \in Value : w # v => (reverse'[w] = NIL <=> reverse[w] = NIL)
      <4> DEFINE top == set[Len(set)]
      <4>1. CASE reverse[v] = NIL
        BY <2>2, <2>t, <4>1 DEF Remove
      <4>2. CASE reverse[v] # NIL
        <5>1. Len(set) \in 1..Len(set) /\ top \in Value /\ reverse[top] # NIL
          BY <2>t, <4>2, NewSetAssumption DEF IInv, ReverseIsInverse
        <5> QED
          BY <2>2, <2>t, <4>2, <5>1 DEF Remove, Reindex
      <4> QED
        BY <4>1, <4>2
    <3>2. Range(set)' = Range(set) \ {v}
      BY <2>a, <2>b, <3>1
    <3> QED
      BY <2>2, <2>q, <3>2 DEF Abs!Remove, Remove
  <2>3. ASSUME NEW v \in Value, NEW x \in Item, Push(v, x)
        PROVE  Abs!Push(v, x)
    <3> DEFINE new == Append(Queued(v), x)
    <3>1. set' = set /\ q' = [q EXCEPT ![v] = new] /\ Len(Queued(v)) < MaxQueue
      BY <2>3 DEF Push
    <3>2. new \in Seq(Item) /\ new # NIL
      BY QueuedSeq, NewSetAssumption DEF IInv
    <3> HIDE DEF new
    <3>3. fifo' = [fifo EXCEPT ![v] = new]
      BY <2>t, <3>1, <3>2 DEF Queued
    <3>4. fifo[v] = Queued(v)
      OBVIOUS
    <3> QED
      BY <3>1, <3>3, <3>4 DEF Abs!Push, new
  <2>4. ASSUME NEW v \in Value, Pop(v)
        PROVE  Abs!Pop(v) \/ UNCHANGED Abs!vars
    <3> DEFINE new == IF Len(Queued(v)) <= 1 THEN NIL ELSE Tail(q[v])
    <3>1. set' = set /\ q' = [q EXCEPT ![v] = new]
      BY <2>4 DEF Pop, Rest
    <3>2. CASE q[v] = NIL
      <4>1. Queued(v) = <<>> /\ Len(Queued(v)) = 0
        BY <3>2, EmptySeq DEF Queued
      <4>2. q' = q
        BY <2>t, <3>1, <3>2, <4>1
      <4> QED
        BY <2>q, <3>1, <4>2 DEF Abs!vars
    <3>3. CASE q[v] # NIL
      <4>1. Queued(v) = q[v] /\ q[v] # <<>> /\ q[v] \in Seq(Item)
        BY <2>t, <3>3 DEF Queued, IInv, NoEmptyQueue
      <4>2. Tail(q[v]) \in Seq(Item) /\ Tail(q[v]) # NIL
        BY <4>1, HeadTailProperties, NewSetAssumption
      <4>3. Len(q[v]) <= 1 => Tail(q[v]) = <<>>
        BY <4>1, EmptySeq, SingletonTail
      <4>4. (IF new = NIL THEN <<>> ELSE new) = Tail(q[v])
        BY <4>1, <4>2, <4>3
      <4> HIDE DEF new
      <4>5. fifo' = [fifo EXCEPT ![v] = Tail(q[v])]
        BY <2>t, <3>1, <4>4 DEF Queued
      <4> QED
        BY <3>1, <4>1, <4>5 DEF Abs!Pop
    <3> QED
      BY <3>2, <3>3
  <2>5. CASE UNCHANGED vars
    BY <2>5, <2>q DEF vars, Abs!vars
  <2> QED
    BY <2>1, <2>2, <2>3, <2>4, <2>5 DEF Next, Abs!Next
<1> QED
  BY RepresentationInvariant, <1>1, <1>2, PTL DEF Spec, ImplementsFifoSet, Abs!Spec
-----------------------------------------------------------------------------
(* Versions in files: what the index of a node says of its files, and how  *)
(* far the save in progress has come.                                      *)

Entry == [version : Versions!Version, time : Versions!Time]

VersionsTypes ==
  /\ now \in Versions!Time
  /\ file \in [Node -> [Versions!Version -> Data \cup {NIL, TORN}]]
  /\ index \in [Node -> [list : Seq(Entry), whole : BOOLEAN]]
  /\ save = NIL \/ save \in [step : {"data", "index"}, node : Node, data : Data, version : Versions!Version \cup {NIL}]
  /\ saved \subseteq [node : Node, version : Versions!Version, data : Data]

\* The index of n lists its versions, the newest first, and each has its data.
Whole(n) ==
  LET list == index[n].list IN
  /\ index[n].whole /\ Len(list) <= MaxVersion
  /\ list # <<>> => Versions!Name(n) \in dirs
  /\ \A i \in 1..Len(list) : /\ list[i].version = Len(list) + 1 - i
                             /\ file[n][i] \in Data
                             /\ list[i].time <= now
                             /\ i > 1 => list[i].time <= list[i - 1].time

\* A save has a number for its version, and then has written its data.
Saving ==
  save # NIL =>
    LET n == save.node IN
    /\ Len(index[n].list) < MaxVersion
    /\ save.step = "index" => /\ save.version = Len(index[n].list) + 1
                              /\ file[n][save.version] = save.data /\ Versions!Name(n) \in dirs

\* What was saved is there.
Kept == \A r \in saved : r.version <= Len(index[r.node].list) /\ file[r.node][r.version] = r.data

VersionsInv == VersionsTypes /\ (\A n \in Node : Whole(n)) /\ Saving /\ Kept

LEMMA IndexTypes ==
  ASSUME VersionsTypes, NEW n \in Node
  PROVE  /\ index[n].list \in Seq(Entry) /\ index[n].whole \in BOOLEAN /\ Len(index[n].list) \in Nat
         /\ DOMAIN index[n].list = 1..Len(index[n].list)
         /\ \A i \in 1..Len(index[n].list) : /\ index[n].list[i] \in Entry
                                             /\ index[n].list[i].version \in Nat /\ index[n].list[i].time \in Nat
<1>1. index[n] \in [list : Seq(Entry), whole : BOOLEAN]
  BY DEF VersionsTypes
<1>2. index[n].list \in Seq(Entry) /\ index[n].whole \in BOOLEAN
  BY <1>1
<1>3. \A e \in Entry : e.version \in Nat /\ e.time \in Nat
  BY DEF Entry, Versions!Version, Versions!Time
<1> QED
  BY <1>2, <1>3

LEMMA SaveTypes ==
  ASSUME VersionsTypes, save # NIL
  PROVE  /\ save.step \in {"data", "index"} /\ save.node \in Node /\ save.data \in Data
         /\ save \in [step : {"data", "index"}, node : Node, data : Data, version : Versions!Version \cup {NIL}]
BY DEF VersionsTypes

LEMMA NumbersAre == MaxVersion \in Nat /\ MaxTime \in Nat \ {0} /\ NIL \notin Data /\ TORN \notin Data /\ NIL \notin Nat
BY VersionsAssumption DEF Versions!FileDirAssumption

LEMMA VersionsStart == MCInit => VersionsInv
<1> SUFFICES ASSUME MCInit PROVE VersionsInv
  OBVIOUS
<1>1. /\ now = 1 /\ dirs = {} /\ file = [n \in Node |-> [v \in Versions!Version |-> NIL]]
      /\ index = [n \in Node |-> Versions!EmptyIndex] /\ save = NIL /\ saved = {}
  BY DEF MCInit, Versions!Init
<1>2. <<>> \in Seq(Entry) /\ Len(<<>>) = 0
  OBVIOUS
<1>3. Versions!EmptyIndex \in [list : Seq(Entry), whole : BOOLEAN] /\ Versions!EmptyIndex.list = <<>> /\ Versions!EmptyIndex.whole
  BY <1>2 DEF Versions!EmptyIndex
<1>4. VersionsTypes
  BY <1>1, <1>3, NumbersAre DEF VersionsTypes, Versions!Time
<1>5. ASSUME NEW n \in Node PROVE Whole(n)
  BY <1>1, <1>2, <1>3, NumbersAre DEF Whole
<1> QED
  BY <1>1, <1>4, <1>5 DEF VersionsInv, Saving, Kept

\* Steps that change no file and no index.
LEMMA FilesStay ==
  ASSUME VersionsInv, UNCHANGED <<file, index, saved>>, dirs \subseteq dirs', now' \in Versions!Time, now <= now',
         save' = save \/ save' = NIL
  PROVE  VersionsInv'
<1>1. VersionsTypes'
  BY DEF VersionsInv, VersionsTypes
<1>2. ASSUME NEW n \in Node PROVE Whole(n)'
  <2>1. now \in Int /\ now' \in Int
    BY DEF VersionsInv, VersionsTypes, Versions!Time
  <2>2. Whole(n) /\ VersionsTypes
    BY DEF VersionsInv
  <2> QED
    BY <2>1, <2>2, IndexTypes DEF Whole
<1>3. Saving' /\ Kept'
  BY DEF VersionsInv, Saving, Kept
<1> QED
  BY <1>1, <1>2, <1>3 DEF VersionsInv

LEMMA StartSaveStep ==
  ASSUME VersionsInv, NEW s \in Store, NEW n \in Node, NEW d \in Data, Versions!StartSave(s, n, d)
  PROVE  VersionsInv'
<1>1. /\ Len(index[n].list) < MaxVersion /\ UNCHANGED <<now, file, index, saved>> /\ dirs \subseteq dirs'
      /\ save' = [step |-> "data", node |-> n, data |-> d, version |-> NIL]
  BY DEF Versions!StartSave
<1>2. VersionsTypes'
  BY <1>1 DEF VersionsInv, VersionsTypes
<1>3. ASSUME NEW m \in Node PROVE Whole(m)'
  BY <1>1 DEF VersionsInv, Whole
<1>4. Saving' /\ Kept'
  BY <1>1 DEF VersionsInv, Saving, Kept
<1> QED
  BY <1>2, <1>3, <1>4 DEF VersionsInv

LEMMA WriteDataStep ==
  ASSUME "short" \notin Fault, VersionsInv, Versions!WriteData
  PROVE  VersionsInv'
<1> DEFINE n == save.node
           v == Len(index[n].list) + 1
<1>1. VersionsTypes /\ Saving /\ Kept /\ save # NIL /\ save.step = "data" /\ UNCHANGED <<now, dirs, index, saved>>
  BY DEF VersionsInv, Versions!WriteData
<1>2. n \in Node /\ save.data \in Data /\ Len(index[n].list) < MaxVersion /\ Len(index[n].list) \in Nat
  BY <1>1, SaveTypes, IndexTypes DEF Saving
<1>3. CASE save' = NIL /\ file' = file
  <2>1. now \in Versions!Time /\ now <= now'
    BY <1>1 DEF VersionsTypes, Versions!Time
  <2> QED
    BY <1>1, <1>3, <2>1, FilesStay
<1>4. CASE /\ Versions!Name(n) \in dirs /\ file' = [file EXCEPT ![n][v] = save.data]
           /\ save' = [save EXCEPT !.step = "index", !.version = v]
  <2>1. v \in Versions!Version /\ v \in Nat
    BY <1>2, NumbersAre DEF Versions!Version
  <2>2. /\ file' \in [Node -> [Versions!Version -> Data \cup {NIL, TORN}]]
        /\ \A m \in Node, w \in Versions!Version : file'[m][w] = IF m = n /\ w = v THEN save.data ELSE file[m][w]
    <3> HIDE DEF v
    <3> QED
      BY <1>1, <1>2, <1>4, <2>1 DEF VersionsTypes
  <2>3. /\ save' \in [step : {"data", "index"}, node : Node, data : Data, version : Versions!Version \cup {NIL}]
        /\ save'.node = n /\ save'.step = "index" /\ save'.version = v /\ save'.data = save.data
    <3> DEFINE k == [save EXCEPT !.step = "index"]
    <3>1. /\ k \in [step : {"data", "index"}, node : Node, data : Data, version : Versions!Version \cup {NIL}]
          /\ k.node = n /\ k.step = "index" /\ k.data = save.data
      BY <1>1, SaveTypes
    <3> HIDE DEF v, n
    <3>2. save' = [k EXCEPT !.version = v]
      BY <1>4
    <3> HIDE DEF k
    <3> QED
      BY <2>1, <3>1, <3>2
  <2>4. VersionsTypes'
    BY <1>1, <2>2, <2>3 DEF VersionsTypes
  <2>5. ASSUME NEW m \in Node PROVE Whole(m)'
    <3>1. Whole(m) /\ index' = index /\ now' = now /\ dirs' = dirs
      BY <1>1 DEF VersionsInv
    <3>2. ASSUME NEW i \in 1..Len(index[m].list) PROVE file'[m][i] = file[m][i]
      <4>1. Len(index[m].list) \in Nat /\ Len(index[m].list) <= MaxVersion
        BY <1>1, <3>1, IndexTypes DEF Whole
      <4>2. i \in Versions!Version /\ (m = n => i # v)
        BY <1>2, <4>1, NumbersAre DEF Versions!Version
      <4> HIDE DEF v
      <4> QED
        BY <2>2, <4>2
    <3> QED
      BY <3>1, <3>2 DEF Whole
  <2>6. Saving'
    <3>1. index' = index /\ dirs' = dirs
      BY <1>1
    <3> HIDE DEF n
    <3> QED
      BY <1>2, <1>4, <2>1, <2>2, <2>3, <3>1 DEF Saving
  <2>7. Kept'
    <3>1. ASSUME NEW r \in saved
          PROVE  r.version <= Len(index[r.node].list) /\ file'[r.node][r.version] = r.data
      <4>1. /\ r.version <= Len(index[r.node].list) /\ file[r.node][r.version] = r.data
            /\ r.node \in Node /\ r.version \in Versions!Version
        BY <1>1 DEF Kept, VersionsTypes
      <4>2. ~(r.node = n /\ r.version = v)
        BY <1>2, <4>1 DEF Versions!Version
      <4> HIDE DEF n, v
      <4> QED
        BY <2>2, <4>1, <4>2
    <3> QED
      BY <1>1, <3>1 DEF Kept
  <2> QED
    BY <2>4, <2>5, <2>6, <2>7 DEF VersionsInv
<1>5. Versions!Written(save.data) = {save.data}
  BY DEF Versions!Written
<1> QED
  BY <1>3, <1>4, <1>5 DEF Versions!WriteData, Versions!NewVersion

\* The index with the new entry before the others.
LEMMA Entered ==
  ASSUME NEW list \in Seq(Entry), NEW e \in Entry
  PROVE  /\ <<e>> \o list \in Seq(Entry) /\ Len(<<e>> \o list) = Len(list) + 1
         /\ (<<e>> \o list)[1] = e
         /\ \A i \in 1..Len(list) : (<<e>> \o list)[i + 1] = list[i]
<1>1. <<e>> \in Seq(Entry) /\ Len(<<e>>) = 1 /\ <<e>>[1] = e /\ Len(list) \in Nat
  OBVIOUS
<1>2. /\ <<e>> \o list \in Seq(Entry) /\ Len(<<e>> \o list) = 1 + Len(list)
      /\ \A i \in 1..1 + Len(list) : (<<e>> \o list)[i] = IF i <= 1 THEN <<e>>[i] ELSE list[i - 1]
  BY <1>1, ConcatProperties
<1>3. (<<e>> \o list)[1] = e
  BY <1>1, <1>2
<1>4. ASSUME NEW i \in 1..Len(list) PROVE (<<e>> \o list)[i + 1] = list[i]
  <2>1. i + 1 \in 1..1 + Len(list) /\ ~(i + 1 <= 1) /\ (i + 1) - 1 = i
    BY <1>1
  <2> QED
    BY <1>2, <2>1
<1> QED
  BY <1>1, <1>2, <1>3, <1>4

\* What WriteIndex does when the index can be opened.
Entering(n, e) ==
  /\ index' \in [Node -> [list : Seq(Entry), whole : BOOLEAN]]
  /\ \A m \in Node : m # n => index'[m] = index[m]
  /\ index'[n].whole /\ index'[n].list \in Seq(Entry) /\ Len(index'[n].list) = Len(index[n].list) + 1
  /\ index'[n].list[1] = e /\ \A i \in 1..Len(index[n].list) : index'[n].list[i + 1] = index[n].list[i]

Indexed ==
  /\ index' = [index EXCEPT ![save.node] =
                 [list |-> <<[version |-> save.version, time |-> now]>> \o index[save.node].list, whole |-> TRUE]]
  /\ saved' = saved \cup {[node |-> save.node, version |-> save.version, data |-> save.data]}

LEMMA IndexedOrNot ==
  ASSUME "short" \notin Fault, Versions!WriteIndex
  PROVE  Indexed \/ (index' = index /\ saved' = saved)
<1> DEFINE list == <<[version |-> save.version, time |-> now]>> \o index[save.node].list
<1>1. Versions!WrittenIndex(list) = {[list |-> list, whole |-> TRUE]}
  BY DEF Versions!WrittenIndex
<1>2. \/ /\ \E i \in Versions!WrittenIndex(list) : index' = [index EXCEPT ![save.node] = i]
         /\ saved' = saved \cup {[node |-> save.node, version |-> save.version, data |-> save.data]}
      \/ index' = index /\ saved' = saved
  BY DEF Versions!WriteIndex
<1>3. CASE \E i \in Versions!WrittenIndex(list) : index' = [index EXCEPT ![save.node] = i]
  <2>1. index' = [index EXCEPT ![save.node] = [list |-> list, whole |-> TRUE]]
    BY <1>1, <1>3
  <2> QED
    BY <1>2, <2>1 DEF Indexed
<1> QED
  BY <1>2, <1>3

LEMMA IndexWritten ==
  ASSUME VersionsInv, Versions!WriteIndex, Indexed
  PROVE  LET n == save.node
             e == [version |-> save.version, time |-> now]
         IN  /\ save # NIL /\ save.step = "index" /\ n \in Node /\ save.data \in Data
             /\ e \in Entry /\ save.version = Len(index[n].list) + 1
             /\ Entering(n, e)
             /\ saved' = saved \cup {[node |-> n, version |-> save.version, data |-> save.data]}
<1> DEFINE n == save.node
           e == [version |-> save.version, time |-> now]
           list == index[n].list
<1>1. VersionsTypes /\ Saving /\ save # NIL /\ save.step = "index"
  BY DEF VersionsInv, Versions!WriteIndex
<1>2. n \in Node /\ save.data \in Data /\ Len(list) < MaxVersion /\ list \in Seq(Entry) /\ Len(list) \in Nat
      /\ save.version = Len(list) + 1
  BY <1>1, SaveTypes, IndexTypes DEF Saving
<1>3. e \in Entry
  <2>1. save.version \in Versions!Version /\ now \in Versions!Time
    BY <1>1, <1>2, NumbersAre DEF VersionsTypes, Versions!Version
  <2> QED
    BY <2>1 DEF Entry
<1>4. /\ index' = [index EXCEPT ![n] = [list |-> <<e>> \o list, whole |-> TRUE]]
      /\ saved' = saved \cup {[node |-> n, version |-> save.version, data |-> save.data]}
  BY DEF Indexed
<1> DEFINE new == <<e>> \o list
<1>5. /\ new \in Seq(Entry) /\ Len(new) = Len(list) + 1 /\ new[1] = e
      /\ \A i \in 1..Len(list) : new[i + 1] = list[i]
  BY <1>2, <1>3, Entered
<1>6. index' = [index EXCEPT ![n] = [list |-> new, whole |-> TRUE]]
  BY <1>4
<1> HIDE DEF new
<1>7. [list |-> new, whole |-> TRUE] \in [list : Seq(Entry), whole : BOOLEAN]
  BY <1>5
<1>8. /\ index' \in [Node -> [list : Seq(Entry), whole : BOOLEAN]]
      /\ \A m \in Node : m # n => index'[m] = index[m]
      /\ index'[n].list = new /\ index'[n].whole
  BY <1>1, <1>2, <1>6, <1>7 DEF VersionsTypes
<1>9. Entering(n, e)
  BY <1>5, <1>8 DEF Entering
<1> QED
  BY <1>1, <1>2, <1>3, <1>4, <1>9

LEMMA WriteIndexStep ==
  ASSUME "short" \notin Fault, VersionsInv, Versions!WriteIndex
  PROVE  VersionsInv'
<1> DEFINE n == save.node
           e == [version |-> save.version, time |-> now]
           list == index[n].list
           new == index'[n].list
<1>1. VersionsTypes /\ Kept /\ Saving /\ save' = NIL /\ UNCHANGED <<now, dirs, file>> /\ now \in Versions!Time
  BY DEF VersionsInv, VersionsTypes, Versions!WriteIndex
<1>2. CASE index' = index /\ saved' = saved
  <2>1. now <= now'
    BY <1>1 DEF Versions!Time
  <2> QED
    BY <1>1, <1>2, <2>1, FilesStay
<1>3. CASE Indexed
  <2>1. /\ n \in Node /\ save.data \in Data /\ e \in Entry /\ save.version = Len(list) + 1
        /\ save # NIL /\ save.step = "index" /\ Entering(n, e)
        /\ saved' = saved \cup {[node |-> n, version |-> save.version, data |-> save.data]}
    BY <1>3, IndexWritten
  <2>2. /\ list \in Seq(Entry) /\ Len(list) \in Nat /\ Len(list) < MaxVersion /\ Len(list) + 1 <= MaxVersion
        /\ file[n][save.version] = save.data /\ Versions!Name(n) \in dirs
    BY <1>1, <2>1, IndexTypes, NumbersAre DEF Saving
  <2>3. VersionsTypes'
    <3>1. [node |-> n, version |-> save.version, data |-> save.data]
            \in [node : Node, version : Versions!Version, data : Data]
      BY <2>1, <2>2, NumbersAre DEF Versions!Version
    <3> QED
      BY <1>1, <2>1, <3>1 DEF VersionsTypes, Entering
  <2>4. ASSUME NEW m \in Node PROVE Whole(m)'
    <3>1. CASE m # n
      BY <1>1, <2>1, <3>1 DEF VersionsInv, Whole, Entering
    <3>2. CASE m = n
      <4>1. /\ new[1] = e /\ Len(new) = Len(list) + 1 /\ index'[n].whole
            /\ \A i \in 1..Len(list) : new[i + 1] = list[i]
        BY <2>1 DEF Entering
      <4>2. ASSUME NEW i \in 1..Len(list) + 1
            PROVE  /\ new[i].version = Len(list) + 2 - i
                   /\ file[n][i] \in Data
                   /\ new[i].time <= now
                   /\ i > 1 => new[i].time <= new[i - 1].time
        <5>1. /\ \A j \in 1..Len(list) : /\ list[j].version = Len(list) + 1 - j /\ file[n][j] \in Data
                                         /\ list[j].time <= now /\ (j > 1 => list[j].time <= list[j - 1].time)
                                         /\ list[j].time \in Nat /\ list[j].version \in Nat
              /\ now \in Nat /\ e.version = Len(list) + 1 /\ e.time = now
          <6>1. Whole(n) /\ now \in Nat
            BY <1>1, <2>1 DEF VersionsInv, Versions!Time
          <6>2. \A j \in 1..Len(list) : list[j].version \in Nat /\ list[j].time \in Nat
            BY <1>1, <2>1, IndexTypes
          <6>3. e.version = Len(list) + 1 /\ e.time = now
            BY <2>1
          <6> QED
            BY <6>1, <6>2, <6>3 DEF Whole
        <5>2. file[n][i] \in Data
          <6>1. CASE i = Len(list) + 1
            BY <2>1, <2>2, <6>1
          <6>2. CASE i # Len(list) + 1
            <7>1. i \in 1..Len(list)
              BY <2>2, <6>2
            <7> QED
              BY <5>1, <7>1
          <6> QED
            BY <6>1, <6>2
        <5>3. CASE i = 1
          <6>1. new[i] = e
            BY <4>1, <5>3
          <6> HIDE DEF new, e
          <6> QED
            BY <2>2, <5>1, <5>2, <5>3, <6>1
        <5>4. CASE i # 1
          <6>1. PICK j \in 1..Len(list) : i = j + 1
            <7>1. i - 1 \in 1..Len(list) /\ i = (i - 1) + 1
              BY <2>2, <5>4
            <7> QED
              BY <7>1
          <6>2. new[i] = list[j] /\ i - 1 = j
            BY <2>2, <4>1, <6>1
          <6>3. list[j].time <= new[j].time
            <7>1. CASE j = 1
              <8>1. new[j] = e /\ list[j].time <= now /\ e.time = now
                BY <4>1, <5>1, <7>1
              <8> HIDE DEF new, e
              <8> QED
                BY <8>1
            <7>2. CASE j # 1
              <8>1. PICK k \in 1..Len(list) : j = k + 1
                <9>1. j - 1 \in 1..Len(list) /\ j = (j - 1) + 1
                  BY <2>2, <7>2
                <9> QED
                  BY <9>1
              <8>2. new[j] = list[k] /\ j - 1 = k /\ j > 1
                <9>1. new[k + 1] = list[k]
                  BY <4>1
                <9> HIDE DEF new, list
                <9> QED
                  BY <8>1, <9>1
              <8> QED
                BY <5>1, <8>2
            <7> QED
              BY <7>1, <7>2
          <6>4. list[j].version = Len(list) + 1 - j /\ list[j].time <= now
            BY <5>1
          <6>5. Len(list) + 1 - j = Len(list) + 2 - i
            BY <2>2, <6>1
          <6> QED
            BY <5>2, <6>2, <6>3, <6>4, <6>5
        <5> QED
          BY <5>3, <5>4
      <4>3. Len(new) <= MaxVersion /\ Versions!Name(n) \in dirs' /\ file' = file /\ now' = now
        BY <1>1, <2>2, <4>1
      <4>4. ASSUME NEW i \in 1..Len(new)
            PROVE  /\ new[i].version = Len(new) + 1 - i
                   /\ file'[n][i] \in Data
                   /\ new[i].time <= now'
                   /\ i > 1 => new[i].time <= new[i - 1].time
        <5>1. i \in 1..Len(list) + 1 /\ Len(new) + 1 - i = Len(list) + 2 - i
          BY <2>2, <4>1
        <5> HIDE DEF new
        <5> QED
          BY <4>2, <4>3, <5>1
      <4> QED
        BY <3>2, <4>1, <4>3, <4>4 DEF Whole
    <3> QED
      BY <3>1, <3>2
  <2>5. Kept'
    <3>1. ASSUME NEW r \in saved' PROVE r.version <= Len(index'[r.node].list) /\ file[r.node][r.version] = r.data
      <4>1. CASE r \in saved
        <5>1. /\ r.version <= Len(index[r.node].list) /\ file[r.node][r.version] = r.data
              /\ r.node \in Node /\ r.version \in Nat
          BY <1>1, <4>1 DEF Kept, VersionsTypes, Versions!Version
        <5>2. Len(index'[r.node].list) = Len(index[r.node].list) \/ Len(index'[r.node].list) = Len(index[r.node].list) + 1
          BY <2>1, <5>1 DEF Entering
        <5>3. Len(index[r.node].list) \in Nat
          BY <1>1, <5>1, IndexTypes
        <5> QED
          BY <5>1, <5>2, <5>3
      <4>2. CASE r = [node |-> n, version |-> save.version, data |-> save.data]
        <5>1. r.node = n /\ r.version = save.version /\ r.data = save.data
          BY <4>2
        <5>2. Len(index'[n].list) = Len(list) + 1
          BY <2>1 DEF Entering
        <5> QED
          BY <2>1, <2>2, <5>1, <5>2
      <4> QED
        BY <2>1, <4>1, <4>2
    <3> QED
      BY <1>1, <3>1 DEF Kept
  <2>6. Saving'
    BY <1>1 DEF Saving
  <2> QED
    BY <2>3, <2>4, <2>5, <2>6 DEF VersionsInv
<1> QED
  BY <1>2, <1>3, IndexedOrNot

LEMMA VersionsNext ==
  ASSUME "short" \notin Fault, VersionsInv, Versions!Next
  PROVE  VersionsInv'
<1>0. now \in Versions!Time /\ now <= now
  BY DEF VersionsInv, VersionsTypes, Versions!Time
<1>1. ASSUME NEW s \in Store, Versions!New(s) PROVE VersionsInv'
  BY <1>0, <1>1, FilesStay DEF Versions!New, Versions!disk
<1>2. CASE Versions!Crash
  BY <1>0, <1>2, FilesStay DEF Versions!Crash, Versions!disk
<1>3. CASE Versions!Tick
  <2>1. now' \in Versions!Time /\ now <= now'
    BY <1>0, <1>3, NumbersAre DEF Versions!Tick, Versions!Time
  <2> QED
    BY <1>3, <2>1, FilesStay DEF Versions!Tick, Versions!disk
<1> QED
  BY <1>1, <1>2, <1>3, StartSaveStep, WriteDataStep, WriteIndexStep DEF Versions!Next

\* The index of every node, its files and the save in progress, as long as what is written
\* to a file is all there: the code does not look whether it is (util.lua:52-59).
THEOREM VersionsInvariant == ASSUME "short" \notin Fault PROVE MCSpec => []VersionsInv
<1>1. ASSUME VersionsInv,
             [MCNext]_<<part, vars, now, dirs, file, index, node_table, save, saved, disk, cache, page>>
      PROVE  VersionsInv'
  <2>1. CASE Versions!Next
    BY <1>1, <2>1, VersionsNext
  <2>2. CASE UNCHANGED <<now, dirs, file, index, save, saved>>
    BY <1>1, <2>2 DEF VersionsInv, VersionsTypes, Whole, Saving, Kept
  <2> QED
    BY <1>1, <2>1, <2>2 DEF MCNext, Still
<1> QED
  BY <1>1, VersionsStart, PTL DEF MCSpec

\* The index of a node lists the versions n, ..., 1 with their data, the later the newer,
\* wherever saves were cut off or failed, however many stores save (filedir.lua:207-234).
THEOREM IndexStaysSound == ASSUME "short" \notin Fault PROVE MCSpec => []Versions!IndexSound
<1>1. VersionsInv => Versions!IndexSound
  <2>1. SUFFICES ASSUME VersionsInv, NEW n \in Node
                 PROVE  LET list == index[n].list IN
                        /\ index[n].whole
                        /\ list # <<>> => Versions!Name(n) \in dirs
                        /\ \A i \in DOMAIN list : /\ list[i].version = Len(list) + 1 - i
                                                  /\ file[n][i] \in Data
                                                  /\ i > 1 => list[i].time <= list[i - 1].time
    BY DEF Versions!IndexSound
  <2>2. Whole(n) /\ DOMAIN index[n].list = 1..Len(index[n].list)
    BY <2>1, IndexTypes DEF VersionsInv
  <2> QED
    BY <2>2 DEF Whole
<1> QED
  BY <1>1, VersionsInvariant, PTL
-----------------------------------------------------------------------------
(* Saving appends a version, in the step that writes the index.            *)

Held == [data : Data \cup {NIL, TORN}, time : Versions!Time]

LEMMA HeldIs ==
  ASSUME NEW list \in Seq(Entry), Len(list) <= MaxVersion, NEW f \in [Versions!Version -> Data \cup {NIL, TORN}]
  PROVE  LET h == [v \in DOMAIN list |-> [data |-> f[v], time |-> list[Len(list) + 1 - v].time]]
         IN  /\ h \in Seq(Held) /\ Len(h) = Len(list)
             /\ \A v \in 1..Len(list) : h[v] = [data |-> f[v], time |-> list[Len(list) + 1 - v].time]
<1> DEFINE k == Len(list)
           at(v) == [data |-> f[v], time |-> list[k + 1 - v].time]
<1>1. k \in Nat /\ DOMAIN list = 1..k /\ k <= MaxVersion
  OBVIOUS
<1>2. ASSUME NEW v \in 1..k PROVE at(v) \in Held
  <2>1. v \in Versions!Version
    BY <1>1, NumbersAre DEF Versions!Version
  <2>2. k + 1 - v \in 1..k
    BY <1>1
  <2>3. list[k + 1 - v] \in Entry
    BY <1>1, <2>2
  <2> HIDE DEF k
  <2> QED
    BY <2>1, <2>3 DEF Entry, Held
<1>3. [v \in DOMAIN list |-> [data |-> f[v], time |-> list[Len(list) + 1 - v].time]] = [v \in 1..k |-> at(v)]
  BY <1>1
<1> HIDE DEF at, k
<1>4. [v \in 1..k |-> at(v)] \in Seq(Held) /\ Len([v \in 1..k |-> at(v)]) = k
  BY <1>1, <1>2
<1> QED
  BY <1>3, <1>4 DEF at, k

LEMMA SameHeld ==
  ASSUME VersionsTypes, index' = index,
         \A n \in Node : \A v \in 1..Len(index[n].list) : file'[n][v] = file[n][v]
  PROVE  Versions!Held' = Versions!Held
<1>1. ASSUME NEW n \in Node
      PROVE  [v \in DOMAIN index[n].list |->
                [data |-> file'[n][v], time |-> index[n].list[Len(index[n].list) + 1 - v].time]]
             = [v \in DOMAIN index[n].list |->
                [data |-> file[n][v], time |-> index[n].list[Len(index[n].list) + 1 - v].time]]
  <2>1. DOMAIN index[n].list = 1..Len(index[n].list)
    BY IndexTypes
  <2> QED
    BY <2>1
<1> QED
  BY <1>1 DEF Versions!Held

LEMMA HeldGrows ==
  ASSUME VersionsInv, VersionsInv', Versions!WriteIndex, Indexed
  PROVE  /\ save.node \in Node /\ save.data \in Data /\ now \in Versions!Time
         /\ Versions!Held' = [Versions!Held EXCEPT ![save.node] = Append(@, [data |-> save.data, time |-> now])]
<1> DEFINE n == save.node
           e == [version |-> save.version, time |-> now]
           one == [data |-> save.data, time |-> now]
           old == Versions!Held[n]
           k == Len(index[n].list)
<1>1. /\ n \in Node /\ save.data \in Data /\ save.version = k + 1 /\ Entering(n, e)
      /\ save # NIL /\ save.step = "index"
  BY IndexWritten
<1>2. /\ VersionsTypes /\ VersionsTypes' /\ file' = file /\ now \in Versions!Time /\ k \in Nat /\ k + 1 <= MaxVersion
      /\ file[n][k + 1] = save.data /\ Len(index'[n].list) = k + 1 /\ k <= MaxVersion
  <2>1. VersionsTypes /\ VersionsTypes' /\ file' = file /\ now \in Versions!Time /\ Saving
    BY DEF VersionsInv, VersionsTypes, Versions!WriteIndex
  <2>2. k \in Nat /\ k < MaxVersion /\ file[n][save.version] = save.data
    BY <1>1, <2>1, IndexTypes DEF Saving
  <2>3. Len(index'[n].list) = k + 1
    BY <1>1 DEF Entering
  <2> HIDE DEF k
  <2> QED
    BY <1>1, <2>1, <2>2, <2>3, NumbersAre
<1>3. /\ old \in Seq(Held) /\ Len(old) = k
      /\ \A v \in 1..k : old[v] = [data |-> file[n][v], time |-> index[n].list[k + 1 - v].time]
  <2>1. index[n].list \in Seq(Entry) /\ file[n] \in [Versions!Version -> Data \cup {NIL, TORN}]
    BY <1>1, <1>2, IndexTypes DEF VersionsTypes
  <2>2. old = [v \in DOMAIN index[n].list |->
                 [data |-> file[n][v], time |-> index[n].list[Len(index[n].list) + 1 - v].time]]
    BY <1>1 DEF Versions!Held
  <2> HIDE DEF old, n
  <2> QED
    BY <1>2, <2>1, <2>2, HeldIs
<1>4. /\ Versions!Held'[n] \in Seq(Held) /\ Len(Versions!Held'[n]) = k + 1
      /\ \A v \in 1..k + 1 : Versions!Held'[n][v] = [data |-> file[n][v], time |-> index'[n].list[k + 2 - v].time]
  <2>1. /\ Versions!Held'[n] \in Seq(Held) /\ Len(Versions!Held'[n]) = Len(index'[n].list)
        /\ \A v \in 1..Len(index'[n].list) :
             Versions!Held'[n][v] = [data |-> file'[n][v], time |-> index'[n].list[Len(index'[n].list) + 1 - v].time]
    <3>1. /\ index'[n].list \in Seq(Entry) /\ file'[n] \in [Versions!Version -> Data \cup {NIL, TORN}]
          /\ Len(index'[n].list) <= MaxVersion
      BY <1>1, <1>2 DEF VersionsTypes, Entering
    <3>2. Versions!Held'[n] = [v \in DOMAIN index'[n].list |->
                 [data |-> file'[n][v], time |-> index'[n].list[Len(index'[n].list) + 1 - v].time]]
      BY <1>1 DEF Versions!Held
    <3> DEFINE list == index'[n].list
               f == file'[n]
               h == Versions!Held'[n]
    <3>3. list \in Seq(Entry) /\ f \in [Versions!Version -> Data \cup {NIL, TORN}] /\ Len(list) <= MaxVersion
          /\ h = [v \in DOMAIN list |-> [data |-> f[v], time |-> list[Len(list) + 1 - v].time]]
      BY <3>1, <3>2
    <3> HIDE DEF list, f, h
    <3>4. /\ h \in Seq(Held) /\ Len(h) = Len(list)
          /\ \A v \in 1..Len(list) : h[v] = [data |-> f[v], time |-> list[Len(list) + 1 - v].time]
      BY <3>3, HeldIs
    <3> QED
      BY <3>4 DEF list, f, h
  <2>2. \A v \in 1..k + 1 : (k + 1) + 1 - v = k + 2 - v
    BY <1>2
  <2> HIDE DEF n, k
  <2> QED
    BY <1>2, <2>1, <2>2
<1>5. one \in Held
  BY <1>1, <1>2 DEF Held
<1>6. /\ Append(old, one) \in Seq(Held) /\ Len(Append(old, one)) = k + 1
      /\ \A v \in 1..k : Append(old, one)[v] = old[v]
      /\ Append(old, one)[k + 1] = one
  <2> HIDE DEF one, old, k
  <2> QED
    BY <1>3, <1>5, AppendProperties
<1>7. ASSUME NEW v \in 1..k + 1 PROVE Versions!Held'[n][v] = Append(old, one)[v]
  <2>1. CASE v = k + 1
    <3>1. k + 2 - v = 1 /\ index'[n].list[1] = e
      BY <1>1, <1>2, <2>1 DEF Entering
    <3>2. index'[n].list[k + 2 - v].time = now
      BY <3>1
    <3>3. file[n][v] = save.data
      BY <1>2, <2>1
    <3>4. Versions!Held'[n][v] = one
      BY <1>4, <3>2, <3>3
    <3> QED
      BY <1>6, <2>1, <3>4
  <2>2. CASE v # k + 1
    <3>1. v \in 1..k /\ k + 1 - v \in 1..k /\ k + 2 - v = (k + 1 - v) + 1
      <4> HIDE DEF k
      <4> QED
        BY <1>2, <2>2
    <3>2. index'[n].list[(k + 1 - v) + 1] = index[n].list[k + 1 - v]
      BY <1>1, <3>1 DEF Entering
    <3>3. Versions!Held'[n][v] = [data |-> file[n][v], time |-> index[n].list[k + 1 - v].time]
      BY <1>4, <3>1, <3>2
    <3> QED
      BY <1>3, <1>6, <3>1, <3>3
  <2> QED
    BY <2>1, <2>2
<1>8. Versions!Held'[n] = Append(old, one)
  <2> DEFINE s == Versions!Held'[n]
             t == Append(old, one)
  <2>1. s \in Seq(Held) /\ t \in Seq(Held) /\ Len(s) = Len(t) /\ \A v \in 1..Len(s) : s[v] = t[v]
    BY <1>4, <1>6, <1>7
  <2> HIDE DEF s, t
  <2>2. s = t
    BY <2>1, SeqEqual
  <2> QED
    BY <2>2 DEF s, t
<1>9. \A m \in Node : m # n => Versions!Held'[m] = Versions!Held[m]
  BY <1>1, <1>2 DEF Versions!Held, Entering
<1>10. /\ Versions!Held' = [m \in Node |-> Versions!Held'[m]]
       /\ Versions!Held = [m \in Node |-> Versions!Held[m]]
  BY DEF Versions!Held
<1>11. Versions!Held' = [Versions!Held EXCEPT ![n] = Append(old, one)]
  <2> DEFINE h == Versions!Held
             g == Versions!Held'
  <2>1. /\ g = [m \in Node |-> g[m]] /\ h = [m \in Node |-> h[m]] /\ n \in Node
        /\ g[n] = Append(old, one) /\ \A m \in Node : m # n => g[m] = h[m]
    BY <1>1, <1>8, <1>9, <1>10
  <2> HIDE DEF h, g, n, old, one
  <2>2. g = [h EXCEPT ![n] = Append(old, one)]
    BY <2>1
  <2> QED
    BY <2>2 DEF h, g
<1> QED
  BY <1>1, <1>2, <1>11

\* Saving appends a version to its node and changes no other, although it is done in three
\* steps each of which may fail or be the last thing the process did (filedir.lua:207-234).
THEOREM SavingAppends == ASSUME "short" \notin Fault PROVE MCSpec => ImplementsVersionedStore
<1>1. MCInit => Versions!S!Init
  <2> SUFFICES ASSUME MCInit PROVE Versions!Held = [n \in Node |-> <<>>]
    BY DEF Versions!S!Init
  <2>1. VersionsInv /\ index = [n \in Node |-> Versions!EmptyIndex]
    BY VersionsStart DEF MCInit, Versions!Init
  <2>2. ASSUME NEW n \in Node PROVE Versions!Held[n] = <<>>
    <3>1. index[n].list = <<>> /\ Len(index[n].list) = 0
      BY <2>1 DEF Versions!EmptyIndex
    <3>2. Versions!Held[n] = [v \in {} |-> [data |-> file[n][v], time |-> index[n].list[Len(index[n].list) + 1 - v].time]]
      BY <3>1 DEF Versions!Held
    <3> QED
      BY <3>2
  <2>3. Versions!Held = [n \in Node |-> Versions!Held[n]]
    BY DEF Versions!Held
  <2> QED
    BY <2>2, <2>3
<1>2. ASSUME VersionsInv, VersionsInv',
             [MCNext]_<<part, vars, now, dirs, file, index, node_table, save, saved, disk, cache, page>>
      PROVE  [Versions!S!Next]_Versions!Held
  <2>0. VersionsTypes /\ Saving
    BY <1>2 DEF VersionsInv
  <2>1. CASE index' = index /\ file' = file
    <3>1. Versions!Held' = Versions!Held
      BY <2>0, <2>1, SameHeld
    <3> QED
      BY <3>1
  <2>2. CASE Versions!WriteData
    <3>1. index' = index
      BY <2>2 DEF Versions!WriteData
    <3>2. ASSUME NEW n \in Node, NEW v \in 1..Len(index[n].list) PROVE file'[n][v] = file[n][v]
      <4> DEFINE m == save.node
                 w == Len(index[m].list) + 1
      <4>1. save # NIL /\ m \in Node /\ Len(index[m].list) < MaxVersion /\ Len(index[m].list) \in Nat
        BY <2>0, <2>2, SaveTypes, IndexTypes DEF Versions!WriteData, Saving
      <4>2. PICK d : file' = file \/ file' = [file EXCEPT ![m][w] = d]
        BY <2>2 DEF Versions!WriteData, Versions!NewVersion
      <4>3. Len(index[n].list) \in Nat /\ (n = m => v # w)
        BY <2>0, <4>1, IndexTypes
      <4>4. file \in [Node -> [Versions!Version -> Data \cup {NIL, TORN}]]
        BY <2>0 DEF VersionsTypes
      <4>5. v \in Versions!Version
        BY <1>2, <4>3, NumbersAre DEF VersionsInv, Whole, Versions!Version
      <4> HIDE DEF m, w
      <4> QED
        BY <4>1, <4>2, <4>3, <4>4, <4>5
    <3>3. Versions!Held' = Versions!Held
      BY <2>0, <3>1, <3>2, SameHeld
    <3> QED
      BY <3>3
  <2>3. CASE Versions!WriteIndex
    <3>1. CASE Indexed
      BY <1>2, <2>3, <3>1, HeldGrows DEF Versions!S!Next, Versions!S!Save
    <3>2. CASE index' = index
      BY <2>1, <2>3, <3>2 DEF Versions!WriteIndex
    <3> QED
      BY <2>3, <3>1, <3>2, IndexedOrNot
  <2>4. CASE Versions!Next
    <3>1. ASSUME \/ \E s \in Store : Versions!New(s)
                 \/ \E s \in Store, n \in Node, d \in Data : Versions!StartSave(s, n, d)
                 \/ Versions!Crash \/ Versions!Tick
          PROVE  index' = index /\ file' = file
      BY <3>1 DEF Versions!New, Versions!StartSave, Versions!Crash, Versions!Tick, Versions!disk
    <3> QED
      BY <2>1, <2>2, <2>3, <2>4, <3>1 DEF Versions!Next
  <2>5. CASE UNCHANGED <<now, dirs, file, index, save, saved>>
    BY <2>1, <2>5
  <2> QED
    BY <1>2, <2>4, <2>5 DEF MCNext, Still
<1> QED
  BY <1>1, <1>2, VersionsInvariant, PTL DEF MCSpec, ImplementsVersionedStore, Versions!ImplementsVersionedStore, Versions!S!Spec
-----------------------------------------------------------------------------
(* What stores read, and which nodes they know.                            *)

Below == {ss \in Nat \X Nat : ss[1] < ss[2]}

\* A set of numbers has a least one.
LEMMA LeastNumber ==
  ASSUME NEW T, T \subseteq Nat, T # {}
  PROVE  \E x \in T : \A y \in T : ~(y < x)
<1>1. IsWellFoundedOn(Below, Nat)
  BY NatLessThanWellFounded DEF OpToRel, Below
<1>2. \E x \in T : \A y \in T : <<y, x>> \notin Below
  BY <1>1, WFMin
<1> QED
  BY <1>2 DEF Below

\* f has what parse_history has found after each entry of the list.
IsParse(f, list, p, limit) ==
  f = [i \in 0..Len(list) |->
         IF i = 0 THEN <<>>
         ELSE IF (limit = NIL \/ Len(f[i - 1]) <= limit) /\ list[i].time \in p
              THEN Append(f[i - 1], list[i]) ELSE f[i - 1]]

\* The same for the first k entries only.
ParseStart(f, list, p, limit, k) ==
  f = [i \in 0..k |->
         IF i = 0 THEN <<>>
         ELSE IF (limit = NIL \/ Len(f[i - 1]) <= limit) /\ list[i].time \in p
              THEN Append(f[i - 1], list[i]) ELSE f[i - 1]]

LEMMA ParseGrows ==
  ASSUME NEW list, NEW p, NEW limit, NEW k \in Nat, NEW f, ParseStart(f, list, p, limit, k)
  PROVE  \E h : ParseStart(h, list, p, limit, k + 1)
<1> DEFINE Next1(z, i) == IF i = 0 THEN <<>>
                      ELSE IF (limit = NIL \/ Len(z[i - 1]) <= limit) /\ list[i].time \in p
                           THEN Append(z[i - 1], list[i]) ELSE z[i - 1]
           h == [i \in 0..k + 1 |-> IF i = k + 1 THEN Next1(f, k + 1) ELSE f[i]]
<1>1. \A i \in 0..k : f[i] = Next1(f, i)
  BY DEF ParseStart
<1>2. \A i \in 0..k : h[i] = f[i]
  OBVIOUS
<1>3. h[k + 1] = Next1(f, k + 1)
  OBVIOUS
<1>4. \A i \in 0..k + 1 : i # 0 => i - 1 \in 0..k
  OBVIOUS
<1>5. \A i \in 0..k + 1 : Next1(h, i) = Next1(f, i)
  <2> HIDE DEF h
  <2> QED
    BY <1>2, <1>4
<1>6. \A i \in 0..k + 1 : h[i] = Next1(h, i)
  <2>1. SUFFICES ASSUME NEW i \in 0..k + 1 PROVE h[i] = Next1(f, i)
    <3> HIDE DEF h, Next1
    <3> QED
      BY <1>5
  <2>2. i \in 0..k \/ i = k + 1
    OBVIOUS
  <2> HIDE DEF h, Next1
  <2> QED
    BY <1>1, <1>2, <1>3, <2>2
<1>7. h = [i \in 0..k + 1 |-> Next1(h, i)]
  <2>1. h = [i \in 0..k + 1 |-> h[i]]
    OBVIOUS
  <2> HIDE DEF h, Next1
  <2> QED
    BY <1>6, <2>1
<1> HIDE DEF h
<1> QED
  BY <1>7 DEF ParseStart

LEMMA ParseExists ==
  ASSUME NEW list, Len(list) \in Nat, NEW p, NEW limit
  PROVE  \E f : IsParse(f, list, p, limit) /\ Versions!parse_history(list, p, limit) = f[Len(list)]
<1> DEFINE T == {k \in Nat : ~\E f : ParseStart(f, list, p, limit, k)}
<1>1. T = {}
  <2>1. SUFFICES ASSUME NEW x \in T, \A y \in T : ~(y < x) PROVE FALSE
    BY LeastNumber
  <2>2. CASE x = 0
    <3> DEFINE e == [i \in 0..0 |-> <<>>]
    <3>1. ParseStart(e, list, p, limit, 0)
      <4>1. \A i \in 0..0 : i = 0
        OBVIOUS
      <4> QED
        BY <4>1 DEF ParseStart
    <3> QED
      BY <2>2, <3>1
  <2>3. CASE x # 0
    <3>1. x - 1 \in Nat /\ x - 1 < x /\ x = (x - 1) + 1
      BY <2>3
    <3>2. PICK f : ParseStart(f, list, p, limit, x - 1)
      BY <2>1, <3>1
    <3>3. \E h : ParseStart(h, list, p, limit, (x - 1) + 1)
      BY <3>1, <3>2, ParseGrows
    <3> QED
      BY <3>1, <3>3
  <2> QED
    BY <2>2, <2>3
<1>2. PICK f : ParseStart(f, list, p, limit, Len(list))
  BY <1>1
<1>3. \E h : IsParse(h, list, p, limit)
  BY <1>2 DEF ParseStart, IsParse
<1> QED
  BY <1>3 DEF IsParse, Versions!parse_history

\* What has been found in the first k entries of a list that has the newest first: entries of
\* the times in p, the newest first, and every such entry unless the limit was passed.
Parsed(h, list, p, limit, k) ==
  /\ h \in Seq(Entry)
  /\ \A a, b \in 1..Len(h) : a < b => h[b].version < h[a].version
  /\ \A a \in 1..Len(h) : \E i \in 1..k : h[a] = list[i] /\ list[i].time \in p
  /\ \A i \in 1..k : list[i].time \in p =>
       \/ \E a \in 1..Len(h) : h[a] = list[i]
       \/ limit # NIL /\ Len(h) > limit /\ \A a \in 1..Len(h) : h[a].version > list[i].version

Descends(list) == \A i, j \in 1..Len(list) : i < j => list[j].version < list[i].version

LEMMA ParsedTaken ==
  ASSUME NEW list \in Seq(Entry), Descends(list), NEW p, NEW limit \in Nat \cup {NIL}, NEW k \in Nat, k < Len(list),
         NEW h, Parsed(h, list, p, limit, k), limit = NIL \/ Len(h) <= limit, list[k + 1].time \in p
  PROVE  Parsed(Append(h, list[k + 1]), list, p, limit, k + 1)
<1>1. PICK e : e = list[k + 1]
  OBVIOUS
<1>2. PICK j : j = k + 1
  OBVIOUS
<1>3. j \in 1..Len(list) /\ e = list[j] /\ e \in Entry /\ h \in Seq(Entry) /\ Len(h) \in Nat
  <2>1. h \in Seq(Entry) /\ Len(list) \in Nat /\ j \in 1..Len(list)
    BY <1>2, LenProperties DEF Parsed
  <2> QED
    BY <1>1, <1>2, <2>1, ElementOfSeq, LenProperties
<1> DEFINE w == Append(h, e)
<1>4. w \in Seq(Entry) /\ Len(w) = Len(h) + 1 /\ w[Len(h) + 1] = e /\ \A a \in 1..Len(h) : w[a] = h[a]
  BY <1>3, AppendProperties
<1> HIDE DEF w
<1>5. \A a \in 1..Len(h) : \E i \in 1..k : h[a] = list[i] /\ list[i].time \in p
  BY DEF Parsed
<1>6. \A a \in 1..Len(h) : e.version < h[a].version
  <2>1. SUFFICES ASSUME NEW a \in 1..Len(h) PROVE e.version < h[a].version
    OBVIOUS
  <2>2. PICK i \in 1..k : h[a] = list[i]
    BY <1>5
  <2>3. i \in 1..Len(list) /\ i < j
    BY <1>2
  <2> QED
    BY <1>3, <2>2, <2>3 DEF Descends
<1>7. \A a, b \in 1..Len(w) : a < b => w[b].version < w[a].version
  <2>1. SUFFICES ASSUME NEW a \in 1..Len(w), NEW b \in 1..Len(w), a < b PROVE w[b].version < w[a].version
    OBVIOUS
  <2>2. a \in 1..Len(h) /\ (b \in 1..Len(h) \/ b = Len(h) + 1)
    BY <1>3, <1>4, <2>1
  <2>3. \A x, y \in 1..Len(h) : x < y => h[y].version < h[x].version
    BY DEF Parsed
  <2> QED
    BY <1>4, <1>6, <2>1, <2>2, <2>3
<1>8. \A a \in 1..Len(w) : \E i \in 1..k + 1 : w[a] = list[i] /\ list[i].time \in p
  <2>1. SUFFICES ASSUME NEW a \in 1..Len(w) PROVE \E i \in 1..k + 1 : w[a] = list[i] /\ list[i].time \in p
    OBVIOUS
  <2>2. CASE a \in 1..Len(h)
    <3>1. PICK i \in 1..k : h[a] = list[i] /\ list[i].time \in p
      BY <1>5, <2>2
    <3>2. i \in 1..k + 1
      OBVIOUS
    <3> QED
      BY <1>4, <2>2, <3>1, <3>2
  <2>3. CASE a = Len(h) + 1
    <3>1. k + 1 \in 1..k + 1
      OBVIOUS
    <3> QED
      BY <1>1, <1>4, <2>3, <3>1
  <2> QED
    BY <1>3, <1>4, <2>2, <2>3
<1>9. \A i \in 1..k + 1 : list[i].time \in p => \E a \in 1..Len(w) : w[a] = list[i]
  <2>1. SUFFICES ASSUME NEW i \in 1..k + 1, list[i].time \in p PROVE \E a \in 1..Len(w) : w[a] = list[i]
    OBVIOUS
  <2>2. CASE i \in 1..k
    <3>1. PICK a \in 1..Len(h) : h[a] = list[i]
      <4>1. ~(limit # NIL /\ Len(h) > limit)
        BY <1>3
      <4> QED
        BY <2>1, <2>2, <4>1 DEF Parsed
    <3>2. a \in 1..Len(w)
      BY <1>3, <1>4
    <3> QED
      BY <1>4, <3>1, <3>2
  <2>3. CASE i = k + 1
    <3>1. Len(h) + 1 \in 1..Len(w)
      BY <1>3, <1>4
    <3> QED
      BY <1>1, <1>4, <2>3, <3>1
  <2> QED
    BY <2>2, <2>3
<1> QED
  BY <1>1, <1>4, <1>7, <1>8, <1>9 DEF Parsed, w

LEMMA ParsedPassed ==
  ASSUME NEW list \in Seq(Entry), Descends(list), NEW p, NEW limit \in Nat \cup {NIL}, NEW k \in Nat, k < Len(list),
         NEW h, Parsed(h, list, p, limit, k), (limit # NIL /\ Len(h) > limit) \/ list[k + 1].time \notin p
  PROVE  Parsed(h, list, p, limit, k + 1)
<1>1. PICK j : j = k + 1
  OBVIOUS
<1>2. j \in 1..Len(list) /\ Len(list) \in Nat
  BY <1>1, LenProperties
<1>3. \A a \in 1..Len(h) : \E i \in 1..k + 1 : h[a] = list[i] /\ list[i].time \in p
  <2>1. \A i \in 1..k : i \in 1..k + 1
    OBVIOUS
  <2> QED
    BY <2>1 DEF Parsed
<1>4. \A a \in 1..Len(h) : h[a].version > list[j].version
  <2>1. SUFFICES ASSUME NEW a \in 1..Len(h) PROVE h[a].version > list[j].version
    OBVIOUS
  <2>2. PICK i \in 1..k : h[a] = list[i]
    BY DEF Parsed
  <2>3. i \in 1..Len(list) /\ i < j
    BY <1>1
  <2>4. list[j].version < list[i].version
    BY <1>2, <2>3 DEF Descends
  <2>5. list[j].version \in Nat /\ list[i].version \in Nat
    <3>1. list[j] \in Entry /\ list[i] \in Entry
      BY <1>2, <2>3, ElementOfSeq
    <3> QED
      BY <3>1 DEF Entry, Versions!Version
  <2> QED
    BY <2>2, <2>4, <2>5
<1>5. ASSUME NEW i \in 1..k + 1, list[i].time \in p
      PROVE  \/ \E a \in 1..Len(h) : h[a] = list[i]
             \/ limit # NIL /\ Len(h) > limit /\ \A a \in 1..Len(h) : h[a].version > list[i].version
  <2>1. CASE i \in 1..k
    BY <1>5, <2>1 DEF Parsed
  <2>2. CASE i = k + 1
    BY <1>1, <1>4, <1>5, <2>2
  <2> QED
    BY <2>1, <2>2
<1> QED
  BY <1>3, <1>5 DEF Parsed

LEMMA ParseIs ==
  ASSUME NEW list \in Seq(Entry), Descends(list), NEW p, NEW limit \in Nat \cup {NIL}
  PROVE  Parsed(Versions!parse_history(list, p, limit), list, p, limit, Len(list))
<1>1. PICK n : n = Len(list)
  OBVIOUS
<1>2. n \in Nat
  BY <1>1, LenProperties
<1>3. PICK f : IsParse(f, list, p, limit) /\ Versions!parse_history(list, p, limit) = f[n]
  BY <1>1, <1>2, ParseExists
<1>4. \A i \in 0..n : f[i] = IF i = 0 THEN <<>>
                             ELSE IF (limit = NIL \/ Len(f[i - 1]) <= limit) /\ list[i].time \in p
                                  THEN Append(f[i - 1], list[i]) ELSE f[i - 1]
  BY <1>1, <1>3 DEF IsParse
<1> DEFINE T == {k \in Nat : k <= n /\ ~Parsed(f[k], list, p, limit, k)}
<1>5. T = {}
  <2>1. SUFFICES ASSUME NEW x \in T, \A y \in T : ~(y < x) PROVE FALSE
    BY LeastNumber
  <2>2. x \in Nat /\ x <= n /\ ~Parsed(f[x], list, p, limit, x)
    OBVIOUS
  <2>3. CASE x = 0
    <3>1. f[x] = <<>> /\ Len(<<>>) = 0 /\ <<>> \in Seq(Entry)
      <4>1. 0 \in 0..n
        BY <1>2
      <4> QED
        BY <1>4, <2>3, <4>1, EmptySeq
    <3>2. Parsed(f[x], list, p, limit, x)
      BY <2>3, <3>1 DEF Parsed
    <3> QED
      BY <2>2, <3>2
  <2>4. CASE x # 0
    <3>1. PICK k : k = x - 1
      OBVIOUS
    <3>2. k \in Nat /\ k < x /\ x = k + 1 /\ k < n /\ k <= n /\ x \in 0..n
      BY <1>2, <2>2, <2>4, <3>1
    <3>3. Parsed(f[k], list, p, limit, k)
      <4>1. k \notin T
        BY <2>1, <3>2
      <4> QED
        BY <3>2, <4>1
    <3> HIDE DEF T
    <3>4. f[x] = IF (limit = NIL \/ Len(f[k]) <= limit) /\ list[k + 1].time \in p
                 THEN Append(f[k], list[k + 1]) ELSE f[k]
      BY <1>4, <2>4, <3>1, <3>2
    <3>5. PICK h : h = f[k]
      OBVIOUS
    <3>6. CASE (limit = NIL \/ Len(h) <= limit) /\ list[k + 1].time \in p
      <4>1. Parsed(Append(h, list[k + 1]), list, p, limit, k + 1)
        BY <1>1, <3>2, <3>3, <3>5, <3>6, ParsedTaken
      <4> QED
        BY <2>2, <3>2, <3>4, <3>5, <3>6, <4>1
    <3>7. CASE ~((limit = NIL \/ Len(h) <= limit) /\ list[k + 1].time \in p)
      <4>1. h \in Seq(Entry)
        BY <3>3, <3>5 DEF Parsed
      <4>2. (limit # NIL /\ Len(h) > limit) \/ list[k + 1].time \notin p
        BY <3>7, <4>1, LenProperties
      <4>3. Parsed(h, list, p, limit, k + 1)
        BY <1>1, <3>2, <3>3, <3>5, <4>2, ParsedPassed
      <4> QED
        BY <2>2, <3>2, <3>4, <3>5, <3>7, <4>3
    <3> QED
      BY <3>6, <3>7
  <2> QED
    BY <2>3, <2>4
<1>6. n \notin T /\ n <= n
  BY <1>2, <1>5
<1> QED
  BY <1>1, <1>2, <1>3, <1>6

LEMMA LeastOfOne == \A i \in Int : Versions!Min({i}) = i
BY DEF Versions!Min

LEMMA NotSpecial ==
  /\ \A list \in Seq(Entry) : list # NIL /\ list # ERROR
  /\ \A e \in Entry : e # NIL
<1> DEFINE Plain == [version : Nat, time : Nat]
<1>1. NIL \notin Plain /\ NIL \notin Seq(Plain) /\ ERROR \notin Seq(Plain)
  BY VersionsAssumption DEF Versions!FileDirAssumption
<1>2. Entry \subseteq Plain
  BY NumbersAre DEF Entry, Versions!Version, Versions!Time
<1> HIDE DEF Plain
<1>3. \A list \in Seq(Entry) : list \in Seq(Plain)
  BY <1>2, SeqMonotonic
<1> QED
  BY <1>1, <1>2, <1>3

\* The index of a node in the order that its entries were written in, the newest first.
LEMMA IndexDescends ==
  ASSUME VersionsInv, NEW n \in Node
  PROVE  Descends(index[n].list)
<1>1. PICK list : list = index[n].list
  OBVIOUS
<1>2. PICK k : k = Len(list)
  OBVIOUS
<1>3. k \in Nat
  BY <1>1, <1>2, IndexTypes DEF VersionsInv
<1>4. \A i \in 1..k : list[i].version = k + 1 - i
  BY <1>1, <1>2 DEF VersionsInv, Whole
<1>5. \A i, j \in 1..k : i < j => list[j].version < list[i].version
  BY <1>3, <1>4
<1> QED
  BY <1>1, <1>2, <1>5 DEF Descends

\* The history that a store reads of a node it knows.
LEMMA HistoryRead ==
  ASSUME VersionsInv, NEW s \in Store, NEW n \in Node, n \in node_table[s], index[n].list # <<>>,
         NEW p, NEW limit \in Nat \cup {NIL}
  PROVE  /\ Versions!get_node_history(s, n, p, limit) = Versions!parse_history(index[n].list, p, limit)
         /\ Parsed(Versions!get_node_history(s, n, p, limit), index[n].list, p, limit, Len(index[n].list))
<1>1. index[n].list \in Seq(Entry) /\ index[n].whole
  BY IndexTypes DEF VersionsInv, Whole
<1>2. Versions!get_node_history(s, n, p, limit) = Versions!parse_history(index[n].list, p, limit)
  BY <1>1 DEF Versions!get_node_history, Versions!node_exists
<1> QED
  BY <1>1, <1>2, IndexDescends, ParseIs

\* The entry that get_node_info finds, and the file that get_node returns.
LEMMA FileRead ==
  ASSUME VersionsInv, NEW s \in Store, NEW n \in Node, n \in node_table[s], NEW v \in Nat \cup {NIL},
         NEW k \in 1..Len(index[n].list), v = NIL => k = Len(index[n].list), v # NIL => v = k
  PROVE  Versions!get_node(s, n, v) = file[n][k]
<1> DEFINE list == index[n].list
           i == Len(list) + 1 - k
           h(l) == Versions!get_node_history(s, n, Versions!Time, l)
<1>1. /\ list \in Seq(Entry) /\ Len(list) \in Nat /\ DOMAIN list = 1..Len(list) /\ k \in 1..Len(list)
      /\ Whole(n) /\ VersionsTypes
  BY IndexTypes DEF VersionsInv
<1>2. i \in 1..Len(list) /\ Len(list) + 1 - i = k
  <2> HIDE DEF list
  <2> QED
    BY <1>1
<1>3. list # <<>> /\ \A j \in 1..Len(list) : list[j] \in Entry /\ list[j].version = Len(list) + 1 - j /\ list[j].time \in Versions!Time
  <2>1. list # <<>>
    <3> HIDE DEF list
    <3> QED
      BY <1>1, EmptySeq
  <2>2. \A e \in Entry : e.time \in Versions!Time
    BY DEF Entry
  <2> QED
    BY <1>1, <2>1, <2>2, IndexTypes DEF Whole
<1>4. ASSUME NEW l \in Nat \cup {NIL} PROVE Parsed(h(l), list, Versions!Time, l, Len(list))
  BY <1>3, HistoryRead
<1>5. list[i].version = k /\ list[i] \in Entry /\ list[i] # NIL /\ file[n][k] # NIL
  <2>1. list[i] \in Entry /\ list[i].version = Len(list) + 1 - i /\ file[n][k] \in Data
    BY <1>1, <1>2, <1>3 DEF Whole
  <2> HIDE DEF list, i
  <2> QED
    BY <1>2, <2>1, NotSpecial, NumbersAre
<1>6. Versions!get_node_info(s, n, v) = list[i]
  <2>1. CASE v # NIL
    <3>1. PICK g : g = h(NIL)
      OBVIOUS
    <3>2. v = k /\ k # NIL
      BY <2>1
    <3> HIDE DEF h
    <3>3. Parsed(g, list, Versions!Time, NIL, Len(list))
      BY <1>4, <3>1
    <3> HIDE DEF list, i
    <3>4. PICK a \in 1..Len(g) : g[a] = list[i]
      BY <1>2, <1>3, <3>3 DEF Parsed
    <3>5. DOMAIN g = 1..Len(g) /\ Len(g) \in Nat
      BY <3>3, LenProperties DEF Parsed
    <3>6. \A j \in 1..Len(g) : g[j].version = k <=> j = a
      <4>1. \A x, y \in 1..Len(g) : x < y => g[y].version < g[x].version
        BY <3>3 DEF Parsed
      <4>2. g[a].version = k
        BY <1>5, <3>4
      <4>3. SUFFICES ASSUME NEW j \in 1..Len(g), g[j].version = k, j # a PROVE FALSE
        BY <4>2
      <4>4. j < a \/ a < j
        BY <3>5, <4>3
      <4>5. k < k
        BY <4>1, <4>2, <4>3, <4>4
      <4> QED
        BY <1>1, <4>5
    <3>7. {j \in DOMAIN g : v \in {NIL, g[j].version}} = {a}
      BY <3>2, <3>5, <3>6
    <3>8. Versions!Min({a}) = a /\ {a} # {}
      BY <3>5, LeastOfOne
    <3> QED
      BY <2>1, <3>1, <3>4, <3>7, <3>8 DEF Versions!get_node_info, h
  <2>2. CASE v = NIL
    <3>1. PICK g : g = h(1)
      OBVIOUS
    <3>2. i = 1 /\ 1 # NIL /\ k = Len(list)
      <4>1. k = Len(list)
        BY <2>2
      <4>2. PICK m : m = Len(list)
        OBVIOUS
      <4>3. m \in Nat /\ i = m + 1 - m
        BY <1>1, <4>1, <4>2
      <4>4. 1 # NIL
        BY NumbersAre
      <4> HIDE DEF list, i
      <4> QED
        BY <4>1, <4>3, <4>4
    <3> HIDE DEF h
    <3>3. Parsed(g, list, Versions!Time, 1, Len(list))
      BY <1>4, <3>1
    <3> HIDE DEF list, i
    <3>4. DOMAIN g = 1..Len(g) /\ Len(g) \in Nat
      BY <3>3, LenProperties DEF Parsed
    <3>5. \A j \in 1..Len(g) : g[j].version \in Nat /\ g[j].version <= k
      <4>1. SUFFICES ASSUME NEW j \in 1..Len(g) PROVE g[j].version \in Nat /\ g[j].version <= k
        OBVIOUS
      <4>2. PICK x \in 1..Len(list) : g[j] = list[x]
        BY <3>3 DEF Parsed
      <4>3. g[j].version = Len(list) + 1 - x
        BY <1>3, <4>2
      <4>4. Len(list) + 1 - x \in Nat /\ Len(list) + 1 - x <= k
        <5>1. PICK m : m = Len(list)
          OBVIOUS
        <5>2. m \in Nat /\ x \in 1..m /\ k = m
          BY <1>1, <3>2, <5>1
        <5>3. m + 1 - x \in Nat /\ m + 1 - x <= m
          BY <5>2
        <5> QED
          BY <5>1, <5>2, <5>3
      <4> QED
        BY <4>3, <4>4
    <3>6. PICK a \in 1..Len(g) : g[a] = list[i]
      <4>1. \/ \E a \in 1..Len(g) : g[a] = list[i]
            \/ Len(g) > 1 /\ \A a \in 1..Len(g) : g[a].version > list[i].version
        BY <1>2, <1>3, <3>3 DEF Parsed
      <4>2. ASSUME Len(g) > 1, \A a \in 1..Len(g) : g[a].version > list[i].version PROVE FALSE
        <5>1. 1 \in 1..Len(g)
          BY <3>4, <4>2
        <5>2. g[1].version > k /\ g[1].version \in Nat /\ g[1].version <= k
          BY <1>5, <3>5, <4>2, <5>1
        <5> QED
          BY <1>1, <5>2
      <4> QED
        BY <4>1, <4>2
    <3>7. a = 1
      <4>1. SUFFICES ASSUME a # 1 PROVE FALSE
        OBVIOUS
      <4>2. 1 \in 1..Len(g) /\ 1 < a
        BY <3>4, <4>1
      <4>3. g[a].version < g[1].version
        BY <3>3, <4>2 DEF Parsed
      <4>4. g[a].version = k /\ g[1].version <= k /\ g[1].version \in Nat
        BY <1>5, <3>5, <3>6, <4>2
      <4> QED
        BY <1>1, <4>3, <4>4
    <3>8. {j \in DOMAIN g : v \in {NIL, g[j].version}} = 1..Len(g)
      BY <2>2, <3>4
    <3>9. Versions!Min(1..Len(g)) = 1 /\ 1..Len(g) # {}
      <4>1. 1 \in 1..Len(g) /\ \A y \in 1..Len(g) : 1 <= y
        BY <3>4, <3>7
      <4>2. \A x \in 1..Len(g) : (\A y \in 1..Len(g) : x <= y) => x = 1
        BY <3>4, <4>1
      <4> QED
        BY <4>1, <4>2 DEF Versions!Min
    <3> QED
      BY <2>2, <3>1, <3>2, <3>6, <3>7, <3>8, <3>9 DEF Versions!get_node_info, h
  <2> QED
    BY <2>1, <2>2
<1>7. h(NIL) # ERROR
  <2>1. Parsed(h(NIL), list, Versions!Time, NIL, Len(list))
    BY <1>4
  <2> HIDE DEF h, list
  <2> QED
    BY <2>1, NotSpecial DEF Parsed
<1> HIDE DEF list, i
<1> QED
  BY <1>5, <1>6, <1>7 DEF Versions!get_node, Versions!node_exists

\* A version that was saved is found under its number with the data it was saved with, by
\* every store that knows the node, whatever happened since (filedir.lua:111-164).
THEOREM SavedStaysSaved == ASSUME "short" \notin Fault PROVE MCSpec => []Versions!SavedIsKept
<1>1. VersionsInv => Versions!SavedIsKept
  <2>1. SUFFICES ASSUME VersionsInv, NEW r \in saved, NEW s \in Store, Versions!node_exists(s, r.node)
                 PROVE  Versions!get_node(s, r.node, r.version) = r.data
    BY DEF Versions!SavedIsKept
  <2>2. /\ r.node \in Node /\ r.version \in 1..MaxVersion /\ r.version <= Len(index[r.node].list)
        /\ file[r.node][r.version] = r.data /\ VersionsTypes
    BY <2>1 DEF VersionsInv, VersionsTypes, Kept, Versions!Version
  <2>3. r.node \in node_table[s]
    BY <2>1 DEF Versions!node_exists
  <2>4. r.version \in Nat /\ r.version \in 1..Len(index[r.node].list) /\ r.version # NIL
    BY <2>2, IndexTypes, NumbersAre
  <2> QED
    BY <2>1, <2>2, <2>3, <2>4, FileRead
<1> QED
  BY <1>1, VersionsInvariant, PTL
-----------------------------------------------------------------------------
(* The names of directories (versium/util.lua:18-43), for ids of any       *)
(* length.  What gsub makes of a text is described place by place, and     *)
(* each of the three substitutions is undone by its inverse because every  *)
(* "%" it leaves begins an escape.                                         *)

Starts(t, i, p) == i + Len(p) <= Len(t) + 1 /\ SubSeq(t, i, i + Len(p) - 1) = p

\* f has, for every place of the text, what gsub makes of the text from there on.
IsScan(f, t, p, r) ==
  f = [i \in 1..Len(t) + 1 |->
        IF i > Len(t) THEN <<>>
        ELSE IF Starts(t, i, p) THEN r \o f[i + Len(p)] ELSE <<t[i]>> \o f[i + 1]]

\* The same for the last k places only.
ScanEnd(f, t, p, r, k) ==
  f = [i \in Len(t) + 1 - k..Len(t) + 1 |->
        IF i > Len(t) THEN <<>>
        ELSE IF Starts(t, i, p) THEN r \o f[i + Len(p)] ELSE <<t[i]>> \o f[i + 1]]

LEMMA ScanStep ==
  ASSUME NEW t, Len(t) \in Nat, NEW p, Len(p) \in Nat \ {0}, NEW r, NEW k \in Nat, k < Len(t),
         NEW f, ScanEnd(f, t, p, r, k)
  PROVE  \E g : ScanEnd(g, t, p, r, k + 1)
<1> DEFINE n == Len(t)
           m == Len(p)
           j == n - k
           g == [i \in j..n + 1 |-> IF i = j THEN IF Starts(t, j, p) THEN r \o f[j + m] ELSE <<t[j]>> \o f[j + 1]
                                    ELSE f[i]]
<1>1. j \in 1..n /\ m \in Nat \ {0} /\ n \in Nat /\ n + 1 - (k + 1) = j /\ n + 1 - k = j + 1
  OBVIOUS
<1>2. Starts(t, j, p) => j + m <= n + 1
  BY DEF Starts
<1>3. \A i \in j + 1..n + 1 : f[i] = IF i > n THEN <<>> ELSE IF Starts(t, i, p) THEN r \o f[i + m] ELSE <<t[i]>> \o f[i + 1]
  BY <1>1 DEF ScanEnd
<1>4. \A i \in j..n + 1 : i > n \/ ~Starts(t, i, p) \/ i + m \in j + 1..n + 1
  <2>1. \A i \in j..n + 1 : Starts(t, i, p) => i + m <= n + 1
    BY DEF Starts
  <2> HIDE DEF j, m, n
  <2> QED
    BY <1>1, <2>1
<1>5. \A i \in j..n + 1 : g[i] = IF i > n THEN <<>> ELSE IF Starts(t, i, p) THEN r \o g[i + m] ELSE <<t[i]>> \o g[i + 1]
  <2> SUFFICES ASSUME NEW i \in j..n + 1
               PROVE  g[i] = IF i > n THEN <<>> ELSE IF Starts(t, i, p) THEN r \o g[i + m] ELSE <<t[i]>> \o g[i + 1]
    OBVIOUS
  <2>1. \A x \in j + 1..n + 1 : g[x] = f[x]
    <3> HIDE DEF j, m, n
    <3> QED
      BY <1>1
  <2>2. g[j] = IF Starts(t, j, p) THEN r \o f[j + m] ELSE <<t[j]>> \o f[j + 1]
    <3> HIDE DEF j, m, n
    <3> QED
      BY <1>1
  <2>3. j \in j..n + 1 /\ ~(j > n) /\ j + 1 \in j + 1..n + 1
    <3> HIDE DEF j, m, n
    <3> QED
      BY <1>1
  <2>4. CASE i = j
    <3>1. Starts(t, j, p) => g[j + m] = f[j + m]
      BY <1>4, <2>1, <2>3
    <3> HIDE DEF g, j, m, n
    <3> QED
      BY <2>1, <2>2, <2>3, <2>4, <3>1
  <2>5. CASE i # j
    <3>1. i \in j + 1..n + 1 /\ (~(i > n) => i + 1 \in j + 1..n + 1)
      <4> HIDE DEF j, m, n
      <4> QED
        BY <1>1, <2>5
    <3> HIDE DEF g, j, m, n
    <3> QED
      BY <1>3, <1>4, <2>1, <3>1
  <2> QED
    BY <2>4, <2>5
<1>6. g = [i \in j..n + 1 |-> IF i > n THEN <<>> ELSE IF Starts(t, i, p) THEN r \o g[i + m] ELSE <<t[i]>> \o g[i + 1]]
  <2>1. g = [i \in j..n + 1 |-> g[i]]
    OBVIOUS
  <2> HIDE DEF g, j, m, n
  <2> QED
    BY <1>5, <2>1
<1>7. ScanEnd(g, t, p, r, k + 1)
  <2> HIDE DEF g
  <2> QED
    BY <1>1, <1>6 DEF ScanEnd
<1> QED
  BY <1>7

LEMMA ScanExists ==
  ASSUME NEW t, Len(t) \in Nat, NEW p, Len(p) \in Nat \ {0}, NEW r
  PROVE  \E f : IsScan(f, t, p, r)
<1> DEFINE T == {k \in Nat : k <= Len(t) /\ ~\E f : ScanEnd(f, t, p, r, k)}
<1>1. T = {}
  <2>1. SUFFICES ASSUME NEW x \in T, \A y \in T : ~(y < x) PROVE FALSE
    BY LeastNumber
  <2>2. CASE x = 0
    <3> DEFINE e == [i \in Len(t) + 1 - 0..Len(t) + 1 |-> <<>>]
    <3>1. ScanEnd(e, t, p, r, 0)
      <4>1. \A i \in Len(t) + 1 - 0..Len(t) + 1 : i > Len(t)
        OBVIOUS
      <4> QED
        BY <4>1 DEF ScanEnd
    <3> QED
      BY <2>2, <3>1
  <2>3. CASE x # 0
    <3>1. x - 1 \in Nat /\ x - 1 < Len(t) /\ x - 1 < x /\ x = (x - 1) + 1
      BY <2>3
    <3>2. PICK f : ScanEnd(f, t, p, r, x - 1)
      BY <2>1, <3>1
    <3>3. \E g : ScanEnd(g, t, p, r, (x - 1) + 1)
      BY <3>1, <3>2, ScanStep
    <3> QED
      BY <3>1, <3>3
  <2> QED
    BY <2>2, <2>3
<1>2. PICK f : ScanEnd(f, t, p, r, Len(t))
  BY <1>1
<1>3. Len(t) + 1 - Len(t) = 1
  OBVIOUS
<1> QED
  BY <1>2, <1>3 DEF ScanEnd, IsScan

LEMMA GsubScan ==
  ASSUME NEW t, Len(t) \in Nat, NEW p, Len(p) \in Nat \ {0}, NEW r
  PROVE  \E f : IsScan(f, t, p, r) /\ Versions!gsub(t, p, r) = f[1]
<1>1. \E f : IsScan(f, t, p, r)
  BY ScanExists
<1> QED
  BY <1>1 DEF IsScan, Starts, Versions!gsub

LEMMA SegmentIs ==
  ASSUME NEW C, NEW t \in Seq(C), NEW a \in 1..Len(t) + 1, NEW b \in a - 1..Len(t)
  PROVE  /\ SubSeq(t, a, b) \in Seq(C) /\ Len(SubSeq(t, a, b)) = b - a + 1
         /\ SubSeq(t, a, b) = [x \in 1..b - a + 1 |-> t[a + x - 1]]
<1>1. \A i \in a..b : t[i] \in C
  BY ElementOfSeq
<1>2. a \in Int /\ b \in Int
  OBVIOUS
<1>3. /\ SubSeq(t, a, b) \in Seq(C)
      /\ Len(SubSeq(t, a, b)) = IF a <= b THEN b - a + 1 ELSE 0
      /\ \A i \in 1..(b - a + 1) : SubSeq(t, a, b)[i] = t[a + i - 1]
  BY <1>1, <1>2, SubSeqProperties
<1>4. SubSeq(t, a, b) = [x \in 1..Len(SubSeq(t, a, b)) |-> SubSeq(t, a, b)[x]]
  BY <1>3, LenProperties
<1>5. Len(SubSeq(t, a, b)) = b - a + 1
  BY <1>3
<1> QED
  BY <1>3, <1>4, <1>5

LEMMA StartsTail ==
  ASSUME NEW C, NEW t \in Seq(C), NEW p \in Seq(C), NEW k \in 0..Len(t),
         NEW i \in 1..Len(t) - k
  PROVE  Starts(SubSeq(t, k + 1, Len(t)), i, p) <=> Starts(t, k + i, p)
<1> DEFINE n == Len(t)
           m == Len(p)
           u == SubSeq(t, k + 1, Len(t))
<1>1. n \in Nat /\ m \in Nat /\ i \in Nat /\ k \in Nat /\ k <= n /\ 1 <= i /\ i <= n - k
  OBVIOUS
<1>2. Len(u) = n - k /\ u \in Seq(C) /\ \A x \in 1..n - k : u[x] = t[k + x]
  BY <1>1, SubSeqProperties
<1>3. CASE i + m <= n - k + 1
  <2>1. SubSeq(u, i, i + m - 1) = SubSeq(t, k + i, k + i + m - 1)
    <3>1. \A x \in i..i + m - 1 : x \in 1..n - k /\ u[x] = t[k + x]
      <4> HIDE DEF u, n, m
      <4> QED
        BY <1>1, <1>2, <1>3
    <3>2. /\ SubSeq(u, i, i + m - 1) = [x \in 1..(i + m - 1) - i + 1 |-> u[i + x - 1]]
          /\ SubSeq(t, k + i, k + i + m - 1) = [x \in 1..(k + i + m - 1) - (k + i) + 1 |-> t[(k + i) + x - 1]]
      <4>1. /\ i \in 1..Len(u) + 1 /\ i + m - 1 \in i - 1..Len(u)
            /\ k + i \in 1..Len(t) + 1 /\ k + i + m - 1 \in (k + i) - 1..Len(t)
        <5>1. Len(t) = n
          OBVIOUS
        <5> HIDE DEF u, n, m
        <5> QED
          BY <1>1, <1>2, <1>3, <5>1
      <4> HIDE DEF u, n, m
      <4>2. SubSeq(u, i, i + m - 1) = [x \in 1..(i + m - 1) - i + 1 |-> u[i + x - 1]]
        BY <1>2, <4>1, SegmentIs
      <4>3. SubSeq(t, k + i, k + i + m - 1) = [x \in 1..(k + i + m - 1) - (k + i) + 1 |-> t[(k + i) + x - 1]]
        <5>1. PICK y, z : y = k + i /\ z = k + i + m - 1
          OBVIOUS
        <5>2. SubSeq(t, y, z) = [x \in 1..z - y + 1 |-> t[y + x - 1]]
          BY <4>1, <5>1, SegmentIs
        <5> QED
          BY <5>1, <5>2
      <4> QED
        BY <4>2, <4>3
    <3>3. (i + m - 1) - i + 1 = m /\ (k + i + m - 1) - (k + i) + 1 = m
      <4> HIDE DEF u, n, m
      <4> QED
        BY <1>1
    <3>4. \A x \in 1..m : u[i + x - 1] = t[(k + i) + x - 1]
      <4> SUFFICES ASSUME NEW x \in 1..m PROVE u[i + x - 1] = t[(k + i) + x - 1]
        OBVIOUS
      <4>1. i + x - 1 \in i..i + m - 1 /\ k + (i + x - 1) = (k + i) + x - 1
        <5> HIDE DEF u, n, m
        <5> QED
          BY <1>1
      <4> HIDE DEF u, n, m
      <4> QED
        BY <3>1, <4>1
    <3> HIDE DEF u, n, m
    <3> QED
      BY <3>2, <3>3, <3>4
  <2>2. i + m <= Len(u) + 1 /\ k + i + m <= n + 1
    <3> HIDE DEF u, n, m
    <3> QED
      BY <1>1, <1>2, <1>3
  <2>3. (Starts(u, i, p) <=> SubSeq(u, i, i + m - 1) = p) /\ (Starts(t, k + i, p) <=> SubSeq(t, k + i, k + i + m - 1) = p)
    <3> HIDE DEF u
    <3> QED
      BY <2>2 DEF Starts
  <2> QED
    BY <2>1, <2>3
<1>4. CASE ~(i + m <= n - k + 1)
  <2>1. ~(i + m <= Len(u) + 1) /\ ~(k + i + m <= n + 1)
    <3> HIDE DEF u, n, m
    <3> QED
      BY <1>1, <1>2, <1>4
  <2>2. ~Starts(u, i, p) /\ ~Starts(t, k + i, p)
    <3> HIDE DEF u
    <3> QED
      BY <2>1 DEF Starts
  <2> QED
    BY <2>2
<1> QED
  BY <1>3, <1>4

LEMMA ScanTail ==
  ASSUME NEW C, NEW t \in Seq(C), NEW p \in Seq(C), p # <<>>, NEW r, NEW k \in 0..Len(t),
         NEW f, IsScan(f, t, p, r), NEW g, IsScan(g, SubSeq(t, k + 1, Len(t)), p, r)
  PROVE  f[k + 1] = g[1]
<1> DEFINE n == Len(t)
           m == Len(p)
           u == SubSeq(t, k + 1, Len(t))
           l == n - k
           T == {d \in Nat : d <= l /\ f[n + 1 - d] # g[l + 1 - d]}
<1>1. n \in Nat /\ m \in Nat \ {0} /\ k \in Nat /\ k <= n /\ l \in Nat /\ l <= n /\ n = k + l
  BY EmptySeq
<1>2. Len(u) = l /\ u \in Seq(C) /\ \A x \in 1..l : u[x] = t[k + x]
  <2>1. k + 1 \in 1..Len(t) + 1 /\ Len(t) \in (k + 1) - 1..Len(t) /\ Len(t) - (k + 1) + 1 = l
    OBVIOUS
  <2>2. /\ u \in Seq(C) /\ Len(u) = Len(t) - (k + 1) + 1
        /\ u = [x \in 1..Len(t) - (k + 1) + 1 |-> t[(k + 1) + x - 1]]
    <3>1. PICK a, b : a = k + 1 /\ b = Len(t)
      OBVIOUS
    <3>2. a \in 1..Len(t) + 1 /\ b \in a - 1..Len(t)
      BY <2>1, <3>1
    <3>3. /\ SubSeq(t, a, b) \in Seq(C) /\ Len(SubSeq(t, a, b)) = b - a + 1
          /\ SubSeq(t, a, b) = [x \in 1..b - a + 1 |-> t[a + x - 1]]
      BY <3>2, SegmentIs
    <3> QED
      BY <3>1, <3>3
  <2>3. \A x \in 1..l : (k + 1) + x - 1 = k + x
    OBVIOUS
  <2> HIDE DEF u, l
  <2> QED
    BY <2>1, <2>2, <2>3
<1>3. \A i \in 1..n + 1 : f[i] = IF i > n THEN <<>> ELSE IF Starts(t, i, p) THEN r \o f[i + m] ELSE <<t[i]>> \o f[i + 1]
  BY DEF IsScan
<1>4. \A i \in 1..l + 1 : g[i] = IF i > l THEN <<>> ELSE IF Starts(u, i, p) THEN r \o g[i + m] ELSE <<u[i]>> \o g[i + 1]
  <2>1. g = [i \in 1..Len(u) + 1 |-> IF i > Len(u) THEN <<>>
                                     ELSE IF Starts(u, i, p) THEN r \o g[i + m] ELSE <<u[i]>> \o g[i + 1]]
    BY DEF IsScan
  <2> HIDE DEF u
  <2> QED
    BY <1>2, <2>1
<1>5. \A i \in 1..l : Starts(u, i, p) <=> Starts(t, k + i, p)
  BY StartsTail
<1>6. T = {}
  <2>1. SUFFICES ASSUME NEW x \in T, \A y \in T : ~(y < x) PROVE FALSE
    <3> HIDE DEF l, n, u
    <3> QED
      BY LeastNumber
  <2> DEFINE i == l + 1 - x
  <2>2. x \in Nat /\ x <= l /\ i \in 1..l + 1 /\ k + i = n + 1 - x /\ k + i \in 1..n + 1 /\ f[k + i] # g[i]
    <3>1. x \in Nat /\ x <= l /\ f[n + 1 - x] # g[l + 1 - x]
      OBVIOUS
    <3>2. n + 1 - x = k + i
      BY <1>1, <3>1
    <3> HIDE DEF n, l
    <3> QED
      BY <1>1, <3>1, <3>2
  <2>3. \A y \in Nat : y < x => f[n + 1 - y] = g[l + 1 - y]
    <3> HIDE DEF n
    <3> QED
      BY <1>1, <2>1, <2>2
  <2> HIDE DEF T, n, l, u, m
  <2>4. CASE x = 0
    <3>1. i > l /\ k + i > n
      BY <1>1, <2>2, <2>4
    <3> QED
      BY <1>3, <1>4, <2>2, <3>1
  <2>5. CASE x # 0
    <3>1. i \in 1..l /\ ~(i > l) /\ ~(k + i > n)
      BY <1>1, <2>2, <2>5
    <3>2. u[i] = t[k + i] /\ (Starts(u, i, p) <=> Starts(t, k + i, p))
      BY <1>2, <1>5, <3>1
    <3>3. f[k + i + 1] = g[i + 1]
      <4>1. x - 1 \in Nat /\ x - 1 < x /\ n + 1 - (x - 1) = k + i + 1 /\ l + 1 - (x - 1) = i + 1
        BY <1>1, <2>2, <2>5
      <4> QED
        BY <2>3, <4>1
    <3>4. ASSUME Starts(u, i, p) PROVE f[k + i + m] = g[i + m]
      <4>1. i + m <= l + 1
        BY <1>2, <3>4 DEF Starts, m
      <4>2. x - m \in Nat /\ x - m < x /\ n + 1 - (x - m) = k + i + m /\ l + 1 - (x - m) = i + m
        BY <1>1, <2>2, <4>1
      <4> QED
        BY <2>3, <4>2
    <3>5. f[k + i] = IF Starts(t, k + i, p) THEN r \o f[k + i + m] ELSE <<t[k + i]>> \o f[k + i + 1]
      BY <1>3, <2>2, <3>1
    <3>6. g[i] = IF Starts(u, i, p) THEN r \o g[i + m] ELSE <<u[i]>> \o g[i + 1]
      BY <1>4, <2>2, <3>1
    <3> QED
      BY <2>2, <3>2, <3>3, <3>4, <3>5, <3>6
  <2> QED
    BY <2>4, <2>5
<1>7. l \in Nat /\ l <= l /\ n + 1 - l = k + 1 /\ l + 1 - l = 1
  <2> HIDE DEF n
  <2> QED
    BY <1>1
<1> HIDE DEF n, l
<1> QED
  BY <1>6, <1>7

\* What gsub makes of a text by its beginning.
LEMMA GsubHead ==
  ASSUME NEW C, NEW t \in Seq(C), NEW p \in Seq(C), p # <<>>, NEW r
  PROVE  /\ t = <<>> => Versions!gsub(t, p, r) = <<>>
         /\ t # <<>> /\ ~Starts(t, 1, p) =>
              Versions!gsub(t, p, r) = <<t[1]>> \o Versions!gsub(SubSeq(t, 2, Len(t)), p, r)
         /\ t # <<>> /\ Starts(t, 1, p) =>
              Versions!gsub(t, p, r) = r \o Versions!gsub(SubSeq(t, Len(p) + 1, Len(t)), p, r)
<1>1. Len(t) \in Nat /\ Len(p) \in Nat \ {0} /\ (t # <<>> => Len(t) # 0) /\ Len(<<>>) = 0
  BY EmptySeq
<1>2. PICK f : IsScan(f, t, p, r) /\ Versions!gsub(t, p, r) = f[1]
  BY <1>1, GsubScan
<1>3. f[1] = IF 1 > Len(t) THEN <<>> ELSE IF Starts(t, 1, p) THEN r \o f[1 + Len(p)] ELSE <<t[1]>> \o f[1 + 1]
  <2>1. 1 \in 1..Len(t) + 1
    BY <1>1
  <2>2. f = [i \in 1..Len(t) + 1 |-> IF i > Len(t) THEN <<>>
               ELSE IF Starts(t, i, p) THEN r \o f[i + Len(p)] ELSE <<t[i]>> \o f[i + 1]]
    BY <1>2 DEF IsScan
  <2> QED
    BY <2>1, <2>2
<1>4. ASSUME NEW k \in 0..Len(t) PROVE f[k + 1] = Versions!gsub(SubSeq(t, k + 1, Len(t)), p, r)
  <2>1. Len(SubSeq(t, k + 1, Len(t))) \in Nat
    BY <1>1, SubSeqProperties
  <2>2. PICK g : IsScan(g, SubSeq(t, k + 1, Len(t)), p, r)
                 /\ Versions!gsub(SubSeq(t, k + 1, Len(t)), p, r) = g[1]
    BY <1>1, <2>1, GsubScan
  <2>3. f[k + 1] = g[1]
    BY <1>2, <2>2, ScanTail
  <2> QED
    BY <2>2, <2>3
<1>5. t # <<>> => 1 \in 0..Len(t) /\ ~(1 > Len(t)) /\ 1 + 1 = 2
  BY <1>1
<1>6. Starts(t, 1, p) => Len(p) \in 0..Len(t) /\ Len(p) + 1 = 1 + Len(p)
  BY <1>1 DEF Starts
<1>7. t # <<>> => f[2] = Versions!gsub(SubSeq(t, 2, Len(t)), p, r)
  BY <1>4, <1>5
<1>8. Starts(t, 1, p) => f[1 + Len(p)] = Versions!gsub(SubSeq(t, Len(p) + 1, Len(t)), p, r)
  BY <1>4, <1>6
<1> QED
  BY <1>1, <1>2, <1>3, <1>5, <1>7, <1>8

LEMMA ConsIs ==
  ASSUME NEW C, NEW a \in C, NEW u \in Seq(C)
  PROVE  /\ <<a>> \o u \in Seq(C) /\ <<a>> \o u # <<>> /\ Len(<<a>> \o u) = Len(u) + 1
         /\ (<<a>> \o u)[1] = a /\ \A i \in 1..Len(u) : (<<a>> \o u)[i + 1] = u[i]
         /\ SubSeq(<<a>> \o u, 2, Len(<<a>> \o u)) = u
<1> DEFINE w == <<a>> \o u
<1>1. <<a>> \in Seq(C) /\ Len(<<a>>) = 1 /\ <<a>>[1] = a /\ Len(u) \in Nat /\ u = [i \in 1..Len(u) |-> u[i]]
  BY LenProperties
<1>2. /\ w \in Seq(C) /\ Len(w) = 1 + Len(u)
      /\ \A i \in 1..1 + Len(u) : w[i] = IF i <= 1 THEN a ELSE u[i - 1]
  BY <1>1, ConcatProperties
<1> HIDE DEF w
<1>3. /\ Len(w) = Len(u) + 1 /\ w[1] = a /\ w # <<>> /\ \A i \in 1..Len(u) : w[i + 1] = u[i]
  <2>1. Len(w) # 0 /\ 1 \in 1..1 + Len(u) /\ \A i \in 1..Len(u) : /\ i + 1 \in 1..1 + Len(u) /\ ~(i + 1 <= 1)
                                                                  /\ (i + 1) - 1 = i
    BY <1>1, <1>2
  <2> QED
    BY <1>1, <1>2, <2>1, EmptySeq
<1>4. SubSeq(w, 2, Len(w)) = u
  <2>1. PICK k, l : k = 2 /\ l = Len(w)
    OBVIOUS
  <2>2. k \in 1..Len(w) + 1 /\ l \in k - 1..Len(w) /\ l - k + 1 = Len(u)
    BY <1>1, <1>3, <2>1
  <2>3. SubSeq(w, k, l) = [i \in 1..l - k + 1 |-> w[k + i - 1]]
    BY <1>2, <2>2, SegmentIs
  <2>4. \A i \in 1..Len(u) : w[k + i - 1] = u[i]
    BY <1>3, <2>1
  <2> QED
    BY <1>1, <2>1, <2>2, <2>3, <2>4
<1> QED
  BY <1>2, <1>3, <1>4 DEF w

LEMMA TripleIs ==
  ASSUME NEW C, NEW a \in C, NEW b \in C, NEW c \in C, NEW u \in Seq(C)
  PROVE  LET w == <<a, b, c>> \o u IN
         /\ w \in Seq(C) /\ Len(w) = Len(u) + 3 /\ w # <<>>
         /\ w[1] = a /\ w[2] = b /\ w[3] = c /\ \A i \in 1..Len(u) : w[i + 3] = u[i]
         /\ SubSeq(w, 1, 3) = <<a, b, c>> /\ SubSeq(w, 4, Len(w)) = u
<1> DEFINE w == <<a, b, c>> \o u
<1>1. <<a, b, c>> \in Seq(C) /\ Len(<<a, b, c>>) = 3 /\ Len(u) \in Nat /\ u = [i \in 1..Len(u) |-> u[i]]
  BY LenProperties
<1>2. /\ w \in Seq(C) /\ Len(w) = 3 + Len(u)
      /\ \A i \in 1..3 + Len(u) : w[i] = IF i <= 3 THEN <<a, b, c>>[i] ELSE u[i - 3]
  BY <1>1, ConcatProperties
<1> HIDE DEF w
<1>3. /\ Len(w) = Len(u) + 3 /\ w # <<>> /\ w[1] = a /\ w[2] = b /\ w[3] = c /\ \A i \in 1..Len(u) : w[i + 3] = u[i]
  <2>1. /\ Len(w) # 0 /\ 1 \in 1..3 + Len(u) /\ 2 \in 1..3 + Len(u) /\ 3 \in 1..3 + Len(u)
        /\ \A i \in 1..Len(u) : i + 3 \in 1..3 + Len(u) /\ ~(i + 3 <= 3) /\ (i + 3) - 3 = i
    BY <1>1, <1>2
  <2>2. w[1] = a /\ w[2] = b /\ w[3] = c
    BY <1>2, <2>1
  <2>3. \A i \in 1..Len(u) : w[i + 3] = u[i]
    BY <1>2, <2>1
  <2> QED
    BY <1>1, <1>2, <2>1, <2>2, <2>3, EmptySeq
<1>4. SubSeq(w, 4, Len(w)) = u
  <2>1. PICK k, l : k = 4 /\ l = Len(w)
    OBVIOUS
  <2>2. k \in 1..Len(w) + 1 /\ l \in k - 1..Len(w) /\ l - k + 1 = Len(u)
    BY <1>1, <1>3, <2>1
  <2>3. SubSeq(w, k, l) = [i \in 1..l - k + 1 |-> w[k + i - 1]]
    BY <1>2, <2>2, SegmentIs
  <2>4. \A i \in 1..Len(u) : w[k + i - 1] = u[i]
    BY <1>3, <2>1
  <2> QED
    BY <1>1, <2>1, <2>2, <2>3, <2>4
<1>5. SubSeq(w, 1, 3) = <<a, b, c>>
  <2>1. PICK k, l : k = 1 /\ l = 3
    OBVIOUS
  <2>2. k \in 1..Len(w) + 1 /\ l \in k - 1..Len(w)
    BY <1>1, <1>3, <2>1
  <2>3. SubSeq(w, k, l) \in Seq(C) /\ Len(SubSeq(w, k, l)) = l - k + 1 /\ SubSeq(w, k, l) = [i \in 1..l - k + 1 |-> w[k + i - 1]]
    BY <1>2, <2>2, SegmentIs
  <2> DEFINE s == SubSeq(w, 1, 3)
  <2>4. s \in Seq(C) /\ Len(s) = 3
    BY <2>1, <2>3
  <2>5. \A i \in 1..3 : s[i] = w[i]
    BY <2>1, <2>3
  <2>6. \A i \in 1..3 : s[i] = <<a, b, c>>[i]
    <3> HIDE DEF s
    <3> QED
      BY <1>3, <2>5
  <2> HIDE DEF s
  <2>7. s = <<a, b, c>>
    BY <1>1, <2>4, <2>6, SeqEqual
  <2> QED
    BY <2>7 DEF s
<1> QED
  BY <1>2, <1>3, <1>4, <1>5 DEF w

\* Every "%" of u begins one of the escapes in E.
Tagged(u, E) == \A i \in 1..Len(u) : u[i] = "%" => i + 2 <= Len(u) /\ <<u[i + 1], u[i + 2]>> \in E

LEMMA UndoEscaped ==
  ASSUME NEW C, "%" \in C, NEW x \in C, NEW y \in C, NEW c \in C, x # "%", y # "%",
         NEW v \in Seq(C), NEW E, <<x, y>> \in E
  PROVE  LET p == <<"%", x, y>>
             w == p \o v
         IN  /\ w \in Seq(C) /\ Versions!gsub(w, p, <<c>>) = <<c>> \o Versions!gsub(v, p, <<c>>)
             /\ Tagged(v, E) => Tagged(w, E)
<1> DEFINE p == <<"%", x, y>>
           w == p \o v
<1>1. /\ w \in Seq(C) /\ Len(w) = Len(v) + 3 /\ w # <<>> /\ Len(v) \in Nat
      /\ w[1] = "%" /\ w[2] = x /\ w[3] = y /\ \A i \in 1..Len(v) : w[i + 3] = v[i]
      /\ SubSeq(w, 1, 3) = p /\ SubSeq(w, 4, Len(w)) = v
  BY TripleIs, LenProperties
<1>2. p \in Seq(C) /\ p # <<>> /\ Len(p) = 3
  OBVIOUS
<1> HIDE DEF w, p
<1>3. Starts(w, 1, p)
  <2>1. 1 + 3 <= Len(w) + 1 /\ 1 + 3 - 1 = 3
    BY <1>1
  <2> QED
    BY <1>1, <1>2, <2>1 DEF Starts
<1>4. Versions!gsub(w, p, <<c>>) = <<c>> \o Versions!gsub(SubSeq(w, 4, Len(w)), p, <<c>>)
  <2>1. PICK r : r = <<c>>
    OBVIOUS
  <2>2. v = SubSeq(w, Len(p) + 1, Len(w))
    <3>1. Len(p) + 1 = 4
      BY <1>2
    <3> QED
      BY <1>1, <3>1
  <2>3. Versions!gsub(w, p, r) = r \o Versions!gsub(SubSeq(w, Len(p) + 1, Len(w)), p, r)
    <3>1. w \in Seq(C) /\ w # <<>> /\ p \in Seq(C) /\ p # <<>>
      BY <1>1, <1>2
    <3> QED
      BY <1>3, <3>1, GsubHead
  <2> QED
    BY <1>1, <2>1, <2>2, <2>3
<1>5. ASSUME Tagged(v, E) PROVE Tagged(w, E)
  <2>1. SUFFICES ASSUME NEW i \in 1..Len(w), w[i] = "%" PROVE i + 2 <= Len(w) /\ <<w[i + 1], w[i + 2]>> \in E
    BY DEF Tagged
  <2>2. CASE i <= 3
    <3>1. i = 1
      BY <1>1, <2>1, <2>2
    <3>2. i + 2 <= Len(w) /\ w[i + 1] = x /\ w[i + 2] = y
      BY <1>1, <3>1
    <3> QED
      BY <3>2
  <2>3. CASE i > 3
    <3>1. PICK j : j = i - 3
      OBVIOUS
    <3>2. j \in 1..Len(v) /\ i = j + 3
      BY <1>1, <2>3, <3>1
    <3>3. v[j] = "%"
      BY <1>1, <2>1, <3>2
    <3>4. j + 2 <= Len(v) /\ <<v[j + 1], v[j + 2]>> \in E
      BY <1>5, <3>2, <3>3 DEF Tagged
    <3>5. j + 1 \in 1..Len(v) /\ j + 2 \in 1..Len(v) /\ i + 1 = (j + 1) + 3 /\ i + 2 = (j + 2) + 3 /\ i + 2 <= Len(w)
      BY <1>1, <3>2, <3>4
    <3> QED
      BY <1>1, <3>4, <3>5
  <2> QED
    BY <1>1, <2>2, <2>3
<1> QED
  BY <1>1, <1>4, <1>5 DEF w, p

\* a may stand before v: as "%" it begins an escape of E other than the one for c.
Plain(C, x, y, c, a, v, E) ==
  /\ {"%", x, y, c, a} \subseteq C /\ v \in Seq(C)
  /\ a = "%" => Len(v) >= 2 /\ <<v[1], v[2]>> # <<x, y>> /\ <<v[1], v[2]>> \in E

\* Undoing the escape leaves a as it is.
Passed(C, x, y, c, a, v, E) ==
  LET p == <<"%", x, y>>
      w == <<a>> \o v
  IN  /\ w \in Seq(C) /\ Versions!gsub(w, p, <<c>>) = <<a>> \o Versions!gsub(v, p, <<c>>)
      /\ Tagged(v, E) => Tagged(w, E)

LEMMA UndoPlain ==
  ASSUME NEW C, NEW x, NEW y, NEW c, NEW a, NEW v, NEW E, Plain(C, x, y, c, a, v, E)
  PROVE  Passed(C, x, y, c, a, v, E)
<1> /\ "%" \in C /\ x \in C /\ y \in C /\ c \in C /\ a \in C /\ v \in Seq(C)
    /\ a = "%" => Len(v) >= 2 /\ <<v[1], v[2]>> # <<x, y>> /\ <<v[1], v[2]>> \in E
  BY DEF Plain
<1> DEFINE p == <<"%", x, y>>
           w == <<a>> \o v
<1>1. /\ w \in Seq(C) /\ Len(w) = Len(v) + 1 /\ w # <<>> /\ Len(v) \in Nat
      /\ w[1] = a /\ \A i \in 1..Len(v) : w[i + 1] = v[i]
      /\ SubSeq(w, 2, Len(w)) = v
  BY ConsIs, LenProperties
<1>2. p \in Seq(C) /\ p # <<>> /\ Len(p) = 3 /\ p[1] = "%" /\ p[2] = x /\ p[3] = y
  OBVIOUS
<1> HIDE DEF w, p
<1>3. ~Starts(w, 1, p)
  <2>1. SUFFICES ASSUME 1 + 3 <= Len(w) + 1, SubSeq(w, 1, 1 + 3 - 1) = p PROVE FALSE
    BY <1>2 DEF Starts
  <2>2. PICK k, l : k = 1 /\ l = 3
    OBVIOUS
  <2>3. k \in 1..Len(w) + 1 /\ l \in k - 1..Len(w)
    BY <1>1, <2>1, <2>2
  <2>4. SubSeq(w, k, l) = [i \in 1..l - k + 1 |-> w[k + i - 1]]
    BY <1>1, <2>3, SegmentIs
  <2>5. \A i \in 1..3 : p[i] = w[i]
    BY <2>1, <2>2, <2>4
  <2>6. w[1] = "%" /\ w[2] = x /\ w[3] = y /\ w[2] = v[1] /\ w[3] = v[2]
    <3>1. 1 \in 1..Len(v) /\ 2 \in 1..Len(v) /\ 1 + 1 = 2 /\ 2 + 1 = 3
      BY <1>1, <2>1
    <3> QED
      BY <1>1, <1>2, <2>5, <3>1
  <2> QED
    BY <1>1, <2>6
<1>4. Versions!gsub(w, p, <<c>>) = <<a>> \o Versions!gsub(SubSeq(w, 2, Len(w)), p, <<c>>)
  BY <1>1, <1>2, <1>3, GsubHead
<1>5. ASSUME Tagged(v, E) PROVE Tagged(w, E)
  <2>1. SUFFICES ASSUME NEW i \in 1..Len(w), w[i] = "%" PROVE i + 2 <= Len(w) /\ <<w[i + 1], w[i + 2]>> \in E
    BY DEF Tagged
  <2>2. CASE i = 1
    <3>1. a = "%" /\ i + 2 <= Len(w) /\ 1 \in 1..Len(v) /\ 2 \in 1..Len(v) /\ i + 1 = 1 + 1 /\ i + 2 = 2 + 1
      BY <1>1, <2>1, <2>2
    <3>2. w[i + 1] = v[1] /\ w[i + 2] = v[2]
      BY <1>1, <3>1
    <3> QED
      BY <3>1, <3>2
  <2>3. CASE i > 1
    <3>1. PICK j : j = i - 1
      OBVIOUS
    <3>2. j \in 1..Len(v) /\ i = j + 1
      BY <1>1, <2>3, <3>1
    <3>3. v[j] = "%"
      BY <1>1, <2>1, <3>2
    <3>4. j + 2 <= Len(v) /\ <<v[j + 1], v[j + 2]>> \in E
      BY <1>5, <3>2, <3>3 DEF Tagged
    <3>5. j + 1 \in 1..Len(v) /\ j + 2 \in 1..Len(v) /\ i + 1 = (j + 1) + 1 /\ i + 2 = (j + 2) + 1 /\ i + 2 <= Len(w)
      BY <1>1, <3>2, <3>4
    <3> QED
      BY <1>1, <3>4, <3>5
  <2> QED
    BY <1>1, <2>2, <2>3
<1> QED
  BY <1>1, <1>4, <1>5 DEF w, p, Passed

\* The character d is not in u.
Absent(d, u) == \A i \in 1..Len(u) : u[i] # d

LEMMA AbsentTriple ==
  ASSUME NEW C, "%" \in C, NEW x \in C, NEW y \in C, NEW v \in Seq(C), NEW d, d \notin {"%", x, y}, Absent(d, v)
  PROVE  Absent(d, <<"%", x, y>> \o v)
<1> DEFINE w == <<"%", x, y>> \o v
<1>1. /\ w \in Seq(C) /\ Len(w) = Len(v) + 3 /\ Len(v) \in Nat
      /\ w[1] = "%" /\ w[2] = x /\ w[3] = y /\ \A i \in 1..Len(v) : w[i + 3] = v[i]
  BY TripleIs, LenProperties
<1> HIDE DEF w
<1>2. SUFFICES ASSUME NEW i \in 1..Len(w) PROVE w[i] # d
  BY DEF Absent, w
<1>3. CASE i \in 1..3
  <2>1. i = 1 \/ i = 2 \/ i = 3
    BY <1>3
  <2> QED
    BY <1>1, <2>1
<1>4. CASE i \notin 1..3
  <2>1. PICK j : j = i - 3
    OBVIOUS
  <2>2. j \in 1..Len(v) /\ i = j + 3
    BY <1>1, <1>4, <2>1
  <2> QED
    BY <1>1, <2>2 DEF Absent
<1> QED
  BY <1>3, <1>4

LEMMA AbsentCons ==
  ASSUME NEW C, NEW a \in C, NEW v \in Seq(C), NEW d, d # a, Absent(d, v)
  PROVE  Absent(d, <<a>> \o v)
<1> DEFINE w == <<a>> \o v
<1>1. /\ w \in Seq(C) /\ Len(w) = Len(v) + 1 /\ Len(v) \in Nat
      /\ w[1] = a /\ \A i \in 1..Len(v) : w[i + 1] = v[i]
  BY ConsIs, LenProperties
<1> HIDE DEF w
<1>2. SUFFICES ASSUME NEW i \in 1..Len(w) PROVE w[i] # d
  BY DEF Absent, w
<1>3. CASE i = 1
  BY <1>1, <1>3
<1>4. CASE i # 1
  <2>1. PICK j : j = i - 1
    OBVIOUS
  <2>2. j \in 1..Len(v) /\ i = j + 1
    BY <1>1, <1>4, <2>1
  <2> QED
    BY <1>1, <2>2 DEF Absent
<1> QED
  BY <1>3, <1>4

\* What the k-th place from the end needs for the substitution to be undone.
Undone(f, t, c, p, E, D, i) ==
  LET n == Len(t) IN
  /\ Versions!gsub(f[i], p, <<c>>) = SubSeq(t, i, n)
  /\ Tagged(f[i], E)
  /\ \A z \in D : Absent(z, f[i])

LEMMA LastPart ==
  ASSUME NEW C, NEW t \in Seq(C), NEW i \in 1..Len(t)
  PROVE  SubSeq(t, i, Len(t)) = <<t[i]>> \o SubSeq(t, i + 1, Len(t)) /\ t[i] \in C
<1> DEFINE n == Len(t)
           s == SubSeq(t, i, n)
           u == SubSeq(t, i + 1, n)
<1>1. n \in Nat /\ i \in Nat /\ 1 <= i /\ i <= n /\ t[i] \in C
  BY ElementOfSeq
<1>2. s \in Seq(C) /\ Len(s) = n - i + 1 /\ s = [x \in 1..n - i + 1 |-> t[i + x - 1]]
  <2>1. i \in 1..Len(t) + 1 /\ Len(t) \in i - 1..Len(t)
    BY <1>1
  <2> QED
    BY <2>1, SegmentIs
<1>3. u \in Seq(C) /\ Len(u) = n - i /\ u = [x \in 1..n - i |-> t[i + x]]
  <2>1. PICK a : a = i + 1
    OBVIOUS
  <2>2. a \in 1..Len(t) + 1 /\ Len(t) \in a - 1..Len(t) /\ n - a + 1 = n - i
    BY <1>1, <2>1
  <2>3. SubSeq(t, a, n) \in Seq(C) /\ Len(SubSeq(t, a, n)) = n - a + 1 /\ SubSeq(t, a, n) = [x \in 1..n - a + 1 |-> t[a + x - 1]]
    BY <2>2, SegmentIs
  <2>4. \A x \in 1..n - i : a + x - 1 = i + x
    BY <1>1, <2>1
  <2> HIDE DEF n
  <2> QED
    BY <2>1, <2>2, <2>3, <2>4
<1> HIDE DEF s, u, n
<1>4. /\ <<t[i]>> \o u \in Seq(C) /\ Len(<<t[i]>> \o u) = Len(u) + 1 /\ (<<t[i]>> \o u)[1] = t[i]
      /\ \A x \in 1..Len(u) : (<<t[i]>> \o u)[x + 1] = u[x]
  BY <1>1, <1>3, ConsIs
<1>5. \A x \in 1..Len(s) : s[x] = (<<t[i]>> \o u)[x]
  <2>1. SUFFICES ASSUME NEW x \in 1..Len(s) PROVE s[x] = (<<t[i]>> \o u)[x]
    OBVIOUS
  <2>2. CASE x = 1
    BY <1>1, <1>2, <1>4, <2>2
  <2>3. CASE x # 1
    <3>1. PICK y : y = x - 1
      OBVIOUS
    <3>2. y \in 1..Len(u) /\ x = y + 1 /\ i + x - 1 = i + y /\ y \in 1..n - i /\ x \in 1..n - i + 1
      BY <1>1, <1>2, <1>3, <2>3, <3>1
    <3>3. s[x] = t[i + y]
      BY <1>2, <3>2
    <3>4. u[y] = t[i + y]
      BY <1>3, <3>2
    <3> QED
      BY <1>4, <3>2, <3>3, <3>4
  <2> QED
    BY <2>2, <2>3
<1>6. Len(s) = Len(<<t[i]>> \o u)
  BY <1>1, <1>2, <1>3, <1>4
<1>7. s = <<t[i]>> \o u
  BY <1>2, <1>4, <1>5, <1>6, SeqEqual
<1> QED
  BY <1>1, <1>7 DEF s, u, n

\* The text t can have c escaped by "%", x and y: every other "%" begins an escape of E
\* without c in it.  Of the characters in D only c occurs in t.
Escapable(C, x, y, c, t, E, D) ==
  /\ {"%", x, y, c} \subseteq C /\ x # "%" /\ y # "%" /\ t \in Seq(C) /\ <<x, y>> \notin E
  /\ D \cap {"%", x, y} = {} /\ \A z \in D : z = c \/ Absent(z, t)
  /\ \A i \in 1..Len(t) : t[i] = "%" =>
       \/ c = "%"
       \/ i + 2 <= Len(t) /\ t[i + 1] # c /\ t[i + 2] # c /\ <<t[i + 1], t[i + 2]>> \in E

\* e is t with c escaped: undoing the escape gives t, and every "%" begins an escape of A,
\* and no character of D is left.
Escaped(C, x, y, c, t, A, D, e) ==
  /\ e \in Seq(C) /\ Versions!gsub(e, <<"%", x, y>>, <<c>>) = t /\ Tagged(e, A)
  /\ \A z \in D : Absent(z, e)

\* Substituting an escape for c can be undone if every other "%" begins a known escape
\* without c in it.
LEMMA Undo ==
  ASSUME NEW C, NEW x, NEW y, NEW c, NEW t, NEW E, NEW D, Escapable(C, x, y, c, t, E, D)
  PROVE  Escaped(C, x, y, c, t, E \cup {<<x, y>>}, D, Versions!gsub(t, <<c>>, <<"%", x, y>>))
<1> "%" \in C /\ x \in C /\ y \in C /\ c \in C /\ x # "%" /\ y # "%" /\ t \in Seq(C) /\ <<x, y>> \notin E
  BY DEF Escapable
<1>0. \A i \in 1..Len(t) : t[i] = "%" =>
           \/ c = "%"
           \/ i + 2 <= Len(t) /\ t[i + 1] # c /\ t[i + 2] # c /\ <<t[i + 1], t[i + 2]>> \in E
  BY DEF Escapable
<1>8. \A z \in D : z \notin {"%", x, y} /\ (z = c \/ Absent(z, t))
  BY DEF Escapable
<1> DEFINE n == Len(t)
           p == <<"%", x, y>>
           A == E \cup {<<x, y>>}
<1>1. n \in Nat /\ p \in Seq(C) /\ p # <<>> /\ <<c>> \in Seq(C) /\ <<c>> # <<>> /\ Len(<<c>>) = 1 /\ <<x, y>> \in A
  OBVIOUS
<1>2. PICK f : IsScan(f, t, <<c>>, p) /\ Versions!gsub(t, <<c>>, p) = f[1]
  BY <1>1, GsubScan
<1>3. \A i \in 1..n : Starts(t, i, <<c>>) <=> t[i] = c
  <2>1. SUFFICES ASSUME NEW i \in 1..n PROVE Starts(t, i, <<c>>) <=> t[i] = c
    OBVIOUS
  <2>2. i + Len(<<c>>) <= n + 1 /\ i + Len(<<c>>) - 1 = i
    BY <1>1
  <2>3. SubSeq(t, i, i) = <<t[i]>>
    <3>1. \A j \in i..i : t[j] \in C
      BY ElementOfSeq
    <3>2. SubSeq(t, i, i) \in Seq(C) /\ Len(SubSeq(t, i, i)) = 1 /\ SubSeq(t, i, i)[1] = t[i]
      <4>1. /\ SubSeq(t, i, i) \in Seq(C) /\ Len(SubSeq(t, i, i)) = IF i <= i THEN i - i + 1 ELSE 0
            /\ \A j \in 1..i - i + 1 : SubSeq(t, i, i)[j] = t[i + j - 1]
        BY <3>1, SubSeqProperties
      <4>2. i - i + 1 = 1 /\ i + 1 - 1 = i /\ 1 \in 1..1
        OBVIOUS
      <4> QED
        BY <4>1, <4>2
    <3>3. SubSeq(t, i, i) = [j \in 1..1 |-> SubSeq(t, i, i)[j]]
      BY <3>2, LenProperties
    <3> QED
      BY <3>2, <3>3
  <2>4. Starts(t, i, <<c>>) <=> SubSeq(t, i, i) = <<c>>
    BY <2>2 DEF Starts
  <2> QED
    BY <2>3, <2>4
<1>4. /\ f[n + 1] = <<>>
      /\ \A i \in 1..n : f[i] = IF t[i] = c THEN p \o f[i + 1] ELSE <<t[i]>> \o f[i + 1]
  <2>1. \A i \in 1..n + 1 : f[i] = IF i > n THEN <<>> ELSE IF Starts(t, i, <<c>>) THEN p \o f[i + Len(<<c>>)]
                                                          ELSE <<t[i]>> \o f[i + 1]
    BY <1>2 DEF IsScan
  <2>2. n + 1 \in 1..n + 1 /\ n + 1 > n /\ \A i \in 1..n : i \in 1..n + 1 /\ ~(i > n)
    BY <1>1
  <2> HIDE DEF n, p
  <2> QED
    BY <1>1, <1>3, <2>1, <2>2
<1> HIDE DEF p, A
<1> DEFINE T == {d \in Nat : d <= n /\ ~(f[n + 1 - d] \in Seq(C) /\ Undone(f, t, c, p, A, D, n + 1 - d))}
<1>5. T = {}
  <2>1. SUFFICES ASSUME NEW d \in T, \A b \in T : ~(b < d) PROVE FALSE
    <3> HIDE DEF n
    <3> QED
      BY LeastNumber
  <2>2. d \in Nat /\ d <= n /\ ~(f[n + 1 - d] \in Seq(C) /\ Undone(f, t, c, p, A, D, n + 1 - d))
    OBVIOUS
  <2>3. \A j \in n + 2 - d..n + 1 : f[j] \in Seq(C) /\ Undone(f, t, c, p, A, D, j)
    <3>1. SUFFICES ASSUME NEW j \in n + 2 - d..n + 1 PROVE f[j] \in Seq(C) /\ Undone(f, t, c, p, A, D, j)
      OBVIOUS
    <3>2. PICK b : b = n + 1 - j
      OBVIOUS
    <3>3. b \in Nat /\ b < d /\ b <= n /\ j = n + 1 - b
      <4> HIDE DEF n, T
      <4> QED
        BY <1>1, <2>2, <3>1, <3>2
    <3>4. b \notin T
      BY <2>1, <3>3
    <3> HIDE DEF n
    <3> QED
      BY <3>3, <3>4
  <2> HIDE DEF T
  <2> DEFINE i == n + 1 - d
  <2>4. i \in 1..n + 1 /\ i + 1 = n + 2 - d
    <3> HIDE DEF n
    <3> QED
      BY <1>1, <2>2
  <2>5. ~(f[i] \in Seq(C) /\ Undone(f, t, c, p, A, D, i))
    BY <2>2
  <2> HIDE DEF i
  <2>6. CASE i = n + 1
    <3>1. f[i] = <<>> /\ <<>> \in Seq(C) /\ Len(<<>>) = 0
      BY <1>4, <2>6, EmptySeq
    <3>2. Versions!gsub(f[i], p, <<c>>) = <<>>
      <4>1. Versions!gsub(<<>>, p, <<c>>) = <<>>
        <5> HIDE DEF n
        <5> QED
          BY <1>1, <3>1, GsubHead
      <4> QED
        BY <3>1, <4>1
    <3>3. SubSeq(t, i, n) = <<>>
      <4> HIDE DEF n
      <4>1. n \in Int /\ i \in Int /\ n < i
        BY <1>1, <2>4, <2>6
      <4> QED
        BY <4>1, SubSeqEmpty
    <3>4. Tagged(f[i], A)
      BY <3>1 DEF Tagged
    <3>5. \A z \in D : Absent(z, f[i])
      BY <3>1 DEF Absent
    <3> QED
      BY <2>5, <3>1, <3>2, <3>3, <3>4, <3>5 DEF Undone
  <2>7. CASE i # n + 1
    <3> DEFINE v == f[i + 1]
    <3>1. i \in 1..n /\ i + 1 \in n + 2 - d..n + 1
      <4> HIDE DEF n
      <4> QED
        BY <1>1, <2>2, <2>4, <2>7
    <3>2. /\ v \in Seq(C) /\ Versions!gsub(v, p, <<c>>) = SubSeq(t, i + 1, n) /\ Tagged(v, A)
          /\ \A z \in D : Absent(z, v)
      BY <2>3, <3>1 DEF Undone
    <3>3. SubSeq(t, i, n) = <<t[i]>> \o SubSeq(t, i + 1, n) /\ t[i] \in C
      BY <3>1, LastPart
    <3>4. f[i] = IF t[i] = c THEN p \o v ELSE <<t[i]>> \o v
      BY <1>4, <3>1
    <3> HIDE DEF v
    <3>5. CASE t[i] = c
      <4>1. /\ p \o v \in Seq(C) /\ Versions!gsub(p \o v, p, <<c>>) = <<c>> \o Versions!gsub(v, p, <<c>>)
            /\ Tagged(v, A) => Tagged(p \o v, A)
        BY <1>1, <3>2, UndoEscaped DEF p
      <4>2. ASSUME NEW z \in D PROVE Absent(z, p \o v)
        <5>1. z \notin {"%", x, y} /\ Absent(z, v)
          BY <1>8, <3>2
        <5>2. v \in Seq(C)
          BY <3>2
        <5>3. Absent(z, <<"%", x, y>> \o v)
          BY <5>1, <5>2, AbsentTriple
        <5> QED
          BY <5>3 DEF p
      <4> QED
        BY <2>5, <3>2, <3>3, <3>4, <3>5, <4>1, <4>2 DEF Undone
    <3>6. CASE t[i] # c
      <4>1. t[i] = "%" => Len(v) >= 2 /\ <<v[1], v[2]>> # <<x, y>> /\ <<v[1], v[2]>> \in A
        <5>1. SUFFICES ASSUME t[i] = "%" PROVE Len(v) >= 2 /\ <<v[1], v[2]>> # <<x, y>> /\ <<v[1], v[2]>> \in A
          OBVIOUS
        <5>2. i + 2 <= n /\ t[i + 1] # c /\ t[i + 2] # c /\ <<t[i + 1], t[i + 2]>> \in E
          BY <1>0, <3>1, <3>6, <5>1
        <5>3. /\ i + 1 \in 1..n /\ i + 2 \in 1..n /\ (i + 1) + 1 = i + 2 /\ (i + 2) + 1 = i + 3
              /\ i + 2 \in n + 2 - d..n + 1 /\ i + 3 \in n + 2 - d..n + 1
          <6> HIDE DEF n
          <6> QED
            BY <1>1, <2>2, <2>4, <3>1, <5>2
        <5>4. v = <<t[i + 1]>> \o f[i + 2] /\ f[i + 2] = <<t[i + 2]>> \o f[i + 3]
          BY <1>4, <5>2, <5>3 DEF v
        <5>5. f[i + 2] \in Seq(C) /\ f[i + 3] \in Seq(C) /\ t[i + 1] \in C /\ t[i + 2] \in C
          BY <2>3, <5>3, ElementOfSeq
        <5>6. Len(f[i + 2]) = Len(f[i + 3]) + 1 /\ f[i + 2][1] = t[i + 2] /\ Len(f[i + 3]) \in Nat
          BY <5>4, <5>5, ConsIs, LenProperties
        <5>7. v[1] = t[i + 1] /\ Len(v) = Len(f[i + 2]) + 1 /\ \A j \in 1..Len(f[i + 2]) : v[j + 1] = f[i + 2][j]
          BY <5>4, <5>5, ConsIs
        <5>8. v[2] = t[i + 2] /\ Len(v) >= 2
          <6>1. 1 \in 1..Len(f[i + 2]) /\ 1 + 1 = 2
            BY <5>6
          <6> QED
            BY <5>6, <5>7, <6>1
        <5> QED
          BY <5>2, <5>7, <5>8 DEF A
      <4>2. /\ <<t[i]>> \o v \in Seq(C) /\ Versions!gsub(<<t[i]>> \o v, p, <<c>>) = <<t[i]>> \o Versions!gsub(v, p, <<c>>)
            /\ Tagged(v, A) => Tagged(<<t[i]>> \o v, A)
        <5>1. PICK a : a = t[i]
          OBVIOUS
        <5>2. a \in C /\ (a = "%" => Len(v) >= 2 /\ <<v[1], v[2]>> # <<x, y>> /\ <<v[1], v[2]>> \in A)
          BY <3>3, <4>1, <5>1
        <5>3. v \in Seq(C)
          BY <3>2
        <5> HIDE DEF n
        <5>4. /\ <<a>> \o v \in Seq(C)
              /\ Versions!gsub(<<a>> \o v, <<"%", x, y>>, <<c>>) = <<a>> \o Versions!gsub(v, <<"%", x, y>>, <<c>>)
              /\ Tagged(v, A) => Tagged(<<a>> \o v, A)
          <6>1. Plain(C, x, y, c, a, v, A)
            BY <5>2, <5>3 DEF Plain
          <6>2. Passed(C, x, y, c, a, v, A)
            BY <6>1, UndoPlain
          <6> QED
            BY <6>2 DEF Passed
        <5> QED
          BY <5>1, <5>4 DEF p
      <4>3. ASSUME NEW z \in D PROVE Absent(z, <<t[i]>> \o v)
        <5>1. PICK a : a = t[i]
          OBVIOUS
        <5>2. a \in C /\ a # z /\ v \in Seq(C) /\ Absent(z, v)
          BY <1>8, <3>1, <3>2, <3>3, <3>6, <5>1 DEF Absent
        <5>3. Absent(z, <<a>> \o v)
          BY <5>2, AbsentCons
        <5> QED
          BY <5>1, <5>3
      <4> QED
        BY <2>5, <3>2, <3>3, <3>4, <3>6, <4>2, <4>3 DEF Undone
    <3> QED
      BY <3>5, <3>6
  <2> QED
    BY <2>6, <2>7
<1>6. f[1] \in Seq(C) /\ Undone(f, t, c, p, A, D, 1)
  <2>1. n \in Nat /\ n <= n /\ n + 1 - n = 1
    BY <1>1
  <2> HIDE DEF n
  <2> QED
    BY <1>5, <2>1
<1>7. SubSeq(t, 1, n) = t
  <2>1. 1 \in 1..Len(t) + 1 /\ Len(t) \in 1 - 1..Len(t) /\ Len(t) - 1 + 1 = Len(t)
    BY <1>1
  <2>2. SubSeq(t, 1, Len(t)) = [j \in 1..Len(t) - 1 + 1 |-> t[1 + j - 1]]
    BY <2>1, SegmentIs
  <2>3. t = [j \in 1..Len(t) |-> t[j]] /\ \A j \in 1..Len(t) : 1 + j - 1 = j
    BY LenProperties
  <2> QED
    BY <2>1, <2>2, <2>3
<1> QED
  BY <1>2, <1>6, <1>7 DEF Undone, Escaped, p, A

\* The three substitutions of fs_escape_id: the name has no "/" and no ":" and stands for the
\* id it was made of.
LEMMA NameOf ==
  ASSUME NEW C, {"%", ":", "/", "2", "3", "5", "A", "F"} \subseteq C, NEW id \in Seq(C)
  PROVE  /\ Versions!IdOf(Versions!Name(id)) = id
         /\ Versions!Name(id) \in Seq(C) /\ Absent("/", Versions!Name(id)) /\ Absent(":", Versions!Name(id))
<1>1. PICK a : a = Versions!gsub(id, <<"%">>, <<"%", "2", "5">>)
  OBVIOUS
<1>2. PICK b : b = Versions!gsub(a, <<":">>, <<"%", "3", "A">>)
  OBVIOUS
<1>3. PICK e : e = Versions!gsub(b, <<"/">>, <<"%", "2", "F">>)
  OBVIOUS
<1>4. PICK E0, D0 : E0 = {} /\ D0 = {}
  OBVIOUS
<1>5. PICK E1, D1 : E1 = E0 \cup {<<"2", "5">>} /\ D1 = {":"}
  OBVIOUS
<1>6. PICK E2, D2 : E2 = E1 \cup {<<"3", "A">>} /\ D2 = {":", "/"}
  OBVIOUS
<1>7. a \in Seq(C) /\ Versions!gsub(a, <<"%", "2", "5">>, <<"%">>) = id /\ Tagged(a, E1)
  <2>1. "2" # "%" /\ "5" # "%" /\ <<"2", "5">> \notin E0
    BY <1>4
  <2>2. Escapable(C, "2", "5", "%", id, E0, D0)
    BY <1>4, <2>1 DEF Escapable
  <2>3. Escaped(C, "2", "5", "%", id, E0 \cup {<<"2", "5">>}, D0, Versions!gsub(id, <<"%">>, <<"%", "2", "5">>))
    BY <2>2, Undo
  <2> QED
    BY <1>1, <1>5, <2>3 DEF Escaped
<1>8. b \in Seq(C) /\ Versions!gsub(b, <<"%", "3", "A">>, <<":">>) = a /\ Tagged(b, E2) /\ Absent(":", b)
  <2>1. "3" # "%" /\ "A" # "%" /\ <<"3", "A">> \notin E1
    BY <1>4, <1>5
  <2>2. \A i \in 1..Len(a) : a[i] = "%" => i + 2 <= Len(a) /\ a[i + 1] = "2" /\ a[i + 2] = "5" /\ <<a[i + 1], a[i + 2]>> \in E1
    BY <1>4, <1>5, <1>7 DEF Tagged
  <2>3. \A i \in 1..Len(a) : a[i] = "%" => i + 2 <= Len(a) /\ a[i + 1] # ":" /\ a[i + 2] # ":" /\ <<a[i + 1], a[i + 2]>> \in E1
    BY <2>2
  <2>4. D1 \cap {"%", "3", "A"} = {} /\ \A z \in D1 : z = ":"
    BY <1>5
  <2>5. Escapable(C, "3", "A", ":", a, E1, D1)
    BY <1>7, <2>1, <2>3, <2>4 DEF Escapable
  <2>6. Escaped(C, "3", "A", ":", a, E1 \cup {<<"3", "A">>}, D1, Versions!gsub(a, <<":">>, <<"%", "3", "A">>))
    BY <2>5, Undo
  <2> QED
    BY <1>2, <1>5, <1>6, <2>6 DEF Escaped
<1>9. e \in Seq(C) /\ Versions!gsub(e, <<"%", "2", "F">>, <<"/">>) = b /\ Absent("/", e) /\ Absent(":", e)
  <2>1. "2" # "%" /\ "F" # "%" /\ <<"2", "F">> \notin E2
    BY <1>4, <1>5, <1>6
  <2>2. \A i \in 1..Len(b) : b[i] = "%" => /\ i + 2 <= Len(b) /\ <<b[i + 1], b[i + 2]>> \in E2
                                           /\ \/ b[i + 1] = "2" /\ b[i + 2] = "5"
                                              \/ b[i + 1] = "3" /\ b[i + 2] = "A"
    BY <1>4, <1>5, <1>6, <1>8 DEF Tagged
  <2>3. \A i \in 1..Len(b) : b[i] = "%" => i + 2 <= Len(b) /\ b[i + 1] # "/" /\ b[i + 2] # "/" /\ <<b[i + 1], b[i + 2]>> \in E2
    BY <2>2
  <2>4. D2 \cap {"%", "2", "F"} = {} /\ \A z \in D2 : z = "/" \/ Absent(z, b)
    BY <1>6, <1>8
  <2>5. Escapable(C, "2", "F", "/", b, E2, D2)
    BY <1>8, <2>1, <2>3, <2>4 DEF Escapable
  <2>6. Escaped(C, "2", "F", "/", b, E2 \cup {<<"2", "F">>}, D2, Versions!gsub(b, <<"/">>, <<"%", "2", "F">>))
    BY <2>5, Undo
  <2> QED
    BY <1>3, <1>6, <2>6 DEF Escaped
<1>10. Versions!Name(id) = e
  BY <1>1, <1>2, <1>3 DEF Versions!Name, Versions!fs_escape_id
<1> QED
  BY <1>7, <1>8, <1>9, <1>10 DEF Versions!IdOf, Versions!fs_unescape_id

\* Ids are strings.
LEMMA NameOfString ==
  ASSUME NEW id \in Seq(STRING)
  PROVE  /\ Versions!IdOf(Versions!Name(id)) = id
         /\ Absent("/", Versions!Name(id)) /\ Absent(":", Versions!Name(id))
<1>1. PICK C : C = STRING \cup {"%", ":", "/", "2", "3", "5", "A", "F"}
  OBVIOUS
<1>2. id \in Seq(C)
  <2>1. Len(id) \in Nat /\ id = [i \in 1..Len(id) |-> id[i]] /\ \A i \in 1..Len(id) : id[i] \in STRING
    BY LenProperties, ElementOfSeq
  <2>2. id \in [1..Len(id) -> C]
    BY <1>1, <2>1
  <2> QED
    BY <2>1, <2>2
<1>3. {"%", ":", "/", "2", "3", "5", "A", "F"} \subseteq C
  BY <1>1
<1> QED
  BY <1>2, <1>3, NameOf

NamesInvert == \A n \in Node : Versions!IdOf(Versions!Name(n)) = n

\* The name of a node's directory is one component of a path, without "/" and ":", and it is
\* the name of this node only: fs_unescape_id finds the id again, whatever characters it has
\* (util.lua:18-43).
THEOREM NamesStandForIds ==
  /\ NamesInvert
  /\ \A n \in Node : Absent("/", Versions!Name(n)) /\ Absent(":", Versions!Name(n))
<1>1. Node \subseteq Seq(STRING)
  BY VersionsAssumption DEF Versions!FileDirAssumption
<1> QED
  BY <1>1, NameOfString DEF NamesInvert

AllKnown == dirs \subseteq {Versions!Name(n) : n \in Node} /\ node_table \in [Store -> SUBSET Node]

LEMMA ListedIs ==
  ASSUME dirs \subseteq {Versions!Name(n) : n \in Node}
  PROVE  Versions!Listed = {n \in Node : Versions!Name(n) \in dirs}
BY NamesStandForIds DEF NamesInvert, Versions!Listed

LEMMA KnownNext ==
  ASSUME AllKnown, Versions!Next
  PROVE  AllKnown'
<1> USE DEF AllKnown
<1>1. ASSUME NEW s \in Store, Versions!New(s) PROVE AllKnown'
  BY <1>1, ListedIs DEF Versions!New, Versions!disk
<1>2. ASSUME NEW s \in Store, NEW n \in Node, NEW d \in Data, Versions!StartSave(s, n, d) PROVE AllKnown'
  BY <1>2 DEF Versions!StartSave
<1>3. CASE Versions!Crash
  BY <1>3, ListedIs DEF Versions!Crash, Versions!disk
<1>4. CASE Versions!WriteData \/ Versions!WriteIndex \/ Versions!Tick
  BY <1>4 DEF Versions!WriteData, Versions!WriteIndex, Versions!Tick, Versions!disk
<1> QED
  BY <1>1, <1>2, <1>3, <1>4 DEF Versions!Next

LEMMA KnownAlways == MCSpec => []AllKnown
<1>1. MCInit => AllKnown
  BY DEF MCInit, Versions!Init, AllKnown
<1>2. ASSUME AllKnown,
             [MCNext]_<<part, vars, now, dirs, file, index, node_table, save, saved, disk, cache, page>>
      PROVE  AllKnown'
  <2>1. CASE Versions!Next
    BY <1>2, <2>1, KnownNext
  <2>2. CASE UNCHANGED <<dirs, node_table>>
    BY <1>2, <2>2 DEF AllKnown
  <2> QED
    BY <1>2, <2>1, <2>2 DEF MCNext, Still
<1> QED
  BY <1>1, <1>2, PTL DEF MCSpec

\* Every store that knows a node reads its latest version, and every other one, as they are
\* on the disk, whichever store saved them (filedir.lua:111-164).
THEOREM StoresAgree == ASSUME "short" \notin Fault PROVE MCSpec => []Versions!ReadsAgree
<1>1. VersionsInv /\ AllKnown => Versions!ReadsAgree
  <2>1. SUFFICES ASSUME VersionsInv, AllKnown, NEW s \in Store, NEW n \in node_table[s], Versions!S!Exists(n)
                 PROVE  /\ Versions!get_node(s, n, NIL) = Versions!S!Latest(n)
                        /\ \A v \in 1..Len(Versions!Held[n]) : Versions!get_node(s, n, v) = Versions!S!Content(n, v)
    BY DEF Versions!ReadsAgree
  <2> DEFINE h == Versions!Held[n]
             k == Len(index[n].list)
  <2>2. n \in Node /\ VersionsTypes /\ k <= MaxVersion
    BY <2>1 DEF AllKnown, VersionsInv, Whole
  <2>3. index[n].list \in Seq(Entry) /\ k \in Nat /\ file[n] \in [Versions!Version -> Data \cup {NIL, TORN}]
    BY <2>2, IndexTypes DEF VersionsTypes
  <2>4. h = [v \in DOMAIN index[n].list |->
               [data |-> file[n][v], time |-> index[n].list[Len(index[n].list) + 1 - v].time]]
    BY <2>2 DEF Versions!Held
  <2>5. /\ Len(h) = k /\ h \in Seq(Held)
        /\ \A v \in 1..k : h[v] = [data |-> file[n][v], time |-> index[n].list[k + 1 - v].time]
    <3> HIDE DEF h
    <3> QED
      BY <2>2, <2>3, <2>4, HeldIs
  <2>6. h # <<>>
    BY <2>1 DEF Versions!S!Exists
  <2>7. k # 0
    <3> HIDE DEF h, k
    <3> QED
      BY <2>5, <2>6, EmptySeq
  <2>8. k \in 1..k /\ \A v \in 1..k : v \in Nat /\ v # NIL
    <3> HIDE DEF k
    <3> QED
      BY <2>3, <2>7, NumbersAre
  <2>9. Versions!get_node(s, n, NIL) = file[n][k]
    <3>1. PICK top \in 1..Len(index[n].list) : top = Len(index[n].list)
      BY <2>8
    <3>2. PICK v \in Nat \cup {NIL} : v = NIL
      OBVIOUS
    <3>3. Versions!get_node(s, n, v) = file[n][top]
      BY <2>1, <2>2, <3>1, <3>2, FileRead
    <3> QED
      BY <3>1, <3>2, <3>3
  <2>10. \A v \in 1..k : Versions!get_node(s, n, v) = file[n][v]
    BY <2>1, <2>2, <2>8, FileRead
  <2>11. \A v \in 1..k : Versions!S!Content(n, v) = file[n][v]
    <3>1. SUFFICES ASSUME NEW v \in 1..k PROVE h[v].data = file[n][v]
      BY DEF Versions!S!Content
    <3>2. h[v] = [data |-> file[n][v], time |-> index[n].list[k + 1 - v].time]
      BY <2>5
    <3> HIDE DEF h
    <3> QED
      BY <3>2
  <2>12. Versions!S!Latest(n) = file[n][k]
    BY <2>5, <2>8, <2>11 DEF Versions!S!Latest
  <2> QED
    BY <2>5, <2>9, <2>10, <2>11, <2>12
<1> QED
  BY <1>1, VersionsInvariant, KnownAlways, PTL

\* What a run checks of the versions, for any number of nodes, stores, versions and failures.
THEOREM VersionsStaySound == ASSUME "short" \notin Fault PROVE MCSpec => []VersionsSound
<1>1. Versions!IndexSound /\ Versions!SavedIsKept /\ Versions!ReadsAgree => VersionsSound
  BY DEF VersionsSound
<1> QED
  BY <1>1, IndexStaysSound, SavedStaysSaved, StoresAgree, PTL

\* A store that lists the directory, anew or after the process ended, knows every node that
\* was saved and no other than those that have a directory (filedir.lua:50-60).
THEOREM StoresKnowSaved ==
  ASSUME "short" \notin Fault
  PROVE  MCSpec => [][Versions!ListsSaved]_<<part, dirs, file, index, node_table, save, saved, disk, cache, page>>
<1>1. VersionsInv /\ AllKnown => Versions!ListsSaved
  <2>1. SUFFICES ASSUME VersionsInv, AllKnown, NEW s \in Store, Versions!New(s) \/ Versions!Crash
                 PROVE  /\ {r.node : r \in saved} \subseteq node_table'[s]
                        /\ node_table'[s] \subseteq {n \in Node : Versions!Name(n) \in dirs}
    BY DEF Versions!ListsSaved
  <2>2. node_table'[s] = {n \in Node : Versions!Name(n) \in dirs}
    BY <2>1, ListedIs DEF Versions!New, Versions!Crash, AllKnown
  <2>3. ASSUME NEW r \in saved PROVE r.node \in Node /\ Versions!Name(r.node) \in dirs
    <3>1. r.node \in Node /\ r.version \in 1..MaxVersion /\ r.version <= Len(index[r.node].list) /\ VersionsTypes
      BY <2>1 DEF VersionsInv, VersionsTypes, Kept, Versions!Version
    <3>2. index[r.node].list # <<>> /\ Whole(r.node)
      BY <2>1, <3>1, IndexTypes, NumbersAre DEF VersionsInv
    <3> QED
      BY <3>1, <3>2 DEF Whole
  <2> QED
    BY <2>2, <2>3
<1> QED
  BY <1>1, VersionsInvariant, KnownAlways, PTL

(***************************************************************************)
(* Histories: of a node, and of all nodes.                                 *)
(***************************************************************************)
\* A history that is read of a node has its newest versions of the times asked for, and all of
\* them unless the limit was passed.
LEMMA HistoryIs ==
  ASSUME VersionsInv, NEW s \in Store, NEW n \in Node, n \in node_table[s], Versions!S!Exists(n),
         NEW p, NEW limit \in Nat \cup {NIL}
  PROVE  LET h == Versions!Versions(Versions!get_node_history(s, n, p, limit))
         IN  /\ Versions!S!AreNewest(n, p, h)
             /\ limit = NIL \/ Len(h) < limit => Versions!S!IsHistory(n, p, h)
<1>1. PICK list : list = index[n].list
  OBVIOUS
<1>2. PICK k : k = Len(list)
  OBVIOUS
<1>3. PICK held : held = Versions!Held[n]
  OBVIOUS
<1>4. PICK g : g = Versions!get_node_history(s, n, p, limit)
  OBVIOUS
<1>5. /\ list \in Seq(Entry) /\ k \in Nat /\ k <= MaxVersion /\ VersionsTypes
      /\ \A x \in 1..k : list[x] \in Entry /\ list[x].version = k + 1 - x
  BY <1>1, <1>2, IndexTypes DEF VersionsInv, Whole
<1>6. Len(held) = k /\ \A v \in 1..k : held[v].time = list[k + 1 - v].time
  <2>1. PICK f : f = file[n]
    OBVIOUS
  <2>2. f \in [Versions!Version -> Data \cup {NIL, TORN}]
    BY <1>5, <2>1 DEF VersionsTypes
  <2>3. held = [v \in DOMAIN list |-> [data |-> f[v], time |-> list[Len(list) + 1 - v].time]]
    BY <1>1, <1>3, <2>1 DEF Versions!Held
  <2>4. list \in Seq(Entry) /\ Len(list) <= MaxVersion
    BY <1>2, <1>5
  <2>5. Len(held) = Len(list)
    BY <2>2, <2>3, <2>4, HeldIs
  <2>6. \A v \in 1..Len(list) : held[v].time = list[Len(list) + 1 - v].time
    BY <2>3, <2>4
  <2> QED
    BY <1>2, <2>5, <2>6
<1>7. list # <<>>
  <2>1. held # <<>> /\ held \in Seq(Held)
    <3>1. held # <<>>
      BY <1>3 DEF Versions!S!Exists
    <3>2. file[n] \in [Versions!Version -> Data \cup {NIL, TORN}]
      BY <1>5 DEF VersionsTypes
    <3>3. held = [v \in DOMAIN list |-> [data |-> file[n][v], time |-> list[Len(list) + 1 - v].time]]
      BY <1>1, <1>3 DEF Versions!Held
    <3>4. held \in Seq(Held)
      BY <1>2, <1>5, <3>2, <3>3, HeldIs
    <3> QED
      BY <3>1, <3>4
  <2>2. Len(held) # 0
    BY <2>1, EmptySeq
  <2> QED
    BY <1>2, <1>6, <2>2, EmptySeq
<1>8. Parsed(g, list, p, limit, k)
  BY <1>1, <1>2, <1>4, <1>7, HistoryRead
<1>9. DOMAIN g = 1..Len(g) /\ Len(g) \in Nat /\ \A a \in 1..Len(g) : g[a] \in Entry
  BY <1>8, LenProperties, ElementOfSeq DEF Parsed
<1>10. PICK h : h = [a \in 1..Len(g) |-> g[a].version]
  OBVIOUS
<1>11. Len(h) = Len(g) /\ \A a \in 1..Len(h) : h[a] = g[a].version /\ h[a] \in Nat
  <2>1. \A a \in 1..Len(g) : g[a].version \in Nat
    BY <1>9 DEF Entry, Versions!Version
  <2>2. h \in Seq(Nat) /\ Len(h) = Len(g)
    BY <1>9, <1>10, <2>1
  <2> QED
    BY <1>10, <2>1, <2>2
<1>12. Versions!Versions(Versions!get_node_history(s, n, p, limit)) = h
  BY <1>4, <1>9, <1>10 DEF Versions!Versions
<1> DEFINE W == {v \in 1..k : held[v].time \in p}
<1>13. Versions!S!VersionsOf(n, p) = W
  BY <1>3, <1>6 DEF Versions!S!VersionsOf
<1>14. \A i, j \in 1..Len(h) : i < j => h[j] < h[i]
  BY <1>8, <1>11 DEF Parsed
<1>15. \A i \in 1..Len(h) : h[i] \in W
  <2>1. SUFFICES ASSUME NEW i \in 1..Len(h) PROVE h[i] \in W
    OBVIOUS
  <2>2. PICK x \in 1..k : g[i] = list[x] /\ list[x].time \in p
    BY <1>8, <1>11 DEF Parsed
  <2>3. h[i] = k + 1 - x
    BY <1>5, <1>11, <2>2
  <2>4. k + 1 - x \in 1..k /\ k + 1 - (k + 1 - x) = x
    BY <1>5
  <2> QED
    BY <1>6, <2>2, <2>3, <2>4
<1>16. \A v \in W : \/ \E j \in 1..Len(h) : h[j] = v
                    \/ limit # NIL /\ Len(h) > limit /\ \A j \in 1..Len(h) : h[j] > v
  <2>1. SUFFICES ASSUME NEW v \in W PROVE \/ \E j \in 1..Len(h) : h[j] = v
                                          \/ limit # NIL /\ Len(h) > limit /\ \A j \in 1..Len(h) : h[j] > v
    OBVIOUS
  <2>2. PICK x : x = k + 1 - v
    OBVIOUS
  <2>3. x \in 1..k /\ list[x].version = v /\ list[x].time \in p
    <3>1. v \in 1..k /\ held[v].time \in p
      OBVIOUS
    <3>2. x \in 1..k /\ v = k + 1 - x
      BY <1>5, <2>2, <3>1
    <3> QED
      BY <1>5, <1>6, <2>2, <3>1, <3>2
  <2>4. \/ \E a \in 1..Len(g) : g[a] = list[x]
        \/ limit # NIL /\ Len(g) > limit /\ \A a \in 1..Len(g) : g[a].version > list[x].version
    BY <1>8, <2>3 DEF Parsed
  <2> QED
    BY <1>11, <2>3, <2>4
<1> HIDE DEF W
<1>17. Versions!S!AreNewest(n, p, h)
  <2>1. ASSUME NEW i \in 1..Len(h), NEW v \in W, v > h[i] PROVE \E j \in 1..Len(h) : h[j] = v
    <3>1. v \in Nat /\ h[i] \in Nat /\ ~(h[i] > v)
      BY <1>5, <1>11, <2>1 DEF W
    <3> QED
      BY <1>16, <3>1
  <2> QED
    BY <1>13, <1>14, <1>15, <2>1 DEF Versions!S!AreNewest
<1>18. ASSUME limit = NIL \/ Len(h) < limit PROVE Versions!S!IsHistory(n, p, h)
  <2>1. ~(limit # NIL /\ Len(h) > limit)
    BY <1>9, <1>11, <1>18
  <2>2. \A v \in W : \E j \in 1..Len(h) : h[j] = v
    BY <1>16, <2>1
  <2> QED
    BY <1>13, <1>17, <2>2 DEF Versions!S!IsHistory
<1> QED
  BY <1>12, <1>17, <1>18

\* Histories agree with what is stored, whichever store reads them (filedir.lua:76-95).
THEOREM HistoriesSound == ASSUME "short" \notin Fault PROVE MCSpec => []Versions!HistoriesAgree
<1>1. VersionsInv /\ AllKnown => Versions!HistoriesAgree
  <2>1. SUFFICES ASSUME VersionsInv, AllKnown, NEW s \in Store, NEW n \in node_table[s], Versions!S!Exists(n),
                        NEW p \in Versions!Periods
                 PROVE  /\ Versions!S!IsHistory(n, p, Versions!Versions(Versions!get_node_history(s, n, p, NIL)))
                        /\ \A limit \in 1..MaxVersion :
                             LET some == Versions!Versions(Versions!get_node_history(s, n, p, limit))
                             IN  /\ Versions!S!AreNewest(n, p, some)
                                 /\ Len(some) < limit => Versions!S!IsHistory(n, p, some)
    BY DEF Versions!HistoriesAgree
  <2>2. n \in Node
    BY <2>1 DEF AllKnown
  <2>3. Versions!S!IsHistory(n, p, Versions!Versions(Versions!get_node_history(s, n, p, NIL)))
    <3>1. PICK l \in Nat \cup {NIL} : l = NIL
      OBVIOUS
    <3>2. Versions!S!IsHistory(n, p, Versions!Versions(Versions!get_node_history(s, n, p, l)))
      BY <2>1, <2>2, <3>1, HistoryIs
    <3> QED
      BY <3>1, <3>2
  <2>4. ASSUME NEW limit \in 1..MaxVersion
        PROVE  LET some == Versions!Versions(Versions!get_node_history(s, n, p, limit))
               IN  /\ Versions!S!AreNewest(n, p, some)
                   /\ Len(some) < limit => Versions!S!IsHistory(n, p, some)
    <3>1. limit \in Nat \cup {NIL}
      OBVIOUS
    <3> QED
      BY <2>1, <2>2, <3>1, HistoryIs
  <2> QED
    BY <2>3, <2>4
<1> QED
  BY <1>1, VersionsInvariant, KnownAlways, PTL

Finite == IsFiniteSet(dirs) /\ node_table \in [Store -> SUBSET Node] /\ \A s \in Store : IsFiniteSet(node_table[s])

\* Cardinality is the same definition wherever it is instantiated.
LEMMA CardinalityIs == ASSUME NEW S PROVE Versions!Cardinality(S) = Cardinality(S)
BY DEF Versions!Cardinality, Cardinality

LEMMA NewestAre ==
  ASSUME NEW k, NEW S, NEW some \in Versions!NewestFirst(S, k)
  PROVE  some \in SUBSET S /\ Cardinality(some) = k /\ \A a \in some, b \in S \ some : b.time <= a.time
<1>1. some \in Versions!kSubset(k, S) /\ \A a \in some, b \in S \ some : b.time <= a.time
  BY DEF Versions!NewestFirst
<1>2. some \in SUBSET S /\ Versions!Cardinality(some) = k
  BY <1>1 DEF Versions!kSubset
<1> QED
  BY <1>1, <1>2, CardinalityIs

LEMMA ListedFinite == IsFiniteSet(dirs) => IsFiniteSet(Versions!Listed)
<1>1. SUFFICES ASSUME IsFiniteSet(dirs) PROVE IsFiniteSet(Versions!Listed)
  OBVIOUS
<1> DEFINE f == [d \in dirs |-> Versions!IdOf(d)]
<1>2. f \in Surjection(dirs, Versions!Listed)
  <2>1. f \in [dirs -> Versions!Listed]
    BY DEF Versions!Listed
  <2>2. \A x \in Versions!Listed : \E d \in dirs : f[d] = x
    BY DEF Versions!Listed
  <2> QED
    BY <2>1, <2>2 DEF Surjection
<1> QED
  BY <1>1, <1>2, FS_Surjection

LEMMA FiniteNext ==
  ASSUME Finite, AllKnown, Versions!Next
  PROVE  Finite'
<1> USE DEF Finite
<1>1. ASSUME NEW s \in Store, Versions!New(s) PROVE Finite'
  <2>1. IsFiniteSet(Versions!Listed) /\ Versions!Listed \subseteq Node
    BY ListedFinite, ListedIs DEF AllKnown
  <2> QED
    BY <1>1, <2>1 DEF Versions!New, Versions!disk
<1>2. ASSUME NEW s \in Store, NEW n \in Node, NEW d \in Data, Versions!StartSave(s, n, d) PROVE Finite'
  <2>1. IsFiniteSet(dirs \cup {Versions!Name(n)}) /\ IsFiniteSet(node_table[s] \cup {n})
    BY FS_AddElement
  <2> QED
    BY <1>2, <2>1 DEF Versions!StartSave
<1>3. CASE Versions!Crash
  <2>1. IsFiniteSet(Versions!Listed) /\ Versions!Listed \subseteq Node
    BY ListedFinite, ListedIs DEF AllKnown
  <2> QED
    BY <1>3, <2>1 DEF Versions!Crash, Versions!disk
<1>4. CASE Versions!WriteData \/ Versions!WriteIndex \/ Versions!Tick
  BY <1>4 DEF Versions!WriteData, Versions!WriteIndex, Versions!Tick, Versions!disk
<1> QED
  BY <1>1, <1>2, <1>3, <1>4 DEF Versions!Next

LEMMA FiniteAlways == MCSpec => []Finite
<1>1. MCInit => Finite
  BY FS_EmptySet DEF MCInit, Versions!Init, Finite
<1>2. ASSUME Finite, AllKnown,
             [MCNext]_<<part, vars, now, dirs, file, index, node_table, save, saved, disk, cache, page>>
      PROVE  Finite'
  <2>1. CASE Versions!Next
    BY <1>2, <2>1, FiniteNext
  <2>2. CASE UNCHANGED <<dirs, node_table>>
    BY <1>2, <2>2 DEF Finite
  <2> QED
    BY <1>2, <2>1, <2>2 DEF MCNext, Still
<1> QED
  BY <1>1, <1>2, KnownAlways, PTL DEF MCSpec

\* The newer of two entries is no older.
LEMMA TimesDescend ==
  ASSUME NEW list \in Seq(Entry),
         \A i \in 1..Len(list) : i > 1 => list[i].time <= list[i - 1].time,
         NEW i \in 1..Len(list), NEW j \in 1..Len(list), i <= j
  PROVE  list[j].time <= list[i].time
<1>1. Len(list) \in Nat /\ \A k \in 1..Len(list) : list[k].time \in Nat
  <2>1. \A k \in 1..Len(list) : list[k] \in Entry
    BY ElementOfSeq
  <2> QED
    BY <2>1, LenProperties DEF Entry, Versions!Time
<1> DEFINE T == {k \in Nat : i <= k /\ k <= Len(list) /\ ~(list[k].time <= list[i].time)}
<1>2. T = {}
  <2>1. SUFFICES ASSUME NEW x \in T, \A y \in T : ~(y < x) PROVE FALSE
    BY LeastNumber
  <2>2. x \in 1..Len(list) /\ i <= x /\ ~(list[x].time <= list[i].time)
    BY <1>1
  <2>3. x # i
    BY <1>1, <2>2
  <2>4. PICK y : y = x - 1
    OBVIOUS
  <2>5. y \in 1..Len(list) /\ i <= y /\ y < x /\ x > 1 /\ y \in Nat
    BY <1>1, <2>2, <2>3, <2>4
  <2>6. list[y].time <= list[i].time
    BY <2>1, <2>5
  <2>7. list[x].time <= list[y].time
    BY <2>2, <2>4, <2>5
  <2> QED
    BY <1>1, <2>2, <2>5, <2>6, <2>7
<1> QED
  BY <1>1, <1>2

\* One edit of each version that was read of a node.
Edit(n, e) == [id |-> n, version |-> e.version, time |-> e.time]

EditsOf(s, ids, limit) ==
  UNION {{Edit(n, e) : e \in Versions!Range(Versions!get_node_history(s, n, Versions!Time, limit))} : n \in ids}

LEMMA EditsFinite ==
  ASSUME VersionsInv, NEW s \in Store, NEW ids \in SUBSET node_table[s], IsFiniteSet(ids), ids \subseteq Node, NEW limit \in Nat,
         \A n \in ids : index[n].list # <<>>
  PROVE  IsFiniteSet(EditsOf(s, ids, limit))
<1> DEFINE V == ids \X (Versions!Version \X Versions!Time)
           R == {[id |-> n, version |-> v, time |-> t] : n \in ids, v \in Versions!Version, t \in Versions!Time}
           f == [x \in V |-> [id |-> x[1], version |-> x[2][1], time |-> x[2][2]]]
<1>1. IsFiniteSet(V)
  <2>1. IsFiniteSet(Versions!Version) /\ IsFiniteSet(Versions!Time)
    BY FS_Interval, NumbersAre DEF Versions!Version, Versions!Time
  <2>2. IsFiniteSet(Versions!Version \X Versions!Time)
    BY <2>1, FS_Product
  <2> QED
    BY <2>2, FS_Product
<1>2. f \in Surjection(V, R)
  <2>1. f \in [V -> R]
    OBVIOUS
  <2>2. \A r \in R : \E x \in V : f[x] = r
    <3>1. SUFFICES ASSUME NEW r \in R PROVE \E x \in V : f[x] = r
      OBVIOUS
    <3>2. PICK n \in ids, v \in Versions!Version, t \in Versions!Time : r = [id |-> n, version |-> v, time |-> t]
      OBVIOUS
    <3>3. <<n, <<v, t>>>> \in V /\ f[<<n, <<v, t>>>>] = r
      BY <3>2
    <3> QED
      BY <3>3
  <2> HIDE DEF f, V, R
  <2> QED
    BY <2>1, <2>2 DEF Surjection
<1>3. IsFiniteSet(R)
  <2> HIDE DEF f, V, R
  <2> QED
    BY <1>1, <1>2, FS_Surjection
<1>4. EditsOf(s, ids, limit) \in SUBSET R
  <2>1. SUFFICES ASSUME NEW n \in ids,
                        NEW e \in Versions!Range(Versions!get_node_history(s, n, Versions!Time, limit))
                 PROVE  Edit(n, e) \in R
    <3> HIDE DEF R
    <3> QED
      BY DEF EditsOf
  <2>2. PICK g : g = Versions!get_node_history(s, n, Versions!Time, limit)
    OBVIOUS
  <2>3. g \in Seq(Entry)
    <3>1. Parsed(g, index[n].list, Versions!Time, limit, Len(index[n].list))
      BY <2>2, HistoryRead
    <3> QED
      BY <3>1 DEF Parsed
  <2>4. e \in Entry
    BY <2>2, <2>3 DEF Versions!Range
  <2> QED
    BY <2>4 DEF Edit, Entry
<1> HIDE DEF R
<1> QED
  BY <1>3, <1>4, FS_Subset

\* An edit is no newer than those returned if it is not one of them, unless some nodes are
\* left out (saci.lua:237-262).
LEMMA NewestEdits ==
  ASSUME VersionsInv, AllKnown, Finite, NEW s \in Store, NEW limit \in 1..MaxVersion,
         \A n \in node_table[s] : Versions!S!Exists(n), Versions!Cardinality(node_table[s]) <= limit,
         NEW edits \in Versions!get_complete_history(s, limit), NEW e \in edits,
         NEW n \in node_table[s], NEW i \in 1..Len(index[n].list), index[n].list[i].time > e.time
  PROVE  \E x \in edits : x.id = n /\ x.version = index[n].list[i].version
<1>1. PICK known : known = node_table[s]
  OBVIOUS
<1>2. PICK list : list = index[n].list
  OBVIOUS
<1>3. PICK E : E = EditsOf(s, known, limit)
  OBVIOUS
<1>4. n \in Node /\ known \subseteq Node /\ IsFiniteSet(known) /\ limit \in Nat
  BY <1>1 DEF AllKnown, Finite
<1>5. ASSUME NEW m \in known PROVE index[m].list # <<>>
  <2>1. Versions!Held[m] # <<>> /\ m \in Node
    BY <1>1, <1>4, <1>5 DEF Versions!S!Exists
  <2>2. Versions!Held[m] = [v \in DOMAIN index[m].list |->
           [data |-> file[m][v], time |-> index[m].list[Len(index[m].list) + 1 - v].time]]
    BY <2>1 DEF Versions!Held
  <2>3. SUFFICES ASSUME index[m].list = <<>> PROVE FALSE
    OBVIOUS
  <2>4. DOMAIN index[m].list = {}
    BY <2>3
  <2>5. <<>> = [v \in {} |-> [data |-> file[m][v], time |-> index[m].list[Len(index[m].list) + 1 - v].time]]
    OBVIOUS
  <2> QED
    BY <2>1, <2>2, <2>4, <2>5
<1>6. IsFiniteSet(E)
  BY <1>1, <1>3, <1>4, <1>5, EditsFinite
<1> DEFINE Size(S) == IF limit < Versions!Cardinality(S) THEN limit ELSE Versions!Cardinality(S)
<1>7. \E ids \in Versions!kSubset(Size(known), known) :
         edits \in Versions!NewestFirst(EditsOf(s, ids, limit), Size(EditsOf(s, ids, limit)))
  <2>1. edits \in UNION {Versions!NewestFirst(EditsOf(s, ids, limit), Size(EditsOf(s, ids, limit))) :
                           ids \in Versions!kSubset(Size(known), known)}
    BY <1>1 DEF Versions!get_complete_history, EditsOf, Edit
  <2> QED
    BY <2>1
<1>8. Size(known) = Cardinality(known)
  <2>1. Cardinality(known) \in Nat /\ Versions!Cardinality(known) = Cardinality(known)
    BY <1>4, FS_CardinalityType, CardinalityIs
  <2> QED
    BY <1>1, <1>4, <2>1
<1>9. edits \in SUBSET E /\ Cardinality(edits) = Size(E) /\ \A a \in edits, b \in E \ edits : b.time <= a.time
  <2>1. PICK ids \in Versions!kSubset(Size(known), known) :
           edits \in Versions!NewestFirst(EditsOf(s, ids, limit), Size(EditsOf(s, ids, limit)))
    BY <1>7
  <2>2. ids \in SUBSET known /\ Cardinality(ids) = Cardinality(known)
    <3> HIDE DEF Size
    <3> QED
      BY <1>8, CardinalityIs DEF Versions!kSubset
  <2>3. ids = known
    BY <1>4, <2>2, FS_Subset
  <2>4. edits \in Versions!NewestFirst(E, Size(E))
    BY <1>3, <2>1, <2>3
  <2> HIDE DEF Size
  <2> QED
    BY <2>4, NewestAre
<1>10. Cardinality(edits) <= limit /\ IsFiniteSet(edits) /\ Cardinality(edits) \in Nat
  <2>1. IsFiniteSet(edits) /\ Cardinality(E) \in Nat /\ Cardinality(edits) \in Nat
    BY <1>6, <1>9, FS_Subset, FS_CardinalityType
  <2>2. Versions!Cardinality(E) = Cardinality(E)
    BY CardinalityIs
  <2> QED
    BY <1>4, <1>9, <2>1, <2>2
<1> HIDE DEF Size
<1>11. PICK g : g = Versions!get_node_history(s, n, Versions!Time, limit)
  OBVIOUS
<1>12. Parsed(g, list, Versions!Time, limit, Len(list)) /\ limit # NIL
  BY <1>1, <1>2, <1>4, <1>5, <1>11, HistoryRead, NumbersAre
<1>13. /\ list \in Seq(Entry) /\ Len(list) \in Nat
       /\ \A x \in 1..Len(list) : /\ list[x] \in Entry /\ list[x].version = Len(list) + 1 - x
                                  /\ x > 1 => list[x].time <= list[x - 1].time
                                  /\ list[x].time \in Versions!Time /\ list[x].time \in Nat
  <2>1. \A y \in Entry : y.time \in Versions!Time /\ y.time \in Nat
    BY DEF Entry, Versions!Time
  <2> QED
    BY <1>2, <1>4, <2>1, IndexTypes DEF VersionsInv, Whole
<1>14. DOMAIN g = 1..Len(g) /\ Len(g) \in Nat /\ \A a \in 1..Len(g) : Edit(n, g[a]) \in E
  <2>1. DOMAIN g = 1..Len(g) /\ Len(g) \in Nat
    BY <1>12, LenProperties DEF Parsed
  <2> QED
    BY <1>1, <1>3, <1>11, <2>1 DEF EditsOf, Versions!Range
<1>15. e.time \in Nat
  <2>0. PICK m \in known : \E y \in Versions!Range(Versions!get_node_history(s, m, Versions!Time, limit)) : e = Edit(m, y)
    BY <1>3, <1>9 DEF EditsOf
  <2>1. PICK y \in Versions!Range(Versions!get_node_history(s, m, Versions!Time, limit)) : e = Edit(m, y)
    BY <2>0
  <2>2. Versions!get_node_history(s, m, Versions!Time, limit) \in Seq(Entry)
    <3>1. Parsed(Versions!get_node_history(s, m, Versions!Time, limit), index[m].list, Versions!Time, limit, Len(index[m].list))
      BY <1>1, <1>4, <1>5, HistoryRead
    <3> QED
      BY <3>1 DEF Parsed
  <2>3. y \in Entry
    BY <2>1, <2>2 DEF Versions!Range
  <2> QED
    BY <2>1, <2>3 DEF Edit, Entry, Versions!Time
<1>16. ASSUME NEW y \in E, y.time > e.time, y.time \in Nat PROVE y \in edits
  <2>1. SUFFICES ASSUME y \notin edits PROVE FALSE
    OBVIOUS
  <2>2. y.time <= e.time
    BY <1>9, <1>16, <2>1
  <2> QED
    BY <1>15, <1>16, <2>2
<1>17. CASE \E a \in 1..Len(g) : g[a] = list[i]
  <2>1. PICK a \in 1..Len(g) : g[a] = list[i]
    BY <1>17
  <2>2. Edit(n, g[a]) \in edits
    BY <1>2, <1>13, <1>14, <1>16, <2>1 DEF Edit
  <2> QED
    BY <1>2, <2>1, <2>2 DEF Edit
<1>18. CASE Len(g) > limit /\ \A a \in 1..Len(g) : g[a].version > list[i].version
  <2>1. ASSUME NEW a \in 1..Len(g) PROVE Edit(n, g[a]) \in edits
    <3>1. PICK x \in 1..Len(list) : g[a] = list[x]
      BY <1>12 DEF Parsed
    <3>2. x <= i
      <4>1. list[x].version > list[i].version
        BY <1>18, <3>1
      <4>2. Len(list) + 1 - x > Len(list) + 1 - i
        BY <1>2, <1>13, <4>1
      <4> QED
        BY <1>2, <1>13, <4>2
    <3>3. list[i].time <= list[x].time
      BY <1>2, <1>13, <3>2, TimesDescend
    <3>4. list[i].time > e.time /\ list[i].time \in Nat /\ list[x].time \in Nat
      BY <1>2, <1>13
    <3>5. list[x].time > e.time
      BY <1>15, <3>3, <3>4
    <3>6. Edit(n, g[a]).time = list[x].time
      BY <3>1 DEF Edit
    <3> QED
      BY <1>14, <1>16, <3>4, <3>5, <3>6
  <2> DEFINE f == [a \in 1..Len(g) |-> Edit(n, g[a])]
  <2>2. f \in [1..Len(g) -> edits]
    BY <2>1
  <2>3. \A a, b \in 1..Len(g) : f[a] = f[b] => a = b
    <3>1. SUFFICES ASSUME NEW a \in 1..Len(g), NEW b \in 1..Len(g), f[a] = f[b], a # b PROVE FALSE
      OBVIOUS
    <3>2. g[a].version = g[b].version
      BY <3>1 DEF Edit
    <3>3. a < b \/ b < a
      BY <1>14, <3>1
    <3>4. g[a].version < g[b].version \/ g[b].version < g[a].version
      BY <1>12, <3>3 DEF Parsed
    <3>5. g[a].version \in Nat
      <4>1. PICK x \in 1..Len(list) : g[a] = list[x]
        BY <1>12 DEF Parsed
      <4> QED
        BY <1>13, <4>1 DEF Entry, Versions!Version
    <3> QED
      BY <3>2, <3>4, <3>5
  <2>4. f \in Injection(1..Len(g), edits)
    <3> HIDE DEF f
    <3> QED
      BY <2>2, <2>3 DEF Injection, IsInjective
  <2>5. Cardinality(1..Len(g)) = Len(g)
    <3>1. Len(g) > 0
      BY <1>4, <1>14, <1>18
    <3> QED
      BY <1>14, <3>1, FS_Interval
  <2>6. Cardinality(1..Len(g)) <= Cardinality(edits)
    <3> HIDE DEF f
    <3> QED
      BY <1>10, <2>4, FS_Injection
  <2> QED
    BY <1>4, <1>10, <1>14, <1>18, <2>5, <2>6
<1> QED
  BY <1>2, <1>12, <1>13, <1>17, <1>18 DEF Parsed

\* The history of all nodes has the newest edits (sputnik/init.lua:564).
THEOREM CompleteHistorySound == ASSUME "short" \notin Fault PROVE MCSpec => []Versions!CompleteHistoryIsNewest
<1>1. VersionsInv /\ AllKnown /\ Finite => Versions!CompleteHistoryIsNewest
  <2>1. SUFFICES ASSUME VersionsInv, AllKnown, Finite, NEW s \in Store, NEW limit \in 1..MaxVersion,
                        \A n \in node_table[s] : Versions!S!Exists(n), Versions!Cardinality(node_table[s]) <= limit,
                        NEW edits \in Versions!get_complete_history(s, limit), NEW e \in edits,
                        NEW n \in node_table[s], NEW i \in DOMAIN index[n].list, index[n].list[i].time > e.time
                 PROVE  \E x \in edits : x.id = n /\ x.version = index[n].list[i].version
    BY DEF Versions!CompleteHistoryIsNewest
  <2>2. i \in 1..Len(index[n].list)
    BY <2>1, IndexTypes DEF AllKnown, VersionsInv
  <2> QED
    BY <2>1, <2>2, NewestEdits
<1> QED
  BY <1>1, VersionsInvariant, KnownAlways, FiniteAlways, PTL

(***************************************************************************)
(* Nodes in memory: a page shows what is stored, and a version that is     *)
(* saved differs from the last one in what was given only, where one       *)
(* application state runs at a time.                                       *)
(***************************************************************************)
\* The number of nodes, as the node cache has it.
Depths == 0..Pages!Cardinality(Page)

LEMMA SizeIs == Pages!Cardinality(Page) \in Nat
<1>1. IsFiniteSet(Page)
  BY PagesAssumption DEF Pages!NodeCacheAssumption, Pages!IsFiniteSet, IsFiniteSet
<1>2. Pages!Cardinality(Page) = Cardinality(Page)
  BY DEF Pages!Cardinality, Cardinality
<1> QED
  BY <1>1, <1>2, FS_CardinalityType

\* No node is among its own prototypes.
IsDepth(depth) ==
  /\ depth \in [Page -> Depths]
  /\ \A n \in Page : Proto[n] # NIL => depth[Proto[n]] < depth[n]

LEMMA DepthExists == \E depth : IsDepth(depth)
BY PagesAssumption DEF Pages!NodeCacheAssumption, IsDepth, Depths

LEMMA PagesAre ==
  /\ Proto \in [Page -> Page \cup {NIL}]
  /\ MaxEdits \in Nat \ {0}
  /\ NIL \notin Page /\ NIL \notin Raw /\ NIL \notin Pages!Entry
BY PagesAssumption DEF Pages!NodeCacheAssumption

\* Nodes less than k prototypes away from a root.
Near(depth, k) == {m \in Page : depth[m] < k}

\* f has the nodes in S as get_node makes them from the cache c.
LatestOf(f, c, S) ==
  f = [m \in S |-> IF c[<<m, 0>>] # NIL THEN c[<<m, 0>>] ELSE Pages!Made(m, Pages!Stored(m, 0), f)]

LEMMA LatestGrows ==
  ASSUME NEW c, NEW depth, IsDepth(depth), NEW k \in Nat, NEW f, LatestOf(f, c, Near(depth, k))
  PROVE  \E h : LatestOf(h, c, Near(depth, k + 1))
<1> DEFINE N == Near(depth, k)
           M == Near(depth, k + 1)
           h == [m \in M |-> IF c[<<m, 0>>] # NIL THEN c[<<m, 0>>] ELSE Pages!Made(m, Pages!Stored(m, 0), f)]
<1>1. N \subseteq M /\ M \subseteq Page
  <2>1. \A m \in Page : depth[m] \in Int
    BY DEF IsDepth, Depths
  <2> QED
    BY <2>1 DEF Near
<1>2. \A m \in N : h[m] = f[m]
  BY <1>1 DEF LatestOf
<1>3. ASSUME NEW m \in M, Proto[m] # NIL PROVE Proto[m] \in N
  <2>1. m \in Page /\ Proto[m] \in Page /\ depth[m] \in Int /\ depth[Proto[m]] \in Int /\ depth[Proto[m]] < depth[m]
    BY <1>1, <1>3, PagesAre DEF IsDepth, Depths
  <2> QED
    BY <1>3, <2>1 DEF Near
<1>4. ASSUME NEW m \in M PROVE Pages!Made(m, Pages!Stored(m, 0), h) = Pages!Made(m, Pages!Stored(m, 0), f)
  <2>1. Proto[m] # NIL => h[Proto[m]] = f[Proto[m]]
    BY <1>2, <1>3
  <2> HIDE DEF h, M, N
  <2> QED
    BY <2>1 DEF Pages!Made
<1>5. h = [m \in M |-> IF c[<<m, 0>>] # NIL THEN c[<<m, 0>>] ELSE Pages!Made(m, Pages!Stored(m, 0), h)]
  BY <1>4
<1> QED
  BY <1>5 DEF LatestOf

LEMMA LatestIs == ASSUME NEW c PROVE LatestOf(Pages!Latest(c), c, Page)
<1>1. PICK depth : IsDepth(depth)
  BY DepthExists
<1> DEFINE T == {k \in Nat : ~\E f : LatestOf(f, c, Near(depth, k))}
<1>2. T = {}
  <2>1. SUFFICES ASSUME NEW x \in T, \A y \in T : ~(y < x) PROVE FALSE
    BY LeastNumber
  <2>2. CASE x = 0
    <3>1. Near(depth, 0) = {}
      BY <1>1 DEF Near, IsDepth, Depths
    <3>2. LatestOf([m \in {} |-> m], c, {})
      BY DEF LatestOf
    <3> QED
      BY <2>2, <3>1, <3>2
  <2>3. CASE x # 0
    <3>1. x - 1 \in Nat /\ x - 1 < x /\ x = (x - 1) + 1
      BY <2>3
    <3>2. PICK f : LatestOf(f, c, Near(depth, x - 1))
      BY <2>1, <3>1
    <3>3. \E h : LatestOf(h, c, Near(depth, (x - 1) + 1))
      BY <1>1, <3>1, <3>2, LatestGrows
    <3> QED
      BY <3>1, <3>3
  <2> QED
    BY <2>2, <2>3
<1>3. PICK k \in Nat : k = Pages!Cardinality(Page) + 1
  BY SizeIs
<1>4. Near(depth, k) = Page
  BY <1>1, <1>3, SizeIs DEF Near, IsDepth, Depths
<1>5. \E f : LatestOf(f, c, Page)
  BY <1>2, <1>3, <1>4
<1> QED
  BY <1>5 DEF LatestOf, Pages!Latest

\* f has the nodes that are made with each node in S.
NeededOf(f, c, S) ==
  f = [m \in S |-> IF c[<<m, 0>>] # NIL \/ Proto[m] = NIL THEN {m} ELSE {m} \cup f[Proto[m]]]

LEMMA NeededGrows ==
  ASSUME NEW c, NEW depth, IsDepth(depth), NEW k \in Nat, NEW f, NeededOf(f, c, Near(depth, k))
  PROVE  \E h : NeededOf(h, c, Near(depth, k + 1))
<1> DEFINE N == Near(depth, k)
           M == Near(depth, k + 1)
           h == [m \in M |-> IF c[<<m, 0>>] # NIL \/ Proto[m] = NIL THEN {m} ELSE {m} \cup f[Proto[m]]]
<1>1. N \subseteq M /\ M \subseteq Page
  <2>1. \A m \in Page : depth[m] \in Int
    BY DEF IsDepth, Depths
  <2> QED
    BY <2>1 DEF Near
<1>2. \A m \in N : h[m] = f[m]
  BY <1>1 DEF NeededOf
<1>3. ASSUME NEW m \in M, Proto[m] # NIL PROVE Proto[m] \in N
  <2>1. m \in Page /\ Proto[m] \in Page /\ depth[m] \in Int /\ depth[Proto[m]] \in Int /\ depth[Proto[m]] < depth[m]
    BY <1>1, <1>3, PagesAre DEF IsDepth, Depths
  <2> QED
    BY <1>3, <2>1 DEF Near
<1>4. \A m \in M : Proto[m] # NIL => h[Proto[m]] = f[Proto[m]]
  BY <1>2, <1>3
<1>5. h = [m \in M |-> IF c[<<m, 0>>] # NIL \/ Proto[m] = NIL THEN {m} ELSE {m} \cup h[Proto[m]]]
  BY <1>4
<1> QED
  BY <1>5 DEF NeededOf

LEMMA NeededExists ==
  ASSUME NEW c
  PROVE  \E f : NeededOf(f, c, Page)
                /\ \A n : Pages!Needed(c, n) = IF Proto[n] = NIL THEN {} ELSE f[Proto[n]]
<1>1. PICK depth : IsDepth(depth)
  BY DepthExists
<1> DEFINE T == {k \in Nat : ~\E f : NeededOf(f, c, Near(depth, k))}
<1>2. T = {}
  <2>1. SUFFICES ASSUME NEW x \in T, \A y \in T : ~(y < x) PROVE FALSE
    BY LeastNumber
  <2>2. CASE x = 0
    <3>1. Near(depth, 0) = {}
      BY <1>1 DEF Near, IsDepth, Depths
    <3>2. NeededOf([m \in {} |-> m], c, {})
      BY DEF NeededOf
    <3> QED
      BY <2>2, <3>1, <3>2
  <2>3. CASE x # 0
    <3>1. x - 1 \in Nat /\ x - 1 < x /\ x = (x - 1) + 1
      BY <2>3
    <3>2. PICK f : NeededOf(f, c, Near(depth, x - 1))
      BY <2>1, <3>1
    <3>3. \E h : NeededOf(h, c, Near(depth, (x - 1) + 1))
      BY <1>1, <3>1, <3>2, NeededGrows
    <3> QED
      BY <3>1, <3>3
  <2> QED
    BY <2>2, <2>3
<1>3. PICK k \in Nat : k = Pages!Cardinality(Page) + 1
  BY SizeIs
<1>4. Near(depth, k) = Page
  BY <1>1, <1>3, SizeIs DEF Near, IsDepth, Depths
<1>5. \E f : NeededOf(f, c, Page)
  BY <1>2, <1>3, <1>4
<1> QED
  BY <1>5 DEF NeededOf, Pages!Needed

\* The prototypes that are made with a node are closed under prototypes, as far as these are
\* not in the cache.
LEMMA NeededClosed ==
  ASSUME NEW c, NEW n \in Page
  PROVE  /\ Proto[n] # NIL => Proto[n] \in Pages!Needed(c, n)
         /\ \A m \in Page : m \in Pages!Needed(c, n) /\ c[<<m, 0>>] = NIL /\ Proto[m] # NIL => Proto[m] \in Pages!Needed(c, n)
<1>1. PICK depth : IsDepth(depth)
  BY DepthExists
<1>2. PICK f : NeededOf(f, c, Page) /\ Pages!Needed(c, n) = IF Proto[n] = NIL THEN {} ELSE f[Proto[n]]
  BY NeededExists
<1>3. \A a \in Page : f[a] = IF c[<<a, 0>>] # NIL \/ Proto[a] = NIL THEN {a} ELSE {a} \cup f[Proto[a]]
  BY <1>2 DEF NeededOf
<1>4. \A a \in Page : Proto[a] # NIL => Proto[a] \in Page
  BY PagesAre
<1> DEFINE Closed(a) == \A m \in Page : m \in f[a] /\ c[<<m, 0>>] = NIL /\ Proto[m] # NIL => Proto[m] \in f[a]
           T == {k \in Nat : \E a \in Page : depth[a] = k /\ ~Closed(a)}
<1>5. T = {}
  <2>1. SUFFICES ASSUME NEW x \in T, \A y \in T : ~(y < x) PROVE FALSE
    BY LeastNumber
  <2>2. PICK a \in Page : depth[a] = x /\ ~Closed(a)
    OBVIOUS
  <2>3. PICK m \in Page : m \in f[a] /\ c[<<m, 0>>] = NIL /\ Proto[m] # NIL /\ Proto[m] \notin f[a]
    BY <2>2
  <2>4. ~(c[<<a, 0>>] # NIL \/ Proto[a] = NIL) /\ m \in f[Proto[a]] /\ f[a] = {a} \cup f[Proto[a]]
    <3>1. \A b \in Page : b \in f[b]
      BY <1>3
    <3>2. CASE c[<<a, 0>>] # NIL \/ Proto[a] = NIL
      BY <1>3, <2>3, <3>2
    <3>3. CASE ~(c[<<a, 0>>] # NIL \/ Proto[a] = NIL)
      <4>1. f[a] = {a} \cup f[Proto[a]]
        BY <1>3, <3>3
      <4> QED
        BY <1>4, <2>3, <3>1, <3>3, <4>1
    <3> QED
      BY <3>2, <3>3
  <2>5. ~Closed(Proto[a])
    BY <2>3, <2>4
  <2>6. Proto[a] \in Page /\ depth[Proto[a]] < depth[a] /\ depth[Proto[a]] \in Nat
    BY <1>1, <1>4, <2>4 DEF IsDepth, Depths
  <2> HIDE DEF Closed
  <2>7. depth[Proto[a]] \in T
    BY <2>5, <2>6
  <2> QED
    BY <2>1, <2>2, <2>6, <2>7
<1>6. \A a \in Page : Closed(a)
  <2>1. \A a \in Page : depth[a] \in Nat
    BY <1>1 DEF IsDepth, Depths
  <2> HIDE DEF Closed
  <2> QED
    BY <1>5, <2>1
<1>7. CASE Proto[n] = NIL
  BY <1>2, <1>7
<1>8. CASE Proto[n] # NIL
  <2>1. Pages!Needed(c, n) = f[Proto[n]] /\ Proto[n] \in Page
    BY <1>2, <1>4, <1>8
  <2>2. Proto[n] \in f[Proto[n]]
    <3>1. PICK a \in Page : a = Proto[n]
      BY <2>1
    <3>2. a \in f[a]
      BY <1>3
    <3> QED
      BY <3>1, <3>2
  <2>3. Closed(Proto[n])
    BY <1>6, <2>1
  <2> QED
    BY <2>1, <2>2, <2>3
<1> QED
  BY <1>7, <1>8

\* A cache c agrees with what is stored, d: with a node it has its prototypes, an entry for a
\* version is that version, and the entry of a node is the last one unless it cannot be shown.
Agrees(c, d) ==
  /\ c \in [Pages!Key -> Pages!Entry \cup {NIL}]
  /\ \A n \in Page, v \in 0..MaxEdits : c[<<n, v>>] # NIL /\ Proto[n] # NIL => c[<<Proto[n], 0>>] # NIL
  /\ \A n \in Page : c[<<n, 0>>] # NIL => c[<<n, 0>>].raw = d[n][Len(d[n])] \/ Pages!Fails(c[<<n, 0>>])
  /\ \A n \in Page, v \in 1..MaxEdits : c[<<n, v>>] # NIL => v <= Len(d[n]) /\ c[<<n, v>>].raw = d[n][v]

IsDisk(d) ==
  /\ d \in [Page -> Seq(Pages!Values)]
  /\ \A n \in Page : Len(d[n]) \in 1..MaxEdits

LEMMA StoredIs ==
  ASSUME IsDisk(disk), NEW n \in Page, NEW v \in 0..Len(disk[n])
  PROVE  /\ Pages!Stored(n, v) \in Pages!Values
         /\ v = 0 => Pages!Stored(n, v) = disk[n][Len(disk[n])]
         /\ v # 0 => Pages!Stored(n, v) = disk[n][v]
<1>1. PICK s : s = disk[n]
  OBVIOUS
<1>2. s \in Seq(Pages!Values) /\ Len(s) \in 1..MaxEdits /\ MaxEdits \in Nat
  BY <1>1, PagesAre DEF IsDisk
<1>3. \A i \in 1..Len(s) : s[i] \in Pages!Values
  BY <1>2, ElementOfSeq
<1>4. Pages!Last(s) = s[Len(s)]
  BY DEF Pages!Last
<1>5. Len(s) \in 1..Len(s)
  BY <1>2
<1> QED
  BY <1>1, <1>2, <1>3, <1>4, <1>5 DEF Pages!Stored

LEMMA MadeIs ==
  ASSUME NEW n \in Page, NEW raw \in Pages!Values, NEW protos,
         Proto[n] # NIL => protos[Proto[n]] \in Pages!Entry
  PROVE  Pages!Made(n, raw, protos) \in Pages!Entry /\ Pages!Made(n, raw, protos).raw = raw
<1>1. CASE Proto[n] = NIL
  BY <1>1 DEF Pages!Made, Pages!Entry
<1>2. CASE Proto[n] # NIL
  <2>1. PICK above : above = protos[Proto[n]].inherited
    OBVIOUS
  <2>2. above \in Pages!Values
    BY <1>2, <2>1 DEF Pages!Entry
  <2>3. Pages!Inherit(raw, above) \in Pages!Values
    BY <2>2 DEF Pages!Inherit, Pages!Values
  <2>4. Pages!Made(n, raw, protos) = [raw |-> raw, inherited |-> Pages!Inherit(raw, above)]
    BY <1>2, <2>1 DEF Pages!Made
  <2> QED
    BY <2>3, <2>4 DEF Pages!Entry
<1> QED
  BY <1>1, <1>2

LEMMA KeysAre ==
  /\ \A n \in Page, v \in 0..MaxEdits : <<n, v>> \in Pages!Key
  /\ \A n \in Page : <<n, 0>> \in Pages!Key
  /\ \A k \in Pages!Key : \E n \in Page, v \in 0..MaxEdits : k = <<n, v>>
BY PagesAre DEF Pages!Key

\* What get_node makes of the nodes: those in the cache, and the others as they are stored.
LEMMA LatestSound ==
  ASSUME IsDisk(disk), NEW c \in [Pages!Key -> Pages!Entry \cup {NIL}], NEW n \in Page
  PROVE  /\ Pages!Latest(c)[n] \in Pages!Entry
         /\ c[<<n, 0>>] # NIL => Pages!Latest(c)[n] = c[<<n, 0>>]
         /\ c[<<n, 0>>] = NIL => Pages!Latest(c)[n].raw = disk[n][Len(disk[n])]
<1>1. PICK depth : IsDepth(depth)
  BY DepthExists
<1>2. PICK f : f = Pages!Latest(c)
  OBVIOUS
<1>3. \A m \in Page : f[m] = IF c[<<m, 0>>] # NIL THEN c[<<m, 0>>] ELSE Pages!Made(m, Pages!Stored(m, 0), f)
  BY <1>2, LatestIs DEF LatestOf
<1>4. ASSUME NEW m \in Page
      PROVE  Pages!Stored(m, 0) \in Pages!Values /\ Pages!Stored(m, 0) = disk[m][Len(disk[m])]
  <2>1. 0 \in 0..Len(disk[m])
    BY PagesAre DEF IsDisk
  <2> QED
    BY <2>1, StoredIs
<1> DEFINE T == {k \in Nat : \E m \in Page : depth[m] = k /\ f[m] \notin Pages!Entry}
<1>5. T = {}
  <2>1. SUFFICES ASSUME NEW x \in T, \A y \in T : ~(y < x) PROVE FALSE
    BY LeastNumber
  <2>2. PICK m \in Page : depth[m] = x /\ f[m] \notin Pages!Entry
    OBVIOUS
  <2>3. CASE c[<<m, 0>>] # NIL
    BY <1>3, <2>2, <2>3, KeysAre
  <2>4. CASE c[<<m, 0>>] = NIL
    <3>1. f[m] = Pages!Made(m, Pages!Stored(m, 0), f)
      BY <1>3, <2>4
    <3>2. ASSUME Proto[m] # NIL PROVE f[Proto[m]] \in Pages!Entry
      <4>1. Proto[m] \in Page /\ depth[Proto[m]] < depth[m] /\ depth[Proto[m]] \in Nat
        BY <1>1, <3>2, PagesAre DEF IsDepth, Depths
      <4>2. depth[Proto[m]] \notin T
        BY <2>1, <2>2, <4>1
      <4> QED
        BY <4>1, <4>2
    <3>3. Pages!Made(m, Pages!Stored(m, 0), f) \in Pages!Entry
      BY <1>4, <3>2, MadeIs
    <3> QED
      BY <2>2, <3>1, <3>3
  <2> QED
    BY <2>3, <2>4
<1>6. \A m \in Page : f[m] \in Pages!Entry
  <2>1. \A m \in Page : depth[m] \in Nat
    BY <1>1 DEF IsDepth, Depths
  <2> QED
    BY <1>5, <2>1
<1>7. ASSUME c[<<n, 0>>] = NIL PROVE f[n].raw = disk[n][Len(disk[n])]
  <2>1. f[n] = Pages!Made(n, Pages!Stored(n, 0), f)
    BY <1>3, <1>7
  <2>2. Proto[n] # NIL => f[Proto[n]] \in Pages!Entry
    BY <1>6, PagesAre
  <2> QED
    BY <1>4, <2>1, <2>2, MadeIs
<1> QED
  BY <1>2, <1>3, <1>6, <1>7

\* The cache after get_node agrees with what is stored if the one before did, and has the node.
LEMMA LoadedAgrees ==
  ASSUME IsDisk(disk), NEW c, Agrees(c, disk), NEW n \in Page, NEW v \in 0..Len(disk[n])
  PROVE  Agrees(Pages!Loaded(c, n, v), disk) /\ Pages!Loaded(c, n, v)[<<n, v>>] \in Pages!Entry
<1>1. CASE c[<<n, v>>] # NIL
  <2>1. <<n, v>> \in Pages!Key
    BY PagesAre DEF IsDisk, Pages!Key
  <2>2. Pages!Loaded(c, n, v) = c
    BY <1>1 DEF Pages!Loaded
  <2> QED
    BY <1>1, <2>1, <2>2 DEF Agrees
<1>2. CASE c[<<n, v>>] = NIL
  <2>1. PICK L : L = Pages!Loaded(c, n, v)
    OBVIOUS
  <2>2. PICK latest : latest = Pages!Latest(c)
    OBVIOUS
  <2>3. PICK needed : needed = Pages!Needed(c, n)
    OBVIOUS
  <2>4. PICK made : made = Pages!Made(n, Pages!Stored(n, v), latest)
    OBVIOUS
  <2>5. L = [k \in Pages!Key |-> IF k = <<n, v>> THEN made
                                 ELSE IF k[2] = 0 /\ k[1] \in needed THEN latest[k[1]] ELSE c[k]]
    BY <1>2, <2>1, <2>2, <2>3, <2>4 DEF Pages!Loaded
  <2>6. c \in [Pages!Key -> Pages!Entry \cup {NIL}]
    BY DEF Agrees
  <2>7. \A m \in Page : /\ latest[m] \in Pages!Entry
                        /\ c[<<m, 0>>] # NIL => latest[m] = c[<<m, 0>>]
                        /\ c[<<m, 0>>] = NIL => latest[m].raw = disk[m][Len(disk[m])]
    BY <2>2, <2>6, LatestSound
  <2>8. /\ Proto[n] # NIL => Proto[n] \in needed
        /\ \A m \in Page : m \in needed /\ c[<<m, 0>>] = NIL /\ Proto[m] # NIL => Proto[m] \in needed
    BY <2>3, NeededClosed
  <2>9. made \in Pages!Entry /\ made.raw = Pages!Stored(n, v)
    <3>1. Pages!Stored(n, v) \in Pages!Values
      BY StoredIs
    <3>2. Proto[n] # NIL => latest[Proto[n]] \in Pages!Entry
      BY <2>7, PagesAre
    <3> QED
      BY <2>4, <3>1, <3>2, MadeIs
  <2>10. v \in 0..MaxEdits /\ v <= Len(disk[n]) /\ <<n, v>> \in Pages!Key /\ L[<<n, v>>] = made
    <3>1. v \in 0..MaxEdits /\ v <= Len(disk[n])
      BY PagesAre DEF IsDisk
    <3> QED
      BY <2>5, <3>1, KeysAre
  <2>11. \A m \in Page, w \in 0..MaxEdits :
           /\ <<m, w>> # <<n, v>> /\ w = 0 /\ m \in needed => L[<<m, w>>] = latest[m]
           /\ <<m, w>> # <<n, v>> /\ ~(w = 0 /\ m \in needed) => L[<<m, w>>] = c[<<m, w>>]
    BY <2>5, KeysAre
  <2>12. L \in [Pages!Key -> Pages!Entry \cup {NIL}]
    <3>1. \A k \in Pages!Key : k[2] = 0 /\ k[1] \in needed => latest[k[1]] \in Pages!Entry
      BY <2>7 DEF Pages!Key
    <3> QED
      BY <2>5, <2>6, <2>9, <3>1
  <2>13. \A m \in Page, w \in 0..MaxEdits : c[<<m, w>>] # NIL => L[<<m, w>>] # NIL
    BY <2>7, <2>9, <2>10, <2>11, PagesAre
  <2>14. 0 \in 0..MaxEdits
    BY PagesAre
  <2>15. \A m \in needed \cap Page : L[<<m, 0>>] # NIL
    BY <2>7, <2>9, <2>10, <2>11, <2>14, PagesAre
  <2>16. ASSUME NEW m \in Page, NEW w \in 0..MaxEdits, L[<<m, w>>] # NIL, Proto[m] # NIL
         PROVE  L[<<Proto[m], 0>>] # NIL
    <3>1. Proto[m] \in Page
      BY <2>16, PagesAre
    <3>2. c[<<m, w>>] # NIL => L[<<Proto[m], 0>>] # NIL
      BY <2>13, <2>14, <2>16, <3>1 DEF Agrees
    <3>3. CASE <<m, w>> = <<n, v>>
      BY <2>8, <2>15, <2>16, <3>1, <3>3
    <3>4. CASE <<m, w>> # <<n, v>> /\ w = 0 /\ m \in needed
      BY <2>8, <2>15, <2>16, <3>1, <3>2, <3>4
    <3>5. CASE <<m, w>> # <<n, v>> /\ ~(w = 0 /\ m \in needed)
      BY <2>11, <2>16, <3>2, <3>5
    <3> QED
      BY <3>3, <3>4, <3>5
  <2>17. ASSUME NEW m \in Page, L[<<m, 0>>] # NIL
         PROVE  L[<<m, 0>>].raw = disk[m][Len(disk[m])] \/ Pages!Fails(L[<<m, 0>>])
    <3>1. c[<<m, 0>>] # NIL => c[<<m, 0>>].raw = disk[m][Len(disk[m])] \/ Pages!Fails(c[<<m, 0>>])
      BY DEF Agrees
    <3>2. CASE <<m, 0>> = <<n, v>>
      BY <2>9, <2>10, <3>2, StoredIs
    <3>3. CASE <<m, 0>> # <<n, v>> /\ m \in needed
      BY <2>7, <2>11, <2>14, <3>1, <3>3
    <3>4. CASE <<m, 0>> # <<n, v>> /\ m \notin needed
      BY <2>11, <2>14, <2>17, <3>1, <3>4
    <3> QED
      BY <3>2, <3>3, <3>4
  <2>18. ASSUME NEW m \in Page, NEW w \in 1..MaxEdits, L[<<m, w>>] # NIL
         PROVE  w <= Len(disk[m]) /\ L[<<m, w>>].raw = disk[m][w]
    <3>1. w \in 0..MaxEdits /\ w # 0
      OBVIOUS
    <3>2. CASE <<m, w>> = <<n, v>>
      BY <2>9, <2>10, <3>1, <3>2, StoredIs
    <3>3. CASE <<m, w>> # <<n, v>>
      BY <2>11, <2>18, <3>1, <3>3 DEF Agrees
    <3> QED
      BY <3>2, <3>3
  <2>19. Agrees(L, disk)
    BY <2>12, <2>16, <2>17, <2>18 DEF Agrees
  <2> QED
    BY <2>1, <2>9, <2>10, <2>19
<1> QED
  BY <1>1, <1>2

LEMMA EmptyAgrees == ASSUME NEW d PROVE Agrees(Pages!Empty, d)
<1>1. \A k \in Pages!Key : Pages!Empty[k] = NIL
  BY DEF Pages!Empty
<1>2. Pages!Empty \in [Pages!Key -> Pages!Entry \cup {NIL}]
  BY DEF Pages!Empty
<1>3. \A n \in Page, v \in 0..MaxEdits : Pages!Empty[<<n, v>>] = NIL
  BY <1>1, KeysAre
<1>4. \A n \in Page, v \in 1..MaxEdits : v \in 0..MaxEdits
  BY PagesAre
<1>5. 0 \in 0..MaxEdits
  BY PagesAre
<1> HIDE DEF Pages!Empty
<1> QED
  BY <1>2, <1>3, <1>4, <1>5 DEF Agrees

LEMMA UpdatedIs ==
  ASSUME NEW d, NEW c, Agrees(c, d), NEW n \in Page, c[<<n, 0>>] \in Pages!Entry, NEW f \in Field, NEW x \in Raw
  PROVE  LET u == Pages!Updated(c, n, f, x)
         IN  /\ u \in [Pages!Key -> Pages!Entry \cup {NIL}]
             /\ u[<<n, 0>>] \in Pages!Entry
             /\ u[<<n, 0>>].raw = Pages!Set(c[<<n, 0>>].raw, f, x)
             /\ Pages!Set(c[<<n, 0>>].raw, f, x) \in Pages!Values
             /\ \A k \in Pages!Key : k # <<n, 0>> => u[k] = c[k]
<1>1. PICK e : e = c[<<n, 0>>]
  OBVIOUS
<1>2. e \in Pages!Entry /\ e # NIL /\ <<n, 0>> \in Pages!Key /\ c \in [Pages!Key -> Pages!Entry \cup {NIL}]
  BY <1>1, KeysAre, PagesAre DEF Agrees
<1>3. PICK raw : raw = Pages!Set(e.raw, f, x)
  OBVIOUS
<1>4. raw \in Pages!Values
  BY <1>2, <1>3 DEF Pages!Set, Pages!Entry, Pages!Values
<1>5. PICK protos : protos = [m \in Page |-> c[<<m, 0>>]]
  OBVIOUS
<1>6. Proto[n] # NIL => protos[Proto[n]] \in Pages!Entry
  <2>1. SUFFICES ASSUME Proto[n] # NIL PROVE protos[Proto[n]] \in Pages!Entry
    OBVIOUS
  <2>2. Proto[n] \in Page /\ 0 \in 0..MaxEdits
    BY <2>1, PagesAre
  <2>3. c[<<Proto[n], 0>>] # NIL
    BY <1>1, <1>2, <2>1, <2>2 DEF Agrees
  <2>4. <<Proto[n], 0>> \in Pages!Key
    BY <2>2, KeysAre
  <2> QED
    BY <1>2, <1>5, <2>2, <2>3, <2>4
<1>7. PICK made : made = Pages!Made(n, raw, protos)
  OBVIOUS
<1>8. made \in Pages!Entry /\ made.raw = raw
  BY <1>4, <1>6, <1>7, MadeIs
<1>9. Pages!Updated(c, n, f, x) = [c EXCEPT ![<<n, 0>>] = made]
  BY <1>1, <1>2, <1>3, <1>5, <1>7 DEF Pages!Updated
<1> QED
  BY <1>1, <1>2, <1>3, <1>4, <1>8, <1>9

\* What is stored when the entry of n in u has been made: nothing new, or the entry.
Becomes(b, d, n, u) ==
  \/ b = d /\ Pages!Fails(u[<<n, 0>>])
  \/ /\ Len(d[n]) < MaxEdits /\ u[<<n, 0>>].raw \in Pages!Values
     /\ b = [d EXCEPT ![n] = Append(d[n], u[<<n, 0>>].raw)]

\* Setting the entry of a node keeps the agreement if the entry cannot be shown, or if it is stored.
LEMMA UpdateAgrees ==
  ASSUME NEW d, IsDisk(d), NEW c, Agrees(c, d), NEW n \in Page, c[<<n, 0>>] \in Pages!Entry,
         NEW u \in [Pages!Key -> Pages!Entry \cup {NIL}], u[<<n, 0>>] \in Pages!Entry,
         \A k \in Pages!Key : k # <<n, 0>> => u[k] = c[k],
         NEW b, Becomes(b, d, n, u)
  PROVE  Agrees(u, b) /\ IsDisk(b)
<1> USE DEF Becomes
<1>1. 0 \in 0..MaxEdits /\ c[<<n, 0>>] # NIL /\ u[<<n, 0>>] # NIL /\ MaxEdits \in Nat
  BY PagesAre
<1>2. \A m \in Page, v \in 0..MaxEdits : <<m, v>> # <<n, 0>> => u[<<m, v>>] = c[<<m, v>>]
  BY KeysAre
<1>3. ASSUME NEW m \in Page
      PROVE  /\ m # n => b[m] = d[m]
             /\ b[m] \in Seq(Pages!Values) /\ Len(b[m]) \in 1..MaxEdits /\ Len(d[m]) <= Len(b[m])
             /\ \A v \in 1..Len(d[m]) : b[m][v] = d[m][v]
  <2>1. d[m] \in Seq(Pages!Values) /\ Len(d[m]) \in 1..MaxEdits /\ d \in [Page -> Seq(Pages!Values)]
    BY DEF IsDisk
  <2>2. CASE b = d
    BY <1>1, <2>1, <2>2
  <2>3. CASE b # d
    <3>1. PICK s : s = d[n]
      OBVIOUS
    <3>2. PICK y : y = u[<<n, 0>>].raw
      OBVIOUS
    <3>3. s \in Seq(Pages!Values) /\ y \in Pages!Values /\ Len(s) < MaxEdits /\ Len(s) \in Nat
      BY <2>1, <2>3, <3>1, <3>2, LenProperties DEF IsDisk
    <3>4. PICK w : w = Append(s, y)
      OBVIOUS
    <3>5. w \in Seq(Pages!Values) /\ Len(w) = Len(s) + 1 /\ \A v \in 1..Len(s) : w[v] = s[v]
      BY <3>3, <3>4, AppendProperties
    <3>6. b = [d EXCEPT ![n] = w]
      BY <2>3, <3>1, <3>2, <3>4
    <3>7. CASE m = n
      BY <1>1, <2>1, <3>1, <3>3, <3>5, <3>6, <3>7
    <3>8. CASE m # n
      BY <1>1, <2>1, <3>6, <3>8
    <3> QED
      BY <3>7, <3>8
  <2> QED
    BY <2>2, <2>3
<1>4. IsDisk(b)
  <2>1. b \in [Page -> Seq(Pages!Values)]
    <3>1. DOMAIN b = Page /\ b = [m \in Page |-> b[m]]
      BY DEF IsDisk
    <3> QED
      BY <1>3, <3>1
  <2> QED
    BY <1>3, <2>1 DEF IsDisk
<1>5. ASSUME NEW m \in Page, NEW v \in 0..MaxEdits, u[<<m, v>>] # NIL, Proto[m] # NIL PROVE u[<<Proto[m], 0>>] # NIL
  <2>1. Proto[m] \in Page
    BY <1>5, PagesAre
  <2>2. c[<<m, v>>] # NIL
    BY <1>1, <1>2, <1>5
  <2>3. c[<<Proto[m], 0>>] # NIL
    BY <1>5, <2>2 DEF Agrees
  <2> QED
    BY <1>1, <1>2, <2>1, <2>3
<1>6. ASSUME NEW m \in Page, u[<<m, 0>>] # NIL PROVE u[<<m, 0>>].raw = b[m][Len(b[m])] \/ Pages!Fails(u[<<m, 0>>])
  <2>1. CASE m # n
    <3>1. u[<<m, 0>>] = c[<<m, 0>>]
      BY <1>1, <1>2, <2>1
    <3>2. b[m] = d[m]
      BY <1>3, <2>1
    <3> QED
      BY <1>6, <3>1, <3>2 DEF Agrees
  <2>2. CASE m = n /\ ~Pages!Fails(u[<<n, 0>>])
    <3>1. PICK s : s = d[n]
      OBVIOUS
    <3>2. PICK y : y = u[<<n, 0>>].raw
      OBVIOUS
    <3>3. s \in Seq(Pages!Values) /\ y \in Pages!Values
      BY <2>2, <3>1, <3>2 DEF IsDisk
    <3>4. Append(s, y)[Len(Append(s, y))] = y
      <4>1. Len(Append(s, y)) = Len(s) + 1 /\ Append(s, y)[Len(s) + 1] = y
        BY <3>3, AppendProperties
      <4> QED
        BY <4>1
    <3>5. b[n] = Append(s, y)
      BY <2>2, <3>1, <3>2 DEF IsDisk
    <3> QED
      BY <2>2, <3>2, <3>4, <3>5
  <2> QED
    BY <2>1, <2>2
<1>7. ASSUME NEW m \in Page, NEW v \in 1..MaxEdits, u[<<m, v>>] # NIL
      PROVE  v <= Len(b[m]) /\ u[<<m, v>>].raw = b[m][v]
  <2>1. v \in 0..MaxEdits /\ v # 0
    BY <1>1
  <2>2. u[<<m, v>>] = c[<<m, v>>]
    BY <1>2, <2>1
  <2>3. v <= Len(d[m]) /\ c[<<m, v>>].raw = d[m][v] /\ Len(d[m]) \in Nat /\ Len(b[m]) \in Nat
    BY <1>1, <1>3, <1>7, <2>2 DEF Agrees, IsDisk
  <2>4. v \in 1..Len(d[m])
    BY <2>3
  <2>5. b[m][v] = d[m][v]
    BY <1>3, <2>4
  <2>6. v <= Len(b[m])
    BY <1>3, <2>3
  <2> QED
    BY <2>2, <2>3, <2>5, <2>6
<1> QED
  BY <1>4, <1>5, <1>6, <1>7 DEF Agrees

Caches == [Instance -> [Pages!Key -> Pages!Entry \cup {NIL}]]

PagesInv ==
  /\ IsDisk(disk)
  /\ cache \in Caches
  /\ \A r \in Instance : Agrees(cache[r], disk)
  /\ Pages!ShownIsStored

\* There is one application state, as where Xavante runs one rings at a time.
OneInstance == \A r, s \in Instance : r = s

LEMMA KeepAgrees ==
  ASSUME OneInstance, cache \in Caches, NEW r \in Instance, NEW c, NEW d, Agrees(c, d), Pages!Keep(r, c)
  PROVE  cache' \in Caches /\ \A s \in Instance : Agrees(cache'[s], d)
<1>1. c \in [Pages!Key -> Pages!Entry \cup {NIL}]
  BY DEF Agrees
<1>2. cache' = [cache EXCEPT ![r] = c]
  BY DEF Pages!Keep
<1>3. cache' \in Caches
  BY <1>1, <1>2 DEF Caches
<1>4. cache'[r] = c
  BY <1>2 DEF Caches
<1> QED
  BY <1>3, <1>4 DEF OneInstance

LEMMA DiskNow == ASSUME IsDisk(disk), disk' = disk PROVE IsDisk(disk)'
BY DEF IsDisk

LEMMA PagesStart == MCInit /\ part = "pages" => PagesInv
<1> SUFFICES ASSUME MCInit, part = "pages" PROVE PagesInv
  OBVIOUS
<1>1. Pages!Init
  BY DEF MCInit
<1>2. PICK good \in Raw \ Wrong : disk = [n \in Page |-> << [f \in Field |-> IF Proto[n] = NIL THEN good ELSE NIL] >>]
  BY <1>1 DEF Pages!Init
<1>3. ASSUME NEW n \in Page PROVE disk[n] \in Seq(Pages!Values) /\ Len(disk[n]) = 1
  <2>1. PICK x : x = [f \in Field |-> IF Proto[n] = NIL THEN good ELSE NIL]
    OBVIOUS
  <2>2. x \in Pages!Values
    BY <2>1 DEF Pages!Values
  <2>3. disk[n] = <<x>>
    BY <1>2, <2>1
  <2> QED
    BY <2>2, <2>3
<1>4. IsDisk(disk)
  <2>1. DOMAIN disk = Page /\ disk = [n \in Page |-> disk[n]]
    BY <1>2
  <2>2. disk \in [Page -> Seq(Pages!Values)]
    BY <1>3, <2>1
  <2>3. 1 \in 1..MaxEdits
    BY PagesAre
  <2>4. \A n \in Page : Len(disk[n]) \in 1..MaxEdits
    BY <1>3, <2>3
  <2> QED
    BY <2>2, <2>4 DEF IsDisk
<1>5. cache = [r \in Instance |-> Pages!Empty] /\ page = NIL
  BY <1>1 DEF Pages!Init
<1>6. cache \in Caches /\ \A r \in Instance : Agrees(cache[r], disk)
  <2>1. Agrees(Pages!Empty, disk)
    BY EmptyAgrees
  <2>2. PICK none : none = Pages!Empty
    OBVIOUS
  <2>3. none \in [Pages!Key -> Pages!Entry \cup {NIL}]
    BY <2>1, <2>2 DEF Agrees
  <2>4. cache = [r \in Instance |-> none]
    BY <1>5, <2>2
  <2> QED
    BY <2>1, <2>2, <2>3, <2>4 DEF Caches
<1> QED
  BY <1>4, <1>5, <1>6 DEF PagesInv, Pages!ShownIsStored

\* What follows of the caches, for a step that keeps c in the cache of r.
Follows == IsDisk(disk)' /\ cache' \in Caches /\ \A r \in Instance : Agrees(cache'[r], disk')

LEMMA KeepFollows ==
  ASSUME OneInstance, PagesInv, NEW r \in Instance, NEW c, Agrees(c, disk), Pages!Keep(r, c), disk' = disk
  PROVE  Follows
<1>1. PICK d : d = disk
  OBVIOUS
<1>2. cache' \in Caches /\ \A s \in Instance : Agrees(cache'[s], d)
  BY <1>1, KeepAgrees DEF PagesInv
<1> QED
  BY <1>1, <1>2, DiskNow DEF Follows, PagesInv

LEMMA LoadsFollow ==
  ASSUME PagesInv, NEW r \in Instance, NEW n \in Page
  PROVE  LET c == Pages!Loaded(cache[r], n, 0)
         IN  Agrees(c, disk) /\ c[<<n, 0>>] \in Pages!Entry
<1>1. 0 \in 0..Len(disk[n])
  BY PagesAre DEF PagesInv, IsDisk
<1> QED
  BY <1>1, LoadedAgrees DEF PagesInv

LEMMA ShowStep ==
  ASSUME OneInstance, PagesInv, NEW r \in Instance, NEW n \in Page, NEW v \in 0..MaxEdits, Pages!Show(r, n, v)
  PROVE  Follows /\ Pages!ShownIsStored'
<1>1. PICK c : c = Pages!Loaded(cache[r], n, v)
  OBVIOUS
<1>2. PICK e : e = c[<<n, v>>]
  OBVIOUS
<1>3. v \in 0..Len(disk[n]) /\ disk' = disk
  BY DEF Pages!Show
<1>4. Agrees(c, disk) /\ e \in Pages!Entry
  BY <1>1, <1>2, <1>3, LoadedAgrees DEF PagesInv
<1>5. \/ Pages!Fails(e) /\ page' = [node |-> n, version |-> v, raw |-> NIL] /\ Pages!Keep(r, c)
      \/ ~Pages!Fails(e) /\ page' = [node |-> n, version |-> v, raw |-> e.raw] /\ Pages!Reset(r, c)
  BY <1>1, <1>2 DEF Pages!Show
<1>6. CASE Pages!Fails(e) /\ page' = [node |-> n, version |-> v, raw |-> NIL] /\ Pages!Keep(r, c)
  <2>1. Pages!ShownIsStored'
    BY <1>6 DEF Pages!ShownIsStored
  <2> QED
    BY <1>3, <1>4, <1>6, <2>1, KeepFollows
<1>7. CASE ~Pages!Fails(e) /\ page' = [node |-> n, version |-> v, raw |-> e.raw] /\ Pages!Reset(r, c)
  <2>1. e.raw = Pages!Stored(n, v)
    <3>1. CASE v = 0
      <4>1. e.raw = disk[n][Len(disk[n])]
        BY <1>2, <1>4, <1>7, <3>1, PagesAre DEF Agrees
      <4> QED
        BY <1>3, <3>1, <4>1, StoredIs DEF PagesInv
    <3>2. CASE v # 0
      <4>1. v \in 1..MaxEdits
        BY <3>2, PagesAre
      <4>2. e.raw = disk[n][v]
        BY <1>2, <1>4, <4>1, PagesAre DEF Agrees
      <4> QED
        BY <1>3, <3>2, <4>2, StoredIs DEF PagesInv
    <3> QED
      BY <3>1, <3>2
  <2>2. Pages!Stored(n, v)' = Pages!Stored(n, v)
    BY <1>3 DEF Pages!Stored
  <2>3. page'.node = n /\ page'.version = v /\ page'.raw = e.raw
    BY <1>7
  <2>4. Pages!ShownIsStored'
    BY <1>3, <2>1, <2>3 DEF Pages!ShownIsStored, Pages!Stored
  <2>5. Pages!Keep(r, Pages!Empty)
    BY <1>7 DEF Pages!Reset
  <2>6. Agrees(Pages!Empty, disk)
    BY EmptyAgrees
  <2> QED
    BY <1>3, <2>4, <2>5, <2>6, KeepFollows
<1> QED
  BY <1>5, <1>6, <1>7

LEMMA UpdatesFollow ==
  ASSUME OneInstance, PagesInv, NEW r \in Instance, NEW n \in Page, NEW f \in Field, NEW x \in Raw, NEW c, NEW u,
         c = Pages!Loaded(cache[r], n, 0), u = Pages!Updated(c, n, f, x)
  PROVE  /\ Agrees(c, disk)
         /\ Pages!Fails(u[<<n, 0>>]) => Agrees(u, disk)
         /\ ~Pages!Fails(c[<<n, 0>>]) => c[<<n, 0>>].raw = disk[n][Len(disk[n])]
         /\ \A b : /\ Len(disk[n]) < MaxEdits
                   /\ b = [disk EXCEPT ![n] = Append(@, Pages!Set(c[<<n, 0>>].raw, f, x))]
                   => Agrees(u, b) /\ IsDisk(b)
<1>1. Agrees(c, disk) /\ c[<<n, 0>>] \in Pages!Entry /\ IsDisk(disk)
  BY LoadsFollow DEF PagesInv
<1>2. /\ u \in [Pages!Key -> Pages!Entry \cup {NIL}]
      /\ u[<<n, 0>>] \in Pages!Entry
      /\ u[<<n, 0>>].raw = Pages!Set(c[<<n, 0>>].raw, f, x)
      /\ u[<<n, 0>>].raw \in Pages!Values
      /\ \A k \in Pages!Key : k # <<n, 0>> => u[k] = c[k]
  <2>1. PICK d : d = disk
    OBVIOUS
  <2>2. Agrees(c, d)
    BY <1>1, <2>1
  <2> QED
    BY <1>1, <2>2, UpdatedIs
<1>3. ASSUME Pages!Fails(u[<<n, 0>>]) PROVE Agrees(u, disk)
  <2>1. PICK d : d = disk
    OBVIOUS
  <2>2. Becomes(d, d, n, u)
    BY <1>3 DEF Becomes
  <2>3. IsDisk(d) /\ Agrees(c, d)
    BY <1>1, <2>1
  <2>4. Agrees(u, d)
    BY <1>1, <1>2, <2>2, <2>3, UpdateAgrees
  <2> QED
    BY <2>1, <2>4
<1>4. ASSUME ~Pages!Fails(c[<<n, 0>>]) PROVE c[<<n, 0>>].raw = disk[n][Len(disk[n])]
  BY <1>1, <1>4, PagesAre DEF Agrees
<1>5. ASSUME NEW b, Len(disk[n]) < MaxEdits, b = [disk EXCEPT ![n] = Append(@, Pages!Set(c[<<n, 0>>].raw, f, x))]
      PROVE  Agrees(u, b) /\ IsDisk(b)
  <2>1. b = [disk EXCEPT ![n] = Append(disk[n], u[<<n, 0>>].raw)]
    BY <1>1, <1>2, <1>5 DEF IsDisk
  <2>2. PICK d : d = disk
    OBVIOUS
  <2>3. Becomes(b, d, n, u)
    BY <1>2, <1>5, <2>1, <2>2 DEF Becomes
  <2>4. IsDisk(d) /\ Agrees(c, d)
    BY <1>1, <2>2
  <2> QED
    BY <1>1, <1>2, <2>3, <2>4, UpdateAgrees
<1>6. \A b : /\ Len(disk[n]) < MaxEdits
            /\ b = [disk EXCEPT ![n] = Append(@, Pages!Set(c[<<n, 0>>].raw, f, x))]
            => Agrees(u, b) /\ IsDisk(b)
  BY <1>5
<1>7. Agrees(c, disk)
  BY <1>1
<1> QED
  BY <1>3, <1>4, <1>6, <1>7

LEMMA SaveStep ==
  ASSUME OneInstance, PagesInv, NEW r \in Instance, NEW n \in Page, NEW f \in Field, NEW x \in Raw, Pages!Save(r, n, f, x)
  PROVE  Follows /\ page' = NIL
<1>1. PICK c : c = Pages!Loaded(cache[r], n, 0)
  OBVIOUS
<1>2. PICK u : u = Pages!Updated(c, n, f, x)
  OBVIOUS
<1>3. /\ Agrees(c, disk)
      /\ Pages!Fails(u[<<n, 0>>]) => Agrees(u, disk)
      /\ \A b : /\ Len(disk[n]) < MaxEdits
                /\ b = [disk EXCEPT ![n] = Append(@, Pages!Set(c[<<n, 0>>].raw, f, x))]
                => Agrees(u, b) /\ IsDisk(b)
  BY <1>1, <1>2, UpdatesFollow
<1>4. /\ Len(disk[n]) < MaxEdits /\ page' = NIL
      /\ \/ Pages!Keep(r, c) /\ disk' = disk
         \/ Pages!Fails(u[<<n, 0>>]) /\ Pages!Keep(r, u) /\ disk' = disk
         \/ /\ Pages!Keep(r, u)
            /\ disk' = [disk EXCEPT ![n] = Append(@, Pages!Set(c[<<n, 0>>].raw, f, x))]
  BY <1>1, <1>2 DEF Pages!Save
<1>5. CASE Pages!Keep(r, c) /\ disk' = disk
  BY <1>3, <1>4, <1>5, KeepFollows
<1>6. CASE Pages!Fails(u[<<n, 0>>]) /\ Pages!Keep(r, u) /\ disk' = disk
  BY <1>3, <1>4, <1>6, KeepFollows
<1>7. CASE /\ Pages!Keep(r, u)
           /\ disk' = [disk EXCEPT ![n] = Append(@, Pages!Set(c[<<n, 0>>].raw, f, x))]
  <2>1. PICK b : b = disk'
    OBVIOUS
  <2>2. Agrees(u, b) /\ IsDisk(b)
    BY <1>3, <1>4, <1>7, <2>1
  <2>3. cache' \in Caches /\ \A s \in Instance : Agrees(cache'[s], b)
    BY <1>7, <2>2, KeepAgrees DEF PagesInv
  <2>4. IsDisk(disk)'
    BY <2>1, <2>2 DEF IsDisk
  <2> QED
    BY <1>4, <2>1, <2>3, <2>4 DEF Follows
<1> QED
  BY <1>4, <1>5, <1>6, <1>7

LEMMA PreviewStep ==
  ASSUME OneInstance, PagesInv, NEW r \in Instance, NEW n \in Page, NEW f \in Field, NEW x \in Raw, Pages!Preview(r, n, f, x)
  PROVE  Follows /\ page' = NIL
<1>1. PICK c : c = Pages!Loaded(cache[r], n, 0)
  OBVIOUS
<1>2. PICK u : u = Pages!Updated(c, n, f, x)
  OBVIOUS
<1>3. Agrees(c, disk) /\ (Pages!Fails(u[<<n, 0>>]) => Agrees(u, disk)) /\ Agrees(Pages!Empty, disk)
  BY <1>1, <1>2, UpdatesFollow, EmptyAgrees
<1>4. /\ page' = NIL /\ disk' = disk
      /\ \/ Pages!Keep(r, c)
         \/ Pages!Fails(u[<<n, 0>>]) /\ Pages!Keep(r, u)
         \/ Pages!Keep(r, Pages!Empty)
  BY <1>1, <1>2 DEF Pages!Preview, Pages!Reset
<1> QED
  BY <1>3, <1>4, KeepFollows

LEMMA RedirectStep ==
  ASSUME OneInstance, PagesInv, NEW r \in Instance, NEW n \in Page, Pages!Redirect(r, n)
  PROVE  Follows /\ page' = NIL
<1>1. PICK c : c = Pages!Loaded(cache[r], n, 0)
  OBVIOUS
<1>2. Agrees(c, disk)
  BY <1>1, LoadsFollow
<1>3. Pages!Keep(r, c) /\ page' = NIL /\ disk' = disk
  BY <1>1 DEF Pages!Redirect
<1> QED
  BY <1>2, <1>3, KeepFollows

LEMMA PagesNext == OneInstance /\ PagesInv /\ Pages!Next => PagesInv'
<1>1. SUFFICES ASSUME OneInstance, PagesInv, Pages!Next PROVE PagesInv'
  OBVIOUS
<1>2. PICK r \in Instance :
        \/ \E n \in Page, v \in 0..MaxEdits : Pages!Show(r, n, v)
        \/ \E n \in Page : Pages!Redirect(r, n)
        \/ \E n \in Page, f \in Field, x \in Raw : Pages!Save(r, n, f, x) \/ Pages!Preview(r, n, f, x)
        \/ Pages!Start(r)
  BY <1>1 DEF Pages!Next
<1>3. page' = NIL => Pages!ShownIsStored'
  BY DEF Pages!ShownIsStored
<1>4. Follows /\ Pages!ShownIsStored' => PagesInv'
  BY DEF Follows, PagesInv
<1>5. ASSUME NEW n \in Page, NEW v \in 0..MaxEdits, Pages!Show(r, n, v) PROVE PagesInv'
  BY <1>1, <1>4, <1>5, ShowStep
<1>6. ASSUME NEW n \in Page, Pages!Redirect(r, n) PROVE PagesInv'
  BY <1>1, <1>3, <1>4, <1>6, RedirectStep
<1>7. ASSUME NEW n \in Page, NEW f \in Field, NEW x \in Raw, Pages!Save(r, n, f, x) PROVE PagesInv'
  BY <1>1, <1>3, <1>4, <1>7, SaveStep
<1>8. ASSUME NEW n \in Page, NEW f \in Field, NEW x \in Raw, Pages!Preview(r, n, f, x) PROVE PagesInv'
  BY <1>1, <1>3, <1>4, <1>8, PreviewStep
<1>9. CASE Pages!Start(r)
  <2>1. Pages!Keep(r, Pages!Empty) /\ page' = NIL /\ disk' = disk
    BY <1>9 DEF Pages!Start
  <2>2. Agrees(Pages!Empty, disk)
    BY EmptyAgrees
  <2> QED
    BY <1>1, <1>3, <1>4, <2>1, <2>2, KeepFollows
<1> QED
  BY <1>2, <1>5, <1>6, <1>7, <1>8, <1>9

\* The caches of one instance agree with what is stored, as long as nodes in memory move.
THEOREM CacheAgrees == ASSUME OneInstance PROVE MCSpec => [](part = "pages" => PagesInv)
<1>1. MCInit => (part = "pages" => PagesInv)
  BY PagesStart
<1>2. (part = "pages" => PagesInv) /\ [MCNext]_<<part, vars, now, dirs, file, index, node_table, save, saved, disk, cache, page>>
      => (part = "pages" => PagesInv)'
  <2>1. SUFFICES ASSUME PagesInv, part = "pages",
                        [MCNext]_<<part, vars, now, dirs, file, index, node_table, save, saved, disk, cache, page>>
                 PROVE  PagesInv'
    BY DEF MCNext, Still
  <2>2. CASE Pages!Next
    BY <2>1, <2>2, PagesNext
  <2>3. CASE disk' = disk /\ cache' = cache /\ page' = page
    <3>1. IsDisk(disk)'
      BY <2>1, <2>3, DiskNow DEF PagesInv
    <3> QED
      BY <2>1, <2>3, <3>1 DEF PagesInv, Pages!ShownIsStored, Pages!Stored
  <2> QED
    BY <2>1, <2>2, <2>3 DEF MCNext
<1> QED
  BY <1>1, <1>2, PTL DEF MCSpec

\* What the run checks of what is shown, for any number of nodes, versions, fields and values,
\* where no write is cut short and one application state runs at a time.
THEOREM ShownStaysSound ==
  ASSUME "short" \notin Fault, OneInstance
  PROVE  MCSpec => []ShownSound
<1>1. PagesInv => Pages!ShownIsStored /\ Pages!ProtosCached
  <2>1. SUFFICES ASSUME PagesInv, NEW r \in Instance, NEW n \in Page, NEW v \in 0..MaxEdits,
                        cache[r][<<n, v>>] # NIL, Proto[n] # NIL
                 PROVE  cache[r][<<Proto[n], 0>>] # NIL
    BY DEF PagesInv, Pages!ProtosCached
  <2>2. PICK c : c = cache[r]
    OBVIOUS
  <2>3. Agrees(c, disk)
    BY <2>1, <2>2 DEF PagesInv
  <2> QED
    BY <2>1, <2>2, <2>3 DEF Agrees
<1>2. Versions!HistoriesAgree /\ Versions!CompleteHistoryIsNewest /\ (part = "pages" => PagesInv) => ShownSound
  BY <1>1 DEF ShownSound
<1> QED
  BY <1>2, HistoriesSound, CompleteHistorySound, CacheAgrees, PTL

\* The version that save writes differs from the last one in the field that is given only.
LEMMA SavesGiven == OneInstance /\ PagesInv => Pages!SavesOnlyGiven
<1>1. SUFFICES ASSUME OneInstance, PagesInv, NEW r \in Instance, NEW n \in Page, NEW f \in Field, NEW x \in Raw,
                      Len(disk'[n]) > Len(disk[n]), Pages!Save(r, n, f, x), NEW g \in Field \ {f}
               PROVE  Pages!Last(disk'[n])[g] = Pages!Last(disk[n])[g]
  BY DEF Pages!SavesOnlyGiven
<1>2. PICK c : c = Pages!Loaded(cache[r], n, 0)
  OBVIOUS
<1>3. PICK u : u = Pages!Updated(c, n, f, x)
  OBVIOUS
<1>4. PICK raw : raw = c[<<n, 0>>].raw
  OBVIOUS
<1>5. ~Pages!Fails(c[<<n, 0>>]) /\ disk' = [disk EXCEPT ![n] = Append(@, Pages!Set(raw, f, x))]
  <2>1. \/ disk' = disk
        \/ ~Pages!Fails(c[<<n, 0>>]) /\ disk' = [disk EXCEPT ![n] = Append(@, Pages!Set(raw, f, x))]
    BY <1>1, <1>2, <1>3, <1>4 DEF Pages!Save
  <2>2. Len(disk[n]) \in Int
    BY <1>1, PagesAre DEF PagesInv, IsDisk
  <2>3. CASE disk' = disk
    BY <1>1, <2>2, <2>3
  <2> QED
    BY <2>1, <2>3
<1>6. raw = disk[n][Len(disk[n])]
  BY <1>1, <1>2, <1>3, <1>4, <1>5, UpdatesFollow
<1>7. PICK s : s = disk[n]
  OBVIOUS
<1>8. s \in Seq(Pages!Values) /\ Len(s) \in 1..Len(s) /\ disk \in [Page -> Seq(Pages!Values)]
  BY <1>1, <1>7, PagesAre DEF PagesInv, IsDisk
<1>9. raw \in Pages!Values /\ raw = Pages!Last(s)
  BY <1>6, <1>7, <1>8, ElementOfSeq DEF Pages!Last
<1>10. PICK y : y = Pages!Set(raw, f, x)
  OBVIOUS
<1>11. y \in Pages!Values /\ y[g] = raw[g]
  BY <1>1, <1>9, <1>10 DEF Pages!Set, Pages!Values
<1>12. Pages!Last(Append(s, y)) = y
  <2>1. Len(Append(s, y)) = Len(s) + 1 /\ Append(s, y)[Len(s) + 1] = y
    BY <1>8, <1>11, AppendProperties
  <2> QED
    BY <2>1 DEF Pages!Last
<1>13. disk'[n] = Append(s, y)
  BY <1>5, <1>7, <1>8, <1>10
<1> QED
  BY <1>7, <1>9, <1>11, <1>12, <1>13

\* What the run checks of steps, for any number of nodes, stores, versions, fields and values.
THEOREM StepsAlwaysKeep ==
  ASSUME "short" \notin Fault, OneInstance
  PROVE  MCSpec => StepsKeep
<1>1. (part = "pages" => PagesInv) => (part = "pages" => Pages!SavesOnlyGiven)
  BY SavesGiven
<1> DEFINE Both == /\ part = "versions" => Versions!ListsSaved
                   /\ part = "pages" => Pages!SavesOnlyGiven
<1>2. MCSpec => [][Versions!ListsSaved]_<<part, dirs, file, index, node_table, save, saved, disk, cache, page>>
  BY StoresKnowSaved
<1>3. (part = "pages" => PagesInv)
      /\ [Versions!ListsSaved]_<<part, dirs, file, index, node_table, save, saved, disk, cache, page>>
      => [Both]_<<part, dirs, file, index, node_table, save, saved, disk, cache, page>>
  BY <1>1
<1> QED
  BY <1>2, <1>3, CacheAgrees, PTL DEF StepsKeep
=============================================================================
