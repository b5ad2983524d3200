------------------------------- MODULE NewSet -------------------------------
(***************************************************************************)
(* The representation behind copas.lua's newset: the array part of the Lua *)
(* table (set), the table from a value to its index (reverse) and the      *)
(* queues (q), with NIL where Lua has an absent key.                       *)
(*                                                                         *)
(* The representation is right when reverse is the inverse of set after    *)
(* every operation: insert consults only reverse, remove overwrites the    *)
(* hole with the last element and must keep that element's index in step.  *)
(***************************************************************************)
EXTENDS SetOps

CONSTANTS Value, Item, MaxQueue, NIL

ASSUME NewSetAssumption == /\ MaxQueue \in Nat
                           /\ NIL \notin Nat
                           /\ NIL \notin Seq(Item)

VARIABLES set, reverse, q

vars == <<set, reverse, q>>

\* newset
Init == /\ set = <<>>
        /\ reverse = [v \in Value |-> NIL]
        /\ q = [v \in Value |-> NIL]

\* (A variant that forgets to look.)
NeverKnown(v) == FALSE
Known(v) == reverse[v] # NIL

Insert(v) == /\ IF ~Known(v)
                THEN /\ set' = Append(set, v)
                     /\ reverse' = [reverse EXCEPT ![v] = Len(set) + 1]
                ELSE UNCHANGED <<set, reverse>>
             /\ UNCHANGED q

\* (A variant that moves the last element without updating its index.)
NoReindex(rev, top, index) == rev
Reindex(rev, top, index) == [rev EXCEPT ![top] = index]

Remove(v) ==
  LET index == reverse[v]
      top   == set[Len(set)]
      hole  == [reverse EXCEPT ![v] = NIL]
      short == SubSeq(set, 1, Len(set) - 1)
  IN /\ \/ /\ index = NIL
           /\ UNCHANGED <<set, reverse>>
        \/ /\ index # NIL /\ top = v
           /\ set' = short
           /\ reverse' = hole
        \/ /\ index # NIL /\ top # v
           /\ set' = [short EXCEPT ![index] = top]
           /\ reverse' = Reindex(hole, top, index)
     /\ UNCHANGED q

Queued(v) == IF q[v] = NIL THEN <<>> ELSE q[v]

\* The first item starts the queue.
Push(v, x) == /\ Len(Queued(v)) < MaxQueue
              /\ q' = [q EXCEPT ![v] = Append(Queued(v), x)]
              /\ UNCHANGED <<set, reverse>>

\* (Variants that keep only the popped item, and take the youngest item.)
RestHead(v)  == IF q[v] = NIL THEN NIL ELSE Head(q[v])
RestLifo(v)  == IF Len(Queued(v)) <= 1 THEN NIL ELSE SubSeq(q[v], 1, Len(q[v]) - 1)

Rest(v) == IF Len(Queued(v)) <= 1 THEN NIL ELSE Tail(q[v])

\* Popping the only item drops the queue; popping an absent queue is a no-op.
Pop(v) == /\ q' = [q EXCEPT ![v] = Rest(v)]
          /\ UNCHANGED <<set, reverse>>

Next == \E v \in Value : \/ Insert(v) \/ Remove(v) \/ Pop(v)
                         \/ \E x \in Item : Push(v, x)

Spec == Init /\ [][Next]_vars
-----------------------------------------------------------------------------
TypeOK == /\ set \in Seq(Value)
          /\ reverse \in [Value -> Nat \cup {NIL}]
          /\ q \in [Value -> Seq(Item) \cup {NIL}]

\* reverse is exactly the inverse of the array: every element is found at its
\* recorded index and every recorded index holds its value, so that no element
\* is stored twice or is left behind by the swap with the last one (remove,
\* copas.lua:70-81).
ReverseIsInverse ==
  /\ \A i \in 1..Len(set) : reverse[set[i]] = i
  /\ \A v \in Value : reverse[v] # NIL => /\ reverse[v] \in 1..Len(set)
                                          /\ set[reverse[v]] = v

\* A queue that exists holds an item: pop (copas.lua:92-101) drops the queue
\* with its last item, so that absence of a queue means nobody waits (a part of the
\* inductive invariant).
NoEmptyQueue == \A v \in Value : q[v] # <<>>

IInv == TypeOK /\ ReverseIsInverse /\ NoEmptyQueue

\* Each operation changes the array as the operators of SetOps say, which are
\* the ones the dispatcher's model uses.
ArrayAsSetOps ==
  [][\E v \in Value : set' \in {set, insert(set, v), remove(set, v)}]_vars

\* The representation implements a set with one FIFO per value.
Abs == INSTANCE FifoSet WITH elems <- Range(set),
                             fifo <- [v \in Value |-> Queued(v)]
ImplementsFifoSet == Abs!Spec
=============================================================================
