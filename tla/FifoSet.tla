------------------------------- MODULE FifoSet ------------------------------
(***************************************************************************)
(* What the rest of copas.lua relies on when it uses a newset: a set of    *)
(* values, and for every value a FIFO of items that exists independently   *)
(* of whether the value is in the set.                                     *)
(***************************************************************************)
EXTENDS Naturals, Sequences

CONSTANTS Value,     \* sockets
          Item,      \* coroutines
          MaxQueue   \* bound on the items waiting under one value

VARIABLES elems, fifo

vars == <<elems, fifo>>

Init == /\ elems = {}
        /\ fifo = [v \in Value |-> <<>>]

Insert(v) == /\ elems' = elems \cup {v}
             /\ UNCHANGED fifo

Remove(v) == /\ elems' = elems \ {v}
             /\ UNCHANGED fifo

Push(v, x) == /\ Len(fifo[v]) < MaxQueue
              /\ fifo' = [fifo EXCEPT ![v] = Append(@, x)]
              /\ UNCHANGED elems

Pop(v) == /\ fifo[v] # <<>>
          /\ fifo' = [fifo EXCEPT ![v] = Tail(@)]
          /\ UNCHANGED elems

Next == \E v \in Value : \/ Insert(v) \/ Remove(v) \/ Pop(v)
                         \/ \E x \in Item : Push(v, x)

Spec == Init /\ [][Next]_vars
=============================================================================
