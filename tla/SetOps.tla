------------------------------- MODULE SetOps -------------------------------
(***************************************************************************)
(* The collection type of copas.lua (newset, lines 58-104): an insertion-  *)
(* ordered array without repetitions, to which copas attaches one FIFO of  *)
(* items per value.  Here the two halves are plain values: the array is a  *)
(* sequence, the FIFOs are a function from values to sequences in which an *)
(* absent queue is the empty sequence.  Module NewSet holds the            *)
(* representation the code uses (reverse index, nil for an absent queue)   *)
(* and is shown to agree with these operators.                             *)
(***************************************************************************)
EXTENDS Sequences, Functions

\* (A variant that inserts at the wrong end.)
insertFront(set, value) == IF value \in Range(set) THEN set ELSE <<value>> \o set

insert(set, value) == IF value \in Range(set) THEN set ELSE Append(set, value)

IndexIn(set, value) == CHOOSE i \in 1..Len(set) : set[i] = value

\* (A variant that takes out the first element whatever its value.)
removeFirst(set, value) == IF value \in Range(set) THEN Tail(set) ELSE set

\* The last element takes the place of the removed one.
remove(set, value) ==
  IF value \in Range(set)
  THEN [i \in 1..(Len(set) - 1) |->
          IF i = IndexIn(set, value) THEN set[Len(set)] ELSE set[i]]
  ELSE set

\* (A variant that stores the item where the queue should be.)
pushBare(q, key, itm) == [q EXCEPT ![key] = itm]

push(q, key, itm) == [q EXCEPT ![key] = Append(@, itm)]

\* (A variant that looks at the head without removing it.)
peek(q, key) == q

\* What pop leaves behind; the item it returns is Head(q[key]).
pop(q, key) == [q EXCEPT ![key] = IF @ = <<>> THEN <<>> ELSE Tail(@)]
=============================================================================
