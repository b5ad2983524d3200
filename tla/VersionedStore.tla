--------------------------- MODULE VersionedStore ---------------------------
(***************************************************************************)
(* What the users of Versium rely on: a node is the sequence of the        *)
(* versions saved, numbered from 1, which nothing changes or takes away.   *)
(***************************************************************************)
EXTENDS Integers, Sequences

CONSTANTS Node,   \* the ids
          Data,   \* what can be saved
          Time    \* the timestamps

VARIABLE hist

Init == hist = [n \in Node |-> <<>>]

Save(n, d, t) == hist' = [hist EXCEPT ![n] = Append(@, [data |-> d, time |-> t])]

Next == \E n \in Node, d \in Data, t \in Time : Save(n, d, t)

Spec == Init /\ [][Next]_hist
-----------------------------------------------------------------------------
Exists(n) == hist[n] # <<>>

Content(n, v) == hist[n][v].data

Latest(n) == Content(n, Len(hist[n]))

VersionsOf(n, p) == {v \in 1..Len(hist[n]) : hist[n][v].time \in p}

\* h has the newest versions of the times in p, the newest first.
AreNewest(n, p, h) ==
  /\ \A i, j \in 1..Len(h) : i < j => h[j] < h[i]
  /\ \A i \in 1..Len(h) :
       h[i] \in VersionsOf(n, p) /\ \A v \in VersionsOf(n, p) : v > h[i] => \E j \in 1..Len(h) : h[j] = v

\* And it has all of them.
IsHistory(n, p, h) ==
  AreNewest(n, p, h) /\ \A v \in VersionsOf(n, p) : \E j \in 1..Len(h) : h[j] = v
=============================================================================
