---------------------------- MODULE StreamsProofs -----------------------------
(***************************************************************************)
(* Receiving, for streams of any length, buffers of any size and any calls: *)
(* what a call returns is what ByteReader says (ImplementsByteReader), and *)
(* it waits only while bytes are missing (WaitsOnlyForNetwork).            *)
(*                                                                         *)
(* The inductive invariant: a call has taken the bytes base+1..bfirst; its *)
(* result so far lists those it keeps, and they do not complete the        *)
(* pattern.                                                                *)
(***************************************************************************)
EXTENDS MCStreams, SequenceTheorems, TLAPS

Raw == call.pat.kind = "raw"

\* The bytes in the order they pass through: consumed, in the buffer, in the socket.
Types ==
  /\ text \in [1..MaxText -> {"CR", "LF", "other"}]
  /\ base \in Nat /\ bfirst \in Nat /\ blast \in Nat /\ arrived \in Nat
  /\ base <= bfirst /\ bfirst <= blast /\ blast <= arrived /\ arrived <= MaxText
  /\ phase \in {"idle", "get", "scan", "wait"}
  /\ call \in Calls /\ out \in Seq(Nat)

\* A call in progress lists what it took, all of it unless it is lossy.
Taken ==
  \E begin \in base..bfirst : /\ begin = base \/ Receiving!R!Lossy(call)
                              /\ Receiving!R!Lists(out, call.pat, begin, bfirst)

Counted == Raw => /\ Len(out) = bfirst - base
                  /\ Len(out) <= call.pat.n

InCall == phase # "idle" => Taken /\ Counted /\ Receiving!R!Short(call.pat, base, bfirst)

InScan == phase = "scan" => call.pat.kind = "line"

InWait == phase = "wait" => /\ bfirst = blast
                            /\ call.fn = "receivePartial" /\ Raw => out = <<>>

ReceiveInv == Types /\ InCall /\ InScan /\ InWait
-----------------------------------------------------------------------------
(* Lists of bytes.                                                         *)

LEMMA CallTypes ==
  ASSUME Types
  PROVE  /\ call.fn \in {"receive", "receivePartial"}
         /\ call.pat.kind \in {"line", "raw", "all"}
         /\ call.pat.n \in Nat
         /\ MaxText \in Nat
BY ReceivingAssumption DEF Types, Receiving!ReceiveStreamAssumption

\* Nothing lists no bytes.
LEMMA ListsNothing ==
  ASSUME NEW p, NEW i \in Nat
  PROVE  Receiving!R!Lists(<<>>, p, i, i)
<1>1. i + 1 .. i = {}
  OBVIOUS
<1>2. Receiving!R!Range(<<>>) = {} /\ DOMAIN <<>> = {}
  BY DEF Receiving!R!Range
<1> QED
  BY <1>1, <1>2 DEF Receiving!R!Lists, Receiving!R!Kept

\* The next byte joins the list,
LEMMA ListsByte ==
  ASSUME NEW data \in Seq(Nat), NEW p, NEW i \in Nat, NEW j \in Nat, i <= j,
         Receiving!R!Lists(data, p, i, j), p.kind = "line" => text[j + 1] = "other"
  PROVE  Receiving!R!Lists(Append(data, j + 1), p, i, j + 1)
<1> DEFINE new == Append(data, j + 1)
           n == Len(data)
<1>1. /\ new \in Seq(Nat) /\ Len(new) = n + 1 /\ n \in Nat
      /\ \A k \in 1..n : new[k] = data[k]
      /\ new[n + 1] = j + 1
      /\ DOMAIN data = 1..n /\ DOMAIN new = 1..(n + 1)
  OBVIOUS
<1>2. /\ Receiving!R!Range(data) = Receiving!R!Kept(p, i, j)
      /\ \A k, l \in 1..n : k < l => data[k] < data[l]
  BY <1>1 DEF Receiving!R!Lists
<1>3. \A k \in 1..n : data[k] \in i + 1 .. j
  BY <1>1, <1>2 DEF Receiving!R!Range, Receiving!R!Kept
<1> HIDE DEF new, n
<1>4. Receiving!R!Range(new) = Receiving!R!Range(data) \cup {j + 1}
  <2>1. 1..(n + 1) = 1..n \cup {n + 1} /\ n + 1 \notin 1..n
    BY <1>1
  <2> QED
    BY <1>1, <2>1 DEF Receiving!R!Range
<1>5. Receiving!R!Kept(p, i, j + 1) = Receiving!R!Kept(p, i, j) \cup {j + 1}
  BY DEF Receiving!R!Kept
<1>6. \A k, l \in 1..(n + 1) : k < l => new[k] < new[l]
  <2> TAKE k, l \in 1..(n + 1)
  <2> HAVE k < l
  <2>1. k \in 1..n /\ new[k] = data[k] /\ data[k] \in i + 1 .. j
    BY <1>1, <1>3
  <2>2. CASE l \in 1..n
    BY <1>1, <1>2, <2>1, <2>2
  <2>3. CASE l = n + 1
    BY <1>1, <2>1, <2>3
  <2> QED
    BY <1>1, <2>2, <2>3
<1>7. Receiving!R!Lists(new, p, i, j + 1)
  BY <1>1, <1>2, <1>4, <1>5, <1>6 DEF Receiving!R!Lists
<1> QED
  BY <1>7 DEF new

\* or, in a line, is left out.
LEMMA ListsSkip ==
  ASSUME NEW data, NEW p, NEW i \in Nat, NEW j \in Nat, i <= j,
         Receiving!R!Lists(data, p, i, j), p.kind = "line", text[j + 1] # "other"
  PROVE  Receiving!R!Lists(data, p, i, j + 1)
<1>1. Receiving!R!Kept(p, i, j + 1) = Receiving!R!Kept(p, i, j)
  BY DEF Receiving!R!Kept
<1> QED
  BY <1>1 DEF Receiving!R!Lists

\* A segment of the buffer joins the list.
LEMMA ListsSegment ==
  ASSUME NEW data \in Seq(Nat), NEW p, NEW i \in Nat, NEW j \in Nat, NEW k \in Nat, i <= j, j <= k,
         Receiving!R!Lists(data, p, i, j), p.kind # "line"
  PROVE  /\ data \o Receiving!Segment(j, k) \in Seq(Nat)
         /\ Len(data \o Receiving!Segment(j, k)) = Len(data) + (k - j)
         /\ Receiving!R!Lists(data \o Receiving!Segment(j, k), p, i, k)
<1> DEFINE seg == Receiving!Segment(j, k)
           new == data \o seg
           n == Len(data)
           m == k - j
<1>1. n \in Nat /\ m \in Nat /\ DOMAIN data = 1..n
  OBVIOUS
<1>2. seg = [l \in 1..m |-> j + l]
  BY DEF Receiving!Segment
<1> HIDE DEF seg, m
<1>3. seg \in Seq(Nat) /\ Len(seg) = m /\ \A l \in 1..m : seg[l] = j + l
  BY <1>1, <1>2
<1>4. /\ new \in Seq(Nat) /\ Len(new) = n + m /\ DOMAIN new = 1..(n + m)
      /\ \A l \in 1..(n + m) : new[l] = IF l <= n THEN data[l] ELSE seg[l - n]
  <2>1. /\ new \in Seq(Nat) /\ Len(new) = n + m
        /\ \A l \in 1..(n + m) : new[l] = IF l <= n THEN data[l] ELSE seg[l - n]
    BY <1>3, ConcatProperties
  <2> QED
    BY <1>1, <2>1
<1> HIDE DEF new, n
<1>5. \A l \in 1..(n + m) : IF l <= n THEN new[l] = data[l] ELSE new[l] = j + (l - n)
  BY <1>1, <1>3, <1>4
<1>6. /\ Receiving!R!Range(data) = Receiving!R!Kept(p, i, j)
      /\ \A k1, l1 \in 1..n : k1 < l1 => data[k1] < data[l1]
  BY <1>1 DEF Receiving!R!Lists
<1>7. Receiving!R!Kept(p, i, j) = i + 1 .. j /\ Receiving!R!Kept(p, i, k) = i + 1 .. k
  BY DEF Receiving!R!Kept
<1>8. \A l \in 1..n : data[l] \in i + 1 .. j
  BY <1>1, <1>6, <1>7 DEF Receiving!R!Range
<1>9. Receiving!R!Range(new) = i + 1 .. k
  <2>1. \A l \in 1..(n + m) : new[l] \in i + 1 .. k
    BY <1>1, <1>5, <1>8 DEF m
  <2>2. ASSUME NEW b \in i + 1 .. k
        PROVE  b \in Receiving!R!Range(new)
    <3>1. CASE b <= j
      <4>0. b \in i + 1 .. j
        BY <3>1
      <4>1. PICK l \in 1..n : data[l] = b
        BY <1>1, <1>6, <1>7, <4>0 DEF Receiving!R!Range
      <4>2. l \in 1..(n + m) /\ l <= n
        BY <1>1
      <4>3. new[l] = b
        BY <1>5, <4>1, <4>2
      <4> QED
        BY <1>4, <4>2, <4>3 DEF Receiving!R!Range
    <3>2. CASE b > j
      <4>1. n + (b - j) \in 1..(n + m) /\ new[n + (b - j)] = b
        BY <1>1, <1>5, <3>2 DEF m
      <4> QED
        BY <1>4, <4>1 DEF Receiving!R!Range
    <3> QED
      BY <3>1, <3>2
  <2> QED
    BY <1>4, <2>1, <2>2 DEF Receiving!R!Range
<1>10. \A k1, l1 \in 1..(n + m) : k1 < l1 => new[k1] < new[l1]
  BY <1>1, <1>5, <1>6, <1>8
<1>11. Receiving!R!Lists(new, p, i, k)
  BY <1>4, <1>7, <1>9, <1>10 DEF Receiving!R!Lists
<1> QED
  BY <1>4, <1>11 DEF new, seg, n, m
-----------------------------------------------------------------------------
(* One attempt.                                                            *)

\* What buffer_get gives to look at: what is in the buffer, or what the socket had.
LEMMA BufferFacts ==
  ASSUME Types, NEW how, NEW first, NEW last, Receiving!BufferGet(how, first, last)
  PROVE  /\ first = bfirst /\ last \in Nat
         /\ blast <= last /\ last <= arrived
         /\ how = "done" => first < last
         /\ how # "done" => last = first /\ blast = bfirst
<1>1. CASE bfirst < blast
  BY <1>1 DEF Receiving!BufferGet, Types
<1>2. CASE ~(bfirst < blast)
  <2>1. PICK got \in 0..BufSize : Receiving!Recv(how, got) /\ first = blast /\ last = blast + got
    BY <1>2 DEF Receiving!BufferGet
  <2>2. bfirst = blast /\ BufSize \in Nat
    BY <1>2, ReceivingAssumption DEF Types, Receiving!ReceiveStreamAssumption
  <2>3. \/ how # "done" /\ got = 0
        \/ how = "done" /\ got \in 1..Receiving!MinOf(BufSize, arrived - blast)
    BY <2>1 DEF Receiving!Recv
  <2>4. how = "done" => got >= 1 /\ got <= arrived - blast
    BY <2>2, <2>3 DEF Receiving!MinOf, Types
  <2>5. bfirst \in Nat /\ blast \in Nat /\ arrived \in Nat /\ got \in Nat /\ blast <= arrived
    BY <2>2 DEF Types
  <2> QED
    BY <2>1, <2>2, <2>3, <2>4, <2>5
<1> QED
  BY <1>1, <1>2

\* The end of an attempt is a read of the abstract reader, or nothing to it.
LEMMA EndReads ==
  ASSUME Types, phase # "idle", NEW how, NEW data, Receiving!End(how, data),
         text' = text, call' = call, base' = base, bfirst' \in Nat, base <= bfirst', bfirst' <= MaxText,
         NEW begin \in base..bfirst', begin = base \/ Receiving!R!Lossy(call),
         Receiving!R!Lists(data, call.pat, begin, bfirst'),
         IF how = "done" THEN Receiving!R!Whole(call.pat, base, bfirst')
                         ELSE Receiving!R!Short(call.pat, base, bfirst')
  PROVE  [Receiving!R!Next]_Receiving!R!vars
<1>1. CASE Receiving!Returns(how, data)
  <2>1. phase' = "idle" /\ result' = [call |-> call, err |-> how, data |-> data]
    BY <1>1 DEF Receiving!End
  <2>2. how = "timeout" => call.fn = "receivePartial" /\ data # <<>>
    BY <1>1 DEF Receiving!Returns
  <2>3. begin \in base..MaxText /\ bfirst' \in base..MaxText /\ begin <= bfirst'
    BY CallTypes DEF Types
  <2>4. Receiving!R!Read(call)
    BY <2>1, <2>2, <2>3 DEF Receiving!R!Read
  <2> QED
    BY <2>4 DEF Receiving!R!Next, Types
<1>2. CASE ~Receiving!Returns(how, data)
  BY <1>2 DEF Receiving!End, Receiving!R!vars
<1> QED
  BY <1>1, <1>2

\* A step that ends no call.
LEMMA NoRead ==
  ASSUME text' = text, result' = result, base' = base, phase # "idle", phase' # "idle"
  PROVE  [Receiving!R!Next]_Receiving!R!vars
BY DEF Receiving!R!vars

\* What a call still misses stays the same when bytes arrive.
LEMMA Untouched ==
  ASSUME InCall, InScan, InWait, UNCHANGED <<text, base, bfirst, blast, phase, call, out>>
  PROVE  InCall' /\ InScan' /\ InWait'
BY DEF InCall, InScan, InWait, Taken, Counted, Raw, Receiving!R!Lossy, Receiving!R!Lists, Receiving!R!Kept,
       Receiving!R!Short, Receiving!R!NoLine

\* The conjuncts of the invariant after a step, from what its primed variables are.
LEMMA TakenNext ==
  ASSUME text' = text, call' = call, base' = base, NEW begin \in base..bfirst',
         begin = base \/ Receiving!R!Lossy(call), Receiving!R!Lists(out', call.pat, begin, bfirst')
  PROVE  Taken'
BY DEF Taken, Receiving!R!Lossy, Receiving!R!Lists, Receiving!R!Kept

LEMMA ShortNext ==
  ASSUME text' = text, call' = call, base' = base
  PROVE  Receiving!R!Short(call.pat, base, bfirst)' <=> Receiving!R!Short(call.pat, base, bfirst')
BY DEF Receiving!R!Short, Receiving!R!NoLine

\* An attempt that ends leaves the call idle or waiting.
LEMMA EndPhase ==
  ASSUME NEW how, NEW data, Receiving!End(how, data)
  PROVE  \/ phase' = "idle"
         \/ /\ phase' = "wait" /\ how = "timeout"
            /\ call.fn = "receivePartial" /\ call.pat.kind = "raw" => data = <<>>
BY DEF Receiving!End, Receiving!Returns
-----------------------------------------------------------------------------
(* The steps.                                                              *)

Reads == [Receiving!R!Next]_Receiving!R!vars

LEMMA CallStep ==
  ASSUME ReceiveInv, NEW c \in Calls, Receiving!Call(c)
  PROVE  ReceiveInv' /\ Reads
<1>1. /\ phase = "idle" /\ phase' = "get" /\ call' = c /\ base' = bfirst /\ out' = <<>>
      /\ UNCHANGED <<text, arrived, bfirst, blast, result>>
  BY DEF Receiving!Call, Receiving!net
<1>2. bfirst \in Nat /\ MaxText \in Nat /\ c.pat.n \in Nat /\ c.pat.kind \in {"line", "raw", "all"}
  BY ReceivingAssumption DEF ReceiveInv, Types, Receiving!ReceiveStreamAssumption
<1>3. Types'
  BY <1>1 DEF ReceiveInv, Types
<1>4. Taken'
  <2>1. Receiving!R!Lists(<<>>, c.pat, bfirst, bfirst)
    BY <1>2, ListsNothing
  <2>2. Receiving!R!Lists(out, call.pat, base, bfirst)'
    BY <1>1, <2>1 DEF Receiving!R!Lists, Receiving!R!Kept
  <2>3. base' \in (base..bfirst)'
    BY <1>1, <1>2
  <2> QED
    BY <2>2, <2>3 DEF Taken
<1>5. Counted'
  BY <1>1, <1>2 DEF Counted
<1>6. Receiving!R!Short(call.pat, base, bfirst)'
  <2>1. bfirst + 1 .. bfirst = {} /\ bfirst - bfirst = 0
    BY <1>2
  <2> QED
    BY <1>1, <1>2, <2>1 DEF Receiving!R!Short, Receiving!R!NoLine
<1>7. ReceiveInv'
  BY <1>1, <1>3, <1>4, <1>5, <1>6 DEF ReceiveInv, InCall, InScan, InWait
<1>8. Reads
  BY <1>1 DEF Reads, Receiving!R!vars
<1> QED
  BY <1>7, <1>8

LEMMA RawStep ==
  ASSUME ReceiveInv, Receiving!RecvRaw
  PROVE  ReceiveInv' /\ Reads
<1>1. PICK how \in {"done", "timeout", "closed", "reset"}, first \in 0..MaxText, last \in 0..MaxText :
        /\ Receiving!BufferGet(how, first, last)
        /\ bfirst' = first + Receiving!TakeWanted(out, first, last)
        /\ blast' = last
        /\ out' = out \o Receiving!Segment(first, bfirst')
        /\ IF Len(out') >= call.pat.n \/ how # "done"
             THEN Receiving!End(how, out')
             ELSE phase' = phase /\ result' = result
  BY DEF Receiving!RecvRaw
<1>2. /\ phase = "get" /\ Raw
      /\ UNCHANGED <<text, arrived, call, base>>
  BY DEF Receiving!RecvRaw, Receiving!net, Raw
<1>3. /\ first = bfirst /\ last \in Nat /\ blast <= last /\ last <= arrived
      /\ how = "done" => first < last
      /\ how # "done" => last = first /\ blast = bfirst
  BY <1>1, BufferFacts DEF ReceiveInv
<1>4. /\ base \in Nat /\ bfirst \in Nat /\ blast \in Nat /\ arrived \in Nat /\ MaxText \in Nat
      /\ base <= bfirst /\ bfirst <= blast /\ arrived <= MaxText
      /\ call.pat.n \in Nat /\ call.pat.kind = "raw" /\ out \in Seq(Nat) /\ Len(out) \in Nat
      /\ call.fn \in {"receive", "receivePartial"}
  BY <1>2, CallTypes DEF ReceiveInv, Types, Raw
<1>5. /\ Taken /\ Len(out) = bfirst - base /\ Len(out) <= call.pat.n
      /\ Receiving!R!Short(call.pat, base, bfirst)
  BY <1>2 DEF ReceiveInv, InCall, Counted
<1> DEFINE take == Receiving!TakeWanted(out, first, last)
<1>6. /\ take \in Nat /\ take <= last - first /\ take <= call.pat.n - Len(out)
      /\ how # "done" => take = 0
  BY <1>3, <1>4, <1>5 DEF Receiving!TakeWanted, Receiving!MinOf
<1> HIDE DEF take
<1>7. /\ bfirst' = bfirst + take /\ bfirst' \in Nat /\ bfirst <= bfirst' /\ bfirst' <= blast'
      /\ blast' \in Nat /\ blast' <= arrived /\ base <= bfirst' /\ bfirst' <= MaxText
  <2>1. bfirst' = bfirst + take
    BY <1>1, <1>3 DEF take
  <2> QED
    BY <1>1, <1>3, <1>4, <1>6, <2>1
<1>8. PICK begin \in base..bfirst : /\ begin = base \/ Receiving!R!Lossy(call)
                                    /\ Receiving!R!Lists(out, call.pat, begin, bfirst)
  BY <1>5 DEF Taken
<1>9. /\ out' \in Seq(Nat) /\ Len(out') = Len(out) + (bfirst' - bfirst)
      /\ Receiving!R!Lists(out', call.pat, begin, bfirst')
  <2> DEFINE next == bfirst'
  <2>1. next \in Nat /\ bfirst <= next /\ begin \in Nat /\ begin <= bfirst
    BY <1>4, <1>7
  <2>2. out' = out \o Receiving!Segment(bfirst, next)
    BY <1>1, <1>3
  <2> HIDE DEF next
  <2>3. /\ out \o Receiving!Segment(bfirst, next) \in Seq(Nat)
        /\ Len(out \o Receiving!Segment(bfirst, next)) = Len(out) + (next - bfirst)
        /\ Receiving!R!Lists(out \o Receiving!Segment(bfirst, next), call.pat, begin, next)
    BY <1>4, <1>8, <2>1, ListsSegment
  <2> QED
    BY <2>2, <2>3 DEF next
<1>10. Len(out') = bfirst' - base /\ Len(out') <= call.pat.n
  BY <1>4, <1>5, <1>6, <1>7, <1>9
<1>11. begin \in base..bfirst'
  BY <1>4, <1>7
<1>12. Types' /\ Taken' /\ Counted'
  <2>1. Taken'
    BY <1>2, <1>8, <1>9, <1>11, TakenNext
  <2>2. Counted'
    BY <1>2, <1>10 DEF Counted
  <2>3. phase' \in {"idle", "get", "scan", "wait"}
    BY <1>1, <1>2, EndPhase
  <2>4. Types'
    BY <1>2, <1>7, <1>9, <2>3 DEF ReceiveInv, Types
  <2> QED
    BY <2>1, <2>2, <2>4
<1>13. CASE Len(out') >= call.pat.n \/ how # "done"
  <2>1. Receiving!End(how, out')
    BY <1>1, <1>13
  <2>2. CASE how = "done"
    <3>1. bfirst' - base = call.pat.n
      BY <1>4, <1>10, <1>13, <2>2, <1>7
    <3>2. Receiving!R!Whole(call.pat, base, bfirst')
      BY <1>4, <3>1 DEF Receiving!R!Whole
    <3>3. Reads
      BY <1>2, <1>7, <1>8, <1>9, <1>11, <2>1, <2>2, <3>2, EndReads DEF ReceiveInv, Reads
    <3>4. phase' = "idle"
      BY <2>1, <2>2, EndPhase
    <3> QED
      BY <1>12, <3>3, <3>4 DEF ReceiveInv, InCall, InScan, InWait
  <2>3. CASE how # "done"
    <3>1. bfirst' = bfirst /\ bfirst' = blast'
      BY <1>1, <1>3, <1>4, <1>6, <1>7, <2>3
    <3>2. Receiving!R!Short(call.pat, base, bfirst')
      BY <1>5, <3>1
    <3>3. Reads
      BY <1>2, <1>7, <1>8, <1>9, <1>11, <2>1, <2>3, <3>2, EndReads DEF ReceiveInv, Reads
    <3>4. Receiving!R!Short(call.pat, base, bfirst)'
      BY <1>2, <3>2, ShortNext
    <3>5. \/ phase' = "idle"
          \/ phase' = "wait" /\ (call.fn = "receivePartial" => out' = <<>>)
      BY <1>4, <2>1, EndPhase
    <3>6. InCall' /\ InScan' /\ InWait'
      BY <1>2, <1>12, <3>1, <3>4, <3>5 DEF InCall, InScan, InWait
    <3> QED
      BY <1>12, <3>3, <3>6 DEF ReceiveInv
  <2> QED
    BY <2>2, <2>3
<1>14. CASE ~(Len(out') >= call.pat.n \/ how # "done")
  <2>1. phase' = "get" /\ result' = result
    BY <1>1, <1>2, <1>14
  <2>2. Receiving!R!Short(call.pat, base, bfirst')
    BY <1>4, <1>7, <1>10, <1>14 DEF Receiving!R!Short
  <2>3. Receiving!R!Short(call.pat, base, bfirst)'
    BY <1>2, <2>2, ShortNext
  <2>4. Reads
    BY <1>2, <2>1, NoRead DEF Reads
  <2> QED
    BY <1>12, <2>1, <2>3, <2>4 DEF ReceiveInv, InCall, InScan, InWait
<1> QED
  BY <1>13, <1>14

LEMMA AllStep ==
  ASSUME ReceiveInv, Receiving!RecvAll
  PROVE  ReceiveInv' /\ Reads
<1>1. PICK how \in {"done", "timeout", "closed", "reset"}, first \in 0..MaxText, last \in 0..MaxText :
        /\ Receiving!BufferGet(how, first, last)
        /\ bfirst' = last /\ blast' = last
        /\ out' = out \o Receiving!Segment(first, last)
        /\ IF how = "done"
             THEN phase' = phase /\ result' = result
             ELSE Receiving!End(IF how = "closed" /\ Len(out) > had THEN "done" ELSE how, out)
  BY DEF Receiving!RecvAll
<1>2. /\ phase = "get" /\ call.pat.kind = "all"
      /\ UNCHANGED <<text, arrived, call, base>>
  BY DEF Receiving!RecvAll, Receiving!net
<1>3. /\ first = bfirst /\ last \in Nat /\ blast <= last /\ last <= arrived
      /\ how # "done" => last = first /\ blast = bfirst
  BY <1>1, BufferFacts DEF ReceiveInv
<1>4. /\ base \in Nat /\ bfirst \in Nat /\ blast \in Nat /\ arrived \in Nat /\ MaxText \in Nat
      /\ base <= bfirst /\ bfirst <= blast /\ arrived <= MaxText
      /\ out \in Seq(Nat) /\ call.fn \in {"receive", "receivePartial"}
  BY CallTypes DEF ReceiveInv, Types
<1>5. /\ bfirst' \in Nat /\ bfirst <= bfirst' /\ base <= bfirst' /\ bfirst' <= MaxText
      /\ bfirst' = blast' /\ blast' <= arrived'
  BY <1>1, <1>2, <1>3, <1>4
<1>6. PICK begin \in base..bfirst : /\ begin = base \/ Receiving!R!Lossy(call)
                                    /\ Receiving!R!Lists(out, call.pat, begin, bfirst)
  BY <1>2 DEF ReceiveInv, InCall, Taken
<1>7. begin \in Nat /\ begin <= bfirst /\ begin \in base..bfirst'
  BY <1>4, <1>5
<1>8. /\ out' \in Seq(Nat)
      /\ Receiving!R!Lists(out', call.pat, begin, bfirst')
  <2>1. bfirst <= last
    BY <1>3, <1>4
  <2>2. /\ out \o Receiving!Segment(bfirst, last) \in Seq(Nat)
        /\ Receiving!R!Lists(out \o Receiving!Segment(bfirst, last), call.pat, begin, last)
    BY <1>2, <1>3, <1>4, <1>6, <1>7, <2>1, ListsSegment
  <2> QED
    BY <1>1, <1>3, <2>2
<1>9. Receiving!R!Short(call.pat, base, bfirst') /\ Receiving!R!Whole(call.pat, base, bfirst')
  BY <1>2 DEF Receiving!R!Short, Receiving!R!Whole
<1>10. Taken' /\ Counted' /\ Receiving!R!Short(call.pat, base, bfirst)'
  <2>1. Taken'
    BY <1>2, <1>6, <1>7, <1>8, TakenNext
  <2> QED
    BY <1>2, <1>9, <2>1, ShortNext DEF Counted, Raw
<1>11. phase' \in {"idle", "get", "wait"}
  BY <1>1, <1>2, EndPhase
<1>12. Types'
  BY <1>2, <1>5, <1>8, <1>11 DEF ReceiveInv, Types
<1>13. CASE how = "done"
  <2>1. phase' = "get" /\ result' = result
    BY <1>1, <1>2, <1>13
  <2>2. Reads
    BY <1>2, <2>1, NoRead DEF Reads
  <2> QED
    BY <1>10, <1>12, <2>1, <2>2 DEF ReceiveInv, InCall, InScan, InWait
<1>14. CASE how # "done"
  <2> DEFINE end == IF how = "closed" /\ Len(out) > had THEN "done" ELSE how
  <2>1. Receiving!End(end, out)
    BY <1>1, <1>14
  <2>2. bfirst' = bfirst
    BY <1>1, <1>3, <1>14
  <2> HIDE DEF end
  <2>3. Reads
    BY <1>2, <1>5, <1>6, <1>7, <1>9, <2>1, <2>2, EndReads DEF ReceiveInv, Reads
  <2>4. InCall' /\ InScan' /\ InWait'
    BY <1>2, <1>5, <1>10, <1>11, <2>1, EndPhase DEF InCall, InScan, InWait, Raw
  <2> QED
    BY <1>12, <2>3, <2>4 DEF ReceiveInv
<1> QED
  BY <1>13, <1>14

LEMMA LineStep ==
  ASSUME ReceiveInv, Receiving!RecvLine
  PROVE  ReceiveInv' /\ Reads
<1>1. PICK how \in {"done", "timeout", "closed", "reset"}, first \in 0..MaxText, last \in 0..MaxText :
        /\ Receiving!BufferGet(how, first, last)
        /\ bfirst' = first /\ blast' = last
        /\ IF how = "done"
             THEN phase' = "scan" /\ result' = result
             ELSE Receiving!End(how, out)
  BY DEF Receiving!RecvLine
<1>2. /\ phase = "get" /\ call.pat.kind = "line"
      /\ UNCHANGED <<text, arrived, call, base, out>>
  BY DEF Receiving!RecvLine, Receiving!net
<1>3. /\ first = bfirst /\ last \in Nat /\ blast <= last /\ last <= arrived
      /\ how # "done" => last = first /\ blast = bfirst
  BY <1>1, BufferFacts DEF ReceiveInv
<1>4. /\ base \in Nat /\ bfirst \in Nat /\ blast \in Nat /\ arrived \in Nat /\ MaxText \in Nat
      /\ base <= bfirst /\ bfirst <= blast /\ arrived <= MaxText
  BY CallTypes DEF ReceiveInv, Types
<1>5. /\ bfirst' = bfirst /\ bfirst' <= blast' /\ blast' <= arrived' /\ bfirst' <= MaxText
      /\ blast' \in Nat
  BY <1>1, <1>2, <1>3, <1>4
<1>6. phase' \in {"idle", "scan", "wait"}
  BY <1>1, EndPhase
<1>7. Types'
  BY <1>2, <1>5, <1>6 DEF ReceiveInv, Types
<1>8. InCall
  BY DEF ReceiveInv
<1>9. Taken' /\ Counted' /\ Receiving!R!Short(call.pat, base, bfirst)'
  <2>1. UNCHANGED <<text, base, bfirst, call, out>>
    BY <1>2, <1>5
  <2> QED
    BY <1>2, <1>8, <2>1 DEF InCall, Taken, Counted, Raw, Receiving!R!Lossy, Receiving!R!Lists,
                       Receiving!R!Kept, Receiving!R!Short, Receiving!R!NoLine
<1>10. CASE how = "done"
  <2>1. phase' = "scan" /\ result' = result
    BY <1>1, <1>10
  <2>2. Reads
    BY <1>2, <2>1, NoRead DEF Reads
  <2> QED
    BY <1>2, <1>7, <1>9, <2>1, <2>2 DEF ReceiveInv, InCall, InScan, InWait
<1>11. CASE how # "done"
  <2>1. Receiving!End(how, out) /\ blast' = bfirst'
    BY <1>1, <1>3, <1>11
  <2>2. PICK begin \in base..bfirst : /\ begin = base \/ Receiving!R!Lossy(call)
                                      /\ Receiving!R!Lists(out, call.pat, begin, bfirst)
    BY <1>2, <1>8 DEF InCall, Taken
  <2>3. Receiving!R!Short(call.pat, base, bfirst)
    BY <1>2, <1>8 DEF InCall
  <2>4. Reads
    BY <1>2, <1>4, <1>5, <1>11, <2>1, <2>2, <2>3, EndReads DEF ReceiveInv, Reads
  <2>5. InCall' /\ InScan' /\ InWait'
    BY <1>2, <1>9, <2>1, EndPhase DEF InCall, InScan, InWait, Raw
  <2> QED
    BY <1>7, <2>4, <2>5 DEF ReceiveInv
<1> QED
  BY <1>10, <1>11

LEMMA ScanByteStep ==
  ASSUME ReceiveInv, Receiving!ScanByte
  PROVE  ReceiveInv' /\ Reads
<1> DEFINE b == bfirst + 1
<1>1. /\ phase = "scan" /\ bfirst < blast /\ bfirst' = b
      /\ UNCHANGED <<text, arrived, blast, call, base>>
      /\ IF text[b] = "LF"
           THEN out' = out /\ Receiving!End("done", out)
           ELSE /\ out' = IF text[b] = "other" THEN Append(out, b) ELSE out
                /\ phase' = phase /\ result' = result
  BY DEF Receiving!ScanByte, Receiving!LineEnds, Receiving!net
<1>2. /\ base \in Nat /\ bfirst \in Nat /\ blast \in Nat /\ arrived \in Nat /\ MaxText \in Nat
      /\ base <= bfirst /\ bfirst <= blast /\ blast <= arrived /\ arrived <= MaxText
      /\ out \in Seq(Nat) /\ call.pat.kind = "line"
  BY <1>1, CallTypes DEF ReceiveInv, Types, InScan
<1>3. /\ b \in Nat /\ bfirst' = b /\ base <= bfirst' /\ bfirst' <= MaxText /\ bfirst' <= blast'
  BY <1>1, <1>2
<1>4. PICK begin \in base..bfirst : /\ begin = base \/ Receiving!R!Lossy(call)
                                    /\ Receiving!R!Lists(out, call.pat, begin, bfirst)
  BY <1>1 DEF ReceiveInv, InCall, Taken
<1>5. begin \in Nat /\ begin <= bfirst /\ begin \in base..bfirst'
  BY <1>2, <1>3
<1>6. Receiving!R!NoLine(base, bfirst)
  BY <1>1, <1>2 DEF ReceiveInv, InCall, Receiving!R!Short
<1>7. CASE text[b] = "LF"
  <2>1. out' = out /\ Receiving!End("done", out)
    BY <1>1, <1>7
  <2>2. Receiving!R!Lists(out, call.pat, begin, b)
    BY <1>2, <1>4, <1>5, <1>7, ListsSkip
  <2>3. Receiving!R!Whole(call.pat, base, b)
    <3>1. base < b /\ b - 1 = bfirst
      BY <1>2
    <3> QED
      BY <1>2, <1>6, <1>7, <3>1 DEF Receiving!R!Whole
  <2>4. Reads
    BY <1>1, <1>3, <1>4, <1>5, <2>1, <2>2, <2>3, EndReads DEF ReceiveInv, Reads
  <2>5. phase' = "idle"
    BY <2>1, EndPhase
  <2>6. Types'
    BY <1>1, <1>2, <1>3, <2>1, <2>5 DEF ReceiveInv, Types
  <2> QED
    BY <2>4, <2>5, <2>6 DEF ReceiveInv, InCall, InScan, InWait
<1>8. CASE text[b] # "LF"
  <2>1. /\ out' = IF text[b] = "other" THEN Append(out, b) ELSE out
        /\ phase' = "scan" /\ result' = result
    BY <1>1, <1>8
  <2>2. Receiving!R!Lists(out', call.pat, begin, b) /\ out' \in Seq(Nat)
    <3>1. CASE text[b] = "other"
      <4>1. Receiving!R!Lists(Append(out, b), call.pat, begin, b)
        BY <1>2, <1>4, <1>5, <3>1, ListsByte
      <4> QED
        BY <1>2, <1>3, <2>1, <3>1, <4>1
    <3>2. CASE text[b] # "other"
      <4>1. Receiving!R!Lists(out, call.pat, begin, b)
        BY <1>2, <1>4, <1>5, <3>2, ListsSkip
      <4> QED
        BY <1>2, <2>1, <3>2, <4>1
    <3> QED
      BY <3>1, <3>2
  <2>3. Taken'
    BY <1>1, <1>3, <1>4, <1>5, <2>2, TakenNext
  <2>4. Receiving!R!Short(call.pat, base, bfirst')
    <3>1. \A x \in base + 1 .. b : x = b \/ x \in base + 1 .. bfirst
      BY <1>2
    <3>2. Receiving!R!NoLine(base, b)
      BY <1>6, <1>8, <3>1 DEF Receiving!R!NoLine
    <3> QED
      BY <1>2, <1>3, <3>2 DEF Receiving!R!Short
  <2>5. Receiving!R!Short(call.pat, base, bfirst)'
    BY <1>1, <2>4, ShortNext
  <2>6. Types'
    BY <1>1, <1>2, <1>3, <2>1, <2>2 DEF ReceiveInv, Types
  <2>7. Reads
    BY <1>1, <2>1, NoRead DEF Reads
  <2> QED
    BY <1>1, <1>2, <2>1, <2>3, <2>5, <2>6, <2>7 DEF ReceiveInv, InCall, InScan, InWait, Counted, Raw
<1> QED
  BY <1>7, <1>8

LEMMA ScanEndStep ==
  ASSUME ReceiveInv, Receiving!ScanEnd
  PROVE  ReceiveInv' /\ Reads
<1>1. /\ phase = "scan" /\ phase' = "get"
      /\ UNCHANGED <<text, arrived, bfirst, blast, call, base, out, result>>
  BY DEF Receiving!ScanEnd, Receiving!net
<1>2. Types'
  BY <1>1 DEF ReceiveInv, Types
<1>3. InCall' /\ InScan' /\ InWait'
  BY <1>1 DEF ReceiveInv, InCall, InScan, InWait, Taken, Counted, Raw, Receiving!R!Lossy, Receiving!R!Lists,
              Receiving!R!Kept, Receiving!R!Short, Receiving!R!NoLine
<1>4. Reads
  BY <1>1, NoRead DEF Reads
<1> QED
  BY <1>2, <1>3, <1>4 DEF ReceiveInv

LEMMA ResumeStep ==
  ASSUME ReceiveInv, Receiving!Resume
  PROVE  ReceiveInv' /\ Reads
<1>1. /\ phase = "wait" /\ phase' = "get" /\ out' = Receiving!Part
      /\ UNCHANGED <<text, arrived, bfirst, blast, call, base, result>>
  BY DEF Receiving!Resume, Receiving!net
<1>2. /\ base \in Nat /\ bfirst \in Nat /\ base <= bfirst /\ out \in Seq(Nat)
      /\ call.fn \in {"receive", "receivePartial"}
  BY CallTypes DEF ReceiveInv, Types
<1>3. Taken /\ Counted /\ Receiving!R!Short(call.pat, base, bfirst)
  BY <1>1 DEF ReceiveInv, InCall
<1>4. out' \in Seq(Nat)
  BY <1>1, <1>2 DEF Receiving!Part
<1>5. Types'
  BY <1>1, <1>4 DEF ReceiveInv, Types
<1>6. Taken' /\ Counted'
  <2>1. CASE out' = out
    BY <1>1, <1>3, <2>1 DEF Taken, Counted, Raw, Receiving!R!Lossy, Receiving!R!Lists, Receiving!R!Kept
  <2>2. CASE out' # out
    <3>1. call.fn = "receivePartial" /\ out' = <<>>
      BY <1>1, <1>2, <2>2 DEF Receiving!Part
    <3>2. ~Raw
      BY <1>1, <2>2, <3>1 DEF ReceiveInv, InWait
    <3>3. Receiving!R!Lossy(call)
      BY <3>1, <3>2 DEF Receiving!R!Lossy, Raw
    <3>4. Receiving!R!Lists(<<>>, call.pat, bfirst, bfirst)
      BY <1>2, ListsNothing
    <3>5. bfirst \in base..bfirst'
      BY <1>1, <1>2
    <3>6. Taken'
      BY <1>1, <3>1, <3>3, <3>4, <3>5, TakenNext
    <3> QED
      BY <1>1, <3>2, <3>6 DEF Counted, Raw
  <2> QED
    BY <2>1, <2>2
<1>7. Receiving!R!Short(call.pat, base, bfirst)'
  BY <1>1, <1>3, ShortNext
<1>8. Reads
  BY <1>1, NoRead DEF Reads
<1> QED
  BY <1>1, <1>5, <1>6, <1>7, <1>8 DEF ReceiveInv, InCall, InScan, InWait

LEMMA NetworkStep ==
  ASSUME ReceiveInv, Receiving!Arrive \/ Receiving!Hangup
  PROVE  ReceiveInv' /\ Reads
<1>1. /\ UNCHANGED <<text, bfirst, blast, phase, call, base, out, result>>
      /\ arrived' = arrived \/ (arrived < MaxText /\ arrived' = arrived + 1)
  BY DEF Receiving!Arrive, Receiving!Hangup
<1>2. Types'
  <2>1. arrived' \in Nat /\ arrived <= arrived' /\ arrived' <= MaxText
    BY <1>1, CallTypes DEF ReceiveInv, Types
  <2>2. blast' <= arrived'
    BY <1>1, <2>1 DEF ReceiveInv, Types
  <2> QED
    BY <1>1, <2>1, <2>2 DEF ReceiveInv, Types
<1>3. InCall' /\ InScan' /\ InWait'
  BY <1>1, Untouched DEF ReceiveInv
<1>4. Reads
  BY <1>1 DEF Reads, Receiving!R!vars
<1> QED
  BY <1>2, <1>3, <1>4 DEF ReceiveInv
-----------------------------------------------------------------------------
(* Behaviours of both directions.                                          *)

LEMMA ReceiveStart == MCInit => ReceiveInv
<1> SUFFICES ASSUME MCInit PROVE ReceiveInv
  OBVIOUS
<1>1. /\ text \in [1..MaxText -> {"CR", "LF", "other"}] /\ arrived = 0 /\ bfirst = 0 /\ blast = 0
      /\ phase = "idle" /\ call \in Calls /\ base = 0 /\ out = <<>>
  BY DEF MCInit, Receiving!Init, Receiving!R!Kind
<1>2. MaxText \in Nat
  BY ReceivingAssumption DEF Receiving!ReceiveStreamAssumption
<1>3. Types
  BY <1>1, <1>2 DEF Types
<1> QED
  BY <1>1, <1>3 DEF ReceiveInv, InCall, InScan, InWait

LEMMA ReceiveNext ==
  ASSUME ReceiveInv, [MCNext]_<<part, vars, received>>
  PROVE  ReceiveInv' /\ Reads
<1>1. CASE Receives(Receiving!Next)
  BY <1>1, CallStep, RawStep, AllStep, LineStep, ScanByteStep, ScanEndStep, ResumeStep, NetworkStep
  DEF Receives, Receiving!Next, Receiving!Attempt
<1>2. CASE UNCHANGED received
  <2>1. UNCHANGED <<text, arrived, bfirst, blast, phase, call, base, out, result>>
    BY <1>2 DEF received
  <2>2. Types'
    BY <2>1 DEF ReceiveInv, Types
  <2>3. InCall' /\ InScan' /\ InWait'
    BY <2>1, Untouched DEF ReceiveInv
  <2>4. Reads
    BY <2>1 DEF Reads, Receiving!R!vars
  <2> QED
    BY <2>2, <2>3, <2>4 DEF ReceiveInv
<1> QED
  BY <1>1, <1>2 DEF MCNext, Sends

\* The invariant the other two follow from.
THEOREM ReceiveInvariant == MCSpec => []ReceiveInv
BY ReceiveStart, ReceiveNext, PTL DEF MCSpec

\* A receive that waits has taken all there was in the buffer, and the bytes it has taken do
\* not complete its pattern: it never waits for the network with the answer at hand
\* (copas.lua:117-146, buffer.c:182-238).
THEOREM NoIdleWait == MCSpec => []WaitsOnlyForNetwork
<1>1. ReceiveInv => WaitsOnlyForNetwork
  BY DEF ReceiveInv, InWait, InCall, WaitsOnlyForNetwork, Receiving!WaitsOnlyForNetwork
<1> QED
  BY <1>1, ReceiveInvariant, PTL

\* Whatever the pieces in which a stream arrives, the size of the buffer and the number of
\* attempts a call takes, what the calls return is a reading of ByteReader: every byte once,
\* in order, up to where the pattern ends (copas.lua:117-146, buffer.c:154-269).
THEOREM ReceiveImplementsByteReader == MCSpec => ImplementsByteReader
<1>1. MCInit => Receiving!R!Init
  BY DEF MCInit, Receiving!Init, Receiving!R!Init
<1>2. ReceiveInv /\ [MCNext]_<<part, vars, received>> => [Receiving!R!Next]_Receiving!R!vars
  BY ReceiveNext DEF Reads
<1> QED
  BY <1>1, <1>2, ReceiveInvariant, PTL
  DEF MCSpec, ImplementsByteReader, Receiving!ImplementsByteReader, Receiving!R!Spec
===============================================================================
