----------------------------- MODULE SendProofs -----------------------------
(***************************************************************************)
(* Proofs about SendStream, for strings and indices of every value.  The   *)
(* invariant says, for every place a call can be at, how the indices kept  *)
(* by the two layers relate to what the socket has accepted.               *)
(***************************************************************************)
EXTENDS SendStream, TLAPS

\* The index of the last byte sent by the call in progress.
Reached == First(from) - 1 + Len(sent)

Trying  == pc = "try" => First(lastIndex + 1) = Reached + 1
Sending == pc = "raw" => /\ start >= 1 /\ stop = Last(to)
                         /\ start + total = Reached + 1
                         /\ start + total <= stop
Resting == pc \in {"swap", "wait"} => /\ lastIndex = Reached
                                      /\ err \in Errors
                                      /\ err = "done" => Reached >= Last(to)
                                      /\ pc = "wait" => err = "timeout"

IInv == TypeOK /\ SentInOrder /\ ResultTellsSent /\ Trying /\ Sending /\ Resting

\* A segment has the bytes between its bounds and ends with the upper one.
LEMMA SegmentType ==
  ASSUME NEW i \in Nat, NEW j \in Nat, i <= j, NEW m \in Int, j <= m
  PROVE  /\ Segment(i, j) \in Seq(1..m) /\ Len(Segment(i, j)) = j - i
         /\ Segment(i, j) # <<>> => Segment(i, j)[Len(Segment(i, j))] = j
<1>1. Segment(i, j) \in Seq(1..m) /\ Len(Segment(i, j)) = j - i
  BY DEF Segment
<1>2. Segment(i, j) # <<>> => j - i > 0
  BY <1>1
<1>3. QED  BY <1>1, <1>2 DEF Segment

\* The segments of the string follow each other without a gap.
LEMMA SegmentJoin ==
  ASSUME NEW i \in Nat, NEW j \in Nat, NEW k \in Nat, i <= j, j <= k
  PROVE  Segment(i, j) \o Segment(j, k) = Segment(i, k)
<1>1. i <= k
  OBVIOUS
<1>2. Segment(i, j) \in Seq(1..k) /\ Len(Segment(i, j)) = j - i
  BY DEF Segment
<1>3. Segment(j, k) \in Seq(1..k) /\ Len(Segment(j, k)) = k - j
  BY DEF Segment
<1>4. Segment(i, k) \in Seq(1..k) /\ Len(Segment(i, k)) = k - i
  BY <1>1 DEF Segment
<1>5. QED  BY <1>2, <1>3, <1>4 DEF Segment

\* What an attempt ends with, when the socket took the bytes up to index in it.
LEMMA EndOfAttempt ==
  ASSUME NEW e \in Errors, NEW index \in Nat, EndAttempt(e, index),
         UNCHANGED args, ret \in [index : Nat \cup {NIL}, err : Errors \cup {"none"}, last : Nat \cup {NIL}],
         index = Reached', e = "done" => index >= Last(to)
  PROVE  /\ lastIndex' \in Int /\ err' \in Errors
         /\ pc' \in {"idle", "swap", "wait"}
         /\ ret' \in [index : Nat \cup {NIL}, err : Errors \cup {"none"}, last : Nat \cup {NIL}]
         /\ ResultTellsSent' /\ Resting'
<1>1. Result(e, index) \in [index : Nat \cup {NIL}, err : Errors \cup {"none"}, last : Nat \cup {NIL}]
  BY DEF Result, Errors
<1>2. Last(to)' = Last(to)
  BY DEF Last, Index, MinOf, args
<1>3. ResultTellsSent'
  <2>1. SUFFICES ASSUME pc' = "idle"
                 PROVE  IF ret'.err = "done" THEN ret'.index = Reached' /\ Reached' >= Last(to)
                                             ELSE ret'.err # "timeout" /\ ret'.last = Reached'
    BY <1>2 DEF ResultTellsSent, Reached, First, Index, MaxOf, args
  <2>2. e # "timeout" /\ ret' = Result(e, index)
    BY <2>1 DEF EndAttempt
  <2>3. QED  BY <2>2 DEF Result
<1>4. Resting'
  BY <1>2 DEF EndAttempt, Resting, Errors
<1>5. QED  BY <1>1, <1>3, <1>4 DEF EndAttempt

\* The indices computed from the arguments are integers within their bounds.
LEMMA IndexTypes ==
  ASSUME NEW f \in From, NEW t \in To
  PROVE  /\ Index(f) \in Int /\ Index(t) \in Int
         /\ First(f) \in Nat /\ First(f) >= 1 /\ Last(t) \in Int /\ Last(t) <= Size
BY SendStreamAssumption DEF Index, First, Last, MinOf, MaxOf

\* The invariant holds initially.
LEMMA Initially == Init => IInv
<1> SUFFICES ASSUME Init PROVE IInv  OBVIOUS
<1>1. TypeOK
  BY SendStreamAssumption DEF Init, TypeOK, NoResult, Errors
<1>2. SentInOrder
  BY IndexTypes DEF Init, SentInOrder, Segment
<1>3. QED  BY <1>1, <1>2 DEF Init, IInv, ResultTellsSent, Trying, Sending, Resting

\* Every step preserves it.
LEMMA Inductive == IInv /\ [Next]_vars => IInv'
<1> SUFFICES ASSUME IInv, [Next]_vars PROVE IInv'  OBVIOUS
<1> USE SendStreamAssumption
<1>1. TypeOK /\ SentInOrder /\ ResultTellsSent /\ Trying /\ Sending /\ Resting
  BY DEF IInv
<1>2. from \in From /\ to \in To /\ sent \in Seq(1..Size) /\ Len(sent) \in Nat
  BY <1>1 DEF TypeOK
<1>3. /\ First(from) \in Nat /\ First(from) >= 1 /\ Last(to) \in Int /\ Last(to) <= Size
      /\ Reached \in Nat
  BY <1>2, IndexTypes DEF Reached
<1>4. ASSUME NEW f \in From, NEW t \in To, Call(f, t)  PROVE IInv'
  <2>1. TypeOK'
    BY <1>1, <1>4 DEF Call, TypeOK, net
  <2>2. First(f) \in Nat /\ First(f) >= 1
    BY IndexTypes
  <2>3. SentInOrder'
    BY <2>2, <1>4 DEF Call, SentInOrder, Segment
  <2>4. Trying'
    <3>1. from' = f /\ lastIndex' = f - 1 /\ Len(sent') = 0 /\ f \in Int
      BY <1>4 DEF Call
    <3>2. First(lastIndex + 1)' = First(f) /\ First(from)' = First(f)
      BY <3>1 DEF First, Index, MaxOf
    <3>3. QED  BY <3>1, <3>2, <2>2 DEF Trying, Reached
  <2>5. ResultTellsSent' /\ Sending' /\ Resting'
    BY <1>4 DEF Call, ResultTellsSent, Sending, Resting
  <2>6. QED  BY <2>1, <2>3, <2>4, <2>5 DEF IInv
<1>5. CASE Try
  <2>1. /\ start' = Reached + 1 /\ stop' = Last(to) /\ total' = 0
        /\ UNCHANGED <<net, args, sent>>
    BY <1>1, <1>5 DEF Try, Continue, Trying
  <2>2. /\ SentInOrder' /\ Reached' = Reached /\ Last(to)' = Last(to)
    BY <1>1, <2>1 DEF SentInOrder, Reached, First, Last, Index, MaxOf, MinOf, args, Segment
  <2>3. Trying'
    BY <1>5 DEF Try, EndAttempt, Trying
  <2>4. CASE start' <= stop'
    <3>1. pc' = "raw" /\ UNCHANGED <<err, lastIndex, ret>>
      BY <1>5, <2>4 DEF Try
    <3>2. TypeOK'
      BY <1>1, <1>3, <2>1, <3>1 DEF TypeOK, net, args
    <3>3. QED  BY <1>3, <2>1, <2>2, <2>3, <2>4, <3>1, <3>2
               DEF IInv, ResultTellsSent, Sending, Resting
  <2>5. CASE ~(start' <= stop')
    <3>1. EndAttempt("done", Reached)
      BY <1>3, <1>5, <2>1, <2>5 DEF Try
    <3>2. Reached >= Last(to)
      BY <1>3, <2>1, <2>5
    <3>3. /\ lastIndex' \in Int /\ err' \in Errors /\ pc' \in {"idle", "swap", "wait"}
          /\ ret' \in [index : Nat \cup {NIL}, err : Errors \cup {"none"}, last : Nat \cup {NIL}]
          /\ ResultTellsSent' /\ Resting'
      BY <1>1, <1>3, <2>1, <2>2, <3>1, <3>2, EndOfAttempt DEF TypeOK, Errors
    <3>4. TypeOK'
      BY <1>1, <1>3, <2>1, <3>3 DEF TypeOK, net, args
    <3>5. QED  BY <2>2, <2>3, <3>3, <3>4 DEF IInv, Sending
  <2>6. QED  BY <2>4, <2>5
<1>6. CASE SendStep
  <2> DEFINE count == stop - start + 1
             step  == MinOf(count - total, StepSize)
  <2>1. PICK e \in Errors, done \in 0..step :
          /\ Put(step, e, done)
          /\ room' = room - done
          /\ sent' = sent \o Segment(start + total - 1, start + total - 1 + done)
          /\ total' = total + done
          /\ IF total' < count /\ e = "done"
               THEN UNCHANGED <<pc, err, lastIndex, ret>>
               ELSE EndAttempt(e, SentUpTo(done))
    BY <1>6 DEF SendStep, Errors
  <2>2. pc = "raw" /\ UNCHANGED <<conn, args, start, stop>>
    BY <1>6 DEF SendStep
  <2>3. /\ start \in Nat /\ start >= 1 /\ stop = Last(to) /\ total \in Nat
        /\ start + total = Reached + 1 /\ start + total <= stop
    BY <1>1, <2>2 DEF Sending, TypeOK
  <2>4. /\ step \in Nat /\ done \in Nat /\ done <= count - total
        /\ start + total - 1 = Reached /\ Reached + done <= Last(to)
    BY <1>3, <2>3 DEF MinOf
  <2>5. room' \in 0..MaxRoom
    <3>1. room \in Nat /\ room <= MaxRoom /\ MaxRoom \in Nat
      BY <1>1 DEF TypeOK
    <3>2. done <= room
      <4>1. \/ conn # "open" /\ done = 0
            \/ room > 0 /\ done \in 1..MinOf(step, room)
            \/ ~(room > 0) /\ done = 0
        BY <2>1 DEF Put
      <4> HIDE DEF step
      <4>2. QED  BY <4>1, <3>1, <2>4 DEF MinOf
    <3>3. QED  BY <3>1, <3>2, <2>1, <2>4
  <2>6. /\ sent' = sent \o Segment(Reached, Reached + done)
        /\ sent = Segment(First(from) - 1, Reached)
    BY <1>1, <2>1, <2>3, <2>4 DEF SentInOrder, Reached
  <2>7. /\ First(from) - 1 \in Nat /\ First(from) - 1 <= Reached /\ Reached + done \in Nat
        /\ Reached <= Reached + done /\ First(from) - 1 <= Reached + done
    BY <1>2, <1>3, <2>4 DEF Reached
  <2>8. sent' = Segment(First(from) - 1, Reached + done)
    <3>1. Segment(First(from) - 1, Reached) \o Segment(Reached, Reached + done)
             = Segment(First(from) - 1, Reached + done)
      BY <1>3, <2>4, <2>7, SegmentJoin
    <3>2. QED  BY <2>6, <3>1
  <2>9. /\ sent' \in Seq(1..Size)
        /\ Len(sent') = Reached + done - (First(from) - 1)
        /\ sent' # <<>> => sent'[Len(sent')] <= Last(to)
    <3>1. PICK a \in Nat, b \in Nat : a = First(from) - 1 /\ b = Reached + done /\ a <= b
      BY <2>7
    <3>2. sent' = Segment(a, b) /\ b <= Last(to) /\ b <= Size /\ Size \in Int
      BY <1>3, <2>4, <2>8, <3>1
    <3>3. /\ sent' \in Seq(1..Size) /\ Len(sent') = b - a
          /\ sent' # <<>> => sent'[Len(sent')] = b
      <4>1. /\ Segment(a, b) \in Seq(1..Size) /\ Len(Segment(a, b)) = b - a
            /\ Segment(a, b) # <<>> => Segment(a, b)[Len(Segment(a, b))] = b
        BY <3>1, <3>2, SegmentType
      <4>2. QED  BY <3>2, <4>1
    <3>4. Len(sent') = Reached + done - (First(from) - 1)
      BY <1>3, <2>4, <3>1, <3>3
    <3>5. QED  BY <3>2, <3>3, <3>4
  <2>10. /\ First(from)' = First(from) /\ Last(to)' = Last(to)
    BY <2>2 DEF First, Last, Index, MaxOf, MinOf, args
  <2>11. Reached' = Reached + done
    <3>1. Reached' = First(from) - 1 + Len(sent')
      BY <2>10 DEF Reached
    <3>2. QED  BY <1>3, <2>4, <2>9, <3>1
  <2>12. SentInOrder'
    <3>1. sent' = Segment(First(from)' - 1, First(from)' - 1 + Len(sent'))
      BY <1>3, <2>7, <2>8, <2>9, <2>10
    <3>2. sent' # <<>> => sent'[Len(sent')] <= Last(to)'
      BY <2>9, <2>10
    <3>3. QED
      BY <3>1, <3>2 DEF SentInOrder, Segment, First, Last, Index, MaxOf, MinOf
  <2>13. Trying'
    BY <2>1, <2>2 DEF EndAttempt, Trying
  <2>14. CASE total' < count /\ e = "done"
    <3>1. UNCHANGED <<pc, err, lastIndex, ret>>
      BY <2>1, <2>14
    <3>2. TypeOK'
      BY <1>1, <2>1, <2>2, <2>3, <2>4, <2>5, <2>9, <3>1 DEF TypeOK, args
    <3>3. start' >= 1 /\ stop' = Last(to)' /\ start' + total' = Reached' + 1 /\ start' + total' <= stop'
      <4>1. start' = start /\ stop' = stop /\ total' = total + done /\ total' < stop - start + 1
        BY <2>1, <2>2, <2>14
      <4> HIDE DEF count, step
      <4>2. start + total + done = Reached + done + 1
        BY <1>3, <2>3, <2>4
      <4>3. QED  BY <1>3, <2>3, <2>4, <2>10, <2>11, <4>1, <4>2
    <3>4. QED  BY <2>2, <2>12, <2>13, <3>1, <3>2, <3>3 DEF IInv, ResultTellsSent, Sending, Resting
  <2>15. CASE ~(total' < count /\ e = "done")
    <3>1. EndAttempt(e, Reached')
      <4>1. SentUpTo(done) = Reached'
        BY <1>3, <2>3, <2>4, <2>11 DEF SentUpTo
      <4>2. QED  BY <2>1, <2>15, <4>1
    <3>2. Reached' \in Nat /\ (e = "done" => Reached' >= Last(to))
      BY <1>3, <2>1, <2>3, <2>4, <2>7, <2>11, <2>15
    <3>3. /\ lastIndex' \in Int /\ err' \in Errors /\ pc' \in {"idle", "swap", "wait"}
          /\ ret' \in [index : Nat \cup {NIL}, err : Errors \cup {"none"}, last : Nat \cup {NIL}]
          /\ ResultTellsSent' /\ Resting'
      BY <1>1, <2>2, <3>1, <3>2, EndOfAttempt DEF TypeOK
    <3>4. TypeOK'
      BY <1>1, <2>1, <2>2, <2>3, <2>4, <2>5, <2>9, <3>3 DEF TypeOK, args
    <3>5. QED  BY <2>12, <2>13, <3>3, <3>4 DEF IInv, Sending
  <2>16. QED  BY <2>14, <2>15
<1>7. CASE ResumeSwapped
  <2>1. /\ pc = "swap" /\ UNCHANGED <<net, args, lastIndex, start, stop, total, err, sent>>
    BY <1>7 DEF ResumeSwapped
  <2>2. lastIndex = Reached /\ err \in Errors /\ (err = "done" => Reached >= Last(to))
    BY <1>1, <2>1 DEF Resting
  <2>3. SentInOrder' /\ Reached' = Reached /\ Last(to)' = Last(to)
    BY <1>1, <2>1 DEF SentInOrder, Reached, First, Last, Index, MaxOf, MinOf, args, Segment
  <2>4. ret' \in [index : Nat \cup {NIL}, err : Errors \cup {"none"}, last : Nat \cup {NIL}]
    BY <1>1, <1>3, <1>7, <2>2 DEF ResumeSwapped, Result, TypeOK, Errors
  <2>5. TypeOK'
    BY <1>1, <1>7, <2>1, <2>4 DEF ResumeSwapped, TypeOK, net, args
  <2>6. Resting' /\ Trying' /\ Sending'
    BY <1>7, <2>1, <2>2, <2>3 DEF ResumeSwapped, Resting, Trying, Sending
  <2>7. ResultTellsSent'
    <3>1. SUFFICES ASSUME pc' = "idle"
                   PROVE  IF ret'.err = "done" THEN ret'.index = Reached' /\ Reached' >= Last(to)'
                                               ELSE ret'.err # "timeout" /\ ret'.last = Reached'
      BY DEF ResultTellsSent, Reached, Last, First, Index, MaxOf, MinOf
    <3>2. err # "timeout" /\ ret' = Result(err, lastIndex)
      BY <1>7, <3>1 DEF ResumeSwapped
    <3>3. QED  BY <2>2, <2>3, <3>2 DEF Result
  <2>8. QED  BY <2>3, <2>5, <2>6, <2>7 DEF IInv
<1>8. CASE Resume
  <2>1. /\ pc = "wait" /\ pc' = "try"
        /\ UNCHANGED <<net, args, lastIndex, start, stop, total, err, sent, ret>>
    BY <1>8 DEF Resume
  <2>2. lastIndex = Reached
    BY <1>1, <2>1 DEF Resting
  <2>3. SentInOrder' /\ Reached' = Reached
    BY <1>1, <2>1 DEF SentInOrder, Reached, First, Last, Index, MaxOf, MinOf, args, Segment
  <2>4. First(lastIndex + 1)' = Reached + 1
    BY <1>3, <2>1, <2>2 DEF First, Index, MaxOf
  <2>5. TypeOK'
    BY <1>1, <2>1 DEF TypeOK, net, args
  <2>6. QED  BY <2>1, <2>3, <2>4, <2>5 DEF IInv, Trying, Sending, Resting, ResultTellsSent
<1>9. ASSUME \/ Drain \/ Hangup \/ UNCHANGED vars  PROVE IInv'
  <2>1. UNCHANGED <<pc, args, lastIndex, start, stop, total, err, sent, ret>>
    BY <1>9 DEF Drain, Hangup, vars
  <2>2. room' \in 0..MaxRoom /\ conn' \in {"open", "closed", "reset"}
    BY <1>1, <1>9 DEF Drain, Hangup, vars, net, TypeOK
  <2>3. TypeOK'
    BY <1>1, <2>1, <2>2 DEF TypeOK, args
  <2>4. /\ First(from)' = First(from) /\ Last(to)' = Last(to) /\ Reached' = Reached
        /\ First(lastIndex + 1)' = First(lastIndex + 1)
    BY <2>1 DEF Reached, First, Last, Index, MaxOf, MinOf, args
  <2>5. SentInOrder'
    BY <1>1, <2>1 DEF SentInOrder, First, Last, Index, MaxOf, MinOf, args, Segment
  <2>6. ResultTellsSent'
    BY <1>1, <2>1 DEF ResultTellsSent, First, Last, Index, MaxOf, MinOf, args
  <2>7. Trying' /\ Sending' /\ Resting'
    BY <1>1, <2>1, <2>4 DEF Trying, Sending, Resting
  <2>8. QED  BY <2>3, <2>5, <2>6, <2>7 DEF IInv
<1>10. QED  BY <1>4, <1>5, <1>6, <1>7, <1>8, <1>9 DEF Next, Work

\* The inductive invariant holds of every behaviour.
THEOREM Invariant == Spec => []IInv
BY Initially, Inductive, PTL DEF Spec

\* The variables of SendStream have their types, in every instance.
THEOREM TypeCorrect == Spec => []TypeOK
<1>1. IInv => TypeOK  BY DEF IInv
<1>2. QED  BY <1>1, Invariant, PTL

\* The bytes of the range are sent in order, none twice and none left out, for every
\* string, all indices and every way the socket takes them.
THEOREM SendsInOrder == Spec => []SentInOrder
<1>1. IInv => SentInOrder  BY DEF IInv
<1>2. QED  BY <1>1, Invariant, PTL

\* The index send returns is that of the last byte the socket accepted.
THEOREM ResultIsTrue == Spec => []ResultTellsSent
<1>1. IInv => ResultTellsSent  BY DEF IInv
<1>2. QED  BY <1>1, Invariant, PTL

\* At every moment of a send, what was sent and what it returns agree with its arguments.
THEOREM SendIsSound == Spec => []SendSound
<1>1. SentInOrder /\ ResultTellsSent => SendSound  BY DEF SendSound
<1>2. QED  BY <1>1, SendsInOrder, ResultIsTrue, PTL
=============================================================================
