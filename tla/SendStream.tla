----------------------------- MODULE SendStream -----------------------------
(***************************************************************************)
(* Sending to a socket: copas.send over the unbuffered send of LuaSocket   *)
(* (buffer.c) and a socket that accepts what fits in its send buffer.      *)
(*                                                                         *)
(* The data is a string of Size bytes, named by their indices; from and to *)
(* are string indices in the manner of Lua, negative ones counting from    *)
(* the end.  sent lists the bytes the socket accepted during the call.     *)
(***************************************************************************)
EXTENDS Integers, Sequences

CONSTANTS Size,       \* length of the string
          From, To,   \* the indices send is called with; -1 for to is the default
          StepSize,   \* STEPSIZE
          MaxRoom,    \* capacity of the socket's send buffer
          NIL

ASSUME SendStreamAssumption ==
  /\ Size \in Nat /\ From \subseteq Int /\ To \subseteq Int
  /\ StepSize \in Nat \ {0} /\ MaxRoom \in Nat
  /\ NIL \notin Int

VARIABLES room, conn,       \* space in the send buffer; open, closed (by another
                            \* coroutine) or reset (by the peer)
          pc,               \* idle; try: before client:send; raw: in sendraw;
                            \* swap: suspended by the extra yield; wait: by a timeout
          from, to,         \* arguments of the call
          lastIndex,        \* copas.send's lastIndex
          start, stop,      \* buffer_meth_send's start and end
          total,            \* sendraw's total
          err,              \* result of the last attempt
          sent, ret

net  == <<room, conn>>
args == <<from, to>>
vars == <<net, pc, args, lastIndex, start, stop, total, err, sent, ret>>

MinOf(a, b) == IF a < b THEN a ELSE b
MaxOf(a, b) == IF a < b THEN b ELSE a

\* A string index, made positive.
Index(i) == IF i < 0 THEN Size + i + 1 ELSE i
First(i) == MaxOf(1, Index(i))
Last(i)  == MinOf(Size, Index(i))

NoResult == [index |-> NIL, err |-> "none", last |-> NIL]

Init == /\ room = MaxRoom /\ conn = "open"
        /\ pc = "idle"
        /\ from \in From /\ to \in To
        /\ lastIndex = 0 /\ start = 0 /\ stop = 0 /\ total = 0
        /\ err = "none" /\ sent = <<>> /\ ret = NoResult
-----------------------------------------------------------------------------
Call(f, t) ==
  /\ pc = "idle"
  /\ pc' = "try"
  /\ from' = f /\ to' = t /\ lastIndex' = f - 1
  /\ sent' = <<>>
  /\ UNCHANGED <<net, start, stop, total, err, ret>>

\* What send returns after an attempt: the index of the last byte sent, alone or
\* after nil and the error.
Result(e, index) == IF e = "done" THEN [index |-> index, err |-> e, last |-> NIL]
                                  ELSE [index |-> NIL, err |-> e, last |-> index]

\* The end of an attempt: in one case of ten an extra yield, then return or yield.
EndAttempt(e, index) ==
  /\ err' = e /\ lastIndex' = index
  /\ \/ pc' = "swap" /\ UNCHANGED ret
     \/ e = "timeout" /\ pc' = "wait" /\ UNCHANGED ret
     \/ e # "timeout" /\ pc' = "idle" /\ ret' = Result(e, index)

\* (The variant that starts from the beginning each time.)
Restart == from

Continue == lastIndex + 1

\* buffer_meth_send up to sendraw; nothing is sent when the range is empty.
Try ==
  /\ pc = "try"
  /\ start' = First(Continue) /\ stop' = Last(to)
  /\ total' = 0
  /\ IF start' <= stop'
       THEN pc' = "raw" /\ UNCHANGED <<err, lastIndex, ret>>
       ELSE EndAttempt("done", start' - 1)
  /\ UNCHANGED <<net, args, sent>>

\* send of a socket that does not block.
Put(step, e, done) == CASE conn # "open" -> e = conn /\ done = 0
                        [] room > 0      -> e = "done" /\ done \in 1..MinOf(step, room)
                        [] OTHER         -> e = "timeout" /\ done = 0

\* (The variant that takes positions for offsets.)
SegmentFrom(i, j) == [k \in 1..(j - i) |-> i + k - 1]

\* The bytes i+1..j.
Segment(i, j) == [k \in 1..(j - i) |-> i + k]

\* (The variant that does not count the last step.)
SentBefore(done) == total + start - 1

SentUpTo(done) == total + done + start - 1

\* One iteration of sendraw.
SendStep ==
  LET count == stop - start + 1
      step  == MinOf(count - total, StepSize)
  IN /\ pc = "raw"
     /\ \E e \in {"done", "timeout", "closed", "reset"}, done \in 0..step :
          /\ Put(step, e, done)
          /\ room' = room - done
          /\ sent' = sent \o Segment(start + total - 1, start + total - 1 + done)
          /\ total' = total + done
          /\ IF total' < count /\ e = "done"
               THEN UNCHANGED <<pc, err, lastIndex, ret>>
               ELSE EndAttempt(e, SentUpTo(done))
     /\ UNCHANGED <<conn, args, start, stop>>

\* (The variant that takes every attempt before the extra yield for a timeout.)
SwappedWaits ==
  /\ pc = "swap"
  /\ pc' = "wait"
  /\ UNCHANGED <<net, args, lastIndex, start, stop, total, err, sent, ret>>

\* Resumed from the extra yield: report the attempt made before it, or wait.
ResumeSwapped ==
  /\ pc = "swap"
  /\ IF err = "timeout" THEN pc' = "wait" /\ UNCHANGED ret
                        ELSE pc' = "idle" /\ ret' = Result(err, lastIndex)
  /\ UNCHANGED <<net, args, lastIndex, start, stop, total, err, sent>>

Resume == /\ pc = "wait"
          /\ pc' = "try"
          /\ UNCHANGED <<net, args, lastIndex, start, stop, total, err, sent, ret>>
-----------------------------------------------------------------------------
Drain == /\ conn = "open" /\ room < MaxRoom
         /\ \E r \in room + 1..MaxRoom : room' = r
         /\ UNCHANGED <<conn, pc, args, lastIndex, start, stop, total, err, sent, ret>>

Hangup == /\ conn = "open"
          /\ conn' \in {"closed", "reset"}
          /\ UNCHANGED <<room, pc, args, lastIndex, start, stop, total, err, sent, ret>>

Work == Try \/ SendStep

Next == \/ \E f \in From, t \in To : Call(f, t)
        \/ Work \/ ResumeSwapped \/ Resume \/ Drain \/ Hangup

Spec == Init /\ [][Next]_vars

\* The code between two yields runs to its end, the dispatcher resumes a coroutine
\* whose socket is writable (Copas: ReadyIsResumed), and the peer goes on reading
\* or hangs up.
Writable == room > 0 \/ conn # "open"
FairSpec == /\ Spec
            /\ WF_vars(Work) /\ WF_vars(Drain)
            /\ WF_vars(Writable /\ (Resume \/ ResumeSwapped))
-----------------------------------------------------------------------------
Errors == {"done", "timeout", "closed", "reset"}

TypeOK ==
  /\ room \in 0..MaxRoom /\ conn \in {"open", "closed", "reset"}
  /\ pc \in {"idle", "try", "raw", "swap", "wait"}
  /\ from \in From /\ to \in To
  /\ lastIndex \in Int /\ start \in Nat /\ stop \in Int /\ total \in Nat
  /\ err \in Errors \cup {"none"}
  /\ sent \in Seq(1..Size)
  /\ ret \in [index : Nat \cup {NIL}, err : Errors \cup {"none"}, last : Nat \cup {NIL}]

\* However often send had to wait or yielded, and in whatever pieces the socket took
\* them, the bytes are those from the first index on, none left out, repeated or out
\* of order, and none behind the last index (copas.lua:150-170, buffer.c:76-104).
SentInOrder == /\ sent = Segment(First(from) - 1, First(from) - 1 + Len(sent))
               /\ sent # <<>> => sent[Len(sent)] <= Last(to)

\* What send returns tells what was sent: all of it, or the index of the last byte,
\* from which the caller may go on.
ResultTellsSent ==
  pc = "idle" /\ ret # NoResult =>
     LET end == First(from) - 1 + Len(sent) IN
     IF ret.err = "done" THEN ret.index = end /\ end >= Last(to)
                         ELSE ret.err # "timeout" /\ ret.last = end

\* Both, at every moment of a send.
SendSound == SentInOrder /\ ResultTellsSent

\* If the peer goes on reading, every send returns.
SendReturns == pc # "idle" ~> pc = "idle"
=============================================================================
