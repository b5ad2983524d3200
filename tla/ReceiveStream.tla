--------------------------- MODULE ReceiveStream ----------------------------
(***************************************************************************)
(* Receiving from a socket: copas.receive and copas.receivePartial over    *)
(* the buffered receive of LuaSocket (buffer.c) and a socket that gives    *)
(* what has arrived, says timeout when nothing has, and reports the end of *)
(* the connection (wsocket.c).                                             *)
(*                                                                         *)
(* Bytes are named by their positions in the stream.  The buffer's data    *)
(* is the segment bfirst+1..blast of the stream (first = last when it is   *)
(* empty); out is the luaL_Buffer the call collects its result in.         *)
(***************************************************************************)
EXTENDS Integers, Sequences, Functions

CONSTANTS MaxText,   \* bytes the peer can send
          BufSize,   \* BUF_SIZE
          Calls      \* the calls made: records of a function and a pattern

ReceiveStreamAssumption ==
  /\ MaxText \in Nat /\ BufSize \in Nat \ {0}
  /\ Calls \subseteq [fn : {"receive", "receivePartial"},
                      pat : [kind : {"line", "all"}, n : {0}] \cup [kind : {"raw"}, n : Nat]]

VARIABLES
  text,           \* the kinds of the bytes the peer sends
  arrived,        \* bytes that have reached the socket
  conn,           \* open, or ended by the peer: closed, reset
  bfirst, blast,  \* the buffer
  pc,             \* idle; get: before buffer_get; scan: in recvline's inner
                  \* loop; wait: suspended
  call,           \* the call in progress, or the last one
  base,           \* where in the stream it began
  out, had,       \* its result so far, and how much of it this attempt began with
  ret             \* the last call that returned and its result

net  == <<text, arrived, conn>>
vars == <<net, bfirst, blast, pc, call, base, out, had, ret>>

R == INSTANCE ByteReader WITH pos <- (IF pc = "idle" THEN bfirst ELSE base)

MinOf(a, b) == IF a < b THEN a ELSE b

Init == /\ text \in [1..MaxText -> R!Kind]
        /\ arrived = 0 /\ conn = "open"
        /\ bfirst = 0 /\ blast = 0
        /\ pc = "idle" /\ call \in Calls /\ base = 0
        /\ out = <<>> /\ had = 0
        /\ ret = R!NoResult
-----------------------------------------------------------------------------
Call(c) == /\ pc = "idle"
           /\ pc' = "get"
           /\ call' = c /\ base' = bfirst
           /\ out' = <<>> /\ had' = 0
           /\ UNCHANGED <<net, bfirst, blast, ret>>

\* recv of a socket that does not block.
Recv(err, got) ==
  CASE conn = "reset"     -> err = "reset" /\ got = 0
    [] arrived > blast    -> err = "done" /\ got \in 1..MinOf(BufSize, arrived - blast)
    [] conn = "closed"    -> err = "closed" /\ got = 0
    [] OTHER              -> err = "timeout" /\ got = 0

\* (The variant that fills the buffer before it is empty.)
BufferGetEager(err, first, last) ==
  \E got \in 0..BufSize : Recv(err, got) /\ first = blast /\ last = blast + got

BufferGet(err, first, last) ==
  IF bfirst < blast
    THEN err = "done" /\ first = bfirst /\ last = blast
    ELSE \E got \in 0..BufSize : Recv(err, got) /\ first = blast /\ last = blast + got

\* (The variant that takes positions for offsets.)
SegmentFrom(i, j) == [k \in 1..(j - i) |-> i + k - 1]

\* The bytes i+1..j.
Segment(i, j) == [k \in 1..(j - i) |-> i + k]

\* How the call goes on after an attempt that ended with err.  On a timeout
\* receive waits and keeps what it has; receivePartial returns it if the
\* pattern is a number, and else starts again without it.
Returns(err, data) == \/ err # "timeout"
                      \/ call.fn = "receivePartial" /\ call.pat.kind = "raw" /\ data # <<>>

End(err, data) == IF Returns(err, data)
                    THEN pc' = "idle" /\ ret' = [call |-> call, err |-> err, data |-> data]
                    ELSE pc' = "wait" /\ UNCHANGED ret

\* (The variant that takes all there is in the buffer.)
TakeAll(data, first, last) == last - first

\* The bytes recvraw takes: no more than are wanted.
TakeWanted(data, first, last) == MinOf(last - first, call.pat.n - Len(data))

RecvRaw ==
  /\ pc = "get" /\ call.pat.kind = "raw"
  /\ \E err \in {"done", "timeout", "closed", "reset"}, first, last \in 0..MaxText :
       /\ BufferGet(err, first, last)
       /\ bfirst' = first + TakeWanted(out, first, last)
       /\ blast' = last
       /\ out' = out \o Segment(first, bfirst')
       /\ IF Len(out') >= call.pat.n \/ err # "done"
            THEN End(err, out')
            ELSE UNCHANGED <<pc, ret>>
  /\ UNCHANGED <<net, call, base, had>>

\* The end of the connection completes the pattern if this attempt got a byte.
RecvAll ==
  /\ pc = "get" /\ call.pat.kind = "all"
  /\ \E err \in {"done", "timeout", "closed", "reset"}, first, last \in 0..MaxText :
       /\ BufferGet(err, first, last)
       /\ bfirst' = last /\ blast' = last
       /\ out' = out \o Segment(first, last)
       /\ IF err = "done"
            THEN UNCHANGED <<pc, ret>>
            ELSE End(IF err = "closed" /\ Len(out) > had THEN "done" ELSE err, out)
  /\ UNCHANGED <<net, call, base, had>>

RecvLine ==
  /\ pc = "get" /\ call.pat.kind = "line"
  /\ \E err \in {"done", "timeout", "closed", "reset"}, first, last \in 0..MaxText :
       /\ BufferGet(err, first, last)
       /\ bfirst' = first /\ blast' = last
       /\ IF err = "done"
            THEN pc' = "scan" /\ UNCHANGED ret
            ELSE End(err, out)
  /\ UNCHANGED <<net, call, base, out, had>>

\* (The variant that takes a line feed at the end of the buffer for the end of
\* the buffer.)
LineEndsBefore(b) == text[b] = "LF" /\ b < blast

LineEnds(b) == text[b] = "LF"

\* recvline's inner loop, a byte at a time; the bytes passed are skipped when it
\* ends, before anybody looks at the buffer again.
ScanByte ==
  LET b == bfirst + 1 IN
  /\ pc = "scan" /\ bfirst < blast
  /\ bfirst' = b
  /\ IF LineEnds(b)
       THEN UNCHANGED out /\ End("done", out)
       ELSE /\ out' = IF text[b] = "other" THEN Append(out, b) ELSE out
            /\ UNCHANGED <<pc, ret>>
  /\ UNCHANGED <<net, blast, call, base, had>>

ScanEnd == /\ pc = "scan" /\ bfirst = blast
           /\ pc' = "get"
           /\ UNCHANGED <<net, bfirst, blast, call, base, out, had, ret>>

\* (The variant that forgets the part.)
NoPart == <<>>

\* What the next attempt begins with: receive passes the part it got before.
Part == IF call.fn = "receive" THEN out ELSE <<>>

\* Resumed because the socket is readable, or by the watchdog.
Resume == /\ pc = "wait"
          /\ pc' = "get"
          /\ out' = Part /\ had' = Len(Part)
          /\ UNCHANGED <<net, bfirst, blast, call, base, ret>>
-----------------------------------------------------------------------------
Arrive == /\ conn = "open" /\ arrived < MaxText
          /\ arrived' = arrived + 1
          /\ UNCHANGED <<text, conn, bfirst, blast, pc, call, base, out, had, ret>>

Hangup == /\ conn = "open"
          /\ conn' \in {"closed", "reset"}
          /\ UNCHANGED <<text, arrived, bfirst, blast, pc, call, base, out, had, ret>>

Attempt == RecvRaw \/ RecvAll \/ RecvLine \/ ScanByte \/ ScanEnd

Next == (\E c \in Calls : Call(c)) \/ Attempt \/ Resume \/ Arrive \/ Hangup

Spec == Init /\ [][Next]_vars

\* The code between two yields runs to its end, and the dispatcher resumes a
\* coroutine whose socket is readable (Copas: ReadyIsResumed).
Readable == arrived > blast \/ conn # "open"
FairSpec == Spec /\ WF_vars(Attempt) /\ WF_vars(Readable /\ Resume)
-----------------------------------------------------------------------------
TypeOK ==
  /\ text \in [1..MaxText -> R!Kind]
  /\ arrived \in 0..MaxText /\ conn \in {"open", "closed", "reset"}
  /\ bfirst \in 0..MaxText /\ blast \in 0..MaxText
  /\ pc \in {"idle", "get", "scan", "wait"}
  /\ call \in Calls /\ base \in 0..MaxText
  /\ out \in Seq(1..MaxText) /\ had \in Nat
  /\ ret.err \in {"none", "done", "timeout", "closed", "reset"}

\* Every call returns exactly the bytes of the stream it consumed, however they
\* arrived; but receivePartial of a line or of everything, which does not hand the
\* part it has to the next attempt, only the last of them (copas.lua:117-146,
\* buffer.c:182-238): the implementation of ByteReader.
ImplementsByteReader == R!Spec

\* A suspended call waits for the network and for nothing else: the buffer, at
\* which select is not made to look (a buffered byte does not make the socket
\* readable), is empty, and what was consumed does not complete the pattern
\* (copas.lua:117-146).
WaitsOnlyForNetwork == pc = "wait" => bfirst = blast /\ R!Short(call.pat, base, blast)

\* When the rest of what a call asks for has arrived, or the connection has ended,
\* the call returns.  (receive(0) waits for a byte: buffer.c:185-193.)
Arrived == \/ conn # "open"
           \/ call.pat.kind = "line" /\ ~R!NoLine(base, arrived)
           \/ call.pat.kind = "raw" /\ arrived - base >= call.pat.n /\ arrived > base
CompleteIsReturned == (pc # "idle" /\ Arrived) ~> pc = "idle"
=============================================================================
