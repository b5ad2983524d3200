-------------------------------- MODULE Sockets --------------------------------
(***************************************************************************)
(* The socket objects of LuaSocket on Windows CE: the timed calls of       *)
(* wsocket.c (try; when the call would block, wait in select; try again),  *)
(* the timeouts they wait for (timeout.c), the classes of tcp.c and udp.c, *)
(* and socket.select (select.c).                                           *)
(*                                                                         *)
(* One Lua state makes one call at a time.  While a call waits, time       *)
(* passes and the network acts; system calls take no time.  Numbers of     *)
(* system sockets are used again after a close.                            *)
(***************************************************************************)
EXTENDS Integers, FiniteSets, FiniteSetsExt

CONSTANTS Objs,        \* userdata a script can hold
          Fds,         \* numbers of system sockets
          Kinds,       \* "tcp", "udp"
          Timed,       \* the objects whose timeouts the script sets,
          Blocks,      \* and to what: the block timeouts,
          Totals,      \* and the total timeouts; -1, none
          Selects,     \* the calls of select: [r, w, t]
          MaxTime,     \* bound of the clock
          MaxPending   \* bound of what is pending on a system socket

SocketsAssumption ==
  /\ Fds \subseteq Nat \ {0} /\ Kinds \subseteq {"tcp", "udp"}
  /\ \A s \in Selects : s.r \subseteq Objs /\ s.w \subseteq Objs /\ s.t \in Int
  /\ Timed \subseteq Objs /\ Blocks \cup Totals \subseteq Int /\ MaxTime \in Nat /\ MaxPending \in Nat

VARIABLES obj,    \* the userdata: class, sock, tm (block, total), and whether its buffer holds bytes
          sys,    \* the system's sockets
          clock,  \* the time since the call in progress marked its start
          call

vars == <<obj, sys, clock, call>>

NoSock == 0                                              \* SOCKET_INVALID
Free == [st |-> "free", kind |-> "tcp", pending |-> 0, gone |-> FALSE, eof |-> FALSE, room |-> FALSE]
NoObj == [class |-> "none", sock |-> NoSock, block |-> -1, total |-> -1, dirty |-> FALSE]
Idle == [op |-> "none", o |-> {}, w |-> {}, pc |-> "idle", since |-> 0, deadline |-> -1,
         res |-> "none", got |-> {}, put |-> {}]

Init == /\ obj = [o \in Objs |-> NoObj] /\ sys = [f \in Fds |-> Free]
        /\ clock = 0 /\ call = Idle

MaxOf(a, b) == IF a > b THEN a ELSE b
MinOf(a, b) == IF a < b THEN a ELSE b
OpenSocks == {f \in Fds : sys[f].st # "free"}
Sock(o) == obj[o].sock

(***************************************************************************)
(* Timeouts.                                                               *)
(***************************************************************************)
GetBlockOnly(tm) == tm.block                             \* mutant: block, whatever is left of total
TimeoutGet(tm) ==
  LET rest == MaxOf(tm.total - clock, 0)
  IN CASE tm.block < 0 /\ tm.total < 0 -> -1 [] tm.block < 0 /\ tm.total >= 0 -> rest
       [] tm.block >= 0 /\ tm.total < 0 -> tm.block [] OTHER -> MinOf(tm.block, rest)
IsZero(tm) == tm.block = 0
Deadline(tm) == IF TimeoutGet(tm) < 0 THEN -1 ELSE clock + TimeoutGet(tm)

(***************************************************************************)
(* Calls that return at once.                                              *)
(***************************************************************************)
Quick == call.pc = "idle"
New(class, f) == [NoObj EXCEPT !.class = class, !.sock = f]
Fresh(kind) == [Free EXCEPT !.st = "new", !.kind = kind, !.room = TRUE]
Destroyed(f) == IF f = NoSock THEN sys ELSE [sys EXCEPT ![f] = Free]           \* socket_destroy
\* socket_setblocking, a system call that makes the socket s, socket_setnonblocking.
Between(f, s) == [sys EXCEPT ![f] = s]

CreatedTcp(f) == New("tcp{master}", f)
CreatedUdp(f) == New("udp{unconnected}", f)
Create(o, kind) ==                                       \* socket.tcp, socket.udp
  /\ Quick /\ obj[o].class = "none"
  /\ \E f \in Fds \ OpenSocks :
       /\ sys' = [sys EXCEPT ![f] = Fresh(kind)]
       /\ obj' = [obj EXCEPT ![o] = IF kind = "tcp" THEN CreatedTcp(f) ELSE CreatedUdp(f)]
  /\ UNCHANGED <<clock, call>>

Close(o) ==                                              \* the method, or __gc before the object goes
  /\ Quick /\ obj[o].class # "none" /\ sys' = Destroyed(Sock(o)) /\ UNCHANGED <<clock, call>>
  /\ \/ obj' = [obj EXCEPT ![o].sock = NoSock]
     \/ obj' = [obj EXCEPT ![o] = NoObj]

\* A socket that cannot be bound is closed, and its object has none any more.
Dropped(f) == sys                       \* mutant: it is not
Released(f) == Destroyed(f)
MayBind == {"tcp{master}", "udp{unconnected}"}
Bind(o) ==
  /\ Quick /\ obj[o].class \in MayBind
  /\ \/ Sock(o) # NoSock /\ sys' = Between(Sock(o), sys[Sock(o)]) /\ UNCHANGED obj
     \/ sys' = Released(Sock(o)) /\ obj' = [obj EXCEPT ![o].sock = NoSock]
     \/ UNCHANGED <<obj, sys>>          \* the name is not found
  /\ UNCHANGED <<clock, call>>

Listen(o) ==
  /\ Quick /\ obj[o].class = "tcp{master}" /\ Sock(o) # NoSock
  /\ \/ /\ sys' = Between(Sock(o), [sys[Sock(o)] EXCEPT !.st = "listening"])
        /\ obj' = [obj EXCEPT ![o].class = "tcp{server}"]
     \/ sys' = Between(Sock(o), sys[Sock(o)]) /\ UNCHANGED obj
  /\ UNCHANGED <<clock, call>>

Shutdown(o) ==
  /\ Quick /\ obj[o].class = "tcp{client}" /\ Sock(o) # NoSock
  /\ sys' = Between(Sock(o), [sys[Sock(o)] EXCEPT !.eof = TRUE])
  /\ UNCHANGED <<obj, clock, call>>

SetTimeout(o) ==
  /\ Quick /\ o \in Timed /\ obj[o].class # "none"
  /\ \/ \E t \in Blocks : obj' = [obj EXCEPT ![o].block = t]
     \/ \E t \in Totals : obj' = [obj EXCEPT ![o].total = t]
  /\ UNCHANGED <<sys, clock, call>>

(***************************************************************************)
(* Timed calls.                                                            *)
(***************************************************************************)
AllowedIn(op) ==
  CASE op = "accept" -> {"tcp{server}"}
    [] op = "connect" -> {"tcp{master}", "tcp{client}", "tcp{server}"}
    [] op = "receive" -> {"tcp{client}", "udp{connected}", "udp{unconnected}"}
    [] op = "send" -> {"tcp{client}", "udp{connected}"}
    [] op \in {"receivefrom", "sendto"} -> {"udp{unconnected}"}
    [] op = "setpeername" -> {"udp{connected}", "udp{unconnected}"}

Ops == {"accept", "connect", "receive", "send", "receivefrom", "sendto", "setpeername"}
\* What a system call does to socket f: a result and the socket after it.
Out(r, s) == [r |-> r, s |-> s]
System(op, s) ==
  CASE op = "accept" -> IF s.st # "listening" THEN {Out("error", s)}
                        ELSE IF s.gone THEN {Out("aborted", [s EXCEPT !.gone = FALSE])}
                        ELSE IF s.pending = 0 THEN {Out("would block", s)}
                        ELSE {Out("done", [s EXCEPT !.pending = @ - 1])}
    [] op \in {"connect", "setpeername"} ->
         IF s.kind = "udp" THEN {Out("done", [s EXCEPT !.st = "connected"]), Out("error", s)}
         ELSE IF s.st = "new" THEN {Out("would block", [s EXCEPT !.st = "connecting"]), Out("error", s)}
         ELSE {Out("error", s)}
    [] op \in {"receive", "receivefrom"} ->
         IF s.kind = "tcp" /\ s.st # "connected" THEN {Out("error", s)}
         ELSE IF s.pending > 0 THEN {Out("done", [s EXCEPT !.pending = @ - 1])}
         ELSE IF s.eof THEN {Out("closed", s)} ELSE {Out("would block", s)}
    [] op \in {"send", "sendto"} ->
         IF s.kind = "tcp" /\ s.st # "connected" THEN {Out("error", s)}
         ELSE IF s.room THEN {Out("done", s), Out("done", [s EXCEPT !.room = FALSE])} ELSE {Out("would block", s)}

Class(o, op) ==        \* set even when it fails, for connections that do not block
  IF op = "connect" THEN "tcp{client}" ELSE obj[o].class
PeerClass(op, o) == IF op = "setpeername" THEN AllowedIn(op) ELSE {obj[o].class}    \* "*" disconnects
Resolves(op) == op \in {"connect", "setpeername"}
Return(c, res) == [c EXCEPT !.pc = "done", !.res = res]

Begin(o, op) ==
  /\ Quick /\ obj[o].class \in AllowedIn(op)
  /\ LET c == [Idle EXCEPT !.op = op, !.o = {o}, !.pc = "try"]
         self == [obj[o] EXCEPT !.class = Class(o, op)]
     IN \/ /\ op = "receive" /\ self.dirty               \* the buffer may hold enough
           /\ \E d \in BOOLEAN : obj' = [obj EXCEPT ![o].dirty = d]
           /\ call' = Return(c, "done")
        \/ /\ Resolves(op)                                \* the name is not found
           /\ obj' = [obj EXCEPT ![o] = self] /\ call' = Return(c, "error")
        \/ /\ obj' = [obj EXCEPT ![o] = self]
           /\ call' = IF self.sock = NoSock THEN Return(c, "closed") ELSE c
  /\ UNCHANGED <<sys, clock>>

Self == CHOOSE o \in call.o : TRUE
Object == obj[Self]

\* The new client that accept returns.
Accepted(f) == New("tcp{client}", f)
Try ==
  /\ call.pc = "try" /\ call.op # "select"
  /\ \E out \in System(call.op, sys[Object.sock]) :
       LET op == call.op
           after == [sys EXCEPT ![Object.sock] = out.s]
       IN \/ out.r = "done" /\ op = "accept"
             /\ \E f \in Fds \ OpenSocks, o \in {x \in Objs : obj[x].class = "none"} :
                  /\ sys' = [after EXCEPT ![f] = [Fresh("tcp") EXCEPT !.st = "connected"]]
                  /\ obj' = [obj EXCEPT ![o] = Accepted(f)]
             /\ call' = Return(call, "done")
          \/ out.r = "done" /\ op # "accept" /\ sys' = after
             /\ \E d \in IF op = "receive" /\ sys[Object.sock].kind = "tcp" THEN BOOLEAN ELSE {FALSE},
                   class \in PeerClass(op, Self) :
                  obj' = [obj EXCEPT ![Self].dirty = d, ![Self].class = class]
             /\ call' = Return(call, "done")
          \/ out.r \in {"error", "closed"} /\ sys' = after /\ UNCHANGED obj /\ call' = Return(call, out.r)
          \/ out.r \in {"would block", "aborted"} /\ sys' = after /\ UNCHANGED obj
             /\ call' = IF IsZero(Object) THEN Return(call, "timeout")
                        ELSE [call EXCEPT !.pc = "wait", !.since = clock, !.deadline = Deadline(Object)]
  /\ UNCHANGED clock

\* What select sees of a system socket.
Readable(s) == s.st \in {"listening", "connected", "new"} /\ (s.pending > 0 \/ s.gone \/ s.eof)
Writable(s) == s.st = "connected" /\ s.room
Failed(s) == s.st = "failed"
Ready(op, s) ==
  CASE op \in {"accept", "receive", "receivefrom"} -> Readable(s)
    [] op \in {"send", "sendto"} -> s.room
    [] op = "connect" -> Writable(s) \/ Failed(s)

\* socket_waitfd returns: something happened, or the time is over.
Wake ==
  /\ call.pc = "wait" /\ call.op # "select"
  /\ LET s == sys[Object.sock] IN
     \/ Ready(call.op, s) /\ call.op # "connect" /\ call' = [call EXCEPT !.pc = "try"]
     \/ Ready(call.op, s) /\ call.op = "connect" /\ call' = Return(call, IF Failed(s) THEN "error" ELSE "done")
     \/ ~Ready(call.op, s) /\ call.deadline = clock /\ call' = Return(call, "timeout")
  /\ UNCHANGED <<obj, sys, clock>>

(***************************************************************************)
(* socket.select: objects whose buffer holds bytes are readable at once.   *)
(***************************************************************************)
Live(S) == {o \in S : obj[o].class # "none"}
Dirty(S) == {o \in Live(S) : Sock(o) # NoSock /\ obj[o].dirty}
CollectFd(S) == {Sock(o) : o \in Live(S)} \ {NoSock}
WaitsAnyway(t, dirty) == t                               \* mutant: a dirty object does not make it a poll
SelectLimit(t, dirty) == IF dirty # {} THEN 0 ELSE t
ReadSet == CollectFd(call.o) \ {Sock(o) : o \in Dirty(call.o)}
Found == {f \in ReadSet : Readable(sys[f])}
Open(S) == {f \in CollectFd(S) : Writable(sys[f])}
ReturnFd(S, fds) == {o \in S : Sock(o) \in fds}

Select(R, W, t) ==
  /\ Quick /\ R = Live(R) /\ W = Live(W)
  /\ LET tm == [block |-> SelectLimit(t, Dirty(R)), total |-> -1, dirty |-> FALSE]
         asked == [Idle EXCEPT !.op = "select", !.o = R, !.w = W, !.pc = "wait"]
     IN call' = [asked EXCEPT !.deadline = Deadline(tm)]
  /\ UNCHANGED <<obj, sys, clock>>

SelectReturns ==
  /\ call.pc = "wait" /\ call.op = "select"
  /\ Found # {} \/ Open(call.w) # {} \/ call.deadline = clock
  /\ LET some == Found \cup Open(call.w) # {} \/ Dirty(call.o) # {}
     IN call' = IF some THEN [Return(call, "done") EXCEPT !.got = Dirty(call.o) \cup ReturnFd(call.o, Found),
                                                          !.put = ReturnFd(call.w, Open(call.w))]
                ELSE Return(call, "timeout")
  /\ UNCHANGED <<obj, sys, clock>>

(***************************************************************************)
(* The network and the time.                                               *)
(***************************************************************************)
Net(f, s) == call.pc \in {"idle", "wait"} /\ sys' = [sys EXCEPT ![f] = s] /\ UNCHANGED <<obj, clock, call>>
Arrive(f) ==
  /\ sys[f].pending < MaxPending /\ ~sys[f].eof
  /\ sys[f].st \in {"listening", "connected"} \/ (sys[f].st = "new" /\ sys[f].kind = "udp")
  /\ Net(f, [sys[f] EXCEPT !.pending = @ + 1])
GoAway(f) ==                                             \* a pending connection is reset
  /\ sys[f].st = "listening" /\ sys[f].pending > 0
  /\ \E told \in BOOLEAN : Net(f, [sys[f] EXCEPT !.pending = @ - 1, !.gone = told \/ @])
PeerCloses(f) == sys[f].st = "connected" /\ sys[f].kind = "tcp" /\ ~sys[f].eof /\ Net(f, [sys[f] EXCEPT !.eof = TRUE])
Drain(f) == sys[f].st # "free" /\ ~sys[f].room /\ Net(f, [sys[f] EXCEPT !.room = TRUE])
Connected(f) == /\ sys[f].st = "connecting"
                /\ \E st \in {"connected", "failed"} : Net(f, [sys[f] EXCEPT !.st = st])
Overdue == call.pc = "wait" /\ call.deadline = clock
Tick == /\ call.pc = "wait" /\ ~Overdue /\ clock < MaxTime
        /\ clock' = clock + 1 /\ UNCHANGED <<obj, sys, call>>

Done == call.pc = "done" /\ call' = Idle /\ clock' = 0 /\ UNCHANGED <<obj, sys>>

Next ==
  \/ \E o \in Objs :
       \/ \E kind \in Kinds : Create(o, kind)
       \/ Close(o) \/ Bind(o) \/ Listen(o) \/ Shutdown(o)
       \/ SetTimeout(o)
       \/ \E op \in Ops : Begin(o, op)
  \/ Try \/ Wake
  \/ \E s \in Selects : Select(s.r, s.w, s.t)
  \/ SelectReturns
  \/ \E f \in Fds : Arrive(f) \/ GoAway(f) \/ PeerCloses(f) \/ Drain(f) \/ Connected(f)
  \/ Tick \/ Done

Spec == Init /\ [][Next]_vars

(***************************************************************************)
(* Properties.                                                             *)
(***************************************************************************)
\* Between calls every open system socket belongs to one object and every object
\* has an open socket of its own or none: nothing is leaked, closed twice or, its
\* number used again, closed for another.
Owned ==
  /\ \A f \in OpenSocks : Cardinality({o \in Objs : Sock(o) = f}) = 1
  /\ \A o \in Objs : Sock(o) # NoSock => Sock(o) \in OpenSocks

\* A call keeps its time, however often it is woken for nothing: no wait is longer
\* than the block timeout, the call is never longer than the total timeout, and it
\* gives up only when one of them is over.
KeepsTime ==
  Quick \/ call.op = "select" \/
    /\ Object.total >= 0 => clock <= Object.total
    /\ Object.block >= 0 /\ call.pc = "wait" => clock - call.since <= Object.block
    /\ call.pc = "wait" /\ call.deadline # -1 => call.deadline - call.since = Object.block \/ call.deadline = Object.total

\* select reports exactly what it was asked for and is there at its end, an object
\* with bytes in its buffer at once, and says "timeout" only after the time asked.
SelectReturned ==
  SelectReturns =>
    LET c == call' IN
    /\ c.res = "timeout" => Dirty(call.o) = {} /\ Found = {} /\ Open(call.w) = {} /\ clock = call.deadline
    /\ Dirty(call.o) # {} => clock = 0
    /\ c.res = "done" => c.got \cup c.put # {}
    /\ \A o \in c.got : o \in call.o /\ Sock(o) # NoSock /\ (obj[o].dirty \/ Readable(sys[Sock(o)]))
    /\ c.res = "done" => \A o \in call.o : Sock(o) # NoSock /\ (obj[o].dirty \/ Readable(sys[Sock(o)])) => o \in c.got
SelectSound == [][SelectReturned]_vars
=============================================================================
