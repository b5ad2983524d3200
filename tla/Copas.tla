------------------------------- MODULE Copas --------------------------------
(***************************************************************************)
(* The Copas dispatcher (lua/5.1/copas.lua): one thread of control that    *)
(* waits in socket.select, turns ready sockets into events and resumes the *)
(* coroutines queued on them.  Every connection accepted by a server gets  *)
(* a coroutine; a coroutine that cannot receive or send yields and is      *)
(* queued under the socket and direction it waits for.                     *)
(*                                                                         *)
(* A step of the model is one call a coroutine makes (receive, send,       *)
(* connect, ...), one event the dispatcher handles, one half of            *)
(* socket.select, or one step of the network or the clock.  What handlers  *)
(* do is arbitrary: a running coroutine may make any call on the sockets   *)
(* it uses, in any order, and may end at any time.                         *)
(***************************************************************************)
EXTENDS SetOps, FiniteSets

CONSTANTS
  Server,         \* listening sockets
  Client,         \* connected sockets, accepted or outgoing
  Outgoing,       \* those a coroutine creates and connects itself
  Port,           \* the server an incoming connection is made to
  Thread,         \* coroutines started by addthread
  Reads, Writes,  \* pairs of a coroutine and a socket it receives from, sends to
  FdSetSize,      \* sockets one fd_set holds; FD_SET ignores the others
  WatchDog,       \* WATCH_DOG_TIMEOUT, in steps of the clock
  MaxData,        \* bound on the unread fragments of one socket
  HasTimeout,     \* step was called with a timeout
  SelectMayFail,  \* socket.select may report an error
  NIL

\* The coroutine _accept creates for an incoming connection is named by its
\* socket; the others are threads.
Coroutine == Client \cup Thread

ASSUME CopasAssumption ==
  /\ Outgoing \subseteq Client
  /\ Server \cap Client = {}
  /\ Client \cap Thread = {}
  /\ Port \in [Client -> Server]
  /\ Reads \subseteq Coroutine \X Client
  /\ Writes \subseteq Coroutine \X Client
  /\ FdSetSize \in Nat /\ WatchDog \in Nat /\ MaxData \in Nat
  /\ HasTimeout \in BOOLEAN /\ SelectMayFail \in BOOLEAN
  /\ NIL \notin Nat /\ NIL \notin Client

VARIABLES
  \* the tables of copas.lua
  servers,            \* keys of _servers
  reading, writing,   \* array part of _reading and _writing
  rq, wq,             \* their FIFOs of coroutines
  rlog, wlog,         \* _reading_log, _writing_log: age of the entry, or NIL
  lastClean,          \* age of last_cleansing
  errh,               \* coroutines with an entry in _errhandlers
  \* the dispatcher
  first,              \* the task that next() yields first
  phase,              \* where step is
  now,                \* age of the local now of _select
  overdue,            \* log entries older than WATCH_DOG_TIMEOUT at now, and
                      \* whether last_cleansing is
  revs, wevs,         \* events still to be ticked
  \* the coroutines
  stack,              \* those resumed and not suspended, innermost first
  pc, arg,            \* the call in progress and its socket
  via,                \* skt of the _doTick that resumed the coroutine last
  \* the sockets
  sk, inp, eof, room

tables  == <<servers, reading, writing, rq, wq, rlog, wlog, lastClean, errh>>
loop    == <<first, phase, now, overdue, revs, wevs>>
threads == <<stack, pc, arg, via>>
net     == <<sk, inp, eof, room>>
vars    == <<tables, loop, threads, net>>

Age      == 0..(WatchDog + 1)      \* ages beyond the timeout are not told apart
Older(a) == IF a = NIL THEN NIL ELSE IF a <= WatchDog THEN a + 1 ELSE a

\* (The variant with the comparison off by one.)
OverdueAtOnce(log) == {s \in Client : log[s] # NIL /\ log[s] >= WatchDog}
Overdue(log) == {s \in Client : log[s] # NIL /\ log[s] > WatchDog}
NothingOverdue == [due |-> FALSE, r |-> {}, w |-> {}]

Init ==
  /\ servers = {} /\ reading = <<>> /\ writing = <<>>
  /\ rq = [s \in Client |-> <<>>] /\ wq = [s \in Client |-> <<>>]
  /\ rlog = [s \in Client |-> NIL] /\ wlog = [s \in Client |-> NIL]
  /\ lastClean = WatchDog + 1 /\ errh = {}
  /\ first \in {"read", "write"} /\ phase = "main" /\ now = 0
  /\ overdue = NothingOverdue /\ revs = {} /\ wevs = {}
  /\ stack = <<>>
  /\ pc = [c \in Coroutine |-> "dead"]
  /\ arg = [c \in Coroutine |-> NIL] /\ via = [c \in Coroutine |-> NIL]
  /\ sk = [s \in Client |-> "none"] /\ inp = [s \in Client |-> 0]
  /\ eof = [s \in Client |-> FALSE] /\ room = [s \in Client |-> s \notin Outgoing]
-----------------------------------------------------------------------------
(* Calls of the running coroutine.                                         *)

Active(co) == stack # <<>> /\ Head(stack) = co
InBody(co) == Active(co) /\ pc[co] = "body"
Connected(s) == sk[s] \in {"open", "closed"}

\* co is inside the named call on s: it makes it now, or retries it after having
\* been resumed.
Calling(co, name, s, uses) ==
  \/ InBody(co) /\ <<co, s>> \in uses /\ Connected(s)
  \/ Active(co) /\ pc[co] = name /\ arg[co] = s

Return(co) == /\ pc' = [pc EXCEPT ![co] = "body"]
              /\ arg' = [arg EXCEPT ![co] = NIL]
              /\ UNCHANGED <<stack, via>>

\* coroutine.yield to _doTick, which queues the coroutine in the set it names.
Suspend(co, s, name) == /\ pc' = [pc EXCEPT ![co] = name]
                        /\ arg' = [arg EXCEPT ![co] = s]
                        /\ stack' = Tail(stack)
                        /\ UNCHANGED via

\* (The variant that keeps no log.)
LogNothing(log, s) == log

\* log[client] = os.time()
Log(log, s) == [log EXCEPT ![s] = 0]

YieldReading(co, s, name) == /\ Suspend(co, s, name)
                             /\ rlog' = Log(rlog, s)
                             /\ reading' = insert(reading, s)
                             /\ rq' = push(rq, s, co)

YieldWriting(co, s, name) == /\ Suspend(co, s, name)
                             /\ wlog' = Log(wlog, s)
                             /\ writing' = insert(writing, s)
                             /\ wq' = push(wq, s, co)

\* receive and receivePartial.  A receive that times out has taken the fragments
\* that had arrived.
Receive(co, s) ==
  /\ Calling(co, "receive", s, Reads)
  /\ \/ /\ sk[s] = "closed" \/ eof[s] \/ inp[s] > 0
        /\ inp' = IF sk[s] = "open" /\ inp[s] > 0 THEN [inp EXCEPT ![s] = @ - 1] ELSE inp
        /\ rlog' = [rlog EXCEPT ![s] = NIL]
        /\ Return(co)
        /\ UNCHANGED <<reading, rq>>
     \/ /\ sk[s] = "open" /\ ~eof[s]
        /\ inp' = [inp EXCEPT ![s] = 0]
        /\ YieldReading(co, s, "receive")
  /\ UNCHANGED <<servers, writing, wq, wlog, lastClean, errh, loop, sk, eof, room>>

\* send: one attempt, then in one case of ten an extra yield whatever its result.
Send(co, s) ==
  /\ Calling(co, "send", s, Writes)
  /\ \E done, swap, r \in BOOLEAN :
       /\ IF done THEN (sk[s] = "closed" \/ eof[s] \/ room[s]) /\ (r => room[s])
                  ELSE sk[s] = "open" /\ ~eof[s] /\ ~r
       /\ room' = [room EXCEPT ![s] = r]
       /\ \/ /\ done /\ ~swap
             /\ wlog' = [wlog EXCEPT ![s] = NIL]
             /\ Return(co)
             /\ UNCHANGED <<writing, wq>>
          \/ done /\ swap /\ YieldWriting(co, s, "sent")
          \/ ~done /\ YieldWriting(co, s, IF swap THEN "swapped" ELSE "send")
  /\ UNCHANGED <<servers, reading, rq, rlog, lastClean, errh, loop, sk, inp, eof>>

\* Resumed from the extra yield of send: it reports the attempt it made before,
\* or, when that timed out, yields a second time without another attempt.
SendResumed(co) ==
  /\ Active(co)
  /\ \/ /\ pc[co] = "sent"
        /\ wlog' = [wlog EXCEPT ![arg[co]] = NIL]
        /\ Return(co)
        /\ UNCHANGED <<writing, wq>>
     \/ pc[co] = "swapped" /\ YieldWriting(co, arg[co], "send")
  /\ UNCHANGED <<servers, reading, rq, rlog, lastClean, errh, loop, net>>

\* connect, on a socket the coroutine has just created or while it is pending.
Connect(co, s) ==
  /\ \/ InBody(co) /\ s \in Outgoing /\ <<co, s>> \in Writes /\ sk[s] = "none"
     \/ Active(co) /\ pc[co] = "connect" /\ arg[co] = s
  /\ sk' = [sk EXCEPT ![s] = IF @ = "none" THEN "open" ELSE @]
  /\ \/ /\ sk[s] \in {"none", "closed"} \/ eof[s] \/ room[s]
        /\ wlog' = [wlog EXCEPT ![s] = NIL]
        /\ Return(co)
        /\ UNCHANGED <<writing, wq>>
     \/ /\ sk[s] # "closed" /\ ~eof[s] /\ ~room[s]
        /\ YieldWriting(co, s, "connect")
  /\ UNCHANGED <<servers, reading, rq, rlog, lastClean, errh, loop, inp, eof, room>>

\* skt:close() by a handler.
Close(co, s) ==
  /\ InBody(co) /\ <<co, s>> \in Reads \cup Writes /\ sk[s] = "open"
  /\ sk' = [sk EXCEPT ![s] = "closed"]
  /\ UNCHANGED <<tables, loop, threads, inp, eof, room>>

SetErrorHandler(co) ==
  /\ InBody(co) /\ co \notin errh
  /\ errh' = errh \cup {co}
  /\ UNCHANGED <<servers, reading, writing, rq, wq, rlog, wlog, lastClean, loop, threads, net>>

\* The program outside the dispatcher's step, or a coroutine in its body.
Program == IF stack = <<>> THEN phase = "main" ELSE pc[Head(stack)] = "body"

AddServer(v) ==
  /\ Program /\ v \notin servers
  /\ servers' = servers \cup {v}
  /\ reading' = insert(reading, v)
  /\ UNCHANGED <<writing, rq, wq, rlog, wlog, lastClean, errh, loop, threads, net>>

\* (The variant that does not pass the socket on.)
ResumeBare(co, skt) == /\ stack' = <<co>> \o stack
                       /\ via' = [via EXCEPT ![co] = NIL]

\* _doTick up to the resume: the coroutine runs inside whoever started it.
Resume(co, skt) == /\ stack' = <<co>> \o stack
                   /\ via' = [via EXCEPT ![co] = skt]

AddThread(t) ==
  /\ Program /\ pc[t] = "dead"
  /\ Resume(t, NIL)
  /\ pc' = [pc EXCEPT ![t] = "body"]
  /\ UNCHANGED <<tables, loop, arg, net>>

\* (The variant that leaves the handler behind.)
KeepHandler(co) == UNCHANGED errh

ForgetHandler(co) == errh' = errh \ {co}

\* The end of a coroutine, by return or by error: _doTick closes the socket it
\* was resumed with and forgets its error handler.
Finish(co) ==
  /\ InBody(co)
  /\ stack' = Tail(stack)
  /\ pc' = [pc EXCEPT ![co] = "dead"]
  /\ via' = [via EXCEPT ![co] = NIL]
  /\ sk' = IF via[co] = NIL THEN sk ELSE [sk EXCEPT ![via[co]] = "closed"]
  /\ ForgetHandler(co)
  /\ UNCHANGED <<servers, reading, writing, rq, wq, rlog, wlog, lastClean, loop,
                 arg, inp, eof, room>>
-----------------------------------------------------------------------------
(* The dispatcher: step is _select followed by the ticks of the two tasks. *)

Idle == stack = <<>>

\* now and the log entries are compared after select, but nothing else runs
\* in between: what is overdue is settled when now is read.
SelectEnter ==
  /\ Idle /\ phase = "main"
  /\ phase' = "select" /\ now' = 0
  /\ overdue' = [due |-> lastClean > WatchDog, r |-> Overdue(rlog), w |-> Overdue(wlog)]
  /\ UNCHANGED <<tables, first, revs, wevs, threads, net>>

Incoming(v) == {c \in Client : sk[c] = "backlog" /\ Port[c] = v}
Valid(s)    == s \in Server \/ (s \in Client /\ sk[s] = "open")
Readable(s) == IF s \in Server THEN Incoming(s) # {} ELSE inp[s] > 0 \/ eof[s]
Writable(s) == room[s] \/ eof[s]

\* The sockets of the array that fit in an fd_set, closed ones being skipped.
Watched(set) ==
  {set[i] : i \in {j \in 1..Len(set) :
                     /\ Valid(set[j])
                     /\ Cardinality({k \in 1..j : Valid(set[k])}) <= FdSetSize}}

\* The watchdog: sockets silent for too long get an event although not ready.
Kicked(late, ready) == IF overdue.due THEN late \ ready ELSE {}

Cleanse(kr, kw) ==
  /\ rlog' = [s \in Client |-> IF s \in kr THEN NIL ELSE rlog[s]]
  /\ wlog' = [s \in Client |-> IF s \in kw THEN NIL ELSE wlog[s]]
  /\ lastClean' = IF overdue.due THEN now ELSE lastClean
  /\ now' = 0 /\ overdue' = NothingOverdue
  /\ UNCHANGED <<servers, reading, writing, rq, wq, errh, first, threads, net>>

SelectReturn ==
  LET r  == {s \in Watched(reading) : Readable(s)}
      w  == {s \in Watched(writing) : Writable(s)}
      kr == Kicked(overdue.r, r)
      kw == Kicked(overdue.w, w)
  IN /\ Idle /\ phase = "select"
     /\ HasTimeout \/ r \cup w # {}
     /\ revs' = r \cup kr /\ wevs' = w \cup kw
     /\ phase' = IF revs' \cup wevs' = {} THEN "main" ELSE "first"
     /\ Cleanse(kr, kw)

\* An error of select is raised out of step after the watchdog has had its turn;
\* nothing in xavante.start or main.c catches it.
SelectError ==
  LET kr == Kicked(overdue.r, {})
      kw == Kicked(overdue.w, {})
  IN /\ SelectMayFail
     /\ Idle /\ phase = "select"
     /\ phase' = "failed"
     /\ revs' = kr /\ wevs' = kw
     /\ Cleanse(kr, kw)

Task == CASE phase = "first"  -> first
          [] phase = "second" -> IF first = "read" THEN "write" ELSE "read"
          [] OTHER            -> "none"

\* tick of _readable_t for a server: _accept.
TickAccept(v) ==
  /\ Idle /\ Task = "read" /\ v \in revs \cap servers
  /\ revs' = revs \ {v}
  /\ \/ /\ Incoming(v) = {}
        /\ UNCHANGED <<threads, sk>>
     \/ \E c \in Incoming(v) : /\ sk' = [sk EXCEPT ![c] = "open"]
                               /\ Resume(c, c)
                               /\ pc' = [pc EXCEPT ![c] = "body"]
                               /\ UNCHANGED arg
  /\ UNCHANGED <<tables, first, phase, now, overdue, wevs, inp, eof, room>>

\* tick of _readable_t for any other socket: remove, then _tickRead.
TickRead(s) ==
  /\ Idle /\ Task = "read" /\ s \in revs \ servers
  /\ revs' = revs \ {s}
  /\ reading' = remove(reading, s)
  /\ rq' = pop(rq, s)
  /\ IF rq[s] = <<>> THEN UNCHANGED <<stack, via>> ELSE Resume(Head(rq[s]), s)
  /\ UNCHANGED <<servers, writing, wq, rlog, wlog, lastClean, errh,
                 first, phase, now, overdue, wevs, pc, arg, net>>

\* tick of _writable_t: remove, then _tickWrite.
TickWrite(s) ==
  /\ Idle /\ Task = "write" /\ s \in wevs
  /\ wevs' = wevs \ {s}
  /\ writing' = remove(writing, s)
  /\ wq' = pop(wq, s)
  /\ IF wq[s] = <<>> THEN UNCHANGED <<stack, via>> ELSE Resume(Head(wq[s]), s)
  /\ UNCHANGED <<servers, reading, rq, rlog, wlog, lastClean, errh,
                 first, phase, now, overdue, revs, pc, arg, net>>

TaskDone ==
  /\ Idle
  /\ \/ Task = "read" /\ revs = {}
     \/ Task = "write" /\ wevs = {}
  /\ phase' = IF phase = "first" THEN "second" ELSE "main"
  /\ UNCHANGED <<tables, first, now, overdue, revs, wevs, threads, net>>
-----------------------------------------------------------------------------
(* The network and the clock.                                              *)

Arrive(s) == /\ s \notin Outgoing /\ sk[s] = "none"
             /\ sk' = [sk EXCEPT ![s] = "backlog"]
             /\ UNCHANGED <<tables, loop, threads, inp, eof, room>>

\* The peer gives up before it is accepted.
Abort(s) == /\ sk[s] = "backlog"
            /\ sk' = [sk EXCEPT ![s] = "gone"]
            /\ UNCHANGED <<tables, loop, threads, inp, eof, room>>

Data(s) == /\ sk[s] \in {"backlog", "open"} /\ ~eof[s] /\ inp[s] < MaxData
           /\ inp' = [inp EXCEPT ![s] = @ + 1]
           /\ UNCHANGED <<tables, loop, threads, sk, eof, room>>

PeerClose(s) == /\ sk[s] \in {"backlog", "open"} /\ ~eof[s]
                /\ eof' = [eof EXCEPT ![s] = TRUE]
                /\ UNCHANGED <<tables, loop, threads, sk, inp, room>>

\* Space in the send buffer, or the end of a pending connection attempt.
Drain(s) == /\ sk[s] = "open" /\ ~room[s]
            /\ room' = [room EXCEPT ![s] = TRUE]
            /\ UNCHANGED <<tables, loop, threads, sk, inp, eof>>

ClockTick ==
  /\ rlog' = [s \in Client |-> Older(rlog[s])]
  /\ wlog' = [s \in Client |-> Older(wlog[s])]
  /\ lastClean' = Older(lastClean)
  /\ now' = IF phase = "select" THEN Older(now) ELSE now
  /\ UNCHANGED <<servers, reading, writing, rq, wq, errh,
                 first, phase, overdue, revs, wevs, threads, net>>
-----------------------------------------------------------------------------
Handler(co) == \/ \E s \in Client : Receive(co, s) \/ Send(co, s) \/ Connect(co, s) \/ Close(co, s)
               \/ SendResumed(co) \/ SetErrorHandler(co) \/ Finish(co)

Dispatch == \/ SelectEnter \/ SelectReturn \/ SelectError \/ TaskDone
            \/ \E v \in Server : TickAccept(v)
            \/ \E s \in Client : TickRead(s) \/ TickWrite(s)

Network == \E s \in Client : Arrive(s) \/ Abort(s) \/ Data(s) \/ PeerClose(s) \/ Drain(s)

Next == \/ \E co \in Coroutine : Handler(co)
        \/ \E t \in Thread : AddThread(t)
        \/ \E v \in Server : AddServer(v)
        \/ Dispatch \/ Network \/ ClockTick

Spec == Init /\ [][Next]_vars

\* The program calls step in a loop (loop, xavante.start) and the clock runs.  A
\* cooperative scheduler can do no more than its coroutines let it: each is assumed to give control back, by
\* waiting or by ending, if it gets to run again and again.  (For send the extra
\* yield sees to that with probability one.)
Relinquish(co) == Handler(co) /\ Len(stack') < Len(stack)

Fairness == /\ SF_vars(Dispatch)
            /\ WF_vars(ClockTick)
            /\ \A co \in Coroutine : WF_vars(Handler(co)) /\ SF_vars(Relinquish(co))

FairSpec == Spec /\ Fairness
-----------------------------------------------------------------------------
TypeOK ==
  /\ servers \subseteq Server
  /\ reading \in Seq(Server \cup Client) /\ writing \in Seq(Client)
  /\ rq \in [Client -> Seq(Coroutine)] /\ wq \in [Client -> Seq(Coroutine)]
  /\ rlog \in [Client -> Age \cup {NIL}] /\ wlog \in [Client -> Age \cup {NIL}]
  /\ lastClean \in Age /\ errh \subseteq Coroutine
  /\ first \in {"read", "write"}
  /\ phase \in {"main", "select", "first", "second", "failed"}
  /\ now \in Age
  /\ overdue \in [due : BOOLEAN, r : SUBSET Client, w : SUBSET Client]
  /\ revs \subseteq Server \cup Client /\ wevs \subseteq Client
  /\ stack \in Seq(Coroutine)
  /\ pc \in [Coroutine -> {"dead", "body", "receive", "send", "sent", "swapped", "connect"}]
  /\ arg \in [Coroutine -> Client \cup {NIL}] /\ via \in [Coroutine -> Client \cup {NIL}]
  /\ sk \in [Client -> {"none", "backlog", "gone", "open", "closed"}]
  /\ inp \in [Client -> 0..MaxData]
  /\ eof \in [Client -> BOOLEAN] /\ room \in [Client -> BOOLEAN]

ReadWait  == {"receive"}
WriteWait == {"send", "sent", "swapped", "connect"}
Suspended(co) == pc[co] # "dead" /\ co \notin Range(stack)

\* A queue holds suspended coroutines only, each once, and only under the socket
\* and direction it waits for; and every suspended coroutine is in a queue.  So
\* _doTick (copas.lua:240-253) never resumes a coroutine that is running or
\* dead, never resumes one with an event it did not wait for, and loses none.
StackOK == /\ IsInjective(stack)
           /\ \A co \in Range(stack) : pc[co] # "dead"
QueueOK(q, names) ==
  \A s \in Client : /\ IsInjective(q[s])
                    /\ \A co \in Range(q[s]) : Suspended(co) /\ pc[co] \in names /\ arg[co] = s
NoneLost ==
  \A co \in Coroutine : Suspended(co) =>
     \E s \in Client : \/ co \in Range(rq[s])
                      \/ co \in Range(wq[s])
QueueIntegrity == StackOK /\ QueueOK(rq, ReadWait) /\ QueueOK(wq, WriteWait) /\ NoneLost

\* A socket is passed to select exactly while a coroutine waits for it, when one
\* coroutine at most uses it in that direction.  (With two, the first one served
\* takes the socket out of the set of both: copas.lua:330-338.)
Sole(uses, s) == \A c, d \in Coroutine : (<<c, s>> \in uses /\ <<d, s>> \in uses) => c = d
NoStrandedWaiter ==
  \A s \in Client : /\ Sole(Reads, s) => (s \in Range(reading) <=> rq[s] # <<>>)
                    /\ Sole(Writes, s) => (s \in Range(writing) <=> wq[s] # <<>>)

\* Whoever else uses it, a socket passed to select has a coroutine to resume: an
\* event is never spent on an empty queue while the socket is still in the set.
EventFindsWaiter ==
  /\ \A s \in Client : s \in Range(reading) => rq[s] # <<>>
  /\ \A s \in Client : s \in Range(writing) => wq[s] # <<>>

\* Every wait has a log entry for the watchdog, or already has its event, so that
\* a coroutine whose socket select ignores (closed by another one, or beyond the
\* capacity of the fd_set) can still be woken (copas.lua:381-395).
WatchdogArmed ==
  \A s \in Client : /\ Sole(Reads, s) /\ rq[s] # <<>> => (rlog[s] # NIL \/ s \in revs)
                    /\ Sole(Writes, s) /\ wq[s] # <<>> => (wlog[s] # NIL \/ s \in wevs)

\* A registered server is passed to select for ever (copas.lua:279-283, 330-338).
ServersWatched == servers \subseteq Range(reading)

\* The handler table has no entry of a coroutine that ended, which a later
\* coroutine of the same identity would inherit (copas.lua:225-230, 251).
HandlersOfLive == \A co \in errh : pc[co] # "dead"

\* What holds of the tables between two steps of the dispatcher, whoever ran.
Consistent == TypeOK /\ QueueIntegrity /\ ServersWatched /\ HandlersOfLive

\* What is watched and what is waited for agree.
Watching == NoStrandedWaiter /\ EventFindsWaiter

\* A connection whose handler has ended is closed, when the handler waits on no
\* other socket: what _doTick closes is the socket of the last event, not the
\* one that was accepted (copas.lua:250).
UsesOnly(c) == \A s \in Client : <<c, s>> \in Reads \cup Writes => s = c
FinishedIsClosed ==
  \A c \in Client \ Outgoing :
     UsesOnly(c) /\ Connected(c) /\ pc[c] = "dead" => sk[c] = "closed"

\* The watchdog wakes nobody early: a socket that was not ready gets an event only
\* when its wait is older than WATCH_DOG_TIMEOUT, and its entry is then cleared
\* (copas.lua:378-397, where now is read before select blocks).
Rescued(log, s) == log[s] # NIL /\ log[s] > WatchDog
WakesLate ==
  /\ \A s \in (revs' \ revs) \cap Client : Readable(s) \/ (Rescued(rlog, s) /\ rlog'[s] = NIL)
  /\ \A s \in wevs' \ wevs : Writable(s) \/ (Rescued(wlog, s) /\ wlog'[s] = NIL)

\* Every wait has its entry in the watchdog's log, or its event, after every step, and
\* the watchdog wakes nobody early (copas.lua:378-397).
WatchdogInTime == [][WatchdogArmed' /\ WakesLate]_vars

\* A server never moves back in the array given to select, of which only the first
\* FdSetSize sockets are watched: remove swaps in from the end only.
ServerKeepsPlace ==
  [][\A v \in servers : IndexIn(reading', v) <= IndexIn(reading, v)]_vars

Ready(co) == /\ Suspended(co) /\ sk[arg[co]] = "open"
             /\ IF pc[co] \in ReadWait THEN Readable(arg[co]) ELSE Writable(arg[co])

\* A coroutine whose socket has become ready is resumed (copas.lua:367-423), even
\* if select blocks until some socket is ready, unless another coroutine closes
\* the socket first.
ReadyIsResumed ==
  \A co \in Coroutine : Ready(co) ~> \/ co \in Range(stack)
                                     \/ \E s \in Client : arg[co] = s /\ sk[s] = "closed"

\* An incoming connection is accepted, unless the peer withdraws it.
IncomingIsAccepted ==
  \A s \in Client : (sk[s] = "backlog" /\ Port[s] \in servers) ~> sk[s] # "backlog"

\* If step is given a timeout, the watchdog resumes every waiting coroutine sooner
\* or later, even one whose socket was closed by another or never fits in the
\* fd_set (copas.lua:378-397).
WaiterIsResumed == \A co \in Coroutine : Suspended(co) ~> co \in Range(stack)
=============================================================================
