---------------------------- MODULE CopasProofs -----------------------------
(***************************************************************************)
(* The dispatcher is safe for any number of sockets, coroutines and        *)
(* servers, any capacity of an fd_set and any watchdog timeout: queues and *)
(* coroutines stay in step (QueueIntegrity), servers stay registered, and  *)
(* no sole user of a socket is left out of the set given to select.        *)
(***************************************************************************)
EXTENDS Copas, SetOpsTheorems

\* A coroutine inside a call that can wait uses the socket of that call.
WaitOK == \A co \in Coroutine : /\ pc[co] \in ReadWait => /\ arg[co] \in Client
                                                          /\ <<co, arg[co]>> \in Reads
                                /\ pc[co] \in WriteWait => /\ arg[co] \in Client
                                                           /\ <<co, arg[co]>> \in Writes

\* The handler of a connection does not run before the connection is accepted.
Unborn == \A c \in Client : sk[c] \in {"none", "backlog", "gone"} => pc[c] = "dead"

\* The array parts have no repetitions.
ArraysOK == IsInjective(reading) /\ IsInjective(writing)

\* The coroutines and their queues; the array parts and their queues; the ends
\* of a coroutine's life.
Queues == QueueIntegrity /\ WaitOK
Arrays == ArraysOK /\ ServersWatched /\ EventFindsWaiter /\ NoStrandedWaiter
Lives  == Unborn /\ HandlersOfLive

IInv == TypeOK /\ Queues /\ Arrays /\ Lives
-----------------------------------------------------------------------------
(* The dispatcher's data structures, one lemma for each way they change.   *)

\* Whatever is queued or resumed is a coroutine.
LEMMA AllCoroutines ==
  ASSUME TypeOK
  PROVE  /\ Range(stack) \subseteq Coroutine
         /\ \A s \in Client : Range(rq[s]) \subseteq Coroutine /\ Range(wq[s]) \subseteq Coroutine
<1>1. \A q \in Seq(Coroutine) : Range(q) \subseteq Coroutine
  BY DEF Range
<1> QED
  BY <1>1 DEF TypeOK

\* The running coroutine is in no queue.
LEMMA RunningNotQueued ==
  ASSUME TypeOK, QueueIntegrity, NEW co \in Coroutine, co \in Range(stack)
  PROVE  \A s \in Client : co \notin Range(rq[s]) /\ co \notin Range(wq[s])
BY DEF QueueIntegrity, QueueOK, Suspended

\* Only the running coroutine leaves the stack.
LEMMA ActivePopped ==
  ASSUME TypeOK, QueueIntegrity, NEW co, Active(co)
  PROVE  /\ co \in Coroutine /\ co \in Range(stack)
         /\ Tail(stack) \in Seq(Coroutine)
         /\ Range(Tail(stack)) = Range(stack) \ {co}
         /\ IsInjective(Tail(stack))
         /\ pc[co] # "dead"
<1>1. stack \in Seq(Coroutine) /\ stack # <<>> /\ IsInjective(stack) /\ Head(stack) = co
  BY DEF TypeOK, QueueIntegrity, StackOK, Active
<1>2. /\ co \in Coroutine /\ co \in Range(stack)
      /\ Tail(stack) \in Seq(Coroutine)
      /\ Range(Tail(stack)) = Range(stack) \ {co}
      /\ IsInjective(Tail(stack))
  BY <1>1, TailElems
<1> QED
  BY <1>2 DEF QueueIntegrity, StackOK

\* A queue after push: one coroutine more, others untouched.
LEMMA PushElems ==
  ASSUME NEW f \in [Client -> Seq(Coroutine)], NEW s \in Client, NEW co \in Coroutine,
         IsInjective(f[s]), co \notin Range(f[s])
  PROVE  /\ push(f, s, co) \in [Client -> Seq(Coroutine)]
         /\ push(f, s, co)[s] # <<>>
         /\ \A x : x \in Range(push(f, s, co)[s]) <=> x \in Range(f[s]) \/ x = co
         /\ IsInjective(push(f, s, co)[s])
         /\ \A x \in Client : x # s => push(f, s, co)[x] = f[x]
<1> DEFINE new == Append(f[s], co)
<1>1. /\ new \in Seq(Coroutine)
      /\ new # <<>>
      /\ Range(new) = Range(f[s]) \cup {co}
      /\ IsInjective(new)
  BY AppendElems
<1>2. push(f, s, co) = [f EXCEPT ![s] = new]
  BY DEF push
<1> HIDE DEF new
<1> QED
  BY <1>1, <1>2

\* A queue after pop: its head is gone, the others are untouched.
LEMMA PopElems ==
  ASSUME NEW f \in [Client -> Seq(Coroutine)], NEW s \in Client,
         f[s] # <<>>, IsInjective(f[s])
  PROVE  /\ pop(f, s) \in [Client -> Seq(Coroutine)]
         /\ pop(f, s)[s] = Tail(f[s])
         /\ Head(f[s]) \in Coroutine /\ Head(f[s]) \in Range(f[s])
         /\ \A x : x \in Range(pop(f, s)[s]) <=> x \in Range(f[s]) /\ x # Head(f[s])
         /\ IsInjective(pop(f, s)[s])
         /\ \A x \in Client : x # s => pop(f, s)[x] = f[x]
<1> DEFINE new == Tail(f[s])
<1>1. /\ Head(f[s]) \in Coroutine /\ Head(f[s]) \in Range(f[s])
      /\ new \in Seq(Coroutine)
      /\ Range(new) = Range(f[s]) \ {Head(f[s])}
      /\ IsInjective(new)
  BY TailElems
<1>2. pop(f, s) = [f EXCEPT ![s] = new]
  BY DEF pop
<1> HIDE DEF new
<1> QED
  BY <1>1, <1>2 DEF new

\* Popping an empty queue changes nothing.
LEMMA PopEmpty ==
  ASSUME NEW f \in [Client -> Seq(Coroutine)], NEW s \in Client, f[s] = <<>>
  PROVE  pop(f, s) = f
BY DEF pop
-----------------------------------------------------------------------------
(* Queues and coroutines.                                                  *)

\* A coroutine that waits to receive moves from the stack to the queue.
LEMMA QueuesYieldReading ==
  ASSUME TypeOK, Queues, NEW co, NEW s \in Client, NEW name \in ReadWait,
         Active(co), <<co, s>> \in Reads, YieldReading(co, s, name), wq' = wq
  PROVE  Queues'
<1>1. /\ co \in Coroutine /\ co \in Range(stack)
      /\ stack' = Tail(stack)
      /\ Range(stack') = Range(stack) \ {co}
      /\ IsInjective(stack')
  BY ActivePopped DEF Queues, YieldReading, Suspend
<1>2. \A x \in Client : co \notin Range(rq[x]) /\ co \notin Range(wq[x])
  BY <1>1, RunningNotQueued DEF Queues
<1>3. /\ rq' = push(rq, s, co)
      /\ pc' = [pc EXCEPT ![co] = name]
      /\ arg' = [arg EXCEPT ![co] = s]
  BY DEF YieldReading, Suspend
<1>4. /\ \A x : x \in Range(rq'[s]) <=> x \in Range(rq[s]) \/ x = co
      /\ IsInjective(rq'[s])
      /\ \A x \in Client : x # s => rq'[x] = rq[x]
  <2>1. rq \in [Client -> Seq(Coroutine)] /\ IsInjective(rq[s]) /\ co \notin Range(rq[s])
    BY <1>2 DEF TypeOK, Queues, QueueIntegrity, QueueOK
  <2> DEFINE new == push(rq, s, co)
  <2>2. /\ IsInjective(new[s])
        /\ \A x : x \in Range(new[s]) <=> x \in Range(rq[s]) \/ x = co
        /\ \A x \in Client : x # s => new[x] = rq[x]
    BY <1>1, <2>1, PushElems
  <2> QED
    BY <1>3, <2>2
<1>5. /\ pc'[co] = name /\ arg'[co] = s
      /\ \A d \in Coroutine : d # co => pc'[d] = pc[d] /\ arg'[d] = arg[d]
      /\ name \notin WriteWait /\ name # "dead"
  BY <1>1, <1>3 DEF TypeOK, ReadWait, WriteWait
<1>0. /\ Range(stack) \subseteq Coroutine
      /\ \A x \in Client : Range(rq[x]) \subseteq Coroutine /\ Range(wq[x]) \subseteq Coroutine
  BY AllCoroutines
<1>6. StackOK'
  BY <1>0, <1>1, <1>5 DEF StackOK, TypeOK, Queues, QueueIntegrity
<1>7. QueueOK(rq, ReadWait)'
  BY <1>0, <1>1, <1>2, <1>4, <1>5 DEF QueueOK, Suspended, Queues, QueueIntegrity
<1>8. QueueOK(wq, WriteWait)'
  BY <1>0, <1>1, <1>2, <1>5 DEF QueueOK, Suspended, Queues, QueueIntegrity
<1>9. NoneLost'
  BY <1>1, <1>4, <1>5 DEF NoneLost, Suspended, Queues, QueueIntegrity
<1>10. WaitOK'
  BY <1>5 DEF WaitOK, Queues
<1> QED
  BY <1>6, <1>7, <1>8, <1>9, <1>10 DEF Queues, QueueIntegrity
\* A coroutine that waits to send moves from the stack to the queue.
LEMMA QueuesYieldWriting ==
  ASSUME TypeOK, Queues, NEW co, NEW s \in Client, NEW name \in WriteWait,
         Active(co), <<co, s>> \in Writes, YieldWriting(co, s, name), rq' = rq
  PROVE  Queues'
<1>1. /\ co \in Coroutine /\ co \in Range(stack)
      /\ stack' = Tail(stack)
      /\ Range(stack') = Range(stack) \ {co}
      /\ IsInjective(stack')
  BY ActivePopped DEF Queues, YieldWriting, Suspend
<1>2. \A x \in Client : co \notin Range(wq[x]) /\ co \notin Range(rq[x])
  BY <1>1, RunningNotQueued DEF Queues
<1>3. /\ wq' = push(wq, s, co)
      /\ pc' = [pc EXCEPT ![co] = name]
      /\ arg' = [arg EXCEPT ![co] = s]
  BY DEF YieldWriting, Suspend
<1>4. /\ \A x : x \in Range(wq'[s]) <=> x \in Range(wq[s]) \/ x = co
      /\ IsInjective(wq'[s])
      /\ \A x \in Client : x # s => wq'[x] = wq[x]
  <2>1. wq \in [Client -> Seq(Coroutine)] /\ IsInjective(wq[s]) /\ co \notin Range(wq[s])
    BY <1>2 DEF TypeOK, Queues, QueueIntegrity, QueueOK
  <2> DEFINE new == push(wq, s, co)
  <2>2. /\ IsInjective(new[s])
        /\ \A x : x \in Range(new[s]) <=> x \in Range(wq[s]) \/ x = co
        /\ \A x \in Client : x # s => new[x] = wq[x]
    BY <1>1, <2>1, PushElems
  <2> QED
    BY <1>3, <2>2
<1>5. /\ pc'[co] = name /\ arg'[co] = s
      /\ \A d \in Coroutine : d # co => pc'[d] = pc[d] /\ arg'[d] = arg[d]
      /\ name \notin ReadWait /\ name # "dead"
  BY <1>1, <1>3 DEF TypeOK, ReadWait, WriteWait
<1>0. /\ Range(stack) \subseteq Coroutine
      /\ \A x \in Client : Range(wq[x]) \subseteq Coroutine /\ Range(rq[x]) \subseteq Coroutine
  BY AllCoroutines
<1>6. StackOK'
  BY <1>0, <1>1, <1>5 DEF StackOK, TypeOK, Queues, QueueIntegrity
<1>7. QueueOK(wq, WriteWait)'
  BY <1>0, <1>1, <1>2, <1>4, <1>5 DEF QueueOK, Suspended, Queues, QueueIntegrity
<1>8. QueueOK(rq, ReadWait)'
  BY <1>0, <1>1, <1>2, <1>5 DEF QueueOK, Suspended, Queues, QueueIntegrity
<1>9. NoneLost'
  BY <1>1, <1>4, <1>5 DEF NoneLost, Suspended, Queues, QueueIntegrity
<1>10. WaitOK'
  BY <1>5 DEF WaitOK, Queues
<1> QED
  BY <1>6, <1>7, <1>8, <1>9, <1>10 DEF Queues, QueueIntegrity
\* The running coroutine goes on: its call returned.
LEMMA QueuesReturn ==
  ASSUME TypeOK, Queues, NEW co, Active(co), Return(co), rq' = rq, wq' = wq
  PROVE  Queues'
<1>1. co \in Coroutine /\ co \in Range(stack) /\ stack' = stack
  BY ActivePopped DEF Queues, Return
<1>2. \A x \in Client : co \notin Range(rq[x]) /\ co \notin Range(wq[x])
  BY <1>1, RunningNotQueued DEF Queues
<1>3. /\ pc'[co] = "body"
      /\ \A d \in Coroutine : d # co => pc'[d] = pc[d] /\ arg'[d] = arg[d]
  BY <1>1 DEF TypeOK, Return
<1>0. /\ Range(stack) \subseteq Coroutine
      /\ \A x \in Client : Range(rq[x]) \subseteq Coroutine /\ Range(wq[x]) \subseteq Coroutine
  BY AllCoroutines
<1>4. StackOK'
  BY <1>0, <1>1, <1>3 DEF StackOK, Queues, QueueIntegrity
<1>5. QueueOK(rq, ReadWait)'
  BY <1>0, <1>1, <1>2, <1>3 DEF QueueOK, Suspended, Queues, QueueIntegrity
<1>6. QueueOK(wq, WriteWait)'
  BY <1>0, <1>1, <1>2, <1>3 DEF QueueOK, Suspended, Queues, QueueIntegrity
<1>7. NoneLost'
  BY <1>1, <1>3 DEF NoneLost, Suspended, Queues, QueueIntegrity
<1>8. WaitOK'
  BY <1>3 DEF WaitOK, Queues, ReadWait, WriteWait
<1> QED
  BY <1>4, <1>5, <1>6, <1>7, <1>8 DEF Queues, QueueIntegrity

\* A new coroutine, for an accepted connection or by addthread.
LEMMA QueuesStart ==
  ASSUME TypeOK, Queues, NEW co \in Coroutine, pc[co] = "dead",
         stack' = <<co>> \o stack, pc' = [pc EXCEPT ![co] = "body"], arg' = arg,
         rq' = rq, wq' = wq
  PROVE  Queues'
<1>1. co \notin Range(stack)
  BY DEF Queues, QueueIntegrity, StackOK
<1>2. \A x \in Client : co \notin Range(rq[x]) /\ co \notin Range(wq[x])
  BY DEF Queues, QueueIntegrity, QueueOK, Suspended
<1>3. /\ Range(stack') = Range(stack) \cup {co}
      /\ IsInjective(stack')
  <2>1. stack \in Seq(Coroutine) /\ IsInjective(stack)
    BY DEF TypeOK, Queues, QueueIntegrity, StackOK
  <2> DEFINE new == <<co>> \o stack
  <2>2. Range(new) = Range(stack) \cup {co} /\ IsInjective(new)
    BY <1>1, <2>1, ConsElems
  <2> QED
    BY <2>2
<1>4. /\ pc'[co] = "body"
      /\ \A d \in Coroutine : d # co => pc'[d] = pc[d]
  BY DEF TypeOK
<1>0. /\ Range(stack) \subseteq Coroutine
      /\ \A x \in Client : Range(rq[x]) \subseteq Coroutine /\ Range(wq[x]) \subseteq Coroutine
  BY AllCoroutines
<1>5. StackOK'
  BY <1>0, <1>3, <1>4 DEF StackOK, Queues, QueueIntegrity
<1>6. QueueOK(rq, ReadWait)'
  BY <1>0, <1>2, <1>3, <1>4 DEF QueueOK, Suspended, Queues, QueueIntegrity
<1>7. QueueOK(wq, WriteWait)'
  BY <1>0, <1>2, <1>3, <1>4 DEF QueueOK, Suspended, Queues, QueueIntegrity
<1>8. NoneLost'
  BY <1>3, <1>4 DEF NoneLost, Suspended, Queues, QueueIntegrity
<1>9. WaitOK'
  BY <1>4 DEF WaitOK, Queues, ReadWait, WriteWait
<1> QED
  BY <1>5, <1>6, <1>7, <1>8, <1>9 DEF Queues, QueueIntegrity

\* The end of the running coroutine.
LEMMA QueuesFinish ==
  ASSUME TypeOK, Queues, NEW co, Active(co),
         stack' = Tail(stack), pc' = [pc EXCEPT ![co] = "dead"], arg' = arg,
         rq' = rq, wq' = wq
  PROVE  Queues'
<1>1. /\ co \in Coroutine /\ co \in Range(stack)
      /\ Range(stack') = Range(stack) \ {co}
      /\ IsInjective(stack')
  BY ActivePopped DEF Queues
<1>2. \A x \in Client : co \notin Range(rq[x]) /\ co \notin Range(wq[x])
  BY <1>1, RunningNotQueued DEF Queues
<1>3. /\ pc'[co] = "dead"
      /\ \A d \in Coroutine : d # co => pc'[d] = pc[d]
  BY <1>1 DEF TypeOK
<1>0. /\ Range(stack) \subseteq Coroutine
      /\ \A x \in Client : Range(rq[x]) \subseteq Coroutine /\ Range(wq[x]) \subseteq Coroutine
  BY AllCoroutines
<1>4. StackOK'
  BY <1>0, <1>1, <1>3 DEF StackOK, Queues, QueueIntegrity
<1>5. QueueOK(rq, ReadWait)'
  BY <1>0, <1>1, <1>2, <1>3 DEF QueueOK, Suspended, Queues, QueueIntegrity
<1>6. QueueOK(wq, WriteWait)'
  BY <1>0, <1>1, <1>2, <1>3 DEF QueueOK, Suspended, Queues, QueueIntegrity
<1>7. NoneLost'
  BY <1>1, <1>3 DEF NoneLost, Suspended, Queues, QueueIntegrity
<1>8. WaitOK'
  BY <1>3 DEF WaitOK, Queues, ReadWait, WriteWait
<1> QED
  BY <1>4, <1>5, <1>6, <1>7, <1>8 DEF Queues, QueueIntegrity
\* The first coroutine that waits to receive on s is resumed.
LEMMA QueuesResumeReader ==
  ASSUME TypeOK, Queues, NEW s \in Client, rq[s] # <<>>,
         stack' = <<Head(rq[s])>> \o stack, pc' = pc, arg' = arg,
         rq' = pop(rq, s), wq' = wq
  PROVE  Queues'
<1> DEFINE co == Head(rq[s])
<1>0. /\ Range(stack) \subseteq Coroutine
      /\ \A x \in Client : Range(rq[x]) \subseteq Coroutine /\ Range(wq[x]) \subseteq Coroutine
  BY AllCoroutines
<1>1. /\ co \in Coroutine /\ co \in Range(rq[s])
      /\ \A x : x \in Range(rq'[s]) <=> x \in Range(rq[s]) /\ x # co
      /\ IsInjective(rq'[s])
      /\ \A x \in Client : x # s => rq'[x] = rq[x]
  <2>1. rq \in [Client -> Seq(Coroutine)] /\ IsInjective(rq[s])
    BY DEF TypeOK, Queues, QueueIntegrity, QueueOK
  <2> DEFINE new == pop(rq, s)
  <2>2. /\ co \in Coroutine /\ co \in Range(rq[s])
        /\ IsInjective(new[s])
        /\ \A x : x \in Range(new[s]) <=> x \in Range(rq[s]) /\ x # co
        /\ \A x \in Client : x # s => new[x] = rq[x]
    BY <2>1, PopElems
  <2> QED
    BY <2>2
<1> HIDE DEF co
<1>2. Suspended(co) /\ pc[co] \in ReadWait /\ arg[co] = s
  BY <1>1 DEF Queues, QueueIntegrity, QueueOK
<1>3. \A x \in Client : co \notin Range(wq[x]) /\ (x # s => co \notin Range(rq[x]))
  BY <1>2 DEF Queues, QueueIntegrity, QueueOK, ReadWait, WriteWait
<1>4. Range(stack') = Range(stack) \cup {co} /\ IsInjective(stack')
  <2>1. stack \in Seq(Coroutine) /\ IsInjective(stack) /\ co \notin Range(stack)
    BY <1>2 DEF TypeOK, Queues, QueueIntegrity, StackOK, Suspended
  <2> DEFINE new == <<co>> \o stack
  <2>2. Range(new) = Range(stack) \cup {co} /\ IsInjective(new)
    BY <1>1, <2>1, ConsElems
  <2> QED
    BY <2>2 DEF co
<1>5. StackOK'
  BY <1>0, <1>2, <1>4 DEF StackOK, Suspended, Queues, QueueIntegrity
<1>6. QueueOK(rq, ReadWait)'
  BY <1>0, <1>1, <1>3, <1>4 DEF QueueOK, Suspended, Queues, QueueIntegrity
<1>7. QueueOK(wq, WriteWait)'
  BY <1>0, <1>3, <1>4 DEF QueueOK, Suspended, Queues, QueueIntegrity
<1>8. NoneLost'
  BY <1>1, <1>4 DEF NoneLost, Suspended, Queues, QueueIntegrity
<1>9. WaitOK'
  BY DEF WaitOK, Queues
<1> QED
  BY <1>5, <1>6, <1>7, <1>8, <1>9 DEF Queues, QueueIntegrity

\* The first coroutine that waits to send on s is resumed.
LEMMA QueuesResumeWriter ==
  ASSUME TypeOK, Queues, NEW s \in Client, wq[s] # <<>>,
         stack' = <<Head(wq[s])>> \o stack, pc' = pc, arg' = arg,
         wq' = pop(wq, s), rq' = rq
  PROVE  Queues'
<1> DEFINE co == Head(wq[s])
<1>0. /\ Range(stack) \subseteq Coroutine
      /\ \A x \in Client : Range(wq[x]) \subseteq Coroutine /\ Range(rq[x]) \subseteq Coroutine
  BY AllCoroutines
<1>1. /\ co \in Coroutine /\ co \in Range(wq[s])
      /\ \A x : x \in Range(wq'[s]) <=> x \in Range(wq[s]) /\ x # co
      /\ IsInjective(wq'[s])
      /\ \A x \in Client : x # s => wq'[x] = wq[x]
  <2>1. wq \in [Client -> Seq(Coroutine)] /\ IsInjective(wq[s])
    BY DEF TypeOK, Queues, QueueIntegrity, QueueOK
  <2> DEFINE new == pop(wq, s)
  <2>2. /\ co \in Coroutine /\ co \in Range(wq[s])
        /\ IsInjective(new[s])
        /\ \A x : x \in Range(new[s]) <=> x \in Range(wq[s]) /\ x # co
        /\ \A x \in Client : x # s => new[x] = wq[x]
    BY <2>1, PopElems
  <2> QED
    BY <2>2
<1> HIDE DEF co
<1>2. Suspended(co) /\ pc[co] \in WriteWait /\ arg[co] = s
  BY <1>1 DEF Queues, QueueIntegrity, QueueOK
<1>3. \A x \in Client : co \notin Range(rq[x]) /\ (x # s => co \notin Range(wq[x]))
  BY <1>2 DEF Queues, QueueIntegrity, QueueOK, WriteWait, ReadWait
<1>4. Range(stack') = Range(stack) \cup {co} /\ IsInjective(stack')
  <2>1. stack \in Seq(Coroutine) /\ IsInjective(stack) /\ co \notin Range(stack)
    BY <1>2 DEF TypeOK, Queues, QueueIntegrity, StackOK, Suspended
  <2> DEFINE new == <<co>> \o stack
  <2>2. Range(new) = Range(stack) \cup {co} /\ IsInjective(new)
    BY <1>1, <2>1, ConsElems
  <2> QED
    BY <2>2 DEF co
<1>5. StackOK'
  BY <1>0, <1>2, <1>4 DEF StackOK, Suspended, Queues, QueueIntegrity
<1>6. QueueOK(wq, WriteWait)'
  BY <1>0, <1>1, <1>3, <1>4 DEF QueueOK, Suspended, Queues, QueueIntegrity
<1>7. QueueOK(rq, ReadWait)'
  BY <1>0, <1>3, <1>4 DEF QueueOK, Suspended, Queues, QueueIntegrity
<1>8. NoneLost'
  BY <1>1, <1>4 DEF NoneLost, Suspended, Queues, QueueIntegrity
<1>9. WaitOK'
  BY DEF WaitOK, Queues
<1> QED
  BY <1>5, <1>6, <1>7, <1>8, <1>9 DEF Queues, QueueIntegrity
-----------------------------------------------------------------------------
(* Arrays and queues.                                                      *)

\* A sole user is the only one queued, and its event empties the queue.
LEMMA OnlyReader ==
  ASSUME TypeOK, Queues, NEW s \in Client, Sole(Reads, s)
  PROVE  pop(rq, s)[s] = <<>>
<1>1. rq \in [Client -> Seq(Coroutine)] /\ IsInjective(rq[s])
  BY DEF TypeOK, Queues, QueueIntegrity, QueueOK
<1>2. pop(rq, s)[s] = IF rq[s] = <<>> THEN <<>> ELSE Tail(rq[s])
  BY <1>1 DEF pop
<1>3. \A c \in Range(rq[s]) : c \in Coroutine /\ <<c, s>> \in Reads
  BY AllCoroutines DEF Queues, QueueIntegrity, QueueOK, Suspended, WaitOK
<1>4. \A c, d \in Range(rq[s]) : c = d
  BY <1>3 DEF Sole
<1>5. rq[s] # <<>> => Tail(rq[s]) = <<>>
  BY <1>1, <1>4, SoleElement
<1> QED
  BY <1>2, <1>5

\* Waiting to receive: the socket is in the array, the coroutine in the queue.
LEMMA ArraysYieldReading ==
  ASSUME TypeOK, Arrays, NEW co, NEW s \in Client, NEW name,
         YieldReading(co, s, name), servers' = servers, writing' = writing, wq' = wq
  PROVE  Arrays'
<1>1. reading \in Seq(Server \cup Client) /\ IsInjective(reading) /\ reading' = insert(reading, s)
  BY DEF TypeOK, Arrays, ArraysOK, YieldReading
<1> DEFINE new == insert(reading, s)
<1>2. Range(new) = Range(reading) \cup {s} /\ IsInjective(new)
  BY <1>1, InsertElems
<1> HIDE DEF new
<1>3. Range(reading') = Range(reading) \cup {s} /\ IsInjective(reading')
  BY <1>1, <1>2 DEF new
<1>4. rq'[s] # <<>> /\ \A x \in Client : x # s => rq'[x] = rq[x]
  <2>1. rq \in [Client -> Seq(Coroutine)] /\ rq' = [rq EXCEPT ![s] = Append(rq[s], co)]
    BY DEF TypeOK, YieldReading, push
  <2>2. Append(rq[s], co) # <<>>
    BY <2>1, AppendProperties
  <2> QED
    BY <2>1, <2>2
<1> QED
  BY <1>3, <1>4 DEF Arrays, ArraysOK, ServersWatched, EventFindsWaiter, NoStrandedWaiter, Sole

\* A sole user is the only one queued, and its event empties the queue.
LEMMA OnlyWriter ==
  ASSUME TypeOK, Queues, NEW s \in Client, Sole(Writes, s)
  PROVE  pop(wq, s)[s] = <<>>
<1>1. wq \in [Client -> Seq(Coroutine)] /\ IsInjective(wq[s])
  BY DEF TypeOK, Queues, QueueIntegrity, QueueOK
<1>2. pop(wq, s)[s] = IF wq[s] = <<>> THEN <<>> ELSE Tail(wq[s])
  BY <1>1 DEF pop
<1>3. \A c \in Range(wq[s]) : c \in Coroutine /\ <<c, s>> \in Writes
  BY AllCoroutines DEF Queues, QueueIntegrity, QueueOK, Suspended, WaitOK
<1>4. \A c, d \in Range(wq[s]) : c = d
  BY <1>3 DEF Sole
<1>5. wq[s] # <<>> => Tail(wq[s]) = <<>>
  BY <1>1, <1>4, SoleElement
<1> QED
  BY <1>2, <1>5

\* Waiting to send: the socket is in the array, the coroutine in the queue.
LEMMA ArraysYieldWriting ==
  ASSUME TypeOK, Arrays, NEW co, NEW s \in Client, NEW name,
         YieldWriting(co, s, name), servers' = servers, reading' = reading, rq' = rq
  PROVE  Arrays'
<1>1. writing \in Seq(Client) /\ IsInjective(writing) /\ writing' = insert(writing, s)
  BY DEF TypeOK, Arrays, ArraysOK, YieldWriting
<1> DEFINE new == insert(writing, s)
<1>2. Range(new) = Range(writing) \cup {s} /\ IsInjective(new)
  BY <1>1, InsertElems
<1> HIDE DEF new
<1>3. Range(writing') = Range(writing) \cup {s} /\ IsInjective(writing')
  BY <1>1, <1>2 DEF new
<1>4. wq'[s] # <<>> /\ \A x \in Client : x # s => wq'[x] = wq[x]
  <2>1. wq \in [Client -> Seq(Coroutine)] /\ wq' = [wq EXCEPT ![s] = Append(wq[s], co)]
    BY DEF TypeOK, YieldWriting, push
  <2>2. Append(wq[s], co) # <<>>
    BY <2>1, AppendProperties
  <2> QED
    BY <2>1, <2>2
<1> QED
  BY <1>3, <1>4 DEF Arrays, ArraysOK, ServersWatched, EventFindsWaiter, NoStrandedWaiter, Sole

\* An event takes the socket out of the array and one coroutine from its queue.
LEMMA ArraysDequeueReader ==
  ASSUME TypeOK, Queues, Arrays, NEW s \in Client,
         reading' = remove(reading, s), rq' = pop(rq, s),
         servers' = servers, writing' = writing, wq' = wq
  PROVE  Arrays'
<1>1. reading \in Seq(Server \cup Client) /\ IsInjective(reading)
  BY DEF TypeOK, Arrays, ArraysOK
<1> DEFINE new == remove(reading, s)
<1>2. Range(new) = Range(reading) \ {s} /\ IsInjective(new)
  BY <1>1, RemoveElems
<1> HIDE DEF new
<1>3. Range(reading') = Range(reading) \ {s} /\ IsInjective(reading')
  BY <1>2 DEF new
<1>4. \A x \in Client : x # s => rq'[x] = rq[x]
  BY DEF TypeOK, pop
<1>5. Sole(Reads, s) => rq'[s] = <<>>
  BY OnlyReader
<1>6. s \notin servers
  BY CopasAssumption DEF TypeOK
<1> QED
  BY <1>3, <1>4, <1>5, <1>6 DEF Arrays, ArraysOK, ServersWatched, EventFindsWaiter, NoStrandedWaiter, Sole

\* An event takes the socket out of the array and one coroutine to its queue.
LEMMA ArraysDequeueWriter ==
  ASSUME TypeOK, Queues, Arrays, NEW s \in Client,
         writing' = remove(writing, s), wq' = pop(wq, s),
         servers' = servers, reading' = reading, rq' = rq
  PROVE  Arrays'
<1>1. writing \in Seq(Client) /\ IsInjective(writing)
  BY DEF TypeOK, Arrays, ArraysOK
<1> DEFINE new == remove(writing, s)
<1>2. Range(new) = Range(writing) \ {s} /\ IsInjective(new)
  BY <1>1, RemoveElems
<1> HIDE DEF new
<1>3. Range(writing') = Range(writing) \ {s} /\ IsInjective(writing')
  BY <1>2 DEF new
<1>4. \A x \in Client : x # s => wq'[x] = wq[x]
  BY DEF TypeOK, pop
<1>5. Sole(Writes, s) => wq'[s] = <<>>
  BY OnlyWriter
<1> QED
  BY <1>3, <1>4, <1>5 DEF Arrays, ArraysOK, ServersWatched, EventFindsWaiter, NoStrandedWaiter, Sole

\* A new server joins the array.
LEMMA ArraysAddServer ==
  ASSUME TypeOK, Arrays, NEW v \in Server,
         reading' = insert(reading, v), servers' = servers \cup {v},
         writing' = writing, rq' = rq, wq' = wq
  PROVE  Arrays'
<1>1. reading \in Seq(Server \cup Client) /\ IsInjective(reading)
  BY DEF TypeOK, Arrays, ArraysOK
<1> DEFINE new == insert(reading, v)
<1>2. Range(new) = Range(reading) \cup {v} /\ IsInjective(new)
  BY <1>1, InsertElems
<1> HIDE DEF new
<1>3. Range(reading') = Range(reading) \cup {v} /\ IsInjective(reading')
  BY <1>2 DEF new
<1>4. v \notin Client
  BY CopasAssumption
<1> QED
  BY <1>3, <1>4 DEF Arrays, ArraysOK, ServersWatched, EventFindsWaiter, NoStrandedWaiter, Sole
-----------------------------------------------------------------------------
(* One lemma per action.                                                   *)

\* Nothing the data structures depend on has changed.
LEMMA QueuesSame ==
  ASSUME Queues, UNCHANGED <<stack, pc, arg, rq, wq>>
  PROVE  Queues'
BY DEF Queues, QueueIntegrity, StackOK, QueueOK, NoneLost, Suspended, WaitOK

LEMMA ArraysSame ==
  ASSUME Arrays, UNCHANGED <<servers, reading, writing, rq, wq>>
  PROVE  Arrays'
BY DEF Arrays, ArraysOK, ServersWatched, EventFindsWaiter, NoStrandedWaiter, Sole

\* The running coroutine has been started, and its sockets do not go back.
LEMMA LivesRunning ==
  ASSUME TypeOK, Queues, Lives, NEW co, Active(co), NEW name, name # "dead",
         pc' = [pc EXCEPT ![co] = name], errh' = errh,
         \A c \in Client : sk'[c] \in {"none", "backlog", "gone"} => sk'[c] = sk[c]
  PROVE  Lives'
<1>1. co \in Coroutine /\ pc[co] # "dead"
  BY ActivePopped DEF Queues
<1>2. \A d \in Coroutine : pc'[d] = "dead" <=> pc[d] = "dead"
  BY <1>1 DEF TypeOK
<1>3. Client \subseteq Coroutine
  BY DEF Coroutine
<1> QED
  BY <1>2, <1>3 DEF Lives, Unborn, HandlersOfLive, TypeOK

\* No coroutine begins or ends.
LEMMA LivesSame ==
  ASSUME TypeOK, Lives, pc' = pc, errh' = errh,
         \A c \in Client : sk'[c] \in {"none", "backlog", "gone"} =>
                              sk[c] \in {"none", "backlog", "gone"}
  PROVE  Lives'
BY DEF Lives, Unborn, HandlersOfLive, TypeOK, Coroutine

\* What a coroutine that yields leaves behind has the right types.
LEMMA TypesSuspend ==
  ASSUME TypeOK, Queues, NEW co, Active(co), NEW s \in Client,
         NEW name \in ReadWait \cup WriteWait, Suspend(co, s, name)
  PROVE  /\ stack' \in Seq(Coroutine)
         /\ pc' \in [Coroutine -> {"dead", "body", "receive", "send", "sent", "swapped", "connect"}]
         /\ arg' \in [Coroutine -> Client \cup {NIL}]
         /\ via' \in [Coroutine -> Client \cup {NIL}]
<1>1. Tail(stack) \in Seq(Coroutine)
  BY ActivePopped DEF Queues
<1> QED
  BY <1>1 DEF TypeOK, Suspend, ReadWait, WriteWait

LEMMA TypesYieldReading ==
  ASSUME TypeOK, NEW co \in Coroutine, NEW s \in Client, NEW name,
         YieldReading(co, s, name)
  PROVE  /\ rlog' \in [Client -> Age \cup {NIL}]
         /\ reading' \in Seq(Server \cup Client)
         /\ rq' \in [Client -> Seq(Coroutine)]
<1>1. 0 \in Age
  BY CopasAssumption DEF Age
<1>2. rlog' \in [Client -> Age \cup {NIL}]
  BY <1>1 DEF TypeOK, YieldReading, Log
<1>3. reading' \in Seq(Server \cup Client)
  <2>1. reading \in Seq(Server \cup Client) /\ s \in Server \cup Client
    BY DEF TypeOK
  <2> QED
    BY <2>1, AppendProperties DEF YieldReading, insert
<1>4. rq' \in [Client -> Seq(Coroutine)]
  <2>1. rq \in [Client -> Seq(Coroutine)] /\ rq' = [rq EXCEPT ![s] = Append(rq[s], co)]
    BY DEF TypeOK, YieldReading, push
  <2>2. Append(rq[s], co) \in Seq(Coroutine)
    BY <2>1, AppendProperties
  <2> QED
    BY <2>1, <2>2
<1> QED
  BY <1>2, <1>3, <1>4

LEMMA TypesYieldWriting ==
  ASSUME TypeOK, NEW co \in Coroutine, NEW s \in Client, NEW name,
         YieldWriting(co, s, name)
  PROVE  /\ wlog' \in [Client -> Age \cup {NIL}]
         /\ writing' \in Seq(Client)
         /\ wq' \in [Client -> Seq(Coroutine)]
<1>1. 0 \in Age
  BY CopasAssumption DEF Age
<1>2. wlog' \in [Client -> Age \cup {NIL}]
  BY <1>1 DEF TypeOK, YieldWriting, Log
<1>3. writing' \in Seq(Client)
  BY AppendProperties DEF TypeOK, YieldWriting, insert
<1>4. wq' \in [Client -> Seq(Coroutine)]
  <2>1. wq \in [Client -> Seq(Coroutine)] /\ wq' = [wq EXCEPT ![s] = Append(wq[s], co)]
    BY DEF TypeOK, YieldWriting, push
  <2>2. Append(wq[s], co) \in Seq(Coroutine)
    BY <2>1, AppendProperties
  <2> QED
    BY <2>1, <2>2
<1> QED
  BY <1>2, <1>3, <1>4

LEMMA ReceiveIInv ==
  ASSUME IInv, NEW co \in Coroutine, NEW s \in Client, Receive(co, s)
  PROVE  IInv'
<1> USE DEF IInv
<1>0. Active(co) /\ <<co, s>> \in Reads
  BY DEF Receive, Calling, InBody, Queues, WaitOK, ReadWait
<1>1. ASSUME Return(co), reading' = reading, rq' = rq, rlog' = [rlog EXCEPT ![s] = NIL],
             inp' = inp \/ (inp[s] > 0 /\ inp' = [inp EXCEPT ![s] = @ - 1])
      PROVE  IInv'
  <2>1. TypeOK'
    <3>1. inp' \in [Client -> 0..MaxData]
      <4>1. inp \in [Client -> 0..MaxData] /\ MaxData \in Nat
        BY CopasAssumption DEF TypeOK
      <4>2. inp[s] > 0 => inp[s] - 1 \in 0..MaxData
        BY <4>1
      <4> QED
        BY <1>1, <4>1, <4>2
    <3> QED
      BY <1>1, <3>1 DEF TypeOK, Receive, Return, loop
  <2>2. Queues'
    BY <1>0, <1>1, QueuesReturn DEF Receive
  <2>3. Arrays'
    BY <1>1, ArraysSame DEF Receive
  <2>4. Lives'
    BY <1>0, <1>1, LivesRunning DEF Receive, Return
  <2> QED
    BY <2>1, <2>2, <2>3, <2>4
<1>2. ASSUME YieldReading(co, s, "receive"), inp' = [inp EXCEPT ![s] = 0]
      PROVE  IInv'
  <2>0. "receive" \in ReadWait /\ "receive" # "dead"
    BY DEF ReadWait
  <2>1. TypeOK'
    <3>1. inp' \in [Client -> 0..MaxData]
      BY <1>2, CopasAssumption DEF TypeOK
    <3>2. /\ stack' \in Seq(Coroutine)
          /\ pc' \in [Coroutine -> {"dead", "body", "receive", "send", "sent", "swapped", "connect"}]
          /\ arg' \in [Coroutine -> Client \cup {NIL}]
          /\ via' \in [Coroutine -> Client \cup {NIL}]
      BY <1>0, <1>2, <2>0, TypesSuspend DEF YieldReading
    <3>3. /\ rlog' \in [Client -> Age \cup {NIL}]
          /\ reading' \in Seq(Server \cup Client)
          /\ rq' \in [Client -> Seq(Coroutine)]
      BY <1>2, TypesYieldReading
    <3> QED
      BY <3>1, <3>2, <3>3 DEF TypeOK, Receive, loop
  <2>2. Queues'
    BY <1>0, <1>2, <2>0, QueuesYieldReading DEF Receive
  <2>3. Arrays'
    BY <1>2, ArraysYieldReading DEF Receive
  <2>4. Lives'
    BY <1>0, <1>2, <2>0, LivesRunning DEF Receive, YieldReading, Suspend
  <2> QED
    BY <2>1, <2>2, <2>3, <2>4
<1> QED
  BY <1>1, <1>2 DEF Receive
\* What a call of the running coroutine that yields to be able to send leaves
\* behind, whatever it does to the sockets.
LEMMA WriteWaitIInv ==
  ASSUME IInv, NEW co, Active(co), NEW s \in Client, <<co, s>> \in Writes,
         NEW name \in WriteWait, YieldWriting(co, s, name),
         UNCHANGED <<servers, reading, rq, rlog, lastClean, errh, loop, inp, eof>>,
         room' \in [Client -> BOOLEAN],
         sk' \in [Client -> {"none", "backlog", "gone", "open", "closed"}],
         \A c \in Client : sk'[c] \in {"none", "backlog", "gone"} => sk'[c] = sk[c]
  PROVE  IInv'
<1> USE DEF IInv
<1>0. co \in Coroutine /\ name # "dead"
  BY ActivePopped DEF Queues, WriteWait
<1>1. TypeOK'
  <2>1. /\ stack' \in Seq(Coroutine)
        /\ pc' \in [Coroutine -> {"dead", "body", "receive", "send", "sent", "swapped", "connect"}]
        /\ arg' \in [Coroutine -> Client \cup {NIL}]
        /\ via' \in [Coroutine -> Client \cup {NIL}]
    BY TypesSuspend DEF YieldWriting
  <2>2. /\ wlog' \in [Client -> Age \cup {NIL}]
        /\ writing' \in Seq(Client)
        /\ wq' \in [Client -> Seq(Coroutine)]
    BY <1>0, TypesYieldWriting
  <2> QED
    BY <2>1, <2>2 DEF TypeOK, loop
<1>2. Queues'
  BY QueuesYieldWriting
<1>3. Arrays'
  BY ArraysYieldWriting
<1>4. Lives'
  BY <1>0, LivesRunning DEF YieldWriting, Suspend
<1> QED
  BY <1>1, <1>2, <1>3, <1>4

\* The same for a call that returns.
LEMMA WriteReturnIInv ==
  ASSUME IInv, NEW co, Active(co), NEW s, Return(co), wlog' = [wlog EXCEPT ![s] = NIL],
         UNCHANGED <<servers, reading, writing, rq, wq, rlog, lastClean, errh, loop, inp, eof>>,
         room' \in [Client -> BOOLEAN],
         sk' \in [Client -> {"none", "backlog", "gone", "open", "closed"}],
         \A c \in Client : sk'[c] \in {"none", "backlog", "gone"} => sk'[c] = sk[c]
  PROVE  IInv'
<1> USE DEF IInv
<1>1. TypeOK'
  BY DEF TypeOK, Return, loop
<1>2. Queues'
  BY QueuesReturn
<1>3. Arrays'
  BY ArraysSame
<1>4. Lives'
  BY LivesRunning DEF Return
<1> QED
  BY <1>1, <1>2, <1>3, <1>4

LEMMA SendIInv ==
  ASSUME IInv, NEW co \in Coroutine, NEW s \in Client, Send(co, s)
  PROVE  IInv'
<1>0. Active(co) /\ <<co, s>> \in Writes
  BY DEF Send, Calling, InBody, IInv, Queues, WaitOK, WriteWait
<1>1. /\ sk' \in [Client -> {"none", "backlog", "gone", "open", "closed"}]
      /\ \A c \in Client : sk'[c] \in {"none", "backlog", "gone"} => sk'[c] = sk[c]
      /\ room' \in [Client -> BOOLEAN]
      /\ UNCHANGED <<servers, reading, rq, rlog, lastClean, errh, loop, inp, eof>>
  BY DEF Send, IInv, TypeOK
<1>2. \/ wlog' = [wlog EXCEPT ![s] = NIL] /\ Return(co) /\ UNCHANGED <<writing, wq>>
      \/ \E name \in WriteWait : YieldWriting(co, s, name)
  BY DEF Send, WriteWait
<1>3. ASSUME wlog' = [wlog EXCEPT ![s] = NIL], Return(co), UNCHANGED <<writing, wq>>
      PROVE  IInv'
  BY <1>0, <1>1, <1>3, WriteReturnIInv
<1>4. ASSUME NEW name \in WriteWait, YieldWriting(co, s, name)
      PROVE  IInv'
  BY <1>0, <1>1, <1>4, WriteWaitIInv
<1> QED
  BY <1>2, <1>3, <1>4

LEMMA SendResumedIInv ==
  ASSUME IInv, NEW co \in Coroutine, SendResumed(co)
  PROVE  IInv'
<1>0. /\ Active(co) /\ arg[co] \in Client /\ <<co, arg[co]>> \in Writes
  BY DEF SendResumed, IInv, Queues, WaitOK, WriteWait
<1>1. /\ sk' \in [Client -> {"none", "backlog", "gone", "open", "closed"}]
      /\ \A c \in Client : sk'[c] \in {"none", "backlog", "gone"} => sk'[c] = sk[c]
      /\ room' \in [Client -> BOOLEAN]
      /\ UNCHANGED <<servers, reading, rq, rlog, lastClean, errh, loop, inp, eof>>
  BY DEF SendResumed, IInv, TypeOK, net
<1>2. "send" \in WriteWait
  BY DEF WriteWait
<1>3. ASSUME wlog' = [wlog EXCEPT ![arg[co]] = NIL], Return(co), UNCHANGED <<writing, wq>>
      PROVE  IInv'
  BY <1>0, <1>1, <1>3, WriteReturnIInv
<1>4. ASSUME YieldWriting(co, arg[co], "send")
      PROVE  IInv'
  BY <1>0, <1>1, <1>2, <1>4, WriteWaitIInv
<1> QED
  BY <1>3, <1>4 DEF SendResumed

LEMMA ConnectIInv ==
  ASSUME IInv, NEW co \in Coroutine, NEW s \in Client, Connect(co, s)
  PROVE  IInv'
<1>0. Active(co) /\ <<co, s>> \in Writes
  BY DEF Connect, InBody, IInv, Queues, WaitOK, WriteWait
<1>1. /\ sk' \in [Client -> {"none", "backlog", "gone", "open", "closed"}]
      /\ \A c \in Client : sk'[c] \in {"none", "backlog", "gone"} => sk'[c] = sk[c]
      /\ room' \in [Client -> BOOLEAN]
      /\ UNCHANGED <<servers, reading, rq, rlog, lastClean, errh, loop, inp, eof>>
  BY DEF Connect, IInv, TypeOK
<1>2. "connect" \in WriteWait
  BY DEF WriteWait
<1>3. ASSUME wlog' = [wlog EXCEPT ![s] = NIL], Return(co), UNCHANGED <<writing, wq>>
      PROVE  IInv'
  BY <1>0, <1>1, <1>3, WriteReturnIInv
<1>4. ASSUME YieldWriting(co, s, "connect")
      PROVE  IInv'
  BY <1>0, <1>1, <1>2, <1>4, WriteWaitIInv
<1> QED
  BY <1>3, <1>4 DEF Connect

LEMMA FinishIInv ==
  ASSUME IInv, NEW co \in Coroutine, Finish(co)
  PROVE  IInv'
<1> USE DEF IInv
<1>0. /\ Active(co)
      /\ stack' = Tail(stack)
      /\ pc' = [pc EXCEPT ![co] = "dead"]
      /\ via' = [via EXCEPT ![co] = NIL]
      /\ sk' = IF via[co] = NIL THEN sk ELSE [sk EXCEPT ![via[co]] = "closed"]
      /\ errh' = errh \ {co}
      /\ UNCHANGED <<servers, reading, writing, rq, wq, rlog, wlog, lastClean, loop, arg, inp, eof, room>>
  BY DEF Finish, InBody, ForgetHandler
<1>1. Tail(stack) \in Seq(Coroutine)
  BY <1>0, ActivePopped DEF Queues
<1>2. TypeOK'
  BY <1>0, <1>1 DEF TypeOK, loop
<1>3. Queues'
  BY <1>0, QueuesFinish
<1>4. Arrays'
  BY <1>0, ArraysSame
<1>5. Lives'
  <2>1. \A c \in Client : sk'[c] \in {"none", "backlog", "gone"} => sk'[c] = sk[c]
    BY <1>0 DEF TypeOK
  <2>2. \A d \in Coroutine : pc'[d] = IF d = co THEN "dead" ELSE pc[d]
    BY <1>0 DEF TypeOK
  <2> QED
    BY <1>0, <2>1, <2>2 DEF Lives, Unborn, HandlersOfLive, TypeOK, Coroutine
<1> QED
  BY <1>2, <1>3, <1>4, <1>5

LEMMA CloseIInv ==
  ASSUME IInv, NEW co \in Coroutine, NEW s \in Client, Close(co, s)
  PROVE  IInv'
<1> USE DEF IInv
<1>1. TypeOK'
  BY DEF Close, TypeOK, tables, loop, threads
<1>2. Queues'
  BY QueuesSame DEF Close, tables, threads
<1>3. Arrays'
  BY ArraysSame DEF Close, tables
<1>4. \A c \in Client : sk'[c] \in {"none", "backlog", "gone"} => sk'[c] = sk[c]
  BY DEF Close, TypeOK
<1>5. Lives'
  BY <1>4, LivesSame DEF Close, tables, threads
<1> QED
  BY <1>1, <1>2, <1>3, <1>5

LEMMA SetErrorHandlerIInv ==
  ASSUME IInv, NEW co \in Coroutine, SetErrorHandler(co)
  PROVE  IInv'
<1> USE DEF IInv
<1>1. TypeOK'
  BY DEF SetErrorHandler, TypeOK, loop, threads, net
<1>2. Queues'
  BY QueuesSame DEF SetErrorHandler, threads
<1>3. Arrays'
  BY ArraysSame DEF SetErrorHandler
<1>4. Lives'
  BY DEF SetErrorHandler, InBody, Lives, Unborn, HandlersOfLive, threads, net
<1> QED
  BY <1>1, <1>2, <1>3, <1>4

LEMMA AddServerIInv ==
  ASSUME IInv, NEW v \in Server, AddServer(v)
  PROVE  IInv'
<1> USE DEF IInv
<1>1. TypeOK'
  <2>1. reading' \in Seq(Server \cup Client)
    <3>1. reading \in Seq(Server \cup Client) /\ v \in Server \cup Client
      BY DEF TypeOK
    <3> QED
      BY <3>1, AppendProperties DEF AddServer, insert
  <2> QED
    BY <2>1 DEF AddServer, TypeOK, loop, threads, net
<1>2. Queues'
  BY QueuesSame DEF AddServer, threads
<1>3. Arrays'
  BY ArraysAddServer DEF AddServer
<1>4. Lives'
  BY LivesSame DEF AddServer, threads, net
<1> QED
  BY <1>1, <1>2, <1>3, <1>4

LEMMA AddThreadIInv ==
  ASSUME IInv, NEW t \in Thread, AddThread(t)
  PROVE  IInv'
<1> USE DEF IInv
<1>0. /\ t \in Coroutine /\ t \notin Client
      /\ pc[t] = "dead"
      /\ stack' = <<t>> \o stack
      /\ via' = [via EXCEPT ![t] = NIL]
      /\ pc' = [pc EXCEPT ![t] = "body"]
  BY CopasAssumption DEF AddThread, Resume, Coroutine
<1>1. TypeOK'
  BY <1>0 DEF TypeOK, AddThread, tables, loop, net
<1>2. Queues'
  BY <1>0, QueuesStart DEF AddThread, tables
<1>3. Arrays'
  BY ArraysSame DEF AddThread, tables
<1>4. Lives'
  BY <1>0 DEF Lives, Unborn, HandlersOfLive, TypeOK, AddThread, tables, net
<1> QED
  BY <1>1, <1>2, <1>3, <1>4

LEMMA TickAcceptIInv ==
  ASSUME IInv, NEW v \in Server, TickAccept(v)
  PROVE  IInv'
<1> USE DEF IInv
<1>1. ASSUME UNCHANGED <<threads, sk>>
      PROVE  IInv'
  <2>1. TypeOK'
    BY <1>1 DEF TypeOK, TickAccept, tables, threads
  <2>2. Queues'
    BY <1>1, QueuesSame DEF TickAccept, tables, threads
  <2>3. Arrays'
    BY ArraysSame DEF TickAccept, tables
  <2>4. Lives'
    BY <1>1, LivesSame DEF TickAccept, tables, threads
  <2> QED
    BY <2>1, <2>2, <2>3, <2>4
<1>2. ASSUME NEW c \in Incoming(v), sk' = [sk EXCEPT ![c] = "open"], Resume(c, c),
             pc' = [pc EXCEPT ![c] = "body"], arg' = arg
      PROVE  IInv'
  <2>0. /\ c \in Client /\ c \in Coroutine /\ sk[c] = "backlog" /\ pc[c] = "dead"
        /\ stack' = <<c>> \o stack
        /\ via' = [via EXCEPT ![c] = c]
    BY <1>2 DEF Incoming, Resume, Coroutine, Lives, Unborn
  <2>1. TypeOK'
    BY <1>2, <2>0 DEF TypeOK, TickAccept, tables
  <2>2. Queues'
    BY <1>2, <2>0, QueuesStart DEF TickAccept, tables
  <2>3. Arrays'
    BY ArraysSame DEF TickAccept, tables
  <2>4. Lives'
    BY <1>2, <2>0 DEF Lives, Unborn, HandlersOfLive, TypeOK, TickAccept, tables
  <2> QED
    BY <2>1, <2>2, <2>3, <2>4
<1> QED
  BY <1>1, <1>2 DEF TickAccept

\* An event resumes the first waiting coroutine, if there is one.
LEMMA TickReadIInv ==
  ASSUME IInv, NEW s \in Client, TickRead(s)
  PROVE  IInv'
<1> USE DEF IInv
<1>0. /\ reading' = remove(reading, s) /\ rq' = pop(rq, s)
      /\ UNCHANGED <<servers, writing, wq, rlog, wlog, lastClean, errh,
                     first, phase, now, overdue, wevs, pc, arg, net>>
      /\ revs' = revs \ {s}
  BY DEF TickRead
<1>1. Arrays'
  BY <1>0, ArraysDequeueReader
<1>2. Lives'
  BY <1>0, LivesSame DEF net
<1>3. reading' \in Seq(Server \cup Client)
  <2>1. reading \in Seq(Server \cup Client) /\ IsInjective(reading)
    BY DEF TypeOK, Arrays, ArraysOK
  <2> QED
    BY <1>0, <2>1, RemoveElems
<1>4. rq \in [Client -> Seq(Coroutine)] /\ IsInjective(rq[s])
  BY DEF TypeOK, Queues, QueueIntegrity, QueueOK
<1>5. CASE rq[s] = <<>>
  <2>1. rq' = rq /\ UNCHANGED <<stack, via>>
    BY <1>0, <1>4, <1>5, PopEmpty DEF TickRead
  <2>2. TypeOK'
    BY <1>0, <1>3, <2>1 DEF TypeOK, net
  <2>3. Queues'
    BY <1>0, <2>1, QueuesSame
  <2> QED
    BY <1>1, <1>2, <2>2, <2>3
<1>6. CASE rq[s] # <<>>
  <2>1. stack' = <<Head(rq[s])>> \o stack /\ via' = [via EXCEPT ![Head(rq[s])] = s]
    BY <1>6 DEF TickRead, Resume
  <2>2. Head(rq[s]) \in Coroutine
    BY <1>4, <1>6, PopElems
  <2>3. rq' \in [Client -> Seq(Coroutine)]
    BY <1>0, <1>4, <1>6, PopElems
  <2>4. TypeOK'
    BY <1>0, <1>3, <2>1, <2>2, <2>3 DEF TypeOK, net
  <2>5. Queues'
    BY <1>0, <1>6, <2>1, QueuesResumeReader
  <2> QED
    BY <1>1, <1>2, <2>4, <2>5
<1> QED
  BY <1>5, <1>6

LEMMA TickWriteIInv ==
  ASSUME IInv, NEW s \in Client, TickWrite(s)
  PROVE  IInv'
<1> USE DEF IInv
<1>0. /\ writing' = remove(writing, s) /\ wq' = pop(wq, s)
      /\ UNCHANGED <<servers, reading, rq, rlog, wlog, lastClean, errh,
                     first, phase, now, overdue, revs, pc, arg, net>>
      /\ wevs' = wevs \ {s}
  BY DEF TickWrite
<1>1. Arrays'
  BY <1>0, ArraysDequeueWriter
<1>2. Lives'
  BY <1>0, LivesSame DEF net
<1>3. writing' \in Seq(Client)
  <2>1. writing \in Seq(Client) /\ IsInjective(writing)
    BY DEF TypeOK, Arrays, ArraysOK
  <2> QED
    BY <1>0, <2>1, RemoveElems
<1>4. wq \in [Client -> Seq(Coroutine)] /\ IsInjective(wq[s])
  BY DEF TypeOK, Queues, QueueIntegrity, QueueOK
<1>5. CASE wq[s] = <<>>
  <2>1. wq' = wq /\ UNCHANGED <<stack, via>>
    BY <1>0, <1>4, <1>5, PopEmpty DEF TickWrite
  <2>2. TypeOK'
    BY <1>0, <1>3, <2>1 DEF TypeOK, net
  <2>3. Queues'
    BY <1>0, <2>1, QueuesSame
  <2> QED
    BY <1>1, <1>2, <2>2, <2>3
<1>6. CASE wq[s] # <<>>
  <2>1. stack' = <<Head(wq[s])>> \o stack /\ via' = [via EXCEPT ![Head(wq[s])] = s]
    BY <1>6 DEF TickWrite, Resume
  <2>2. Head(wq[s]) \in Coroutine
    BY <1>4, <1>6, PopElems
  <2>3. wq' \in [Client -> Seq(Coroutine)]
    BY <1>0, <1>4, <1>6, PopElems
  <2>4. TypeOK'
    BY <1>0, <1>3, <2>1, <2>2, <2>3 DEF TypeOK, net
  <2>5. Queues'
    BY <1>0, <1>6, <2>1, QueuesResumeWriter
  <2> QED
    BY <1>1, <1>2, <2>4, <2>5
<1> QED
  BY <1>5, <1>6
\* Steps that leave the coroutines, the arrays and their queues alone.
LEMMA OtherIInv ==
  ASSUME IInv, TypeOK', UNCHANGED <<servers, reading, writing, rq, wq, errh, stack, pc, arg>>,
         \A c \in Client : sk'[c] \in {"none", "backlog", "gone"} =>
                              sk[c] \in {"none", "backlog", "gone"}
  PROVE  IInv'
<1>1. Queues'
  BY QueuesSame DEF IInv
<1>2. Arrays'
  BY ArraysSame DEF IInv
<1>3. Lives'
  BY LivesSame DEF IInv
<1> QED
  BY <1>1, <1>2, <1>3 DEF IInv

LEMMA OlderAge ==
  ASSUME NEW a \in Age \cup {NIL}
  PROVE  Older(a) \in Age \cup {NIL} /\ (a \in Age => Older(a) \in Age)
BY CopasAssumption DEF Age, Older

LEMMA ClockTickIInv ==
  ASSUME IInv, ClockTick
  PROVE  IInv'
<1>1. TypeOK'
  <2>1. /\ rlog' \in [Client -> Age \cup {NIL}]
        /\ wlog' \in [Client -> Age \cup {NIL}]
    BY OlderAge DEF IInv, TypeOK, ClockTick
  <2>2. lastClean' \in Age /\ now' \in Age
    BY OlderAge DEF IInv, TypeOK, ClockTick
  <2> QED
    BY <2>1, <2>2 DEF IInv, TypeOK, ClockTick, threads, net
<1> QED
  BY <1>1, OtherIInv DEF ClockTick, threads, net

\* What Cleanse leaves has the right types, whatever the sockets it kicked.
LEMMA CleanseTypes ==
  ASSUME TypeOK, NEW kr \in SUBSET Client, NEW kw \in SUBSET Client, Cleanse(kr, kw),
         revs' \subseteq Server \cup Client, wevs' \subseteq Client,
         phase' \in {"main", "first", "failed"}
  PROVE  TypeOK'
<1>1. /\ rlog' \in [Client -> Age \cup {NIL}]
      /\ wlog' \in [Client -> Age \cup {NIL}]
      /\ lastClean' \in Age
  BY DEF Cleanse, TypeOK
<1>2. now' \in Age /\ overdue' \in [due : BOOLEAN, r : SUBSET Client, w : SUBSET Client]
  BY CopasAssumption DEF Cleanse, NothingOverdue, Age
<1> QED
  BY <1>1, <1>2 DEF Cleanse, TypeOK, threads, net

\* select is given elements of the array only.
LEMMA WatchedTypes ==
  ASSUME NEW S, NEW set \in Seq(S)
  PROVE  Watched(set) \subseteq S
<1> SUFFICES ASSUME NEW s \in Watched(set)
             PROVE  s \in S
  OBVIOUS
<1>1. PICK i \in 1..Len(set) : s = set[i]
  BY DEF Watched
<1> QED
  BY <1>1

LEMMA DispatchIInv ==
  ASSUME IInv, SelectEnter \/ SelectReturn \/ SelectError \/ TaskDone
  PROVE  IInv'
<1>1. ASSUME SelectEnter
      PROVE  IInv'
  <2>1. overdue' \in [due : BOOLEAN, r : SUBSET Client, w : SUBSET Client]
    BY <1>1 DEF SelectEnter, Overdue
  <2>2. now' \in Age
    BY <1>1, CopasAssumption DEF SelectEnter, Age
  <2>3. TypeOK'
    BY <1>1, <2>1, <2>2 DEF IInv, TypeOK, SelectEnter, tables, threads, net
  <2> QED
    BY <1>1, <2>3, OtherIInv DEF SelectEnter, tables, threads, net
<1> DEFINE r  == {s \in Watched(reading) : Readable(s)}
           w  == {s \in Watched(writing) : Writable(s)}
<1>0. /\ overdue.r \subseteq Client /\ overdue.w \subseteq Client
      /\ r \subseteq Server \cup Client /\ w \subseteq Client
  <2>1. reading \in Seq(Server \cup Client) /\ writing \in Seq(Client)
    BY DEF IInv, TypeOK
  <2>2. Watched(reading) \subseteq Server \cup Client /\ Watched(writing) \subseteq Client
    BY <2>1, WatchedTypes
  <2> QED
    BY <2>2 DEF IInv, TypeOK
<1>2. ASSUME SelectReturn
      PROVE  IInv'
  <2> DEFINE kr == Kicked(overdue.r, r)
             kw == Kicked(overdue.w, w)
  <2>1. kr \in SUBSET Client /\ kw \in SUBSET Client
    BY <1>0 DEF Kicked
  <2>2. revs' = r \cup kr /\ wevs' = w \cup kw /\ phase' \in {"main", "first"} /\ Cleanse(kr, kw)
    BY <1>2 DEF SelectReturn
  <2> HIDE DEF kr, kw, r, w
  <2>3. TypeOK'
    BY <1>0, <2>1, <2>2, CleanseTypes DEF IInv
  <2> QED
    BY <2>2, <2>3, OtherIInv DEF Cleanse, threads, net
<1>3. ASSUME SelectError
      PROVE  IInv'
  <2> DEFINE kr == Kicked(overdue.r, {})
             kw == Kicked(overdue.w, {})
  <2>1. kr \in SUBSET Client /\ kw \in SUBSET Client
    BY <1>0 DEF Kicked
  <2>2. revs' = kr /\ wevs' = kw /\ phase' = "failed" /\ Cleanse(kr, kw)
    BY <1>3 DEF SelectError
  <2> HIDE DEF kr, kw
  <2>3. TypeOK'
    BY <2>1, <2>2, CleanseTypes DEF IInv
  <2> QED
    BY <2>2, <2>3, OtherIInv DEF Cleanse, threads, net
<1>4. ASSUME TaskDone
      PROVE  IInv'
  <2>1. TypeOK'
    BY <1>4 DEF IInv, TypeOK, TaskDone, tables, threads, net
  <2> QED
    BY <1>4, <2>1, OtherIInv DEF TaskDone, tables, threads, net
<1> QED
  BY <1>1, <1>2, <1>3, <1>4

LEMMA NetworkIInv ==
  ASSUME IInv, NEW s \in Client, Arrive(s) \/ Abort(s) \/ Data(s) \/ PeerClose(s) \/ Drain(s)
  PROVE  IInv'
<1>1. /\ UNCHANGED <<tables, loop, threads>>
      /\ sk' \in [Client -> {"none", "backlog", "gone", "open", "closed"}]
      /\ eof' \in [Client -> BOOLEAN] /\ room' \in [Client -> BOOLEAN]
      /\ \A c \in Client : sk'[c] \in {"none", "backlog", "gone"} =>
                              sk[c] \in {"none", "backlog", "gone"}
  BY DEF IInv, TypeOK, Arrive, Abort, Data, PeerClose, Drain
<1>2. inp' \in [Client -> 0..MaxData]
  <2>1. inp \in [Client -> 0..MaxData] /\ MaxData \in Nat
    BY CopasAssumption DEF IInv, TypeOK
  <2>2. inp[s] < MaxData => inp[s] + 1 \in 0..MaxData
    BY <2>1
  <2>3. inp' = inp \/ (inp[s] < MaxData /\ inp' = [inp EXCEPT ![s] = @ + 1])
    BY DEF Arrive, Abort, Data, PeerClose, Drain
  <2> QED
    BY <2>1, <2>2, <2>3
<1>3. TypeOK'
  BY <1>1, <1>2 DEF IInv, TypeOK, tables, loop, threads
<1> QED
  BY <1>1, <1>3, OtherIInv DEF tables, threads

LEMMA InitIInv == Init => IInv
<1> SUFFICES ASSUME Init
             PROVE  IInv
  OBVIOUS
<1>1. /\ <<>> \in Seq(Server \cup Client) /\ <<>> \in Seq(Client) /\ <<>> \in Seq(Coroutine)
      /\ Range(<<>>) = {} /\ IsInjective(<<>>)
  BY EmptySeq DEF Range, IsInjective
<1>2. TypeOK
  BY <1>1, CopasAssumption DEF Init, TypeOK, Age, NothingOverdue
<1>3. Queues
  BY <1>1 DEF Init, Queues, QueueIntegrity, StackOK, QueueOK, NoneLost, Suspended, WaitOK,
              ReadWait, WriteWait
<1>4. Arrays
  BY <1>1 DEF Init, Arrays, ArraysOK, ServersWatched, EventFindsWaiter, NoStrandedWaiter
<1>5. Lives
  BY DEF Init, Lives, Unborn, HandlersOfLive, Coroutine
<1> QED
  BY <1>2, <1>3, <1>4, <1>5 DEF IInv

LEMMA NextIInv == IInv /\ [Next]_vars => IInv'
<1> SUFFICES ASSUME IInv, [Next]_vars
             PROVE  IInv'
  OBVIOUS
<1>1. ASSUME NEW co \in Coroutine, Handler(co)
      PROVE  IInv'
  <2>1. ASSUME NEW s \in Client, Receive(co, s) \/ Send(co, s) \/ Connect(co, s) \/ Close(co, s)
        PROVE  IInv'
    BY <2>1, ReceiveIInv, SendIInv, ConnectIInv, CloseIInv
  <2> QED
    BY <1>1, <2>1, SendResumedIInv, SetErrorHandlerIInv, FinishIInv DEF Handler
<1>2. ASSUME NEW t \in Thread, AddThread(t)
      PROVE  IInv'
  BY <1>2, AddThreadIInv
<1>3. ASSUME NEW v \in Server, AddServer(v)
      PROVE  IInv'
  BY <1>3, AddServerIInv
<1>4. ASSUME Dispatch
      PROVE  IInv'
  BY <1>4, DispatchIInv, TickAcceptIInv, TickReadIInv, TickWriteIInv DEF Dispatch
<1>5. ASSUME Network
      PROVE  IInv'
  BY <1>5, NetworkIInv DEF Network
<1>6. CASE UNCHANGED vars
  <2>1. TypeOK'
    BY <1>6 DEF IInv, TypeOK, vars, tables, loop, threads, net
  <2> QED
    BY <1>6, <2>1, OtherIInv DEF vars, tables, threads, net
<1> QED
  BY <1>1, <1>2, <1>3, <1>4, <1>5, <1>6, ClockTickIInv DEF Next
-----------------------------------------------------------------------------
(* The connections of handlers that have ended.                            *)

\* Only a socket that a coroutine opens itself is ever connected by connect.
Connecting == \A co \in Coroutine : pc[co] = "connect" => arg[co] \in Outgoing

\* A handler that waits on no other socket is always resumed through its own.
OwnSocket == \A c \in Client \ Outgoing : UsesOnly(c) =>
  /\ pc[c] # "dead" => via[c] = c
  /\ Connected(c) /\ pc[c] = "dead" => sk[c] = "closed"

Closing == Connecting /\ OwnSocket

\* Nothing happened to the coroutines, and no accepted connection was opened.
LEMMA ClosingSame ==
  ASSUME Closing, UNCHANGED <<pc, arg, via>>,
         \A c \in Client \ Outgoing : sk'[c] # "open" \/ sk'[c] = sk[c]
  PROVE  Closing'
BY DEF Closing, Connecting, OwnSocket, UsesOnly, Connected

\* The running coroutine made a call, which returned or waits.
LEMMA ClosingCall ==
  ASSUME TypeOK, Queues, Closing, NEW co, Active(co), NEW name, name # "dead",
         pc' = [pc EXCEPT ![co] = name], via' = via,
         \A d \in Coroutine : d # co => arg'[d] = arg[d],
         name = "connect" => arg'[co] \in Outgoing,
         \A c \in Client \ Outgoing : sk'[c] # "open" \/ sk'[c] = sk[c]
  PROVE  Closing'
<1>1. co \in Coroutine /\ pc[co] # "dead"
  BY ActivePopped DEF Queues
<1>2. \A d \in Coroutine : pc'[d] = IF d = co THEN name ELSE pc[d]
  BY <1>1 DEF TypeOK
<1>3. Connecting'
  BY <1>1, <1>2 DEF Closing, Connecting
<1>4. OwnSocket'
  <2> SUFFICES ASSUME NEW c \in Client \ Outgoing, UsesOnly(c)
               PROVE  /\ pc'[c] # "dead" => via'[c] = c
                      /\ Connected(c)' /\ pc'[c] = "dead" => sk'[c] = "closed"
    BY DEF OwnSocket, UsesOnly
  <2>1. c \in Coroutine /\ (pc'[c] = "dead" <=> pc[c] = "dead")
    BY <1>1, <1>2 DEF Coroutine
  <2> QED
    BY <2>1 DEF Closing, OwnSocket, Connected
<1> QED
  BY <1>3, <1>4 DEF Closing

LEMMA ClosingHandler ==
  ASSUME IInv, Closing, NEW co \in Coroutine, Handler(co)
  PROVE  Closing'
<1>0. TypeOK /\ Queues
  BY DEF IInv
<1>1. ASSUME NEW s \in Client, Receive(co, s)
      PROVE  Closing'
  <2>1. Active(co) /\ sk' = sk
    BY <1>1 DEF Receive, Calling, InBody
  <2>2. Return(co) \/ YieldReading(co, s, "receive")
    BY <1>1 DEF Receive
  <2>3. via' = via /\ \E name \in {"body", "receive"} : pc' = [pc EXCEPT ![co] = name]
    BY <2>2 DEF Return, YieldReading, Suspend
  <2>4. \A d \in Coroutine : d # co => arg'[d] = arg[d]
    BY <1>0, <2>2 DEF TypeOK, Return, YieldReading, Suspend
  <2> QED
    BY <1>0, <2>1, <2>3, <2>4, ClosingCall
<1>2. ASSUME NEW s \in Client, Send(co, s)
      PROVE  Closing'
  <2>1. Active(co) /\ sk' = sk
    BY <1>2 DEF Send, Calling, InBody
  <2>2. Return(co) \/ \E name \in {"send", "sent", "swapped"} : YieldWriting(co, s, name)
    BY <1>2 DEF Send
  <2>3. via' = via /\ \E name \in {"body", "send", "sent", "swapped"} : pc' = [pc EXCEPT ![co] = name]
    BY <2>2 DEF Return, YieldWriting, Suspend
  <2>4. \A d \in Coroutine : d # co => arg'[d] = arg[d]
    BY <1>0, <2>2 DEF TypeOK, Return, YieldWriting, Suspend
  <2> QED
    BY <1>0, <2>1, <2>3, <2>4, ClosingCall
<1>3. ASSUME NEW s \in Client, Connect(co, s)
      PROVE  Closing'
  <2>1. Active(co) /\ s \in Outgoing
    BY <1>3 DEF Connect, InBody, Closing, Connecting
  <2>2. \A c \in Client \ Outgoing : sk'[c] = sk[c]
    BY <1>0, <1>3, <2>1 DEF Connect, TypeOK
  <2>3. Return(co) \/ YieldWriting(co, s, "connect")
    BY <1>3 DEF Connect
  <2>4. \A d \in Coroutine : d # co => arg'[d] = arg[d]
    BY <1>0, <2>3 DEF TypeOK, Return, YieldWriting, Suspend
  <2>5. CASE Return(co)
    BY <1>0, <2>1, <2>2, <2>4, <2>5, ClosingCall DEF Return
  <2>6. CASE YieldWriting(co, s, "connect")
    <3>1. arg'[co] = s
      BY <1>0, <2>6 DEF TypeOK, YieldWriting, Suspend
    <3> QED
      BY <1>0, <2>1, <2>2, <2>4, <2>6, <3>1, ClosingCall DEF YieldWriting, Suspend
  <2> QED
    BY <2>3, <2>5, <2>6
<1>4. ASSUME NEW s \in Client, Close(co, s)
      PROVE  Closing'
  <2>1. \A c \in Client \ Outgoing : sk'[c] # "open" \/ sk'[c] = sk[c]
    BY <1>0, <1>4 DEF Close, TypeOK
  <2> QED
    BY <1>4, <2>1, ClosingSame DEF Close, threads
<1>5. ASSUME SendResumed(co)
      PROVE  Closing'
  <2>1. Active(co) /\ sk' = sk
    BY <1>5 DEF SendResumed, net
  <2>2. Return(co) \/ YieldWriting(co, arg[co], "send")
    BY <1>5 DEF SendResumed
  <2>3. via' = via /\ \E name \in {"body", "send"} : pc' = [pc EXCEPT ![co] = name]
    BY <2>2 DEF Return, YieldWriting, Suspend
  <2>4. \A d \in Coroutine : d # co => arg'[d] = arg[d]
    BY <1>0, <2>2 DEF TypeOK, Return, YieldWriting, Suspend
  <2> QED
    BY <1>0, <2>1, <2>3, <2>4, ClosingCall
<1>6. ASSUME SetErrorHandler(co)
      PROVE  Closing'
  BY <1>6, ClosingSame DEF SetErrorHandler, threads, net
<1>7. ASSUME Finish(co)
      PROVE  Closing'
  <2>1. /\ Active(co) /\ pc[co] # "dead"
        /\ pc' = [pc EXCEPT ![co] = "dead"] /\ via' = [via EXCEPT ![co] = NIL] /\ arg' = arg
        /\ sk' = IF via[co] = NIL THEN sk ELSE [sk EXCEPT ![via[co]] = "closed"]
    BY <1>7 DEF Finish, InBody
  <2>2. \A d \in Coroutine : /\ pc'[d] = IF d = co THEN "dead" ELSE pc[d]
                             /\ via'[d] = IF d = co THEN NIL ELSE via[d]
    BY <1>0, <2>1 DEF TypeOK
  <2>3. \A c \in Client : sk'[c] = IF c = via[co] THEN "closed" ELSE sk[c]
    BY <1>0, <2>1, CopasAssumption DEF TypeOK
  <2>4. Connecting'
    BY <2>1, <2>2 DEF Closing, Connecting
  <2>5. OwnSocket'
    <3> SUFFICES ASSUME NEW c \in Client \ Outgoing, UsesOnly(c)
                 PROVE  /\ pc'[c] # "dead" => via'[c] = c
                        /\ Connected(c)' /\ pc'[c] = "dead" => sk'[c] = "closed"
      BY DEF OwnSocket, UsesOnly
    <3>1. /\ c \in Coroutine
          /\ pc[c] # "dead" => via[c] = c
          /\ Connected(c) /\ pc[c] = "dead" => sk[c] = "closed"
      BY DEF Coroutine, Closing, OwnSocket
    <3>2. CASE c = co
      BY <2>1, <2>2, <2>3, <3>1, <3>2
    <3>3. CASE c # co
      BY <2>2, <2>3, <3>1, <3>3 DEF Connected
    <3> QED
      BY <3>2, <3>3
  <2> QED
    BY <2>4, <2>5 DEF Closing
<1> QED
  BY <1>1, <1>2, <1>3, <1>4, <1>5, <1>6, <1>7 DEF Handler

\* A coroutine is resumed: a handler that waits on its own socket through that one.
LEMMA ClosingResume ==
  ASSUME TypeOK, Queues, Closing, NEW co \in Coroutine, NEW s \in Client,
         Suspended(co), arg[co] = s, <<co, s>> \in Reads \cup Writes,
         via' = [via EXCEPT ![co] = s], UNCHANGED <<pc, arg, sk>>
  PROVE  Closing'
<1>1. \A c \in Client \ Outgoing : UsesOnly(c) /\ c = co => s = c
  BY DEF UsesOnly
<1>2. \A d \in Coroutine : via'[d] = IF d = co THEN s ELSE via[d]
  BY DEF TypeOK
<1> QED
  BY <1>1, <1>2 DEF Closing, Connecting, OwnSocket, UsesOnly, Connected, Coroutine

LEMMA ClosingTick ==
  ASSUME IInv, Closing, NEW s \in Client, TickRead(s) \/ TickWrite(s)
  PROVE  Closing'
<1>0. TypeOK /\ Queues /\ UNCHANGED <<pc, arg, sk>>
  BY DEF IInv, TickRead, TickWrite, net
<1>1. CASE UNCHANGED via
  BY <1>0, <1>1, ClosingSame
<1>2. ASSUME rq[s] # <<>>, via' = [via EXCEPT ![Head(rq[s])] = s]
      PROVE  Closing'
  <2> DEFINE co == Head(rq[s])
  <2>1. rq \in [Client -> Seq(Coroutine)] /\ IsInjective(rq[s])
    BY <1>0 DEF TypeOK, Queues, QueueIntegrity, QueueOK
  <2>2. co \in Coroutine /\ co \in Range(rq[s])
    BY <1>2, <2>1, PopElems
  <2>3. Suspended(co) /\ arg[co] = s /\ <<co, s>> \in Reads \cup Writes
    BY <1>0, <2>2 DEF Queues, QueueIntegrity, QueueOK, WaitOK
  <2> HIDE DEF co
  <2>4. via' = [via EXCEPT ![co] = s]
    BY <1>2 DEF co
  <2> QED
    BY <1>0, <2>2, <2>3, <2>4, ClosingResume
<1>3. ASSUME wq[s] # <<>>, via' = [via EXCEPT ![Head(wq[s])] = s]
      PROVE  Closing'
  <2> DEFINE co == Head(wq[s])
  <2>1. wq \in [Client -> Seq(Coroutine)] /\ IsInjective(wq[s])
    BY <1>0 DEF TypeOK, Queues, QueueIntegrity, QueueOK
  <2>2. co \in Coroutine /\ co \in Range(wq[s])
    BY <1>3, <2>1, PopElems
  <2>3. Suspended(co) /\ arg[co] = s /\ <<co, s>> \in Reads \cup Writes
    BY <1>0, <2>2 DEF Queues, QueueIntegrity, QueueOK, WaitOK
  <2> HIDE DEF co
  <2>4. via' = [via EXCEPT ![co] = s]
    BY <1>3 DEF co
  <2> QED
    BY <1>0, <2>2, <2>3, <2>4, ClosingResume
<1> QED
  BY <1>1, <1>2, <1>3 DEF TickRead, TickWrite, Resume

LEMMA ClosingAccept ==
  ASSUME IInv, Closing, NEW v \in Server, TickAccept(v)
  PROVE  Closing'
<1>0. TypeOK /\ Unborn
  BY DEF IInv, Lives
<1>1. CASE UNCHANGED <<threads, sk>>
  BY <1>1, ClosingSame DEF threads
<1>2. ASSUME NEW c \in Incoming(v), sk' = [sk EXCEPT ![c] = "open"], Resume(c, c),
             pc' = [pc EXCEPT ![c] = "body"], arg' = arg
      PROVE  Closing'
  <2>1. c \in Client /\ c \in Coroutine /\ via' = [via EXCEPT ![c] = c]
    BY <1>2 DEF Incoming, Resume, Coroutine
  <2>2. \A d \in Coroutine : /\ pc'[d] = IF d = c THEN "body" ELSE pc[d]
                             /\ via'[d] = IF d = c THEN c ELSE via[d]
    BY <1>0, <1>2, <2>1 DEF TypeOK
  <2>3. \A d \in Client : d # c => sk'[d] = sk[d]
    BY <1>0, <1>2 DEF TypeOK
  <2>4. Client \subseteq Coroutine
    BY DEF Coroutine
  <2> QED
    BY <1>2, <2>2, <2>3, <2>4 DEF Closing, Connecting, OwnSocket, UsesOnly, Connected
<1> QED
  BY <1>1, <1>2 DEF TickAccept

LEMMA ClosingNext == IInv /\ Closing /\ [Next]_vars => Closing'
<1> SUFFICES ASSUME IInv, Closing, [Next]_vars
             PROVE  Closing'
  OBVIOUS
<1>1. ASSUME NEW t \in Thread, AddThread(t)
      PROVE  Closing'
  <2>1. /\ t \notin Client /\ UNCHANGED <<arg, sk>>
        /\ pc' = [pc EXCEPT ![t] = "body"] /\ via' = [via EXCEPT ![t] = NIL]
    BY <1>1, CopasAssumption DEF AddThread, Resume, net
  <2>2. \A d \in Coroutine : d # t => pc'[d] = pc[d] /\ via'[d] = via[d]
    BY <2>1 DEF IInv, TypeOK
  <2>3. t \in Coroutine /\ pc'[t] = "body"
    BY <2>1 DEF IInv, TypeOK, Coroutine
  <2> QED
    BY <2>1, <2>2, <2>3 DEF Closing, Connecting, OwnSocket, UsesOnly, Connected, Coroutine
<1>2. ASSUME NEW v \in Server, AddServer(v)
      PROVE  Closing'
  BY <1>2, ClosingSame DEF AddServer, threads, net
<1>3. ASSUME SelectEnter \/ SelectReturn \/ SelectError \/ TaskDone \/ ClockTick
      PROVE  Closing'
  BY <1>3, ClosingSame DEF SelectEnter, SelectReturn, SelectError, Cleanse, TaskDone, ClockTick, threads, net
<1>4. ASSUME NEW s \in Client, Arrive(s) \/ Abort(s) \/ Data(s) \/ PeerClose(s) \/ Drain(s)
      PROVE  Closing'
  <2>1. UNCHANGED <<pc, arg, via>>
    BY <1>4 DEF Arrive, Abort, Data, PeerClose, Drain, threads
  <2>2. \A c \in Client \ Outgoing : sk'[c] # "open" \/ sk'[c] = sk[c]
    BY <1>4 DEF IInv, TypeOK, Arrive, Abort, Data, PeerClose, Drain
  <2> QED
    BY <2>1, <2>2, ClosingSame
<1>5. CASE UNCHANGED vars
  BY <1>5, ClosingSame DEF vars, threads, net
<1> QED
  BY <1>1, <1>2, <1>3, <1>4, <1>5, ClosingHandler, ClosingAccept, ClosingTick
     DEF Next, Dispatch, Network
-----------------------------------------------------------------------------
(* The watchdog.                                                           *)

\* Events are left only between select and the end of the task they are for.
EventsOfStep ==
  /\ phase \in {"main", "select"} => revs = {} /\ wevs = {}
  /\ phase = "second" => IF first = "read" THEN revs = {} ELSE wevs = {}

\* While select blocks no coroutine runs, and what was overdue before remains so.
LateBeforeSelect ==
  phase = "select" => /\ stack = <<>>
                      /\ \A s \in overdue.r : Rescued(rlog, s)
                      /\ \A s \in overdue.w : Rescued(wlog, s)

\* The two halves of WatchdogArmed.
ReadArmed  == \A s \in Client : Sole(Reads, s) /\ rq[s] # <<>> => (rlog[s] # NIL \/ s \in revs)
WriteArmed == \A s \in Client : Sole(Writes, s) /\ wq[s] # <<>> => (wlog[s] # NIL \/ s \in wevs)

Guarding == EventsOfStep /\ LateBeforeSelect /\ ReadArmed /\ WriteArmed

\* Nothing changed, or events were added.
LEMMA ReadArmedSame ==
  ASSUME ReadArmed, rq' = rq, rlog' = rlog, revs \cap Client \subseteq revs'
  PROVE  ReadArmed'
BY DEF ReadArmed, Sole

\* Whoever begins to wait is logged.
LEMMA ReadArmedYield ==
  ASSUME TypeOK, ReadArmed, NEW co, NEW s \in Client, NEW name, YieldReading(co, s, name), revs' = revs
  PROVE  ReadArmed'
<1>1. \A x \in Client : x # s => rq'[x] = rq[x] /\ rlog'[x] = rlog[x]
  BY DEF TypeOK, YieldReading, push, Log
<1>2. rlog'[s] # NIL
  BY CopasAssumption DEF TypeOK, YieldReading, Log
<1> QED
  BY <1>1, <1>2 DEF ReadArmed, Sole

\* A sole user whose call returns was the only one that could wait.
LEMMA ReadArmedReturn ==
  ASSUME TypeOK, Queues, ReadArmed, NEW co, Active(co), NEW s \in Client, <<co, s>> \in Reads,
         rlog' = [rlog EXCEPT ![s] = NIL], rq' = rq, revs' = revs
  PROVE  ReadArmed'
<1>1. co \in Coroutine /\ co \notin Range(rq[s])
  BY ActivePopped, RunningNotQueued DEF Queues
<1>2. \A c \in Range(rq[s]) : c \in Coroutine /\ <<c, s>> \in Reads
  BY AllCoroutines DEF Queues, QueueIntegrity, QueueOK, Suspended, WaitOK
<1>3. Sole(Reads, s) => Range(rq[s]) = {}
  BY <1>1, <1>2 DEF Sole
<1>4. rq[s] \in Seq(Coroutine)
  BY DEF TypeOK
<1>5. Sole(Reads, s) => rq[s] = <<>>
  BY <1>3, <1>4, NoElements
<1>6. \A x \in Client : x # s => rlog'[x] = rlog[x]
  BY DEF TypeOK
<1> QED
  BY <1>5, <1>6 DEF ReadArmed, Sole

\* The event of a sole user empties its queue.
LEMMA ReadArmedTick ==
  ASSUME TypeOK, Queues, ReadArmed, NEW s \in Client,
         rq' = pop(rq, s), rlog' = rlog, revs' = revs \ {s}
  PROVE  ReadArmed'
<1>1. Sole(Reads, s) => rq'[s] = <<>>
  BY OnlyReader
<1>2. \A x \in Client : x # s => rq'[x] = rq[x]
  BY DEF TypeOK, pop
<1> QED
  BY <1>1, <1>2 DEF ReadArmed, Sole

\* The watchdog takes an entry out of the log and makes an event of it.
LEMMA ReadArmedCleanse ==
  ASSUME ReadArmed, revs = {}, NEW k, k \subseteq revs', rq' = rq,
         rlog' = [s \in Client |-> IF s \in k THEN NIL ELSE rlog[s]]
  PROVE  ReadArmed'
BY DEF ReadArmed, Sole

LEMMA ReadArmedClock ==
  ASSUME TypeOK, ReadArmed, rq' = rq, revs' = revs, rlog' = [s \in Client |-> Older(rlog[s])]
  PROVE  ReadArmed'
<1>1. \A s \in Client : rlog[s] # NIL => rlog'[s] # NIL
  BY CopasAssumption DEF TypeOK, Age, Older
<1> QED
  BY <1>1 DEF ReadArmed, Sole

\* Nothing changed, or events were added.
LEMMA WriteArmedSame ==
  ASSUME WriteArmed, wq' = wq, wlog' = wlog, wevs \cap Client \subseteq wevs'
  PROVE  WriteArmed'
BY DEF WriteArmed, Sole

\* Whoever begins to wait is logged.
LEMMA WriteArmedYield ==
  ASSUME TypeOK, WriteArmed, NEW co, NEW s \in Client, NEW name, YieldWriting(co, s, name), wevs' = wevs
  PROVE  WriteArmed'
<1>1. \A x \in Client : x # s => wq'[x] = wq[x] /\ wlog'[x] = wlog[x]
  BY DEF TypeOK, YieldWriting, push, Log
<1>2. wlog'[s] # NIL
  BY CopasAssumption DEF TypeOK, YieldWriting, Log
<1> QED
  BY <1>1, <1>2 DEF WriteArmed, Sole

\* A sole user whose call returns was the only one that could wait.
LEMMA WriteArmedReturn ==
  ASSUME TypeOK, Queues, WriteArmed, NEW co, Active(co), NEW s \in Client, <<co, s>> \in Writes,
         wlog' = [wlog EXCEPT ![s] = NIL], wq' = wq, wevs' = wevs
  PROVE  WriteArmed'
<1>1. co \in Coroutine /\ co \notin Range(wq[s])
  BY ActivePopped, RunningNotQueued DEF Queues
<1>2. \A c \in Range(wq[s]) : c \in Coroutine /\ <<c, s>> \in Writes
  BY AllCoroutines DEF Queues, QueueIntegrity, QueueOK, Suspended, WaitOK
<1>3. Sole(Writes, s) => Range(wq[s]) = {}
  BY <1>1, <1>2 DEF Sole
<1>4. wq[s] \in Seq(Coroutine)
  BY DEF TypeOK
<1>5. Sole(Writes, s) => wq[s] = <<>>
  BY <1>3, <1>4, NoElements
<1>6. \A x \in Client : x # s => wlog'[x] = wlog[x]
  BY DEF TypeOK
<1> QED
  BY <1>5, <1>6 DEF WriteArmed, Sole

\* The event of a sole user empties its queue.
LEMMA WriteArmedTick ==
  ASSUME TypeOK, Queues, WriteArmed, NEW s \in Client,
         wq' = pop(wq, s), wlog' = wlog, wevs' = wevs \ {s}
  PROVE  WriteArmed'
<1>1. Sole(Writes, s) => wq'[s] = <<>>
  BY OnlyWriter
<1>2. \A x \in Client : x # s => wq'[x] = wq[x]
  BY DEF TypeOK, pop
<1> QED
  BY <1>1, <1>2 DEF WriteArmed, Sole

\* The watchdog takes an entry out of the log and makes an event of it.
LEMMA WriteArmedCleanse ==
  ASSUME WriteArmed, wevs = {}, NEW k, k \subseteq wevs', wq' = wq,
         wlog' = [s \in Client |-> IF s \in k THEN NIL ELSE wlog[s]]
  PROVE  WriteArmed'
BY DEF WriteArmed, Sole

LEMMA WriteArmedClock ==
  ASSUME TypeOK, WriteArmed, wq' = wq, wevs' = wevs, wlog' = [s \in Client |-> Older(wlog[s])]
  PROVE  WriteArmed'
<1>1. \A s \in Client : wlog[s] # NIL => wlog'[s] # NIL
  BY CopasAssumption DEF TypeOK, Age, Older
<1> QED
  BY <1>1 DEF WriteArmed, Sole

\* The dispatcher is not in select while a coroutine runs, and its events wait.
LEMMA StepsWhileRunning ==
  ASSUME EventsOfStep, LateBeforeSelect, stack # <<>>, UNCHANGED loop
  PROVE  EventsOfStep' /\ LateBeforeSelect'
BY DEF EventsOfStep, LateBeforeSelect, loop

LEMMA GuardingHandler ==
  ASSUME IInv, Guarding, NEW co \in Coroutine, Handler(co)
  PROVE  Guarding'
<1>0. TypeOK /\ Queues
  BY DEF IInv
<1>1. /\ Active(co) /\ UNCHANGED loop
      /\ UNCHANGED <<wq, wlog>> \/ UNCHANGED <<rq, rlog>>
  BY DEF Handler, Receive, Send, Connect, Close, SendResumed, SetErrorHandler, Finish,
         Calling, InBody, tables
<1>2. EventsOfStep' /\ LateBeforeSelect'
  BY <1>1, StepsWhileRunning DEF Guarding, Active
<1>3. revs' = revs /\ wevs' = wevs
  BY <1>1 DEF loop
<1>4. ASSUME UNCHANGED <<rq, rlog, wq, wlog>>
      PROVE  Guarding'
  BY <1>2, <1>3, <1>4, ReadArmedSame, WriteArmedSame DEF Guarding
<1>5. ASSUME NEW s \in Client, <<co, s>> \in Writes, UNCHANGED <<rq, rlog>>,
             \/ wlog' = [wlog EXCEPT ![s] = NIL] /\ wq' = wq
             \/ \E name \in WriteWait : YieldWriting(co, s, name)
      PROVE  Guarding'
  <2>1. WriteArmed'
    BY <1>0, <1>1, <1>3, <1>5, WriteArmedReturn, WriteArmedYield DEF Guarding
  <2> QED
    BY <1>2, <1>3, <1>5, <2>1, ReadArmedSame DEF Guarding
<1>6. ASSUME NEW s \in Client, Receive(co, s)
      PROVE  Guarding'
  <2>1. <<co, s>> \in Reads /\ UNCHANGED <<wq, wlog>>
    BY <1>0, <1>6 DEF Receive, Calling, Queues, WaitOK, ReadWait
  <2>2. \/ rlog' = [rlog EXCEPT ![s] = NIL] /\ rq' = rq
        \/ YieldReading(co, s, "receive")
    BY <1>6 DEF Receive
  <2>3. ReadArmed'
    BY <1>0, <1>1, <1>3, <2>1, <2>2, ReadArmedReturn, ReadArmedYield DEF Guarding
  <2> QED
    BY <1>2, <1>3, <2>1, <2>3, WriteArmedSame DEF Guarding
<1>7. ASSUME NEW s \in Client, Send(co, s)
      PROVE  Guarding'
  <2>1. <<co, s>> \in Writes /\ UNCHANGED <<rq, rlog>>
    BY <1>0, <1>7 DEF Send, Calling, Queues, WaitOK, WriteWait
  <2>2. \/ wlog' = [wlog EXCEPT ![s] = NIL] /\ wq' = wq
        \/ \E name \in WriteWait : YieldWriting(co, s, name)
    BY <1>7 DEF Send, WriteWait
  <2> QED
    BY <1>5, <2>1, <2>2
<1>8. ASSUME NEW s \in Client, Connect(co, s)
      PROVE  Guarding'
  <2>1. <<co, s>> \in Writes /\ UNCHANGED <<rq, rlog>>
    BY <1>0, <1>8 DEF Connect, Queues, WaitOK, WriteWait
  <2>2. \/ wlog' = [wlog EXCEPT ![s] = NIL] /\ wq' = wq
        \/ \E name \in WriteWait : YieldWriting(co, s, name)
    BY <1>8 DEF Connect, WriteWait
  <2> QED
    BY <1>5, <2>1, <2>2
<1>9. ASSUME SendResumed(co)
      PROVE  Guarding'
  <2>1. arg[co] \in Client /\ <<co, arg[co]>> \in Writes /\ UNCHANGED <<rq, rlog>>
    BY <1>0, <1>9 DEF SendResumed, Queues, WaitOK, WriteWait
  <2>2. \/ wlog' = [wlog EXCEPT ![arg[co]] = NIL] /\ wq' = wq
        \/ \E name \in WriteWait : YieldWriting(co, arg[co], name)
    BY <1>9 DEF SendResumed, WriteWait
  <2> QED
    BY <1>5, <2>1, <2>2
<1>10. ASSUME SetErrorHandler(co) \/ Finish(co) \/ \E s \in Client : Close(co, s)
       PROVE  Guarding'
  BY <1>4, <1>10 DEF SetErrorHandler, Finish, Close, tables
<1> QED
  BY <1>6, <1>7, <1>8, <1>9, <1>10 DEF Handler

\* What select reports and the watchdog adds: the only step that makes events.
LEMMA Kicks ==
  ASSUME IInv, Guarding, NEW r, NEW w, SelectReturn \/ SelectError,
         r = IF SelectReturn THEN {s \in Watched(reading) : Readable(s)} ELSE {},
         w = IF SelectReturn THEN {s \in Watched(writing) : Writable(s)} ELSE {}
  PROVE  \E kr, kw : /\ kr \subseteq overdue.r /\ kw \subseteq overdue.w
                     /\ revs' \subseteq r \cup kr /\ wevs' \subseteq w \cup kw
                     /\ kr \subseteq revs' /\ kw \subseteq wevs'
                     /\ Cleanse(kr, kw) /\ phase = "select"
                     /\ phase' \in {"main", "first", "failed"}
                     /\ phase' = "main" => revs' = {} /\ wevs' = {}
<1>1. CASE SelectReturn
  <2> DEFINE kr == Kicked(overdue.r, r)
             kw == Kicked(overdue.w, w)
  <2>1. /\ revs' = r \cup kr /\ wevs' = w \cup kw
        /\ phase' = IF revs' \cup wevs' = {} THEN "main" ELSE "first"
        /\ Cleanse(kr, kw) /\ phase = "select"
    BY <1>1 DEF SelectReturn
  <2>2. kr \subseteq overdue.r /\ kw \subseteq overdue.w
    BY DEF Kicked
  <2> HIDE DEF kr, kw
  <2> QED
    BY <2>1, <2>2
<1>2. CASE SelectError
  <2> DEFINE kr == Kicked(overdue.r, {})
             kw == Kicked(overdue.w, {})
  <2>1. /\ revs' = kr /\ wevs' = kw /\ phase' = "failed" /\ Cleanse(kr, kw) /\ phase = "select"
    BY <1>2 DEF SelectError
  <2>2. kr \subseteq overdue.r /\ kw \subseteq overdue.w
    BY DEF Kicked
  <2> HIDE DEF kr, kw
  <2> QED
    BY <2>1, <2>2
<1> QED
  BY <1>1, <1>2

LEMMA GuardingSelect ==
  ASSUME IInv, Guarding, SelectReturn \/ SelectError
  PROVE  Guarding' /\ WakesLate
<1> DEFINE r == IF SelectReturn THEN {s \in Watched(reading) : Readable(s)} ELSE {}
           w == IF SelectReturn THEN {s \in Watched(writing) : Writable(s)} ELSE {}
<1>0. (\A s \in r : Readable(s)) /\ (\A s \in w : Writable(s))
  OBVIOUS
<1> HIDE DEF r, w
<1>1. PICK kr, kw : /\ kr \subseteq overdue.r /\ kw \subseteq overdue.w
                    /\ revs' \subseteq r \cup kr /\ wevs' \subseteq w \cup kw
                    /\ kr \subseteq revs' /\ kw \subseteq wevs'
                    /\ Cleanse(kr, kw) /\ phase = "select"
                    /\ phase' \in {"main", "first", "failed"}
                    /\ phase' = "main" => revs' = {} /\ wevs' = {}
  BY Kicks DEF r, w
<1>2. /\ rlog' = [s \in Client |-> IF s \in kr THEN NIL ELSE rlog[s]]
      /\ wlog' = [s \in Client |-> IF s \in kw THEN NIL ELSE wlog[s]]
      /\ rq' = rq /\ wq' = wq
  BY <1>1 DEF Cleanse
<1>3. revs = {} /\ wevs = {}
  BY <1>1 DEF Guarding, EventsOfStep
<1>4. ReadArmed' /\ WriteArmed'
  BY <1>1, <1>2, <1>3, ReadArmedCleanse, WriteArmedCleanse DEF Guarding
<1>5. EventsOfStep' /\ LateBeforeSelect'
  BY <1>1 DEF EventsOfStep, LateBeforeSelect
<1>6. /\ \A s \in kr : s \in Client /\ Rescued(rlog, s) /\ rlog'[s] = NIL
      /\ \A s \in kw : s \in Client /\ Rescued(wlog, s) /\ wlog'[s] = NIL
  <2>1. overdue.r \subseteq Client /\ overdue.w \subseteq Client
    BY DEF IInv, TypeOK
  <2> QED
    BY <1>1, <1>2, <2>1 DEF Guarding, LateBeforeSelect
<1>7. WakesLate
  BY <1>0, <1>1, <1>6 DEF WakesLate
<1> QED
  BY <1>4, <1>5, <1>7 DEF Guarding

\* What is late when select is entered is so while select blocks.
LEMMA LateStaysLate ==
  ASSUME NEW log \in [Client -> Age \cup {NIL}], NEW s \in Client, Rescued(log, s)
  PROVE  Rescued([x \in Client |-> Older(log[x])], s)
<1>1. log[s] \in Nat /\ log[s] # NIL /\ log[s] > WatchDog /\ WatchDog \in Nat
  BY CopasAssumption DEF Rescued, Age
<1>2. Older(log[s]) = log[s]
  BY <1>1 DEF Older
<1> QED
  BY <1>1, <1>2 DEF Rescued

LEMMA GuardingDispatch ==
  ASSUME IInv, Guarding, Dispatch
  PROVE  Guarding' /\ WakesLate
<1>0. TypeOK /\ Queues
  BY DEF IInv
<1>1. ASSUME SelectEnter
      PROVE  Guarding' /\ WakesLate
  <2>1. /\ stack = <<>> /\ phase = "main" /\ phase' = "select"
        /\ overdue'.r = Overdue(rlog) /\ overdue'.w = Overdue(wlog)
        /\ UNCHANGED <<revs, wevs, rq, wq, rlog, wlog, stack>>
    BY <1>1 DEF SelectEnter, Idle, tables, threads
  <2>2. LateBeforeSelect'
    BY <2>1 DEF LateBeforeSelect, Overdue, Rescued
  <2>3. EventsOfStep' /\ ReadArmed' /\ WriteArmed'
    BY <2>1, ReadArmedSame, WriteArmedSame DEF Guarding, EventsOfStep
  <2> QED
    BY <2>1, <2>2, <2>3 DEF Guarding, WakesLate
<1>2. ASSUME TaskDone
      PROVE  Guarding' /\ WakesLate
  <2>1. UNCHANGED <<first, revs, wevs, rq, wq, rlog, wlog>>
    BY <1>2 DEF TaskDone, tables
  <2>2. first \in {"read", "write"}
    BY <1>0 DEF TypeOK
  <2>3. EventsOfStep' /\ LateBeforeSelect'
    BY <1>2, <2>1, <2>2 DEF TaskDone, Task, Guarding, EventsOfStep, LateBeforeSelect
  <2> QED
    BY <2>1, <2>3, ReadArmedSame, WriteArmedSame DEF Guarding, WakesLate
<1>3. ASSUME NEW v \in Server, TickAccept(v)
      PROVE  Guarding' /\ WakesLate
  <2>1. /\ phase \in {"first", "second"} /\ revs' = revs \ {v}
        /\ UNCHANGED <<first, phase, wevs, rq, wq, rlog, wlog>>
    BY <1>3 DEF TickAccept, Task, tables
  <2>2. v \notin Client
    BY CopasAssumption
  <2>3. EventsOfStep' /\ LateBeforeSelect'
    BY <2>1 DEF Guarding, EventsOfStep, LateBeforeSelect
  <2> QED
    BY <2>1, <2>2, <2>3, ReadArmedSame, WriteArmedSame DEF Guarding, WakesLate
<1>4. ASSUME NEW s \in Client, TickRead(s)
      PROVE  Guarding' /\ WakesLate
  <2>1. /\ phase \in {"first", "second"} /\ revs' = revs \ {s} /\ rq' = pop(rq, s)
        /\ UNCHANGED <<first, phase, wevs, wq, rlog, wlog>>
    BY <1>4 DEF TickRead, Task
  <2>2. EventsOfStep' /\ LateBeforeSelect'
    BY <2>1 DEF Guarding, EventsOfStep, LateBeforeSelect
  <2> QED
    BY <1>0, <2>1, <2>2, ReadArmedTick, WriteArmedSame DEF Guarding, WakesLate
<1>5. ASSUME NEW s \in Client, TickWrite(s)
      PROVE  Guarding' /\ WakesLate
  <2>1. /\ phase \in {"first", "second"} /\ wevs' = wevs \ {s} /\ wq' = pop(wq, s)
        /\ UNCHANGED <<first, phase, revs, rq, rlog, wlog>>
    BY <1>5 DEF TickWrite, Task
  <2>2. EventsOfStep' /\ LateBeforeSelect'
    BY <2>1 DEF Guarding, EventsOfStep, LateBeforeSelect
  <2> QED
    BY <1>0, <2>1, <2>2, WriteArmedTick, ReadArmedSame DEF Guarding, WakesLate
<1> QED
  BY <1>1, <1>2, <1>3, <1>4, <1>5, GuardingSelect DEF Dispatch

LEMMA GuardingNext == IInv /\ Guarding /\ [Next]_vars => Guarding' /\ WakesLate
<1> SUFFICES ASSUME IInv, Guarding, [Next]_vars
             PROVE  Guarding' /\ WakesLate
  OBVIOUS
<1>0. TypeOK /\ Queues
  BY DEF IInv
<1>1. ASSUME NEW co \in Coroutine, Handler(co)
      PROVE  Guarding' /\ WakesLate
  <2>1. UNCHANGED loop
    BY <1>1 DEF Handler, Receive, Send, Connect, Close, SendResumed, SetErrorHandler, Finish
  <2> QED
    BY <1>1, <2>1, GuardingHandler DEF WakesLate, loop
<1>2. ASSUME UNCHANGED <<rq, wq, rlog, wlog, loop>>,
             Program \/ stack' = stack
      PROVE  Guarding' /\ WakesLate
  <2>1. EventsOfStep' /\ LateBeforeSelect'
    BY <1>2 DEF Guarding, EventsOfStep, LateBeforeSelect, Program, loop
  <2> QED
    BY <1>2, <2>1, ReadArmedSame, WriteArmedSame DEF Guarding, WakesLate, loop
<1>3. ASSUME NEW t \in Thread, AddThread(t)
      PROVE  Guarding' /\ WakesLate
  BY <1>2, <1>3 DEF AddThread, tables
<1>4. ASSUME NEW v \in Server, AddServer(v)
      PROVE  Guarding' /\ WakesLate
  BY <1>2, <1>4 DEF AddServer
<1>5. ASSUME Network
      PROVE  Guarding' /\ WakesLate
  BY <1>2, <1>5 DEF Network, Arrive, Abort, Data, PeerClose, Drain, tables, threads
<1>6. ASSUME ClockTick
      PROVE  Guarding' /\ WakesLate
  <2>1. /\ UNCHANGED <<rq, wq, first, phase, overdue, revs, wevs, stack>>
        /\ rlog' = [s \in Client |-> Older(rlog[s])]
        /\ wlog' = [s \in Client |-> Older(wlog[s])]
    BY <1>6 DEF ClockTick, threads
  <2>2. ReadArmed' /\ WriteArmed'
    BY <1>0, <2>1, ReadArmedClock, WriteArmedClock DEF Guarding
  <2>3. LateBeforeSelect'
    <3>1. /\ overdue.r \subseteq Client /\ overdue.w \subseteq Client
          /\ rlog \in [Client -> Age \cup {NIL}] /\ wlog \in [Client -> Age \cup {NIL}]
      BY <1>0 DEF TypeOK
    <3>2. /\ \A s \in Client : Rescued(rlog, s) => Rescued(rlog', s)
          /\ \A s \in Client : Rescued(wlog, s) => Rescued(wlog', s)
      BY <2>1, <3>1, LateStaysLate
    <3> QED
      BY <2>1, <3>1, <3>2 DEF Guarding, LateBeforeSelect
  <2>4. EventsOfStep'
    BY <2>1 DEF Guarding, EventsOfStep
  <2> QED
    BY <2>1, <2>2, <2>3, <2>4 DEF Guarding, WakesLate
<1>7. CASE UNCHANGED vars
  BY <1>2, <1>7 DEF vars, tables, threads
<1> QED
  BY <1>1, <1>3, <1>4, <1>5, <1>6, <1>7, GuardingDispatch DEF Next
-----------------------------------------------------------------------------
(* The place of a server in the array.                                     *)

LEMMA ServersStayNext ==
  ASSUME IInv, [Next]_vars, NEW v \in servers
  PROVE  IndexIn(reading', v) <= IndexIn(reading, v)
<1>1. /\ reading \in Seq(Server \cup Client) /\ IsInjective(reading)
      /\ v \in Range(reading) /\ v \in Server /\ v \notin Client
  BY CopasAssumption DEF IInv, TypeOK, Arrays, ArraysOK, ServersWatched
<1>2. IndexIn(reading, v) \in Nat
  BY <1>1 DEF IndexIn, Range
<1>3. ASSUME NEW s \in Server \cup Client, reading' = insert(reading, s)
      PROVE  IndexIn(reading', v) <= IndexIn(reading, v)
  <2> DEFINE new == insert(reading, s)
  <2>1. IndexIn(new, v) = IndexIn(reading, v)
    BY <1>1, InsertKeepsIndex
  <2> QED
    BY <1>2, <1>3, <2>1
<1>4. ASSUME NEW s \in Client, reading' = remove(reading, s)
      PROVE  IndexIn(reading', v) <= IndexIn(reading, v)
  <2> DEFINE new == remove(reading, s)
  <2>1. IndexIn(new, v) <= IndexIn(reading, v)
    BY <1>1, RemoveKeepsIndex
  <2> QED
    BY <1>4, <2>1
<1>5. \/ reading' = reading
      \/ \E s \in Server \cup Client : reading' = insert(reading, s)
      \/ \E s \in Client : reading' = remove(reading, s)
  <2>1. ASSUME NEW co \in Coroutine, Handler(co)
        PROVE  reading' = reading \/ \E s \in Client : reading' = insert(reading, s)
    BY <2>1 DEF Handler, Receive, Send, Connect, Close, SendResumed, SetErrorHandler, Finish,
                YieldReading, tables
  <2>2. ASSUME Dispatch
        PROVE  reading' = reading \/ \E s \in Client : reading' = remove(reading, s)
    BY <2>2 DEF Dispatch, SelectEnter, SelectReturn, SelectError, Cleanse, TaskDone, TickAccept,
                TickRead, TickWrite, tables
  <2>3. ASSUME Network \/ ClockTick \/ UNCHANGED vars \/ \E t \in Thread : AddThread(t)
        PROVE  reading' = reading
    BY <2>3 DEF Network, Arrive, Abort, Data, PeerClose, Drain, ClockTick, AddThread, vars, tables
  <2>4. ASSUME NEW u \in Server, AddServer(u)
        PROVE  reading' = insert(reading, u)
    BY <2>4 DEF AddServer
  <2> QED
    BY <2>1, <2>2, <2>3, <2>4 DEF Next
<1> QED
  BY <1>2, <1>3, <1>4, <1>5
-----------------------------------------------------------------------------
\* The inductive invariant of the dispatcher.
THEOREM Invariant == Spec => []IInv
BY InitIInv, NextIInv, PTL DEF Spec

\* Every variable keeps its type.
THEOREM TypeCorrect == Spec => []TypeOK
<1>1. IInv => TypeOK
  BY DEF IInv
<1> QED
  BY Invariant, <1>1, PTL

\* Coroutines and queues stay in step: nothing is resumed that does not wait for
\* the event, and nothing that waits is lost (copas.lua:240-274).
THEOREM QueuesInStep == Spec => []QueueIntegrity
<1>1. IInv => QueueIntegrity
  BY DEF IInv, Queues
<1> QED
  BY Invariant, <1>1, PTL

\* A socket is given to select exactly while its only user waits for it
\* (copas.lua:117-170, 330-358).
THEOREM SoleUserIsWatched == Spec => []NoStrandedWaiter
<1>1. IInv => NoStrandedWaiter
  BY DEF IInv, Arrays
<1> QED
  BY Invariant, <1>1, PTL

\* An event of a socket in the array finds a coroutine to resume, whoever shares
\* the socket (copas.lua:268-274).
THEOREM EventsAreUsed == Spec => []EventFindsWaiter
<1>1. IInv => EventFindsWaiter
  BY DEF IInv, Arrays
<1> QED
  BY Invariant, <1>1, PTL

\* A server, once added, is always given to select (copas.lua:279-283).
THEOREM ServersStay == Spec => []ServersWatched
<1>1. IInv => ServersWatched
  BY DEF IInv, Arrays
<1> QED
  BY Invariant, <1>1, PTL

\* No error handler outlives its coroutine (copas.lua:225-253).
THEOREM HandlersDieWithCoroutine == Spec => []HandlersOfLive
<1>1. IInv => HandlersOfLive
  BY DEF IInv, Lives
<1> QED
  BY Invariant, <1>1, PTL

\* The tables are consistent whatever the coroutines do (copas.lua:46-101, 225-283).
THEOREM TablesConsistent == Spec => []Consistent
<1>1. TypeOK /\ QueueIntegrity /\ ServersWatched /\ HandlersOfLive => Consistent
  BY DEF Consistent
<1> QED
  BY TypeCorrect, QueuesInStep, ServersStay, HandlersDieWithCoroutine, <1>1, PTL

\* Select is given the sockets that are waited for (copas.lua:117-170, 240-274).
THEOREM WatchesWaiters == Spec => []Watching
<1>1. NoStrandedWaiter /\ EventFindsWaiter => Watching
  BY DEF Watching
<1> QED
  BY SoleUserIsWatched, EventsAreUsed, <1>1, PTL
\* A connection whose handler has ended is closed, when the handler waits on no other
\* socket (copas.lua:240-253).
THEOREM FinishedConnectionsClosed == Spec => []FinishedIsClosed
<1>1. Init => Closing
  BY CopasAssumption DEF Init, Closing, Connecting, OwnSocket, Connected, Coroutine
<1>2. Closing => FinishedIsClosed
  BY DEF Closing, OwnSocket, FinishedIsClosed
<1> QED
  BY Invariant, ClosingNext, <1>1, <1>2, PTL DEF Spec

\* The watchdog has an entry, or an event, for every sole user of a socket that waits,
\* and wakes nobody before its time (copas.lua:117-170, 378-397).
THEOREM WatchdogWorks == Spec => WatchdogInTime
<1>1. Init => Guarding
  BY DEF Init, Guarding, EventsOfStep, LateBeforeSelect, ReadArmed, WriteArmed
<1>2. IInv /\ Guarding /\ [Next]_vars => Guarding' /\ WakesLate
  BY GuardingNext
<1>3. Guarding' => WatchdogArmed'
  BY DEF Guarding, ReadArmed, WriteArmed, WatchdogArmed, Sole
<1> QED
  BY Invariant, <1>1, <1>2, <1>3, PTL DEF Spec, WatchdogInTime

\* No server moves back in the array given to select (copas.lua:62-81).
THEOREM ServersKeepPlace == Spec => ServerKeepsPlace
<1>1. IInv /\ [Next]_vars => \A v \in servers : IndexIn(reading', v) <= IndexIn(reading, v)
  BY ServersStayNext
<1> QED
  BY Invariant, <1>1, PTL DEF Spec, ServerKeepsPlace
=============================================================================
